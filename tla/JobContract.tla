---------------------------- MODULE JobContract ----------------------------
(***************************************************************************)
(* What the freshness queue promises its producers, without lists, workers *)
(* or locks: a job that was accepted is stored durably, it may be run any  *)
(* number of times, and it is given up only after a run of it has begun.   *)
(***************************************************************************)
CONSTANTS Job, Malformed

VARIABLES
  accepted,  \* jobs the producer handed over
  stored,    \* jobs that survive a crash of every worker
  begun      \* jobs whose run has started at least once

vars == <<accepted, stored, begun>>

Init == accepted = {} /\ stored = {} /\ begun = {}

Accept(j) ==
  /\ j \notin accepted
  /\ accepted' = accepted \cup {j}
  /\ stored' = stored \cup {j}
  /\ UNCHANGED begun

\* A run starts; a second worker may run a job that is no longer stored.
Begin(j) ==
  /\ j \in accepted \ Malformed
  /\ begun' = begun \cup {j}
  /\ UNCHANGED <<accepted, stored>>

Retire(j) ==
  /\ j \in stored
  /\ j \in begun \cup Malformed
  /\ stored' = stored \ {j}
  /\ UNCHANGED <<accepted, begun>>

Next == \E j \in Job : Accept(j) \/ Begin(j) \/ Retire(j)

Spec == Init /\ [][Next]_vars
=============================================================================
