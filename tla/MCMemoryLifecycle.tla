------------------------- MODULE MCMemoryLifecycle -------------------------
(* MemoryLifecycle for a few crews of workers, reviewers and records, one   *)
(* of them chosen at the start.                                             *)
EXTENDS MemoryLifecycle

CONSTANTS w1, w2, v1, v2, m1, m2, d1

VARIABLE crew

Crew(workers, reviewers, items, entries_, touches_, losses_) ==
  [workers |-> workers, reviewers |-> reviewers, items |-> items,
   spent |-> [entries |-> MaxEntries - entries_, touches |-> MaxTouches - touches_,
              losses |-> MaxLosses - losses_]]

\* Two workers and a pair; one worker, one reviewer, a pair and a loss; two
\* reviewers; a document.
Crews ==
  {Crew({w1, w2}, {}, {m1, m2}, 2, 1, 0), Crew({w1}, {v1}, {m1, m2}, 1, 1, 1),
   Crew({w1}, {v1, v2}, {m1}, 1, 1, 0),   Crew({w1, w2}, {}, {d1}, 1, 2, 1)}

CrewInit == crew \in Crews /\ LifecycleInitWith(crew.items, crew.spent)

OnDuty ==
  /\ \A w \in Processor \ crew.workers : job'[w] = job[w]
  /\ \A v \in Reviewer \ crew.reviewers : review'[v] = review[v]
  /\ UNCHANGED crew

CrewNext == LifecycleNext /\ OnDuty

CrewSpec ==
  /\ CrewInit /\ [][CrewNext]_<<lifecycleVars, crew>>
  /\ \A w \in Processor : WF_lifecycleVars(JobStep(w) /\ OnDuty)
  /\ WF_lifecycleVars(Scan /\ OnDuty)
  /\ \A stage \in Stage, i \in Item : WF_lifecycleVars(LockLapses(stage, i) /\ OnDuty)
=============================================================================
