---------------------------- MODULE MCFreshness ----------------------------
(***************************************************************************)
(* The two halves of the freshness pipeline under fair workers, one or the *)
(* other in a behaviour: the lists that bring jobs to the workers, with    *)
(* calls that fail and workers that die, and what a job then does to its   *)
(* record.  The other half stays as it was at the start.                   *)
(***************************************************************************)
EXTENDS MCQueueCasts, MCMemoryLifecycle

VARIABLE half

FreshnessInit ==
  /\ Init /\ CrewInit
  /\ \/ half = "queue" /\ cast \in LiveCasts /\ crew = CHOOSE c \in Crews : TRUE
     \/ half = "work" /\ cast = CHOOSE c \in LiveCasts : TRUE

FreshnessNext ==
  /\ \/ half = "queue" /\ Next /\ OnStage /\ UNCHANGED <<lifecycleVars, crew>>
     \/ half = "work" /\ CrewNext /\ UNCHANGED <<vars, cast>>
  /\ UNCHANGED half

QueueIsFair ==
  \A w \in Worker :
    /\ WF_vars(half = "queue" /\ WorkerStep(w))
    /\ WF_vars(half = "queue" /\ ~Alive(w) /\ HeartbeatExpires(w))
    /\ WF_vars(half = "queue" /\ LockExpires(w) /\ ~lockLost')

WorkIsFair ==
  /\ \A w \in Processor : WF_lifecycleVars(half = "work" /\ JobStep(w) /\ OnDuty)
  /\ WF_lifecycleVars(half = "work" /\ Scan)
  /\ \A stage \in Stage, i \in Item :
        WF_lifecycleVars(half = "work" /\ LockLapses(stage, i))

FreshnessSpec ==
  /\ FreshnessInit /\ [][FreshnessNext]_<<half, vars, cast, lifecycleVars, crew>>
  /\ QueueIsFair /\ WorkIsFair
=============================================================================
