--------------------------- MODULE FreshnessQueue ---------------------------
(***************************************************************************)
(* The reliable job queue of the freshness pipeline: the Redis lists, keys *)
(* and locks of freshness/coordination.py and the worker loop of           *)
(* memory/freshness/worker.py that drives them.                            *)
(*                                                                         *)
(* A job waits on the list of its workspace.  A worker LMOVEs it to its    *)
(* own processing list, runs the pipeline on it and LREMs it.  A worker    *)
(* proves it is alive with a heartbeat key that has a TTL; when the key is *)
(* missing, another worker takes a reclaim lock (with a TTL of its own)    *)
(* and LMOVEs the processing list back, one entry at a time.               *)
(*                                                                         *)
(* One action is one Redis or PostgreSQL round trip (one await) together   *)
(* with the local code that follows it.  A Redis list is a sequence whose  *)
(* Head is the Redis tail: LPUSH is Append, LMOVE RIGHT LEFT takes the     *)
(* Head of the source and Appends it to the destination.  Entries are      *)
(* occurrences: two pushes of equal text are two members of Job.           *)
(***************************************************************************)
EXTENDS Naturals, SequencesExt

CONSTANTS
  Worker,          \* worker ids, a fresh one per process start (worker_id.py)
  Job,             \* queue entries that may be pushed
  Workspace,       \* tenants, each with a queue of its own
  WorkspaceOf,     \* the workspace_id field of each entry
  Malformed,       \* entries that _deserialize_job cannot parse
  None,            \* Python's None
  MaxBatch,        \* freshness_max_jobs_per_iteration
  ReclaimInterval, \* freshness_reclaim_interval_iterations
  MaxErrors,       \* freshness_max_consecutive_errors
  \* Bounds of the environment, in the guards of its steps.
  MaxFaults,       \* Redis or PostgreSQL calls that raise, pipelines that fail
  MaxLapses,       \* TTLs that run out while their owner is alive
  MaxStops         \* workers that are killed or interrupted

ASSUME QueueAssumption ==
  /\ WorkspaceOf \in [Job -> Workspace]
  /\ Malformed \subseteq Job
  /\ Workspace \cap Worker = {}
  /\ None \notin Job \cup Worker \cup Workspace
  /\ MaxBatch \in Nat \ {0}
  /\ ReclaimInterval \in Nat \ {0}
  /\ MaxErrors \in Nat \ {0}
  /\ MaxFaults \in Nat /\ MaxLapses \in Nat /\ MaxStops \in Nat

VARIABLES
  \* Redis
  lists,      \* queue:{ws} and processing:{worker}, by owner
  heartbeat,  \* workers whose heartbeat key exists
  lock,       \* reclaim_lock:{worker}: who holds the token, or None
  \* the memory of each worker process
  pc,         \* the await the worker is at
  iteration,  \* _iteration_count, up to the reclaim interval (0: at startup)
  errors,     \* consecutive_errors of _run_loop
  todo,       \* worker ids the reclaim pass still has to visit
  target,     \* the worker id being reclaimed
  peeked,     \* the entry peek_tail returned
  spaces,     \* workspaces this iteration still has to visit
  space,      \* the workspace being drained
  room,       \* how many more entries dequeue_batch may take
  batch,      \* jobs dequeue_batch returned and not processed yet
  \* history, read by the properties only
  accepted,   \* entries ever pushed
  begun,      \* entries whose pipeline run has started
  misjudged,  \* workers taken for dead while they were running
  lockLost,   \* a reclaim lock ran out under its holder
  \* the environment's budgets
  faults, lapses, stops

redisVars   == <<lists, heartbeat, lock>>
reclaimVars == <<todo, target, peeked>>
runVars     == <<spaces, space, room, batch>>
loopVars    == <<iteration, errors>>
history     == <<accepted, begun, misjudged, lockLost>>
budgets     == <<faults, lapses, stops>>
vars == <<redisVars, pc, loopVars, reclaimVars, runVars, history, budgets>>

Key == Workspace \cup Worker

Phase == {"new", "idle", "discover", "visit", "lock", "peek", "move", "drop",
          "release", "select", "pick", "fetch", "receive", "work",
          "ack", "nack", "stopped"}

Alive(w) == pc[w] \notin {"new", "stopped"}

\* The worker is in the startup hooks of main, before _run_loop.
Starting(w) == iteration[w] = 0 /\ pc[w] # "idle"

\* The worker is between acquiring a reclaim lock and releasing it.
Reclaiming(w) == pc[w] \in {"peek", "move", "drop", "release"}

\* The worker is in _process_job past the "received" event.
Running(w) == pc[w] \in {"work", "ack", "nack"}

Stored(j) == \E k \in Key : Contains(lists[k], j)

-----------------------------------------------------------------------------
(* Redis commands.                                                         *)

\* Mutants: a pop that keeps the entry in the caller's memory only, and a copy.
PopOnly(ls, src, dst) == [ls EXCEPT ![src] = Tail(@)]
CopyOnly(ls, src, dst) == [ls EXCEPT ![dst] = Append(@, Head(ls[src]))]

LMove(ls, src, dst) ==
  [ls EXCEPT ![src] = Tail(@), ![dst] = Append(@, Head(ls[src]))]

\* Mutant: drop the oldest entry of the list instead of the one completed.
DropOldest(s, j) == IF Contains(s, j) THEN Tail(s) ELSE s

\* LREM key 1 entry: a no-op when the entry is no longer on the list.
LRem(s, j) ==
  IF Contains(s, j) THEN RemoveAt(s, CHOOSE i \in 1..Len(s) : s[i] = j) ELSE s

\* SET NX succeeds when the key is missing.  Mutant: a SET without NX.
NoNX(v) == TRUE
LockFree(v) == lock[v] = None

\* The reclaim pass is due at this iteration.  Mutant: at startup only.
NeverDue(n) == FALSE
ReclaimDue(n) == n = ReclaimInterval

\* Whether dequeue_batch's loop turns again.  Mutant: once too often.
RoomForOneMore(w) == room[w] > 0
RoomLeft(w) == room[w] > 1

\* The queue a reclaimed entry goes to.  Mutant: one queue shared by all.
SharedQueue(j) == CHOOSE s \in Workspace : TRUE
HomeQueue(j) == WorkspaceOf[j]

GoTo(w, phase) == pc' = [pc EXCEPT ![w] = phase]

\* A call raises, or a pipeline fails.  A Redis write that raises may have been
\* carried out all the same (the reply is lost); where the caller swallows the
\* error the two outcomes are those of the fault and of the success.
Fault == faults < MaxFaults /\ faults' = faults + 1 /\ UNCHANGED <<lapses, stops>>

\* The process is gone, and its memory with it.
Halt(w) ==
  /\ GoTo(w, "stopped")
  /\ todo' = [todo EXCEPT ![w] = {}]
  /\ target' = [target EXCEPT ![w] = None]
  /\ peeked' = [peeked EXCEPT ![w] = None]
  /\ spaces' = [spaces EXCEPT ![w] = {}]
  /\ space' = [space EXCEPT ![w] = None]
  /\ room' = [room EXCEPT ![w] = 0]
  /\ batch' = [batch EXCEPT ![w] = <<>>]

\* _run_loop's except branch: back off and start over, or give up and leave
\* through release_worker, whose DELETE is best effort.  The jobs of the batch
\* are forgotten; their entries stay on the processing list.
IterationFailed(w) ==
  /\ errors' = [errors EXCEPT ![w] = @ + 1]
  /\ UNCHANGED iteration
  /\ IF errors[w] + 1 >= MaxErrors
     THEN /\ Halt(w)
          /\ heartbeat' \in {heartbeat, heartbeat \ {w}}
     ELSE /\ GoTo(w, "idle")
          /\ spaces' = [spaces EXCEPT ![w] = {}]
          /\ space' = [space EXCEPT ![w] = None]
          /\ room' = [room EXCEPT ![w] = 0]
          /\ batch' = [batch EXCEPT ![w] = <<>>]
          /\ UNCHANGED <<heartbeat, reclaimVars>>

-----------------------------------------------------------------------------
Init ==
  /\ lists = [k \in Key |-> <<>>]
  /\ heartbeat = {}
  /\ lock = [w \in Worker |-> None]
  /\ pc = [w \in Worker |-> "new"]
  /\ iteration = [w \in Worker |-> 0]
  /\ errors = [w \in Worker |-> 0]
  /\ todo = [w \in Worker |-> {}]
  /\ target = [w \in Worker |-> None]
  /\ peeked = [w \in Worker |-> None]
  /\ spaces = [w \in Worker |-> {}]
  /\ space = [w \in Worker |-> None]
  /\ room = [w \in Worker |-> 0]
  /\ batch = [w \in Worker |-> <<>>]
  /\ accepted = {} /\ begun = {} /\ misjudged = {} /\ lockLost = FALSE
  /\ faults = 0 /\ lapses = 0 /\ stops = 0

\* enqueue_job: a producer or a scheduled scan pushes an entry.
Enqueue(j) ==
  /\ j \notin accepted
  /\ lists' = [lists EXCEPT ![WorkspaceOf[j]] = Append(@, j)]
  /\ accepted' = accepted \cup {j}
  /\ UNCHANGED <<heartbeat, lock, pc, loopVars, reclaimVars, runVars,
                 begun, misjudged, lockLost, budgets>>

-----------------------------------------------------------------------------
(* The worker loop.                                                        *)

\* A SET of the heartbeat key, whose failure is swallowed.
TickHeartbeat(w) ==
  \/ heartbeat' = heartbeat \cup {w} /\ UNCHANGED budgets
  \/ Fault /\ UNCHANGED heartbeat

\* main: tick once, then reclaim from dead peers before the loop starts.
Start(w) ==
  /\ pc[w] = "new"
  /\ TickHeartbeat(w)
  /\ GoTo(w, "discover")
  /\ UNCHANGED <<lists, lock, loopVars, reclaimVars, runVars, history>>

\* run_once: count the iteration, tick, reclaim every ReclaimInterval times.
BeginIteration(w) ==
  LET n == IF iteration[w] = ReclaimInterval THEN 1 ELSE iteration[w] + 1
  IN /\ pc[w] = "idle"
     /\ TickHeartbeat(w)
     /\ iteration' = [iteration EXCEPT ![w] = n]
     /\ GoTo(w, IF ReclaimDue(n) THEN "discover" ELSE "select")
     /\ UNCHANGED <<lists, lock, errors, reclaimVars, runVars, history>>

\* list_processing_workers: the SCAN, or an empty answer when it raises.
\* The pass never visits the worker's own list.
Discover(w) ==
  /\ pc[w] = "discover"
  /\ \/ /\ todo' = [todo EXCEPT ![w] = {v \in Worker \ {w} : lists[v] # <<>>}]
        /\ UNCHANGED budgets
     \/ Fault /\ UNCHANGED todo
  /\ GoTo(w, "visit")
  /\ UNCHANGED <<redisVars, loopVars, target, peeked, runVars, history>>

\* is_worker_alive(v): EXISTS answers, or raises, which counts as dead.
Visit(w, v) ==
  /\ pc[w] = "visit" /\ v \in todo[w]
  /\ todo' = [todo EXCEPT ![w] = @ \ {v}]
  /\ \/ /\ v \in heartbeat
        /\ UNCHANGED <<pc, target, misjudged, budgets>>
     \/ /\ \/ v \notin heartbeat /\ UNCHANGED budgets
           \/ v \in heartbeat /\ Fault
        /\ GoTo(w, "lock")
        /\ target' = [target EXCEPT ![w] = v]
        /\ misjudged' = IF Alive(v) THEN misjudged \cup {v} ELSE misjudged
  /\ UNCHANGED <<redisVars, loopVars, peeked, runVars, accepted, begun, lockLost>>

\* The pass is over: on to the queues, or to the loop when this was startup.
EndReclaim(w) ==
  /\ pc[w] = "visit" /\ todo[w] = {}
  /\ GoTo(w, IF iteration[w] = 0 THEN "idle" ELSE "select")
  /\ UNCHANGED <<redisVars, loopVars, reclaimVars, runVars, history, budgets>>

NextTarget(w) ==
  /\ GoTo(w, "visit")
  /\ target' = [target EXCEPT ![w] = None]

\* SET NX on the reclaim lock; taken or raising, the target is skipped.
AcquireReclaimLock(w) ==
  LET taken == [lock EXCEPT ![target[w]] = w]
  IN /\ pc[w] = "lock"
     /\ \/ /\ LockFree(target[w])
           /\ lock' = taken
           /\ GoTo(w, "peek")
           /\ UNCHANGED <<target, budgets>>
        \/ /\ \/ ~LockFree(target[w]) /\ UNCHANGED <<lock, budgets>>
              \/ Fault /\ UNCHANGED lock
              \/ Fault /\ LockFree(target[w]) /\ lock' = taken
           /\ NextTarget(w)
     /\ UNCHANGED <<lists, heartbeat, loopVars, todo, peeked, runVars, history>>

\* peek_tail on the target's processing list.
PeekTail(w) ==
  LET s == lists[target[w]]
  IN /\ pc[w] = "peek"
     /\ \/ /\ s # <<>>
           /\ peeked' = [peeked EXCEPT ![w] = Head(s)]
           /\ GoTo(w, IF Head(s) \in Malformed THEN "drop" ELSE "move")
           /\ UNCHANGED budgets
        \/ /\ \/ s = <<>> /\ UNCHANGED budgets
              \/ Fault
           /\ GoTo(w, "release")
           /\ UNCHANGED peeked
     /\ UNCHANGED <<redisVars, loopVars, todo, target, runVars, history>>

\* LREM of an entry that cannot be parsed.  JSON that is no object would raise
\* instead; no producer writes any.
DropMalformed(w) ==
  LET dropped == [lists EXCEPT ![target[w]] = LRem(@, peeked[w])]
  IN /\ pc[w] = "drop"
     /\ \/ lists' = dropped /\ GoTo(w, "peek") /\ UNCHANGED budgets
        \/ lists' \in {lists, dropped} /\ GoTo(w, "release") /\ Fault
     /\ peeked' = [peeked EXCEPT ![w] = None]
     /\ UNCHANGED <<heartbeat, lock, loopVars, todo, target, runVars, history>>

\* LMOVE of whatever is at the tail now, to the queue of the entry peeked at.
MoveTail(w) ==
  LET s == lists[target[w]]
      moved == LMove(lists, target[w], HomeQueue(peeked[w]))
  IN /\ pc[w] = "move"
     /\ \/ /\ s # <<>> /\ lists' = moved
           /\ GoTo(w, "peek")
           /\ UNCHANGED budgets
        \/ /\ \/ s = <<>> /\ UNCHANGED <<lists, budgets>>
              \/ Fault /\ UNCHANGED lists
              \/ Fault /\ s # <<>> /\ lists' = moved
           /\ GoTo(w, "release")
     /\ peeked' = [peeked EXCEPT ![w] = None]
     /\ UNCHANGED <<heartbeat, lock, loopVars, todo, target, runVars, history>>

\* release_lock: deletes the key only if it still holds this token.
ReleaseReclaimLock(w) ==
  /\ pc[w] = "release"
  /\ \/ /\ lock' = [lock EXCEPT ![target[w]] = IF @ = w THEN None ELSE @]
        /\ UNCHANGED budgets
     \/ Fault /\ UNCHANGED lock
  /\ NextTarget(w)
  /\ UNCHANGED <<lists, heartbeat, loopVars, todo, peeked, runVars, history>>

\* list_active_workspaces.
SelectWorkspaces(w) ==
  /\ pc[w] = "select"
  /\ \/ /\ spaces' = [spaces EXCEPT ![w] = {s \in Workspace : lists[s] # <<>>}]
        /\ GoTo(w, "pick")
        /\ UNCHANGED <<heartbeat, loopVars, reclaimVars, space, room, batch, budgets>>
     \/ Fault /\ IterationFailed(w)
  /\ UNCHANGED <<lists, lock, history>>

\* The next workspace, in the order of the SCAN.
PickWorkspace(w, s) ==
  /\ pc[w] = "pick" /\ s \in spaces[w]
  /\ spaces' = [spaces EXCEPT ![w] = @ \ {s}]
  /\ space' = [space EXCEPT ![w] = s]
  /\ room' = [room EXCEPT ![w] = MaxBatch]
  /\ GoTo(w, "fetch")
  /\ UNCHANGED <<redisVars, loopVars, reclaimVars, batch, history, budgets>>

EndIteration(w) ==
  /\ pc[w] = "pick" /\ spaces[w] = {}
  /\ errors' = [errors EXCEPT ![w] = 0]
  /\ GoTo(w, "idle")
  /\ UNCHANGED <<redisVars, iteration, reclaimVars, runVars, history, budgets>>

\* One turn of dequeue_batch's loop.  A malformed entry takes a turn and stays
\* on the processing list.
Fetch(w) ==
  LET s == lists[space[w]]
      moved == LMove(lists, space[w], w)
  IN /\ pc[w] = "fetch"
     /\ \/ /\ s # <<>> /\ lists' = moved
           /\ batch' = [batch EXCEPT ![w] =
                          IF Head(s) \in Malformed THEN @ ELSE Append(@, Head(s))]
           /\ room' = [room EXCEPT ![w] = @ - 1]
           /\ GoTo(w, IF RoomLeft(w) THEN "fetch" ELSE "receive")
           /\ UNCHANGED <<heartbeat, loopVars, reclaimVars, spaces, space, budgets>>
        \/ /\ s = <<>>
           /\ GoTo(w, "receive")
           /\ UNCHANGED <<lists, heartbeat, loopVars, reclaimVars, runVars, budgets>>
        \/ /\ Fault /\ IterationFailed(w)
           /\ \/ UNCHANGED lists
              \/ s # <<>> /\ lists' = moved
     /\ UNCHANGED <<lock, history>>

EndBatch(w) ==
  /\ pc[w] = "receive" /\ batch[w] = <<>>
  /\ space' = [space EXCEPT ![w] = None]
  /\ room' = [room EXCEPT ![w] = 0]
  /\ GoTo(w, "pick")
  /\ UNCHANGED <<redisVars, loopVars, reclaimVars, spaces, batch, history, budgets>>

-----------------------------------------------------------------------------
(* _process_job.                                                           *)

\* The "received" event is saved before the try: when it raises, the job is
\* neither run nor removed from the processing list.
Receive(w) ==
  /\ pc[w] = "receive" /\ batch[w] # <<>>
  /\ \/ /\ begun' = begun \cup {Head(batch[w])}
        /\ GoTo(w, "work")
        /\ UNCHANGED <<heartbeat, loopVars, reclaimVars, runVars, budgets>>
     \/ Fault /\ IterationFailed(w) /\ UNCHANGED begun
  /\ UNCHANGED <<lists, lock, accepted, misjudged, lockLost>>

\* The stages and the decision, then the "processed" event of the finally
\* block: when that one raises, complete_job is not reached.
Work(w) ==
  /\ pc[w] = "work"
  /\ \/ /\ GoTo(w, "ack")
        /\ UNCHANGED <<heartbeat, loopVars, reclaimVars, runVars, budgets>>
     \/ /\ Fault
        /\ GoTo(w, "nack")
        /\ UNCHANGED <<heartbeat, loopVars, reclaimVars, runVars>>
     \/ Fault /\ IterationFailed(w)
  /\ UNCHANGED <<lists, lock, history>>

\* complete_job after a run that succeeded: a failing LREM is swallowed.
Complete(w) ==
  /\ pc[w] = "ack"
  /\ \/ /\ lists' = [lists EXCEPT ![w] = LRem(@, Head(batch[w]))]
        /\ UNCHANGED budgets
     \/ Fault /\ UNCHANGED lists
  /\ batch' = [batch EXCEPT ![w] = Tail(@)]
  /\ GoTo(w, "receive")
  /\ UNCHANGED <<heartbeat, lock, loopVars, reclaimVars, spaces, space, room, history>>

\* complete_job after a run that raised: the entry goes all the same, then the
\* exception ends the iteration.
CompleteFailed(w) ==
  /\ pc[w] = "nack"
  /\ \/ /\ lists' = [lists EXCEPT ![w] = LRem(@, Head(batch[w]))]
        /\ UNCHANGED budgets
     \/ Fault /\ UNCHANGED lists
  /\ IterationFailed(w)
  /\ UNCHANGED <<lock, history>>

-----------------------------------------------------------------------------
(* The environment.                                                        *)

\* SIGKILL: every Redis key of the worker stays until its TTL.
Kill(w) ==
  /\ Alive(w) /\ stops < MaxStops
  /\ stops' = stops + 1
  /\ Halt(w)
  /\ UNCHANGED <<redisVars, loopVars, history, faults, lapses>>

\* Cancellation (Ctrl-C under asyncio.run): the finally blocks run, unless it
\* hits one of them or a call in them fails.  The job in the pipeline is
\* completed and the reclaim lock released; the heartbeat too, except in the
\* startup hooks, which no finally block guards.
Interrupt(w) ==
  /\ Alive(w) /\ stops < MaxStops
  /\ stops' = stops + 1
  /\ \/ UNCHANGED lists
     \/ Running(w) /\ lists' = [lists EXCEPT ![w] = LRem(@, Head(batch[w]))]
  /\ \/ UNCHANGED lock
     \/ /\ Reclaiming(w) /\ lock[target[w]] = w
        /\ lock' = [lock EXCEPT ![target[w]] = None]
  /\ \/ UNCHANGED heartbeat
     \/ ~Starting(w) /\ heartbeat' = heartbeat \ {w}
  /\ Halt(w)
  /\ UNCHANGED <<loopVars, history, faults, lapses>>

\* The TTL of a heartbeat runs out.  That of a running worker may, because the
\* key is only renewed between iterations.
HeartbeatExpires(w) ==
  /\ w \in heartbeat
  /\ \/ ~Alive(w) /\ UNCHANGED lapses
     \/ Alive(w) /\ lapses < MaxLapses /\ lapses' = lapses + 1
  /\ heartbeat' = heartbeat \ {w}
  /\ UNCHANGED <<lists, lock, pc, loopVars, reclaimVars, runVars, history, faults, stops>>

\* The 30 second TTL of a reclaim lock runs out.
LockExpires(v) ==
  /\ lock[v] # None
  /\ LET held == Reclaiming(lock[v]) /\ target[lock[v]] = v
     IN /\ \/ ~held /\ UNCHANGED lapses
           \/ held /\ lapses < MaxLapses /\ lapses' = lapses + 1
        /\ lockLost' = (lockLost \/ held)
  /\ lock' = [lock EXCEPT ![v] = None]
  /\ UNCHANGED <<lists, heartbeat, pc, loopVars, reclaimVars, runVars,
                 accepted, begun, misjudged, faults, stops>>

-----------------------------------------------------------------------------
ReclaimStep(w) ==
  \/ Discover(w)
  \/ \E v \in Worker : Visit(w, v)
  \/ EndReclaim(w)
  \/ AcquireReclaimLock(w)
  \/ PeekTail(w)
  \/ DropMalformed(w)
  \/ MoveTail(w)
  \/ ReleaseReclaimLock(w)

RunStep(w) ==
  \/ BeginIteration(w)
  \/ SelectWorkspaces(w)
  \/ \E s \in Workspace : PickWorkspace(w, s)
  \/ EndIteration(w)
  \/ Fetch(w)
  \/ EndBatch(w)
  \/ Receive(w)
  \/ Work(w)
  \/ Complete(w)
  \/ CompleteFailed(w)

WorkerStep(w) == Start(w) \/ ReclaimStep(w) \/ RunStep(w)

Next ==
  \/ \E j \in Job : Enqueue(j)
  \/ \E w \in Worker :
       \/ WorkerStep(w)
       \/ Kill(w)
       \/ Interrupt(w)
       \/ HeartbeatExpires(w)
       \/ LockExpires(w)

Spec == Init /\ [][Next]_vars

-----------------------------------------------------------------------------
(* Safety.                                                                 *)

\* Every variable of the model has its type.
TypeOK ==
  /\ lists \in [Key -> Seq(Job)]
  /\ heartbeat \subseteq Worker
  /\ lock \in [Worker -> Worker \cup {None}]
  /\ pc \in [Worker -> Phase]
  /\ iteration \in [Worker -> 0..ReclaimInterval]
  /\ errors \in [Worker -> 0..MaxErrors]
  /\ todo \in [Worker -> SUBSET Worker]
  /\ target \in [Worker -> Worker \cup {None}]
  /\ peeked \in [Worker -> Job \cup {None}]
  /\ spaces \in [Worker -> SUBSET Workspace]
  /\ space \in [Worker -> Workspace \cup {None}]
  /\ room \in [Worker -> 0..MaxBatch]
  /\ batch \in [Worker -> Seq(Job)]
  /\ accepted \subseteq Job /\ begun \subseteq Job /\ misjudged \subseteq Worker
  /\ lockLost \in BOOLEAN
  /\ faults \in 0..MaxFaults /\ lapses \in 0..MaxLapses /\ stops \in 0..MaxStops

\* Whatever is killed, interrupted, expires or raises, a job that was pushed
\* and whose pipeline run has not started is on some Redis list: the two-step
\* hand-over LMOVE ... LREM never has it only in a worker's memory.
NoJobLost == accepted \ (begun \cup Malformed) \subseteq {j \in Job : Stored(j)}

\* Two workers run the pipeline on the same entry at once only if one of them
\* was taken for dead while it was running.
SingleRunner ==
  \A v, w \in Worker :
    /\ v # w /\ Running(v) /\ Running(w)
    /\ Head(batch[v]) = Head(batch[w])
    => v \in misjudged \/ w \in misjudged

\* The reclaim lock keeps two workers from draining one processing list,
\* unless its TTL ran out under the first.
SingleReclaimer ==
  \A v, w \in Worker :
    v # w /\ Reclaiming(v) /\ Reclaiming(w) /\ target[v] = target[w] => lockLost

\* Reclaimed entries go home: as long as only dead workers are reclaimed from
\* and no reclaim lock is lost, a workspace queue holds the jobs of that
\* workspace only, whatever mixture the processing list held.
RoutedHome ==
  misjudged = {} /\ ~lockLost =>
    \A s \in Workspace, j \in Job : Contains(lists[s], j) => WorkspaceOf[j] = s

\* The queue implements the contract: an entry leaves Redis only after its run
\* has started, or because it cannot be parsed.
Contract == INSTANCE JobContract WITH stored <- {j \in Job : Stored(j)}
ImplementsContract == Contract!Spec

-----------------------------------------------------------------------------
(* Liveness.  A process that runs keeps running: its loop never returns of *)
(* itself, and every call answers or raises.  A replacement is started for *)
(* a lost one, and Redis drops keys whose TTL is over.  Kills, faults and  *)
(* lapses happen or not, up to their bounds.                               *)

Fairness ==
  /\ \A w \in Worker : WF_vars(WorkerStep(w))
  /\ \A w \in Worker : WF_vars(~Alive(w) /\ HeartbeatExpires(w))
  /\ \A w \in Worker : WF_vars(LockExpires(w) /\ ~lockLost')

LiveSpec == Spec /\ Fairness

OnList(w, j) == Contains(lists[w], j)

\* What a dead worker leaves behind goes back to the queues, whichever calls
\* of the reclaim pass fail.
DeadWorkerDrained == \A w \in Worker : pc[w] = "stopped" ~> lists[w] = <<>>

\* With kills and restarts, but no failing call and no live worker taken for
\* dead, every job that can be parsed is run and retired.  (A reclaimer asks
\* once whether its target is alive, so a worker misjudged once can be robbed
\* of every job it fetches for as long as it keeps fetching.)
DeliveredDespiteKills ==
  [](faults = 0 /\ misjudged = {}) =>
    \A j \in Job \ Malformed : j \in accepted ~> j \in begun /\ ~Stored(j)

\* complete_job and dequeue_batch say that an entry the worker did not remove
\* is picked up by the reclaim pass.
OrphansPickedUp ==
  \A w \in Worker, j \in Job :
    OnList(w, j) /\ ~Contains(batch[w], j) ~> ~OnList(w, j)

\* The module header says reclaim routes an item back to the correct queue.
QueueIsolation ==
  \A s \in Workspace, j \in Job : Contains(lists[s], j) => WorkspaceOf[j] = s
=============================================================================
