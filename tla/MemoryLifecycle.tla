-------------------------- MODULE MemoryLifecycle --------------------------
(***************************************************************************)
(* The life of a record after it is stored: the four freshness stages and  *)
(* the decision engine that a worker runs for each job, the scheduled scan *)
(* that enqueues old records, and the review queue that people resolve.    *)
(* freshness/stages, freshness/apply_decision.py, scheduled_scan.py,       *)
(* memory/freshness/worker.py (_process_job), MemoryService.resolve_review *)
(* and the two adapters, for memory records and for KB documents.          *)
(*                                                                         *)
(* A step is one write and the reads that follow it.  The queue is a set   *)
(* here (FreshnessQueue has its lists): a job may come again, and two      *)
(* workers may run jobs of one record.  No code path gives a row the       *)
(* status candidate or review_needed or a valid_until, so the Curator and  *)
(* the Monitor's archiving rule never fire and have no action.  (The point *)
(* of a new record says candidate when its caller does: the payload of     *)
(* such records is outside the model.)                                     *)
(***************************************************************************)
EXTENDS Naturals, FiniteSets

CONSTANTS
  Item,     \* the records
  Fresh,    \* those whose first job is still in the queue at the start
  Document, \* those that are KB documents; the others are memory records
  Processor, \* freshness workers
  Reviewer, \* people and agents that resolve entries
  Nil,
  \* Bounds of the environment, in the guards of its steps.
  MaxEntries, \* review entries created
  MaxTouches, \* records that grow old, are edited or deleted, or whose job comes again
  MaxLosses   \* failing calls and lapsed locks

VARIABLES
  \* PostgreSQL
  status,   \* of each record; "gone" when its row is deleted
  into,     \* superseded_by
  aged,     \* updated_at is older than the threshold
  stamped,  \* last_freshness_run_at is set
  entries,  \* review_entries
  \* Qdrant and Redis
  shown,    \* the status in the payload of each point
  waiting,  \* records with a job in the queue
  locks,    \* the holder of each lock of a stage on a record
  \* the memory of the processes
  job,      \* of each worker
  review,   \* of each reviewer
  editing,  \* an edit between PostgreSQL and Qdrant: the record, its status
  \* history, read by the properties only
  overlapped, \* pairs that two workers matched at once
  contested,  \* records whose status two wrote at once, or whose sync failed
  settled,    \* records kept by a reviewer, and nothing since to change that
  resolved,   \* entries resolved, and those resolved by two at once
  raced,
  again,      \* entries resolved more than once
  due,        \* records that grew old and were not edited or reviewed since
  lastEntry, touches, losses

Status == {"active", "stale", "superseded", "archived", "gone"}
Reason == {"duplicate", "contradiction", "low_confidence"}
Entry  == [id : 1 .. MaxEntries, target : Item, related : Item \cup {Nil},
           reason : Reason]
Stage  == {"reconciler", "monitor"}

ASSUME LifecycleAssumption ==
  /\ Document \subseteq Item /\ Fresh \subseteq Item /\ IsFiniteSet(Processor)
  /\ MaxEntries \in Nat /\ MaxTouches \in Nat /\ MaxLosses \in Nat
  /\ Nil \notin Item \cup Processor \cup Entry

rowVars       == <<status, into, aged, stamped>>
ghostVars     == <<overlapped, contested, settled, resolved, raced, again, due>>
lifecycleVars == <<rowVars, entries, shown, waiting, locks, job, review, editing,
                   ghostVars, lastEntry, touches, losses>>

Task(step, item, related, reason, verdict) ==
  [step |-> step, item |-> item, related |-> related, reason |-> reason,
   verdict |-> verdict]
NoJob    == Task("idle", Nil, Nil, Nil, Nil)
NoReview == [step |-> "idle", entry |-> Nil, mirror |-> Nil, action |-> Nil,
             target |-> Nil]
NoEdit   == [item |-> Nil, status |-> Nil]

LifecycleTypeOK ==
  /\ status \in [Item -> Status] /\ into \in [Item -> Item \cup {Nil}]
  /\ aged \subseteq Item /\ stamped \subseteq Document
  /\ entries \subseteq Entry
  /\ \A e, f \in entries : e.id = f.id => e = f
  /\ shown \in [Item -> Status] /\ waiting \subseteq Item
  /\ locks \in [Stage \X Item -> Processor \cup {Nil}]
  /\ job \in [Processor ->
       [step : {"idle", "file", "check", "mark", "mirror", "apply"},
        item : Item \cup {Nil}, related : Item \cup {Nil},
        reason : Reason \cup {Nil},
        verdict : {"stale", "superseded", "stamp", "review", Nil}]]
  /\ review \in [Reviewer ->
       [step : {"idle", "commit", "mirror"}, entry : Entry \cup {Nil},
        mirror : Entry \cup {Nil}, action : {"keep", "archive", "merge", Nil},
        target : Item \cup {Nil}]]
  /\ editing \in [item : Item \cup {Nil}, status : Status \cup {Nil}]
  /\ overlapped \subseteq SUBSET Item /\ contested \subseteq Item
  /\ settled \subseteq Item /\ due \subseteq Item
  /\ UNION {resolved, raced, again} \subseteq 1 .. MaxEntries
  /\ lastEntry \in 0 .. MaxEntries /\ touches \in 0 .. MaxTouches
  /\ losses \in 0 .. MaxLosses

\* Some records have been stored, and their first jobs wait or have found
\* nothing; the others are gone.  The budgets are used up to some extent.
LifecycleInitWith(Present, spent) ==
  /\ status = [i \in Item |-> IF i \in Present THEN "active" ELSE "gone"]
  /\ shown = status
  /\ into = [i \in Item |-> Nil] /\ aged = {} /\ stamped = {}
  /\ entries = {} /\ waiting = Fresh \cap Present
  /\ locks = [l \in Stage \X Item |-> Nil]
  /\ job = [w \in Processor |-> NoJob] /\ review = [v \in Reviewer |-> NoReview]
  /\ editing = NoEdit
  /\ overlapped = {} /\ contested = {} /\ settled = {}
  /\ resolved = {} /\ raced = {} /\ again = {} /\ due = {}
  /\ lastEntry = spent.entries /\ touches = spent.touches /\ losses = spent.losses

LifecycleInit ==
  LifecycleInitWith(Item, [entries |-> 0, touches |-> 0, losses |-> 0])

---------------------------------------------------------
\* The stores

Exists(i) == status[i] # "gone"

\* Mutants of the next two.
ClockBumped(i) == aged' = aged \ {i}
ClockLeft(i) == UNCHANGED aged

\* update_lifecycle bumps updated_at for a review, as update does.
BumpsClock(i) == aged' = aged \ {i}

\* And for no stage.
LeavesClock(i) == UNCHANGED aged

\* update_lifecycle, when the row still exists.
SetStatus(i, s) == status' = IF Exists(i) THEN [status EXCEPT ![i] = s] ELSE status

\* update_payload of the point.
Show(i, s) == shown' = [shown EXCEPT ![i] = s]

\* Looked for in one direction only (a mutant).
FiledOneWay(i, related, reason) ==
  \E e \in entries : e.reason = reason /\ e.target = i /\ e.related = related

\* find_review_entry: in either direction.  The related "id" of a document is
\* the label of one, source_id, and the second look, by label, finds no target.
Filed(i, related, reason) ==
  \E e \in entries :
     /\ e.reason = reason
     /\ \/ e.target = i /\ e.related = related
        \/ i \notin Document /\ e.target = related /\ e.related = i

\* save_review_entry: a new id each time.
AddEntry(i, related, reason) ==
  /\ lastEntry' = lastEntry + 1
  /\ entries' = entries \cup
       {[id |-> lastEntry + 1, target |-> i, related |-> related, reason |-> reason]}

\* list_stale_candidates; the adapter of the documents returns none.
StaleCandidates == {i \in (Item \ Document) \cap aged : status[i] = "active"}

LockTaken(stage, i) == locks[<<stage, i>>] # Nil
\* The stage in whose lock the worker is.
Inside(w, stage, i) ==
  /\ job[w].item = i
  /\ IF stage = "reconciler" THEN job[w].step = "file"
     ELSE job[w].step \in {"mark", "mirror"} /\ job[w].reason # "low_confidence"
Release(w, stage, i) ==
  locks' = IF locks[<<stage, i>>] = w THEN [locks EXCEPT ![<<stage, i>>] = Nil]
           ELSE locks

\* Whoever has written the status of i and not yet its payload.
Mirroring(i) ==
  {w \in Processor : job[w].step = "mirror" /\ job[w].item = i}
    \cup {v \in Reviewer : review[v].step = "mirror" /\ review[v].entry.target = i}
    \cup {e \in {editing} : e.item = i}
Contested(i) == contested' = IF Mirroring(i) # {} THEN contested \cup {i} ELSE contested

Loses == losses < MaxLosses /\ losses' = losses + 1
Becomes(w, j) == job' = [job EXCEPT ![w] = j]
Goes(w, step) == Becomes(w, [job[w] EXCEPT !.step = step])

\* Entries that workers may still file, so that the bound stops none of them.
Filers == {w \in Processor : \/ job[w].step = "file"
                             \/ job[w].step = "apply" /\ job[w].verdict = "review"}
RoomForEntry == lastEntry + Cardinality(Filers) < MaxEntries

---------------------------------------------------------
\* A job: linker, reconciler, monitor, decision

\* The job is taken and the Linker writes the evidence count.  The Reconciler
\* then has nothing to file: its lock is held by another, the row is gone, no
\* record is similar, or the pair has an entry.
Link(w, i) ==
  /\ job[w] = NoJob /\ i \in waiting
  /\ waiting' = waiting \ {i}
  /\ LeavesClock(i)
  /\ Becomes(w, Task("check", i, Nil, Nil, Nil))
  /\ UNCHANGED <<status, into, stamped, entries, shown, locks, review, editing, ghostVars,
                 lastEntry, touches, losses>>

\* Or it finds a similar record of the same kind, and no entry of the pair.  A
\* hit of a document is a label, which differs from every id: its own chunks
\* are not left out, as a memory record's point is.
LinkAndMatch(w, i, related, reason) ==
  /\ job[w] = NoJob /\ i \in waiting /\ RoomForEntry
  /\ waiting' = waiting \ {i}
  /\ LeavesClock(i)
  /\ Exists(i) /\ ~LockTaken("reconciler", i)
  /\ related # i \/ i \in Document
  /\ (related \in Document) = (i \in Document)
  /\ ~Filed(i, related, reason)
  /\ locks' = [locks EXCEPT ![<<"reconciler", i>>] = w]
  /\ Becomes(w, Task("file", i, related, reason, Nil))
  /\ overlapped' = overlapped \cup {{i, related} : v \in
       {v \in Processor \ {w} : /\ job[v].step = "file"
                                /\ {job[v].item, job[v].related} = {i, related}}}
  /\ UNCHANGED <<status, into, stamped, entries, shown, review, editing, contested,
                 settled, resolved, raced, again, due, lastEntry, touches, losses>>

File(w) ==
  /\ job[w].step = "file"
  /\ AddEntry(job[w].item, job[w].related, job[w].reason)
  /\ Release(w, "reconciler", job[w].item)
  /\ Becomes(w, Task("check", job[w].item, Nil, Nil, Nil))
  /\ UNCHANGED <<rowVars, shown, waiting, review, editing, ghostVars, touches, losses>>

\* The Monitor's rules on the row it reads.
Verdict(i) ==
  IF into[i] # Nil THEN "superseded"
  ELSE IF i \notin aged THEN Nil
  ELSE IF i \in Document \ stamped THEN "stamp"
  ELSE "stale"

\* After the stages, the engine is asked about an active record only; most often
\* it adds tags, and the job is done.
Decided(w, i) ==
  \/ Becomes(w, NoJob)
  \/ /\ status[i] = "active"
     /\ \E verdict \in {"stale", "review"} :
          /\ verdict = "review" => RoomForEntry
          /\ Becomes(w, Task("apply", i, Nil, "low_confidence", verdict))

CheckFindsNothing(w) ==
  LET i == job[w].item IN
  /\ job[w].step = "check"
  /\ LockTaken("monitor", i) \/ ~Exists(i) \/ Verdict(i) = Nil
  /\ Decided(w, i)
  /\ UNCHANGED <<rowVars, entries, shown, waiting, locks, review, editing, ghostVars,
                 lastEntry, touches, losses>>

Check(w) ==
  LET i == job[w].item IN
  /\ job[w].step = "check"
  /\ ~LockTaken("monitor", i) /\ Exists(i) /\ Verdict(i) # Nil
  /\ locks' = [locks EXCEPT ![<<"monitor", i>>] = w]
  /\ Becomes(w, Task("mark", i, Nil, Nil, Verdict(i)))
  /\ UNCHANGED <<rowVars, entries, shown, waiting, review, editing, ghostVars, lastEntry,
                 touches, losses>>

\* The first time that a document is found old, only the stamp is written.
Stamp(w) ==
  /\ job[w].step = "mark" /\ job[w].verdict = "stamp"
  /\ stamped' = stamped \cup {job[w].item}
  /\ Release(w, "monitor", job[w].item)
  /\ Decided(w, job[w].item)
  /\ UNCHANGED <<status, into, aged, entries, shown, waiting, review, editing, ghostVars,
                 lastEntry, touches, losses>>

Mark(w) ==
  LET i == job[w].item IN
  /\ job[w].step = "mark" /\ job[w].verdict # "stamp"
  /\ SetStatus(i, job[w].verdict) /\ LeavesClock(i)
  /\ stamped' = stamped \cup ({i} \cap Document)
  /\ Contested(i)
  /\ Goes(w, "mirror")
  /\ UNCHANGED <<into, entries, shown, waiting, locks, review, editing, overlapped,
                 settled, resolved, raced, again, due, lastEntry, touches, losses>>

\* sync_downstream_stores, best-effort; a decision was the last step of the job.
Mirror(w) ==
  LET i == job[w].item IN
  /\ job[w].step = "mirror"
  /\ \/ Show(i, job[w].verdict) /\ UNCHANGED <<contested, losses>>
     \/ Loses /\ contested' = contested \cup {i} /\ UNCHANGED shown
  /\ IF job[w].reason = "low_confidence"
     THEN Becomes(w, NoJob) /\ UNCHANGED locks
     ELSE Decided(w, i) /\ Release(w, "monitor", i)
  /\ UNCHANGED <<rowVars, entries, waiting, review, editing, overlapped, settled,
                 resolved, raced, again, due, lastEntry, touches>>

\* apply_decision of mark_stale, whatever has become of the record since.
ApplyStale(w) ==
  LET i == job[w].item IN
  /\ job[w].step = "apply" /\ job[w].verdict = "stale"
  /\ SetStatus(i, "stale") /\ LeavesClock(i)
  /\ Contested(i) /\ settled' = settled \ {i}
  /\ Goes(w, "mirror")
  /\ UNCHANGED <<into, stamped, entries, shown, waiting, locks, review, editing,
                 overlapped, resolved, raced, again, due, lastEntry, touches, losses>>

\* apply_decision below the confidence threshold.
ApplyReview(w) ==
  /\ job[w].step = "apply" /\ job[w].verdict = "review"
  /\ AddEntry(job[w].item, Nil, "low_confidence")
  /\ Becomes(w, NoJob)
  /\ UNCHANGED <<rowVars, shown, waiting, locks, review, editing, ghostVars, touches,
                 losses>>

\* A call raises: the lock is released, the job is completed all the same, and
\* nobody retries it.
JobFails(w) ==
  LET i == job[w].item IN
  /\ job[w].step \notin {"idle", "mirror"} /\ Loses
  /\ IF job[w].step = "file" THEN Release(w, "reconciler", i)
     ELSE IF job[w].step = "mark" THEN Release(w, "monitor", i)
     ELSE UNCHANGED locks
  /\ Becomes(w, NoJob)
  /\ UNCHANGED <<rowVars, entries, shown, waiting, review, editing, ghostVars, lastEntry,
                 touches>>

\* The process dies: its job is reclaimed, its lock stays until its TTL is over.
Killed(w) ==
  LET i == job[w].item IN
  /\ job[w] # NoJob /\ Loses
  /\ waiting' = waiting \cup {i}
  /\ contested' = IF job[w].step = "mirror" THEN contested \cup {i} ELSE contested
  /\ Becomes(w, NoJob)
  /\ UNCHANGED <<rowVars, entries, shown, locks, review, editing, overlapped, settled,
                 resolved, raced, again, due, lastEntry, touches>>

\* The TTL of a lock ends: of one that a dead worker left, or, once in a while,
\* under a worker that is slow.  Then pairs being filed may be filed twice.
LockLapses(stage, i) ==
  /\ LockTaken(stage, i)
  /\ \/ ~Inside(locks[<<stage, i>>], stage, i) /\ UNCHANGED losses
     \/ Inside(locks[<<stage, i>>], stage, i) /\ Loses
  /\ locks' = [locks EXCEPT ![<<stage, i>>] = Nil]
  /\ UNCHANGED <<rowVars, entries, shown, waiting, job, review, editing, ghostVars,
                 lastEntry, touches>>

---------------------------------------------------------
\* resolve_review, of entries about memory records

\* The newest entry of the other direction, when the partner still exists.
MirrorsOf(e) ==
  {m \in entries : /\ e.related # Nil /\ m.target = e.related /\ m.related = e.target
                   /\ m.reason = e.reason /\ Exists(e.related)}
NewestOf(S) == {m \in S : \A n \in S : n.id <= m.id}
MirrorOf(e) ==
  LET newest == NewestOf(MirrorsOf(e)) IN
  IF newest = {} THEN Nil ELSE CHOOSE m \in newest : TRUE

\* discard is an archive under another name.
ReadReview(v, e, action, target) ==
  /\ review[v] = NoReview
  /\ e \in entries /\ e.target \notin Document /\ Exists(e.target)
  /\ \/ action = "merge" /\ target \in Item \ Document /\ Exists(target)
     \/ action \in {"keep", "archive"} /\ target = Nil
  /\ review' = [review EXCEPT ![v] = [step |-> "commit", entry |-> e,
                   mirror |-> MirrorOf(e), action |-> action, target |-> target]]
  /\ raced' = raced \cup {e.id : u \in
       {u \in Reviewer \ {v} : review[u].step = "commit" /\ review[u].entry = e}}
  /\ UNCHANGED <<rowVars, entries, shown, waiting, locks, job, editing, overlapped,
                 contested, settled, resolved, again, due, lastEntry, touches, losses>>

StatusOf(action) ==
  CASE action = "keep" -> "active" [] action = "archive" -> "archived"
    [] action = "merge" -> "superseded"

\* Who has read the record and will write what it concluded.
Concluded(i) ==
  \E w \in Processor : job[w].item = i /\ job[w].step \in {"mark", "apply"}

\* The entry stays (a mutant).
NoneDeletable(S) == {}

\* The rows that delete_review_entry matches: those of a record of the agent.
Deletable(S) == {e \in S : e # Nil /\ Exists(e.target)}

\* One transaction: lifecycle, entry, mirror entry and the event.  That the
\* entry is still there is not checked again.
CommitReview(v) ==
  LET r == review[v]
      i == r.entry.target
  IN /\ r.step = "commit"
     /\ SetStatus(i, StatusOf(r.action)) /\ BumpsClock(i) /\ due' = due \ {i}
     /\ into' = IF r.action = "merge" /\ Exists(i) THEN [into EXCEPT ![i] = r.target]
                ELSE into
     /\ entries' = entries \ Deletable({r.entry, r.mirror})
     /\ Contested(i)
     /\ settled' = IF r.action = "keep" /\ Exists(i) /\ into[i] = Nil /\ ~Concluded(i)
                   THEN settled \cup {i} ELSE settled \ {i}
     /\ resolved' = resolved \cup {r.entry.id}
     /\ again' = again \cup ({r.entry.id} \cap resolved)
     /\ review' = [review EXCEPT ![v].step = "mirror"]
  /\ UNCHANGED <<stamped, shown, waiting, locks, job, editing, overlapped, raced,
                 lastEntry, touches, losses>>

\* The payload, best-effort.
MirrorReview(v) ==
  LET i == review[v].entry.target IN
  /\ review[v].step = "mirror"
  /\ \/ Show(i, StatusOf(review[v].action)) /\ UNCHANGED <<contested, losses>>
     \/ Loses /\ contested' = contested \cup {i} /\ UNCHANGED shown
  /\ review' = [review EXCEPT ![v] = NoReview]
  /\ UNCHANGED <<rowVars, entries, waiting, locks, job, editing, overlapped, settled,
                 resolved, raced, again, due, lastEntry, touches>>

---------------------------------------------------------
\* The environment

Touch == touches < MaxTouches /\ touches' = touches + 1

\* 30 days pass.
GrowsOld(i) ==
  /\ Touch /\ i \notin aged /\ Exists(i)
  /\ aged' = aged \cup {i} /\ due' = due \cup {i} /\ settled' = settled \ {i}
  /\ UNCHANGED <<status, into, stamped, entries, shown, waiting, locks, job, review,
                 editing, overlapped, contested, resolved, raced, again, lastEntry,
                 losses>>

\* ScheduledScan.run.
Scan ==
  /\ ~(StaleCandidates \subseteq waiting)
  /\ waiting' = waiting \cup StaleCandidates
  /\ UNCHANGED <<rowVars, entries, shown, locks, job, review, editing, ghostVars,
                 lastEntry, touches, losses>>

\* A job that was run already is reclaimed, or an operation that leaves the
\* clock alone enqueues one.
JobAgain(i) ==
  /\ Touch /\ Exists(i) /\ i \notin waiting
  /\ waiting' = waiting \cup {i}
  /\ UNCHANGED <<rowVars, entries, shown, locks, job, review, editing, ghostVars,
                 lastEntry, losses>>

\* memory_update of the content: UPDATE ... RETURNING, then the point is
\* written again with the status of the returned row, and a job is enqueued.
EditContent(i) ==
  /\ Touch /\ editing = NoEdit
  /\ i \notin Document /\ Exists(i)
  /\ BumpsClock(i) /\ due' = due \ {i}
  /\ editing' = [item |-> i, status |-> status[i]]
  /\ Contested(i)
  /\ UNCHANGED <<status, into, stamped, entries, shown, waiting, locks, job, review,
                 overlapped, settled, resolved, raced, again, lastEntry, losses>>

IndexEdit ==
  LET i == editing.item IN
  /\ editing # NoEdit
  /\ \/ Show(i, editing.status) /\ UNCHANGED <<contested, losses>>
     \/ Loses /\ contested' = contested \cup {i} /\ UNCHANGED shown
  /\ waiting' = waiting \cup {i}
  /\ editing' = NoEdit
  /\ UNCHANGED <<rowVars, entries, locks, job, review, overlapped, settled, resolved,
                 raced, again, due, lastEntry, touches>>

\* Its entries stay in the queue; nobody can resolve them any more.
DeleteItem(i) ==
  /\ Touch /\ Exists(i)
  /\ status' = [status EXCEPT ![i] = "gone"]
  /\ settled' = settled \ {i}
  /\ UNCHANGED <<into, aged, stamped, entries, shown, waiting, locks, job, review,
                 editing, overlapped, contested, resolved, raced, again, due, lastEntry,
                 losses>>

---------------------------------------------------------
JobStep(w) ==
  \/ \E i \in Item : Link(w, i)
  \/ \E i, related \in Item, reason \in {"duplicate", "contradiction"} :
        LinkAndMatch(w, i, related, reason)
  \/ File(w) \/ CheckFindsNothing(w) \/ Check(w) \/ Stamp(w) \/ Mark(w) \/ Mirror(w)
  \/ ApplyStale(w) \/ ApplyReview(w)

LifecycleNext ==
  \/ \E w \in Processor : JobStep(w) \/ JobFails(w) \/ Killed(w)
  \/ \E stage \in Stage, i \in Item : LockLapses(stage, i)
  \/ \E v \in Reviewer :
        \/ \E e \in entries, action \in {"keep", "archive", "merge"},
             target \in Item \cup {Nil} : ReadReview(v, e, action, target)
        \/ CommitReview(v) \/ MirrorReview(v)
  \/ \E i \in Item : GrowsOld(i) \/ JobAgain(i) \/ EditContent(i) \/ DeleteItem(i)
  \/ Scan \/ IndexEdit

LifecycleSpec == LifecycleInit /\ [][LifecycleNext]_lifecycleVars

\* The worker loop goes on, the scan comes round, and every lock has a TTL.
LifecycleFairness ==
  /\ \A w \in Processor : WF_lifecycleVars(JobStep(w))
  /\ WF_lifecycleVars(Scan)
  /\ \A stage \in Stage, i \in Item : WF_lifecycleVars(LockLapses(stage, i))

---------------------------------------------------------
\* The Reconciler's lock is per record and a pair has two: one entry per pair
\* and reason, in either direction, unless two workers matched it at once.  A
\* pair of documents may have one in each direction.
OneEntryPerPair ==
  \A e, f \in entries :
     /\ e # f /\ e.related # Nil /\ e.reason = f.reason
     /\ {e.target, e.related} = {f.target, f.related}
     /\ e.target = f.target \/ {e.target, f.target} \cap Document = {}
     => {e.target, e.related} \in overlapped

\* Search filters by the status in the payload: when nobody is between the row
\* and the point, the two agree, unless writers overlapped or a sync failed.
StatusShown ==
  \A i \in Item :
     Exists(i) /\ Mirroring(i) = {} /\ i \notin contested => shown[i] = status[i]

\* What several workers do at once leaves no pair filed twice and no status that
\* search does not see, in states of the types the code gives them.
LifecycleSound == LifecycleTypeOK /\ OneEntryPerPair /\ StatusShown

\* The Monitor does not retire a record that a reviewer has kept until it grows
\* old again, unless the record carries a merge or a stage or a decision that
\* read it before the review writes after it.
KeptUntilAged == \A i \in settled : status[i] = "active"

\* An entry is resolved once, except by reviewers that had both read it.
ResolvedOnce == again \subseteq raced

\* A memory record that has grown old does not stay active: the scan finds it
\* however often its job failed, and the pipeline itself does not make it young.
AgedRetired ==
  \A i \in Item \ Document :
     i \in due /\ status[i] = "active" ~> i \notin due \/ status[i] # "active"
=============================================================================
