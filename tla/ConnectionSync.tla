--------------------------- MODULE ConnectionSync ---------------------------
(***************************************************************************)
(* The synchronisation of one connection with its external source: the row *)
(* of connections that is both lock (status, sync_claim_id) and cursor     *)
(* (last_synced_at), the requests and scheduler ticks that claim it, the   *)
(* task connection_sync.run_connection_sync, and what disturbs them: a     *)
(* failing call, an API process that dies and recovers, a configuration    *)
(* edit, a connection test.                                                *)
(*                                                                         *)
(* Time is counted in changes of the source: `clock` is how many there     *)
(* were, and a timestamp is the value of `clock` when it was taken.  What  *)
(* the code asks of a timestamp is only which changes came after it.       *)
(*                                                                         *)
(* A sync is a slot that one attempt after another uses; the uuid of an    *)
(* attempt is fresh, so a slot is not used again while the row still holds *)
(* the token of its last attempt.  One action is one await of the code.    *)
(***************************************************************************)
EXTENDS Naturals, FiniteSets

CONSTANTS
  Sync,         \* slots for attempts to sync the connection
  Process,      \* API processes, each with its own tasks
  ProcessOf,    \* the process an attempt runs in
  Doc,          \* documents of the source, by source_id
  Config,       \* configurations the connection may be given
  VisibleIn,    \* the documents the source shows to a configuration
  FirstConfig,  \* the configuration the connection is created with
  None,         \* SQL's NULL, as the claim token
  Careful,      \* TRUE: edits and tests of the connection wait for its syncs
  \* Bounds of the environment, in the guards of its steps.
  MaxClock,     \* changes of the source
  Budget        \* how often each of Trouble may happen

Trouble == {"fault",  \* a call that raises, a task that is cancelled
            "stop",   \* an API process that is killed
            "loss",   \* a part of the source, or one document, that fails
            "edit"}   \* a configuration edit

ASSUME SyncAssumption ==
  /\ ProcessOf \in [Sync -> Process]
  /\ VisibleIn \in [Config -> SUBSET Doc]
  /\ FirstConfig \in Config
  /\ None \notin Sync
  /\ Careful \in BOOLEAN
  /\ MaxClock \in Nat \ {0}
  /\ Budget \in [Trouble -> Nat]

VARIABLES
  \* PostgreSQL: the row of connections
  status,   \* status: "active", "syncing" or "error"
  token,    \* sync_claim_id
  cursor,   \* last_synced_at; 0 is NULL, before every change
  config,   \* config_encrypted
  due,      \* next_run_at is NULL or past
  \* PostgreSQL: raw_documents, and the Qdrant points made from them
  raw,      \* by document: the version stored (0: no row) and qdrant_synced
  index,    \* by document: the version searchable (0: none or incomplete)
  \* the tasks of the API processes
  pc,       \* the await each attempt is at
  since,    \* the cursor it was given
  using,    \* the configuration it was given
  began,    \* fetch_started_at
  fetched,  \* by document: the version it fetched (0: not fetched)
  changed,  \* changed_source_ids of its upsert
  partly,   \* whether the connector reported fetch_errors
  outcome,  \* the local variable status of the task
  up,       \* processes that run
  \* the source
  clock,    \* how many changes there were
  edited,   \* by document: the number of its last change
  budget    \* Trouble that may still happen

row == <<status, token, cursor, config, due>>
stores == <<raw, index>>
work == <<since, using, began, fetched, changed, partly, outcome>>
source == <<clock, edited>>
vars == <<row, stores, pc, work, up, source, budget>>

Version == 0 .. MaxClock
Outcome == {"success", "partial", "failed"}
Running == {"started", "fetched", "stored", "ingested", "finishing"}
Claiming == {"claimed", "ready"} \cup Running

Init ==
  /\ status = "active" /\ token = None /\ cursor = 0
  /\ config = FirstConfig /\ due = FALSE
  /\ raw = [d \in Doc |-> [version |-> 0, synced |-> FALSE]]
  /\ index = [d \in Doc |-> 0]
  /\ pc = [s \in Sync |-> "idle"]
  /\ since = [s \in Sync |-> 0] /\ using = [s \in Sync |-> FirstConfig]
  /\ began = [s \in Sync |-> 0]
  /\ fetched = [s \in Sync |-> [d \in Doc |-> 0]]
  /\ changed = [s \in Sync |-> {}] /\ partly = [s \in Sync |-> FALSE]
  /\ outcome = [s \in Sync |-> "failed"]
  /\ up = Process
  /\ clock = 1 /\ edited = [d \in Doc |-> 1]
  /\ budget = Budget

(***************************************************************************)
(* Helpers.                                                                *)
(***************************************************************************)
Spend(t) == budget[t] > 0 /\ budget' = [budget EXCEPT ![t] = @ - 1]

At(s, where) == pc[s] = where /\ ProcessOf[s] \in up

GoTo(s, where) == pc' = [pc EXCEPT ![s] = where]

\* The attempt is over: its locals are gone with it.
End(s) ==
  /\ GoTo(s, "idle")
  /\ since' = [since EXCEPT ![s] = 0]
  /\ using' = [using EXCEPT ![s] = FirstConfig]
  /\ began' = [began EXCEPT ![s] = 0]
  /\ fetched' = [fetched EXCEPT ![s] = [d \in Doc |-> 0]]
  /\ changed' = [changed EXCEPT ![s] = {}]
  /\ partly' = [partly EXCEPT ![s] = FALSE]
  /\ outcome' = [outcome EXCEPT ![s] = "failed"]

\* get_connection_decrypted: what the attempt will run with.
Read(s, from) ==
  /\ since' = [since EXCEPT ![s] = from]
  /\ using' = [using EXCEPT ![s] = config]
  /\ UNCHANGED <<began, fetched, changed, partly, outcome>>

\* Mutant of Free: the claim does not look at status.
Unguarded == TRUE

Free == status # "syncing"

Claimed(s) == status' = "syncing" /\ token' = s

\* A fresh uuid: nothing in the row is left of an earlier attempt.
Fresh(s) == At(s, "idle") /\ token # s

(***************************************************************************)
(* POST /{id}/sync/ and metronix_source_sync: the row is read first, then  *)
(* claimed; force_full replaces the cursor by NULL.                        *)
(***************************************************************************)
RequestSync(s) ==
  /\ Fresh(s)
  /\ \E from \in {cursor, 0} : Read(s, from)
  /\ GoTo(s, "asked")
  /\ UNCHANGED <<row, stores, up, source, budget>>

ClaimForSync(s) ==
  /\ At(s, "asked")
  /\ Free
  /\ Claimed(s)
  /\ GoTo(s, "ready")
  /\ UNCHANGED <<cursor, config, due, stores, work, up, source, budget>>

\* 409, or the claim raised: nobody has to be told.
SyncRefused(s) ==
  /\ At(s, "asked")
  /\ \/ ~Free /\ UNCHANGED budget
     \/ Spend("fault")
  /\ End(s)
  /\ UNCHANGED <<row, stores, up, source>>

(***************************************************************************)
(* AutosyncScheduler.tick: the due rows are listed, claimed one by one, and *)
(* only then read.                                                         *)
(***************************************************************************)
ListDue(s) ==
  /\ Fresh(s)
  /\ due /\ Free
  /\ GoTo(s, "listed")
  /\ UNCHANGED <<row, stores, work, up, source, budget>>

ClaimForAutosync(s) ==
  /\ At(s, "listed")
  /\ Free /\ due
  /\ Claimed(s)
  /\ due' = FALSE
  /\ GoTo(s, "claimed")
  /\ UNCHANGED <<cursor, config, stores, work, up, source, budget>>

\* Another claimed it, or the UPDATE fails; a COMMIT whose answer is lost is left out.
ClaimLost(s) ==
  /\ At(s, "listed")
  /\ \/ ~(Free /\ due) /\ UNCHANGED budget
     \/ Spend("fault")
  /\ GoTo(s, "idle")
  /\ UNCHANGED <<row, stores, work, up, source>>

ReadClaimed(s) ==
  /\ At(s, "claimed")
  /\ Read(s, cursor)
  /\ GoTo(s, "ready")
  /\ UNCHANGED <<row, stores, up, source, budget>>

(***************************************************************************)
(* release_unstarted_sync_claim: something between the claim and the task  *)
(* raised.  The row is left alone unless it still has the attempt's token, *)
(* and when the release itself fails, which is swallowed.                  *)
(***************************************************************************)
Owned(s) == token = s

Release(s) ==
  /\ At(s, "claimed") \/ At(s, "ready")
  /\ Spend("fault")
  /\ \/ Owned(s) /\ status' = "error" /\ token' = None
     \/ UNCHANGED <<status, token>>
  /\ End(s)
  /\ UNCHANGED <<cursor, config, due, stores, up, source>>

(***************************************************************************)
(* run_connection_sync.                                                    *)
(***************************************************************************)
Start(s) ==
  /\ At(s, "ready")
  /\ GoTo(s, "started")
  /\ began' = [began EXCEPT ![s] = clock]
  /\ UNCHANGED <<row, stores, since, using, fetched, changed, partly, outcome,
                 up, source, budget>>

\* What the source has to show that is newer than the cursor.
News(s) == {d \in VisibleIn[using[s]] : edited[d] > since[s]}

\* The connector may report errors and return only some of it.
Fetch(s) ==
  /\ At(s, "started")
  /\ \E got \in SUBSET News(s) :
       /\ \/ got = News(s) /\ UNCHANGED <<partly, budget>>
          \/ /\ Spend(IF got \in {{}, News(s)} THEN "fault" ELSE "loss")
             /\ partly' = [partly EXCEPT ![s] = TRUE]
       /\ fetched' = [fetched EXCEPT
            ![s] = [d \in Doc |-> IF d \in got THEN edited[d] ELSE 0]]
  /\ GoTo(s, "fetched")
  /\ UNCHANGED <<row, stores, since, using, began, changed, outcome, up,
                 source>>

Got(s) == {d \in Doc : fetched[s][d] # 0}

\* Mutant of Upserted: new content leaves the Qdrant flag as it was.
FlagLeft(s) ==
  [d \in Doc |-> IF d \in Got(s) THEN [raw[d] EXCEPT !.version = fetched[s][d]]
                 ELSE raw[d]]

\* upsert_raw_documents: new or other content resets the Qdrant flag.
Upserted(s) ==
  [d \in Doc |->
     IF d \in Got(s) /\ raw[d].version # fetched[s][d]
     THEN [version |-> fetched[s][d], synced |-> FALSE]
     ELSE raw[d]]

\* Mutant of ChangedIds: stored but never indexed counts as unchanged.
OtherContent(s) == {d \in Got(s) : raw[d].version # fetched[s][d]}

ChangedIds(s) == {d \in Got(s) : ~Upserted(s)[d].synced}

\* The status after the phases, reconciled with the errors of the fetch.
Reconciled(s, phases) ==
  IF ~partly[s] \/ phases # "success" THEN phases
  ELSE IF Got(s) = {} THEN "failed" ELSE "partial"

Decide(s, phases) == outcome' = [outcome EXCEPT ![s] = Reconciled(s, phases)]

Upsert(s) ==
  /\ At(s, "fetched")
  /\ raw' = Upserted(s)
  /\ changed' = [changed EXCEPT ![s] = ChangedIds(s)]
  /\ IF ChangedIds(s) = {}
       THEN Decide(s, "success") /\ GoTo(s, "finishing")
       ELSE UNCHANGED outcome /\ GoTo(s, "stored")
  /\ UNCHANGED <<row, index, since, using, began, fetched, partly, up, source,
                 budget>>

\* The transaction rolls back; nothing is ingested over an unknown state.
UpsertFails(s) ==
  /\ At(s, "fetched")
  /\ Spend("fault")
  /\ Decide(s, "failed")
  /\ GoTo(s, "finishing")
  /\ UNCHANGED <<row, stores, since, using, began, fetched, changed, partly,
                 up, source>>

\* ingest_documents drops the points of a document before it adds the new
\* ones: a document that fails keeps its old points or is left with none.
Reindexed(s, done, broken) ==
  [d \in Doc |-> CASE d \in done -> fetched[s][d]
                   [] d \in broken -> 0
                   [] OTHER -> index[d]]

\* documents_new counts documents that had no points; re-ingested ones are
\* documents_updated.
IngestStatus(failing, done) ==
  IF failing = {} THEN "success"
  ELSE IF \E d \in done : index[d] = 0 THEN "partial" ELSE "failed"

Ingest(s) ==
  /\ At(s, "stored")
  /\ \E failing \in SUBSET changed[s] :
       LET done == changed[s] \ failing IN
       /\ IF failing = {} THEN UNCHANGED budget ELSE Spend("loss")
       /\ \E broken \in SUBSET failing : index' = Reindexed(s, done, broken)
       /\ outcome' = [outcome EXCEPT ![s] = IngestStatus(failing, done)]
  /\ GoTo(s, "ingested")
  /\ UNCHANGED <<row, raw, since, using, began, fetched, changed, partly, up,
                 source>>

\* mark_documents_synced_by_source takes every document that was fetched.
Marked(s) == Got(s)

MarkSynced(s) ==
  /\ At(s, "ingested")
  /\ raw' = [d \in Doc |-> IF d \in Marked(s) /\ raw[d].version # 0
                           THEN [raw[d] EXCEPT !.synced = TRUE] ELSE raw[d]]
  /\ Decide(s, outcome[s])
  /\ GoTo(s, "finishing")
  /\ UNCHANGED <<row, index, since, using, began, fetched, changed, partly, up,
                 source, budget>>

\* An exception or a cancellation: the finally block still runs.  The status
\* is "failed" until the ingest has set it; an ingest that is cut short has
\* done some documents and may leave one without points.  An exception of
\* mark_documents_synced_by_source is swallowed and the status reconciled.
Interrupt(s) ==
  /\ Spend("fault")
  /\ \/ /\ At(s, "started") \/ At(s, "fetched")
        /\ UNCHANGED <<index, outcome>>
     \/ /\ At(s, "ingested")
        /\ UNCHANGED outcome \/ Decide(s, outcome[s])
        /\ UNCHANGED index
     \/ /\ At(s, "stored")
        /\ UNCHANGED outcome
        /\ \E done \in SUBSET changed[s] :
             \E broken \in SUBSET (changed[s] \ done) :
               index' = Reindexed(s, done, broken)
  /\ GoTo(s, "finishing")
  /\ UNCHANGED <<row, raw, since, using, began, fetched, changed, partly, up,
                 source>>

\* Mutants of CursorAfter: the time of the write; None written as NULL.
LateCursor(s) ==
  IF outcome[s] \in {"success", "partial"} THEN clock ELSE cursor

NullCursor(s) ==
  IF outcome[s] \in {"success", "partial"} THEN began[s] ELSE 0

\* The cursor advances, to the time the fetch began, with some success only.
CursorAfter(s) ==
  IF outcome[s] \in {"success", "partial"} THEN began[s] ELSE cursor

\* update_connection_status(clear_sync_claim=True): no check of the token.
Finish(s) ==
  /\ At(s, "finishing")
  /\ status' = IF outcome[s] = "success" THEN "active" ELSE "error"
  /\ token' = None
  /\ cursor' = CursorAfter(s)
  /\ End(s)
  /\ UNCHANGED <<config, due, stores, up, source, budget>>

\* The terminal write raised and the exception was swallowed.
FinishFails(s) ==
  /\ At(s, "finishing")
  /\ Spend("fault")
  /\ End(s)
  /\ UNCHANGED <<row, stores, up, source>>

(***************************************************************************)
(* The rest of the API.                                                    *)
(***************************************************************************)
\* No attempt has read the row and is still to act on it.
Quiet == \A s \in Sync : pc[s] \in {"idle", "listed"}

\* update_connection with a config: #466.
EditConfig(c) ==
  /\ Careful => Quiet
  /\ Spend("edit")
  /\ config' = c
  /\ status' = "active"
  /\ cursor' = 0
  /\ UNCHANGED <<token, due, stores, pc, work, up, source>>

\* POST /{id}/test/: the health check is over and its result is written.
TestConnection ==
  /\ Careful => Quiet
  /\ status' \in {"active", "error"}
  /\ UNCHANGED <<token, cursor, config, due, stores, pc, work, up, source,
                 budget>>

\* next_run_at has come.
RunIsDue ==
  /\ ~due
  /\ due' = TRUE
  /\ UNCHANGED <<status, token, cursor, config, stores, pc, work, up, source,
                 budget>>

\* The process is killed: no finally block runs.  A death in the middle of an
\* ingest is an Interrupt and then a Kill.
Kill(p) ==
  /\ p \in up
  /\ Spend("stop")
  /\ up' = up \ {p}
  /\ UNCHANGED <<row, stores, pc, work, source>>

\* recover_interrupted_syncs at startup: every claim, whoever holds it.
\* Mutant of Recovered: the status word of sync_logs.
LogStatus == IF status = "syncing" THEN "failed" ELSE status

Recovered == IF status = "syncing" THEN "error" ELSE status

Mine(p, f, new) == [s \in Sync |-> IF ProcessOf[s] = p THEN new ELSE f[s]]

Restart(p) ==
  /\ p \in Process \ up
  /\ up' = up \cup {p}
  /\ status' = Recovered
  /\ token' = IF status = "syncing" THEN None ELSE token
  /\ pc' = Mine(p, pc, "idle")
  /\ since' = Mine(p, since, 0) /\ using' = Mine(p, using, FirstConfig)
  /\ began' = Mine(p, began, 0)
  /\ fetched' = Mine(p, fetched, [d \in Doc |-> 0])
  /\ changed' = Mine(p, changed, {}) /\ partly' = Mine(p, partly, FALSE)
  /\ outcome' = Mine(p, outcome, "failed")
  /\ UNCHANGED <<cursor, config, due, stores, source, budget>>

\* Somebody changes a document at the source.
ChangeSource(d) ==
  /\ clock < MaxClock
  /\ clock' = clock + 1
  /\ edited' = [edited EXCEPT ![d] = clock + 1]
  /\ UNCHANGED <<row, stores, pc, work, up, budget>>

Attempt(s) ==
  \/ RequestSync(s) \/ ClaimForSync(s) \/ SyncRefused(s)
  \/ ListDue(s) \/ ClaimForAutosync(s) \/ ClaimLost(s) \/ ReadClaimed(s)
  \/ Release(s)
  \/ Start(s) \/ Fetch(s) \/ Upsert(s) \/ UpsertFails(s)
  \/ Ingest(s) \/ MarkSynced(s) \/ Interrupt(s)
  \/ Finish(s) \/ FinishFails(s)

Next ==
  \/ \E s \in Sync : Attempt(s)
  \/ \E c \in Config : EditConfig(c)
  \/ TestConnection
  \/ RunIsDue
  \/ \E p \in Process : Kill(p) \/ Restart(p)
  \/ \E d \in Doc : ChangeSource(d)

Spec == Init /\ [][Next]_vars

\* The event loop runs every task it has, the scheduler polls for ever, the
\* cron comes round, and a process that died is started again.  Requests,
\* edits, changes of the source and trouble need never happen.
Steps(s) ==
  \/ ClaimForSync(s) \/ SyncRefused(s)
  \/ ClaimForAutosync(s) \/ ClaimLost(s) \/ ReadClaimed(s)
  \/ Start(s) \/ Fetch(s) \/ Upsert(s) \/ Ingest(s) \/ MarkSynced(s)
  \/ Finish(s)

Fairness ==
  /\ \A s \in Sync : WF_vars(Steps(s)) /\ WF_vars(ListDue(s))
  /\ WF_vars(RunIsDue)
  /\ \A p \in Process : WF_vars(Restart(p))

FairSpec == Spec /\ Fairness

(***************************************************************************)
(* Properties.                                                             *)
(***************************************************************************)
TypeOK ==
  /\ status \in {"active", "syncing", "error"}
  /\ token \in Sync \cup {None}
  /\ cursor \in Version /\ config \in Config /\ due \in BOOLEAN
  /\ raw \in [Doc -> [version : Version, synced : BOOLEAN]]
  /\ index \in [Doc -> Version]
  /\ pc \in [Sync -> {"idle", "asked", "listed"} \cup Claiming]
  /\ since \in [Sync -> Version] /\ using \in [Sync -> Config]
  /\ began \in [Sync -> Version]
  /\ fetched \in [Sync -> [Doc -> Version]]
  /\ changed \in [Sync -> SUBSET Doc] /\ partly \in [Sync -> BOOLEAN]
  /\ outcome \in [Sync -> Outcome]
  /\ up \in SUBSET Process
  /\ clock \in 1 .. MaxClock
  /\ edited \in [Doc -> 1 .. MaxClock]
  /\ budget \in [Trouble -> Nat]

\* While an attempt is between its claim and its terminal write, the row says
\* "syncing" and holds its token: the claims of requests and of the scheduler,
\* the releases, the recovery after a restart and the terminal writes of
\* earlier attempts leave it alone.  (One process; edits and tests wait.)
LockHeld ==
  \A s \in Sync : pc[s] \in Claiming => status = "syncing" /\ token = s

\* What trigger_sync says of its claim: exactly one request ever gets past it,
\* so no two attempts of processes that are alive work on the connection.
OneSyncAtATime ==
  \A s, t \in Sync :
    /\ pc[s] \in Claiming /\ ProcessOf[s] \in up
    /\ pc[t] \in Claiming /\ ProcessOf[t] \in up
    => s = t

\* No part of the source and no document has failed on its own so far.
Lossless == budget["loss"] = Budget["loss"]

BehindCursor == {d \in VisibleIn[config] : edited[d] <= cursor}

\* The cursor never runs ahead of raw_documents: a document whose last change
\* lies behind last_synced_at, which no later incremental fetch will return,
\* is stored as that change left it, whatever failed or was killed meanwhile
\* and whenever the source changed.  (A fetch that succeeds in part is the
\* exception: its cursor advances over what it did not return.)
NothingSkipped ==
  Lossless => \A d \in BehindCursor : raw[d].version = edited[d]

\* qdrant_synced says of a stored document that its points are those of the
\* version stored; if it is wrongly set, nothing ever ingests it again.
\* (A document whose ingest fails is the exception: see NoneLost.)
NoFalseMark ==
  Lossless => \A d \in Doc : raw[d].synced => index[d] = raw[d].version

\* The cursor does not go back, unless an edit of the configuration resets it.
CursorKept == [][cursor' >= cursor \/ \E c \in Config : EditConfig(c)]_vars

\* The comment on fetch_started_at: a document must not be lost for ever; what
\* is behind the cursor can be searched.
NoneLost == \A d \in BehindCursor : index[d] = edited[d]

\* The orphan that only a restart clears: the terminal write or the release of
\* an attempt failed, and the row says "syncing" for nobody.
Wedged ==
  /\ budget["fault"] < Budget["fault"]
  /\ status = "syncing" /\ \A s \in Sync : pc[s] \notin Claiming

\* Once the source is left alone, all of it that the configuration shows ends
\* up searchable, through failures of calls, a process killed and an edit of
\* the configuration, unless the row is wedged or a part failed on its own.
EventuallySearchable ==
  <>[](Wedged \/ ~Lossless \/ \A d \in VisibleIn[config] : index[d] = edited[d])
=============================================================================
