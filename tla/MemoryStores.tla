---------------------------- MODULE MemoryStores ----------------------------
(***************************************************************************)
(* The memory records of one agent and the stores that hold them:          *)
(* memory/service.py, memory/snapshot.py, mcp/tools/memory_update.py and   *)
(* the stores memory_postgres.py, memory_redis.py, memory_qdrant.py.       *)
(*                                                                         *)
(* PostgreSQL is the source of truth.  Qdrant has a point per record that  *)
(* search finds; Redis has the records of a session, and one key with the  *)
(* list of their ids.  An operation writes several stores, one call at a   *)
(* time, with no transaction over them.                                    *)
(*                                                                         *)
(* A step is one call to a store and the local code after it.  Neo4j is    *)
(* left out: it is written best-effort and search takes no content from    *)
(* it.  A record id is a fresh uuid: it is created once.                   *)
(***************************************************************************)
EXTENDS Naturals, FiniteSets

CONSTANTS
  Record,        \* ids that can be created
  SessionRecord, \* those that cache_session creates
  Content,       \* contents; equal when their SHA-256 is
  Client,        \* operations that can be under way at once
  Nothing,
  \* Bounds of the environment, in the guards of its steps.
  MaxCalls,      \* operations begun
  MaxFaults      \* store calls that raise

Row == [text : Content, hashed : BOOLEAN, dated : BOOLEAN]
Rows == [Record -> Row \cup {Nothing}]

ASSUME StoresAssumption ==
  /\ SessionRecord \subseteq Record
  /\ Nothing \notin Record \cup Content \cup Row \cup Rows
  /\ MaxCalls \in Nat /\ MaxFaults \in Nat

VARIABLES
  row,      \* memory_records: content, content_hash set, ttl_expires_at set
  snapshot, \* the newest snapshot of the agent
  point,    \* the content of each record's point in Qdrant
  cached,   \* the content of each record in Redis
  listing,  \* the ids in the index of the session
  born,     \* ids created so far
  old,      \* records whose age exceeds every TTL and grace period
  task,     \* what each operation under way remembers
  \* history, read by the properties only
  promised, \* records reported as stored for good, and not removed since
  strayed,  \* records an index call failed for, two operations worked on
            \* at once, or the collector deleted
  rivalled, \* contents two operations wrote at once, or an edit or restore
  misfiled, \* changes of the index of the session overlapped, one failed,
            \* or the index expired before a record in it
  calls, faultsLeft

stores     == <<row, snapshot, point, cached, listing>>
history    == <<promised, strayed, rivalled, misfiled>>
storesVars == <<stores, born, old, task, history, calls, faultsLeft>>

Step == {"idle", "save", "upsert", "uncache", "lookRemove", "unlist", "lookAdd",
         "list", "dual", "drop", "unindex", "replace", "reindex"}

\* rec: the record worked on, copy: its content as read or given; session: the
\* session record to uncache in the end; ids: the index as read; drop and add:
\* points still to delete and to write, with the rows to write in backup.
Idle == [step |-> "idle", rec |-> Nothing, copy |-> Nothing, session |-> Nothing,
         ids |-> {}, drop |-> {}, add |-> {}, backup |-> Nothing]

TaskType ==
  [step : Step, rec : Record \cup {Nothing}, copy : Row \cup {Nothing},
   session : Record \cup {Nothing}, ids : SUBSET Record,
   drop : SUBSET Record, add : SUBSET Record, backup : Rows \cup {Nothing}]

\* An operation remembers what its next call needs.
TaskOK(t) ==
  /\ t \in TaskType
  /\ t.step \in {"save", "upsert", "lookAdd", "list", "dual"}
       => t.rec \in born /\ t.copy \in Row
  /\ t.step \in {"uncache", "lookRemove", "unlist"} => t.session \in born
  /\ t.step = "replace" => t.backup \in Rows
  /\ t.step = "unindex" => t.drop # {}
  /\ t.step \in {"unindex", "reindex"} =>
       \A r \in t.add : t.backup \in Rows /\ t.backup[r] # Nothing

StoresTypeOK ==
  /\ row \in Rows /\ snapshot \in Rows \cup {Nothing}
  /\ point \in [Record -> Content \cup {Nothing}]
  /\ cached \in [Record -> Content \cup {Nothing}]
  /\ listing \subseteq born /\ born \subseteq Record /\ old \subseteq born
  /\ DOMAIN task = Client /\ \A c \in Client : TaskOK(task[c])
  /\ promised \subseteq born /\ strayed \subseteq born
  /\ rivalled \subseteq Content /\ misfiled \in BOOLEAN
  /\ calls \in 0 .. MaxCalls /\ faultsLeft \in 0 .. MaxFaults

StoresInit ==
  /\ row = [r \in Record |-> Nothing] /\ snapshot = Nothing
  /\ point = [r \in Record |-> Nothing] /\ cached = [r \in Record |-> Nothing]
  /\ listing = {} /\ born = {} /\ old = {}
  /\ task = [c \in Client |-> Idle]
  /\ promised = {} /\ strayed = {} /\ rivalled = {} /\ misfiled = FALSE
  /\ calls = 0 /\ faultsLeft = MaxFaults

---------------------------------------------------------
\* The stores

Stored == {r \in Record : row[r] # Nothing}

\* Mutants.
AnyAge == {r \in Stored : r \in old}
NeverFound(x) == {}

\* get_by_hash: the rows with this content_hash; the newest one is taken.
ByHash(x) == {r \in Stored : row[r].hashed /\ row[r].text = x}

\* save: INSERT ... ON CONFLICT (id) DO UPDATE.
SaveRow(r, copy) == row' = [row EXCEPT ![r] = copy]

\* update: UPDATE ... RETURNING; a new content takes its hash along.
UpdateRow(r, x) == row' = [row EXCEPT ![r].text = x, ![r].hashed = TRUE]

\* DELETE ... RETURNING id.
DropRows(S) == row' = [r \in Record |-> IF r \in S THEN Nothing ELSE row[r]]

\* The rows that delete_session_records_past_grace selects.
Expired == {r \in Stored : row[r].dated /\ r \in old}

\* replace_for_agent: every row of the agent goes, those of the snapshot come.
ReplaceRows(backup) == row' = backup

\* What cache_session writes: no content_hash, a ttl_expires_at.
SessionRow(x) == [text |-> x, hashed |-> FALSE, dated |-> TRUE]
SavedRow(x)   == [text |-> x, hashed |-> TRUE, dated |-> FALSE]

---------------------------------------------------------
\* Operations under way

Begin(c) == task[c] = Idle /\ calls < MaxCalls /\ calls' = calls + 1
At(c, step) == task[c].step = step /\ UNCHANGED calls
Becomes(c, t) == task' = [task EXCEPT ![c] = t]
Goes(c, step) == Becomes(c, [task[c] EXCEPT !.step = step])
Finish(c) == Becomes(c, Idle)

NoUnindexing(t) == IF t.add # {} THEN [t EXCEPT !.step = "reindex"] ELSE Idle

\* The points are deleted first, then written, one call each.
Indexing(t) ==
  IF t.drop # {} THEN [t EXCEPT !.step = "unindex"]
  ELSE IF t.add # {} THEN [t EXCEPT !.step = "reindex"] ELSE Idle

Fails == faultsLeft > 0 /\ faultsLeft' = faultsLeft - 1
Works == UNCHANGED faultsLeft

\* What an operation may still write.
Holds(c) ==
  IF task[c].step = "replace" THEN born
  ELSE ({task[c].rec} \ {Nothing}) \cup task[c].drop \cup task[c].add
Busy(c, S) == {r \in S : \E d \in Client \ {c} : r \in Holds(d)}
Shared(c, S) == strayed' = strayed \cup Busy(c, S)

\* Another operation has seen no row of content x and will write one.
Rivals(c, x) ==
  \E d \in Client \ {c} : task[d].step = "save" /\ task[d].copy.text = x
Contend(c, x) == rivalled' = IF Rivals(c, x) THEN rivalled \cup {x} ELSE rivalled

\* Another operation has read the index of the session and will write it.
Unread(c) == \A d \in Client \ {c} : task[d].step \notin {"list", "unlist", "drop"}
WriteIndex(c, S) == listing' = S /\ misfiled' = (misfiled \/ ~Unread(c))

---------------------------------------------------------
\* save

\* A row with this content exists: it is returned and nothing is written.
SaveDuplicate(c, x) ==
  /\ Begin(c)
  /\ \E r \in ByHash(x) : promised' = promised \cup {r}
  /\ UNCHANGED <<stores, born, old, task, strayed, rivalled, misfiled, faultsLeft>>

SaveNew(c, r, x) ==
  /\ Begin(c)
  /\ r \notin born \cup SessionRecord /\ ByHash(x) = {}
  /\ born' = born \cup {r}
  /\ Becomes(c, [Idle EXCEPT !.step = "save", !.rec = r, !.copy = SavedRow(x)])
  /\ Contend(c, x)
  /\ UNCHANGED <<stores, old, promised, strayed, misfiled, faultsLeft>>

\* The row is committed; when its reply is lost, the caller sees an exception.
Save(c) ==
  /\ At(c, "save")
  /\ SaveRow(task[c].rec, task[c].copy)
  /\ \/ Works /\ Goes(c, "upsert") /\ UNCHANGED strayed
     \/ Fails /\ Finish(c) /\ strayed' = strayed \cup {task[c].rec}
  /\ UNCHANGED <<snapshot, point, cached, listing, born, old, promised, rivalled,
                 misfiled>>

\* The record is stored, if nothing has removed its row since.  A promotion
\* goes on to take the session record out of Redis.
Upsert(c) ==
  /\ At(c, "upsert")
  /\ point' = [point EXCEPT ![task[c].rec] = task[c].copy.text]
  /\ promised' = promised \cup ({task[c].rec} \cap Stored)
  /\ IF task[c].session = Nothing THEN Finish(c) ELSE Goes(c, "uncache")
  /\ UNCHANGED <<row, snapshot, cached, listing, born, old, strayed, rivalled,
                 misfiled, faultsLeft>>

\* The error reaches the caller and the row stays.
UpsertFails(c) ==
  /\ At(c, "upsert") /\ Fails
  /\ strayed' = strayed \cup {task[c].rec}
  /\ Finish(c)
  /\ UNCHANGED <<stores, born, old, promised, rivalled, misfiled>>

---------------------------------------------------------
\* cache_session: its first SET has been answered; one that fails leaves, at most,
\* a key that no index names.

CacheSession(c, r, x) ==
  /\ Begin(c)
  /\ r \in SessionRecord \ born
  /\ born' = born \cup {r}
  /\ cached' = [cached EXCEPT ![r] = x]
  /\ Becomes(c, [Idle EXCEPT !.step = "lookAdd", !.rec = r, !.copy = SessionRow(x)])
  /\ UNCHANGED <<row, snapshot, point, listing, old, history, faultsLeft>>

ReadIndex(c) ==
  /\ \E next \in {<<"lookAdd", "list">>, <<"lookRemove", "unlist">>} :
        /\ At(c, next[1])
        /\ Becomes(c, [task[c] EXCEPT !.step = next[2], !.ids = listing])
  /\ UNCHANGED <<stores, born, old, history, faultsLeft>>

LongerIndex(c) == task[c].ids \cup {task[c].rec}

AddToIndex(c) ==
  /\ At(c, "list")
  /\ WriteIndex(c, LongerIndex(c))
  /\ Goes(c, "dual")
  /\ UNCHANGED <<row, snapshot, point, cached, born, old, promised, strayed, rivalled,
                 faultsLeft>>

\* A Redis call for the index raises, before PostgreSQL is written.
IndexFails(c) ==
  /\ task[c].step \in {"lookAdd", "list"} /\ Fails
  /\ misfiled' = TRUE
  /\ Finish(c)
  /\ UNCHANGED <<stores, born, old, promised, strayed, rivalled, calls>>

\* _dual_write_session_to_pg_best_effort
DualWrite(c) ==
  /\ At(c, "dual")
  /\ \/ Works /\ SaveRow(task[c].rec, task[c].copy)
     \/ Fails /\ UNCHANGED row
  /\ Finish(c)
  /\ UNCHANGED <<snapshot, point, cached, listing, born, old, history>>

\* invalidate_session: the ids are read, then their keys and the index go.
Invalidate(c) ==
  /\ Begin(c)
  /\ listing # {}
  /\ Becomes(c, [Idle EXCEPT !.step = "drop", !.ids = listing])
  /\ UNCHANGED <<stores, born, old, history, faultsLeft>>

DropSession(c) ==
  /\ At(c, "drop")
  /\ cached' = [r \in Record |-> IF r \in task[c].ids THEN Nothing ELSE cached[r]]
  /\ WriteIndex(c, {})
  /\ Finish(c)
  /\ UNCHANGED <<row, snapshot, point, born, old, promised, strayed, rivalled,
                 faultsLeft>>

---------------------------------------------------------
\* promote

\* The content of r as promote reads it: from Redis, else from PostgreSQL.
Readable(r) == cached[r] # Nothing \/ row[r] # Nothing
TextOf(r) == IF cached[r] # Nothing THEN cached[r] ELSE row[r].text

Uncaching(r) == [Idle EXCEPT !.step = "uncache", !.session = r]

\* A row with the content exists; it is the result, and is written back when
\* its scope has to change.
PromoteDuplicate(c, r) ==
  /\ Begin(c)
  /\ r \in SessionRecord /\ Readable(r)
  /\ \E e \in ByHash(TextOf(r)) :
        \/ Becomes(c, Uncaching(r)) /\ promised' = promised \cup {e}
           /\ UNCHANGED <<strayed, rivalled>>
        \/ /\ Becomes(c, [Uncaching(r) EXCEPT !.step = "save", !.rec = e,
                                              !.copy = row[e]])
           /\ Shared(c, {e}) /\ Contend(c, row[e].text)
           /\ UNCHANGED promised
  /\ UNCHANGED <<stores, born, old, misfiled, faultsLeft>>

\* No such row.  The row of r is written back with its hash, and with the
\* ttl_expires_at it was read with.
PromoteRow(c, r) ==
  /\ Begin(c)
  /\ r \in SessionRecord /\ cached[r] = Nothing /\ row[r] # Nothing
  /\ ByHash(row[r].text) = {}
  /\ Becomes(c, [Uncaching(r) EXCEPT !.step = "save", !.rec = r,
                                     !.copy = [row[r] EXCEPT !.hashed = TRUE]])
  /\ Shared(c, {r}) /\ Contend(c, row[r].text)
  /\ UNCHANGED <<stores, born, old, promised, misfiled, faultsLeft>>

\* No such row, and r comes from Redis: its kind has become a string there, and
\* save, which reads record.kind.value, raises before it writes.
PromoteRaises(c, r) ==
  /\ Begin(c)
  /\ r \in SessionRecord /\ cached[r] # Nothing /\ ByHash(cached[r]) = {}
  /\ UNCHANGED <<stores, born, old, task, history, faultsLeft>>

Uncache(c) ==
  /\ At(c, "uncache")
  /\ cached' = [cached EXCEPT ![task[c].session] = Nothing]
  /\ Goes(c, "lookRemove")
  /\ UNCHANGED <<row, snapshot, point, listing, born, old, history, faultsLeft>>

RemoveFromIndex(c) ==
  /\ At(c, "unlist")
  /\ IF task[c].session \in task[c].ids
     THEN WriteIndex(c, task[c].ids \ {task[c].session})
     ELSE UNCHANGED <<listing, misfiled>>
  /\ Finish(c)
  /\ UNCHANGED <<row, snapshot, point, cached, born, old, promised, strayed, rivalled,
                 faultsLeft>>

\* Best-effort: the promotion succeeds all the same.
UncacheFails(c) ==
  /\ task[c].step \in {"uncache", "lookRemove", "unlist"} /\ Fails
  /\ Finish(c)
  /\ UNCHANGED <<stores, born, old, history, calls>>

---------------------------------------------------------
\* delete, reset, memory_update and snapshots

\* delete of one record; reset of those that its filters match.
DeleteRecords(c, S) ==
  /\ Begin(c)
  /\ S # {} /\ S \subseteq Stored
  /\ DropRows(S)
  /\ promised' = promised \ S
  /\ Becomes(c, Indexing([Idle EXCEPT !.drop = S]))
  /\ Shared(c, S)
  /\ UNCHANGED <<snapshot, point, cached, listing, born, old, rivalled, misfiled,
                 faultsLeft>>

\* One point, best-effort; a restore goes on to write the points of its rows.
Unindex(c) ==
  /\ At(c, "unindex")
  /\ \E r \in task[c].drop :
        /\ \/ Works /\ point' = [point EXCEPT ![r] = Nothing] /\ UNCHANGED strayed
           \/ Fails /\ UNCHANGED point /\ strayed' = strayed \cup {r}
        /\ Becomes(c, Indexing([task[c] EXCEPT !.drop = @ \ {r}]))
  /\ UNCHANGED <<row, snapshot, cached, listing, born, old, promised, rivalled,
                 misfiled>>

\* metronix_memory_update with a content.
Edit(c, r, x) ==
  /\ Begin(c)
  /\ r \in Stored
  /\ UpdateRow(r, x)
  /\ Becomes(c, Indexing([Idle EXCEPT !.add = {r}, !.backup = row']))
  /\ Shared(c, {r})
  /\ rivalled' = IF ByHash(x) \ {r} # {} \/ Rivals(c, x) THEN rivalled \cup {x}
                 ELSE rivalled
  /\ UNCHANGED <<snapshot, point, cached, listing, born, old, promised, misfiled,
                 faultsLeft>>

TakeSnapshot(c) ==
  /\ Begin(c)
  /\ snapshot' = row
  /\ UNCHANGED <<row, point, cached, listing, born, old, task, history, faultsLeft>>

\* restore reads the file of the snapshot and lists the rows for the snapshot
\* it takes before the replacement.
Restore(c) ==
  /\ Begin(c)
  /\ snapshot # Nothing
  /\ snapshot' = row
  /\ Becomes(c, [Idle EXCEPT !.step = "replace", !.backup = snapshot])
  /\ Shared(c, born)
  /\ UNCHANGED <<row, point, cached, listing, born, old, promised, rivalled, misfiled,
                 faultsLeft>>

Replace(c) ==
  /\ At(c, "replace")
  /\ LET backup == task[c].backup
         kept   == {r \in Record : backup[r] # Nothing}
     IN /\ ReplaceRows(backup)
        /\ promised' = promised \cap kept
        /\ Becomes(c, Indexing([task[c] EXCEPT !.drop = Stored, !.add = kept]))
        /\ rivalled' = rivalled \cup {x \in Content :
             Rivals(c, x) /\ \E r \in kept : backup[r].text = x}
  /\ Shared(c, born)
  /\ UNCHANGED <<snapshot, point, cached, listing, born, old, misfiled, faultsLeft>>

\* One point, best-effort, from the row as read or written before.
Reindex(c) ==
  /\ At(c, "reindex")
  /\ \E r \in task[c].add :
        /\ \/ Works /\ point' = [point EXCEPT ![r] = task[c].backup[r].text]
              /\ UNCHANGED strayed
           \/ Fails /\ UNCHANGED point /\ strayed' = strayed \cup {r}
        /\ Becomes(c, Indexing([task[c] EXCEPT !.add = @ \ {r}]))
  /\ UNCHANGED <<row, snapshot, cached, listing, born, old, promised, rivalled,
                 misfiled>>

---------------------------------------------------------
\* Time

Age(r) ==
  /\ r \in born \ old
  /\ old' = old \cup {r}
  /\ UNCHANGED <<stores, born, task, history, calls, faultsLeft>>

SessionKeyExpires(r) ==
  /\ cached[r] # Nothing
  /\ cached' = [cached EXCEPT ![r] = Nothing]
  /\ UNCHANGED <<row, snapshot, point, listing, born, old, task, history, calls,
                 faultsLeft>>

\* Each record brings a TTL of its own, and the index has that of the last one.
IndexExpires ==
  /\ listing # {}
  /\ listing' = {}
  /\ misfiled' = (misfiled \/ \E r \in listing : cached[r] # Nothing
                              \/ \E c \in Client : ~Unread(c))
  /\ UNCHANGED <<row, snapshot, point, cached, born, old, task, promised, strayed,
                 rivalled, calls, faultsLeft>>

\* SessionGCPass: one DELETE in PostgreSQL, and nothing else.
Collect ==
  /\ Expired # {}
  /\ DropRows(Expired)
  /\ strayed' = strayed \cup Expired
  /\ UNCHANGED <<snapshot, point, cached, listing, born, old, task, promised, rivalled,
                 misfiled, calls, faultsLeft>>

---------------------------------------------------------
OperationStep(c) ==
  \/ Save(c) \/ Upsert(c) \/ UpsertFails(c)
  \/ ReadIndex(c) \/ AddToIndex(c) \/ IndexFails(c) \/ DualWrite(c) \/ DropSession(c)
  \/ Uncache(c) \/ RemoveFromIndex(c) \/ UncacheFails(c)
  \/ Unindex(c) \/ Replace(c) \/ Reindex(c)

OperationBegins(c) ==
  \/ \E x \in Content : SaveDuplicate(c, x)
  \/ \E r \in Record, x \in Content :
        SaveNew(c, r, x) \/ CacheSession(c, r, x) \/ Edit(c, r, x)
  \/ \E r \in Record : PromoteDuplicate(c, r) \/ PromoteRow(c, r) \/ PromoteRaises(c, r)
  \/ \E S \in SUBSET Record : DeleteRecords(c, S)
  \/ Invalidate(c) \/ TakeSnapshot(c) \/ Restore(c)

StoresNext ==
  \/ \E c \in Client : OperationBegins(c) \/ OperationStep(c)
  \/ \E r \in Record : Age(r) \/ SessionKeyExpires(r)
  \/ IndexExpires \/ Collect

StoresSpec == StoresInit /\ [][StoresNext]_storesVars

---------------------------------------------------------
\* A record that was reported as stored and that no session created stays in
\* PostgreSQL until a delete, a reset or a restore removes it: the collector of
\* expired session rows and the other operations leave it alone.
PersistentKept == promised \ SessionRecord \subseteq Stored

\* An operation that will still write the point of r.
Pending(r) == \E c \in Client : r \in Holds(c)

\* Search reads the points and not the rows.  Of a record that nobody works on,
\* a point exists only if the row does and has its content, and a stored record
\* has its point, unless an index call failed for it, two operations overlapped
\* on it, or the collector took its row.
IndexAgrees ==
  \A r \in born \ strayed : ~Pending(r) =>
     /\ point[r] # Nothing => row[r] # Nothing /\ row[r].text = point[r]
     /\ r \in promised => point[r] # Nothing

\* The look for a row with the same hash and the insertion are two calls: two
\* rows of one agent have the same hash only if two writes of that content
\* overlapped, or an edit or a restore brought it back beside another row.
OneRowPerContent ==
  \A r, s \in Stored :
     r # s /\ row[r].hashed /\ row[s].hashed /\ row[r].text = row[s].text
       => row[r].text \in rivalled

\* The index of a session is read and written back: a session record that Redis
\* has is listed, unless two changes of the index overlapped, one failed, or the
\* index expired first.
SessionListed ==
  misfiled \/ \A r \in Record :
    cached[r] # Nothing /\ (\A c \in Client : task[c].rec # r) => r \in listing

\* What an operation may leave behind in one store, when no other overlapped it:
\* no second row of a content, no session record that its index does not list.
StoresSound == StoresTypeOK /\ OneRowPerContent /\ SessionListed

\* A memory record is found once, and not lost, by its row, its session key and its point.
MemoryKept == StoresSound /\ PersistentKept /\ IndexAgrees
=============================================================================
