----------------------------- MODULE DriveFeed ------------------------------
(***************************************************************************)
(* The Google Drive connector: files under one folder and a subfolder of   *)
(* it, the full sweep that lists them, the incremental fetch that pages    *)
(* the feed of changes from a saved token, the rows and the points the     *)
(* sync writes from what was fetched, and the token that is saved after    *)
(* the sync has let its claim go.  Syncs of one connection do not overlap, *)
(* as in ConnectionSync.                                                   *)
(*                                                                         *)
(* Drive is external: it numbers the changes, and its feed has, after a    *)
(* number, one entry with its present parent for each thing changed since. *)
(* A content, with the title and the metadata, is the number of the edit   *)
(* that made it.                                                           *)
(***************************************************************************)
EXTENDS Integers, FiniteSets, FiniteSetsExt

CONSTANTS
  File,
  Sub,          \* the subfolder
  MaxTicks,   \* bound: changes of the drive
  MaxFetches,   \* bound: syncs
  MaxTroubles   \* bound: calls that fail, files skipped, entries without parents

ASSUME DriveAssumption == Sub \notin File

VARIABLES
  changed,    \* [thing -> number of its last change]
  content,    \* [file -> number of its last edit]
  parent,     \* [thing -> "root", "sub" or "away": elsewhere, or in the trash]
  tick,       \* the last change
  token,      \* connector_state: page_token; -1: none
  stamped,    \* connections.last_synced_at is set
  copied,     \* raw_documents: [file -> the content stored; -1: no row]
  unsynced,   \* rows whose qdrant_synced is false
  index,      \* Qdrant: [file -> the content of its points; -1: no points]
  fetch,      \* the sync under way
  unsaved,    \* tokens of syncs that have released their claim
  \* ghosts, until the next edit or ingest of the file
  astray,     \* files whose folder came into the scope, whose entry had no parents,
              \* or which were skipped
  unfed,      \* files whose content was not ingested, though the sync went on
  fetchesLeft,
  troublesLeft

driveVars == <<changed, content, parent, tick, token, stamped, copied, unsynced, index, fetch,
               unsaved, astray, unfed, fetchesLeft, troublesLeft>>

drive == <<changed, content, parent, tick>>
indexed == <<copied, unsynced, index, unfed>>
saved == <<token, stamped, unsaved>>

Thing == File \cup {Sub}
NoToken == -1

InScope(f) ==
  \/ parent[f] = "root"
  \/ parent[f] = "sub" /\ parent[Sub] = "root"

\* queue: folders still to list; scope: scope_ids; at: where the feed is read;
\* metas: entries, as [thing, parent] pairs; next: _next_cursor; status: of the ingest.
NoFetch == [at |-> "idle", queue |-> {}, scope |-> {}, from |-> 0, metas |-> {},
            got |-> [f \in File |-> -1], todo |-> {}, failed |-> FALSE, next |-> NoToken,
            status |-> "none"]

Trouble == troublesLeft > 0 /\ troublesLeft' = troublesLeft - 1

\* fetch: _load_cursor may fail, and force_full asks for all of it.
StartFetch(full) ==
  /\ fetch.at = "idle" /\ fetchesLeft > 0
  /\ ~full => stamped /\ token # NoToken
  /\ fetchesLeft' = fetchesLeft - 1
  /\ fetch' = [NoFetch EXCEPT !.at = IF full THEN "capture" ELSE "scope", !.from = token]
  /\ UNCHANGED <<drive, indexed, saved, astray, troublesLeft>>

\* _full_sweep: _get_start_page_token, before the listing.
CaptureToken ==
  /\ fetch.at = "capture"
  /\ fetch' = [fetch EXCEPT !.at = "sweep", !.next = tick, !.queue = {"root"}]
  /\ UNCHANGED <<drive, indexed, saved, astray, fetchesLeft, troublesLeft>>

\* _walk_folder, one listing.
ListFolder(p) ==
  /\ fetch.at = "sweep" /\ p \in fetch.queue
  /\ fetch' = [fetch EXCEPT
       !.queue = (@ \ {p}) \cup (IF p = "root" /\ parent[Sub] = p THEN {"sub"} ELSE {}),
       !.todo = @ \cup {f \in File : parent[f] = p}]
  /\ UNCHANGED <<drive, indexed, saved, astray, fetchesLeft, troublesLeft>>

SweepDone ==
  /\ fetch.at = "sweep" /\ fetch.queue = {}
  /\ fetch' = [fetch EXCEPT !.at = "build"]
  /\ UNCHANGED <<drive, indexed, saved, astray, fetchesLeft, troublesLeft>>

\* _folder_scope_ids
ReadScope ==
  /\ fetch.at = "scope"
  /\ fetch' = [fetch EXCEPT !.at = "feed",
                            !.scope = {"root"} \cup {s \in {"sub"} : parent[Sub] = "root"}]
  /\ UNCHANGED <<drive, indexed, saved, astray, fetchesLeft, troublesLeft>>

\* _grow_scope_with_new_folders
Grown(scope, metas) == scope \cup {s \in {"sub"} : <<Sub, "root">> \in metas}

\* One page of changes.list, of one entry; an entry may lack its parents.
PageOfChanges(omitted) ==
  LET ahead == {t \in Thing : changed[t] > fetch.from}
      page  == {t \in ahead : \A u \in ahead : changed[t] <= changed[u]}
      metas == fetch.metas \cup (IF omitted THEN {} ELSE {<<t, parent[t]>> : t \in page})
      scope == Grown(fetch.scope, metas)
      last  == ahead \subseteq page
  IN
  /\ fetch.at = "feed"
  /\ omitted => Trouble /\ page # {} /\ page \subseteq File
  /\ ~omitted => UNCHANGED troublesLeft
  /\ fetch' = [fetch EXCEPT
       !.metas = metas,
       !.from = IF page = {} THEN @ ELSE Max({changed[t] : t \in page}),
       !.at = IF last THEN "build" ELSE "feed",
       !.next = IF last THEN tick ELSE NoToken,
       !.todo = IF last THEN {f \in File : \E p \in scope : <<f, p>> \in metas} ELSE {}]
  /\ astray' = IF omitted THEN astray \cup page ELSE astray
  /\ UNCHANGED <<drive, indexed, saved, fetchesLeft>>

\* changes.list answers 410, and a full sweep follows.
TokenExpires ==
  /\ fetch.at = "feed" /\ Trouble
  /\ fetch' = [NoFetch EXCEPT !.at = "capture"]
  /\ UNCHANGED <<drive, indexed, saved, astray, fetchesLeft>>

\* A listing fails, or the rows are not written, or the process dies: all stays.
FetchRaises ==
  /\ fetch.at # "idle" /\ Trouble
  /\ fetch' = NoFetch
  /\ UNCHANGED <<drive, indexed, saved, astray, fetchesLeft>>

\* _process_file: the content as it is now.
Download(f) ==
  /\ fetch.at = "build" /\ f \in fetch.todo
  /\ fetch' = [fetch EXCEPT !.todo = @ \ {f}, !.got[f] = content[f]]
  /\ UNCHANGED <<drive, indexed, saved, astray, fetchesLeft, troublesLeft>>

\* It returns None for a file too large, of unknown size or of another type, which
\* is no error.
DownloadSkipped(f) ==
  /\ fetch.at = "build" /\ f \in fetch.todo /\ Trouble
  /\ fetch' = [fetch EXCEPT !.todo = @ \ {f}]
  /\ astray' = astray \cup {f}
  /\ UNCHANGED <<drive, indexed, saved, fetchesLeft>>

DownloadFails(f) ==
  /\ fetch.at = "build" /\ f \in fetch.todo /\ Trouble
  /\ fetch' = [fetch EXCEPT !.todo = @ \ {f}, !.failed = TRUE]
  /\ UNCHANGED <<drive, indexed, saved, astray, fetchesLeft>>

-----------------------------------------------------------------------------
(* run_connection_sync, with the documents fetched. *)

Got == {f \in File : fetch.got[f] # -1}

\* Fetched as they are now.
Current == {f \in Got : fetch.got[f] = content[f]}

\* upsert_raw_documents: other content resets the flag.
StoreCopies ==
  /\ fetch.at = "build" /\ fetch.todo = {}
  /\ copied' = [f \in File |-> IF f \in Got THEN fetch.got[f] ELSE copied[f]]
  /\ unsynced' = unsynced \cup {f \in Got : copied[f] # fetch.got[f]}
  /\ fetch' = [fetch EXCEPT !.at = "stored"]
  /\ UNCHANGED <<drive, index, unfed, saved, astray, fetchesLeft, troublesLeft>>

\* docs_to_ingest: only what changed, or has its flag down.
ToIngest == Got \cap unsynced

\* The points of those done are those of the row; those of the broken are deleted.
Reindexed(done, broken) ==
  [f \in File |-> IF f \in done THEN copied[f] ELSE IF f \in broken THEN -1 ELSE index[f]]

\* ingest_documents: a document with no text is passed over without an error and
\* keeps its points; documents_new counts those that had none.
IngestCopies ==
  /\ fetch.at = "stored"
  /\ \E done, blank \in SUBSET ToIngest : \E broken \in SUBSET (ToIngest \ (done \cup blank)) :
       /\ done \cap blank = {}
       /\ IF done = ToIngest THEN UNCHANGED troublesLeft ELSE Trouble
       /\ index' = Reindexed(done, broken)
       /\ unfed' = (unfed \ (Current \cap ToIngest)) \cup ((Current \cap ToIngest) \ done)
       /\ astray' = astray \ Current
       /\ fetch' = [fetch EXCEPT !.at = "ingested",
            !.status = IF done \cup blank = ToIngest THEN "success"
                       ELSE IF \E f \in done : index[f] = -1 THEN "partial" ELSE "failed"]
  /\ UNCHANGED <<drive, copied, unsynced, saved, fetchesLeft>>

\* It raises, or the process dies, between two documents or within one.
IngestCut ==
  /\ fetch.at = "stored" /\ Trouble
  /\ \E done \in SUBSET ToIngest : \E broken \in SUBSET (ToIngest \ done) :
       /\ index' = Reindexed(done, broken)
       /\ unfed' = (unfed \ (Current \cap done)) \cup {f \in broken : index[f] = content[f]}
  /\ fetch' = NoFetch
  /\ UNCHANGED <<drive, copied, unsynced, saved, astray, fetchesLeft>>

\* The token is kept whatever failed (a mutant).
Kept(failed, next) == next

\* _hold_cursor_on_error
HeldBack(failed, next) == IF failed THEN NoToken ELSE next

\* Every document fetched is marked synced, which may fail, and the claim is released.
FinishFetch(marked) ==
  LET next == IF fetch.status = "success" THEN HeldBack(fetch.failed, fetch.next) ELSE NoToken
  IN
  /\ fetch.at = "ingested"
  /\ IF marked THEN unsynced' = unsynced \ Got /\ UNCHANGED troublesLeft
     ELSE ToIngest # {} /\ Trouble /\ UNCHANGED unsynced
  /\ stamped' = (stamped \/ fetch.status \in {"success", "partial"})
  /\ unsaved' = unsaved \cup ({next} \ {NoToken})
  /\ fetch' = NoFetch
  /\ UNCHANGED <<drive, copied, index, unfed, token, astray, fetchesLeft>>

\* _persist_cursor, of whichever sync gets to it.
SaveToken(t) ==
  /\ t \in unsaved
  /\ unsaved' = unsaved \ {t} /\ token' = t
  /\ UNCHANGED <<drive, indexed, stamped, fetch, astray, fetchesLeft, troublesLeft>>

SaveTokenFails(t) ==
  /\ t \in unsaved /\ Trouble
  /\ unsaved' = unsaved \ {t}
  /\ UNCHANGED <<drive, indexed, token, stamped, fetch, astray, fetchesLeft>>

-----------------------------------------------------------------------------
(* Drive. *)

\* The feed does not tell an edit
EditFile(f) ==
  /\ tick < MaxTicks
  /\ tick' = tick + 1
  /\ changed' = [changed EXCEPT ![f] = tick'] /\ content' = [content EXCEPT ![f] = tick']
  /\ astray' = astray \ {f} /\ unfed' = unfed \ {f}
  /\ UNCHANGED <<parent, copied, unsynced, index, saved, fetch, fetchesLeft, troublesLeft>>

\* from a move, out of the trash or into it, or a sharing.
MoveFile(f, p) ==
  /\ tick < MaxTicks
  /\ tick' = tick + 1
  /\ changed' = [changed EXCEPT ![f] = tick'] /\ parent' = [parent EXCEPT ![f] = p]
  /\ astray' = astray \ {f}
  /\ UNCHANGED <<content, indexed, saved, fetch, fetchesLeft, troublesLeft>>

\* The folder is moved: what is in it does not change.
MoveFolder(p) ==
  /\ tick < MaxTicks /\ p # parent[Sub]
  /\ tick' = tick + 1
  /\ changed' = [changed EXCEPT ![Sub] = tick'] /\ parent' = [parent EXCEPT ![Sub] = p]
  /\ astray' = IF p = "root" THEN astray \cup {f \in File : parent[f] = "sub"} ELSE astray
  /\ UNCHANGED <<content, indexed, saved, fetch, fetchesLeft, troublesLeft>>

DriveInit ==
  /\ changed = [t \in Thing |-> 0] /\ tick = 0 /\ content = [f \in File |-> 0]
  /\ parent = [t \in Thing |-> IF t = Sub THEN "root" ELSE "sub"]
  /\ token = NoToken /\ stamped = FALSE
  /\ copied = [f \in File |-> -1] /\ unsynced = {} /\ index = [f \in File |-> -1]
  /\ fetch = NoFetch /\ unsaved = {} /\ astray = {} /\ unfed = {}
  /\ fetchesLeft = MaxFetches /\ troublesLeft = MaxTroubles

DriveNext ==
  \/ \E full \in BOOLEAN : StartFetch(full)
  \/ CaptureToken \/ ReadScope \/ SweepDone \/ TokenExpires \/ FetchRaises
  \/ \E p \in {"root", "sub"} : ListFolder(p)
  \/ \E omitted \in BOOLEAN : PageOfChanges(omitted)
  \/ \E f \in File : Download(f) \/ DownloadSkipped(f) \/ DownloadFails(f)
  \/ StoreCopies \/ IngestCopies \/ IngestCut
  \/ \E marked \in BOOLEAN : FinishFetch(marked)
  \/ \E t \in unsaved : SaveToken(t) \/ SaveTokenFails(t)
  \/ \E f \in File : EditFile(f)
  \/ \E f \in File, p \in {"root", "sub", "away"} : MoveFile(f, p)
  \/ \E p \in {"root", "away"} : MoveFolder(p)

DriveSpec == DriveInit /\ [][DriveNext]_driveVars

(***************************************************************************)
(* Property.                                                               *)
(***************************************************************************)

\* A saved token leaves nothing behind it: every file of the scope is searchable
\* as it is, or changed after the token, so the next fetch lists it.  Passed over
\* are a file that came into the scope with its folder, which is no change of its
\* own, one whose entry had no parents, one that was skipped, and one whose ingest
\* failed or found no text: marked synced with the rest, it is not tried again.
TokenLeavesNothing ==
  token # NoToken =>
    \A f \in File :
       InScope(f) => index[f] = content[f] \/ changed[f] > token \/ f \in astray \cup unfed
=============================================================================
