----------------------------- MODULE ChunkIndex -----------------------------
(***************************************************************************)
(* Knowledge-base documents on their way into Qdrant.  An ingest deletes   *)
(* the document's old points, splits its text into passages, leaves out    *)
(* the passages that are near duplicates of another document's, adds the   *)
(* rest and saves their fingerprints, so that later ingests can leave them *)
(* out in turn.  The fingerprints are read once, at the start of an        *)
(* ingest, and nothing keeps two ingests apart.                            *)
(*                                                                         *)
(* A passage is a class of near-duplicate chunks; a body is a set of       *)
(* passages, and the empty body is one of white space only.                *)
(*                                                                         *)
(* Outside: the deletion of the workspace, which drops the points and      *)
(* keeps the fingerprints (WorkspaceRegistry has it), and the row of a     *)
(* document that is found unchanged but without its graph sidecar.         *)
(***************************************************************************)
EXTENDS Naturals, FiniteSets

CONSTANTS
  Page,       \* documents (doc_label)
  Passage,    \* what a body is made of
  Ingest,     \* ingests under way: of a sync, an upload or a store call
  NoPage,
  MaxIngests, \* bound: ingests started
  MaxSlips    \* bound: calls that fail, and restarts

ASSUME ChunkAssumption ==
  NoPage \notin Page /\ MaxIngests \in Nat /\ MaxSlips \in Nat

VARIABLES
  body,     \* raw_documents.content: [Page -> SUBSET Passage]
  known,    \* pages with a row
  synced,   \* qdrant_synced
  points,   \* Qdrant: [Page -> [Passage -> copies]]
  prints,   \* dedup_fingerprints: pairs of a passage and the page it was kept for
  ingest,   \* [Ingest -> its step, page, text, index and new fingerprints]
  skipped,  \* ghost: [Page -> passages its last ingest left out as duplicates]
  tainted,  \* ghost: pages whose last ingest met a failure or another ingest
  poisoned, \* ghost: pages that were ever tainted
  chunksLeft \* what is left of the bounds

chunkVars ==
  <<body, known, synced, points, prints, ingest, skipped, tainted, poisoned, chunksLeft>>

NoIndex == [p \in Passage |-> NoPage]
Resting == [at |-> "rest", page |-> NoPage, body |-> {}, index |-> NoIndex,
            fresh |-> {}, clean |-> TRUE]

Pointed(d) == {p \in Passage : points[d][p] > 0}
Ingesting(d)    == \E c \in Ingest : ingest[c].page = d

Slip == chunksLeft.slips > 0 /\ chunksLeft' = [chunksLeft EXCEPT !.slips = @ - 1]

\* The page keeps the mark of a failure until an ingest runs through alone.
Dirty(c) == tainted' = tainted \cup {ingest[c].page} /\ poisoned' = poisoned \cup {ingest[c].page}
Unharmed == UNCHANGED <<chunksLeft, tainted, poisoned>>

Soil(task) == [task EXCEPT !.clean = FALSE]

\* The row is written first (upsert_raw_documents); a body of white space has no
\* chunks and goes straight to the mark.  Rows that a sync finds unchanged and
\* in Qdrant are not ingested and do not come here.
Store(c, d, b) ==
  /\ ingest[c] = Resting /\ chunksLeft.ingests > 0
  /\ chunksLeft' = [chunksLeft EXCEPT !.ingests = @ - 1]
  /\ body' = [body EXCEPT ![d] = b]
  /\ known' = known \cup {d}
  /\ synced' = IF d \in known /\ body[d] = b THEN synced ELSE synced \ {d}
  /\ ingest' = [k \in Ingest |->
       IF k = c THEN [Resting EXCEPT !.at = IF b = {} THEN "mark" ELSE "load", !.page = d,
                                     !.body = b, !.clean = ~Ingesting(d)]
       ELSE IF ingest[k].page = d THEN Soil(ingest[k]) ELSE ingest[k]]
  /\ tainted'  = IF Ingesting(d) THEN tainted \cup {d} ELSE tainted
  /\ poisoned' = IF Ingesting(d) THEN poisoned \cup {d} ELSE poisoned
  /\ UNCHANGED <<points, prints, skipped>>

\* batch_load_fingerprints: a dictionary, so one page per passage; a failure is
\* logged and leaves the index empty.
Load(c) ==
  /\ ingest[c].at = "load"
  /\ \/ /\ \E index \in [Passage -> Page \cup {NoPage}] :
             /\ \A p \in Passage :
                  IF \E d \in Page : <<p, d>> \in prints
                  THEN <<p, index[p]>> \in prints ELSE index[p] = NoPage
             /\ ingest' = [ingest EXCEPT ![c].at = "drop", ![c].index = index]
        /\ Unharmed
     \/ /\ Slip /\ Dirty(c)
        /\ ingest' = [ingest EXCEPT ![c] = [Soil(@) EXCEPT !.at = "drop"]]
  /\ UNCHANGED <<body, known, synced, points, prints, skipped>>

ForgetPage(index, d) == [p \in Passage |-> IF index[p] = d THEN NoPage ELSE index[p]]

\* Old chunks left beside the new ones (a mutant).
PointsKept(d) == points

PointsWithout(d) == [points EXCEPT ![d] = [p \in Passage |-> 0]]

\* The fingerprints kept although the points go (a mutant).
PrintsKept(d) == prints

\* delete_fingerprints_by_doc
PrintsWithout(d) == {f \in prints : f[2] # d}

\* delete_by_doc_labels reports 0 when there is nothing or when it fails, and
\* the fingerprints are only deleted when it reports more; their deletion is
\* best effort.
DropOld(c) ==
  LET d == ingest[c].page
      dropped == [ingest[c] EXCEPT !.at = "add", !.index = ForgetPage(@, d)]
  IN  /\ ingest[c].at = "drop"
      /\ \/ /\ Pointed(d) = {} /\ Unharmed
            /\ ingest' = [ingest EXCEPT ![c].at = "add"]
            /\ UNCHANGED <<points, prints>>
         \/ /\ Pointed(d) # {} /\ Unharmed
            /\ points' = PointsWithout(d)
            /\ prints' = PrintsWithout(d)
            /\ ingest' = [ingest EXCEPT ![c] = dropped]
         \/ /\ Pointed(d) # {} /\ Slip /\ Dirty(c)
            /\ \/ /\ ingest' = [ingest EXCEPT ![c] = [Soil(@) EXCEPT !.at = "add"]]
                  /\ UNCHANGED points
               \/ /\ points' = PointsWithout(d)
                  /\ ingest' = [ingest EXCEPT ![c] = Soil(dropped)]
            /\ UNCHANGED prints
      /\ UNCHANGED <<body, known, synced, skipped>>

\* check_and_add: only a chunk of another page makes a duplicate.
Duplicate(task, p) == task.index[p] \in Page \ {task.page}

AddPoints(d, ps) ==
  [points EXCEPT ![d] = [p \in Passage |-> IF p \in ps /\ @[p] < 2 THEN @[p] + 1 ELSE @[p]]]

\* Every chunk is fingerprinted before it is added, so the chunk whose add fails
\* leaves its fingerprint behind, and the rest of the text is not reached.
Add(c) ==
  LET d    == ingest[c].page
      kept == {p \in ingest[c].body : ~Duplicate(ingest[c], p)}
  IN  /\ ingest[c].at = "add"
      /\ \/ /\ points' = AddPoints(d, kept)
            /\ ingest' = [ingest EXCEPT ![c].at = "save", ![c].fresh = kept]
            /\ Unharmed
         \/ /\ Slip /\ Dirty(c)
            /\ \E done \in SUBSET kept : \E p \in kept \ done :
                 /\ points' = AddPoints(d, done)
                 /\ ingest' = [ingest EXCEPT ![c] =
                                 [Soil(@) EXCEPT !.at = "save", !.fresh = done \cup {p}]]
      /\ skipped' = [skipped EXCEPT ![d] =
                       {p \in ingest[c].body : ingest[c].index[p] \notin {NoPage, d}}]
      /\ UNCHANGED <<body, known, synced, prints>>

\* save_fingerprints, best effort.
SavePrints(c) ==
  /\ ingest[c].at = "save"
  /\ \/ /\ prints' = prints \cup {<<p, ingest[c].page>> : p \in ingest[c].fresh}
        /\ ingest' = [ingest EXCEPT ![c].at = "mark"]
        /\ Unharmed
     \/ /\ Slip /\ Dirty(c)
        /\ ingest' = [ingest EXCEPT ![c] = [Soil(@) EXCEPT !.at = "mark"]]
        /\ UNCHANGED prints
  /\ UNCHANGED <<body, known, synced, points, skipped>>

\* mark_documents_synced_by_source, with the documents that failed as well.
Mark(c) ==
  LET d == ingest[c].page
  IN  /\ ingest[c].at = "mark"
      /\ synced' = synced \cup {d}
      /\ tainted' = IF ingest[c].clean /\ ingest[c].body # {} THEN tainted \ {d} ELSE tainted
      /\ ingest' = [ingest EXCEPT ![c] = Resting]
      /\ UNCHANGED <<body, known, points, prints, skipped, poisoned, chunksLeft>>

\* An exception outside the loop over the documents, or a restart.
Quit(c) ==
  /\ ingest[c].at # "rest" /\ Slip /\ Dirty(c)
  /\ ingest' = [ingest EXCEPT ![c] = Resting]
  /\ UNCHANGED <<body, known, synced, points, prints, skipped>>

\* A page whose text is b has been ingested, or nothing has (b is empty).
ChunkInitWith(d, b) ==
  /\ body = [e \in Page |-> IF e = d THEN b ELSE {}]
  /\ known = IF b = {} THEN {} ELSE {d}
  /\ synced = known
  /\ points = [e \in Page |-> [p \in Passage |-> IF e = d /\ p \in b THEN 1 ELSE 0]]
  /\ prints = b \X {d}
  /\ ingest = [c \in Ingest |-> Resting]
  /\ skipped = [e \in Page |-> {}] /\ tainted = {} /\ poisoned = {}
  /\ chunksLeft = [ingests |-> MaxIngests, slips |-> MaxSlips]

ChunkInit == \E d \in Page, p \in Passage : ChunkInitWith(d, {p})

ChunkNext ==
  \E c \in Ingest :
    \/ \E d \in Page, b \in SUBSET Passage : Store(c, d, b)
    \/ Load(c) \/ DropOld(c) \/ Add(c) \/ SavePrints(c) \/ Mark(c) \/ Quit(c)

ChunkSpec == ChunkInit /\ [][ChunkNext]_chunkVars

(***************************************************************************)
(* Properties.                                                             *)
(***************************************************************************)

\* A page at rest and marked synced has exactly the passages of its text in
\* Qdrant, once each, but for those its ingest left out as duplicates; whatever
\* went wrong before, an ingest that runs through alone sets it right.  A text
\* that became blank leaves the old chunks in place.
IndexFaithful ==
  \A d \in synced \ tainted :
     ~Ingesting(d) /\ body[d] # {} =>
        points[d] = [p \in Passage |-> IF p \in body[d] \ skipped[d] THEN 1 ELSE 0]

\* A fingerprint stands for a point of its page: otherwise a passage is left out
\* as the duplicate of nothing.  While the workspace lives, only a failure or a
\* second ingest of the page can leave one behind.
PrintsTruthful ==
  \A f \in prints : ~Ingesting(f[2]) /\ f[2] \notin poisoned => points[f[2]][f[1]] > 0

\* The points of a page are those of its text, and the fingerprints stand for them.
ChunksSound == IndexFaithful /\ PrintsTruthful
=============================================================================
