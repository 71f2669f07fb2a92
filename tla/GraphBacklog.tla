---------------------------- MODULE GraphBacklog ----------------------------
(***************************************************************************)
(* Knowledge-base documents on their way into the relationship graph.      *)
(* A raw_documents row in PostgreSQL is the source of truth; two flags on  *)
(* it say whether Qdrant and the graph hold its text.  Connector syncs,    *)
(* uploads and store calls write the row and the chunks, which deletes the *)
(* graph node (delete before add); a graph pass, run by the sweeper, a     *)
(* sync or an upload under an advisory lock, rebuilds the nodes of the     *)
(* rows whose graph_synced is false, one language-model call per row.      *)
(*                                                                         *)
(* A text is a model value; Blank stands for a body of white space.  Every *)
(* await is a step boundary: the pass reads its rows first and works on    *)
(* that copy, and the flags are written by natural key, whatever the row   *)
(* holds by then.                                                          *)
(***************************************************************************)
EXTENDS Naturals, FiniteSets

CONSTANTS
  Doc,        \* documents, each with its own row and label
  Text,       \* bodies a document may have
  Blank,      \* the body that is all white space
  Call,       \* sync tasks, upload tasks and store calls
  NoText,        \* no row, no node, no document
  Sweeper,    \* the graph sweeper, as the owner of a pass
  MaxCalls,   \* bound: calls started
  MaxSetbacks,  \* bound: calls to a store or to the model that fail, and restarts
  MaxResets,  \* bound: retry requests of an operator
  MaxRounds,  \* process_all_unsynced_graphs: rounds of a caller's pass
  Breaker     \* process_unsynced_graphs: consecutive errors that end a batch

ASSUME BacklogAssumption ==
  /\ Blank \notin Text /\ NoText \notin Text \cup {Blank} \cup Doc
  /\ Sweeper \notin Call \cup {NoText} /\ NoText \notin Call
  /\ {MaxCalls, MaxSetbacks, MaxResets} \subseteq Nat
  /\ {MaxRounds, Breaker} \subseteq Nat \ {0}

VARIABLES
  origin,   \* [Doc -> Kind]: what writes the document
  raw,      \* raw_documents: [Doc -> Row]
  indexed,  \* documents with chunks in Qdrant
  node,     \* [Doc -> text its graph node was built from, or NoText]
  call,     \* [Call -> where the handler is, and the document it carries]
  pass,     \* the graph pass that holds the advisory lock
  sweeping, \* the sweeper has found a backlog and no running sync
  astray,   \* ghost: documents whose flag and node were parted 
  backlogLeft     \* what is left of the bounds

backlogVars ==
  <<origin, raw, indexed, node, call, pass, sweeping, astray, backlogLeft>>

Kind == {"sync", "upload", "store"}
Body == Text \cup {Blank}
Row  == [body : Body \cup {NoText}, qdrant : BOOLEAN, graph : BOOLEAN, failed : BOOLEAN]
Idle == [at |-> "idle", doc |-> NoText, body |-> NoText]
Free == [by |-> NoText, at |-> "rows", rows |-> {}, item |-> NoText,
         errors |-> 0, round |-> 0, worked |-> FALSE]

Spend(what) == backlogLeft[what] > 0 /\ backlogLeft' = [backlogLeft EXCEPT ![what] = @ - 1]
Setback == Spend("faults")

\* Only rows that are in Qdrant (a mutant).
IndexedBacklog == {d \in Doc : raw[d].qdrant /\ ~raw[d].graph /\ ~raw[d].failed}

\* Rows a graph pass selects.
Backlog == {d \in Doc : raw[d].body # NoText /\ ~raw[d].graph /\ ~raw[d].failed}

\* The flag says the graph has the text, and it has not: no pass will look again.
Parted(d) == raw[d].graph /\ node[d] # raw[d].body

SyncRunning == \E c \in Call : call[c].at # "idle" /\ origin[call[c].doc] = "sync"

Goto(c, at) ==
  call' = [call EXCEPT ![c] = IF at = "idle" THEN Idle ELSE [@ EXCEPT !.at = at]]

(***************************************************************************)
(* Writing a document.                                                     *)
(***************************************************************************)

\* upsert_raw_documents: a new text resets both flags, a moved sidecar field
\* only Qdrant's, and an unchanged row is left alone.
Upserted(row, body, drifted) ==
  IF row.body = NoText  THEN [body |-> body, qdrant |-> FALSE, graph |-> FALSE, failed |-> FALSE]
  ELSE IF row.body # body THEN [row EXCEPT !.body = body, !.qdrant = FALSE, !.graph = FALSE]
  ELSE IF drifted    THEN [row EXCEPT !.qdrant = FALSE]
  ELSE row

\* A sync goes on with the rows upsert reports as changed or not in Qdrant; an
\* upload and a store call ingest whatever upsert said.
Persist(c, d, body, drifted) ==
  /\ call[c].at = "idle"
  /\ Spend("calls")
  /\ origin[d] = "sync" => ~SyncRunning
  /\ body = Blank => origin[d] = "sync"
  /\ raw' = [raw EXCEPT ![d] = Upserted(@, body, drifted)]
  /\ LET ingests == origin[d] # "sync" \/ ~(raw')[d].qdrant
     IN  call' = [call EXCEPT ![c] =
                    [at |-> IF ~ingests THEN "graph" ELSE IF body = Blank THEN "mark" ELSE "drop",
                     doc |-> d, body |-> body]]
  /\ UNCHANGED <<origin, indexed, node, pass, sweeping, astray>>

\* A sync whose upsert fails skips the ingest and goes to its graph phase.
PersistFails(c, d) ==
  /\ call[c].at = "idle" /\ origin[d] = "sync" /\ ~SyncRunning
  /\ backlogLeft.calls > 0 /\ backlogLeft.faults > 0
  /\ backlogLeft' = [backlogLeft EXCEPT !.calls = @ - 1, !.faults = @ - 1]
  /\ call' = [call EXCEPT ![c] = [at |-> "graph", doc |-> d, body |-> NoText]]
  /\ UNCHANGED <<origin, raw, indexed, node, pass, sweeping, astray>>

\* delete_by_doc_labels reports nothing deleted when it fails, and the node is
\* then left alone.
DropChunks(c) ==
  /\ call[c].at = "drop"
  /\ \/ /\ Goto(c, IF call[c].doc \in indexed THEN "unlink" ELSE "add")
        /\ indexed' = indexed \ {call[c].doc}
        /\ UNCHANGED backlogLeft
     \/ Setback /\ Goto(c, "add") /\ UNCHANGED indexed
  /\ UNCHANGED <<origin, raw, node, pass, sweeping, astray>>

\* _delete_graph_node is best effort.  Outside a sync nothing clears the flag of
\* a row that stays graph_synced.
DropNode(c) ==
  LET d == call[c].doc
  IN  /\ call[c].at = "unlink"
      /\ Goto(c, "add")
      /\ \/ /\ node' = [node EXCEPT ![d] = NoText]
            /\ astray' = IF raw[d].graph /\ origin[d] # "sync" THEN astray \cup {d} ELSE astray
            /\ UNCHANGED backlogLeft
         \/ Setback /\ UNCHANGED <<node, astray>>
      /\ UNCHANGED <<origin, raw, indexed, pass, sweeping>>

\* An error of one document is collected in the result, and the flow goes on.
AddChunks(c) ==
  /\ call[c].at = "add"
  /\ Goto(c, "mark")
  /\ \/ indexed' = indexed \cup {call[c].doc} /\ UNCHANGED backlogLeft
     \/ Setback /\ UNCHANGED indexed
  /\ UNCHANGED <<origin, raw, node, pass, sweeping, astray>>

AfterMark(d) ==
  CASE origin[d] = "sync" -> "unmark" [] origin[d] = "upload" -> "graph" [] OTHER -> "idle"

\* mark_documents_synced_by_source(target="qdrant"); a sync survives its failure.
MarkIndexed(c) ==
  LET d == call[c].doc
  IN  /\ call[c].at = "mark"
      /\ Goto(c, AfterMark(d))
      /\ \/ raw' = [raw EXCEPT ![d].qdrant = TRUE] /\ UNCHANGED backlogLeft
         \/ origin[d] = "sync" /\ Setback /\ UNCHANGED raw
      /\ UNCHANGED <<origin, indexed, node, pass, sweeping, astray>>

\* A sync that trusts the flag (a mutant).
LeavesFlag(row) == row

\* mark_documents_graph_unsynced_by_source: the node may just have been deleted.
ClearsFlag(row) == [row EXCEPT !.graph = FALSE]

Unmark(c) ==
  LET d == call[c].doc
  IN  /\ call[c].at = "unmark"
      /\ Goto(c, "graph")
      /\ \/ raw' = [raw EXCEPT ![d] = ClearsFlag(@)] /\ UNCHANGED <<astray, backlogLeft>>
         \/ Setback /\ astray' = astray \cup {e \in {d} : Parted(e)} /\ UNCHANGED raw
      /\ UNCHANGED <<origin, indexed, node, pass, sweeping>>

\* An exception no handler catches, or the end of the request's task: a node
\* that was deleted before it stays deleted.
Abandon(c) ==
  /\ call[c].at \notin {"idle", "graph", "pass"}
  /\ Setback
  /\ astray' = astray \cup {d \in {call[c].doc} : Parted(d)}
  /\ Goto(c, "idle")
  /\ UNCHANGED <<origin, raw, indexed, node, pass, sweeping>>

(***************************************************************************)
(* A graph pass.                                                           *)
(***************************************************************************)

Begun(by, round) ==
  [Free EXCEPT !.by = by, !.round = round,
               !.rows = {[doc |-> d, body |-> raw[d].body] : d \in Backlog}]

\* The lock is tried once: a caller that does not get it leaves the rows to the
\* pass that has it, or to the next tick.
GraphPhase(c) ==
  /\ call[c].at = "graph"
  /\ \/ pass.by = NoText /\ pass' = Begun(c, 1) /\ Goto(c, "pass")
     \/ pass.by # NoText /\ Goto(c, "idle") /\ UNCHANGED pass
  /\ UNCHANGED <<origin, raw, indexed, node, sweeping, astray, backlogLeft>>

\* GraphSweeper.tick looks at the backlog and at running syncs before it asks
\* for the lock.
SweeperLooks ==
  /\ ~sweeping /\ pass.by # Sweeper
  /\ Backlog # {} /\ ~SyncRunning
  /\ sweeping' = TRUE
  /\ UNCHANGED <<origin, raw, indexed, node, call, pass, astray, backlogLeft>>

SweeperStarts ==
  /\ sweeping
  /\ sweeping' = FALSE
  /\ pass' = IF pass.by = NoText THEN Begun(Sweeper, 1) ELSE pass
  /\ UNCHANGED <<origin, raw, indexed, node, call, astray, backlogLeft>>

Without(p, row) == [p EXCEPT !.rows = @ \ {row}]

\* An error counts towards the breaker, which drops the rest of the batch.
Errored(p, row) ==
  [p EXCEPT !.rows = IF p.errors + 1 >= Breaker THEN {} ELSE @ \ {row},
            !.errors = @ + 1, !.worked = TRUE, !.at = "rows", !.item = NoText]

\* A blank body has nothing to extract and is marked straight away (best effort).
SkipBlank(row) ==
  /\ pass.by # NoText /\ pass.at = "rows" /\ row.body = Blank
  /\ pass' = Without(pass, row)
  /\ \/ /\ raw' = [raw EXCEPT ![row.doc].graph = TRUE]
        /\ astray' = IF raw[row.doc].body # Blank THEN astray \cup {row.doc} ELSE astray
        /\ UNCHANGED backlogLeft
     \/ Setback /\ UNCHANGED <<raw, astray>>
  /\ UNCHANGED <<origin, indexed, node, call, sweeping>>

\* _write_graph_strict: the node is merged with the text of the copy.
WriteNode(row) ==
  /\ pass.by # NoText /\ pass.at = "rows" /\ row.body # Blank
  /\ node' = [node EXCEPT ![row.doc] = row.body]
  /\ pass' = [Without(pass, row) EXCEPT !.at = "mark", !.item = row]
  /\ UNCHANGED <<origin, raw, indexed, call, sweeping, astray, backlogLeft>>

\* GraphExtractionError: the model gave up on this document, which is parked
\* (the write of the mark is best effort).
ExtractionFails(row) ==
  /\ pass.by # NoText /\ pass.at = "rows" /\ row.body # Blank
  /\ Setback
  /\ pass' = [Without(pass, row) EXCEPT !.errors = 0, !.worked = TRUE]
  /\ \/ raw' = [raw EXCEPT ![row.doc].failed = TRUE]
     \/ UNCHANGED raw
  /\ UNCHANGED <<origin, indexed, node, call, sweeping, astray>>

\* Any other error, of the graph store for instance.
WriteFails(row) ==
  /\ pass.by # NoText /\ pass.at = "rows" /\ row.body # Blank
  /\ Setback
  /\ pass' = Errored(pass, row)
  /\ UNCHANGED <<origin, raw, indexed, node, call, sweeping, astray>>

\* The row is marked by its key, whatever its text and its node are by now.
MarkGraph ==
  LET d == pass.item.doc
  IN  /\ pass.at = "mark"
      /\ \/ /\ raw' = [raw EXCEPT ![d].graph = TRUE]
            /\ pass' = [pass EXCEPT !.at = "rows", !.item = NoText, !.errors = 0, !.worked = TRUE]
            /\ astray' = IF node[d] # raw[d].body THEN astray \cup {d} ELSE astray \ {d}
            /\ UNCHANGED backlogLeft
         \/ /\ Setback
            /\ pass' = Errored(pass, pass.item)
            /\ UNCHANGED <<raw, astray>>
      /\ UNCHANGED <<origin, indexed, node, call, sweeping>>

\* The sweeper runs one round per tick, the others up to ten (MaxRounds here).
NextRound ==
  /\ pass.by \in Call /\ pass.at = "rows" /\ pass.rows = {}
  /\ pass.worked /\ pass.round < MaxRounds
  /\ pass' = Begun(pass.by, pass.round + 1)
  /\ UNCHANGED <<origin, raw, indexed, node, call, sweeping, astray, backlogLeft>>

EndPass ==
  /\ pass.by # NoText /\ pass.at = "rows" /\ pass.rows = {}
  /\ pass.by \in Call => ~pass.worked \/ pass.round = MaxRounds
  /\ pass' = Free
  /\ IF pass.by = Sweeper THEN UNCHANGED call ELSE Goto(pass.by, "idle")
  /\ UNCHANGED <<origin, raw, indexed, node, sweeping, astray, backlogLeft>>

(***************************************************************************)
(* The operator, and a restart.                                            *)
(***************************************************************************)

\* POST /graph/retry-failed
RetryFailed ==
  /\ Spend("resets") /\ \E d \in Doc : raw[d].failed
  /\ raw' = [d \in Doc |-> [raw[d] EXCEPT !.failed = FALSE]]
  /\ UNCHANGED <<origin, indexed, node, call, pass, sweeping, astray>>

\* POST /graph/retry-all
RetryAll ==
  /\ Spend("resets")
  /\ raw' = [d \in Doc |-> [raw[d] EXCEPT !.graph = FALSE, !.failed = FALSE]]
  /\ UNCHANGED <<origin, indexed, node, call, pass, sweeping, astray>>

\* The process dies with its tasks and its session lock; recover_interrupted_syncs
\* closes the sync logs left running.
Restart ==
  /\ Setback
  /\ astray' = astray \cup {d \in Doc : Parted(d) /\ \E c \in Call : call[c].doc = d}
  /\ call' = [c \in Call |-> Idle]
  /\ pass' = Free
  /\ sweeping' = FALSE
  /\ UNCHANGED <<origin, raw, indexed, node>>

Write(c) ==
  \/ \E d \in Doc, body \in Body, drifted \in BOOLEAN : Persist(c, d, body, drifted)
  \/ \E d \in Doc : PersistFails(c, d)

CallStep(c) ==
  \/ DropChunks(c) \/ DropNode(c) \/ AddChunks(c) \/ MarkIndexed(c) \/ Unmark(c)
  \/ GraphPhase(c)

PassStep ==
  \/ \E row \in pass.rows : SkipBlank(row) \/ WriteNode(row)
  \/ MarkGraph \/ NextRound \/ EndPass

PassErr == \E row \in pass.rows : ExtractionFails(row) \/ WriteFails(row)

BacklogInitWith(budget) ==
  /\ raw = [d \in Doc |-> [body |-> NoText, qdrant |-> FALSE, graph |-> FALSE, failed |-> FALSE]]
  /\ indexed = {}
  /\ node = [d \in Doc |-> NoText]
  /\ call = [c \in Call |-> Idle]
  /\ pass = Free
  /\ sweeping = FALSE
  /\ astray = {}
  /\ backlogLeft = budget

BacklogInit ==
  /\ origin \in [Doc -> Kind]
  /\ BacklogInitWith([calls |-> MaxCalls, faults |-> MaxSetbacks, resets |-> MaxResets])

BacklogNext ==
  \/ \E c \in Call : Write(c) \/ CallStep(c) \/ Abandon(c)
  \/ SweeperLooks \/ SweeperStarts \/ PassStep \/ PassErr
  \/ RetryFailed \/ RetryAll \/ Restart

(***************************************************************************)
(* Fairness.  Handlers and passes run to their end: each await returns or  *)
(* raises.  The sweeper is an endless loop, and asks for the lock at every *)
(* tick: a pass of another caller may have it now, not for ever, since     *)
(* calls are finite here.  Nobody has to call, to fail or to retry.        *)
(***************************************************************************)
BacklogFairness ==
  /\ \A c \in Call : WF_backlogVars(CallStep(c))
  /\ WF_backlogVars(PassStep)
  /\ WF_backlogVars(SweeperLooks) /\ WF_backlogVars(SweeperStarts)

BacklogSpec == BacklogInit /\ [][BacklogNext]_backlogVars /\ BacklogFairness

(***************************************************************************)
(* Properties.                                                             *)
(***************************************************************************)

\* The rows, the calls and the pass have the shape their code gives them.
BacklogTypeOK ==
  /\ origin \in [Doc -> Kind] /\ raw \in [Doc -> Row]
  /\ indexed \subseteq Doc /\ astray \subseteq Doc
  /\ node \in [Doc -> Text \cup {NoText}]
  /\ sweeping \in BOOLEAN
  /\ pass.by \in Call \cup {NoText, Sweeper} /\ pass.rows \subseteq [doc : Doc, body : Body]
  /\ \A c \in Call :
        \/ call[c] = Idle
        \/ call[c].doc \in Doc /\ call[c].body \in Body \cup {NoText}
           /\ call[c].at \in {"drop", "unlink", "add", "mark", "unmark", "graph", "pass"}

\* Once no call is at work on a document, a row flagged graph_synced has its text
\* in the graph, unless the node was deleted and not re-queued by a store call or
\* an upload (both delete the node of a row that stays flagged), the sync that
\* deleted it was cut before it cleared the flag, or a pass flagged a row that
\* had changed under it.  A blank text leaves the old node in place.
GraphKept ==
  \A d \in Doc : Parted(d) =>
     \/ d \in astray \/ raw[d].body = Blank
     \/ \E c \in Call : call[c].doc = d /\ call[c].at # "idle"

\* No text is missing from the graph unless its row says so.
BacklogSound == BacklogTypeOK /\ GraphKept

\* The text of a document reaches the graph, whichever text it is by then, unless
\* the model gives up on the document or the flag is lost as GraphKept says.
ReachesGraph ==
  \A d \in Doc :
     raw[d].body \in Text ~> \/ node[d] = raw[d].body \/ raw[d].body = Blank
                              \/ raw[d].failed \/ d \in astray
=============================================================================
