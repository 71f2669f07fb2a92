----------------------------- MODULE ServerSync -----------------------------
(***************************************************************************)
(* Synchronisation from MCP servers.  Every call makes an MCPSyncManager   *)
(* of its own, which reads the file of content hashes, fetches the         *)
(* documents, writes the whole file back with the hashes of those it is    *)
(* about to ingest, and ingests them.  Calls overlap, ingests fail or are  *)
(* cut off, and one file serves all workspaces.                            *)
(***************************************************************************)
EXTENDS Naturals

CONSTANTS
  Piece,        \* documents of the server, by source_id
  Room,         \* workspaces
  Pass,         \* calls of sync_server
  NoRoom,
  MaxPasses,    \* bound: calls
  MaxRevisions  \* bound: changes at the server

ASSUME ServerAssumption == NoRoom \notin Room /\ MaxPasses \in Nat /\ MaxRevisions \in Nat

VARIABLES
  origin,    \* [Piece -> its revision at the server]
  hashFile,  \* mcp_hashes.json: [Piece -> the revision hashed, or 0]
  held,      \* the index: [Room -> [Piece -> revision or 0]]
  pass,      \* [Pass -> the call]
  spoilt,    \* ghost: <<room, piece>> whose hash was saved and whose ingest was not done
  passesLeft

serverVars == <<origin, hashFile, held, pass, spoilt, passesLeft>>

NoHashes == [d \in Piece |-> 0]
NoPass == [at |-> "idle", room |-> NoRoom, force |-> FALSE, hashes |-> NoHashes,
           got |-> NoHashes, todo |-> {}]

\* The constructor reads the file; while another call writes it, what is there may
\* not parse, and counts as empty.
LoadHashes(r, room, force) ==
  /\ pass[r].at = "idle" /\ passesLeft > 0
  /\ passesLeft' = passesLeft - 1
  /\ \E hashes \in {hashFile} \cup {NoHashes : s \in {s \in Pass : pass[s].at # "idle"}} :
       pass' = [pass EXCEPT ![r] = [NoPass EXCEPT !.at = "loaded", !.room = room,
                                                  !.force = force, !.hashes = hashes]]
  /\ UNCHANGED <<origin, hashFile, held, spoilt>>

\* adapter.fetch_documents: items that cannot be read are left out; none at all
\* end the call.
FetchPieces(r) ==
  /\ pass[r].at = "loaded"
  /\ \E fetched \in SUBSET Piece :
       pass' = [pass EXCEPT ![r] =
         IF fetched = {} THEN NoPass
         ELSE [@ EXCEPT !.at = "fetched",
                        !.got = [d \in Piece |-> IF d \in fetched THEN origin[d] ELSE 0]]]
  /\ UNCHANGED <<origin, hashFile, held, spoilt, passesLeft>>

\* The comparison after the new hash is put in (a mutant).
NewHash(r, d) == pass[r].got[d]

OldHash(r, d) == pass[r].hashes[d]

\* _filter_changed, or all of them with force_full.
Picked(r) ==
  {d \in Piece : pass[r].got[d] # 0 /\ (pass[r].force \/ pass[r].got[d] # OldHash(r, d))}

\* _save_hashes writes the hashes of what is to be ingested, with what this
\* manager read of the others.
SaveHashes(r) ==
  /\ pass[r].at = "fetched"
  /\ hashFile' = [d \in Piece |-> IF pass[r].got[d] # 0 THEN pass[r].got[d] ELSE OldHash(r, d)]
  /\ pass' = [pass EXCEPT ![r] =
       IF Picked(r) = {} THEN NoPass ELSE [@ EXCEPT !.at = "saved", !.todo = Picked(r)]]
  /\ spoilt' = spoilt \cup ((Room \ {pass[r].room}) \X Picked(r))
  /\ UNCHANGED <<origin, held, passesLeft>>

PassDone(r, d) ==
  LET left == pass[r].todo \ {d} IN
  pass' = [pass EXCEPT ![r] = IF left = {} THEN NoPass ELSE [@ EXCEPT !.todo = left]]

\* ingest_documents puts the fetched revision in the place of the one before.  A
\* revision that is blank, or a near duplicate of another document, has no points,
\* and to hold it is to hold that nothing.
IngestPiece(r, d) ==
  LET room == pass[r].room IN
  /\ pass[r].at = "saved" /\ d \in pass[r].todo
  /\ held' = [held EXCEPT ![room][d] = pass[r].got[d]]
  /\ spoilt' = CASE pass[r].got[d] = origin[d] -> spoilt \ {<<room, d>>}
                 [] pass[r].got[d] < held[room][d] -> spoilt \cup {<<room, d>>}
                 [] OTHER -> spoilt
  /\ PassDone(r, d)
  /\ UNCHANGED <<origin, hashFile, passesLeft>>

\* It deletes the old points and fails on the new ones, or fails before; the error
\* ends up in the result.
IngestPieceFails(r, d) ==
  /\ pass[r].at = "saved" /\ d \in pass[r].todo
  /\ \/ held' = [held EXCEPT ![pass[r].room][d] = 0]
     \/ UNCHANGED held
  /\ spoilt' = spoilt \cup {<<pass[r].room, d>>}
  /\ PassDone(r, d)
  /\ UNCHANGED <<origin, hashFile, passesLeft>>

\* The process stops, or the call raises.
CutPass(r) ==
  /\ pass[r].at # "idle"
  /\ pass' = [pass EXCEPT ![r] = NoPass]
  /\ spoilt' = spoilt \cup ({pass[r].room} \X pass[r].todo)
  /\ UNCHANGED <<origin, hashFile, held, passesLeft>>

Revise(d) ==
  /\ origin[d] <= MaxRevisions
  /\ origin' = [origin EXCEPT ![d] = @ + 1]
  /\ UNCHANGED <<hashFile, held, pass, spoilt, passesLeft>>

ServerInit ==
  /\ origin = [d \in Piece |-> 1] /\ hashFile = NoHashes
  /\ held = [w \in Room |-> NoHashes]
  /\ pass = [r \in Pass |-> NoPass]
  /\ spoilt = {} /\ passesLeft = MaxPasses

ServerNext ==
  \/ \E r \in Pass :
       \/ \E room \in Room, force \in BOOLEAN : LoadHashes(r, room, force)
       \/ FetchPieces(r) \/ SaveHashes(r) \/ CutPass(r)
       \/ \E d \in Piece : IngestPiece(r, d) \/ IngestPieceFails(r, d)
  \/ \E d \in Piece : Revise(d)

ServerSpec == ServerInit /\ [][ServerNext]_serverVars

(***************************************************************************)
(* Property.                                                               *)
(***************************************************************************)

\* What the next sync would skip as unchanged is in the index of the workspace as
\* it is at the server, or is being ingested.  The exceptions are those of saving
\* the hashes first and of one file for all workspaces: an ingest that failed or
\* was cut off, one that was overtaken by a newer one, a document that another
\* workspace synced.
SkippedAreHeld ==
  \A w \in Room : \A d \in Piece :
     hashFile[d] = origin[d] =>
        \/ held[w][d] = origin[d]
        \/ <<w, d>> \in spoilt
        \/ \E r \in Pass : pass[r].room = w /\ d \in pass[r].todo /\ pass[r].got[d] = origin[d]
=============================================================================
