-------------------------- MODULE WorkspaceRegistry --------------------------
(***************************************************************************)
(* Workspaces: the manager's dictionaries, the nodes of Neo4j they are     *)
(* loaded from, and what the stores hold of a workspace, of which its      *)
(* deletion clears two and leaves the rest.  The routes run in threads and *)
(* overlap; what the manager writes to Neo4j may fail and is not tried     *)
(* again.  A workspace is deleted by one request at a time.                *)
(***************************************************************************)
EXTENDS Naturals

CONSTANTS
  Workspace,    \* all but the default one
  Member,       \* users
  Default,
  MaxChanges,   \* bound: requests
  MaxLapses     \* bound: failures, restarts

ASSUME WorkspaceAssumption == Default \notin Workspace /\ MaxChanges \in Nat /\ MaxLapses \in Nat

VARIABLES
  listed,     \* _workspaces
  stored,     \* Workspace nodes in Neo4j
  active,     \* _active_workspace: [Member -> workspace, Default or "none"]
  chosen,     \* WorkspaceSetting nodes: [Member -> workspace or Default]
  contents,   \* <<workspace, store>>: the store holds something of the workspace
  clearing,   \* delete routes past the manager: [workspace -> stores still to clear]
  choosing,   \* set_active_workspace past its check: <<member, workspace>>
  filling,    \* ingests under way, into a workspace
  \* ghosts
  resurrected, \* a store was not cleared by the last deletion, or written after it
  elected,    \* <<member, workspace>>: chosen since the workspace was last deleted
  lingering,  \* <<member, workspace>>: the setting outlived the workspace
  changesLeft

workspaceVars ==
  <<listed, stored, active, chosen, contents, clearing, choosing, filling, resurrected, elected,
    lingering, changesLeft>>

\* The knowledge collection and the graph are cleared when a workspace is deleted.
ClearedStores == {"qdrant", "graph"}

\* Rows of raw_documents and dedup_fingerprints, of connections, and memories (their
\* rows and their collection) are not.
KeptStores == {"documents", "connections", "memory"}

Spends == changesLeft.requests > 0 /\ changesLeft' = [changesLeft EXCEPT !.requests = @ - 1]
Lapses == changesLeft.lapses > 0 /\ changesLeft' = [changesLeft EXCEPT !.lapses = @ - 1]
SameOrLapse(failed) == IF failed THEN Lapses ELSE UNCHANGED changesLeft

\* create_workspace, under the lock: a failing save is logged.
CreateWorkspace(w) ==
  /\ w \notin listed /\ Spends
  /\ listed' = listed \cup {w}
  /\ \/ stored' = stored \cup {w}
     \/ UNCHANGED stored
  /\ UNCHANGED <<active, chosen, contents, clearing, choosing, filling, resurrected, elected,
                 lingering>>

\* Members left where they are (a mutant).
StillActive(w) == active

\* Those whose active workspace it was are back in the default one.
BackToDefault(w) == [m \in Member |-> IF active[m] = w THEN Default ELSE active[m]]

\* delete_workspace, under the lock: gone from memory, and from Neo4j unless that
\* fails; the settings in Neo4j stay.
DeleteWorkspace(w) ==
  /\ w \in listed /\ clearing[w] = {} /\ Spends
  /\ listed' = listed \ {w}
  /\ active' = BackToDefault(w)
  /\ stored' \in {stored, stored \ {w}}
  /\ clearing' = [clearing EXCEPT ![w] = ClearedStores]
  /\ resurrected' = resurrected \ {w}
  /\ elected' = {e \in elected : e[2] # w}
  /\ lingering' = lingering \cup {<<m, w>> : m \in {m \in Member : chosen[m] = w}}
  /\ UNCHANGED <<chosen, contents, choosing, filling>>

\* The route then drops the collection and, whether or not that failed, the nodes with
\* the workspace's id, of which the Workspace node is one.
ClearStore(w, store) ==
  /\ store \in clearing[w] /\ (store = "graph" => "qdrant" \notin clearing[w])
  /\ clearing' = [clearing EXCEPT ![w] = @ \ {store}]
  /\ \E failed \in BOOLEAN :
       /\ SameOrLapse(failed)
       /\ contents' = IF failed THEN contents ELSE contents \ {<<w, store>>}
       /\ stored' = IF ~failed /\ store = "graph" THEN stored \ {w} ELSE stored
       /\ resurrected' = IF failed THEN resurrected \cup {w} ELSE resurrected
  /\ UNCHANGED <<listed, active, chosen, choosing, filling, elected, lingering>>

\* set_active_workspace looks for the workspace outside the lock ...
CheckWorkspace(m, w) ==
  /\ w \in listed /\ <<m, w>> \notin choosing /\ Spends
  /\ choosing' = choosing \cup {<<m, w>>}
  /\ UNCHANGED <<listed, stored, active, chosen, contents, clearing, filling, resurrected, elected,
                 lingering>>

\* ... and sets it under the lock; a failing save is suppressed.
SetActive(m, w) ==
  /\ <<m, w>> \in choosing
  /\ choosing' = choosing \ {<<m, w>>}
  /\ active' = [active EXCEPT ![m] = w]
  /\ \/ chosen' = [chosen EXCEPT ![m] = w]
     \/ UNCHANGED chosen
  /\ elected' = elected \cup {<<m, w>>}
  /\ UNCHANGED <<listed, stored, contents, clearing, filling, resurrected, lingering, changesLeft>>

\* get_active_workspace loads the setting of a member it knows nothing of.
LoadActive(m) ==
  /\ active[m] = "none" /\ chosen[m] # Default
  /\ active' = [active EXCEPT ![m] = chosen[m]]
  /\ UNCHANGED <<listed, stored, chosen, contents, clearing, choosing, filling, resurrected,
                 elected, lingering, changesLeft>>

\* Something of the workspace is stored; nothing asks whether the workspace is listed.
Writes(w, stores) ==
  /\ contents' = contents \cup ({w} \X stores)
  /\ resurrected' = IF w \notin listed \/ clearing[w] # {}
                      THEN resurrected \cup {w} ELSE resurrected

\* A connection is created, or a memory saved.
Keep(w, store) ==
  /\ Spends /\ Writes(w, {store})
  /\ UNCHANGED <<listed, stored, active, chosen, clearing, choosing, filling, elected, lingering>>

\* An upload, or a sync of one of the workspace's connections, which the scheduler
\* starts for all workspaces, has been given the workspace ...
BeginFilling(w) ==
  /\ w \notin filling /\ Spends
  /\ w \in listed \/ <<w, "connections">> \in contents
  /\ filling' = filling \cup {w}
  /\ UNCHANGED <<listed, stored, active, chosen, contents, clearing, choosing, resurrected, elected,
                 lingering>>

\* ... and writes to it later.
Fill(w) ==
  /\ w \in filling
  /\ filling' = filling \ {w}
  /\ Writes(w, ClearedStores \cup {"documents"})
  /\ UNCHANGED <<listed, stored, active, chosen, clearing, choosing, elected, lingering,
                 changesLeft>>

\* The process stops and comes back: the manager has what Neo4j has.
ManagerRestarts ==
  /\ Lapses
  /\ listed' = stored
  /\ active' = [m \in Member |-> "none"]
  /\ choosing' = {} /\ filling' = {}
  /\ resurrected' = resurrected \cup {w \in Workspace : clearing[w] # {} \/ w \in listed \ stored}
  /\ clearing' = [w \in Workspace |-> {}]
  /\ UNCHANGED <<stored, chosen, contents, elected, lingering>>

WorkspaceInit ==
  /\ listed = {} /\ stored = {} /\ contents = {}
  /\ active = [m \in Member |-> "none"] /\ chosen = [m \in Member |-> Default]
  /\ clearing = [w \in Workspace |-> {}] /\ choosing = {} /\ filling = {}
  /\ resurrected = {} /\ elected = {} /\ lingering = {}
  /\ changesLeft = [requests |-> MaxChanges, lapses |-> MaxLapses]

WorkspaceNext ==
  \/ \E w \in Workspace :
       \/ CreateWorkspace(w) \/ DeleteWorkspace(w) \/ BeginFilling(w) \/ Fill(w)
       \/ \E store \in ClearedStores : ClearStore(w, store)
       \/ \E store \in {"connections", "memory"} : Keep(w, store)
       \/ \E m \in Member : CheckWorkspace(m, w) \/ SetActive(m, w)
  \/ \E m \in Member : LoadActive(m)
  \/ ManagerRestarts

WorkspaceSpec == WorkspaceInit /\ [][WorkspaceNext]_workspaceVars

(***************************************************************************)
(* Properties.                                                             *)
(***************************************************************************)

\* The deletion of w is over and complete: no store failed, the process did not stop in
\* between, and no upload, sync or save wrote to w after it.
Gone(w) == w \notin listed /\ clearing[w] = {} /\ w \notin resurrected

\* Of a deleted workspace the collection and the graph hold nothing.  This is less
\* than the route promises: see AllDataGone.
ClearedAreEmpty ==
  \A w \in Workspace : Gone(w) => contents \cap ({w} \X ClearedStores) = {}

\* delete_workspace of the routes says: "Delete a workspace and all its data."  It does
\* not: connections, stored documents and memories stay, and a scheduled sync of a
\* connection that stayed fills the workspace again.
AllDataGone ==
  \A w \in Workspace : Gone(w) => contents \cap ({w} \X (ClearedStores \cup KeptStores)) = {}

\* A member is in a workspace he chose since it was last deleted, or whose setting
\* in Neo4j outlived the workspace and was loaded after a restart.
MembersWhereTheyChose ==
  \A m \in Member :
     active[m] \in {Default, "none"} \/ <<m, active[m]>> \in elected \cup lingering

\* What the members may rely on.
WorkspacesHonest == ClearedAreEmpty /\ MembersWhereTheyChose
=============================================================================
