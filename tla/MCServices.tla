----------------------------- MODULE MCServices -----------------------------
(***************************************************************************)
(* The services of one process that share no state, checked in one run:    *)
(* the scene, chosen at the start, says which of them takes steps.  Each   *)
(* has its own variables, which stay as they begin in the scenes of the    *)
(* others, so the reachable states are the sum of those of the services    *)
(* and not their product.                                                  *)
(***************************************************************************)
EXTENDS MemoryStores, ChunkIndex, ChannelPollers, ExportJobs, AgentRegistry,
        PendingActions, KnowledgeSearch, PlatformUsers,
        ServerSync, WorkspaceRegistry, PageWalk, DriveFeed, Listings, TLC

VARIABLE scene

Scenes ==
  {"memory", "chunks", "channels", "exports", "agents", "actions", "search",
   "users", "server", "workspaces", "pages", "drive", "listings"}

\* The writes are all to one issue: of two that are searched, or of one and more of them.
SearchStarts ==
  \E i \in Issue :
    \/ SearchInitWith(Issue, [j \in Issue |-> IF j = i THEN 1 ELSE 0])
    \/ SearchInitWith({i}, [j \in Issue |-> IF j = i THEN MaxWrites ELSE 0])

ServicesInit ==
  /\ scene \in Scenes
  /\ IF scene = "chunks" THEN ChunkInit ELSE ChunkInitWith(NoPage, {})
  /\ StoresInit /\ ChannelInit /\ ExportInit /\ AgentInit
  /\ ActionInit /\ PlatformInit /\ ServerInit
  /\ IF scene = "search" THEN SearchStarts ELSE SearchInitWith({}, [i \in Issue |-> 0])
  /\ WorkspaceInit /\ WalkInit /\ DriveInit
  /\ IF scene = "listings" THEN ListingInit ELSE ListingInitWith(TRUE)

\* The services other than that of the scene.
Still ==
  /\ scene # "memory"     => UNCHANGED storesVars
  /\ scene # "chunks"     => UNCHANGED chunkVars
  /\ scene # "channels"   => UNCHANGED channelVars
  /\ scene # "exports"    => UNCHANGED exportVars
  /\ scene # "agents"     => UNCHANGED agentVars
  /\ scene # "actions"    => UNCHANGED actionVars
  /\ scene # "search"     => UNCHANGED searchVars
  /\ scene # "users"      => UNCHANGED platformVars
  /\ scene # "server"     => UNCHANGED serverVars
  /\ scene # "workspaces" => UNCHANGED workspaceVars
  /\ scene # "pages"      => UNCHANGED walkVars
  /\ scene # "drive"      => UNCHANGED driveVars
  /\ scene # "listings"   => UNCHANGED listingVars
  /\ UNCHANGED scene

ServicesNext ==
  \/ scene = "memory"     /\ Still /\ StoresNext
  \/ scene = "chunks"     /\ Still /\ ChunkNext
  \/ scene = "channels"   /\ Still /\ ChannelNext
  \/ scene = "exports"    /\ Still /\ ExportNext
  \/ scene = "agents"     /\ Still /\ AgentNext
  \/ scene = "actions"    /\ Still /\ ActionNext
  \/ scene = "search"     /\ Still /\ SearchNext
  \/ scene = "users"      /\ Still /\ PlatformNext
  \/ scene = "server"     /\ Still /\ ServerNext
  \/ scene = "workspaces" /\ Still /\ WorkspaceNext
  \/ scene = "pages"      /\ Still /\ WalkNext
  \/ scene = "drive"      /\ Still /\ DriveNext
  \/ scene = "listings"   /\ Still /\ ListingNext

servicesVars ==
  <<storesVars, chunkVars, channelVars, exportVars, agentVars, actionVars,
    searchVars, platformVars, serverVars, workspaceVars,
    walkVars, driveVars, listingVars, scene>>

ServicesSpec == ServicesInit /\ [][ServicesNext]_servicesVars

\* Of the services' parameters, those that play the same part have the same
\* values, so that one small group permutes them all.
Symmetry ==
  Permutations(Client) \cup Permutations(Content) \cup Permutations(SessionRecord)
    \cup Permutations(Record \ SessionRecord)
=============================================================================
