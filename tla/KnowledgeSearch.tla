--------------------------- MODULE KnowledgeSearch ---------------------------
(***************************************************************************)
(* Search over the knowledge base while it is written.  A search runs four *)
(* recall channels over Qdrant, each of one or more reads, merges what     *)
(* they found by point id and answers with some of it.  Meanwhile syncs    *)
(* replace the points of a document, the freshness worker mirrors          *)
(* lifecycle statuses into their payloads, and syncs and the sweeper write *)
(* the graph whose entities the graph channel caches.                      *)
(*                                                                         *)
(* An issue stands for a document of one point.  Which points match a      *)
(* query, and how well, is left open.                                      *)
(***************************************************************************)
EXTENDS Naturals, FiniteSets

CONSTANTS
  Issue,
  Searcher,     \* searches under way
  NoPoint,
  FreshnessFilter, \* freshness_kb_search_filter_enabled
  RecallLimit,  \* recall_top_n_metadata
  MaxSearches,  \* bound: searches
  MaxWrites     \* bound: ingests, statuses and graph writes of an issue

\* A Qdrant point: its payload's "status" is the tracker's or the lifecycle's.
Point == [id : Nat, status : {"progress", "done", "active", "archived"}, open : BOOLEAN]

ASSUME SearchAssumption ==
  /\ NoPoint \notin Point /\ FreshnessFilter \in BOOLEAN
  /\ RecallLimit \in Nat \ {0} /\ MaxSearches \in Nat /\ MaxWrites \in Nat

VARIABLES
  tracked,  \* the document as last fetched: [Issue -> tracker status, open]
  life,     \* raw_documents.status: [Issue -> "active" or "archived"]
  qpoint,   \* Qdrant: [Issue -> id, payload status, open, or NoPoint]
  feed,     \* ingests between the deletion and the addition of the points
  mirror,   \* statuses written to the row and not yet to the payload
  linked,   \* issues whose entities are in the graph
  syncing,  \* a sync wrote the graph and has not announced its end
  entities, \* _cached_get_graph_entities, a singleton, or empty
  search,   \* [Searcher -> its channels and what they found]
  lastId,   \* point ids given out, an issue and a number
  defaced,  \* ghost: issues whose point has a lifecycle status for the tracker's
  unheard,  \* ghost: the graph changed, or was looked up, past the announcement
  searchLeft

searchVars ==
  <<tracked, life, qpoint, feed, mirror, linked, syncing, entities, search, lastId,
    defaced, unheard, searchLeft>>

kbVars == <<tracked, life, qpoint, feed, mirror, lastId, defaced>>
graphVars == <<linked, syncing, entities, unheard>>

Channels == {"dense", "exact", "metadata", "graph"}

\* at: "asked" or "idle"; todo: channels still to read; found: ids of the first
\* read of dense; looked: entities looked up and not stored yet; hits: issues
\* found, open or not, and whether the store applied the filters; activity: work
\* in progress is searched by its status.  Ghosts: missed, the metadata channel
\* failed; crowded, it had more matches than it may return; visible, hushed, what
\* the search has to find and must not find.
NoSearch == [at |-> "idle", ppr |-> FALSE, activity |-> FALSE,
             todo |-> {}, found |-> {}, looked |-> {}, hits |-> {},
             missed |-> FALSE, crowded |-> FALSE, visible |-> {}, hushed |-> {}]

SpendWrite(i) ==
  searchLeft.writes[i] > 0 /\ searchLeft' = [searchLeft EXCEPT !.writes[i] = @ - 1]
SpendSearch == searchLeft.searches > 0 /\ searchLeft' = [searchLeft EXCEPT !.searches = @ - 1]

\* The searches under way can no longer be sure of issue i.
Unsettle(i) ==
  search' = [s \in Searcher |-> [search[s] EXCEPT !.visible = @ \ {i}, !.hushed = @ \ {i}]]

-----------------------------------------------------------------------------
(* Writers. *)

\* ingest_documents deletes the points of the document ...
Unpoint(i, work, open) ==
  /\ feed[i] = FALSE /\ SpendWrite(i)
  /\ tracked' = [tracked EXCEPT ![i] = [work |-> work, open |-> open]]
  /\ qpoint' = [qpoint EXCEPT ![i] = NoPoint]
  /\ feed' = [feed EXCEPT ![i] = TRUE]
  /\ defaced' = defaced \ {i}
  /\ Unsettle(i)
  /\ UNCHANGED <<life, mirror, lastId, graphVars>>

\* The point keeps its id through an ingest (a mutant).
SameId == lastId

\* add_document: uuid4
NextId == lastId + 1

\* ... and adds new ones, whose payload is the connector's metadata with the
\* groups of the pre_index hook.
AddPoint(i) ==
  /\ feed[i]
  /\ feed' = [feed EXCEPT ![i] = FALSE]
  /\ \/ /\ qpoint' = [qpoint EXCEPT ![i] = [id |-> NextId, status |-> tracked[i].work,
                                            open |-> tracked[i].open]]
        /\ lastId' = NextId
     \/ UNCHANGED <<qpoint, lastId>>
  /\ UNCHANGED <<tracked, life, mirror, defaced, graphVars, search, searchLeft>>

\* The worker decides on a status and writes the row (update_raw_document_lifecycle),
\* then the payload.
Decide(i, status) ==
  /\ mirror[i] = "none" /\ SpendWrite(i)
  /\ life' = [life EXCEPT ![i] = status]
  /\ mirror' = [mirror EXCEPT ![i] = status]
  /\ UNCHANGED <<tracked, qpoint, feed, lastId, defaced, graphVars, search>>

\* update_payload_by_doc_label writes the payload's "status", which is also the
\* tracker's; its errors are swallowed.
Mirror(i) ==
  /\ mirror[i] # "none"
  /\ mirror' = [mirror EXCEPT ![i] = "none"]
  /\ \/ UNCHANGED <<qpoint, defaced, search>>
     \/ /\ qpoint[i] # NoPoint
        /\ qpoint' = [qpoint EXCEPT ![i].status = mirror[i]]
        /\ defaced' = defaced \cup {i}
        /\ Unsettle(i)
  /\ UNCHANGED <<tracked, life, feed, lastId, graphVars, searchLeft>>

\* A sync writes the graph and then announces its end; the sweeper and uploads
\* write it and announce nothing.
WriteGraph(i, sync) ==
  /\ SpendWrite(i)
  /\ linked' = linked \cup {i}
  /\ syncing' = (syncing \/ sync)
  /\ unheard' = (unheard \/ (~sync /\ i \notin linked))
  /\ UNCHANGED <<kbVars, entities, search>>

\* The cache left as it is (a mutant).
EntitiesKept == entities

\* clear_graph_cache
NoEntities == {}

\* A lookup under way in another thread will store what it read before.
AnnounceSync ==
  /\ syncing
  /\ syncing' = FALSE
  /\ entities' = NoEntities
  /\ unheard' = \E s \in Searcher : search[s].looked \notin {{}, {linked}}
  /\ UNCHANGED <<kbVars, linked, search, searchLeft>>

-----------------------------------------------------------------------------
(* Searches. *)

Points == {i \in Issue : qpoint[i] # NoPoint}

\* fast_search: dense, and metadata for a query with dates; the full pipeline:
\* all four, dense ahead of the others when graph recall is personalised
\* PageRank.  With detected_person an activity query searches by assignee instead of by
\* status.
Ask(s, fast, ppr, activity, person) ==
  /\ search[s].at = "idle" /\ SpendSearch
  /\ fast => ~ppr /\ ~activity
  /\ search' = [search EXCEPT ![s] =
       [NoSearch EXCEPT
         !.at = "asked", !.ppr = ppr, !.activity = activity /\ ~person,
         !.todo = IF fast THEN {"dense", "metadata"} ELSE Channels,
         !.visible = {i \in Points \ defaced : qpoint[i].open /\ tracked[i].work = "progress"},
         !.hushed = {i \in Points : life[i] = "archived" /\ qpoint[i].status = "archived"}]]
  /\ UNCHANGED <<kbVars, graphVars>>

Ready(s, channel) ==
  /\ search[s].at = "asked" /\ channel \in search[s].todo
  /\ search[s].ppr /\ channel # "dense" => "dense" \notin search[s].todo

Open(i) == qpoint[i].open

\* access_filter and freshness_filter together, in the store.
Combined(s, i) == Open(i) /\ (FreshnessFilter => qpoint[i].status # "archived")

\* Dense recall and PageRank push the filters into the store; the other channels
\* scroll and then drop what is not open.
Pushed(s, channel) == channel = "dense" \/ (channel = "graph" /\ search[s].ppr)

Hit(s, channel, i) == [issue |-> i, open |-> Open(i), pushed |-> Pushed(s, channel)]

\* A channel has ended, and what it had read goes.
Ended(s, channel) ==
  [search[s] EXCEPT !.todo = @ \ {channel},
                    !.found = IF channel = "dense" THEN {} ELSE @,
                    !.looked = IF channel = "graph" THEN {} ELSE @]

\* It has ended with these issues.
Yields(s, channel, issues) ==
  search' = [search EXCEPT ![s] =
    [Ended(s, channel) EXCEPT !.hits = @ \cup {Hit(s, channel, i) : i \in issues}]]

\* dense_search_raw and sparse_search_raw return ids, and
DenseIds(s) ==
  /\ Ready(s, "dense") /\ search[s].found = {}
  /\ \E issues \in SUBSET {i \in Points : Combined(s, i)} \ {{}} :
       search' = [search EXCEPT ![s].found = {<<i, qpoint[i].id>> : i \in issues}]
  /\ UNCHANGED <<kbVars, graphVars, searchLeft>>

\* retrieve() reads the payloads of those ids, with no filter.
DenseRetrieve(s) ==
  /\ Ready(s, "dense") /\ search[s].found # {}
  /\ Yields(s, "dense", {i \in Points : <<i, qpoint[i].id>> \in search[s].found})
  /\ UNCHANGED <<kbVars, graphVars, searchLeft>>

\* No ids, or the fallback to dense_search, which reads the payloads at once.
DenseAtOnce(s) ==
  /\ Ready(s, "dense")
  /\ \E issues \in SUBSET {i \in Points : Combined(s, i)} : Yields(s, "dense", issues)
  /\ UNCHANGED <<kbVars, graphVars, searchLeft>>

\* The scroll's hits as they come (a mutant).
AsFound(issues) == issues

\* _post_filter_acl
PostFiltered(issues) == {i \in issues : Open(i)}

Exact(s) ==
  /\ Ready(s, "exact")
  /\ \E issues \in SUBSET Points : Yields(s, "exact", PostFiltered(issues))
  /\ UNCHANGED <<kbVars, graphVars, searchLeft>>

InProgress == {i \in Points : qpoint[i].status = "progress"}

\* One match fewer at the limit (a mutant).
CutShort(issues) ==
  {some \in SUBSET issues : IF Cardinality(issues) >= RecallLimit
                              THEN Cardinality(some) >= RecallLimit - 1 ELSE some = issues}

\* What a search with a limit may return: all, or no fewer than the limit.
Cut(issues) ==
  {some \in SUBSET issues : IF Cardinality(issues) > RecallLimit
                              THEN Cardinality(some) >= RecallLimit ELSE some = issues}

\* Dates, due dates and assignees match any issues, as do the statuses searched when a
\* date to come matches none; an activity query scrolls for the payload statuses of
\* work in progress.  The limit applies to each search, before _post_filter_acl, and
\* to what they found together.
Metadata(s) ==
  /\ Ready(s, "metadata")
  /\ \E matched \in SUBSET Points :
       \E scrolled \in IF search[s].activity THEN Cut(InProgress) ELSE {{}} :
         LET found == PostFiltered(matched \cup scrolled) IN
         \E kept \in Cut(found) :
           /\ Cardinality(kept) <= RecallLimit
           /\ search' = [search EXCEPT ![s] = [Ended(s, "metadata") EXCEPT
                !.hits = @ \cup {Hit(s, "metadata", i) : i \in kept},
                !.crowded = Cardinality(InProgress) > RecallLimit
                              \/ Cardinality(found) > RecallLimit]]
  /\ UNCHANGED <<kbVars, graphVars, searchLeft>>

\* The graph channel looks the query's entities up, in the cache or in the graph,
LookUp(s) ==
  /\ Ready(s, "graph") /\ ~search[s].ppr /\ search[s].looked = {}
  /\ search' = [search EXCEPT ![s].looked = IF entities = {} THEN {linked} ELSE entities]
  /\ UNCHANGED <<kbVars, graphVars, searchLeft>>

\* stores them in the cache, and reads the points of the documents it reaches.
GraphRead(s) ==
  /\ Ready(s, "graph") /\ search[s].looked # {}
  /\ entities' = search[s].looked
  /\ \E issues \in SUBSET (Points \cap linked) : Yields(s, "graph", PostFiltered(issues))
  /\ UNCHANGED <<kbVars, linked, syncing, unheard, searchLeft>>

\* Personalised PageRank has no cache, and filters in the store.
GraphRank(s) ==
  /\ Ready(s, "graph") /\ search[s].ppr
  /\ \E issues \in SUBSET {i \in Points \cap linked : Combined(s, i)} :
       Yields(s, "graph", issues)
  /\ UNCHANGED <<kbVars, graphVars, searchLeft>>

\* A channel that raises has found nothing.
ChannelFails(s, channel) ==
  /\ Ready(s, channel)
  /\ search' = [search EXCEPT ![s] =
       [Ended(s, channel) EXCEPT !.missed = @ \/ channel = "metadata"]]
  /\ UNCHANGED <<kbVars, graphVars, searchLeft>>

\* merge_channels keeps one payload for each point; scores, the reranker and
\* top_k choose among them.
Finishes(s) ==
  /\ search[s].at = "asked" /\ search[s].todo = {}
  /\ search' = [search EXCEPT ![s] = NoSearch]
  /\ UNCHANGED <<kbVars, graphVars, searchLeft>>

-----------------------------------------------------------------------------
\* Some issues have been ingested once, in progress and open to the user.
SearchInitWith(ingested, writes) ==
  /\ tracked = [i \in Issue |-> [work |-> "progress", open |-> TRUE]]
  /\ life = [i \in Issue |-> "active"]
  /\ qpoint = [i \in Issue |-> IF i \in ingested THEN
                 [id |-> 0, status |-> tracked[i].work, open |-> tracked[i].open] ELSE NoPoint]
  /\ feed = [i \in Issue |-> FALSE] /\ mirror = [i \in Issue |-> "none"]
  /\ linked = {} /\ syncing = FALSE /\ entities = {} /\ lastId = 0
  /\ search = [s \in Searcher |-> NoSearch]
  /\ defaced = {} /\ unheard = FALSE
  /\ searchLeft = [searches |-> MaxSearches, writes |-> writes]

SearchInit ==
  \E ingested \in SUBSET Issue : SearchInitWith(ingested, [i \in Issue |-> MaxWrites])

SearchStep(s) ==
  \/ \E fast, ppr, activity, person \in BOOLEAN : Ask(s, fast, ppr, activity, person)
  \/ DenseIds(s) \/ DenseRetrieve(s) \/ DenseAtOnce(s) \/ Exact(s) \/ Metadata(s)
  \/ LookUp(s) \/ GraphRead(s) \/ GraphRank(s) \/ Finishes(s)
  \/ \E channel \in Channels : ChannelFails(s, channel)

SearchNext ==
  \/ \E s \in Searcher : SearchStep(s)
  \/ \E i \in Issue :
       \/ \E work \in {"progress", "done"}, open \in BOOLEAN : Unpoint(i, work, open)
       \/ \E status \in {"active", "archived"} : Decide(i, status)
       \/ AddPoint(i) \/ Mirror(i)
       \/ \E sync \in BOOLEAN : WriteGraph(i, sync)
  \/ AnnounceSync

SearchSpec == SearchInit /\ [][SearchNext]_searchVars

(***************************************************************************)
(* Properties.                                                             *)
(***************************************************************************)

\* Whatever the channels read at different times, every payload a search has
\* found is open to the user: a point never becomes closed, its document gets
\* new points, which the ids found before do not name.
OnlyOpenFound ==
  \A s \in Searcher : \A h \in search[s].hits : h.open

\* With the freshness filter on, an archived document whose payload says so since
\* the search began is found neither by dense recall nor by PageRank; exact,
\* metadata and breadth-first graph recall do not apply the filter.
ArchivedHidden ==
  \A s \in Searcher : \A h \in search[s].hits :
     FreshnessFilter /\ h.issue \in search[s].hushed => ~h.pushed

\* A search for work in progress that names nobody has found every such issue that was
\* in the index throughout, unless the freshness worker had put its lifecycle status in
\* the place of the tracker's, or there was more work in progress, open to the user or
\* not, or there were more matches, than recall_top_n_metadata.
WorkFound ==
  \A s \in Searcher :
     search[s].activity /\ "metadata" \notin search[s].todo
       /\ ~search[s].missed /\ ~search[s].crowded =>
          search[s].visible \subseteq {h.issue : h \in search[s].hits}

\* The entities in the cache are those of the graph, once a sync has announced its
\* end; a write nobody announced, or a lookup that overlapped the announcement,
\* leaves old ones until the next.
EntitiesCurrent == syncing \/ unheard \/ entities \subseteq {linked}

\* What a caller of the search may rely on.
SearchHonest == OnlyOpenFound /\ ArchivedHidden /\ WorkFound /\ EntitiesCurrent
=============================================================================
