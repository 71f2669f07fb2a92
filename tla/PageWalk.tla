------------------------------ MODULE PageWalk ------------------------------
(***************************************************************************)
(* How the connectors walk a source page by page while it changes, and the *)
(* time up to which a connection then counts as fetched:                   *)
(*                                                                         *)
(*   "cql"     Confluence: offsets into what changed since, in no order of *)
(*             time; every page of the wiki is read on its own             *)
(*   "jql"     Jira: tokens, newest first, what changed since              *)
(*   "search"  Notion: tokens, newest first, up to what is older           *)
(*   "pulls"   GitHub's pull requests and issues: page numbers, newest     *)
(*             first, up to what is older                                  *)
(*                                                                         *)
(* A token is taken to stand for the place of the last item handed out.    *)
(* Time counts the changes of the source, and the times the connectors     *)
(* compare are taken to be exact and of one zone, which is an assumption:  *)
(* Confluence and Jira get the cursor to the minute without its zone,      *)
(* Notion gives its times to the minute and GitHub to the second.  Of a    *)
(* change within the cursor's own minute, or with a server in another      *)
(* zone, the model says nothing.                                           *)
(***************************************************************************)
EXTENDS Ranking

CONSTANTS
  MaxEntry,    \* the items are 1 .. MaxEntry
  PageLimit,   \* items of a page
  MaxTouches,  \* bound: changes of the source
  MaxWalks     \* bound: fetches

ASSUME WalkAssumption ==
  MaxEntry \in Nat /\ PageLimit \in Nat \ {0} /\ MaxTouches \in Nat /\ MaxWalks \in Nat

VARIABLES
  style,      \* of the connection's connector
  touched,    \* [item -> when it last changed; 0: it is gone]
  now,
  until,      \* connections.last_synced_at
  taken,      \* [item -> the change the last fetch of it has]
  walk,       \* the fetch under way
  forgiven,   \* ghost: items whose fetch failed alone, or was in a walk that went wrong
  walksLeft

walkVars == <<style, touched, now, until, taken, walk, forgiven, walksLeft>>

Entry == 1 .. MaxEntry
Styles == {"cql", "jql", "search", "pulls"}

\* start: offset; key: change of the last item handed out; page: items still to
\* read, as [entry, change] pairs; more: there may be another page.
\* shrunk: ghost, an item that was listed is gone; failed: ghost.
NoWalk == [at |-> "idle", start |-> 0, key |-> 0, since |-> 0, began |-> 0, page |-> <<>>,
           more |-> FALSE, got |-> [e \in Entry |-> 0], failed |-> {}, shrunk |-> FALSE]

\* The connection is created.
ChooseSource(s) ==
  /\ style = "none" /\ style' = s
  /\ UNCHANGED <<touched, now, until, taken, walk, forgiven, walksLeft>>

\* since is the cursor, or NULL with force_full.
BeginWalk(since) ==
  /\ style # "none" /\ walk.at = "idle" /\ walksLeft > 0
  /\ walksLeft' = walksLeft - 1
  /\ walk' = [NoWalk EXCEPT !.at = "walking", !.since = since, !.began = now, !.key = now + 1,
                            !.more = TRUE]
  /\ UNCHANGED <<style, touched, now, until, taken, forgiven>>

\* What the server lists: the filters of CQL and JQL are its own, and take the
\* minute of the cursor too.
Listed ==
  {e \in Entry : touched[e] # 0 /\ (style \in {"cql", "jql"} => touched[e] >= walk.since)}

\* The order of the pages: Confluence's is its own, the others' newest first.
Earlier ==
  {pair \in Entry \X Entry :
     IF style = "cql" THEN pair[1] < pair[2] ELSE touched[pair[1]] > touched[pair[2]]}

\* The page's own size for the total (a mutant).
PageAlone(list) == PageLimit

\* totalSize
Total(list) == Cardinality(list)

\* Notion and GitHub collect the whole list, up to the first item older than the
\* cursor, and read the items then; Confluence and Jira read page by page.
CollectsFirst == style \in {"search", "pulls"}

Asking == walk.at = "walking" /\ walk.more /\ (walk.page = <<>> \/ CollectsFirst)
InHand == walk.at = "walking" /\ walk.page # <<>> /\ (CollectsFirst => ~walk.more)

\* The items before the next page: an offset counts them, a token tells them by
\* their changes.
Skipped ==
  IF style \in {"cql", "pulls"} THEN walk.start
  ELSE Cardinality({e \in Listed : touched[e] >= walk.key})

\* One request.
ListPage ==
  LET page == Slice(Earlier, Listed, Skipped, PageLimit)
      kept == InOrder(Earlier, {e \in page : touched[e] >= walk.since})
      last == {e \in page : \A d \in page : <<e, d>> \notin Earlier}
  IN
  /\ Asking
  /\ walk' = [walk EXCEPT
       !.page = @ \o [i \in DOMAIN kept |-> <<kept[i], touched[kept[i]]>>],
       !.start = @ + PageLimit,
       !.key = IF page = {} THEN @ ELSE touched[CHOOSE e \in last : TRUE],
       !.more = /\ \A e \in page : touched[e] >= walk.since
                /\ Skipped + PageLimit < Total(Listed)]
  /\ UNCHANGED <<style, touched, now, until, taken, forgiven, walksLeft>>

Past(kept) == [walk EXCEPT !.page = Tail(@), !.got[Head(walk.page)[1]] = kept]

\* The content is in the listing (Jira, and Confluence when it fetches all of the
\* space) or is read now; is_strictly_after, of Confluence and Jira, drops what has
\* not changed since the cursor.  The title and body of a pull request and the title
\* of a Notion page stay those of the listing.
ReadEntry ==
  LET e      == Head(walk.page)[1]
      listed == style = "jql" \/ (style = "cql" /\ walk.since = 0)
      have   == IF listed THEN Head(walk.page)[2] ELSE touched[e]
  IN
  /\ InHand /\ have # 0
  /\ walk' = Past(IF CollectsFirst \/ have > walk.since THEN have ELSE 0)
  /\ UNCHANGED <<style, touched, now, until, taken, forgiven, walksLeft>>

\* One item cannot be read or parsed, or is gone: a warning, and on to the next.
EntryFails ==
  /\ InHand
  /\ walk' = [Past(0) EXCEPT !.failed = @ \cup {Head(walk.page)[1]}]
  /\ UNCHANGED <<style, touched, now, until, taken, forgiven, walksLeft>>

\* The cursor becomes the end of the fetch (a mutant).
WhenDone == now

\* fetch_started_at
WhenBegun == walk.began

Handed(got) == [e \in Entry |-> IF got[e] # 0 THEN got[e] ELSE taken[e]]

\* All is ingested; what the walk should have had and does not have is forgiven it
\* for the reasons the model names.
EndWalk ==
  /\ walk.at = "walking" /\ walk.page = <<>> /\ ~walk.more
  /\ until' = WhenBegun
  /\ taken' = Handed(walk.got)
  /\ forgiven' = (forgiven \ {e \in Entry : walk.got[e] # 0}) \cup walk.failed
                   \cup (IF walk.shrunk THEN {e \in Entry : walk.got[e] = 0} ELSE {})
  /\ walk' = NoWalk
  /\ UNCHANGED <<style, touched, now, walksLeft>>

\* A request fails.  Confluence, Jira and Notion raise, and the cursor stays;
\* GitHub notes the repository in fetch_errors, and the sync is partial, which
\* moves the cursor, if other repositories had documents.
WalkRaises(others) ==
  /\ Asking
  /\ others => style = "pulls"
  /\ walk' = NoWalk
  /\ until' = IF others THEN WhenBegun ELSE until
  /\ forgiven' = IF others THEN forgiven \cup {e \in Entry : touched[e] > walk.since} ELSE forgiven
  /\ UNCHANGED <<style, touched, now, taken, walksLeft>>

Touch(e) ==
  /\ style # "none" /\ touched[e] # 0 /\ now < MaxEntry + MaxTouches
  /\ now' = now + 1
  /\ touched' = [touched EXCEPT ![e] = now']
  /\ UNCHANGED <<style, until, taken, walk, forgiven, walksLeft>>

\* A page or an issue is removed (a pull request cannot be).
Vanish(e) ==
  /\ style # "none" /\ touched[e] # 0 /\ now < MaxEntry + MaxTouches
  /\ now' = now + 1
  /\ touched' = [touched EXCEPT ![e] = 0]
  /\ walk' = [walk EXCEPT !.shrunk = @ \/ (walk.at = "walking" /\ style \in {"cql", "pulls"})]
  /\ UNCHANGED <<style, until, taken, forgiven, walksLeft>>

WalkInit ==
  /\ style = "none"
  /\ touched = [e \in Entry |-> e] /\ now = MaxEntry
  /\ until = 0 /\ taken = [e \in Entry |-> 0]
  /\ walk = NoWalk /\ forgiven = {} /\ walksLeft = MaxWalks

WalkNext ==
  \/ \E s \in Styles : ChooseSource(s)
  \/ \E since \in {0, until} : BeginWalk(since)
  \/ ListPage \/ ReadEntry \/ EntryFails \/ EndWalk
  \/ \E others \in BOOLEAN : WalkRaises(others)
  \/ \E e \in Entry : Touch(e) \/ Vanish(e)

WalkSpec == WalkInit /\ [][WalkNext]_walkVars

(***************************************************************************)
(* Property.                                                               *)
(***************************************************************************)

\* Every item that has not changed since the cursor was fetched as it is: paging
\* over a source that changes skips nothing, except with Confluence's offsets and
\* GitHub's page numbers when something is removed meanwhile; an item that fails alone, and a repository that
\* breaks off, are lost until they change.
FetchedUpToCursor ==
  \A e \in Entry :
     touched[e] # 0 /\ touched[e] <= until => taken[e] = touched[e] \/ e \in forgiven
=============================================================================
