------------------------------ MODULE Listings ------------------------------
(***************************************************************************)
(* Paging through what is stored, while it changes: the unified list of    *)
(* memory records and KB documents (GET /knowledge/records), which a       *)
(* client pages by offset until has_more is false, and the two walks of an *)
(* export, by offset over the records of an agent and by key over the      *)
(* documents.                                                              *)
(*                                                                         *)
(* Ids are numbers, and so are times.  The records of the model are those  *)
(* of one agent that do not expire.  The route takes offsets up to 10000;  *)
(* a list in the model is shorter.                                         *)
(***************************************************************************)
EXTENDS Ranking

CONSTANTS
  Memo,        \* ids of memory records
  Leaf,        \* ids of KB documents
  ListLimit,   \* rows of a page
  MaxShifts,   \* bound: rows added, changed or removed, and legs failed
  MaxListings  \* bound: listings begun

ASSUME ListingAssumption ==
  /\ IsFiniteSet(Memo) /\ IsFiniteSet(Leaf) /\ Memo \cap Leaf = {}
  /\ Memo \cup Leaf = 1 .. Cardinality(Memo \cup Leaf)
  /\ ListLimit \in Nat \ {0} /\ MaxShifts \in Nat /\ MaxListings \in Nat

VARIABLES
  made,     \* created_at of each row, 0 if there is none
  renewed,  \* updated_at
  paging,   \* the paging under way or just finished
  shifts,   \* how often rows moved or legs failed so far
  listingsLeft

listingVars == <<made, renewed, paging, shifts, listingsLeft>>
dates == <<made, renewed>>

Shelved == Memo \cup Leaf
Dated(S) == {<<i, renewed[i]>> : i \in S}
Ids(page) == {row[1] : row \in page}

\* The sources of the list, each a leg of its own.
Legs == {"agent", "kb"}
ListingKinds == Legs \cup {"all", "exportRecords", "exportDocs"}
RowsOf(leg) == {i \in IF leg = "agent" THEN Memo ELSE Leaf : made[i] > 0}
Existing == {i \in Shelved : made[i] > 0}

\* offset, key: where the next page begins (key has the last row handed out, if
\* any); todo: queries of the page still to come; held: rows they returned, as
\* <<id, updated_at>>; total: the counts; partial: a leg failed; seen: how often
\* each row was handed out.
\* Ghosts.  steady: rows that were there from the beginning, the documents among
\* them unchanged; added, removed: a row was, or a document moved to the front;
\* overtaken: between two queries of a page; gaps: a leg of some page failed.
NoListing ==
  [at |-> "idle", kind |-> "none", offset |-> 0, key |-> {}, todo |-> {}, held |-> {},
   total |-> [leg \in Legs |-> 0], partial |-> FALSE, seen |-> [i \in Shelved |-> 0],
   steady |-> {}, added |-> FALSE, removed |-> FALSE, overtaken |-> FALSE, gaps |-> FALSE]

\* ORDER BY created_at DESC
ByCreation == {pair \in Shelved \X Shelved : made[pair[1]] > made[pair[2]]}

\* ORDER BY updated_at DESC, id ASC
ByRenewal ==
  {pair \in Shelved \X Shelved :
     \/ renewed[pair[1]] > renewed[pair[2]]
     \/ renewed[pair[1]] = renewed[pair[2]] /\ pair[1] < pair[2]}

OrderOf(leg) == IF leg = "agent" THEN ByCreation ELSE ByRenewal

\* With the time only (a mutant).
AfterTime(d) == \A row \in paging.key : renewed[d] < row[2]

\* The keyset: documents after the last one of the page before.
AfterKey(d) ==
  \A row \in paging.key : renewed[d] < row[2] \/ (renewed[d] = row[2] /\ d > row[1])

\* The queries of one page: of each leg the rows and the count, run concurrently.
Queries(leg) == {leg} \X {"rows", "count"}
ReadsOf(kind) == UNION {Queries(leg) : leg \in IF kind = "all" THEN Legs ELSE {kind} \cap Legs}

BeginListing(kind) ==
  /\ paging.at # "reading" /\ listingsLeft > 0
  /\ listingsLeft' = listingsLeft - 1
  /\ paging' = [NoListing EXCEPT !.at = "reading", !.kind = kind, !.todo = ReadsOf(kind),
                                  !.steady = Existing]
  /\ UNCHANGED <<dates, shifts>>

\* With origin=all both legs are read from the beginning, down to the page.
From == IF paging.kind = "all" THEN 0 ELSE paging.offset
Depth == IF paging.kind = "all" THEN paging.offset + ListLimit ELSE ListLimit

ReadRows(leg) ==
  /\ <<leg, "rows">> \in paging.todo
  /\ paging' = [paging EXCEPT !.todo = @ \ {<<leg, "rows">>},
                  !.held = @ \cup Dated(Slice(OrderOf(leg), RowsOf(leg), From, Depth))]
  /\ UNCHANGED <<dates, shifts, listingsLeft>>

CountRows(leg) ==
  /\ <<leg, "count">> \in paging.todo
  /\ paging' = [paging EXCEPT !.todo = @ \ {<<leg, "count">>},
                               !.total[leg] = Cardinality(RowsOf(leg))]
  /\ UNCHANGED <<dates, shifts, listingsLeft>>

\* One leg fails, with both of its queries: the other is shown alone, unless it
\* failed too or there is none (503).
LegFails(leg) ==
  /\ paging.at = "reading" /\ paging.todo \cap Queries(leg) # {}
  /\ paging' = IF paging.kind # "all" \/ paging.partial THEN NoListing
               ELSE [paging EXCEPT !.todo = @ \ Queries(leg),
                       !.held = {row \in @ : row[1] \in IF leg = "agent" THEN Leaf ELSE Memo},
                       !.total[leg] = 0, !.partial = TRUE, !.gaps = TRUE]
  /\ shifts < MaxShifts /\ shifts' = shifts + 1
  /\ UNCHANGED <<dates, listingsLeft>>

\* combined.sort(key=(updated_at, id), reverse=True)
Newest ==
  {pair \in (Shelved \X Nat) \X (Shelved \X Nat) :
     \/ pair[1][2] > pair[2][2]
     \/ pair[1][2] = pair[2][2] /\ pair[1][1] > pair[2][1]}

Shown ==
  IF paging.kind # "all" THEN paging.held ELSE Slice(Newest, paging.held, paging.offset, ListLimit)

Tally(page) == [i \in Shelved |-> paging.seen[i] + (IF i \in page THEN 1 ELSE 0)]

\* The response; the client goes on while has_more.
Respond ==
  /\ paging.at = "reading" /\ paging.kind \in Legs \cup {"all"} /\ paging.todo = {}
  /\ LET next == [paging EXCEPT !.held = {}, !.total = [leg \in Legs |-> 0],
                                !.seen = Tally(Ids(Shown))]
     IN  paging' =
           IF paging.offset + Cardinality(Shown) < paging.total["agent"] + paging.total["kb"]
           THEN [next EXCEPT !.offset = @ + ListLimit, !.todo = ReadsOf(paging.kind),
                             !.partial = FALSE]
           ELSE [next EXCEPT !.at = "done"]
  /\ UNCHANGED <<dates, shifts, listingsLeft>>

\* _collect_records: by offset, until a page is short.
ExportRecords ==
  LET page == Slice(ByCreation, RowsOf("agent"), paging.offset, ListLimit)
  IN  /\ paging.at = "reading" /\ paging.kind = "exportRecords"
      /\ paging' = [paging EXCEPT !.seen = Tally(page), !.offset = @ + ListLimit,
                       !.at = IF Cardinality(page) < ListLimit THEN "done" ELSE @]
      /\ UNCHANGED <<dates, shifts, listingsLeft>>

DocsLeft == {d \in RowsOf("kb") : AfterKey(d)}
LastOf(page) == CHOOSE d \in page : \A x \in page : <<d, x>> \notin ByRenewal

\* _iter_docs: by key, until a page is short.
ExportDocs ==
  LET page == Slice(ByRenewal, DocsLeft, 0, ListLimit)
  IN  /\ paging.at = "reading" /\ paging.kind = "exportDocs"
      /\ paging' = [paging EXCEPT !.seen = Tally(page),
                       !.key = IF page = {} THEN @ ELSE Dated({LastOf(page)}),
                       !.at = IF Cardinality(page) < ListLimit THEN "done" ELSE @]
      /\ UNCHANGED <<dates, shifts, listingsLeft>>

-----------------------------------------------------------------------------
\* Meanwhile rows are stored, changed and removed.
Hour == Cardinality(Shelved) + shifts + 1

Shift(moved) ==
  /\ shifts < MaxShifts /\ shifts' = shifts + 1
  /\ paging' =
       [moved EXCEPT !.overtaken = @ \/ (paging.todo # {} /\ paging.todo # ReadsOf(paging.kind))]
  /\ UNCHANGED listingsLeft

AddRow(i) ==
  /\ made[i] = 0
  /\ made' = [made EXCEPT ![i] = Hour] /\ renewed' = [renewed EXCEPT ![i] = Hour]
  /\ Shift([paging EXCEPT !.added = TRUE])

ChangeRow(i) ==
  /\ made[i] > 0
  /\ renewed' = [renewed EXCEPT ![i] = Hour] /\ UNCHANGED made
  /\ Shift(IF i \in Leaf THEN [paging EXCEPT !.added = TRUE, !.steady = @ \ {i}] ELSE paging)

DropRow(i) ==
  /\ made[i] > 0
  /\ made' = [made EXCEPT ![i] = 0] /\ renewed' = [renewed EXCEPT ![i] = 0]
  /\ Shift([paging EXCEPT !.removed = TRUE, !.steady = @ \ {i}])

\* All rows are there, each record stored at a time of its own and not updated
\* since; documents of one batch have the same time.
ListingInitWith(apart) ==
  /\ made = [i \in Shelved |-> IF i \in Memo \/ apart THEN i ELSE 1]
  /\ renewed = made
  /\ paging = NoListing /\ shifts = 0 /\ listingsLeft = MaxListings

ListingInit == \E apart \in BOOLEAN : ListingInitWith(apart)

ListingNext ==
  \/ \E kind \in ListingKinds : BeginListing(kind)
  \/ \E leg \in Legs : ReadRows(leg) \/ CountRows(leg) \/ LegFails(leg)
  \/ Respond \/ ExportRecords \/ ExportDocs
  \/ \E i \in Shelved : AddRow(i) \/ ChangeRow(i) \/ DropRow(i)

ListingSpec == ListingInit /\ [][ListingNext]_listingVars

(***************************************************************************)
(* Properties.                                                             *)
(***************************************************************************)

\* Nothing moved while all was paged, and creation and update order the rows alike.
Settled ==
  /\ ~paging.added /\ ~paging.removed /\ ~paging.overtaken /\ ~paging.gaps
  /\ \A i, j \in Existing : i # j => renewed[i] # renewed[j]
  /\ \A m \in Memo : made[m] = renewed[m]

\* A client that has paged one source to its end has seen every row that was there
\* all along, and changed in nothing that moves it, unless a row was removed or two
\* queries of one page were overtaken; and it has seen it once unless rows were added.
\* With both sources merged it has seen each once if nothing moved, no leg failed, no
\* two rows have the same time and no record was ever updated: see MergedExactly.
PagesCover ==
  /\ paging.at = "done" /\ paging.kind = "all" /\ Settled =>
       \A i \in paging.steady : paging.seen[i] = 1
  /\ paging.at = "done" /\ paging.kind \in Legs =>
       \A i \in paging.steady \cap RowsOf(paging.kind) :
          /\ ~paging.removed /\ ~paging.overtaken => paging.seen[i] > 0
          /\ ~paging.added => paging.seen[i] <= 1

\* An export has each document once that was there all along and did not change,
\* whatever happened to others, and none twice; a document that changed meanwhile
\* may be missing.  Records are paged by offset: one is missing only if another was
\* removed, and there twice only if another was added.
ExportsCover ==
  paging.at = "done" =>
    /\ paging.kind = "exportDocs" =>
         /\ \A d \in paging.steady \cap Leaf : paging.seen[d] = 1
         /\ \A d \in Leaf : paging.seen[d] <= 1
    /\ paging.kind = "exportRecords" =>
         \A m \in paging.steady \cap Memo :
            /\ ~paging.removed => paging.seen[m] > 0
            /\ ~paging.added => paging.seen[m] <= 1

\* What is paged is found.
ListingsCover == PagesCover /\ ExportsCover

\* "origin=all pagination is exact via over-fetch", says the module docstring of
\* api/routes/knowledge.py: a client that pages both sources to the end, with nothing
\* stored, changed, removed or failing meanwhile, has every row once.
MergedExactly ==
  paging.at = "done" /\ paging.kind = "all" /\ shifts = 0 =>
    \A i \in Shelved : paging.seen[i] = 1
=============================================================================
