--------------------------- MODULE KnowledgeProofs --------------------------
(***************************************************************************)
(* The knowledge base: the passages that an ingest indexes, the searches   *)
(* that read them, the exports, and the documents that come from MCP       *)
(* servers. The theorems hold for any number of pages, issues, searches,   *)
(* exports, documents, workspaces and calls, and for any failures.         *)
(***************************************************************************)
EXTENDS ChunkIndex, KnowledgeSearch, ExportJobs, ServerSync, TLAPS

-----------------------------------------------------------------------------
(***************************************************************************)
(* The passages of a page. An ingest that nothing disturbed is alone on    *)
(* its page and its points are as far as its step; one that something      *)
(* disturbed has told so.                                                  *)
(***************************************************************************)

IngestSteps == {"rest", "load", "drop", "add", "save", "mark"}
Task == [at : IngestSteps, page : Page \cup {NoPage}, body : SUBSET Passage,
         index : [Passage -> Page \cup {NoPage}], fresh : SUBSET Passage, clean : BOOLEAN]

\* The points of a page whose ingest has added the text b but for the duplicates s.
Filled(b, s) == [p \in Passage |-> IF p \in b \ s THEN 1 ELSE 0]

Alone(c) == \A k \in Ingest \ {c} : ingest[k].page # ingest[c].page

\* An ingest that met nothing works on a page of its own, and the page's points are as
\* far as its step; one that met something has left its mark on the page.
TaskOK(c) ==
  LET t == ingest[c]
      d == ingest[c].page
  IN /\ t.at = "rest" => t = Resting
     /\ t.at # "rest" => d \in Page
     /\ t.at # "rest" /\ ~t.clean => d \in tainted /\ d \in poisoned
     /\ t.at # "rest" /\ t.clean =>
          /\ Alone(c) /\ body[d] = t.body
          /\ t.at = "add" => points[d] = [p \in Passage |-> 0]
          /\ t.at \in {"save", "mark"} /\ t.body # {} => points[d] = Filled(t.body, skipped[d])
          /\ t.at = "save" => t.fresh \subseteq Pointed(d)

PrintsHeld == \A f \in prints : f[2] \notin poisoned => points[f[2]][f[1]] > 0

ChunkShapes ==
  /\ body \in [Page -> SUBSET Passage] /\ skipped \in [Page -> SUBSET Passage]
  /\ points \in [Page -> [Passage -> Nat]]
  /\ prints \subseteq Passage \X Page
  /\ ingest \in [Ingest -> Task]
  /\ tainted \subseteq poisoned /\ synced \subseteq Page

ChunkInv ==
  /\ ChunkShapes
  /\ \A c \in Ingest : TaskOK(c)
  /\ IndexFaithful
  /\ PrintsHeld

\* An ingest at rest has no page.
LEMMA RestingTask == Resting \in Task /\ Resting.at = "rest" /\ Resting.page = NoPage
BY DEF Resting, Task, IngestSteps, NoIndex

\* The invariant holds in the initial states.
LEMMA ChunksInitially ==
  ASSUME NEW d \in Page, NEW p \in Passage, ChunkInitWith(d, {p})
  PROVE  ChunkInv
<1> USE DEF ChunkInitWith
<1>1. ChunkShapes
  BY RestingTask DEF ChunkShapes
<1>2. \A c \in Ingest : TaskOK(c)
  BY RestingTask DEF TaskOK
<1>3. IndexFaithful
  BY DEF IndexFaithful
<1>4. PrintsHeld
  BY DEF PrintsHeld
<1> QED BY <1>1, <1>2, <1>3, <1>4 DEF ChunkInv

\* A step of the ingest c, of page d, leaves every other ingest and every other page
\* as they are.
LEMMA OthersKeep ==
  ASSUME ChunkInv, NEW c \in Ingest, NEW t \in Task, ingest[c].at # "rest",
         ingest' = [ingest EXCEPT ![c] = t],
         t.page = ingest[c].page \/ t = Resting,
         body' = body, tainted' \subseteq tainted \cup {ingest[c].page},
         tainted \ {ingest[c].page} \subseteq tainted', poisoned \subseteq poisoned',
         ingest[c].page \in tainted' \/ tainted' = tainted \/ Alone(c),
         synced' \subseteq synced \cup {ingest[c].page},
         \A e \in Page \ {ingest[c].page} : points'[e] = points[e] /\ skipped'[e] = skipped[e]
  PROVE  /\ \A k \in Ingest \ {c} : TaskOK(k)'
         /\ \A e \in (synced' \ tainted') \cap (Page \ {ingest[c].page}) :
              ~Ingesting(e)' /\ body'[e] # {} =>
                points'[e] = [p \in Passage |-> IF p \in body'[e] \ skipped'[e] THEN 1 ELSE 0]
<1> DEFINE d == ingest[c].page
<1>1. d \in Page /\ d # NoPage /\ t.page \in {d, NoPage}
  BY RestingTask, ChunkAssumption DEF ChunkInv, TaskOK
<1>2. \A k \in Ingest : ingest'[k] = IF k = c THEN t ELSE ingest[k]
  BY DEF ChunkInv, ChunkShapes
<1> HIDE DEF d
<1>3. \A k \in Ingest \ {c} : TaskOK(k)'
  <2> SUFFICES ASSUME NEW k \in Ingest \ {c} PROVE TaskOK(k)'
    OBVIOUS
  <2>1. TaskOK(k) /\ ingest'[k] = ingest[k]
    BY <1>2 DEF ChunkInv
  <2>2. CASE ingest[k].page = d
    <3>1. ~Alone(c) /\ ~Alone(k)
      BY <2>2 DEF Alone, d
    <3>2. d \in tainted => d \in tainted'
      BY <3>1 DEF d
    <3> QED BY <2>1, <2>2, <3>1, <3>2, <1>1 DEF TaskOK
  <2>3. CASE ingest[k].page # d
    <3>1. Alone(k) /\ ingest[k].page \in Page => Alone(k)'
      BY <1>1, <1>2, <2>1, <2>3, ChunkAssumption DEF Alone
    <3>2. ingest[k].page \in Page => /\ points'[ingest[k].page] = points[ingest[k].page]
                                     /\ skipped'[ingest[k].page] = skipped[ingest[k].page]
      BY <2>3 DEF d
    <3>3. ingest[k].page \in tainted => ingest[k].page \in tainted'
      BY <2>3 DEF d
    <3> QED BY <2>1, <2>3, <3>1, <3>2, <3>3 DEF TaskOK, Pointed
  <2> QED BY <2>2, <2>3
<1>4. ASSUME NEW e \in (synced' \ tainted') \cap (Page \ {d}), ~Ingesting(e)', body'[e] # {}
      PROVE  points'[e] = [p \in Passage |-> IF p \in body'[e] \ skipped'[e] THEN 1 ELSE 0]
  <2>1. e \in synced \ tainted
    BY <1>4 DEF d
  <2>2. ~Ingesting(e)
    BY <1>1, <1>2, <1>4 DEF Ingesting, d
  <2> QED BY <2>1, <2>2, <1>4 DEF ChunkInv, IndexFaithful, d
<1> QED BY <1>3, <1>4 DEF d

\* A step of the ingest that goes on with its page keeps what was true of the pages.
LEMMA GoesOn ==
  ASSUME ChunkInv, NEW c \in Ingest, NEW t \in Task, ingest[c].at # "rest",
         ingest' = [ingest EXCEPT ![c] = t],
         t.page = ingest[c].page, ChunkShapes', TaskOK(c)', PrintsHeld',
         body' = body, synced' = synced,
         \/ tainted' = tainted /\ poisoned' = poisoned
         \/ Dirty(c),
         \A e \in Page \ {ingest[c].page} : points'[e] = points[e] /\ skipped'[e] = skipped[e]
  PROVE  ChunkInv'
<1> DEFINE d == ingest[c].page
<1>1. /\ tainted \subseteq tainted' /\ tainted' \subseteq tainted \cup {d}
      /\ poisoned \subseteq poisoned' /\ (d \in tainted' \/ tainted' = tainted)
  BY DEF Dirty
<1>2. /\ \A k \in Ingest \ {c} : TaskOK(k)'
      /\ \A e \in (synced' \ tainted') \cap (Page \ {d}) :
              ~Ingesting(e)' /\ body'[e] # {} =>
                points'[e] = [p \in Passage |-> IF p \in body'[e] \ skipped'[e] THEN 1 ELSE 0]
  BY <1>1, OthersKeep
<1>3. Ingesting(d)'
  BY DEF Ingesting, ChunkInv, ChunkShapes
<1>4. IndexFaithful'
  <2> SUFFICES ASSUME NEW e \in synced' \ tainted', ~Ingesting(e)', body'[e] # {}
               PROVE  points'[e] = [p \in Passage |-> IF p \in body'[e] \ skipped'[e] THEN 1 ELSE 0]
    BY DEF IndexFaithful
  <2>1. e \in Page \ {d}
    BY <1>3 DEF ChunkShapes
  <2> QED BY <2>1, <1>2
<1> QED BY <1>2, <1>4 DEF ChunkInv

\* A page marked as poisoned answers for nothing, and so does an ingest that has met
\* something.
LEMMA SoiledOK ==
  ASSUME ChunkInv, NEW c \in Ingest, NEW t \in Task, ingest[c].at # "rest",
         ingest' = [ingest EXCEPT ![c] = t], t.at # "rest", t.page = ingest[c].page, ~t.clean,
         Dirty(c)
  PROVE  TaskOK(c)'
<1>1. ingest'[c] = t /\ ingest[c].page \in Page
  BY DEF ChunkInv, ChunkShapes, TaskOK
<1> QED BY <1>1 DEF TaskOK, Dirty

\* An ingest that is soiled keeps its step and is no longer clean.
LEMMA SoilTask ==
  ASSUME NEW t \in Task
  PROVE  Soil(t) \in Task /\ Soil(t).page = t.page /\ ~Soil(t).clean
BY DEF Soil, Task

\* Store: the step preserves the invariant.
LEMMA StoreKeeps ==
  ASSUME ChunkInv, NEW c \in Ingest, NEW d \in Page, NEW b \in SUBSET Passage, Store(c, d, b)
  PROVE  ChunkInv'
<1> DEFINE t == [Resting EXCEPT !.at = IF b = {} THEN "mark" ELSE "load", !.page = d,
                                !.body = b, !.clean = ~Ingesting(d)]
<1>1. /\ ingest[c] = Resting /\ body' = [body EXCEPT ![d] = b]
      /\ synced' \subseteq synced \cup {d}
      /\ ingest' = [k \in Ingest |-> IF k = c THEN t
                        ELSE IF ingest[k].page = d THEN Soil(ingest[k]) ELSE ingest[k]]
      /\ tainted'  = IF Ingesting(d) THEN tainted \cup {d} ELSE tainted
      /\ poisoned' = IF Ingesting(d) THEN poisoned \cup {d} ELSE poisoned
      /\ UNCHANGED <<points, prints, skipped>>
  BY DEF Store
<1>2. /\ t \in Task /\ t.page = d /\ t.body = b /\ t.clean = ~Ingesting(d)
      /\ t.at \in {"mark", "load"} /\ (t.at = "mark" => b = {}) /\ t.at # "rest"
  BY DEF Task, Resting, IngestSteps, NoIndex, Ingesting
<1> HIDE DEF t
<1>3. d # NoPage
  BY ChunkAssumption
<1>4. ChunkShapes'
  <2>1. \A k \in Ingest : ingest[k] \in Task
    BY DEF ChunkInv, ChunkShapes
  <2>2. ingest' \in [Ingest -> Task]
    BY <1>1, <1>2, <2>1, SoilTask
  <2> QED BY <1>1, <2>2 DEF ChunkInv, ChunkShapes
<1>5. \A k \in Ingest : TaskOK(k)'
  <2> SUFFICES ASSUME NEW k \in Ingest PROVE TaskOK(k)'
    OBVIOUS
  <2>1. CASE k = c
    <3>1. ingest'[c] = t
      BY <1>1
    <3>2. body'[d] = b
      BY <1>1 DEF ChunkInv, ChunkShapes
    <3>3. t.clean => Alone(c)'
      BY <1>1, <1>2, <3>1 DEF Alone, Ingesting
    <3>4. ~t.clean => d \in tainted' /\ d \in poisoned'
      BY <1>1, <1>2
    <3> QED BY <2>1, <3>1, <3>2, <3>3, <3>4, <1>2 DEF TaskOK
  <2>2. CASE k # c /\ ingest[k].page = d
    <3>1. ingest'[k] = Soil(ingest[k]) /\ Ingesting(d) /\ ingest[k] \in Task
      BY <2>2, <1>1 DEF Ingesting, ChunkInv, ChunkShapes
    <3>2. ingest[k].at # "rest"
      BY <2>2, <1>3, RestingTask DEF ChunkInv, TaskOK
    <3>3. ingest'[k].page = d /\ ~ingest'[k].clean /\ ingest'[k].at # "rest"
      BY <2>2, <3>1, <3>2 DEF Soil, Task
    <3> QED BY <3>1, <3>3, <1>1 DEF TaskOK
  <2>3. CASE k # c /\ ingest[k].page # d
    <3>1. ingest'[k] = ingest[k] /\ TaskOK(k)
      BY <2>3, <1>1 DEF ChunkInv
    <3>2. Alone(k) => Alone(k)'
      <4> SUFFICES ASSUME Alone(k), NEW j \in Ingest \ {k}
                   PROVE  ingest'[j].page # ingest'[k].page
        BY DEF Alone
      <4>1. ingest'[j].page \in {ingest[j].page, d}
        BY <1>1, <1>2, SoilTask DEF ChunkInv, ChunkShapes
      <4> QED BY <4>1, <3>1, <2>3 DEF Alone
    <3>3. ingest[k].page \in Page => body'[ingest[k].page] = body[ingest[k].page]
      BY <2>3, <1>1 DEF ChunkInv, ChunkShapes
    <3> QED BY <3>1, <3>2, <3>3, <1>1 DEF TaskOK, Pointed
  <2> QED BY <2>1, <2>2, <2>3
<1>6. IndexFaithful'
  <2> SUFFICES ASSUME NEW e \in synced' \ tainted', ~Ingesting(e)', body'[e] # {}
               PROVE  points'[e] = [p \in Passage |-> IF p \in body'[e] \ skipped'[e] THEN 1 ELSE 0]
    BY DEF IndexFaithful
  <2>1. e # d
    <3>1. ingest'[c].page = d
      BY <1>1, <1>2
    <3> QED BY <3>1 DEF Ingesting
  <2>2. e \in synced \ tainted /\ body'[e] = body[e]
    BY <2>1, <1>1, <1>4 DEF ChunkInv, ChunkShapes
  <2>3. ~Ingesting(e)
    <3> SUFFICES ASSUME NEW k \in Ingest, ingest[k].page = e PROVE FALSE
      BY DEF Ingesting
    <3>1. e \in Page /\ e # NoPage /\ k # c
      BY <1>1, <1>4, RestingTask, ChunkAssumption DEF ChunkShapes
    <3>2. ingest'[k] = ingest[k]
      BY <1>1, <2>1, <3>1
    <3> QED BY <3>2 DEF Ingesting
  <2> QED BY <2>2, <2>3, <1>1 DEF ChunkInv, IndexFaithful
<1>7. PrintsHeld'
  BY <1>1 DEF ChunkInv, PrintsHeld
<1> QED BY <1>4, <1>5, <1>6, <1>7 DEF ChunkInv

\* Load: the step preserves the invariant.
LEMMA LoadKeeps ==
  ASSUME ChunkInv, NEW c \in Ingest, Load(c)
  PROVE  ChunkInv'
<1>1. /\ ingest[c].at = "load" /\ UNCHANGED <<body, synced, points, prints, skipped>>
      /\ ingest[c] \in Task /\ TaskOK(c) /\ ingest[c].page \in Page
  BY DEF Load, ChunkInv, ChunkShapes, TaskOK
<1>2. CASE \E index \in [Passage -> Page \cup {NoPage}] :
             /\ ingest' = [ingest EXCEPT ![c].at = "drop", ![c].index = index]
             /\ Unharmed
  <2>1. PICK index \in [Passage -> Page \cup {NoPage}] :
             /\ ingest' = [ingest EXCEPT ![c].at = "drop", ![c].index = index]
             /\ Unharmed
    BY <1>2
  <2> DEFINE t == [ingest[c] EXCEPT !.at = "drop", !.index = index]
  <2>2. /\ t \in Task /\ ingest' = [ingest EXCEPT ![c] = t] /\ t.page = ingest[c].page
        /\ t.at = "drop" /\ t.body = ingest[c].body /\ t.clean = ingest[c].clean
    BY <2>1, <1>1 DEF Task, IngestSteps, ChunkInv, ChunkShapes
  <2> HIDE DEF t
  <2>3. ChunkShapes' /\ PrintsHeld'
    BY <1>1, <2>1, <2>2 DEF ChunkInv, ChunkShapes, PrintsHeld, Unharmed
  <2>4. TaskOK(c)'
    <3>1. ingest'[c] = t /\ Alone(c)' = Alone(c)
      BY <2>2 DEF Alone, ChunkInv, ChunkShapes
    <3> QED BY <1>1, <2>1, <2>2, <3>1 DEF TaskOK, Unharmed
  <2> QED BY <1>1, <2>1, <2>2, <2>3, <2>4, GoesOn DEF Unharmed
<1>3. CASE Dirty(c) /\ ingest' = [ingest EXCEPT ![c] = [Soil(@) EXCEPT !.at = "drop"]]
  <2> DEFINE t == [Soil(ingest[c]) EXCEPT !.at = "drop"]
  <2>2. /\ t \in Task /\ ingest' = [ingest EXCEPT ![c] = t] /\ t.page = ingest[c].page
        /\ t.at = "drop" /\ ~t.clean
    BY <1>1, <1>3, SoilTask DEF Task, IngestSteps
  <2> HIDE DEF t
  <2>3. ChunkShapes' /\ PrintsHeld'
    BY <1>1, <1>3, <2>2 DEF ChunkInv, ChunkShapes, PrintsHeld, Dirty
  <2>4. TaskOK(c)'
    BY <1>1, <1>3, <2>2, SoiledOK
  <2> QED BY <1>1, <1>3, <2>2, <2>3, <2>4, GoesOn
<1> QED BY <1>2, <1>3 DEF Load

\* What the steps of one ingest share.
LEMMA AtWork ==
  ASSUME ChunkInv, NEW c \in Ingest, ingest[c].at # "rest"
  PROVE  /\ ingest[c] \in Task /\ TaskOK(c) /\ ingest[c].page \in Page
         /\ points[ingest[c].page] \in [Passage -> Nat]
BY DEF ChunkInv, ChunkShapes, TaskOK

\* The fingerprints less those of a page are fingerprints.
LEMMA ForgottenType ==
  ASSUME NEW index \in [Passage -> Page \cup {NoPage}], NEW d \in Page
  PROVE  ForgetPage(index, d) \in [Passage -> Page \cup {NoPage}]
BY DEF ForgetPage

\* Drop: the step preserves the invariant.
LEMMA DropKeeps ==
  ASSUME ChunkInv, NEW c \in Ingest, DropOld(c)
  PROVE  ChunkInv'
<1> DEFINE d == ingest[c].page
           dropped == [ingest[c] EXCEPT !.at = "add", !.index = ForgetPage(@, d)]
<1>1. /\ ingest[c].at = "drop" /\ UNCHANGED <<body, known, synced, skipped>>
      /\ ingest[c] \in Task /\ TaskOK(c) /\ d \in Page /\ points[d] \in [Passage -> Nat]
      /\ DOMAIN points = Page
  BY AtWork DEF DropOld, ChunkInv, ChunkShapes
<1>2. /\ dropped \in Task /\ dropped.page = d /\ dropped.at = "add"
      /\ dropped.body = ingest[c].body /\ dropped.clean = ingest[c].clean
  BY <1>1, ForgottenType DEF Task, IngestSteps
<1> HIDE DEF dropped
<1>3. PointsWithout(d) \in [Page -> [Passage -> Nat]]
  BY <1>1 DEF PointsWithout, ChunkInv, ChunkShapes
<1>4. CASE /\ Pointed(d) = {} /\ Unharmed
           /\ ingest' = [ingest EXCEPT ![c].at = "add"]
           /\ UNCHANGED <<points, prints>>
  <2> DEFINE t == [ingest[c] EXCEPT !.at = "add"]
  <2>1. /\ t \in Task /\ ingest' = [ingest EXCEPT ![c] = t] /\ t.page = d
        /\ t.at = "add" /\ t.body = ingest[c].body /\ t.clean = ingest[c].clean
    BY <1>1, <1>4 DEF Task, IngestSteps
  <2> HIDE DEF t
  <2>2. ChunkShapes' /\ PrintsHeld'
    BY <1>1, <1>4, <2>1 DEF ChunkInv, ChunkShapes, PrintsHeld, Unharmed
  <2>3. points[d] = [p \in Passage |-> 0]
    BY <1>1, <1>4 DEF Pointed
  <2>4. TaskOK(c)'
    <3>1. ingest'[c] = t /\ Alone(c)' = Alone(c)
      BY <2>1 DEF Alone, ChunkInv, ChunkShapes
    <3> QED BY <1>1, <1>4, <2>1, <2>3, <3>1 DEF TaskOK, Unharmed
  <2> QED BY <1>1, <1>4, <2>1, <2>2, <2>4, GoesOn DEF Unharmed
<1>5. CASE /\ Unharmed /\ points' = PointsWithout(d) /\ prints' = PrintsWithout(d)
           /\ ingest' = [ingest EXCEPT ![c] = dropped]
  <2>1. ChunkShapes' /\ PrintsHeld'
    BY <1>1, <1>2, <1>3, <1>5
       DEF ChunkInv, ChunkShapes, PrintsHeld, Unharmed, PrintsWithout, PointsWithout
  <2>2. points'[d] = [p \in Passage |-> 0]
    BY <1>1, <1>5 DEF PointsWithout
  <2>3. TaskOK(c)'
    <3>1. ingest'[c] = dropped /\ Alone(c)' = Alone(c)
      BY <1>2, <1>5 DEF Alone, ChunkInv, ChunkShapes
    <3> QED BY <1>1, <1>2, <1>5, <2>2, <3>1 DEF TaskOK, Unharmed
  <2>4. \A e \in Page \ {d} : points'[e] = points[e]
    BY <1>1, <1>5 DEF PointsWithout
  <2> QED BY <1>1, <1>2, <1>5, <2>1, <2>3, <2>4, GoesOn DEF Unharmed
<1>6. CASE /\ Dirty(c) /\ UNCHANGED prints
           /\ \/ ingest' = [ingest EXCEPT ![c] = [Soil(@) EXCEPT !.at = "add"]] /\ points' = points
              \/ points' = PointsWithout(d) /\ ingest' = [ingest EXCEPT ![c] = Soil(dropped)]
  <2> DEFINE t == [Soil(ingest[c]) EXCEPT !.at = "add"]
             u == Soil(dropped)
  <2>1. /\ t \in Task /\ t.page = d /\ t.at = "add" /\ ~t.clean
        /\ u \in Task /\ u.page = d /\ u.at = "add" /\ ~u.clean
    BY <1>1, <1>2, SoilTask DEF Task, IngestSteps, Soil
  <2> HIDE DEF t, u
  <2>2. PICK v \in {t, u} : ingest' = [ingest EXCEPT ![c] = v]
    BY <1>1, <1>6 DEF t, u
  <2>3. ChunkShapes' /\ \A e \in Page \ {d} : points'[e] = points[e]
    BY <1>1, <1>3, <1>6, <2>1, <2>2 DEF ChunkInv, ChunkShapes, PointsWithout, Dirty
  <2>4. PrintsHeld'
    BY <1>1, <1>6, <2>3 DEF PrintsHeld, ChunkInv, ChunkShapes, Dirty
  <2>5. TaskOK(c)'
    BY <1>1, <1>6, <2>1, <2>2, SoiledOK
  <2> QED BY <1>1, <1>6, <2>1, <2>2, <2>3, <2>4, <2>5, GoesOn
<1> QED BY <1>1, <1>4, <1>5, <1>6 DEF DropOld, dropped

\* Adding points of a page touches no other page, and on a page without points
\* gives each passage one.
LEMMA AddedPoints ==
  ASSUME ChunkShapes, NEW d \in Page, NEW ps \in SUBSET Passage
  PROVE  /\ AddPoints(d, ps) \in [Page -> [Passage -> Nat]]
         /\ \A e \in Page \ {d} : AddPoints(d, ps)[e] = points[e]
         /\ \A p \in Passage : points[d][p] > 0 => AddPoints(d, ps)[d][p] > 0
         /\ points[d] = [p \in Passage |-> 0] =>
              AddPoints(d, ps)[d] = [p \in Passage |-> IF p \in ps THEN 1 ELSE 0]
<1> DEFINE f == [p \in Passage |-> IF p \in ps /\ points[d][p] < 2 THEN points[d][p] + 1
                                   ELSE points[d][p]]
<1>1. points \in [Page -> [Passage -> Nat]] /\ points[d] \in [Passage -> Nat]
  BY DEF ChunkShapes
<1>2. AddPoints(d, ps) = [points EXCEPT ![d] = f]
  BY DEF AddPoints
<1>3. f \in [Passage -> Nat]
  BY <1>1
<1>4. \A p \in Passage : points[d][p] > 0 => f[p] > 0
  BY <1>1
<1>5. points[d] = [p \in Passage |-> 0] => f = [p \in Passage |-> IF p \in ps THEN 1 ELSE 0]
  BY <1>1
<1> QED BY <1>1, <1>2, <1>3, <1>4, <1>5

\* Add: the step preserves the invariant.
LEMMA AddKeeps ==
  ASSUME ChunkInv, NEW c \in Ingest, Add(c)
  PROVE  ChunkInv'
<1> DEFINE d == ingest[c].page
           kept == {p \in ingest[c].body : ~Duplicate(ingest[c], p)}
           left == {p \in ingest[c].body : ingest[c].index[p] \notin {NoPage, d}}
<1>1. /\ ingest[c].at = "add" /\ UNCHANGED <<body, known, synced, prints>>
      /\ ingest[c] \in Task /\ TaskOK(c) /\ d \in Page /\ points[d] \in [Passage -> Nat]
      /\ skipped' = [skipped EXCEPT ![d] = left] /\ DOMAIN points = Page
  BY AtWork DEF Add, ChunkInv, ChunkShapes
<1>2. /\ kept \subseteq Passage /\ left \subseteq Passage
      /\ kept = ingest[c].body \ left
  <2>1. \A p \in ingest[c].body : ingest[c].index[p] \in Page \cup {NoPage} /\ p \in Passage
    BY <1>1 DEF Task
  <2> QED BY <2>1, <1>1, ChunkAssumption DEF Duplicate
<1>3. /\ skipped' \in [Page -> SUBSET Passage] /\ skipped'[d] = left
      /\ \A e \in Page \ {d} : skipped'[e] = skipped[e]
  BY <1>1, <1>2 DEF ChunkInv, ChunkShapes
<1> HIDE DEF kept, left
<1>0. /\ ChunkShapes /\ d \in Page
      /\ kept \in SUBSET Passage /\ \A ps \in SUBSET kept : ps \in SUBSET Passage
  BY <1>1, <1>2 DEF ChunkInv
<1>7. \A ps \in SUBSET Passage :
         /\ AddPoints(d, ps) \in [Page -> [Passage -> Nat]]
         /\ \A e \in Page \ {d} : AddPoints(d, ps)[e] = points[e]
         /\ \A p \in Passage : points[d][p] > 0 => AddPoints(d, ps)[d][p] > 0
         /\ points[d] = [p \in Passage |-> 0] =>
              AddPoints(d, ps)[d] = [p \in Passage |-> IF p \in ps THEN 1 ELSE 0]
  BY <1>0, AddedPoints
<1>4. ASSUME NEW ps \in SUBSET Passage, points' = AddPoints(d, ps), poisoned \subseteq poisoned'
      PROVE  PrintsHeld'
  <2>1. \A e \in Page, p \in Passage : points[e][p] > 0 => points'[e][p] > 0
    BY <1>0, <1>4, <1>7
  <2> QED BY <2>1, <1>1, <1>4 DEF PrintsHeld, ChunkInv, ChunkShapes
<1>5. CASE /\ points' = AddPoints(d, kept)
           /\ ingest' = [ingest EXCEPT ![c].at = "save", ![c].fresh = kept]
           /\ Unharmed
  <2> DEFINE t == [ingest[c] EXCEPT !.at = "save", !.fresh = kept]
  <2>1. /\ t \in Task /\ ingest' = [ingest EXCEPT ![c] = t] /\ t.page = d /\ t.fresh = kept
        /\ t.at = "save" /\ t.body = ingest[c].body /\ t.clean = ingest[c].clean
    BY <1>1, <1>2, <1>5 DEF Task, IngestSteps, ChunkInv, ChunkShapes
  <2> HIDE DEF t
  <2>2. points' \in [Page -> [Passage -> Nat]] /\ \A e \in Page \ {d} : points'[e] = points[e]
    BY <1>0, <1>5, <1>7
  <2>3. ChunkShapes' /\ PrintsHeld'
    <3>1. ChunkShapes'
      <4>1. ingest' \in [Ingest -> Task]
        BY <1>0, <2>1 DEF ChunkShapes
      <4>2. UNCHANGED <<body, synced, prints, tainted, poisoned>>
        BY <1>1, <1>5 DEF Unharmed
      <4> QED BY <1>0, <1>3, <2>2, <4>1, <4>2 DEF ChunkShapes
    <3>2. PrintsHeld'
      BY <1>0, <1>4, <1>5 DEF Unharmed
    <3> QED BY <3>1, <3>2
  <2>4. TaskOK(c)'
    <3>1. ingest'[c] = t /\ Alone(c)' = Alone(c)
      BY <2>1 DEF Alone, ChunkInv, ChunkShapes
    <3>2. t.clean => points'[d] = [p \in Passage |-> IF p \in kept THEN 1 ELSE 0]
      <4>1. t.clean => points[d] = [p \in Passage |-> 0]
        BY <1>1, <2>1 DEF TaskOK
      <4> QED BY <4>1, <1>0, <1>5, <1>7
    <3>3. t.clean => points'[d] = Filled(t.body, left)
      BY <3>2, <2>1, <1>2 DEF Filled
    <3>4. t.clean => t.fresh \subseteq Pointed(d)'
      BY <3>2, <2>1, <1>2 DEF Pointed
    <3> QED BY <1>1, <1>3, <1>5, <2>1, <3>1, <3>3, <3>4 DEF TaskOK, Unharmed
  <2> QED BY <1>1, <1>3, <1>5, <2>1, <2>2, <2>3, <2>4, GoesOn DEF Unharmed
<1>6. CASE /\ Dirty(c)
           /\ \E done \in SUBSET kept : \E p \in kept \ done :
                /\ points' = AddPoints(d, done)
                /\ ingest' = [ingest EXCEPT ![c] =
                                [Soil(@) EXCEPT !.at = "save", !.fresh = done \cup {p}]]
  <2>1. PICK done \in SUBSET kept, p \in kept :
                /\ points' = AddPoints(d, done)
                /\ ingest' = [ingest EXCEPT ![c] =
                                [Soil(@) EXCEPT !.at = "save", !.fresh = done \cup {p}]]
    BY <1>6
  <2> DEFINE t == [Soil(ingest[c]) EXCEPT !.at = "save", !.fresh = done \cup {p}]
  <2>2. /\ t \in Task /\ ingest' = [ingest EXCEPT ![c] = t] /\ t.page = d
        /\ t.at = "save" /\ ~t.clean
    <3>1. done \cup {p} \in SUBSET Passage
      BY <1>0, <2>1
    <3>2. Soil(ingest[c]) \in Task /\ Soil(ingest[c]).page = d /\ ~Soil(ingest[c]).clean
      BY <1>1, SoilTask
    <3>3. t \in Task /\ t.page = d /\ t.at = "save" /\ ~t.clean
      BY <3>1, <3>2 DEF Task, IngestSteps
    <3> QED BY <3>3, <2>1
  <2> HIDE DEF t
  <2>3. /\ points' \in [Page -> [Passage -> Nat]] /\ \A e \in Page \ {d} : points'[e] = points[e]
        /\ done \in SUBSET Passage
    BY <1>0, <1>7, <2>1
  <2>4. ChunkShapes' /\ PrintsHeld'
    BY <1>1, <1>3, <1>4, <1>6, <2>1, <2>2, <2>3 DEF ChunkInv, ChunkShapes, Dirty
  <2>5. TaskOK(c)'
    BY <1>1, <1>6, <2>2, SoiledOK
  <2> QED BY <1>1, <1>3, <1>6, <2>2, <2>3, <2>4, <2>5, GoesOn
<1> QED BY <1>5, <1>6 DEF Add, kept

\* Save: the step preserves the invariant.
LEMMA SaveKeeps ==
  ASSUME ChunkInv, NEW c \in Ingest, SavePrints(c)
  PROVE  ChunkInv'
<1> DEFINE d == ingest[c].page
<1>1. /\ ingest[c].at = "save" /\ UNCHANGED <<body, synced, points, skipped>>
      /\ ingest[c] \in Task /\ TaskOK(c) /\ d \in Page
  BY AtWork DEF SavePrints
<1>2. CASE /\ prints' = prints \cup {<<p, d>> : p \in ingest[c].fresh}
           /\ ingest' = [ingest EXCEPT ![c].at = "mark"] /\ Unharmed
  <2> DEFINE t == [ingest[c] EXCEPT !.at = "mark"]
  <2>1. /\ t \in Task /\ ingest' = [ingest EXCEPT ![c] = t] /\ t.page = d
        /\ t.at = "mark" /\ t.body = ingest[c].body /\ t.clean = ingest[c].clean
    BY <1>1, <1>2 DEF Task, IngestSteps, ChunkInv, ChunkShapes
  <2> HIDE DEF t
  <2>2. ChunkShapes'
    <3>1. {<<p, d>> : p \in ingest[c].fresh} \subseteq Passage \X Page
      BY <1>1 DEF Task
    <3> QED BY <3>1, <1>1, <1>2, <2>1 DEF ChunkInv, ChunkShapes, Unharmed
  <2>3. PrintsHeld'
    <3>1. d \notin poisoned => ingest[c].fresh \subseteq Pointed(d)
      BY <1>1 DEF TaskOK
    <3>2. d \notin poisoned => \A p \in ingest[c].fresh : points[d][p] > 0
      BY <3>1 DEF Pointed
    <3> QED BY <3>2, <1>1, <1>2 DEF ChunkInv, PrintsHeld, Unharmed
  <2>4. TaskOK(c)'
    <3>1. ingest'[c] = t /\ Alone(c)' = Alone(c)
      BY <2>1 DEF Alone, ChunkInv, ChunkShapes
    <3> QED BY <1>1, <1>2, <2>1, <3>1 DEF TaskOK, Unharmed
  <2> QED BY <1>1, <1>2, <2>1, <2>2, <2>3, <2>4, GoesOn DEF Unharmed
<1>3. CASE /\ Dirty(c) /\ UNCHANGED prints
           /\ ingest' = [ingest EXCEPT ![c] = [Soil(@) EXCEPT !.at = "mark"]]
  <2> DEFINE t == [Soil(ingest[c]) EXCEPT !.at = "mark"]
  <2>1. /\ t \in Task /\ ingest' = [ingest EXCEPT ![c] = t] /\ t.page = d
        /\ t.at = "mark" /\ ~t.clean
    BY <1>1, <1>3, SoilTask DEF Task, IngestSteps
  <2> HIDE DEF t
  <2>2. ChunkShapes' /\ PrintsHeld'
    BY <1>1, <1>3, <2>1 DEF ChunkInv, ChunkShapes, PrintsHeld, Dirty
  <2>3. TaskOK(c)'
    BY <1>1, <1>3, <2>1, SoiledOK
  <2> QED BY <1>1, <1>3, <2>1, <2>2, <2>3, GoesOn
<1> QED BY <1>2, <1>3 DEF SavePrints

\* An ingest that ends leaves its page as the index should have it, or with a mark.
LEMMA EndKeeps ==
  ASSUME ChunkInv, NEW c \in Ingest, Mark(c) \/ Quit(c)
  PROVE  ChunkInv'
<1> DEFINE d == ingest[c].page
<1>1. /\ ingest[c].at # "rest" /\ UNCHANGED <<body, points, prints, skipped>>
      /\ ingest[c] \in Task /\ TaskOK(c) /\ d \in Page
      /\ ingest' = [ingest EXCEPT ![c] = Resting]
      /\ synced' \subseteq synced \cup {d} /\ poisoned \subseteq poisoned'
      /\ tainted' \subseteq tainted \cup {d} /\ tainted \ {d} \subseteq tainted'
  BY AtWork DEF Mark, Quit, Dirty
<1>2. d \in tainted' \/ tainted' = tainted \/ Alone(c)
  BY <1>1 DEF Mark, Quit, Dirty, TaskOK
<1>3. ChunkShapes' /\ PrintsHeld'
  <2>1. tainted' \subseteq poisoned'
    BY DEF Mark, Quit, Dirty, ChunkInv, ChunkShapes
  <2> QED BY <1>1, <2>1, RestingTask DEF ChunkInv, ChunkShapes, PrintsHeld
<1>4. /\ \A k \in Ingest \ {c} : TaskOK(k)'
      /\ \A e \in (synced' \ tainted') \cap (Page \ {d}) :
              ~Ingesting(e)' /\ body'[e] # {} =>
                points'[e] = [p \in Passage |-> IF p \in body'[e] \ skipped'[e] THEN 1 ELSE 0]
  BY <1>1, <1>2, RestingTask, OthersKeep
<1>5. TaskOK(c)'
  <2>1. ingest'[c] = Resting
    BY <1>1 DEF ChunkInv, ChunkShapes
  <2> QED BY <2>1, RestingTask DEF TaskOK
<1>6. d \notin tainted' /\ body[d] # {} =>
        points[d] = [p \in Passage |-> IF p \in body[d] \ skipped[d] THEN 1 ELSE 0]
  <2> SUFFICES ASSUME d \notin tainted', body[d] # {}
               PROVE  points[d] = [p \in Passage |-> IF p \in body[d] \ skipped[d] THEN 1 ELSE 0]
    OBVIOUS
  <2>1. Mark(c)
    BY DEF Quit, Dirty
  <2>2. ingest[c].clean
    BY <1>1, <2>1 DEF Mark, TaskOK
  <2> QED BY <1>1, <2>1, <2>2 DEF Mark, TaskOK, Filled
<1>7. IndexFaithful'
  <2> SUFFICES ASSUME NEW e \in synced' \ tainted', ~Ingesting(e)', body'[e] # {}
               PROVE  points'[e] = [p \in Passage |-> IF p \in body'[e] \ skipped'[e] THEN 1 ELSE 0]
    BY DEF IndexFaithful
  <2>1. e \in Page
    BY <1>3 DEF ChunkShapes
  <2> QED BY <2>1, <1>1, <1>4, <1>6
<1> QED BY <1>3, <1>4, <1>5, <1>7 DEF ChunkInv

\* For any pages, passages, ingests and failures, a page that is marked synced has the
\* passages of its text in Qdrant, and a fingerprint stands for a point, but for the
\* exceptions the properties name: ingestion/pipeline.py and ingestion/dedup.py.
THEOREM ChunksAreSound == ChunkSpec => []ChunksSound
<1>1. ChunkInit => ChunkInv
  BY ChunksInitially DEF ChunkInit
<1>2. ChunkInv /\ [ChunkNext]_chunkVars => ChunkInv'
  <2> SUFFICES ASSUME ChunkInv, [ChunkNext]_chunkVars PROVE ChunkInv'
    OBVIOUS
  <2>1. ASSUME NEW c \in Ingest, NEW d \in Page, NEW b \in SUBSET Passage, Store(c, d, b)
        PROVE  ChunkInv'
    BY <2>1, StoreKeeps
  <2>2. ASSUME NEW c \in Ingest,
               Load(c) \/ DropOld(c) \/ Add(c) \/ SavePrints(c) \/ Mark(c) \/ Quit(c)
        PROVE  ChunkInv'
    BY <2>2, LoadKeeps, DropKeeps, AddKeeps, SaveKeeps, EndKeeps
  <2>3. CASE UNCHANGED chunkVars
    BY <2>3 DEF chunkVars, ChunkInv, ChunkShapes, TaskOK, Alone, Pointed, IndexFaithful, PrintsHeld,
                Ingesting
  <2>4. CASE ChunkNext
    BY <2>1, <2>2, <2>4 DEF ChunkNext
  <2> QED BY <2>3, <2>4
<1>3. ChunkInv => ChunksSound
  BY DEF ChunkInv, ChunksSound, PrintsTruthful, PrintsHeld
<1> QED BY <1>1, <1>2, <1>3, PTL DEF ChunkSpec

-----------------------------------------------------------------------------
(***************************************************************************)
(* Searches. The points of an issue are numbered in the order of their     *)
(* writing, and what a search holds at each of its phases was so at some   *)
(* time since it began.                                                    *)
(***************************************************************************)

HitType == [issue : Issue, open : BOOLEAN, pushed : BOOLEAN]
SearchType ==
  [at : {"idle", "asked"}, ppr : BOOLEAN, activity : BOOLEAN, todo : SUBSET Channels,
   found : SUBSET (Issue \X Nat), looked : SUBSET SUBSET Issue, hits : SUBSET HitType,
   missed : BOOLEAN, crowded : BOOLEAN, visible : SUBSET Issue, hushed : SUBSET Issue]

SearchShapes ==
  /\ tracked \in [Issue -> [work : {"progress", "done"}, open : BOOLEAN]]
  /\ life \in [Issue -> {"active", "archived"}]
  /\ qpoint \in [Issue -> Point \cup {NoPoint}]
  /\ feed \in [Issue -> BOOLEAN] /\ mirror \in [Issue -> {"none", "active", "archived"}]
  /\ linked \in SUBSET Issue /\ entities \in SUBSET SUBSET Issue
  /\ syncing \in BOOLEAN /\ unheard \in BOOLEAN
  /\ search \in [Searcher -> SearchType] /\ lastId \in Nat

\* The points, their ids, and what their payloads say of the document.
PointsInOrder ==
  \A i \in Issue :
    /\ feed[i] => qpoint[i] = NoPoint
    /\ qpoint[i] # NoPoint =>
         /\ qpoint[i].id <= lastId
         /\ i \notin defaced => qpoint[i].status = tracked[i].work

\* An id found names a point that was open, and not archived, when it was found;
\* a new point has a new id.
FoundHolds(r) ==
  \A f \in r.found :
    /\ f[2] <= lastId
    /\ qpoint[f[1]] # NoPoint /\ qpoint[f[1]].id = f[2] => Open(f[1])
    /\ FreshnessFilter => f[1] \notin r.hushed

HitsHold(r) ==
  \A h \in r.hits : h.open /\ (FreshnessFilter /\ h.issue \in r.hushed => ~h.pushed)

\* The issues a search has to find, and must not find, are as they were.
Settled(r) ==
  /\ \A i \in r.visible : i \in Points /\ Open(i) /\ qpoint[i].status = "progress"
  /\ \A i \in r.hushed : i \in Points /\ qpoint[i].status = "archived"

WorkDone(r) ==
  r.activity /\ "metadata" \notin r.todo /\ ~r.missed /\ ~r.crowded =>
     \A i \in r.visible : \E h \in r.hits : h.issue = i

\* A search that is under way, or none.
SearchOK(r) ==
  /\ FoundHolds(r) /\ HitsHold(r) /\ Settled(r) /\ WorkDone(r)
  /\ syncing \/ unheard \/ r.looked \subseteq {linked}
  /\ r.ppr => r.looked = {}

SearchInv ==
  /\ SearchShapes /\ PointsInOrder /\ EntitiesCurrent
  /\ \A s \in Searcher : SearchOK(search[s])

\* A search at rest has found nothing.
LEMMA NoSearchOK == NoSearch \in SearchType /\ SearchOK(NoSearch) /\ SearchOK(NoSearch)'
BY DEF NoSearch, SearchType, Channels, SearchOK, FoundHolds, HitsHold, Settled, WorkDone

\* The invariant holds in the initial states.
LEMMA SearchInitially == SearchInit => SearchInv
<1> SUFFICES ASSUME SearchInit PROVE SearchInv
  OBVIOUS
<1>0. PICK ingested \in SUBSET Issue : SearchInitWith(ingested, [i \in Issue |-> MaxWrites])
  BY DEF SearchInit
<1> USE <1>0 DEF SearchInitWith
<1>1. SearchShapes
  <2>1. search \in [Searcher -> SearchType]
    BY NoSearchOK
  <2>2. qpoint \in [Issue -> Point \cup {NoPoint}]
    BY DEF Point
  <2> QED BY <2>1, <2>2 DEF SearchShapes
<1>2. PointsInOrder /\ EntitiesCurrent
  BY DEF PointsInOrder, EntitiesCurrent
<1>3. \A s \in Searcher : SearchOK(search[s])
  BY NoSearchOK
<1> QED BY <1>1, <1>2, <1>3 DEF SearchInv

\* A point that changes is one that no search is sure of any more.
LEMMA PointChanges ==
  ASSUME SearchInv, NEW i \in Issue, Unsettle(i) \/ (UNCHANGED search /\ qpoint[i] = NoPoint),
         \A j \in Issue \ {i} : qpoint'[j] = qpoint[j],
         qpoint'[i] \in Point \cup {NoPoint},
         qpoint'[i] # NoPoint =>
            \/ qpoint'[i].id > lastId
            \/ qpoint[i] # NoPoint /\ qpoint'[i].id = qpoint[i].id /\ qpoint'[i].open = qpoint[i].open,
         lastId' \in Nat, lastId' >= lastId,
         UNCHANGED graphVars
  PROVE  \A s \in Searcher : search'[s] \in SearchType /\ SearchOK(search[s])'
<1> SUFFICES ASSUME NEW s \in Searcher
             PROVE  search'[s] \in SearchType /\ SearchOK(search[s])'
  OBVIOUS
<1>1. search[s] \in SearchType /\ SearchOK(search[s]) /\ lastId \in Nat
  BY DEF SearchInv, SearchShapes
<1>2. /\ search'[s] \in SearchType
      /\ search'[s].found = search[s].found /\ search'[s].hits = search[s].hits
      /\ search'[s].looked = search[s].looked /\ search'[s].activity = search[s].activity
      /\ search'[s].todo = search[s].todo /\ search'[s].missed = search[s].missed
      /\ search'[s].crowded = search[s].crowded
      /\ search'[s].ppr = search[s].ppr
      /\ search'[s].visible \subseteq search[s].visible \ {i}
      /\ search'[s].hushed \subseteq search[s].hushed \ {i}
  <2>1. CASE Unsettle(i)
    <3> DEFINE x == [search[s] EXCEPT !.visible = @ \ {i}, !.hushed = @ \ {i}]
    <3>1. search'[s] = x
      BY <2>1 DEF Unsettle
    <3>2. /\ x \in SearchType
          /\ x.found = search[s].found /\ x.hits = search[s].hits
          /\ x.looked = search[s].looked /\ x.activity = search[s].activity
          /\ x.todo = search[s].todo /\ x.missed = search[s].missed
          /\ x.crowded = search[s].crowded
          /\ x.ppr = search[s].ppr
          /\ x.visible = search[s].visible \ {i} /\ x.hushed = search[s].hushed \ {i}
      BY <1>1 DEF SearchType
    <3> QED BY <3>1, <3>2
  <2>2. CASE UNCHANGED search /\ qpoint[i] = NoPoint
    BY <1>1, <2>2 DEF SearchOK, Settled, Points
  <2> QED BY <2>1, <2>2
<1>3. FoundHolds(search[s])'
  <2> SUFFICES ASSUME NEW f \in search[s].found
               PROVE  /\ f[2] <= lastId'
                      /\ qpoint'[f[1]] # NoPoint /\ qpoint'[f[1]].id = f[2] => qpoint'[f[1]].open
                      /\ FreshnessFilter => f[1] \notin search'[s].hushed
    BY <1>2 DEF FoundHolds, Open
  <2>1. f[1] \in Issue /\ f[2] \in Nat /\ f[2] <= lastId
        /\ (qpoint[f[1]] # NoPoint /\ qpoint[f[1]].id = f[2] => qpoint[f[1]].open)
        /\ (FreshnessFilter => f[1] \notin search[s].hushed)
    BY <1>1 DEF SearchType, SearchOK, FoundHolds, Open
  <2>2. CASE f[1] = i
    BY <1>1, <1>2, <2>1, <2>2 DEF Point
  <2>3. CASE f[1] # i
    BY <1>1, <1>2, <2>1, <2>3
  <2> QED BY <2>2, <2>3
<1>4. HitsHold(search[s])' /\ WorkDone(search[s])'
  BY <1>1, <1>2 DEF SearchOK, HitsHold, WorkDone
<1>5. Settled(search[s])'
  BY <1>1, <1>2 DEF SearchOK, Settled, Points, Open, SearchType
<1> QED BY <1>1, <1>2, <1>3, <1>4, <1>5 DEF SearchOK, graphVars

\* A search that reads, and a store that stands still but for the cache.
LEMMA SearchGoesOn ==
  ASSUME SearchInv, NEW s \in Searcher, NEW r \in SearchType,
         search' = [search EXCEPT ![s] = r], UNCHANGED <<kbVars, linked, syncing, unheard>>,
         entities' \in {entities, search[s].looked}, SearchOK(r)
  PROVE  SearchInv'
<1>1. \A k \in Searcher : search'[k] = IF k = s THEN r ELSE search[k]
  BY DEF SearchInv, SearchShapes
<1>2. entities' \in SUBSET SUBSET Issue /\ (syncing \/ unheard \/ entities' \subseteq {linked})
  <2>1. CASE entities' = entities
    BY <2>1 DEF SearchInv, SearchShapes, EntitiesCurrent
  <2>2. CASE entities' = search[s].looked
    BY <2>2 DEF SearchInv, SearchShapes, SearchType, SearchOK
  <2> QED BY <2>1, <2>2
<1>3. SearchShapes' /\ PointsInOrder' /\ EntitiesCurrent'
  BY <1>1, <1>2 DEF SearchInv, SearchShapes, PointsInOrder, EntitiesCurrent, kbVars
<1>4. \A k \in Searcher : SearchOK(search[k])'
  BY <1>1 DEF SearchInv, SearchOK, FoundHolds, HitsHold, Settled, WorkDone, Points, Open, kbVars
<1> QED BY <1>3, <1>4 DEF SearchInv

\* Unpoint: the step preserves the invariant.
LEMMA UnpointKeeps ==
  ASSUME SearchInv, NEW i \in Issue, NEW work \in {"progress", "done"}, NEW open \in BOOLEAN,
         Unpoint(i, work, open)
  PROVE  SearchInv'
<1>1. /\ tracked' = [tracked EXCEPT ![i] = [work |-> work, open |-> open]]
      /\ qpoint' = [qpoint EXCEPT ![i] = NoPoint]
      /\ feed' = [feed EXCEPT ![i] = TRUE]
      /\ defaced' = defaced \ {i}
      /\ Unsettle(i)
      /\ UNCHANGED <<life, mirror, lastId, graphVars>>
  BY DEF Unpoint
<1>2. /\ qpoint'[i] = NoPoint
      /\ \A j \in Issue \ {i} : /\ qpoint'[j] = qpoint[j]
                                /\ feed'[j] = feed[j] /\ tracked'[j] = tracked[j]
  BY <1>1 DEF SearchInv, SearchShapes
<1>3. lastId \in Nat
  BY DEF SearchInv, SearchShapes
<1>4. \A s \in Searcher : search'[s] \in SearchType /\ SearchOK(search[s])'
  <2>1. lastId' = lastId /\ lastId <= lastId
    BY <1>1, <1>3
  <2> QED BY <1>1, <1>2, <1>3, <2>1, PointChanges
<1>5. SearchShapes'
  <2>1. search' \in [Searcher -> SearchType]
    BY <1>1, <1>4 DEF Unsettle
  <2>2. tracked' \in [Issue -> [work : {"progress", "done"}, open : BOOLEAN]]
    BY <1>1 DEF SearchInv, SearchShapes
  <2> QED BY <1>1, <2>1, <2>2 DEF SearchInv, SearchShapes, graphVars
<1>6. PointsInOrder' /\ EntitiesCurrent'
  <2>1. \A j \in Issue \ {i} : j \notin defaced' => j \notin defaced
    BY <1>1
  <2>2. PointsInOrder'
    BY <1>1, <1>2, <2>1 DEF SearchInv, PointsInOrder
  <2> QED BY <1>1, <2>2 DEF SearchInv, EntitiesCurrent, graphVars
<1> QED BY <1>4, <1>5, <1>6 DEF SearchInv

\* AddPoint: the step preserves the invariant.
LEMMA AddPointKeeps ==
  ASSUME SearchInv, NEW i \in Issue, AddPoint(i)
  PROVE  SearchInv'
<1>x. PICK x : x = [id |-> NextId, status |-> tracked[i].work, open |-> tracked[i].open]
  OBVIOUS
<1>1. /\ feed[i] /\ feed' = [feed EXCEPT ![i] = FALSE]
      /\ \/ qpoint' = [qpoint EXCEPT ![i] = x] /\ lastId' = lastId + 1
         \/ UNCHANGED <<qpoint, lastId>>
      /\ UNCHANGED <<tracked, life, mirror, defaced, graphVars, search>>
  BY <1>x DEF AddPoint, NextId
<1>2. qpoint[i] = NoPoint /\ lastId \in Nat
  BY <1>1 DEF SearchInv, PointsInOrder, SearchShapes
<1>3. x \in Point /\ x.id = lastId + 1 /\ x.status = tracked[i].work
  <2>1. tracked[i] \in [work : {"progress", "done"}, open : BOOLEAN]
    BY DEF SearchInv, SearchShapes
  <2> QED BY <1>2, <1>x, <2>1 DEF NextId, Point
<1>4. /\ \A j \in Issue \ {i} : qpoint'[j] = qpoint[j] /\ feed'[j] = feed[j]
      /\ feed'[i] = FALSE
      /\ \/ qpoint'[i] = x /\ lastId' = lastId + 1
         \/ qpoint'[i] = NoPoint /\ lastId' = lastId
      /\ lastId' \in Nat /\ lastId' >= lastId
  BY <1>1, <1>2 DEF SearchInv, SearchShapes
<1>5. \A s \in Searcher : search'[s] \in SearchType /\ SearchOK(search[s])'
  <2>1. /\ qpoint'[i] \in Point \cup {NoPoint}
        /\ qpoint'[i] # NoPoint => qpoint'[i].id > lastId
    BY <1>2, <1>3, <1>4
  <2> QED BY <1>1, <1>2, <1>4, <2>1, PointChanges
<1>6. SearchShapes'
  BY <1>1, <1>3, <1>4 DEF SearchInv, SearchShapes, graphVars
<1>7. PointsInOrder' /\ EntitiesCurrent'
  <2>1. \A j \in Issue \ {i} : qpoint[j] # NoPoint => qpoint[j].id <= lastId'
    BY <1>2, <1>4 DEF SearchInv, SearchShapes, PointsInOrder, Point
  <2> QED BY <1>1, <1>2, <1>3, <1>4, <2>1
          DEF SearchInv, PointsInOrder, EntitiesCurrent, graphVars
<1> QED BY <1>5, <1>6, <1>7 DEF SearchInv

\* Mirror: the step preserves the invariant.
LEMMA MirrorKeeps ==
  ASSUME SearchInv, NEW i \in Issue, Mirror(i)
  PROVE  SearchInv'
<1>1. /\ mirror[i] # "none" /\ mirror' = [mirror EXCEPT ![i] = "none"]
      /\ UNCHANGED <<tracked, life, feed, lastId, graphVars>>
  BY DEF Mirror
<1>2. CASE UNCHANGED <<qpoint, defaced, search>>
  <2>1. SearchShapes' /\ PointsInOrder' /\ EntitiesCurrent'
    BY <1>1, <1>2 DEF SearchInv, SearchShapes, PointsInOrder, EntitiesCurrent, graphVars
  <2>2. \A s \in Searcher : SearchOK(search[s])'
    BY <1>1, <1>2 DEF SearchInv, SearchOK, FoundHolds, HitsHold, Settled, WorkDone, Points, Open,
       graphVars
  <2> QED BY <2>1, <2>2 DEF SearchInv
<1>3. CASE /\ qpoint[i] # NoPoint
           /\ qpoint' = [qpoint EXCEPT ![i].status = mirror[i]]
           /\ defaced' = defaced \cup {i}
           /\ Unsettle(i)
  <2>x. PICK x : x = [qpoint[i] EXCEPT !.status = mirror[i]]
    OBVIOUS
  <2>1. x \in Point /\ x.id = qpoint[i].id /\ x.open = qpoint[i].open
    <3>1. mirror[i] \in {"active", "archived"} /\ qpoint[i] \in Point
      BY <1>1, <1>3 DEF SearchInv, SearchShapes
    <3> QED BY <2>x, <3>1 DEF Point
  <2>2. \A j \in Issue : qpoint'[j] = IF j = i THEN x ELSE qpoint[j]
    BY <1>3, <2>x DEF SearchInv, SearchShapes
  <2>3. lastId \in Nat
    BY DEF SearchInv, SearchShapes
  <2>4. \A s \in Searcher : search'[s] \in SearchType /\ SearchOK(search[s])'
    BY <1>1, <1>3, <2>1, <2>2, <2>3, PointChanges
  <2>5. SearchShapes'
    <3>1. search' \in [Searcher -> SearchType]
      BY <1>3, <2>4 DEF Unsettle
    <3>2. qpoint' \in [Issue -> Point \cup {NoPoint}]
      BY <1>3, <2>1, <2>x DEF SearchInv, SearchShapes
    <3> QED BY <1>1, <3>1, <3>2 DEF SearchInv, SearchShapes, graphVars
  <2>6. PointsInOrder' /\ EntitiesCurrent'
    BY <1>1, <1>3, <2>1, <2>2 DEF SearchInv, PointsInOrder, EntitiesCurrent, graphVars
  <2> QED BY <2>4, <2>5, <2>6 DEF SearchInv
<1> QED BY <1>2, <1>3 DEF Mirror

\* Decide: the step preserves the invariant.
LEMMA DecideKeeps ==
  ASSUME SearchInv, NEW i \in Issue, NEW status \in {"active", "archived"}, Decide(i, status)
  PROVE  SearchInv'
<1>1. /\ life' = [life EXCEPT ![i] = status] /\ mirror' = [mirror EXCEPT ![i] = status]
      /\ UNCHANGED <<tracked, qpoint, feed, lastId, defaced, graphVars, search>>
  BY DEF Decide
<1>2. SearchShapes' /\ PointsInOrder' /\ EntitiesCurrent'
  BY <1>1 DEF SearchInv, SearchShapes, PointsInOrder, EntitiesCurrent, graphVars
<1>3. \A s \in Searcher : SearchOK(search[s])'
  BY <1>1 DEF SearchInv, SearchOK, FoundHolds, HitsHold, Settled, WorkDone, Points, Open, graphVars
<1> QED BY <1>2, <1>3 DEF SearchInv

\* The graph changes, or the end of a sync is announced.
LEMMA GraphKeeps ==
  ASSUME SearchInv, (\E i \in Issue, sync \in BOOLEAN : WriteGraph(i, sync)) \/ AnnounceSync
  PROVE  SearchInv'
<1>1. UNCHANGED <<kbVars, search>>
  BY DEF WriteGraph, AnnounceSync
<1>2. /\ linked' \in SUBSET Issue /\ entities' \in SUBSET SUBSET Issue
      /\ syncing' \in BOOLEAN /\ unheard' \in BOOLEAN
      /\ syncing' \/ unheard' \/ entities' \subseteq {linked'}
      /\ \A s \in Searcher : syncing' \/ unheard' \/ search[s].looked \subseteq {linked'}
  <2>1. CASE AnnounceSync
    BY <2>1 DEF AnnounceSync, NoEntities, SearchInv, SearchShapes
  <2>2. CASE \E i \in Issue, sync \in BOOLEAN : WriteGraph(i, sync)
    <3>1. PICK i \in Issue, sync \in BOOLEAN : WriteGraph(i, sync)
      BY <2>2
    <3>2. syncing' \/ unheard' \/ (linked' = linked /\ syncing' = syncing /\ unheard' = unheard)
      <4>1. i \in linked => linked \cup {i} = linked
        OBVIOUS
      <4>2. /\ linked' = linked \cup {i} /\ syncing' = (syncing \/ sync)
            /\ unheard' = (unheard \/ (~sync /\ i \notin linked))
        BY <3>1 DEF WriteGraph
      <4>3. syncing \in BOOLEAN /\ unheard \in BOOLEAN
        BY DEF SearchInv, SearchShapes
      <4>4. CASE sync = TRUE
        BY <4>2, <4>4
      <4>5. CASE sync = FALSE
        BY <4>1, <4>2, <4>3, <4>5
      <4> QED BY <4>4, <4>5
    <3>3. \A s \in Searcher : syncing \/ unheard \/ search[s].looked \subseteq {linked}
      BY DEF SearchInv, SearchOK
    <3>4. /\ linked' \in SUBSET Issue /\ entities' = entities
          /\ syncing' \in BOOLEAN /\ unheard' \in BOOLEAN
      BY <3>1 DEF WriteGraph, SearchInv, SearchShapes
    <3> QED BY <3>2, <3>3, <3>4 DEF SearchInv, SearchShapes, EntitiesCurrent
  <2> QED BY <2>1, <2>2
<1>3. SearchShapes' /\ PointsInOrder'
  BY <1>1, <1>2 DEF SearchInv, SearchShapes, PointsInOrder, kbVars
<1>4. \A s \in Searcher : SearchOK(search[s])'
  BY <1>1, <1>2 DEF SearchInv, SearchOK, FoundHolds, HitsHold, Settled, WorkDone, Points, Open,
     kbVars
<1> QED BY <1>2, <1>3, <1>4 DEF SearchInv, EntitiesCurrent

\* Ask: the step preserves the invariant.
LEMMA AskKeeps ==
  ASSUME SearchInv, NEW s \in Searcher, NEW fast \in BOOLEAN, NEW ppr \in BOOLEAN,
         NEW activity \in BOOLEAN, NEW person \in BOOLEAN, Ask(s, fast, ppr, activity, person)
  PROVE  SearchInv'
<1>r. PICK r, shown, hidden : /\ shown = {i \in Points \ defaced : qpoint[i].open /\ tracked[i].work = "progress"}
                /\ hidden = {i \in Points : life[i] = "archived" /\ qpoint[i].status = "archived"}
                /\ r = [NoSearch EXCEPT
         !.at = "asked", !.ppr = ppr, !.activity = activity /\ ~person,
         !.todo = IF fast THEN {"dense", "metadata"} ELSE Channels,
         !.visible = shown, !.hushed = hidden]
  OBVIOUS
<1>1. search' = [search EXCEPT ![s] = r] /\ UNCHANGED <<kbVars, graphVars>>
  BY <1>r DEF Ask
<1>2. /\ r \in SearchType /\ r.found = {} /\ r.hits = {} /\ r.looked = {} /\ r.visible = shown
      /\ r.hushed = hidden /\ "metadata" \in r.todo
  BY <1>r DEF NoSearch, SearchType, Channels, Points
<1>3. SearchOK(r)
  <2>1. \A i \in shown : i \in Points /\ Open(i) /\ qpoint[i].status = "progress"
    BY <1>r DEF SearchInv, PointsInOrder, Points, Open
  <2>2. \A i \in hidden : i \in Points /\ qpoint[i].status = "archived"
    BY <1>r
  <2> QED BY <1>2, <2>1, <2>2 DEF SearchOK, FoundHolds, HitsHold, Settled, WorkDone
<1> QED BY <1>1, <1>2, <1>3, SearchGoesOn DEF graphVars

\* A channel has ended, with hits that are open and not hushed; the metadata channel has
\* found what it had to, or was crowded.
LEMMA ChannelKeeps ==
  ASSUME SearchInv, NEW s \in Searcher, NEW channel \in Channels, NEW issues \in SUBSET Issue,
         NEW crowded \in BOOLEAN,
         search' = [search EXCEPT ![s] =
           [Ended(s, channel) EXCEPT !.hits = @ \cup {Hit(s, channel, i) : i \in issues},
                                     !.crowded = crowded]],
         UNCHANGED <<kbVars, linked, syncing, unheard>>,
         entities' = entities \/ entities' = search[s].looked,
         \A i \in issues : /\ Open(i)
                           /\ FreshnessFilter /\ i \in search[s].hushed => ~Pushed(s, channel),
         channel # "metadata" => crowded = search[s].crowded,
         channel = "metadata" /\ search[s].activity =>
           \/ crowded
           \/ \A i \in Points : qpoint[i].status = "progress" /\ Open(i) => i \in issues
  PROVE  SearchInv'
<1>r. PICK r, new : /\ new = {Hit(s, channel, i) : i \in issues}
                    /\ r = [Ended(s, channel) EXCEPT !.hits = @ \cup new, !.crowded = crowded]
  OBVIOUS
<1>1. search[s] \in SearchType /\ SearchOK(search[s])
  BY DEF SearchInv, SearchShapes
<1>2. search' = [search EXCEPT ![s] = r]
  BY <1>r DEF SearchInv, SearchShapes
<1>3. \A h \in new : \E i \in issues : h = Hit(s, channel, i)
  BY <1>r
<1>4. \A i \in issues : Hit(s, channel, i) \in HitType /\ Hit(s, channel, i).issue = i
         /\ Hit(s, channel, i).open /\ Hit(s, channel, i).pushed = Pushed(s, channel)
  BY DEF Hit, HitType, Pushed
<1>5. /\ r \in SearchType /\ r.found \subseteq search[s].found
      /\ r.looked \subseteq search[s].looked /\ r.ppr = search[s].ppr
      /\ r.hits = search[s].hits \cup new
      /\ r.todo = search[s].todo \ {channel} /\ r.activity = search[s].activity
      /\ r.missed = search[s].missed /\ r.crowded = crowded
      /\ r.visible = search[s].visible /\ r.hushed = search[s].hushed
  <2>1. new \in SUBSET HitType
    BY <1>3, <1>4
  <2> QED BY <1>1, <1>r, <2>1 DEF SearchType, Ended
<1>6. HitsHold(r)
  BY <1>1, <1>3, <1>4, <1>5 DEF SearchOK, HitsHold
<1>7. WorkDone(r)
  <2>1. CASE channel # "metadata"
    BY <1>1, <1>5, <2>1 DEF SearchOK, WorkDone
  <2>2. CASE channel = "metadata"
    <3> SUFFICES ASSUME NEW i \in r.visible, r.activity, ~r.crowded
                 PROVE  \E h \in r.hits : h.issue = i
      BY DEF WorkDone
    <3>1. i \in issues
      BY <1>1, <1>5, <2>2 DEF SearchOK, Settled
    <3>2. Hit(s, channel, i) \in new
      BY <1>r, <3>1
    <3> QED BY <1>4, <1>5, <3>1, <3>2
  <2> QED BY <2>1, <2>2
<1>8. SearchOK(r)
  <2>1. FoundHolds(r) /\ Settled(r)
    BY <1>1, <1>5 DEF SearchOK, FoundHolds, Settled
  <2>2. (syncing \/ unheard \/ r.looked \subseteq {linked}) /\ (r.ppr => r.looked = {})
    BY <1>1, <1>5 DEF SearchOK
  <2> QED BY <1>6, <1>7, <2>1, <2>2 DEF SearchOK
<1> QED BY <1>2, <1>5, <1>8, SearchGoesOn

\* The same for a channel other than metadata.
LEMMA YieldKeeps ==
  ASSUME SearchInv, NEW s \in Searcher, NEW channel \in Channels, NEW issues \in SUBSET Issue,
         channel # "metadata",
         Yields(s, channel, issues), UNCHANGED <<kbVars, linked, syncing, unheard>>,
         entities' = entities \/ entities' = search[s].looked,
         \A i \in issues : /\ Open(i)
                           /\ FreshnessFilter /\ i \in search[s].hushed => ~Pushed(s, channel)
  PROVE  SearchInv'
<1>1. search[s] \in SearchType
  BY DEF SearchInv, SearchShapes
<1>2. PICK crowded \in BOOLEAN : crowded = search[s].crowded
  BY <1>1 DEF SearchType
<1>3. PICK new : new = {Hit(s, channel, i) : i \in issues}
  OBVIOUS
<1>4. [Ended(s, channel) EXCEPT !.hits = @ \cup new]
        = [Ended(s, channel) EXCEPT !.hits = @ \cup new, !.crowded = crowded]
  BY <1>1, <1>2 DEF Ended, SearchType
<1>5. search' = [search EXCEPT ![s] =
           [Ended(s, channel) EXCEPT !.hits = @ \cup {Hit(s, channel, i) : i \in issues},
                                     !.crowded = crowded]]
  BY <1>3, <1>4 DEF Yields
<1> QED BY <1>2, <1>5, ChannelKeeps

\* Dense: the step preserves the invariant.
LEMMA DenseKeeps ==
  ASSUME SearchInv, NEW s \in Searcher, DenseRetrieve(s) \/ DenseAtOnce(s)
  PROVE  SearchInv'
<1>1. SearchOK(search[s]) /\ UNCHANGED <<kbVars, graphVars>>
  BY DEF SearchInv, DenseRetrieve, DenseAtOnce
<1>2. PICK issues \in SUBSET Points :
        /\ Yields(s, "dense", issues)
        /\ \A i \in issues : /\ Open(i)
                             /\ FreshnessFilter => i \notin search[s].hushed
  <2>1. CASE DenseRetrieve(s)
    <3> DEFINE issues == {i \in Points : <<i, qpoint[i].id>> \in search[s].found}
    <3>1. Yields(s, "dense", issues)
      BY <2>1 DEF DenseRetrieve
    <3>2. ASSUME NEW i \in issues PROVE Open(i) /\ (FreshnessFilter => i \notin search[s].hushed)
      <4>1. <<i, qpoint[i].id>> \in search[s].found /\ qpoint[i] # NoPoint
        BY DEF Points
      <4> QED BY <1>1, <4>1 DEF SearchOK, FoundHolds
    <3> QED BY <3>1, <3>2
  <2>2. CASE DenseAtOnce(s)
    <3>1. PICK issues \in SUBSET {i \in Points : Combined(s, i)} : Yields(s, "dense", issues)
      BY <2>2 DEF DenseAtOnce
    <3>2. ASSUME NEW i \in issues PROVE Open(i) /\ (FreshnessFilter => i \notin search[s].hushed)
      BY <1>1, <3>1 DEF Combined, SearchOK, Settled
    <3> QED BY <3>1, <3>2
  <2> QED BY <2>1, <2>2
<1>3. issues \in SUBSET Issue /\ "dense" \in Channels
  BY <1>2 DEF Points, Channels
<1> QED BY <1>1, <1>2, <1>3, YieldKeeps DEF graphVars

\* Scroll: the step preserves the invariant.
LEMMA ScrollKeeps ==
  ASSUME SearchInv, NEW s \in Searcher, Exact(s) \/ Metadata(s)
  PROVE  SearchInv'
<1>1. UNCHANGED <<kbVars, graphVars>>
  BY DEF Exact, Metadata
<1>2. CASE Exact(s)
  <2>1. PICK issues \in SUBSET Points : Yields(s, "exact", PostFiltered(issues))
    BY <1>2 DEF Exact
  <2>2. /\ PostFiltered(issues) \in SUBSET Issue /\ "exact" \in Channels
        /\ \A i \in PostFiltered(issues) : Open(i)
        /\ ~Pushed(s, "exact")
    BY <2>1 DEF PostFiltered, Points, Channels, Pushed
  <2> QED BY <1>1, <2>1, <2>2, YieldKeeps DEF graphVars
<1>3. CASE Metadata(s)
  <2>1. PICK matched \in SUBSET Points,
             scrolled \in IF search[s].activity THEN Cut(InProgress) ELSE {{}} :
          \E kept \in Cut(PostFiltered(matched \cup scrolled)) :
            search' = [search EXCEPT ![s] = [Ended(s, "metadata") EXCEPT
                !.hits = @ \cup {Hit(s, "metadata", i) : i \in kept},
                !.crowded = Cardinality(InProgress) > RecallLimit
                              \/ Cardinality(PostFiltered(matched \cup scrolled)) > RecallLimit]]
    BY <1>3 DEF Metadata
  <2>2. PICK kept \in Cut(PostFiltered(matched \cup scrolled)) :
            search' = [search EXCEPT ![s] = [Ended(s, "metadata") EXCEPT
                !.hits = @ \cup {Hit(s, "metadata", i) : i \in kept},
                !.crowded = Cardinality(InProgress) > RecallLimit
                              \/ Cardinality(PostFiltered(matched \cup scrolled)) > RecallLimit]]
    BY <2>1
  <2>3. PICK crowded \in BOOLEAN :
          crowded = (Cardinality(InProgress) > RecallLimit
                      \/ Cardinality(PostFiltered(matched \cup scrolled)) > RecallLimit)
    OBVIOUS
  <2>4. search' = [search EXCEPT ![s] = [Ended(s, "metadata") EXCEPT
                !.hits = @ \cup {Hit(s, "metadata", i) : i \in kept}, !.crowded = crowded]]
    BY <2>2, <2>3
  <2>5. /\ scrolled \subseteq Points /\ kept \subseteq PostFiltered(matched \cup scrolled)
        /\ ~crowded => kept = PostFiltered(matched \cup scrolled)
        /\ ~crowded /\ search[s].activity => scrolled = InProgress
    BY <2>1, <2>2, <2>3 DEF Cut, InProgress
  <2>6. /\ kept \in SUBSET Issue /\ "metadata" \in Channels
        /\ \A i \in kept : Open(i)
        /\ ~Pushed(s, "metadata")
        /\ search[s].activity => crowded \/
             \A i \in Points : qpoint[i].status = "progress" /\ Open(i) => i \in kept
    BY <2>5 DEF PostFiltered, Points, Channels, Pushed, InProgress
  <2> QED BY <1>1, <2>4, <2>6, ChannelKeeps DEF graphVars
<1> QED BY <1>2, <1>3

\* GraphChannel: the step preserves the invariant.
LEMMA GraphChannelKeeps ==
  ASSUME SearchInv, NEW s \in Searcher, GraphRead(s) \/ GraphRank(s)
  PROVE  SearchInv'
<1>1. CASE GraphRead(s)
  <2>1. PICK issues \in SUBSET (Points \cap linked) : Yields(s, "graph", PostFiltered(issues))
    BY <1>1 DEF GraphRead
  <2>2. /\ search[s].looked # {} /\ Ready(s, "graph") /\ entities' = search[s].looked
        /\ UNCHANGED <<kbVars, linked, syncing, unheard>>
    BY <1>1 DEF GraphRead
  <2>3. /\ PostFiltered(issues) \in SUBSET Issue /\ "graph" \in Channels
        /\ \A i \in PostFiltered(issues) : Open(i)
    BY <2>1 DEF PostFiltered, Points, Channels
  <2>4. ~search[s].ppr
    BY <2>2 DEF SearchInv, SearchOK
  <2> QED BY <2>1, <2>2, <2>3, <2>4, YieldKeeps DEF Pushed
<1>2. CASE GraphRank(s)
  <2>1. PICK issues \in SUBSET {i \in Points \cap linked : Combined(s, i)} :
          Yields(s, "graph", issues)
    BY <1>2 DEF GraphRank
  <2>2. UNCHANGED <<kbVars, graphVars>> /\ SearchOK(search[s])
    BY <1>2 DEF GraphRank, SearchInv
  <2>3. /\ issues \in SUBSET Issue /\ "graph" \in Channels
        /\ \A i \in issues : Open(i) /\ (FreshnessFilter => i \notin search[s].hushed)
    BY <2>1, <2>2 DEF Points, Channels, Combined, SearchOK, Settled
  <2> QED BY <2>1, <2>2, <2>3, YieldKeeps DEF graphVars
<1> QED BY <1>1, <1>2

\* DenseIds: the step preserves the invariant.
LEMMA DenseIdsKeeps ==
  ASSUME SearchInv, NEW s \in Searcher, DenseIds(s)
  PROVE  SearchInv'
<1>1. PICK issues \in SUBSET {i \in Points : Combined(s, i)} :
        search' = [search EXCEPT ![s].found = {<<i, qpoint[i].id>> : i \in issues}]
  BY DEF DenseIds
<1>r. PICK r, new : /\ new = {<<i, qpoint[i].id>> : i \in issues}
                    /\ r = [search[s] EXCEPT !.found = new]
  OBVIOUS
<1>2. search[s] \in SearchType /\ SearchOK(search[s]) /\ UNCHANGED <<kbVars, graphVars>>
  BY DEF SearchInv, SearchShapes, DenseIds
<1>3. search' = [search EXCEPT ![s] = r]
  BY <1>1, <1>r DEF SearchInv, SearchShapes
<1>4. \A i \in issues : /\ i \in Issue /\ qpoint[i].id \in Nat /\ qpoint[i].id <= lastId
                        /\ Open(i) /\ (FreshnessFilter => i \notin search[s].hushed)
  BY <1>1, <1>2 DEF Points, Combined, SearchOK, Settled, SearchInv, SearchShapes, PointsInOrder, Point
<1>5. new \in SUBSET (Issue \X Nat)
  BY <1>r, <1>4
<1>6. /\ r \in SearchType /\ r.found = new /\ r.looked = search[s].looked /\ r.ppr = search[s].ppr
      /\ r.hits = search[s].hits
      /\ r.todo = search[s].todo /\ r.activity = search[s].activity
      /\ r.missed = search[s].missed /\ r.crowded = search[s].crowded
      /\ r.visible = search[s].visible /\ r.hushed = search[s].hushed
  BY <1>2, <1>5, <1>r DEF SearchType
<1>7. FoundHolds(r)
  <2> SUFFICES ASSUME NEW f \in new
               PROVE  /\ f[2] <= lastId
                      /\ qpoint[f[1]] # NoPoint /\ qpoint[f[1]].id = f[2] => Open(f[1])
                      /\ FreshnessFilter => f[1] \notin r.hushed
    BY <1>6 DEF FoundHolds
  <2>1. PICK i \in issues : f = <<i, qpoint[i].id>>
    BY <1>r
  <2> QED BY <1>4, <1>6, <2>1
<1>8. SearchOK(r)
  BY <1>2, <1>6, <1>7 DEF SearchOK, HitsHold, Settled, WorkDone
<1> QED BY <1>2, <1>3, <1>6, <1>8, SearchGoesOn DEF graphVars

\* LookUp: the step preserves the invariant.
LEMMA LookUpKeeps ==
  ASSUME SearchInv, NEW s \in Searcher, LookUp(s)
  PROVE  SearchInv'
<1>r. PICK r, new : /\ new = IF entities = {} THEN {linked} ELSE entities
                    /\ r = [search[s] EXCEPT !.looked = new]
  OBVIOUS
<1>1. search[s] \in SearchType /\ SearchOK(search[s]) /\ UNCHANGED <<kbVars, graphVars>>
      /\ ~search[s].ppr
  BY DEF SearchInv, SearchShapes, LookUp
<1>2. search' = [search EXCEPT ![s] = r]
  BY <1>r DEF LookUp, SearchInv, SearchShapes
<1>3. new \in SUBSET SUBSET Issue /\ (syncing \/ unheard \/ new \subseteq {linked})
  BY <1>r DEF SearchInv, SearchShapes, EntitiesCurrent
<1>4. /\ r \in SearchType /\ r.found = search[s].found /\ r.looked = new /\ r.ppr = search[s].ppr
      /\ r.hits = search[s].hits
      /\ r.todo = search[s].todo /\ r.activity = search[s].activity
      /\ r.missed = search[s].missed /\ r.crowded = search[s].crowded
      /\ r.visible = search[s].visible /\ r.hushed = search[s].hushed
  BY <1>1, <1>3, <1>r DEF SearchType
<1>5. SearchOK(r)
  BY <1>1, <1>3, <1>4 DEF SearchOK, FoundHolds, HitsHold, Settled, WorkDone
<1> QED BY <1>1, <1>2, <1>4, <1>5, SearchGoesOn DEF graphVars

\* ChannelFails: the step preserves the invariant.
LEMMA ChannelFailsKeeps ==
  ASSUME SearchInv, NEW s \in Searcher, NEW channel \in Channels, ChannelFails(s, channel)
  PROVE  SearchInv'
<1>r. PICK r : r = [Ended(s, channel) EXCEPT !.missed = @ \/ channel = "metadata"]
  OBVIOUS
<1>1. search[s] \in SearchType /\ SearchOK(search[s]) /\ UNCHANGED <<kbVars, graphVars>>
  BY DEF SearchInv, SearchShapes, ChannelFails
<1>2. search' = [search EXCEPT ![s] = r]
  BY <1>r DEF ChannelFails, SearchInv, SearchShapes
<1>3. /\ r \in SearchType /\ r.found \subseteq search[s].found
      /\ r.looked \subseteq search[s].looked /\ r.ppr = search[s].ppr
      /\ r.hits = search[s].hits /\ r.crowded = search[s].crowded
      /\ r.todo = search[s].todo \ {channel} /\ r.activity = search[s].activity
      /\ r.visible = search[s].visible /\ r.hushed = search[s].hushed
      /\ r.missed = (search[s].missed \/ channel = "metadata")
  BY <1>1, <1>r DEF SearchType, Ended
<1>4. WorkDone(r)
  BY <1>1, <1>3 DEF SearchOK, WorkDone
<1>5. FoundHolds(r) /\ HitsHold(r) /\ Settled(r)
  BY <1>1, <1>3 DEF SearchOK, FoundHolds, HitsHold, Settled
<1>6. (syncing \/ unheard \/ r.looked \subseteq {linked}) /\ (r.ppr => r.looked = {})
  BY <1>1, <1>3 DEF SearchOK
<1>7. SearchOK(r)
  BY <1>4, <1>5, <1>6 DEF SearchOK
<1> QED BY <1>1, <1>2, <1>3, <1>7, SearchGoesOn DEF graphVars

\* Finishes: the step preserves the invariant.
LEMMA FinishesKeeps ==
  ASSUME SearchInv, NEW s \in Searcher, Finishes(s)
  PROVE  SearchInv'
BY NoSearchOK, SearchGoesOn DEF Finishes, graphVars

\* A step that changes nothing of the search preserves its invariant.
LEMMA SearchStays == SearchInv /\ UNCHANGED searchVars => SearchInv'
BY DEF SearchInv, SearchShapes, PointsInOrder, EntitiesCurrent, SearchOK, FoundHolds, HitsHold,
       Settled, WorkDone, Points, Open, searchVars

\* What a search answers with is open to the user, is not archived where the store
\* filters, misses no work in progress that stood in the index, and rests on the
\* entities of the graph.
THEOREM SearchesAreHonest == SearchSpec => []SearchHonest
<1>1. SearchInv /\ [SearchNext]_searchVars => SearchInv'
  <2> SUFFICES ASSUME SearchInv, SearchNext PROVE SearchInv'
    BY SearchStays
  <2>1. ASSUME NEW s \in Searcher, SearchStep(s) PROVE SearchInv'
    <3>1. ASSUME NEW fast \in BOOLEAN, NEW ppr \in BOOLEAN, NEW activity \in BOOLEAN,
                 NEW person \in BOOLEAN, Ask(s, fast, ppr, activity, person)
          PROVE  SearchInv'
      BY <3>1, AskKeeps
    <3>2. ASSUME DenseIds(s) \/ DenseRetrieve(s) \/ DenseAtOnce(s) \/ Exact(s) \/ Metadata(s)
                 \/ LookUp(s) \/ GraphRead(s) \/ GraphRank(s) \/ Finishes(s)
          PROVE  SearchInv'
      BY <3>2, DenseIdsKeeps, DenseKeeps, ScrollKeeps, LookUpKeeps, GraphChannelKeeps, FinishesKeeps
    <3>3. ASSUME NEW channel \in Channels, ChannelFails(s, channel) PROVE SearchInv'
      BY <3>3, ChannelFailsKeeps
    <3> QED BY <2>1, <3>1, <3>2, <3>3 DEF SearchStep
  <2>2. ASSUME NEW i \in Issue,
               \/ \E work \in {"progress", "done"}, open \in BOOLEAN : Unpoint(i, work, open)
               \/ \E status \in {"active", "archived"} : Decide(i, status)
               \/ AddPoint(i) \/ Mirror(i)
        PROVE  SearchInv'
    BY <2>2, UnpointKeeps, DecideKeeps, AddPointKeeps, MirrorKeeps
  <2>3. ASSUME (\E i \in Issue, sync \in BOOLEAN : WriteGraph(i, sync)) \/ AnnounceSync
        PROVE  SearchInv'
    BY <2>3, GraphKeeps
  <2> QED BY <2>1, <2>2, <2>3 DEF SearchNext
<1>2. SearchInv => SearchHonest
  <2> SUFFICES ASSUME SearchInv PROVE SearchHonest
    OBVIOUS
  <2>1. OnlyOpenFound /\ ArchivedHidden
    BY DEF SearchInv, SearchOK, HitsHold, OnlyOpenFound, ArchivedHidden
  <2>2. WorkFound
    BY DEF SearchInv, SearchOK, WorkDone, WorkFound
  <2> QED BY <2>1, <2>2 DEF SearchInv, SearchHonest
<1> QED BY <1>1, <1>2, SearchInitially, PTL DEF SearchSpec

-----------------------------------------------------------------------------
(***************************************************************************)
(* Proof that the callers of the export service are told the truth, for    *)
(* any exports, scopes, callers, failures and restarts.  The invariant     *)
(* says, for each step of a build, how far its row, its archive and its    *)
(* token have come.                                                        *)
(***************************************************************************)

BuildSteps == {"rest", "start", "write", "mint", "result", "ready"}

\* A row r, the step b of its build, its archive a, its token t and the downloads n.
Sound(r, b, a, t, n) ==
  /\ r = [status |-> r.status, scope |-> r.scope, token |-> r.token, old |-> r.old]
  /\ r.status \in {"none", "pending", "running", "ready", "failed"}
  /\ b \in BuildSteps
  /\ n \in {0, 1}
  /\ t \in {"none", "live", "spent"}
  /\ b = "start" => r.status = "pending"
  /\ b \in {"write", "mint", "result", "ready"} => r.status = "running"
  /\ b \in {"mint", "result", "ready"} => a = "whole"
  /\ b \in {"start", "write", "mint"} => t = "none"
  /\ b \in {"result", "ready"} => t # "none"
  /\ b = "ready" => r.token
  /\ r.status = "none" => t = "none" /\ b = "rest"
  /\ r.status = "ready" => b = "rest" /\ r.token /\ a \in {"whole", "swept"} /\ t # "none"
  /\ t # "spent" => n = 0

SoundAt(j) == Sound(job[j], build[j], archive[j], ticket[j], served[j])

ScopesApart ==
  \A i, j \in Export :
     i # j /\ build[i] # "rest" /\ build[j] # "rest" => job[i].scope # job[j].scope

ExportInv ==
  /\ DOMAIN job = Export /\ DOMAIN build = Export /\ DOMAIN archive = Export
  /\ DOMAIN ticket = Export /\ DOMAIN served = Export
  /\ \A j \in Export : SoundAt(j)
  /\ ScopesApart

\* The invariant holds in the initial states.
LEMMA ExportInitially == ExportInit => ExportInv
<1>1. Sound(NoJob, "rest", "none", "none", 0)
  BY DEF Sound, NoJob, BuildSteps
<1> QED BY <1>1 DEF ExportInit, ExportInitWith, ExportInv, SoundAt, ScopesApart

\* The invariant of the exports gives what the run checks.
LEMMA Honest == ExportInv => ExportsHonest
<1> SUFFICES ASSUME ExportInv PROVE ExportsHonest
  OBVIOUS
<1>1. \A j \in Export : build[j] # "rest" => Active(j)
  BY DEF ExportInv, SoundAt, Sound, BuildSteps, Active
<1>2. ReadyServes
  BY DEF ExportInv, SoundAt, Sound, ReadyServes
<1> QED BY <1>1, <1>2 DEF ExportInv, ScopesApart, ExportsHonest, OneBuildPerScope

\* A step about one export that leaves its row in its scope, and does not begin
\* a build, has to leave it sound.
LEMMA OneExport ==
  ASSUME ExportInv, NEW j \in Export,
         /\ DOMAIN job' = Export /\ DOMAIN build' = Export /\ DOMAIN archive' = Export
         /\ DOMAIN ticket' = Export /\ DOMAIN served' = Export,
         \A i \in Export \ {j} :
            /\ job'[i] = job[i] /\ build'[i] = build[i] /\ archive'[i] = archive[i]
            /\ ticket'[i] = ticket[i] /\ served'[i] = served[i],
         SoundAt(j)',
         job'[j].scope = job[j].scope, build[j] = "rest" => build'[j] = "rest"
  PROVE  ExportInv'
<1>1. \A i \in Export : SoundAt(i)'
  <2> SUFFICES ASSUME NEW i \in Export \ {j} PROVE SoundAt(i)'
    OBVIOUS
  <2> QED BY DEF ExportInv, SoundAt
<1>2. ScopesApart'
  BY DEF ExportInv, ScopesApart
<1> QED BY <1>1, <1>2 DEF ExportInv

\* Build: the step preserves the invariant.
LEMMA BuildKeeps ==
  ASSUME ExportInv, NEW j \in Export,
         Run(j) \/ Write(j) \/ Mint(j) \/ SetResult(j) \/ SetReady(j) \/ BuildFails(j)
  PROVE  ExportInv'
<1>1. PICK r, b, a, t, n : r = job[j] /\ b = build[j] /\ a = archive[j] /\ t = ticket[j]
                           /\ n = served[j]
  OBVIOUS
<1>2. Sound(r, b, a, t, n)
  BY <1>1 DEF ExportInv, SoundAt
<1>3. /\ DOMAIN job = Export /\ DOMAIN build = Export /\ DOMAIN archive = Export
      /\ DOMAIN ticket = Export /\ DOMAIN served = Export
  BY DEF ExportInv
<1> DEFINE Becomes(r2, b2, a2, t2) ==
             /\ \A i \in Export \ {j} :
                   /\ job'[i] = job[i] /\ build'[i] = build[i] /\ archive'[i] = archive[i]
                   /\ ticket'[i] = ticket[i] /\ served'[i] = served[i]
             /\ job'[j] = r2 /\ build'[j] = b2 /\ archive'[j] = a2 /\ ticket'[j] = t2
             /\ served'[j] = n
             /\ DOMAIN job' = Export /\ DOMAIN build' = Export /\ DOMAIN archive' = Export
             /\ DOMAIN ticket' = Export /\ DOMAIN served' = Export
<1>4. ASSUME NEW r2, NEW b2, NEW a2, NEW t2, Becomes(r2, b2, a2, t2),
             Sound(r2, b2, a2, t2, n), r2.scope = r.scope, b # "rest"
      PROVE  ExportInv'
  <2>1. SoundAt(j)'
    BY <1>4 DEF SoundAt
  <2> QED BY <2>1, <1>1, <1>4, OneExport
<1>5. CASE Run(j)
  <2>1. PICK r2 : r2 = [r EXCEPT !.status = "running", !.old = FALSE]
    OBVIOUS
  <2>2. Becomes(r2, "write", "open", t) /\ b = "start"
    BY <1>1, <1>3, <1>5, <2>1 DEF Run, BuildStep
  <2>3. Sound(r2, "write", "open", t, n) /\ r2.scope = r.scope
    BY <1>2, <2>1, <2>2 DEF Sound, BuildSteps
  <2> QED BY <1>4, <2>2, <2>3
<1>6. CASE Write(j)
  <2>1. Becomes(r, "mint", "whole", t) /\ b = "write"
    BY <1>1, <1>3, <1>6 DEF Write, BuildStep
  <2>2. Sound(r, "mint", "whole", t, n)
    BY <1>2, <2>1 DEF Sound, BuildSteps
  <2> QED BY <1>4, <2>1, <2>2
<1>7. CASE Mint(j)
  <2>1. Becomes(r, "result", a, "live") /\ b = "mint"
    BY <1>1, <1>3, <1>7 DEF Mint, BuildStep
  <2>2. Sound(r, "result", a, "live", n)
    BY <1>2, <2>1 DEF Sound, BuildSteps
  <2> QED BY <1>4, <2>1, <2>2
<1>8. CASE SetResult(j)
  <2>1. PICK r2 : r2 = [r EXCEPT !.token = TRUE, !.old = FALSE]
    OBVIOUS
  <2>2. Becomes(r2, "ready", a, t) /\ b = "result"
    BY <1>1, <1>3, <1>8, <2>1 DEF SetResult, BuildStep
  <2>3. Sound(r2, "ready", a, t, n) /\ r2.scope = r.scope
    BY <1>2, <2>1, <2>2 DEF Sound, BuildSteps
  <2> QED BY <1>4, <2>2, <2>3
<1>9. CASE SetReady(j)
  <2>1. PICK r2 : r2 = [r EXCEPT !.status = "ready", !.old = FALSE]
    OBVIOUS
  <2>2. Becomes(r2, "rest", a, t) /\ b = "ready"
    BY <1>1, <1>3, <1>9, <2>1 DEF SetReady, BuildStep
  <2>3. Sound(r2, "rest", a, t, n) /\ r2.scope = r.scope
    BY <1>2, <2>1, <2>2 DEF Sound, BuildSteps
  <2> QED BY <1>4, <2>2, <2>3
<1>10. CASE BuildFails(j)
  <2>1. PICK r2 \in {r, [r EXCEPT !.status = "failed", !.old = FALSE]} :
          Becomes(r2, "rest", a, t) /\ b # "rest"
    BY <1>1, <1>3, <1>10 DEF BuildFails
  <2>2. Sound(r2, "rest", a, t, n) /\ r2.scope = r.scope
    BY <1>2, <2>1 DEF Sound, BuildSteps
  <2> QED BY <1>4, <2>1, <2>2
<1> QED BY <1>5, <1>6, <1>7, <1>8, <1>9, <1>10

\* The unique index: no other row of the scope is active, and a build has an
\* active row.
LEMMA InsertKeeps ==
  ASSUME ExportInv, NEW c \in Caller, Insert(c)
  PROVE  ExportInv'
<1>1. CASE UNCHANGED <<job, build>>
  BY <1>1 DEF Insert, ExportInv, SoundAt, ScopesApart
<1>2. ASSUME NEW j \in Export, NEW s, ActiveOf(s) = {}, job[j] = NoJob,
             job' = [job EXCEPT ![j] = [NoJob EXCEPT !.status = "pending", !.scope = s]],
             build' = [build EXCEPT ![j] = "start"], UNCHANGED <<archive, ticket, served>>
      PROVE  ExportInv'
  <2>1. PICK r : r = [NoJob EXCEPT !.status = "pending", !.scope = s]
    OBVIOUS
  <2>2. r = [status |-> "pending", scope |-> s, token |-> FALSE, old |-> FALSE]
    BY <2>1 DEF NoJob
  <2>3. /\ job'[j] = r /\ build'[j] = "start" /\ DOMAIN job' = Export /\ DOMAIN build' = Export
        /\ \A i \in Export \ {j} : job'[i] = job[i] /\ build'[i] = build[i]
    BY <1>2, <2>1 DEF ExportInv
  <2>4. /\ ticket[j] = "none" /\ served[j] = 0
    BY <1>2 DEF ExportInv, SoundAt, Sound, NoJob
  <2>5. SoundAt(j)'
    <3>1. PICK a : a = archive[j]
      OBVIOUS
    <3>2. Sound(r, "start", a, "none", 0)
      BY <2>2 DEF Sound, BuildSteps
    <3> QED BY <1>2, <2>3, <2>4, <3>1, <3>2 DEF SoundAt
  <2>6. \A i \in Export \ {j} : SoundAt(i)'
    BY <1>2, <2>3 DEF ExportInv, SoundAt
  <2>7. \A i \in Export : build[i] # "rest" => job[i].scope # s
    BY <1>2 DEF ExportInv, SoundAt, Sound, BuildSteps, ActiveOf, Active
  <2>8. ScopesApart'
    BY <2>2, <2>3, <2>7 DEF ExportInv, ScopesApart
  <2> QED BY <1>2, <2>3, <2>5, <2>6, <2>8 DEF ExportInv
<1> QED BY <1>1, <1>2 DEF Insert

\* Caller: the step preserves the invariant.
LEMMA CallerKeeps ==
  ASSUME ExportInv,
         \/ \E c \in Caller, s \in Scope : Look(c, s)
         \/ \E c \in Caller, j \in Export : Peek(c, j)
         \/ UNCHANGED exportVars
  PROVE  ExportInv'
<1>1. UNCHANGED <<job, build, archive, ticket, served>>
  BY DEF Look, Peek, exportVars
<1> QED BY <1>1 DEF ExportInv, SoundAt, ScopesApart

\* Take: the step preserves the invariant.
LEMMA TakeKeeps ==
  ASSUME ExportInv, NEW c \in Caller, Take(c)
  PROVE  ExportInv'
<1>1. PICK j : j = caller[c].export
  OBVIOUS
<1>2. UNCHANGED <<job, build, archive>>
  BY DEF Take
<1>3. CASE ticket[j] = "live" /\ j \in Export
  <2>1. /\ ticket' = [ticket EXCEPT ![j] = "spent"]
        /\ served' = [served EXCEPT ![j] = IF @ < 2 THEN @ + 1 ELSE @]
    BY <1>1, <1>3 DEF Take, Taken
  <2>2. /\ ticket'[j] = "spent" /\ served'[j] = 1
        /\ DOMAIN ticket' = Export /\ DOMAIN served' = Export
        /\ \A i \in Export \ {j} : ticket'[i] = ticket[i] /\ served'[i] = served[i]
    BY <1>3, <2>1 DEF ExportInv, SoundAt, Sound
  <2>3. SoundAt(j)'
    BY <1>2, <1>3, <2>2 DEF ExportInv, SoundAt, Sound, BuildSteps
  <2> QED BY <1>2, <1>3, <2>2, <2>3, OneExport DEF ExportInv
<1>4. CASE ~(ticket[j] = "live" /\ j \in Export)
  <2>1. /\ DOMAIN ticket' = Export /\ DOMAIN served' = Export
        /\ \A i \in Export : ticket'[i] = ticket[i] /\ served'[i] = served[i]
    BY <1>1, <1>4 DEF Take, ExportInv
  <2> QED BY <1>2, <2>1 DEF ExportInv, SoundAt, ScopesApart
<1> QED BY <1>3, <1>4

\* Time: the step preserves the invariant.
LEMMA TimeKeeps ==
  ASSUME ExportInv, NEW j \in Export, GrowsOld(j) \/ Expire(j) \/ Sweep(j)
  PROVE  ExportInv'
<1>1. PICK r, b, a, t, n : r = job[j] /\ b = build[j] /\ a = archive[j] /\ t = ticket[j]
                           /\ n = served[j]
  OBVIOUS
<1>2. Sound(r, b, a, t, n)
  BY <1>1 DEF ExportInv, SoundAt
<1>3. UNCHANGED <<build, served>>
  BY DEF GrowsOld, Expire, Sweep
<1>4. CASE GrowsOld(j)
  <2>1. PICK r2 : r2 = [r EXCEPT !.old = TRUE]
    OBVIOUS
  <2>2. /\ job'[j] = r2 /\ DOMAIN job' = Export
        /\ \A i \in Export \ {j} : job'[i] = job[i]
        /\ UNCHANGED <<archive, ticket>>
    BY <1>1, <1>4, <2>1 DEF GrowsOld, ExportInv
  <2>3. Sound(r2, b, a, t, n) /\ r2.scope = r.scope
    BY <1>2, <2>1 DEF Sound
  <2> QED BY <1>1, <1>3, <2>2, <2>3, OneExport DEF ExportInv, SoundAt
<1>5. CASE Expire(j)
  <2>1. /\ ticket'[j] = "spent" /\ t = "live" /\ DOMAIN ticket' = Export
        /\ \A i \in Export \ {j} : ticket'[i] = ticket[i]
        /\ UNCHANGED <<job, archive>>
    BY <1>1, <1>5 DEF Expire, ExportInv
  <2>2. Sound(r, b, a, "spent", n)
    BY <1>2, <2>1 DEF Sound, BuildSteps
  <2> QED BY <1>1, <1>3, <2>1, <2>2, OneExport DEF ExportInv, SoundAt
<1>6. CASE Sweep(j)
  <2>1. /\ archive'[j] = "swept" /\ b = "rest" /\ DOMAIN archive' = Export
        /\ \A i \in Export \ {j} : archive'[i] = archive[i]
        /\ UNCHANGED <<job, ticket>>
    BY <1>1, <1>6 DEF Sweep, ExportInv
  <2>2. Sound(r, b, "swept", t, n)
    BY <1>2, <2>1 DEF Sound, BuildSteps
  <2> QED BY <1>1, <1>3, <2>1, <2>2, OneExport DEF ExportInv, SoundAt
<1> QED BY <1>4, <1>5, <1>6

\* Restart: the step preserves the invariant.
LEMMA RestartKeeps ==
  ASSUME ExportInv, ServiceRestarts
  PROVE  ExportInv'
<1>1. /\ build' = [j \in Export |-> "rest"] /\ UNCHANGED <<archive, ticket, served>>
      /\ job' = [j \in Export |-> IF Reaped(j) THEN [job[j] EXCEPT !.status = "failed", !.old = FALSE]
                                  ELSE job[j]]
  BY DEF ServiceRestarts
<1>2. ASSUME NEW j \in Export PROVE SoundAt(j)'
  <2>1. PICK r, b, a, t, n : r = job[j] /\ b = build[j] /\ a = archive[j] /\ t = ticket[j]
                             /\ n = served[j]
    OBVIOUS
  <2>2. Sound(r, b, a, t, n)
    BY <2>1 DEF ExportInv, SoundAt
  <2>3. PICK r2 \in {r, [r EXCEPT !.status = "failed", !.old = FALSE]} : job'[j] = r2
    BY <1>1, <2>1
  <2>4. Sound(r2, "rest", a, t, n)
    BY <2>2, <2>3 DEF Sound, BuildSteps
  <2> QED BY <1>1, <2>1, <2>3, <2>4 DEF SoundAt
<1> QED BY <1>1, <1>2 DEF ExportInv, ScopesApart

\* For any number of exports, scopes, callers, failures and restarts: no two
\* builds of a scope at once, each with an active row; a ready job has its
\* token and its archive; and a token serves one download
\* (export/jobs.py, storage/postgres.py).
THEOREM ExportsAreHonest == ExportSpec => []ExportsHonest
<1>1. ExportInit => ExportInv
  BY ExportInitially
<1>2. ExportInv /\ [ExportNext]_exportVars => ExportInv'
  <2> SUFFICES ASSUME ExportInv, [ExportNext]_exportVars PROVE ExportInv'
    OBVIOUS
  <2>1. ASSUME NEW c \in Caller, Insert(c) \/ Take(c) PROVE ExportInv'
    BY <2>1, InsertKeeps, TakeKeeps
  <2>2. ASSUME NEW j \in Export,
               \/ Run(j) \/ Write(j) \/ Mint(j) \/ SetResult(j) \/ SetReady(j) \/ BuildFails(j)
               \/ GrowsOld(j) \/ Expire(j) \/ Sweep(j)
        PROVE  ExportInv'
    BY <2>2, BuildKeeps, TimeKeeps
  <2>3. CASE ServiceRestarts
    BY <2>3, RestartKeeps
  <2>4. CASE \/ \E c \in Caller, s \in Scope : Look(c, s)
             \/ \E c \in Caller, j \in Export : Peek(c, j)
             \/ UNCHANGED exportVars
    BY <2>4, CallerKeeps
  <2> QED BY <2>1, <2>2, <2>3, <2>4 DEF ExportNext
<1>3. ExportInv => ExportsHonest
  BY Honest
<1> QED BY <1>1, <1>2, <1>3, PTL DEF ExportSpec

-----------------------------------------------------------------------------
(***************************************************************************)
(* The hashes of the documents of MCP servers. SkippedAreHeld is not       *)
(* inductive: a call carries hashes it read long ago and writes them back, *)
(* so they must be as true as those in the file; and revisions in the      *)
(* file, in calls and in the index are never ahead of the server, so that  *)
(* none of them becomes true by a change there.                            *)
(***************************************************************************)

Seen(h) == h \in [Piece -> Nat] /\ \A d \in Piece : h[d] <= origin[d]

PassOK(c) ==
  /\ c = [at |-> c.at, room |-> c.room, force |-> c.force, hashes |-> c.hashes, got |-> c.got,
          todo |-> c.todo]
  /\ c.at \in {"idle", "loaded", "fetched", "saved"}
  /\ Seen(c.hashes) /\ Seen(c.got)
  /\ c.todo \in SUBSET Piece
  /\ c.at # "idle" => c.room \in Room
  /\ c.at # "saved" => c.todo = {}

ServerTypeInv ==
  /\ origin \in [Piece -> Nat \ {0}]
  /\ Seen(hashFile)
  /\ held \in [Room -> [Piece -> Nat]]
  /\ \A w \in Room, d \in Piece : held[w][d] <= origin[d]
  /\ DOMAIN pass = Pass
  /\ \A r \in Pass : PassOK(pass[r])

\* r is about to ingest d for w as it is at the server.
Ingests(r, w, d) ==
  pass[r].room = w /\ d \in pass[r].todo /\ pass[r].got[d] = origin[d]

Covered(w, d) ==
  held[w][d] = origin[d] \/ <<w, d>> \in spoilt \/ \E r \in Pass : Ingests(r, w, d)

Truthful(h) == \A w \in Room, d \in Piece : h[d] = origin[d] => Covered(w, d)

ServerInv ==
  /\ ServerTypeInv
  /\ Truthful(hashFile)
  /\ \A r \in Pass : Truthful(pass[r].hashes)

\* The invariant of the synchronisation gives SkippedAreHeld.
LEMMA SkippedFromInv == ServerInv => SkippedAreHeld
BY DEF ServerInv, SkippedAreHeld, Truthful, Covered, Ingests

\* The invariant holds in the initial states.
LEMMA ServerInitially == ServerInit => ServerInv
<1> SUFFICES ASSUME ServerInit PROVE ServerInv
  OBVIOUS
<1>1. Seen(NoHashes)
  BY DEF ServerInit, Seen, NoHashes
<1>2. PassOK(NoPass)
  BY <1>1 DEF PassOK, NoPass
<1>3. ServerTypeInv
  BY <1>1, <1>2 DEF ServerInit, ServerTypeInv, NoHashes
<1>4. Truthful(hashFile) /\ \A r \in Pass : Truthful(pass[r].hashes)
  BY DEF ServerInit, Truthful, NoHashes, NoPass
<1> QED BY <1>3, <1>4 DEF ServerInv

\* What covers a document goes on covering it through a step of the call r, if the
\* step turns what it takes away into something else that does.
LEMMA CoveredKept ==
  ASSUME NEW r \in Pass, \A s \in Pass \ {r} : pass'[s] = pass[s], origin' = origin,
         NEW w \in Room, NEW d \in Piece, Covered(w, d),
         held[w][d] = origin[d] => Covered(w, d)',
         <<w, d>> \in spoilt => Covered(w, d)',
         Ingests(r, w, d) => Covered(w, d)'
  PROVE  Covered(w, d)'
<1>1. \A s \in Pass \ {r} : Ingests(s, w, d) => Ingests(s, w, d)'
  BY DEF Ingests
<1> QED BY <1>1 DEF Covered

\* Nor does a call that has nothing to ingest cover anything.
LEMMA CallAtRest ==
  ASSUME ServerInv, NEW r \in Pass, pass[r].at # "saved",
         \A s \in Pass \ {r} : pass'[s] = pass[s], UNCHANGED <<origin, held, spoilt>>
  PROVE  \A w \in Room, d \in Piece : Covered(w, d) => Covered(w, d)'
<1> SUFFICES ASSUME NEW w \in Room, NEW d \in Piece, Covered(w, d) PROVE Covered(w, d)'
  OBVIOUS
<1>1. ~Ingests(r, w, d)
  BY DEF ServerInv, ServerTypeInv, PassOK, Ingests
<1>2. /\ held[w][d] = origin[d] => Covered(w, d)'
      /\ <<w, d>> \in spoilt => Covered(w, d)'
  BY DEF Covered
<1> QED BY <1>1, <1>2, CoveredKept

\* Calls that are not ingesting may begin, go on and end.
LEMMA ServerLoadKeeps ==
  ASSUME ServerInv, NEW r \in Pass, NEW room \in Room, NEW force \in BOOLEAN,
         LoadHashes(r, room, force)
  PROVE  ServerInv'
<1>1. PICK hashes \in {hashFile, NoHashes} :
        pass' = [pass EXCEPT ![r] = [NoPass EXCEPT !.at = "loaded", !.room = room,
                                                  !.force = force, !.hashes = hashes]]
  BY DEF LoadHashes
<1>2. UNCHANGED <<origin, hashFile, held, spoilt>> /\ pass[r].at = "idle"
  BY DEF LoadHashes
<1>3. Seen(NoHashes) /\ Seen(hashes)
  BY <1>1 DEF ServerInv, ServerTypeInv, Seen, NoHashes
<1>4. pass'[r].at = "loaded" /\ pass'[r].room = room /\ pass'[r].hashes = hashes
      /\ pass'[r].got = NoHashes /\ pass'[r].todo = {}
  BY <1>1 DEF ServerInv, ServerTypeInv, NoPass
<1>5. \A s \in Pass \ {r} : pass'[s] = pass[s]
  BY <1>1 DEF ServerInv, ServerTypeInv
<1>6. PassOK(pass[r])'
  <2>1. PICK c : c = [NoPass EXCEPT !.at = "loaded", !.room = room, !.force = force,
                                    !.hashes = hashes]
    OBVIOUS
  <2>2. c = [at |-> "loaded", room |-> room, force |-> force, hashes |-> hashes,
             got |-> NoHashes, todo |-> {}]
    BY <2>1 DEF NoPass
  <2>3. PassOK(c)
    BY <2>2, <1>3 DEF PassOK
  <2>4. pass'[r] = c
    BY <2>1, <1>1 DEF ServerInv, ServerTypeInv
  <2> QED BY <2>3, <2>4, <1>2 DEF PassOK, Seen
<1>7. ServerTypeInv'
  BY <1>1, <1>2, <1>5, <1>6 DEF ServerInv, ServerTypeInv, PassOK, Seen
<1>8. \A w \in Room, d \in Piece : Covered(w, d) => Covered(w, d)'
  BY <1>2, <1>5, CallAtRest
<1>9. Truthful(hashFile)' /\ Truthful(hashes)'
  <2>1. Truthful(hashFile) /\ Truthful(NoHashes)
    BY DEF ServerInv, ServerTypeInv, Truthful, NoHashes
  <2> QED BY <2>1, <1>1, <1>2, <1>8 DEF Truthful, NoHashes
<1>10. \A s \in Pass : Truthful(pass[s].hashes)'
  BY <1>2, <1>4, <1>5, <1>8, <1>9 DEF ServerInv, Truthful
<1> QED BY <1>7, <1>9, <1>10 DEF ServerInv

\* A file without hashes says nothing untrue.
LEMMA NoHashesTrue == ServerInv => Seen(NoHashes) /\ Truthful(NoHashes) /\ PassOK(NoPass)
<1> SUFFICES ASSUME ServerInv PROVE Seen(NoHashes) /\ Truthful(NoHashes) /\ PassOK(NoPass)
  OBVIOUS
<1>1. Seen(NoHashes) /\ Truthful(NoHashes)
  BY DEF ServerInv, ServerTypeInv, Seen, Truthful, NoHashes
<1> QED BY <1>1 DEF PassOK, NoPass

\* The file and the index after a step.
RestKept ==
  /\ Seen(hashFile)' /\ Truthful(hashFile)'
  /\ held' \in [Room -> [Piece -> Nat]]
  /\ \A w \in Room, d \in Piece : held'[w][d] <= origin'[d]

\* The rest of the invariant, once the step of r is known to keep what is covered
\* and to leave it with a sound record whose hashes are r's or none.
LEMMA StepOfCall ==
  ASSUME ServerInv, NEW r \in Pass, NEW c, pass' = [pass EXCEPT ![r] = c],
         PassOK(c), c.hashes \in {pass[r].hashes, NoHashes}, origin' = origin,
         \A w \in Room, d \in Piece : Covered(w, d) => Covered(w, d)', RestKept
  PROVE  ServerInv'
<1>1. pass'[r] = c /\ DOMAIN pass' = Pass /\ \A s \in Pass \ {r} : pass'[s] = pass[s]
  BY DEF ServerInv, ServerTypeInv
<1>2. \A s \in Pass : PassOK(pass[s])'
  BY <1>1 DEF ServerInv, ServerTypeInv, PassOK, Seen
<1>3. ServerTypeInv'
  BY <1>1, <1>2 DEF ServerInv, ServerTypeInv, RestKept
<1>4. \A s \in Pass : Truthful(pass[s].hashes)'
  BY <1>1, NoHashesTrue DEF ServerInv, Truthful
<1> QED BY <1>3, <1>4 DEF ServerInv, RestKept

\* Fetch: the step preserves the invariant.
LEMMA FetchKeeps ==
  ASSUME ServerInv, NEW r \in Pass, FetchPieces(r)
  PROVE  ServerInv'
<1>1. PICK fetched \in SUBSET Piece :
        pass' = [pass EXCEPT ![r] =
          IF fetched = {} THEN NoPass
          ELSE [@ EXCEPT !.at = "fetched",
                         !.got = [d \in Piece |-> IF d \in fetched THEN origin[d] ELSE 0]]]
  BY DEF FetchPieces
<1>2. UNCHANGED <<origin, hashFile, held, spoilt>> /\ pass[r].at = "loaded"
  BY DEF FetchPieces
<1> DEFINE got == [d \in Piece |-> IF d \in fetched THEN origin[d] ELSE 0]
           c   == IF fetched = {} THEN NoPass
                  ELSE [pass[r] EXCEPT !.at = "fetched", !.got = got]
<1>3. Seen(got)
  BY DEF ServerInv, ServerTypeInv, Seen
<1>4. PassOK(c) /\ c.hashes \in {pass[r].hashes, NoHashes}
  <2>1. CASE fetched = {}
    BY <2>1, NoHashesTrue DEF NoPass
  <2>2. CASE fetched # {}
    <3>1. PICK o, g : o = pass[r] /\ g = got
      OBVIOUS
    <3>2. PassOK(o) /\ Seen(g) /\ o.at = "loaded"
      BY <3>1, <1>2, <1>3 DEF ServerInv, ServerTypeInv
    <3>3. c = [o EXCEPT !.at = "fetched", !.got = g]
      BY <2>2, <3>1
    <3>4. PassOK(c) /\ c.hashes = o.hashes
      BY <3>2, <3>3 DEF PassOK
    <3> QED BY <3>1, <3>4
  <2> QED BY <2>1, <2>2
<1>5. pass' = [pass EXCEPT ![r] = c] /\ \A s \in Pass \ {r} : pass'[s] = pass[s]
  BY <1>1 DEF ServerInv, ServerTypeInv
<1>6. \A w \in Room, d \in Piece : Covered(w, d) => Covered(w, d)'
  BY <1>2, <1>5, CallAtRest
<1>7. RestKept
  BY <1>2, <1>6 DEF ServerInv, ServerTypeInv, Truthful, Seen, RestKept
<1> HIDE DEF c
<1> QED BY <1>2, <1>4, <1>5, <1>6, <1>7, StepOfCall

\* Cut: the step preserves the invariant.
LEMMA CutKeeps ==
  ASSUME ServerInv, NEW r \in Pass, CutPass(r)
  PROVE  ServerInv'
<1>1. /\ pass' = [pass EXCEPT ![r] = NoPass] /\ UNCHANGED <<origin, hashFile, held>>
      /\ spoilt' = spoilt \cup ({pass[r].room} \X pass[r].todo)
  BY DEF CutPass
<1>2. \A s \in Pass \ {r} : pass'[s] = pass[s]
  BY <1>1 DEF ServerInv, ServerTypeInv
<1>3. ASSUME NEW w \in Room, NEW d \in Piece, Covered(w, d)
      PROVE  Covered(w, d)'
  <2>1. /\ held[w][d] = origin[d] => Covered(w, d)'
        /\ <<w, d>> \in spoilt => Covered(w, d)'
        /\ Ingests(r, w, d) => Covered(w, d)'
    BY <1>1 DEF Covered, Ingests
  <2> QED BY <2>1, <1>1, <1>2, <1>3, CoveredKept
<1>4. RestKept
  BY <1>1, <1>3 DEF ServerInv, ServerTypeInv, Truthful, Seen, RestKept
<1>5. PassOK(NoPass) /\ NoPass.hashes = NoHashes
  BY NoHashesTrue DEF NoPass
<1> QED BY <1>1, <1>3, <1>4, <1>5, StepOfCall

\* Revise: the step preserves the invariant.
LEMMA ReviseKeeps ==
  ASSUME ServerInv, NEW d \in Piece, Revise(d)
  PROVE  ServerInv'
<1>1. /\ origin' = [origin EXCEPT ![d] = @ + 1]
      /\ UNCHANGED <<hashFile, held, pass, spoilt>>
  BY DEF Revise
<1>2. /\ origin' \in [Piece -> Nat \ {0}] /\ origin'[d] = origin[d] + 1
      /\ \A e \in Piece \ {d} : origin'[e] = origin[e]
  BY <1>1 DEF ServerInv, ServerTypeInv
<1>3. ASSUME NEW h, Seen(h)
      PROVE  Seen(h)' /\ h[d] # origin'[d]
  BY <1>2, <1>3 DEF Seen, ServerInv, ServerTypeInv
<1>4. ServerTypeInv'
  <2>1. Seen(hashFile)'
    BY <1>1, <1>3 DEF ServerInv, ServerTypeInv
  <2>2. ASSUME NEW s \in Pass PROVE PassOK(pass[s])'
    BY <1>1, <1>3 DEF ServerInv, ServerTypeInv, PassOK
  <2>3. \A w \in Room, e \in Piece : held'[w][e] <= origin'[e]
    BY <1>1, <1>2 DEF ServerInv, ServerTypeInv
  <2> QED BY <1>1, <1>2, <2>1, <2>2, <2>3 DEF ServerInv, ServerTypeInv
<1>5. ASSUME NEW w \in Room, NEW e \in Piece \ {d}, Covered(w, e)
      PROVE  Covered(w, e)'
  BY <1>1, <1>2, <1>5 DEF Covered, Ingests
<1>6. ASSUME NEW h, Seen(h), Truthful(h)
      PROVE  \A w \in Room, e \in Piece : h[e] = origin'[e] => Covered(w, e)'
  BY <1>2, <1>3, <1>5, <1>6 DEF Truthful
<1>7. Truthful(hashFile)'
  BY <1>1, <1>6 DEF ServerInv, ServerTypeInv, Truthful
<1>8. ASSUME NEW s \in Pass PROVE Truthful(pass[s].hashes)'
  BY <1>1, <1>6 DEF ServerInv, ServerTypeInv, PassOK, Truthful
<1> QED BY <1>4, <1>7, <1>8 DEF ServerInv

\* What a call picks it is about to ingest for its own workspace, and the ghost
\* takes note of the others; what it does not pick it read or found the same.
LEMMA ServerSaveKeeps ==
  ASSUME ServerInv, NEW r \in Pass, SaveHashes(r)
  PROVE  ServerInv'
<1> DEFINE c == IF Picked(r) = {} THEN NoPass
                ELSE [pass[r] EXCEPT !.at = "saved", !.todo = Picked(r)]
           Hashed(d) == IF pass[r].got[d] # 0 THEN pass[r].got[d] ELSE pass[r].hashes[d]
<1>1. /\ hashFile' = [d \in Piece |-> Hashed(d)] /\ pass' = [pass EXCEPT ![r] = c]
      /\ spoilt' = spoilt \cup ((Room \ {pass[r].room}) \X Picked(r))
      /\ UNCHANGED <<origin, held>> /\ pass[r].at = "fetched"
  BY DEF SaveHashes, OldHash
<1>2. /\ pass'[r] = c /\ \A s \in Pass \ {r} : pass'[s] = pass[s]
      /\ PassOK(pass[r])
  BY <1>1 DEF ServerInv, ServerTypeInv
<1>3. /\ PassOK(c) /\ c.hashes \in {pass[r].hashes, NoHashes}
      /\ Picked(r) # {} => c.room = pass[r].room /\ c.todo = Picked(r) /\ c.got = pass[r].got
  <2>1. CASE Picked(r) = {}
    BY <2>1, NoHashesTrue DEF NoPass
  <2>2. CASE Picked(r) # {}
    <3>1. PICK o, q : o = pass[r] /\ q = Picked(r)
      OBVIOUS
    <3>2. PassOK(o) /\ q \in SUBSET Piece /\ o.at = "fetched"
      BY <3>1, <1>1, <1>2 DEF Picked
    <3>3. c = [o EXCEPT !.at = "saved", !.todo = q]
      BY <2>2, <3>1
    <3>4. PassOK(c) /\ c.hashes = o.hashes /\ c.room = o.room /\ c.todo = q /\ c.got = o.got
      BY <3>2, <3>3 DEF PassOK
    <3> QED BY <3>1, <3>4
  <2> QED BY <2>1, <2>2
<1> HIDE DEF c
<1>4. ASSUME NEW w \in Room, NEW d \in Piece, Covered(w, d)
      PROVE  Covered(w, d)'
  <2>1. ~Ingests(r, w, d)
    BY <1>1, <1>2 DEF PassOK, Ingests
  <2>2. /\ held[w][d] = origin[d] => Covered(w, d)'
        /\ <<w, d>> \in spoilt => Covered(w, d)'
    BY <1>1 DEF Covered
  <2> QED BY <2>1, <2>2, <1>1, <1>2, <1>4, CoveredKept
<1>5. ASSUME NEW w \in Room, NEW d \in Piece, Hashed(d) = origin[d]
      PROVE  Covered(w, d)'
  <2>1. CASE d \in Picked(r) /\ w = pass[r].room
    <3>1. pass[r].got[d] = origin[d]
      BY <2>1, <1>5 DEF Picked
    <3>2. Ingests(r, w, d)'
      BY <2>1, <3>1, <1>1, <1>2, <1>3 DEF Ingests
    <3> QED BY <3>2 DEF Covered
  <2>2. CASE d \in Picked(r) /\ w # pass[r].room
    BY <2>2, <1>1 DEF Covered
  <2>3. CASE d \notin Picked(r)
    <3>1. pass[r].hashes[d] = origin[d]
      BY <2>3, <1>5 DEF Picked, OldHash
    <3>2. Covered(w, d)
      BY <3>1 DEF ServerInv, Truthful
    <3> QED BY <3>2, <1>4
  <2> QED BY <2>1, <2>2, <2>3
<1>6. Seen(hashFile)'
  BY <1>1, <1>2 DEF PassOK, Seen
<1>7. RestKept
  <2>1. Truthful(hashFile)'
    BY <1>1, <1>5 DEF Truthful
  <2> QED BY <2>1, <1>1, <1>6 DEF ServerInv, ServerTypeInv, RestKept
<1> QED BY <1>1, <1>3, <1>4, <1>7, StepOfCall

\* The record a call is left with when one more of its documents is done.
LEMMA OneDone ==
  ASSUME ServerInv, NEW r \in Pass, NEW d \in Piece, pass[r].at = "saved", PassDone(r, d),
         origin' = origin
  PROVE  \E c : /\ pass' = [pass EXCEPT ![r] = c] /\ PassOK(c)
                /\ c.hashes \in {pass[r].hashes, NoHashes}
                /\ \A w \in Room, e \in Piece : e # d /\ Ingests(r, w, e) => Ingests(r, w, e)'
<1> DEFINE left == pass[r].todo \ {d}
           c    == IF left = {} THEN NoPass ELSE [pass[r] EXCEPT !.todo = left]
<1>0. PassOK(pass[r]) /\ DOMAIN pass = Pass
  BY DEF ServerInv, ServerTypeInv
<1>1. pass' = [pass EXCEPT ![r] = c]
  BY <1>0 DEF PassDone
<1>2. CASE left = {}
  BY <1>1, <1>2, NoHashesTrue DEF NoPass, Ingests
<1>3. CASE left # {}
  <2>1. PassOK(c) /\ c.hashes = pass[r].hashes /\ c.room = pass[r].room /\ c.got = pass[r].got
        /\ c.todo = pass[r].todo \ {d}
    BY <1>0, <1>3 DEF PassOK
  <2> HIDE DEF c
  <2>2. pass'[r] = c
    BY <1>0, <1>1
  <2> QED BY <1>1, <2>1, <2>2 DEF Ingests
<1> QED BY <1>2, <1>3

\* Ingest: the step preserves the invariant.
LEMMA IngestKeeps ==
  ASSUME ServerInv, NEW r \in Pass, NEW d \in Piece,
         IngestPiece(r, d) \/ IngestPieceFails(r, d)
  PROVE  ServerInv'
<1>0. PICK room \in Room : pass[r].room = room
  BY DEF IngestPiece, IngestPieceFails, ServerInv, ServerTypeInv, PassOK
<1>1. /\ pass[r].at = "saved" /\ d \in pass[r].todo /\ PassDone(r, d)
      /\ UNCHANGED <<origin, hashFile>> /\ PassOK(pass[r]) /\ pass[r].room = room
  BY <1>0 DEF IngestPiece, IngestPieceFails, ServerInv, ServerTypeInv
<1>2. PICK c : /\ pass' = [pass EXCEPT ![r] = c] /\ PassOK(c)
               /\ c.hashes \in {pass[r].hashes, NoHashes}
               /\ \A w \in Room, e \in Piece : e # d /\ Ingests(r, w, e) => Ingests(r, w, e)'
  BY <1>1, OneDone
<1>3. \A s \in Pass \ {r} : pass'[s] = pass[s]
  BY <1>2 DEF ServerInv, ServerTypeInv
<1>4. /\ held' \in [Room -> [Piece -> Nat]]
      /\ \A w \in Room, e \in Piece : held'[w][e] <= origin'[e]
      /\ \A w \in Room, e \in Piece : w # room \/ e # d => held'[w][e] = held[w][e]
      /\ \A w \in Room, e \in Piece : w # room \/ e # d => (<<w, e>> \in spoilt => <<w, e>> \in spoilt')
  <2>1. ASSUME NEW n \in Nat, n <= origin[d], held' = [held EXCEPT ![room][d] = n]
        PROVE  /\ held' \in [Room -> [Piece -> Nat]]
               /\ \A w \in Room, e \in Piece : held'[w][e] <= origin'[e]
               /\ \A w \in Room, e \in Piece : w # room \/ e # d => held'[w][e] = held[w][e]
    BY <2>1, <1>1 DEF ServerInv, ServerTypeInv
  <2>2. CASE IngestPiece(r, d)
    <3>1. pass[r].got[d] \in Nat /\ pass[r].got[d] <= origin[d]
      BY <1>1 DEF PassOK, Seen
    <3> QED BY <2>1, <2>2, <3>1, <1>1 DEF IngestPiece
  <2>3. CASE IngestPieceFails(r, d)
    <3>1. 0 \in Nat /\ 0 <= origin[d]
      BY DEF ServerInv, ServerTypeInv
    <3>2. CASE held' = [held EXCEPT ![pass[r].room][d] = 0]
      BY <2>1, <2>3, <3>1, <3>2, <1>1 DEF IngestPieceFails
    <3>3. CASE UNCHANGED held
      BY <2>3, <3>3, <1>1 DEF IngestPieceFails, ServerInv, ServerTypeInv
    <3> QED BY <2>3, <3>2, <3>3 DEF IngestPieceFails
  <2> QED BY <2>2, <2>3
\* The document itself: it is in the index now, or the ghost has it.
<1>5. ASSUME Covered(room, d) PROVE Covered(room, d)'
  <2>1. CASE IngestPieceFails(r, d)
    <3>1. <<room, d>> \in spoilt'
      BY <2>1, <1>1 DEF IngestPieceFails
    <3> QED BY <3>1 DEF Covered
  <2>2. CASE IngestPiece(r, d) /\ pass[r].got[d] = origin[d]
    <3>1. held' = [held EXCEPT ![room][d] = pass[r].got[d]]
      BY <2>2, <1>1 DEF IngestPiece
    <3>2. held'[room][d] = origin'[d]
      BY <2>2, <3>1, <1>1 DEF ServerInv, ServerTypeInv
    <3> QED BY <3>2 DEF Covered
  <2>3. CASE IngestPiece(r, d) /\ pass[r].got[d] # origin[d]
    <3>1. pass[r].got[d] \in Nat /\ pass[r].got[d] < origin[d] /\ held[room][d] \in Nat
      <4>1. pass[r].got[d] \in Nat /\ pass[r].got[d] <= origin[d]
        BY <1>1 DEF PassOK, Seen
      <4>2. origin[d] \in Nat /\ held[room][d] \in Nat
        BY <1>1 DEF ServerInv, ServerTypeInv
      <4> QED BY <4>1, <4>2, <2>3
    <3>2. held[room][d] = origin[d] => <<room, d>> \in spoilt'
      BY <2>3, <3>1, <1>1 DEF IngestPiece
    <3>3. <<room, d>> \in spoilt => <<room, d>> \in spoilt'
      BY <2>3, <1>1 DEF IngestPiece
    <3>4. ~Ingests(r, room, d)
      BY <2>3 DEF Ingests
    <3>5. /\ held[room][d] = origin[d] => Covered(room, d)'
          /\ <<room, d>> \in spoilt => Covered(room, d)'
          /\ Ingests(r, room, d) => Covered(room, d)'
      BY <3>2, <3>3, <3>4 DEF Covered
    <3> QED BY <3>5, <1>1, <1>3, <1>5, CoveredKept
  <2> QED BY <2>1, <2>2, <2>3
<1>6. ASSUME NEW w \in Room, NEW e \in Piece, Covered(w, e)
      PROVE  Covered(w, e)'
  <2>1. CASE w = room /\ e = d
    <3>1. Covered(room, d)
      BY <2>1, <1>6
    <3>2. Covered(room, d)'
      BY <3>1, <1>5
    <3> QED BY <2>1, <3>2 DEF Covered, Ingests
  <2>2. CASE w # room \/ e # d
    <3>1. Ingests(r, w, e) => Ingests(r, w, e)'
      <4>1. CASE e # d
        BY <4>1, <1>2
      <4>2. CASE w # room
        BY <4>2, <1>1 DEF Ingests
      <4> QED BY <2>2, <4>1, <4>2
    <3>2. /\ held[w][e] = origin[e] => Covered(w, e)'
          /\ <<w, e>> \in spoilt => Covered(w, e)'
          /\ Ingests(r, w, e) => Covered(w, e)'
      BY <2>2, <3>1, <1>1, <1>4 DEF Covered
    <3> QED BY <3>2, <1>1, <1>3, <1>6, CoveredKept
  <2> QED BY <2>1, <2>2
<1>7. RestKept
  BY <1>1, <1>4, <1>6 DEF ServerInv, ServerTypeInv, Truthful, Seen, RestKept
<1> QED BY <1>1, <1>2, <1>6, <1>7, StepOfCall

\* What the next sync from an MCP server would skip as unchanged is in the index
\* of its workspace, or the ghost says how it was lost (mcp/sync.py).
THEOREM SkippedDocumentsAreHeld == ServerSpec => []SkippedAreHeld
<1>1. ServerInv /\ [ServerNext]_serverVars => ServerInv'
  <2> SUFFICES ASSUME ServerInv, [ServerNext]_serverVars PROVE ServerInv'
    OBVIOUS
  <2>1. CASE UNCHANGED serverVars
    BY <2>1 DEF serverVars, ServerInv, ServerTypeInv, PassOK, Seen, Truthful, Covered, Ingests
  <2>2. CASE ServerNext
    BY <2>2, ServerLoadKeeps, FetchKeeps, ServerSaveKeeps, CutKeeps, IngestKeeps, ReviseKeeps DEF ServerNext
  <2> QED BY <2>1, <2>2
<1> QED BY <1>1, ServerInitially, SkippedFromInv, PTL DEF ServerSpec

=============================================================================
