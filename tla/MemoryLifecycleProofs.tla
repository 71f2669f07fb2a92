----------------------- MODULE MemoryLifecycleProofs -----------------------
(***************************************************************************)
(* What holds of the life of a record for every number of records,         *)
(* workers and reviewers: no pair is filed twice, no status is hidden from *)
(* search, a kept record stays active, and an entry is resolved once, each *)
(* but for the races that the history names.                               *)
(***************************************************************************)
EXTENDS MemoryLifecycle, FiniteSetTheorems, TLAPS

JobType ==
  [step : {"idle", "file", "check", "mark", "mirror", "apply"},
   item : Item \cup {Nil}, related : Item \cup {Nil}, reason : Reason \cup {Nil},
   verdict : {"stale", "superseded", "stamp", "review", Nil}]

ReviewType ==
  [step : {"idle", "commit", "mirror"}, entry : Entry \cup {Nil},
   mirror : Entry \cup {Nil}, action : {"keep", "archive", "merge", Nil},
   target : Item \cup {Nil}]

\* Jobs that will file an entry.
Files(j) == j.step = "file" \/ (j.step = "apply" /\ j.verdict = "review")

\* What a job holds at each of its steps.
JobOK(j) ==
  /\ j.step = "idle" => j = NoJob
  /\ j.step = "file" => /\ j.item \in Item /\ j.related \in Item
                        /\ j.reason \in {"duplicate", "contradiction"}
  /\ j.step \in {"check", "mark", "mirror", "apply"} => j.item \in Item
  /\ j.step = "mark" => /\ j.verdict \in {"stale", "superseded", "stamp"}
                        /\ j.verdict = "stamp" => j.item \in Document
  /\ j.step = "mirror" => j.verdict \in {"stale", "superseded"}
  /\ j.step = "apply" => j.verdict \in {"stale", "review"}

\* And a review.
ReviewOK(r) ==
  r.step \in {"commit", "mirror"} =>
    /\ r.entry \in Entry /\ r.action \in {"keep", "archive", "merge"}
    /\ r.action = "merge" => r.target \in Item

JobsOK ==
  /\ job \in [Processor -> JobType]
  /\ \A w \in Processor : JobOK(job[w])

ReviewsOK ==
  /\ review \in [Reviewer -> ReviewType]
  /\ \A v \in Reviewer : ReviewOK(review[v])

EditOK ==
  /\ editing \in [item : Item \cup {Nil}, status : Status \cup {Nil}]
  /\ editing # NoEdit => editing.item \in Item /\ editing.status \in Status

RowsOK ==
  /\ status \in [Item -> Status] /\ into \in [Item -> Item \cup {Nil}]
  /\ aged \subseteq Item /\ stamped \subseteq Document
  /\ shown \in [Item -> Status] /\ waiting \subseteq Item
  /\ locks \in [Stage \X Item -> Processor \cup {Nil}]

HistoryOK ==
  /\ overlapped \subseteq SUBSET Item /\ contested \subseteq Item
  /\ settled \subseteq Item /\ due \subseteq Item
  /\ resolved \subseteq 1 .. MaxEntries /\ raced \subseteq 1 .. MaxEntries
  /\ again \subseteq 1 .. MaxEntries
  /\ touches \in 0 .. MaxTouches /\ losses \in 0 .. MaxLosses

EntriesOK == entries \subseteq Entry /\ lastEntry \in Nat

\* The bound leaves room for what the workers are about to file.
RoomKept == lastEntry + Cardinality(Filers) <= MaxEntries

LifecycleShapes ==
  JobsOK /\ ReviewsOK /\ EditOK /\ RowsOK /\ HistoryOK /\ EntriesOK /\ RoomKept

---------------------------------------------------------
\* The engine is asked or the job ends.
LEMMA DecidedJob ==
  ASSUME NEW w \in Processor, NEW i \in Item, Decided(w, i)
  PROVE \E j \in JobType :
          /\ JobOK(j) /\ job' = [job EXCEPT ![w] = j]
          /\ j.step \in {"idle", "apply"}
          /\ j.step = "apply" => j.item = i /\ status[i] = "active"
          /\ j.step = "apply" /\ j.verdict = "review" => RoomForEntry
<1>1. CASE Becomes(w, NoJob)
  <2>1. NoJob \in JobType /\ JobOK(NoJob) /\ NoJob.step = "idle"
    BY DEF NoJob, Task, JobType, JobOK
  <2> QED BY <1>1, <2>1 DEF Becomes
<1>2. CASE ~Becomes(w, NoJob)
  <2>1. PICK verdict \in {"stale", "review"} :
          /\ verdict = "review" => RoomForEntry
          /\ Becomes(w, Task("apply", i, Nil, "low_confidence", verdict))
    BY <1>2 DEF Decided
  <2>2. status[i] = "active"
    BY <1>2 DEF Decided
  <2> DEFINE j == Task("apply", i, Nil, "low_confidence", verdict)
  <2>3. j \in JobType /\ JobOK(j) /\ j.step = "apply" /\ j.item = i /\ j.verdict = verdict
    BY DEF Task, JobType, JobOK, Reason
  <2>4. job' = [job EXCEPT ![w] = j] BY <2>1 DEF Becomes
  <2> QED BY <2>1, <2>2, <2>3, <2>4
<1> QED BY <1>1, <1>2

\* A worker that takes up a job keeps the bound when there is room, and one that
\* does not file keeps it anyway.
LEMMA RoomLeft ==
  ASSUME JobsOK, lastEntry \in Nat, RoomKept, NEW w \in Processor, NEW j \in JobType,
         job' = [job EXCEPT ![w] = j], lastEntry' = lastEntry,
         \/ ~Files(j)
         \/ RoomForEntry
  PROVE RoomKept'
<1> DEFINE F == Filers
<1> DEFINE G == {u \in Processor : Files(job'[u])}
<1>1. Filers' = G BY DEF Filers, Files
<1>2. IsFiniteSet(F) /\ Cardinality(F) \in Nat
  BY LifecycleAssumption, FS_Subset, FS_CardinalityType DEF Filers
<1>3. /\ IsFiniteSet(F \cup {w}) /\ Cardinality(F \cup {w}) \in Nat
      /\ Cardinality(F \cup {w}) <= Cardinality(F) + 1
  <2> HIDE DEF F
  <2>1. /\ IsFiniteSet(F \cup {w})
        /\ Cardinality(F \cup {w}) = IF w \in F THEN Cardinality(F) ELSE Cardinality(F) + 1
    BY <1>2, FS_AddElement
  <2>2. Cardinality(F \cup {w}) \in Nat BY <2>1, FS_CardinalityType
  <2> QED BY <1>2, <2>1, <2>2
<1>4. \A u \in Processor : job'[u] = IF u = w THEN j ELSE job[u]
  BY DEF JobsOK
<1>5. CASE ~Files(j)
  <2>1. ASSUME NEW u \in G PROVE u \in F
    <3>1. u \in Processor /\ Files(job'[u])
      OBVIOUS
    <3>2. u # w BY <1>4, <1>5, <3>1
    <3>3. job'[u] = job[u] BY <1>4, <3>1, <3>2
    <3> QED BY <3>1, <3>3 DEF Filers, Files
  <2>2. Cardinality(G) <= Cardinality(F) /\ IsFiniteSet(G)
    <3> G \subseteq F BY <2>1
    <3> HIDE DEF F, G
    <3> QED BY <1>2, FS_Subset
  <2>3. Cardinality(G) \in Nat BY <2>2, FS_CardinalityType
  <2> HIDE DEF F, G
  <2>4. lastEntry + Cardinality(F) <= MaxEntries BY DEF RoomKept, F
  <2>5. lastEntry' + Cardinality(G) <= MaxEntries
    BY <1>2, <2>2, <2>3, <2>4, LifecycleAssumption
  <2> QED BY <1>1, <2>5 DEF RoomKept
<1>6. CASE RoomForEntry
  <2>1. G \subseteq F \cup {w} BY <1>4 DEF Filers, Files
  <2>2. Cardinality(G) <= Cardinality(F \cup {w}) /\ IsFiniteSet(G)
    BY <2>1, <1>3, FS_Subset
  <2>3. Cardinality(G) \in Nat BY <2>2, FS_CardinalityType
  <2>4. lastEntry + Cardinality(F) < MaxEntries BY <1>6 DEF RoomForEntry
  <2> HIDE DEF F, G
  <2>5. lastEntry' + Cardinality(G) <= MaxEntries
    BY <1>2, <1>3, <2>2, <2>3, <2>4, LifecycleAssumption
  <2> QED BY <1>1, <2>5 DEF RoomKept
<1> QED BY <1>5, <1>6

\* One that files makes room for its entry.
LEMMA RoomUsed ==
  ASSUME JobsOK, lastEntry \in Nat, RoomKept, NEW w \in Filers, NEW j \in JobType,
         job' = [job EXCEPT ![w] = j], lastEntry' = lastEntry + 1,
         ~Files(j)
  PROVE RoomKept' /\ lastEntry + 1 \in 1 .. MaxEntries
<1> DEFINE F == Filers
<1> DEFINE G == {u \in Processor : Files(job'[u])}
<1>1. Filers' = G BY DEF Filers, Files
<1>2. IsFiniteSet(F) /\ Cardinality(F) \in Nat /\ w \in F /\ w \in Processor
  BY LifecycleAssumption, FS_Subset, FS_CardinalityType DEF Filers
<1>3. \A u \in Processor : job'[u] = IF u = w THEN j ELSE job[u]
  BY <1>2 DEF JobsOK
<1>4. G = F \ {w}
  <2>1. ASSUME NEW u \in G PROVE u \in F \ {w}
    <3>1. u \in Processor /\ Files(job'[u])
      OBVIOUS
    <3>2. u # w BY <1>3, <3>1
    <3>3. job'[u] = job[u] BY <1>3, <3>1, <3>2
    <3> QED BY <3>1, <3>2, <3>3 DEF Filers, Files
  <2>2. \A u \in F \ {w} : u \in G BY <1>3 DEF Filers, Files
  <2> QED BY <2>1, <2>2
<1>5. Cardinality(G) = Cardinality(F) - 1 /\ IsFiniteSet(G)
  <2> HIDE DEF F, G
  <2> QED BY <1>2, <1>4, FS_RemoveElement
<1>6. Cardinality(G) \in Nat BY <1>5, FS_CardinalityType
<1> HIDE DEF F, G
<1>7. lastEntry + Cardinality(F) <= MaxEntries BY DEF RoomKept, F
<1>8. lastEntry' + Cardinality(G) <= MaxEntries /\ lastEntry + 1 \in 1 .. MaxEntries
  BY <1>2, <1>5, <1>6, <1>7, LifecycleAssumption
<1> QED BY <1>1, <1>8 DEF RoomKept

---------------------------------------------------------
(* The shapes hold at the start and every step keeps them.                 *)

\* Budgets that a start may have used up to some extent.
Budget(spent) ==
  /\ spent.entries \in 0 .. MaxEntries /\ spent.touches \in 0 .. MaxTouches
  /\ spent.losses \in 0 .. MaxLosses

\* The shapes hold in the initial states.
LEMMA ShapesInitially ==
  ASSUME NEW Present \in SUBSET Item, NEW spent, Budget(spent),
         LifecycleInitWith(Present, spent)
  PROVE LifecycleShapes
<1> USE DEF LifecycleInitWith, Budget
<1>1. NoJob \in JobType /\ JobOK(NoJob) /\ NoJob.step = "idle"
  BY DEF NoJob, Task, JobType, JobOK
<1>2. JobsOK BY <1>1 DEF JobsOK
<1>3. NoReview \in ReviewType /\ NoReview.step = "idle"
  BY DEF NoReview, ReviewType
<1>4. ReviewsOK BY <1>3 DEF ReviewsOK, ReviewOK
<1>5. EditOK BY DEF EditOK, NoEdit
<1>6. RowsOK BY LifecycleAssumption DEF RowsOK, Status
<1>7. HistoryOK BY DEF HistoryOK
<1>8. EntriesOK BY LifecycleAssumption DEF EntriesOK
<1>9. RoomKept
  <2>1. Filers = {} BY <1>1 DEF Filers
  <2>2. Cardinality(Filers) = 0 BY <2>1, FS_EmptySet
  <2> QED BY <2>2, LifecycleAssumption DEF RoomKept
<1> QED BY <1>2, <1>4, <1>5, <1>6, <1>7, <1>8, <1>9 DEF LifecycleShapes

\* A worker goes on with a job as it should be.
LEMMA JobsChange ==
  ASSUME JobsOK, NEW w \in Processor, NEW j \in JobType, JobOK(j),
         job' = [job EXCEPT ![w] = j]
  PROVE JobsOK'
<1>1. \A u \in Processor : job'[u] = IF u = w THEN j ELSE job[u]
  BY DEF JobsOK
<1>2. job' \in [Processor -> JobType] BY DEF JobsOK
<1>3. \A u \in Processor : JobOK(job'[u])
  BY <1>1 DEF JobsOK
<1> QED BY <1>2, <1>3 DEF JobsOK

\* Without a change in the jobs or the entries the room stays.
LEMMA RoomStays == ASSUME RoomKept, UNCHANGED <<job, lastEntry>> PROVE RoomKept'
<1>1. Filers' = Filers BY DEF Filers
<1> QED BY <1>1 DEF RoomKept

\* A lock that is released leaves locks.
LEMMA ReleaseKeeps ==
  ASSUME locks \in [Stage \X Item -> Processor \cup {Nil}], NEW w \in Processor,
         NEW stage \in Stage, NEW i \in Item, Release(w, stage, i)
  PROVE locks' \in [Stage \X Item -> Processor \cup {Nil}]
BY DEF Release

\* Link: the step keeps what the jobs, the reviews and the entries look like.
LEMMA LinkShapes ==
  ASSUME LifecycleShapes, NEW w \in Processor, NEW i \in Item, Link(w, i)
  PROVE LifecycleShapes'
<1> DEFINE j == Task("check", i, Nil, Nil, Nil)
<1>1. /\ j \in JobType /\ JobOK(j) /\ ~Files(j)
  BY DEF Task, JobType, JobOK, Files
<1>2. job' = [job EXCEPT ![w] = j] /\ lastEntry' = lastEntry
  BY DEF Link, Becomes
<1>3. JobsOK' BY <1>1, <1>2, JobsChange DEF LifecycleShapes
<1>4. RoomKept' BY <1>1, <1>2, RoomLeft DEF LifecycleShapes, EntriesOK
<1>5. RowsOK' /\ HistoryOK' /\ EntriesOK' /\ EditOK' /\ ReviewsOK'
  BY DEF LifecycleShapes, Link, LeavesClock, RowsOK, HistoryOK, EntriesOK, EditOK,
         ReviewsOK, ghostVars
<1> QED BY <1>3, <1>4, <1>5 DEF LifecycleShapes

\* Match: the step keeps what the jobs, the reviews and the entries look like.
LEMMA MatchShapes ==
  ASSUME LifecycleShapes, NEW w \in Processor, NEW i \in Item, NEW related \in Item,
         NEW reason \in {"duplicate", "contradiction"}, LinkAndMatch(w, i, related, reason)
  PROVE LifecycleShapes'
<1> DEFINE j == Task("file", i, related, reason, Nil)
<1>1. j \in JobType /\ JobOK(j)
  BY DEF Task, JobType, JobOK, Reason
<1>2. job' = [job EXCEPT ![w] = j] /\ lastEntry' = lastEntry /\ RoomForEntry
  BY DEF LinkAndMatch, Becomes
<1>3. JobsOK' BY <1>1, <1>2, JobsChange DEF LifecycleShapes
<1>4. RoomKept' BY <1>1, <1>2, RoomLeft DEF LifecycleShapes, EntriesOK
<1>5. RowsOK' /\ EntriesOK' /\ EditOK' /\ ReviewsOK'
  BY DEF LifecycleShapes, LinkAndMatch, LeavesClock, RowsOK, EntriesOK, EditOK,
         ReviewsOK, Stage
<1>6. overlapped' \subseteq SUBSET Item
  BY DEF LifecycleShapes, LinkAndMatch, HistoryOK
<1>7. HistoryOK' BY <1>6 DEF LifecycleShapes, LinkAndMatch, HistoryOK
<1> QED BY <1>3, <1>4, <1>5, <1>7 DEF LifecycleShapes

\* What a step that files an entry, of i, does to the shapes.
LEMMA FileShapes ==
  ASSUME LifecycleShapes, NEW w \in Processor, File(w) PROVE LifecycleShapes'
<1> DEFINE j == Task("check", job[w].item, Nil, Nil, Nil)
<1>1. /\ job[w] \in JobType /\ JobOK(job[w]) /\ job[w].step = "file"
  BY DEF LifecycleShapes, JobsOK, File
<1>2. /\ job[w].item \in Item /\ job[w].related \in Item /\ job[w].reason \in Reason
      /\ w \in Filers
  BY <1>1 DEF JobOK, Filers, Reason
<1>3. j \in JobType /\ JobOK(j) /\ ~Files(j)
  BY <1>2 DEF Task, JobType, JobOK, Files
<1>4. job' = [job EXCEPT ![w] = j] /\ lastEntry' = lastEntry + 1
  BY DEF File, Becomes, AddEntry
<1>5. JobsOK' BY <1>3, <1>4, JobsChange DEF LifecycleShapes
<1>6. RoomKept' /\ lastEntry + 1 \in 1 .. MaxEntries
  BY <1>2, <1>3, <1>4, RoomUsed DEF LifecycleShapes, EntriesOK
<1>7. EntriesOK'
  BY <1>2, <1>6 DEF File, AddEntry, EntriesOK, LifecycleShapes, Entry
<1>8. locks' \in [Stage \X Item -> Processor \cup {Nil}]
  BY <1>2, ReleaseKeeps DEF File, LifecycleShapes, RowsOK, Stage
<1>9. RowsOK' /\ EditOK' /\ ReviewsOK' /\ HistoryOK'
  BY <1>8 DEF LifecycleShapes, File, RowsOK, EditOK, ReviewsOK, HistoryOK, rowVars, ghostVars
<1> QED BY <1>5, <1>6, <1>7, <1>9 DEF LifecycleShapes

\* ReviewFiled: the step keeps what the jobs, the reviews and the entries look
\* like.
LEMMA ReviewFiledShapes ==
  ASSUME LifecycleShapes, NEW w \in Processor, ApplyReview(w) PROVE LifecycleShapes'
<1>1. /\ job[w] \in JobType /\ JobOK(job[w]) /\ job[w].step = "apply"
      /\ job[w].verdict = "review"
  BY DEF LifecycleShapes, JobsOK, ApplyReview
<1>2. job[w].item \in Item /\ w \in Filers
  BY <1>1 DEF JobOK, Filers
<1>3. NoJob \in JobType /\ JobOK(NoJob) /\ ~Files(NoJob)
  BY DEF NoJob, Task, JobType, JobOK, Files
<1>4. job' = [job EXCEPT ![w] = NoJob] /\ lastEntry' = lastEntry + 1
  BY DEF ApplyReview, Becomes, AddEntry
<1>5. JobsOK' BY <1>3, <1>4, JobsChange DEF LifecycleShapes
<1>6. RoomKept' /\ lastEntry + 1 \in 1 .. MaxEntries
  BY <1>2, <1>3, <1>4, RoomUsed DEF LifecycleShapes, EntriesOK
<1>7. EntriesOK'
  BY <1>2, <1>6 DEF ApplyReview, AddEntry, EntriesOK, LifecycleShapes, Entry, Reason
<1>8. RowsOK' /\ EditOK' /\ ReviewsOK' /\ HistoryOK'
  BY DEF LifecycleShapes, ApplyReview, RowsOK, EditOK, ReviewsOK, HistoryOK, rowVars,
         ghostVars
<1> QED BY <1>5, <1>6, <1>7, <1>8 DEF LifecycleShapes

\* Checked: the step keeps what the jobs, the reviews and the entries look like.
LEMMA CheckedShapes ==
  ASSUME LifecycleShapes, NEW w \in Processor, CheckFindsNothing(w)
  PROVE LifecycleShapes'
<1>1. /\ job[w] \in JobType /\ JobOK(job[w]) /\ job[w].step = "check"
  BY DEF LifecycleShapes, JobsOK, CheckFindsNothing
<1>2. job[w].item \in Item /\ Decided(w, job[w].item)
  BY <1>1 DEF JobOK, CheckFindsNothing
<1>3. PICK j \in JobType :
          /\ JobOK(j) /\ job' = [job EXCEPT ![w] = j]
          /\ j.step \in {"idle", "apply"}
          /\ j.step = "apply" /\ j.verdict = "review" => RoomForEntry
  BY <1>2, DecidedJob
<1>4. JobsOK' BY <1>3, JobsChange DEF LifecycleShapes
<1>5. lastEntry' = lastEntry /\ (Files(j) => RoomForEntry)
  BY <1>3 DEF CheckFindsNothing, Files
<1>6. RoomKept' BY <1>3, <1>5, RoomLeft DEF LifecycleShapes, EntriesOK, Files
<1>7. RowsOK' /\ HistoryOK' /\ EntriesOK' /\ EditOK' /\ ReviewsOK'
  BY DEF LifecycleShapes, CheckFindsNothing, RowsOK, HistoryOK, EntriesOK, EditOK,
         ReviewsOK, ghostVars, rowVars
<1> QED BY <1>4, <1>6, <1>7 DEF LifecycleShapes

\* Check: the step keeps what the jobs, the reviews and the entries look like.
LEMMA CheckShapes ==
  ASSUME LifecycleShapes, NEW w \in Processor, Check(w) PROVE LifecycleShapes'
<1> DEFINE i == job[w].item
<1> DEFINE j == Task("mark", i, Nil, Nil, Verdict(i))
<1>1. /\ job[w] \in JobType /\ JobOK(job[w]) /\ job[w].step = "check"
  BY DEF LifecycleShapes, JobsOK, Check
<1>2. i \in Item /\ Verdict(i) # Nil
  BY <1>1 DEF JobOK, Check
<1>3. Verdict(i) \in {"stale", "superseded", "stamp"}
      /\ (Verdict(i) = "stamp" => i \in Document)
  BY <1>2 DEF Verdict
<1>4. j \in JobType /\ JobOK(j) /\ ~Files(j)
  BY <1>2, <1>3 DEF Task, JobType, JobOK, Files
<1>5. job' = [job EXCEPT ![w] = j] /\ lastEntry' = lastEntry
  BY DEF Check, Becomes
<1>6. JobsOK' BY <1>4, <1>5, JobsChange DEF LifecycleShapes
<1>7. RoomKept' BY <1>4, <1>5, RoomLeft DEF LifecycleShapes, EntriesOK
<1>8. locks' \in [Stage \X Item -> Processor \cup {Nil}]
  BY <1>2 DEF Check, LifecycleShapes, RowsOK, Stage
<1>9. RowsOK' /\ HistoryOK' /\ EntriesOK' /\ EditOK' /\ ReviewsOK'
  BY <1>8 DEF LifecycleShapes, Check, RowsOK, HistoryOK, EntriesOK, EditOK,
         ReviewsOK, ghostVars, rowVars
<1> QED BY <1>6, <1>7, <1>9 DEF LifecycleShapes

\* Stamp: the step keeps what the jobs, the reviews and the entries look like.
LEMMA StampShapes ==
  ASSUME LifecycleShapes, NEW w \in Processor, Stamp(w) PROVE LifecycleShapes'
<1>1. /\ job[w] \in JobType /\ JobOK(job[w]) /\ job[w].step = "mark"
      /\ job[w].verdict = "stamp"
  BY DEF LifecycleShapes, JobsOK, Stamp
<1>2. job[w].item \in Item /\ job[w].item \in Document /\ Decided(w, job[w].item)
  BY <1>1 DEF JobOK, Stamp
<1>3. PICK j \in JobType :
          /\ JobOK(j) /\ job' = [job EXCEPT ![w] = j]
          /\ j.step \in {"idle", "apply"}
          /\ j.step = "apply" /\ j.verdict = "review" => RoomForEntry
  BY <1>2, DecidedJob
<1>4. JobsOK' BY <1>3, JobsChange DEF LifecycleShapes
<1>5. lastEntry' = lastEntry /\ (Files(j) => RoomForEntry)
  BY <1>3 DEF Stamp, Files
<1>6. RoomKept' BY <1>3, <1>5, RoomLeft DEF LifecycleShapes, EntriesOK, Files
<1>7. locks' \in [Stage \X Item -> Processor \cup {Nil}]
  BY <1>2, ReleaseKeeps DEF Stamp, LifecycleShapes, RowsOK, Stage
<1>8. RowsOK' /\ HistoryOK' /\ EntriesOK' /\ EditOK' /\ ReviewsOK'
  BY <1>2, <1>7 DEF LifecycleShapes, Stamp, RowsOK, HistoryOK, EntriesOK, EditOK,
         ReviewsOK, ghostVars
<1> QED BY <1>4, <1>6, <1>8 DEF LifecycleShapes

\* The row of i is written while it is there.
LEMMA StatusKeeps ==
  ASSUME status \in [Item -> Status], NEW i \in Item, NEW s \in Status, SetStatus(i, s)
  PROVE status' \in [Item -> Status]
BY DEF SetStatus

\* What two have written at once stays noted.
LEMMA ContestedKeeps ==
  ASSUME contested \subseteq Item, NEW i \in Item, Contested(i) PROVE contested' \subseteq Item
BY DEF Contested

\* A worker that moves on to a well-shaped task keeps the shapes.
LEMMA GoesKeeps ==
  ASSUME JobsOK, NEW w \in Processor, job[w].step \in {"mark", "apply"},
         job[w].verdict \in {"stale", "superseded"}, Goes(w, "mirror")
  PROVE \E j \in JobType :
          /\ JobOK(j) /\ ~Files(j) /\ job' = [job EXCEPT ![w] = j]
          /\ j.step = "mirror" /\ j.item = job[w].item /\ j.verdict = job[w].verdict
<1> DEFINE j == [job[w] EXCEPT !.step = "mirror"]
<1>1. job[w] \in JobType /\ JobOK(job[w]) BY DEF JobsOK
<1>2. /\ j \in JobType /\ j.step = "mirror" /\ j.item = job[w].item
      /\ j.verdict = job[w].verdict
  BY <1>1 DEF JobType
<1>3. job[w].item \in Item BY <1>1 DEF JobOK
<1>4. JobOK(j) /\ ~Files(j)
  <2> HIDE DEF j
  <2> QED BY <1>2, <1>3 DEF JobOK, Files
<1> QED BY <1>2, <1>4 DEF Goes, Becomes

\* Mark: the step keeps what the jobs, the reviews and the entries look like.
LEMMA MarkShapes ==
  ASSUME LifecycleShapes, NEW w \in Processor, Mark(w) PROVE LifecycleShapes'
<1> DEFINE i == job[w].item
<1>1. /\ job[w] \in JobType /\ JobOK(job[w]) /\ job[w].step = "mark"
      /\ job[w].verdict # "stamp"
  BY DEF LifecycleShapes, JobsOK, Mark
<1>2. i \in Item /\ job[w].verdict \in {"stale", "superseded"}
  BY <1>1 DEF JobOK
<1>3. PICK j \in JobType : JobOK(j) /\ ~Files(j) /\ job' = [job EXCEPT ![w] = j]
  BY <1>1, <1>2, GoesKeeps DEF LifecycleShapes, Mark
<1>4. JobsOK' BY <1>3, JobsChange DEF LifecycleShapes
<1>5. lastEntry' = lastEntry BY DEF Mark
<1>6. RoomKept' BY <1>3, <1>5, RoomLeft DEF LifecycleShapes, EntriesOK
<1>7. status' \in [Item -> Status]
  BY <1>2, StatusKeeps DEF Mark, LifecycleShapes, RowsOK, Status
<1>8. contested' \subseteq Item
  BY <1>2, ContestedKeeps DEF Mark, LifecycleShapes, HistoryOK
<1>9. RowsOK' /\ HistoryOK' /\ EntriesOK' /\ EditOK' /\ ReviewsOK'
  BY <1>7, <1>8 DEF LifecycleShapes, Mark, LeavesClock, RowsOK, HistoryOK, EntriesOK,
         EditOK, ReviewsOK
<1> QED BY <1>4, <1>6, <1>9 DEF LifecycleShapes

\* ApplyStale: the step keeps what the jobs, the reviews and the entries look
\* like.
LEMMA ApplyStaleShapes ==
  ASSUME LifecycleShapes, NEW w \in Processor, ApplyStale(w) PROVE LifecycleShapes'
<1> DEFINE i == job[w].item
<1>1. /\ job[w] \in JobType /\ JobOK(job[w]) /\ job[w].step = "apply"
      /\ job[w].verdict = "stale"
  BY DEF LifecycleShapes, JobsOK, ApplyStale
<1>2. i \in Item /\ job[w].verdict \in {"stale", "superseded"}
  BY <1>1 DEF JobOK
<1>3. PICK j \in JobType : JobOK(j) /\ ~Files(j) /\ job' = [job EXCEPT ![w] = j]
  BY <1>1, <1>2, GoesKeeps DEF LifecycleShapes, ApplyStale
<1>4. JobsOK' BY <1>3, JobsChange DEF LifecycleShapes
<1>5. lastEntry' = lastEntry BY DEF ApplyStale
<1>6. RoomKept' BY <1>3, <1>5, RoomLeft DEF LifecycleShapes, EntriesOK
<1>7. status' \in [Item -> Status]
  BY <1>2, StatusKeeps DEF ApplyStale, LifecycleShapes, RowsOK, Status
<1>8. contested' \subseteq Item /\ settled' \subseteq Item
  BY <1>2, ContestedKeeps DEF ApplyStale, LifecycleShapes, HistoryOK
<1>9. RowsOK' /\ HistoryOK' /\ EntriesOK' /\ EditOK' /\ ReviewsOK'
  BY <1>7, <1>8 DEF LifecycleShapes, ApplyStale, LeavesClock, RowsOK, HistoryOK, EntriesOK,
         EditOK, ReviewsOK
<1> QED BY <1>4, <1>6, <1>9 DEF LifecycleShapes

\* Mirror: the step keeps what the jobs, the reviews and the entries look like.
LEMMA MirrorShapes ==
  ASSUME LifecycleShapes, NEW w \in Processor, Mirror(w) PROVE LifecycleShapes'
<1> DEFINE i == job[w].item
<1>1. /\ job[w] \in JobType /\ JobOK(job[w]) /\ job[w].step = "mirror"
  BY DEF LifecycleShapes, JobsOK, Mirror
<1>2. i \in Item /\ job[w].verdict \in Status
  BY <1>1 DEF JobOK, Status
<1>3. \E j \in JobType :
          /\ JobOK(j) /\ job' = [job EXCEPT ![w] = j]
          /\ j.step \in {"idle", "apply"}
          /\ j.step = "apply" /\ j.verdict = "review" => RoomForEntry
  <2>1. NoJob \in JobType /\ JobOK(NoJob) /\ NoJob.step = "idle"
    BY DEF NoJob, Task, JobType, JobOK
  <2>2. CASE Becomes(w, NoJob) BY <2>1, <2>2 DEF Becomes
  <2>3. CASE Decided(w, i) BY <1>2, <2>3, DecidedJob
  <2> QED BY <2>2, <2>3 DEF Mirror
<1>4. PICK j \in JobType :
          /\ JobOK(j) /\ job' = [job EXCEPT ![w] = j]
          /\ j.step \in {"idle", "apply"}
          /\ j.step = "apply" /\ j.verdict = "review" => RoomForEntry
  BY <1>3
<1>5. JobsOK' BY <1>4, JobsChange DEF LifecycleShapes
<1>6. lastEntry' = lastEntry /\ (Files(j) => RoomForEntry)
  BY <1>4 DEF Mirror, Files
<1>7. RoomKept' BY <1>4, <1>6, RoomLeft DEF LifecycleShapes, EntriesOK, Files
<1>8. locks' \in [Stage \X Item -> Processor \cup {Nil}]
  BY <1>2, ReleaseKeeps DEF Mirror, LifecycleShapes, RowsOK, Stage
<1>9. shown' \in [Item -> Status] /\ contested' \subseteq Item /\ losses' \in 0 .. MaxLosses
  BY <1>2, LifecycleAssumption DEF Mirror, Show, Loses, LifecycleShapes, RowsOK, HistoryOK
<1>10. RowsOK' /\ HistoryOK' /\ EntriesOK' /\ EditOK' /\ ReviewsOK'
  BY <1>8, <1>9 DEF LifecycleShapes, Mirror, RowsOK, HistoryOK, EntriesOK, EditOK,
         ReviewsOK, rowVars
<1> QED BY <1>5, <1>7, <1>10 DEF LifecycleShapes

\* JobFails: the step keeps what the jobs, the reviews and the entries look
\* like.
LEMMA JobFailsShapes ==
  ASSUME LifecycleShapes, NEW w \in Processor, JobFails(w) PROVE LifecycleShapes'
<1> DEFINE i == job[w].item
<1>1. /\ job[w] \in JobType /\ JobOK(job[w]) /\ job[w].step \notin {"idle", "mirror"}
  BY DEF LifecycleShapes, JobsOK, JobFails
<1>2. i \in Item BY <1>1 DEF JobType, JobOK
<1>3. NoJob \in JobType /\ JobOK(NoJob) /\ ~Files(NoJob)
  BY DEF NoJob, Task, JobType, JobOK, Files
<1>4. job' = [job EXCEPT ![w] = NoJob] /\ lastEntry' = lastEntry
  BY DEF JobFails, Becomes
<1>5. JobsOK' BY <1>3, <1>4, JobsChange DEF LifecycleShapes
<1>6. RoomKept' BY <1>3, <1>4, RoomLeft DEF LifecycleShapes, EntriesOK
<1>7. locks' \in [Stage \X Item -> Processor \cup {Nil}]
  BY <1>2, ReleaseKeeps DEF JobFails, LifecycleShapes, RowsOK, Stage
<1>8. losses' \in 0 .. MaxLosses
  BY LifecycleAssumption DEF JobFails, Loses, LifecycleShapes, HistoryOK
<1>9. RowsOK' /\ HistoryOK' /\ EntriesOK' /\ EditOK' /\ ReviewsOK'
  BY <1>7, <1>8 DEF LifecycleShapes, JobFails, RowsOK, HistoryOK, EntriesOK,
         EditOK, ReviewsOK, rowVars, ghostVars
<1> QED BY <1>5, <1>6, <1>9 DEF LifecycleShapes

\* Killed: the step keeps what the jobs, the reviews and the entries look like.
LEMMA KilledShapes ==
  ASSUME LifecycleShapes, NEW w \in Processor, Killed(w) PROVE LifecycleShapes'
<1> DEFINE i == job[w].item
<1>1. /\ job[w] \in JobType /\ JobOK(job[w]) /\ job[w] # NoJob
  BY DEF LifecycleShapes, JobsOK, Killed
<1>2. i \in Item BY <1>1 DEF JobType, JobOK
<1>3. NoJob \in JobType /\ JobOK(NoJob) /\ ~Files(NoJob)
  BY DEF NoJob, Task, JobType, JobOK, Files
<1>4. job' = [job EXCEPT ![w] = NoJob] /\ lastEntry' = lastEntry
  BY DEF Killed, Becomes
<1>5. JobsOK' BY <1>3, <1>4, JobsChange DEF LifecycleShapes
<1>6. RoomKept' BY <1>3, <1>4, RoomLeft DEF LifecycleShapes, EntriesOK
<1>7. losses' \in 0 .. MaxLosses
  BY LifecycleAssumption DEF Killed, Loses, LifecycleShapes, HistoryOK
<1>8. RowsOK' /\ HistoryOK' /\ EntriesOK' /\ EditOK' /\ ReviewsOK'
  BY <1>2, <1>7 DEF LifecycleShapes, Killed, RowsOK, HistoryOK, EntriesOK,
         EditOK, ReviewsOK, rowVars
<1> QED BY <1>5, <1>6, <1>8 DEF LifecycleShapes

\* Lapse: the step keeps what the jobs, the reviews and the entries look like.
LEMMA LapseShapes ==
  ASSUME LifecycleShapes, NEW stage \in Stage, NEW i \in Item, LockLapses(stage, i)
  PROVE LifecycleShapes'
<1>1. RoomKept' BY RoomStays DEF LockLapses, LifecycleShapes
<1>2. losses' \in 0 .. MaxLosses
  BY LifecycleAssumption DEF LockLapses, Loses, LifecycleShapes, HistoryOK
<1>3. JobsOK' /\ RowsOK' /\ HistoryOK' /\ EntriesOK' /\ EditOK' /\ ReviewsOK'
  BY <1>2 DEF LifecycleShapes, LockLapses, JobsOK, RowsOK, HistoryOK, EntriesOK,
         EditOK, ReviewsOK, rowVars, ghostVars
<1> QED BY <1>1, <1>3 DEF LifecycleShapes

\* The newest mirror entry is an entry, or there is none.
LEMMA MirrorFacts ==
  ASSUME entries \subseteq Entry, NEW e
  PROVE MirrorOf(e) \in Entry \cup {Nil}
<1>1. NewestOf(MirrorsOf(e)) \subseteq Entry BY DEF NewestOf, MirrorsOf
<1> QED BY <1>1 DEF MirrorOf

\* Read: the step keeps what the jobs, the reviews and the entries look like.
LEMMA ReadShapes ==
  ASSUME LifecycleShapes, NEW v \in Reviewer, NEW e \in entries,
         NEW action \in {"keep", "archive", "merge"}, NEW target \in Item \cup {Nil},
         ReadReview(v, e, action, target)
  PROVE LifecycleShapes'
<1> DEFINE r == [step |-> "commit", entry |-> e, mirror |-> MirrorOf(e),
                 action |-> action, target |-> target]
<1>1. e \in Entry /\ MirrorOf(e) \in Entry \cup {Nil}
  BY MirrorFacts DEF LifecycleShapes, EntriesOK
<1>2. action = "merge" => target \in Item BY DEF ReadReview
<1>3. r \in ReviewType BY <1>1 DEF ReviewType
<1>4. ReviewOK(r) BY <1>1, <1>2 DEF ReviewOK
<1>5. review' = [review EXCEPT ![v] = r] BY DEF ReadReview
<1>6. ReviewsOK' BY <1>3, <1>4, <1>5 DEF LifecycleShapes, ReviewsOK
<1>7. e.id \in 1 .. MaxEntries BY <1>1 DEF Entry
<1>8. raced' \subseteq 1 .. MaxEntries
  BY <1>7 DEF ReadReview, LifecycleShapes, HistoryOK
<1>9. RoomKept' BY RoomStays DEF ReadReview, LifecycleShapes
<1>10. JobsOK' /\ RowsOK' /\ HistoryOK' /\ EntriesOK' /\ EditOK'
  BY <1>8 DEF LifecycleShapes, ReadReview, JobsOK, RowsOK, HistoryOK, EntriesOK,
         EditOK, rowVars
<1> QED BY <1>6, <1>9, <1>10 DEF LifecycleShapes

\* Commit: the step keeps what the jobs, the reviews and the entries look like.
LEMMA CommitShapes ==
  ASSUME LifecycleShapes, NEW v \in Reviewer, CommitReview(v) PROVE LifecycleShapes'
<1> DEFINE i == review[v].entry.target
<1>1. review[v] \in ReviewType /\ ReviewOK(review[v]) /\ review[v].step = "commit"
  BY DEF LifecycleShapes, ReviewsOK, CommitReview
<1>2. /\ review[v].entry \in Entry /\ review[v].action \in {"keep", "archive", "merge"}
      /\ review[v].action = "merge" => review[v].target \in Item
  BY <1>1 DEF ReviewOK
<1>3. i \in Item /\ review[v].entry.id \in 1 .. MaxEntries BY <1>2 DEF Entry
<1> DEFINE r == [review[v] EXCEPT !.step = "mirror"]
<1>4. review' = [review EXCEPT ![v] = r]
  BY DEF CommitReview, LifecycleShapes, ReviewsOK
<1>5. /\ r \in ReviewType /\ r.entry = review[v].entry /\ r.action = review[v].action
      /\ r.target = review[v].target
  BY <1>1 DEF ReviewType
<1>6. ReviewOK(r)
  <2> HIDE DEF r
  <2> QED BY <1>2, <1>5 DEF ReviewOK
<1>7. ReviewsOK' BY <1>4, <1>5, <1>6 DEF LifecycleShapes, ReviewsOK
<1>8. StatusOf(review[v].action) \in Status
  BY <1>2 DEF StatusOf, Status
<1>9. status' \in [Item -> Status]
  BY <1>3, <1>8, StatusKeeps DEF CommitReview, LifecycleShapes, RowsOK
<1>10. into' \in [Item -> Item \cup {Nil}]
  BY <1>2 DEF CommitReview, LifecycleShapes, RowsOK
<1>11. contested' \subseteq Item
  BY <1>3, ContestedKeeps DEF CommitReview, LifecycleShapes, HistoryOK
<1>12. /\ settled' \subseteq Item /\ due' \subseteq Item
       /\ resolved' \subseteq 1 .. MaxEntries /\ again' \subseteq 1 .. MaxEntries
  BY <1>3 DEF CommitReview, LifecycleShapes, HistoryOK
<1>13. EntriesOK' BY DEF CommitReview, LifecycleShapes, EntriesOK
<1>14. RoomKept' BY RoomStays DEF CommitReview, LifecycleShapes
<1>15. RowsOK' BY <1>9, <1>10 DEF CommitReview, BumpsClock, LifecycleShapes, RowsOK
<1>16. JobsOK' /\ HistoryOK' /\ EditOK'
  BY <1>11, <1>12 DEF LifecycleShapes, CommitReview, JobsOK, HistoryOK, EditOK
<1> QED BY <1>7, <1>13, <1>14, <1>15, <1>16 DEF LifecycleShapes

\* MirrorReview: the step keeps what the jobs, the reviews and the entries look
\* like.
LEMMA MirrorReviewShapes ==
  ASSUME LifecycleShapes, NEW v \in Reviewer, MirrorReview(v) PROVE LifecycleShapes'
<1> DEFINE i == review[v].entry.target
<1>1. review[v] \in ReviewType /\ ReviewOK(review[v]) /\ review[v].step = "mirror"
  BY DEF LifecycleShapes, ReviewsOK, MirrorReview
<1>2. review[v].entry \in Entry /\ review[v].action \in {"keep", "archive", "merge"}
  BY <1>1 DEF ReviewOK
<1>3. i \in Item /\ StatusOf(review[v].action) \in Status
  BY <1>2 DEF Entry, StatusOf, Status
<1>4. NoReview \in ReviewType /\ ReviewOK(NoReview)
  BY DEF NoReview, ReviewType, ReviewOK
<1>5. ReviewsOK' BY <1>4 DEF MirrorReview, LifecycleShapes, ReviewsOK
<1>6. shown' \in [Item -> Status] /\ contested' \subseteq Item /\ losses' \in 0 .. MaxLosses
  BY <1>3, LifecycleAssumption
     DEF MirrorReview, Show, Loses, LifecycleShapes, RowsOK, HistoryOK
<1>7. RoomKept' BY RoomStays DEF MirrorReview, LifecycleShapes
<1>8. JobsOK' /\ RowsOK' /\ HistoryOK' /\ EntriesOK' /\ EditOK'
  BY <1>6 DEF LifecycleShapes, MirrorReview, JobsOK, RowsOK, HistoryOK, EntriesOK,
         EditOK, rowVars
<1> QED BY <1>5, <1>7, <1>8 DEF LifecycleShapes

\* World: the step keeps what the jobs, the reviews and the entries look like.
LEMMA WorldShapes ==
  ASSUME LifecycleShapes,
         Scan \/ \E i \in Item : GrowsOld(i) \/ JobAgain(i) \/ DeleteItem(i)
  PROVE LifecycleShapes'
<1>1. UNCHANGED <<job, review, editing, entries, lastEntry>>
  BY DEF Scan, GrowsOld, JobAgain, DeleteItem
<1>2. RoomKept' BY <1>1, RoomStays DEF LifecycleShapes
<1>3. JobsOK' /\ EntriesOK' /\ EditOK' /\ ReviewsOK'
  BY <1>1 DEF LifecycleShapes, JobsOK, EntriesOK, EditOK, ReviewsOK
<1>4. RowsOK' /\ HistoryOK'
  <2>1. CASE Scan
    BY <2>1 DEF Scan, StaleCandidates, LifecycleShapes, RowsOK, HistoryOK, rowVars, ghostVars
  <2>2. ASSUME NEW i \in Item, GrowsOld(i) PROVE RowsOK' /\ HistoryOK'
    BY <2>2, LifecycleAssumption DEF GrowsOld, Touch, LifecycleShapes, RowsOK, HistoryOK
  <2>3. ASSUME NEW i \in Item, JobAgain(i) PROVE RowsOK' /\ HistoryOK'
    BY <2>3, LifecycleAssumption
       DEF JobAgain, Touch, LifecycleShapes, RowsOK, HistoryOK, rowVars, ghostVars
  <2>4. ASSUME NEW i \in Item, DeleteItem(i) PROVE RowsOK' /\ HistoryOK'
    BY <2>4, LifecycleAssumption
       DEF DeleteItem, Touch, LifecycleShapes, RowsOK, HistoryOK, Status
  <2> QED BY <2>1, <2>2, <2>3, <2>4
<1> QED BY <1>2, <1>3, <1>4 DEF LifecycleShapes

\* Edit: the step keeps what the jobs, the reviews and the entries look like.
LEMMA EditShapes ==
  ASSUME LifecycleShapes, NEW i \in Item, EditContent(i) PROVE LifecycleShapes'
<1>1. RoomKept' BY RoomStays DEF EditContent, LifecycleShapes
<1>2. status[i] \in Status BY DEF LifecycleShapes, RowsOK
<1>3. EditOK' BY <1>2 DEF EditContent, EditOK
<1>4. contested' \subseteq Item
  BY ContestedKeeps DEF EditContent, LifecycleShapes, HistoryOK
<1>5. JobsOK' /\ RowsOK' /\ HistoryOK' /\ EntriesOK' /\ ReviewsOK'
  BY <1>4, LifecycleAssumption
     DEF LifecycleShapes, EditContent, Touch, BumpsClock, JobsOK, RowsOK, HistoryOK,
         EntriesOK, ReviewsOK
<1> QED BY <1>1, <1>3, <1>5 DEF LifecycleShapes

\* Index: the step keeps what the jobs, the reviews and the entries look like.
LEMMA IndexShapes ==
  ASSUME LifecycleShapes, IndexEdit PROVE LifecycleShapes'
<1>1. editing.item \in Item /\ editing.status \in Status
  BY DEF LifecycleShapes, EditOK, IndexEdit
<1>2. RoomKept' BY RoomStays DEF IndexEdit, LifecycleShapes
<1>3. EditOK' BY DEF IndexEdit, EditOK, NoEdit
<1>4. shown' \in [Item -> Status] /\ contested' \subseteq Item /\ losses' \in 0 .. MaxLosses
  BY <1>1, LifecycleAssumption DEF IndexEdit, Show, Loses, LifecycleShapes, RowsOK, HistoryOK
<1>5. JobsOK' /\ RowsOK' /\ HistoryOK' /\ EntriesOK' /\ ReviewsOK'
  BY <1>1, <1>4 DEF LifecycleShapes, IndexEdit, JobsOK, RowsOK, HistoryOK, EntriesOK,
         ReviewsOK, rowVars
<1> QED BY <1>2, <1>3, <1>5 DEF LifecycleShapes

\* A step of something else.
LEMMA StutterShapes ==
  ASSUME LifecycleShapes, UNCHANGED lifecycleVars PROVE LifecycleShapes'
<1>1. RoomKept' BY RoomStays DEF lifecycleVars, LifecycleShapes
<1>2. JobsOK' /\ RowsOK' /\ HistoryOK' /\ EntriesOK' /\ EditOK' /\ ReviewsOK'
  BY DEF LifecycleShapes, lifecycleVars, JobsOK, RowsOK, HistoryOK, EntriesOK,
         EditOK, ReviewsOK, rowVars, ghostVars
<1> QED BY <1>1, <1>2 DEF LifecycleShapes

\* So every step keeps the shapes.
LEMMA ShapesKept ==
  ASSUME LifecycleShapes, [LifecycleNext]_lifecycleVars PROVE LifecycleShapes'
<1>1. ASSUME NEW w \in Processor, JobStep(w) \/ JobFails(w) \/ Killed(w)
      PROVE LifecycleShapes'
  BY <1>1, LinkShapes, MatchShapes, FileShapes, CheckedShapes, CheckShapes, StampShapes,
     MarkShapes, MirrorShapes, ApplyStaleShapes, ReviewFiledShapes, JobFailsShapes,
     KilledShapes DEF JobStep
<1>2. ASSUME NEW v \in Reviewer,
             \/ \E e \in entries, action \in {"keep", "archive", "merge"},
                  target \in Item \cup {Nil} : ReadReview(v, e, action, target)
             \/ CommitReview(v) \/ MirrorReview(v)
      PROVE LifecycleShapes'
  BY <1>2, ReadShapes, CommitShapes, MirrorReviewShapes
<1> QED
  BY <1>1, <1>2, LapseShapes, WorldShapes, EditShapes, IndexShapes, StutterShapes
     DEF LifecycleNext

---------------------------------------------------------
(* What becomes of the job of a worker in the steps that matter to no       *)
(* other part of the invariant.                                             *)

Quiet(w) ==
  \/ \E i \in Item : Link(w, i)
  \/ File(w) \/ CheckFindsNothing(w) \/ Stamp(w) \/ Mirror(w) \/ ApplyReview(w)
  \/ JobFails(w) \/ Killed(w)

\* The steps of a worker that write no status leave its job idle, at its check
\* or about to apply.
LEMMA QuietJob ==
  ASSUME LifecycleShapes, NEW w \in Processor, Quiet(w)
  PROVE \E j \in JobType :
          job' = [job EXCEPT ![w] = j] /\ j.step \in {"idle", "check", "apply"}
<1>1. /\ NoJob \in JobType /\ NoJob.step = "idle"
      /\ \A i \in Item : /\ Task("check", i, Nil, Nil, Nil) \in JobType
                         /\ Task("check", i, Nil, Nil, Nil).step = "check"
  BY DEF NoJob, Task, JobType
<1>2. ASSUME NEW i \in Item, Link(w, i)
      PROVE job' = [job EXCEPT ![w] = Task("check", i, Nil, Nil, Nil)]
  BY <1>2 DEF Link, Becomes
<1>3. job[w] \in JobType /\ JobOK(job[w]) BY DEF LifecycleShapes, JobsOK
<1>4. job[w].step \in {"file", "check", "mark", "mirror"} => job[w].item \in Item
  BY <1>3 DEF JobOK
<1>5. CASE File(w)
  BY <1>1, <1>4, <1>5 DEF File, Becomes
<1>6. CASE CheckFindsNothing(w) \/ Stamp(w) \/ Mirror(w)
  <2>1. job[w].item \in Item BY <1>4, <1>6 DEF CheckFindsNothing, Stamp, Mirror
  <2>2. Becomes(w, NoJob) \/ Decided(w, job[w].item)
    BY <1>6 DEF CheckFindsNothing, Stamp, Mirror
  <2> QED BY <1>1, <2>1, <2>2, DecidedJob DEF Becomes
<1>7. CASE ApplyReview(w) \/ JobFails(w) \/ Killed(w)
  BY <1>1, <1>7 DEF ApplyReview, JobFails, Killed, Becomes
<1> QED BY <1>1, <1>2, <1>5, <1>6, <1>7 DEF Quiet

\* The same for every worker: another keeps its job.
LEMMA QuietJobs ==
  ASSUME LifecycleShapes, NEW w \in Processor, Quiet(w), NEW u \in Processor
  PROVE job'[u] = job[u] \/ job'[u].step \in {"idle", "check", "apply"}
BY QuietJob DEF LifecycleShapes, JobsOK

\* A worker that matched a pair is about to file it; the others keep their jobs.
LEMMA MatchJob ==
  ASSUME LifecycleShapes, NEW w \in Processor, NEW i \in Item, NEW related \in Item,
         NEW reason \in {"duplicate", "contradiction"}, LinkAndMatch(w, i, related, reason)
  PROVE /\ \A u \in Processor \ {w} : job'[u] = job[u]
        /\ job'[w].step = "file" /\ job'[w].item = i /\ job'[w].related = related
        /\ job'[w].reason = reason /\ job[w].step = "idle"
BY DEF LifecycleShapes, JobsOK, LinkAndMatch, Becomes, Task, NoJob

\* A worker that found a record old is about to mark it; the others keep their
\* jobs.
LEMMA CheckJob ==
  ASSUME LifecycleShapes, NEW w \in Processor, Check(w)
  PROVE /\ \A u \in Processor \ {w} : job'[u] = job[u]
        /\ job'[w].step = "mark" /\ job'[w].item = job[w].item /\ job[w].item \in Item
        /\ job[w].step = "check" /\ Verdict(job[w].item) # Nil
<1>1. job[w] \in JobType /\ JobOK(job[w]) /\ job[w].step = "check"
  BY DEF LifecycleShapes, JobsOK, Check
<1>2. job[w].item \in Item BY <1>1 DEF JobOK
<1> QED BY <1>1, <1>2 DEF LifecycleShapes, JobsOK, Check, Becomes, Task

\* A worker that wrote a status is about to mirror it; the others keep their
\* jobs.
LEMMA MarkJob ==
  ASSUME LifecycleShapes, NEW w \in Processor, Mark(w) \/ ApplyStale(w)
  PROVE /\ \A u \in Processor \ {w} : job'[u] = job[u]
        /\ job'[w].step = "mirror" /\ job'[w].item = job[w].item /\ job[w].item \in Item
        /\ job'[w].verdict = job[w].verdict /\ job[w].step \in {"mark", "apply"}
        /\ job[w].verdict \in {"stale", "superseded"}
        /\ SetStatus(job[w].item, job[w].verdict) /\ Contested(job[w].item)
<1>1. /\ job[w] \in JobType /\ JobOK(job[w]) /\ job[w].step \in {"mark", "apply"}
  BY DEF LifecycleShapes, JobsOK, Mark, ApplyStale
<1>2. job[w].item \in Item BY <1>1 DEF JobOK
<1>3. job[w].verdict \in {"stale", "superseded"} BY <1>1 DEF JobOK, Mark, ApplyStale
<1>4. Goes(w, "mirror") BY DEF Mark, ApplyStale
<1>5. PICK j \in JobType :
          /\ job' = [job EXCEPT ![w] = j]
          /\ j.step = "mirror" /\ j.item = job[w].item /\ j.verdict = job[w].verdict
  BY <1>1, <1>3, <1>4, GoesKeeps DEF LifecycleShapes
<1>6. \A u \in Processor : job'[u] = IF u = w THEN j ELSE job[u]
  BY <1>5 DEF LifecycleShapes, JobsOK
<1> QED BY <1>1, <1>2, <1>3, <1>5, <1>6 DEF Mark, ApplyStale

\* A reviewer that committed is about to mirror what he decided; the others keep
\* their reviews.
LEMMA CommitFacts ==
  ASSUME LifecycleShapes, NEW v \in Reviewer, CommitReview(v)
  PROVE /\ \A u \in Reviewer \ {v} : review'[u] = review[u]
        /\ review'[v].step = "mirror" /\ review'[v].entry = review[v].entry
        /\ review'[v].action = review[v].action
        /\ review[v].step = "commit" /\ review[v].entry \in Entry
        /\ review[v].entry.target \in Item /\ review[v].entry.id \in 1 .. MaxEntries
        /\ review[v].action \in {"keep", "archive", "merge"}
        /\ StatusOf(review[v].action) \in Status \ {"gone"}
<1>1. /\ review[v] \in ReviewType /\ ReviewOK(review[v]) /\ review[v].step = "commit"
      /\ review' = [review EXCEPT ![v] = [review[v] EXCEPT !.step = "mirror"]]
  BY DEF LifecycleShapes, ReviewsOK, CommitReview
<1>2. review[v].entry \in Entry /\ review[v].action \in {"keep", "archive", "merge"}
  BY <1>1 DEF ReviewOK
<1>3. review[v].entry.target \in Item /\ review[v].entry.id \in 1 .. MaxEntries
  BY <1>2 DEF Entry
<1>4. StatusOf(review[v].action) \in Status \ {"gone"}
  BY <1>2 DEF StatusOf, Status
<1>5. \A u \in Reviewer \ {v} : review'[u] = review[u]
  BY <1>1 DEF LifecycleShapes, ReviewsOK
<1>6. review'[v] = [review[v] EXCEPT !.step = "mirror"]
  BY <1>1 DEF LifecycleShapes, ReviewsOK
<1>7. /\ review'[v].step = "mirror" /\ review'[v].entry = review[v].entry
      /\ review'[v].action = review[v].action
  BY <1>1, <1>6 DEF ReviewType
<1> QED BY <1>1, <1>2, <1>3, <1>4, <1>5, <1>7

\* A row that is gone stays so.
LEMMA GoneStays ==
  ASSUME LifecycleShapes, [LifecycleNext]_lifecycleVars, NEW i \in Item, ~Exists(i)
  PROVE ~Exists(i)'
<1> USE DEF Exists
<1>1. ASSUME NEW w \in Processor, Mark(w) \/ ApplyStale(w) PROVE ~Exists(i)'
  BY <1>1, MarkJob DEF SetStatus, LifecycleShapes, RowsOK
<1>2. ASSUME NEW v \in Reviewer, CommitReview(v) PROVE ~Exists(i)'
  BY <1>2, CommitFacts DEF CommitReview, SetStatus, LifecycleShapes, RowsOK
<1>3. ASSUME NEW w \in Processor, NEW k \in Item, Link(w, k) PROVE ~Exists(i)'
  BY <1>3 DEF Link
<1>4. ASSUME NEW w \in Processor, NEW k \in Item, NEW related \in Item,
             NEW reason \in {"duplicate", "contradiction"}, LinkAndMatch(w, k, related, reason)
      PROVE ~Exists(i)'
  BY <1>4 DEF LinkAndMatch
<1>5. ASSUME NEW w \in Processor,
             \/ File(w) \/ CheckFindsNothing(w) \/ Check(w) \/ Stamp(w) \/ Mirror(w)
             \/ ApplyReview(w) \/ JobFails(w) \/ Killed(w)
      PROVE ~Exists(i)'
  BY <1>5 DEF File, CheckFindsNothing, Check, Stamp, Mirror, ApplyReview, JobFails,
              Killed, rowVars
<1>6. ASSUME NEW stage \in Stage, NEW k \in Item, LockLapses(stage, k) PROVE ~Exists(i)'
  BY <1>6 DEF LockLapses, rowVars
<1>7. ASSUME NEW v \in Reviewer, NEW e \in entries, NEW action \in {"keep", "archive", "merge"},
             NEW target \in Item \cup {Nil}, ReadReview(v, e, action, target)
      PROVE ~Exists(i)'
  BY <1>7 DEF ReadReview, rowVars
<1>8. ASSUME NEW v \in Reviewer, MirrorReview(v) PROVE ~Exists(i)'
  BY <1>8 DEF MirrorReview, rowVars
<1>9. ASSUME NEW k \in Item, GrowsOld(k) \/ JobAgain(k) \/ EditContent(k) \/ DeleteItem(k)
      PROVE ~Exists(i)'
  BY <1>9 DEF GrowsOld, JobAgain, EditContent, DeleteItem, rowVars, LifecycleShapes, RowsOK
<1>10. CASE Scan \/ IndexEdit \/ UNCHANGED lifecycleVars
  BY <1>10 DEF Scan, IndexEdit, lifecycleVars, rowVars
<1> QED
  BY <1>1, <1>2, <1>3, <1>4, <1>5, <1>6, <1>7, <1>8, <1>9, <1>10 DEF LifecycleNext, JobStep

---------------------------------------------------------
(* A record that a reviewer has kept is active, carries no merge, is not    *)
(* old, and no Monitor has concluded anything else about it.                *)

Marks(j, i) == j.step = "mark" /\ j.item = i

KeptInv ==
  \A i \in settled :
     /\ status[i] = "active" /\ into[i] = Nil /\ i \notin aged
     /\ \A w \in Processor : ~Marks(job[w], i)

\* A step that keeps row, merge and age of the kept records, and sends no
\* Monitor to mark one, keeps KeptInv.
LEMMA KeptFrame ==
  ASSUME KeptInv, settled' \subseteq settled,
         \A i \in settled' : /\ status'[i] = status[i] /\ into'[i] = into[i]
                             /\ i \in aged' => i \in aged
                             /\ \A w \in Processor : Marks(job'[w], i) => Marks(job[w], i)
  PROVE KeptInv'
<1>1. SUFFICES ASSUME NEW i \in settled'
               PROVE /\ status'[i] = "active" /\ into'[i] = Nil /\ i \notin aged'
                     /\ \A w \in Processor : ~Marks(job'[w], i)
  BY DEF KeptInv
<1>2. /\ i \in settled
      /\ status'[i] = status[i] /\ into'[i] = into[i] /\ (i \in aged' => i \in aged)
      /\ \A w \in Processor : Marks(job'[w], i) => Marks(job[w], i)
  OBVIOUS
<1>3. /\ status[i] = "active" /\ into[i] = Nil /\ i \notin aged
      /\ \A w \in Processor : ~Marks(job[w], i)
  BY <1>2 DEF KeptInv
<1> QED BY <1>2, <1>3

\* Every step keeps KeptInv.
LEMMA KeptKept ==
  ASSUME LifecycleShapes, KeptInv, [LifecycleNext]_lifecycleVars
  PROVE KeptInv'
<1>1. ASSUME NEW w \in Processor, Quiet(w) PROVE KeptInv'
  <2>1. UNCHANGED <<status, into, aged, settled>>
    BY <1>1 DEF Quiet, Link, LeavesClock, File, CheckFindsNothing, Stamp, Mirror, ApplyReview,
                JobFails, Killed, rowVars, ghostVars
  <2>2. \A i \in settled, u \in Processor : Marks(job'[u], i) => Marks(job[u], i)
    BY <1>1, QuietJobs DEF Marks
  <2> QED BY <2>1, <2>2, KeptFrame
<1>2. ASSUME NEW w \in Processor, NEW i \in Item, NEW related \in Item,
             NEW reason \in {"duplicate", "contradiction"}, LinkAndMatch(w, i, related, reason)
      PROVE KeptInv'
  <2>1. UNCHANGED <<status, into, aged, settled>> BY <1>2 DEF LinkAndMatch, LeavesClock
  <2>2. \A k \in settled, u \in Processor : Marks(job'[u], k) => Marks(job[u], k)
    BY <1>2, MatchJob DEF Marks
  <2> QED BY <2>1, <2>2, KeptFrame
<1>3. ASSUME NEW w \in Processor, Check(w) PROVE KeptInv'
  <2>1. UNCHANGED <<status, into, aged, settled>> BY <1>3 DEF Check, rowVars, ghostVars
  <2>2. job[w].item \notin settled BY <1>3, CheckJob DEF KeptInv, Verdict
  <2>3. \A k \in settled, u \in Processor : Marks(job'[u], k) => Marks(job[u], k)
    BY <1>3, <2>2, CheckJob DEF Marks
  <2> QED BY <2>1, <2>3, KeptFrame
<1>4. ASSUME NEW w \in Processor, Mark(w) \/ ApplyStale(w) PROVE KeptInv'
  <2>1. job[w].item \notin settled'
    BY <1>4, MarkJob DEF KeptInv, Mark, ApplyStale, Marks
  <2>2. settled' \subseteq settled /\ UNCHANGED <<into, aged>>
    BY <1>4 DEF Mark, ApplyStale, LeavesClock
  <2>3. \A i \in settled' : status'[i] = status[i]
    <3>1. settled \subseteq Item /\ status \in [Item -> Status]
      BY DEF LifecycleShapes, RowsOK, HistoryOK
    <3>2. SetStatus(job[w].item, job[w].verdict) BY <1>4, MarkJob
    <3> QED BY <2>1, <2>2, <3>1, <3>2 DEF SetStatus
  <2>4. \A i \in settled', u \in Processor : Marks(job'[u], i) => Marks(job[u], i)
    BY <1>4, MarkJob DEF Marks
  <2> QED BY <2>2, <2>3, <2>4, KeptFrame
<1>5. ASSUME NEW v \in Reviewer, CommitReview(v) PROVE KeptInv'
  <2> DEFINE i == review[v].entry.target
  <2>1. i \in Item /\ review[v].action \in {"keep", "archive", "merge"}
    BY <1>5, CommitFacts
  <2>2. /\ job' = job /\ settled \subseteq Item /\ aged' = aged \ {i}
        /\ SetStatus(i, StatusOf(review[v].action))
        /\ into' = into \/ into' = [into EXCEPT ![i] = review[v].target]
        /\ settled' = settled \cup {i} \/ settled' = settled \ {i}
        /\ status \in [Item -> Status] /\ into \in [Item -> Item \cup {Nil}]
    BY <1>5 DEF CommitReview, BumpsClock, LifecycleShapes, RowsOK, HistoryOK
  <2>3. ASSUME i \in settled'
        PROVE /\ status'[i] = "active" /\ into'[i] = Nil /\ i \notin aged'
              /\ \A w \in Processor : ~Marks(job'[w], i)
    <3>1. review[v].action = "keep" /\ Exists(i) /\ into[i] = Nil /\ ~Concluded(i)
      BY <1>5, <2>3 DEF CommitReview
    <3>2. status'[i] = "active" /\ i \notin aged'
      BY <2>1, <2>2, <3>1 DEF SetStatus, StatusOf
    <3>3. into' = into BY <1>5, <3>1 DEF CommitReview
    <3>4. \A w \in Processor : ~Marks(job'[w], i)
      BY <2>2, <3>1 DEF Concluded, Marks
    <3> QED BY <3>1, <3>2, <3>3, <3>4
  <2>4. settled' \subseteq Item BY <1>5, CommitShapes DEF LifecycleShapes, HistoryOK
  <2>5. ASSUME NEW k \in settled', k # i
        PROVE /\ status'[k] = "active" /\ into'[k] = Nil /\ k \notin aged'
              /\ \A w \in Processor : ~Marks(job'[w], k)
    <3>1. k \in settled /\ k \in Item BY <2>2, <2>4, <2>5
    <3>2. status'[k] = status[k] /\ into'[k] = into[k] /\ k \notin aged'
      BY <2>2, <2>5, <3>1 DEF SetStatus, KeptInv
    <3>3. \A w \in Processor : ~Marks(job'[w], k) BY <2>2, <3>1 DEF KeptInv, Marks
    <3> QED BY <3>1, <3>2, <3>3 DEF KeptInv
  <2>6. \A k \in settled' :
          /\ status'[k] = "active" /\ into'[k] = Nil /\ k \notin aged'
          /\ \A w \in Processor : ~Marks(job'[w], k)
    BY <2>3, <2>5
  <2> QED BY <2>6 DEF KeptInv
<1>6. ASSUME settled' \subseteq settled, aged' \subseteq aged, UNCHANGED <<status, into, job>>
      PROVE KeptInv'
  BY <1>6, KeptFrame DEF Marks
<1>7. ASSUME NEW stage \in Stage, NEW i \in Item, LockLapses(stage, i) PROVE KeptInv'
  BY <1>6, <1>7 DEF LockLapses, rowVars, ghostVars
<1>8. ASSUME NEW v \in Reviewer, NEW e \in entries, NEW action \in {"keep", "archive", "merge"},
             NEW target \in Item \cup {Nil}, ReadReview(v, e, action, target)
      PROVE KeptInv'
  BY <1>6, <1>8 DEF ReadReview, rowVars
<1>9. ASSUME NEW v \in Reviewer, MirrorReview(v) PROVE KeptInv'
  BY <1>6, <1>9 DEF MirrorReview, rowVars
<1>10. ASSUME NEW i \in Item, JobAgain(i) \/ EditContent(i) PROVE KeptInv'
  BY <1>6, <1>10 DEF JobAgain, EditContent, BumpsClock, rowVars, ghostVars
<1>11. CASE Scan \/ IndexEdit \/ UNCHANGED lifecycleVars
  BY <1>6, <1>11 DEF Scan, IndexEdit, lifecycleVars, rowVars, ghostVars
<1>12. ASSUME NEW i \in Item, GrowsOld(i) PROVE KeptInv'
  <2>1. /\ settled' = settled \ {i} /\ aged' = aged \cup {i}
        /\ UNCHANGED <<status, into, job>>
    BY <1>12 DEF GrowsOld
  <2> QED BY <2>1, KeptFrame DEF Marks
<1>13. ASSUME NEW i \in Item, DeleteItem(i) PROVE KeptInv'
  <2>1. /\ settled' = settled \ {i} /\ UNCHANGED <<aged, into, job>>
        /\ \A k \in Item \ {i} : status'[k] = status[k]
        /\ settled \subseteq Item
    BY <1>13 DEF DeleteItem, LifecycleShapes, RowsOK, HistoryOK
  <2> QED BY <2>1, KeptFrame DEF Marks
<1> QED
  BY <1>1, <1>2, <1>3, <1>4, <1>5, <1>7, <1>8, <1>9, <1>10, <1>11, <1>12, <1>13
     DEF LifecycleNext, JobStep, Quiet

---------------------------------------------------------
(* Two entries of a pair, or a pair that is filed and is about to be filed  *)
(* again, only when two workers had it in hand at once.                     *)

Pair(w) == {job[w].item, job[w].related}
Matched(w) == job[w].step = "file"

PairInv ==
  /\ OneEntryPerPair
  /\ \A w \in Processor :
        /\ Matched(w) /\ Filed(job[w].item, job[w].related, job[w].reason)
        => Pair(w) \in overlapped
  /\ \A u, w \in Processor :
        u # w /\ Matched(u) /\ Matched(w) /\ Pair(u) = Pair(w) => Pair(w) \in overlapped

\* Jobs that file are those that filed before, and no entry is new.
LEMMA PairFrame ==
  ASSUME PairInv, entries' \subseteq entries, overlapped' = overlapped,
         \A w \in Processor : Matched(w)' => job'[w] = job[w]
  PROVE PairInv'
<1>1. OneEntryPerPair' BY DEF PairInv, OneEntryPerPair
<1>2. \A w \in Processor : Matched(w)' => Matched(w) /\ Pair(w)' = Pair(w)
  BY DEF Matched, Pair
<1>3. \A w \in Processor :
        /\ Matched(w)' /\ Filed(job[w].item, job[w].related, job[w].reason)'
        => Filed(job[w].item, job[w].related, job[w].reason)
  BY DEF Matched, Filed
<1> QED BY <1>1, <1>2, <1>3 DEF PairInv

\* Every step keeps PairInv.
LEMMA PairKept ==
  ASSUME LifecycleShapes, PairInv, [LifecycleNext]_lifecycleVars
  PROVE PairInv'
<1>1. ASSUME NEW w \in Processor, Quiet(w), ~File(w), ~ApplyReview(w) PROVE PairInv'
  <2>1. UNCHANGED <<entries, overlapped>>
    BY <1>1 DEF Quiet, Link, CheckFindsNothing, Stamp, Mirror, JobFails, Killed, ghostVars
  <2>2. \A u \in Processor : Matched(u)' => job'[u] = job[u]
    BY <1>1, QuietJobs DEF Matched
  <2> QED BY <2>1, <2>2, PairFrame
<1>2. ASSUME NEW w \in Processor, ApplyReview(w) PROVE PairInv'
  <2> DEFINE e == [id |-> lastEntry + 1, target |-> job[w].item, related |-> Nil,
                   reason |-> "low_confidence"]
  <2>1. entries' = entries \cup {e} /\ overlapped' = overlapped
    BY <1>2 DEF ApplyReview, AddEntry, ghostVars
  <2>2. \A u \in Processor : Matched(u)' => job'[u] = job[u]
    BY <1>2, QuietJobs DEF Matched, Quiet
  <2>3. job[w].item \in Item
    BY <1>2 DEF ApplyReview, LifecycleShapes, JobsOK, JobOK
  <2>4. \A f \in entries : f.target \in Item BY DEF LifecycleShapes, EntriesOK, Entry
  <2>5. e.related = Nil /\ e.target \in Item BY <2>3
  <2>6. OneEntryPerPair'
    <3>1. SUFFICES ASSUME NEW f \in entries', NEW g \in entries', f # g, f.related # Nil,
                          f.reason = g.reason,
                          {f.target, f.related} = {g.target, g.related},
                          f.target = g.target \/ {f.target, g.target} \cap Document = {}
                   PROVE {f.target, f.related} \in overlapped
      BY <2>1 DEF OneEntryPerPair
    <3>2. f \in entries BY <2>1, <2>5, <3>1
    <3>3. g.related # Nil
      BY <2>1, <2>4, <2>5, <3>1, <3>2, LifecycleAssumption
    <3>4. g \in entries BY <2>1, <2>5, <3>1, <3>3
    <3> QED BY <3>1, <3>2, <3>4 DEF PairInv, OneEntryPerPair
  <2>7. ASSUME NEW u \in Processor, Matched(u)',
               Filed(job[u].item, job[u].related, job[u].reason)'
        PROVE Pair(u)' \in overlapped
    <3>1. job'[u] = job[u] /\ Matched(u) /\ Pair(u)' = Pair(u)
      BY <2>2, <2>7 DEF Matched, Pair
    <3>2. job[u].item \in Item /\ job[u].related \in Item
      BY <3>1 DEF Matched, LifecycleShapes, JobsOK, JobOK
    <3>3. Filed(job[u].item, job[u].related, job[u].reason)
      BY <2>1, <2>5, <2>7, <3>1, <3>2, LifecycleAssumption DEF Filed
    <3> QED BY <3>1, <3>3 DEF PairInv
  <2>8. \A u, x \in Processor :
          u # x /\ Matched(u)' /\ Matched(x)' /\ Pair(u)' = Pair(x)' => Pair(x)' \in overlapped
    BY <2>2 DEF PairInv, Matched, Pair
  <2> QED BY <2>1, <2>6, <2>7, <2>8 DEF PairInv
<1>3. ASSUME NEW w \in Processor, File(w) PROVE PairInv'
  <2> DEFINE e == [id |-> lastEntry + 1, target |-> job[w].item, related |-> job[w].related,
                   reason |-> job[w].reason]
  <2>1. entries' = entries \cup {e} /\ overlapped' = overlapped /\ Matched(w)
    BY <1>3 DEF File, AddEntry, ghostVars, Matched
  <2>2. \A u \in Processor : Matched(u)' => job'[u] = job[u]
    BY <1>3, QuietJobs DEF Matched, Quiet
  <2>3. ~Matched(w)'
    BY <1>3 DEF File, Becomes, Matched, Task, LifecycleShapes, JobsOK
  <2>4. {e.target, e.related} = Pair(w) BY DEF Pair
  <2>5. ASSUME NEW f \in entries, f.reason = e.reason,
               {f.target, f.related} = {e.target, e.related},
               f.target = e.target \/ {f.target, e.target} \cap Document = {}
        PROVE Pair(w) \in overlapped
    <3>1. \/ f.target = job[w].item /\ f.related = job[w].related
          \/ /\ job[w].item \notin Document
             /\ f.target = job[w].related /\ f.related = job[w].item
      BY <2>5
    <3>2. Filed(job[w].item, job[w].related, job[w].reason)
      BY <2>5, <3>1 DEF Filed
    <3> QED BY <2>1, <3>2 DEF PairInv
  <2>6. OneEntryPerPair'
    <3>1. SUFFICES ASSUME NEW f \in entries', NEW g \in entries', f # g, f.related # Nil,
                          f.reason = g.reason,
                          {f.target, f.related} = {g.target, g.related},
                          f.target = g.target \/ {f.target, g.target} \cap Document = {}
                   PROVE {f.target, f.related} \in overlapped
      BY <2>1 DEF OneEntryPerPair
    <3>2. CASE f \in entries /\ g \in entries BY <3>1, <3>2 DEF PairInv, OneEntryPerPair
    <3>3. CASE f = e
      <4> HIDE DEF e
      <4> QED BY <2>1, <2>4, <2>5, <3>1, <3>3
    <3>4. CASE g = e
      <4> HIDE DEF e
      <4> QED BY <2>1, <2>4, <2>5, <3>1, <3>4
    <3> QED BY <2>1, <3>2, <3>3, <3>4
  <2>7. ASSUME NEW u \in Processor, Matched(u)',
               Filed(job[u].item, job[u].related, job[u].reason)'
        PROVE Pair(u)' \in overlapped
    <3>1. job'[u] = job[u] /\ Matched(u) /\ Pair(u)' = Pair(u) /\ u # w
      BY <2>2, <2>3, <2>7 DEF Matched, Pair
    <3>2. PICK f \in entries \cup {e} :
            /\ f.reason = job[u].reason
            /\ \/ f.target = job[u].item /\ f.related = job[u].related
               \/ /\ job[u].item \notin Document
                  /\ f.target = job[u].related /\ f.related = job[u].item
      BY <2>1, <2>7, <3>1 DEF Filed
    <3>3. CASE f \in entries
      BY <3>1, <3>2, <3>3 DEF PairInv, Filed
    <3>4. CASE f = e
      <4>1. {f.target, f.related} = Pair(u) BY <3>2 DEF Pair
      <4>2. Pair(u) = Pair(w) BY <2>4, <3>4, <4>1
      <4> QED BY <2>1, <3>1, <4>2 DEF PairInv
    <3> QED BY <3>2, <3>3, <3>4
  <2>8. \A u, x \in Processor :
          u # x /\ Matched(u)' /\ Matched(x)' /\ Pair(u)' = Pair(x)' => Pair(x)' \in overlapped
    BY <2>2 DEF PairInv, Matched, Pair
  <2> QED BY <2>1, <2>6, <2>7, <2>8 DEF PairInv
<1>4. ASSUME NEW w \in Processor, NEW i \in Item, NEW related \in Item,
             NEW reason \in {"duplicate", "contradiction"}, LinkAndMatch(w, i, related, reason)
      PROVE PairInv'
  <2>1. /\ entries' = entries /\ ~Filed(i, related, reason)
        /\ overlapped' = overlapped \cup {{i, related} : v \in
             {v \in Processor \ {w} : /\ job[v].step = "file"
                                      /\ {job[v].item, job[v].related} = {i, related}}}
    BY <1>4 DEF LinkAndMatch
  <2>2. /\ \A u \in Processor \ {w} : job'[u] = job[u]
        /\ job'[w].item = i /\ job'[w].related = related /\ job'[w].reason = reason
    BY <1>4, MatchJob
  <2>3. Pair(w)' = {i, related} BY <2>2 DEF Pair
  <2>4. ASSUME NEW u \in Processor, u # w, Matched(u)', Pair(u)' = {i, related}
        PROVE {i, related} \in overlapped'
    BY <2>1, <2>2, <2>4 DEF Matched, Pair
  <2>5. OneEntryPerPair' BY <2>1 DEF PairInv, OneEntryPerPair
  <2>6. ASSUME NEW u \in Processor, Matched(u)',
               Filed(job[u].item, job[u].related, job[u].reason)'
        PROVE Pair(u)' \in overlapped'
    <3>1. Filed(job'[u].item, job'[u].related, job'[u].reason) BY <2>1, <2>6 DEF Filed
    <3>2. u # w BY <2>1, <2>2, <3>1
    <3>3. job'[u] = job[u] BY <2>2, <3>2
    <3> QED BY <2>1, <2>6, <3>1, <3>3 DEF PairInv, Matched, Pair
  <2>7. ASSUME NEW u \in Processor, NEW x \in Processor, u # x, Matched(u)', Matched(x)',
               Pair(u)' = Pair(x)'
        PROVE Pair(x)' \in overlapped'
    <3>1. CASE u = w BY <2>3, <2>4, <2>7, <3>1
    <3>2. CASE x = w BY <2>3, <2>4, <2>7, <3>2
    <3>3. CASE u # w /\ x # w
      BY <2>1, <2>2, <2>7, <3>3 DEF PairInv, Matched, Pair
    <3> QED BY <3>1, <3>2, <3>3
  <2> QED BY <2>5, <2>6, <2>7 DEF PairInv
<1>5. ASSUME NEW w \in Processor, Check(w) \/ Mark(w) \/ ApplyStale(w) PROVE PairInv'
  <2>1. UNCHANGED <<entries, overlapped>> BY <1>5 DEF Check, Mark, ApplyStale, ghostVars
  <2>2. \A u \in Processor : Matched(u)' => job'[u] = job[u]
    BY <1>5, CheckJob, MarkJob DEF Matched
  <2> QED BY <2>1, <2>2, PairFrame
<1>6. ASSUME entries' \subseteq entries, UNCHANGED <<overlapped, job>> PROVE PairInv'
  BY <1>6, PairFrame
<1>7. ASSUME NEW stage \in Stage, NEW i \in Item, LockLapses(stage, i) PROVE PairInv'
  BY <1>6, <1>7 DEF LockLapses, ghostVars
<1>8. ASSUME NEW v \in Reviewer, NEW e \in entries, NEW action \in {"keep", "archive", "merge"},
             NEW target \in Item \cup {Nil}, ReadReview(v, e, action, target)
      PROVE PairInv'
  BY <1>6, <1>8 DEF ReadReview
<1>9. ASSUME NEW v \in Reviewer, CommitReview(v) \/ MirrorReview(v) PROVE PairInv'
  BY <1>6, <1>9 DEF CommitReview, MirrorReview
<1>10. ASSUME NEW i \in Item, GrowsOld(i) \/ JobAgain(i) \/ EditContent(i) \/ DeleteItem(i)
       PROVE PairInv'
  BY <1>6, <1>10 DEF GrowsOld, JobAgain, EditContent, DeleteItem, ghostVars
<1>11. CASE Scan \/ IndexEdit \/ UNCHANGED lifecycleVars
  BY <1>6, <1>11 DEF Scan, IndexEdit, lifecycleVars, ghostVars
<1> QED
  BY <1>1, <1>2, <1>3, <1>4, <1>5, <1>7, <1>8, <1>9, <1>10, <1>11
     DEF LifecycleNext, JobStep, Quiet

---------------------------------------------------------
(* An entry that was resolved is out of the queue, or its record is gone;   *)
(* a reviewer who still holds one is in a race with another.                *)

Commits(v) == review[v].step = "commit"
IdOf(v) == review[v].entry.id

ResolvedInv ==
  /\ again \subseteq raced
  /\ \A e, f \in entries : e.id = f.id => e = f
  /\ \A e \in entries : e.id <= lastEntry
  /\ \A n \in resolved : n <= lastEntry
  /\ \A n \in resolved, e \in entries : e.id = n => ~Exists(e.target)
  /\ \A v \in Reviewer : Commits(v) =>
       /\ IdOf(v) <= lastEntry
       /\ \A e \in entries : e.id = IdOf(v) => e = review[v].entry
       /\ IdOf(v) \in resolved => IdOf(v) \in raced
  /\ \A u, v \in Reviewer :
       u # v /\ Commits(u) /\ Commits(v) /\ IdOf(u) = IdOf(v) => IdOf(v) \in raced

\* No entry is new, and nobody reads or resolves one.
LEMMA ResolvedFrame ==
  ASSUME ResolvedInv, UNCHANGED <<entries, resolved, raced, again, lastEntry>>,
         LifecycleShapes,
         \A i \in Item : ~Exists(i) => ~Exists(i)',
         \A v \in Reviewer : review'[v] = review[v] \/ review'[v].step = "idle"
  PROVE ResolvedInv'
<1>1. \A e \in entries : e.target \in Item BY DEF LifecycleShapes, EntriesOK, Entry
<1>2. \A v \in Reviewer : Commits(v)' => Commits(v) /\ IdOf(v)' = IdOf(v)
                                          /\ review'[v].entry = review[v].entry
  BY DEF Commits, IdOf
<1>3. \A n \in resolved', e \in entries' : e.id = n => ~Exists(e.target)'
  BY <1>1 DEF ResolvedInv, Exists
<1>4. \A v \in Reviewer : Commits(v)' =>
       /\ IdOf(v)' <= lastEntry
       /\ \A e \in entries : e.id = IdOf(v)' => e = review'[v].entry
       /\ IdOf(v)' \in resolved => IdOf(v)' \in raced
  BY <1>2 DEF ResolvedInv
<1>5. \A u, v \in Reviewer :
       u # v /\ Commits(u)' /\ Commits(v)' /\ IdOf(u)' = IdOf(v)' => IdOf(v)' \in raced
  BY <1>2 DEF ResolvedInv
<1> QED BY <1>3, <1>4, <1>5 DEF ResolvedInv

\* An entry with a new id.
LEMMA ResolvedAdd ==
  ASSUME ResolvedInv, LifecycleShapes, NEW e, e.id = lastEntry + 1,
         entries' = entries \cup {e}, lastEntry' = lastEntry + 1,
         UNCHANGED <<resolved, raced, again, review, status>>
  PROVE ResolvedInv'
<1>1. /\ lastEntry \in Nat /\ resolved \subseteq Nat
      /\ \A f \in entries : f.id \in Nat /\ f.id <= lastEntry /\ f.id # e.id
  BY DEF LifecycleShapes, EntriesOK, HistoryOK, Entry, ResolvedInv
<1>2. \A v \in Reviewer : Commits(v) => IdOf(v) \in Nat /\ IdOf(v) <= lastEntry
  BY DEF LifecycleShapes, ReviewsOK, ReviewOK, Entry, ResolvedInv, Commits, IdOf
<1>3. \A v \in Reviewer : Commits(v)' = Commits(v) /\ IdOf(v)' = IdOf(v)
                          /\ review'[v].entry = review[v].entry
  BY DEF Commits, IdOf
<1>4. \A f, g \in entries' : f.id = g.id => f = g
  BY <1>1 DEF ResolvedInv
<1>5. \A f \in entries' : f.id <= lastEntry'
  BY <1>1
<1>6. \A n \in resolved' : n <= lastEntry'
  BY <1>1 DEF ResolvedInv
<1>7. \A n \in resolved : n # e.id
  BY <1>1 DEF ResolvedInv
<1>8. \A n \in resolved', f \in entries' : f.id = n => ~Exists(f.target)'
  BY <1>7 DEF ResolvedInv, Exists
<1>9. \A v \in Reviewer : Commits(v)' =>
       /\ IdOf(v)' <= lastEntry'
       /\ \A f \in entries' : f.id = IdOf(v)' => f = review'[v].entry
       /\ IdOf(v)' \in resolved' => IdOf(v)' \in raced'
  <2>1. \A v \in Reviewer : Commits(v) => IdOf(v) # e.id /\ IdOf(v) <= lastEntry'
    BY <1>1, <1>2
  <2> QED BY <1>3, <2>1 DEF ResolvedInv
<1>10. \A u, v \in Reviewer :
       u # v /\ Commits(u)' /\ Commits(v)' /\ IdOf(u)' = IdOf(v)' => IdOf(v)' \in raced'
  BY <1>3 DEF ResolvedInv
<1>11. again' \subseteq raced' BY DEF ResolvedInv
<1> QED BY <1>4, <1>5, <1>6, <1>8, <1>9, <1>10, <1>11 DEF ResolvedInv

\* Reading an entry that another reviewer holds is noted, so ResolvedInv is
\* kept.
LEMMA ResolvedRead ==
  ASSUME ResolvedInv, LifecycleShapes, NEW v \in Reviewer, NEW e \in entries,
         NEW action \in {"keep", "archive", "merge"}, NEW target \in Item \cup {Nil},
         ReadReview(v, e, action, target)
  PROVE ResolvedInv'
<1>1. /\ UNCHANGED <<entries, resolved, again, lastEntry, status>>
      /\ Exists(e.target) /\ review[v] = NoReview
  BY DEF ReadReview, rowVars
<1>2. /\ \A u \in Reviewer \ {v} : review'[u] = review[u]
      /\ review'[v].step = "commit" /\ review'[v].entry = e
  BY DEF ReadReview, LifecycleShapes, ReviewsOK
<1>3. raced \subseteq raced' BY DEF ReadReview
<1>4. e.id \notin resolved BY <1>1 DEF ResolvedInv
<1>5. \A u \in Reviewer \ {v} : Commits(u)' = Commits(u) /\ IdOf(u)' = IdOf(u)
                                /\ review'[u].entry = review[u].entry
  BY <1>2 DEF Commits, IdOf
<1>6. IdOf(v)' = e.id BY <1>2 DEF IdOf
<1>7. ASSUME NEW u \in Reviewer, u # v, Commits(u), IdOf(u) = e.id PROVE e.id \in raced'
  <2>1. review[u].entry = e BY <1>7 DEF ResolvedInv
  <2> QED BY <1>7, <2>1 DEF ReadReview, Commits
<1>8. \A n \in resolved', f \in entries' : f.id = n => ~Exists(f.target)'
  BY <1>1 DEF ResolvedInv, Exists
<1>9. ASSUME NEW u \in Reviewer, Commits(u)'
      PROVE /\ IdOf(u)' <= lastEntry'
            /\ \A f \in entries' : f.id = IdOf(u)' => f = review'[u].entry
            /\ IdOf(u)' \in resolved' => IdOf(u)' \in raced'
  <2>1. CASE u = v BY <1>1, <1>2, <1>4, <1>6, <2>1 DEF ResolvedInv
  <2>2. CASE u # v
    <3>1. Commits(u) /\ IdOf(u)' = IdOf(u) /\ review'[u].entry = review[u].entry
      BY <1>5, <1>9, <2>2
    <3>2. /\ IdOf(u) <= lastEntry
          /\ \A f \in entries : f.id = IdOf(u) => f = review[u].entry
          /\ IdOf(u) \in resolved => IdOf(u) \in raced
      BY <3>1 DEF ResolvedInv
    <3> QED BY <1>1, <1>3, <3>1, <3>2
  <2> QED BY <2>1, <2>2
<1>10. ASSUME NEW u \in Reviewer, NEW x \in Reviewer, u # x, Commits(u)', Commits(x)',
              IdOf(u)' = IdOf(x)'
       PROVE IdOf(x)' \in raced'
  <2>1. CASE u = v BY <1>5, <1>6, <1>7, <1>10, <2>1
  <2>2. CASE x = v BY <1>5, <1>6, <1>7, <1>10, <2>2
  <2>3. CASE u # v /\ x # v BY <1>3, <1>5, <1>10, <2>3 DEF ResolvedInv
  <2> QED BY <2>1, <2>2, <2>3
<1>11. again' \subseteq raced' BY <1>1, <1>3 DEF ResolvedInv
<1>12. /\ \A f, g \in entries' : f.id = g.id => f = g
       /\ \A f \in entries' : f.id <= lastEntry'
       /\ \A n \in resolved' : n <= lastEntry'
  BY <1>1 DEF ResolvedInv
<1> QED BY <1>8, <1>9, <1>10, <1>11, <1>12 DEF ResolvedInv

\* A resolution takes its entry out of the queue; if it is out already, two had
\* read it.
LEMMA ResolvedCommit ==
  ASSUME ResolvedInv, LifecycleShapes, NEW v \in Reviewer, CommitReview(v),
         \A i \in Item : ~Exists(i) => ~Exists(i)'
  PROVE ResolvedInv'
<1>1. PICK d, n : d = review[v].entry /\ n = IdOf(v)
  OBVIOUS
<1>2. /\ d \in Entry /\ d.id = n /\ d.target \in Item /\ Commits(v) /\ d # Nil
  BY <1>1, CommitFacts, LifecycleAssumption DEF Commits, IdOf
<1>3. /\ entries' \subseteq entries /\ resolved' = resolved \cup {n}
      /\ again' = again \cup ({n} \cap resolved) /\ UNCHANGED <<raced, lastEntry>>
      /\ Exists(d.target) => d \notin entries'
  BY <1>1, <1>2 DEF CommitReview, Deletable, IdOf
<1>4. /\ \A u \in Reviewer \ {v} : review'[u] = review[u]
      /\ ~Commits(v)'
  BY CommitFacts DEF Commits
<1>5. \A u \in Reviewer : Commits(u)' => u # v /\ Commits(u) /\ IdOf(u)' = IdOf(u)
                                         /\ review'[u].entry = review[u].entry
  BY <1>4 DEF Commits, IdOf
<1>6. again' \subseteq raced' BY <1>1, <1>2, <1>3 DEF ResolvedInv
<1>7. /\ \A e, f \in entries' : e.id = f.id => e = f
      /\ \A e \in entries' : e.id <= lastEntry'
      /\ \A m \in resolved' : m <= lastEntry'
  BY <1>1, <1>2, <1>3 DEF ResolvedInv
<1>8. ASSUME NEW m \in resolved', NEW e \in entries', e.id = m PROVE ~Exists(e.target)'
  <2>1. e \in entries /\ e.target \in Item
    BY <1>3 DEF LifecycleShapes, EntriesOK, Entry
  <2>2. ~Exists(e.target)
    <3>1. CASE m = n
      <4>1. e = d BY <1>1, <1>2, <1>8, <2>1, <3>1 DEF ResolvedInv
      <4> QED BY <1>3, <1>8, <4>1
    <3>2. CASE m # n BY <1>3, <1>8, <2>1, <3>2 DEF ResolvedInv
    <3> QED BY <3>1, <3>2
  <2> QED BY <2>1, <2>2 DEF Exists
<1>9. ASSUME NEW u \in Reviewer, Commits(u)'
      PROVE /\ IdOf(u)' <= lastEntry'
            /\ \A f \in entries' : f.id = IdOf(u)' => f = review'[u].entry
            /\ IdOf(u)' \in resolved' => IdOf(u)' \in raced'
  <2>1. u # v /\ Commits(u) /\ IdOf(u)' = IdOf(u) /\ review'[u].entry = review[u].entry
    BY <1>5, <1>9
  <2>2. /\ IdOf(u) <= lastEntry
        /\ \A f \in entries : f.id = IdOf(u) => f = review[u].entry
        /\ IdOf(u) \in resolved => IdOf(u) \in raced
        /\ IdOf(u) = n => n \in raced
    BY <1>1, <1>2, <2>1 DEF ResolvedInv
  <2> QED BY <1>3, <2>1, <2>2
<1>10. \A u, x \in Reviewer :
       u # x /\ Commits(u)' /\ Commits(x)' /\ IdOf(u)' = IdOf(x)' => IdOf(x)' \in raced'
  BY <1>3, <1>5 DEF ResolvedInv
<1> QED BY <1>6, <1>7, <1>8, <1>9, <1>10 DEF ResolvedInv

\* Every step keeps ResolvedInv.
LEMMA ResolvedKept ==
  ASSUME LifecycleShapes, ResolvedInv, [LifecycleNext]_lifecycleVars
  PROVE ResolvedInv'
<1>1. \A i \in Item : ~Exists(i) => ~Exists(i)' BY GoneStays
<1>2. ASSUME UNCHANGED <<entries, resolved, raced, again, lastEntry, review>>
      PROVE ResolvedInv'
  BY <1>1, <1>2, ResolvedFrame
<1>3. ASSUME NEW w \in Processor, JobStep(w) \/ JobFails(w) \/ Killed(w) PROVE ResolvedInv'
  <2>1. CASE File(w)
    <3>1. PICK e : e = [id |-> lastEntry + 1, target |-> job[w].item,
                        related |-> job[w].related, reason |-> job[w].reason]
      OBVIOUS
    <3>2. /\ e.id = lastEntry + 1 /\ entries' = entries \cup {e} /\ lastEntry' = lastEntry + 1
          /\ UNCHANGED <<resolved, raced, again, review, status>>
      BY <2>1, <3>1 DEF File, AddEntry, rowVars, ghostVars
    <3> QED BY <3>2, ResolvedAdd
  <2>2. CASE ApplyReview(w)
    <3>1. PICK e : e = [id |-> lastEntry + 1, target |-> job[w].item, related |-> Nil,
                        reason |-> "low_confidence"]
      OBVIOUS
    <3>2. /\ e.id = lastEntry + 1 /\ entries' = entries \cup {e} /\ lastEntry' = lastEntry + 1
          /\ UNCHANGED <<resolved, raced, again, review, status>>
      BY <2>2, <3>1 DEF ApplyReview, AddEntry, rowVars, ghostVars
    <3> QED BY <3>2, ResolvedAdd
  <2>3. ASSUME NEW i \in Item, Link(w, i) PROVE ResolvedInv'
    BY <1>2, <2>3 DEF Link, ghostVars
  <2>4. ASSUME NEW i \in Item, NEW related \in Item,
               NEW reason \in {"duplicate", "contradiction"}, LinkAndMatch(w, i, related, reason)
        PROVE ResolvedInv'
    BY <1>2, <2>4 DEF LinkAndMatch
  <2>5. CASE CheckFindsNothing(w) \/ Check(w) \/ Stamp(w) \/ Mark(w)
    BY <1>2, <2>5 DEF CheckFindsNothing, Check, Stamp, Mark, ghostVars
  <2>6. CASE Mirror(w) \/ ApplyStale(w) \/ JobFails(w) \/ Killed(w)
    BY <1>2, <2>6 DEF Mirror, ApplyStale, JobFails, Killed, ghostVars
  <2> QED BY <1>3, <2>1, <2>2, <2>3, <2>4, <2>5, <2>6 DEF JobStep
<1>4. ASSUME NEW stage \in Stage, NEW i \in Item, LockLapses(stage, i) PROVE ResolvedInv'
  BY <1>2, <1>4 DEF LockLapses, ghostVars
<1>5. ASSUME NEW v \in Reviewer, MirrorReview(v) PROVE ResolvedInv'
  <2>1. UNCHANGED <<entries, resolved, raced, again, lastEntry>>
    BY <1>5 DEF MirrorReview
  <2>2. \A u \in Reviewer : review'[u] = review[u] \/ review'[u].step = "idle"
    BY <1>5 DEF MirrorReview, NoReview, LifecycleShapes, ReviewsOK
  <2> QED BY <1>1, <2>1, <2>2, ResolvedFrame
<1>6. ASSUME NEW i \in Item, GrowsOld(i) \/ JobAgain(i) \/ EditContent(i) \/ DeleteItem(i)
      PROVE ResolvedInv'
  BY <1>2, <1>6 DEF GrowsOld, JobAgain, EditContent, DeleteItem, ghostVars
<1>7. CASE Scan \/ IndexEdit \/ UNCHANGED lifecycleVars
  BY <1>2, <1>7 DEF Scan, IndexEdit, lifecycleVars, ghostVars
<1> QED
  BY <1>1, <1>3, <1>4, <1>5, <1>6, <1>7, ResolvedRead, ResolvedCommit DEF LifecycleNext

---------------------------------------------------------
(* Whoever has written a status and not yet the payload carries the status  *)
(* of the row, unless two wrote at once or a sync failed.                   *)

JobMirrors(w, i) == job[w].step = "mirror" /\ job[w].item = i
ReviewMirrors(v, i) == review[v].step = "mirror" /\ review[v].entry.target = i

Carried(i) ==
  /\ \A w \in Processor : JobMirrors(w, i) => job[w].verdict = status[i]
  /\ \A v \in Reviewer : ReviewMirrors(v, i) => StatusOf(review[v].action) = status[i]
  /\ editing.item = i => editing.status = status[i]
  /\ Mirroring(i) = {} => shown[i] = status[i]

ShownInv == \A i \in Item : Exists(i) /\ i \notin contested => Carried(i)

\* When nobody is between the row and the point of a record, in terms of the
\* single actors.
LEMMA NobodyMirrors ==
  ASSUME NEW i
  PROVE Mirroring(i) = {} <=>
          /\ \A w \in Processor : ~JobMirrors(w, i)
          /\ \A v \in Reviewer : ~ReviewMirrors(v, i)
          /\ editing.item # i
BY DEF Mirroring, JobMirrors, ReviewMirrors

\* The same after a step.
LEMMA NobodyMirrorsNext ==
  ASSUME NEW i
  PROVE (Mirroring(i) = {})' <=>
          /\ \A w \in Processor : ~(job'[w].step = "mirror" /\ job'[w].item = i)
          /\ \A v \in Reviewer : ~(review'[v].step = "mirror" /\ review'[v].entry.target = i)
          /\ editing'.item # i
BY DEF Mirroring

\* Nothing is written to the row or the point of i, and who carried its status
\* still does, or nobody new does.
LEMMA CarriedFrame ==
  ASSUME NEW i, Carried(i), status'[i] = status[i], shown'[i] = status[i] \/ shown'[i] = shown[i],
         \A w \in Processor : job'[w].step = "mirror" /\ job'[w].item = i => job'[w] = job[w],
         \A v \in Reviewer : review'[v].step = "mirror" /\ review'[v].entry.target = i
                               => review'[v] = review[v],
         editing'.item = i => editing' = editing,
         Mirroring(i)' = {} => Mirroring(i) = {} \/ shown'[i] = status[i]
  PROVE Carried(i)'
<1>1. \A w \in Processor : JobMirrors(w, i)' => job'[w].verdict = status'[i]
  BY DEF Carried, JobMirrors
<1>2. \A v \in Reviewer : ReviewMirrors(v, i)' => StatusOf(review'[v].action) = status'[i]
  BY DEF Carried, ReviewMirrors
<1>3. editing'.item = i => editing'.status = status'[i] BY DEF Carried
<1>4. Mirroring(i)' = {} => shown'[i] = status'[i] BY DEF Carried
<1> QED BY <1>1, <1>2, <1>3, <1>4 DEF Carried

\* A step of which no record's row, point or carriers hear anything.
LEMMA ShownFrame ==
  ASSUME ShownInv, contested \subseteq contested',
         \A i \in Item : Exists(i)' => status'[i] = status[i],
         shown' = shown, review' = review, editing' = editing,
         \A w \in Processor : job'[w] = job[w] \/ job'[w].step # "mirror",
         \A w \in Processor, i \in Item :
            JobMirrors(w, i) => job'[w] = job[w] \/ i \in contested'
  PROVE ShownInv'
<1>1. SUFFICES ASSUME NEW i \in Item, Exists(i)', i \notin contested' PROVE Carried(i)'
  BY DEF ShownInv
<1>2. status'[i] = status[i] /\ Exists(i) BY <1>1 DEF Exists
<1>3. Carried(i) BY <1>1, <1>2 DEF ShownInv
<1>4. Mirroring(i)' = {} => Mirroring(i) = {}
  <2>1. \A w \in Processor : JobMirrors(w, i) => job'[w] = job[w] BY <1>1
  <2> QED BY <2>1, NobodyMirrors, NobodyMirrorsNext DEF JobMirrors, ReviewMirrors
<1>5. \A w \in Processor : job'[w].step = "mirror" /\ job'[w].item = i => job'[w] = job[w]
  OBVIOUS
<1> QED BY <1>2, <1>3, <1>4, <1>5, CarriedFrame

\* Two steps that write a status: those that only read stay as they are.
LEMMA ShownMark ==
  ASSUME LifecycleShapes, ShownInv, NEW w \in Processor, Mark(w) \/ ApplyStale(w)
  PROVE ShownInv'
<1>1. PICK k : k = job[w].item OBVIOUS
<1>2. /\ \A u \in Processor \ {w} : job'[u] = job[u]
      /\ job'[w].step = "mirror" /\ job'[w].item = k /\ k \in Item
      /\ job'[w].verdict = job[w].verdict /\ job[w].step \in {"mark", "apply"}
      /\ SetStatus(k, job[w].verdict) /\ Contested(k)
  BY <1>1, MarkJob
<1>3. UNCHANGED <<shown, review, editing>> BY DEF Mark, ApplyStale
<1>4. status \in [Item -> Status] BY DEF LifecycleShapes, RowsOK
<1>5. SUFFICES ASSUME NEW i \in Item, Exists(i)', i \notin contested' PROVE Carried(i)'
  BY DEF ShownInv
<1>6. CASE i = k
  <2>1. Mirroring(k) = {} BY <1>2, <1>5, <1>6 DEF Contested
  <2>2. status'[k] = job[w].verdict
    BY <1>2, <1>4, <1>5, <1>6 DEF SetStatus, Exists
  <2>3. \A u \in Processor : JobMirrors(u, i)' => job'[u].verdict = status'[i]
    BY <1>2, <1>6, <2>1, <2>2, NobodyMirrors DEF JobMirrors
  <2>4. /\ \A v \in Reviewer : ~ReviewMirrors(v, i)'
        /\ editing'.item # i
    BY <1>3, <1>6, <2>1, NobodyMirrors DEF ReviewMirrors
  <2>5. Mirroring(i)' # {}
    BY <1>2, <1>6, NobodyMirrorsNext
  <2> QED BY <2>3, <2>4, <2>5 DEF Carried
<1>7. CASE i # k
  <2>1. status'[i] = status[i] /\ i \notin contested
    BY <1>2, <1>4, <1>5, <1>7 DEF SetStatus, Contested
  <2>2. Carried(i) BY <1>5, <2>1 DEF ShownInv, Exists
  <2>3. \A u \in Processor : job'[u].step = "mirror" /\ job'[u].item = i => job'[u] = job[u]
    BY <1>2, <1>7
  <2>4. \A u \in Processor : JobMirrors(u, i) => job'[u] = job[u]
    BY <1>2 DEF JobMirrors
  <2>5. Mirroring(i)' = {} => Mirroring(i) = {}
    BY <1>3, <2>4, NobodyMirrors, NobodyMirrorsNext DEF JobMirrors, ReviewMirrors
  <2> QED BY <1>3, <2>1, <2>2, <2>3, <2>5, CarriedFrame
<1> QED BY <1>6, <1>7

\* A resolution writes the row and is then between the row and the point.
LEMMA ShownCommit ==
  ASSUME LifecycleShapes, ShownInv, NEW v \in Reviewer, CommitReview(v)
  PROVE ShownInv'
<1>1. PICK k, a : k = review[v].entry.target /\ a = review[v].action OBVIOUS
<1>2. /\ \A u \in Reviewer \ {v} : review'[u] = review[u]
      /\ review'[v].step = "mirror" /\ review'[v].entry.target = k /\ k \in Item
      /\ review'[v].action = a /\ review[v].step = "commit"
  BY <1>1, CommitFacts
<1>3. UNCHANGED <<shown, job, editing>> /\ SetStatus(k, StatusOf(a)) /\ Contested(k)
  BY <1>1 DEF CommitReview
<1>4. status \in [Item -> Status] BY DEF LifecycleShapes, RowsOK
<1>5. SUFFICES ASSUME NEW i \in Item, Exists(i)', i \notin contested' PROVE Carried(i)'
  BY DEF ShownInv
<1>6. CASE i = k
  <2>1. Mirroring(k) = {} BY <1>3, <1>5, <1>6 DEF Contested
  <2>2. status'[k] = StatusOf(a)
    BY <1>2, <1>3, <1>4, <1>5, <1>6 DEF SetStatus, Exists
  <2>3. \A u \in Reviewer : ReviewMirrors(u, i)' => StatusOf(review'[u].action) = status'[i]
    BY <1>2, <1>6, <2>1, <2>2, NobodyMirrors DEF ReviewMirrors
  <2>4. /\ \A w \in Processor : ~JobMirrors(w, i)'
        /\ editing'.item # i
    BY <1>3, <1>6, <2>1, NobodyMirrors DEF JobMirrors
  <2>5. Mirroring(i)' # {}
    BY <1>2, <1>6, NobodyMirrorsNext
  <2> QED BY <2>3, <2>4, <2>5 DEF Carried
<1>7. CASE i # k
  <2>1. status'[i] = status[i] /\ i \notin contested
    BY <1>3, <1>4, <1>5, <1>7 DEF SetStatus, Contested
  <2>2. Carried(i) BY <1>5, <2>1 DEF ShownInv, Exists
  <2>3. \A u \in Reviewer : review'[u].step = "mirror" /\ review'[u].entry.target = i
                              => review'[u] = review[u]
    BY <1>2, <1>7
  <2>4. \A u \in Reviewer : ReviewMirrors(u, i) => review'[u] = review[u]
    BY <1>2 DEF ReviewMirrors
  <2>5. Mirroring(i)' = {} => Mirroring(i) = {}
    BY <1>3, <2>4, NobodyMirrors, NobodyMirrorsNext DEF JobMirrors, ReviewMirrors
  <2> QED BY <1>3, <2>1, <2>2, <2>3, <2>5, CarriedFrame
<1> QED BY <1>6, <1>7

\* The payload of k is written, or the sync failed; s is what its writer carried.
LEMMA ShownWritten ==
  ASSUME LifecycleShapes, ShownInv, NEW k \in Item, NEW s,
         Exists(k) /\ k \notin contested => s = status[k],
         \/ Show(k, s) /\ contested' = contested
         \/ shown' = shown /\ contested' = contested \cup {k},
         status' = status,
         \A w \in Processor, i \in Item : job'[w].step = "mirror" /\ job'[w].item = i => job'[w] = job[w],
         \A v \in Reviewer, i \in Item : review'[v].step = "mirror" /\ review'[v].entry.target = i
                               => review'[v] = review[v],
         \A i \in Item : editing'.item = i => editing' = editing,
         \A i \in Item \ {k} : Mirroring(i)' = {} => Mirroring(i) = {}
  PROVE ShownInv'
<1>1. SUFFICES ASSUME NEW i \in Item, Exists(i)', i \notin contested' PROVE Carried(i)'
  BY DEF ShownInv
<1>2. Exists(i) /\ i \notin contested BY <1>1 DEF Exists
<1>3. Carried(i) BY <1>2 DEF ShownInv
<1>4. shown \in [Item -> Status] BY DEF LifecycleShapes, RowsOK
<1>5. shown'[i] = status[i] \/ (shown'[i] = shown[i] /\ i # k)
  BY <1>1, <1>2, <1>4 DEF Show
<1> QED BY <1>3, <1>5, CarriedFrame

\* A worker writes the status it gave the row to the point.
LEMMA ShownMirror ==
  ASSUME LifecycleShapes, ShownInv, NEW w \in Processor, Mirror(w)
  PROVE ShownInv'
<1>1. PICK k, s : k = job[w].item /\ s = job[w].verdict OBVIOUS
<1>2. k \in Item /\ JobMirrors(w, k)
  BY <1>1 DEF Mirror, LifecycleShapes, JobsOK, JobOK, JobMirrors
<1>3. Exists(k) /\ k \notin contested => s = status[k]
  BY <1>1, <1>2 DEF ShownInv, Carried
<1>4. /\ \/ Show(k, s) /\ contested' = contested
         \/ shown' = shown /\ contested' = contested \cup {k}
      /\ UNCHANGED <<status, review, editing>>
  BY <1>1 DEF Mirror, rowVars
<1>5. \A u \in Processor : job'[u] = job[u] \/ job'[u].step \in {"idle", "check", "apply"}
  BY QuietJobs DEF Quiet
<1>6. \A u \in Processor \ {w} : job'[u] = job[u]
  BY QuietJob DEF Quiet, LifecycleShapes, JobsOK
<1>7. ASSUME NEW i \in Item, i # k, Mirroring(i)' = {} PROVE Mirroring(i) = {}
  <2>1. ~JobMirrors(w, i) BY <1>1, <1>7 DEF JobMirrors
  <2>2. /\ \A u \in Processor : ~JobMirrors(u, i)
        /\ \A v \in Reviewer : ~ReviewMirrors(v, i)
        /\ editing.item # i
    BY <1>4, <1>6, <1>7, <2>1, NobodyMirrorsNext DEF JobMirrors, ReviewMirrors
  <2> QED BY <2>2, NobodyMirrors
<1> QED BY <1>2, <1>3, <1>4, <1>5, <1>7, ShownWritten

\* A reviewer writes the status he gave the row to the point.
LEMMA ShownMirrorReview ==
  ASSUME LifecycleShapes, ShownInv, NEW v \in Reviewer, MirrorReview(v)
  PROVE ShownInv'
<1>1. PICK k, s : k = review[v].entry.target /\ s = StatusOf(review[v].action) OBVIOUS
<1>2. k \in Item /\ ReviewMirrors(v, k)
  BY <1>1 DEF MirrorReview, LifecycleShapes, ReviewsOK, ReviewOK, ReviewMirrors, Entry
<1>3. Exists(k) /\ k \notin contested => s = status[k]
  BY <1>1, <1>2 DEF ShownInv, Carried
<1>4. /\ \/ Show(k, s) /\ contested' = contested
         \/ shown' = shown /\ contested' = contested \cup {k}
      /\ UNCHANGED <<status, job, editing>>
  BY <1>1 DEF MirrorReview, rowVars
<1>5. /\ \A u \in Reviewer \ {v} : review'[u] = review[u]
      /\ review'[v].step = "idle"
  BY DEF MirrorReview, NoReview, LifecycleShapes, ReviewsOK
<1>6. ASSUME NEW i \in Item, i # k, Mirroring(i)' = {} PROVE Mirroring(i) = {}
  <2>1. ~ReviewMirrors(v, i) BY <1>1, <1>6 DEF ReviewMirrors
  <2>2. /\ \A u \in Processor : ~JobMirrors(u, i)
        /\ \A u \in Reviewer : ~ReviewMirrors(u, i)
        /\ editing.item # i
    BY <1>4, <1>5, <1>6, <2>1, NobodyMirrorsNext DEF JobMirrors, ReviewMirrors
  <2> QED BY <2>2, NobodyMirrors
<1> QED BY <1>2, <1>3, <1>4, <1>5, <1>6, ShownWritten

\* An edit writes the status it read to the point.
LEMMA ShownIndexed ==
  ASSUME LifecycleShapes, ShownInv, IndexEdit PROVE ShownInv'
<1>1. PICK k, s : k = editing.item /\ s = editing.status OBVIOUS
<1>2. k \in Item BY <1>1 DEF IndexEdit, LifecycleShapes, EditOK
<1>3. Exists(k) /\ k \notin contested => s = status[k]
  BY <1>1, <1>2 DEF ShownInv, Carried
<1>4. /\ \/ Show(k, s) /\ contested' = contested
         \/ shown' = shown /\ contested' = contested \cup {k}
      /\ UNCHANGED <<status, job, review>>
  BY <1>1 DEF IndexEdit, rowVars
<1>5. \A i \in Item : editing'.item # i
  BY LifecycleAssumption DEF IndexEdit, NoEdit
<1>6. ASSUME NEW i \in Item, i # k, Mirroring(i)' = {} PROVE Mirroring(i) = {}
  <2>1. /\ \A u \in Processor : ~JobMirrors(u, i)
        /\ \A u \in Reviewer : ~ReviewMirrors(u, i)
        /\ editing.item # i
    BY <1>1, <1>4, <1>6, NobodyMirrorsNext DEF JobMirrors, ReviewMirrors
  <2> QED BY <2>1, NobodyMirrors
<1> QED BY <1>2, <1>3, <1>4, <1>5, <1>6, ShownWritten

\* An edit reads the status of the row and is then between the row and the
\* point.
LEMMA ShownEdited ==
  ASSUME LifecycleShapes, ShownInv, NEW k \in Item, EditContent(k) PROVE ShownInv'
<1>1. /\ UNCHANGED <<status, shown, job, review>> /\ Contested(k)
      /\ editing'.item = k /\ editing'.status = status[k]
      /\ \A i \in Item : editing.item # i
  BY LifecycleAssumption DEF EditContent, NoEdit
<1>2. SUFFICES ASSUME NEW i \in Item, Exists(i)', i \notin contested' PROVE Carried(i)'
  BY DEF ShownInv
<1>3. Exists(i) /\ i \notin contested BY <1>1, <1>2 DEF Exists, Contested
<1>4. Carried(i) BY <1>3 DEF ShownInv
<1>5. /\ \A w \in Processor : JobMirrors(w, i)' => job'[w].verdict = status'[i]
      /\ \A v \in Reviewer : ReviewMirrors(v, i)' => StatusOf(review'[v].action) = status'[i]
  BY <1>1, <1>4 DEF Carried, JobMirrors, ReviewMirrors
<1>6. editing'.item = i => editing'.status = status'[i] BY <1>1
<1>7. Mirroring(i)' = {} => shown'[i] = status'[i]
  <2>1. Mirroring(i)' = {} => Mirroring(i) = {}
    BY <1>1, NobodyMirrors, NobodyMirrorsNext DEF JobMirrors, ReviewMirrors
  <2> QED BY <1>1, <1>4, <2>1 DEF Carried
<1> QED BY <1>5, <1>6, <1>7 DEF Carried

\* Reading an entry writes nothing.
LEMMA ShownRead ==
  ASSUME LifecycleShapes, ShownInv, NEW v \in Reviewer, NEW e \in entries,
         NEW action \in {"keep", "archive", "merge"}, NEW target \in Item \cup {Nil},
         ReadReview(v, e, action, target)
  PROVE ShownInv'
<1>1. /\ UNCHANGED <<status, shown, job, editing, contested>>
      /\ review[v].step = "idle" /\ review'[v].step = "commit"
      /\ \A u \in Reviewer \ {v} : review'[u] = review[u]
  BY DEF ReadReview, rowVars, NoReview, LifecycleShapes, ReviewsOK
<1>2. SUFFICES ASSUME NEW i \in Item, Exists(i)', i \notin contested' PROVE Carried(i)'
  BY DEF ShownInv
<1>3. Carried(i) BY <1>1, <1>2 DEF ShownInv, Exists
<1>4. Mirroring(i)' = {} => Mirroring(i) = {}
  BY <1>1, NobodyMirrors, NobodyMirrorsNext DEF JobMirrors, ReviewMirrors
<1>5. \A u \in Reviewer : review'[u].step = "mirror" => review'[u] = review[u]
  BY <1>1
<1> QED BY <1>1, <1>3, <1>4, <1>5, CarriedFrame

\* Every step keeps ShownInv.
LEMMA ShownKept ==
  ASSUME LifecycleShapes, ShownInv, [LifecycleNext]_lifecycleVars
  PROVE ShownInv'
<1>1. ASSUME NEW w \in Processor, Quiet(w), ~Mirror(w) PROVE ShownInv'
  <2>1. UNCHANGED <<status, shown, review, editing>> /\ contested \subseteq contested'
    BY <1>1 DEF Quiet, Link, File, CheckFindsNothing, Stamp, ApplyReview, JobFails, Killed,
                rowVars, ghostVars
  <2>2. \A u \in Processor : job'[u] = job[u] \/ job'[u].step # "mirror"
    BY <1>1, QuietJobs
  <2>3. \A u \in Processor \ {w} : job'[u] = job[u]
    BY <1>1, QuietJob DEF LifecycleShapes, JobsOK
  <2>4. ASSUME NEW i \in Item, JobMirrors(w, i) PROVE i \in contested'
    <3>1. job[w].step = "mirror" /\ job[w].item = i BY <2>4 DEF JobMirrors
    <3>2. job[w] # NoJob BY <3>1 DEF NoJob, Task
    <3>3. \A k \in Item : ~Link(w, k) BY <3>2 DEF Link
    <3>4. /\ ~File(w) /\ ~CheckFindsNothing(w) /\ ~Stamp(w) /\ ~ApplyReview(w)
          /\ ~JobFails(w)
      BY <3>1 DEF File, CheckFindsNothing, Stamp, ApplyReview, JobFails
    <3>5. Killed(w) BY <1>1, <3>3, <3>4 DEF Quiet
    <3> QED BY <3>1, <3>5 DEF Killed
  <2> QED BY <2>1, <2>2, <2>3, <2>4, ShownFrame
<1>2. ASSUME NEW w \in Processor, NEW i \in Item, NEW related \in Item,
             NEW reason \in {"duplicate", "contradiction"}, LinkAndMatch(w, i, related, reason)
      PROVE ShownInv'
  <2>1. UNCHANGED <<status, shown, review, editing, contested>> BY <1>2 DEF LinkAndMatch
  <2>2. /\ \A u \in Processor : job'[u] = job[u] \/ job'[u].step # "mirror"
        /\ \A u \in Processor, k \in Item : JobMirrors(u, k) => job'[u] = job[u]
    BY <1>2, MatchJob DEF JobMirrors
  <2> QED BY <2>1, <2>2, ShownFrame
<1>3. ASSUME NEW w \in Processor, Check(w) PROVE ShownInv'
  <2>1. UNCHANGED <<status, shown, review, editing, contested>>
    BY <1>3 DEF Check, rowVars, ghostVars
  <2>2. /\ \A u \in Processor : job'[u] = job[u] \/ job'[u].step # "mirror"
        /\ \A u \in Processor, k \in Item : JobMirrors(u, k) => job'[u] = job[u]
    BY <1>3, CheckJob DEF JobMirrors
  <2> QED BY <2>1, <2>2, ShownFrame
<1>4. ASSUME UNCHANGED <<shown, review, editing, contested, job>>,
             \A i \in Item : Exists(i)' => status'[i] = status[i]
      PROVE ShownInv'
  BY <1>4, ShownFrame
<1>5. ASSUME NEW stage \in Stage, NEW i \in Item, LockLapses(stage, i) PROVE ShownInv'
  BY <1>4, <1>5 DEF LockLapses, rowVars, ghostVars
<1>6. ASSUME NEW i \in Item, GrowsOld(i) \/ JobAgain(i) PROVE ShownInv'
  BY <1>4, <1>6 DEF GrowsOld, JobAgain, rowVars, ghostVars
<1>7. ASSUME NEW i \in Item, DeleteItem(i) PROVE ShownInv'
  <2>1. \A k \in Item : Exists(k)' => status'[k] = status[k]
    BY <1>7 DEF DeleteItem, Exists, LifecycleShapes, RowsOK
  <2> QED BY <1>4, <1>7, <2>1 DEF DeleteItem
<1>8. CASE Scan \/ UNCHANGED lifecycleVars
  BY <1>4, <1>8 DEF Scan, lifecycleVars, rowVars, ghostVars
<1> QED
  BY <1>1, <1>2, <1>3, <1>5, <1>6, <1>7, <1>8, ShownMark, ShownCommit, ShownMirror,
     ShownMirrorReview, ShownIndexed, ShownEdited, ShownRead
     DEF LifecycleNext, JobStep, Quiet

---------------------------------------------------------
LifecycleInv == LifecycleShapes /\ KeptInv /\ PairInv /\ ResolvedInv /\ ShownInv

\* The invariant holds in the initial states.
LEMMA LifecycleInitially ==
  ASSUME NEW Present \in SUBSET Item, NEW spent, Budget(spent),
         LifecycleInitWith(Present, spent)
  PROVE LifecycleInv
<1>1. LifecycleShapes BY ShapesInitially
<1>2. /\ \A w \in Processor : job[w].step = "idle"
      /\ \A v \in Reviewer : review[v].step = "idle"
      /\ entries = {} /\ settled = {} /\ resolved = {} /\ again = {} /\ shown = status
      /\ editing = NoEdit
  BY DEF LifecycleInitWith, NoJob, Task, NoReview
<1>3. KeptInv BY <1>2 DEF KeptInv
<1>4. PairInv BY <1>2 DEF PairInv, OneEntryPerPair, Matched
<1>5. ResolvedInv BY <1>2 DEF ResolvedInv, Commits
<1>6. ShownInv
  BY <1>2, LifecycleAssumption DEF ShownInv, Carried, JobMirrors, ReviewMirrors, NoEdit
<1> QED BY <1>1, <1>3, <1>4, <1>5, <1>6 DEF LifecycleInv

\* The invariant of the lifecycle holds always.
LEMMA LifecycleAlways == LifecycleSpec => []LifecycleInv
<1>1. LifecycleInit => LifecycleInv
  <2> DEFINE spent == [entries |-> 0, touches |-> 0, losses |-> 0]
  <2>1. Budget(spent) BY LifecycleAssumption DEF Budget
  <2>2. Item \in SUBSET Item OBVIOUS
  <2> HIDE DEF spent
  <2>3. LifecycleInitWith(Item, spent) => LifecycleInv BY <2>1, <2>2, LifecycleInitially
  <2> QED BY <2>3 DEF LifecycleInit, spent
<1>2. LifecycleInv /\ [LifecycleNext]_lifecycleVars => LifecycleInv'
  BY ShapesKept, KeptKept, PairKept, ResolvedKept, ShownKept DEF LifecycleInv
<1> QED BY <1>1, <1>2, PTL DEF LifecycleSpec

\* Whatever workers, reviewers and edits do at once: no pair has two entries of
\* a reason in either direction, unless two workers matched it at once, and
\* search sees the status of every row that nobody is writing, unless two
\* wrote it at once or a sync failed (freshness/stages, apply_decision,
\* MemoryService.resolve_review).
THEOREM LifecycleIsSound == LifecycleSpec => []LifecycleSound
<1>1. LifecycleInv => LifecycleSound
  <2> SUFFICES ASSUME LifecycleInv PROVE LifecycleSound
    OBVIOUS
  <2>1. OneEntryPerPair BY DEF LifecycleInv, PairInv
  <2>2. StatusShown BY DEF LifecycleInv, ShownInv, Carried, StatusShown
  <2>3. /\ JobsOK /\ ReviewsOK /\ EditOK /\ RowsOK /\ HistoryOK /\ EntriesOK /\ RoomKept
        /\ \A e, f \in entries : e.id = f.id => e = f
    BY DEF LifecycleInv, LifecycleShapes, ResolvedInv
  <2>4. lastEntry \in 0 .. MaxEntries
    <3>1. IsFiniteSet(Filers)
      BY LifecycleAssumption, FS_Subset DEF Filers
    <3>2. Cardinality(Filers) \in Nat BY <3>1, FS_CardinalityType
    <3> QED BY <2>3, <3>2, LifecycleAssumption DEF RoomKept, EntriesOK
  <2>5. UNION {resolved, raced, again} \subseteq 1 .. MaxEntries
    BY <2>3 DEF HistoryOK
  <2>6. LifecycleTypeOK
    BY <2>3, <2>4, <2>5
       DEF LifecycleTypeOK, JobsOK, JobType, ReviewsOK, ReviewType, EditOK, RowsOK,
           HistoryOK, EntriesOK
  <2> QED BY <2>1, <2>2, <2>6 DEF LifecycleSound
<1> QED BY <1>1, LifecycleAlways, PTL

\* A record that a reviewer kept stays active until it grows old again, is
\* edited away or a merge or an earlier conclusion reaches it (the rules of
\* MonitorStage against resolve_review).
THEOREM KeptStay == LifecycleSpec => []KeptUntilAged
<1>1. LifecycleInv => KeptUntilAged BY DEF LifecycleInv, KeptInv, KeptUntilAged
<1> QED BY <1>1, LifecycleAlways, PTL

\* No entry is resolved a second time, but by a reviewer who had read it before
\* the first time (MemoryService.resolve_review, delete_review_entry).
THEOREM EntriesResolvedOnce == LifecycleSpec => []ResolvedOnce
<1>1. LifecycleInv => ResolvedOnce BY DEF LifecycleInv, ResolvedInv, ResolvedOnce
<1> QED BY <1>1, LifecycleAlways, PTL
=============================================================================
