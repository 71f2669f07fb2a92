------------------------ MODULE ConnectionSyncProofs ------------------------
(***************************************************************************)
(* Proofs about ConnectionSync, for any number of attempts, documents and  *)
(* configurations, any budget of trouble and any number of changes.        *)
(***************************************************************************)
EXTENDS ConnectionSync, TLAPS

USE SyncAssumption

\* The parts of the type invariant.
RowType ==
  /\ status \in {"active", "syncing", "error"}
  /\ token \in Sync \cup {None}
  /\ cursor \in Version /\ config \in Config /\ due \in BOOLEAN

StoreType ==
  /\ raw \in [Doc -> [version : Version, synced : BOOLEAN]]
  /\ index \in [Doc -> Version]

PcType == pc \in [Sync -> {"idle", "asked", "listed"} \cup Claiming]

WorkType ==
  /\ since \in [Sync -> Version] /\ using \in [Sync -> Config]
  /\ began \in [Sync -> Version]
  /\ fetched \in [Sync -> [Doc -> Version]]
  /\ changed \in [Sync -> SUBSET Doc] /\ partly \in [Sync -> BOOLEAN]
  /\ outcome \in [Sync -> Outcome]

SourceType == clock \in 1 .. MaxClock /\ edited \in [Doc -> 1 .. MaxClock]

BudgetType == budget \in [Trouble -> Nat]

Typed == /\ RowType /\ StoreType /\ PcType /\ WorkType
         /\ up \in SUBSET Process /\ SourceType /\ BudgetType

\* The types used by the proofs are those the run checks.
LEMMA TypedOK == Typed => TypeOK
  BY Zenon DEF TypeOK, Typed, RowType, StoreType, PcType, WorkType, SourceType,
               BudgetType

-----------------------------------------------------------------------------
(* Types.                                                                  *)

\* What a step leaves alone keeps its type.
LEMMA KeptTypes ==
  /\ RowType /\ UNCHANGED row => RowType'
  /\ StoreType /\ UNCHANGED stores => StoreType'
  /\ PcType /\ UNCHANGED pc => PcType'
  /\ WorkType /\ UNCHANGED work => WorkType'
  /\ SourceType /\ UNCHANGED source => SourceType'
  /\ BudgetType /\ UNCHANGED budget => BudgetType'
  BY DEF RowType, StoreType, PcType, WorkType, SourceType, BudgetType, row,
         stores, work, source

\* Trouble that is spent leaves a budget.
LEMMA SpendTypes ==
  ASSUME BudgetType, NEW t \in Trouble, Spend(t)
  PROVE  BudgetType'
  BY DEF BudgetType, Spend

\* GoTo moves one attempt only.
LEMMA GoToTypes ==
  ASSUME PcType, NEW s \in Sync,
         NEW where \in {"idle", "asked", "listed"} \cup Claiming, GoTo(s, where)
  PROVE  PcType' /\ pc'[s] = where /\ \A t \in Sync \ {s} : pc'[t] = pc[t]
  BY DEF PcType, GoTo

\* The locals after an attempt is over.
LEMMA EndTypes ==
  ASSUME PcType, WorkType, NEW s \in Sync, End(s)
  PROVE  PcType' /\ WorkType'
  <1>1. PcType'
    BY GoToTypes DEF End
  <1>2. 0 \in Version /\ "failed" \in Outcome
    BY DEF Version, Outcome
  <1>3. partly' \in [Sync -> BOOLEAN]
    BY Zenon DEF WorkType, End
  <1>4. [d \in Doc |-> 0] \in [Doc -> Version]
    BY <1>2
  <1>5. fetched' \in [Sync -> [Doc -> Version]]
    BY <1>4 DEF WorkType, End
  <1>6. since' \in [Sync -> Version] /\ using' \in [Sync -> Config]
        /\ began' \in [Sync -> Version] /\ changed' \in [Sync -> SUBSET Doc]
        /\ outcome' \in [Sync -> Outcome]
    BY <1>2 DEF WorkType, End
  <1> QED BY <1>1, <1>3, <1>5, <1>6 DEF WorkType

\* Reading the row gives an attempt its cursor and configuration.
LEMMA ReadTypes ==
  ASSUME RowType, WorkType, NEW s \in Sync, NEW from \in Version, Read(s, from)
  PROVE  WorkType'
  BY DEF RowType, WorkType, Read

\* The outcome of an attempt is one of those the code has.
LEMMA DecideTypes ==
  ASSUME WorkType, NEW s \in Sync, NEW phases \in Outcome, Decide(s, phases)
  PROVE  outcome' \in [Sync -> Outcome]
  <1>1. Reconciled(s, phases) \in Outcome
    BY DEF Reconciled, Outcome
  <1> QED BY <1>1 DEF WorkType, Decide

\* A document that is marked stays a document.
LEMMA MarkedRow ==
  ASSUME NEW r \in [version : Version, synced : BOOLEAN]
  PROVE  [r EXCEPT !.synced = TRUE] \in [version : Version, synced : BOOLEAN]
  OBVIOUS

\* Types holds in the initial states.
LEMMA InitTypes == Init => Typed
  <1> SUFFICES ASSUME Init PROVE Typed
    OBVIOUS
  <1>0. 0 \in Version /\ 1 \in 1 .. MaxClock /\ "failed" \in Outcome
    BY DEF Version, Outcome
  <1>1. RowType
    BY <1>0, Zenon DEF Init, RowType
  <1>2. StoreType
    BY <1>0 DEF Init, StoreType
  <1>3. PcType /\ up \in SUBSET Process
    BY DEF Init, PcType
  <1>4. partly \in [Sync -> BOOLEAN]
    BY Zenon DEF Init
  <1>5. WorkType
    BY <1>0, <1>4 DEF Init, WorkType
  <1>6. SourceType /\ BudgetType
    BY <1>0 DEF Init, SourceType, BudgetType
  <1> QED BY <1>1, <1>2, <1>3, <1>5, <1>6 DEF Typed

\* The claims: what precedes the task.
LEMMA ClaimTypes ==
  ASSUME Typed, NEW s \in Sync,
         \/ RequestSync(s) \/ ClaimForSync(s) \/ SyncRefused(s) \/ ListDue(s)
         \/ ClaimForAutosync(s) \/ ClaimLost(s) \/ ReadClaimed(s) \/ Release(s)
  PROVE  Typed'
  <1> USE KeptTypes DEF Typed
  <1>0. 0 \in Version /\ "fault" \in Trouble
    BY DEF Version, Trouble
  <1>1. CASE RequestSync(s)
    <2>1. PICK from \in Version : Read(s, from)
      BY <1>1, <1>0 DEF RequestSync, RowType
    <2>2. WorkType'
      BY <2>1, ReadTypes
    <2>3. PcType'
      BY <1>1, GoToTypes DEF RequestSync
    <2> QED BY <1>1, <2>2, <2>3 DEF RequestSync
  <1>2. CASE ClaimForSync(s)
    <2>1. PcType'
      BY <1>2, GoToTypes DEF ClaimForSync, Claiming
    <2>2. RowType'
      BY <1>2 DEF ClaimForSync, Claimed, RowType
    <2> QED BY <1>2, <2>1, <2>2 DEF ClaimForSync
  <1>3. CASE SyncRefused(s)
    <2>1. PcType' /\ WorkType'
      BY <1>3, EndTypes DEF SyncRefused
    <2>2. BudgetType'
      BY <1>3, <1>0, SpendTypes DEF SyncRefused, BudgetType
    <2> QED BY <1>3, <2>1, <2>2 DEF SyncRefused
  <1>4. CASE ListDue(s)
    <2>1. PcType'
      BY <1>4, GoToTypes DEF ListDue
    <2> QED BY <1>4, <2>1 DEF ListDue
  <1>5. CASE ClaimForAutosync(s)
    <2>1. PcType'
      BY <1>5, GoToTypes DEF ClaimForAutosync, Claiming
    <2>2. due' \in BOOLEAN
      BY <1>5, Zenon DEF ClaimForAutosync
    <2>3. RowType'
      BY <1>5, <2>2 DEF ClaimForAutosync, Claimed, RowType
    <2> QED BY <1>5, <2>1, <2>3 DEF ClaimForAutosync
  <1>6. CASE ClaimLost(s)
    <2>1. PcType'
      BY <1>6, GoToTypes DEF ClaimLost
    <2>2. BudgetType'
      BY <1>6, <1>0, SpendTypes DEF ClaimLost, BudgetType
    <2> QED BY <1>6, <2>1, <2>2 DEF ClaimLost
  <1>7. CASE ReadClaimed(s)
    <2>1. PcType'
      BY <1>7, GoToTypes DEF ReadClaimed, Claiming
    <2>2. WorkType'
      BY <1>7, ReadTypes DEF ReadClaimed, RowType
    <2> QED BY <1>7, <2>1, <2>2 DEF ReadClaimed
  <1>8. CASE Release(s)
    <2>1. PcType' /\ WorkType'
      BY <1>8, EndTypes DEF Release
    <2>2. BudgetType'
      BY <1>8, <1>0, SpendTypes DEF Release
    <2>3. RowType'
      BY <1>8 DEF Release, RowType
    <2> QED BY <1>8, <2>1, <2>2, <2>3 DEF Release
  <1> QED BY <1>1, <1>2, <1>3, <1>4, <1>5, <1>6, <1>7, <1>8

\* The steps of run_connection_sync.
LEMMA TaskTypes ==
  ASSUME Typed, NEW s \in Sync,
         \/ Start(s) \/ Fetch(s) \/ Upsert(s) \/ UpsertFails(s) \/ Ingest(s)
         \/ MarkSynced(s) \/ Interrupt(s) \/ Finish(s) \/ FinishFails(s)
  PROVE  Typed'
  <1> USE KeptTypes DEF Typed
  <1>0. /\ 0 \in Version /\ 1 .. MaxClock \subseteq Version
        /\ {"fault", "loss"} \subseteq Trouble
        /\ {"started", "fetched", "stored", "ingested", "finishing"} \subseteq Claiming
    BY DEF Version, Trouble, Claiming, Running
  <1>1. CASE Start(s)
    <2>1. PcType'
      BY <1>1, <1>0, GoToTypes DEF Start
    <2>2. clock \in Version
      BY <1>0 DEF SourceType
    <2>3. WorkType'
      BY <1>1, <2>2 DEF Start, WorkType
    <2> QED BY <1>1, <2>1, <2>3 DEF Start
  <1>2. CASE Fetch(s)
    <2>1. PcType'
      BY <1>2, <1>0, GoToTypes DEF Fetch
    <2>2. \A got \in SUBSET News(s) :
            [d \in Doc |-> IF d \in got THEN edited[d] ELSE 0] \in [Doc -> Version]
      BY <1>0 DEF SourceType
    <2>3. fetched' \in [Sync -> [Doc -> Version]]
      BY <1>2, <2>2 DEF Fetch, WorkType
    <2>4. partly' \in [Sync -> BOOLEAN]
      BY <1>2, Zenon DEF Fetch, WorkType
    <2>5. WorkType'
      BY <1>2, <2>3, <2>4 DEF Fetch, WorkType
    <2>6. BudgetType'
      <3>1. PICK t \in Trouble : Spend(t) \/ UNCHANGED budget
        BY <1>2, <1>0 DEF Fetch
      <3> QED BY <3>1, SpendTypes
    <2> QED BY <1>2, <2>1, <2>5, <2>6 DEF Fetch
  <1>3. CASE Upsert(s)
    <2>1. PcType'
      BY <1>3, <1>0, GoToTypes DEF Upsert
    <2>2. fetched[s] \in [Doc -> Version]
      BY DEF WorkType
    <2>3. \A d \in Doc :
            [version |-> fetched[s][d], synced |-> FALSE]
              \in [version : Version, synced : BOOLEAN]
      BY <2>2
    <2>4. Upserted(s) \in [Doc -> [version : Version, synced : BOOLEAN]]
      BY <2>3 DEF Upserted, StoreType
    <2>5. StoreType'
      BY <1>3, <2>4 DEF Upsert, StoreType
    <2>6. outcome' \in [Sync -> Outcome]
      BY <1>3, DecideTypes DEF Upsert, Outcome, WorkType
    <2>7. ChangedIds(s) \subseteq Doc
      BY DEF ChangedIds, Got
    <2>8. WorkType'
      BY <1>3, <2>6, <2>7 DEF Upsert, WorkType
    <2> QED BY <1>3, <2>1, <2>5, <2>8 DEF Upsert
  <1>4. CASE UpsertFails(s)
    <2>1. PcType'
      BY <1>4, <1>0, GoToTypes DEF UpsertFails
    <2>2. BudgetType'
      BY <1>4, <1>0, SpendTypes DEF UpsertFails
    <2>3. outcome' \in [Sync -> Outcome]
      BY <1>4, DecideTypes DEF UpsertFails, Outcome
    <2>4. WorkType'
      BY <1>4, <2>3 DEF UpsertFails, WorkType
    <2> QED BY <1>4, <2>1, <2>2, <2>4 DEF UpsertFails
  <1>5. \A done, broken \in SUBSET Doc : Reindexed(s, done, broken) \in [Doc -> Version]
    BY <1>0 DEF Reindexed, WorkType, StoreType
  <1>6. CASE Ingest(s)
    <2>1. PcType'
      BY <1>6, <1>0, GoToTypes DEF Ingest
    <2>2. PICK failing \in SUBSET changed[s] :
            /\ UNCHANGED budget \/ Spend("loss")
            /\ \E broken \in SUBSET failing :
                 index' = Reindexed(s, changed[s] \ failing, broken)
            /\ outcome' = [outcome EXCEPT ![s] =
                 IngestStatus(failing, changed[s] \ failing)]
      BY <1>6 DEF Ingest
    <2>3. changed[s] \subseteq Doc
      BY DEF WorkType
    <2>4. StoreType'
      <3>1. PICK broken \in SUBSET failing :
              index' = Reindexed(s, changed[s] \ failing, broken)
        BY <2>2
      <3>2. index' \in [Doc -> Version]
        BY <1>5, <2>3, <3>1
      <3> QED BY <1>6, <3>2 DEF Ingest, StoreType
    <2>5. IngestStatus(failing, changed[s] \ failing) \in Outcome
      BY DEF IngestStatus, Outcome
    <2>6. WorkType'
      BY <1>6, <2>2, <2>5 DEF Ingest, WorkType
    <2>7. BudgetType'
      BY <1>0, <2>2, SpendTypes
    <2> QED BY <1>6, <2>1, <2>4, <2>6, <2>7 DEF Ingest
  <1>7. CASE MarkSynced(s)
    <2>1. PcType'
      BY <1>7, <1>0, GoToTypes DEF MarkSynced
    <2>2. \A d \in Doc : [raw[d] EXCEPT !.synced = TRUE]
                           \in [version : Version, synced : BOOLEAN]
      BY MarkedRow DEF StoreType
    <2>3. StoreType'
      <3>1. raw' \in [Doc -> [version : Version, synced : BOOLEAN]]
        <4>1. raw' = [d \in Doc |-> IF d \in Marked(s) /\ raw[d].version # 0
                                   THEN [raw[d] EXCEPT !.synced = TRUE] ELSE raw[d]]
          BY <1>7 DEF MarkSynced
        <4>2. \A d \in Doc : raw[d] \in [version : Version, synced : BOOLEAN]
          BY DEF StoreType
        <4> QED BY <2>2, <4>1, <4>2
      <3>2. UNCHANGED index
        BY <1>7 DEF MarkSynced
      <3> QED BY <3>1, <3>2 DEF StoreType
    <2>4. outcome[s] \in Outcome
      BY DEF WorkType
    <2>5. outcome' \in [Sync -> Outcome]
      BY <1>7, <2>4, DecideTypes DEF MarkSynced
    <2>6. WorkType'
      BY <1>7, <2>5 DEF MarkSynced, WorkType
    <2> QED BY <1>7, <2>1, <2>3, <2>6 DEF MarkSynced
  <1>8. CASE Interrupt(s)
    <2>1. PcType'
      BY <1>8, <1>0, GoToTypes DEF Interrupt
    <2>2. changed[s] \subseteq Doc
      BY DEF WorkType
    <2>3. \/ index' = index
          \/ \E done, broken \in SUBSET Doc : index' = Reindexed(s, done, broken)
      BY <1>8, <2>2 DEF Interrupt
    <2>4. StoreType'
      <3>1. CASE index' = index
        BY <1>8, <3>1 DEF Interrupt, StoreType
      <3>2. ASSUME NEW done \in SUBSET Doc, NEW broken \in SUBSET Doc,
                   index' = Reindexed(s, done, broken)
            PROVE  StoreType'
        <4>1. index' \in [Doc -> Version]
          BY <1>5, <3>2
        <4> QED BY <1>8, <4>1 DEF Interrupt, StoreType
      <3> QED BY <2>3, <3>1, <3>2
    <2>5. BudgetType'
      BY <1>8, <1>0, SpendTypes DEF Interrupt
    <2>6. outcome[s] \in Outcome
      BY DEF WorkType
    <2>7. outcome' \in [Sync -> Outcome]
      <3>1. UNCHANGED outcome \/ Decide(s, outcome[s])
        BY <1>8 DEF Interrupt
      <3> QED BY <2>6, <3>1, DecideTypes DEF WorkType
    <2>8. WorkType'
      BY <1>8, <2>7 DEF Interrupt, WorkType
    <2> QED BY <1>8, <2>1, <2>4, <2>5, <2>8 DEF Interrupt
  <1>9. CASE Finish(s)
    <2>1. PcType' /\ WorkType'
      BY <1>9, EndTypes DEF Finish
    <2>2. CursorAfter(s) \in Version
      BY DEF CursorAfter, WorkType, RowType
    <2>3. RowType'
      BY <1>9, <2>2 DEF Finish, RowType
    <2> QED BY <1>9, <2>1, <2>3 DEF Finish
  <1>10. CASE FinishFails(s)
    <2>1. PcType' /\ WorkType'
      BY <1>10, EndTypes DEF FinishFails
    <2>2. BudgetType'
      BY <1>10, <1>0, SpendTypes DEF FinishFails
    <2> QED BY <1>10, <2>1, <2>2 DEF FinishFails
  <1> QED BY <1>1, <1>2, <1>3, <1>4, <1>6, <1>7, <1>8, <1>9, <1>10

\* The rest of the API, the clock and the source.
LEMMA OtherTypes ==
  ASSUME Typed,
         \/ \E c \in Config : EditConfig(c)
         \/ TestConnection \/ RunIsDue
         \/ \E p \in Process : Kill(p) \/ Restart(p)
         \/ \E d \in Doc : ChangeSource(d)
  PROVE  Typed'
  <1> USE KeptTypes DEF Typed
  <1>0. 0 \in Version /\ {"stop", "edit"} \subseteq Trouble /\ "failed" \in Outcome
    BY DEF Version, Trouble, Outcome
  <1>1. ASSUME NEW c \in Config, EditConfig(c) PROVE Typed'
    <2>1. BudgetType'
      BY <1>1, <1>0, SpendTypes DEF EditConfig
    <2>2. RowType'
      BY <1>1, <1>0 DEF EditConfig, RowType
    <2> QED BY <1>1, <2>1, <2>2 DEF EditConfig
  <1>2. CASE TestConnection
    <2>1. RowType'
      BY <1>2 DEF TestConnection, RowType
    <2> QED BY <1>2, <2>1 DEF TestConnection
  <1>3. CASE RunIsDue
    <2>1. due' \in BOOLEAN
      BY <1>3, Zenon DEF RunIsDue
    <2>2. RowType'
      BY <1>3, <2>1 DEF RunIsDue, RowType
    <2> QED BY <1>3, <2>2 DEF RunIsDue
  <1>4. ASSUME NEW p \in Process, Kill(p) PROVE Typed'
    <2>1. BudgetType'
      BY <1>4, <1>0, SpendTypes DEF Kill
    <2> QED BY <1>4, <2>1 DEF Kill
  <1>5. ASSUME NEW p \in Process, Restart(p) PROVE Typed'
    <2>1. RowType'
      BY <1>5 DEF Restart, Recovered, RowType
    <2>2. PcType'
      BY <1>5 DEF Restart, Mine, PcType
    <2>3. partly' \in [Sync -> BOOLEAN]
      BY <1>5, Zenon DEF Restart, Mine, WorkType
    <2>4. [d \in Doc |-> 0] \in [Doc -> Version]
      BY <1>0
    <2>5. fetched' \in [Sync -> [Doc -> Version]]
      BY <1>5, <2>4 DEF Restart, Mine, WorkType
    <2>6. WorkType'
      BY <1>5, <1>0, <2>3, <2>5 DEF Restart, Mine, WorkType
    <2> QED BY <1>5, <2>1, <2>2, <2>6 DEF Restart
  <1>6. ASSUME NEW d \in Doc, ChangeSource(d) PROVE Typed'
    <2>1. SourceType'
      BY <1>6 DEF ChangeSource, SourceType
    <2> QED BY <1>6, <2>1 DEF ChangeSource
  <1> QED BY <1>1, <1>2, <1>3, <1>4, <1>5, <1>6

\* Every step keeps Types.
LEMMA NextTypes == Typed /\ [Next]_vars => Typed'
  <1>1. Typed /\ UNCHANGED vars => Typed'
    BY KeptTypes DEF Typed, vars
  <1>2. ASSUME Typed, NEW s \in Sync, Attempt(s) PROVE Typed'
    BY <1>2, ClaimTypes, TaskTypes DEF Attempt
  <1> QED BY <1>1, <1>2, OtherTypes DEF Next

\* Every variable keeps its type.
THEOREM TypeCorrect == Spec => []TypeOK
  <1>1. Typed /\ [Next]_vars => Typed'
    BY NextTypes
  <1> QED BY InitTypes, <1>1, TypedOK, PTL DEF Spec

-----------------------------------------------------------------------------
(* The lock.                                                               *)

\* One API process, and edits and tests of a connection wait for its syncs.
Exclusive == Careful = TRUE /\ \A p, q \in Process : p = q

\* Attempts other than s, and what an attempt never changes.
Others(s) ==
  /\ \A t \in Sync \ {s} :
       /\ pc'[t] = pc[t] /\ since'[t] = since[t] /\ using'[t] = using[t]
       /\ began'[t] = began[t] /\ fetched'[t] = fetched[t]
       /\ changed'[t] = changed[t] /\ partly'[t] = partly[t]
       /\ outcome'[t] = outcome[t]
  /\ UNCHANGED <<config, clock, edited>>

\* An attempt that ends changes no other, and forgets its outcome.
LEMMA EndOthers ==
  ASSUME Typed, NEW s \in Sync, End(s), UNCHANGED <<config, clock, edited>>
  PROVE  Others(s) /\ pc'[s] = "idle" /\ outcome'[s] = "failed"
  BY DEF Typed, PcType, WorkType, End, GoTo, Others

\* A step of one attempt changes no local of another.
LEMMA AttemptOthers ==
  ASSUME Typed, NEW s \in Sync, Attempt(s)
  PROVE  Others(s)
  <1> USE DEF Typed, PcType, WorkType, GoTo, Read, Decide, Others, row, stores, work,
              source
  <1>1. CASE RequestSync(s) \/ ClaimForSync(s) \/ ListDue(s) \/ ClaimForAutosync(s)
             \/ ClaimLost(s) \/ ReadClaimed(s)
    BY <1>1 DEF RequestSync, ClaimForSync, ListDue, ClaimForAutosync, ClaimLost,
                ReadClaimed
  <1>2. CASE SyncRefused(s) \/ Release(s) \/ Finish(s) \/ FinishFails(s)
    <2>1. End(s) /\ UNCHANGED <<config, clock, edited>>
      BY <1>2 DEF SyncRefused, Release, Finish, FinishFails
    <2> QED BY <2>1, EndOthers
  <1>3. CASE Start(s) \/ Fetch(s) \/ MarkSynced(s) \/ Interrupt(s)
    BY <1>3 DEF Start, Fetch, MarkSynced, Interrupt
  <1>4. CASE Upsert(s) \/ UpsertFails(s) \/ Ingest(s)
    BY <1>4 DEF Upsert, UpsertFails, Ingest
  <1> QED BY <1>1, <1>2, <1>3, <1>4 DEF Attempt

\* Only one attempt is past its claim.
LEMMA Alone ==
  ASSUME LockHeld, NEW s \in Sync, pc[s] \in Claiming, NEW t \in Sync \ {s}
  PROVE  pc[t] \notin Claiming
  BY DEF LockHeld

\* With one API process, a restart leaves no attempt at work.
LEMMA RestartIdle ==
  ASSUME Typed, Exclusive, NEW p \in Process, Restart(p)
  PROVE  \A s \in Sync : pc'[s] = "idle" /\ outcome'[s] = "failed"
  BY DEF Typed, PcType, WorkType, Exclusive, Restart, Mine

\* The steps of an attempt that has not claimed yet.
LEMMA ClaimLock ==
  ASSUME Typed, LockHeld, NEW s \in Sync,
         \/ RequestSync(s) \/ ClaimForSync(s) \/ SyncRefused(s) \/ ListDue(s)
         \/ ClaimForAutosync(s) \/ ClaimLost(s)
  PROVE  LockHeld'
  <1> USE DEF row
  <1>0. Others(s)
    BY AttemptOthers DEF Attempt
  <1>1. CASE ClaimForSync(s) \/ ClaimForAutosync(s)
    <2>1. status' = "syncing" /\ token' = s /\ status # "syncing"
      BY <1>1 DEF ClaimForSync, ClaimForAutosync, Claimed, Free
    <2>2. \A t \in Sync : pc[t] \notin Claiming
      BY <2>1 DEF LockHeld
    <2> QED BY <1>0, <2>1, <2>2 DEF LockHeld, Others
  <1>2. CASE RequestSync(s) \/ ListDue(s) \/ ClaimLost(s) \/ SyncRefused(s)
    <2>1. pc'[s] \in {"asked", "listed", "idle"}
      BY <1>2, EndOthers DEF RequestSync, ListDue, ClaimLost, SyncRefused, Typed, PcType,
                             GoTo, End
    <2>2. UNCHANGED <<status, token>>
      BY <1>2 DEF RequestSync, ListDue, ClaimLost, SyncRefused
    <2> QED BY <1>0, <2>1, <2>2 DEF LockHeld, Others, Claiming, Running
  <1> QED BY <1>1, <1>2

\* The steps of an attempt that has: no other has.
LEMMA TaskLock ==
  ASSUME Typed, LockHeld, NEW s \in Sync, Attempt(s), pc[s] \in Claiming
  PROVE  LockHeld'
  <1> USE DEF row
  <1>0. Others(s) /\ \A t \in Sync \ {s} : pc[t] \notin Claiming
    BY AttemptOthers, Alone
  <1>1. CASE Release(s) \/ Finish(s) \/ FinishFails(s)
    <2>1. pc'[s] = "idle"
      BY <1>1 DEF Release, Finish, FinishFails, End, GoTo, Typed, PcType
    <2> QED BY <1>0, <2>1 DEF LockHeld, Others, Claiming, Running
  <1>2. CASE ReadClaimed(s) \/ Start(s) \/ Fetch(s) \/ Upsert(s) \/ UpsertFails(s)
             \/ Ingest(s) \/ MarkSynced(s) \/ Interrupt(s)
    <2>1. UNCHANGED <<status, token>>
      BY <1>2 DEF ReadClaimed, Start, Fetch, Upsert, UpsertFails, Ingest,
                  MarkSynced, Interrupt
    <2> QED BY <1>0, <2>1 DEF LockHeld, Others
  <1>3. CASE RequestSync(s) \/ ClaimForSync(s) \/ SyncRefused(s) \/ ListDue(s)
             \/ ClaimForAutosync(s) \/ ClaimLost(s)
    BY <1>3, ClaimLock
  <1> QED BY <1>1, <1>2, <1>3 DEF Attempt

\* When all is quiet, nobody is past a claim.
LEMMA QuietLock == Quiet => \A s \in Sync : pc[s] \notin Claiming
  BY DEF Quiet, Claiming, Running

\* Edits, tests, the clock of the scheduler, kills, restarts and changes of the
\* source leave the lock held.
LEMMA OtherLock ==
  ASSUME Typed, LockHeld, Exclusive,
         \/ \E c \in Config : EditConfig(c)
         \/ TestConnection \/ RunIsDue
         \/ \E p \in Process : Kill(p) \/ Restart(p)
         \/ \E d \in Doc : ChangeSource(d)
  PROVE  LockHeld'
  <1> USE DEF row
  <1>1. CASE (\E c \in Config : EditConfig(c)) \/ TestConnection
    <2>1. Quiet /\ pc' = pc
      BY <1>1 DEF EditConfig, TestConnection, Exclusive
    <2> QED BY <2>1, QuietLock DEF LockHeld
  <1>2. CASE RunIsDue \/ (\E p \in Process : Kill(p)) \/ \E d \in Doc : ChangeSource(d)
    BY <1>2 DEF RunIsDue, Kill, ChangeSource, LockHeld
  <1>3. ASSUME NEW p \in Process, Restart(p) PROVE LockHeld'
    BY <1>3, RestartIdle DEF LockHeld, Claiming, Running
  <1> QED BY <1>1, <1>2, <1>3

\* Every step keeps Lock.
LEMMA NextLock == Typed /\ LockHeld /\ Exclusive /\ [Next]_vars => LockHeld'
  <1>1. LockHeld /\ UNCHANGED vars => LockHeld'
    BY DEF LockHeld, vars, row
  <1>2. ASSUME Typed, LockHeld, NEW s \in Sync, Attempt(s) PROVE LockHeld'
    <2>1. CASE pc[s] \in Claiming
      BY <1>2, <2>1, TaskLock
    <2>2. CASE pc[s] \notin Claiming
      <3>1. \/ RequestSync(s) \/ ClaimForSync(s) \/ SyncRefused(s) \/ ListDue(s)
            \/ ClaimForAutosync(s) \/ ClaimLost(s)
        BY <1>2, <2>2 DEF Attempt, ReadClaimed, Release, Start, Fetch, Upsert,
             UpsertFails, Ingest, MarkSynced, Interrupt, Finish, FinishFails, At,
             Claiming, Running
      <3> QED BY <1>2, <3>1, ClaimLock
    <2> QED BY <2>1, <2>2
  <1> QED BY <1>1, <1>2, OtherLock DEF Next

\* Lock holds in the initial states.
LEMMA InitLock == Init => LockHeld
  BY DEF Init, LockHeld, Claiming, Running

\* In one process, and if edits and tests wait, no claim, release, recovery or
\* terminal write ever takes the row from the attempt that works on it.
THEOREM LockKept == Exclusive => (Spec => []LockHeld)
  <1> SUFFICES ASSUME Exclusive PROVE Spec => []LockHeld
    OBVIOUS
  <1>1. Typed /\ LockHeld /\ [Next]_vars => Typed' /\ LockHeld'
    BY NextTypes, NextLock
  <1> QED BY InitTypes, InitLock, <1>1, PTL DEF Spec

-----------------------------------------------------------------------------
(* The cursor.                                                             *)

Prepared == {"asked", "ready"} \cup Running

\* The cursor is in the past, and a sync that runs began after it was stamped.
\* An attempt that has read the row knows the configuration, and a cursor that
\* is not ahead of the row's.
Timely ==
  /\ cursor <= clock
  /\ \A d \in Doc : edited[d] <= clock
  /\ \A s \in Sync :
       /\ pc[s] \in Running => cursor <= began[s] /\ began[s] <= clock
       /\ pc[s] \in Prepared => using[s] = config /\ since[s] <= cursor

\* No attempt has acted on a status before its ingest set one.
Undecided ==
  \A s \in Sync :
    pc[s] \notin {"ingested", "finishing"} => outcome[s] = "failed"

\* Timely holds in the initial states.
LEMMA InitTimely == Init => Timely /\ Undecided
  BY DEF Init, Timely, Undecided, Prepared, Running

\* The steps of an attempt that touch neither cursor nor clock, by what they do
\* to its own locals.
LEMMA LocalTimely ==
  ASSUME Typed, Timely, NEW s \in Sync, Others(s), UNCHANGED cursor,
         pc'[s] \in Running => cursor <= began'[s] /\ began'[s] <= clock,
         pc'[s] \in Prepared => using'[s] = config /\ since'[s] <= cursor
  PROVE  Timely'
  BY DEF Typed, RowType, SourceType, Timely, Others

\* An attempt keeps the times in order.
LEMMA AttemptTimely ==
  ASSUME Typed, LockHeld, Timely, NEW s \in Sync, Attempt(s)
  PROVE  Timely'
  <1> USE DEF row, source
  <1>0. Others(s)
    BY AttemptOthers
  <1>1. CASE RequestSync(s) \/ ReadClaimed(s)
    <2>1. UNCHANGED cursor /\ pc'[s] \in {"asked", "ready"} /\ pc'[s] \notin Running
      BY <1>1 DEF RequestSync, ReadClaimed, GoTo, Typed, PcType, Running
    <2>2. using'[s] = config /\ since'[s] \in {0, cursor}
      BY <1>1 DEF RequestSync, ReadClaimed, Read, Typed, WorkType
    <2>3. since'[s] <= cursor
      BY <2>2 DEF Typed, RowType, Version
    <2> QED BY <1>0, <2>1, <2>2, <2>3, LocalTimely
  <1>2. CASE ListDue(s) \/ ClaimForAutosync(s) \/ ClaimLost(s)
    <2>1. UNCHANGED cursor /\ pc'[s] \in {"idle", "listed", "claimed"}
      BY <1>2 DEF ListDue, ClaimForAutosync, ClaimLost, GoTo, Typed, PcType
    <2> QED BY <1>0, <2>1, LocalTimely DEF Prepared, Running
  <1>3. CASE ClaimForSync(s)
    <2>1. /\ UNCHANGED <<cursor, using, since>> /\ pc[s] = "asked" /\ pc'[s] = "ready"
      BY <1>3 DEF ClaimForSync, At, GoTo, Typed, PcType, work
    <2>2. using'[s] = config /\ since'[s] <= cursor
      BY <2>1 DEF Timely, Prepared
    <2> QED BY <1>0, <2>1, <2>2, LocalTimely DEF Prepared, Running
  <1>4. CASE SyncRefused(s) \/ Release(s) \/ FinishFails(s)
    <2>1. UNCHANGED cursor /\ pc'[s] = "idle"
      BY <1>4, EndOthers DEF SyncRefused, Release, FinishFails, End, GoTo, Typed, PcType
    <2> QED BY <1>0, <2>1, LocalTimely DEF Prepared, Running
  <1>5. CASE Start(s)
    <2>1. /\ UNCHANGED <<cursor, using, since>> /\ pc[s] = "ready"
          /\ pc'[s] = "started" /\ began'[s] = clock
      BY <1>5 DEF Start, At, GoTo, Typed, PcType, WorkType
    <2>2. /\ using'[s] = config /\ since'[s] <= cursor
          /\ cursor <= began'[s] /\ began'[s] <= clock
      BY <2>1 DEF Timely, Prepared, Typed, RowType, SourceType, Version
    <2> QED BY <1>0, <2>1, <2>2, LocalTimely
  <1>6. CASE Fetch(s) \/ Upsert(s) \/ UpsertFails(s) \/ Ingest(s) \/ MarkSynced(s)
             \/ Interrupt(s)
    <2>1. UNCHANGED <<cursor, using, since, began>> /\ pc[s] \in Running
      BY <1>6 DEF Fetch, Upsert, UpsertFails, Ingest, MarkSynced, Interrupt, At,
                  Running, work
    <2>2. /\ using[s] = config /\ since[s] <= cursor
          /\ cursor <= began[s] /\ began[s] <= clock
      BY <2>1 DEF Timely, Prepared
    <2> QED BY <1>0, <2>1, <2>2, LocalTimely
  <1>7. CASE Finish(s)
    <2>1. /\ pc[s] \in Running /\ pc[s] \in Claiming /\ pc'[s] = "idle"
          /\ cursor' = CursorAfter(s)
      BY <1>7, EndOthers DEF Finish, At, End, GoTo, Typed, PcType, Running, Claiming
    <2>2. cursor <= began[s] /\ began[s] <= clock
      BY <2>1 DEF Timely
    <2>3. cursor <= cursor' /\ cursor' <= clock
      BY <2>1, <2>2 DEF CursorAfter, Timely, Typed, RowType, SourceType, Version
    <2>4. \A t \in Sync \ {s} : pc[t] \notin Running
      BY <2>1, Alone DEF Claiming
    <2>5. \A d \in Doc : edited'[d] <= clock'
      BY <1>0 DEF Timely, Others
    <2>6. ASSUME NEW t \in Sync, pc'[t] \in Prepared
          PROVE  using'[t] = config' /\ since'[t] <= cursor'
      <3>1. t # s /\ pc[t] \in Prepared
        BY <1>0, <2>1, <2>6 DEF Others, Prepared, Running
      <3>2. using[t] = config /\ since[t] <= cursor
        BY <3>1 DEF Timely
      <3>3. since[t] \in Nat /\ cursor \in Nat /\ cursor' \in Nat
        BY <2>1 DEF Typed, RowType, WorkType, Version, CursorAfter
      <3>4. using'[t] = using[t] /\ since'[t] = since[t] /\ config' = config
        BY <1>0, <3>1 DEF Others
      <3> QED BY <2>3, <3>2, <3>3, <3>4
    <2>7. \A t \in Sync : pc'[t] \notin Running
      BY <1>0, <2>1, <2>4 DEF Others, Running
    <2>8. cursor' <= clock'
      BY <1>0, <2>3 DEF Others
    <2> QED BY <2>5, <2>6, <2>7, <2>8 DEF Timely
  <1> QED BY <1>1, <1>2, <1>3, <1>4, <1>5, <1>6, <1>7 DEF Attempt

\* An attempt has the outcome failed until an ingest set another.
LEMMA AttemptUndecided ==
  ASSUME Typed, Undecided, NEW s \in Sync, Attempt(s)
  PROVE  Undecided'
  <1> USE DEF row, work
  <1>0. Others(s)
    BY AttemptOthers
  <1>1. CASE RequestSync(s) \/ ClaimForSync(s) \/ ListDue(s) \/ ClaimForAutosync(s)
             \/ ClaimLost(s) \/ ReadClaimed(s) \/ Start(s) \/ Fetch(s)
    <2>1. UNCHANGED outcome /\ pc[s] \notin {"ingested", "finishing"}
      BY <1>1 DEF RequestSync, ClaimForSync, ListDue, ClaimForAutosync, ClaimLost,
                  ReadClaimed, Start, Fetch, Fresh, At, Read
    <2> QED BY <1>0, <2>1 DEF Undecided, Others
  <1>2. CASE SyncRefused(s) \/ Release(s) \/ Finish(s) \/ FinishFails(s)
    <2>1. outcome'[s] = "failed"
      BY <1>2 DEF SyncRefused, Release, Finish, FinishFails, End, Typed, WorkType
    <2> QED BY <1>0, <2>1 DEF Undecided, Others
  <1>3. CASE Upsert(s) \/ UpsertFails(s) \/ Ingest(s) \/ MarkSynced(s) \/ Interrupt(s)
    <2>1. \/ pc'[s] \in {"ingested", "finishing"}
          \/ UNCHANGED outcome /\ pc[s] = "fetched"
      BY <1>3 DEF Upsert, UpsertFails, Ingest, MarkSynced, Interrupt, At, GoTo,
                  Typed, PcType
    <2> QED BY <1>0, <2>1 DEF Undecided, Others
  <1> QED BY <1>1, <1>2, <1>3 DEF Attempt

\* What is not a step of an attempt keeps the times in order and the outcomes
\* undecided.
LEMMA OtherTimely ==
  ASSUME Typed, LockHeld, Exclusive, Timely, Undecided,
         \/ \E c \in Config : EditConfig(c)
         \/ TestConnection \/ RunIsDue
         \/ \E p \in Process : Kill(p) \/ Restart(p)
         \/ \E d \in Doc : ChangeSource(d)
  PROVE  Timely' /\ Undecided'
  <1> USE DEF row, source, work
  <1>1. ASSUME NEW c \in Config, EditConfig(c) PROVE Timely' /\ Undecided'
    <2>1. Quiet /\ UNCHANGED <<pc, outcome, clock, edited>> /\ cursor' = 0
      BY <1>1 DEF EditConfig, Exclusive
    <2>2. \A s \in Sync : pc'[s] \notin Prepared
      BY <2>1 DEF Quiet, Prepared, Running
    <2> QED BY <2>1, <2>2 DEF Timely, Undecided, Prepared, Typed, SourceType
  <1>2. CASE TestConnection \/ RunIsDue \/ \E p \in Process : Kill(p)
    BY <1>2 DEF TestConnection, RunIsDue, Kill, Timely, Undecided
  <1>3. ASSUME NEW p \in Process, Restart(p) PROVE Timely' /\ Undecided'
    <2>1. UNCHANGED <<cursor, clock, edited>>
      BY <1>3 DEF Restart
    <2> QED BY <1>3, <2>1, RestartIdle DEF Timely, Undecided, Prepared, Running
  <1>4. ASSUME NEW d \in Doc, ChangeSource(d) PROVE Timely' /\ Undecided'
    <2>1. /\ UNCHANGED <<cursor, config, pc, began, using, since, outcome>>
          /\ clock' = clock + 1 /\ edited' = [edited EXCEPT ![d] = clock + 1]
      BY <1>4 DEF ChangeSource
    <2>2. Undecided'
      BY <2>1 DEF Undecided
    <2>3. clock \in Nat /\ cursor \in Nat /\ \A s \in Sync : began[s] \in Nat
      BY DEF Typed, RowType, SourceType, WorkType, Version
    <2>4. \A e \in Doc : edited'[e] <= clock'
      BY <2>1, <2>3 DEF Timely, Typed, SourceType
    <2> QED BY <2>1, <2>2, <2>3, <2>4 DEF Timely
  <1> QED BY <1>1, <1>2, <1>3, <1>4

\* Every step keeps Timely.
LEMMA NextTimely ==
  Typed /\ LockHeld /\ Exclusive /\ Timely /\ Undecided /\ [Next]_vars
    => Timely' /\ Undecided'
  <1>1. Timely /\ Undecided /\ UNCHANGED vars => Timely' /\ Undecided'
    BY DEF Timely, Undecided, vars, row, work, source
  <1> QED BY <1>1, AttemptTimely, AttemptUndecided, OtherTimely DEF Next

\* The cursor of the row never goes back but by an edit of the configuration.
THEOREM CursorNeverBack == Exclusive => (Spec => CursorKept)
  <1> SUFFICES ASSUME Exclusive PROVE Spec => CursorKept
    OBVIOUS
  <1>1. ASSUME Typed, LockHeld, Timely, [Next]_vars
        PROVE  cursor' >= cursor \/ \E c \in Config : EditConfig(c)
    <2>0. cursor \in Nat
      BY <1>1 DEF Typed, RowType, Version
    <2>1. ASSUME NEW s \in Sync, Finish(s) PROVE cursor' >= cursor
      <3>1. pc[s] \in Running /\ cursor' = CursorAfter(s)
        BY <2>1 DEF Finish, At, Running
      <3> QED BY <1>1, <2>0, <3>1 DEF Timely, CursorAfter, Typed, WorkType, Version
    <2>2. ASSUME NEW s \in Sync, Attempt(s), ~Finish(s) PROVE cursor' = cursor
      BY <2>2 DEF Attempt, RequestSync, ClaimForSync, SyncRefused, ListDue,
           ClaimForAutosync, ClaimLost, ReadClaimed, Release, Start, Fetch, Upsert,
           UpsertFails, Ingest, MarkSynced, Interrupt, FinishFails, row
    <2>3. CASE \/ TestConnection \/ RunIsDue
               \/ \E p \in Process : Kill(p) \/ Restart(p)
               \/ \E d \in Doc : ChangeSource(d)
      <3>1. cursor' = cursor
        BY <2>3 DEF TestConnection, RunIsDue, Kill, Restart, ChangeSource, row
      <3> QED BY <2>0, <3>1
    <2>4. CASE UNCHANGED vars
      BY <2>0, <2>4 DEF vars, row
    <2>5. cursor' = cursor => cursor' >= cursor
      BY <2>0
    <2> QED BY <1>1, <2>1, <2>2, <2>3, <2>4, <2>5 DEF Next
  <1>2. Typed /\ LockHeld /\ Timely /\ Undecided /\ [Next]_vars
          => Typed' /\ LockHeld' /\ Timely' /\ Undecided'
    BY NextTypes, NextLock, NextTimely
  <1>3. Typed /\ LockHeld /\ Timely /\ [Next]_vars
          => [cursor' >= cursor \/ \E c \in Config : EditConfig(c)]_vars
    BY <1>1
  <1> QED BY InitTypes, InitLock, InitTimely, <1>2, <1>3, PTL DEF Spec, CursorKept

-----------------------------------------------------------------------------
(* Nothing behind the cursor is missing.                                   *)

LossBound == budget["loss"] <= Budget["loss"]

\* What the fetch of s returned: every document that had changed when it began
\* in its last version, but for what the cursor already covers.
Full(s) ==
  \A d \in VisibleIn[using[s]] :
    edited[d] <= began[s] =>
      \/ fetched[s][d] = edited[d]
      \/ edited[d] <= since[s] /\ fetched[s][d] = 0

\* The connector reported errors and nothing else.
Empty(s) == partly[s] = TRUE /\ Got(s) = {}

\* All that had changed when s began is stored.
Kept(s) ==
  \A d \in VisibleIn[using[s]] : edited[d] <= began[s] => raw[d].version = edited[d]

Progress(s) ==
  /\ pc[s] = "fetched" => Full(s) \/ Empty(s)
  /\ pc[s] \in {"stored", "ingested"} => Kept(s)
  /\ pc[s] = "finishing" /\ outcome[s] # "failed" => Kept(s)

Complete == Lossless => \A s \in Sync : Progress(s)

SkipInv == LossBound /\ Complete /\ NothingSkipped

\* Skip holds in the initial states.
LEMMA InitSkip == Init => SkipInv
  <1> SUFFICES ASSUME Init PROVE SkipInv
    OBVIOUS
  <1>1. LossBound
    BY DEF Init, LossBound, Trouble
  <1>2. Complete
    BY DEF Init, Complete, Progress
  <1>3. BehindCursor = {}
    BY DEF Init, BehindCursor
  <1> QED BY <1>1, <1>2, <1>3 DEF SkipInv, NothingSkipped

\* Trouble only gets used up.
LEMMA BudgetStep ==
  Next => UNCHANGED budget \/ \E t \in Trouble : Spend(t)
  <1> USE DEF Trouble
  <1>1. ASSUME NEW s \in Sync, Attempt(s)
        PROVE  UNCHANGED budget \/ \E t \in Trouble : Spend(t)
    <2>1. CASE RequestSync(s) \/ ClaimForSync(s) \/ SyncRefused(s) \/ ListDue(s)
               \/ ClaimForAutosync(s) \/ ClaimLost(s) \/ ReadClaimed(s) \/ Release(s)
      BY <2>1 DEF RequestSync, ClaimForSync, SyncRefused, ListDue, ClaimForAutosync,
                  ClaimLost, ReadClaimed, Release
    <2>2. CASE Start(s) \/ Upsert(s) \/ UpsertFails(s) \/ MarkSynced(s)
               \/ Interrupt(s) \/ Finish(s) \/ FinishFails(s)
      BY <2>2 DEF Start, Upsert, UpsertFails, MarkSynced, Interrupt, Finish, FinishFails
    <2>3. CASE Fetch(s) \/ Ingest(s)
      BY <2>3 DEF Fetch, Ingest
    <2> QED BY <1>1, <2>1, <2>2, <2>3 DEF Attempt
  <1> QED BY <1>1 DEF Next, EditConfig, TestConnection, RunIsDue, Kill, Restart,
             ChangeSource

\* Once a loss is spent, it stays spent.
LEMMA LossStep ==
  ASSUME Typed, LossBound, UNCHANGED budget \/ \E t \in Trouble : Spend(t)
  PROVE  LossBound' /\ (Lossless' => Lossless)
  BY DEF Typed, BudgetType, LossBound, Lossless, Spend, Trouble

\* A loss is a loss for good.
LEMMA LossSpent ==
  ASSUME Typed, LossBound, Spend("loss")
  PROVE  ~Lossless'
  BY DEF Typed, BudgetType, LossBound, Lossless, Spend, Trouble

\* A step of s that leaves raw_documents alone.
LEMMA LocalComplete ==
  ASSUME Typed, NEW s \in Sync, Others(s), Complete, Lossless, UNCHANGED raw,
         Progress(s)'
  PROVE  Complete'
  <1>1. ASSUME NEW t \in Sync \ {s} PROVE Progress(t)'
    <2>1. Progress(t)
      BY DEF Complete
    <2> QED BY <2>1 DEF Progress, Full, Empty, Kept, Got, Others
  <1> QED BY <1>1 DEF Complete

\* One that does not: s has claimed, so no other has.
LEMMA ClaimedComplete ==
  ASSUME Typed, LockHeld, NEW s \in Sync, pc[s] \in Claiming, Others(s), Progress(s)'
  PROVE  Complete'
  <1>1. \A t \in Sync \ {s} : pc'[t] \notin Claiming
    BY Alone DEF Others
  <1>2. \A t \in Sync \ {s} : Progress(t)'
    BY <1>1 DEF Progress, Claiming, Running
  <1> QED BY <1>2 DEF Complete

\* What was fetched in full is stored in full.
LEMMA UpsertKept ==
  ASSUME Typed, Timely, Lossless, NothingSkipped, NEW s \in Sync,
         pc[s] = "fetched", Full(s)
  PROVE  \A d \in VisibleIn[using[s]] :
           edited[d] <= began[s] => Upserted(s)[d].version = edited[d]
  <1> SUFFICES ASSUME NEW d \in VisibleIn[using[s]], edited[d] <= began[s]
               PROVE  Upserted(s)[d].version = edited[d]
    OBVIOUS
  <1>1. /\ using[s] = config /\ config \in Config /\ d \in Doc
        /\ since[s] \in Nat /\ cursor \in Nat /\ edited[d] \in Nat /\ edited[d] # 0
        /\ since[s] <= cursor
    BY DEF Typed, RowType, WorkType, SourceType, Version, Timely, Prepared, Running
  <1>2. CASE fetched[s][d] = edited[d]
    BY <1>1, <1>2 DEF Upserted, Got, Typed, StoreType
  <1>3. CASE edited[d] <= since[s] /\ fetched[s][d] = 0
    <2>1. d \in BehindCursor
      BY <1>1, <1>3 DEF BehindCursor
    <2>2. raw[d].version = edited[d]
      BY <2>1 DEF NothingSkipped
    <2>3. Upserted(s)[d] = raw[d]
      BY <1>1, <1>3 DEF Upserted, Got
    <2> QED BY <2>2, <2>3
  <1> QED BY <1>2, <1>3 DEF Full

\* A fetch that brought nothing stores nothing and changes nothing.
LEMMA EmptyUpsert ==
  ASSUME Typed, NEW s \in Sync, Got(s) = {}
  PROVE  Upserted(s) = raw /\ ChangedIds(s) = {}
  BY DEF Typed, StoreType, Upserted, ChangedIds

\* Without a loss, a fetch is full up to the start of the sync, or empty with
\* errors.
LEMMA FetchProgress ==
  ASSUME Typed, Timely, LossBound, NEW s \in Sync, Fetch(s), Lossless'
  PROVE  Full(s)' \/ Empty(s)'
  <1>1. PICK got \in SUBSET News(s) :
          /\ \/ got = News(s) /\ UNCHANGED <<partly, budget>>
             \/ /\ Spend(IF got \in {{}, News(s)} THEN "fault" ELSE "loss")
                /\ partly' = [partly EXCEPT ![s] = TRUE]
          /\ fetched' = [fetched EXCEPT
               ![s] = [d \in Doc |-> IF d \in got THEN edited[d] ELSE 0]]
    BY DEF Fetch
  <1>2. UNCHANGED <<using, began, since, edited>>
    BY DEF Fetch, source
  <1>3. \A d \in Doc : fetched'[s][d] = IF d \in got THEN edited[d] ELSE 0
    BY <1>1 DEF Typed, WorkType
  <1>4. VisibleIn[using[s]] \subseteq Doc
    BY DEF Typed, WorkType
  <1>5. CASE got = News(s)
    <2>1. ASSUME NEW d \in VisibleIn[using[s]]
          PROVE  \/ fetched'[s][d] = edited[d]
                 \/ edited[d] <= since[s] /\ fetched'[s][d] = 0
      <3>1. edited[d] \in Nat /\ since[s] \in Nat /\ d \in Doc
        BY <1>4 DEF Typed, SourceType, WorkType, Version
      <3> QED BY <1>3, <1>5, <3>1 DEF News
    <2> QED BY <1>2, <2>1 DEF Full
  <1>6. CASE got # News(s)
    <2>1. got = {} /\ partly'[s] = TRUE
      <3>1. got \notin {{}, News(s)} => ~Lossless'
        BY <1>1, <1>6, LossSpent
      <3>2. got = {}
        BY <1>6, <3>1
      <3>3. partly' = [partly EXCEPT ![s] = TRUE]
        BY <1>1, <1>6
      <3> QED BY <3>2, <3>3, Zenon DEF Typed, WorkType
    <2> QED BY <1>3, <2>1 DEF Empty, Got
  <1> QED BY <1>5, <1>6

\* Each step of an attempt.
LEMMA AttemptSkip ==
  ASSUME Typed, LockHeld, Timely, Undecided, SkipInv, NEW s \in Sync, Attempt(s),
         Lossless, Lossless'
  PROVE  Complete' /\ NothingSkipped'
  <1> USE DEF SkipInv
  <1>0. Others(s) /\ UNCHANGED <<config, edited>>
    BY AttemptOthers DEF Others
  <1>a. UNCHANGED <<raw, cursor>> => NothingSkipped'
    BY <1>0 DEF NothingSkipped, BehindCursor
  <1>b. Progress(s)
    BY DEF Complete
  <1>1. CASE RequestSync(s) \/ ClaimForSync(s) \/ SyncRefused(s) \/ ListDue(s)
             \/ ClaimForAutosync(s) \/ ClaimLost(s) \/ ReadClaimed(s) \/ Release(s)
             \/ Start(s) \/ FinishFails(s)
    <2>1. UNCHANGED <<raw, cursor>>
      BY <1>1 DEF RequestSync, ClaimForSync, SyncRefused, ListDue, ClaimForAutosync,
                  ClaimLost, ReadClaimed, Release, Start, FinishFails, row, stores
    <2>2. pc'[s] \in {"idle", "asked", "listed", "claimed", "ready", "started"}
      BY <1>1 DEF RequestSync, ClaimForSync, SyncRefused, ListDue, ClaimForAutosync,
                  ClaimLost, ReadClaimed, Release, Start, FinishFails, End, GoTo, Typed,
                  PcType
    <2>3. Progress(s)'
      BY <2>2 DEF Progress
    <2> QED BY <1>0, <1>a, <2>1, <2>3, LocalComplete
  <1>2. CASE Fetch(s)
    <2>1. UNCHANGED <<raw, cursor>> /\ pc'[s] = "fetched"
      BY <1>2 DEF Fetch, row, stores, GoTo, Typed, PcType
    <2>2. Progress(s)'
      BY <1>2, <2>1, FetchProgress DEF Progress
    <2> QED BY <1>0, <1>a, <2>1, <2>2, LocalComplete
  <1>3. CASE Upsert(s)
    <2>1. /\ pc[s] = "fetched" /\ raw' = Upserted(s)
          /\ UNCHANGED <<cursor, using, began, since>>
      BY <1>3 DEF Upsert, At, row
    <2>2. using[s] = config /\ cursor <= began[s]
      BY <2>1 DEF Timely, Prepared, Running
    <2>3. Full(s) => Kept(s)' /\ NothingSkipped'
      <3>1. SUFFICES ASSUME Full(s) PROVE Kept(s)' /\ NothingSkipped'
        OBVIOUS
      <3>2. Kept(s)'
        BY <1>0, <2>1, <3>1, UpsertKept DEF Kept
      <3>3. ASSUME NEW d \in BehindCursor' PROVE raw'[d].version = edited'[d]
        <4>1. d \in VisibleIn[using[s]] /\ edited[d] <= cursor
          BY <1>0, <2>1, <2>2, <3>3 DEF BehindCursor
        <4>2. edited[d] \in Nat /\ cursor \in Nat /\ began[s] \in Nat
          BY <4>1 DEF Typed, RowType, SourceType, WorkType, Version
        <4>3. edited[d] <= began[s]
          BY <2>2, <4>1, <4>2
        <4> QED BY <1>0, <2>1, <3>1, <4>1, <4>3, UpsertKept
      <3> QED BY <3>2, <3>3 DEF NothingSkipped
    <2>4. Empty(s) => UNCHANGED raw /\ ChangedIds(s) = {} /\ NothingSkipped'
      BY <1>a, <2>1, EmptyUpsert DEF Empty
    <2>5. Full(s) \/ Empty(s)
      BY <1>b, <2>1 DEF Progress
    <2>6. CASE ChangedIds(s) = {}
      <3>1. pc'[s] = "finishing" /\ outcome'[s] = Reconciled(s, "success")
        BY <1>3, <2>6 DEF Upsert, Decide, GoTo, Typed, PcType, WorkType
      <3>2. Empty(s) => outcome'[s] = "failed"
        BY <3>1 DEF Empty, Reconciled
      <3> QED BY <1>0, <2>1, <2>3, <2>4, <2>5, <3>1, <3>2, ClaimedComplete
              DEF Progress, Claiming, Running
    <2>7. CASE ChangedIds(s) # {}
      <3>1. pc'[s] = "stored" /\ Full(s)
        BY <1>3, <2>4, <2>5, <2>7 DEF Upsert, GoTo, Typed, PcType
      <3> QED BY <1>0, <2>1, <2>3, <3>1, ClaimedComplete DEF Progress, Claiming, Running
    <2> QED BY <2>6, <2>7
  <1>4. CASE UpsertFails(s)
    <2>1. UNCHANGED <<raw, cursor>> /\ pc'[s] = "finishing" /\ outcome'[s] = "failed"
      BY <1>4 DEF UpsertFails, row, stores, GoTo, Decide, Reconciled, Typed, PcType,
                  WorkType
    <2>2. Progress(s)'
      BY <2>1 DEF Progress
    <2> QED BY <1>0, <1>a, <2>1, <2>2, LocalComplete
  <1>5. CASE Ingest(s)
    <2>1. /\ UNCHANGED <<raw, cursor, using, began>>
          /\ pc[s] = "stored" /\ pc'[s] = "ingested"
      BY <1>5 DEF Ingest, row, At, GoTo, Typed, PcType
    <2>2. Progress(s)'
      BY <1>0, <1>b, <2>1 DEF Progress, Kept
    <2> QED BY <1>0, <1>a, <2>1, <2>2, LocalComplete
  <1>6. CASE MarkSynced(s)
    <2>1. /\ UNCHANGED <<cursor, using, began>> /\ pc[s] = "ingested"
          /\ pc'[s] = "finishing"
      BY <1>6 DEF MarkSynced, row, At, GoTo, Typed, PcType
    <2>2. \A d \in Doc : raw'[d].version = raw[d].version
      BY <1>6 DEF MarkSynced, Typed, StoreType
    <2>3. VisibleIn[using[s]] \subseteq Doc /\ VisibleIn[config] \subseteq Doc
      BY DEF Typed, WorkType, RowType
    <2>4. Kept(s)'
      BY <1>0, <1>b, <2>1, <2>2, <2>3 DEF Progress, Kept
    <2>5. NothingSkipped'
      BY <1>0, <2>1, <2>2, <2>3 DEF NothingSkipped, BehindCursor
    <2> QED BY <1>0, <2>1, <2>4, <2>5, ClaimedComplete DEF Progress, Claiming, Running
  <1>7. CASE Interrupt(s)
    <2>1. /\ UNCHANGED <<raw, cursor, using, began>> /\ pc'[s] = "finishing"
          /\ \/ pc[s] \in {"started", "fetched", "stored"} /\ UNCHANGED outcome
             \/ pc[s] = "ingested"
      BY <1>7 DEF Interrupt, row, At, GoTo, Typed, PcType
    <2>2. pc[s] # "ingested" => outcome'[s] = "failed"
      BY <2>1 DEF Undecided
    <2>3. Progress(s)'
      BY <1>0, <1>b, <2>1, <2>2 DEF Progress, Kept
    <2> QED BY <1>0, <1>a, <2>1, <2>3, LocalComplete
  <1>8. CASE Finish(s)
    <2>1. /\ UNCHANGED raw /\ pc[s] = "finishing" /\ pc'[s] = "idle"
          /\ cursor' = CursorAfter(s)
      BY <1>8, EndOthers DEF Finish, stores, At, End, GoTo, Typed, PcType
    <2>2. Progress(s)'
      BY <2>1 DEF Progress
    <2>3. NothingSkipped'
      <3>1. CASE outcome[s] \in {"success", "partial"}
        <4>1. cursor' = began[s] /\ Kept(s) /\ using[s] = config
          BY <1>b, <2>1, <3>1 DEF CursorAfter, Progress, Timely, Prepared, Running
        <4> QED BY <1>0, <2>1, <4>1 DEF NothingSkipped, BehindCursor, Kept
      <3>2. CASE outcome[s] \notin {"success", "partial"}
        BY <1>a, <2>1, <3>2 DEF CursorAfter
      <3> QED BY <3>1, <3>2
    <2> QED BY <1>0, <2>1, <2>2, <2>3, LocalComplete
  <1> QED BY <1>1, <1>2, <1>3, <1>4, <1>5, <1>6, <1>7, <1>8 DEF Attempt

\* What is not a step of an attempt skips no change.
LEMMA OtherSkip ==
  ASSUME Typed, LockHeld, Exclusive, Timely, SkipInv, Lossless,
         \/ \E c \in Config : EditConfig(c)
         \/ TestConnection \/ RunIsDue
         \/ \E p \in Process : Kill(p) \/ Restart(p)
         \/ \E d \in Doc : ChangeSource(d)
  PROVE  Complete' /\ NothingSkipped'
  <1> USE DEF SkipInv, row, source, work, stores
  <1>1. ASSUME NEW c \in Config, EditConfig(c) PROVE Complete' /\ NothingSkipped'
    <2>1. Quiet /\ UNCHANGED <<pc, edited>> /\ cursor' = 0 /\ config' = c
      BY <1>1 DEF EditConfig, Exclusive
    <2>2. \A s \in Sync : Progress(s)'
      BY <2>1 DEF Quiet, Progress
    <2>3. BehindCursor' = {}
      BY <2>1 DEF BehindCursor, Typed, SourceType
    <2> QED BY <2>2, <2>3 DEF Complete, NothingSkipped
  <1>2. CASE TestConnection \/ RunIsDue \/ \E p \in Process : Kill(p)
    <2>1. UNCHANGED <<cursor, config, raw, edited, pc, since, using, began, fetched,
                      partly, outcome>>
      BY <1>2 DEF TestConnection, RunIsDue, Kill
    <2>2. \A s \in Sync : Progress(s)'
      BY <2>1 DEF Complete, Progress, Full, Empty, Kept, Got
    <2> QED BY <2>1, <2>2 DEF Complete, NothingSkipped, BehindCursor
  <1>3. ASSUME NEW p \in Process, Restart(p) PROVE Complete' /\ NothingSkipped'
    <2>1. UNCHANGED <<cursor, config, raw, edited>>
      BY <1>3 DEF Restart
    <2>2. \A s \in Sync : Progress(s)'
      BY <1>3, RestartIdle DEF Progress
    <2> QED BY <2>1, <2>2 DEF Complete, NothingSkipped, BehindCursor
  <1>4. ASSUME NEW d \in Doc, ChangeSource(d) PROVE Complete' /\ NothingSkipped'
    <2>1. /\ UNCHANGED <<cursor, config, raw, pc, since, using, began, fetched,
                         partly, outcome>>
          /\ edited' = [edited EXCEPT ![d] = clock + 1]
      BY <1>4 DEF ChangeSource
    <2>2. \A e \in Doc : edited'[e] = edited[e] \/ edited'[e] > clock
      BY <2>1 DEF Typed, SourceType
    <2>3. ASSUME NEW s \in Sync, pc[s] \in Running PROVE began[s] <= clock
      BY <2>3 DEF Timely
    <2>4. /\ clock \in Nat /\ cursor \in Nat /\ cursor <= clock
          /\ \A s \in Sync : began[s] \in Nat
          /\ \A e \in Doc : edited'[e] \in Nat
      BY <2>1 DEF Typed, RowType, SourceType, WorkType, Version, Timely
    <2>5. ASSUME NEW s \in Sync PROVE Progress(s)'
      <3>1. Progress(s) /\ VisibleIn[using[s]] \subseteq Doc
        BY DEF Complete, Typed, WorkType
      <3>2. CASE pc[s] \in Running
        <4>1. \A e \in Doc : edited'[e] <= began[s] => edited'[e] = edited[e]
          BY <2>2, <2>3, <2>4, <3>2
        <4> QED BY <2>1, <3>1, <4>1 DEF Progress, Full, Empty, Kept, Got
      <3>3. CASE pc[s] \notin Running
        BY <2>1, <3>3 DEF Progress, Running
      <3> QED BY <3>2, <3>3
    <2>6. NothingSkipped'
      <3>1. VisibleIn[config] \subseteq Doc
        BY DEF Typed, RowType
      <3>2. \A e \in Doc : edited'[e] <= cursor => edited'[e] = edited[e]
        BY <2>2, <2>4
      <3> QED BY <2>1, <3>1, <3>2 DEF NothingSkipped, BehindCursor
    <2> QED BY <2>5, <2>6 DEF Complete
  <1> QED BY <1>1, <1>2, <1>3, <1>4

\* Every step keeps Skip.
LEMMA NextSkip ==
  ASSUME Typed, LockHeld, Exclusive, Timely, Undecided, SkipInv, [Next]_vars
  PROVE  SkipInv'
  <1>1. CASE UNCHANGED vars
    BY <1>1 DEF SkipInv, LossBound, Complete, NothingSkipped, BehindCursor, Lossless,
                Progress, Full, Empty, Kept, Got, vars, row, stores, work, source
  <1>2. CASE Next
    <2>1. LossBound' /\ (Lossless' => Lossless)
      BY <1>2, BudgetStep, LossStep DEF SkipInv
    <2>2. ~Lossless' => Complete' /\ NothingSkipped'
      BY DEF Complete, NothingSkipped
    <2>3. Lossless' => Complete' /\ NothingSkipped'
      BY <1>2, <2>1, AttemptSkip, OtherSkip DEF Next
    <2> QED BY <2>1, <2>2, <2>3 DEF SkipInv
  <1> QED BY <1>1, <1>2

\* As long as no part of the source fails alone, a change that lies behind the
\* cursor is in raw_documents: failing calls, kills, recoveries, retries, edits
\* of the configuration and a source that changes during a sync skip nothing.
THEOREM NoSkippedChange == Exclusive => (Spec => []NothingSkipped)
  <1> SUFFICES ASSUME Exclusive PROVE Spec => []NothingSkipped
    OBVIOUS
  <1> DEFINE Inv == Typed /\ LockHeld /\ Timely /\ Undecided /\ SkipInv
  <1>1. Init => Inv
    BY InitTypes, InitLock, InitTimely, InitSkip
  <1>2. Inv /\ [Next]_vars => Inv'
    BY NextTypes, NextLock, NextTimely, NextSkip
  <1>3. Inv => NothingSkipped
    BY DEF SkipInv
  <1> QED BY <1>1, <1>2, <1>3, PTL DEF Spec

-----------------------------------------------------------------------------
(* qdrant_synced.                                                          *)

\* What an attempt that has stored its documents knows of them.
Tracked(s) ==
  /\ pc[s] = "stored" =>
       \A d \in Doc :
         /\ d \in changed[s] => raw[d].synced = FALSE
         /\ d \in Got(s) => /\ raw[d].version = fetched[s][d]
                            /\ d \in changed[s] \/ raw[d].synced = TRUE
  /\ pc[s] = "ingested" =>
       \A d \in Got(s) : raw[d].version = fetched[s][d] /\ index[d] = fetched[s][d]

Marks == \A d \in Doc : raw[d].synced = TRUE => index[d] = raw[d].version

MarkInv == LossBound /\ (Lossless => Marks /\ \A s \in Sync : Tracked(s))

\* The flag of a document is a Boolean.
LEMMA SyncedBoolean == Typed => \A d \in Doc : raw[d].synced \in BOOLEAN
  BY DEF Typed, StoreType

\* The strengthening for the marks gives NoFalseMark.
LEMMA MarksEnough == Typed /\ MarkInv => NoFalseMark
  <1> SUFFICES ASSUME Typed, MarkInv, Lossless, NEW d \in Doc, raw[d].synced
               PROVE  index[d] = raw[d].version
    BY DEF NoFalseMark
  <1>1. raw[d].synced = TRUE
    BY SyncedBoolean, Zenon
  <1> QED BY <1>1 DEF MarkInv, Marks

\* Mark holds in the initial states.
LEMMA InitMark == Init => MarkInv
  <1> SUFFICES ASSUME Init PROVE MarkInv
    OBVIOUS
  <1>1. LossBound
    BY DEF Init, LossBound, Trouble
  <1> QED BY <1>1 DEF Init, MarkInv, Marks, Tracked

\* Another attempt is not past its claim, or nothing it knows of changed.
LEMMA OthersTracked ==
  ASSUME Typed, LockHeld, NEW s \in Sync, Others(s), \A t \in Sync : Tracked(t),
         pc[s] \in Claiming \/ UNCHANGED stores, Tracked(s)'
  PROVE  \A t \in Sync : Tracked(t)'
  <1>1. ASSUME NEW t \in Sync \ {s} PROVE Tracked(t)'
    <2>1. CASE pc[s] \in Claiming
      <3>1. pc'[t] \notin Claiming
        BY <2>1, Alone DEF Others
      <3> QED BY <3>1 DEF Tracked, Claiming, Running
    <2>2. CASE UNCHANGED stores
      BY <2>2 DEF Tracked, Got, Others, stores
    <2> QED BY <2>1, <2>2
  <1> QED BY <1>1

\* What upsert_raw_documents returns as changed is what is not in the index.
LEMMA UpsertTracked ==
  ASSUME Typed, NEW s \in Sync, Upsert(s), Marks
  PROVE  Marks' /\ Tracked(s)'
  <1>1. raw' = Upserted(s) /\ UNCHANGED <<index, fetched>>
    BY DEF Upsert
  <1>2. changed'[s] = ChangedIds(s) /\ Got(s)' = Got(s)
    BY <1>1 DEF Upsert, Typed, WorkType, Got
  <1>3. pc'[s] \in {"stored", "finishing"}
    BY DEF Upsert, GoTo, Typed, PcType
  <1>4. ASSUME NEW d \in Doc
        PROVE  /\ raw'[d].synced = FALSE \/ raw'[d] = raw[d]
               /\ d \in Got(s) => raw'[d].version = fetched[s][d]
    BY <1>1 DEF Upserted, Typed, StoreType
  <1>5. ASSUME NEW d \in Doc
        PROVE  /\ d \in changed'[s] => raw'[d].synced = FALSE
               /\ d \in Got(s) => d \in changed'[s] \/ raw'[d].synced = TRUE
    <2>1. raw'[d].synced \in BOOLEAN
      <3>1. raw' \in [Doc -> [version : Version, synced : BOOLEAN]]
        BY TaskTypes DEF Typed, StoreType
      <3> QED BY <3>1
    <2>2. d \in changed'[s] <=> d \in Got(s) /\ ~raw'[d].synced
      BY <1>1, <1>2 DEF ChangedIds, Got
    <2> QED BY <2>1, <2>2, Zenon
  <1>6. Marks'
    BY <1>1, <1>4 DEF Marks
  <1> QED BY <1>1, <1>2, <1>3, <1>4, <1>5, <1>6 DEF Tracked

\* Without a loss, an attempt marks only documents whose points are those
\* stored.
LEMMA AttemptMark ==
  ASSUME Typed, LockHeld, MarkInv, NEW s \in Sync, Attempt(s), Lossless, Lossless'
  PROVE  Marks' /\ \A t \in Sync : Tracked(t)'
  <1>0. Others(s) /\ Marks /\ \A t \in Sync : Tracked(t)
    BY AttemptOthers DEF MarkInv
  <1>1. CASE RequestSync(s) \/ ClaimForSync(s) \/ SyncRefused(s) \/ ListDue(s)
             \/ ClaimForAutosync(s) \/ ClaimLost(s) \/ ReadClaimed(s) \/ Release(s)
             \/ Start(s) \/ Fetch(s) \/ UpsertFails(s) \/ Finish(s) \/ FinishFails(s)
    <2>1. UNCHANGED stores
      BY <1>1 DEF RequestSync, ClaimForSync, SyncRefused, ListDue, ClaimForAutosync,
                  ClaimLost, ReadClaimed, Release, Start, Fetch, UpsertFails, Finish,
                  FinishFails
    <2>2. pc'[s] \notin {"stored", "ingested"}
      BY <1>1 DEF RequestSync, ClaimForSync, SyncRefused, ListDue, ClaimForAutosync,
                  ClaimLost, ReadClaimed, Release, Start, Fetch, UpsertFails, Finish,
                  FinishFails, End, GoTo, Typed, PcType
    <2>3. Tracked(s)' /\ Marks'
      BY <1>0, <2>1, <2>2 DEF Tracked, Marks, stores
    <2> QED BY <1>0, <2>1, <2>3, OthersTracked
  <1>2. CASE Upsert(s)
    <2>1. pc[s] \in Claiming
      BY <1>2 DEF Upsert, At, Claiming, Running
    <2> QED BY <1>0, <1>2, <2>1, UpsertTracked, OthersTracked
  <1>3. \A done, broken \in SUBSET changed[s] : \A d \in Doc \ changed[s] :
          Reindexed(s, done, broken)[d] = index[d]
    BY DEF Reindexed
  <1>4. CASE Ingest(s)
    <2>1. /\ UNCHANGED <<raw, fetched>> /\ pc[s] = "stored" /\ pc'[s] = "ingested"
          /\ pc[s] \in Claiming
      BY <1>4 DEF Ingest, At, GoTo, Typed, PcType, Claiming, Running
    <2>2. index' = Reindexed(s, changed[s], {})
      <3>1. PICK failing \in SUBSET changed[s] :
              /\ IF failing = {} THEN UNCHANGED budget ELSE Spend("loss")
              /\ \E broken \in SUBSET failing :
                   index' = Reindexed(s, changed[s] \ failing, broken)
        BY <1>4 DEF Ingest
      <3>2. failing = {}
        BY <3>1, LossSpent DEF MarkInv
      <3> QED BY <3>1, <3>2
    <2>3. \A d \in Doc : index'[d] = IF d \in changed[s] THEN fetched[s][d] ELSE index[d]
      BY <2>2 DEF Reindexed
    <2>4. \A d \in Doc :
            /\ d \in changed[s] => raw[d].synced = FALSE
            /\ d \in Got(s) => /\ raw[d].version = fetched[s][d]
                               /\ d \in changed[s] \/ raw[d].synced = TRUE
      BY <1>0, <2>1 DEF Tracked
    <2>5. Marks'
      BY <1>0, <2>1, <2>3, <2>4 DEF Marks
    <2>6. Tracked(s)'
      BY <1>0, <2>1, <2>3, <2>4 DEF Marks, Tracked, Got
    <2> QED BY <1>0, <2>1, <2>5, <2>6, OthersTracked
  <1>5. CASE MarkSynced(s)
    <2>1. /\ UNCHANGED index /\ pc[s] = "ingested" /\ pc'[s] = "finishing"
          /\ pc[s] \in Claiming
      BY <1>5 DEF MarkSynced, At, GoTo, Typed, PcType, Claiming, Running
    <2>2. \A d \in Doc : /\ raw'[d].version = raw[d].version
                         /\ d \in Got(s) \/ raw'[d] = raw[d]
      BY <1>5 DEF MarkSynced, Marked, Typed, StoreType
    <2>3. \A d \in Got(s) : index[d] = raw[d].version
      BY <1>0, <2>1 DEF Tracked
    <2>4. Marks' /\ Tracked(s)'
      BY <1>0, <2>1, <2>2, <2>3 DEF Marks, Tracked
    <2> QED BY <1>0, <2>1, <2>4, OthersTracked
  <1>6. CASE Interrupt(s)
    <2>1. /\ UNCHANGED raw /\ pc'[s] = "finishing" /\ pc[s] \in Claiming
      BY <1>6 DEF Interrupt, At, GoTo, Typed, PcType, Claiming, Running
    <2>2. CASE UNCHANGED index
      BY <1>0, <2>1, <2>2, OthersTracked DEF Marks, Tracked
    <2>3. CASE pc[s] = "stored" /\ \E done \in SUBSET changed[s] :
                 \E broken \in SUBSET (changed[s] \ done) :
                   index' = Reindexed(s, done, broken)
      <3>1. \A d \in Doc \ changed[s] : index'[d] = index[d]
        BY <1>3, <2>3
      <3>2. \A d \in Doc : d \in changed[s] => raw[d].synced = FALSE
        BY <1>0, <2>3 DEF Tracked
      <3>3. Marks' /\ Tracked(s)'
        BY <1>0, <2>1, <3>1, <3>2 DEF Marks, Tracked
      <3> QED BY <1>0, <2>1, <3>3, OthersTracked
    <2> QED BY <1>6, <2>2, <2>3 DEF Interrupt, At
  <1> QED BY <1>1, <1>2, <1>4, <1>5, <1>6 DEF Attempt

\* What is not a step of an attempt leaves the marks true.
LEMMA OtherMark ==
  ASSUME Typed, Exclusive, Marks, \A s \in Sync : Tracked(s),
         \/ \E c \in Config : EditConfig(c)
         \/ TestConnection \/ RunIsDue
         \/ \E p \in Process : Kill(p) \/ Restart(p)
         \/ \E d \in Doc : ChangeSource(d)
  PROVE  Marks' /\ \A s \in Sync : Tracked(s)'
  <1> USE DEF stores, work
  <1>1. CASE \/ \E c \in Config : EditConfig(c)
             \/ TestConnection \/ RunIsDue \/ \E p \in Process : Kill(p)
             \/ \E d \in Doc : ChangeSource(d)
    <2>1. UNCHANGED <<raw, index, pc, fetched, changed>>
      BY <1>1 DEF EditConfig, TestConnection, RunIsDue, Kill, ChangeSource
    <2> QED BY <2>1 DEF Marks, Tracked, Got
  <1>2. ASSUME NEW p \in Process, Restart(p)
        PROVE  Marks' /\ \A s \in Sync : Tracked(s)'
    <2>1. UNCHANGED <<raw, index>>
      BY <1>2 DEF Restart
    <2> QED BY <1>2, <2>1, RestartIdle DEF Marks, Tracked
  <1> QED BY <1>1, <1>2

\* Every step keeps Mark.
LEMMA NextMark ==
  ASSUME Typed, LockHeld, Exclusive, MarkInv, [Next]_vars
  PROVE  MarkInv'
  <1>1. CASE UNCHANGED vars
    BY <1>1 DEF MarkInv, LossBound, Lossless, Marks, Tracked, Got, vars, stores, work
  <1>2. CASE Next
    <2>1. LossBound' /\ (Lossless' => Lossless)
      BY <1>2, BudgetStep, LossStep DEF MarkInv
    <2>2. Lossless' => Marks' /\ \A s \in Sync : Tracked(s)'
      BY <1>2, <2>1, AttemptMark, OtherMark DEF Next, MarkInv
    <2> QED BY <2>1, <2>2 DEF MarkInv
  <1> QED BY <1>1, <1>2

\* As long as no document fails alone, the mark that keeps a document from
\* being ingested again is only on documents whose stored version is indexed.
THEOREM MarksTrue == Exclusive => (Spec => []NoFalseMark)
  <1> SUFFICES ASSUME Exclusive PROVE Spec => []NoFalseMark
    OBVIOUS
  <1> DEFINE Inv == Typed /\ LockHeld /\ MarkInv
  <1>1. Init => Inv
    BY InitTypes, InitLock, InitMark
  <1>2. Inv /\ [Next]_vars => Inv'
    BY NextTypes, NextLock, NextMark
  <1>3. Inv => NoFalseMark
    BY MarksEnough
  <1> QED BY <1>1, <1>2, <1>3, PTL DEF Spec
=============================================================================
