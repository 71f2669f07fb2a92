---------------------------- MODULE BacklogProofs ---------------------------
(***************************************************************************)
(* What waits to be worked through: the conversation events that are       *)
(* compacted, the turns that the proxy captures, and the documents that    *)
(* the knowledge graph has not taken in. The theorems hold for any number  *)
(* of requests, events, turns and documents and for any budget of faults.  *)
(***************************************************************************)
EXTENDS CompactionClaims, ProxyTurns, GraphBacklog, SequenceTheorems, TLAPS

-----------------------------------------------------------------------------
(***************************************************************************)
(* Proofs about CompactionClaims, for any number of requests and events.   *)
(*                                                                         *)
(* The inductive invariant is built in layers: the types, the numbering of *)
(* the ledgers, the rows and their ledgers, and who works under which      *)
(* claim.  Each layer is preserved given the ones below it.                *)
(***************************************************************************)

USE CompactionAssumption

\* A request at work has events, and one about to insert has a candidate.
LocalOK ==
  \A a \in Attempt :
    /\ Working(a) => batch[a] # {}
    /\ pc[a] = "insert" => item[a] \in Candidate

TypeInv == TypeOK /\ LocalOK

\* The generations in use are 0 .. n - 1.
Numbered(n) == n \in Nat /\ DOMAIN ledgers = 0..(n - 1)

\* A request that read the latest generation under the claim still has the next
\* one: another generation is only written under the claim.
GenFresh ==
  /\ \E n \in Nat : Numbered(n)
  /\ \A a \in Attempt :
       claim = a /\ pc[a] \in {"check", "insert", "finalize"} => Numbered(gen[a])

\* As long as no lease ran out under a request at work, whoever works holds the
\* claim, and the lease of a claim in use is not over.
Held ==
  ~overrun => \A a \in Attempt : Working(a) => claim = a /\ ~lapsed

\* A ledger covers events that were captured and are not open any more.
Covered ==
  \A g \in DOMAIN ledgers : \A e \in ledgers[g] : rows[e] \in {"compacted", "deleted"}

\* What a request is about to insert is not there yet.
Unique ==
  ~overrun =>
    /\ \A e \in Event : copies[e] <= 1
    /\ \A a \in Attempt : pc[a] = "insert" => copies[item[a]] = 0

\* A step of another request.
Others(a) == \A b \in Attempt \ {a} : pc'[b] = pc[b] /\ batch'[b] = batch[b]
               /\ gen'[b] = gen[b] /\ left'[b] = left[b] /\ item'[b] = item[b]

-----------------------------------------------------------------------------
(* Types.                                                                  *)

\* The budgets after a call that raised.
LEMMA FaultTypes == TypeOK /\ Fault =>
        faults' \in 0..MaxFaults /\ lapses' \in 0..MaxLapses /\ stops' \in 0..MaxStops
  BY DEF TypeOK, Fault

\* The locals after a request is over, and after it went to its except branch.
LEMMA OverTypes ==
  ASSUME TypeInv, NEW a \in Attempt, RequestOver(a)
  PROVE  /\ pc' \in [Attempt -> Phase] /\ batch' \in [Attempt -> SUBSET Event]
         /\ gen' \in [Attempt -> Nat] /\ left' \in [Attempt -> SUBSET Candidate]
         /\ item' \in [Attempt -> Candidate \cup {None}]
         /\ pc'[a] = "new" /\ Others(a) /\ LocalOK'
  BY DEF TypeInv, TypeOK, RequestOver, GoTo, Phase, Others, LocalOK, Working

\* A request that goes on to release its claim forgets its batch and its
\* candidates, and the others keep theirs.
LEMMA ReleaseTypes ==
  ASSUME TypeInv, NEW a \in Attempt, GoRelease(a)
  PROVE  /\ pc' \in [Attempt -> Phase] /\ batch' \in [Attempt -> SUBSET Event]
         /\ gen' \in [Attempt -> Nat] /\ left' \in [Attempt -> SUBSET Candidate]
         /\ item' \in [Attempt -> Candidate \cup {None}]
         /\ pc'[a] = "release" /\ Others(a) /\ LocalOK'
  BY DEF TypeInv, TypeOK, GoRelease, GoTo, Phase, Others, LocalOK, Working

\* What the COMMIT of finalize_claim writes has its type.
LEMMA CommitTypes ==
  ASSUME TypeOK, NEW a \in Attempt, Committed(a)
  PROVE  /\ rows' \in [Event -> RowState]
         /\ claim' \in Attempt \cup {None} /\ lapsed' \in BOOLEAN
         /\ DOMAIN ledgers' = DOMAIN ledgers \cup {gen[a]}
         /\ DOMAIN ledgers' \subseteq Nat
         /\ ledgers' \in [DOMAIN ledgers' -> SUBSET Event]
  <1>1. rows' \in [Event -> RowState]
    BY DEF TypeOK, Committed, Marked, RowState
  <1>2. claim' \in Attempt \cup {None} /\ lapsed' \in BOOLEAN
    BY DEF Committed
  <1>3. gen[a] \in Nat /\ batch[a] \in SUBSET Event
    BY DEF TypeOK
  <1>4. DOMAIN ledgers' = DOMAIN ledgers \cup {gen[a]}
    BY DEF Committed
  <1>5. ledgers' \in [DOMAIN ledgers' -> SUBSET Event]
    BY <1>3, <1>4 DEF TypeOK, Committed
  <1> QED BY <1>1, <1>2, <1>3, <1>4, <1>5 DEF TypeOK

\* TypeInv holds in the initial states.
LEMMA InitTypeInv == Init => TypeInv
  <1> SUFFICES ASSUME Init PROVE TypeInv
    OBVIOUS
  <1>1. DOMAIN ledgers = {} /\ ledgers \in [DOMAIN ledgers -> SUBSET Event]
    BY DEF Init
  <1>a. lapsed \in BOOLEAN /\ overrun \in BOOLEAN
    BY Zenon DEF Init
  <1>b. faults \in 0..MaxFaults /\ lapses \in 0..MaxLapses /\ stops \in 0..MaxStops
    BY DEF Init
  <1>c. DOMAIN ledgers \subseteq Nat
    BY <1>1
  <1>2. TypeOK
    BY <1>1, <1>a, <1>b, <1>c DEF Init, TypeOK, RowState, Phase
  <1>3. LocalOK
    BY DEF Init, LocalOK, Working
  <1> QED BY <1>2, <1>3 DEF TypeInv

\* Every step keeps TypeInv.
LEMMA NextTypeInv == TypeInv /\ [Next]_vars => TypeInv'
  <1> SUFFICES ASSUME TypeInv, [Next]_vars PROVE TypeInv'
    OBVIOUS
  <1>a. TypeOK /\ LocalOK
    BY DEF TypeInv
  <1> USE DEF claimVars, localVars
  <1>1. ASSUME NEW e \in Event, AppendEvent(e) PROVE TypeInv'
    BY <1>1, <1>a DEF TypeInv, TypeOK, LocalOK, AppendEvent, RowState, Working, budgets
  <1>2. ASSUME NEW n \in Event, ExpireEvents(n) PROVE TypeInv'
    BY <1>2, <1>a DEF TypeInv, TypeOK, LocalOK, ExpireEvents, RowState, Working, budgets
  <1>3. ASSUME NEW a \in Attempt, NEW busy \in SUBSET Open, ClaimBatch(a, busy)
        PROVE  TypeInv'
    <2>1. Selected(busy) \subseteq Event /\ Selected(busy) # {}
      BY <1>3 DEF ClaimBatch, Selected, Oldest, Open
    <2>2. CASE GoTo(a, "ledger") /\ batch' = [batch EXCEPT ![a] = Selected(busy)]
               /\ UNCHANGED <<gen, left, item, budgets>>
      <3>1. TypeOK'
        BY <1>3, <1>a, <2>1, <2>2 DEF TypeOK, ClaimBatch, GoTo, Phase, budgets
      <3>2. LocalOK'
        BY <1>a, <2>1, <2>2 DEF TypeOK, LocalOK, GoTo, Working
      <3> QED BY <3>1, <3>2 DEF TypeInv
    <2>3. CASE Fault /\ UNCHANGED localVars
      <3>1. TypeOK'
        BY <1>3, <1>a, <2>3, FaultTypes DEF TypeOK, ClaimBatch
      <3>2. LocalOK'
        BY <1>a, <2>3 DEF LocalOK, Working
      <3> QED BY <3>1, <3>2 DEF TypeInv
    <2> QED BY <1>3, <2>2, <2>3 DEF ClaimBatch
  <1>4. ASSUME NEW a \in Attempt, NEW busy \in SUBSET Open, ClaimNothing(a, busy)
        PROVE  TypeInv'
    BY <1>4, <1>a DEF TypeInv, TypeOK, LocalOK, ClaimNothing, Working, budgets
  <1>5. ASSUME NEW a \in Attempt, ReadLedger(a) PROVE TypeInv'
    <2>1. CASE Fault /\ GoRelease(a)
      BY <1>5, <1>a, <2>1, FaultTypes, ReleaseTypes DEF TypeInv, TypeOK, ReadLedger
    <2>2. CASE ~(Fault /\ GoRelease(a))
      <3>1. PICK g \in Nat : gen' = [gen EXCEPT ![a] = g]
        BY <1>5, <1>a, <2>2 DEF ReadLedger, TypeOK
      <3>2. /\ left' = [left EXCEPT ![a] = Accepted(batch[a])]
            /\ GoTo(a, AfterSaves(Accepted(batch[a])))
            /\ UNCHANGED <<batch, item, budgets, rows, claimVars, ledgers, copies, overrun>>
            /\ Working(a)
        BY <1>5, <2>2 DEF ReadLedger, Working
      <3>3. TypeOK'
        BY <1>a, <3>1, <3>2 DEF TypeOK, GoTo, AfterSaves, Accepted, Phase, budgets
      <3>4. LocalOK'
        BY <1>a, <3>2 DEF TypeOK, LocalOK, GoTo, AfterSaves, Working
      <3> QED BY <3>3, <3>4 DEF TypeInv
    <2> QED BY <2>1, <2>2
  <1>6. ASSUME NEW a \in Attempt, NEW e \in Event, CheckMemory(a, e) PROVE TypeInv'
    <2>1. CASE Fault /\ GoRelease(a)
      BY <1>6, <1>a, <2>1, FaultTypes, ReleaseTypes DEF TypeInv, TypeOK, CheckMemory
    <2>2. CASE ~(Fault /\ GoRelease(a))
      <3>0. e \in Candidate /\ Working(a)
        BY <1>6, <1>a DEF CheckMemory, TypeOK, Working
      <3>1. TypeOK'
        BY <1>6, <1>a, <2>2, <3>0
        DEF TypeOK, CheckMemory, Saved, GoTo, AfterSaves, Phase, budgets
      <3>2. LocalOK'
        BY <1>6, <1>a, <2>2, <3>0
        DEF TypeOK, LocalOK, CheckMemory, Saved, GoTo, AfterSaves, Working
      <3> QED BY <3>1, <3>2 DEF TypeInv
    <2> QED BY <2>1, <2>2
  <1>7. ASSUME NEW a \in Attempt, InsertMemory(a) PROVE TypeInv'
    <2>1. item[a] \in Candidate /\ item[a] \in Event /\ Working(a)
      BY <1>7, <1>a DEF LocalOK, InsertMemory, Working
    <2>2. copies' \in [Event -> Nat]
      BY <1>7, <1>a, <2>1 DEF TypeOK, InsertMemory
    <2>3. CASE Fault /\ GoRelease(a)
      BY <1>7, <1>a, <2>2, <2>3, FaultTypes, ReleaseTypes DEF TypeInv, TypeOK, InsertMemory
    <2>4. CASE ~(Fault /\ GoRelease(a))
      <3>1. TypeOK'
        BY <1>7, <1>a, <2>2, <2>4
        DEF TypeOK, InsertMemory, Saved, GoTo, AfterSaves, Phase, budgets
      <3>2. LocalOK'
        BY <1>7, <1>a, <2>1, <2>4
        DEF TypeOK, LocalOK, InsertMemory, Saved, GoTo, AfterSaves, Working
      <3> QED BY <3>1, <3>2 DEF TypeInv
    <2> QED BY <2>3, <2>4
  <1>8. ASSUME NEW a \in Attempt, FinalizeClaim(a) PROVE TypeInv'
    <2>1. /\ rows' \in [Event -> RowState]
          /\ claim' \in Attempt \cup {None} /\ lapsed' \in BOOLEAN
          /\ DOMAIN ledgers' \subseteq Nat
          /\ ledgers' \in [DOMAIN ledgers' -> SUBSET Event]
      <3>1. CASE Committed(a)
        BY <1>a, <3>1, CommitTypes
      <3>2. CASE UNCHANGED <<rows, claimVars, ledgers>>
        BY <1>a, <3>2 DEF TypeOK
      <3> QED BY <1>8, <3>1, <3>2 DEF FinalizeClaim
    <2>2. faults' \in 0..MaxFaults /\ lapses' \in 0..MaxLapses /\ stops' \in 0..MaxStops
      BY <1>8, <1>a, FaultTypes DEF FinalizeClaim, TypeOK, budgets
    <2>3. UNCHANGED <<copies, overrun>> /\ (RequestOver(a) \/ GoRelease(a))
      BY <1>8 DEF FinalizeClaim
    <2>4. /\ pc' \in [Attempt -> Phase] /\ batch' \in [Attempt -> SUBSET Event]
          /\ gen' \in [Attempt -> Nat] /\ left' \in [Attempt -> SUBSET Candidate]
          /\ item' \in [Attempt -> Candidate \cup {None}] /\ LocalOK'
      BY <2>3, OverTypes, ReleaseTypes
    <2>5. TypeOK'
      BY <1>a, <2>1, <2>2, <2>3, <2>4 DEF TypeOK
    <2> QED BY <2>4, <2>5 DEF TypeInv
  <1>9. ASSUME NEW a \in Attempt, ReleaseClaim(a) PROVE TypeInv'
    <2>1. faults' \in 0..MaxFaults /\ lapses' \in 0..MaxLapses /\ stops' \in 0..MaxStops
      BY <1>9, <1>a, FaultTypes DEF ReleaseClaim, TypeOK, budgets
    <2>2. claim' \in Attempt \cup {None} /\ lapsed' \in BOOLEAN
      BY <1>9, <1>a DEF ReleaseClaim, TypeOK
    <2>3. UNCHANGED <<rows, ledgers, copies, overrun>> /\ RequestOver(a)
      BY <1>9 DEF ReleaseClaim
    <2> QED BY <1>a, <2>1, <2>2, <2>3, OverTypes DEF TypeInv, TypeOK
  <1>10. ASSUME NEW a \in Attempt, Stop(a) PROVE TypeInv'
    <2>1. stops' \in 0..MaxStops
      BY <1>10, <1>a DEF Stop, TypeOK
    <2>2. UNCHANGED <<rows, claimVars, ledgers, copies, overrun, faults, lapses>>
          /\ RequestOver(a)
      BY <1>10 DEF Stop
    <2> QED BY <1>a, <2>1, <2>2, OverTypes DEF TypeInv, TypeOK
  <1>11. CASE LeaseEnds
    <2>a. lapses' \in 0..MaxLapses
      <3>1. \/ lapses < MaxLapses /\ lapses' = lapses + 1
            \/ lapses' = lapses
        BY <1>11, Zenon DEF LeaseEnds
      <3> QED BY <3>1, <1>a DEF TypeOK
    <2>b. overrun' \in BOOLEAN /\ lapsed' \in BOOLEAN
      BY <1>11, <1>a, Zenon DEF TypeOK, LeaseEnds
    <2>c. UNCHANGED <<rows, claim, ledgers, copies, pc, batch, gen, left, item,
                      faults, stops>>
      BY <1>11 DEF LeaseEnds
    <2>1. TypeOK'
      BY <1>a, <2>a, <2>b, <2>c DEF TypeOK
    <2>2. LocalOK'
      BY <1>11, <1>a DEF LocalOK, LeaseEnds, Working
    <2> QED BY <2>1, <2>2 DEF TypeInv
  <1>12. CASE UNCHANGED vars
    BY <1>12, <1>a DEF TypeInv, TypeOK, LocalOK, Working, vars, budgets
  <1> QED BY <1>1, <1>2, <1>3, <1>4, <1>5, <1>6, <1>7, <1>8, <1>9, <1>10, <1>11, <1>12
          DEF Next, Claiming, Compact

\* Every variable keeps its type.
THEOREM TypeCorrect == Spec => []TypeOK
  <1>1. TypeInv => TypeOK
    BY DEF TypeInv
  <1> QED BY InitTypeInv, NextTypeInv, <1>1, PTL DEF Spec

-----------------------------------------------------------------------------
(* The numbering of the ledgers.                                           *)

\* What each step leaves alone, for the layers that do not read the rest.
LEMMA LedgerSteps ==
  ASSUME TypeInv, [Next]_vars
  PROVE  \/ UNCHANGED ledgers
         \/ \E a \in Attempt :
              /\ pc[a] = "finalize" /\ CanFinalize(a) /\ Committed(a)
              /\ pc'[a] \in {"new", "release"} /\ Others(a)
  <1>1. ASSUME NEW a \in Attempt, FinalizeClaim(a), ~UNCHANGED ledgers
        PROVE  /\ pc[a] = "finalize" /\ CanFinalize(a) /\ Committed(a)
               /\ pc'[a] \in {"new", "release"} /\ Others(a)
    <2>1. /\ pc[a] = "finalize" /\ CanFinalize(a) /\ Committed(a)
          /\ (RequestOver(a) \/ GoRelease(a))
      BY <1>1 DEF FinalizeClaim
    <2> QED BY <2>1, OverTypes, ReleaseTypes
  <1>2. SUFFICES ASSUME ~UNCHANGED ledgers
                 PROVE  \E a \in Attempt : FinalizeClaim(a)
    BY <1>1
  <1> QED
    BY <1>2 DEF Next, vars, Claiming, Compact, AppendEvent, ExpireEvents, ClaimBatch,
       ClaimNothing, ReadLedger, CheckMemory, InsertMemory, ReleaseClaim, Stop, LeaseEnds

\* GenFresh holds in the initial states.
LEMMA InitGenFresh == Init => GenFresh
  <1> SUFFICES ASSUME Init PROVE GenFresh
    OBVIOUS
  <1>1. Numbered(0)
    BY DEF Init, Numbered
  <1> QED BY <1>1 DEF Init, GenFresh

\* Every step keeps GenFresh.
LEMMA NextGenFresh == TypeInv /\ GenFresh /\ [Next]_vars => GenFresh'
  <1> SUFFICES ASSUME TypeInv, GenFresh, [Next]_vars PROVE GenFresh'
    OBVIOUS
  <1>1. CASE ~UNCHANGED ledgers
    <2>1. PICK a \in Attempt : pc[a] = "finalize" /\ CanFinalize(a) /\ Committed(a)
      BY <1>1, LedgerSteps
    <2>2. Numbered(gen[a])
      BY <2>1 DEF GenFresh, CanFinalize
    <2>3. DOMAIN ledgers' = 0..((gen[a] + 1) - 1)
      BY <2>1, <2>2 DEF Numbered, Committed
    <2>4. claim' \notin Attempt /\ gen[a] + 1 \in Nat
      BY <2>1, <2>2 DEF Committed, Numbered
    <2> QED BY <2>3, <2>4 DEF GenFresh, Numbered
  <1>2. CASE UNCHANGED ledgers
    <2>1. \E n \in Nat : Numbered(n)'
      BY <1>2 DEF GenFresh, Numbered
    <2> SUFFICES ASSUME NEW b \in Attempt, claim' = b,
                        pc'[b] \in {"check", "insert", "finalize"}
                 PROVE  Numbered(gen[b])'
      BY <2>1 DEF GenFresh
    <2>2. CASE claim = b /\ pc[b] \in {"check", "insert", "finalize"} /\ gen'[b] = gen[b]
      BY <1>2, <2>2 DEF GenFresh, Numbered
    <2>3. CASE ReadLedger(b)
      <3>1. PICK n \in Nat : DOMAIN ledgers = 0..(n - 1)
        BY DEF GenFresh, Numbered
      <3>2. ~GoRelease(b)
        BY DEF TypeInv, TypeOK, GoRelease, GoTo
      <3>3. CASE DOMAIN ledgers = {} /\ gen' = [gen EXCEPT ![b] = 0]
        BY <1>2, <3>3 DEF TypeInv, TypeOK, Numbered
      <3>4. ASSUME NEW g \in DOMAIN ledgers, \A h \in DOMAIN ledgers : h <= g,
                   gen' = [gen EXCEPT ![b] = g + 1]
            PROVE  Numbered(gen[b])'
        <4>1. g = n - 1
          BY <3>1, <3>4
        <4>2. gen'[b] = n
          BY <3>4, <4>1, <3>1 DEF TypeInv, TypeOK
        <4> QED BY <1>2, <3>1, <4>2 DEF Numbered
      <3> QED BY <2>3, <3>2, <3>3, <3>4 DEF ReadLedger
    <2>4. \/ claim = b /\ pc[b] \in {"check", "insert", "finalize"} /\ gen'[b] = gen[b]
          \/ ReadLedger(b)
      <3> USE DEF TypeInv, TypeOK, claimVars, localVars, Phase
      <3>1. ASSUME NEW e \in Event, AppendEvent(e) \/ ExpireEvents(e) PROVE <2>4!1
        BY <3>1 DEF AppendEvent, ExpireEvents
      <3>2. ASSUME NEW a \in Attempt, NEW busy \in SUBSET Open,
                   ClaimBatch(a, busy) \/ ClaimNothing(a, busy) PROVE <2>4!1
        BY <3>2 DEF ClaimBatch, ClaimNothing, GoTo
      <3>3. ASSUME NEW a \in Attempt, ReadLedger(a) PROVE <2>4!1 \/ ReadLedger(b)
        BY <3>3 DEF ReadLedger, GoTo, GoRelease
      <3>4. ASSUME NEW a \in Attempt, NEW e \in Event, CheckMemory(a, e) PROVE <2>4!1
        BY <3>4 DEF CheckMemory, Saved, GoTo, GoRelease
      <3>5. ASSUME NEW a \in Attempt, InsertMemory(a) PROVE <2>4!1
        BY <3>5 DEF InsertMemory, Saved, GoTo, GoRelease
      <3>6. ASSUME NEW a \in Attempt, FinalizeClaim(a) PROVE <2>4!1
        BY <3>6 DEF FinalizeClaim, Committed, RequestOver, GoTo, GoRelease
      <3>7. ASSUME NEW a \in Attempt, ReleaseClaim(a) \/ Stop(a) PROVE <2>4!1
        BY <3>7 DEF ReleaseClaim, Stop, RequestOver, GoTo
      <3>8. CASE LeaseEnds \/ UNCHANGED vars
        BY <3>8 DEF LeaseEnds, vars
      <3> QED BY <3>1, <3>2, <3>3, <3>4, <3>5, <3>6, <3>7, <3>8 DEF Next, Claiming, Compact
    <2> QED BY <2>2, <2>3, <2>4
  <1> QED BY <1>1, <1>2

-----------------------------------------------------------------------------
(* Rows and ledgers.                                                       *)

\* Acknowledged holds in the initial states.
LEMMA InitAcknowledged == Init => Covered /\ AcknowledgedOnce
  BY DEF Init, Covered, AcknowledgedOnce

\* An event that is not open is never open again, and a row is marked by the
\* COMMIT that writes its ledger only.
LEMMA RowSteps ==
  ASSUME TypeInv, [Next]_vars, UNCHANGED ledgers
  PROVE  \A e \in Event :
           /\ rows[e] \in {"compacted", "deleted"} => rows'[e] \in {"compacted", "deleted"}
           /\ rows'[e] = "compacted" => rows[e] = "compacted"
  <1>1. ASSUME NEW d \in Event, AppendEvent(d) \/ ExpireEvents(d)
        PROVE  \A e \in Event :
           /\ rows[e] \in {"compacted", "deleted"} => rows'[e] \in {"compacted", "deleted"}
           /\ rows'[e] = "compacted" => rows[e] = "compacted"
    BY <1>1 DEF TypeInv, TypeOK, AppendEvent, ExpireEvents
  <1>2. ASSUME NEW a \in Attempt, Committed(a), CanFinalize(a) PROVE FALSE
    <2>1. gen[a] \in DOMAIN ledgers'
      BY <1>2 DEF Committed
    <2> QED BY <1>2, <2>1 DEF CanFinalize
  <1>3. (\E d \in Event : AppendEvent(d) \/ ExpireEvents(d)) \/ UNCHANGED rows
    BY <1>2 DEF Next, vars, Claiming, Compact, ClaimBatch, ClaimNothing, ReadLedger,
       CheckMemory, InsertMemory, FinalizeClaim, ReleaseClaim, Stop, LeaseEnds
  <1> QED BY <1>1, <1>3

\* Every step keeps Acknowledged.
LEMMA NextAcknowledged ==
  TypeInv /\ Covered /\ AcknowledgedOnce /\ [Next]_vars => (Covered /\ AcknowledgedOnce)'
  <1> SUFFICES ASSUME TypeInv, Covered, AcknowledgedOnce, [Next]_vars
               PROVE  (Covered /\ AcknowledgedOnce)'
    OBVIOUS
  <1>1. CASE UNCHANGED ledgers
    <2>1. Covered'
      BY <1>1, RowSteps DEF Covered, TypeInv, TypeOK
    <2>2. \A g \in DOMAIN ledgers' : ledgers'[g] \cap Open' = {}
      BY <2>1 DEF Covered, Open
    <2>3. \A e \in Event : rows'[e] = "compacted" => \E g \in DOMAIN ledgers' : e \in ledgers'[g]
      BY <1>1, RowSteps DEF AcknowledgedOnce
    <2> QED BY <1>1, <2>1, <2>2, <2>3 DEF AcknowledgedOnce
  <1>2. CASE ~UNCHANGED ledgers
    <2>1. PICK a \in Attempt : CanFinalize(a) /\ Committed(a)
      BY <1>2, LedgerSteps
    <2>2. /\ gen[a] \notin DOMAIN ledgers /\ DOMAIN ledgers' = DOMAIN ledgers \cup {gen[a]}
          /\ ledgers'[gen[a]] = batch[a]
          /\ \A g \in DOMAIN ledgers : ledgers'[g] = ledgers[g]
      BY <2>1 DEF CanFinalize, Committed
    <2>3. batch[a] \subseteq Open
      BY <2>1 DEF CanFinalize, AllMarked
    <2>4. \A e \in Event : rows'[e] = IF e \in batch[a] THEN "compacted" ELSE rows[e]
      BY <2>1, <2>3 DEF Committed, Marked, Open
    <2>5. \A g \in DOMAIN ledgers : ledgers[g] \in SUBSET Event
      BY DEF TypeInv, TypeOK
    <2>6. batch[a] \subseteq Event
      BY <2>3 DEF Open
    <2>7. Covered'
      BY <2>2, <2>4, <2>5, <2>6 DEF Covered
    <2>8. \A g \in DOMAIN ledgers' : ledgers'[g] \cap Open' = {}
      BY <2>7 DEF Covered, Open
    <2>9. \A e \in Event : rows'[e] = "compacted" => \E g \in DOMAIN ledgers' : e \in ledgers'[g]
      BY <2>2, <2>4 DEF AcknowledgedOnce
    <2>10. \A g, h \in DOMAIN ledgers' : g # h => ledgers'[g] \cap ledgers'[h] = {}
      <3>1. \A g \in DOMAIN ledgers : ledgers[g] \cap batch[a] = {}
        BY <2>3 DEF AcknowledgedOnce
      <3> QED BY <2>2, <3>1 DEF AcknowledgedOnce
    <2> QED BY <2>7, <2>8, <2>9, <2>10 DEF AcknowledgedOnce
  <1> QED BY <1>1, <1>2

\* A marked event is in a ledger, an open one in none, and no event in two.
THEOREM EventsAcknowledgedOnce == Spec => []AcknowledgedOnce
  <1>1. TypeInv /\ Covered /\ AcknowledgedOnce /\ [Next]_vars
          => (TypeInv /\ Covered /\ AcknowledgedOnce)'
    BY NextTypeInv, NextAcknowledged
  <1> QED BY InitTypeInv, InitAcknowledged, <1>1, PTL DEF Spec

-----------------------------------------------------------------------------
(* Who works under which claim.                                            *)

\* Held holds in the initial states.
LEMMA InitHeld == Init => Held /\ Unique
  BY DEF Init, Held, Unique, Working

\* Every step keeps Held.
LEMMA NextHeld == TypeInv /\ Held /\ [Next]_vars => Held'
  <1> SUFFICES ASSUME TypeInv, Held, [Next]_vars PROVE Held'
    OBVIOUS
  <1> USE DEF claimVars, localVars
  <1>p. pc \in [Attempt -> Phase]
    BY DEF TypeInv, TypeOK
  <1>1. ASSUME NEW e \in Event, AppendEvent(e) \/ ExpireEvents(e) PROVE Held'
    BY <1>1 DEF Held, AppendEvent, ExpireEvents, Working
  <1>2. ASSUME NEW a \in Attempt, NEW busy \in SUBSET Open, ClaimBatch(a, busy) PROVE Held'
    <2>1. claim' = a /\ ~lapsed' /\ overrun' = overrun /\ (claim = None \/ lapsed)
      BY <1>2 DEF ClaimBatch, ClaimFree
    <2>2. \A b \in Attempt \ {a} : pc'[b] = pc[b]
      BY <1>2, <1>p DEF ClaimBatch, GoTo
    <2>3. ~overrun => \A b \in Attempt : ~Working(b)
      BY <2>1 DEF Held
    <2> QED BY <2>1, <2>2, <2>3 DEF Held, Working
  <1>3. ASSUME NEW a \in Attempt, NEW busy \in SUBSET Open, ClaimNothing(a, busy) PROVE Held'
    BY <1>3 DEF Held, ClaimNothing, Working
  <1>4. ASSUME NEW a \in Attempt,
               \/ ReadLedger(a) \/ InsertMemory(a)
               \/ \E e \in Event : CheckMemory(a, e)
        PROVE  Held'
    <2>1. UNCHANGED <<claim, lapsed, overrun>> /\ Working(a)
      BY <1>4 DEF ReadLedger, InsertMemory, CheckMemory, Working
    <2>2. \A b \in Attempt \ {a} : pc'[b] = pc[b]
      BY <1>4, <1>p DEF ReadLedger, InsertMemory, CheckMemory, Saved, GoTo, GoRelease
    <2> QED BY <2>1, <2>2 DEF Held, Working
  <1>5. ASSUME NEW a \in Attempt, FinalizeClaim(a) PROVE Held'
    <2>1. pc'[a] \in {"new", "release"} /\ \A b \in Attempt \ {a} : pc'[b] = pc[b]
      BY <1>5, <1>p DEF FinalizeClaim, RequestOver, GoRelease, GoTo
    <2>2. overrun' = overrun /\ (UNCHANGED <<claim, lapsed>> \/ claim = a)
      BY <1>5 DEF FinalizeClaim, CanFinalize
    <2> QED BY <2>1, <2>2 DEF Held, Working
  <1>6. ASSUME NEW a \in Attempt, ReleaseClaim(a) \/ Stop(a) PROVE Held'
    <2>1. pc'[a] = "new" /\ \A b \in Attempt \ {a} : pc'[b] = pc[b]
      BY <1>6, <1>p DEF ReleaseClaim, Stop, RequestOver, GoTo
    <2>2. overrun' = overrun /\ (UNCHANGED <<claim, lapsed>> \/ claim = a)
      BY <1>6 DEF ReleaseClaim, Stop, OwnClaim
    <2> QED BY <2>1, <2>2 DEF Held, Working
  <1>7. CASE LeaseEnds
    <2>1. claim' = claim /\ pc' = pc /\ claim \in Attempt
      BY <1>7 DEF LeaseEnds, TypeInv, TypeOK
    <2>2. overrun' \/ (overrun' = overrun /\ ~Working(claim))
      BY <1>7 DEF LeaseEnds
    <2> QED BY <2>1, <2>2 DEF Held, Working
  <1>8. CASE UNCHANGED vars
    BY <1>8 DEF Held, Working, vars
  <1> QED BY <1>1, <1>2, <1>3, <1>4, <1>5, <1>6, <1>7, <1>8 DEF Next, Claiming, Compact

\* Every step keeps Unique.
LEMMA NextUnique == TypeInv /\ Held /\ Unique /\ [Next]_vars => Unique'
  <1> SUFFICES ASSUME TypeInv, Held, Unique, [Next]_vars PROVE Unique'
    OBVIOUS
  <1>0. overrun => overrun'
    <2>1. CASE LeaseEnds
      BY <2>1, Zenon DEF LeaseEnds
    <2>2. CASE ~LeaseEnds
      <3>1. overrun' = overrun
        BY <2>2 DEF Next, vars, Claiming, Compact, AppendEvent, ExpireEvents, ClaimBatch,
           ClaimNothing, ReadLedger, CheckMemory, InsertMemory, FinalizeClaim,
           ReleaseClaim, Stop
      <3> QED BY <3>1
    <2> QED BY <2>1, <2>2
  <1> SUFFICES ASSUME ~overrun', ~overrun PROVE Unique'
    BY <1>0 DEF Unique
  <1> USE DEF localVars
  <1>a. /\ pc \in [Attempt -> Phase] /\ item \in [Attempt -> Candidate \cup {None}]
        /\ copies \in [Event -> Nat]
    BY DEF TypeInv, TypeOK
  <1>b. /\ \A e \in Event : copies[e] <= 1
        /\ \A b \in Attempt : pc[b] = "insert" => copies[item[b]] = 0
    BY DEF Unique
  <1>c. \A a, b \in Attempt : Working(a) /\ Working(b) => a = b
    BY DEF Held
  <1>1. ASSUME NEW a \in Attempt, InsertMemory(a) PROVE Unique'
    <2>1. item[a] \in Event /\ copies[item[a]] = 0
      BY <1>1, <1>b DEF InsertMemory, TypeInv, LocalOK
    <2>2. \A b \in Attempt : pc'[b] # "insert"
      <3>1. pc'[a] # "insert"
        BY <1>1, <1>a DEF InsertMemory, Saved, GoTo, GoRelease, AfterSaves
      <3>2. ASSUME NEW b \in Attempt \ {a} PROVE pc'[b] # "insert"
        <4>1. pc'[b] = pc[b]
          BY <1>1, <1>a DEF InsertMemory, Saved, GoTo, GoRelease
        <4>2. Working(a)
          BY <1>1 DEF InsertMemory, Working
        <4> QED BY <4>1, <4>2, <1>c DEF Working
      <3> QED BY <3>1, <3>2
    <2>3. \A e \in Event : copies'[e] <= 1
      BY <1>1, <1>a, <1>b, <2>1 DEF InsertMemory
    <2> QED BY <2>2, <2>3 DEF Unique
  <1>2. ASSUME NEW a \in Attempt, NEW e \in Event, CheckMemory(a, e) PROVE Unique'
    <2>1. \A b \in Attempt \ {a} : pc'[b] = pc[b] /\ item'[b] = item[b]
      BY <1>2, <1>a DEF CheckMemory, Saved, GoTo, GoRelease
    <2>2. pc'[a] = "insert" => item'[a] = e /\ copies[e] = 0
      BY <1>2, <1>a DEF CheckMemory, Saved, GoTo, GoRelease, AfterSaves
    <2>3. copies' = copies
      BY <1>2 DEF CheckMemory
    <2> QED BY <1>b, <2>1, <2>2, <2>3 DEF Unique
  <1>3. CASE UNCHANGED <<pc, item, copies>>
    BY <1>3, <1>b DEF Unique
  <1>4. ASSUME UNCHANGED copies, NEW a \in Attempt, pc'[a] # "insert",
               \A b \in Attempt \ {a} : pc'[b] = pc[b] /\ item'[b] = item[b]
        PROVE  Unique'
    BY <1>4, <1>b DEF Unique
  <1>5. ASSUME NEW a \in Attempt,
               \/ ReadLedger(a) \/ FinalizeClaim(a) \/ ReleaseClaim(a) \/ Stop(a)
        PROVE  Unique'
    <2>1. UNCHANGED copies /\ pc'[a] # "insert"
      BY <1>5, <1>a DEF ReadLedger, FinalizeClaim, ReleaseClaim, Stop, RequestOver,
         GoRelease, GoTo, AfterSaves
    <2>2. \A b \in Attempt \ {a} : pc'[b] = pc[b] /\ item'[b] = item[b]
      BY <1>5, <1>a DEF ReadLedger, FinalizeClaim, ReleaseClaim, Stop, RequestOver,
         GoRelease, GoTo
    <2> QED BY <1>4, <2>1, <2>2
  <1>6. ASSUME NEW a \in Attempt, NEW busy \in SUBSET Open, ClaimBatch(a, busy) PROVE Unique'
    <2>1. UNCHANGED copies /\ pc'[a] # "insert"
      BY <1>6, <1>a DEF ClaimBatch, GoTo
    <2>2. \A b \in Attempt \ {a} : pc'[b] = pc[b] /\ item'[b] = item[b]
      BY <1>6, <1>a DEF ClaimBatch, GoTo
    <2> QED BY <1>4, <2>1, <2>2
  <1>7. ASSUME NEW e \in Event, AppendEvent(e) \/ ExpireEvents(e) PROVE Unique'
    BY <1>7, <1>3 DEF AppendEvent, ExpireEvents
  <1>8. ASSUME NEW a \in Attempt, NEW busy \in SUBSET Open, ClaimNothing(a, busy)
        PROVE  Unique'
    BY <1>8, <1>3 DEF ClaimNothing
  <1>9. CASE LeaseEnds \/ UNCHANGED vars
    BY <1>9, <1>3 DEF LeaseEnds, vars
  <1> QED BY <1>1, <1>2, <1>5, <1>6, <1>7, <1>8, <1>9 DEF Next, Claiming, Compact

\* No content is saved twice, unless a lease ran out under a request at work.
THEOREM NoDuplicateMemory == Spec => []OneMemoryPerContent
  <1>1. TypeInv /\ Held /\ Unique /\ [Next]_vars => (TypeInv /\ Held /\ Unique)'
    BY NextTypeInv, NextHeld, NextUnique
  <1>2. Unique => OneMemoryPerContent
    BY DEF Unique, OneMemoryPerContent
  <1> QED BY InitTypeInv, InitHeld, <1>1, <1>2, PTL DEF Spec

-----------------------------------------------------------------------------
(* Steps.                                                                  *)

\* A claim in force goes away by a step of its own request only.
THEOREM ClaimsKept == Spec => ClaimKept
  <1>1. TypeInv /\ [Next]_vars =>
          [\A a \in Attempt :
             claim = a /\ claim' # a /\ ~lapsed
               => pc[a] \in {"finalize", "release"} /\ pc'[a] # pc[a]]_vars
    <2> SUFFICES ASSUME TypeInv, Next, NEW a \in Attempt, claim = a, claim' # a, ~lapsed
                 PROVE  pc[a] \in {"finalize", "release"} /\ pc'[a] # pc[a]
      OBVIOUS
    <2>p. pc \in [Attempt -> Phase]
      BY DEF TypeInv, TypeOK
    <2>1. FinalizeClaim(a) \/ ReleaseClaim(a)
      BY DEF Next, Claiming, Compact, AppendEvent, ExpireEvents, ClaimBatch,
         ClaimNothing, ClaimFree, ReadLedger, CheckMemory, InsertMemory, FinalizeClaim,
         CanFinalize, ReleaseClaim, OwnClaim, Stop, LeaseEnds, claimVars
    <2> QED
      BY <2>1, <2>p DEF FinalizeClaim, ReleaseClaim, RequestOver, GoRelease, GoTo
  <1> QED BY InitTypeInv, NextTypeInv, <1>1, PTL DEF Spec, ClaimKept

-----------------------------------------------------------------------------
(* The refinement.                                                         *)

\* The mapped ledgers as a sequence.
LEMMA SequenceOf ==
  ASSUME NEW n \in Nat, Numbered(n), NEW L, L = Generations
  PROVE  L = [i \in 1..n |-> ledgers[i - 1]]
  <1>1. {g + 1 : g \in DOMAIN ledgers} = 1..n
    <2>1. \A i \in 1..n : i - 1 \in DOMAIN ledgers /\ i = (i - 1) + 1
      BY DEF Numbered
    <2>2. \A g \in DOMAIN ledgers : g + 1 \in 1..n
      BY DEF Numbered
    <2> QED BY <2>1, <2>2
  <1> QED BY <1>1 DEF Generations

\* One more generation is an Append to the mapped ledgers.
LEMMA AppendGeneration ==
  ASSUME NEW n \in Nat, NEW T, NEW q \in [1..n -> T], NEW S \in T
  PROVE  Append(q, S) = [i \in 1..(n + 1) |-> IF i = n + 1 THEN S ELSE q[i]]
  <1>1. q \in Seq(T) /\ Len(q) = n
    OBVIOUS
  <1> DEFINE t == Append(q, S)
  <1>2. /\ t \in Seq(T) /\ Len(t) = n + 1 /\ t[n + 1] = S
        /\ \A i \in 1..n : t[i] = q[i]
    BY <1>1, AppendProperties
  <1> HIDE DEF t
  <1>3. t = [i \in 1..(n + 1) |-> t[i]]
    BY <1>2
  <1>4. \A i \in 1..(n + 1) : t[i] = IF i = n + 1 THEN S ELSE q[i]
    BY <1>2
  <1>5. t = [i \in 1..(n + 1) |-> IF i = n + 1 THEN S ELSE q[i]]
    BY <1>3, <1>4
  <1> QED BY <1>5 DEF t

\* The refinement maps initial states to initial states.
LEMMA InitContract == Init => Contract!Init
  <1> SUFFICES ASSUME Init PROVE Contract!Init
    OBVIOUS
  <1>1. Captured = {} /\ Open = {}
    BY DEF Init, Captured, Open
  <1>2. DOMAIN ledgers = {}
    BY DEF Init
  <1>3. Generations = <<>>
    BY <1>2 DEF Generations
  <1> QED BY <1>1, <1>3 DEF Contract!Init

\* Every step is a step of the contract, or none to it.
LEMMA StepContract ==
  TypeInv /\ GenFresh /\ [Next]_vars => [Contract!Next]_(Contract!vars)
  <1> SUFFICES ASSUME TypeInv, GenFresh, [Next]_vars
               PROVE  Contract!Next \/ UNCHANGED Contract!vars
    OBVIOUS
  <1> USE DEF claimVars
  <1>1. ASSUME UNCHANGED <<rows, ledgers>> PROVE UNCHANGED Contract!vars
    BY <1>1 DEF Contract!vars, Captured, Open, Generations
  <1>2. ASSUME NEW e \in Event, AppendEvent(e) PROVE Contract!Capture(e)
    <2>1. Captured' = Captured \cup {e} /\ Open' = Open \cup {e} /\ e \notin Captured
      BY <1>2 DEF AppendEvent, Captured, Open, TypeInv, TypeOK
    <2>2. Generations' = Generations
      BY <1>2 DEF AppendEvent, Generations
    <2> QED BY <2>1, <2>2 DEF Contract!Capture
  <1>3. ASSUME NEW m \in Event, ExpireEvents(m) PROVE \E S \in SUBSET Event : Contract!Drop(S)
    <2> DEFINE S == {e \in Open : e <= m}
    <2>1. Captured' = Captured
      BY <1>3 DEF ExpireEvents, Captured
    <2>2. Open' = Open \ S /\ S \in SUBSET Event
      BY <1>3 DEF ExpireEvents, Open
    <2>3. Generations' = Generations
      BY <1>3 DEF ExpireEvents, Generations
    <2> QED BY <2>1, <2>2, <2>3 DEF Contract!Drop
  <1>4. ASSUME NEW a \in Attempt, FinalizeClaim(a), ~UNCHANGED ledgers
        PROVE  \E S \in SUBSET Event : Contract!Acknowledge(S)
    <2>1. pc[a] = "finalize" /\ CanFinalize(a) /\ Committed(a)
      BY <1>4 DEF FinalizeClaim
    <2>2. batch[a] # {} /\ batch[a] \subseteq Open /\ batch[a] \in SUBSET Event
      BY <2>1 DEF TypeInv, TypeOK, LocalOK, Working, CanFinalize, AllMarked
    <2>3. Captured' = Captured /\ Open' = Open \ batch[a]
      BY <2>1, <2>2 DEF Committed, Marked, Captured, Open
    <2>4. PICK n \in Nat : n = gen[a] /\ Numbered(n)
      BY <2>1 DEF GenFresh, CanFinalize, Numbered
    <2>5. Numbered(n + 1)'
      BY <2>1, <2>4 DEF Committed, Numbered
    <2>6. Generations = [i \in 1..n |-> ledgers[i - 1]]
      BY <2>4, SequenceOf
    <2>7. Generations' = [i \in 1..(n + 1) |-> ledgers'[i - 1]]
      <3>1. {g + 1 : g \in DOMAIN ledgers'} = 1..(n + 1)
        <4>1. \A i \in 1..(n + 1) : i - 1 \in DOMAIN ledgers' /\ i = (i - 1) + 1
          BY <2>5 DEF Numbered
        <4>2. \A g \in DOMAIN ledgers' : g + 1 \in 1..(n + 1)
          BY <2>5 DEF Numbered
        <4> QED BY <4>1, <4>2
      <3> QED BY <3>1 DEF Generations
    <2>8. \A i \in 1..(n + 1) :
            ledgers'[i - 1] = IF i = n + 1 THEN batch[a] ELSE ledgers[i - 1]
      BY <2>1, <2>4 DEF Committed, Numbered
    <2>9. Generations' = Append(Generations, batch[a])
      <3>1. \A i \in 1..n : ledgers[i - 1] \in SUBSET Event
        BY <2>4 DEF Numbered, TypeInv, TypeOK
      <3>2. Generations \in [1..n -> SUBSET Event]
        BY <2>6, <3>1
      <3>3. Append(Generations, batch[a])
              = [i \in 1..(n + 1) |-> IF i = n + 1 THEN batch[a] ELSE Generations[i]]
        BY <2>2, <3>2, AppendGeneration
      <3>4. \A i \in 1..(n + 1) :
              ledgers'[i - 1] = IF i = n + 1 THEN batch[a] ELSE Generations[i]
        BY <2>6, <2>8
      <3> QED BY <2>7, <3>3, <3>4
    <2> QED BY <2>2, <2>3, <2>9 DEF Contract!Acknowledge
  <1>5. ASSUME NEW a \in Attempt, FinalizeClaim(a), UNCHANGED ledgers PROVE UNCHANGED rows
    <2>1. ASSUME CanFinalize(a), Committed(a) PROVE FALSE
      <3>1. gen[a] \in DOMAIN ledgers'
        BY <2>1 DEF Committed
      <3> QED BY <1>5, <2>1, <3>1 DEF CanFinalize
    <2> QED BY <1>5, <2>1 DEF FinalizeClaim
  <1>6. \/ \E e \in Event : AppendEvent(e) \/ ExpireEvents(e)
        \/ \E a \in Attempt : FinalizeClaim(a)
        \/ UNCHANGED <<rows, ledgers>>
    BY DEF Next, vars, Claiming, Compact, ClaimBatch, ClaimNothing, ReadLedger,
       CheckMemory, InsertMemory, ReleaseClaim, Stop, LeaseEnds
  <1> QED BY <1>1, <1>2, <1>3, <1>4, <1>5, <1>6 DEF Contract!Next

\* Compaction implements the contract, for any number of requests and events.
THEOREM CompactionImplementsContract == Spec => ImplementsContract
  <1>1. TypeInv /\ GenFresh /\ [Next]_vars => (TypeInv /\ GenFresh)'
    BY NextTypeInv, NextGenFresh
  <1> QED BY InitTypeInv, InitGenFresh, InitContract, StepContract, <1>1, PTL
          DEF Spec, ImplementsContract, Contract!Spec

-----------------------------------------------------------------------------
(***************************************************************************)
(* Proof that what is stored and reported of an exchange is true, for any  *)
(* exchanges, streams, departures and stops.  The invariant says when the  *)
(* parser has seen all the client was given, and that a capture begins     *)
(* only after it has.                                                      *)
(***************************************************************************)

Shaped(x) ==
  /\ x = [at |-> x.at, asks |-> x.asks, session |-> x.session, good |-> x.good,
          frame |-> x.frame, sent |-> x.sent, fed |-> x.fed, endSent |-> x.endSent,
          endFed |-> x.endFed, raised |-> x.raised, left |-> x.left]
  /\ x.at \in {"idle", "dispatched", "pulling", "given", "streamed", "concluded", "ended"}
  /\ x.sent \in Nat /\ x.fed \in Nat /\ x.endSent \in Nat /\ x.endFed \in Nat

\* The parser is level with the client wherever the generator is not at a yield.
Level(x) ==
  /\ x.at \in {"idle", "dispatched"} =>
       x.sent = 0 /\ x.fed = 0 /\ x.endSent = 0 /\ x.endFed = 0 /\ ~x.raised
  /\ x.at \in {"pulling", "streamed", "concluded"} => x.fed = x.sent /\ x.endFed = x.endSent

\* A capture k of the exchange x and the events d it has stored.
CaptureTold(x, k, d) ==
  /\ k \in {"none", "user", "assistant", "over"}
  /\ d = [user |-> d.user, reply |-> d.reply] /\ d.reply \in Nat
  /\ k # "none" =>
       /\ x.at \in {"concluded", "ended"} /\ x.good /\ x.endSent = 2 /\ x.fed = x.sent
       /\ ~x.raised
  /\ k = "assistant" => d.user = x.asks
  /\ k # "over" => d.reply = 0
  /\ d.reply > 0 => d.reply = x.fed /\ d.user = x.asks

Reported(x, e) ==
  /\ e \in {0, 1}
  /\ x.at # "ended" => e = 0 /\ ~x.left
  /\ x.at = "ended" /\ ~x.left /\ (x.fed > 0 \/ x.raised) => e = 1

TurnTrue(x, k, d, e) == Shaped(x) /\ Level(x) /\ CaptureTold(x, k, d) /\ Reported(x, e)

TrueAt(t) == TurnTrue(exchange[t], capture[t], said[t], emitted[t])

ProxyInv ==
  /\ DOMAIN exchange = Turn /\ DOMAIN capture = Turn /\ DOMAIN said = Turn
  /\ DOMAIN emitted = Turn
  /\ \A t \in Turn : TrueAt(t)

\* No exchange has begun: the invariant of the exchanges holds.
LEMMA ProxyInitially == ProxyInit => ProxyInv
<1>1. TurnTrue(NoTurn, "none", [user |-> FALSE, reply |-> 0], 0)
  BY DEF TurnTrue, NoTurn, Shaped, Level, CaptureTold, Reported
<1> QED BY <1>1 DEF ProxyInit, ProxyInv, TrueAt

\* The invariant of the exchanges gives what the run checks.
LEMMA Honest == ProxyInv => TurnsHonest
<1> SUFFICES ASSUME ProxyInv PROVE TurnsHonest
  OBVIOUS
<1>1. RepliesWhole
  BY DEF ProxyInv, TrueAt, TurnTrue, CaptureTold, RepliesWhole
<1>2. AnswersKeepQuestion
  BY DEF ProxyInv, TrueAt, TurnTrue, CaptureTold, AnswersKeepQuestion
<1>3. ReportedOnce
  <2> SUFFICES ASSUME NEW t \in Turn
               PROVE  /\ emitted[t] <= 1
                      /\ exchange[t].at = "ended" /\ ~exchange[t].left
                         /\ (exchange[t].fed > 0 \/ exchange[t].raised) => emitted[t] = 1
    BY DEF ReportedOnce, At_
  <2>1. Reported(exchange[t], emitted[t])
    BY DEF ProxyInv, TrueAt, TurnTrue
  <2> QED BY <2>1 DEF Reported
<1> QED BY <1>1, <1>2, <1>3 DEF TurnsHonest

\* Only exchange t moves, and what is known of it becomes x, k, d and e.
Moves(t, x, k, d, e) ==
  /\ DOMAIN exchange' = Turn /\ DOMAIN capture' = Turn /\ DOMAIN said' = Turn
  /\ DOMAIN emitted' = Turn
  /\ exchange'[t] = x /\ capture'[t] = k /\ said'[t] = d /\ emitted'[t] = e
  /\ \A u \in Turn \ {t} : /\ exchange'[u] = exchange[u] /\ capture'[u] = capture[u]
                           /\ said'[u] = said[u] /\ emitted'[u] = emitted[u]

\* A step that moves one exchange only preserves the invariant if that exchange
\* is well shaped, level, told of its capture and reported.
LEMMA OneTurn ==
  ASSUME ProxyInv, NEW t \in Turn, NEW x, NEW k, NEW d, NEW e, Moves(t, x, k, d, e),
         Shaped(x), Level(x), CaptureTold(x, k, d), Reported(x, e)
  PROVE  ProxyInv'
<1>1. ASSUME NEW u \in Turn PROVE TrueAt(u)'
  <2>1. CASE u = t
    BY <2>1 DEF TrueAt, TurnTrue, Moves
  <2>2. CASE u # t
    BY <2>2 DEF TrueAt, ProxyInv, Moves
  <2> QED BY <2>1, <2>2
<1> QED BY <1>1 DEF ProxyInv, Moves

\* Nothing is captured or reported before the end of the stream is seen.
LEMMA NotYet ==
  ASSUME NEW x, NEW k, NEW d, NEW e, TurnTrue(x, k, d, e), x.at \notin {"concluded", "ended"}
  PROVE  e = 0 /\ ~x.left /\ \A y : CaptureTold(y, k, d)
BY DEF TurnTrue, CaptureTold, Reported

\* The generator moves: the capture, what is said and what is emitted do not.
LEMMA StreamKeeps ==
  ASSUME ProxyInv, NEW t \in Turn,
         \/ \E asks, session \in BOOLEAN : Dispatch(t, asks, session)
         \/ Rejects(t) \/ \E good \in BOOLEAN : Connect(t, good)
         \/ Pull(t) \/ Feed(t) \/ UpstreamEnds(t) \/ UpstreamRaises(t) \/ Leave(t)
  PROVE  ProxyInv'
<1>1. PICK x, k, d, e : x = exchange[t] /\ k = capture[t] /\ d = said[t] /\ e = emitted[t]
  OBVIOUS
<1>2. TurnTrue(x, k, d, e)
  BY <1>1 DEF ProxyInv, TrueAt
<1>3. UNCHANGED <<capture, said, emitted>>
  BY DEF Dispatch, Rejects, Connect, Pull, Feed, UpstreamEnds, UpstreamRaises, Leave
<1>0. ASSUME NEW y, exchange' = [exchange EXCEPT ![t] = y] PROVE Moves(t, y, k, d, e)
  BY <1>0, <1>1, <1>3 DEF Moves, ProxyInv
<1>4. ASSUME NEW y, exchange' = [exchange EXCEPT ![t] = y], Shaped(y), Level(y),
             x.at \notin {"concluded", "ended"}, Reported(y, e)
      PROVE  ProxyInv'
  BY <1>0, <1>2, <1>4, NotYet, OneTurn
<1>5. ASSUME NEW asks \in BOOLEAN, NEW session \in BOOLEAN, Dispatch(t, asks, session)
      PROVE  ProxyInv'
  <2>1. PICK y : y = [NoTurn EXCEPT !.at = "dispatched", !.asks = asks, !.session = session]
    OBVIOUS
  <2>2. exchange' = [exchange EXCEPT ![t] = y] /\ x.at = "idle"
    BY <1>1, <1>5, <2>1 DEF Dispatch, At_
  <2>0. y = [at |-> "dispatched", asks |-> asks, session |-> session, good |-> FALSE,
             frame |-> "none", sent |-> 0, fed |-> 0, endSent |-> 0, endFed |-> 0,
             raised |-> FALSE, left |-> FALSE]
    BY <2>1 DEF NoTurn
  <2>4. ~y.raised /\ ~y.left
    BY <2>0
  <2>5. Shaped(y) /\ Level(y)
    BY <2>0, <2>4 DEF Shaped, Level
  <2>6. Reported(y, e)
    BY <1>2, <2>0, <2>2, <2>4, NotYet DEF Reported
  <2>3. Shaped(y) /\ Level(y) /\ Reported(y, e)
    BY <2>5, <2>6
  <2> QED BY <1>4, <2>2, <2>3
<1>6. CASE Rejects(t)
  <2>1. PICK y : y = [x EXCEPT !.at = "ended"]
    OBVIOUS
  <2>2. exchange' = [exchange EXCEPT ![t] = y] /\ x.at = "dispatched"
    BY <1>1, <1>6, <2>1 DEF Rejects, At_, Proceed, ProxyInv
  <2>3. Shaped(y) /\ Level(y) /\ Reported(y, e)
    BY <1>2, <2>1, <2>2, NotYet DEF TurnTrue, Shaped, Level, Reported
  <2> QED BY <1>4, <2>2, <2>3
<1>7. ASSUME NEW good \in BOOLEAN, Connect(t, good)
      PROVE  ProxyInv'
  <2>1. PICK y : y = [x EXCEPT !.at = "pulling", !.good = good]
    OBVIOUS
  <2>2. exchange' = [exchange EXCEPT ![t] = y] /\ x.at = "dispatched"
    BY <1>1, <1>7, <2>1 DEF Connect, At_, ProxyInv
  <2>3. Shaped(y) /\ Level(y) /\ Reported(y, e)
    BY <1>2, <2>1, <2>2, NotYet DEF TurnTrue, Shaped, Level, Reported
  <2> QED BY <1>4, <2>2, <2>3
<1>8. CASE Pull(t)
  <2>1. x.at = "pulling"
    BY <1>1, <1>8 DEF Pull, At_
  <2>2. PICK f \in {"text", "half", "whole"} : exchange' = [exchange EXCEPT
          ![t].at = "given", ![t].frame = f,
          ![t].sent = @ + (IF f = "text" THEN 1 ELSE 0),
          ![t].endSent = CASE f = "text" -> @ [] f = "half" -> @ + 1 [] OTHER -> 2]
    BY <1>8 DEF Pull
  <2>3. PICK s, g : /\ s = x.sent + (IF f = "text" THEN 1 ELSE 0)
                    /\ g = CASE f = "text" -> x.endSent [] f = "half" -> x.endSent + 1
                             [] OTHER -> 2
    OBVIOUS
  <2>4. s \in Nat /\ g \in Nat
    BY <1>2, <2>3 DEF TurnTrue, Shaped
  <2>5. PICK y : y = [x EXCEPT !.at = "given", !.frame = f, !.sent = s, !.endSent = g]
    OBVIOUS
  <2>6. exchange' = [exchange EXCEPT ![t] = y]
    <3>1. \A u \in Turn \ {t} : exchange'[u] = exchange[u]
      BY <2>2 DEF ProxyInv
    <3>2. exchange'[t] = y
      BY <1>1, <1>2, <2>2, <2>3, <2>5 DEF ProxyInv, TurnTrue, Shaped
    <3> QED BY <3>1, <3>2, <2>2 DEF ProxyInv
  <2>7. Shaped(y) /\ Level(y) /\ Reported(y, e)
    BY <1>2, <2>1, <2>4, <2>5, NotYet DEF TurnTrue, Shaped, Level, Reported
  <2> QED BY <1>4, <2>1, <2>6, <2>7
<1>9. CASE Feed(t)
  <2>1. PICK y : y = [x EXCEPT !.at = "pulling", !.frame = "none", !.fed = x.sent,
                               !.endFed = x.endSent]
    OBVIOUS
  <2>2. exchange' = [exchange EXCEPT ![t] = y] /\ x.at = "given"
    BY <1>1, <1>9, <2>1 DEF Feed, At_, ProxyInv
  <2>3. Shaped(y) /\ Level(y) /\ Reported(y, e)
    BY <1>2, <2>1, <2>2, NotYet DEF TurnTrue, Shaped, Level, Reported
  <2> QED BY <1>4, <2>2, <2>3
<1>10. CASE UpstreamEnds(t)
  <2>1. PICK y : y = [x EXCEPT !.at = "streamed"]
    OBVIOUS
  <2>2. exchange' = [exchange EXCEPT ![t] = y] /\ x.at = "pulling"
    BY <1>1, <1>10, <2>1 DEF UpstreamEnds, At_, Proceed, ProxyInv
  <2>3. Shaped(y) /\ Level(y) /\ Reported(y, e)
    BY <1>2, <2>1, <2>2, NotYet DEF TurnTrue, Shaped, Level, Reported
  <2> QED BY <1>4, <2>2, <2>3
<1>11. CASE UpstreamRaises(t)
  <2>1. PICK y : y = [x EXCEPT !.at = "streamed", !.raised = TRUE]
    OBVIOUS
  <2>2. exchange' = [exchange EXCEPT ![t] = y] /\ x.at \in {"dispatched", "pulling"}
    BY <1>1, <1>11, <2>1 DEF UpstreamRaises, ProxyInv
  <2>3. Shaped(y) /\ Level(y) /\ Reported(y, e)
    BY <1>2, <2>1, <2>2, NotYet DEF TurnTrue, Shaped, Level, Reported
  <2> QED BY <1>4, <2>2, <2>3
<1>12. CASE Leave(t)
  <2>1. PICK y : y = [x EXCEPT !.at = "ended", !.left = TRUE]
    OBVIOUS
  <2>2. exchange' = [exchange EXCEPT ![t] = y]
        /\ x.at \in {"dispatched", "pulling", "given", "streamed", "concluded"}
    BY <1>1, <1>12, <2>1 DEF Leave, ProxyInv
  <2>3. Shaped(y) /\ Level(y) /\ Reported(y, e) /\ y.left
    BY <1>2, <2>1, <2>2 DEF TurnTrue, Shaped, Level, Reported
  <2>4. CaptureTold(y, k, d)
    BY <1>2, <2>1, <2>2 DEF TurnTrue, Shaped, CaptureTold
  <2> QED BY <1>0, <2>2, <2>3, <2>4, OneTurn
<1> QED BY <1>5, <1>6, <1>7, <1>8, <1>9, <1>10, <1>11, <1>12

\* The end of a stream: the capture, if any, and the report.
LEMMA EndKeeps ==
  ASSUME ProxyInv, NEW t \in Turn, Conclude(t) \/ Report(t)
  PROVE  ProxyInv'
<1>1. PICK x, k, d, e : x = exchange[t] /\ k = capture[t] /\ d = said[t] /\ e = emitted[t]
  OBVIOUS
<1>2. TurnTrue(x, k, d, e)
  BY <1>1 DEF ProxyInv, TrueAt
<1>3. CASE Conclude(t)
  <2>1. PICK y : y = [x EXCEPT !.at = "concluded"]
    OBVIOUS
  <2>2. PICK k2 : k2 = IF ~x.raised /\ x.good /\ x.endFed = 2 /\ x.session THEN "user" ELSE k
    OBVIOUS
  <2>3. /\ exchange' = [exchange EXCEPT ![t] = y] /\ x.at = "streamed"
        /\ UNCHANGED <<said, emitted>>
    BY <1>1, <1>3, <2>1 DEF Conclude, At_, Proceed
  <2>0. capture' = [capture EXCEPT ![t] = k2]
    BY <1>1, <1>3, <2>2 DEF Conclude, EventSeen
  <2>4. Moves(t, y, k2, d, e)
    BY <1>1, <2>0, <2>3 DEF Moves, ProxyInv
  <2>5. k = "none"
    BY <1>2, <2>3 DEF TurnTrue, CaptureTold
  <2>6. Shaped(y) /\ Level(y) /\ Reported(y, e)
    BY <1>2, <2>1, <2>3 DEF TurnTrue, Shaped, Level, Reported
  <2>7. CaptureTold(y, k2, d)
    BY <1>2, <2>1, <2>2, <2>3, <2>5 DEF TurnTrue, Shaped, Level, CaptureTold
  <2> QED BY <2>4, <2>6, <2>7, OneTurn
<1>4. CASE Report(t)
  <2>1. PICK y : y = [x EXCEPT !.at = "ended"]
    OBVIOUS
  <2>2. /\ exchange' = [exchange EXCEPT ![t] = y] /\ emitted' = [emitted EXCEPT ![t] = e + 1]
        /\ x.at = "concluded" /\ UNCHANGED <<capture, said>>
    BY <1>1, <1>4, <2>1 DEF Report, At_, Proceed, ProxyInv
  <2>3. Moves(t, y, k, d, e + 1)
    BY <1>1, <2>2 DEF Moves, ProxyInv
  <2>4. e + 1 = 1
    BY <1>2, <2>2 DEF TurnTrue, Reported
  <2>5. Shaped(y) /\ Level(y) /\ CaptureTold(y, k, d) /\ Reported(y, e + 1)
    BY <1>2, <2>1, <2>2, <2>4 DEF TurnTrue, Shaped, Level, CaptureTold, Reported
  <2> QED BY <2>3, <2>5, OneTurn
<1> QED BY <1>3, <1>4

\* Append: the step preserves the invariant.
LEMMA AppendKeeps ==
  ASSUME ProxyInv, NEW t \in Turn, AppendTurn(t) \/ AppendFails(t)
  PROVE  ProxyInv'
<1>1. PICK x, k, d, e : x = exchange[t] /\ k = capture[t] /\ d = said[t] /\ e = emitted[t]
  OBVIOUS
<1>2. TurnTrue(x, k, d, e)
  BY <1>1 DEF ProxyInv, TrueAt
<1>3. UNCHANGED <<exchange, emitted>> /\ k \in {"user", "assistant"}
  BY <1>1 DEF AppendTurn, AppendFails
<1>4. ASSUME NEW k2, NEW d2, capture' = [capture EXCEPT ![t] = k2],
             DOMAIN said' = Turn, said'[t] = d2, \A u \in Turn \ {t} : said'[u] = said[u],
             CaptureTold(x, k2, d2)
      PROVE  ProxyInv'
  <2>1. Moves(t, x, k2, d2, e)
    BY <1>1, <1>3, <1>4 DEF Moves, ProxyInv
  <2> QED BY <1>2, <1>4, <2>1, OneTurn DEF TurnTrue
<1>5. CASE AppendTurn(t) /\ k = "user"
  <2>1. PICK d2 : d2 = [d EXCEPT !.user = x.asks]
    OBVIOUS
  <2>2. capture' = [capture EXCEPT ![t] = "assistant"] /\ DOMAIN said' = Turn /\ said'[t] = d2
        /\ \A u \in Turn \ {t} : said'[u] = said[u]
    BY <1>1, <1>5, <2>1 DEF AppendTurn, Role, ProxyInv
  <2>3. CaptureTold(x, "assistant", d2)
    BY <1>2, <1>5, <2>1 DEF TurnTrue, Shaped, CaptureTold
  <2> QED BY <1>4, <2>2, <2>3
<1>6. CASE AppendTurn(t) /\ k = "assistant"
  <2>1. PICK d2 : d2 = [d EXCEPT !.reply = x.fed]
    OBVIOUS
  <2>2. capture' = [capture EXCEPT ![t] = "over"] /\ DOMAIN said' = Turn /\ said'[t] = d2
        /\ \A u \in Turn \ {t} : said'[u] = said[u]
    BY <1>1, <1>6, <2>1 DEF AppendTurn, Role, ProxyInv
  <2>3. CaptureTold(x, "over", d2)
    BY <1>2, <1>6, <2>1 DEF TurnTrue, Shaped, CaptureTold
  <2> QED BY <1>4, <2>2, <2>3
<1>7. CASE AppendFails(t)
  <2>1. capture' = [capture EXCEPT ![t] = "over"] /\ said' = said
    BY <1>7 DEF AppendFails
  <2>2. CaptureTold(x, "over", d)
    BY <1>2, <1>3 DEF TurnTrue, CaptureTold
  <2> QED BY <1>1, <1>4, <2>1, <2>2 DEF ProxyInv
<1> QED BY <1>3, <1>5, <1>6, <1>7

\* Stop: the step preserves the invariant.
LEMMA StopKeeps ==
  ASSUME ProxyInv, ProxyStops
  PROVE  ProxyInv'
<1>1. /\ exchange' = [t \in Turn |-> IF exchange[t].at = "idle" THEN exchange[t]
                                     ELSE [exchange[t] EXCEPT !.at = "ended", !.left = TRUE]]
      /\ capture' = [t \in Turn |-> IF capture[t] = "none" THEN "none" ELSE "over"]
      /\ UNCHANGED <<said, emitted>>
  BY DEF ProxyStops
<1>2. ASSUME NEW t \in Turn PROVE TrueAt(t)'
  <2>1. PICK x, k, d, e : x = exchange[t] /\ k = capture[t] /\ d = said[t] /\ e = emitted[t]
    OBVIOUS
  <2>2. TurnTrue(x, k, d, e)
    BY <2>1 DEF ProxyInv, TrueAt
  <2>3. PICK y, k2 : /\ y = IF x.at = "idle" THEN x ELSE [x EXCEPT !.at = "ended", !.left = TRUE]
                     /\ k2 = IF k = "none" THEN "none" ELSE "over"
    OBVIOUS
  <2>4. exchange'[t] = y /\ capture'[t] = k2 /\ said'[t] = d /\ emitted'[t] = e
    BY <1>1, <2>1, <2>3
  <2>5. TurnTrue(y, k2, d, e)
    BY <2>2, <2>3 DEF TurnTrue, Shaped, Level, CaptureTold, Reported
  <2> QED BY <2>4, <2>5 DEF TrueAt
<1> QED BY <1>1, <1>2 DEF ProxyInv

\* For any number of exchanges, of any length, whoever leaves and whatever fails:
\* a stored reply is the whole answer the client got and follows its question, and
\* a stream that ends is reported once (proxy/service.py).
THEOREM TurnsAreHonest == ProxySpec => []TurnsHonest
<1>1. ProxyInit => ProxyInv
  BY ProxyInitially
<1>2. ProxyInv /\ [ProxyNext]_proxyVars => ProxyInv'
  <2> SUFFICES ASSUME ProxyInv, [ProxyNext]_proxyVars PROVE ProxyInv'
    OBVIOUS
  <2>1. ASSUME NEW t \in Turn,
               \/ \E asks, session \in BOOLEAN : Dispatch(t, asks, session)
               \/ Rejects(t) \/ \E good \in BOOLEAN : Connect(t, good)
               \/ Pull(t) \/ Feed(t) \/ UpstreamEnds(t) \/ UpstreamRaises(t) \/ Leave(t)
        PROVE  ProxyInv'
    BY <2>1, StreamKeeps
  <2>2. ASSUME NEW t \in Turn,
               Conclude(t) \/ Report(t) \/ AppendTurn(t) \/ AppendFails(t)
        PROVE  ProxyInv'
    BY <2>2, EndKeeps, AppendKeeps
  <2>3. CASE ProxyStops
    BY <2>3, StopKeeps
  <2>4. CASE UNCHANGED proxyVars
    BY <2>4 DEF ProxyInv, TrueAt, proxyVars
  <2> QED BY <2>1, <2>2, <2>3, <2>4 DEF ProxyNext
<1>3. ProxyInv => TurnsHonest
  BY Honest
<1> QED BY <1>1, <1>2, <1>3, PTL DEF ProxySpec

-----------------------------------------------------------------------------
(***************************************************************************)
(* The documents that the graph has not taken in. A pass marks only rows   *)
(* that it found unmarked, each once; a call whose pass has the lock waits *)
(* for it; and a flag and a node part only where a sync is between the two *)
(* or the document is known to be astray.                                  *)
(***************************************************************************)

BacklogRow == [doc : Doc, body : Body]
CallType == [at : {"idle", "drop", "unlink", "add", "mark", "unmark", "graph", "pass"},
             doc : Doc \cup {NoText}, body : Body \cup {NoText}]
PassType == [by : Call \cup {NoText, Sweeper}, at : {"rows", "mark"}, rows : SUBSET BacklogRow,
             item : BacklogRow \cup {NoText}, errors : Nat, round : Nat, worked : BOOLEAN]

BacklogShapes ==
  /\ origin \in [Doc -> Kind] /\ raw \in [Doc -> Row]
  /\ indexed \in SUBSET Doc /\ astray \in SUBSET Doc
  /\ node \in [Doc -> Text \cup {NoText}]
  /\ sweeping \in BOOLEAN
  /\ pass \in PassType
  /\ call \in [Call -> CallType]
  /\ \A c \in Call : IF call[c].at = "idle" THEN call[c] = Idle ELSE call[c].doc \in Doc

\* The rows of a pass, and the one whose node it has just written, are not marked:
\* only the pass that has the lock marks rows, each once.
RowsUnmarked(p) ==
  /\ \A row \in p.rows : ~raw[row.doc].graph
  /\ \A row, other \in p.rows : row.doc = other.doc => row = other
  /\ p.at = "mark" =>
       /\ p.item \in BacklogRow /\ ~raw[p.item.doc].graph
       /\ \A row \in p.rows : row.doc # p.item.doc

\* A sync is between the deletion of the node of d and the clearing of its flag.
Unlinking(d) ==
  origin[d] = "sync"
    /\ \E c \in Call : call[c].doc = d /\ call[c].at \in {"add", "mark", "unmark"}

FlagsHold == \A d \in Doc : Parted(d) => d \in astray \/ raw[d].body = Blank \/ Unlinking(d)

\* A call whose pass has the lock waits for it.
LockHeld == pass.by \in Call => call[pass.by].at = "pass"

BacklogInv == BacklogShapes /\ RowsUnmarked(pass) /\ LockHeld /\ FlagsHold

\* A handler at rest is of the type of handlers.
LEMMA IdleFacts == Idle \in CallType /\ Idle.at = "idle"
BY DEF Idle, CallType

\* The free lock is a pass without rows that no handler runs.
LEMMA FreeFacts == Free \in PassType /\ Free.at = "rows" /\ Free.rows = {} /\ Free.by \notin Call
                   /\ RowsUnmarked(Free) /\ RowsUnmarked(Free)'
BY BacklogAssumption DEF Free, PassType, RowsUnmarked

\* The invariant holds in the initial states.
LEMMA BacklogInitially == BacklogInit => BacklogInv
<1> SUFFICES ASSUME BacklogInit PROVE BacklogInv
  OBVIOUS
<1> USE DEF BacklogInit, BacklogInitWith
<1>1. raw \in [Doc -> Row] /\ \A d \in Doc : raw[d].graph = FALSE
  BY DEF Row
<1>2. BacklogShapes
  BY <1>1, IdleFacts, FreeFacts DEF BacklogShapes
<1>3. RowsUnmarked(pass) /\ LockHeld /\ FlagsHold
  BY <1>1, FreeFacts DEF LockHeld, FlagsHold, Parted
<1> QED BY <1>2, <1>3 DEF BacklogInv

\* A call goes to another step, or ends.
LEMMA GotoFacts ==
  ASSUME BacklogInv, NEW c \in Call,
         NEW at \in {"idle", "drop", "unlink", "add", "mark", "unmark", "graph", "pass"},
         Goto(c, at), call[c].at # "idle"
  PROVE  /\ call' \in [Call -> CallType]
         /\ \A k \in Call : IF call'[k].at = "idle" THEN call'[k] = Idle ELSE call'[k].doc \in Doc
         /\ \A k \in Call \ {c} : call'[k] = call[k]
         /\ call'[c].at = at /\ (at # "idle" => call'[c].doc = call[c].doc)
<1>x. PICK x : x = IF at = "idle" THEN Idle ELSE [call[c] EXCEPT !.at = at]
  OBVIOUS
<1>1. call[c] \in CallType /\ call[c].doc \in Doc
  BY DEF BacklogInv, BacklogShapes
<1>2. /\ x \in CallType /\ x.at = at /\ (at = "idle" => x = Idle)
      /\ at # "idle" => x.doc = call[c].doc
  BY <1>1, <1>x, IdleFacts DEF CallType
<1>3. call' = [call EXCEPT ![c] = x]
  BY <1>x DEF Goto, BacklogInv, BacklogShapes
<1> QED BY <1>1, <1>2, <1>3 DEF BacklogInv, BacklogShapes

\* The rows a pass begins with.
LEMMA BegunFacts ==
  ASSUME BacklogInv, NEW by \in Call \cup {NoText, Sweeper}, NEW round \in Nat
  PROVE  Begun(by, round) \in PassType /\ RowsUnmarked(Begun(by, round))
         /\ Begun(by, round).at = "rows" /\ Begun(by, round).by = by
<1>x. PICK x, found : /\ found = {[doc |-> d, body |-> raw[d].body] : d \in Backlog}
                      /\ x = [Free EXCEPT !.by = by, !.round = round, !.rows = found]
  OBVIOUS
<1>1. \A d \in Backlog : d \in Doc /\ raw[d].body \in Body /\ ~raw[d].graph
  BY DEF Backlog, BacklogInv, BacklogShapes, Row
<1>2. \A row \in found : row \in BacklogRow /\ row.doc \in Backlog /\ row.body = raw[row.doc].body
  BY <1>1, <1>x DEF BacklogRow
<1>3. x \in PassType /\ x.at = "rows" /\ x.rows = found /\ x.by = by
  BY <1>2, <1>x DEF Free, PassType
<1>4. \A row, other \in found : row.doc = other.doc => row = other
  BY <1>2, <1>x
<1>5. RowsUnmarked(x)
  BY <1>1, <1>2, <1>3, <1>4 DEF RowsUnmarked
<1> QED BY <1>3, <1>5, <1>x DEF Begun

\* A step that changes nothing of the backlog preserves its invariant.
LEMMA BacklogStays == BacklogInv /\ UNCHANGED backlogVars => BacklogInv'
BY DEF BacklogInv, BacklogShapes, RowsUnmarked, LockHeld, FlagsHold, Parted, Unlinking,
       backlogVars

\* A document is written: a new text resets the flags, the rest leaves them.
LEMMA UpsertedFacts ==
  ASSUME NEW row \in Row, NEW body \in Body, NEW drifted \in BOOLEAN
  PROVE  /\ Upserted(row, body, drifted) \in Row
         /\ Upserted(row, body, drifted).graph =>
              row.graph /\ Upserted(row, body, drifted).body = row.body
BY DEF Upserted, Row

\* Persist: the step preserves the invariant.
LEMMA PersistKeeps ==
  ASSUME BacklogInv, NEW c \in Call, NEW d \in Doc, NEW body \in Body, NEW drifted \in BOOLEAN,
         Persist(c, d, body, drifted)
  PROVE  BacklogInv'
<1>x. PICK new : new = Upserted(raw[d], body, drifted)
  OBVIOUS
<1>1. /\ call[c].at = "idle" /\ raw' = [raw EXCEPT ![d] = new]
      /\ UNCHANGED <<origin, indexed, node, pass, sweeping, astray>>
  BY <1>x DEF Persist, BacklogInv, BacklogShapes
<1>2. PICK at \in {"graph", "mark", "drop"} :
        call' = [call EXCEPT ![c] = [at |-> at, doc |-> d, body |-> body]]
  BY DEF Persist
<1>3. new \in Row /\ (new.graph => raw[d].graph /\ new.body = raw[d].body)
  BY <1>x, UpsertedFacts DEF BacklogInv, BacklogShapes
<1>4. \A e \in Doc : raw'[e] = IF e = d THEN new ELSE raw[e]
  BY <1>1 DEF BacklogInv, BacklogShapes
<1>5. BacklogShapes'
  <2>x. PICK x : x = [at |-> at, doc |-> d, body |-> body]
    OBVIOUS
  <2>1. x \in CallType /\ x.at # "idle" /\ x.doc = d
    BY <2>x DEF CallType
  <2>2. call' = [call EXCEPT ![c] = x]
    BY <1>2, <2>x
  <2> QED BY <1>1, <1>3, <2>1, <2>2 DEF BacklogInv, BacklogShapes
<1>6. RowsUnmarked(pass)'
  <2>1. \A e \in Doc : raw'[e].graph => raw[e].graph
    BY <1>3, <1>4
  <2>2. \A row \in pass.rows : row.doc \in Doc
    BY DEF BacklogInv, BacklogShapes, PassType, BacklogRow
  <2> QED BY <1>1, <2>1, <2>2 DEF BacklogInv, RowsUnmarked, BacklogRow
<1>7. FlagsHold'
  <2> SUFFICES ASSUME NEW e \in Doc, Parted(e)'
               PROVE  e \in astray' \/ raw'[e].body = Blank \/ Unlinking(e)'
    BY DEF FlagsHold
  <2>1. Parted(e) /\ raw'[e].body = raw[e].body
    BY <1>1, <1>3, <1>4 DEF Parted
  <2>2. Unlinking(e) => Unlinking(e)'
    BY <1>1, <1>2 DEF Unlinking, BacklogInv, BacklogShapes
  <2> QED BY <1>1, <2>1, <2>2 DEF BacklogInv, FlagsHold
<1>8. LockHeld'
  BY <1>1, <1>2 DEF BacklogInv, BacklogShapes, LockHeld
<1> QED BY <1>5, <1>6, <1>7, <1>8 DEF BacklogInv

\* PersistFails: the step preserves the invariant.
LEMMA PersistFailsKeeps ==
  ASSUME BacklogInv, NEW c \in Call, NEW d \in Doc, PersistFails(c, d)
  PROVE  BacklogInv'
<1>x. PICK x : x = [at |-> "graph", doc |-> d, body |-> NoText]
  OBVIOUS
<1>1. /\ call[c].at = "idle" /\ call' = [call EXCEPT ![c] = x]
      /\ UNCHANGED <<origin, raw, indexed, node, pass, sweeping, astray>>
  BY <1>x DEF PersistFails
<1>2. x \in CallType /\ x.at = "graph" /\ x.doc = d
  BY <1>x DEF CallType
<1>3. BacklogShapes'
  BY <1>1, <1>2 DEF BacklogInv, BacklogShapes
<1>4. RowsUnmarked(pass)'
  BY <1>1 DEF BacklogInv, RowsUnmarked
<1>5. FlagsHold'
  BY <1>1 DEF BacklogInv, BacklogShapes, FlagsHold, Parted, Unlinking
<1>6. LockHeld'
  BY <1>1 DEF BacklogInv, BacklogShapes, LockHeld
<1> QED BY <1>3, <1>4, <1>5, <1>6 DEF BacklogInv

\* What the steps of a call share.
LEMMA CallGoesOn ==
  ASSUME BacklogInv, NEW c \in Call,
         NEW at \in {"idle", "drop", "unlink", "add", "mark", "unmark", "graph", "pass"},
         Goto(c, at), call[c].at \notin {"idle", "pass"}, UNCHANGED <<origin, sweeping>>,
         pass'.by = pass.by \/ (pass'.by = c /\ at = "pass"),
         raw' \in [Doc -> Row], indexed' \in SUBSET Doc, astray' \in SUBSET Doc,
         node' \in [Doc -> Text \cup {NoText}], pass' \in PassType, RowsUnmarked(pass)',
         FlagsHold'
  PROVE  BacklogInv'
<1>1. BacklogShapes'
  BY GotoFacts DEF BacklogInv, BacklogShapes
<1>2. LockHeld'
  BY GotoFacts DEF BacklogInv, LockHeld
<1> QED BY <1>1, <1>2 DEF BacklogInv

\* Rows whose flag stays as it is, or is cleared, are still unmarked.
LEMMA PassUntouched ==
  ASSUME BacklogInv, pass' = pass, \A d \in Doc : raw'[d].graph => raw[d].graph
  PROVE  pass' \in PassType /\ RowsUnmarked(pass)'
<1>1. \A row \in pass.rows : row.doc \in Doc
  BY DEF BacklogInv, BacklogShapes, PassType, BacklogRow
<1> QED BY <1>1 DEF BacklogInv, BacklogShapes, RowsUnmarked, BacklogRow

\* Deleting or adding the chunks of a document preserves the invariant.
LEMMA ChunksKeep ==
  ASSUME BacklogInv, NEW c \in Call, DropChunks(c) \/ AddChunks(c)
  PROVE  BacklogInv'
<1>1. PICK at \in {"unlink", "add", "mark"} :
        /\ Goto(c, at) /\ call[c].at \in {"drop", "add"}
        /\ call[c].at = "add" => at = "mark"
        /\ UNCHANGED <<origin, raw, node, pass, sweeping, astray>>
        /\ indexed' \in SUBSET Doc
  BY DEF DropChunks, AddChunks, BacklogInv, BacklogShapes
<1>2. /\ \A k \in Call \ {c} : call'[k] = call[k]
      /\ call'[c].at = at /\ call'[c].doc = call[c].doc
  BY <1>1, GotoFacts
<1>3. \A d \in Doc : Unlinking(d) => Unlinking(d)'
  BY <1>1, <1>2 DEF Unlinking
<1>4. FlagsHold'
  BY <1>1, <1>3 DEF BacklogInv, FlagsHold, Parted
<1>5. pass' \in PassType /\ RowsUnmarked(pass)'
  BY <1>1, PassUntouched
<1>6. raw' \in [Doc -> Row] /\ astray' \in SUBSET Doc /\ node' \in [Doc -> Text \cup {NoText}]
  BY <1>1 DEF BacklogInv, BacklogShapes
<1> QED BY <1>1, <1>4, <1>5, <1>6, CallGoesOn

\* The node is deleted under a flag that a sync will clear, or nobody.
LEMMA DropNodeKeeps ==
  ASSUME BacklogInv, NEW c \in Call, DropNode(c)
  PROVE  BacklogInv'
<1>d. PICK d : d = call[c].doc
  OBVIOUS
<1>1. /\ call[c].at = "unlink" /\ call[c].doc = d /\ Goto(c, "add")
      /\ UNCHANGED <<origin, raw, indexed, pass, sweeping>>
      /\ \/ /\ node' = [node EXCEPT ![d] = NoText]
            /\ astray' = IF raw[d].graph /\ origin[d] # "sync" THEN astray \cup {d} ELSE astray
         \/ UNCHANGED <<node, astray>>
  BY <1>d DEF DropNode
<1>2. /\ \A k \in Call \ {c} : call'[k] = call[k]
      /\ call'[c].at = "add" /\ call'[c].doc = d
      /\ d \in Doc
  <2>1. d \in Doc
    BY <1>1 DEF BacklogInv, BacklogShapes
  <2> QED BY <1>1, <2>1, GotoFacts
<1>3. \A e \in Doc : Unlinking(e) => Unlinking(e)'
  BY <1>1, <1>2 DEF Unlinking
<1>4. FlagsHold'
  <2> SUFFICES ASSUME NEW e \in Doc, Parted(e)'
               PROVE  e \in astray' \/ raw'[e].body = Blank \/ Unlinking(e)'
    BY DEF FlagsHold
  <2>1. CASE e = d /\ origin[d] = "sync"
    BY <1>1, <1>2, <2>1 DEF Unlinking
  <2>2. CASE e # d \/ node' = node
    <3>1. node'[e] = node[e] /\ astray \subseteq astray'
      BY <1>1, <2>2 DEF BacklogInv, BacklogShapes
    <3> QED BY <1>1, <1>3, <3>1 DEF BacklogInv, FlagsHold, Parted
  <2>3. CASE e = d /\ origin[d] # "sync" /\ node' # node
    BY <1>1, <2>3 DEF Parted
  <2> QED BY <2>1, <2>2, <2>3
<1>5. pass' \in PassType /\ RowsUnmarked(pass)'
  BY <1>1, PassUntouched
<1>6. /\ raw' \in [Doc -> Row] /\ astray' \in SUBSET Doc /\ node' \in [Doc -> Text \cup {NoText}]
      /\ indexed' \in SUBSET Doc
  BY <1>1, <1>2 DEF BacklogInv, BacklogShapes
<1> QED BY <1>1, <1>4, <1>5, <1>6, CallGoesOn

\* MarkIndexed: the step preserves the invariant.
LEMMA MarkIndexedKeeps ==
  ASSUME BacklogInv, NEW c \in Call, MarkIndexed(c)
  PROVE  BacklogInv'
<1>d. PICK d, at : d = call[c].doc /\ at = AfterMark(d)
  OBVIOUS
<1>1. /\ call[c].at = "mark" /\ call[c].doc = d /\ Goto(c, at)
      /\ raw' = [raw EXCEPT ![d].qdrant = TRUE] \/ raw' = raw
      /\ UNCHANGED <<origin, indexed, node, pass, sweeping, astray>>
  BY <1>d DEF MarkIndexed
<1>2. d \in Doc
  BY <1>1 DEF BacklogInv, BacklogShapes
<1>3. /\ at \in {"unmark", "graph", "idle"} /\ (origin[d] = "sync" => at = "unmark")
  BY <1>2, <1>d DEF AfterMark
<1>4. /\ \A k \in Call \ {c} : call'[k] = call[k]
      /\ call'[c].at = at /\ (at # "idle" => call'[c].doc = d)
  BY <1>1, <1>3, GotoFacts
<1>5. /\ raw' \in [Doc -> Row]
      /\ \A e \in Doc : raw'[e].graph = raw[e].graph /\ raw'[e].body = raw[e].body
  <2>1. CASE raw' = raw
    BY <2>1 DEF BacklogInv, BacklogShapes
  <2>2. CASE raw' = [raw EXCEPT ![d].qdrant = TRUE]
    <3>x. PICK x : x = [raw[d] EXCEPT !.qdrant = TRUE]
      OBVIOUS
    <3>1. x \in Row /\ x.graph = raw[d].graph /\ x.body = raw[d].body
      BY <1>2, <3>x DEF BacklogInv, BacklogShapes, Row
    <3>2. raw' = [raw EXCEPT ![d] = x]
      BY <1>2, <2>2, <3>x DEF BacklogInv, BacklogShapes
    <3> QED BY <1>2, <3>1, <3>2 DEF BacklogInv, BacklogShapes
  <2> QED BY <1>1, <2>1, <2>2
<1>6. FlagsHold'
  <2>1. \A e \in Doc : Unlinking(e) => Unlinking(e)'
    BY <1>1, <1>2, <1>3, <1>4 DEF Unlinking
  <2> QED BY <1>1, <1>5, <2>1 DEF BacklogInv, FlagsHold, Parted
<1>7. pass' \in PassType /\ RowsUnmarked(pass)'
  BY <1>1, <1>5, PassUntouched
<1>8. astray' \in SUBSET Doc /\ node' \in [Doc -> Text \cup {NoText}] /\ indexed' \in SUBSET Doc
  BY <1>1 DEF BacklogInv, BacklogShapes
<1> QED BY <1>1, <1>3, <1>5, <1>6, <1>7, <1>8, CallGoesOn

\* A sync clears the flag of the node it deleted, or is cut short before it can.
LEMMA UnmarkKeeps ==
  ASSUME BacklogInv, NEW c \in Call, Unmark(c) \/ Abandon(c)
  PROVE  BacklogInv'
<1>d. PICK d : d = call[c].doc
  OBVIOUS
<1>1. PICK at \in {"graph", "idle"} :
      /\ call[c].at \notin {"idle", "pass"} /\ call[c].doc = d /\ Goto(c, at)
      /\ UNCHANGED <<origin, indexed, node, pass, sweeping>>
      /\ \/ raw' = [raw EXCEPT ![d] = ClearsFlag(raw[d])] /\ astray' = astray
         \/ raw' = raw /\ astray' = astray \cup {e \in {d} : Parted(e)}
  <2>1. CASE Unmark(c)
    BY <1>d, <2>1 DEF Unmark, BacklogInv, BacklogShapes
  <2>2. CASE Abandon(c)
    BY <1>d, <2>2 DEF Abandon
  <2> QED BY <2>1, <2>2
<1>2. d \in Doc
  BY <1>1 DEF BacklogInv, BacklogShapes
<1>3. \A k \in Call \ {c} : call'[k] = call[k]
  BY <1>1, GotoFacts
<1>x. PICK x : x = ClearsFlag(raw[d])
  OBVIOUS
<1>4. x \in Row /\ x.graph = FALSE /\ x.body = raw[d].body
  BY <1>2, <1>x DEF ClearsFlag, BacklogInv, BacklogShapes, Row
<1>5. /\ raw' \in [Doc -> Row]
      /\ \A e \in Doc : /\ raw'[e].graph => raw[e].graph
                        /\ raw'[e].body = raw[e].body
  BY <1>1, <1>2, <1>4, <1>x DEF BacklogInv, BacklogShapes
<1>6. FlagsHold'
  <2> SUFFICES ASSUME NEW e \in Doc, Parted(e)'
               PROVE  e \in astray' \/ raw'[e].body = Blank \/ Unlinking(e)'
    BY DEF FlagsHold
  <2>1. Parted(e) /\ astray \subseteq astray'
    BY <1>1, <1>5 DEF Parted
  <2>2. CASE e # d
    <3>1. Unlinking(e) => Unlinking(e)'
      BY <1>1, <1>3, <2>2 DEF Unlinking
    <3> QED BY <1>5, <2>1, <3>1 DEF BacklogInv, FlagsHold
  <2>3. CASE e = d
    <3>1. raw' = raw
      BY <1>1, <1>2, <1>4, <1>x, <2>3 DEF Parted, BacklogInv, BacklogShapes
    <3>2. d \in astray'
      BY <1>1, <1>2, <1>4, <1>x, <2>1, <2>3, <3>1 DEF Parted, BacklogInv, BacklogShapes
    <3> QED BY <2>3, <3>2
  <2> QED BY <2>2, <2>3
<1>7. pass' \in PassType /\ RowsUnmarked(pass)'
  BY <1>1, <1>5, PassUntouched
<1>8. /\ astray' \in SUBSET Doc /\ node' \in [Doc -> Text \cup {NoText}]
      /\ indexed' \in SUBSET Doc
  BY <1>1, <1>2 DEF BacklogInv, BacklogShapes
<1> QED BY <1>1, <1>5, <1>6, <1>7, <1>8, CallGoesOn

\* GraphPhase: the step preserves the invariant.
LEMMA GraphPhaseKeeps ==
  ASSUME BacklogInv, NEW c \in Call, GraphPhase(c)
  PROVE  BacklogInv'
<1>1. /\ call[c].at = "graph" /\ UNCHANGED <<origin, raw, indexed, node, sweeping, astray>>
  BY DEF GraphPhase
<1>2. PICK at \in {"pass", "idle"} :
        Goto(c, at) /\ (pass' = pass \/ (at = "pass" /\ pass' = Begun(c, 1)))
  BY DEF GraphPhase
<1>3. /\ pass' \in PassType /\ RowsUnmarked(pass)'
      /\ pass'.by = pass.by \/ (pass'.by = c /\ at = "pass")
  <2>1. CASE pass' = pass
    BY <1>1, <2>1, PassUntouched
  <2>2. CASE at = "pass" /\ pass' = Begun(c, 1)
    <3>b. PICK b : b = Begun(c, 1)
      OBVIOUS
    <3>1. b \in PassType /\ RowsUnmarked(b) /\ b.by = c
      BY <3>b, BegunFacts
    <3> QED BY <1>1, <2>2, <3>b, <3>1 DEF RowsUnmarked
  <2> QED BY <1>2, <2>1, <2>2
<1>4. FlagsHold'
  <2>1. \A k \in Call \ {c} : call'[k] = call[k]
    BY <1>1, <1>2, GotoFacts
  <2>2. \A d \in Doc : Unlinking(d) => Unlinking(d)'
    BY <1>1, <2>1 DEF Unlinking
  <2> QED BY <1>1, <2>2 DEF BacklogInv, FlagsHold, Parted
<1>5. /\ raw' \in [Doc -> Row] /\ astray' \in SUBSET Doc /\ node' \in [Doc -> Text \cup {NoText}]
      /\ indexed' \in SUBSET Doc
  BY <1>1 DEF BacklogInv, BacklogShapes
<1> QED BY <1>1, <1>2, <1>3, <1>4, <1>5, CallGoesOn

\* Sweeper: the step preserves the invariant.
LEMMA SweeperKeeps ==
  ASSUME BacklogInv, SweeperLooks \/ SweeperStarts
  PROVE  BacklogInv'
<1>1. /\ UNCHANGED <<origin, raw, indexed, node, call, astray>>
      /\ sweeping' \in BOOLEAN /\ pass' \in {Begun(Sweeper, 1), pass}
  BY DEF SweeperLooks, SweeperStarts
<1>2. /\ pass' \in PassType /\ RowsUnmarked(pass)'
      /\ pass'.by = pass.by \/ pass'.by \notin Call
  <2>1. CASE pass' = pass
    BY <1>1, <2>1, PassUntouched
  <2>2. CASE pass' = Begun(Sweeper, 1)
    <3>b. PICK b : b = Begun(Sweeper, 1)
      OBVIOUS
    <3>1. b \in PassType /\ RowsUnmarked(b) /\ b.by \notin Call
      BY <3>b, BegunFacts, BacklogAssumption
    <3> QED BY <1>1, <2>2, <3>b, <3>1 DEF RowsUnmarked
  <2> QED BY <1>1, <2>1, <2>2
<1>3. FlagsHold'
  BY <1>1 DEF BacklogInv, FlagsHold, Parted, Unlinking
<1> QED BY <1>1, <1>2, <1>3 DEF BacklogInv, BacklogShapes, LockHeld

\* What the steps of a pass share.
LEMMA PassGoesOn ==
  ASSUME BacklogInv, UNCHANGED <<origin, indexed, call, sweeping>>,
         raw' \in [Doc -> Row], astray' \in SUBSET Doc,
         node' \in [Doc -> Text \cup {NoText}], NEW p \in PassType, pass' = p, p.by = pass.by,
         \A row \in p.rows : ~raw'[row.doc].graph,
         \A row, other \in p.rows : row.doc = other.doc => row = other,
         p.at = "mark" => /\ p.item \in BacklogRow /\ ~raw'[p.item.doc].graph
                          /\ \A row \in p.rows : row.doc # p.item.doc,
         \A d \in Doc : Parted(d)' =>
            d \in astray' \/ raw'[d].body = Blank \/ (Parted(d) /\ d \notin astray /\ raw[d].body # Blank)
  PROVE  BacklogInv'
<1>1. RowsUnmarked(pass)'
  BY DEF RowsUnmarked
<1>2. FlagsHold'
  BY DEF BacklogInv, FlagsHold, Unlinking
<1> QED BY <1>1, <1>2 DEF BacklogInv, BacklogShapes, LockHeld

\* A row of the pass.
LEMMA PassRow ==
  ASSUME BacklogInv, NEW row \in pass.rows
  PROVE  /\ pass \in PassType /\ row \in BacklogRow /\ row.doc \in Doc /\ row.body \in Body
         /\ raw[row.doc] \in Row /\ ~raw[row.doc].graph
         /\ \A other \in pass.rows : /\ other \in BacklogRow /\ other.doc \in Doc
                                     /\ ~raw[other.doc].graph
                                     /\ other.doc = row.doc => other = row
BY DEF BacklogInv, BacklogShapes, PassType, BacklogRow, RowsUnmarked

\* A pass that is done with a row keeps the other rows and its place.
LEMMA WithoutFacts ==
  ASSUME NEW p \in PassType, NEW row
  PROVE  /\ Without(p, row) \in PassType /\ Without(p, row).rows = p.rows \ {row}
         /\ Without(p, row).at = p.at /\ Without(p, row).item = p.item
         /\ Without(p, row).by = p.by
<1> DEFINE x == [p EXCEPT !.rows = @ \ {row}]
<1>1. /\ x \in PassType /\ x.rows = p.rows \ {row} /\ x.at = p.at /\ x.item = p.item /\ x.by = p.by
  BY DEF PassType
<1> QED BY <1>1 DEF Without

\* A pass that met an error has at most the rows it had, or none once the
\* breaker opens.
LEMMA ErroredFacts ==
  ASSUME NEW p \in PassType, NEW row
  PROVE  /\ Errored(p, row) \in PassType /\ Errored(p, row).rows \subseteq p.rows \ {row}
         /\ Errored(p, row).at = "rows" /\ Errored(p, row).by = p.by
<1>x. PICK others, errors, x :
        /\ others = IF p.errors + 1 >= Breaker THEN {} ELSE p.rows \ {row}
        /\ errors = p.errors + 1
        /\ x = [p EXCEPT !.rows = others, !.errors = errors, !.worked = TRUE,
                         !.at = "rows", !.item = NoText]
  OBVIOUS
<1>1. others \in SUBSET BacklogRow /\ others \subseteq p.rows \ {row}
  BY <1>x DEF PassType
<1>2. errors \in Nat
  BY <1>x DEF PassType
<1>3. x = [p EXCEPT !.rows = others, !.errors = errors, !.worked = TRUE, !.at = "rows",
                    !.item = NoText]
  BY <1>x
<1>4. x \in PassType /\ x.rows = others /\ x.at = "rows" /\ x.by = p.by
  BY <1>1, <1>2, <1>3 DEF PassType
<1>5. Errored(p, row) = x
  BY <1>x DEF Errored
<1> QED BY <1>1, <1>4, <1>5

\* SkipBlank: the step preserves the invariant.
LEMMA SkipBlankKeeps ==
  ASSUME BacklogInv, NEW row \in pass.rows, SkipBlank(row)
  PROVE  BacklogInv'
<1>p. PICK d, p : d = row.doc /\ p = Without(pass, row)
  OBVIOUS
<1>1. /\ pass.at = "rows" /\ pass' = p
      /\ \/ /\ raw' = [raw EXCEPT ![d].graph = TRUE]
            /\ astray' = IF raw[d].body # Blank THEN astray \cup {d} ELSE astray
         \/ UNCHANGED <<raw, astray>>
      /\ UNCHANGED <<origin, indexed, node, call, sweeping>>
  BY <1>p DEF SkipBlank
<1>2. p \in PassType /\ p.rows = pass.rows \ {row} /\ p.at = "rows" /\ p.by = pass.by
  BY <1>1, <1>p, PassRow, WithoutFacts
<1>3. /\ d \in Doc /\ ~raw[d].graph /\ raw[d] \in Row
      /\ \A other \in p.rows : other.doc \in Doc /\ other.doc # d /\ ~raw[other.doc].graph
      /\ \A other, another \in p.rows : other.doc = another.doc => other = another
  BY <1>2, <1>p, PassRow
<1>4. CASE UNCHANGED <<raw, astray>>
  <2>1. /\ raw' \in [Doc -> Row] /\ astray' \in SUBSET Doc
        /\ node' \in [Doc -> Text \cup {NoText}]
    BY <1>1, <1>4 DEF BacklogInv, BacklogShapes
  <2>2. \A e \in Doc : Parted(e)' =>
          e \in astray' \/ raw'[e].body = Blank \/ (Parted(e) /\ e \notin astray /\ raw[e].body # Blank)
    BY <1>1, <1>4 DEF Parted
  <2> QED BY <1>1, <1>2, <1>3, <1>4, <2>1, <2>2, PassGoesOn
<1>5. CASE /\ raw' = [raw EXCEPT ![d].graph = TRUE]
           /\ astray' = IF raw[d].body # Blank THEN astray \cup {d} ELSE astray
  <2>x. PICK x : x = [raw[d] EXCEPT !.graph = TRUE]
    OBVIOUS
  <2>1. x \in Row /\ x.graph = TRUE /\ x.body = raw[d].body
    BY <1>3, <2>x DEF Row
  <2>2. \A e \in Doc : raw'[e] = IF e = d THEN x ELSE raw[e]
    BY <1>5, <2>x DEF BacklogInv, BacklogShapes
  <2>3. /\ raw' \in [Doc -> Row] /\ astray' \in SUBSET Doc
        /\ node' \in [Doc -> Text \cup {NoText}]
    BY <1>1, <1>3, <1>5, <2>1, <2>x DEF BacklogInv, BacklogShapes
  <2>4. \A e \in Doc : Parted(e)' =>
          e \in astray' \/ raw'[e].body = Blank \/ (Parted(e) /\ e \notin astray /\ raw[e].body # Blank)
    BY <1>1, <1>5, <2>1, <2>2 DEF Parted
  <2>5. \A other \in p.rows : ~raw'[other.doc].graph
    BY <1>3, <2>2
  <2> QED BY <1>1, <1>2, <1>3, <2>3, <2>4, <2>5, PassGoesOn
<1> QED BY <1>1, <1>4, <1>5

\* WriteNode: the step preserves the invariant.
LEMMA WriteNodeKeeps ==
  ASSUME BacklogInv, NEW row \in pass.rows, WriteNode(row)
  PROVE  BacklogInv'
<1>p. PICK d, q, p : d = row.doc /\ q = Without(pass, row)
                     /\ p = [q EXCEPT !.at = "mark", !.item = row]
  OBVIOUS
<1>1. /\ pass.at = "rows" /\ row.body # Blank /\ pass' = p
      /\ node' = [node EXCEPT ![d] = row.body]
      /\ UNCHANGED <<origin, raw, indexed, call, sweeping, astray>>
  BY <1>p DEF WriteNode
<1>2. q \in PassType /\ q.rows = pass.rows \ {row} /\ q.by = pass.by
  BY <1>p, PassRow, WithoutFacts
<1>3. p \in PassType /\ p.rows = pass.rows \ {row} /\ p.at = "mark" /\ p.item = row
      /\ p.by = pass.by
  BY <1>2, <1>p, PassRow DEF PassType
<1>4. /\ d \in Doc /\ ~raw[d].graph /\ row \in BacklogRow /\ row.body \in Text
      /\ \A other \in p.rows : other.doc \in Doc /\ other.doc # d /\ ~raw[other.doc].graph
      /\ \A other, another \in p.rows : other.doc = another.doc => other = another
  BY <1>1, <1>3, <1>p, PassRow DEF Body
<1>5. /\ raw' \in [Doc -> Row] /\ astray' \in SUBSET Doc
      /\ node' \in [Doc -> Text \cup {NoText}]
  BY <1>1, <1>4 DEF BacklogInv, BacklogShapes
<1>6. \A e \in Doc : Parted(e)' =>
        e \in astray' \/ raw'[e].body = Blank \/ (Parted(e) /\ e \notin astray /\ raw[e].body # Blank)
  BY <1>1, <1>4 DEF Parted, BacklogInv, BacklogShapes
<1>7. /\ \A other \in p.rows : ~raw'[other.doc].graph
      /\ p.item \in BacklogRow /\ ~raw'[p.item.doc].graph
      /\ \A other \in p.rows : other.doc # p.item.doc
  BY <1>1, <1>3, <1>4, <1>p
<1> QED BY <1>1, <1>3, <1>4, <1>5, <1>6, <1>7, PassGoesOn

\* ExtractionFails: the step preserves the invariant.
LEMMA ExtractionFailsKeeps ==
  ASSUME BacklogInv, NEW row \in pass.rows, ExtractionFails(row)
  PROVE  BacklogInv'
<1>p. PICK d, q, p : d = row.doc /\ q = Without(pass, row)
                     /\ p = [q EXCEPT !.errors = 0, !.worked = TRUE]
  OBVIOUS
<1>1. /\ pass.at = "rows" /\ pass' = p
      /\ raw' = [raw EXCEPT ![d].failed = TRUE] \/ raw' = raw
      /\ UNCHANGED <<origin, indexed, node, call, sweeping, astray>>
  BY <1>p DEF ExtractionFails
<1>2. q \in PassType /\ q.rows = pass.rows \ {row} /\ q.at = "rows" /\ q.by = pass.by
  BY <1>1, <1>p, PassRow, WithoutFacts
<1>3. p \in PassType /\ p.rows = pass.rows \ {row} /\ p.at = "rows" /\ p.by = pass.by
  BY <1>2, <1>p DEF PassType
<1>4. /\ d \in Doc /\ raw[d] \in Row
      /\ \A other \in p.rows : other.doc \in Doc /\ ~raw[other.doc].graph
      /\ \A other, another \in p.rows : other.doc = another.doc => other = another
  <2>1. \A other, another \in pass.rows : other.doc = another.doc => other = another
    BY DEF BacklogInv, RowsUnmarked
  <2> QED BY <1>3, <1>p, <2>1, PassRow
<1>5. /\ raw' \in [Doc -> Row]
      /\ \A e \in Doc : raw'[e].graph = raw[e].graph /\ raw'[e].body = raw[e].body
  <2>x. PICK x : x = [raw[d] EXCEPT !.failed = TRUE]
    OBVIOUS
  <2>1. x \in Row /\ x.graph = raw[d].graph /\ x.body = raw[d].body
    BY <1>4, <2>x DEF Row
  <2>2. raw' = raw \/ raw' = [raw EXCEPT ![d] = x]
    BY <1>1, <2>x DEF BacklogInv, BacklogShapes
  <2> QED BY <1>4, <2>1, <2>2 DEF BacklogInv, BacklogShapes
<1>6. astray' \in SUBSET Doc /\ node' \in [Doc -> Text \cup {NoText}]
  BY <1>1 DEF BacklogInv, BacklogShapes
<1>7. \A e \in Doc : Parted(e)' =>
        e \in astray' \/ raw'[e].body = Blank \/ (Parted(e) /\ e \notin astray /\ raw[e].body # Blank)
  BY <1>1, <1>5 DEF Parted
<1>8. \A other \in p.rows : ~raw'[other.doc].graph
  BY <1>4, <1>5
<1> QED BY <1>1, <1>3, <1>4, <1>5, <1>6, <1>7, <1>8, PassGoesOn

\* WriteFails: the step preserves the invariant.
LEMMA WriteFailsKeeps ==
  ASSUME BacklogInv, NEW row \in pass.rows, WriteFails(row)
  PROVE  BacklogInv'
<1>p. PICK p : p = Errored(pass, row)
  OBVIOUS
<1>1. pass' = p /\ UNCHANGED <<origin, raw, indexed, node, call, sweeping, astray>>
  BY <1>p DEF WriteFails
<1>2. p \in PassType /\ p.rows \subseteq pass.rows /\ p.at = "rows" /\ p.by = pass.by
  BY <1>p, PassRow, ErroredFacts
<1>3. /\ \A other \in p.rows : ~raw'[other.doc].graph
      /\ \A other, another \in p.rows : other.doc = another.doc => other = another
  BY <1>1, <1>2 DEF BacklogInv, RowsUnmarked
<1>4. /\ raw' \in [Doc -> Row] /\ astray' \in SUBSET Doc
      /\ node' \in [Doc -> Text \cup {NoText}]
      /\ \A e \in Doc : Parted(e)' =>
           e \in astray' \/ raw'[e].body = Blank \/ (Parted(e) /\ e \notin astray /\ raw[e].body # Blank)
  BY <1>1 DEF BacklogInv, BacklogShapes, Parted
<1> QED BY <1>1, <1>2, <1>3, <1>4, PassGoesOn

\* The pass marks the row whose node it wrote, and says so if they differ by now.
LEMMA MarkGraphKeeps ==
  ASSUME BacklogInv, MarkGraph
  PROVE  BacklogInv'
<1>d. PICK d : d = pass.item.doc
  OBVIOUS
<1>1. pass.at = "mark" /\ UNCHANGED <<origin, indexed, node, call, sweeping>>
  BY DEF MarkGraph
<1>2. /\ pass \in PassType /\ pass.item \in BacklogRow /\ d \in Doc /\ raw[d] \in Row
      /\ \A row \in pass.rows : row.doc \in Doc /\ row.doc # d /\ ~raw[row.doc].graph
      /\ \A row, other \in pass.rows : row.doc = other.doc => row = other
  BY <1>1, <1>d DEF BacklogInv, BacklogShapes, RowsUnmarked, PassType, BacklogRow
<1>3. CASE pass' = Errored(pass, pass.item) /\ UNCHANGED <<raw, astray>>
  <2>p. PICK p : p = Errored(pass, pass.item)
    OBVIOUS
  <2>1. /\ p \in PassType /\ p.rows \subseteq pass.rows /\ p.at = "rows" /\ pass' = p
        /\ p.by = pass.by
    BY <1>2, <1>3, <2>p, ErroredFacts
  <2>2. /\ \A row \in p.rows : ~raw'[row.doc].graph
        /\ \A row, other \in p.rows : row.doc = other.doc => row = other
    BY <1>2, <1>3, <2>1
  <2>3. /\ raw' \in [Doc -> Row] /\ astray' \in SUBSET Doc
        /\ node' \in [Doc -> Text \cup {NoText}]
        /\ \A e \in Doc : Parted(e)' =>
             e \in astray' \/ raw'[e].body = Blank \/ (Parted(e) /\ e \notin astray /\ raw[e].body # Blank)
    BY <1>1, <1>3 DEF BacklogInv, BacklogShapes, Parted
  <2> QED BY <1>1, <2>1, <2>2, <2>3, PassGoesOn
<1>4. CASE /\ raw' = [raw EXCEPT ![d].graph = TRUE]
           /\ pass' = [pass EXCEPT !.at = "rows", !.item = NoText, !.errors = 0, !.worked = TRUE]
           /\ astray' = IF node[d] # raw[d].body THEN astray \cup {d} ELSE astray \ {d}
  <2>p. PICK p, x :
          /\ p = [pass EXCEPT !.at = "rows", !.item = NoText, !.errors = 0, !.worked = TRUE]
          /\ x = [raw[d] EXCEPT !.graph = TRUE]
    OBVIOUS
  <2>1. p \in PassType /\ p.rows = pass.rows /\ p.at = "rows" /\ p.by = pass.by
    BY <1>2, <2>p DEF PassType
  <2>2. x \in Row /\ x.body = raw[d].body
    BY <1>2, <2>p DEF Row
  <2>3. /\ raw' \in [Doc -> Row]
        /\ \A e \in Doc : raw'[e] = IF e = d THEN x ELSE raw[e]
    BY <1>2, <1>4, <2>2, <2>p DEF BacklogInv, BacklogShapes
  <2>4. astray' \in SUBSET Doc /\ node' \in [Doc -> Text \cup {NoText}]
    BY <1>1, <1>2, <1>4 DEF BacklogInv, BacklogShapes
  <2>5. \A e \in Doc : Parted(e)' =>
          e \in astray' \/ raw'[e].body = Blank \/ (Parted(e) /\ e \notin astray /\ raw[e].body # Blank)
    BY <1>1, <1>4, <2>2, <2>3 DEF Parted
  <2>6. \A row \in p.rows : ~raw'[row.doc].graph
    BY <1>2, <2>1, <2>3
  <2> QED BY <1>1, <1>2, <1>4, <2>1, <2>3, <2>4, <2>5, <2>6, <2>p, PassGoesOn
<1> QED BY <1>3, <1>4, <1>d DEF MarkGraph

\* The next round of a pass, and its end.
LEMMA RoundKeeps ==
  ASSUME BacklogInv, NextRound \/ EndPass
  PROVE  BacklogInv'
<1>1. UNCHANGED <<origin, raw, indexed, node, sweeping, astray>>
  BY DEF NextRound, EndPass
<1>2. pass \in PassType
  BY DEF BacklogInv, BacklogShapes
<1>3. CASE NextRound
  <2>b. PICK b : b = Begun(pass.by, pass.round + 1)
    OBVIOUS
  <2>1. pass.by \in Call \cup {NoText, Sweeper} /\ pass.round + 1 \in Nat
    BY <1>2 DEF PassType
  <2>2. b \in PassType /\ RowsUnmarked(b) /\ b.by = pass.by
    BY <2>1, <2>b, BegunFacts
  <2>3. pass' = b /\ call' = call
    BY <1>3, <2>b DEF NextRound
  <2>4. RowsUnmarked(pass)' /\ LockHeld'
    BY <1>1, <2>2, <2>3 DEF BacklogInv, RowsUnmarked, LockHeld
  <2>5. FlagsHold'
    BY <1>1, <2>3 DEF BacklogInv, FlagsHold, Parted, Unlinking
  <2> QED BY <1>1, <2>2, <2>3, <2>4, <2>5 DEF BacklogInv, BacklogShapes
<1>4. CASE EndPass
  <2>1. pass' = Free /\ pass.by # NoText
        /\ IF pass.by = Sweeper THEN UNCHANGED call ELSE Goto(pass.by, "idle")
    BY <1>4 DEF EndPass
  <2>2. RowsUnmarked(pass)' /\ LockHeld' /\ pass' \in PassType
    BY <2>1, FreeFacts DEF RowsUnmarked, LockHeld
  <2>3. /\ call' \in [Call -> CallType]
        /\ \A k \in Call : IF call'[k].at = "idle" THEN call'[k] = Idle ELSE call'[k].doc \in Doc
        /\ \A k \in Call : call[k].at # "pass" => call'[k] = call[k]
    <3>1. CASE pass.by = Sweeper
      BY <2>1, <3>1 DEF BacklogInv, BacklogShapes
    <3>2. CASE pass.by # Sweeper
      <4>c. PICK c : c = pass.by
        OBVIOUS
      <4>1. c \in Call /\ call[c].at = "pass" /\ Goto(c, "idle")
        BY <1>2, <2>1, <3>2, <4>c DEF PassType, BacklogInv, LockHeld
      <4> QED BY <4>1, GotoFacts
    <3> QED BY <3>1, <3>2
  <2>4. FlagsHold'
    <3>1. \A d \in Doc : Unlinking(d) => Unlinking(d)'
      BY <1>1, <2>3 DEF Unlinking
    <3> QED BY <1>1, <3>1 DEF BacklogInv, FlagsHold, Parted
  <2> QED BY <1>1, <2>2, <2>3, <2>4 DEF BacklogInv, BacklogShapes
<1> QED BY <1>3, <1>4

\* An operator's reset clears flags.
LEMMA ResetKeeps ==
  ASSUME BacklogInv, RetryFailed \/ RetryAll
  PROVE  BacklogInv'
<1>1. UNCHANGED <<origin, indexed, node, call, pass, sweeping, astray>>
  BY DEF RetryFailed, RetryAll
<1>2. /\ raw' \in [Doc -> Row]
      /\ \A d \in Doc : /\ raw'[d].graph => raw[d].graph
                        /\ raw'[d].body = raw[d].body
  <2>1. CASE RetryFailed
    <3>1. \A d \in Doc : LET x == [raw[d] EXCEPT !.failed = FALSE]
                         IN  x \in Row /\ x.graph = raw[d].graph /\ x.body = raw[d].body
      BY DEF BacklogInv, BacklogShapes, Row
    <3> QED BY <2>1, <3>1 DEF RetryFailed
  <2>2. CASE RetryAll
    <3>1. \A d \in Doc : LET x == [raw[d] EXCEPT !.graph = FALSE, !.failed = FALSE]
                         IN  x \in Row /\ x.graph = FALSE /\ x.body = raw[d].body
      BY DEF BacklogInv, BacklogShapes, Row
    <3> QED BY <2>2, <3>1 DEF RetryAll
  <2> QED BY <2>1, <2>2
<1>3. pass' \in PassType /\ RowsUnmarked(pass)'
  BY <1>1, <1>2, PassUntouched
<1>4. FlagsHold'
  BY <1>1, <1>2 DEF BacklogInv, FlagsHold, Parted, Unlinking
<1> QED BY <1>1, <1>2, <1>3, <1>4 DEF BacklogInv, BacklogShapes, LockHeld

\* Restart: the step preserves the invariant.
LEMMA RestartKeeps ==
  ASSUME BacklogInv, Restart
  PROVE  BacklogInv'
<1>1. /\ astray' = astray \cup {d \in Doc : Parted(d) /\ \E c \in Call : call[c].doc = d}
      /\ call' = [c \in Call |-> Idle] /\ pass' = Free /\ sweeping' = FALSE
      /\ UNCHANGED <<origin, raw, indexed, node>>
  BY DEF Restart
<1>2. BacklogShapes'
  BY <1>1, IdleFacts, FreeFacts DEF BacklogInv, BacklogShapes
<1>3. RowsUnmarked(pass)' /\ LockHeld'
  BY <1>1, FreeFacts DEF RowsUnmarked, LockHeld
<1>4. FlagsHold'
  <2> SUFFICES ASSUME NEW d \in Doc, Parted(d)' PROVE d \in astray' \/ raw'[d].body = Blank
    BY DEF FlagsHold
  <2>1. Parted(d)
    BY <1>1 DEF Parted
  <2> QED BY <1>1, <2>1 DEF BacklogInv, FlagsHold, Unlinking
<1> QED BY <1>2, <1>3, <1>4 DEF BacklogInv

\* No text is missing from the graph unless its row says so, or what parted the two
\* is on record.
THEOREM BacklogIsSound == BacklogSpec => []BacklogSound
<1>1. BacklogInv /\ [BacklogNext]_backlogVars => BacklogInv'
  <2> SUFFICES ASSUME BacklogInv, BacklogNext PROVE BacklogInv'
    BY BacklogStays
  <2>1. ASSUME NEW c \in Call, Write(c) PROVE BacklogInv'
    BY <2>1, PersistKeeps, PersistFailsKeeps DEF Write
  <2>2. ASSUME NEW c \in Call, CallStep(c) \/ Abandon(c) PROVE BacklogInv'
    BY <2>2, ChunksKeep, DropNodeKeeps, MarkIndexedKeeps, UnmarkKeeps, GraphPhaseKeeps DEF CallStep
  <2>3. ASSUME PassStep \/ PassErr PROVE BacklogInv'
    BY <2>3, SkipBlankKeeps, WriteNodeKeeps, MarkGraphKeeps, RoundKeeps, ExtractionFailsKeeps,
       WriteFailsKeeps DEF PassStep, PassErr
  <2>4. ASSUME SweeperLooks \/ SweeperStarts \/ RetryFailed \/ RetryAll \/ Restart
        PROVE  BacklogInv'
    BY <2>4, SweeperKeeps, ResetKeeps, RestartKeeps
  <2> QED BY <2>1, <2>2, <2>3, <2>4 DEF BacklogNext
<1>2. BacklogInv => BacklogSound
  <2> SUFFICES ASSUME BacklogInv PROVE BacklogSound
    OBVIOUS
  <2>1. BacklogTypeOK
    <3>1. \A c \in Call : \/ call[c] = Idle
                          \/ /\ call[c].doc \in Doc /\ call[c].body \in Body \cup {NoText}
                             /\ call[c].at \in {"drop", "unlink", "add", "mark", "unmark",
                                               "graph", "pass"}
      BY DEF BacklogInv, BacklogShapes, CallType
    <3>2. pass.by \in Call \cup {NoText, Sweeper} /\ pass.rows \subseteq [doc : Doc, body : Body]
      BY DEF BacklogInv, BacklogShapes, PassType, BacklogRow
    <3> QED BY <3>1, <3>2 DEF BacklogInv, BacklogShapes, BacklogTypeOK
  <2>2. GraphKept
    <3>1. \A d \in Doc : Unlinking(d) => \E c \in Call : call[c].doc = d /\ call[c].at # "idle"
      BY DEF Unlinking
    <3> QED BY <3>1 DEF BacklogInv, FlagsHold, GraphKept
  <2> QED BY <2>1, <2>2 DEF BacklogSound
<1> QED BY <1>1, <1>2, BacklogInitially, PTL DEF BacklogSpec

=============================================================================
