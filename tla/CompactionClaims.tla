-------------------------- MODULE CompactionClaims --------------------------
(***************************************************************************)
(* Compaction of the conversation events of one session:                   *)
(* storage/conversation_postgres.py and memory/compaction.py.              *)
(*                                                                         *)
(* A request (CompactionController.compact) claims a batch of uncompacted  *)
(* events, saves the memories extracted from it, and in one transaction    *)
(* writes a ledger, marks the events and drops its claim.  The claim row   *)
(* is unique per session and carries a lease of ten minutes, after which   *)
(* the next request deletes it.  Requests run in several API processes.    *)
(*                                                                         *)
(* One action is one transaction or one call to a store, with the local    *)
(* code after it.  A session shares rows with no other.  An element of     *)
(* Attempt is a place for a request, used again once it is over and its    *)
(* claim row is gone; so it stands for the claim's fresh uuid too.         *)
(***************************************************************************)
EXTENDS Naturals, FiniteSets

CONSTANTS
  Event,      \* events of the session, numbered by created_at
  Candidate,  \* events from which a memory is extracted and accepted
  Attempt,    \* requests that can be under way at once
  None,
  MaxEvents,  \* conversation_compaction_max_events
  \* Bounds of the environment, in the guards of its steps.
  MaxFaults,  \* calls that raise
  MaxLapses,  \* leases that run out while their request is at work
  MaxStops    \* requests that are killed or cancelled

ASSUME CompactionAssumption ==
  /\ Event \subseteq Nat /\ Candidate \subseteq Event
  /\ None \notin Attempt \cup Event
  /\ MaxEvents \in Nat \ {0}
  /\ MaxFaults \in Nat /\ MaxLapses \in Nat /\ MaxStops \in Nat

VARIABLES
  \* PostgreSQL
  rows,     \* conversation_events: the state of each row
  claim,    \* conversation_compaction_claims: the id of the row, or None
  lapsed,   \* expires_at of that row is over
  ledgers,  \* session_ledgers: generation -> source events
  copies,   \* memory_records: how many rows have the content of each event
  \* the memory of each request
  pc,       \* the call it is at, "new" when there is no request
  batch,    \* claim.events
  gen,      \* the generation it will write
  left,     \* accepted candidates not saved yet
  item,     \* the candidate between get_by_hash and the INSERT
  \* history, read by the properties only
  overrun,  \* a lease ran out while its request was at work
  \* the environment's budgets
  faults, lapses, stops

claimVars == <<claim, lapsed>>
localVars == <<pc, batch, gen, left, item>>
budgets   == <<faults, lapses, stops>>
vars == <<rows, claimVars, ledgers, copies, localVars, overrun, budgets>>

RowState == {"none", "open", "compacted", "deleted"}
Phase == {"new", "ledger", "check", "insert", "finalize", "release"}

Open == {e \in Event : rows[e] = "open"}
Working(a) == pc[a] \in {"ledger", "check", "insert", "finalize"}

\* ORDER BY created_at ... LIMIT max_events.
Oldest(S) == {e \in S : Cardinality({d \in S : d < e}) < MaxEvents}

GoTo(a, phase) == pc' = [pc EXCEPT ![a] = phase]

\* A call raises.
Fault == faults < MaxFaults /\ faults' = faults + 1 /\ UNCHANGED <<lapses, stops>>

\* The request returns, raises or dies; what it remembers is gone.
RequestOver(a) ==
  /\ GoTo(a, "new")
  /\ batch' = [batch EXCEPT ![a] = {}]
  /\ gen' = [gen EXCEPT ![a] = 0]
  /\ left' = [left EXCEPT ![a] = {}]
  /\ item' = [item EXCEPT ![a] = None]

\* compact's except branch.
GoRelease(a) == GoTo(a, "release") /\ UNCHANGED <<batch, gen, left, item>>

Init ==
  /\ rows = [e \in Event |-> "none"]
  /\ claim = None /\ lapsed = FALSE
  /\ ledgers = [g \in {} |-> {}]
  /\ copies = [e \in Event |-> 0]
  /\ pc = [a \in Attempt |-> "new"]
  /\ batch = [a \in Attempt |-> {}]
  /\ gen = [a \in Attempt |-> 0]
  /\ left = [a \in Attempt |-> {}]
  /\ item = [a \in Attempt |-> None]
  /\ overrun = FALSE
  /\ faults = 0 /\ lapses = 0 /\ stops = 0

\* append_event, from the background capture of a finished exchange.  Its ids
\* are fresh; captures may arrive in another order than created_at.
AppendEvent(e) ==
  /\ rows[e] = "none"
  /\ rows' = [rows EXCEPT ![e] = "open"]
  /\ UNCHANGED <<claimVars, ledgers, copies, localVars, overrun, budgets>>

-----------------------------------------------------------------------------
(* claim_uncompacted_batch.                                                *)

\* The INSERT of the claim meets no row of the session: there is none, or the
\* DELETE before it took one whose lease is over.
\* Mutants: ON CONFLICT that takes the row over; no DELETE of lapsed rows.
TakeOver == TRUE
NeverReclaim == claim = None
ClaimFree == claim = None \/ lapsed

\* The rows the SELECT returns: the oldest ones that no other transaction has
\* locked (SKIP LOCKED).
Selected(busy) == Oldest(Open \ busy)

\* A batch is claimed.  When the reply to the COMMIT is lost the row is there
\* and the request is over.
ClaimBatch(a, busy) ==
  /\ pc[a] = "new" /\ claim # a
  /\ Selected(busy) # {} /\ ClaimFree
  /\ claim' = a /\ lapsed' = FALSE
  /\ \/ /\ GoTo(a, "ledger")
        /\ batch' = [batch EXCEPT ![a] = Selected(busy)]
        /\ UNCHANGED <<gen, left, item, budgets>>
     \/ Fault /\ UNCHANGED localVars
  /\ UNCHANGED <<rows, ledgers, copies, overrun>>

\* Nothing to compact: the DELETE of lapsed claims is committed all the same.
\* (A request that finds a claim in force, or nothing to delete either, leaves
\* no trace.)
ClaimNothing(a, busy) ==
  /\ pc[a] = "new" /\ claim # a
  /\ Selected(busy) = {} /\ lapsed
  /\ claim' = None /\ lapsed' = FALSE
  /\ UNCHANGED <<rows, ledgers, copies, localVars, overrun, budgets>>

-----------------------------------------------------------------------------
(* _compact_claim.                                                         *)

\* The candidates evaluate_candidate accepts.  Mutant: the verdict is ignored.
Unfiltered(S) == S
Accepted(S) == S \cap Candidate

AfterSaves(S) == IF S = {} THEN "finalize" ELSE "check"

\* The extractor, then get_ledger: the latest generation, if there is one.
ReadLedger(a) ==
  /\ pc[a] = "ledger"
  /\ \/ /\ \/ DOMAIN ledgers = {} /\ gen' = [gen EXCEPT ![a] = 0]
           \/ \E g \in DOMAIN ledgers :
                /\ \A h \in DOMAIN ledgers : h <= g
                /\ gen' = [gen EXCEPT ![a] = g + 1]
        /\ left' = [left EXCEPT ![a] = Accepted(batch[a])]
        /\ GoTo(a, AfterSaves(Accepted(batch[a])))
        /\ UNCHANGED <<batch, item, budgets>>
     \/ Fault /\ GoRelease(a)
  /\ UNCHANGED <<rows, claimVars, ledgers, copies, overrun>>

Saved(a, e) ==
  /\ left' = [left EXCEPT ![a] = @ \ {e}]
  /\ GoTo(a, AfterSaves(left[a] \ {e}))

\* MemoryService.save asks for a record with the same content first.
CheckMemory(a, e) ==
  /\ pc[a] = "check" /\ e \in left[a]
  /\ \/ copies[e] > 0 /\ Saved(a, e) /\ UNCHANGED <<batch, gen, item, budgets>>
     \/ /\ copies[e] = 0
        /\ item' = [item EXCEPT ![a] = e]
        /\ GoTo(a, "insert")
        /\ UNCHANGED <<batch, gen, left, budgets>>
     \/ Fault /\ GoRelease(a)
  /\ UNCHANGED <<rows, claimVars, ledgers, copies, overrun>>

\* The INSERT, whose id is fresh, then the other stores: when one of those
\* raises the row is there all the same.
InsertMemory(a) ==
  LET inserted == [copies EXCEPT ![item[a]] = @ + 1]
  IN /\ pc[a] = "insert"
     /\ \/ /\ copies' = inserted
           /\ Saved(a, item[a])
           /\ item' = [item EXCEPT ![a] = None]
           /\ UNCHANGED <<batch, gen, budgets>>
        \/ Fault /\ GoRelease(a) /\ copies' \in {copies, inserted}
     /\ UNCHANGED <<rows, claimVars, ledgers, overrun>>

-----------------------------------------------------------------------------
(* finalize_claim and release_claim.                                       *)

\* Every event of the batch was still there and uncompacted.  Mutant: the count
\* of acknowledged rows is not compared.
AnyMarked(a) == TRUE
AllMarked(a) == batch[a] \subseteq Open

\* The claim row is there, the generation is new, and all rows were updated;
\* otherwise the transaction raises and is rolled back.
CanFinalize(a) == claim = a /\ gen[a] \notin DOMAIN ledgers /\ AllMarked(a)

\* Mutant: the UPDATE that marks the events is left out.
KeepOpen(S) == rows
Marked(S) ==
  [e \in Event |-> IF e \in S /\ rows[e] = "open" THEN "compacted" ELSE rows[e]]

Committed(a) ==
  /\ ledgers' = [g \in DOMAIN ledgers \cup {gen[a]} |->
                   IF g = gen[a] THEN batch[a] ELSE ledgers[g]]
  /\ rows' = Marked(batch[a])
  /\ claim' = None /\ lapsed' = FALSE

FinalizeClaim(a) ==
  /\ pc[a] = "finalize"
  /\ \/ CanFinalize(a) /\ Committed(a) /\ RequestOver(a) /\ UNCHANGED budgets
     \/ ~CanFinalize(a) /\ GoRelease(a) /\ UNCHANGED <<rows, claimVars, ledgers, budgets>>
     \/ /\ Fault /\ GoRelease(a)
        /\ \/ UNCHANGED <<rows, claimVars, ledgers>>
           \/ CanFinalize(a) /\ Committed(a)
  /\ UNCHANGED <<copies, overrun>>

\* release_claim deletes by claim id.  Mutant: by session only.
AnyClaim(a) == TRUE
OwnClaim(a) == claim = a

ReleaseClaim(a) ==
  /\ pc[a] = "release"
  /\ \/ OwnClaim(a) /\ claim' = None /\ lapsed' = FALSE /\ (UNCHANGED budgets \/ Fault)
     \/ ~OwnClaim(a) /\ UNCHANGED claimVars /\ UNCHANGED budgets
     \/ Fault /\ UNCHANGED claimVars
  /\ RequestOver(a)
  /\ UNCHANGED <<rows, ledgers, copies, overrun>>

-----------------------------------------------------------------------------
(* The environment.                                                        *)

\* The process dies or the request is cancelled (no Exception): no release.
Stop(a) ==
  /\ pc[a] # "new" /\ stops < MaxStops
  /\ stops' = stops + 1
  /\ RequestOver(a)
  /\ UNCHANGED <<rows, claimVars, ledgers, copies, overrun, faults, lapses>>

\* Ten minutes are over.
LeaseEnds ==
  /\ claim # None /\ ~lapsed
  /\ lapsed' = TRUE
  /\ \/ Working(claim) /\ overrun' = TRUE /\ lapses < MaxLapses /\ lapses' = lapses + 1
     \/ ~Working(claim) /\ UNCHANGED <<overrun, lapses>>
  /\ UNCHANGED <<rows, claim, ledgers, copies, localVars, faults, stops>>

\* expire_events: expires_at is created_at plus a constant, so the rows up to
\* some created_at go, claimed or not.
ExpireEvents(n) ==
  /\ rows' = [e \in Event |-> IF e <= n /\ rows[e] \in {"open", "compacted"}
                              THEN "deleted" ELSE rows[e]]
  /\ UNCHANGED <<claimVars, ledgers, copies, localVars, overrun, budgets>>

-----------------------------------------------------------------------------
Claiming(a) == \E busy \in SUBSET Open : ClaimBatch(a, busy) \/ ClaimNothing(a, busy)

Compact(a) ==
  \/ ReadLedger(a)
  \/ \E e \in Event : CheckMemory(a, e)
  \/ InsertMemory(a)
  \/ FinalizeClaim(a)
  \/ ReleaseClaim(a)

Next ==
  \/ \E e \in Event : AppendEvent(e) \/ ExpireEvents(e)
  \/ \E a \in Attempt : Claiming(a) \/ Compact(a) \/ Stop(a)
  \/ LeaseEnds

Spec == Init /\ [][Next]_vars

-----------------------------------------------------------------------------
(* Safety.                                                                 *)

\* Every variable of the model has its type.
TypeOK ==
  /\ rows \in [Event -> RowState]
  /\ claim \in Attempt \cup {None} /\ lapsed \in BOOLEAN
  /\ DOMAIN ledgers \subseteq Nat
  /\ ledgers \in [DOMAIN ledgers -> SUBSET Event]
  /\ copies \in [Event -> Nat]
  /\ pc \in [Attempt -> Phase]
  /\ batch \in [Attempt -> SUBSET Event]
  /\ gen \in [Attempt -> Nat]
  /\ left \in [Attempt -> SUBSET Candidate]
  /\ item \in [Attempt -> Candidate \cup {None}]
  /\ overrun \in BOOLEAN
  /\ faults \in 0..MaxFaults /\ lapses \in 0..MaxLapses /\ stops \in 0..MaxStops

\* The check for a duplicate and the INSERT of a memory are separate calls: it
\* is the claim that keeps two requests from saving the same content twice,
\* retries included, as long as no lease runs out under a request at work.
OneMemoryPerContent == ~overrun => \A e \in Event : copies[e] <= 1

\* An event that is marked was summarised in a ledger, one that is still open
\* in none, and no event in two.
AcknowledgedOnce ==
  /\ \A e \in Event : rows[e] = "compacted" => \E g \in DOMAIN ledgers : e \in ledgers[g]
  /\ \A g \in DOMAIN ledgers : ledgers[g] \cap Open = {}
  /\ \A g, h \in DOMAIN ledgers : g # h => ledgers[g] \cap ledgers[h] = {}

\* A request that is late or failing never drops the claim of another: before
\* its lease is over, a claim goes away only by a step of its own request.
ClaimKept ==
  [][\A a \in Attempt :
       claim = a /\ claim' # a /\ ~lapsed
         => pc[a] \in {"finalize", "release"} /\ pc'[a] # pc[a]]_vars

\* Compaction implements the contract: generations without gaps, each event in
\* one of them at most, and no acknowledgement of an event that is gone.
Captured == {e \in Event : rows[e] # "none"}
Generations == [i \in {g + 1 : g \in DOMAIN ledgers} |-> ledgers[i - 1]]
Contract == INSTANCE LedgerContract
              WITH seen <- Captured, open <- Open, ledgers <- Generations
ImplementsContract == Contract!Spec

\* claim_uncompacted_batch says that it reclaims only abandoned claims.
OnlyAbandonedReclaimed ==
  [][\A a \in Attempt : claim = a /\ claim' \notin {a, None} => ~Working(a)]_vars

-----------------------------------------------------------------------------
(* Liveness, as long as requests for the session keep coming and each call *)
(* answers or raises.  A request always gets to claim in the end, since    *)
(* row locks are held for one transaction only.                            *)
LiveSpec ==
  /\ Spec
  /\ \A a \in Attempt : WF_vars(Compact(a))
  /\ \A a \in Attempt : WF_vars(Claiming(a) /\ claim' = a)
  /\ WF_vars(LeaseEnds /\ UNCHANGED lapses)

\* No crash, lost reply, failed release or expiry blocks the session for good:
\* every captured event is acknowledged or expires.
EventuallyCompacted == \A e \in Event : rows[e] = "open" ~> rows[e] # "open"
=============================================================================
