--------------------------- MODULE LedgerContract ---------------------------
(***************************************************************************)
(* What compaction promises about the events of one session, without       *)
(* claims, leases or concurrent requests: each event ends in one ledger at *)
(* most, a ledger never covers an event that is gone, and the ledgers of   *)
(* the session are numbered without gaps.                                  *)
(***************************************************************************)
EXTENDS Sequences

CONSTANT Event

VARIABLES
  seen,    \* events ever captured
  open,    \* captured, neither acknowledged nor expired
  ledgers  \* the batch of each generation, in order

vars == <<seen, open, ledgers>>

Init == seen = {} /\ open = {} /\ ledgers = <<>>

Capture(e) ==
  /\ e \notin seen
  /\ seen' = seen \cup {e}
  /\ open' = open \cup {e}
  /\ UNCHANGED ledgers

\* One batch is summarised in the next generation, and acknowledged with it.
Acknowledge(S) ==
  /\ S # {} /\ S \subseteq open
  /\ open' = open \ S
  /\ ledgers' = Append(ledgers, S)
  /\ UNCHANGED seen

\* Events whose retention is over are dropped without a ledger.
Drop(S) ==
  /\ open' = open \ S
  /\ UNCHANGED <<seen, ledgers>>

Next ==
  \/ \E e \in Event : Capture(e)
  \/ \E S \in SUBSET Event : Acknowledge(S) \/ Drop(S)

Spec == Init /\ [][Next]_vars
=============================================================================
