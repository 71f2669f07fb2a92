--------------------------- MODULE PendingActions ---------------------------
(***************************************************************************)
(* Write actions that wait for the user's word.  A message that asks for   *)
(* an action is planned and left pending; the next "yes" executes the      *)
(* user's most recent pending action and then removes it, the next "no"    *)
(* removes it.  Messages are handled in threads of their own, and the      *)
(* store has no lock: an action found by one thread can be executed or     *)
(* removed by another before the first is done with it.                    *)
(***************************************************************************)
EXTENDS Naturals, FiniteSets

CONSTANTS
  User,
  Action,
  Message,     \* threads, one per message being handled
  NoAction,
  MaxMessages, \* bound
  MaxExpiries  \* bound: actions that outlive their time

ASSUME PendingAssumption ==
  NoAction \notin Action \cup User /\ MaxMessages \in Nat /\ MaxExpiries \in Nat

VARIABLES
  pending,   \* the keys of ActionStore._pending
  place,     \* when each was inserted: dictionaries keep that order
  owner,     \* PendingAction.user_id, NoAction while there is none
  expired,   \* actions older than their ttl_seconds
  message,   \* [Message -> its step, user and action]
  executed,  \* ghost: [Action -> times executed]
  declined,  \* ghost: actions the user was told are cancelled
  contested, \* ghost: actions that two messages held at once
  sent       \* what is left of the bounds

actionVars == <<pending, place, owner, expired, message, executed, declined, contested, sent>>

Silent == [at |-> "silent", user |-> NoAction, action |-> NoAction]

Fresh(a) == a \notin expired

\* _cleanup_expired, run by add and get_for_user.
Unexpired == {a \in pending : Fresh(a)}

\* get_for_user: the last one added that has not expired.
Latest(u, a) ==
  LET mine == {b \in Unexpired : owner[b] = u}
  IN  a \in mine /\ \A b \in mine : place[b] <= place[a]

Held(a) == \E t \in Message : message[t].action = a

Send == sent.messages > 0 /\ sent' = [sent EXCEPT !.messages = @ - 1]

-----------------------------------------------------------------------------
\* _handle_action: a plan comes back and is added (planning is one call of a
\* language model; nothing is shared before add).
Plan(u, a) ==
  /\ owner[a] = NoAction /\ Send
  /\ owner' = [owner EXCEPT ![a] = u]
  /\ pending' = Unexpired \cup {a}
  /\ place' = [place EXCEPT ![a] = 1 + Cardinality({b \in Action : owner[b] # NoAction})]
  /\ UNCHANGED <<expired, message, executed, declined, contested>>

\* _check_confirmation finds the action; any other text goes on to be routed.
Answer(t, u, a, word) ==
  /\ message[t] = Silent /\ Latest(u, a) /\ Send
  /\ pending' = Unexpired
  /\ message' = [message EXCEPT ![t] = [at |-> word, user |-> u, action |-> a]]
  /\ contested' = IF Held(a) THEN contested \cup {a} ELSE contested
  /\ UNCHANGED <<place, owner, expired, executed, declined>>

\* ActionExecutor.execute; it may refuse or fail, and the answer is a "yes"
\* all the same.
Execute(t) ==
  LET a == message[t].action
  IN  /\ message[t].at = "yes"
      /\ message' = [message EXCEPT ![t].at = "drop"]
      /\ executed' = [executed EXCEPT ![a] = IF @ < 2 THEN @ + 1 ELSE @]
      /\ UNCHANGED <<pending, place, owner, expired, declined, contested, sent>>

ExecuteFails(t) ==
  /\ message[t].at = "yes"
  /\ message' = [message EXCEPT ![t].at = "drop"]
  /\ UNCHANGED <<pending, place, owner, expired, executed, declined, contested, sent>>

\* The evaluator or the registry raises before the call: the exception leaves
\* _check_confirmation ahead of the removal, and the action stays pending.
ExecuteRaises(t) ==
  /\ message[t].at = "yes"
  /\ message' = [message EXCEPT ![t] = Silent]
  /\ UNCHANGED <<pending, place, owner, expired, executed, declined, contested, sent>>

\* The action left in the store (a mutant).
KeepIn(s, a) == s

RemoveFrom(s, a) == s \ {a}

Settle(t) ==
  LET a == message[t].action
  IN  /\ message[t].at \in {"drop", "no"}
      /\ pending' = RemoveFrom(pending, a)
      /\ declined' = IF message[t].at = "no" THEN declined \cup {a} ELSE declined
      /\ message' = [message EXCEPT ![t] = Silent]
      /\ UNCHANGED <<place, owner, expired, executed, contested, sent>>

\* ttl_seconds go by.
Lapse(a) ==
  /\ owner[a] # NoAction /\ Fresh(a) /\ sent.expiries > 0
  /\ expired' = expired \cup {a}
  /\ sent' = [sent EXCEPT !.expiries = @ - 1]
  /\ UNCHANGED <<pending, place, owner, message, executed, declined, contested>>

\* The store lives in the process.
ProcessRestarts ==
  /\ sent.expiries > 0 /\ sent' = [sent EXCEPT !.expiries = @ - 1]
  /\ pending' = {}
  /\ message' = [t \in Message |-> Silent]
  /\ UNCHANGED <<place, owner, expired, executed, declined, contested>>

-----------------------------------------------------------------------------
ActionInitWith(messages, expiries) ==
  /\ pending = {} /\ place = [a \in Action |-> 0]
  /\ owner = [a \in Action |-> NoAction] /\ expired = {}
  /\ message = [t \in Message |-> Silent]
  /\ executed = [a \in Action |-> 0] /\ declined = {} /\ contested = {}
  /\ sent = [messages |-> messages, expiries |-> expiries]

ActionInit == ActionInitWith(MaxMessages, MaxExpiries)

ActionNext ==
  \/ \E u \in User, a \in Action : Plan(u, a)
  \/ \E t \in Message, u \in User, a \in Action, word \in {"yes", "no"} : Answer(t, u, a, word)
  \/ \E t \in Message : Execute(t) \/ ExecuteFails(t) \/ ExecuteRaises(t) \/ Settle(t)
  \/ \E a \in Action : Lapse(a)
  \/ ProcessRestarts

ActionSpec == ActionInit /\ [][ActionNext]_actionVars

(***************************************************************************)
(* Properties.                                                             *)
(***************************************************************************)

\* One "yes" executes one action once, and never one the user was told is
\* cancelled, unless two messages were answered at once: the store gives the
\* same action to both.
ConfirmedOnce ==
  \A a \in Action \ contested : executed[a] <= 1 /\ (a \in declined => executed[a] = 0)
=============================================================================
