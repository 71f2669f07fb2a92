--------------------------- MODULE PlatformUsers ---------------------------
(***************************************************************************)
(* The users of messages that come in through Telegram, Slack and Discord: *)
(* PlatformUserMapper looks a person up in its cache and in                *)
(* user_platform_mappings, and makes an account and a mapping at the first *)
(* message, while other messages of the same person do the same and an     *)
(* administrator changes mappings and removes users.                       *)
(***************************************************************************)
EXTENDS Naturals, FiniteSets

CONSTANTS
  Person,       \* (channel, channel_user_id, workspace_id)
  Visit,        \* messages being handled
  NoUser,
  MaxVisits,    \* bound: messages
  MaxEdits      \* bound: steps of the administrator, failures

ASSUME PlatformAssumption ==
  NoUser \notin Nat \cup Person /\ MaxVisits \in Nat /\ MaxEdits \in Nat

VARIABLES
  accounts,   \* users: [id, email]; an id is a number, NoUser the email of user 0
  mapped,     \* user_platform_mappings: [Person -> id or NoUser]
  remembered,      \* _cache: [Person -> id or NoUser]
  visit,      \* [Visit -> the call of map_platform_user]
  popping,    \* persons whose mapping has changed and is still in the cache
  lastUser,   \* ids given out
  \* ghosts
  overtaken,  \* the cache, or a call about to write it, has a user read before a change
  halfMade,   \* an account was made and its mapping was not, or was removed since
  platformLeft

platformVars ==
  <<accounts, mapped, remembered, visit, popping, lastUser, overtaken, halfMade, platformLeft>>

\* beaten: ghost, another first message of the person made the account first.
NoVisit == [at |-> "idle", person |-> NoUser, user |-> NoUser, beaten |-> FALSE]

SpendVisit == platformLeft.visits > 0 /\ platformLeft' = [platformLeft EXCEPT !.visits = @ - 1]
SpendEdit  == platformLeft.edits > 0 /\ platformLeft' = [platformLeft EXCEPT !.edits = @ - 1]

Alive(u) == \E a \in accounts : a.id = u

\* Calls that have read the mapping of p or its user and not used it yet.
Reading(p) == \E v \in Visit : visit[v].person = p /\ visit[v].at \in {"found", "winner"}

Answered(v, u) == visit' = [visit EXCEPT ![v].at = "answered", ![v].user = u]

\* A cache entry younger than the TTL answers.
AnswerCached(v, p) ==
  /\ visit[v].at = "idle" /\ SpendVisit /\ remembered[p] # NoUser
  /\ visit' = [visit EXCEPT ![v] = [NoVisit EXCEPT !.at = "answered", !.person = p,
                                                   !.user = remembered[p]]]
  /\ UNCHANGED <<accounts, mapped, remembered, popping, lastUser, overtaken, halfMade>>

SelectMapping(v, p) ==
  /\ visit[v].at = "idle" /\ SpendVisit /\ remembered[p] = NoUser
  /\ visit' = [visit EXCEPT ![v] =
       [NoVisit EXCEPT !.person = p, !.user = mapped[p],
                       !.at = IF mapped[p] = NoUser THEN "missing" ELSE "found"]]
  /\ UNCHANGED <<accounts, mapped, remembered, popping, lastUser, overtaken, halfMade>>

\* get_user_by_id: a mapping to a user that is gone counts as no mapping.
SelectUser(v) ==
  /\ visit[v].at = "found"
  /\ IF Alive(visit[v].user)
       THEN /\ Answered(v, visit[v].user)
            /\ remembered' = [remembered EXCEPT ![visit[v].person] = visit[v].user]
       ELSE /\ visit' = [visit EXCEPT ![v].at = "missing", ![v].user = NoUser]
            /\ UNCHANGED remembered
  /\ UNCHANGED <<accounts, mapped, popping, lastUser, overtaken, halfMade, platformLeft>>

\* The channel user without its workspace (a mutant).
SharedEmail(p) == CHOOSE q \in Person : TRUE

\* synthetic_email
SyntheticEmail(p) == p

\* create_user: email is unique, and a second account raises.
CreateUser(v) ==
  LET p == visit[v].person IN
  /\ visit[v].at = "missing"
  /\ IF \E a \in accounts : a.email = SyntheticEmail(p)
       THEN /\ visit' = [visit EXCEPT
                 ![v].at = "failed",
                 ![v].beaten = @ \/ \E w \in Visit : visit[w].at = "made" /\ visit[w].person = p]
            /\ UNCHANGED <<accounts, lastUser>>
       ELSE /\ lastUser' = lastUser + 1
            /\ accounts' = accounts \cup {[id |-> lastUser', email |-> SyntheticEmail(p)]}
            /\ visit' = [visit EXCEPT ![v].at = "made", ![v].user = lastUser']
  /\ UNCHANGED <<mapped, remembered, popping, overtaken, halfMade, platformLeft>>

\* INSERT .. ON CONFLICT DO NOTHING; if a mapping is there, its user is read.
InsertMapping(v) ==
  LET p == visit[v].person IN
  /\ visit[v].at = "made"
  /\ IF mapped[p] = NoUser
       THEN /\ mapped' = [mapped EXCEPT ![p] = visit[v].user]
            /\ visit' = [w \in Visit |->
                 IF w = v THEN [visit[v] EXCEPT !.at = "mapped"]
                 ELSE [visit[w] EXCEPT !.beaten = @ \/ (visit[w].at = "missing"
                                                        /\ visit[w].person = p)]]
       ELSE visit' = [visit EXCEPT ![v].at = "winner"] /\ UNCHANGED mapped
  /\ UNCHANGED <<accounts, remembered, popping, lastUser, overtaken, halfMade, platformLeft>>

\* The winner's user answers if it is alive; the call's own does otherwise, and
\* the mapping stays with the one that is gone.  The SELECT of the mapping and the
\* get_user_by_id after it are one step: overtaken has the calls they would tell apart.
AnswerFirst(v) ==
  LET p == visit[v].person
      u == IF visit[v].at = "winner" /\ Alive(mapped[p]) THEN mapped[p] ELSE visit[v].user
  IN
  /\ visit[v].at \in {"mapped", "winner"}
  /\ Answered(v, u)
  /\ remembered' = [remembered EXCEPT ![p] = u]
  /\ overtaken' = IF u = mapped[p] THEN overtaken ELSE overtaken \cup {p}
  /\ UNCHANGED <<accounts, mapped, popping, lastUser, halfMade, platformLeft>>

VisitEnds(v) ==
  /\ visit[v].at \in {"answered", "failed"}
  /\ visit' = [visit EXCEPT ![v] = NoVisit]
  /\ UNCHANGED <<accounts, mapped, remembered, popping, lastUser, overtaken, halfMade, platformLeft>>

\* The database fails, or the process stops, between the account and its mapping.
VisitBreaks(v) ==
  /\ visit[v].at = "made" /\ SpendEdit
  /\ visit' = [visit EXCEPT ![v] = NoVisit]
  /\ halfMade' = halfMade \cup {visit[v].person}
  /\ UNCHANGED <<accounts, mapped, remembered, popping, lastUser, overtaken>>

\* An entry is 30 s old.
EntryExpires(p) ==
  /\ remembered[p] # NoUser
  /\ remembered' = [remembered EXCEPT ![p] = NoUser]
  /\ overtaken' = IF Reading(p) THEN overtaken ELSE overtaken \ {p}
  /\ UNCHANGED <<accounts, mapped, visit, popping, lastUser, halfMade, platformLeft>>

\* update_mapping to another user, or delete_mapping, commits ...
ChangeMapping(p, u) ==
  /\ mapped[p] # NoUser /\ u # mapped[p] /\ p \notin popping /\ SpendEdit
  /\ mapped' = [mapped EXCEPT ![p] = u]
  /\ popping' = popping \cup {p}
  /\ overtaken' = IF Reading(p) \/ \E v \in Visit : visit[v].person = p /\ visit[v].at = "mapped"
                    THEN overtaken \cup {p} ELSE overtaken
  /\ halfMade' = halfMade \cup {p}
  /\ UNCHANGED <<accounts, remembered, visit, lastUser>>

\* The entry left as it is (a mutant).
EntryKept(p) == remembered

EntryPopped(p) == [remembered EXCEPT ![p] = NoUser]

\* ... and then the cache forgets it.
PopEntry(p) ==
  /\ p \in popping
  /\ popping' = popping \ {p}
  /\ remembered' = EntryPopped(p)
  /\ UNCHANGED <<accounts, mapped, visit, lastUser, overtaken, halfMade, platformLeft>>

\* delete_user: mappings to it stay.
DeleteUser(a) ==
  /\ a.id # 0 /\ SpendEdit
  /\ accounts' = accounts \ {a}
  /\ halfMade' = halfMade \cup {p \in Person : mapped[p] = a.id \/ a.email = p}
  /\ UNCHANGED <<mapped, remembered, visit, popping, lastUser, overtaken>>

PlatformInit ==
  /\ accounts = {[id |-> 0, email |-> NoUser]} /\ lastUser = 0
  /\ mapped = [p \in Person |-> NoUser] /\ remembered = [p \in Person |-> NoUser]
  /\ visit = [v \in Visit |-> NoVisit]
  /\ popping = {} /\ overtaken = {} /\ halfMade = {}
  /\ platformLeft = [visits |-> MaxVisits, edits |-> MaxEdits]

PlatformNext ==
  \/ \E v \in Visit :
       \/ \E p \in Person : AnswerCached(v, p) \/ SelectMapping(v, p)
       \/ SelectUser(v) \/ CreateUser(v) \/ InsertMapping(v) \/ AnswerFirst(v)
       \/ VisitEnds(v) \/ VisitBreaks(v)
  \/ \E p \in Person :
       \/ EntryExpires(p) \/ PopEntry(p)
       \/ \E u \in {0, NoUser} : ChangeMapping(p, u)
  \/ \E a \in accounts : DeleteUser(a)

PlatformSpec == PlatformInit /\ [][PlatformNext]_platformVars

(***************************************************************************)
(* Properties.                                                             *)
(***************************************************************************)

\* The cache has the user of the mapping; it may be an older one only from an
\* administrator's commit to the removal of the entry, or after a call had read
\* it before the commit, or when the mapping's user is gone.
CacheFollowsMapping ==
  \A p \in Person :
     remembered[p] \in {NoUser, mapped[p]} \/ p \in popping \cup overtaken

\* A message fails only if another first message of the same person made the
\* account meanwhile, or the account was once left without its mapping.
FailuresExplained ==
  \A v \in Visit : visit[v].at = "failed" =>
     visit[v].beaten \/ visit[v].person \in halfMade

\* What the channels may rely on.
PlatformHonest == CacheFollowsMapping /\ FailuresExplained
=============================================================================
