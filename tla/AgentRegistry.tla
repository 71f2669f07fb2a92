---------------------------- MODULE AgentRegistry ----------------------------
(***************************************************************************)
(* The agent registry.  Every call of the service first reads the agent    *)
(* and then writes in a transaction of its own: an update merges its       *)
(* fields into what it read and the transaction locks the row, adds one to *)
(* the version and appends the version's configuration; a transition or an *)
(* archiving checks the status it read and sets the new one whatever the   *)
(* row holds by then.  Names are unique among the agents not archived.     *)
(***************************************************************************)
EXTENDS Naturals, Sequences, FiniteSets

CONSTANTS
  Agent,
  Name,
  Model,     \* stands for every field of the configuration but the name
  Operator,  \* calls under way
  NoValue,
  MaxTurns   \* bound: calls

ASSUME AgentAssumption == NoValue \notin Agent \cup Name \cup Model /\ MaxTurns \in Nat

VARIABLES
  agent,    \* agents: [Agent -> status, name, model, version]
  versions, \* agent_config_versions: [Agent -> the configurations in order]
  turn,     \* [Operator -> its step, agent, kind, what it read and asks for]
  asked,    \* ghost: [Agent -> the value each field was last asked to have]
  outrun,   \* ghost: agents updated from a version no longer current
  undead,   \* ghost: agents that left the archive unasked, by a call that
            \* read them when they were archived
  turns

agentVars == <<agent, versions, turn, asked, outrun, undead, turns>>

Unborn == [status |-> "none", name |-> NoValue, model |-> NoValue, version |-> 0]
Done   == [at |-> "done", agent |-> NoValue, kind |-> "none", seen |-> Unborn,
           name |-> NoValue, model |-> NoValue]

Config(r) == [name |-> r.name, model |-> r.model]

\* The partial unique index: an archived agent's name is free for another, and an
\* archived agent may take any.
Clashes(a, n, status) ==
  /\ status # "archived"
  /\ \E b \in Agent \ {a} : agent[b].status \notin {"none", "archived"} /\ agent[b].name = n

Spend == turns > 0 /\ turns' = turns - 1

-----------------------------------------------------------------------------
\* create_agent and save_new: the row and its first version in one transaction,
\* or a conflict of the id or of the name.
Register(a, n, m) ==
  /\ agent[a] = Unborn /\ ~Clashes(a, n, "stopped") /\ Spend
  /\ agent' = [agent EXCEPT ![a] = [status |-> "stopped", name |-> n, model |-> m, version |-> 1]]
  /\ versions' = [versions EXCEPT ![a] = <<[name |-> n, model |-> m]>>]
  /\ asked' = [asked EXCEPT ![a] = [name |-> n, model |-> m]]
  /\ UNCHANGED <<turn, outrun, undead>>

\* The read that begins every other call; NoValue is a field left unset.
Reads(c, a, kind, n, m) ==
  /\ turn[c] = Done /\ agent[a].status # "none" /\ Spend
  /\ turn' = [turn EXCEPT ![c] = [at |-> "write", agent |-> a, kind |-> kind, seen |-> agent[a],
                                  name |-> n, model |-> m]]
  /\ UNCHANGED <<agent, versions, asked, outrun, undead>>

AskUpdate(c, a, n, m) == (n # NoValue \/ m # NoValue) /\ Reads(c, a, "update", n, m)

\* Every status may be a source (a mutant).
AnySource(to) == {"stopped", "active", "paused", "archived"}

\* _ALLOWED_LIFECYCLE_SOURCES: the same three for each of the targets.
Sources(to) == {"stopped", "active", "paused"}

AskTransition(c, a, to) ==
  agent[a].status \in Sources(to) /\ Reads(c, a, to, NoValue, NoValue)

AskArchive(c, a) == Reads(c, a, "archived", NoValue, NoValue)

AskRestore(c, a) == agent[a].status = "archived" /\ Reads(c, a, "restore", NoValue, NoValue)

-----------------------------------------------------------------------------
Chosen(new, old) == IF new = NoValue THEN old ELSE new

\* Unset fields are taken from the read.
Merge(t) == [name |-> Chosen(t.name, t.seen.name), model |-> Chosen(t.model, t.seen.model)]

\* The version counted from the read (a mutant).
BumpRead(a, t) == t.seen.version + 1

\* SELECT ... FOR UPDATE
BumpLocked(a, t) == agent[a].version + 1

\* update_with_version_bump; a name that clashes changes nothing.
WriteUpdate(c) ==
  LET t == turn[c]
      a == t.agent
      new == Merge(t)
  IN  /\ t.at = "write" /\ t.kind = "update"
      /\ turn' = [turn EXCEPT ![c] = Done]
      /\ IF Clashes(a, new.name, agent[a].status)
         THEN UNCHANGED <<agent, versions, asked, outrun>>
         ELSE /\ agent' = [agent EXCEPT ![a].name = new.name, ![a].model = new.model,
                                        ![a].version = BumpLocked(a, t)]
              /\ versions' = [versions EXCEPT ![a] = Append(@, new)]
              /\ asked' = [asked EXCEPT ![a] = [name |-> Chosen(t.name, @.name),
                                                model |-> Chosen(t.model, @.model)]]
              /\ outrun' = IF t.seen.version = agent[a].version THEN outrun ELSE outrun \cup {a}
      /\ UNCHANGED <<undead, turns>>

\* update_status: no condition on the status the row has by now.
WriteStatus(c) ==
  LET t == turn[c]
      a == t.agent
      to == IF t.kind = "restore" THEN "stopped" ELSE t.kind
  IN  /\ t.at = "write" /\ t.kind # "update"
      /\ turn' = [turn EXCEPT ![c] = Done]
      /\ IF Clashes(a, agent[a].name, to)
         THEN UNCHANGED <<agent, undead>>
         ELSE /\ agent' = [agent EXCEPT ![a].status = to]
              /\ undead' = IF t.seen.status = "archived" /\ t.kind \notin {"archived", "restore"}
                           THEN undead \cup {a} ELSE undead
      /\ UNCHANGED <<versions, asked, outrun, turns>>

-----------------------------------------------------------------------------
AgentInitWith(n) ==
  /\ agent = [a \in Agent |-> Unborn] /\ versions = [a \in Agent |-> <<>>]
  /\ turn = [c \in Operator |-> Done]
  /\ asked = [a \in Agent |-> Config(Unborn)]
  /\ outrun = {} /\ undead = {} /\ turns = n

AgentInit == AgentInitWith(MaxTurns)

AgentNext ==
  \/ \E a \in Agent, n \in Name, m \in Model : Register(a, n, m)
  \/ \E c \in Operator, a \in Agent :
       \/ \E n \in Name \cup {NoValue}, m \in Model \cup {NoValue} : AskUpdate(c, a, n, m)
       \/ \E to \in {"stopped", "active", "paused"} : AskTransition(c, a, to)
       \/ AskArchive(c, a) \/ AskRestore(c, a)
  \/ \E c \in Operator : WriteUpdate(c) \/ WriteStatus(c)

AgentSpec == AgentInit /\ [][AgentNext]_agentVars

(***************************************************************************)
(* Properties.                                                             *)
(***************************************************************************)

\* The versions of an agent are counted without a gap or a repeat, and the last
\* of them is the configuration the agent has, however updates interleave.
VersionsContiguous ==
  \A a \in Agent :
     /\ Len(versions[a]) = agent[a].version
     /\ agent[a].version > 0 => versions[a][agent[a].version] = Config(agent[a])

\* A field an update leaves unset keeps its value, unless the update read the
\* agent before another one wrote it: then it puts back the older value.
UnsetFieldsKept ==
  \A a \in Agent \ outrun : Config(agent[a]) = asked[a]

\* Only a restore takes an agent out of the archive, but for a transition that
\* read it before it was archived; no two agents outside have one name.
ArchiveHolds ==
  /\ undead = {}
  /\ \A a, b \in Agent :
       a # b /\ {agent[a].status, agent[b].status} \cap {"none", "archived"} = {} =>
          agent[a].name # agent[b].name

\* What a reader of the registry may rely on.
RegistryConsistent == VersionsContiguous /\ UnsetFieldsKept /\ ArchiveHolds
=============================================================================
