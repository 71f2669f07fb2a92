--------------------------- MODULE PlatformProofs ---------------------------
(***************************************************************************)
(* What the platform keeps of people and programs: agents and their        *)
(* versions, the accounts behind the users of a messenger, workspaces,     *)
(* writes that wait for their confirmation, and the pollers of the         *)
(* messenger channels. The theorems hold for any number of them and of     *)
(* calls, messages and requests, in any order.                             *)
(***************************************************************************)
EXTENDS AgentRegistry, PlatformUsers, WorkspaceRegistry, PendingActions, ChannelPollers,
        SequenceTheorems, TLAPS

-----------------------------------------------------------------------------
(***************************************************************************)
(* Proof that the registry is consistent for any agents, names and calls.  *)
(* What makes the properties inductive is what a call knows of the agent   *)
(* it has read: the version is not ahead of the row's, and as long as it   *)
(* is the row's, so is the configuration.                                  *)
(***************************************************************************)

Configs == [name : Name \cup {NoValue}, model : Model \cup {NoValue}]
Statuses == {"none", "stopped", "active", "paused", "archived"}
Kinds == {"update", "stopped", "active", "paused", "archived", "restore"}
Rows == [status : Statuses, name : Name \cup {NoValue}, model : Model \cup {NoValue},
         version : Nat]

\* A call that has read its agent and not written yet.
ReadOK(t) ==
  t.at = "write" =>
    /\ t.agent \in Agent /\ t.kind \in Kinds /\ t.seen \in Rows
    /\ t.name \in Name \cup {NoValue} /\ t.model \in Model \cup {NoValue}
    /\ agent[t.agent].status # "none"
    /\ t.seen.version <= agent[t.agent].version
    /\ t.seen.version = agent[t.agent].version => Config(t.seen) = Config(agent[t.agent])
    /\ t.kind \in {"stopped", "active", "paused"} => t.seen.status # "archived"

RegistryShapes ==
  /\ agent \in [Agent -> Rows]
  /\ versions \in [Agent -> Seq(Configs)]
  /\ asked \in [Agent -> Configs]
  /\ DOMAIN turn = Operator

RegistryInv ==
  /\ RegistryShapes
  /\ \A c \in Operator : ReadOK(turn[c])
  /\ RegistryConsistent

\* The configuration of a row is a configuration.
LEMMA ConfigType == \A r \in Rows : Config(r) \in Configs
BY DEF Rows, Configs, Config

\* What holds of the new turn of a call, given by name, holds of the turn.
LEMMA SameRead ==
  ASSUME NEW c \in Operator, NEW u, turn'[c] = u, ReadOK(u)'
  PROVE  ReadOK(turn[c])'
BY DEF ReadOK

\* The invariant holds in the initial states.
LEMMA RegistryInitially == AgentInit => RegistryInv
<1> SUFFICES ASSUME AgentInit PROVE RegistryInv
  OBVIOUS
<1> USE DEF AgentInit, AgentInitWith
<1>1. Unborn \in Rows /\ Config(Unborn) \in Configs
  BY DEF Unborn, Rows, Configs, Config, Statuses
<1>2. RegistryShapes
  BY <1>1 DEF RegistryShapes
<1>3. \A c \in Operator : ReadOK(turn[c])
  BY DEF ReadOK, Done
<1>4. VersionsContiguous
  BY DEF VersionsContiguous, Unborn
<1>5. UnsetFieldsKept /\ ArchiveHolds
  BY DEF UnsetFieldsKept, ArchiveHolds, Unborn
<1> QED BY <1>2, <1>3, <1>4, <1>5 DEF RegistryInv, RegistryConsistent

\* A step that writes the row r of one agent, and a call's entry with it, keeps
\* what the other calls have read as long as it counts the version of every new
\* configuration.
LEMMA ReadsKept ==
  ASSUME RegistryInv, NEW a \in Agent, NEW r \in Rows,
         agent' = [agent EXCEPT ![a] = r],
         agent[a].status # "none" => r.status # "none",
         agent[a].version <= r.version,
         r.version = agent[a].version => Config(r) = Config(agent[a]),
         NEW t, ReadOK(t)
  PROVE  ReadOK(t)'
<1> SUFFICES ASSUME t.at = "write"
             PROVE  /\ agent'[t.agent].status # "none"
                    /\ t.seen.version <= agent'[t.agent].version
                    /\ t.seen.version = agent'[t.agent].version =>
                         Config(t.seen) = Config(agent'[t.agent])
  BY DEF ReadOK, Config
<1>1. /\ t.agent \in Agent /\ t.seen \in Rows /\ agent[t.agent] \in Rows
      /\ agent \in [Agent -> Rows]
  BY DEF ReadOK, RegistryInv, RegistryShapes
<1>2. CASE t.agent # a
  BY <1>1, <1>2 DEF ReadOK
<1>3. CASE t.agent = a
  <2>1. agent'[a] = r
    BY <1>1
  <2>2. /\ agent[a].version \in Nat /\ r.version \in Nat /\ t.seen.version \in Nat
        /\ t.seen.version <= agent[a].version
    BY <1>1, <1>3 DEF Rows, ReadOK
  <2>3. t.seen.version = r.version => agent[a].version = r.version
    BY <2>2
  <2> QED BY <1>3, <2>1, <2>2, <2>3 DEF ReadOK
<1> QED BY <1>2, <1>3

\* The index on the names: a row that does not clash goes in.
LEMMA NamesApart ==
  ASSUME RegistryInv, NEW a \in Agent, NEW r \in Rows, agent' = [agent EXCEPT ![a] = r],
         ~Clashes(a, r.name, r.status), undead' = {}
  PROVE  ArchiveHolds'
<1> SUFFICES ASSUME NEW b \in Agent, NEW c \in Agent, b # c,
                    {agent'[b].status, agent'[c].status} \cap {"none", "archived"} = {}
             PROVE  agent'[b].name # agent'[c].name
  BY DEF ArchiveHolds
<1>1. \A d \in Agent : agent'[d] = IF d = a THEN r ELSE agent[d]
  BY DEF RegistryInv, RegistryShapes
<1>2. CASE b = a
  BY <1>1, <1>2 DEF Clashes
<1>3. CASE c = a
  BY <1>1, <1>3 DEF Clashes
<1>4. CASE b # a /\ c # a
  BY <1>1, <1>4 DEF RegistryInv, RegistryConsistent, ArchiveHolds
<1> QED BY <1>2, <1>3, <1>4

\* Register: the step preserves the invariant.
LEMMA RegisterKeeps ==
  ASSUME RegistryInv, NEW a \in Agent, NEW n \in Name, NEW m \in Model, Register(a, n, m)
  PROVE  RegistryInv'
<1> DEFINE r == [status |-> "stopped", name |-> n, model |-> m, version |-> 1]
           f == [name |-> n, model |-> m]
<1>1. /\ agent[a] = Unborn /\ ~Clashes(a, n, "stopped")
      /\ agent' = [agent EXCEPT ![a] = r] /\ versions' = [versions EXCEPT ![a] = <<f>>]
      /\ asked' = [asked EXCEPT ![a] = f] /\ UNCHANGED <<turn, outrun, undead>>
  BY DEF Register
<1>2. r \in Rows /\ f \in Configs /\ <<f>> \in Seq(Configs) /\ Config(r) = f /\ Len(<<f>>) = 1
      /\ <<f>>[1] = f
  BY DEF Rows, Statuses, Configs, Config
<1>3. /\ r.status = "stopped" /\ r.name = n /\ r.version = 1
  OBVIOUS
<1>4. /\ agent \in [Agent -> Rows] /\ versions \in [Agent -> Seq(Configs)]
      /\ asked \in [Agent -> Configs] /\ DOMAIN turn = Operator
  BY DEF RegistryInv, RegistryShapes
<1>5. agent[a].status = "none" /\ agent[a].version = 0
  BY <1>1 DEF Unborn
<1> HIDE DEF r, f
<1>6. RegistryShapes'
  BY <1>1, <1>2, <1>4 DEF RegistryShapes
<1>7. \A c \in Operator : ReadOK(turn[c])'
  <2> SUFFICES ASSUME NEW c \in Operator PROVE ReadOK(turn[c])'
    OBVIOUS
  <2>1. PICK u : u = turn[c]
    OBVIOUS
  <2>2. ReadOK(u) /\ turn'[c] = u
    BY <2>1, <1>1 DEF RegistryInv
  <2>3. /\ agent[a].status # "none" => r.status # "none"
        /\ agent[a].version <= r.version
        /\ r.version = agent[a].version => Config(r) = Config(agent[a])
    BY <1>3, <1>5
  <2>4. ReadOK(u)'
    BY <2>2, <2>3, <1>1, <1>2, ReadsKept
  <2> QED BY <2>2, <2>4, SameRead
<1>8. VersionsContiguous'
  <2> SUFFICES ASSUME NEW b \in Agent
               PROVE  /\ Len(versions'[b]) = agent'[b].version
                      /\ agent'[b].version > 0 =>
                           versions'[b][agent'[b].version] = Config(agent'[b])
    BY DEF VersionsContiguous, Config
  <2>1. CASE b = a
    BY <2>1, <1>1, <1>2, <1>3, <1>4
  <2>2. CASE b # a
    BY <2>2, <1>1, <1>4 DEF RegistryInv, RegistryConsistent, VersionsContiguous
  <2> QED BY <2>1, <2>2
<1>9. UnsetFieldsKept'
  BY <1>1, <1>2, <1>4 DEF RegistryInv, RegistryConsistent, UnsetFieldsKept, Config
<1>10. ArchiveHolds'
  BY <1>1, <1>2, <1>3, NamesApart DEF RegistryInv, RegistryConsistent, ArchiveHolds
<1> QED BY <1>6, <1>7, <1>8, <1>9, <1>10 DEF RegistryInv, RegistryConsistent

\* Read: the step preserves the invariant.
LEMMA ReadKeeps ==
  ASSUME RegistryInv, NEW c \in Operator, NEW a \in Agent, NEW kind \in Kinds,
         NEW n \in Name \cup {NoValue}, NEW m \in Model \cup {NoValue}, Reads(c, a, kind, n, m),
         kind \in {"stopped", "active", "paused"} => agent[a].status # "archived"
  PROVE  RegistryInv'
<1>1. PICK t : t = [at |-> "write", agent |-> a, kind |-> kind, seen |-> agent[a],
                    name |-> n, model |-> m]
  OBVIOUS
<1>2. /\ agent[a].status # "none" /\ turn' = [turn EXCEPT ![c] = t]
      /\ UNCHANGED <<agent, versions, asked, outrun, undead>>
  BY <1>1 DEF Reads
<1>0. ReadOK(t)'
  <2>1. agent[a] \in Rows /\ agent[a].version \in Nat
    BY DEF RegistryInv, RegistryShapes, Rows
  <2> QED BY <2>1, <1>1, <1>2 DEF ReadOK, Config
<1>3. \A d \in Operator : ReadOK(turn[d])'
  <2> SUFFICES ASSUME NEW d \in Operator PROVE ReadOK(turn[d])'
    OBVIOUS
  <2>1. CASE d = c
    <3>1. turn'[d] = t
      BY <2>1, <1>2 DEF RegistryInv, RegistryShapes
    <3> QED BY <3>1, <1>0, SameRead
  <2>2. CASE d # c
    <3>1. PICK u : u = turn[d]
      OBVIOUS
    <3>2. turn'[d] = u /\ ReadOK(u)
      BY <2>2, <3>1, <1>2 DEF RegistryInv, RegistryShapes
    <3>3. ReadOK(u)'
      BY <3>2, <1>2 DEF ReadOK, Config
    <3> QED BY <3>2, <3>3, SameRead
  <2> QED BY <2>1, <2>2
<1>4. RegistryShapes'
  BY <1>2 DEF RegistryInv, RegistryShapes
<1>5. RegistryConsistent'
  BY <1>2 DEF RegistryInv, RegistryConsistent, VersionsContiguous, UnsetFieldsKept,
              ArchiveHolds, Config
<1> QED BY <1>3, <1>4, <1>5 DEF RegistryInv

\* A write that finds a clash changes nothing but its call's entry.
LEMMA TurnOver ==
  ASSUME RegistryInv, NEW c \in Operator, turn' = [turn EXCEPT ![c] = Done],
         UNCHANGED <<agent, versions, asked, outrun, undead>>
  PROVE  RegistryInv'
<1>1. \A d \in Operator : ReadOK(turn[d])'
  <2> SUFFICES ASSUME NEW d \in Operator PROVE ReadOK(turn[d])'
    OBVIOUS
  <2>1. PICK u : u = turn'[d]
    OBVIOUS
  <2>2. ReadOK(u)
    BY <2>1 DEF RegistryInv, RegistryShapes, ReadOK, Done
  <2>3. ReadOK(u)'
    BY <2>2 DEF ReadOK, Config
  <2> QED BY <2>1, <2>3, SameRead
<1>2. RegistryShapes'
  BY DEF RegistryInv, RegistryShapes
<1>3. RegistryConsistent'
  BY DEF RegistryInv, RegistryConsistent, VersionsContiguous, UnsetFieldsKept,
         ArchiveHolds, Config
<1> QED BY <1>1, <1>2, <1>3 DEF RegistryInv

\* Update: the step preserves the invariant.
LEMMA UpdateKeeps ==
  ASSUME RegistryInv, NEW c \in Operator, WriteUpdate(c)
  PROVE  RegistryInv'
<1>1. PICK t : t = turn[c]
  OBVIOUS
<1>2. PICK a : a = t.agent
  OBVIOUS
<1>3. PICK new : new = Merge(t)
  OBVIOUS
<1>4. PICK r : r = [status |-> agent[a].status, name |-> new.name, model |-> new.model,
                    version |-> agent[a].version + 1]
  OBVIOUS
<1>5. /\ t.at = "write" /\ turn' = [turn EXCEPT ![c] = Done] /\ UNCHANGED undead
      /\ ReadOK(t)
  BY <1>1 DEF WriteUpdate, RegistryInv
<1>6. /\ agent \in [Agent -> Rows] /\ versions \in [Agent -> Seq(Configs)]
      /\ asked \in [Agent -> Configs] /\ DOMAIN turn = Operator
  BY DEF RegistryInv, RegistryShapes
<1>7. /\ a \in Agent /\ t.seen \in Rows /\ agent[a] \in Rows /\ agent[a].status # "none"
  BY <1>2, <1>5, <1>6 DEF ReadOK
<1>8. CASE Clashes(a, new.name, agent[a].status)
  <2>1. UNCHANGED <<agent, versions, asked, outrun>>
    BY <1>1, <1>2, <1>3, <1>8 DEF WriteUpdate
  <2> QED BY <2>1, <1>5, TurnOver
<1>9. CASE ~Clashes(a, new.name, agent[a].status)
  <2>1. /\ agent' = [agent EXCEPT ![a].name = new.name, ![a].model = new.model,
                                  ![a].version = agent[a].version + 1]
        /\ versions' = [versions EXCEPT ![a] = Append(@, new)]
        /\ asked' = [asked EXCEPT ![a] = [name |-> Chosen(t.name, @.name),
                                          model |-> Chosen(t.model, @.model)]]
        /\ outrun' = IF t.seen.version = agent[a].version THEN outrun ELSE outrun \cup {a}
    BY <1>1, <1>2, <1>3, <1>9 DEF WriteUpdate, BumpLocked
  <2>2. new \in Configs /\ Config(r) = new
    BY <1>3, <1>4, <1>5, <1>7 DEF Merge, Chosen, Configs, Config, ReadOK, Rows
  <2>3. agent' = [agent EXCEPT ![a] = r]
    <3>1. agent' \in [Agent -> Rows]
      <4>1. agent[a].version + 1 \in Nat /\ new.name \in Name \cup {NoValue}
            /\ new.model \in Model \cup {NoValue}
        BY <2>2, <1>7 DEF Rows, Configs
      <4> QED BY <4>1, <2>1, <1>6, <1>7 DEF Rows
    <3>2. \A b \in Agent \ {a} : agent'[b] = agent[b]
      BY <2>1, <1>6
    <3>3. /\ agent'[a].status = agent[a].status /\ agent'[a].name = new.name
          /\ agent'[a].model = new.model /\ agent'[a].version = agent[a].version + 1
      BY <2>1, <1>6, <1>7 DEF Rows
    <3>4. agent'[a] = r
      BY <3>1, <3>3, <1>4, <1>7 DEF Rows
    <3> QED BY <3>1, <3>2, <3>4, <1>6
  <2>4. /\ r \in Rows /\ r.name = new.name /\ r.status = agent[a].status
        /\ r.version = agent[a].version + 1 /\ agent[a].version \in Nat
    BY <2>2, <1>4, <1>7 DEF Rows, Configs
  <2>5. RegistryShapes'
    <3>1. Append(versions[a], new) \in Seq(Configs)
      BY <2>2, <1>6, <1>7
    <3>2. asked'[a] \in Configs
      BY <2>1, <1>5, <1>6, <1>7 DEF Chosen, Configs, ReadOK
    <3>3. asked' \in [Agent -> Configs]
      BY <3>2, <2>1, <1>6
    <3>4. agent' \in [Agent -> Rows]
      BY <2>3, <2>4, <1>6, <1>7
    <3>5. versions' \in [Agent -> Seq(Configs)]
      BY <3>1, <2>1, <1>6, <1>7
    <3>6. DOMAIN turn' = Operator
      BY <1>5, <1>6
    <3> QED BY <3>3, <3>4, <3>5, <3>6 DEF RegistryShapes
  <2>6. \A d \in Operator : ReadOK(turn[d])'
    <3> SUFFICES ASSUME NEW d \in Operator PROVE ReadOK(turn[d])'
      OBVIOUS
    <3>1. CASE d = c
      BY <3>1, <1>5, <1>6 DEF ReadOK, Done
    <3>2. CASE d # c
      <4>1. PICK u : u = turn[d]
        OBVIOUS
      <4>2. turn'[d] = u /\ ReadOK(u)
        BY <3>2, <4>1, <1>5, <1>6 DEF RegistryInv
      <4>3. /\ agent[a].status # "none" => r.status # "none"
            /\ agent[a].version <= r.version
            /\ r.version = agent[a].version => Config(r) = Config(agent[a])
        BY <2>4
      <4>4. ReadOK(u)'
        BY <4>2, <4>3, <2>3, <2>4, <1>7, ReadsKept
      <4> QED BY <4>2, <4>4, SameRead
    <3> QED BY <3>1, <3>2
  <2>7. VersionsContiguous'
    <3> SUFFICES ASSUME NEW b \in Agent
                 PROVE  /\ Len(versions'[b]) = agent'[b].version
                        /\ agent'[b].version > 0 =>
                             versions'[b][agent'[b].version] = Config(agent'[b])
      BY DEF VersionsContiguous, Config
    <3>1. CASE b = a
      <4>1. versions'[a] = Append(versions[a], new) /\ agent'[a] = r
        BY <2>1, <2>3, <1>6, <1>7
      <4>2. versions[a] \in Seq(Configs) /\ Len(versions[a]) = agent[a].version
        BY <1>6, <1>7 DEF RegistryInv, RegistryConsistent, VersionsContiguous
      <4> QED BY <3>1, <4>1, <4>2, <2>2, <2>4
    <3>2. CASE b # a
      BY <3>2, <2>1, <2>3, <1>6, <1>7 DEF RegistryInv, RegistryConsistent, VersionsContiguous
    <3> QED BY <3>1, <3>2
  <2>8. UnsetFieldsKept'
    <3> SUFFICES ASSUME NEW b \in Agent \ outrun' PROVE Config(agent'[b]) = asked'[b]
      BY DEF UnsetFieldsKept, Config
    <3>1. b \notin outrun /\ Config(agent[b]) = asked[b]
      BY <2>1 DEF RegistryInv, RegistryConsistent, UnsetFieldsKept
    <3>2. CASE b = a
      <4>1. Config(t.seen) = Config(agent[a])
        BY <3>2, <2>1, <1>2, <1>5 DEF ReadOK
      <4>2. asked'[a] = [name |-> Chosen(t.name, agent[a].name),
                         model |-> Chosen(t.model, agent[a].model)]
        BY <3>1, <3>2, <2>1, <1>6, <1>7 DEF Config
      <4> QED BY <3>2, <4>1, <4>2, <2>2, <2>3, <1>3, <1>6, <1>7 DEF Merge, Config
    <3>3. CASE b # a
      BY <3>1, <3>3, <2>1, <2>3, <1>6
    <3> QED BY <3>2, <3>3
  <2>9. ArchiveHolds'
    BY <2>3, <2>4, <1>5, <1>7, <1>9, NamesApart DEF RegistryInv, RegistryConsistent, ArchiveHolds
  <2> QED BY <2>5, <2>6, <2>7, <2>8, <2>9 DEF RegistryInv, RegistryConsistent
<1> QED BY <1>8, <1>9

\* Status: the step preserves the invariant.
LEMMA StatusKeeps ==
  ASSUME RegistryInv, NEW c \in Operator, WriteStatus(c)
  PROVE  RegistryInv'
<1>1. PICK t : t = turn[c]
  OBVIOUS
<1>2. PICK a : a = t.agent
  OBVIOUS
<1>3. PICK to : to = IF t.kind = "restore" THEN "stopped" ELSE t.kind
  OBVIOUS
<1>4. /\ t.at = "write" /\ t.kind # "update" /\ turn' = [turn EXCEPT ![c] = Done]
      /\ UNCHANGED <<versions, asked, outrun>> /\ ReadOK(t)
  BY <1>1 DEF WriteStatus, RegistryInv
<1>5. /\ agent \in [Agent -> Rows] /\ versions \in [Agent -> Seq(Configs)]
      /\ asked \in [Agent -> Configs] /\ DOMAIN turn = Operator
  BY DEF RegistryInv, RegistryShapes
<1>6. /\ a \in Agent /\ t.seen \in Rows /\ agent[a] \in Rows /\ t.kind \in Kinds
      /\ to \in Statuses \ {"none"}
  BY <1>2, <1>3, <1>4, <1>5 DEF ReadOK, Kinds, Statuses
<1>7. CASE Clashes(a, agent[a].name, to)
  <2>1. UNCHANGED <<agent, undead>>
    BY <1>1, <1>2, <1>3, <1>7 DEF WriteStatus
  <2> QED BY <2>1, <1>4, TurnOver
<1>8. CASE ~Clashes(a, agent[a].name, to)
  <2>1. /\ agent' = [agent EXCEPT ![a].status = to]
        /\ undead' = IF t.seen.status = "archived" /\ t.kind \notin {"archived", "restore"}
                     THEN undead \cup {a} ELSE undead
    BY <1>1, <1>2, <1>3, <1>8 DEF WriteStatus
  <2>2. PICK r : r = [agent[a] EXCEPT !.status = to]
    OBVIOUS
  <2>3. /\ r \in Rows /\ r.status = to /\ r.name = agent[a].name
        /\ r.version = agent[a].version /\ r.model = agent[a].model
    BY <2>2, <1>6 DEF Rows
  <2>4. agent' = [agent EXCEPT ![a] = r] /\ Config(r) = Config(agent[a])
        /\ agent[a].version \in Nat
    BY <2>1, <2>2, <2>3, <1>6 DEF Config, Rows
  <2>5. undead' = {}
    BY <2>1, <1>4, <1>6 DEF ReadOK, Kinds, RegistryInv, RegistryConsistent, ArchiveHolds
  <2>6. RegistryShapes'
    BY <2>3, <2>4, <1>4, <1>5, <1>6 DEF RegistryShapes
  <2>7. \A d \in Operator : ReadOK(turn[d])'
    <3> SUFFICES ASSUME NEW d \in Operator PROVE ReadOK(turn[d])'
      OBVIOUS
    <3>1. CASE d = c
      BY <3>1, <1>4, <1>5 DEF ReadOK, Done
    <3>2. CASE d # c
      <4>1. PICK u : u = turn[d]
        OBVIOUS
      <4>2. turn'[d] = u /\ ReadOK(u)
        BY <3>2, <4>1, <1>4, <1>5 DEF RegistryInv
      <4>3. /\ agent[a].status # "none" => r.status # "none"
            /\ agent[a].version <= r.version
            /\ r.version = agent[a].version => Config(r) = Config(agent[a])
        BY <2>3, <2>4, <1>6
      <4>4. ReadOK(u)'
        BY <4>2, <4>3, <2>3, <2>4, <1>6, ReadsKept
      <4> QED BY <4>2, <4>4, SameRead
    <3> QED BY <3>1, <3>2
  <2>8. \A b \in Agent : /\ agent'[b].version = agent[b].version
                         /\ Config(agent'[b]) = Config(agent[b])
    BY <2>3, <2>4, <1>5
  <2>9. VersionsContiguous' /\ UnsetFieldsKept'
    BY <2>8, <1>4 DEF RegistryInv, RegistryConsistent, VersionsContiguous, UnsetFieldsKept,
                      Config
  <2>10. ArchiveHolds'
    BY <2>3, <2>4, <2>5, <1>6, <1>8, NamesApart
  <2> QED BY <2>6, <2>7, <2>9, <2>10 DEF RegistryInv, RegistryConsistent
<1> QED BY <1>7, <1>8

\* For any number of agents, names, models, callers and calls, the versions of an
\* agent count up without a gap and end in its configuration, an update that
\* read the current version overwrites no field it leaves unset, and an agent leaves the
\* archive by a restore alone: agents/service.py and
\* agents/persistence.py.
THEOREM RegistryIsConsistent == AgentSpec => []RegistryConsistent
<1>1. AgentInit => RegistryInv
  BY RegistryInitially
<1>2. RegistryInv /\ [AgentNext]_agentVars => RegistryInv'
  <2> SUFFICES ASSUME RegistryInv, [AgentNext]_agentVars PROVE RegistryInv'
    OBVIOUS
  <2>1. ASSUME NEW a \in Agent, NEW n \in Name, NEW m \in Model, Register(a, n, m)
        PROVE  RegistryInv'
    BY <2>1, RegisterKeeps
  <2>2. ASSUME NEW c \in Operator, NEW a \in Agent, NEW n \in Name \cup {NoValue},
               NEW m \in Model \cup {NoValue}, AskUpdate(c, a, n, m)
        PROVE  RegistryInv'
    BY <2>2, ReadKeeps DEF AskUpdate, Kinds
  <2>3. ASSUME NEW c \in Operator, NEW a \in Agent,
               NEW to \in {"stopped", "active", "paused"}, AskTransition(c, a, to)
        PROVE  RegistryInv'
    <3>1. /\ Reads(c, a, to, NoValue, NoValue) /\ agent[a].status # "archived"
          /\ to \in Kinds
      BY <2>3 DEF AskTransition, Sources, Kinds
    <3> QED BY <3>1, ReadKeeps
  <2>4. ASSUME NEW c \in Operator, NEW a \in Agent, AskArchive(c, a)
        PROVE  RegistryInv'
    BY <2>4, ReadKeeps DEF AskArchive, Kinds
  <2>5. ASSUME NEW c \in Operator, NEW a \in Agent, AskRestore(c, a)
        PROVE  RegistryInv'
    BY <2>5, ReadKeeps DEF AskRestore, Kinds
  <2>6. ASSUME NEW c \in Operator, WriteUpdate(c) \/ WriteStatus(c)
        PROVE  RegistryInv'
    BY <2>6, UpdateKeeps, StatusKeeps
  <2>7. CASE UNCHANGED agentVars
    <3>1. \A c \in Operator : ReadOK(turn[c])'
      BY <2>7 DEF RegistryInv, ReadOK, agentVars, Config
    <3> QED BY <2>7, <3>1 DEF RegistryInv, RegistryShapes, RegistryConsistent, VersionsContiguous,
                              UnsetFieldsKept, ArchiveHolds, Config, agentVars
  <2> QED BY <2>1, <2>2, <2>3, <2>4, <2>5, <2>6, <2>7 DEF AgentNext
<1>3. RegistryInv => RegistryConsistent
  BY DEF RegistryInv
<1> QED BY <1>1, <1>2, <1>3, PTL DEF AgentSpec

-----------------------------------------------------------------------------
(***************************************************************************)
(* Proof that the cache follows the mapping and that every failure has its *)
(* explanation, for any persons, messages and edits.  The invariant adds   *)
(* what a call knows of the mapping it has read, and that an account       *)
(* without a mapping belongs to the one call that is about to insert it.   *)
(***************************************************************************)

Account(u, p) == [id |-> u, email |-> p]

Shaped(x) ==
  /\ x = [at |-> x.at, person |-> x.person, user |-> x.user, beaten |-> x.beaten]
  /\ x.at \in {"idle", "found", "missing", "made", "mapped", "winner", "answered", "failed"}
  /\ x.at # "idle" => x.person \in Person
  /\ x.at \in {"found", "made", "mapped", "winner"} => x.user \in Nat

\* What a call has read or made is still so, or a change has come in between.
Fits(x) ==
  /\ x.at = "found" =>
       /\ x.user = mapped[x.person] \/ x.person \in overtaken
       /\ x.person \in halfMade \/ x.user = mapped[x.person]
  /\ x.at = "made" =>
       \/ x.person \in halfMade
       \/ mapped[x.person] = NoUser /\ Account(x.user, x.person) \in accounts
  /\ x.at = "failed" => x.beaten \/ x.person \in halfMade

\* A mapping has its account, and calls that missed it know that they are late; an
\* account without a mapping is about to get one.
Whole(p) ==
  p \notin halfMade =>
    /\ mapped[p] # NoUser =>
         /\ Account(mapped[p], p) \in accounts
         /\ \A v \in Visit : visit[v].at = "missing" /\ visit[v].person = p => visit[v].beaten
    /\ mapped[p] = NoUser /\ (\E a \in accounts : a.email = p) =>
         \E v \in Visit : visit[v].at = "made" /\ visit[v].person = p

MadeOnce ==
  \A v, w \in Visit :
     v # w /\ visit[v].at = "made" /\ visit[w].at = "made" /\ visit[v].person = visit[w].person =>
        visit[v].person \in halfMade

PlatformShapes ==
  /\ DOMAIN visit = Visit /\ DOMAIN remembered = Person
  /\ mapped \in [Person -> Nat \cup {NoUser}]
  /\ lastUser \in Nat
  /\ \A v \in Visit : Shaped(visit[v])

PlatformInv ==
  /\ PlatformShapes
  /\ \A v \in Visit : Fits(visit[v])
  /\ \A p \in Person : Whole(p)
  /\ MadeOnce
  /\ CacheFollowsMapping

\* The invariant holds in the initial states.
LEMMA PlatformInitially == PlatformInit => PlatformInv
<1> SUFFICES ASSUME PlatformInit PROVE PlatformInv
  OBVIOUS
<1>1. Shaped(NoVisit) /\ NoVisit.at = "idle"
  BY DEF Shaped, NoVisit
<1>2. PlatformShapes
  BY <1>1 DEF PlatformInit, PlatformShapes
<1>3. \A v \in Visit : Fits(visit[v])
  BY <1>1 DEF PlatformInit, Fits
<1>4. \A p \in Person : Whole(p)
  BY PlatformAssumption DEF PlatformInit, Whole
<1>5. MadeOnce /\ CacheFollowsMapping
  BY <1>1 DEF PlatformInit, MadeOnce, CacheFollowsMapping
<1> QED BY <1>2, <1>3, <1>4, <1>5 DEF PlatformInv

\* The invariant of the users gives what the run checks.
LEMMA Honest == PlatformInv => PlatformHonest
BY DEF PlatformInv, PlatformHonest, FailuresExplained, Fits

\* A call moves on, but neither from nor to an account without a mapping.
LEMMA VisitMoves ==
  ASSUME PlatformInv, NEW v \in Visit, NEW x, visit' = [visit EXCEPT ![v] = x], Shaped(x),
         UNCHANGED <<accounts, mapped, halfMade, lastUser>>,
         overtaken \subseteq overtaken', Fits(x),
         x.at # "made", visit[v].at # "made",
         x.at = "missing" => x.person \in halfMade \/ mapped[x.person] = NoUser,
         DOMAIN remembered' = Person, CacheFollowsMapping'
  PROVE  PlatformInv'
<1>1. /\ visit'[v] = x /\ DOMAIN visit' = Visit
      /\ \A w \in Visit \ {v} : visit'[w] = visit[w]
  BY DEF PlatformInv, PlatformShapes
<1>2. PlatformShapes'
  BY <1>1 DEF PlatformInv, PlatformShapes
<1>3. ASSUME NEW w \in Visit PROVE Fits(visit[w])'
  <2>1. PICK y : y = visit'[w]
    OBVIOUS
  <2>2. Fits(y)
    BY <1>1, <2>1 DEF PlatformInv
  <2>3. Fits(y)'
    BY <2>2 DEF Fits
  <2> QED BY <2>1, <2>3 DEF Fits
<1>4. ASSUME NEW p \in Person PROVE Whole(p)'
  BY <1>1 DEF PlatformInv, Whole
<1>5. MadeOnce'
  BY <1>1 DEF PlatformInv, MadeOnce
<1> QED BY <1>2, <1>3, <1>4, <1>5 DEF PlatformInv

\* Lookup: the step preserves the invariant.
LEMMA LookupKeeps ==
  ASSUME PlatformInv, NEW v \in Visit, NEW p \in Person, AnswerCached(v, p) \/ SelectMapping(v, p)
  PROVE  PlatformInv'
<1>1. /\ visit[v].at = "idle" /\ UNCHANGED <<accounts, mapped, remembered, popping, lastUser,
                                             overtaken, halfMade>>
  BY DEF AnswerCached, SelectMapping
<1>2. CacheFollowsMapping' /\ DOMAIN remembered' = Person
  BY <1>1 DEF PlatformInv, CacheFollowsMapping, PlatformShapes
<1>3. CASE AnswerCached(v, p)
  <2>1. PICK x : x = [NoVisit EXCEPT !.at = "answered", !.person = p, !.user = remembered[p]]
    OBVIOUS
  <2>2. visit' = [visit EXCEPT ![v] = x]
    BY <1>3, <2>1 DEF AnswerCached
  <2>3. Shaped(x) /\ Fits(x) /\ x.at = "answered"
    BY <2>1 DEF Shaped, Fits, NoVisit
  <2> QED BY <1>1, <1>2, <2>2, <2>3, VisitMoves
<1>4. CASE SelectMapping(v, p)
  <2>1. PICK x : x = [NoVisit EXCEPT !.person = p, !.user = mapped[p],
                                     !.at = IF mapped[p] = NoUser THEN "missing" ELSE "found"]
    OBVIOUS
  <2>2. visit' = [visit EXCEPT ![v] = x]
    BY <1>4, <2>1 DEF SelectMapping
  <2>3. mapped[p] \in Nat \cup {NoUser}
    BY DEF PlatformInv, PlatformShapes
  <2>4. /\ Shaped(x) /\ Fits(x) /\ x.person = p /\ x.at \in {"missing", "found"}
        /\ x.at = "missing" => mapped[p] = NoUser
    BY <2>1, <2>3 DEF Shaped, Fits, NoVisit
  <2> QED BY <1>1, <1>2, <2>2, <2>4, VisitMoves
<1> QED BY <1>3, <1>4

\* SelectUser: the step preserves the invariant.
LEMMA SelectUserKeeps ==
  ASSUME PlatformInv, NEW v \in Visit, SelectUser(v)
  PROVE  PlatformInv'
<1>1. PICK y : y = visit[v]
  OBVIOUS
<1>2. /\ y.at = "found" /\ Shaped(y) /\ Fits(y)
      /\ UNCHANGED <<accounts, mapped, popping, lastUser, overtaken, halfMade>>
  BY <1>1 DEF PlatformInv, PlatformShapes, SelectUser
<1>3. CASE Alive(y.user)
  <2>1. PICK x : x = [y EXCEPT !.at = "answered", !.user = y.user]
    OBVIOUS
  <2>2. /\ visit' = [visit EXCEPT ![v] = x]
        /\ remembered' = [remembered EXCEPT ![y.person] = y.user]
    <3>1. /\ visit' = [visit EXCEPT ![v].at = "answered", ![v].user = visit[v].user]
          /\ remembered' = [remembered EXCEPT ![visit[v].person] = visit[v].user]
      BY <1>1, <1>3 DEF SelectUser, Answered
    <3> QED BY <1>1, <2>1, <3>1 DEF PlatformInv, PlatformShapes
  <2>3. Shaped(x) /\ Fits(x) /\ x.at = "answered"
    BY <1>2, <2>1 DEF Shaped, Fits
  <2>4. CacheFollowsMapping' /\ DOMAIN remembered' = Person
    BY <1>2, <2>2 DEF PlatformInv, CacheFollowsMapping, PlatformShapes, Shaped, Fits
  <2> QED BY <1>1, <1>2, <2>2, <2>3, <2>4, VisitMoves
<1>4. CASE ~Alive(y.user)
  <2>1. PICK x : x = [y EXCEPT !.at = "missing", !.user = NoUser]
    OBVIOUS
  <2>2. visit' = [visit EXCEPT ![v] = x] /\ UNCHANGED remembered
    <3>1. /\ visit' = [visit EXCEPT ![v].at = "missing", ![v].user = NoUser]
          /\ UNCHANGED remembered
      BY <1>1, <1>4 DEF SelectUser
    <3> QED BY <1>1, <2>1, <3>1 DEF PlatformInv, PlatformShapes
  <2>3. Shaped(x) /\ Fits(x) /\ x.at = "missing" /\ x.person = y.person /\ y.person \in Person
    BY <1>2, <2>1 DEF Shaped, Fits
  <2>4. y.person \in halfMade
    <3>1. ASSUME y.person \notin halfMade PROVE Account(y.user, y.person) \in accounts
      BY <1>2, <2>3, <3>1, PlatformAssumption DEF PlatformInv, Whole, Fits, Shaped
    <3> QED BY <1>4, <3>1 DEF Alive, Account
  <2>5. CacheFollowsMapping' /\ DOMAIN remembered' = Person
    BY <1>2, <2>2 DEF PlatformInv, CacheFollowsMapping, PlatformShapes
  <2> QED BY <1>1, <1>2, <2>2, <2>3, <2>4, <2>5, VisitMoves
<1> QED BY <1>3, <1>4

\* The unique email: the second account of a person is refused, and whoever made
\* the first was there before.
LEMMA CreateKeeps ==
  ASSUME PlatformInv, NEW v \in Visit, CreateUser(v)
  PROVE  PlatformInv'
<1>1. PICK y : y = visit[v]
  OBVIOUS
<1>2. PICK p : p = y.person
  OBVIOUS
<1>3. /\ y.at = "missing" /\ Shaped(y) /\ p \in Person
      /\ UNCHANGED <<mapped, remembered, popping, overtaken, halfMade>>
  BY <1>1, <1>2 DEF PlatformInv, PlatformShapes, Shaped, CreateUser
<1>4. CacheFollowsMapping' /\ DOMAIN remembered' = Person
  BY <1>3 DEF PlatformInv, CacheFollowsMapping, PlatformShapes
<1>5. CASE \E a \in accounts : a.email = p
  <2>1. PICK x : x = [y EXCEPT !.at = "failed", !.beaten =
                        @ \/ \E w \in Visit : visit[w].at = "made" /\ visit[w].person = p]
    OBVIOUS
  <2>2. visit' = [visit EXCEPT ![v] = x] /\ UNCHANGED <<accounts, lastUser>>
    <3>1. /\ visit' = [visit EXCEPT
                 ![v].at = "failed",
                 ![v].beaten = @ \/ \E w \in Visit : visit[w].at = "made" /\ visit[w].person = p]
          /\ UNCHANGED <<accounts, lastUser>>
      BY <1>1, <1>2, <1>5 DEF CreateUser, SyntheticEmail
    <3> QED BY <1>1, <2>1, <3>1 DEF PlatformInv, PlatformShapes
  <2>3. /\ x.at = "failed" /\ x.person = p /\ Shaped(x)
        /\ x.beaten = (y.beaten \/ \E w \in Visit : visit[w].at = "made" /\ visit[w].person = p)
    BY <1>2, <1>3, <2>1 DEF Shaped
  <2>4. x.beaten \/ p \in halfMade
    <3>1. CASE mapped[p] = NoUser
      BY <1>3, <1>5, <2>3, <3>1 DEF PlatformInv, Whole
    <3>2. CASE mapped[p] # NoUser
      BY <1>1, <1>2, <1>3, <2>3, <3>2 DEF PlatformInv, Whole
    <3> QED BY <3>1, <3>2
  <2>5. Fits(x)
    BY <2>3, <2>4 DEF Fits
  <2> QED BY <1>1, <1>3, <1>4, <2>2, <2>3, <2>5, VisitMoves
<1>6. CASE ~\E a \in accounts : a.email = p
  <2>1. PICK u : u = lastUser + 1
    OBVIOUS
  <2>2. PICK x : x = [y EXCEPT !.at = "made", !.user = u]
    OBVIOUS
  <2>3. /\ visit' = [visit EXCEPT ![v] = x] /\ lastUser' = u /\ u \in Nat
        /\ accounts' = accounts \cup {Account(u, p)}
    <3>1. /\ lastUser' = lastUser + 1
          /\ accounts' = accounts \cup {[id |-> lastUser', email |-> p]}
          /\ visit' = [visit EXCEPT ![v].at = "made", ![v].user = lastUser']
      BY <1>1, <1>2, <1>6 DEF CreateUser, SyntheticEmail
    <3>2. lastUser' = u /\ u \in Nat
      BY <2>1, <3>1 DEF PlatformInv, PlatformShapes
    <3>3. visit' = [visit EXCEPT ![v] = x]
      BY <1>1, <2>2, <3>1, <3>2 DEF PlatformInv, PlatformShapes
    <3> QED BY <3>1, <3>2, <3>3 DEF Account
  <2>4. /\ x.at = "made" /\ x.person = p /\ x.user = u /\ Shaped(x)
    BY <1>2, <1>3, <2>2, <2>3 DEF Shaped
  <2>5. /\ visit'[v] = x /\ DOMAIN visit' = Visit
        /\ \A w \in Visit \ {v} : visit'[w] = visit[w]
    BY <2>3 DEF PlatformInv, PlatformShapes
  <2>6. p \notin halfMade =>
          mapped[p] = NoUser /\ \A w \in Visit : ~(visit[w].at = "made" /\ visit[w].person = p)
    <3>2. ASSUME p \notin halfMade PROVE mapped[p] = NoUser
      <4>1. Account(mapped[p], p).email = p
        BY DEF Account
      <4> QED BY <1>3, <1>6, <3>2, <4>1 DEF PlatformInv, Whole
    <3>3. ASSUME NEW w \in Visit, visit[w].at = "made", visit[w].person = p
          PROVE  p \in halfMade
      <4>1. Account(visit[w].user, p).email = p
        BY DEF Account
      <4> QED BY <1>6, <3>3, <4>1 DEF PlatformInv, Fits
    <3> QED BY <3>2, <3>3
  <2>7. PlatformShapes'
    BY <1>3, <1>4, <2>3, <2>4, <2>5 DEF PlatformInv, PlatformShapes
  <2>8. ASSUME NEW w \in Visit PROVE Fits(visit[w])'
    <3>1. CASE w = v
      BY <1>3, <2>3, <2>4, <2>5, <2>6, <3>1 DEF Fits
    <3>2. CASE w # v
      <4>1. PICK z : z = visit[w]
        OBVIOUS
      <4>2. Fits(z)
        BY <4>1 DEF PlatformInv
      <4>3. Fits(z)'
        BY <1>3, <2>3, <4>2 DEF Fits
      <4> QED BY <2>5, <3>2, <4>1, <4>3 DEF Fits
    <3> QED BY <3>1, <3>2
  <2>9. ASSUME NEW q \in Person PROVE Whole(q)'
    <3>1. CASE q = p
      BY <1>3, <2>4, <2>5, <2>6, <3>1 DEF Whole
    <3>2. CASE q # p
      <4>1. \A a \in accounts' : a.email = q => a \in accounts
        BY <2>3, <3>2 DEF Account
      <4>2. \A w \in Visit : visit'[w].person = q => visit'[w] = visit[w]
        BY <2>4, <2>5, <3>2
      <4>3. \A w \in Visit : visit[w].at = "made" => visit'[w] = visit[w]
        BY <1>1, <1>3, <2>5
      <4> QED BY <1>3, <2>3, <4>1, <4>2, <4>3 DEF PlatformInv, Whole
    <3> QED BY <3>1, <3>2
  <2>10. MadeOnce'
    BY <1>3, <2>4, <2>5, <2>6 DEF PlatformInv, MadeOnce
  <2> QED BY <1>4, <2>7, <2>8, <2>9, <2>10 DEF PlatformInv
<1> QED BY <1>5, <1>6

\* The first mapping of a person is inserted by the call that made the account.
LEMMA InsertKeeps ==
  ASSUME PlatformInv, NEW v \in Visit, InsertMapping(v)
  PROVE  PlatformInv'
<1>1. PICK y : y = visit[v]
  OBVIOUS
<1>2. PICK p : p = y.person
  OBVIOUS
<1>3. /\ y.at = "made" /\ Shaped(y) /\ Fits(y) /\ p \in Person /\ y.user \in Nat
      /\ UNCHANGED <<accounts, remembered, popping, lastUser, overtaken, halfMade>>
  BY <1>1, <1>2 DEF PlatformInv, PlatformShapes, Shaped, InsertMapping
<1>4. CASE mapped[p] = NoUser
  <2> DEFINE Told(w) == IF w = v THEN [visit[v] EXCEPT !.at = "mapped"]
                        ELSE [visit[w] EXCEPT !.beaten = @ \/ (visit[w].at = "missing"
                                                               /\ visit[w].person = p)]
  <2>1. /\ mapped' = [mapped EXCEPT ![p] = y.user]
        /\ visit' = [w \in Visit |-> Told(w)]
    BY <1>1, <1>2, <1>4 DEF InsertMapping
  <2>2. ASSUME NEW w \in Visit
        PROVE  /\ Shaped(visit'[w])
               /\ visit'[w].at = IF w = v THEN "mapped" ELSE visit[w].at
               /\ visit'[w].person = visit[w].person /\ visit'[w].user = visit[w].user
               /\ visit[w].beaten => visit'[w].beaten
               /\ w # v /\ visit[w].at = "missing" /\ visit[w].person = p => visit'[w].beaten
    <3>1. PICK o : o = visit[w]
      OBVIOUS
    <3>2. Shaped(o)
      BY <3>1 DEF PlatformInv, PlatformShapes
    <3>3. CASE w = v
      <4>1. visit'[w] = [o EXCEPT !.at = "mapped"] /\ o.at = "made"
        BY <1>1, <1>3, <2>1, <3>1, <3>3
      <4> QED BY <3>1, <3>2, <3>3, <4>1 DEF Shaped
    <3>4. CASE w # v
      <4>1. PICK told : told = (o.beaten \/ (o.at = "missing" /\ o.person = p))
        OBVIOUS
      <4>2. visit'[w] = [o EXCEPT !.beaten = told]
        BY <2>1, <3>1, <3>4, <4>1
      <4>3. told \/ ~(o.beaten \/ (o.at = "missing" /\ o.person = p))
        BY <4>1
      <4> QED BY <3>1, <3>2, <3>4, <4>2, <4>3 DEF Shaped
    <3> QED BY <3>3, <3>4
  <2> HIDE DEF Told
  <2>3. /\ mapped'[p] = y.user /\ \A q \in Person \ {p} : mapped'[q] = mapped[q]
        /\ DOMAIN visit' = Visit /\ mapped' \in [Person -> Nat \cup {NoUser}]
    BY <1>3, <2>1 DEF PlatformInv, PlatformShapes
  <2>4. PlatformShapes'
    BY <1>3, <2>2, <2>3 DEF PlatformInv, PlatformShapes
  <2>5. ASSUME NEW w \in Visit PROVE Fits(visit[w])'
    <3>1. Fits(visit[w]) /\ Shaped(visit[w])
      BY DEF PlatformInv, PlatformShapes
    <3>2. visit[w].at = "found" /\ visit[w].person = p => p \in overtaken /\ p \in halfMade
      BY <1>4, <3>1, PlatformAssumption DEF Fits, Shaped
    <3>3. w # v /\ visit[w].at = "made" /\ visit[w].person = p => p \in halfMade
      BY <1>1, <1>2, <1>3 DEF PlatformInv, MadeOnce
    <3>4. visit[w].at # "idle" => visit[w].person \in Person
      BY <3>1 DEF Shaped
    <3>5. visit'[w].at = "found" =>
            /\ visit'[w].user = mapped'[visit'[w].person] \/ visit'[w].person \in overtaken'
            /\ visit'[w].person \in halfMade' \/ visit'[w].user = mapped'[visit'[w].person]
      BY <1>3, <2>2, <2>3, <3>1, <3>2, <3>4 DEF Fits
    <3>6. visit'[w].at = "made" =>
            \/ visit'[w].person \in halfMade'
            \/ /\ mapped'[visit'[w].person] = NoUser
               /\ Account(visit'[w].user, visit'[w].person) \in accounts'
      BY <1>3, <2>2, <2>3, <3>1, <3>3, <3>4 DEF Fits
    <3>7. visit'[w].at = "failed" => visit'[w].beaten \/ visit'[w].person \in halfMade'
      BY <1>3, <2>2, <3>1 DEF Fits
    <3> QED BY <3>5, <3>6, <3>7 DEF Fits, Account
  <2>6. ASSUME NEW q \in Person PROVE Whole(q)'
    <3>1. CASE q = p
      <4>1. p \notin halfMade => Account(y.user, p) \in accounts
        BY <1>2, <1>3 DEF Fits
      <4>2. ASSUME NEW w \in Visit, visit'[w].at = "missing", visit'[w].person = p
            PROVE  visit'[w].beaten
        BY <2>2, <4>2
      <4>3. y.user # NoUser
        BY <1>3, PlatformAssumption
      <4> QED BY <1>3, <2>3, <3>1, <4>1, <4>2, <4>3 DEF Whole, Account
    <3>2. CASE q # p
      <4>1. Whole(q) /\ mapped'[q] = mapped[q]
        BY <2>3, <3>2 DEF PlatformInv
      <4>2. ASSUME NEW w \in Visit, visit'[w].at = "missing", visit'[w].person = q,
                   q \notin halfMade, mapped[q] # NoUser
            PROVE  visit'[w].beaten
        BY <2>2, <4>1, <4>2 DEF Whole
      <4>3. ASSUME NEW w \in Visit, visit[w].at = "made", visit[w].person = q
            PROVE  visit'[w].at = "made" /\ visit'[w].person = q
        BY <1>1, <1>2, <2>2, <3>2, <4>3
      <4> QED BY <1>3, <4>1, <4>2, <4>3 DEF Whole, Account
    <3> QED BY <3>1, <3>2
  <2>7. MadeOnce'
    BY <1>3, <2>2 DEF PlatformInv, MadeOnce
  <2>8. CacheFollowsMapping'
    BY <1>3, <1>4, <2>3 DEF PlatformInv, CacheFollowsMapping
  <2> QED BY <2>4, <2>5, <2>6, <2>7, <2>8 DEF PlatformInv
<1>5. CASE mapped[p] # NoUser
  <2>1. PICK x : x = [y EXCEPT !.at = "winner"]
    OBVIOUS
  <2>2. visit' = [visit EXCEPT ![v] = x] /\ UNCHANGED mapped
    BY <1>1, <1>2, <1>5, <2>1 DEF InsertMapping, PlatformInv, PlatformShapes
  <2>3. Shaped(x) /\ x.at = "winner" /\ x.person = p
    BY <1>2, <1>3, <2>1 DEF Shaped
  <2>4. /\ visit'[v] = x /\ DOMAIN visit' = Visit
        /\ \A w \in Visit \ {v} : visit'[w] = visit[w]
    BY <2>2 DEF PlatformInv, PlatformShapes
  <2>5. p \in halfMade
    BY <1>2, <1>3, <1>5 DEF Fits
  <2>6. PlatformShapes'
    BY <1>3, <2>2, <2>3, <2>4 DEF PlatformInv, PlatformShapes
  <2>7. ASSUME NEW w \in Visit PROVE Fits(visit[w])'
    <3>1. CASE w = v
      BY <2>3, <2>4, <3>1 DEF Fits
    <3>2. CASE w # v
      BY <1>3, <2>2, <2>4, <3>2 DEF PlatformInv, Fits
    <3> QED BY <3>1, <3>2
  <2>8. ASSUME NEW q \in Person PROVE Whole(q)'
    <3>1. CASE q = p
      BY <1>3, <2>5, <3>1 DEF Whole
    <3>2. CASE q # p
      BY <1>1, <1>2, <1>3, <2>2, <2>3, <2>4, <3>2 DEF PlatformInv, Whole
    <3> QED BY <3>1, <3>2
  <2>9. MadeOnce' /\ CacheFollowsMapping'
    BY <1>3, <2>2, <2>3, <2>4 DEF PlatformInv, MadeOnce, CacheFollowsMapping
  <2> QED BY <2>6, <2>7, <2>8, <2>9 DEF PlatformInv
<1> QED BY <1>4, <1>5

\* Answer: the step preserves the invariant.
LEMMA AnswerKeeps ==
  ASSUME PlatformInv, NEW v \in Visit, AnswerFirst(v) \/ VisitEnds(v)
  PROVE  PlatformInv'
<1>1. PICK y : y = visit[v]
  OBVIOUS
<1>2. /\ y.at \in {"mapped", "winner", "answered", "failed"} /\ Shaped(y)
      /\ UNCHANGED <<accounts, mapped, popping, lastUser, halfMade>>
  BY <1>1 DEF PlatformInv, PlatformShapes, AnswerFirst, VisitEnds
<1>3. CASE AnswerFirst(v)
  <2>1. PICK u : u = IF y.at = "winner" /\ Alive(mapped[y.person]) THEN mapped[y.person]
                     ELSE y.user
    OBVIOUS
  <2>2. PICK x : x = [y EXCEPT !.at = "answered", !.user = u]
    OBVIOUS
  <2>3. /\ visit' = [visit EXCEPT ![v] = x]
        /\ remembered' = [remembered EXCEPT ![y.person] = u]
        /\ overtaken' = IF u = mapped[y.person] THEN overtaken ELSE overtaken \cup {y.person}
    <3>1. /\ visit' = [visit EXCEPT ![v].at = "answered", ![v].user = u]
          /\ remembered' = [remembered EXCEPT ![y.person] = u]
          /\ overtaken' = IF u = mapped[y.person] THEN overtaken ELSE overtaken \cup {y.person}
      BY <1>1, <1>3, <2>1 DEF AnswerFirst, Answered
    <3> QED BY <1>1, <2>2, <3>1 DEF PlatformInv, PlatformShapes
  <2>4. Shaped(x) /\ Fits(x) /\ x.at = "answered" /\ y.person \in Person
    BY <1>2, <2>2 DEF Shaped, Fits
  <2>5. CacheFollowsMapping' /\ DOMAIN remembered' = Person /\ overtaken \subseteq overtaken'
    BY <1>2, <2>3, <2>4 DEF PlatformInv, CacheFollowsMapping, PlatformShapes
  <2> QED BY <1>1, <1>2, <2>3, <2>4, <2>5, VisitMoves
<1>4. CASE VisitEnds(v)
  <2>1. visit' = [visit EXCEPT ![v] = NoVisit] /\ UNCHANGED <<remembered, overtaken>>
    BY <1>4 DEF VisitEnds
  <2>2. Shaped(NoVisit) /\ Fits(NoVisit) /\ NoVisit.at = "idle"
    BY DEF Shaped, Fits, NoVisit
  <2>3. CacheFollowsMapping' /\ DOMAIN remembered' = Person
    BY <1>2, <2>1 DEF PlatformInv, CacheFollowsMapping, PlatformShapes
  <2> QED BY <1>1, <1>2, <2>1, <2>2, <2>3, VisitMoves
<1> QED BY <1>3, <1>4

\* A step that leaves the calls alone, but for those it ends, ...
CallsEnd ==
  /\ DOMAIN visit' = Visit
  /\ \A w \in Visit :
       \/ visit'[w] = visit[w]
       \/ visit'[w] = NoVisit /\ (visit[w].at = "made" => visit[w].person \in halfMade')

\* ... keeps account and mapping of every person who is not half made then ...
PersonsKept ==
  /\ mapped' \in [Person -> Nat \cup {NoUser}] /\ DOMAIN remembered' = Person
  /\ lastUser' = lastUser /\ halfMade \subseteq halfMade' /\ accounts' \subseteq accounts
  /\ \A p \in Person \ halfMade' :
       mapped'[p] = mapped[p] /\ \A a \in accounts : a.email = p => a \in accounts'

\* ... and takes note of the calls whose reading it makes old.
ReadingsKnown ==
  \A w \in Visit : visit[w].at = "found" =>
     \/ visit[w].person \in overtaken'
     \/ mapped'[visit[w].person] = mapped[visit[w].person] /\ visit[w].person \notin overtaken

\* What an administrator or the clock does to the cache and the mappings
\* preserves the invariant, if calls end or keep what they read.
LEMMA OutsideCalls ==
  ASSUME PlatformInv, CallsEnd, PersonsKept, ReadingsKnown, CacheFollowsMapping'
  PROVE  PlatformInv'
<1>0. Shaped(NoVisit) /\ NoVisit.at = "idle"
  BY DEF Shaped, NoVisit
<1>1. PlatformShapes'
  BY <1>0 DEF PlatformInv, PlatformShapes, CallsEnd, PersonsKept
<1>2. ASSUME NEW w \in Visit PROVE Fits(visit[w])'
  <2>1. CASE visit'[w] = NoVisit
    BY <1>0, <2>1 DEF Fits
  <2>2. CASE visit'[w] = visit[w]
    <3>1. PICK z : z = visit[w]
      OBVIOUS
    <3>2. Fits(z) /\ Shaped(z)
      BY <3>1 DEF PlatformInv, PlatformShapes
    <3>3. CASE z.at = "found"
      BY <2>2, <3>1, <3>2, <3>3 DEF Fits, Shaped, PersonsKept, ReadingsKnown
    <3>4. CASE z.at = "made"
      <4>1. z.person \in Person /\ Account(z.user, z.person).email = z.person
        BY <3>2, <3>4 DEF Shaped, Account
      <4>2. z.person \notin halfMade' =>
              mapped'[z.person] = NoUser /\ Account(z.user, z.person) \in accounts'
        BY <3>2, <3>4, <4>1 DEF Fits, PersonsKept
      <4>3. Fits(z)'
        BY <3>4, <4>2 DEF Fits, Account
      <4> QED BY <2>2, <3>1, <4>3 DEF Fits
    <3>5. CASE z.at \notin {"made", "found"}
      BY <2>2, <3>1, <3>2, <3>5 DEF Fits, PersonsKept
    <3> QED BY <3>3, <3>4, <3>5
  <2> QED BY <2>1, <2>2 DEF CallsEnd
<1>3. ASSUME NEW p \in Person PROVE Whole(p)'
  <2> SUFFICES ASSUME p \notin halfMade' PROVE Whole(p)'
    BY DEF Whole
  <2>1. Whole(p) /\ p \notin halfMade /\ mapped'[p] = mapped[p]
    BY DEF PlatformInv, PersonsKept
  <2>2. \A w \in Visit : visit'[w].at = "missing" => visit'[w] = visit[w]
    BY <1>0 DEF CallsEnd
  <2>3. \A w \in Visit : visit[w].at = "made" /\ visit[w].person = p => visit'[w] = visit[w]
    BY DEF CallsEnd
  <2>4. \A a \in accounts' : a \in accounts
    BY DEF PersonsKept
  <2>5. mapped[p] # NoUser => Account(mapped[p], p) \in accounts'
    BY <2>1 DEF Whole, Account, PersonsKept
  <2> QED BY <2>1, <2>2, <2>3, <2>4, <2>5 DEF Whole, Account
<1>4. MadeOnce'
  BY <1>0 DEF PlatformInv, MadeOnce, CallsEnd, PersonsKept
<1> QED BY <1>1, <1>2, <1>3, <1>4 DEF PlatformInv

\* Edit: the step preserves the invariant.
LEMMA EditKeeps ==
  ASSUME PlatformInv,
         \/ \E v \in Visit : VisitBreaks(v)
         \/ \E p \in Person : EntryExpires(p) \/ PopEntry(p)
         \/ \E p \in Person, u \in {0, NoUser} : ChangeMapping(p, u)
         \/ \E a \in accounts : DeleteUser(a)
  PROVE  PlatformInv'
<1>0. /\ DOMAIN visit = Visit /\ DOMAIN remembered = Person
      /\ mapped \in [Person -> Nat \cup {NoUser}]
  BY DEF PlatformInv, PlatformShapes
<1>1. ASSUME NEW v \in Visit, VisitBreaks(v) PROVE PlatformInv'
  <2>1. /\ visit' = [visit EXCEPT ![v] = NoVisit] /\ halfMade' = halfMade \cup {visit[v].person}
        /\ UNCHANGED <<accounts, mapped, remembered, popping, lastUser, overtaken>>
    BY <1>1 DEF VisitBreaks
  <2>2. CacheFollowsMapping'
    BY <2>1 DEF PlatformInv, CacheFollowsMapping
  <2>3. CallsEnd /\ PersonsKept /\ ReadingsKnown
    BY <1>0, <2>1 DEF CallsEnd, PersonsKept, ReadingsKnown
  <2> QED BY <2>2, <2>3, OutsideCalls
<1>2. ASSUME NEW p \in Person, EntryExpires(p) PROVE PlatformInv'
  <2>1. /\ remembered' = [remembered EXCEPT ![p] = NoUser]
        /\ overtaken' = IF Reading(p) THEN overtaken ELSE overtaken \ {p}
        /\ UNCHANGED <<accounts, mapped, visit, popping, lastUser, halfMade>>
    BY <1>2 DEF EntryExpires
  <2>2. CacheFollowsMapping' /\ DOMAIN remembered' = Person
    BY <1>0, <2>1 DEF PlatformInv, CacheFollowsMapping
  <2>3. CallsEnd /\ PersonsKept
    BY <1>0, <2>1, <2>2 DEF CallsEnd, PersonsKept
  <2>4. ReadingsKnown
    BY <2>1 DEF Reading, ReadingsKnown
  <2> QED BY <2>2, <2>3, <2>4, OutsideCalls
<1>3. ASSUME NEW p \in Person, PopEntry(p) PROVE PlatformInv'
  <2>1. /\ popping' = popping \ {p} /\ remembered' = [remembered EXCEPT ![p] = NoUser]
        /\ UNCHANGED <<accounts, mapped, visit, lastUser, overtaken, halfMade>>
    BY <1>3 DEF PopEntry, EntryPopped
  <2>2. CacheFollowsMapping' /\ DOMAIN remembered' = Person
    BY <1>0, <2>1 DEF PlatformInv, CacheFollowsMapping
  <2>3. CallsEnd /\ PersonsKept /\ ReadingsKnown
    BY <1>0, <2>1, <2>2 DEF CallsEnd, PersonsKept, ReadingsKnown
  <2> QED BY <2>2, <2>3, OutsideCalls
<1>4. ASSUME NEW p \in Person, NEW u \in {0, NoUser}, ChangeMapping(p, u) PROVE PlatformInv'
  <2>1. /\ mapped' = [mapped EXCEPT ![p] = u] /\ popping' = popping \cup {p}
        /\ halfMade' = halfMade \cup {p}
        /\ overtaken \subseteq overtaken' /\ (Reading(p) => p \in overtaken')
        /\ UNCHANGED <<accounts, remembered, visit, lastUser>>
    BY <1>4 DEF ChangeMapping
  <2>2. CacheFollowsMapping'
    BY <1>0, <2>1 DEF PlatformInv, CacheFollowsMapping
  <2>3. CallsEnd /\ PersonsKept
    BY <1>0, <2>1 DEF CallsEnd, PersonsKept
  <2>4. ReadingsKnown
    BY <1>0, <2>1 DEF Reading, ReadingsKnown, PlatformInv, PlatformShapes, Shaped
  <2> QED BY <2>2, <2>3, <2>4, OutsideCalls
<1>5. ASSUME NEW a \in accounts, DeleteUser(a) PROVE PlatformInv'
  <2>1. /\ accounts' = accounts \ {a}
        /\ halfMade' = halfMade \cup {p \in Person : mapped[p] = a.id \/ a.email = p}
        /\ UNCHANGED <<mapped, remembered, visit, popping, lastUser, overtaken>>
    BY <1>5 DEF DeleteUser
  <2>2. CacheFollowsMapping'
    BY <2>1 DEF PlatformInv, CacheFollowsMapping
  <2>3. CallsEnd /\ PersonsKept /\ ReadingsKnown
    BY <1>0, <2>1 DEF CallsEnd, PersonsKept, ReadingsKnown
  <2> QED BY <2>2, <2>3, OutsideCalls
<1> QED BY <1>1, <1>2, <1>3, <1>4, <1>5

\* For any persons, messages and edits: the cache has the user of the mapping but for
\* the window of a change, and a message fails only if it was overtaken by
\* another first message or the account had lost its mapping
\* (auth/user_mapping.py, auth/user_store.py).
THEOREM PlatformIsHonest == PlatformSpec => []PlatformHonest
<1>1. PlatformInit => PlatformInv
  BY PlatformInitially
<1>2. PlatformInv /\ [PlatformNext]_platformVars => PlatformInv'
  <2> SUFFICES ASSUME PlatformInv, [PlatformNext]_platformVars PROVE PlatformInv'
    OBVIOUS
  <2>1. ASSUME NEW v \in Visit, NEW p \in Person, AnswerCached(v, p) \/ SelectMapping(v, p)
        PROVE  PlatformInv'
    BY <2>1, LookupKeeps
  <2>2. ASSUME NEW v \in Visit,
               SelectUser(v) \/ CreateUser(v) \/ InsertMapping(v) \/ AnswerFirst(v) \/ VisitEnds(v)
        PROVE  PlatformInv'
    BY <2>2, SelectUserKeeps, CreateKeeps, InsertKeeps, AnswerKeeps
  <2>3. CASE \/ \E v \in Visit : VisitBreaks(v)
             \/ \E p \in Person : EntryExpires(p) \/ PopEntry(p)
             \/ \E p \in Person, u \in {0, NoUser} : ChangeMapping(p, u)
             \/ \E a \in accounts : DeleteUser(a)
    BY <2>3, EditKeeps
  <2>4. CASE UNCHANGED platformVars
    <3>1. PlatformShapes' /\ MadeOnce' /\ CacheFollowsMapping'
      BY <2>4 DEF PlatformInv, PlatformShapes, MadeOnce, CacheFollowsMapping, platformVars
    <3>2. \A v \in Visit : Fits(visit[v])'
      BY <2>4 DEF PlatformInv, Fits, platformVars
    <3>3. \A p \in Person : Whole(p)'
      BY <2>4 DEF PlatformInv, Whole, platformVars
    <3> QED BY <3>1, <3>2, <3>3 DEF PlatformInv
  <2> QED BY <2>1, <2>2, <2>3, <2>4 DEF PlatformNext
<1>3. PlatformInv => PlatformHonest
  BY Honest
<1> QED BY <1>1, <1>2, <1>3, PTL DEF PlatformSpec

-----------------------------------------------------------------------------
(***************************************************************************)
(* Workspaces. What a store that deletion clears holds is the contents of  *)
(* a listed workspace, is about to be cleared, or is left or written as an *)
(* exception; what a member has chosen likewise.                           *)
(***************************************************************************)

\* What is in a store that is cleared is a listed workspace's, or is about to be
\* cleared, or is one of the exceptions.
ContentsClaimed ==
  \A w \in Workspace, s \in ClearedStores :
     <<w, s>> \in contents => w \in listed \/ s \in clearing[w] \/ w \in resurrected

\* Where a member is, or will be after a restart, he chose or was left in.
SettingsClaimed ==
  \A m \in Member : chosen[m] # Default => <<m, chosen[m]>> \in elected \cup lingering

WorkspaceInv ==
  /\ clearing \in [Workspace -> SUBSET ClearedStores]
  /\ DOMAIN active = Member /\ DOMAIN chosen = Member
  /\ ContentsClaimed /\ SettingsClaimed /\ MembersWhereTheyChose

\* The invariant holds in the initial states.
LEMMA WorkspacesInitially == WorkspaceInit => WorkspaceInv
BY DEF WorkspaceInit, WorkspaceInv, ContentsClaimed, SettingsClaimed, MembersWhereTheyChose

\* A deletion takes away no more than the choices of the workspace, whose members go
\* back to the default one and whose settings linger.
LEMMA DeleteKeeps ==
  ASSUME WorkspaceInv, NEW w \in Workspace, DeleteWorkspace(w)
  PROVE  WorkspaceInv'
<1>1. /\ listed' = listed \ {w} /\ resurrected' = resurrected \ {w}
      /\ active' = [m \in Member |-> IF active[m] = w THEN Default ELSE active[m]]
      /\ clearing' = [clearing EXCEPT ![w] = ClearedStores]
      /\ elected' = {e \in elected : e[2] # w}
      /\ lingering' = lingering \cup {<<m, w>> : m \in {m \in Member : chosen[m] = w}}
      /\ UNCHANGED <<chosen, contents>>
  BY DEF DeleteWorkspace, BackToDefault
<1>2. ContentsClaimed'
  BY <1>1 DEF WorkspaceInv, ContentsClaimed
<1>3. SettingsClaimed'
  <2> SUFFICES ASSUME NEW m \in Member, chosen[m] # Default
               PROVE  <<m, chosen[m]>> \in elected' \cup lingering'
    BY <1>1 DEF SettingsClaimed
  <2>1. <<m, chosen[m]>> \in elected \cup lingering
    BY DEF WorkspaceInv, SettingsClaimed
  <2> QED BY <2>1, <1>1
<1>4. MembersWhereTheyChose'
  <2> SUFFICES ASSUME NEW m \in Member, active'[m] \notin {Default, "none"}
               PROVE  <<m, active'[m]>> \in elected' \cup lingering'
    BY DEF MembersWhereTheyChose
  <2>1. active'[m] = active[m] /\ active[m] # w
    BY <1>1
  <2>2. <<m, active[m]>> \in elected \cup lingering
    BY <2>1 DEF WorkspaceInv, MembersWhereTheyChose
  <2> QED BY <2>1, <2>2, <1>1
<1> QED BY <1>1, <1>2, <1>3, <1>4 DEF WorkspaceInv

\* Clear: the step preserves the invariant.
LEMMA ClearKeeps ==
  ASSUME WorkspaceInv, NEW w \in Workspace, NEW s \in ClearedStores, ClearStore(w, s)
  PROVE  WorkspaceInv'
<1>1. /\ clearing' = [clearing EXCEPT ![w] = @ \ {s}]
      /\ \/ contents' = contents \ {<<w, s>>} /\ resurrected' = resurrected
         \/ contents' = contents /\ resurrected' = resurrected \cup {w}
      /\ UNCHANGED <<listed, active, chosen, elected, lingering>>
  BY DEF ClearStore
<1>2. ContentsClaimed'
  BY <1>1 DEF WorkspaceInv, ContentsClaimed
<1> QED BY <1>1, <1>2 DEF WorkspaceInv, SettingsClaimed, MembersWhereTheyChose

\* SetActive: the step preserves the invariant.
LEMMA SetActiveKeeps ==
  ASSUME WorkspaceInv, NEW w \in Workspace, NEW m \in Member, SetActive(m, w)
  PROVE  WorkspaceInv'
<1>1. /\ active' = [active EXCEPT ![m] = w] /\ elected' = elected \cup {<<m, w>>}
      /\ chosen' = [chosen EXCEPT ![m] = w] \/ chosen' = chosen
      /\ UNCHANGED <<listed, contents, clearing, resurrected, lingering>>
  BY DEF SetActive
<1> QED BY <1>1 DEF WorkspaceInv, ContentsClaimed, SettingsClaimed, MembersWhereTheyChose

\* LoadActive: the step preserves the invariant.
LEMMA LoadActiveKeeps ==
  ASSUME WorkspaceInv, NEW m \in Member, LoadActive(m)
  PROVE  WorkspaceInv'
BY DEF LoadActive, WorkspaceInv, ContentsClaimed, SettingsClaimed, MembersWhereTheyChose

\* What is written to a listed workspace is its contents, and what is written to another
\* one an exception.
LEMMA WritesKeep ==
  ASSUME WorkspaceInv, NEW w \in Workspace, NEW stores, Writes(w, stores),
         UNCHANGED <<listed, active, chosen, clearing, elected, lingering>>
  PROVE  WorkspaceInv'
<1>1. ContentsClaimed'
  <2> SUFFICES ASSUME NEW v \in Workspace, NEW s \in ClearedStores, <<v, s>> \in contents'
               PROVE  v \in listed \/ s \in clearing[v] \/ v \in resurrected'
    BY DEF ContentsClaimed
  <2>1. resurrected \subseteq resurrected'
    BY DEF Writes
  <2>2. CASE <<v, s>> \in contents
    BY <2>1, <2>2 DEF WorkspaceInv, ContentsClaimed
  <2>3. CASE <<v, s>> \in {w} \X stores
    BY <2>3 DEF Writes
  <2> QED BY <2>2, <2>3 DEF Writes
<1> QED BY <1>1 DEF WorkspaceInv, SettingsClaimed, MembersWhereTheyChose

\* ManagerRestart: the step preserves the invariant.
LEMMA ManagerRestartKeeps ==
  ASSUME WorkspaceInv, ManagerRestarts
  PROVE  WorkspaceInv'
BY DEF ManagerRestarts, WorkspaceInv, ContentsClaimed, SettingsClaimed, MembersWhereTheyChose

\* A workspace is listed, or nothing that matters changes.
LEMMA WorkspaceFrame ==
  ASSUME WorkspaceInv, listed \subseteq listed',
         UNCHANGED <<active, chosen, contents, clearing, resurrected, elected, lingering>>
  PROVE  WorkspaceInv'
BY DEF WorkspaceInv, ContentsClaimed, SettingsClaimed, MembersWhereTheyChose

\* For any workspaces, members, requests and failures, a deleted workspace has
\* nothing left in the collection and the graph and members are in workspaces they chose, but for the
\* exceptions the property names: workspaces/manager.py and api/routes/workspaces.py.
THEOREM WorkspacesAreHonest == WorkspaceSpec => []WorkspacesHonest
<1>1. WorkspaceInit => WorkspaceInv
  BY WorkspacesInitially
<1>2. WorkspaceInv /\ [WorkspaceNext]_workspaceVars => WorkspaceInv'
  <2> SUFFICES ASSUME WorkspaceInv, [WorkspaceNext]_workspaceVars PROVE WorkspaceInv'
    OBVIOUS
  <2>1. ASSUME NEW w \in Workspace, CreateWorkspace(w) \/ BeginFilling(w) PROVE WorkspaceInv'
    BY <2>1, WorkspaceFrame DEF CreateWorkspace, BeginFilling
  <2>2. ASSUME NEW w \in Workspace,
               \/ DeleteWorkspace(w) \/ Fill(w)
               \/ \E store \in {"connections", "memory"} : Keep(w, store)
        PROVE  WorkspaceInv'
    BY <2>2, DeleteKeeps, WritesKeep DEF Fill, Keep
  <2>3. ASSUME NEW w \in Workspace, NEW s \in ClearedStores, ClearStore(w, s)
        PROVE  WorkspaceInv'
    BY <2>3, ClearKeeps
  <2>4. ASSUME NEW w \in Workspace, NEW m \in Member, CheckWorkspace(m, w) \/ SetActive(m, w)
        PROVE  WorkspaceInv'
    BY <2>4, SetActiveKeeps, WorkspaceFrame DEF CheckWorkspace
  <2>5. ASSUME NEW m \in Member, LoadActive(m) PROVE WorkspaceInv'
    BY <2>5, LoadActiveKeeps
  <2>6. CASE ManagerRestarts
    BY <2>6, ManagerRestartKeeps
  <2>7. CASE UNCHANGED workspaceVars
    BY <2>7, WorkspaceFrame DEF workspaceVars
  <2> QED BY <2>1, <2>2, <2>3, <2>4, <2>5, <2>6, <2>7 DEF WorkspaceNext
<1>3. WorkspaceInv => WorkspacesHonest
  BY DEF WorkspaceInv, WorkspacesHonest, ContentsClaimed, ClearedAreEmpty, Gone
<1> QED BY <1>1, <1>2, <1>3, PTL DEF WorkspaceSpec

-----------------------------------------------------------------------------
(***************************************************************************)
(* A write waits for its confirmation. An action that one person alone     *)
(* answers is on its way out of the store once it is executed, and out of  *)
(* it once it is declined.                                                 *)
(***************************************************************************)

\* What a message holds: nothing, or an action that was planned.
HoldOK(m) ==
  /\ m.at = "silent" => m.action = NoAction
  /\ m.at # "silent" => m.action \in Action /\ owner[m.action] # NoAction

\* An action nobody planned has left no trace.
Untouched(a) == a \notin pending /\ executed[a] = 0 /\ a \notin declined

\* Two messages that hold one action make it contested.
OneHolder ==
  \A t, u \in Message :
     t # u /\ message[t].action = message[u].action /\ message[t].at # "silent" =>
        message[t].action \in contested

\* An uncontested action that was executed is on its way out of the store, and one
\* that was declined is out of it.
OnItsWay(a) ==
  /\ executed[a] # 0 =>
       /\ a \notin declined
       /\ \A t \in Message : message[t].action = a => message[t].at = "drop"
       /\ a \in pending => Held(a)
  /\ a \in declined => a \notin pending /\ ~Held(a)

ActionInv ==
  /\ pending \subseteq Action /\ executed \in [Action -> Nat]
  /\ DOMAIN owner = Action
  /\ message \in [Message -> [at : {"silent", "yes", "no", "drop"},
                               user : User \cup {NoAction}, action : Action \cup {NoAction}]]
  /\ \A t \in Message : HoldOK(message[t])
  /\ \A a \in Action : owner[a] = NoAction => Untouched(a)
  /\ OneHolder
  /\ \A a \in Action \ contested : executed[a] <= 1 /\ OnItsWay(a)

\* The messages but one keep what they hold.
LEMMA OthersHold ==
  ASSUME ActionInv, NEW t \in Message, NEW m, message' = [message EXCEPT ![t] = m]
  PROVE  \A u \in Message : message'[u] = IF u = t THEN m ELSE message[u]
BY DEF ActionInv

\* The invariant holds in the initial states.
LEMMA ActionInitially == ActionInit => ActionInv
BY PendingAssumption DEF ActionInit, ActionInitWith, ActionInv, HoldOK, Untouched, OneHolder,
   OnItsWay, Held, Silent

\* Plan: the step preserves the invariant.
LEMMA PlanKeeps ==
  ASSUME ActionInv, NEW u \in User, NEW a \in Action, Plan(u, a)
  PROVE  ActionInv'
<1>1. /\ owner[a] = NoAction /\ owner' = [owner EXCEPT ![a] = u]
      /\ pending' = Unexpired \cup {a} /\ Unexpired \subseteq pending
      /\ UNCHANGED <<message, executed, declined, contested>>
  BY DEF Plan, Unexpired
<1>2. u # NoAction
  BY PendingAssumption
<1>3. \A t \in Message : message[t].action # a
  BY <1>1, PendingAssumption DEF ActionInv, HoldOK
<1>4. \A t \in Message : HoldOK(message[t])'
  BY <1>1, <1>2 DEF ActionInv, HoldOK
<1>5. \A b \in Action : owner'[b] = NoAction => Untouched(b)'
  BY <1>1, <1>2 DEF ActionInv, Untouched
<1>6. OneHolder'
  BY <1>1 DEF ActionInv, OneHolder
<1>7. \A b \in Action \ contested' : executed'[b] <= 1 /\ OnItsWay(b)'
  BY <1>1 DEF ActionInv, OnItsWay, Held, Untouched
<1> QED BY <1>1, <1>4, <1>5, <1>6, <1>7 DEF ActionInv

\* Answer: the step preserves the invariant.
LEMMA ReplyKeeps ==
  ASSUME ActionInv, NEW t \in Message, NEW u \in User, NEW a \in Action,
         NEW word \in {"yes", "no"}, Answer(t, u, a, word)
  PROVE  ActionInv'
<1> DEFINE m == [at |-> word, user |-> u, action |-> a]
<1>1. /\ message[t] = Silent /\ a \in pending /\ message' = [message EXCEPT ![t] = m]
      /\ pending' \subseteq pending
      /\ contested' = IF Held(a) THEN contested \cup {a} ELSE contested
      /\ UNCHANGED <<owner, executed, declined>>
  BY DEF Answer, Latest, Unexpired
<1>2. \A v \in Message : message'[v] = IF v = t THEN m ELSE message[v]
  BY <1>1, OthersHold
<1>3. m.at = word /\ m.action = a /\ word # "silent" /\ owner[a] # NoAction
  BY <1>1 DEF ActionInv, Untouched
<1>4. /\ pending' \subseteq Action /\ executed' \in [Action -> Nat] /\ DOMAIN owner' = Action
      /\ message' \in [Message -> [at : {"silent", "yes", "no", "drop"},
                                    user : User \cup {NoAction}, action : Action \cup {NoAction}]]
  BY <1>1 DEF ActionInv
<1> HIDE DEF m
<1>5. \A v \in Message : HoldOK(message[v])'
  BY <1>1, <1>2, <1>3 DEF ActionInv, HoldOK
<1>6. \A b \in Action : owner'[b] = NoAction => Untouched(b)'
  BY <1>1 DEF ActionInv, Untouched
<1>7. OneHolder'
  BY <1>1, <1>2, <1>3 DEF ActionInv, OneHolder, Held
<1>8. \A b \in Action \ contested' : executed'[b] <= 1 /\ OnItsWay(b)'
  <2> SUFFICES ASSUME NEW b \in Action \ contested'
               PROVE  executed'[b] <= 1 /\ OnItsWay(b)'
    OBVIOUS
  <2>1. b \notin contested /\ executed[b] <= 1 /\ OnItsWay(b)
    BY <1>1 DEF ActionInv
  <2>2. CASE b = a
    BY <2>1, <2>2, <1>1 DEF OnItsWay
  <2>3. CASE b # a
    <3>1. Silent.action = NoAction /\ b # NoAction
      BY PendingAssumption DEF Silent
    <3>2. \A v \in Message : message'[v].action = b <=> message[v].action = b
      BY <2>3, <1>1, <1>2, <1>3, <3>1
    <3>3. \A v \in Message : message'[v].action = b => message'[v] = message[v]
      BY <2>3, <1>2, <1>3
    <3> QED BY <2>1, <1>1, <3>2, <3>3 DEF OnItsWay, Held
  <2> QED BY <2>2, <2>3
<1> QED BY <1>4, <1>5, <1>6, <1>7, <1>8 DEF ActionInv

\* A "yes" has done its work, executed or not.
LEMMA ExecuteKeeps ==
  ASSUME ActionInv, NEW t \in Message, Execute(t) \/ ExecuteFails(t)
  PROVE  ActionInv'
<1> DEFINE a == message[t].action
           m == [message[t] EXCEPT !.at = "drop"]
<1>1. /\ message[t].at = "yes" /\ message' = [message EXCEPT ![t] = m]
      /\ UNCHANGED <<pending, owner, declined, contested>>
      /\ \/ executed' = [executed EXCEPT ![a] = IF @ < 2 THEN @ + 1 ELSE @]
         \/ executed' = executed
  BY DEF Execute, ExecuteFails, ActionInv
<1>2. \A v \in Message : message'[v] = IF v = t THEN m ELSE message[v]
  BY <1>1, OthersHold
<1>3. /\ m.at = "drop" /\ m.action = a /\ a \in Action /\ owner[a] # NoAction
      /\ m \in [at : {"silent", "yes", "no", "drop"}, user : User \cup {NoAction},
                 action : Action \cup {NoAction}]
  BY <1>1 DEF ActionInv, HoldOK
<1>4. /\ pending' \subseteq Action /\ executed' \in [Action -> Nat] /\ DOMAIN owner' = Action
      /\ message' \in [Message -> [at : {"silent", "yes", "no", "drop"},
                                    user : User \cup {NoAction}, action : Action \cup {NoAction}]]
  BY <1>1, <1>3 DEF ActionInv
<1>5. \A v \in Message : message'[v].action = message[v].action
  BY <1>2, <1>3
<1>6. \A b \in Action \ {a} : executed'[b] = executed[b]
  BY <1>1 DEF ActionInv
<1> HIDE DEF m, a
<1>7. \A v \in Message : HoldOK(message[v])'
  BY <1>1, <1>2, <1>3 DEF ActionInv, HoldOK
<1>8. \A b \in Action : owner'[b] = NoAction => Untouched(b)'
  BY <1>1, <1>3, <1>6 DEF ActionInv, Untouched
<1>9. OneHolder'
  BY <1>1, <1>2, <1>3, <1>5 DEF ActionInv, OneHolder, a
<1>10. \A b \in Action \ contested' : executed'[b] <= 1 /\ OnItsWay(b)'
  <2> SUFFICES ASSUME NEW b \in Action \ contested'
               PROVE  executed'[b] <= 1 /\ OnItsWay(b)'
    OBVIOUS
  <2>1. b \notin contested /\ executed[b] <= 1 /\ OnItsWay(b)
    BY <1>1 DEF ActionInv
  <2>2. CASE b = a
    <3>1. executed[b] = 0 /\ Held(b)
      BY <2>1, <2>2, <1>1 DEF OnItsWay, Held, a
    <3>2. executed'[b] <= 1
      BY <3>1, <2>2, <1>1, <1>3 DEF ActionInv
    <3>3. \A v \in Message \ {t} : message[v].action # b
      BY <2>1, <2>2, <1>1 DEF ActionInv, OneHolder, a
    <3>4. Held(b)'
      BY <2>2, <1>2, <1>3 DEF Held
    <3> QED BY <3>1, <3>2, <3>3, <3>4, <2>1, <1>1, <1>2, <1>3 DEF OnItsWay
  <2>3. CASE b # a
    <3>1. \A v \in Message : message'[v].action = b => message'[v] = message[v]
      BY <2>3, <1>2, <1>3
    <3> QED BY <2>1, <2>3, <1>1, <1>5, <1>6, <3>1 DEF OnItsWay, Held
  <2> QED BY <2>2, <2>3
<1> QED BY <1>4, <1>7, <1>8, <1>9, <1>10 DEF ActionInv

\* The message lets go of its action, which leaves the store unless the execution raised.
LEMMA SettleKeeps ==
  ASSUME ActionInv, NEW t \in Message, Settle(t) \/ ExecuteRaises(t)
  PROVE  ActionInv'
<1> DEFINE a == message[t].action
<1>1. /\ message[t].at # "silent" /\ message' = [message EXCEPT ![t] = Silent]
      /\ pending' = IF message[t].at = "yes" THEN pending ELSE pending \ {a}
      /\ UNCHANGED <<owner, executed, contested>>
      /\ declined' = IF message[t].at = "no" THEN declined \cup {a} ELSE declined
  BY DEF Settle, ExecuteRaises, RemoveFrom
<1>2. \A v \in Message : message'[v] = IF v = t THEN Silent ELSE message[v]
  BY <1>1, OthersHold
<1>3. /\ Silent.at = "silent" /\ Silent.action = NoAction /\ a \in Action /\ owner[a] # NoAction
      /\ NoAction \notin Action
      /\ Silent \in [at : {"silent", "yes", "no", "drop"}, user : User \cup {NoAction},
                      action : Action \cup {NoAction}]
  BY <1>1, PendingAssumption DEF ActionInv, HoldOK, Silent
<1>4. /\ pending' \subseteq Action /\ executed' \in [Action -> Nat] /\ DOMAIN owner' = Action
      /\ message' \in [Message -> [at : {"silent", "yes", "no", "drop"},
                                    user : User \cup {NoAction}, action : Action \cup {NoAction}]]
  BY <1>1, <1>3 DEF ActionInv
<1> HIDE DEF a
<1>5. \A v \in Message : HoldOK(message[v])'
  BY <1>1, <1>2, <1>3 DEF ActionInv, HoldOK
<1>6. \A b \in Action : owner'[b] = NoAction => Untouched(b)'
  BY <1>1, <1>3 DEF ActionInv, Untouched
<1>7. OneHolder'
  <2> SUFFICES ASSUME NEW v \in Message, NEW u \in Message, v # u,
                      message'[v].action = message'[u].action, message'[v].at # "silent"
               PROVE  message'[v].action \in contested
    BY <1>1 DEF OneHolder
  <2>1. message'[v] = message[v] /\ message[v].action \in Action
    BY <1>2, <1>3 DEF ActionInv, HoldOK
  <2>2. message'[u] = message[u]
    BY <2>1, <1>2, <1>3
  <2> QED BY <2>1, <2>2 DEF ActionInv, OneHolder
<1>8. \A b \in Action \ contested' : executed'[b] <= 1 /\ OnItsWay(b)'
  <2> SUFFICES ASSUME NEW b \in Action \ contested'
               PROVE  executed'[b] <= 1 /\ OnItsWay(b)'
    OBVIOUS
  <2>1. b \notin contested /\ executed[b] <= 1 /\ OnItsWay(b)
    BY <1>1 DEF ActionInv
  <2>2. \A v \in Message : message'[v].action = b => v # t /\ message'[v] = message[v]
    BY <1>2, <1>3
  <2>3. CASE b = a
    <3>1. \A v \in Message \ {t} : message[v].action # b
      BY <2>1, <2>3, <1>1 DEF ActionInv, OneHolder, a
    <3>2. ~Held(b)'
      BY <3>1, <2>2, <2>3, <1>1 DEF Held
    <3>3. executed[b] # 0 \/ b \in declined' => b \notin pending'
      BY <2>1, <2>3, <1>1 DEF OnItsWay, Held, a
    <3>4. executed[b] # 0 => b \notin declined'
      BY <2>1, <2>3, <1>1 DEF OnItsWay, a
    <3> QED BY <3>2, <3>3, <3>4, <2>1, <1>1 DEF OnItsWay, Held
  <2>4. CASE b # a
    <3>1. Held(b) => Held(b)'
      <4>1. \A v \in Message : message[v].action = b => v # t
        BY <2>4 DEF a
      <4> QED BY <4>1, <1>2 DEF Held
    <3> QED BY <3>1, <2>1, <2>2, <2>4, <1>1 DEF OnItsWay, Held
  <2> QED BY <2>3, <2>4
<1> QED BY <1>4, <1>5, <1>6, <1>7, <1>8 DEF ActionInv

\* A restart, which empties the store and ends the threads, preserves the
\* invariant.
LEMMA ActionsRestart ==
  ASSUME ActionInv, ProcessRestarts
  PROVE  ActionInv'
<1>1. /\ pending' = {} /\ message' = [t \in Message |-> Silent]
      /\ UNCHANGED <<owner, executed, declined, contested>>
  BY DEF ProcessRestarts
<1>2. \A a \in Action : ~Held(a)'
  BY <1>1, PendingAssumption DEF Held, Silent
<1> QED BY <1>1, <1>2 DEF ActionInv, HoldOK, Untouched, OneHolder, OnItsWay, Held, Silent

\* The invariant reads neither places, ages nor bounds.
LEMMA ActionFrame ==
  ASSUME ActionInv, UNCHANGED <<pending, owner, message, executed, declined, contested>>
  PROVE  ActionInv'
BY DEF ActionInv, HoldOK, Untouched, OneHolder, OnItsWay, Held

\* For any number of users, actions and messages handled at once, a "yes" executes
\* an action once and never one the user was told is cancelled, unless two messages
\* were given the same action: ActionStore and AgentRouter._check_confirmation.
THEOREM ActionsConfirmedOnce == ActionSpec => []ConfirmedOnce
<1>1. ActionInit => ActionInv
  BY ActionInitially
<1>2. ActionInv /\ [ActionNext]_actionVars => ActionInv'
  <2> SUFFICES ASSUME ActionInv, [ActionNext]_actionVars PROVE ActionInv'
    OBVIOUS
  <2>1. ASSUME NEW u \in User, NEW a \in Action, Plan(u, a) PROVE ActionInv'
    BY <2>1, PlanKeeps
  <2>2. ASSUME NEW t \in Message, NEW u \in User, NEW a \in Action,
               NEW word \in {"yes", "no"}, Answer(t, u, a, word)
        PROVE  ActionInv'
    BY <2>2, ReplyKeeps
  <2>3. ASSUME NEW t \in Message,
               Execute(t) \/ ExecuteFails(t) \/ ExecuteRaises(t) \/ Settle(t)
        PROVE  ActionInv'
    BY <2>3, ExecuteKeeps, SettleKeeps
  <2>4. ASSUME NEW a \in Action, Lapse(a) PROVE ActionInv'
    BY <2>4, ActionFrame DEF Lapse
  <2>5. CASE ProcessRestarts
    BY <2>5, ActionsRestart
  <2>6. CASE UNCHANGED actionVars
    BY <2>6, ActionFrame DEF actionVars
  <2> QED BY <2>1, <2>2, <2>3, <2>4, <2>5, <2>6 DEF ActionNext
<1>3. ActionInv => ConfirmedOnce
  BY DEF ActionInv, ConfirmedOnce, OnItsWay
<1> QED BY <1>1, <1>2, <1>3, PTL DEF ActionSpec

-----------------------------------------------------------------------------
(***************************************************************************)
(* Channels and their pollers. A poller is in the hands of one, the tables *)
(* or a request that stops it; a crash still to be recorded clears the     *)
(* place of another only where that was usurped; and a request that is     *)
(* alone with its channel finds tables and row as they are.                *)
(***************************************************************************)

Hand == Endpoint \cup {Sweeper}
Steps == {"idle", "read", "stop", "halt", "start", "erase", "look"}
Request == [at : Steps, conn : Channel \cup {NoOne}, victim : Poller \cup {NoOne},
            token : Token \cup {NoOne}, next : {"idle", "start", "erase", "look"},
            live : SUBSET Channel]
PollerType == [at : {"none", "polling", "crashing", "returned"},
               conn : Channel \cup {NoOne}, token : Token \cup {NoOne}]

\* A request that is not stopping a poller awaits none; an endpoint's is about a
\* channel, the sweep's about all.
RequestOK(h, r) ==
  /\ r.at = "idle" => r = Asleep
  /\ r.at = "halt" <=> r.victim # NoOne
  /\ h = Sweeper => r.conn = NoOne /\ r.at \in {"idle", "look", "halt"}
                    /\ (r.at = "halt" => r.next = "look")
  /\ h # Sweeper => /\ r.at # "idle" => r.conn \in Channel
                    /\ r.next # "look" /\ r.at # "look"

ChannelShapes ==
  /\ rows \in [Channel -> {"new", "on", "off", "gone"}]
  /\ config \in [Channel -> Token \cup {NoOne}]
  /\ running \in [Channel -> Poller \cup {NoOne}]
  /\ slots \in [Token -> Channel \cup {NoOne}]
  /\ poller \in [Poller -> PollerType]
  /\ request \in [Hand -> Request]
  /\ \A p \in Poller : IF poller[p].at = "none" THEN poller[p] = NoPoller
                       ELSE poller[p].conn \in Channel /\ poller[p].token \in Token
  /\ \A h \in Hand : RequestOK(h, request[h])

\* A poller is in the hands of one: the tables, or a request that stops it.
InOneHand ==
  /\ \A h \in Hand : request[h].victim # NoOne =>
       /\ poller[request[h].victim].at # "none"
       /\ \A c \in Channel : running[c] # request[h].victim
       /\ \A k \in Hand \ {h} : request[k].victim # request[h].victim
  /\ \A c \in Channel : running[c] # NoOne => poller[running[c]].at # "none"

\* A crash that is still to be recorded clears the place of another poller only
\* where usurped says so.
CrashesNoted ==
  \A p \in Poller : poller[p].at = "crashing" =>
     running[poller[p].conn] \in {p, NoOne} \/ poller[p].conn \in usurped

\* A request alone with its channel finds the tables and the row as it goes by.
ChannelFits(r, c) ==
  /\ c \notin drift \cap stale /\ r.at \in {"start", "halt", "erase"} => running[c] = NoOne
  /\ c \notin drift /\ (r.at \in {"read", "start"} \/ r.next = "start") => rows[c] = "on"
  /\ c \notin stale /\ r.at = "read" => rows[c] = "on"
  /\ c \notin stale /\ (r.at = "start" \/ r.next = "start") => r.token = config[c]
  /\ r.at = "start" \/ r.next = "start" => r.token \in Token

\* A row, its poller, and the one request that is busy with it.
ChannelOK(c) ==
  /\ rows[c] = "new" => running[c] = NoOne /\ ~Handled(c)
  /\ rows[c] # "new" => config[c] \in Token
  /\ ~Handled(c) /\ running[c] # NoOne =>
       /\ c \notin drift /\ (Sweeping => c \in request[Sweeper].live) => rows[c] = "on"
       /\ c \notin stale => poller[running[c]].token = config[c]
  /\ c \notin drift \cap stale =>
       \A h, k \in Endpoint : request[h].conn = c /\ request[k].conn = c => h = k
  /\ \A h \in Endpoint : request[h].conn = c => ChannelFits(request[h], c)

ChannelInv ==
  /\ ChannelShapes /\ InOneHand /\ CrashesNoted
  /\ PollersAccounted
  /\ \A c \in Channel : ChannelOK(c)

\* A request at rest holds no connection and no poller.
LEMMA AsleepRequest ==
  /\ Asleep \in Request /\ Asleep.at = "idle" /\ Asleep.conn = NoOne /\ Asleep.victim = NoOne
  /\ Asleep.token = NoOne /\ Asleep.next = "idle" /\ Asleep.live = {}
  /\ \A h \in Hand : RequestOK(h, Asleep)
BY DEF Asleep, Request, Steps, RequestOK

\* A poller not yet made is of the type of pollers.
LEMMA NoPollerType == NoPoller \in PollerType /\ NoPoller.at = "none" /\ NoPoller.conn = NoOne
BY DEF NoPoller, PollerType

\* The invariant holds in the initial states.
LEMMA ChannelsInitially == ChannelInit => ChannelInv
<1> SUFFICES ASSUME ChannelInit PROVE ChannelInv
  OBVIOUS
<1> USE DEF ChannelInit, ChannelInitWith
<1>1. ChannelShapes
  BY AsleepRequest, NoPollerType DEF ChannelShapes, Hand
<1>2. InOneHand /\ CrashesNoted
  BY AsleepRequest, NoPollerType DEF InOneHand, CrashesNoted, Hand
<1>3. PollersAccounted
  BY NoPollerType DEF PollersAccounted, TokensApart, PollersReachable
<1>4. \A c \in Channel : ChannelOK(c)
  BY AsleepRequest, ChannelAssumption DEF ChannelOK, Handled, ChannelFits
<1> QED BY <1>1, <1>2, <1>3, <1>4 DEF ChannelInv

\* A channel that a step is not about.
LEMMA OtherChannel ==
  ASSUME NEW d \in Channel, ChannelOK(d), rows'[d] = rows[d], config'[d] = config[d],
         running'[d] \in {running[d], NoOne},
         running'[d] # NoOne => poller'[running[d]].token = poller[running[d]].token,
         \A k \in Endpoint : request[k].conn = d \/ request'[k].conn = d =>
            request'[k] = request[k],
         running'[d] # NoOne /\ Sweeping /\ Sweeping' =>
            request'[Sweeper].live = request[Sweeper].live,
         running'[d] # NoOne /\ Sweeping /\ ~Sweeping' => d \in request[Sweeper].live,
         d \in drift => d \in drift', d \in stale => d \in stale'
  PROVE  ChannelOK(d)'
<1>1. Handled(d)' <=> Handled(d)
  BY DEF Handled
<1>2. \A k \in Endpoint : request'[k].conn = d => request'[k] = request[k]
  OBVIOUS
<1>3. ~Handled(d)' /\ running'[d] # NoOne =>
       /\ d \notin drift' /\ (Sweeping' => d \in request'[Sweeper].live) => rows'[d] = "on"
       /\ d \notin stale' => poller'[running'[d]].token = config'[d]
  BY <1>1 DEF ChannelOK
<1>4. d \notin drift' \cap stale' =>
       \A h, k \in Endpoint : request'[h].conn = d /\ request'[k].conn = d => h = k
  BY <1>2 DEF ChannelOK
<1>5. \A k \in Endpoint : request'[k].conn = d => ChannelFits(request[k], d)'
  BY <1>2 DEF ChannelOK, ChannelFits
<1> QED BY <1>1, <1>2, <1>3, <1>4, <1>5 DEF ChannelOK, ChannelFits

\* A request goes a step further and no poller is touched.
LEMMA RequestGoesOn ==
  ASSUME ChannelInv, NEW h \in Hand, NEW r \in Request, RequestOK(h, r),
         request' = [request EXCEPT ![h] = r], r.victim = request[h].victim,
         UNCHANGED <<running, slots, poller>>, usurped \subseteq usurped',
         rows' \in [Channel -> {"new", "on", "off", "gone"}],
         config' \in [Channel -> Token \cup {NoOne}]
  PROVE  ChannelShapes' /\ InOneHand' /\ CrashesNoted' /\ PollersAccounted'
<1>1. \A k \in Hand : /\ request'[k] = IF k = h THEN r ELSE request[k]
                      /\ request'[k].victim = request[k].victim
  BY DEF ChannelInv, ChannelShapes
<1>2. ChannelShapes'
  BY <1>1 DEF ChannelInv, ChannelShapes
<1>3. InOneHand'
  BY <1>1 DEF ChannelInv, InOneHand
<1>4. CrashesNoted'
  BY DEF ChannelInv, CrashesNoted
<1>5. DOMAIN request = Hand /\ DOMAIN request' = Hand
  BY <1>2 DEF ChannelInv, ChannelShapes
<1>6. PollersAccounted'
  BY <1>1, <1>5 DEF ChannelInv, PollersAccounted, TokensApart, PollersReachable, Awaited
<1> QED BY <1>2, <1>3, <1>4, <1>6

\* An endpoint's step leaves the other channels and requests as they are.
LEMMA OthersUntouched ==
  ASSUME ChannelInv, NEW h \in Endpoint, NEW c \in Channel, NEW r \in Request,
         request' = [request EXCEPT ![h] = r],
         request[h].conn \in {c, NoOne}, r.conn \in {c, NoOne},
         \A d \in Channel \ {c} : rows'[d] = rows[d] /\ config'[d] = config[d]
                                 /\ running'[d] \in {running[d], NoOne},
         \A d \in Channel \ {c} : running'[d] # NoOne =>
            poller'[running[d]].token = poller[running[d]].token,
         drift \subseteq drift', stale \subseteq stale'
  PROVE  \A d \in Channel \ {c} : ChannelOK(d)'
<1>1. \A k \in Hand : request'[k] = IF k = h THEN r ELSE request[k]
  BY DEF ChannelInv, ChannelShapes
<1>2. request'[Sweeper] = request[Sweeper]
  BY <1>1, ChannelAssumption DEF Hand
<1>3. NoOne \notin Channel
  BY ChannelAssumption
<1> SUFFICES ASSUME NEW d \in Channel \ {c} PROVE ChannelOK(d)'
  OBVIOUS
<1>4. \A k \in Endpoint : request[k].conn = d \/ request'[k].conn = d =>
            request'[k] = request[k]
  BY <1>1, <1>3 DEF Hand
<1>5. Sweeping' = Sweeping
  BY <1>2 DEF Sweeping
<1> QED BY <1>2, <1>4, <1>5, OtherChannel DEF ChannelInv

\* The channel of a request that begins or goes on.
LEMMA HandledChannel ==
  ASSUME ChannelInv, NEW h \in Endpoint, NEW c \in Channel, NEW r \in Request,
         request' = [request EXCEPT ![h] = r], r.conn = c,
         rows'[c] # "new", config'[c] \in Token,
         c \notin drift' \cap stale' => \A k \in Endpoint \ {h} : request[k].conn # c,
         ChannelFits(r, c)'
  PROVE  ChannelOK(c)'
<1>1. \A k \in Endpoint : request'[k] = IF k = h THEN r ELSE request[k]
  BY DEF ChannelInv, ChannelShapes, Hand
<1>2. Handled(c)'
  BY <1>1 DEF Handled
<1>3. c \notin drift' \cap stale' =>
       \A k, j \in Endpoint : request'[k].conn = c /\ request'[j].conn = c => k = j
  BY <1>1
<1>4. \A k \in Endpoint : request'[k].conn = c => ChannelFits(request[k], c)'
  <2> SUFFICES ASSUME NEW k \in Endpoint, k # h, request[k].conn = c PROVE ChannelFits(request[k], c)'
    BY <1>1 DEF ChannelFits
  <2>1. c \in drift' /\ c \in stale' /\ request'[k] = request[k]
    BY <1>1
  <2>2. ChannelFits(request[k], c)
    BY DEF ChannelInv, ChannelOK
  <2> QED BY <2>1, <2>2 DEF ChannelFits
<1> QED BY <1>2, <1>3, <1>4 DEF ChannelOK

\* The channel of a request that ends.
LEMMA FreedChannel ==
  ASSUME ChannelInv, NEW h \in Endpoint, NEW c \in Channel, request[h].conn = c,
         request' = [request EXCEPT ![h] = Asleep],
         rows'[c] # "new", config'[c] \in Token,
         drift \subseteq drift', stale \subseteq stale',
         running'[c] # NoOne =>
            /\ c \notin drift' /\ (Sweeping => c \in request[Sweeper].live) => rows'[c] = "on"
            /\ c \notin stale' => poller'[running'[c]].token = config'[c]
  PROVE  ChannelOK(c)'
<1>1. \A k \in Hand : request'[k] = IF k = h THEN Asleep ELSE request[k]
  BY DEF ChannelInv, ChannelShapes
<1>2. request'[Sweeper] = request[Sweeper] /\ Sweeping' = Sweeping
  BY <1>1, ChannelAssumption DEF Hand, Sweeping
<1>3. c # NoOne
  BY ChannelAssumption
<1>4. \A k \in Endpoint : request'[k].conn = c => k # h /\ request'[k] = request[k]
  BY <1>1, <1>3, AsleepRequest DEF Hand
<1>5. \A k \in Endpoint : request'[k].conn = c => c \in drift' \cap stale'
  BY <1>4 DEF ChannelInv, ChannelOK
<1>6. \A k \in Endpoint : request'[k].conn = c => ChannelFits(request[k], c)'
  BY <1>4, <1>5 DEF ChannelInv, ChannelOK, ChannelFits
<1>7. Handled(c)' => c \in drift' \cap stale'
  BY <1>5 DEF Handled
<1> QED BY <1>2, <1>4, <1>5, <1>6, <1>7 DEF ChannelOK

\* A request is noted as meeting another unless it is alone on its connection.
LEMMA MeetsAlone ==
  ASSUME NEW c, Meets(c)
  PROVE  /\ drift \subseteq drift' /\ stale \subseteq stale'
         /\ c \notin drift' \cap stale' => \A k \in Endpoint : request[k].conn # c
BY DEF Meets, Quiet, Handled

\* A request comes in.
LEMMA BeginsKeeps ==
  ASSUME ChannelInv, NEW h \in Endpoint, NEW c \in Channel, NEW r \in Request,
         request[h] = Asleep, request' = [request EXCEPT ![h] = r], r.conn = c,
         RequestOK(h, r), r.victim = NoOne, Meets(c),
         UNCHANGED <<running, slots, poller, usurped>>,
         rows' \in [Channel -> {"new", "on", "off", "gone"}],
         config' \in [Channel -> Token \cup {NoOne}],
         \A d \in Channel \ {c} : rows'[d] = rows[d] /\ config'[d] = config[d],
         rows'[c] # "new", config'[c] \in Token, ChannelFits(r, c)'
  PROVE  ChannelInv'
<1>1. ChannelShapes' /\ InOneHand' /\ CrashesNoted' /\ PollersAccounted'
  BY AsleepRequest, RequestGoesOn DEF Hand
<1>2. \A d \in Channel \ {c} : ChannelOK(d)'
  BY AsleepRequest, MeetsAlone, OthersUntouched
<1>3. ChannelOK(c)'
  BY MeetsAlone, HandledChannel
<1> QED BY <1>1, <1>2, <1>3 DEF ChannelInv

\* Create: the step preserves the invariant.
LEMMA ChannelCreateKeeps ==
  ASSUME ChannelInv, NEW h \in Endpoint, NEW c \in Channel, NEW t \in Token, Create(h, c, t)
  PROVE  ChannelInv'
<1> DEFINE r == [Asleep EXCEPT !.at = "start", !.conn = c, !.token = t]
<1>1. /\ request[h] = Asleep /\ rows[c] = "new" /\ rows' = [rows EXCEPT ![c] = "on"]
      /\ config' = [config EXCEPT ![c] = t] /\ request' = [request EXCEPT ![h] = r]
      /\ Meets(c) /\ UNCHANGED <<running, slots, poller, usurped>>
  BY DEF Create, Turns
<1>2. /\ r \in Request /\ r.at = "start" /\ r.conn = c /\ r.token = t /\ r.victim = NoOne
      /\ r.next = "idle" /\ RequestOK(h, r)
  BY ChannelAssumption DEF Request, Steps, Asleep, RequestOK
<1> HIDE DEF r
<1>3. /\ rows' \in [Channel -> {"new", "on", "off", "gone"}] /\ rows'[c] = "on"
      /\ config' \in [Channel -> Token \cup {NoOne}] /\ config'[c] = t
      /\ \A d \in Channel \ {c} : rows'[d] = rows[d] /\ config'[d] = config[d]
  BY <1>1 DEF ChannelInv, ChannelShapes
<1>4. running'[c] = NoOne
  BY <1>1 DEF ChannelInv, ChannelOK
<1>5. ChannelFits(r, c)'
  BY <1>2, <1>3, <1>4 DEF ChannelFits
<1> QED BY <1>1, <1>2, <1>3, <1>5, BeginsKeeps

\* Reconfigure: the step preserves the invariant.
LEMMA ReconfigureKeeps ==
  ASSUME ChannelInv, NEW h \in Endpoint, NEW c \in Channel, NEW t \in Token, Reconfigure(h, c, t)
  PROVE  ChannelInv'
<1> DEFINE r == [Asleep EXCEPT !.at = "read", !.conn = c]
<1>1. /\ request[h] = Asleep /\ rows' = [rows EXCEPT ![c] = "on"]
      /\ config' = [config EXCEPT ![c] = t] /\ request' = [request EXCEPT ![h] = r]
      /\ Meets(c) /\ UNCHANGED <<running, slots, poller, usurped>>
  BY DEF Reconfigure, Turns
<1>2. /\ r \in Request /\ r.at = "read" /\ r.conn = c /\ r.victim = NoOne /\ r.next = "idle"
      /\ RequestOK(h, r)
  BY ChannelAssumption DEF Request, Steps, Asleep, RequestOK
<1> HIDE DEF r
<1>3. /\ rows' \in [Channel -> {"new", "on", "off", "gone"}] /\ rows'[c] = "on"
      /\ config' \in [Channel -> Token \cup {NoOne}] /\ config'[c] = t
      /\ \A d \in Channel \ {c} : rows'[d] = rows[d] /\ config'[d] = config[d]
  BY <1>1 DEF ChannelInv, ChannelShapes
<1>4. ChannelFits(r, c)'
  BY <1>2, <1>3 DEF ChannelFits
<1> QED BY <1>1, <1>2, <1>3, <1>4, BeginsKeeps

\* Disable: the step preserves the invariant.
LEMMA DisableKeeps ==
  ASSUME ChannelInv, NEW h \in Endpoint, NEW c \in Channel, Disable(h, c)
  PROVE  ChannelInv'
<1> DEFINE r == [Asleep EXCEPT !.at = "stop", !.conn = c]
<1>1. /\ request[h] = Asleep /\ rows[c] \in {"on", "off"} /\ rows' = [rows EXCEPT ![c] = "off"]
      /\ request' = [request EXCEPT ![h] = r]
      /\ Meets(c) /\ UNCHANGED <<config, running, slots, poller, usurped>>
  BY DEF Disable, Turns
<1>2. /\ r \in Request /\ r.at = "stop" /\ r.conn = c /\ r.victim = NoOne /\ r.next = "idle"
      /\ RequestOK(h, r)
  BY ChannelAssumption DEF Request, Steps, Asleep, RequestOK
<1> HIDE DEF r
<1>3. /\ rows' \in [Channel -> {"new", "on", "off", "gone"}] /\ rows'[c] # "new"
      /\ config' \in [Channel -> Token \cup {NoOne}] /\ config'[c] = config[c]
      /\ \A d \in Channel \ {c} : rows'[d] = rows[d] /\ config'[d] = config[d]
      /\ config[c] \in Token
  BY <1>1 DEF ChannelInv, ChannelShapes, ChannelOK
<1>4. ChannelFits(r, c)'
  BY <1>2 DEF ChannelFits
<1> QED BY <1>1, <1>2, <1>3, <1>4, BeginsKeeps

\* Delete: the step preserves the invariant.
LEMMA ChannelDeleteKeeps ==
  ASSUME ChannelInv, NEW h \in Endpoint, NEW c \in Channel, Delete(h, c)
  PROVE  ChannelInv'
<1> DEFINE r == [Asleep EXCEPT !.at = "stop", !.conn = c, !.next = "erase"]
<1>1. /\ request[h] = Asleep /\ rows[c] \in {"on", "off"} /\ rows' = rows
      /\ request' = [request EXCEPT ![h] = r]
      /\ Meets(c) /\ UNCHANGED <<config, running, slots, poller, usurped>>
  BY DEF Delete, Turns
<1>2. /\ r \in Request /\ r.at = "stop" /\ r.conn = c /\ r.victim = NoOne /\ r.next = "erase"
      /\ RequestOK(h, r)
  BY ChannelAssumption DEF Request, Steps, Asleep, RequestOK
<1> HIDE DEF r
<1>3. /\ rows' \in [Channel -> {"new", "on", "off", "gone"}] /\ rows'[c] # "new"
      /\ config' \in [Channel -> Token \cup {NoOne}] /\ config'[c] = config[c]
      /\ config[c] \in Token
  BY <1>1 DEF ChannelInv, ChannelShapes, ChannelOK
<1>4. ChannelFits(r, c)'
  BY <1>2 DEF ChannelFits
<1> QED BY <1>1, <1>2, <1>3, <1>4, BeginsKeeps

\* What the steps of one request share.
LEMMA Underway ==
  ASSUME ChannelInv, NEW h \in Endpoint, request[h].at # "idle"
  PROVE  /\ request[h] \in Request /\ RequestOK(h, request[h]) /\ h \in Hand /\ h # Sweeper
         /\ request[h].conn \in Channel /\ request[h].conn # NoOne
         /\ ChannelOK(request[h].conn) /\ ChannelFits(request[h], request[h].conn)
         /\ rows[request[h].conn] # "new" /\ config[request[h].conn] \in Token
         /\ request[h].conn \notin drift \cap stale =>
              \A k \in Endpoint \ {h} : request[k].conn # request[h].conn
<1>1. /\ request[h] \in Request /\ RequestOK(h, request[h]) /\ h \in Hand /\ h # Sweeper
  BY ChannelAssumption DEF ChannelInv, ChannelShapes, Hand
<1>2. request[h].conn \in Channel /\ request[h].conn # NoOne
  BY <1>1, ChannelAssumption DEF RequestOK
<1>3. ChannelOK(request[h].conn) /\ Handled(request[h].conn)
  BY <1>2 DEF ChannelInv, Handled
<1> QED BY <1>1, <1>2, <1>3 DEF ChannelOK

\* Read: the step preserves the invariant.
LEMMA ChannelReadKeeps ==
  ASSUME ChannelInv, NEW h \in Endpoint, Read(h)
  PROVE  ChannelInv'
<1>c. PICK c : c = request[h].conn
  OBVIOUS
<1>r. PICK r : r = [request[h] EXCEPT !.at = "stop", !.next = "start", !.token = config[c]]
  OBVIOUS
<1>1. /\ request[h].at = "read" /\ request[h].conn = c
      /\ UNCHANGED <<rows, config, running, slots, poller, drift, stale, usurped>>
      /\ request' = [request EXCEPT ![h] = IF rows[c] = "gone" THEN Asleep ELSE r]
  BY <1>c, <1>r DEF Read, Turns
<1>2. /\ request[h] \in Request /\ h \in Hand /\ h # Sweeper /\ c \in Channel /\ ChannelOK(c)
      /\ ChannelFits(request[h], c) /\ rows[c] # "new" /\ config[c] \in Token
      /\ c \notin drift \cap stale => \A k \in Endpoint \ {h} : request[k].conn # c
      /\ request[h].victim = NoOne
  BY <1>1, Underway DEF RequestOK
<1>3. /\ rows' \in [Channel -> {"new", "on", "off", "gone"}]
      /\ config' \in [Channel -> Token \cup {NoOne}]
  BY <1>1 DEF ChannelInv, ChannelShapes
<1>4. /\ r \in Request /\ r.at = "stop" /\ r.conn = c /\ r.token = config[c] /\ r.victim = NoOne
      /\ r.next = "start" /\ RequestOK(h, r)
  BY <1>1, <1>2, <1>r DEF Request, Steps, RequestOK
<1>5. CASE rows[c] = "gone"
  <2>1. request' = [request EXCEPT ![h] = Asleep]
    BY <1>1, <1>5
  <2>2. ChannelShapes' /\ InOneHand' /\ CrashesNoted' /\ PollersAccounted'
    BY <2>1, <1>1, <1>2, <1>3, AsleepRequest, RequestGoesOn
  <2>3. \A d \in Channel \ {c} : ChannelOK(d)'
    BY <2>1, <1>1, <1>2, AsleepRequest, OthersUntouched
  <2>4. c \in drift /\ c \in stale
    BY <1>1, <1>2, <1>5 DEF ChannelFits
  <2>5. ChannelOK(c)'
    BY <2>1, <2>4, <1>1, <1>2, FreedChannel
  <2> QED BY <2>2, <2>3, <2>5 DEF ChannelInv
<1>6. CASE rows[c] # "gone"
  <2>1. request' = [request EXCEPT ![h] = r]
    BY <1>1, <1>6
  <2>2. ChannelShapes' /\ InOneHand' /\ CrashesNoted' /\ PollersAccounted'
    BY <2>1, <1>1, <1>2, <1>3, <1>4, RequestGoesOn
  <2>3. \A d \in Channel \ {c} : ChannelOK(d)'
    BY <2>1, <1>1, <1>2, <1>4, OthersUntouched
  <2>4. ChannelFits(r, c)'
    BY <1>1, <1>2, <1>4 DEF ChannelFits
  <2>5. ChannelOK(c)'
    BY <2>1, <2>4, <1>1, <1>2, <1>4, HandledChannel
  <2> QED BY <2>2, <2>3, <2>5 DEF ChannelInv
<1> QED BY <1>5, <1>6

\* A request ends with the row gone, or half way.
LEMMA EraseKeeps ==
  ASSUME ChannelInv, NEW h \in Endpoint, Erase(h) \/ Abort(h)
  PROVE  ChannelInv'
<1>c. PICK c : c = request[h].conn
  OBVIOUS
<1>1. /\ request[h].at \in {"erase", "read"} /\ request[h].conn = c
      /\ request' = [request EXCEPT ![h] = Asleep]
      /\ UNCHANGED <<config, running, slots, poller, usurped>>
      /\ \/ request[h].at = "erase" /\ rows' = [rows EXCEPT ![c] = "gone"]
            /\ UNCHANGED <<drift, stale>>
         \/ rows' = rows /\ drift' = drift \cup {c} /\ stale' = stale \cup {c}
  BY <1>c DEF Erase, Abort, Turns
<1>2. /\ request[h] \in Request /\ h \in Hand /\ h # Sweeper /\ c \in Channel /\ ChannelOK(c)
      /\ ChannelFits(request[h], c) /\ rows[c] # "new" /\ config[c] \in Token
      /\ request[h].victim = NoOne
  BY <1>1, Underway DEF RequestOK
<1>3. /\ rows' \in [Channel -> {"new", "on", "off", "gone"}] /\ rows'[c] # "new"
      /\ config' \in [Channel -> Token \cup {NoOne}]
      /\ \A d \in Channel \ {c} : rows'[d] = rows[d]
  BY <1>1, <1>2 DEF ChannelInv, ChannelShapes
<1>4. ChannelShapes' /\ InOneHand' /\ CrashesNoted' /\ PollersAccounted'
  BY <1>1, <1>2, <1>3, AsleepRequest, RequestGoesOn
<1>5. \A d \in Channel \ {c} : ChannelOK(d)'
  BY <1>1, <1>2, <1>3, AsleepRequest, OthersUntouched
<1>6. running'[c] # NoOne => c \in drift' /\ c \in stale'
  BY <1>1, <1>2 DEF ChannelFits
<1>7. ChannelOK(c)'
  BY <1>1, <1>2, <1>3, <1>6, FreedChannel
<1> QED BY <1>4, <1>5, <1>7 DEF ChannelInv

\* Start: the step preserves the invariant.
LEMMA StartKeeps ==
  ASSUME ChannelInv, NEW h \in Endpoint, Start(h)
  PROVE  ChannelInv'
<1>c. PICK c, t : c = request[h].conn /\ t = request[h].token
  OBVIOUS
<1>1. /\ request[h].at = "start" /\ request[h].conn = c /\ request[h].token = t
      /\ request' = [request EXCEPT ![h] = Asleep]
      /\ UNCHANGED <<rows, config, drift, stale>>
  BY <1>c DEF Start, Turns
<1>2. /\ request[h] \in Request /\ h \in Hand /\ h # Sweeper /\ c \in Channel /\ ChannelOK(c)
      /\ ChannelFits(request[h], c) /\ rows[c] # "new" /\ config[c] \in Token
      /\ request[h].victim = NoOne /\ t \in Token /\ c # NoOne
  BY <1>1, Underway DEF RequestOK, ChannelFits
<1>3. /\ rows' \in [Channel -> {"new", "on", "off", "gone"}]
      /\ config' \in [Channel -> Token \cup {NoOne}]
  BY <1>1 DEF ChannelInv, ChannelShapes
<1>4. /\ c \notin drift => rows[c] = "on"
      /\ c \notin stale => t = config[c]
      /\ c \notin drift \cap stale => running[c] = NoOne
  BY <1>1, <1>2 DEF ChannelFits
<1>5. CASE Refused(c, t) /\ UNCHANGED <<slots, poller, running, usurped>>
  <2>1. ChannelShapes' /\ InOneHand' /\ CrashesNoted' /\ PollersAccounted'
    BY <1>1, <1>2, <1>3, <1>5, AsleepRequest, RequestGoesOn
  <2>2. \A d \in Channel \ {c} : ChannelOK(d)'
    BY <1>1, <1>2, <1>5, AsleepRequest, OthersUntouched
  <2>3. ChannelOK(c)'
    BY <1>1, <1>2, <1>4, <1>5, FreedChannel
  <2> QED BY <2>1, <2>2, <2>3 DEF ChannelInv
<1>6. CASE LaunchFails(c, t)
  <2>1. /\ slots[t] \in {NoOne, c} /\ slots' = [slots EXCEPT ![t] = c]
        /\ UNCHANGED <<poller, running, usurped>> /\ running[c] = NoOne
    BY <1>6 DEF LaunchFails, Refused, Free
  <2>2. \A k \in Hand : /\ request'[k] = IF k = h THEN Asleep ELSE request[k]
                        /\ request'[k].victim = request[k].victim
    BY <1>1, <1>2, AsleepRequest DEF ChannelInv, ChannelShapes
  <2>3. ChannelShapes'
    BY <1>1, <1>2, <1>3, <2>1, <2>2, AsleepRequest DEF ChannelInv, ChannelShapes
  <2>4. InOneHand' /\ CrashesNoted'
    BY <2>1, <2>2 DEF ChannelInv, InOneHand, CrashesNoted
  <2>5. DOMAIN request = Hand /\ DOMAIN request' = Hand
    BY <2>3 DEF ChannelInv, ChannelShapes
  <2>6. PollersReachable'
    BY <2>1, <2>2, <2>5 DEF ChannelInv, PollersAccounted, PollersReachable, Awaited
  <2>7. TokensApart'
    <3>1. \A u \in Token : slots'[u] = slots[u] \/ (slots[u] \in {NoOne, c} /\ slots'[u] = c)
      BY <2>1, <1>2 DEF ChannelInv, ChannelShapes
    <3>2. \A d \in Channel : running[d] # NoOne => poller[running[d]].token \in Token /\ d # NoOne /\ d # c
      BY <2>1, ChannelAssumption DEF ChannelInv, ChannelShapes, InOneHand
    <3> QED BY <2>1, <3>1, <3>2 DEF ChannelInv, PollersAccounted, TokensApart
  <2>8. \A d \in Channel \ {c} : ChannelOK(d)'
    BY <1>1, <1>2, <2>1, AsleepRequest, OthersUntouched
  <2>9. ChannelOK(c)'
    BY <1>1, <1>2, <1>4, <2>1, FreedChannel
  <2> QED BY <2>3, <2>4, <2>6, <2>7, <2>8, <2>9 DEF ChannelInv, PollersAccounted
<1>7. CASE Launch(c, t)
  <2>1. PICK p \in Poller :
          /\ slots[t] \in {NoOne, c} /\ slots' = [slots EXCEPT ![t] = c] /\ running[c] = NoOne
          /\ poller[p] = NoPoller /\ running' = [running EXCEPT ![c] = p]
          /\ poller' = [poller EXCEPT ![p] = [at |-> "polling", conn |-> c, token |-> t]]
          /\ usurped' = IF \E q \in Poller : poller[q].conn = c /\ poller[q].at = "crashing"
                        THEN usurped \cup {c} ELSE usurped
    BY <1>7 DEF Launch, Refused, Free
  <2> DEFINE x == [at |-> "polling", conn |-> c, token |-> t]
  <2>2. x \in PollerType /\ x.at = "polling" /\ x.conn = c /\ x.token = t
    BY <1>2 DEF PollerType
  <2> HIDE DEF x
  <2>3. /\ \A q \in Poller : poller'[q] = IF q = p THEN x ELSE poller[q]
        /\ \A d \in Channel : running'[d] = IF d = c THEN p ELSE running[d]
        /\ \A u \in Token : slots'[u] = IF u = t THEN c ELSE slots[u]
        /\ p # NoOne
    BY <1>2, <2>1, ChannelAssumption DEF ChannelInv, ChannelShapes, x
  <2>4. \A k \in Hand : /\ request'[k] = IF k = h THEN Asleep ELSE request[k]
                        /\ request'[k].victim = request[k].victim
    BY <1>1, <1>2, AsleepRequest DEF ChannelInv, ChannelShapes
  <2>5. /\ poller[p].at = "none"
        /\ \A d \in Channel : running[d] # p
        /\ \A k \in Hand : request[k].victim # p
    BY <2>1, <2>3, NoPollerType DEF ChannelInv, InOneHand
  <2>6. ChannelShapes'
    <3>1. request' \in [Hand -> Request] /\ \A k \in Hand : RequestOK(k, request'[k])
      BY <1>1, <1>2, <2>4, AsleepRequest DEF ChannelInv, ChannelShapes
    <3>2. poller' \in [Poller -> PollerType] /\ slots' \in [Token -> Channel \cup {NoOne}]
          /\ running' \in [Channel -> Poller \cup {NoOne}]
      BY <1>2, <2>1, <2>2 DEF ChannelInv, ChannelShapes, x
    <3>3. \A q \in Poller : IF poller'[q].at = "none" THEN poller'[q] = NoPoller
                            ELSE poller'[q].conn \in Channel /\ poller'[q].token \in Token
      BY <1>2, <2>2, <2>3 DEF ChannelInv, ChannelShapes
    <3> QED BY <1>3, <3>1, <3>2, <3>3 DEF ChannelShapes
  <2>7. InOneHand'
    <3>1. \A q \in Poller : poller[q].at # "none" => poller'[q].at # "none"
      BY <2>2, <2>3
    <3>2. \A k \in Hand : request[k].victim \in Poller \cup {NoOne}
      BY DEF ChannelInv, ChannelShapes, Request
    <3>3. \A d \in Channel : running[d] \in Poller \cup {NoOne}
      BY DEF ChannelInv, ChannelShapes
    <3>4. \A k \in Hand : request'[k].victim # NoOne =>
       /\ poller'[request'[k].victim].at # "none"
       /\ \A d \in Channel : running'[d] # request'[k].victim
       /\ \A j \in Hand \ {k} : request'[j].victim # request'[k].victim
      BY <2>3, <2>4, <2>5, <3>1, <3>2 DEF ChannelInv, InOneHand
    <3>5. \A d \in Channel : running'[d] # NoOne => poller'[running'[d]].at # "none"
      BY <2>2, <2>3, <3>1, <3>3 DEF ChannelInv, InOneHand
    <3> QED BY <3>4, <3>5 DEF InOneHand
  <2>8. CrashesNoted'
    <3> SUFFICES ASSUME NEW q \in Poller, poller'[q].at = "crashing"
                 PROVE  running'[poller'[q].conn] \in {q, NoOne} \/ poller'[q].conn \in usurped'
      BY DEF CrashesNoted
    <3>1. q # p /\ poller'[q] = poller[q]
      BY <2>2, <2>3
    <3>2. poller[q].conn = c => c \in usurped'
      BY <2>1, <3>1
    <3>3. poller[q].conn # c /\ poller[q].conn \in Channel => running'[poller[q].conn] = running[poller[q].conn]
      BY <2>3
    <3>4. poller[q].conn \in Channel /\ usurped \subseteq usurped'
      BY <2>1, <3>1 DEF ChannelInv, ChannelShapes
    <3> QED BY <3>1, <3>2, <3>3, <3>4 DEF ChannelInv, CrashesNoted
  <2>9. DOMAIN request = Hand /\ DOMAIN request' = Hand
    BY <2>6 DEF ChannelInv, ChannelShapes
  <2>10. PollersReachable'
    <3> SUFFICES ASSUME NEW q \in Poller, poller'[q].at = "polling"
                 PROVE  running'[poller'[q].conn] = q \/ Awaited(q)' \/ poller'[q].conn \in usurped'
      BY DEF PollersReachable
    <3>1. CASE q = p
      BY <1>2, <2>2, <2>3, <3>1
    <3>2. CASE q # p
      <4>1. poller'[q] = poller[q] /\ poller[q].conn \in Channel
        BY <2>3, <3>2 DEF ChannelInv, ChannelShapes
      <4>2. running[poller[q].conn] = q \/ Awaited(q) \/ poller[q].conn \in usurped
        BY <4>1 DEF ChannelInv, PollersAccounted, PollersReachable
      <4>3. running[poller[q].conn] = q => running'[poller[q].conn] = q
        BY <2>1, <2>3, <4>1, ChannelAssumption
      <4>4. Awaited(q) => Awaited(q)'
        BY <2>4, <2>9 DEF Awaited
      <4>5. usurped \subseteq usurped'
        BY <2>1
      <4> QED BY <4>1, <4>2, <4>3, <4>4, <4>5
    <3> QED BY <3>1, <3>2
  <2>11. TokensApart'
    <3>1. \A d \in Channel \ {c} : running[d] # NoOne =>
            /\ running'[d] = running[d] /\ poller'[running[d]] = poller[running[d]]
            /\ poller[running[d]].conn = d /\ slots[poller[running[d]].token] = d
            /\ poller[running[d]].token \in Token
      BY <2>3, <2>5 DEF ChannelInv, ChannelShapes, PollersAccounted, TokensApart, InOneHand
    <3>2. \A d \in Channel \ {c} : running[d] # NoOne => poller[running[d]].token # t
      BY <2>1, <3>1, ChannelAssumption
    <3>3. \A d \in Channel \ {c} : running[d] # NoOne => slots'[poller[running[d]].token] = d
      BY <2>3, <3>1, <3>2
    <3>4. poller'[running'[c]] = x /\ slots'[t] = c
      BY <1>2, <2>3
    <3> QED BY <2>2, <2>3, <3>1, <3>2, <3>3, <3>4
            DEF ChannelInv, PollersAccounted, TokensApart
  <2>12. \A d \in Channel \ {c} : ChannelOK(d)'
    <3>1. \A d \in Channel \ {c} : running[d] # NoOne =>
            poller'[running[d]].token = poller[running[d]].token
      BY <2>3, <2>5 DEF ChannelInv, ChannelShapes
    <3>2. \A d \in Channel \ {c} : rows'[d] = rows[d] /\ config'[d] = config[d]
                                   /\ running'[d] \in {running[d], NoOne}
                                   /\ running'[d] = running[d]
      BY <1>1, <2>3
    <3>3. /\ \A d \in Channel \ {c} : running'[d] # NoOne =>
                poller'[running[d]].token = poller[running[d]].token
          /\ request[h].conn \in {c, NoOne} /\ Asleep.conn \in {c, NoOne} /\ Asleep \in Request
      BY <1>1, <3>1, <3>2, AsleepRequest
    <3> QED BY <1>1, <1>2, <3>2, <3>3, OthersUntouched
  <2>13. ChannelOK(c)'
    <3>1. poller'[running'[c]].token = t
      BY <1>2, <2>2, <2>3
    <3> QED BY <1>1, <1>2, <1>4, <3>1, FreedChannel
  <2> QED BY <2>6, <2>7, <2>8, <2>10, <2>11, <2>12, <2>13 DEF ChannelInv, PollersAccounted
<1> QED BY <1>c, <1>5, <1>6, <1>7 DEF Start

\* A hand takes the poller of a channel, if there is one, off the tables.
LEMMA TakenOff ==
  ASSUME ChannelInv, NEW h \in Hand, NEW c \in Channel, NEW r \in Request, RequestOK(h, r),
         request' = [request EXCEPT ![h] = r], request[h].victim = NoOne,
         r.victim = running[c],
         running' = [running EXCEPT ![c] = NoOne], slots' = SlotsWithout(c),
         UNCHANGED <<rows, config, poller, usurped>>
  PROVE  ChannelShapes' /\ InOneHand' /\ CrashesNoted' /\ PollersAccounted'
<1>1. \A k \in Hand : request'[k] = IF k = h THEN r ELSE request[k]
  BY DEF ChannelInv, ChannelShapes
<1>2. /\ \A d \in Channel : running'[d] = IF d = c THEN NoOne ELSE running[d]
      /\ \A u \in Token : slots'[u] = IF slots[u] = c THEN NoOne ELSE slots[u]
      /\ slots' \in [Token -> Channel \cup {NoOne}]
  BY DEF ChannelInv, ChannelShapes, SlotsWithout
<1>3. ChannelShapes'
  BY <1>1, <1>2 DEF ChannelInv, ChannelShapes
<1>4. \A d \in Channel \ {c} : running[d] # NoOne => running[d] # running[c]
  BY DEF ChannelInv, PollersAccounted, TokensApart
<1>5. InOneHand'
  <2>1. \A k \in Hand : request'[k].victim # NoOne =>
       /\ poller[request'[k].victim].at # "none"
       /\ \A d \in Channel : running'[d] # request'[k].victim
       /\ \A j \in Hand \ {k} : request'[j].victim # request'[k].victim
    BY <1>1, <1>2, <1>4 DEF ChannelInv, InOneHand
  <2>2. \A d \in Channel : running'[d] # NoOne => poller[running'[d]].at # "none"
    BY <1>2 DEF ChannelInv, InOneHand
  <2> QED BY <2>1, <2>2 DEF InOneHand
<1>6. CrashesNoted'
  BY <1>2 DEF ChannelInv, ChannelShapes, CrashesNoted
<1>7. DOMAIN request = Hand /\ DOMAIN request' = Hand
  BY <1>3 DEF ChannelInv, ChannelShapes
<1>8. PollersReachable'
  <2> SUFFICES ASSUME NEW q \in Poller, poller[q].at = "polling"
               PROVE  running'[poller[q].conn] = q \/ Awaited(q)' \/ poller[q].conn \in usurped
    BY DEF PollersReachable
  <2>1. running[poller[q].conn] = q \/ Awaited(q) \/ poller[q].conn \in usurped
    BY DEF ChannelInv, ChannelShapes, PollersAccounted, PollersReachable
  <2>2. poller[q].conn \in Channel
    BY DEF ChannelInv, ChannelShapes
  <2>3. Awaited(q) => Awaited(q)'
    BY <1>1, <1>7, ChannelAssumption DEF Awaited
  <2>4. running[c] = q => Awaited(q)'
    BY <1>1, <1>7 DEF Awaited
  <2> QED BY <1>2, <2>1, <2>2, <2>3, <2>4
<1>9. TokensApart'
  <2>1. \A d \in Channel \ {c} : running[d] # NoOne =>
          /\ running'[d] = running[d] /\ poller[running[d]].conn = d
          /\ slots[poller[running[d]].token] = d /\ poller[running[d]].token \in Token
    BY <1>2 DEF ChannelInv, ChannelShapes, PollersAccounted, TokensApart, InOneHand
  <2>2. \A d \in Channel \ {c} : running[d] # NoOne => slots'[poller[running[d]].token] = d
    BY <1>2, <2>1
  <2> QED BY <1>2, <2>1, <2>2 DEF ChannelInv, PollersAccounted, TokensApart
<1> QED BY <1>3, <1>5, <1>6, <1>8, <1>9 DEF PollersAccounted

\* Where a request goes once its poller has ended.
LEMMA AfterFacts ==
  ASSUME NEW h \in Hand, NEW r \in Request, RequestOK(h, r), r.at \in {"stop", "halt"},
         h = Sweeper => r.at = "halt"
  PROVE  /\ After(r) \in Request /\ RequestOK(h, After(r)) /\ After(r).victim = NoOne
         /\ \/ r.next = "idle" /\ After(r) = Asleep
            \/ /\ r.next # "idle" /\ After(r).at = r.next /\ After(r).next = r.next
               /\ After(r).conn = r.conn /\ After(r).token = r.token /\ After(r).live = r.live
<1>1. CASE r.next = "idle"
  <2>1. After(r) = Asleep
    BY <1>1 DEF After
  <2> QED BY <1>1, <2>1, AsleepRequest DEF Hand
<1>2. CASE r.next # "idle"
  <2> DEFINE x == [r EXCEPT !.at = r.next, !.victim = NoOne]
  <2>1. /\ x \in Request /\ x.at = r.next /\ x.victim = NoOne /\ x.next = r.next
        /\ x.conn = r.conn /\ x.token = r.token /\ x.live = r.live
    BY <1>2 DEF Request, Steps
  <2>2. After(r) = x
    BY <1>2 DEF After
  <2> HIDE DEF x
  <2>3. RequestOK(h, x)
    BY <1>2, <2>1 DEF RequestOK, Request
  <2> QED BY <1>2, <2>1, <2>2, <2>3
<1> QED BY <1>1, <1>2

\* Stop: the step preserves the invariant.
LEMMA StopKeeps ==
  ASSUME ChannelInv, NEW h \in Endpoint, Stop(h)
  PROVE  ChannelInv'
<1>c. PICK c, r0 : c = request[h].conn /\ r0 = request[h]
  OBVIOUS
<1>r. PICK r : r = IF running[c] = NoOne THEN After(r0)
                   ELSE [r0 EXCEPT !.at = "halt", !.victim = running[c]]
  OBVIOUS
<1>1. /\ r0.at = "stop" /\ request[h] = r0 /\ request' = [request EXCEPT ![h] = r]
      /\ running' = [running EXCEPT ![c] = NoOne] /\ slots' = SlotsWithout(c)
      /\ UNCHANGED <<rows, config, poller, drift, stale, usurped>>
  BY <1>c, <1>r DEF Stop, Pop, Turns
<1>2. /\ r0 \in Request /\ h \in Hand /\ h # Sweeper /\ c \in Channel /\ ChannelOK(c)
      /\ r0.conn = c /\ RequestOK(h, r0)
      /\ ChannelFits(r0, c) /\ rows[c] # "new" /\ config[c] \in Token /\ c # NoOne
      /\ c \notin drift \cap stale => \A k \in Endpoint \ {h} : request[k].conn # c
      /\ r0.victim = NoOne
  BY <1>1, <1>c, Underway DEF RequestOK
<1>3. /\ \A d \in Channel : running'[d] = IF d = c THEN NoOne ELSE running[d]
      /\ running[c] \in Poller \cup {NoOne}
      /\ config'[c] \in Token
  BY <1>1, <1>2 DEF ChannelInv, ChannelShapes
<1>4. /\ r \in Request /\ RequestOK(h, r) /\ r.victim = running[c]
      /\ \/ r = Asleep
         \/ /\ r.conn = c /\ r.token = r0.token /\ r.next = r0.next
            /\ r.at = "halt" \/ (r.at = r0.next /\ r0.next # "idle")
  <2>1. CASE running[c] = NoOne
    BY <1>1, <1>2, <1>r, <2>1, AfterFacts
  <2>2. CASE running[c] # NoOne
    <3> DEFINE x == [r0 EXCEPT !.at = "halt", !.victim = running[c]]
    <3>1. /\ x \in Request /\ x.at = "halt" /\ x.victim = running[c] /\ x.next = r0.next
          /\ x.conn = c /\ x.token = r0.token
      BY <1>2, <1>3 DEF Request, Steps
    <3>2. r = x
      BY <1>r, <2>2
    <3> HIDE DEF x
    <3>3. RequestOK(h, x)
      BY <1>1, <1>2, <2>2, <3>1 DEF RequestOK
    <3> QED BY <3>1, <3>2, <3>3
  <2> QED BY <2>1, <2>2
<1>5. ChannelShapes' /\ InOneHand' /\ CrashesNoted' /\ PollersAccounted'
  BY <1>1, <1>2, <1>4, TakenOff
<1>6. \A d \in Channel \ {c} : ChannelOK(d)'
  <2>1. \A d \in Channel \ {c} : rows'[d] = rows[d] /\ config'[d] = config[d]
                                 /\ running'[d] \in {running[d], NoOne}
                                 /\ poller'[running[d]].token = poller[running[d]].token
    BY <1>1, <1>3
  <2>2. request[h].conn \in {c, NoOne} /\ r.conn \in {c, NoOne}
    BY <1>1, <1>2, <1>4, AsleepRequest
  <2> QED BY <1>1, <1>2, <1>4, <2>1, <2>2, OthersUntouched
<1>7. ChannelOK(c)'
  <2>1. CASE r = Asleep
    BY <1>1, <1>2, <1>3, <2>1, FreedChannel
  <2>2. CASE r # Asleep
    <3>1. r.at \in {"halt", "start", "erase"} /\ r.at \in {"halt", r.next}
          /\ r.next = r0.next /\ r.token = r0.token
      BY <1>2, <1>4, <2>2 DEF Request, RequestOK
    <3>2. ChannelFits(r, c)'
      BY <1>1, <1>2, <1>3, <3>1 DEF ChannelFits
    <3> QED BY <1>1, <1>2, <1>3, <1>4, <2>2, <3>2, HandledChannel
  <2> QED BY <2>1, <2>2
<1> QED BY <1>5, <1>6, <1>7 DEF ChannelInv

\* The tables are cleared of a connection, whichever poller it has there.
LEMMA Cleared ==
  ASSUME ChannelInv, NEW c \in Channel,
         running' = [running EXCEPT ![c] = NoOne], slots' = SlotsWithout(c)
  PROVE  /\ \A d \in Channel : running'[d] = IF d = c THEN NoOne ELSE running[d]
         /\ running' \in [Channel -> Poller \cup {NoOne}]
         /\ slots' \in [Token -> Channel \cup {NoOne}]
         /\ \A u \in Token : slots[u] # c => slots'[u] = slots[u]
BY DEF ChannelInv, ChannelShapes, SlotsWithout

\* A poller ends or changes its step while the tables lose at most places.
LEMMA PollerEnds ==
  ASSUME ChannelInv, NEW p \in Poller, poller[p].at # "none", NEW q0 \in PollerType,
         poller' = [poller EXCEPT ![p] = q0],
         q0 = NoPoller \/ (q0.at \in {"crashing", "returned"} /\ q0.conn = poller[p].conn
                           /\ q0.token = poller[p].token),
         running' \in [Channel -> Poller \cup {NoOne}], slots' \in [Token -> Channel \cup {NoOne}],
         \A d \in Channel : /\ running'[d] \in {running[d], NoOne}
                            /\ running'[d] # NoOne => \A u \in Token : slots[u] = d => slots'[u] = d,
         q0 = NoPoller => \A d \in Channel : running'[d] # p
  PROVE  /\ TokensApart'
         /\ \A d \in Channel : running'[d] # NoOne =>
              /\ poller'[running'[d]].at # "none"
              /\ poller'[running'[d]].token = poller[running[d]].token
         /\ \A q \in Poller : poller'[q] = IF q = p THEN q0 ELSE poller[q]
         /\ \A q \in Poller : IF poller'[q].at = "none" THEN poller'[q] = NoPoller
                              ELSE poller'[q].conn \in Channel /\ poller'[q].token \in Token
<1>1. \A q \in Poller : poller'[q] = IF q = p THEN q0 ELSE poller[q]
  BY DEF ChannelInv, ChannelShapes
<1>2. \A d \in Channel : running'[d] # NoOne =>
        /\ running'[d] = running[d] /\ running[d] \in Poller
        /\ poller[running[d]].conn = d /\ slots[poller[running[d]].token] = d
        /\ poller[running[d]].token \in Token /\ poller[running[d]].at # "none"
  BY DEF ChannelInv, ChannelShapes, PollersAccounted, TokensApart, InOneHand
<1>3. \A d \in Channel : running'[d] # NoOne =>
        /\ poller'[running'[d]].conn = d /\ poller'[running'[d]].at # "none"
        /\ poller'[running'[d]].token = poller[running[d]].token
        /\ slots'[poller'[running'[d]].token] = d
  BY <1>1, <1>2
<1>4. TokensApart'
  BY <1>2, <1>3 DEF ChannelInv, PollersAccounted, TokensApart
<1>5. \A q \in Poller : IF poller'[q].at = "none" THEN poller'[q] = NoPoller
                        ELSE poller'[q].conn \in Channel /\ poller'[q].token \in Token
  BY <1>1, NoPollerType DEF ChannelInv, ChannelShapes
<1> QED BY <1>1, <1>3, <1>4, <1>5

\* Halt: the step preserves the invariant.
LEMMA HaltKeeps ==
  ASSUME ChannelInv, NEW h \in Hand, Halt(h)
  PROVE  ChannelInv'
<1>c. PICK p, c, r0, r : /\ p = request[h].victim /\ c = poller[p].conn
                         /\ r0 = request[h] /\ r = After(r0)
  OBVIOUS
<1>1. /\ r0.at = "halt" /\ request[h] = r0 /\ r0.victim = p /\ poller[p].conn = c
      /\ request' = [request EXCEPT ![h] = r]
      /\ poller' = [poller EXCEPT ![p] = NoPoller]
      /\ \/ /\ poller[p].at = "crashing"
            /\ running' = [running EXCEPT ![c] = NoOne] /\ slots' = SlotsWithout(c)
         \/ poller[p].at # "crashing" /\ UNCHANGED <<running, slots>>
      /\ UNCHANGED <<rows, config, drift, stale, usurped>>
  BY <1>c DEF Halt, Turns
<1>2. /\ r0 \in Request /\ RequestOK(h, r0) /\ p \in Poller /\ p # NoOne /\ poller[p].at # "none"
      /\ c \in Channel /\ \A d \in Channel : running[d] # p
      /\ \A k \in Hand \ {h} : request[k].victim # p
  <2>1. r0 \in Request /\ RequestOK(h, r0)
    BY <1>1 DEF ChannelInv, ChannelShapes
  <2>2. p \in Poller /\ p # NoOne
    BY <1>1, <2>1 DEF RequestOK, Request
  <2>3. poller[p].at # "none" /\ \A d \in Channel : running[d] # p
        /\ \A k \in Hand \ {h} : request[k].victim # p
    BY <1>1, <2>2 DEF ChannelInv, InOneHand
  <2> QED BY <1>1, <2>1, <2>2, <2>3 DEF ChannelInv, ChannelShapes
<1>3. /\ r \in Request /\ RequestOK(h, r) /\ r.victim = NoOne
      /\ \/ r0.next = "idle" /\ r = Asleep
         \/ /\ r0.next # "idle" /\ r.at = r0.next /\ r.next = r0.next
            /\ r.conn = r0.conn /\ r.token = r0.token /\ r.live = r0.live
  BY <1>1, <1>2, <1>c, AfterFacts
<1>4. \A k \in Hand : request'[k] = IF k = h THEN r ELSE request[k]
  BY <1>1 DEF ChannelInv, ChannelShapes
<1>5. /\ \A d \in Channel : /\ running'[d] \in {running[d], NoOne}
                            /\ running'[d] # NoOne => \A u \in Token : slots[u] = d => slots'[u] = d
      /\ \A d \in Channel : d # c => running'[d] = running[d]
      /\ running' \in [Channel -> Poller \cup {NoOne}]
      /\ slots' \in [Token -> Channel \cup {NoOne}]
  <2>1. CASE poller[p].at = "crashing"
    BY <1>1, <1>2, <2>1, Cleared
  <2>2. CASE poller[p].at # "crashing"
    BY <1>1, <2>2 DEF ChannelInv, ChannelShapes
  <2> QED BY <2>1, <2>2
<1>6. /\ TokensApart'
      /\ \A d \in Channel : running'[d] # NoOne =>
           /\ poller'[running'[d]].at # "none"
           /\ poller'[running'[d]].token = poller[running[d]].token
      /\ \A q \in Poller : poller'[q] = IF q = p THEN NoPoller ELSE poller[q]
      /\ \A q \in Poller : IF poller'[q].at = "none" THEN poller'[q] = NoPoller
                           ELSE poller'[q].conn \in Channel /\ poller'[q].token \in Token
  <2>1. \A d \in Channel : running'[d] # p
    BY <1>2, <1>5
  <2> QED BY <1>1, <1>2, <1>5, <2>1, NoPollerType, PollerEnds
<1>7. ChannelShapes'
  <2>1. request' \in [Hand -> Request] /\ \A k \in Hand : RequestOK(k, request'[k])
    BY <1>1, <1>3, <1>4 DEF ChannelInv, ChannelShapes
  <2>2. poller' \in [Poller -> PollerType]
    BY <1>1, NoPollerType DEF ChannelInv, ChannelShapes
  <2> QED BY <1>1, <1>5, <1>6, <2>1, <2>2 DEF ChannelInv, ChannelShapes
<1>8. InOneHand'
  <2>1. \A k \in Hand : request'[k].victim # NoOne =>
       /\ k # h /\ request'[k] = request[k] /\ request[k].victim \in Poller \ {p}
       /\ poller[request[k].victim].at # "none"
       /\ \A d \in Channel : running[d] # request[k].victim
       /\ \A j \in Hand \ {k} : request[j].victim # request[k].victim
    BY <1>2, <1>3, <1>4 DEF ChannelInv, ChannelShapes, Request, InOneHand
  <2>2. \A k \in Hand : request'[k].victim # NoOne =>
       /\ poller'[request'[k].victim].at # "none"
       /\ \A d \in Channel : running'[d] # request'[k].victim
       /\ \A j \in Hand \ {k} : request'[j].victim # request'[k].victim
    BY <1>3, <1>4, <1>5, <1>6, <2>1
  <2> QED BY <1>6, <2>2 DEF InOneHand
<1>9. CrashesNoted'
  BY <1>1, <1>2, <1>5, <1>6, NoPollerType DEF ChannelInv, ChannelShapes, CrashesNoted
<1>10. DOMAIN request = Hand /\ DOMAIN request' = Hand
  BY <1>7 DEF ChannelInv, ChannelShapes
<1>11. PollersReachable'
  <2> SUFFICES ASSUME NEW q \in Poller, poller'[q].at = "polling"
               PROVE  running'[poller'[q].conn] = q \/ Awaited(q)' \/ poller'[q].conn \in usurped'
    BY DEF PollersReachable
  <2>1. q # p /\ poller'[q] = poller[q] /\ poller[q].conn \in Channel
    BY <1>6, NoPollerType DEF ChannelInv, ChannelShapes
  <2>2. running[poller[q].conn] = q \/ Awaited(q) \/ poller[q].conn \in usurped
    BY <2>1 DEF ChannelInv, PollersAccounted, PollersReachable
  <2>3. Awaited(q) => Awaited(q)'
    BY <1>1, <1>4, <1>10, <2>1 DEF Awaited
  <2>4. CASE poller[q].conn # c
    BY <1>1, <1>5, <2>1, <2>2, <2>3, <2>4
  <2>5. CASE poller[q].conn = c /\ poller[p].at = "crashing"
    <3>1. running[c] \in {p, NoOne} \/ c \in usurped
      BY <1>1, <1>2, <2>5 DEF ChannelInv, CrashesNoted
    <3> QED BY <1>1, <1>2, <2>1, <2>2, <2>3, <2>5, <3>1, ChannelAssumption
  <2>6. CASE poller[p].at # "crashing"
    BY <1>1, <2>1, <2>2, <2>3, <2>6
  <2> QED BY <2>4, <2>5, <2>6
<1>12. \A d \in Channel : ChannelOK(d)'
  <2>1. CASE h = Sweeper
    <3>1. r0.next = "look" /\ r0.conn = NoOne
      BY <1>1, <1>2, <2>1 DEF RequestOK
    <3>2. /\ request'[Sweeper].live = request[Sweeper].live /\ Sweeping /\ Sweeping'
          /\ \A k \in Endpoint : request'[k] = request[k]
      BY <1>1, <1>3, <1>4, <2>1, <3>1, ChannelAssumption DEF Hand, Sweeping
    <3> SUFFICES ASSUME NEW d \in Channel PROVE ChannelOK(d)'
      OBVIOUS
    <3>3. running'[d] # NoOne => poller'[running[d]].token = poller[running[d]].token
      BY <1>5, <1>6
    <3> QED BY <1>1, <1>5, <3>2, <3>3, OtherChannel DEF ChannelInv
  <2>2. CASE h # Sweeper
    <3> h \in Endpoint
      BY <2>2 DEF Hand
    <3>c. PICK e : e = r0.conn
      OBVIOUS
    <3>1. /\ e \in Channel /\ e # NoOne /\ ChannelFits(r0, e) /\ rows[e] # "new" /\ config[e] \in Token
          /\ e \notin drift \cap stale => \A k \in Endpoint \ {h} : request[k].conn # e
          /\ r0.conn = e /\ r0.next # "look"
      BY <1>1, <1>2, <2>2, <3>c, Underway DEF RequestOK
    <3>2. \A d \in Channel \ {e} : ChannelOK(d)'
      <4>1. /\ \A d \in Channel \ {e} : rows'[d] = rows[d] /\ config'[d] = config[d]
                                    /\ running'[d] \in {running[d], NoOne}
            /\ \A d \in Channel \ {e} : running'[d] # NoOne =>
                 poller'[running[d]].token = poller[running[d]].token
            /\ request[h].conn \in {e, NoOne} /\ r.conn \in {e, NoOne}
        BY <1>1, <1>3, <1>5, <1>6, <3>1, AsleepRequest
      <4> QED BY <1>1, <1>3, <3>1, <4>1, OthersUntouched
    <3>3. e \notin drift' \cap stale' => running'[e] = NoOne
      BY <1>1, <1>5, <3>1 DEF ChannelFits
    <3>4. CASE r = Asleep
      BY <1>1, <3>1, <3>2, <3>3, <3>4, FreedChannel
    <3>5. CASE r # Asleep
      <4>1. r.at = r0.next /\ r.next = r0.next /\ r0.next \in {"start", "erase"}
            /\ r.token = r0.token /\ r.conn = e
        BY <1>2, <1>3, <3>1, <3>5 DEF Request
      <4>2. ChannelFits(r, e)'
        BY <1>1, <3>1, <3>3, <4>1 DEF ChannelFits
      <4>3. ChannelOK(e)'
        BY <1>1, <1>3, <3>1, <4>1, <4>2, HandledChannel
      <4> QED BY <3>2, <4>3
    <3> QED BY <3>4, <3>5
  <2> QED BY <2>1, <2>2
<1> QED BY <1>6, <1>7, <1>8, <1>9, <1>11, <1>12 DEF ChannelInv, PollersAccounted

\* A poller crashes, or its task comes back.
LEMMA PollerStepKeeps ==
  ASSUME ChannelInv, NEW p \in Poller, Crash(p) \/ Return(p)
  PROVE  ChannelInv'
<1>1. PICK step \in {"crashing", "returned"} :
        /\ poller[p].at = "polling" /\ poller' = [poller EXCEPT ![p].at = step]
        /\ usurped \subseteq usurped'
        /\ step = "crashing" => running[poller[p].conn] \in {p, NoOne} \/ poller[p].conn \in usurped'
        /\ UNCHANGED <<rows, config, running, slots, request, drift, stale>>
  <2>1. CASE Crash(p)
    BY <2>1 DEF Crash
  <2>2. CASE Return(p)
    BY <2>2 DEF Return
  <2> QED BY <2>1, <2>2
<1>q. PICK q0 : q0 = [poller[p] EXCEPT !.at = step]
  OBVIOUS
<1>2. /\ q0 \in PollerType /\ q0.at = step /\ q0.conn = poller[p].conn
      /\ q0.token = poller[p].token /\ q0 # NoPoller /\ poller' = [poller EXCEPT ![p] = q0]
  BY <1>1, <1>q, NoPollerType DEF ChannelInv, ChannelShapes, PollerType
<1>3. /\ running' \in [Channel -> Poller \cup {NoOne}]
      /\ slots' \in [Token -> Channel \cup {NoOne}]
  BY <1>1 DEF ChannelInv, ChannelShapes
<1>4. /\ TokensApart'
      /\ \A d \in Channel : running'[d] # NoOne =>
           /\ poller'[running'[d]].at # "none"
           /\ poller'[running'[d]].token = poller[running[d]].token
      /\ \A q \in Poller : poller'[q] = IF q = p THEN q0 ELSE poller[q]
      /\ \A q \in Poller : IF poller'[q].at = "none" THEN poller'[q] = NoPoller
                           ELSE poller'[q].conn \in Channel /\ poller'[q].token \in Token
  <2>1. poller[p].at # "none" /\ q0.at \in {"crashing", "returned"}
    BY <1>1, <1>2
  <2> QED BY <1>1, <1>2, <1>3, <2>1, PollerEnds
<1>5. ChannelShapes'
  BY <1>1, <1>2, <1>3, <1>4 DEF ChannelInv, ChannelShapes
<1>6. InOneHand'
  <2>1. \A q \in Poller : poller[q].at # "none" => poller'[q].at # "none"
    BY <1>2, <1>4
  <2>2. \A k \in Hand : request[k].victim \in Poller \cup {NoOne}
    BY DEF ChannelInv, ChannelShapes, Request
  <2> QED BY <1>1, <1>4, <2>1, <2>2 DEF ChannelInv, InOneHand
<1>7. CrashesNoted'
  BY <1>1, <1>2, <1>4 DEF ChannelInv, CrashesNoted
<1>8. PollersReachable'
  BY <1>1, <1>2, <1>4 DEF ChannelInv, PollersAccounted, PollersReachable, Awaited
<1>9. \A d \in Channel : ChannelOK(d)'
  <2> SUFFICES ASSUME NEW d \in Channel PROVE ChannelOK(d)'
    OBVIOUS
  <2>1. running'[d] # NoOne => poller'[running[d]].token = poller[running[d]].token
    BY <1>1, <1>4
  <2>2. Sweeping' = Sweeping
    BY <1>1 DEF Sweeping
  <2> QED BY <1>1, <2>1, <2>2, OtherChannel DEF ChannelInv
<1> QED BY <1>4, <1>5, <1>6, <1>7, <1>8, <1>9 DEF ChannelInv, PollersAccounted

\* RecordCrash: the step preserves the invariant.
LEMMA RecordCrashKeeps ==
  ASSUME ChannelInv, NEW p \in Poller, RecordCrash(p)
  PROVE  ChannelInv'
<1>q. PICK c, q0 : c = poller[p].conn /\ q0 = IF Awaited(p) THEN [poller[p] EXCEPT !.at = "returned"]
                                              ELSE NoPoller
  OBVIOUS
<1>1. /\ poller[p].at = "crashing" /\ poller[p].conn = c
      /\ running' = [running EXCEPT ![c] = NoOne] /\ slots' = SlotsWithout(c)
      /\ poller' = [poller EXCEPT ![p] = q0]
      /\ UNCHANGED <<rows, config, request, drift, stale, usurped>>
  BY <1>q DEF RecordCrash, ChannelInv, ChannelShapes
<1>2. /\ q0 \in PollerType
      /\ q0 = NoPoller \/ (q0.at = "returned" /\ q0.conn = c /\ q0.token = poller[p].token)
      /\ q0 = NoPoller => ~Awaited(p)
      /\ q0.at \in {"none", "returned"} /\ c \in Channel
  BY <1>1, <1>q, NoPollerType DEF ChannelInv, ChannelShapes, PollerType
<1>3. /\ \A d \in Channel : running'[d] = IF d = c THEN NoOne ELSE running[d]
      /\ running' \in [Channel -> Poller \cup {NoOne}]
      /\ slots' \in [Token -> Channel \cup {NoOne}]
      /\ \A u \in Token : slots[u] # c => slots'[u] = slots[u]
  BY <1>1, <1>2, Cleared
<1>4. \A d \in Channel : running'[d] # p
  <2>1. p # NoOne
    BY ChannelAssumption
  <2>2. \A d \in Channel : running[d] = p => d = c
    BY <1>1, <2>1 DEF ChannelInv, PollersAccounted, TokensApart
  <2> QED BY <1>3, <2>1, <2>2
<1>5. /\ TokensApart'
      /\ \A d \in Channel : running'[d] # NoOne =>
           /\ poller'[running'[d]].at # "none"
           /\ poller'[running'[d]].token = poller[running[d]].token
      /\ \A q \in Poller : poller'[q] = IF q = p THEN q0 ELSE poller[q]
      /\ \A q \in Poller : IF poller'[q].at = "none" THEN poller'[q] = NoPoller
                           ELSE poller'[q].conn \in Channel /\ poller'[q].token \in Token
  <2>1. poller[p].at # "none"
        /\ \A d \in Channel : /\ running'[d] \in {running[d], NoOne}
                              /\ running'[d] # NoOne => \A u \in Token : slots[u] = d => slots'[u] = d
    BY <1>1, <1>3
  <2>2. q0 = NoPoller \/ (q0.at \in {"crashing", "returned"} /\ q0.conn = poller[p].conn
                           /\ q0.token = poller[p].token)
    BY <1>1, <1>2
  <2> QED BY <1>1, <1>2, <1>3, <1>4, <2>1, <2>2, PollerEnds
<1>6. ChannelShapes'
  BY <1>1, <1>2, <1>3, <1>5 DEF ChannelInv, ChannelShapes
<1>7. InOneHand'
  <2>1. \A k \in Hand : request[k].victim \in Poller \cup {NoOne} /\ DOMAIN request = Hand
    BY DEF ChannelInv, ChannelShapes, Request
  <2>2. \A k \in Hand : request[k].victim = p => q0.at = "returned"
    BY <1>2, <2>1 DEF Awaited
  <2>3. \A k \in Hand : request[k].victim # NoOne =>
       /\ poller'[request[k].victim].at # "none"
       /\ \A d \in Channel : running'[d] # request[k].victim
    BY <1>3, <1>5, <2>1, <2>2 DEF ChannelInv, InOneHand
  <2> QED BY <1>1, <1>5, <2>3 DEF ChannelInv, InOneHand
<1>8. CrashesNoted'
  BY <1>1, <1>2, <1>3, <1>5 DEF ChannelInv, ChannelShapes, CrashesNoted
<1>9. PollersReachable'
  <2> SUFFICES ASSUME NEW q \in Poller, poller'[q].at = "polling"
               PROVE  running'[poller'[q].conn] = q \/ Awaited(q)' \/ poller'[q].conn \in usurped'
    BY DEF PollersReachable
  <2>1. q # p /\ poller'[q] = poller[q] /\ poller[q].conn \in Channel
    BY <1>2, <1>5 DEF ChannelInv, ChannelShapes
  <2>2. running[poller[q].conn] = q \/ Awaited(q) \/ poller[q].conn \in usurped
    BY <2>1 DEF ChannelInv, PollersAccounted, PollersReachable
  <2>3. running[c] \in {p, NoOne} \/ c \in usurped
    BY <1>1 DEF ChannelInv, CrashesNoted
  <2>4. Awaited(q)' = Awaited(q)
    BY <1>1 DEF Awaited
  <2> QED BY <1>1, <1>3, <2>1, <2>2, <2>3, <2>4, ChannelAssumption
<1>10. \A d \in Channel : ChannelOK(d)'
  <2> SUFFICES ASSUME NEW d \in Channel PROVE ChannelOK(d)'
    OBVIOUS
  <2>1. running'[d] \in {running[d], NoOne}
        /\ (running'[d] # NoOne => poller'[running[d]].token = poller[running[d]].token)
    BY <1>3, <1>5
  <2>2. Sweeping' = Sweeping
    BY <1>1 DEF Sweeping
  <2> QED BY <1>1, <2>1, <2>2, OtherChannel DEF ChannelInv
<1> QED BY <1>5, <1>6, <1>7, <1>8, <1>9, <1>10 DEF ChannelInv, PollersAccounted

\* BehindTheApi: the step preserves the invariant.
LEMMA BehindTheApiKeeps ==
  ASSUME ChannelInv, NEW c \in Channel, NEW s \in {"off", "gone"}, BehindTheApi(c, s)
  PROVE  ChannelInv'
<1>1. /\ rows[c] \in {"on", "off"} /\ rows' = [rows EXCEPT ![c] = s]
      /\ drift' = drift \cup {c} /\ stale' = IF Quiet(c) THEN stale ELSE stale \cup {c}
      /\ UNCHANGED <<config, running, slots, poller, request, usurped>>
  BY DEF BehindTheApi
<1>2. /\ rows' \in [Channel -> {"new", "on", "off", "gone"}] /\ rows'[c] = s
      /\ \A d \in Channel \ {c} : rows'[d] = rows[d]
  BY <1>1 DEF ChannelInv, ChannelShapes
<1>3. ChannelShapes' /\ InOneHand' /\ CrashesNoted' /\ PollersAccounted'
  <2>1. ChannelShapes' /\ InOneHand' /\ CrashesNoted'
    BY <1>1, <1>2 DEF ChannelInv, ChannelShapes, InOneHand, CrashesNoted
  <2>2. PollersAccounted'
    BY <1>1 DEF ChannelInv, PollersAccounted, TokensApart, PollersReachable, Awaited
  <2> QED BY <2>1, <2>2
<1>4. Sweeping' = Sweeping /\ \A d \in Channel : Handled(d)' = Handled(d)
  BY <1>1 DEF Sweeping, Handled
<1>5. \A d \in Channel \ {c} : ChannelOK(d)'
  BY <1>1, <1>2, <1>4, OtherChannel DEF ChannelInv
<1>6. ChannelOK(c)'
  <2>1. ChannelOK(c) /\ rows'[c] # "new" /\ c \in drift'
    BY <1>1, <1>2 DEF ChannelInv
  <2>2. c \notin stale' => ~Handled(c) /\ c \notin stale
    BY <1>1 DEF Quiet
  <2>3. \A h \in Endpoint : request'[h].conn = c => c \in stale'
    BY <1>1, <2>2 DEF Handled
  <2>4. \A h \in Endpoint : request'[h].conn = c => ChannelFits(request[h], c)'
    BY <1>1, <2>1, <2>3 DEF ChannelOK, ChannelFits
  <2> QED BY <1>1, <1>4, <2>1, <2>2, <2>3, <2>4 DEF ChannelOK
<1> QED BY <1>3, <1>5, <1>6 DEF ChannelInv

\* SweepLists: the step preserves the invariant.
LEMMA SweepListsKeeps ==
  ASSUME ChannelInv, SweepLists
  PROVE  ChannelInv'
<1> DEFINE r == [Asleep EXCEPT !.at = "look", !.live = On]
<1>1. /\ request[Sweeper] = Asleep /\ request' = [request EXCEPT ![Sweeper] = r]
      /\ drift' = {c \in drift : Handled(c)}
      /\ UNCHANGED <<rows, config, running, slots, poller, stale, usurped>>
  BY DEF SweepLists, Turns
<1>2. /\ r \in Request /\ r.at = "look" /\ r.victim = NoOne /\ r.live = On /\ r.conn = NoOne
      /\ RequestOK(Sweeper, r)
  BY ChannelAssumption DEF Request, Steps, Asleep, RequestOK, On
<1> HIDE DEF r
<1>3. ChannelShapes' /\ InOneHand' /\ CrashesNoted' /\ PollersAccounted'
  <2>1. /\ rows' \in [Channel -> {"new", "on", "off", "gone"}]
        /\ config' \in [Channel -> Token \cup {NoOne}]
        /\ Sweeper \in Hand /\ r.victim = request[Sweeper].victim
    BY <1>1, <1>2, AsleepRequest DEF ChannelInv, ChannelShapes, Hand
  <2> QED BY <1>1, <1>2, <2>1, RequestGoesOn
<1>4. /\ \A k \in Endpoint : request'[k] = request[k]
      /\ request'[Sweeper] = r
  BY <1>1, ChannelAssumption DEF ChannelInv, ChannelShapes, Hand
<1>5. \A d \in Channel : ChannelOK(d)'
  <2> SUFFICES ASSUME NEW d \in Channel PROVE ChannelOK(d)'
    OBVIOUS
  <2>1. ChannelOK(d) /\ (Handled(d)' <=> Handled(d))
    BY <1>4 DEF ChannelInv, Handled
  <2>2. Handled(d) => (d \in drift' <=> d \in drift)
    BY <1>1
  <2>3. Sweeping' /\ request'[Sweeper].live = On
    BY <1>2, <1>4 DEF Sweeping
  <2>4. \A h \in Endpoint : request'[h].conn = d => ChannelFits(request[h], d)'
    BY <1>1, <1>4, <2>1, <2>2 DEF ChannelOK, ChannelFits, Handled
  <2>5. d \notin drift' \cap stale' =>
          \A h, k \in Endpoint : request'[h].conn = d /\ request'[k].conn = d => h = k
    BY <1>1, <1>4, <2>1, <2>2 DEF ChannelOK, Handled
  <2>6. ~Handled(d)' /\ running'[d] # NoOne =>
         /\ d \notin drift' /\ (Sweeping' => d \in request'[Sweeper].live) => rows'[d] = "on"
         /\ d \notin stale' => poller'[running'[d]].token = config'[d]
    BY <1>1, <2>1, <2>3 DEF ChannelOK, On
  <2> QED BY <1>1, <2>1, <2>4, <2>5, <2>6 DEF ChannelOK
<1> QED BY <1>3, <1>5 DEF ChannelInv

\* SweepStops: the step preserves the invariant.
LEMMA SweepStopsKeeps ==
  ASSUME ChannelInv, SweepStops
  PROVE  ChannelInv'
<1>r. PICK r0 : r0 = request[Sweeper]
  OBVIOUS
<1>1. /\ r0.at = "look" /\ request[Sweeper] = r0
      /\ UNCHANGED <<rows, config, poller, drift, stale, usurped>>
      /\ \/ /\ {c \in Channel : running[c] # NoOne} \ r0.live = {}
            /\ request' = [request EXCEPT ![Sweeper] = Asleep] /\ UNCHANGED <<running, slots>>
         \/ \E c \in Channel : /\ running[c] # NoOne
                               /\ Pop(Sweeper, [r0 EXCEPT !.next = "look"], c)
  BY <1>r DEF SweepStops, Turns
<1>2. /\ Sweeper \in Hand /\ r0 \in Request /\ RequestOK(Sweeper, r0) /\ r0.victim = NoOne
      /\ r0.conn = NoOne
  <2>1. Sweeper \in Hand /\ r0 \in Request /\ RequestOK(Sweeper, r0)
    BY <1>1 DEF ChannelInv, ChannelShapes, Hand
  <2> QED BY <1>1, <2>1 DEF RequestOK
<1>3. Sweeping
  BY <1>1 DEF Sweeping
<1>4. CASE /\ {c \in Channel : running[c] # NoOne} \ r0.live = {}
           /\ request' = [request EXCEPT ![Sweeper] = Asleep] /\ UNCHANGED <<running, slots>>
  <2>1. ChannelShapes' /\ InOneHand' /\ CrashesNoted' /\ PollersAccounted'
    <3>1. /\ rows' \in [Channel -> {"new", "on", "off", "gone"}]
          /\ config' \in [Channel -> Token \cup {NoOne}]
      BY <1>1 DEF ChannelInv, ChannelShapes
    <3> QED BY <1>1, <1>2, <1>4, <3>1, AsleepRequest, RequestGoesOn
  <2>2. /\ \A k \in Endpoint : request'[k] = request[k]
        /\ request'[Sweeper] = Asleep /\ ~Sweeping'
    BY <1>4, AsleepRequest, ChannelAssumption DEF ChannelInv, ChannelShapes, Hand, Sweeping
  <2>3. \A d \in Channel : running'[d] # NoOne => d \in r0.live
    BY <1>4
  <2>4. \A d \in Channel : ChannelOK(d)'
    <3> SUFFICES ASSUME NEW d \in Channel PROVE ChannelOK(d)'
      OBVIOUS
    <3> QED BY <1>1, <1>4, <2>2, <2>3, OtherChannel DEF ChannelInv
  <2> QED BY <2>1, <2>4 DEF ChannelInv
<1>5. CASE \E c \in Channel : /\ running[c] # NoOne
                              /\ Pop(Sweeper, [r0 EXCEPT !.next = "look"], c)
  <2>1. PICK c \in Channel : /\ running[c] # NoOne
                             /\ Pop(Sweeper, [r0 EXCEPT !.next = "look"], c)
    BY <1>5
  <2>2. PICK r : r = [[r0 EXCEPT !.next = "look"] EXCEPT !.at = "halt", !.victim = running[c]]
    OBVIOUS
  <2>3. /\ running' = [running EXCEPT ![c] = NoOne] /\ slots' = SlotsWithout(c)
        /\ request' = [request EXCEPT ![Sweeper] = r]
    BY <2>1, <2>2 DEF Pop, Turns
  <2>4. /\ r \in Request /\ r.at = "halt" /\ r.victim = running[c] /\ r.next = "look"
        /\ r.conn = NoOne /\ r.live = r0.live /\ RequestOK(Sweeper, r)
    <3>1. running[c] \in Poller
      BY <2>1 DEF ChannelInv, ChannelShapes
    <3>2. /\ r \in Request /\ r.at = "halt" /\ r.victim = running[c] /\ r.next = "look"
          /\ r.conn = NoOne /\ r.live = r0.live
      BY <1>2, <2>2, <3>1 DEF Request, Steps
    <3> QED BY <2>1, <3>2 DEF RequestOK
  <2>5. ChannelShapes' /\ InOneHand' /\ CrashesNoted' /\ PollersAccounted'
    BY <1>1, <1>2, <2>3, <2>4, TakenOff
  <2>6. /\ \A k \in Endpoint : request'[k] = request[k]
        /\ request'[Sweeper] = r /\ Sweeping'
    BY <2>3, <2>4, ChannelAssumption DEF ChannelInv, ChannelShapes, Hand, Sweeping
  <2>7. \A d \in Channel : running'[d] \in {running[d], NoOne}
    BY <2>3, Cleared
  <2>8. \A d \in Channel : ChannelOK(d)'
    <3> SUFFICES ASSUME NEW d \in Channel PROVE ChannelOK(d)'
      OBVIOUS
    <3> QED BY <1>1, <1>3, <2>4, <2>6, <2>7, OtherChannel DEF ChannelInv
  <2> QED BY <2>5, <2>8 DEF ChannelInv
<1> QED BY <1>1, <1>4, <1>5

\* After a restart the first enabled row of each token is polled, the others not.
LEMMA RebootKeeps ==
  ASSUME ChannelInv, Reboot
  PROVE  ChannelInv'
<1>1. PICK first, run :
         /\ first \in SUBSET On /\ run \in [first -> Poller]
         /\ \A c \in On : \E d \in first : config[d] = config[c]
         /\ \A c, d \in first : c # d => config[c] # config[d] /\ run[c] # run[d]
         /\ running' = [c \in Channel |-> IF c \in first THEN run[c] ELSE NoOne]
         /\ poller' = [p \in Poller |->
              IF \E c \in first : run[c] = p
              THEN LET c == CHOOSE d \in first : run[d] = p
                   IN  [at |-> "polling", conn |-> c, token |-> config[c]]
              ELSE NoPoller]
         /\ slots' = [t \in Token |->
              IF \E c \in first : config[c] = t
              THEN CHOOSE c \in first : config[c] = t ELSE NoOne]
  BY DEF Reboot
<1>2. /\ request' = [h \in DOMAIN request |-> Asleep]
      /\ drift' = {} /\ stale' = {} /\ usurped' = {} /\ UNCHANGED <<rows, config>>
  BY DEF Reboot
<1>3. /\ DOMAIN request = Hand
      /\ \A c \in first : c \in Channel /\ rows[c] = "on" /\ config[c] \in Token /\ run[c] \in Poller
                          /\ run[c] # NoOne /\ c # NoOne
  <2>1. DOMAIN request = Hand
    BY DEF ChannelInv, ChannelShapes
  <2> SUFFICES ASSUME NEW c \in first
               PROVE  c \in Channel /\ rows[c] = "on" /\ config[c] \in Token /\ run[c] \in Poller
                      /\ run[c] # NoOne /\ c # NoOne
    BY <2>1
  <2>2. c \in Channel /\ rows[c] = "on" /\ run[c] \in Poller
    BY <1>1 DEF On
  <2>3. config[c] \in Token
    BY <2>2 DEF ChannelInv, ChannelOK
  <2> QED BY <2>2, <2>3, ChannelAssumption
<1>4. \A c \in first : /\ (CHOOSE d \in first : run[d] = run[c]) = c
                       /\ (CHOOSE d \in first : config[d] = config[c]) = c
  <2> SUFFICES ASSUME NEW c \in first
               PROVE  /\ (CHOOSE d \in first : run[d] = run[c]) = c
                      /\ (CHOOSE d \in first : config[d] = config[c]) = c
    OBVIOUS
  <2>1. \A d \in first : run[d] = run[c] => d = c
    BY <1>1
  <2>2. \A d \in first : config[d] = config[c] => d = c
    BY <1>1
  <2> QED BY <2>1, <2>2
<1>5. \A c \in Channel : running'[c] = IF c \in first THEN run[c] ELSE NoOne
  BY <1>1
<1>6. \A c \in first : /\ poller'[run[c]] \in PollerType /\ poller'[run[c]].at = "polling"
                       /\ poller'[run[c]].conn = c /\ poller'[run[c]].token = config[c]
                       /\ slots'[config[c]] = c
  <2> SUFFICES ASSUME NEW c \in first
               PROVE  /\ poller'[run[c]] \in PollerType /\ poller'[run[c]].at = "polling"
                      /\ poller'[run[c]].conn = c /\ poller'[run[c]].token = config[c]
                      /\ slots'[config[c]] = c
    OBVIOUS
  <2>1. poller'[run[c]] = [at |-> "polling", conn |-> c, token |-> config[c]]
    BY <1>1, <1>3, <1>4
  <2>2. slots'[config[c]] = c
    BY <1>1, <1>3, <1>4
  <2> QED BY <1>3, <2>1, <2>2 DEF PollerType
<1>7. \A p \in Poller : poller'[p] = NoPoller \/ \E c \in first : run[c] = p
  BY <1>1
<1>8. \A h \in Hand : request'[h] = Asleep
  BY <1>2, <1>3
<1>9. ChannelShapes'
  <2>1. poller' \in [Poller -> PollerType]
    <3>1. \A p \in Poller : poller'[p] \in PollerType
      BY <1>6, <1>7, NoPollerType
    <3>2. poller' = [p \in Poller |-> poller'[p]]
      BY <1>1
    <3> QED BY <3>1, <3>2
  <2>2. slots' \in [Token -> Channel \cup {NoOne}]
    <3>1. \A t \in Token : slots'[t] \in Channel \cup {NoOne}
      BY <1>1, <1>3
    <3>2. slots' = [t \in Token |-> slots'[t]]
      BY <1>1
    <3> QED BY <3>1, <3>2
  <2>3. running' \in [Channel -> Poller \cup {NoOne}]
    BY <1>1, <1>3
  <2>4. \A p \in Poller : IF poller'[p].at = "none" THEN poller'[p] = NoPoller
                          ELSE poller'[p].conn \in Channel /\ poller'[p].token \in Token
    BY <1>3, <1>6, <1>7, NoPollerType
  <2>5. request' \in [Hand -> Request] /\ \A h \in Hand : RequestOK(h, request'[h])
    BY <1>2, <1>3, <1>8, AsleepRequest
  <2> QED BY <1>2, <2>1, <2>2, <2>3, <2>4, <2>5 DEF ChannelInv, ChannelShapes
<1>10. InOneHand'
  <2>1. \A h \in Hand : request'[h].victim = NoOne
    BY <1>8, AsleepRequest
  <2>2. \A d \in Channel : running'[d] # NoOne => poller'[running'[d]].at # "none"
    BY <1>5, <1>6
  <2> QED BY <2>1, <2>2 DEF InOneHand
<1>11. CrashesNoted'
  BY <1>6, <1>7, NoPollerType DEF CrashesNoted
<1>12. TokensApart'
  <2>1. \A c, d \in first : c # d => config[c] # config[d]
    BY <1>1
  <2>2. \A c \in Channel : running'[c] # NoOne =>
          /\ c \in first /\ poller'[running'[c]].conn = c
          /\ poller'[running'[c]].token = config[c] /\ slots'[config[c]] = c
    BY <1>5, <1>6
  <2>3. \A c \in Channel : running'[c] # NoOne =>
          /\ poller'[running'[c]].conn = c /\ slots'[poller'[running'[c]].token] = c
    BY <2>2
  <2>4. \A c, d \in Channel : c # d /\ running'[c] # NoOne /\ running'[d] # NoOne =>
          poller'[running'[d]].token # poller'[running'[c]].token
    BY <2>1, <2>2
  <2> QED BY <2>3, <2>4 DEF TokensApart
<1>13. PollersReachable'
  BY <1>3, <1>5, <1>6, <1>7, NoPollerType DEF PollersReachable
<1>14. \A d \in Channel : ChannelOK(d)'
  <2> SUFFICES ASSUME NEW d \in Channel PROVE ChannelOK(d)'
    OBVIOUS
  <2>1. \A h \in Endpoint : request'[h].conn # d
    BY <1>8, AsleepRequest, ChannelAssumption DEF Hand
  <2>2. ~Handled(d)'
    BY <2>1 DEF Handled
  <2>3. rows'[d] = rows[d] /\ config'[d] = config[d] /\ (rows[d] # "new" => config[d] \in Token)
    BY <1>2 DEF ChannelInv, ChannelOK
  <2>4. running'[d] # NoOne => d \in first
    BY <1>5
  <2> QED BY <1>3, <1>5, <1>6, <2>1, <2>2, <2>3, <2>4 DEF ChannelOK
<1> QED BY <1>9, <1>10, <1>11, <1>12, <1>13, <1>14 DEF ChannelInv, PollersAccounted

\* A step that changes nothing of the channels preserves their invariant.
LEMMA ChannelsStay == ChannelInv /\ UNCHANGED channelVars => ChannelInv'
<1> SUFFICES ASSUME ChannelInv, UNCHANGED channelVars PROVE ChannelInv'
  OBVIOUS
<1> USE DEF channelVars
<1>1. ChannelShapes' /\ InOneHand' /\ CrashesNoted'
  BY DEF ChannelInv, ChannelShapes, InOneHand, CrashesNoted
<1>2. PollersAccounted'
  BY DEF ChannelInv, PollersAccounted, TokensApart, PollersReachable, Awaited
<1>3. \A d \in Channel : ChannelOK(d)'
  BY DEF ChannelInv, ChannelOK, ChannelFits, Handled, Sweeping
<1> QED BY <1>1, <1>2, <1>3 DEF ChannelInv

\* Two pollers never share a token, none that polls is out of reach, and between
\* requests the pollers are those of the enabled rows.
THEOREM ChannelsAreSound == ChannelSpec => []ChannelsSound
<1>1. ChannelInv /\ [ChannelNext]_channelVars => ChannelInv'
  <2> SUFFICES ASSUME ChannelInv, ChannelNext PROVE ChannelInv'
    BY ChannelsStay
  <2>1. ASSUME NEW h \in Endpoint, EndpointStep(h) PROVE ChannelInv'
    <3>1. ASSUME NEW c \in Channel, NEW t \in Token, Create(h, c, t) \/ Reconfigure(h, c, t)
          PROVE  ChannelInv'
      BY <3>1, ChannelCreateKeeps, ReconfigureKeeps
    <3>2. ASSUME NEW c \in Channel, Disable(h, c) \/ Delete(h, c) PROVE ChannelInv'
      BY <3>2, DisableKeeps, ChannelDeleteKeeps
    <3>3. ASSUME Start(h) \/ Stop(h) \/ Read(h) \/ Erase(h) \/ Abort(h) PROVE ChannelInv'
      BY <3>3, StartKeeps, StopKeeps, ChannelReadKeeps, EraseKeeps
    <3> QED BY <2>1, <3>1, <3>2, <3>3 DEF EndpointStep
  <2>2. ASSUME NEW h \in Endpoint \cup {Sweeper}, Halt(h) PROVE ChannelInv'
    BY <2>2, HaltKeeps DEF Hand
  <2>3. ASSUME NEW p \in Poller, Crash(p) \/ Return(p) \/ RecordCrash(p) PROVE ChannelInv'
    BY <2>3, PollerStepKeeps, RecordCrashKeeps
  <2>4. ASSUME NEW c \in Channel, NEW s \in {"off", "gone"}, BehindTheApi(c, s)
        PROVE  ChannelInv'
    BY <2>4, BehindTheApiKeeps
  <2>5. ASSUME SweepLists \/ SweepStops \/ Reboot PROVE ChannelInv'
    BY <2>5, SweepListsKeeps, SweepStopsKeeps, RebootKeeps
  <2> QED BY <2>1, <2>2, <2>3, <2>4, <2>5 DEF ChannelNext
<1>2. ChannelInv => ChannelsSound
  BY DEF ChannelInv, ChannelsSound, RowsObeyed, ChannelOK, Quiet
<1> QED BY <1>1, <1>2, ChannelsInitially, PTL DEF ChannelSpec
=============================================================================
