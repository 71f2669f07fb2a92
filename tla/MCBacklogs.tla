----------------------------- MODULE MCBacklogs -----------------------------
(***************************************************************************)
(* What waits to be worked off, in one run: the events of a conversation   *)
(* that the proxy appends and compaction folds into memories, and the      *)
(* documents whose graph nodes are still to be built.  The scene, chosen   *)
(* at the start, says which part takes steps; the variables of the others  *)
(* stay as they begin.  A shelf is a scene of GraphBacklog: one document   *)
(* with two texts and an operator who retries, or two documents with one   *)
(* text, where an error ends the batch of both.                            *)
(***************************************************************************)
EXTENDS CompactionClaims, ProxyTurns, GraphBacklog

CONSTANTS k1, k2, t1, t2

VARIABLE scene

Shelf(docs, texts, resets) ==
  [part |-> "backlog", docs |-> docs, texts |-> texts,
   budget |-> [calls |-> MaxCalls, faults |-> MaxSetbacks, resets |-> resets]]

Shelves == {Shelf({k1}, {t1, t2}, MaxResets), Shelf({k1, k2}, {t1}, 0)}

Scenes ==
  Shelves \cup [part : {"compaction", "proxy"}, docs : {{}}, texts : {{}},
                budget : {[calls |-> 0, faults |-> 0, resets |-> 0]}]

OfCompaction == scene.part = "compaction" /\ UNCHANGED <<proxyVars, backlogVars, scene>>
OfProxy      == scene.part = "proxy" /\ UNCHANGED <<vars, backlogVars, scene>>

OfBacklog ==
  /\ scene.part = "backlog"
  /\ \A d \in Doc \ scene.docs : raw'[d] = raw[d]
  /\ \A d \in scene.docs : raw'[d].body \in scene.texts \cup {Blank, NoText}
  /\ \A c \in Call : call'[c].doc \in scene.docs \cup {NoText}
  /\ UNCHANGED <<vars, proxyVars, scene>>

BacklogsInit ==
  /\ scene \in Scenes
  /\ Init /\ ProxyInit
  /\ origin \in [Doc -> Kind] /\ \A d \in Doc \ scene.docs : origin[d] = "store"
  /\ BacklogInitWith(scene.budget)

BacklogsNext ==
  \/ Next /\ OfCompaction
  \/ ProxyNext /\ OfProxy
  \/ BacklogNext /\ OfBacklog

BacklogsSpec ==
  /\ BacklogsInit /\ [][BacklogsNext]_<<vars, proxyVars, backlogVars, scene>>
  /\ \A a \in Attempt : WF_vars(Compact(a) /\ OfCompaction)
  /\ \A a \in Attempt : WF_vars(Claiming(a) /\ claim' = a /\ OfCompaction)
  /\ WF_vars(LeaseEnds /\ UNCHANGED lapses /\ OfCompaction)
  /\ \A c \in Call : WF_backlogVars(CallStep(c) /\ OfBacklog)
  /\ WF_backlogVars(PassStep /\ OfBacklog)
  /\ WF_backlogVars(SweeperLooks /\ OfBacklog) /\ WF_backlogVars(SweeperStarts /\ OfBacklog)
=============================================================================
