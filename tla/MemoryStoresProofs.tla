-------------------------- MODULE MemoryStoresProofs -------------------------
(***************************************************************************)
(* What holds of the stores of an agent's memory for any records, contents *)
(* and operations under way: a record stored for good stays, a content has *)
(* one row, a session record is listed, and a point is that of its row,    *)
(* each but for the overlaps and failures that the history names.          *)
(*                                                                         *)
(* The first needs the shapes only.  Each of the others gets an invariant  *)
(* that says what an operation under way has read and is about to write,   *)
(* and a lemma that says what one step of one operation has to keep to;    *)
(* each action is then shown to keep to it.                                *)
(***************************************************************************)
EXTENDS MemoryStores, TLAPS

(***************************************************************************)
(* The shapes: what rows there are, and what an operation remembers at     *)
(* each of its calls.                                                      *)
(***************************************************************************)

\* Only ids given out have rows, and only session records have dated ones.
Known(rows, ids) ==
  \A r \in Record : rows[r] # Nothing =>
     r \in ids /\ (rows[r].dated => r \in SessionRecord)

FormOK(t, ids, keys) ==
  /\ t.step = "idle" => t = Idle
  /\ t.rec # Nothing => t.rec \in ids
  /\ t.session # Nothing => t.session \in SessionRecord \cap ids
  /\ t.ids \subseteq ids /\ t.drop \subseteq ids /\ t.add \subseteq ids
  /\ t.step \notin {"unindex", "reindex"} => t.drop = {} /\ t.add = {}
  /\ t.step \in {"unindex", "reindex", "replace", "drop"} => t.rec = Nothing /\ t.session = Nothing
  /\ t.step \in {"save", "upsert"} =>
       /\ t.rec # Nothing /\ t.copy \in Row /\ t.copy.hashed
       /\ t.copy.dated => t.rec \in SessionRecord
  /\ t.step \in {"lookAdd", "list", "dual"} =>
       t.rec \in SessionRecord /\ t.copy \in Row /\ ~t.copy.hashed
  /\ t.step \in {"uncache", "lookRemove", "unlist"} => t.session # Nothing
  /\ t.step \in {"lookRemove", "unlist"} => keys[t.session] = Nothing
  /\ t.step = "replace" => t.backup \in Rows /\ Known(t.backup, ids)
  /\ t.step = "unindex" => t.drop # {}
  /\ t.step = "reindex" => t.drop = {} /\ t.add # {}
  /\ \A r \in t.add : t.backup \in Rows /\ t.backup[r] # Nothing

StoreShapes ==
  /\ row \in Rows /\ Known(row, born)
  /\ snapshot \in Rows \cup {Nothing} /\ (snapshot # Nothing => Known(snapshot, born))
  /\ point \in [Record -> Content \cup {Nothing}]
  /\ cached \in [Record -> Content \cup {Nothing}]
  /\ \A r \in Record \ born : point[r] = Nothing /\ cached[r] = Nothing
  /\ listing \subseteq born /\ born \subseteq Record /\ old \subseteq born
  /\ promised \subseteq born /\ strayed \subseteq born
  /\ rivalled \subseteq Content /\ misfiled \in BOOLEAN

Bounds == calls \in 0 .. MaxCalls /\ faultsLeft \in 0 .. MaxFaults

TaskShapes ==
  /\ task \in [Client -> TaskType]
  /\ \A c \in Client : FormOK(task[c], born, cached)

StoresShapes == StoreShapes /\ TaskShapes

\* An operation at rest remembers nothing.
LEMMA IdleTask ==
  /\ Idle \in TaskType /\ Idle.step = "idle" /\ Idle.rec = Nothing
  /\ Idle.copy = Nothing /\ Idle.session = Nothing /\ Idle.ids = {}
  /\ Idle.drop = {} /\ Idle.add = {} /\ Idle.backup = Nothing
BY DEF Idle, TaskType, Step

\* It may forget all it remembers.
LEMMA IdleForm == ASSUME NEW ids, NEW keys PROVE FormOK(Idle, ids, keys)
BY IdleTask DEF FormOK

\* The shapes give the types that the runs check.
LEMMA ShapesTyped == StoresShapes /\ Bounds => StoresTypeOK
<1> SUFFICES ASSUME StoresShapes, Bounds PROVE StoresTypeOK
  OBVIOUS
<1>1. ASSUME NEW c \in Client PROVE TaskOK(task[c])
  <2> DEFINE t == task[c]
  <2>1. t \in TaskType /\ FormOK(t, born, cached)
    BY DEF StoresShapes, TaskShapes
  <2> HIDE DEF t
  <2>2. TaskOK(t)
    BY <2>1, StoresAssumption DEF TaskOK, FormOK, TaskType
  <2> QED BY <2>2 DEF t
<1>2. DOMAIN task = Client
  BY DEF StoresShapes, TaskShapes
<1> QED BY <1>1, <1>2 DEF StoresShapes, StoreShapes, Bounds, StoresTypeOK

\* More ids and fewer keys leave a task as it should be.
LEMMA FormStays ==
  ASSUME NEW t \in TaskType, NEW ids, NEW ids2, NEW keys, NEW keys2,
         FormOK(t, ids, keys), ids \subseteq ids2,
         \A r \in ids : keys[r] = Nothing => keys2[r] = Nothing
  PROVE  FormOK(t, ids2, keys2)
<1>1. t.step = "replace" => Known(t.backup, ids2)
  BY DEF FormOK, Known
<1>2. t.step \in {"lookRemove", "unlist"} => keys2[t.session] = Nothing
  BY DEF FormOK
<1> QED BY <1>1, <1>2 DEF FormOK

\* A step that changes one task, and no other.
LEMMA OneTask ==
  ASSUME TaskShapes, NEW c \in Client, NEW t \in TaskType, Becomes(c, t),
         FormOK(t, born', cached'), born \subseteq born',
         \A r \in born : cached[r] = Nothing => cached'[r] = Nothing
  PROVE  TaskShapes'
<1>1. task' \in [Client -> TaskType] /\ task'[c] = t
      /\ \A d \in Client \ {c} : task'[d] = task[d]
  BY DEF TaskShapes, Becomes
<1>2. ASSUME NEW d \in Client PROVE FormOK(task'[d], born', cached')
  <2>1. CASE d = c
    BY <1>1, <2>1
  <2>2. CASE d # c
    <3>1. FormOK(task[d], born, cached) /\ task[d] \in TaskType
      BY DEF TaskShapes
    <3>2. FormOK(task[d], born', cached')
      BY <3>1, FormStays
    <3> QED BY <1>1, <2>2, <3>2
  <2> QED BY <2>1, <2>2
<1> QED BY <1>1, <1>2 DEF TaskShapes

\* A step that changes no task.
LEMMA NoTask ==
  ASSUME TaskShapes, UNCHANGED task, born \subseteq born',
         \A r \in born : cached[r] = Nothing => cached'[r] = Nothing
  PROVE  TaskShapes'
<1>1. ASSUME NEW d \in Client PROVE FormOK(task'[d], born', cached')
  <2>1. FormOK(task[d], born, cached) /\ task[d] \in TaskType
    BY DEF TaskShapes
  <2> QED BY <2>1, FormStays
<1> QED BY <1>1 DEF TaskShapes

\* What a client at work remembers.
LEMMA TaskFacts ==
  ASSUME StoresShapes, NEW c \in Client
  PROVE  task[c] \in TaskType /\ FormOK(task[c], born, cached)
BY DEF StoresShapes, TaskShapes

\* save, up to its row.
LEMMA SaveShapes ==
  ASSUME StoresShapes, NEW c \in Client,
         \/ \E x \in Content : SaveDuplicate(c, x)
         \/ \E r \in Record, x \in Content : SaveNew(c, r, x)
         \/ Save(c)
  PROVE  StoresShapes'
<1> USE DEF StoresShapes, StoreShapes
<1>1. CASE \E x \in Content : SaveDuplicate(c, x)
  <2>1. StoreShapes'
    BY <1>1 DEF SaveDuplicate, stores, Begin, ByHash, Stored, Known
  <2>2. TaskShapes'
    BY <1>1, NoTask DEF SaveDuplicate, stores
  <2> QED BY <2>1, <2>2
<1>2. ASSUME NEW r \in Record, NEW x \in Content, SaveNew(c, r, x) PROVE StoresShapes'
  <2> DEFINE t == [Idle EXCEPT !.step = "save", !.rec = r, !.copy = SavedRow(x)]
  <2>1. t \in TaskType /\ t.step = "save" /\ t.rec = r /\ t.copy = SavedRow(x)
        /\ t.session = Nothing /\ t.ids = {} /\ t.drop = {} /\ t.add = {}
    BY DEF Idle, TaskType, Step, SavedRow, Row
  <2>2. SavedRow(x) \in Row /\ SavedRow(x).hashed /\ ~SavedRow(x).dated
    BY DEF SavedRow, Row
  <2>3. FormOK(t, born', cached')
    <3> HIDE DEF t
    <3> QED BY <1>2, <2>1, <2>2, StoresAssumption DEF FormOK, SaveNew
  <2>4. StoreShapes'
    BY <1>2 DEF SaveNew, stores, Begin, Known, Contend
  <2>5. TaskShapes'
    <3> HIDE DEF t
    <3> QED BY <1>2, <2>1, <2>3, OneTask DEF SaveNew, stores, t
  <2> QED BY <2>4, <2>5
<1>3. CASE Save(c)
  <2> PICK t \in TaskType : t = task[c]
    BY TaskFacts
  <2>1. FormOK(t, born, cached) /\ t.step = "save"
    BY <1>3, TaskFacts DEF Save, At
  <2>2. t.rec \in born /\ t.rec \in Record /\ t.copy \in Row
        /\ (t.copy.dated => t.rec \in SessionRecord)
    BY <2>1 DEF FormOK
  <2>3. row' \in Rows /\ Known(row', born')
    BY <1>3, <2>2, StoresAssumption DEF Save, SaveRow, Rows, Known
  <2>4. StoreShapes'
    BY <1>3, <2>2, <2>3 DEF Save, At, Works, Fails, Finish, Goes
  <2>5. ASSUME Goes(c, "upsert") PROVE TaskShapes'
    <3> DEFINE u == [t EXCEPT !.step = "upsert"]
    <3>1. u \in TaskType /\ FormOK(u, born, cached)
      BY <2>1 DEF FormOK, TaskType, Step
    <3>2. Becomes(c, u)
      BY <2>5 DEF Goes
    <3> HIDE DEF u
    <3> QED BY <1>3, <3>1, <3>2, OneTask DEF Save
  <2>6. ASSUME Finish(c) PROVE TaskShapes'
    BY <1>3, <2>6, OneTask, IdleTask, IdleForm DEF Save, Finish
  <2> QED BY <1>3, <2>4, <2>5, <2>6 DEF Save
<1> QED BY <1>1, <1>2, <1>3

\* save, its point.
LEMMA UpsertShapes ==
  ASSUME StoresShapes, NEW c \in Client, Upsert(c) \/ UpsertFails(c)
  PROVE  StoresShapes'
<1> USE DEF StoresShapes, StoreShapes
<1> PICK t \in TaskType : t = task[c]
  BY TaskFacts
<1>1. FormOK(t, born, cached) /\ t.step = "upsert"
  BY TaskFacts DEF Upsert, UpsertFails, At
<1>2. t.rec \in born /\ t.rec \in Record /\ t.copy \in Row
  BY <1>1 DEF FormOK
<1>3. CASE Upsert(c)
  <2>1. t.copy.text \in Content
    BY <1>2 DEF Row
  <2>2. StoreShapes'
    BY <1>2, <1>3, <2>1 DEF Upsert, At, Stored
  <2>3. ASSUME Goes(c, "uncache"), t.session # Nothing PROVE TaskShapes'
    <3> DEFINE u == [t EXCEPT !.step = "uncache"]
    <3>1. u \in TaskType /\ FormOK(u, born, cached)
      BY <1>1, <2>3 DEF FormOK, TaskType, Step
    <3>2. Becomes(c, u)
      BY <2>3 DEF Goes
    <3> HIDE DEF u
    <3> QED BY <1>3, <3>1, <3>2, OneTask DEF Upsert
  <2>4. ASSUME Finish(c) PROVE TaskShapes'
    BY <1>3, <2>4, OneTask, IdleTask, IdleForm DEF Upsert, Finish
  <2> QED BY <1>3, <2>2, <2>3, <2>4 DEF Upsert
<1>4. CASE UpsertFails(c)
  <2>1. StoreShapes'
    BY <1>2, <1>4 DEF UpsertFails, At, Fails, stores
  <2>2. TaskShapes'
    BY <1>4, OneTask, IdleTask, IdleForm DEF UpsertFails, Finish, stores
  <2> QED BY <2>1, <2>2
<1> QED BY <1>3, <1>4

\* cache_session.
LEMMA SessionShapes ==
  ASSUME StoresShapes, NEW c \in Client,
         \/ \E r \in Record, x \in Content : CacheSession(c, r, x)
         \/ ReadIndex(c) \/ AddToIndex(c) \/ IndexFails(c) \/ DualWrite(c)
  PROVE  StoresShapes'
<1> USE DEF StoresShapes, StoreShapes
<1>1. ASSUME NEW r \in Record, NEW x \in Content, CacheSession(c, r, x) PROVE StoresShapes'
  <2> DEFINE t == [Idle EXCEPT !.step = "lookAdd", !.rec = r, !.copy = SessionRow(x)]
  <2>1. t \in TaskType /\ t.step = "lookAdd" /\ t.rec = r /\ t.copy = SessionRow(x)
        /\ t.session = Nothing /\ t.ids = {} /\ t.drop = {} /\ t.add = {}
    BY DEF Idle, TaskType, Step, SessionRow, Row
  <2>2. SessionRow(x) \in Row /\ ~SessionRow(x).hashed
    BY DEF SessionRow, Row
  <2>3. FormOK(t, born', cached')
    <3> HIDE DEF t
    <3> QED BY <1>1, <2>1, <2>2, StoresAssumption DEF FormOK, CacheSession
  <2>4. StoreShapes'
    BY <1>1 DEF CacheSession, history, Begin, Known
  <2>5. TaskShapes'
    <3>1. (\A s \in born : cached'[s] = cached[s]) /\ born \subseteq born'
      BY <1>1 DEF CacheSession
    <3>2. Becomes(c, t)
      BY <1>1 DEF CacheSession
    <3> HIDE DEF t
    <3> QED BY <2>1, <2>3, <3>1, <3>2, OneTask
  <2> QED BY <2>4, <2>5
<1> PICK t \in TaskType : t = task[c]
  BY TaskFacts
<1>2. FormOK(t, born, cached)
  BY TaskFacts
<1>3. CASE ReadIndex(c)
  <2> PICK L \in SUBSET Record : L = listing /\ L \subseteq born
    OBVIOUS
  <2> DEFINE u(step) == [t EXCEPT !.step = step, !.ids = L]
  <2>1. \/ t.step = "lookAdd" /\ Becomes(c, u("list"))
        \/ t.step = "lookRemove" /\ Becomes(c, u("unlist"))
    <3> PICK next \in {<<"lookAdd", "list">>, <<"lookRemove", "unlist">>} :
          t.step = next[1] /\ Becomes(c, u(next[2]))
      BY <1>3 DEF ReadIndex, At
    <3> HIDE DEF u
    <3>1. CASE next = <<"lookAdd", "list">>
      BY <3>1
    <3>2. CASE next = <<"lookRemove", "unlist">>
      BY <3>2
    <3> QED BY <3>1, <3>2
  <2>2. \A step \in Step :
          /\ u(step) \in TaskType /\ u(step).step = step /\ u(step).rec = t.rec
          /\ u(step).copy = t.copy /\ u(step).session = t.session /\ u(step).ids = L
          /\ u(step).drop = t.drop /\ u(step).add = t.add /\ u(step).backup = t.backup
    BY DEF TaskType
  <2> HIDE DEF u
  <2>3. StoreShapes'
    BY <1>3 DEF ReadIndex, stores, history, At
  <2>4. /\ t.step = "lookAdd" => FormOK(u("list"), born, cached)
        /\ t.step = "lookRemove" => FormOK(u("unlist"), born, cached)
    BY <1>2, <2>2 DEF FormOK, Step
  <2>5. TaskShapes'
    BY <1>3, <2>1, <2>2, <2>4, OneTask DEF ReadIndex, stores, Step
  <2> QED BY <2>3, <2>5
<1>4. CASE AddToIndex(c)
  <2>1. t.step = "list" /\ t.rec \in born /\ t.ids \subseteq born /\ t.ids \in SUBSET Record
    BY <1>2, <1>4, StoresAssumption DEF AddToIndex, At, FormOK, TaskType
  <2>2. StoreShapes'
    BY <1>4, <2>1 DEF AddToIndex, LongerIndex, WriteIndex
  <2> DEFINE u == [t EXCEPT !.step = "dual"]
  <2>3. u \in TaskType /\ FormOK(u, born, cached) /\ Becomes(c, u)
    BY <1>2, <1>4, <2>1 DEF FormOK, TaskType, Step, AddToIndex, Goes
  <2>4. TaskShapes'
    <3> HIDE DEF u
    <3> QED BY <1>4, <2>3, OneTask DEF AddToIndex
  <2> QED BY <2>2, <2>4
<1>5. CASE IndexFails(c)
  <2>1. StoreShapes'
    BY <1>5 DEF IndexFails, stores
  <2>2. TaskShapes'
    BY <1>5, OneTask, IdleTask, IdleForm DEF IndexFails, Finish, stores
  <2> QED BY <2>1, <2>2
<1>6. CASE DualWrite(c)
  <2>1. t.rec \in born /\ t.rec \in SessionRecord /\ t.copy \in Row
    BY <1>2, <1>6, StoresAssumption DEF DualWrite, At, FormOK
  <2>2. row' \in Rows /\ Known(row', born')
    BY <1>6, <2>1, StoresAssumption DEF DualWrite, SaveRow, Rows, Known
  <2>3. StoreShapes'
    BY <1>6, <2>2 DEF DualWrite, history
  <2>4. TaskShapes'
    BY <1>6, OneTask, IdleTask, IdleForm DEF DualWrite, Finish
  <2> QED BY <2>3, <2>4
<1> QED BY <1>1, <1>3, <1>4, <1>5, <1>6

\* promote, up to its choice of a row.
LEMMA PromoteShapes ==
  ASSUME StoresShapes, NEW c \in Client, NEW r \in Record,
         PromoteDuplicate(c, r) \/ PromoteRow(c, r) \/ PromoteRaises(c, r)
  PROVE  StoresShapes'
<1> USE DEF StoresShapes, StoreShapes
<1>1. CASE PromoteDuplicate(c, r)
  <2>1. r \in SessionRecord /\ r \in born /\ r # Nothing
    BY <1>1, StoresAssumption DEF PromoteDuplicate, Readable, Known
  <2> PICK e \in ByHash(TextOf(r)) :
        \/ Becomes(c, Uncaching(r)) /\ promised' = promised \cup {e}
           /\ UNCHANGED <<strayed, rivalled>>
        \/ /\ Becomes(c, [Uncaching(r) EXCEPT !.step = "save", !.rec = e, !.copy = row[e]])
           /\ Shared(c, {e}) /\ Contend(c, row[e].text)
           /\ UNCHANGED promised
    BY <1>1 DEF PromoteDuplicate
  <2>2. e \in Record /\ e \in born /\ e # Nothing /\ row[e] # Nothing /\ row[e].hashed
    BY StoresAssumption DEF ByHash, Stored, Known
  <2> PICK copy \in Row : copy = row[e]
    BY <2>2 DEF Rows
  <2>3. StoreShapes'
    BY <1>1, <2>2 DEF PromoteDuplicate, stores, Shared, Busy, Contend, Row
  <2>4. ASSUME Becomes(c, Uncaching(r)) PROVE TaskShapes'
    <3> DEFINE u == Uncaching(r)
    <3>1. u \in TaskType /\ u.step = "uncache" /\ u.session = r /\ u.rec = Nothing
          /\ u.ids = {} /\ u.drop = {} /\ u.add = {}
      BY DEF Uncaching, Idle, TaskType, Step
    <3> HIDE DEF u
    <3>2. FormOK(u, born, cached)
      BY <2>1, <3>1 DEF FormOK
    <3> QED BY <1>1, <2>4, <3>1, <3>2, OneTask DEF PromoteDuplicate, stores, u
  <2>5. ASSUME Becomes(c, [Uncaching(r) EXCEPT !.step = "save", !.rec = e, !.copy = row[e]])
        PROVE TaskShapes'
    <3> DEFINE u == [Uncaching(r) EXCEPT !.step = "save", !.rec = e, !.copy = copy]
    <3>1. u \in TaskType /\ u.step = "save" /\ u.session = r /\ u.rec = e /\ u.copy = copy
          /\ u.ids = {} /\ u.drop = {} /\ u.add = {}
      BY <2>2 DEF Uncaching, Idle, TaskType, Step
    <3>2. Becomes(c, u)
      BY <2>5
    <3>3. copy.dated => e \in SessionRecord
      BY <2>2 DEF Known
    <3> HIDE DEF u
    <3>4. FormOK(u, born, cached)
      BY <2>1, <2>2, <3>1, <3>3 DEF FormOK
    <3> QED BY <1>1, <3>1, <3>2, <3>4, OneTask DEF PromoteDuplicate, stores
  <2> QED BY <2>3, <2>4, <2>5
<1>2. CASE PromoteRow(c, r)
  <2>1. r \in SessionRecord /\ r \in born /\ r # Nothing /\ row[r] # Nothing
    BY <1>2, StoresAssumption DEF PromoteRow, Known
  <2> PICK old_ \in Row : old_ = row[r]
    BY <2>1 DEF Rows
  <2>2. StoreShapes'
    BY <1>2, <2>1 DEF PromoteRow, stores, Shared, Busy, Contend, Row
  <2> DEFINE copy == [old_ EXCEPT !.hashed = TRUE]
             u == [Uncaching(r) EXCEPT !.step = "save", !.rec = r, !.copy = copy]
  <2>3. copy \in Row /\ copy.hashed
    BY DEF Row
  <2>4. u \in TaskType /\ u.step = "save" /\ u.session = r /\ u.rec = r /\ u.copy = copy
        /\ u.ids = {} /\ u.drop = {} /\ u.add = {}
    BY <2>1, <2>3 DEF Uncaching, Idle, TaskType, Step
  <2>5. Becomes(c, u)
    BY <1>2 DEF PromoteRow
  <2> HIDE DEF u, copy
  <2>6. FormOK(u, born, cached)
    BY <2>1, <2>3, <2>4 DEF FormOK
  <2>7. TaskShapes'
    BY <1>2, <2>4, <2>5, <2>6, OneTask DEF PromoteRow, stores
  <2> QED BY <2>2, <2>7
<1>3. CASE PromoteRaises(c, r)
  <2>1. TaskShapes'
    BY <1>3, NoTask DEF PromoteRaises, stores
  <2> QED BY <1>3, <2>1 DEF PromoteRaises, stores, history
<1> QED BY <1>1, <1>2, <1>3

\* promote, once its row is written; and invalidate_session.
LEMMA UncacheShapes ==
  ASSUME StoresShapes, NEW c \in Client,
         \/ Uncache(c) \/ RemoveFromIndex(c) \/ UncacheFails(c)
         \/ Invalidate(c) \/ DropSession(c)
  PROVE  StoresShapes'
<1> USE DEF StoresShapes, StoreShapes
<1> PICK t \in TaskType : t = task[c]
  BY TaskFacts
<1>1. FormOK(t, born, cached)
  BY TaskFacts
<1>2. CASE Uncache(c)
  <2>1. t.step = "uncache" /\ t.session \in Record
    BY <1>1, <1>2, StoresAssumption DEF Uncache, At, FormOK
  <2>2. /\ cached' \in [Record -> Content \cup {Nothing}] /\ cached'[t.session] = Nothing
        /\ \A r \in Record : cached[r] = Nothing => cached'[r] = Nothing
    BY <1>2, <2>1 DEF Uncache
  <2>3. StoreShapes'
    BY <1>2, <2>2 DEF Uncache, history
  <2> DEFINE u == [t EXCEPT !.step = "lookRemove"]
  <2>4. u \in TaskType /\ Becomes(c, u) /\ FormOK(u, born, cached')
    BY <1>1, <1>2, <2>1, <2>2 DEF FormOK, TaskType, Step, Uncache, Goes
  <2>5. TaskShapes'
    <3> HIDE DEF u
    <3> QED BY <1>2, <2>2, <2>4, OneTask DEF Uncache
  <2> QED BY <2>3, <2>5
<1>3. CASE RemoveFromIndex(c)
  <2>1. t.ids \subseteq born
    BY <1>1 DEF FormOK
  <2>2. StoreShapes'
    BY <1>3, <2>1 DEF RemoveFromIndex, WriteIndex
  <2>3. TaskShapes'
    BY <1>3, OneTask, IdleTask, IdleForm DEF RemoveFromIndex, Finish
  <2> QED BY <2>2, <2>3
<1>4. CASE UncacheFails(c)
  <2>1. StoreShapes'
    BY <1>4 DEF UncacheFails, stores, history
  <2>2. TaskShapes'
    BY <1>4, OneTask, IdleTask, IdleForm DEF UncacheFails, Finish, stores
  <2> QED BY <2>1, <2>2
<1>5. CASE Invalidate(c)
  <2> PICK L \in SUBSET Record : L = listing /\ L \subseteq born
    BY DEF Known
  <2> DEFINE u == [Idle EXCEPT !.step = "drop", !.ids = L]
  <2>1. u \in TaskType /\ u.step = "drop" /\ u.ids = L /\ u.rec = Nothing
        /\ u.session = Nothing /\ u.drop = {} /\ u.add = {}
    BY DEF Idle, TaskType, Step
  <2>2. Becomes(c, u)
    BY <1>5 DEF Invalidate
  <2> HIDE DEF u
  <2>3. FormOK(u, born, cached)
    BY <2>1 DEF FormOK
  <2>4. StoreShapes'
    BY <1>5 DEF Invalidate, stores, history
  <2>5. TaskShapes'
    BY <1>5, <2>1, <2>2, <2>3, OneTask DEF Invalidate, stores
  <2> QED BY <2>4, <2>5
<1>6. CASE DropSession(c)
  <2>1. /\ cached' \in [Record -> Content \cup {Nothing}]
        /\ \A r \in Record : cached[r] = Nothing => cached'[r] = Nothing
    BY <1>6 DEF DropSession
  <2>2. StoreShapes'
    BY <1>6, <2>1 DEF DropSession, WriteIndex
  <2>3. TaskShapes'
    BY <1>6, <2>1, OneTask, IdleTask, IdleForm DEF DropSession, Finish
  <2> QED BY <2>2, <2>3
<1> QED BY <1>2, <1>3, <1>4, <1>5, <1>6

\* The points still to delete, then those to write.
LEMMA IndexingForm ==
  ASSUME NEW t \in TaskType, NEW ids, NEW keys, NEW step,
         t.rec = Nothing, t.ids \subseteq ids, t.drop \subseteq ids, t.add \subseteq ids,
         t.session = Nothing, \A r \in t.add : t.backup \in Rows /\ t.backup[r] # Nothing
  PROVE  /\ Indexing(t) \in TaskType /\ FormOK(Indexing(t), ids, keys)
         /\ Indexing(t).rec = Nothing
         /\ Indexing(t) # Idle => /\ Indexing(t).drop = t.drop /\ Indexing(t).add = t.add
                                  /\ Indexing(t).backup = t.backup
                                  /\ Indexing(t).step \in {"unindex", "reindex"}
         /\ Indexing(t) = Idle => t.drop = {} /\ t.add = {}
<1>1. CASE t.drop # {}
  <2> DEFINE u == [t EXCEPT !.step = "unindex"]
  <2>1. Indexing(t) = u
    BY <1>1 DEF Indexing
  <2>2. /\ u \in TaskType /\ u.step = "unindex" /\ u.rec = Nothing /\ u.session = Nothing
        /\ u.ids = t.ids /\ u.drop = t.drop /\ u.add = t.add /\ u.backup = t.backup
    BY DEF TaskType, Step
  <2> HIDE DEF u
  <2>3. FormOK(u, ids, keys)
    BY <1>1, <2>2 DEF FormOK
  <2> QED BY <2>1, <2>2, <2>3, IdleTask
<1>2. CASE t.drop = {} /\ t.add # {}
  <2> DEFINE u == [t EXCEPT !.step = "reindex"]
  <2>1. Indexing(t) = u
    BY <1>2 DEF Indexing
  <2>2. /\ u \in TaskType /\ u.step = "reindex" /\ u.rec = Nothing /\ u.session = Nothing
        /\ u.ids = t.ids /\ u.drop = t.drop /\ u.add = t.add /\ u.backup = t.backup
    BY DEF TaskType, Step
  <2> HIDE DEF u
  <2>3. FormOK(u, ids, keys)
    BY <1>2, <2>2 DEF FormOK
  <2> QED BY <2>1, <2>2, <2>3, IdleTask
<1>3. CASE t.drop = {} /\ t.add = {}
  <2>1. Indexing(t) = Idle
    BY <1>3 DEF Indexing
  <2> QED BY <1>3, <2>1, IdleTask, IdleForm
<1> QED BY <1>1, <1>2, <1>3

\* The tasks that delete, edit, or replace hand over to the index.
Dropping(S) == [Idle EXCEPT !.drop = S]
Adding(r, rows) == [Idle EXCEPT !.add = {r}, !.backup = rows]

\* What the tasks that a deletion and an edit begin with remember.
LEMMA HandedOver ==
  ASSUME NEW S \in SUBSET Record, NEW r \in Record, NEW rows \in Rows
  PROVE  /\ Dropping(S) \in TaskType /\ Dropping(S).drop = S /\ Dropping(S).add = {}
         /\ Dropping(S).rec = Nothing /\ Dropping(S).session = Nothing
         /\ Dropping(S).ids = {}
         /\ Adding(r, rows) \in TaskType /\ Adding(r, rows).drop = {}
         /\ Adding(r, rows).add = {r} /\ Adding(r, rows).backup = rows
         /\ Adding(r, rows).rec = Nothing /\ Adding(r, rows).session = Nothing
         /\ Adding(r, rows).ids = {}
BY DEF Dropping, Adding, Idle, TaskType, Step

\* delete, reset, memory_update.
LEMMA EditShapes ==
  ASSUME StoresShapes, NEW c \in Client,
         \/ \E S \in SUBSET Record : DeleteRecords(c, S)
         \/ \E r \in Record, x \in Content : Edit(c, r, x)
  PROVE  StoresShapes'
<1> USE DEF StoresShapes, StoreShapes
<1>1. ASSUME NEW S \in SUBSET Record, DeleteRecords(c, S) PROVE StoresShapes'
  <2>1. S \subseteq born
    BY <1>1 DEF DeleteRecords, Stored, Known
  <2>2. row' \in Rows /\ Known(row', born')
    BY <1>1 DEF DeleteRecords, DropRows, Rows, Known
  <2>3. StoreShapes'
    BY <1>1, <2>1, <2>2 DEF DeleteRecords, Shared, Busy
  <2>4. Becomes(c, Indexing(Dropping(S)))
    BY <1>1 DEF DeleteRecords, Dropping
  <2>5. Indexing(Dropping(S)) \in TaskType /\ FormOK(Indexing(Dropping(S)), born', cached')
    BY <1>1, <2>1, HandedOver, IndexingForm, StoresAssumption DEF DeleteRecords
  <2>6. TaskShapes'
    BY <1>1, <2>4, <2>5, OneTask DEF DeleteRecords
  <2> QED BY <2>3, <2>6
<1>2. ASSUME NEW r \in Record, NEW x \in Content, Edit(c, r, x) PROVE StoresShapes'
  <2>1. r \in born /\ row[r] \in Row
    BY <1>2 DEF Edit, Stored, Known, Rows
  <2> PICK old_ \in Row : old_ = row[r]
    BY <2>1
  <2> DEFINE new == [old_ EXCEPT !.text = x, !.hashed = TRUE]
  <2>7. new \in Row /\ new.dated = old_.dated /\ new # Nothing
    BY StoresAssumption DEF Row
  <2>8. row' = [row EXCEPT ![r] = new]
    BY <1>2 DEF Edit, UpdateRow, Rows
  <2> HIDE DEF new
  <2>2. row' \in Rows /\ Known(row', born') /\ row'[r] # Nothing
    BY <1>2, <2>1, <2>7, <2>8, StoresAssumption DEF Edit, Rows, Known
  <2>3. StoreShapes'
    BY <1>2, <2>1, <2>2 DEF Edit, Shared, Busy
  <2> PICK rows \in Rows : rows = row'
    BY <2>2
  <2>4. Becomes(c, Indexing(Adding(r, rows)))
    BY <1>2 DEF Edit, Adding
  <2>5. Indexing(Adding(r, rows)) \in TaskType /\ FormOK(Indexing(Adding(r, rows)), born', cached')
    <3> DEFINE u == Adding(r, rows)
    <3>1. u \in TaskType /\ u.rec = Nothing /\ u.session = Nothing /\ u.ids = {}
          /\ u.drop = {} /\ u.add = {r} /\ u.backup = rows
      BY HandedOver
    <3> HIDE DEF u
    <3>2. \A q \in u.add : u.backup \in Rows /\ u.backup[q] # Nothing
      BY <2>2, <3>1
    <3>3. u.add \subseteq born'
      BY <1>2, <2>1, <3>1 DEF Edit
    <3>4. Indexing(u) \in TaskType /\ FormOK(Indexing(u), born', cached')
      BY <3>1, <3>2, <3>3, IndexingForm
    <3> QED BY <3>4 DEF u
  <2>6. TaskShapes'
    BY <1>2, <2>4, <2>5, OneTask DEF Edit
  <2> QED BY <2>3, <2>6
<1> QED BY <1>1, <1>2

\* Snapshots and their restoring.
LEMMA SnapshotShapes ==
  ASSUME StoresShapes, NEW c \in Client,
         TakeSnapshot(c) \/ Restore(c) \/ Replace(c)
  PROVE  StoresShapes'
<1> USE DEF StoresShapes, StoreShapes
<1>1. CASE TakeSnapshot(c)
  <2>1. TaskShapes'
    BY <1>1, NoTask DEF TakeSnapshot
  <2> QED BY <1>1, <2>1 DEF TakeSnapshot, history
<1>2. CASE Restore(c)
  <2> PICK rows \in Rows : rows = snapshot /\ Known(rows, born)
    BY <1>2 DEF Restore
  <2>1. StoreShapes'
    BY <1>2 DEF Restore, Shared, Busy
  <2> DEFINE u == [Idle EXCEPT !.step = "replace", !.backup = rows]
  <2>2. u \in TaskType /\ u.step = "replace" /\ u.backup = rows /\ u.rec = Nothing
        /\ u.session = Nothing /\ u.ids = {} /\ u.drop = {} /\ u.add = {}
    BY DEF Idle, TaskType, Step
  <2>3. Becomes(c, u)
    BY <1>2 DEF Restore
  <2> HIDE DEF u
  <2>4. FormOK(u, born, cached)
    BY <2>2 DEF FormOK
  <2>5. TaskShapes'
    BY <1>2, <2>2, <2>3, <2>4, OneTask DEF Restore
  <2> QED BY <2>1, <2>5
<1>3. CASE Replace(c)
  <2> PICK t \in TaskType : t = task[c]
    BY TaskFacts
  <2>1. FormOK(t, born, cached) /\ t.step = "replace"
    BY <1>3, TaskFacts DEF Replace, At
  <2>2. t.backup \in Rows /\ Known(t.backup, born) /\ t.rec = Nothing /\ t.session = Nothing
        /\ t.ids \subseteq born
    BY <2>1 DEF FormOK
  <2> PICK gone \in SUBSET Record : gone = Stored
    BY DEF Stored
  <2> DEFINE kept == {r \in Record : t.backup[r] # Nothing}
             u == [t EXCEPT !.drop = gone, !.add = kept]
  <2>3. gone \subseteq born /\ kept \subseteq born
    BY <2>2 DEF Stored, Known
  <2>4. /\ row' = t.backup /\ promised' = promised \cap kept /\ Becomes(c, Indexing(u))
        /\ born' = born /\ cached' = cached
    BY <1>3 DEF Replace, ReplaceRows
  <2>5. u \in TaskType /\ u.rec = Nothing /\ u.session = Nothing /\ u.ids = t.ids
        /\ u.drop = gone /\ u.add = kept /\ u.backup = t.backup
    BY <2>2 DEF TaskType
  <2>6. \A r \in kept : t.backup[r] # Nothing
    OBVIOUS
  <2>7. StoreShapes'
    BY <1>3, <2>2, <2>4 DEF Replace, Shared, Busy
  <2> HIDE DEF u, kept
  <2>8. Indexing(u) \in TaskType /\ FormOK(Indexing(u), born, cached)
    BY <2>2, <2>3, <2>5, <2>6, IndexingForm
  <2>9. TaskShapes'
    BY <2>4, <2>8, OneTask
  <2> QED BY <2>7, <2>9
<1> QED BY <1>1, <1>2, <1>3

\* The points of a deletion and of a restore.
LEMMA IndexShapes ==
  ASSUME StoresShapes, NEW c \in Client, Unindex(c) \/ Reindex(c)
  PROVE  StoresShapes'
<1> USE DEF StoresShapes, StoreShapes
<1> PICK t \in TaskType : t = task[c]
  BY TaskFacts
<1>1. /\ FormOK(t, born, cached) /\ t.step \in {"unindex", "reindex"}
      /\ Unindex(c) => t.step = "unindex"
      /\ Reindex(c) => t.step = "reindex"
  BY TaskFacts DEF Unindex, Reindex, At
<1>2. /\ t.rec = Nothing /\ t.session = Nothing /\ t.ids \subseteq born
      /\ t.drop \subseteq born /\ t.add \subseteq born
      /\ \A r \in t.add : t.backup \in Rows /\ t.backup[r] # Nothing
  BY <1>1 DEF FormOK
<1>3. ASSUME NEW r \in Record
      PROVE  LET u == [t EXCEPT !.drop = @ \ {r}]
                 v == [t EXCEPT !.add = @ \ {r}]
             IN  /\ Indexing(u) \in TaskType /\ FormOK(Indexing(u), born, cached)
                 /\ Indexing(v) \in TaskType /\ FormOK(Indexing(v), born, cached)
  <2> DEFINE u == [t EXCEPT !.drop = @ \ {r}]
             v == [t EXCEPT !.add = @ \ {r}]
  <2>1. /\ u \in TaskType /\ u.rec = Nothing /\ u.session = Nothing /\ u.ids = t.ids
        /\ u.drop = t.drop \ {r} /\ u.add = t.add /\ u.backup = t.backup
        /\ v \in TaskType /\ v.rec = Nothing /\ v.session = Nothing /\ v.ids = t.ids
        /\ v.drop = t.drop /\ v.add = t.add \ {r} /\ v.backup = t.backup
    BY <1>2 DEF TaskType
  <2> HIDE DEF u, v
  <2>2. Indexing(u) \in TaskType /\ FormOK(Indexing(u), born, cached)
    BY <1>2, <2>1, IndexingForm
  <2>3. Indexing(v) \in TaskType /\ FormOK(Indexing(v), born, cached)
    BY <1>2, <2>1, IndexingForm
  <2> QED BY <2>2, <2>3 DEF u, v
<1>4. CASE Unindex(c)
  <2> PICK r \in t.drop :
        /\ \/ point' = [point EXCEPT ![r] = Nothing] /\ UNCHANGED strayed
           \/ UNCHANGED point /\ strayed' = strayed \cup {r}
        /\ Becomes(c, Indexing([t EXCEPT !.drop = @ \ {r}]))
    BY <1>4 DEF Unindex
  <2>1. r \in born /\ r \in Record
    BY <1>2
  <2>2. StoreShapes'
    BY <1>4, <2>1 DEF Unindex
  <2>3. TaskShapes'
    BY <1>3, <1>4, <2>1, OneTask DEF Unindex
  <2> QED BY <2>2, <2>3
<1>5. CASE Reindex(c)
  <2> PICK r \in t.add :
        /\ \/ point' = [point EXCEPT ![r] = t.backup[r].text] /\ UNCHANGED strayed
           \/ UNCHANGED point /\ strayed' = strayed \cup {r}
        /\ Becomes(c, Indexing([t EXCEPT !.add = @ \ {r}]))
    BY <1>5 DEF Reindex
  <2>1. r \in born /\ r \in Record /\ t.backup[r].text \in Content
    BY <1>2 DEF Rows, Row
  <2>2. StoreShapes'
    BY <1>5, <2>1 DEF Reindex
  <2>3. TaskShapes'
    BY <1>3, <1>5, <2>1, OneTask DEF Reindex
  <2> QED BY <2>2, <2>3
<1> QED BY <1>4, <1>5

\* Time.
LEMMA TimeShapes ==
  ASSUME StoresShapes,
         \/ \E r \in Record : Age(r) \/ SessionKeyExpires(r)
         \/ IndexExpires \/ Collect
  PROVE  StoresShapes'
<1> USE DEF StoresShapes, StoreShapes
<1>1. ASSUME NEW r \in Record, Age(r) PROVE StoresShapes'
  <2>1. TaskShapes'
    BY <1>1, NoTask DEF Age, stores
  <2> QED BY <1>1, <2>1 DEF Age, stores, history
<1>2. ASSUME NEW r \in Record, SessionKeyExpires(r) PROVE StoresShapes'
  <2>1. /\ cached' \in [Record -> Content \cup {Nothing}]
        /\ \A q \in Record : cached[q] = Nothing => cached'[q] = Nothing
    BY <1>2 DEF SessionKeyExpires
  <2>2. TaskShapes'
    BY <1>2, <2>1, NoTask DEF SessionKeyExpires
  <2> QED BY <1>2, <2>1, <2>2 DEF SessionKeyExpires, history
<1>3. CASE IndexExpires
  <2>1. TaskShapes'
    BY <1>3, NoTask DEF IndexExpires
  <2> QED BY <1>3, <2>1 DEF IndexExpires
<1>4. CASE Collect
  <2>1. row' \in Rows /\ Known(row', born') /\ Expired \subseteq born
    BY <1>4 DEF Collect, DropRows, Expired, Stored, Rows, Known
  <2>2. TaskShapes'
    BY <1>4, NoTask DEF Collect
  <2> QED BY <1>4, <2>1, <2>2 DEF Collect
<1> QED BY <1>1, <1>2, <1>3, <1>4

\* Every step keeps the shapes.
LEMMA ShapesKept == StoresShapes /\ [StoresNext]_storesVars => StoresShapes'
<1> SUFFICES ASSUME StoresShapes, [StoresNext]_storesVars PROVE StoresShapes'
  OBVIOUS
<1>1. CASE UNCHANGED storesVars
  BY <1>1 DEF storesVars, stores, history, StoresShapes, StoreShapes, TaskShapes
<1>2. ASSUME NEW c \in Client, OperationBegins(c) PROVE StoresShapes'
  BY <1>2, SaveShapes, SessionShapes, PromoteShapes, UncacheShapes, EditShapes,
     SnapshotShapes DEF OperationBegins
<1>3. ASSUME NEW c \in Client, OperationStep(c) PROVE StoresShapes'
  BY <1>3, SaveShapes, UpsertShapes, SessionShapes, UncacheShapes, SnapshotShapes,
     IndexShapes DEF OperationStep
<1> QED BY <1>1, <1>2, <1>3, TimeShapes DEF StoresNext

\* The bounds of the environment are kept.
LEMMA BoundsKept == Bounds /\ [StoresNext]_storesVars => Bounds'
<1> SUFFICES ASSUME Bounds, [StoresNext]_storesVars PROVE Bounds'
  OBVIOUS
<1> USE StoresAssumption DEF Bounds
<1>1. /\ calls' = calls \/ (calls < MaxCalls /\ calls' = calls + 1)
      /\ faultsLeft' = faultsLeft \/ (faultsLeft > 0 /\ faultsLeft' = faultsLeft - 1)
      => Bounds'
  OBVIOUS
<1>2. CASE UNCHANGED storesVars
  BY <1>2 DEF storesVars
<1>3. ASSUME NEW c \in Client, OperationBegins(c) PROVE Bounds'
  BY <1>1, <1>3 DEF OperationBegins, SaveDuplicate, SaveNew, CacheSession, Edit,
     PromoteDuplicate, PromoteRow, PromoteRaises, DeleteRecords, Invalidate,
     TakeSnapshot, Restore, Begin
<1>4. ASSUME NEW c \in Client, OperationStep(c) PROVE Bounds'
  BY <1>1, <1>4 DEF OperationStep, Save, Upsert, UpsertFails, ReadIndex, AddToIndex,
     IndexFails, DualWrite, DropSession, Uncache, RemoveFromIndex, UncacheFails,
     Unindex, Replace, Reindex, At, Fails, Works
<1>5. ASSUME (\E r \in Record : Age(r) \/ SessionKeyExpires(r)) \/ IndexExpires \/ Collect
      PROVE  Bounds'
  BY <1>5 DEF Age, SessionKeyExpires, IndexExpires, Collect
<1> QED BY <1>2, <1>3, <1>4, <1>5 DEF StoresNext

(***************************************************************************)
(* What is stored for good stays.                                          *)
(***************************************************************************)

\* Every step keeps what is stored for good: only session rows expire, and what
\* takes another row away takes its promise away.
LEMMA PersistentStays ==
  StoresShapes /\ PersistentKept /\ [StoresNext]_storesVars => PersistentKept'
<1> SUFFICES ASSUME StoresShapes, PersistentKept, [StoresNext]_storesVars
             PROVE  PersistentKept'
  OBVIOUS
<1> USE DEF PersistentKept, Stored
<1>1. CASE UNCHANGED <<row, promised>>
  BY <1>1
<1>2. ASSUME NEW c \in Client, Save(c) \/ DualWrite(c) PROVE PersistentKept'
  <2>1. task[c].rec \in Record => task[c].copy # Nothing
    BY <1>2, TaskFacts, StoresAssumption DEF Save, DualWrite, At, FormOK
  <2>2. row \in Rows /\ promised' = promised
    BY <1>2 DEF StoresShapes, StoreShapes, Save, DualWrite, history
  <2> QED BY <1>1, <1>2, <2>1, <2>2 DEF Save, DualWrite, SaveRow, Rows, history
<1>3. ASSUME NEW c \in Client, NEW r \in Record, NEW x \in Content, Edit(c, r, x)
      PROVE  PersistentKept'
  <2>1. row \in Rows
    BY DEF StoresShapes, StoreShapes
  <2>2. /\ \A s \in Record \ {r} : row'[s] = row[s]
        /\ row'[r] = [row[r] EXCEPT !.text = x, !.hashed = TRUE] /\ row[r] \in Row
        /\ promised' = promised
    BY <1>3, <2>1 DEF Edit, UpdateRow, Rows
  <2>3. row'[r] # Nothing
    BY <2>2, StoresAssumption DEF Row
  <2> QED BY <2>2, <2>3
<1>4. ASSUME NEW c \in Client, Upsert(c) PROVE PersistentKept'
  BY <1>4 DEF Upsert
<1>5. ASSUME NEW c \in Client, NEW S \in SUBSET Record, DeleteRecords(c, S)
      PROVE  PersistentKept'
  BY <1>5 DEF DeleteRecords, DropRows
<1>6. ASSUME NEW c \in Client, Replace(c) PROVE PersistentKept'
  BY <1>6 DEF Replace, ReplaceRows
<1>7. CASE Collect
  <2>1. Expired \subseteq SessionRecord
    BY DEF Expired, StoresShapes, StoreShapes, Known
  <2> QED BY <1>7, <2>1 DEF Collect, DropRows
<1>8. CASE UNCHANGED storesVars
  BY <1>1, <1>8 DEF storesVars, stores, history
<1>9. ASSUME NEW c \in Client, OperationBegins(c) PROVE PersistentKept'
  <2>1. ASSUME NEW x \in Content, SaveDuplicate(c, x) PROVE PersistentKept'
    BY <2>1 DEF SaveDuplicate, ByHash, stores
  <2>2. ASSUME NEW r \in Record, PromoteDuplicate(c, r) PROVE PersistentKept'
    BY <2>2 DEF PromoteDuplicate, ByHash, stores
  <2>3. ASSUME NEW r \in Record, PromoteRow(c, r) \/ PromoteRaises(c, r) PROVE PersistentKept'
    BY <1>1, <2>3 DEF PromoteRow, PromoteRaises, stores, history
  <2>4. ASSUME NEW r \in Record, NEW x \in Content, SaveNew(c, r, x) \/ CacheSession(c, r, x)
        PROVE  PersistentKept'
    BY <1>1, <2>4 DEF SaveNew, CacheSession, stores, history
  <2>5. ASSUME Invalidate(c) \/ TakeSnapshot(c) \/ Restore(c) PROVE PersistentKept'
    BY <1>1, <2>5 DEF Invalidate, TakeSnapshot, Restore, stores, history
  <2> QED BY <1>3, <1>5, <1>9, <2>1, <2>2, <2>3, <2>4, <2>5 DEF OperationBegins
<1>10. ASSUME NEW c \in Client, OperationStep(c) PROVE PersistentKept'
  BY <1>1, <1>2, <1>4, <1>6, <1>10 DEF OperationStep, UpsertFails, ReadIndex, AddToIndex,
     IndexFails, DropSession, Uncache, RemoveFromIndex, UncacheFails, Unindex, Reindex,
     stores, history
<1>11. ASSUME (\E r \in Record : Age(r) \/ SessionKeyExpires(r)) \/ IndexExpires
       PROVE  PersistentKept'
  BY <1>1, <1>11 DEF Age, SessionKeyExpires, IndexExpires, stores, history
<1> QED BY <1>7, <1>8, <1>9, <1>10, <1>11 DEF StoresNext

(***************************************************************************)
(* A content has one row.                                                  *)
(***************************************************************************)

\* No two rows have one content and its hash, unless writers were rivals.
Tidy(rows) ==
  \A r, s \in Record :
     /\ r # s /\ rows[r] # Nothing /\ rows[s] # Nothing
     /\ rows[r].hashed /\ rows[s].hashed /\ rows[r].text = rows[s].text
     => rows[r].text \in rivalled

\* What a save is about to write is in no other row, and no other save has it.
Alone(c) ==
  task[c].step = "save" =>
    /\ \A r \in Record \ {task[c].rec} :
         row[r] # Nothing /\ row[r].hashed /\ row[r].text = task[c].copy.text
           => row[r].text \in rivalled
    /\ \A d \in Client \ {c} :
         task[d].step = "save" /\ task[d].copy.text = task[c].copy.text
           => task[c].copy.text \in rivalled

UniqueInv ==
  /\ Tidy(row)
  /\ snapshot # Nothing => Tidy(snapshot)
  /\ \A c \in Client : task[c].step = "replace" => Tidy(task[c].backup)
  /\ \A c \in Client : Alone(c)

\* A row that changes gets no hash, or a content that is rivalled, or one that
\* no other row has and no other save will write.
RowsAlone(c) ==
  \A r \in Record :
     row'[r] # row[r] /\ row'[r] # Nothing /\ row'[r].hashed /\ row'[r].text \notin rivalled' =>
       /\ \A s \in Record \ {r} :
            row'[s] # Nothing /\ row'[s].hashed => row'[s].text # row'[r].text
       /\ ~Rivals(c, row'[r].text)

\* So does the row that the task t of c will write.
TaskAlone(c, t) ==
  t.step = "save" /\ t.copy.text \notin rivalled' =>
    /\ \A r \in Record \ {t.rec} :
         row'[r] # Nothing /\ row'[r].hashed => row'[r].text # t.copy.text
    /\ ~Rivals(c, t.copy.text)

\* A step of one operation that keeps to this keeps contents apart.
LEMMA UniqueStep ==
  ASSUME StoresShapes, UniqueInv, NEW c \in Client, NEW t \in TaskType, Becomes(c, t),
         rivalled \subseteq rivalled', RowsAlone(c), TaskAlone(c, t),
         t.step = "replace" => Tidy(t.backup), snapshot' \in {snapshot, row}
  PROVE  UniqueInv'
<1>1. task'[c] = t /\ \A d \in Client \ {c} : task'[d] = task[d]
  BY DEF StoresShapes, TaskShapes, Becomes
<1>2. ASSUME NEW rows, Tidy(rows) PROVE Tidy(rows)'
  BY <1>2 DEF Tidy
<1>3. Tidy(row)'
  BY DEF UniqueInv, Tidy, RowsAlone
<1>4. snapshot' # Nothing => Tidy(snapshot)'
  <2> PICK rows : rows = snapshot'
    OBVIOUS
  <2>1. rows # Nothing => Tidy(rows)
    BY StoresAssumption DEF UniqueInv
  <2>2. rows # Nothing => Tidy(rows)'
    BY <1>2, <2>1
  <2> QED BY <2>2 DEF Tidy
<1>5. ASSUME NEW d \in Client, task'[d].step = "replace" PROVE Tidy(task[d].backup)'
  <2> PICK u : u = task'[d]
    OBVIOUS
  <2>1. Tidy(u.backup)
    BY <1>1, <1>5 DEF UniqueInv
  <2>2. Tidy(u.backup)'
    BY <1>2, <2>1
  <2> QED BY <2>2 DEF Tidy
<1>6. ASSUME NEW d \in Client PROVE Alone(d)'
  <2>1. CASE d = c
    BY <1>1, <2>1 DEF Alone, TaskAlone, Rivals
  <2>2. CASE d # c
    <3>1. Alone(d) /\ task'[d] = task[d]
      BY <1>1, <2>2 DEF UniqueInv
    <3>2. ASSUME task[d].step = "save", NEW r \in Record \ {task[d].rec},
                 row'[r] # Nothing, row'[r].hashed, row'[r].text = task[d].copy.text
          PROVE  row'[r].text \in rivalled'
      <4>1. CASE row'[r] = row[r]
        BY <3>1, <3>2, <4>1 DEF Alone
      <4>2. CASE row'[r] # row[r]
        BY <2>2, <3>2, <4>2 DEF RowsAlone, Rivals
      <4> QED BY <4>1, <4>2
    <3>3. ASSUME task[d].step = "save", NEW e \in Client \ {d}, task'[e].step = "save",
                 task'[e].copy.text = task[d].copy.text
          PROVE  task[d].copy.text \in rivalled'
      <4>1. CASE e = c
        BY <1>1, <2>2, <3>3, <4>1 DEF TaskAlone, Rivals
      <4>2. CASE e # c
        BY <1>1, <3>1, <3>3, <4>2 DEF Alone
      <4> QED BY <4>1, <4>2
    <3> QED BY <3>1, <3>2, <3>3 DEF Alone
  <2> QED BY <2>1, <2>2
<1> QED BY <1>3, <1>4, <1>5, <1>6 DEF UniqueInv

\* So does a step that writes no row and begins no save and no restore.
LEMMA UniqueQuiet ==
  ASSUME StoresShapes, UniqueInv, NEW c \in Client, NEW t \in TaskType, Becomes(c, t),
         row' = row, rivalled' = rivalled, snapshot' = snapshot,
         t.step \notin {"save", "replace"}
  PROVE  UniqueInv'
<1>1. RowsAlone(c) /\ TaskAlone(c, t)
  BY DEF RowsAlone, TaskAlone
<1> QED BY <1>1, UniqueStep

\* And one that changes no task and writes no new row.
LEMMA UniqueFewer ==
  ASSUME UniqueInv, UNCHANGED <<task, rivalled>>,
         \A r \in Record : row'[r] \in {row[r], Nothing}, snapshot' \in {snapshot, row}
  PROVE  UniqueInv'
<1>1. Tidy(row)' /\ (snapshot' # Nothing => Tidy(snapshot)')
  BY DEF UniqueInv, Tidy
<1>2. ASSUME NEW d \in Client, task[d].step = "replace" PROVE Tidy(task[d].backup)'
  BY <1>2 DEF UniqueInv, Tidy
<1>3. ASSUME NEW d \in Client PROVE Alone(d)'
  BY DEF UniqueInv, Alone
<1> QED BY <1>1, <1>2, <1>3 DEF UniqueInv

\* The steps of a task that writes to the index, or that is over.
LEMMA IndexingStep ==
  ASSUME NEW t \in TaskType PROVE Indexing(t).step \in {"unindex", "reindex", "idle"}
BY IdleTask DEF Indexing, TaskType

\* What a deletion and an edit hand over.
LEMMA DropTask ==
  ASSUME NEW S \in SUBSET Record
  PROVE  /\ Indexing(Dropping(S)) \in TaskType
         /\ Indexing(Dropping(S)).step \in {"unindex", "reindex", "idle"}
         /\ Indexing(Dropping(S)).drop = S /\ Indexing(Dropping(S)).add = {}
         /\ Indexing(Dropping(S)).rec = Nothing
<1> DEFINE v == Dropping(S)
<1>1. v \in TaskType /\ v.rec = Nothing /\ v.session = Nothing /\ v.ids = {}
      /\ v.drop = S /\ v.add = {}
  BY HandedOver, StoresAssumption DEF Dropping, Idle, TaskType, Step
<1> HIDE DEF v
<1>2. Indexing(v) \in TaskType /\ Indexing(v).rec = Nothing
      /\ Indexing(v).drop = S /\ Indexing(v).add = {}
  <2>1. \A q \in v.add : v.backup \in Rows /\ v.backup[q] # Nothing
    BY <1>1
  <2>2. v.ids \subseteq S /\ v.drop \subseteq S /\ v.add \subseteq S
    BY <1>1
  <2>3. /\ Indexing(v) \in TaskType /\ Indexing(v).rec = Nothing
        /\ Indexing(v) # Idle => Indexing(v).drop = v.drop /\ Indexing(v).add = v.add
        /\ Indexing(v) = Idle => v.drop = {} /\ v.add = {}
    BY <1>1, <2>1, <2>2, IndexingForm
  <2> QED BY <1>1, <2>3, IdleTask
<1>3. Indexing(v).step \in {"unindex", "reindex", "idle"}
  BY <1>1, IndexingStep
<1> QED BY <1>2, <1>3 DEF v

\* An edit hands over one point to write.
LEMMA AddTask ==
  ASSUME NEW r \in Record, NEW rows \in Rows, rows[r] # Nothing
  PROVE  /\ Indexing(Adding(r, rows)) \in TaskType
         /\ Indexing(Adding(r, rows)).step = "reindex"
         /\ Indexing(Adding(r, rows)).drop = {} /\ Indexing(Adding(r, rows)).add = {r}
         /\ Indexing(Adding(r, rows)).backup = rows
         /\ Indexing(Adding(r, rows)).rec = Nothing
<1> DEFINE v == Adding(r, rows)
<1>1. v \in TaskType /\ v.rec = Nothing /\ v.drop = {} /\ v.add = {r} /\ v.backup = rows
  BY HandedOver
<1> HIDE DEF v
<1>2. Indexing(v) = [v EXCEPT !.step = "reindex"]
  BY <1>1 DEF Indexing
<1> QED BY <1>1, <1>2 DEF v, TaskType, Step

\* save: a new content has no row and no rival, or it is rivalled.
LEMMA SaveUnique ==
  ASSUME StoresShapes, UniqueInv, NEW c \in Client,
         \/ \E r \in Record, x \in Content : SaveNew(c, r, x)
         \/ Save(c) \/ Upsert(c) \/ UpsertFails(c)
  PROVE  UniqueInv'
<1> PICK t \in TaskType : t = task[c]
  BY TaskFacts
<1>1. FormOK(t, born, cached)
  BY TaskFacts
<1>2. ASSUME NEW r \in Record, NEW x \in Content, SaveNew(c, r, x) PROVE UniqueInv'
  <2> DEFINE u == [Idle EXCEPT !.step = "save", !.rec = r, !.copy = SavedRow(x)]
  <2>1. u \in TaskType /\ u.step = "save" /\ u.rec = r /\ u.copy.text = x
    BY DEF Idle, TaskType, Step, SavedRow, Row
  <2>2. /\ Becomes(c, u) /\ row' = row /\ snapshot' = snapshot /\ ByHash(x) = {}
        /\ Contend(c, x)
    BY <1>2 DEF SaveNew, stores
  <2> HIDE DEF u
  <2>3. TaskAlone(c, u)
    BY <2>1, <2>2 DEF TaskAlone, ByHash, Stored, Contend
  <2>4. RowsAlone(c) /\ rivalled \subseteq rivalled'
    BY <2>2 DEF RowsAlone, Contend
  <2> QED BY <2>1, <2>2, <2>3, <2>4, UniqueStep
<1>3. CASE Save(c)
  <2> PICK u \in TaskType : Becomes(c, u) /\ u.step \in {"upsert", "idle"}
    <3>1. [t EXCEPT !.step = "upsert"] \in TaskType
      BY DEF TaskType, Step
    <3>2. [t EXCEPT !.step = "upsert"].step = "upsert"
      BY DEF TaskType
    <3> QED BY <1>3, <3>1, <3>2, IdleTask DEF Save, Goes, Finish
  <2>1. t.step = "save" /\ t.rec \in Record /\ t.copy \in Row
    BY <1>1, <1>3 DEF Save, At, FormOK, TaskType
  <2>2. row' = [row EXCEPT ![t.rec] = t.copy] /\ snapshot' = snapshot /\ rivalled' = rivalled
    BY <1>3 DEF Save, SaveRow
  <2>3. Alone(c) /\ row \in Rows
    BY DEF UniqueInv, StoresShapes, StoreShapes
  <2>4. RowsAlone(c)
    BY <2>1, <2>2, <2>3 DEF RowsAlone, Alone, Rivals, Rows
  <2>5. TaskAlone(c, u)
    BY DEF TaskAlone
  <2> QED BY <2>2, <2>4, <2>5, UniqueStep
<1>4. CASE Upsert(c) \/ UpsertFails(c)
  <2> PICK u \in TaskType : Becomes(c, u) /\ u.step \in {"uncache", "idle"}
    <3>1. [t EXCEPT !.step = "uncache"] \in TaskType
      BY DEF TaskType, Step
    <3>2. [t EXCEPT !.step = "uncache"].step = "uncache"
      BY DEF TaskType
    <3> QED BY <1>4, <3>1, <3>2, IdleTask DEF Upsert, UpsertFails, Goes, Finish
  <2>1. row' = row /\ snapshot' = snapshot /\ rivalled' = rivalled
    BY <1>4 DEF Upsert, UpsertFails, stores
  <2> QED BY <2>1, UniqueQuiet
<1> QED BY <1>2, <1>3, <1>4

\* cache_session: its rows have no hash.
LEMMA SessionUnique ==
  ASSUME StoresShapes, UniqueInv, NEW c \in Client,
         \/ \E r \in Record, x \in Content : CacheSession(c, r, x)
         \/ ReadIndex(c) \/ AddToIndex(c) \/ IndexFails(c) \/ DualWrite(c)
  PROVE  UniqueInv'
<1> PICK t \in TaskType : t = task[c]
  BY TaskFacts
<1>1. FormOK(t, born, cached)
  BY TaskFacts
<1>2. ASSUME NEW r \in Record, NEW x \in Content, CacheSession(c, r, x) PROVE UniqueInv'
  <2> DEFINE u == [Idle EXCEPT !.step = "lookAdd", !.rec = r, !.copy = SessionRow(x)]
  <2>1. u \in TaskType /\ u.step = "lookAdd"
    BY DEF Idle, TaskType, Step, SessionRow, Row
  <2>2. Becomes(c, u) /\ row' = row /\ snapshot' = snapshot /\ rivalled' = rivalled
    BY <1>2 DEF CacheSession, history
  <2> HIDE DEF u
  <2> QED BY <2>1, <2>2, UniqueQuiet
<1>3. CASE ReadIndex(c)
  <2> PICK L \in SUBSET Record : L = listing
    BY DEF StoresShapes, StoreShapes
  <2> PICK next \in {<<"lookAdd", "list">>, <<"lookRemove", "unlist">>} :
        Becomes(c, [t EXCEPT !.step = next[2], !.ids = L])
    BY <1>3 DEF ReadIndex
  <2> DEFINE u == [t EXCEPT !.step = next[2], !.ids = L]
  <2>1. next[2] \in {"list", "unlist"}
    <3>1. CASE next = <<"lookAdd", "list">>
      BY <3>1
    <3>2. CASE next = <<"lookRemove", "unlist">>
      BY <3>2
    <3> QED BY <3>1, <3>2
  <2>2. u \in TaskType /\ u.step \in {"list", "unlist"} /\ Becomes(c, u)
    BY <2>1 DEF TaskType, Step
  <2> HIDE DEF u
  <2>3. row' = row /\ snapshot' = snapshot /\ rivalled' = rivalled
    BY <1>3 DEF ReadIndex, stores, history
  <2> QED BY <2>2, <2>3, UniqueQuiet
<1>4. CASE AddToIndex(c)
  <2> DEFINE u == [t EXCEPT !.step = "dual"]
  <2>1. u \in TaskType /\ u.step = "dual"
    BY DEF TaskType, Step
  <2>2. Becomes(c, u) /\ row' = row /\ snapshot' = snapshot /\ rivalled' = rivalled
    BY <1>4 DEF AddToIndex, Goes
  <2> HIDE DEF u
  <2> QED BY <2>1, <2>2, UniqueQuiet
<1>5. CASE IndexFails(c)
  BY <1>5, IdleTask, UniqueQuiet DEF IndexFails, Finish, stores
<1>6. CASE DualWrite(c)
  <2>1. t.rec \in Record /\ t.copy \in Row /\ ~t.copy.hashed
    BY <1>1, <1>6, StoresAssumption DEF DualWrite, At, FormOK
  <2>2. /\ row' = row \/ row' = [row EXCEPT ![t.rec] = t.copy]
        /\ Becomes(c, Idle) /\ snapshot' = snapshot /\ rivalled' = rivalled
    BY <1>6 DEF DualWrite, SaveRow, Finish, history
  <2>3. row \in Rows
    BY DEF StoresShapes, StoreShapes
  <2>4. RowsAlone(c)
    BY <2>1, <2>2, <2>3 DEF RowsAlone, Rows
  <2>5. TaskAlone(c, Idle)
    BY IdleTask DEF TaskAlone
  <2> QED BY <2>2, <2>4, <2>5, IdleTask, UniqueStep
<1> QED BY <1>2, <1>3, <1>4, <1>5, <1>6

\* promote: a row is written over itself, or no other has its content.
LEMMA PromoteUnique ==
  ASSUME StoresShapes, UniqueInv, NEW c \in Client, NEW r \in Record,
         PromoteDuplicate(c, r) \/ PromoteRow(c, r) \/ PromoteRaises(c, r)
  PROVE  UniqueInv'
<1> USE DEF StoresShapes, StoreShapes
<1>0. Tidy(row)
  BY DEF UniqueInv
<1>1. CASE PromoteDuplicate(c, r)
  <2> PICK e \in ByHash(TextOf(r)) :
        \/ Becomes(c, Uncaching(r)) /\ UNCHANGED rivalled
        \/ /\ Becomes(c, [Uncaching(r) EXCEPT !.step = "save", !.rec = e, !.copy = row[e]])
           /\ Contend(c, row[e].text)
    BY <1>1 DEF PromoteDuplicate
  <2>1. row' = row /\ snapshot' = snapshot
    BY <1>1 DEF PromoteDuplicate, stores
  <2>2. e \in Record /\ row[e] # Nothing /\ row[e].hashed
    BY DEF ByHash, Stored
  <2> PICK copy \in Row : copy = row[e]
    BY <2>2 DEF Rows
  <2>3. ASSUME Becomes(c, Uncaching(r)), UNCHANGED rivalled PROVE UniqueInv'
    <3> DEFINE u == Uncaching(r)
    <3>1. u \in TaskType /\ u.step = "uncache"
      BY DEF Uncaching, Idle, TaskType, Step
    <3>2. Becomes(c, u)
      BY <2>3
    <3> HIDE DEF u
    <3> QED BY <2>1, <2>3, <3>1, <3>2, UniqueQuiet
  <2>4. ASSUME Becomes(c, [Uncaching(r) EXCEPT !.step = "save", !.rec = e, !.copy = row[e]]),
               Contend(c, row[e].text)
        PROVE UniqueInv'
    <3> DEFINE u == [Uncaching(r) EXCEPT !.step = "save", !.rec = e, !.copy = copy]
    <3>1. u \in TaskType /\ u.step = "save" /\ u.rec = e /\ u.copy = copy
      BY <2>2 DEF Uncaching, Idle, TaskType, Step
    <3>2. Becomes(c, u)
      BY <2>4
    <3> HIDE DEF u
    <3>3. rivalled \subseteq rivalled' /\ (Rivals(c, copy.text) => copy.text \in rivalled')
      BY <2>4 DEF Contend
    <3>4. TaskAlone(c, u)
      BY <1>0, <2>1, <2>2, <3>1, <3>3 DEF TaskAlone, Tidy
    <3>5. RowsAlone(c)
      BY <2>1 DEF RowsAlone
    <3> QED BY <2>1, <3>1, <3>2, <3>3, <3>4, <3>5, UniqueStep
  <2> QED BY <2>3, <2>4
<1>2. CASE PromoteRow(c, r)
  <2>1. row[r] # Nothing /\ ByHash(row[r].text) = {} /\ row' = row /\ snapshot' = snapshot
        /\ Contend(c, row[r].text)
    BY <1>2 DEF PromoteRow, stores
  <2> PICK read \in Row : read = row[r]
    BY <2>1 DEF Rows
  <2> DEFINE copy == [read EXCEPT !.hashed = TRUE]
             u == [Uncaching(r) EXCEPT !.step = "save", !.rec = r, !.copy = copy]
  <2>3. copy \in Row /\ copy.text = read.text
    BY DEF Row
  <2>4. u \in TaskType /\ u.step = "save" /\ u.rec = r /\ u.copy = copy
    BY <2>1, <2>3 DEF Uncaching, Idle, TaskType, Step
  <2>5. Becomes(c, u)
    BY <1>2 DEF PromoteRow
  <2> HIDE DEF u, copy
  <2>6. rivalled \subseteq rivalled' /\ (Rivals(c, copy.text) => copy.text \in rivalled')
    BY <2>1, <2>3 DEF Contend
  <2>7. TaskAlone(c, u)
    BY <2>1, <2>3, <2>4, <2>6 DEF TaskAlone, ByHash, Stored
  <2>8. RowsAlone(c)
    BY <2>1 DEF RowsAlone
  <2> QED BY <2>1, <2>4, <2>5, <2>6, <2>7, <2>8, UniqueStep
<1>3. CASE PromoteRaises(c, r)
  BY <1>3, UniqueFewer DEF PromoteRaises, stores, history
<1> QED BY <1>1, <1>2, <1>3

\* The end of a promotion and invalidate_session write no row.
LEMMA UncacheUnique ==
  ASSUME StoresShapes, UniqueInv, NEW c \in Client,
         \/ Uncache(c) \/ RemoveFromIndex(c) \/ UncacheFails(c)
         \/ Invalidate(c) \/ DropSession(c)
  PROVE  UniqueInv'
<1>1. row' = row /\ snapshot' = snapshot /\ rivalled' = rivalled
  BY DEF Uncache, RemoveFromIndex, UncacheFails, Invalidate, DropSession, stores, history
<1>2. CASE Uncache(c)
  <2> PICK t \in TaskType : t = task[c]
    BY TaskFacts
  <2> DEFINE u == [t EXCEPT !.step = "lookRemove"]
  <2>1. u \in TaskType /\ u.step = "lookRemove"
    BY DEF TaskType, Step
  <2>2. Becomes(c, u)
    BY <1>2 DEF Uncache, Goes
  <2> HIDE DEF u
  <2> QED BY <1>1, <2>1, <2>2, UniqueQuiet
<1>3. CASE Invalidate(c)
  <2> PICK L \in SUBSET Record : L = listing
    BY DEF StoresShapes, StoreShapes
  <2> DEFINE u == [Idle EXCEPT !.step = "drop", !.ids = L]
  <2>1. u \in TaskType /\ u.step = "drop"
    BY DEF Idle, TaskType, Step
  <2>2. Becomes(c, u)
    BY <1>3 DEF Invalidate
  <2> HIDE DEF u
  <2> QED BY <1>1, <2>1, <2>2, UniqueQuiet
<1>4. CASE RemoveFromIndex(c) \/ UncacheFails(c) \/ DropSession(c)
  BY <1>1, <1>4, IdleTask, UniqueQuiet DEF RemoveFromIndex, UncacheFails, DropSession, Finish
<1> QED BY <1>2, <1>3, <1>4

\* delete and reset take rows away; an edit that brings a content back is noted.
LEMMA EditUnique ==
  ASSUME StoresShapes, UniqueInv, NEW c \in Client,
         \/ \E S \in SUBSET Record : DeleteRecords(c, S)
         \/ \E r \in Record, x \in Content : Edit(c, r, x)
  PROVE  UniqueInv'
<1> USE DEF StoresShapes, StoreShapes
<1>1. ASSUME NEW S \in SUBSET Record, DeleteRecords(c, S) PROVE UniqueInv'
  <2> DEFINE u == Indexing(Dropping(S))
  <2>1. Becomes(c, u)
    BY <1>1 DEF DeleteRecords, Dropping
  <2>2. u \in TaskType /\ u.step \in {"unindex", "reindex", "idle"}
    BY DropTask
  <2> HIDE DEF u
  <2>3. \A r \in Record : row'[r] = Nothing \/ row'[r] = row[r]
    BY <1>1 DEF DeleteRecords, DropRows
  <2>4. rivalled' = rivalled /\ snapshot' = snapshot
    BY <1>1 DEF DeleteRecords
  <2>5. RowsAlone(c) /\ TaskAlone(c, u)
    BY <2>2, <2>3 DEF RowsAlone, TaskAlone
  <2> QED BY <2>1, <2>2, <2>4, <2>5, UniqueStep
<1>2. ASSUME NEW r \in Record, NEW x \in Content, Edit(c, r, x) PROVE UniqueInv'
  <2>1. row \in Rows /\ row[r] \in Row /\ row[r] # Nothing
    BY <1>2 DEF Edit, Stored, Known, Rows
  <2> PICK read \in Row : read = row[r]
    BY <2>1
  <2> DEFINE new == [read EXCEPT !.text = x, !.hashed = TRUE]
  <2>2. new \in Row /\ new.text = x /\ new # Nothing
    BY StoresAssumption DEF Row
  <2>3. row' = [row EXCEPT ![r] = new]
    BY <1>2 DEF Edit, UpdateRow, Rows
  <2> HIDE DEF new
  <2>4. row' \in Rows
    BY <2>1, <2>2, <2>3 DEF Rows
  <2> PICK rows \in Rows : rows = row'
    BY <2>4
  <2> DEFINE u == Indexing(Adding(r, rows))
  <2>5. Becomes(c, u)
    BY <1>2 DEF Edit, Adding
  <2>6. u \in TaskType /\ u.step \in {"unindex", "reindex", "idle"}
    <3>1. rows[r] # Nothing
      BY <2>1, <2>2, <2>3 DEF Rows
    <3> QED BY <3>1, AddTask
  <2> HIDE DEF u
  <2>7. /\ rivalled \subseteq rivalled' /\ snapshot' = snapshot
        /\ x \notin rivalled' => ByHash(x) \subseteq {r} /\ ~Rivals(c, x)
    BY <1>2 DEF Edit
  <2>8. RowsAlone(c)
    BY <2>1, <2>2, <2>3, <2>7 DEF RowsAlone, ByHash, Stored, Rows
  <2>9. TaskAlone(c, u)
    BY <2>6 DEF TaskAlone
  <2> QED BY <2>5, <2>6, <2>7, <2>8, <2>9, UniqueStep
<1> QED BY <1>1, <1>2

\* What a replacement hands over, and what is left of it after a point.
LEMMA IndexingTask ==
  ASSUME StoresShapes, NEW c \in Client, Replace(c) \/ Unindex(c) \/ Reindex(c)
  PROVE  \E u \in TaskType : Becomes(c, u) /\ u.step \in {"unindex", "reindex", "idle"}
<1> PICK t \in TaskType : t = task[c]
  BY TaskFacts
<1>1. FormOK(t, born, cached) /\ t.step \in {"replace", "unindex", "reindex"}
  BY TaskFacts DEF Replace, Unindex, Reindex, At
<1>2. t.rec = Nothing /\ t.session = Nothing
      /\ \A q \in t.add : t.backup \in Rows /\ t.backup[q] # Nothing
  BY <1>1 DEF FormOK
<1>3. PICK v \in TaskType :
        /\ Becomes(c, Indexing(v)) /\ v.rec = Nothing /\ v.session = Nothing
        /\ v.ids \subseteq Record /\ v.drop \subseteq Record /\ v.add \subseteq Record
        /\ \A q \in v.add : v.backup \in Rows /\ v.backup[q] # Nothing
  <2>1. CASE Unindex(c)
    <3> PICK r : Becomes(c, Indexing([t EXCEPT !.drop = @ \ {r}]))
      BY <2>1 DEF Unindex
    <3> DEFINE v == [t EXCEPT !.drop = @ \ {r}]
    <3>1. v \in TaskType /\ v.rec = Nothing /\ v.session = Nothing /\ v.ids \subseteq Record
          /\ v.drop \subseteq Record /\ v.add = t.add /\ v.backup = t.backup /\ v.add \subseteq Record
      BY <1>2 DEF TaskType
    <3>2. Becomes(c, Indexing(v))
      OBVIOUS
    <3> HIDE DEF v
    <3> QED BY <1>2, <3>1, <3>2
  <2>2. CASE Reindex(c)
    <3> PICK r : Becomes(c, Indexing([t EXCEPT !.add = @ \ {r}]))
      BY <2>2 DEF Reindex
    <3> DEFINE v == [t EXCEPT !.add = @ \ {r}]
    <3>1. v \in TaskType /\ v.rec = Nothing /\ v.session = Nothing /\ v.ids \subseteq Record
          /\ v.drop \subseteq Record /\ v.add \subseteq t.add /\ v.backup = t.backup
          /\ v.add \subseteq Record
      BY <1>2 DEF TaskType
    <3>2. Becomes(c, Indexing(v))
      OBVIOUS
    <3> HIDE DEF v
    <3> QED BY <1>2, <3>1, <3>2
  <2>3. CASE Replace(c)
    <3>0. t.backup \in Rows
      BY <1>1, <2>3 DEF FormOK, Replace, At
    <3> PICK gone \in SUBSET Record : gone = Stored
      BY DEF Stored
    <3> DEFINE kept == {r \in Record : t.backup[r] # Nothing}
               v == [t EXCEPT !.drop = gone, !.add = kept]
    <3>1. v \in TaskType /\ v.rec = Nothing /\ v.session = Nothing /\ v.ids \subseteq Record
          /\ v.drop = gone /\ v.add = kept /\ v.backup = t.backup
      BY <1>2 DEF TaskType
    <3>2. Becomes(c, Indexing(v))
      BY <2>3 DEF Replace
    <3>3. kept \subseteq Record /\ \A q \in kept : t.backup[q] # Nothing
      OBVIOUS
    <3> HIDE DEF v, kept
    <3> QED BY <3>0, <3>1, <3>2, <3>3
  <2> QED BY <2>1, <2>2, <2>3
<1>4. Indexing(v) \in TaskType
  BY <1>3, IndexingForm
<1>5. Indexing(v).step \in {"unindex", "reindex", "idle"}
  BY IndexingStep
<1> QED BY <1>3, <1>4, <1>5

\* A restore brings rows that are tidy among themselves, and notes those that a
\* save will bring too.
LEMMA SnapshotUnique ==
  ASSUME StoresShapes, UniqueInv, NEW c \in Client,
         TakeSnapshot(c) \/ Restore(c) \/ Replace(c)
  PROVE  UniqueInv'
<1> USE DEF StoresShapes, StoreShapes
<1>1. CASE TakeSnapshot(c)
  BY <1>1, UniqueFewer DEF TakeSnapshot, history
<1>2. CASE Restore(c)
  <2> PICK rows \in Rows : rows = snapshot
    BY <1>2 DEF Restore
  <2>1. Tidy(rows)
    BY StoresAssumption DEF UniqueInv
  <2> DEFINE u == [Idle EXCEPT !.step = "replace", !.backup = rows]
  <2>2. u \in TaskType /\ u.step = "replace" /\ u.backup = rows
    BY DEF Idle, TaskType, Step
  <2>3. Becomes(c, u) /\ row' = row /\ snapshot' = row /\ rivalled' = rivalled
    BY <1>2 DEF Restore
  <2> HIDE DEF u
  <2>4. RowsAlone(c) /\ TaskAlone(c, u)
    BY <2>2, <2>3 DEF RowsAlone, TaskAlone
  <2> QED BY <2>1, <2>2, <2>3, <2>4, UniqueStep
<1>3. CASE Replace(c)
  <2> PICK t \in TaskType : t = task[c]
    BY TaskFacts
  <2>1. FormOK(t, born, cached) /\ t.step = "replace"
    BY <1>3, TaskFacts DEF Replace, At
  <2>2. t.backup \in Rows /\ Tidy(t.backup)
    BY <2>1 DEF FormOK, UniqueInv
  <2>3. /\ row' = t.backup /\ snapshot' = snapshot
        /\ rivalled' = rivalled \cup {x \in Content :
             Rivals(c, x) /\ \E r \in Record : t.backup[r] # Nothing /\ t.backup[r].text = x}
    BY <1>3 DEF Replace, ReplaceRows
  <2>4. RowsAlone(c)
    BY <2>2, <2>3 DEF RowsAlone, Tidy, Rows, Row
  <2> PICK u \in TaskType : Becomes(c, u) /\ u.step \in {"unindex", "reindex", "idle"}
    BY <1>3, IndexingTask
  <2>5. TaskAlone(c, u)
    BY DEF TaskAlone
  <2>6. rivalled \subseteq rivalled'
    BY <2>3
  <2> QED BY <2>3, <2>4, <2>5, <2>6, UniqueStep
<1> QED BY <1>1, <1>2, <1>3

\* The points do not matter to the rows.
LEMMA IndexUnique ==
  ASSUME StoresShapes, UniqueInv, NEW c \in Client, Unindex(c) \/ Reindex(c)
  PROVE  UniqueInv'
<1>1. row' = row /\ snapshot' = snapshot /\ rivalled' = rivalled
  BY DEF Unindex, Reindex
<1> QED BY <1>1, IndexingTask, UniqueQuiet

\* Every step keeps UniqueInv.
LEMMA UniqueKept == StoresShapes /\ UniqueInv /\ [StoresNext]_storesVars => UniqueInv'
<1> SUFFICES ASSUME StoresShapes, UniqueInv, [StoresNext]_storesVars PROVE UniqueInv'
  OBVIOUS
<1>1. CASE UNCHANGED storesVars
  BY <1>1, UniqueFewer DEF storesVars, stores, history
<1>2. ASSUME NEW c \in Client, OperationBegins(c) PROVE UniqueInv'
  <2>1. ASSUME NEW x \in Content, SaveDuplicate(c, x) PROVE UniqueInv'
    BY <2>1, UniqueFewer DEF SaveDuplicate, stores
  <2> QED BY <1>2, <2>1, SaveUnique, SessionUnique, PromoteUnique, UncacheUnique, EditUnique,
             SnapshotUnique DEF OperationBegins
<1>3. ASSUME NEW c \in Client, OperationStep(c) PROVE UniqueInv'
  BY <1>3, SaveUnique, SessionUnique, UncacheUnique, SnapshotUnique, IndexUnique
     DEF OperationStep
<1>4. ASSUME (\E r \in Record : Age(r) \/ SessionKeyExpires(r)) \/ IndexExpires \/ Collect
      PROVE  UniqueInv'
  <2>1. /\ UNCHANGED <<task, rivalled>> /\ snapshot' = snapshot
        /\ \A r \in Record : row'[r] \in {row[r], Nothing}
    BY <1>4 DEF Age, SessionKeyExpires, IndexExpires, Collect, DropRows, stores, history
  <2> QED BY <2>1, UniqueFewer
<1> QED BY <1>1, <1>2, <1>3, <1>4 DEF StoresNext

(***************************************************************************)
(* A session record is listed.                                             *)
(***************************************************************************)

Reading == {"list", "unlist", "drop"}
Listing == {"lookAdd", "list"}

\* An operation that will write the index of the session has all of it, and a
\* session record that Redis has is listed or about to be.
ListedInv ==
  ~misfiled =>
    /\ \A c \in Client : task[c].step \in Reading => listing \subseteq task[c].ids
    /\ \A r \in Record : cached[r] # Nothing =>
         r \in listing \/ \E c \in Client : task[c].rec = r /\ task[c].step \in Listing

\* What a step of one operation has to keep to.
KeepsListing(c, t) ==
  /\ listing' \subseteq listing \/ Unread(c)
  /\ t.step \in Reading => listing' \subseteq t.ids
  /\ \A r \in Record : cached'[r] # Nothing =>
       \/ r \in listing'
       \/ t.rec = r /\ t.step \in Listing
       \/ \E d \in Client \ {c} : task[d].rec = r /\ task[d].step \in Listing

\* A step of one operation that keeps to this keeps the index of the session
\* complete.
LEMMA ListedStep ==
  ASSUME StoresShapes, ListedInv, NEW c \in Client, NEW t \in TaskType, Becomes(c, t),
         ~misfiled' => ~misfiled /\ KeepsListing(c, t)
  PROVE  ListedInv'
<1> SUFFICES ASSUME ~misfiled' PROVE ListedInv'
  BY DEF ListedInv
<1>1. task'[c] = t /\ \A d \in Client \ {c} : task'[d] = task[d]
  BY DEF StoresShapes, TaskShapes, Becomes
<1>2. ASSUME NEW d \in Client, task'[d].step \in Reading PROVE listing' \subseteq task'[d].ids
  BY <1>1, <1>2 DEF ListedInv, KeepsListing, Unread, Reading
<1>3. ASSUME NEW r \in Record, cached'[r] # Nothing
      PROVE  r \in listing' \/ \E d \in Client : task'[d].rec = r /\ task'[d].step \in Listing
  BY <1>1, <1>3 DEF KeepsListing
<1> QED BY <1>2, <1>3 DEF ListedInv

\* Most steps leave the index alone and only take keys away.
LEMMA ListedQuiet ==
  ASSUME StoresShapes, ListedInv, NEW c \in Client, NEW t \in TaskType, Becomes(c, t),
         misfiled' = misfiled, listing' = listing,
         \A r \in Record : cached'[r] \in {cached[r], Nothing},
         task[c].step \notin Listing, t.step \notin Reading
  PROVE  ListedInv'
BY ListedStep DEF KeepsListing, ListedInv

\* So does one that changes no task and not the index.
LEMMA ListedAside ==
  ASSUME ListedInv, UNCHANGED <<task, misfiled, listing>>,
         \A r \in Record : cached'[r] \in {cached[r], Nothing}
  PROVE  ListedInv'
BY DEF ListedInv

\* save: the index and the keys stay.
LEMMA SaveListed ==
  ASSUME StoresShapes, ListedInv, NEW c \in Client,
         \/ \E r \in Record, x \in Content : SaveNew(c, r, x)
         \/ Save(c) \/ Upsert(c) \/ UpsertFails(c)
  PROVE  ListedInv'
<1> USE DEF Reading, Listing
<1> PICK t \in TaskType : t = task[c]
  BY TaskFacts
<1>1. ASSUME NEW r \in Record, NEW x \in Content, SaveNew(c, r, x) PROVE ListedInv'
  <2> DEFINE u == [Idle EXCEPT !.step = "save", !.rec = r, !.copy = SavedRow(x)]
  <2>1. u \in TaskType /\ u.step = "save"
    BY DEF Idle, TaskType, Step, SavedRow, Row
  <2>2. Becomes(c, u) /\ cached' = cached /\ listing' = listing /\ misfiled' = misfiled
    BY <1>1 DEF SaveNew, stores
  <2>3. task[c].step = "idle"
    BY <1>1, IdleTask DEF SaveNew, Begin
  <2> HIDE DEF u
  <2> QED BY <2>1, <2>2, <2>3, ListedQuiet
<1>2. CASE Save(c) \/ Upsert(c) \/ UpsertFails(c)
  <2> DEFINE u(step) == [t EXCEPT !.step = step]
  <2>1. \A step \in Step : u(step) \in TaskType /\ u(step).step = step
    BY DEF TaskType, Step
  <2>2. \/ Becomes(c, Idle) \/ Becomes(c, u("upsert")) \/ Becomes(c, u("uncache"))
    BY <1>2 DEF Save, Upsert, UpsertFails, Goes, Finish
  <2>3. cached' = cached /\ listing' = listing /\ misfiled' = misfiled
    BY <1>2 DEF Save, Upsert, UpsertFails, stores
  <2>4. task[c].step \notin Listing
    BY <1>2 DEF Save, Upsert, UpsertFails, At
  <2> HIDE DEF u
  <2> QED BY <2>1, <2>2, <2>3, <2>4, IdleTask, ListedQuiet DEF Step
<1> QED BY <1>1, <1>2

\* cache_session: a new key is about to be listed, and the index that is written
\* back has all of the one that was read.
LEMMA SessionListedStep ==
  ASSUME StoresShapes, ListedInv, NEW c \in Client,
         \/ \E r \in Record, x \in Content : CacheSession(c, r, x)
         \/ ReadIndex(c) \/ AddToIndex(c) \/ IndexFails(c) \/ DualWrite(c)
  PROVE  ListedInv'
<1> USE DEF Reading, Listing
<1> PICK t \in TaskType : t = task[c]
  BY TaskFacts
<1>1. ASSUME NEW r \in Record, NEW x \in Content, CacheSession(c, r, x) PROVE ListedInv'
  <2> DEFINE u == [Idle EXCEPT !.step = "lookAdd", !.rec = r, !.copy = SessionRow(x)]
  <2>1. u \in TaskType /\ u.step = "lookAdd" /\ u.rec = r
    BY DEF Idle, TaskType, Step, SessionRow, Row
  <2>2. /\ Becomes(c, u) /\ cached' = [cached EXCEPT ![r] = x]
        /\ listing' = listing /\ misfiled' = misfiled
    BY <1>1 DEF CacheSession, history
  <2>3. task[c].step = "idle"
    BY <1>1, IdleTask DEF CacheSession, Begin
  <2> HIDE DEF u
  <2>4. ASSUME ~misfiled PROVE KeepsListing(c, u)
    BY <2>1, <2>2, <2>3, <2>4 DEF KeepsListing, ListedInv
  <2> QED BY <2>1, <2>2, <2>4, ListedStep
<1>2. CASE ReadIndex(c)
  <2> PICK L \in SUBSET Record : L = listing
    BY DEF StoresShapes, StoreShapes
  <2> DEFINE u(step) == [t EXCEPT !.step = step, !.ids = L]
  <2>1. \/ t.step = "lookAdd" /\ Becomes(c, u("list"))
        \/ t.step = "lookRemove" /\ Becomes(c, u("unlist"))
    <3> PICK next \in {<<"lookAdd", "list">>, <<"lookRemove", "unlist">>} :
          t.step = next[1] /\ Becomes(c, u(next[2]))
      BY <1>2 DEF ReadIndex, At
    <3> HIDE DEF u
    <3>1. CASE next = <<"lookAdd", "list">>
      BY <3>1
    <3>2. CASE next = <<"lookRemove", "unlist">>
      BY <3>2
    <3> QED BY <3>1, <3>2
  <2>2. \A step \in Step : /\ u(step) \in TaskType /\ u(step).step = step
                           /\ u(step).rec = t.rec /\ u(step).ids = L
    BY DEF TaskType, Step
  <2>3. cached' = cached /\ listing' = listing /\ misfiled' = misfiled
    BY <1>2 DEF ReadIndex, stores, history
  <2> HIDE DEF u
  <2>4. ASSUME ~misfiled, t.step = "lookAdd" PROVE KeepsListing(c, u("list"))
    BY <2>2, <2>3, <2>4 DEF KeepsListing, ListedInv, Step
  <2>5. ASSUME ~misfiled, t.step = "lookRemove" PROVE KeepsListing(c, u("unlist"))
    BY <2>2, <2>3, <2>5 DEF KeepsListing, ListedInv, Step
  <2> QED BY <2>1, <2>2, <2>3, <2>4, <2>5, ListedStep DEF Step
<1>3. CASE AddToIndex(c)
  <2> DEFINE u == [t EXCEPT !.step = "dual"]
  <2>1. u \in TaskType /\ u.step = "dual"
    BY DEF TaskType, Step
  <2>2. /\ Becomes(c, u) /\ cached' = cached /\ listing' = t.ids \cup {t.rec} /\ t.step = "list"
        /\ misfiled' = (misfiled \/ ~Unread(c))
    BY <1>3 DEF AddToIndex, Goes, WriteIndex, LongerIndex, At
  <2> HIDE DEF u
  <2>3. ASSUME ~misfiled, Unread(c) PROVE KeepsListing(c, u)
    BY <2>1, <2>2, <2>3 DEF KeepsListing, ListedInv
  <2>4. ~misfiled' => ~misfiled /\ Unread(c)
    BY <2>2
  <2> QED BY <2>1, <2>2, <2>3, <2>4, ListedStep
<1>4. CASE IndexFails(c)
  BY <1>4, IdleTask, ListedStep DEF IndexFails, Finish
<1>5. CASE DualWrite(c)
  BY <1>5, IdleTask, ListedQuiet DEF DualWrite, At, Finish, history
<1> QED BY <1>1, <1>2, <1>3, <1>4, <1>5

\* promote begins by reading PostgreSQL and writes no index.
LEMMA PromoteListed ==
  ASSUME StoresShapes, ListedInv, NEW c \in Client, NEW r \in Record,
         PromoteDuplicate(c, r) \/ PromoteRow(c, r) \/ PromoteRaises(c, r)
  PROVE  ListedInv'
<1> USE DEF StoresShapes, StoreShapes, Reading, Listing
<1>1. cached' = cached /\ listing' = listing /\ misfiled' = misfiled
  BY DEF PromoteDuplicate, PromoteRow, PromoteRaises, stores, history
<1>2. PromoteDuplicate(c, r) \/ PromoteRow(c, r) => task[c].step = "idle"
  BY IdleTask DEF PromoteDuplicate, PromoteRow, Begin
<1>3. CASE PromoteDuplicate(c, r)
  <2> PICK e \in ByHash(TextOf(r)) :
        \/ Becomes(c, Uncaching(r))
        \/ Becomes(c, [Uncaching(r) EXCEPT !.step = "save", !.rec = e, !.copy = row[e]])
    BY <1>3 DEF PromoteDuplicate
  <2>1. e \in Record /\ row[e] # Nothing
    BY DEF ByHash, Stored
  <2> PICK copy \in Row : copy = row[e]
    BY <2>1 DEF Rows
  <2> DEFINE u == Uncaching(r)
             v == [Uncaching(r) EXCEPT !.step = "save", !.rec = e, !.copy = copy]
  <2>2. u \in TaskType /\ u.step = "uncache" /\ v \in TaskType /\ v.step = "save"
    BY <2>1 DEF Uncaching, Idle, TaskType, Step
  <2>3. Becomes(c, u) \/ Becomes(c, v)
    OBVIOUS
  <2> HIDE DEF u, v
  <2> QED BY <1>1, <1>2, <1>3, <2>2, <2>3, ListedQuiet
<1>4. CASE PromoteRow(c, r)
  <2>1. row[r] # Nothing
    BY <1>4 DEF PromoteRow
  <2> PICK read \in Row : read = row[r]
    BY <2>1 DEF Rows
  <2> DEFINE copy == [read EXCEPT !.hashed = TRUE]
             u == [Uncaching(r) EXCEPT !.step = "save", !.rec = r, !.copy = copy]
  <2>3. copy \in Row
    BY DEF Row
  <2>4. u \in TaskType /\ u.step = "save"
    BY <2>1, <2>3 DEF Uncaching, Idle, TaskType, Step
  <2>5. Becomes(c, u)
    BY <1>4 DEF PromoteRow
  <2> HIDE DEF u, copy
  <2> QED BY <1>1, <1>2, <1>4, <2>4, <2>5, ListedQuiet
<1>5. CASE PromoteRaises(c, r)
  BY <1>1, <1>5, ListedAside DEF PromoteRaises
<1> QED BY <1>3, <1>4, <1>5

\* The end of a promotion unlists what has no key any more; invalidate_session
\* deletes the keys it lists.
LEMMA UncacheListed ==
  ASSUME StoresShapes, ListedInv, NEW c \in Client,
         \/ Uncache(c) \/ RemoveFromIndex(c) \/ UncacheFails(c)
         \/ Invalidate(c) \/ DropSession(c)
  PROVE  ListedInv'
<1> USE DEF Reading, Listing
<1> PICK t \in TaskType : t = task[c]
  BY TaskFacts
<1>0. FormOK(t, born, cached) /\ cached \in [Record -> Content \cup {Nothing}]
  BY TaskFacts DEF StoresShapes, StoreShapes
<1>1. CASE Uncache(c)
  <2> DEFINE u == [t EXCEPT !.step = "lookRemove"]
  <2>1. u \in TaskType /\ u.step = "lookRemove"
    BY DEF TaskType, Step
  <2>2. /\ Becomes(c, u) /\ listing' = listing /\ misfiled' = misfiled /\ t.step = "uncache"
        /\ \A r \in Record : cached'[r] \in {cached[r], Nothing}
    BY <1>0, <1>1 DEF Uncache, Goes, history, At
  <2> HIDE DEF u
  <2> QED BY <2>1, <2>2, ListedQuiet
<1>2. CASE RemoveFromIndex(c)
  <2>1. /\ Becomes(c, Idle) /\ cached' = cached /\ t.step = "unlist"
        /\ cached[t.session] = Nothing
    BY <1>0, <1>2 DEF RemoveFromIndex, Finish, At, FormOK
  <2>2. CASE t.session \in t.ids
    <3>1. listing' = t.ids \ {t.session} /\ misfiled' = (misfiled \/ ~Unread(c))
      BY <1>2, <2>2 DEF RemoveFromIndex, WriteIndex
    <3>2. ASSUME ~misfiled, Unread(c) PROVE KeepsListing(c, Idle)
      BY <2>1, <3>1, <3>2, IdleTask DEF KeepsListing, ListedInv
    <3>3. ~misfiled' => ~misfiled /\ Unread(c)
      BY <3>1
    <3> QED BY <2>1, <3>2, <3>3, IdleTask, ListedStep
  <2>3. CASE t.session \notin t.ids
    <3>1. listing' = listing /\ misfiled' = misfiled
      BY <1>2, <2>3 DEF RemoveFromIndex
    <3> QED BY <2>1, <3>1, IdleTask, ListedQuiet
  <2> QED BY <2>2, <2>3
<1>3. CASE UncacheFails(c)
  BY <1>3, IdleTask, ListedQuiet DEF UncacheFails, Finish, stores, history
<1>4. CASE Invalidate(c)
  <2> PICK L \in SUBSET Record : L = listing
    BY DEF StoresShapes, StoreShapes
  <2> DEFINE u == [Idle EXCEPT !.step = "drop", !.ids = L]
  <2>1. u \in TaskType /\ u.step = "drop" /\ u.ids = L
    BY DEF Idle, TaskType, Step
  <2>2. /\ Becomes(c, u) /\ cached' = cached /\ listing' = listing /\ misfiled' = misfiled
        /\ task[c].step = "idle"
    BY <1>4, IdleTask DEF Invalidate, Begin, stores, history
  <2> HIDE DEF u
  <2>3. ASSUME ~misfiled PROVE KeepsListing(c, u)
    BY <2>1, <2>2, <2>3 DEF KeepsListing, ListedInv
  <2> QED BY <2>1, <2>2, <2>3, ListedStep
<1>5. CASE DropSession(c)
  <2>1. /\ Becomes(c, Idle) /\ listing' = {} /\ misfiled' = (misfiled \/ ~Unread(c))
        /\ cached' = [r \in Record |-> IF r \in t.ids THEN Nothing ELSE cached[r]]
        /\ t.step = "drop"
    BY <1>5 DEF DropSession, Finish, WriteIndex, At
  <2>2. ASSUME ~misfiled PROVE KeepsListing(c, Idle)
    BY <2>1, <2>2, IdleTask DEF KeepsListing, ListedInv
  <2>3. ~misfiled' => ~misfiled
    BY <2>1
  <2> QED BY <2>1, <2>2, <2>3, IdleTask, ListedStep
<1> QED BY <1>1, <1>2, <1>3, <1>4, <1>5

\* delete, reset and edit: the index and the keys stay.
LEMMA EditListed ==
  ASSUME StoresShapes, ListedInv, NEW c \in Client,
         \/ \E S \in SUBSET Record : DeleteRecords(c, S)
         \/ \E r \in Record, x \in Content : Edit(c, r, x)
  PROVE  ListedInv'
<1> USE DEF Reading, Listing
<1>1. task[c].step = "idle" /\ cached' = cached /\ listing' = listing /\ misfiled' = misfiled
  BY IdleTask DEF DeleteRecords, Edit, Begin
<1>2. ASSUME NEW S \in SUBSET Record, DeleteRecords(c, S) PROVE ListedInv'
  <2> DEFINE u == Indexing(Dropping(S))
  <2>1. Becomes(c, u)
    BY <1>2 DEF DeleteRecords, Dropping
  <2>2. u \in TaskType /\ u.step \in {"unindex", "reindex", "idle"}
    BY DropTask
  <2> HIDE DEF u
  <2> QED BY <1>1, <2>1, <2>2, ListedQuiet
<1>3. ASSUME NEW r \in Record, NEW x \in Content, Edit(c, r, x) PROVE ListedInv'
  <2>1. row' \in Rows /\ row'[r] # Nothing
    <3>1. StoresShapes'
      BY <1>3, EditShapes
    <3>2. row \in Rows /\ row[r] # Nothing
      BY <1>3 DEF Edit, Stored, StoresShapes, StoreShapes
    <3>3. row'[r] = [row[r] EXCEPT !.text = x, !.hashed = TRUE] /\ row[r] \in Row
      BY <1>3, <3>2 DEF Edit, UpdateRow, Rows
    <3>4. row'[r] # Nothing
      BY <3>3, StoresAssumption DEF Row
    <3> QED BY <3>1, <3>4 DEF StoresShapes, StoreShapes
  <2> PICK rows \in Rows : rows = row' /\ rows[r] # Nothing
    BY <2>1
  <2> DEFINE u == Indexing(Adding(r, rows))
  <2>2. Becomes(c, u)
    BY <1>3 DEF Edit, Adding
  <2>3. u \in TaskType /\ u.step = "reindex"
    BY AddTask
  <2> HIDE DEF u
  <2> QED BY <1>1, <2>2, <2>3, ListedQuiet
<1> QED BY <1>2, <1>3

\* Snapshots and points: the index and the keys stay.
LEMMA IndexListed ==
  ASSUME StoresShapes, ListedInv, NEW c \in Client,
         TakeSnapshot(c) \/ Restore(c) \/ Replace(c) \/ Unindex(c) \/ Reindex(c)
  PROVE  ListedInv'
<1> USE DEF Reading, Listing
<1>1. cached' = cached /\ listing' = listing /\ misfiled' = misfiled
  BY DEF TakeSnapshot, Restore, Replace, Unindex, Reindex, history
<1>2. CASE TakeSnapshot(c)
  BY <1>1, <1>2, ListedAside DEF TakeSnapshot
<1>3. CASE Restore(c)
  <2> PICK rows \in Rows : rows = snapshot
    BY <1>3 DEF Restore, StoresShapes, StoreShapes
  <2> DEFINE u == [Idle EXCEPT !.step = "replace", !.backup = rows]
  <2>1. u \in TaskType /\ u.step = "replace"
    BY DEF Idle, TaskType, Step
  <2>2. Becomes(c, u) /\ task[c].step = "idle"
    BY <1>3, IdleTask DEF Restore, Begin
  <2> HIDE DEF u
  <2> QED BY <1>1, <2>1, <2>2, ListedQuiet
<1>4. CASE Replace(c) \/ Unindex(c) \/ Reindex(c)
  <2>1. task[c].step \notin Listing
    BY <1>4 DEF Replace, Unindex, Reindex, At
  <2> QED BY <1>1, <1>4, <2>1, IndexingTask, ListedQuiet
<1> QED BY <1>2, <1>3, <1>4

\* Every step keeps ListedInv.
LEMMA ListedKept == StoresShapes /\ ListedInv /\ [StoresNext]_storesVars => ListedInv'
<1> SUFFICES ASSUME StoresShapes, ListedInv, [StoresNext]_storesVars PROVE ListedInv'
  OBVIOUS
<1>1. CASE UNCHANGED storesVars
  BY <1>1, ListedAside DEF storesVars, stores, history
<1>2. ASSUME NEW c \in Client, OperationBegins(c) PROVE ListedInv'
  <2>1. ASSUME NEW x \in Content, SaveDuplicate(c, x) PROVE ListedInv'
    BY <2>1, ListedAside DEF SaveDuplicate, stores
  <2> QED BY <1>2, <2>1, SaveListed, SessionListedStep, PromoteListed, UncacheListed, EditListed,
             IndexListed DEF OperationBegins
<1>3. ASSUME NEW c \in Client, OperationStep(c) PROVE ListedInv'
  BY <1>3, SaveListed, SessionListedStep, UncacheListed, IndexListed DEF OperationStep
<1>4. ASSUME (\E r \in Record : Age(r) \/ SessionKeyExpires(r)) \/ Collect PROVE ListedInv'
  <2>1. UNCHANGED <<task, misfiled, listing>> /\ \A r \in Record : cached'[r] \in {cached[r], Nothing}
    BY <1>4 DEF Age, SessionKeyExpires, Collect, stores, history, StoresShapes, StoreShapes
  <2> QED BY <2>1, ListedAside
<1>5. CASE IndexExpires
  BY <1>5 DEF IndexExpires, ListedInv
<1> QED BY <1>1, <1>2, <1>3, <1>4, <1>5 DEF StoresNext

(***************************************************************************)
(* A point is that of its row.                                             *)
(***************************************************************************)

\* The records whose row or point an operation still writes.
Own(t) == ({t.rec} \ {Nothing}) \cup t.drop \cup t.add

\* The row and the point of a record that nobody works on.
Agree(r) ==
  /\ point[r] # Nothing => row[r] # Nothing /\ row[r].text = point[r]
  /\ row[r] # Nothing /\ row[r].hashed => point[r] # Nothing
  /\ r \in promised => point[r] # Nothing

\* How far the one that works on it has come.
OwnerOK(t, r) ==
  /\ t.step = "upsert" => row[r] = t.copy
  /\ t.step \in {"lookAdd", "list", "dual"} =>
       row[r] = Nothing /\ point[r] = Nothing /\ r \notin promised
  /\ t.step \in {"uncache", "lookRemove", "unlist"} => Agree(r)
  /\ t.step \in {"unindex", "reindex"} =>
       IF r \in t.add THEN row[r] # Nothing /\ row[r].text = t.backup[r].text
       ELSE row[r] = Nothing /\ r \notin promised

RecordOK(r) ==
  /\ \A c \in Client : r \in Own(task[c]) =>
       OwnerOK(task[c], r) /\ \A d \in Client \ {c} : r \notin Own(task[d])
  /\ (\A c \in Client : r \notin Own(task[c])) => Agree(r)

IndexInv == \A r \in born \ strayed : RecordOK(r)

\* A step that leaves the record alone, or promises one whose row has its hash.
Untouched(r) ==
  /\ row'[r] = row[r] /\ point'[r] = point[r]
  /\ r \in promised' => r \in promised \/ (row[r] # Nothing /\ row[r].hashed)

\* A record left alone goes on agreeing.
LEMMA AgreeStays == ASSUME NEW r, Untouched(r), Agree(r) PROVE Agree(r)'
BY DEF Untouched, Agree

\* And whoever works on it is as far as before.
LEMMA OwnerStays == ASSUME NEW t, NEW r, Untouched(r), OwnerOK(t, r) PROVE OwnerOK(t, r)'
<1>1. t.step \in {"uncache", "lookRemove", "unlist"} => Agree(r)'
  BY AgreeStays DEF OwnerOK
<1> QED BY <1>1 DEF OwnerOK, Untouched

\* What a step to the task t of c does for the record r.
Handled(c, t, r) ==
  \/ Untouched(r) /\ r \in born /\ r \notin Own(task[c]) \cup Own(t)
  \/ /\ r \in Own(task[c]) \/ \A d \in Client \ {c} : r \notin Own(task[d])
     /\ r \in Own(t) => OwnerOK(t, r)'
     /\ r \notin Own(t) => Agree(r)'

\* A step of one operation that keeps to this keeps rows and points together.
LEMMA IndexStep ==
  ASSUME StoresShapes, IndexInv, NEW c \in Client, NEW t \in TaskType, Becomes(c, t),
         strayed \subseteq strayed', \A r \in born' \ strayed' : Handled(c, t, r),
         \A r \in born' \ born : \A d \in Client : r \notin Own(task[d])
  PROVE  IndexInv'
<1>1. task'[c] = t /\ \A d \in Client \ {c} : task'[d] = task[d]
  BY DEF StoresShapes, TaskShapes, Becomes
<1>2. ASSUME NEW r \in born' \ strayed' PROVE RecordOK(r)'
  <2>0. r \in born => RecordOK(r)
    BY DEF IndexInv
  <2>1. CASE Untouched(r) /\ r \in born /\ r \notin Own(task[c]) \cup Own(t)
    <3>1. ASSUME NEW d \in Client, r \in Own(task'[d])
          PROVE  OwnerOK(task[d], r)' /\ \A e \in Client \ {d} : r \notin Own(task'[e])
      <4>1. d # c /\ task'[d] = task[d]
        BY <1>1, <2>1, <3>1
      <4>2. OwnerOK(task[d], r) /\ \A e \in Client \ {d} : r \notin Own(task[e])
        BY <2>0, <2>1, <3>1, <4>1 DEF RecordOK
      <4> PICK u : u = task[d]
        OBVIOUS
      <4>3. OwnerOK(u, r)'
        BY <2>1, <4>2, OwnerStays
      <4>4. OwnerOK(task[d], r)'
        BY <4>1, <4>3 DEF OwnerOK, Agree
      <4>5. \A e \in Client \ {d} : r \notin Own(task'[e])
        BY <1>1, <2>1, <4>2
      <4> QED BY <4>4, <4>5
    <3>2. ASSUME \A d \in Client : r \notin Own(task'[d]) PROVE Agree(r)'
      <4>1. \A d \in Client : r \notin Own(task[d])
        BY <1>1, <2>1, <3>2
      <4>2. Agree(r)
        BY <2>0, <2>1, <4>1 DEF RecordOK
      <4> QED BY <2>1, <4>2, AgreeStays
    <3> QED BY <3>1, <3>2 DEF RecordOK, Own
  <2>2. CASE /\ r \in Own(task[c]) \/ \A d \in Client \ {c} : r \notin Own(task[d])
             /\ r \in Own(t) => OwnerOK(t, r)'
             /\ r \notin Own(t) => Agree(r)'
    <3>1. \A d \in Client \ {c} : r \notin Own(task'[d])
      BY <1>1, <2>0, <2>2 DEF RecordOK
    <3>2. r \in Own(t) => OwnerOK(task[c], r)'
      BY <1>1, <2>2 DEF OwnerOK, Agree
    <3> QED BY <1>1, <2>2, <3>1, <3>2 DEF RecordOK, Own
  <2> QED BY <1>2, <2>1, <2>2 DEF Handled
<1> QED BY <1>2 DEF IndexInv

\* So does a step that changes no task.
LEMMA IndexAside ==
  ASSUME IndexInv, UNCHANGED <<task, born>>, strayed \subseteq strayed',
         \A r \in born \ strayed' : Untouched(r)
  PROVE  IndexInv'
<1>1. ASSUME NEW r \in born' \ strayed' PROVE RecordOK(r)'
  <2>1. RecordOK(r) /\ Untouched(r)
    BY DEF IndexInv
  <2>2. ASSUME NEW d \in Client, r \in Own(task[d]) PROVE OwnerOK(task[d], r)'
    <3> PICK u : u = task[d]
      OBVIOUS
    <3>1. OwnerOK(u, r)'
      BY <2>1, <2>2, OwnerStays DEF RecordOK
    <3> QED BY <3>1 DEF OwnerOK, Agree
  <2>3. (\A d \in Client : r \notin Own(task[d])) => Agree(r)'
    BY <2>1, AgreeStays DEF RecordOK
  <2> QED BY <2>1, <2>2, <2>3 DEF RecordOK, Own
<1> QED BY <1>1 DEF IndexInv

\* Only ids given out are worked on.
LEMMA OwnBorn == ASSUME StoresShapes, NEW c \in Client PROVE Own(task[c]) \subseteq born
BY TaskFacts DEF Own, FormOK

\* What two operations work on at once is strayed.
LEMMA SharedStrays ==
  ASSUME StoresShapes, NEW c \in Client, NEW S, Shared(c, S), NEW r \in S, r \notin strayed'
  PROVE  \A d \in Client \ {c} : r \notin Own(task[d])
<1>1. ASSUME NEW d \in Client, task[d].step = "replace" PROVE Own(task[d]) \subseteq born
  BY OwnBorn
<1> QED BY <1>1 DEF Shared, Busy, Holds, Own

\* Most steps go on to the next call of a task and write no row and no point.
LEMMA IndexQuiet ==
  ASSUME StoresShapes, IndexInv, NEW c \in Client, NEW t \in TaskType, Becomes(c, t),
         UNCHANGED <<born, strayed>>, \A r \in Record : Untouched(r), Own(t) = Own(task[c]),
         \A r \in Own(t) : OwnerOK(task[c], r) => OwnerOK(t, r)
  PROVE  IndexInv'
<1>1. ASSUME NEW r \in born' \ strayed' PROVE Handled(c, t, r)
  <2>1. RecordOK(r) /\ r \in born /\ Untouched(r)
    BY DEF IndexInv, StoresShapes, StoreShapes
  <2>2. CASE r \in Own(t)
    <3>1. OwnerOK(t, r)
      BY <2>1, <2>2 DEF RecordOK
    <3>2. OwnerOK(t, r)'
      BY <2>1, <3>1, OwnerStays
    <3> QED BY <2>2, <3>2 DEF Handled
  <2>3. CASE r \notin Own(t)
    BY <2>1, <2>3 DEF Handled
  <2> QED BY <2>2, <2>3
<1> QED BY <1>1, IndexStep

\* Own(t), from what t remembers.
LEMMA OwnOf ==
  ASSUME NEW t \in TaskType
  PROVE  /\ t.drop = {} /\ t.add = {} /\ t.rec = Nothing => Own(t) = {}
         /\ t.drop = {} /\ t.add = {} /\ t.rec # Nothing => Own(t) = {t.rec}
         /\ t.rec = Nothing => Own(t) = t.drop \cup t.add
BY DEF Own

\* save: the point is that of the row just written, or the record is strayed.
LEMMA SaveIndexed ==
  ASSUME StoresShapes, IndexInv, NEW c \in Client,
         \/ \E r \in Record, x \in Content : SaveNew(c, r, x)
         \/ Save(c) \/ Upsert(c) \/ UpsertFails(c)
  PROVE  IndexInv'
<1> USE DEF StoresShapes, StoreShapes
<1> PICK t \in TaskType : t = task[c]
  BY TaskFacts
<1>0. FormOK(t, born, cached)
  BY TaskFacts
<1>1. Own(Idle) = {}
  BY IdleTask DEF Own
<1>2. ASSUME NEW r \in Record, NEW x \in Content, SaveNew(c, r, x) PROVE IndexInv'
  <2> DEFINE u == [Idle EXCEPT !.step = "save", !.rec = r, !.copy = SavedRow(x)]
  <2>1. u \in TaskType /\ u.step = "save" /\ u.rec = r /\ u.drop = {} /\ u.add = {}
    BY DEF Idle, TaskType, Step, SavedRow, Row
  <2>2. /\ Becomes(c, u) /\ row' = row /\ point' = point /\ promised' = promised
        /\ strayed' = strayed /\ born' = born \cup {r} /\ r \notin born /\ task[c] = Idle
    BY <1>2 DEF SaveNew, stores, Begin
  <2> HIDE DEF u
  <2>3. Own(u) = {r}
    BY <2>1, StoresAssumption DEF Own
  <2>4. \A d \in Client : r \notin Own(task[d])
    BY <2>2, OwnBorn
  <2>5. OwnerOK(u, r)'
    BY <2>1 DEF OwnerOK
  <2>6. \A q \in born' \ strayed' : Handled(c, u, q)
    BY <1>1, <2>2, <2>3, <2>4, <2>5 DEF Handled, Untouched
  <2> QED BY <2>1, <2>2, <2>4, <2>6, IndexStep
<1>3. CASE Save(c)
  <2>1. t.step = "save" /\ t.rec \in Record /\ t.rec # Nothing /\ t.drop = {} /\ t.add = {}
    BY <1>0, <1>3 DEF Save, At, FormOK, TaskType
  <2>2. Own(t) = {t.rec}
    BY <2>1, OwnOf
  <2>3. row' = [row EXCEPT ![t.rec] = t.copy] /\ point' = point /\ promised' = promised
        /\ born' = born
    BY <1>3 DEF Save, SaveRow
  <2>4. \A r \in born \ {t.rec} : Untouched(r)
    BY <2>1, <2>3 DEF Untouched, Rows
  <2>5. ASSUME Goes(c, "upsert"), UNCHANGED strayed PROVE IndexInv'
    <3> DEFINE u == [t EXCEPT !.step = "upsert"]
    <3>1. u \in TaskType /\ u.step = "upsert" /\ u.rec = t.rec /\ u.drop = t.drop
          /\ u.add = t.add /\ u.copy = t.copy
      BY DEF TaskType, Step
    <3>2. Becomes(c, u)
      BY <2>5 DEF Goes
    <3> HIDE DEF u
    <3>3. Own(u) = {t.rec}
      BY <2>1, <3>1, OwnOf
    <3>4. OwnerOK(u, t.rec)'
      BY <2>1, <2>3, <3>1 DEF OwnerOK, Rows
    <3>5. \A r \in born' \ strayed' : Handled(c, u, r)
      BY <2>2, <2>3, <2>4, <3>3, <3>4 DEF Handled
    <3> QED BY <2>3, <2>5, <3>1, <3>2, <3>5, IndexStep
  <2>6. ASSUME Finish(c), strayed' = strayed \cup {t.rec} PROVE IndexInv'
    <3>1. \A r \in born' \ strayed' : Handled(c, Idle, r)
      BY <1>1, <2>2, <2>3, <2>4, <2>6 DEF Handled
    <3> QED BY <2>3, <2>6, <3>1, IdleTask, IndexStep DEF Finish
  <2> QED BY <1>3, <2>5, <2>6 DEF Save
<1>4. CASE Upsert(c)
  <2>1. t.step = "upsert" /\ t.rec \in Record /\ t.rec # Nothing /\ t.drop = {} /\ t.add = {}
        /\ t.copy \in Row
    BY <1>0, <1>4 DEF Upsert, At, FormOK, TaskType
  <2>2. Own(t) = {t.rec}
    BY <2>1, OwnOf
  <2>3. /\ row' = row /\ point' = [point EXCEPT ![t.rec] = t.copy.text]
        /\ promised' \subseteq promised \cup {t.rec}
        /\ born' = born /\ strayed' = strayed
    BY <1>4 DEF Upsert
  <2>4. \A r \in born \ {t.rec} : Untouched(r)
    BY <2>1, <2>3 DEF Untouched
  <2>5. t.rec \in born \ strayed => Agree(t.rec)'
    <3>1. SUFFICES ASSUME t.rec \in born \ strayed PROVE Agree(t.rec)'
      OBVIOUS
    <3>2. row[t.rec] = t.copy
      BY <2>1, <2>2, <3>1 DEF IndexInv, RecordOK, OwnerOK
    <3>3. t.copy.text # Nothing /\ t.copy # Nothing /\ point'[t.rec] = t.copy.text
      BY <2>1, <2>3, StoresAssumption DEF Row
    <3> QED BY <2>3, <3>2, <3>3 DEF Agree
  <2>6. ASSUME Goes(c, "uncache") PROVE IndexInv'
    <3> DEFINE u == [t EXCEPT !.step = "uncache"]
    <3>1. u \in TaskType /\ u.step = "uncache" /\ u.rec = t.rec /\ u.drop = t.drop
          /\ u.add = t.add
      BY DEF TaskType, Step
    <3>2. Becomes(c, u)
      BY <2>6 DEF Goes
    <3> HIDE DEF u
    <3>3. Own(u) = {t.rec}
      BY <2>1, <3>1, OwnOf
    <3>4. t.rec \in born \ strayed => OwnerOK(u, t.rec)'
      BY <2>5, <3>1 DEF OwnerOK
    <3>5. \A r \in born' \ strayed' : Handled(c, u, r)
      BY <2>2, <2>3, <2>4, <3>3, <3>4 DEF Handled
    <3> QED BY <2>3, <3>1, <3>2, <3>5, IndexStep
  <2>7. ASSUME Finish(c) PROVE IndexInv'
    <3>1. \A r \in born' \ strayed' : Handled(c, Idle, r)
      BY <1>1, <2>2, <2>3, <2>4, <2>5 DEF Handled
    <3> QED BY <2>3, <2>7, <3>1, IdleTask, IndexStep DEF Finish
  <2> QED BY <1>4, <2>6, <2>7 DEF Upsert
<1>5. CASE UpsertFails(c)
  <2>1. t.step = "upsert" /\ t.rec # Nothing /\ t.drop = {} /\ t.add = {}
    BY <1>0, <1>5 DEF UpsertFails, At, FormOK
  <2>2. Own(t) = {t.rec}
    BY <2>1, OwnOf
  <2>3. /\ row' = row /\ point' = point /\ promised' = promised /\ born' = born
        /\ strayed' = strayed \cup {t.rec} /\ Becomes(c, Idle)
    BY <1>5 DEF UpsertFails, stores, Finish
  <2>4. \A r \in born' \ strayed' : Handled(c, Idle, r)
    BY <1>1, <2>2, <2>3 DEF Handled, Untouched
  <2> QED BY <2>3, <2>4, IdleTask, IndexStep
<1> QED BY <1>2, <1>3, <1>4, <1>5

\* cache_session: a new record has no point, and a row without a hash.
LEMMA SessionIndexed ==
  ASSUME StoresShapes, IndexInv, NEW c \in Client,
         \/ \E r \in Record, x \in Content : CacheSession(c, r, x)
         \/ ReadIndex(c) \/ AddToIndex(c) \/ IndexFails(c) \/ DualWrite(c)
  PROVE  IndexInv'
<1> USE DEF StoresShapes, StoreShapes
<1> PICK t \in TaskType : t = task[c]
  BY TaskFacts
<1>0. FormOK(t, born, cached)
  BY TaskFacts
<1>1. Own(Idle) = {}
  BY IdleTask DEF Own
<1>2. ASSUME NEW r \in Record, NEW x \in Content, CacheSession(c, r, x) PROVE IndexInv'
  <2> DEFINE u == [Idle EXCEPT !.step = "lookAdd", !.rec = r, !.copy = SessionRow(x)]
  <2>1. u \in TaskType /\ u.step = "lookAdd" /\ u.rec = r /\ u.drop = {} /\ u.add = {}
    BY DEF Idle, TaskType, Step, SessionRow, Row
  <2>2. /\ Becomes(c, u) /\ row' = row /\ point' = point /\ promised' = promised
        /\ strayed' = strayed /\ born' = born \cup {r} /\ r \notin born /\ task[c] = Idle
    BY <1>2 DEF CacheSession, history, Begin
  <2> HIDE DEF u
  <2>3. Own(u) = {r}
    BY <2>1, StoresAssumption DEF Own
  <2>4. \A d \in Client : r \notin Own(task[d])
    BY <2>2, OwnBorn
  <2>5. OwnerOK(u, r)'
    BY <2>1, <2>2 DEF OwnerOK, Known
  <2>6. \A q \in born' \ strayed' : Handled(c, u, q)
    BY <1>1, <2>2, <2>3, <2>4, <2>5 DEF Handled, Untouched
  <2> QED BY <2>1, <2>2, <2>4, <2>6, IndexStep
<1>3. CASE ReadIndex(c)
  <2> PICK L \in SUBSET Record : L = listing
    OBVIOUS
  <2> DEFINE u(step) == [t EXCEPT !.step = step, !.ids = L]
  <2>1. \/ t.step = "lookAdd" /\ Becomes(c, u("list"))
        \/ t.step = "lookRemove" /\ Becomes(c, u("unlist"))
    <3> PICK next \in {<<"lookAdd", "list">>, <<"lookRemove", "unlist">>} :
          t.step = next[1] /\ Becomes(c, u(next[2]))
      BY <1>3 DEF ReadIndex, At
    <3> HIDE DEF u
    <3>1. CASE next = <<"lookAdd", "list">>
      BY <3>1
    <3>2. CASE next = <<"lookRemove", "unlist">>
      BY <3>2
    <3> QED BY <3>1, <3>2
  <2>2. \A step \in Step :
          /\ u(step) \in TaskType /\ u(step).step = step /\ u(step).rec = t.rec
          /\ u(step).drop = t.drop /\ u(step).add = t.add /\ u(step).backup = t.backup
    BY DEF TaskType, Step
  <2> HIDE DEF u
  <2>3. (\A r \in Record : Untouched(r)) /\ UNCHANGED <<born, strayed>>
    BY <1>3 DEF ReadIndex, stores, history, Untouched
  <2>4. \A step \in Step : Own(u(step)) = Own(t)
    BY <2>2 DEF Own
  <2>5. /\ t.step = "lookAdd" => \A r : OwnerOK(t, r) => OwnerOK(u("list"), r)
        /\ t.step = "lookRemove" => \A r : OwnerOK(t, r) => OwnerOK(u("unlist"), r)
    BY <2>2 DEF OwnerOK, Step
  <2> QED BY <2>1, <2>2, <2>3, <2>4, <2>5, IndexQuiet DEF Step
<1>4. CASE AddToIndex(c)
  <2> DEFINE u == [t EXCEPT !.step = "dual"]
  <2>1. u \in TaskType /\ u.step = "dual" /\ u.rec = t.rec /\ u.drop = t.drop /\ u.add = t.add
    BY DEF TaskType, Step
  <2>2. Becomes(c, u) /\ t.step = "list"
    BY <1>4 DEF AddToIndex, Goes, At
  <2> HIDE DEF u
  <2>3. (\A r \in Record : Untouched(r)) /\ UNCHANGED <<born, strayed>>
    BY <1>4 DEF AddToIndex, Untouched
  <2>4. Own(u) = Own(t) /\ \A r : OwnerOK(t, r) => OwnerOK(u, r)
    BY <2>1, <2>2 DEF Own, OwnerOK
  <2> QED BY <2>1, <2>2, <2>3, <2>4, IndexQuiet
<1>5. CASE IndexFails(c) \/ DualWrite(c)
  <2>1. /\ t.step \in {"lookAdd", "list", "dual"} /\ t.rec \in Record /\ t.rec # Nothing
        /\ t.drop = {} /\ t.add = {} /\ t.copy \in Row /\ ~t.copy.hashed
    BY <1>0, <1>5, StoresAssumption DEF IndexFails, DualWrite, At, FormOK
  <2>2. Own(t) = {t.rec}
    BY <2>1, OwnOf
  <2>3. /\ row' = row \/ row' = [row EXCEPT ![t.rec] = t.copy]
        /\ point' = point /\ promised' = promised /\ born' = born /\ strayed' = strayed
        /\ Becomes(c, Idle)
    BY <1>5 DEF IndexFails, DualWrite, SaveRow, Finish, stores, history
  <2>4. \A r \in born \ {t.rec} : Untouched(r)
    BY <2>1, <2>3 DEF Untouched, Rows
  <2>5. t.rec \in born \ strayed => Agree(t.rec)'
    <3>1. SUFFICES ASSUME t.rec \in born \ strayed PROVE Agree(t.rec)'
      OBVIOUS
    <3>2. row[t.rec] = Nothing /\ point[t.rec] = Nothing /\ t.rec \notin promised
      BY <2>1, <2>2, <3>1 DEF IndexInv, RecordOK, OwnerOK
    <3> QED BY <2>1, <2>3, <3>2 DEF Agree, Rows
  <2>6. \A r \in born' \ strayed' : Handled(c, Idle, r)
    BY <1>1, <2>2, <2>3, <2>4, <2>5 DEF Handled
  <2> QED BY <2>3, <2>6, IdleTask, IndexStep
<1> QED BY <1>2, <1>3, <1>4, <1>5

\* promote: the row of a duplicate has its point; the one to write is taken from
\* the others.
LEMMA PromoteIndexed ==
  ASSUME StoresShapes, IndexInv, NEW c \in Client, NEW r \in Record,
         PromoteDuplicate(c, r) \/ PromoteRow(c, r) \/ PromoteRaises(c, r)
  PROVE  IndexInv'
<1> USE DEF StoresShapes, StoreShapes
<1>0. row' = row /\ point' = point /\ born' = born
  BY DEF PromoteDuplicate, PromoteRow, PromoteRaises, stores
<1>1. PromoteDuplicate(c, r) \/ PromoteRow(c, r) => Own(task[c]) = {}
  BY IdleTask DEF PromoteDuplicate, PromoteRow, Begin, Own
\* A save of the row of e, which nobody else works on, or which is strayed.
<1>2. ASSUME NEW e \in Record, NEW u \in TaskType, Becomes(c, u), Own(task[c]) = {},
             u.step = "save", u.rec = e, u.drop = {}, u.add = {}, e # Nothing,
             Shared(c, {e}), promised' = promised
      PROVE  IndexInv'
  <2>1. Own(u) = {e}
    BY <1>2, OwnOf
  <2>2. strayed \subseteq strayed'
    BY <1>2 DEF Shared
  <2>3. e \notin strayed' => \A d \in Client \ {c} : e \notin Own(task[d])
    BY <1>2, SharedStrays
  <2>4. OwnerOK(u, e)'
    BY <1>2 DEF OwnerOK
  <2>5. \A q \in born' \ strayed' : Handled(c, u, q)
    BY <1>0, <1>2, <2>1, <2>3, <2>4 DEF Handled, Untouched
  <2> QED BY <1>0, <1>2, <2>2, <2>5, IndexStep
<1>3. CASE PromoteDuplicate(c, r)
  <2> PICK e \in ByHash(TextOf(r)) :
        \/ Becomes(c, Uncaching(r)) /\ promised' = promised \cup {e} /\ UNCHANGED strayed
        \/ /\ Becomes(c, [Uncaching(r) EXCEPT !.step = "save", !.rec = e, !.copy = row[e]])
           /\ Shared(c, {e}) /\ UNCHANGED promised
    BY <1>3 DEF PromoteDuplicate
  <2>1. e \in Record /\ e # Nothing /\ row[e] # Nothing /\ row[e].hashed
    BY StoresAssumption DEF ByHash, Stored
  <2> PICK copy \in Row : copy = row[e]
    BY <2>1 DEF Rows
  <2> DEFINE u == Uncaching(r)
             v == [Uncaching(r) EXCEPT !.step = "save", !.rec = e, !.copy = copy]
  <2>2. /\ u \in TaskType /\ u.rec = Nothing /\ u.drop = {} /\ u.add = {}
        /\ v \in TaskType /\ v.step = "save" /\ v.rec = e /\ v.drop = {} /\ v.add = {}
    BY <2>1 DEF Uncaching, Idle, TaskType, Step
  <2>3. \/ Becomes(c, u) /\ promised' = promised \cup {e} /\ UNCHANGED strayed
        \/ Becomes(c, v) /\ Shared(c, {e}) /\ UNCHANGED promised
    OBVIOUS
  <2> HIDE DEF u, v
  <2>4. ASSUME Becomes(c, u), promised' = promised \cup {e}, UNCHANGED strayed PROVE IndexInv'
    <3>1. Own(u) = {}
      BY <2>2, OwnOf
    <3>2. \A q \in born' \ strayed' : Handled(c, u, q)
      BY <1>0, <1>1, <1>3, <2>1, <2>4, <3>1 DEF Handled, Untouched
    <3> QED BY <1>0, <2>2, <2>4, <3>2, IndexStep
  <2>5. Becomes(c, v) /\ Shared(c, {e}) /\ UNCHANGED promised => IndexInv'
    BY <1>1, <1>2, <1>3, <2>1, <2>2
  <2> QED BY <2>3, <2>4, <2>5
<1>4. CASE PromoteRow(c, r)
  <2>1. row[r] # Nothing /\ r # Nothing
    BY <1>4, StoresAssumption DEF PromoteRow
  <2> PICK read \in Row : read = row[r]
    BY <2>1 DEF Rows
  <2> DEFINE copy == [read EXCEPT !.hashed = TRUE]
             u == [Uncaching(r) EXCEPT !.step = "save", !.rec = r, !.copy = copy]
  <2>2. copy \in Row
    BY DEF Row
  <2>3. u \in TaskType /\ u.step = "save" /\ u.rec = r /\ u.drop = {} /\ u.add = {}
    BY <2>1, <2>2 DEF Uncaching, Idle, TaskType, Step
  <2>4. Becomes(c, u) /\ Shared(c, {r}) /\ promised' = promised
    BY <1>4 DEF PromoteRow
  <2> HIDE DEF u, copy
  <2> QED BY <1>1, <1>2, <1>4, <2>1, <2>3, <2>4
<1>5. CASE PromoteRaises(c, r)
  BY <1>5, IndexAside DEF PromoteRaises, Untouched, stores, history
<1> QED BY <1>3, <1>4, <1>5

\* The end of a promotion and invalidate_session leave rows and points alone.
LEMMA UncacheIndexed ==
  ASSUME StoresShapes, IndexInv, NEW c \in Client,
         \/ Uncache(c) \/ RemoveFromIndex(c) \/ UncacheFails(c)
         \/ Invalidate(c) \/ DropSession(c)
  PROVE  IndexInv'
<1> PICK t \in TaskType : t = task[c]
  BY TaskFacts
<1>0. FormOK(t, born, cached)
  BY TaskFacts
<1>1. Own(Idle) = {}
  BY IdleTask DEF Own
<1>2. (\A r : Untouched(r)) /\ UNCHANGED <<born, strayed>>
  BY DEF Uncache, RemoveFromIndex, UncacheFails, Invalidate, DropSession, Untouched, stores,
     history
<1>3. CASE Uncache(c)
  <2> DEFINE u == [t EXCEPT !.step = "lookRemove"]
  <2>1. u \in TaskType /\ u.step = "lookRemove" /\ u.rec = t.rec /\ u.drop = t.drop
        /\ u.add = t.add
    BY DEF TaskType, Step
  <2>2. Becomes(c, u) /\ t.step = "uncache"
    BY <1>3 DEF Uncache, Goes, At
  <2> HIDE DEF u
  <2>3. Own(u) = Own(t) /\ \A r : OwnerOK(t, r) => OwnerOK(u, r)
    BY <2>1, <2>2 DEF Own, OwnerOK
  <2> QED BY <1>2, <2>1, <2>2, <2>3, IndexQuiet
<1>4. CASE Invalidate(c)
  <2> PICK L \in SUBSET Record : L = listing
    BY DEF StoresShapes, StoreShapes
  <2> DEFINE u == [Idle EXCEPT !.step = "drop", !.ids = L]
  <2>1. u \in TaskType /\ u.rec = Nothing /\ u.drop = {} /\ u.add = {}
    BY DEF Idle, TaskType, Step
  <2>2. Becomes(c, u) /\ task[c] = Idle
    BY <1>4 DEF Invalidate, Begin
  <2> HIDE DEF u
  <2>3. Own(u) = {}
    BY <2>1, OwnOf
  <2> QED BY <1>1, <1>2, <2>1, <2>2, <2>3, IndexQuiet
\* The task is over; its record, if it has one, agrees.
<1>5. CASE RemoveFromIndex(c) \/ UncacheFails(c) \/ DropSession(c)
  <2>1. Becomes(c, Idle) /\ t.step \in {"uncache", "lookRemove", "unlist", "drop"}
    BY <1>5 DEF RemoveFromIndex, UncacheFails, DropSession, Finish, At
  <2>2. t.step = "drop" => Own(t) = {}
    BY <1>0, OwnOf DEF FormOK
  <2>3. ASSUME NEW r \in born' \ strayed' PROVE Handled(c, Idle, r)
    <3>1. RecordOK(r) /\ Untouched(r) /\ r \in born
      BY <1>2 DEF IndexInv
    <3>2. CASE r \in Own(t)
      <4>1. Agree(r)
        BY <2>1, <2>2, <3>1, <3>2 DEF RecordOK, OwnerOK
      <4>2. Agree(r)'
        BY <3>1, <4>1, AgreeStays
      <4> QED BY <1>1, <3>2, <4>2 DEF Handled
    <3>3. CASE r \notin Own(t)
      BY <1>1, <3>1, <3>3 DEF Handled
    <3> QED BY <3>2, <3>3
  <2> QED BY <1>2, <2>1, <2>3, IdleTask, IndexStep
<1> QED BY <1>3, <1>4, <1>5

\* delete, reset and edit: the records changed are taken from the others until
\* their points are done.
LEMMA EditIndexed ==
  ASSUME StoresShapes, IndexInv, NEW c \in Client,
         \/ \E S \in SUBSET Record : DeleteRecords(c, S)
         \/ \E r \in Record, x \in Content : Edit(c, r, x)
  PROVE  IndexInv'
<1> USE DEF StoresShapes, StoreShapes
<1>1. Own(task[c]) = {} /\ point' = point /\ born' = born /\ strayed \subseteq strayed'
  BY IdleTask DEF DeleteRecords, Edit, Begin, Own, Shared
<1>2. ASSUME NEW S \in SUBSET Record, DeleteRecords(c, S) PROVE IndexInv'
  <2> DEFINE u == Indexing(Dropping(S))
  <2>1. Becomes(c, u)
    BY <1>2 DEF DeleteRecords, Dropping
  <2>2. u \in TaskType /\ u.step \in {"unindex", "reindex", "idle"} /\ u.drop = S
        /\ u.add = {} /\ u.rec = Nothing
    BY DropTask
  <2> HIDE DEF u
  <2>3. Own(u) = S
    BY <2>2, OwnOf
  <2>4. /\ \A r \in Record : row'[r] = IF r \in S THEN Nothing ELSE row[r]
        /\ promised' = promised \ S /\ Shared(c, S)
    BY <1>2 DEF DeleteRecords, DropRows
  <2>5. ASSUME NEW r \in born' \ strayed' PROVE Handled(c, u, r)
    <3>1. CASE r \in S
      <4>1. \A d \in Client \ {c} : r \notin Own(task[d])
        BY <2>4, <3>1, SharedStrays
      <4>2. OwnerOK(u, r)'
        BY <2>2, <2>4, <3>1 DEF OwnerOK
      <4> QED BY <2>3, <3>1, <4>1, <4>2 DEF Handled
    <3>2. CASE r \notin S
      <4>1. r \in born /\ r \in Record
        BY <1>1
      <4> QED BY <1>1, <2>3, <2>4, <3>2, <4>1 DEF Handled, Untouched
    <3> QED BY <3>1, <3>2
  <2> QED BY <1>1, <2>1, <2>2, <2>5, IndexStep
<1>3. ASSUME NEW r \in Record, NEW x \in Content, Edit(c, r, x) PROVE IndexInv'
  <2>1. row' \in Rows /\ row'[r] # Nothing /\ r \in born
        /\ \A s \in Record \ {r} : row'[s] = row[s]
    <3>1. StoresShapes'
      BY <1>3, EditShapes
    <3>2. row \in Rows /\ row[r] # Nothing
      BY <1>3 DEF Edit, Stored
    <3>3. row'[r] = [row[r] EXCEPT !.text = x, !.hashed = TRUE] /\ row[r] \in Row
          /\ \A s \in Record \ {r} : row'[s] = row[s]
      BY <1>3, <3>2 DEF Edit, UpdateRow, Rows
    <3>4. row'[r] # Nothing
      <4> PICK read \in Row : read = row[r]
        BY <3>3
      <4>1. [read EXCEPT !.text = x, !.hashed = TRUE] \in Row
        BY DEF Row
      <4> QED BY <3>3, <4>1, StoresAssumption
    <3> QED BY <3>1, <3>2, <3>3, <3>4 DEF Known
  <2> PICK rows \in Rows : rows = row' /\ rows[r] # Nothing
    BY <2>1
  <2> DEFINE u == Indexing(Adding(r, rows))
  <2>2. Becomes(c, u)
    BY <1>3 DEF Edit, Adding
  <2>3. u \in TaskType /\ u.step = "reindex" /\ u.drop = {} /\ u.add = {r} /\ u.backup = rows
        /\ u.rec = Nothing
    BY AddTask
  <2> HIDE DEF u
  <2>4. Own(u) = {r}
    BY <2>3, OwnOf
  <2>5. Shared(c, {r}) /\ promised' = promised
    BY <1>3 DEF Edit
  <2>6. r \notin strayed' => \A d \in Client \ {c} : r \notin Own(task[d])
    BY <2>5, SharedStrays
  <2>7. OwnerOK(u, r)'
    BY <2>1, <2>3 DEF OwnerOK
  <2>8. \A q \in born \ {r} : Untouched(q)
    BY <1>1, <2>1, <2>5 DEF Untouched
  <2>9. \A q \in born' \ strayed' : Handled(c, u, q)
    BY <1>1, <2>4, <2>6, <2>7, <2>8 DEF Handled
  <2> QED BY <1>1, <2>2, <2>3, <2>9, IndexStep
<1> QED BY <1>2, <1>3

\* A restore takes all records, and the points it does not hand over are none.
LEMMA SnapshotIndexed ==
  ASSUME StoresShapes, IndexInv, NEW c \in Client,
         TakeSnapshot(c) \/ Restore(c) \/ Replace(c)
  PROVE  IndexInv'
<1> USE DEF StoresShapes, StoreShapes
<1>1. CASE TakeSnapshot(c)
  BY <1>1, IndexAside DEF TakeSnapshot, Untouched, history
<1>2. CASE Restore(c)
  <2> PICK rows \in Rows : rows = snapshot
    BY <1>2 DEF Restore
  <2> DEFINE u == [Idle EXCEPT !.step = "replace", !.backup = rows]
  <2>1. u \in TaskType /\ u.rec = Nothing /\ u.drop = {} /\ u.add = {}
    BY DEF Idle, TaskType, Step
  <2>2. Becomes(c, u) /\ strayed \subseteq strayed' /\ born' = born /\ Own(task[c]) = {}
        /\ \A r : Untouched(r)
    BY <1>2, IdleTask DEF Restore, Shared, Begin, Untouched, Own
  <2> HIDE DEF u
  <2>3. Own(u) = {}
    BY <2>1, OwnOf
  <2>4. \A r \in born' \ strayed' : Handled(c, u, r)
    BY <2>2, <2>3 DEF Handled
  <2> QED BY <2>1, <2>2, <2>4, IndexStep
<1>3. CASE Replace(c)
  <2> PICK t \in TaskType : t = task[c]
    BY TaskFacts
  <2>1. FormOK(t, born, cached) /\ t.step = "replace"
    BY <1>3, TaskFacts DEF Replace, At
  <2>2. t.backup \in Rows /\ t.rec = Nothing /\ t.session = Nothing /\ t.drop = {} /\ t.add = {}
    BY <2>1 DEF FormOK
  <2> PICK gone \in SUBSET Record : gone = Stored
    BY DEF Stored
  <2> DEFINE kept == {r \in Record : t.backup[r] # Nothing}
             v == [t EXCEPT !.drop = gone, !.add = kept]
             u == Indexing(v)
  <2>3. /\ row' = t.backup /\ promised' = promised \cap kept /\ Becomes(c, u)
        /\ born' = born /\ point' = point /\ Shared(c, born)
    BY <1>3 DEF Replace, ReplaceRows
  <2>4. v \in TaskType /\ v.rec = Nothing /\ v.session = Nothing /\ v.ids = t.ids
        /\ v.drop = gone /\ v.add = kept /\ v.backup = t.backup
    BY <2>2 DEF TaskType
  <2>5. \A r \in Record : r \in kept <=> row'[r] # Nothing
    BY <2>3
  <2> HIDE DEF v, kept
  <2>6. \A q \in v.add : v.backup \in Rows /\ v.backup[q] # Nothing
    BY <2>2, <2>4 DEF kept
  <2>7. v.ids \subseteq Record /\ v.drop \subseteq Record /\ v.add \subseteq Record
    BY <2>4 DEF kept, TaskType
  <2>8. /\ u \in TaskType /\ u.rec = Nothing /\ u.drop = gone /\ u.add = kept
        /\ u # Idle => u.backup = t.backup
        /\ u.step \in {"unindex", "reindex", "idle"}
    <3>1. /\ Indexing(v) \in TaskType /\ Indexing(v).rec = Nothing
          /\ Indexing(v) # Idle => /\ Indexing(v).drop = v.drop /\ Indexing(v).add = v.add
                                  /\ Indexing(v).backup = v.backup
          /\ Indexing(v) = Idle => v.drop = {} /\ v.add = {}
      BY <2>4, <2>6, <2>7, IndexingForm
    <3>2. Indexing(v).step \in {"unindex", "reindex", "idle"}
      BY <2>4, IndexingStep
    <3> QED BY <2>4, <3>1, <3>2, IdleTask
  <2> HIDE DEF u
  <2>9. Own(u) = gone \cup kept /\ Own(t) = {}
    BY <2>2, <2>8, OwnOf
  <2>10. ASSUME NEW r \in born' \ strayed' PROVE Handled(c, u, r)
    <3>1. RecordOK(r) /\ r \in born /\ r \in Record
      BY <2>3 DEF Shared, IndexInv
    <3>2. \A d \in Client \ {c} : r \notin Own(task[d])
      BY <2>3, <3>1, SharedStrays
    <3>3. Agree(r)
      BY <2>9, <3>1, <3>2 DEF RecordOK
    <3>4. ASSUME r \in Own(u) PROVE OwnerOK(u, r)'
      <4>1. CASE r \in kept
        <5>1. row'[r] # Nothing /\ row'[r].text = t.backup[r].text
          BY <2>3, <2>5, <3>1, <4>1
        <5>2. u # Idle
          BY <2>8, <4>1, IdleTask
        <5> QED BY <2>8, <4>1, <5>1, <5>2 DEF OwnerOK
      <4>2. CASE r \notin kept
        BY <2>3, <2>5, <2>8, <3>1, <4>2 DEF OwnerOK
      <4> QED BY <4>1, <4>2
    <3>5. ASSUME r \notin Own(u) PROVE Agree(r)'
      BY <2>3, <2>5, <2>9, <3>1, <3>3, <3>5 DEF Agree, Stored
    <3> QED BY <3>2, <3>4, <3>5 DEF Handled
  <2>11. strayed \subseteq strayed'
    BY <2>3 DEF Shared
  <2> QED BY <2>3, <2>8, <2>10, <2>11, IndexStep
<1> QED BY <1>1, <1>2, <1>3

\* One point of a deletion or a restore.
LEMMA PointsIndexed ==
  ASSUME StoresShapes, IndexInv, NEW c \in Client, Unindex(c) \/ Reindex(c)
  PROVE  IndexInv'
<1> USE DEF StoresShapes, StoreShapes
<1> PICK t \in TaskType : t = task[c]
  BY TaskFacts
<1>0. FormOK(t, born, cached) /\ t.step \in {"unindex", "reindex"}
  BY TaskFacts DEF Unindex, Reindex, At
<1>1. /\ t.rec = Nothing /\ t.session = Nothing /\ t.drop \subseteq born /\ t.add \subseteq born
      /\ \A q \in t.add : t.backup \in Rows /\ t.backup[q] # Nothing
  BY <1>0 DEF FormOK
<1>2. Own(t) = t.drop \cup t.add
  BY <1>1, OwnOf
<1>3. row' = row /\ promised' = promised /\ born' = born
  BY DEF Unindex, Reindex
\* The task goes on with what is left; only the record done with can change.
<1>4. ASSUME NEW v \in TaskType, Becomes(c, Indexing(v)), NEW r \in Own(t),
             v.rec = Nothing, v.session = Nothing, v.backup = t.backup,
             v.drop \subseteq t.drop, v.add \subseteq t.add,
             t.add \subseteq v.add \cup {r}, t.drop \subseteq v.drop \cup {r},
             strayed \subseteq strayed',
             \A q \in Record \ {r} : point'[q] = point[q],
             r \notin strayed' => (r \in v.add => r \in t.add) /\ (r \notin v.drop \cup v.add => Agree(r)'),
             r \in v.drop \cup v.add => (r \in v.add <=> r \in t.add)
      PROVE  IndexInv'
  <2> DEFINE u == Indexing(v)
  <2>1. \A q \in v.add : v.backup \in Rows /\ v.backup[q] # Nothing
    BY <1>1, <1>4
  <2>2. v.ids \subseteq Record /\ v.drop \subseteq Record /\ v.add \subseteq Record
    BY DEF TaskType
  <2>3. /\ u \in TaskType /\ u.rec = Nothing /\ u.drop = v.drop /\ u.add = v.add
        /\ u # Idle => u.backup = t.backup
        /\ u.step \in {"unindex", "reindex", "idle"}
    <3>1. /\ Indexing(v) \in TaskType /\ Indexing(v).rec = Nothing
          /\ Indexing(v) # Idle => /\ Indexing(v).drop = v.drop /\ Indexing(v).add = v.add
                                  /\ Indexing(v).backup = v.backup
          /\ Indexing(v) = Idle => v.drop = {} /\ v.add = {}
      BY <1>4, <2>1, <2>2, IndexingForm
    <3>2. Indexing(v).step \in {"unindex", "reindex", "idle"}
      BY <1>4, IndexingStep
    <3> QED BY <1>4, <3>1, <3>2, IdleTask
  <2>4. Becomes(c, u)
    BY <1>4
  <2> HIDE DEF u
  <2>5. Own(u) = v.drop \cup v.add
    BY <2>3, OwnOf
  <2>6. ASSUME NEW q \in born' \ strayed' PROVE Handled(c, u, q)
    <3>1. RecordOK(q) /\ q \in born /\ q \in Record
      BY <1>3, <1>4 DEF IndexInv
    <3>2. ASSUME q \in Own(u) PROVE q \in Own(t) /\ OwnerOK(u, q)'
      <4>1. q \in Own(t) /\ (q \in u.add <=> q \in t.add)
        BY <1>2, <1>4, <2>3, <2>5, <3>2
      <4>2. OwnerOK(t, q)
        BY <3>1, <4>1 DEF RecordOK
      <4>3. q \in u.add => u.backup = t.backup
        BY <2>3, IdleTask
      <4>4. IF q \in t.add THEN row'[q] # Nothing /\ row'[q].text = t.backup[q].text
            ELSE row'[q] = Nothing /\ q \notin promised'
        BY <1>0, <1>3, <4>2 DEF OwnerOK
      <4> QED BY <2>3, <4>1, <4>3, <4>4 DEF OwnerOK
    <3>3. ASSUME q \in Own(t), q \notin Own(u) PROVE Agree(q)'
      BY <1>2, <1>4, <2>5, <2>6, <3>3
    <3>4. ASSUME q \notin Own(t) PROVE Handled(c, u, q)
      <4>1. Untouched(q)
        BY <1>3, <1>4, <3>1, <3>4 DEF Untouched
      <4>2. q \notin Own(u)
        BY <3>2, <3>4
      <4> QED BY <3>1, <3>4, <4>1, <4>2 DEF Handled
    <3> QED BY <3>2, <3>3, <3>4 DEF Handled
  <2> QED BY <1>3, <1>4, <2>3, <2>4, <2>6, IndexStep
<1>5. CASE Unindex(c)
  <2>1. t.step = "unindex"
    BY <1>5 DEF Unindex, At
  <2> PICK r \in t.drop :
        /\ \/ point' = [point EXCEPT ![r] = Nothing] /\ UNCHANGED strayed
           \/ UNCHANGED point /\ strayed' = strayed \cup {r}
        /\ Becomes(c, Indexing([t EXCEPT !.drop = @ \ {r}]))
    BY <1>5 DEF Unindex
  <2> DEFINE v == [t EXCEPT !.drop = @ \ {r}]
  <2>2. v \in TaskType /\ v.rec = Nothing /\ v.session = Nothing /\ v.backup = t.backup
        /\ v.drop = t.drop \ {r} /\ v.add = t.add /\ Becomes(c, Indexing(v))
    BY <1>1 DEF TaskType
  <2> HIDE DEF v
  <2>3. r \in born /\ r \in Record
    BY <1>1
  <2>4. ASSUME r \notin strayed', r \notin t.add PROVE Agree(r)'
    <3>1. point'[r] = Nothing /\ r \notin strayed
      BY <2>3, <2>4
    <3>2. row[r] = Nothing /\ r \notin promised
      BY <1>0, <1>2, <2>3, <2>4, <3>1 DEF IndexInv, RecordOK, OwnerOK
    <3> QED BY <1>3, <3>1, <3>2 DEF Agree
  <2>5. strayed \subseteq strayed' /\ \A q \in Record \ {r} : point'[q] = point[q]
    BY <2>3
  <2>6. r \in Own(t)
    BY <1>2
  <2> QED BY <1>4, <2>2, <2>4, <2>5, <2>6
<1>6. CASE Reindex(c)
  <2>1. t.step = "reindex" /\ t.drop = {}
    BY <1>0, <1>6 DEF Reindex, At, FormOK
  <2> PICK r \in t.add :
        /\ \/ point' = [point EXCEPT ![r] = t.backup[r].text] /\ UNCHANGED strayed
           \/ UNCHANGED point /\ strayed' = strayed \cup {r}
        /\ Becomes(c, Indexing([t EXCEPT !.add = @ \ {r}]))
    BY <1>6 DEF Reindex
  <2> DEFINE v == [t EXCEPT !.add = @ \ {r}]
  <2>2. v \in TaskType /\ v.rec = Nothing /\ v.session = Nothing /\ v.backup = t.backup
        /\ v.drop = t.drop /\ v.add = t.add \ {r} /\ Becomes(c, Indexing(v))
    BY <1>1 DEF TaskType
  <2> HIDE DEF v
  <2>3. r \in born /\ r \in Record
    BY <1>1
  <2>4. ASSUME r \notin strayed' PROVE Agree(r)'
    <3>1. point'[r] = t.backup[r].text /\ r \notin strayed
      BY <2>3, <2>4
    <3>2. row[r] # Nothing /\ row[r].text = t.backup[r].text /\ row[r] \in Row
      BY <1>2, <2>1, <2>3, <3>1 DEF IndexInv, RecordOK, OwnerOK, Rows
    <3>3. row[r].text # Nothing
      BY <3>2, StoresAssumption DEF Row
    <3> QED BY <1>3, <3>1, <3>2, <3>3 DEF Agree
  <2>5. strayed \subseteq strayed' /\ \A q \in Record \ {r} : point'[q] = point[q]
    BY <2>3
  <2>6. r \in Own(t)
    BY <1>2
  <2> QED BY <1>4, <2>1, <2>2, <2>4, <2>5, <2>6
<1> QED BY <1>5, <1>6

\* Every step keeps IndexInv.
LEMMA IndexKept == StoresShapes /\ IndexInv /\ [StoresNext]_storesVars => IndexInv'
<1> SUFFICES ASSUME StoresShapes, IndexInv, [StoresNext]_storesVars PROVE IndexInv'
  OBVIOUS
<1>1. CASE UNCHANGED storesVars
  BY <1>1, IndexAside DEF storesVars, stores, history, Untouched
<1>2. ASSUME NEW c \in Client, OperationBegins(c) PROVE IndexInv'
  <2>1. ASSUME NEW x \in Content, SaveDuplicate(c, x) PROVE IndexInv'
    BY <2>1, IndexAside DEF SaveDuplicate, ByHash, Stored, Untouched, stores
  <2> QED BY <1>2, <2>1, SaveIndexed, SessionIndexed, PromoteIndexed, UncacheIndexed,
             EditIndexed, SnapshotIndexed DEF OperationBegins
<1>3. ASSUME NEW c \in Client, OperationStep(c) PROVE IndexInv'
  BY <1>3, SaveIndexed, SessionIndexed, UncacheIndexed, SnapshotIndexed, PointsIndexed
     DEF OperationStep
<1>4. ASSUME (\E r \in Record : Age(r) \/ SessionKeyExpires(r)) \/ IndexExpires PROVE IndexInv'
  <2>1. UNCHANGED <<task, born, strayed>> /\ \A r : Untouched(r)
    BY <1>4 DEF Age, SessionKeyExpires, IndexExpires, Untouched, stores, history
  <2> QED BY <2>1, IndexAside
<1>5. CASE Collect
  <2>1. /\ UNCHANGED <<task, born>> /\ strayed \subseteq strayed'
        /\ \A r \in born \ strayed' : Untouched(r)
    BY <1>5 DEF Collect, DropRows, Untouched, StoresShapes, StoreShapes
  <2> QED BY <2>1, IndexAside
<1> QED BY <1>1, <1>2, <1>3, <1>4, <1>5 DEF StoresNext

(***************************************************************************)
(* The stores are kept.                                                    *)
(***************************************************************************)

StoresInv ==
  StoresShapes /\ Bounds /\ PersistentKept /\ UniqueInv /\ ListedInv /\ IndexInv

\* The invariant holds in the initial states.
LEMMA StoresBegin == StoresInit => StoresInv
<1> SUFFICES ASSUME StoresInit PROVE StoresInv
  OBVIOUS
<1> USE DEF StoresInit
<1>1. StoreShapes
  BY DEF StoreShapes, Rows, Known
<1>2. TaskShapes
  BY IdleTask, IdleForm DEF TaskShapes
<1>3. Bounds
  BY StoresAssumption DEF Bounds
<1>4. PersistentKept
  BY DEF PersistentKept
<1>5. UniqueInv
  BY IdleTask DEF UniqueInv, Tidy, Alone
<1>6. ListedInv
  BY IdleTask DEF ListedInv, Reading
<1>7. IndexInv
  BY DEF IndexInv
<1> QED BY <1>1, <1>2, <1>3, <1>4, <1>5, <1>6, <1>7 DEF StoresInv, StoresShapes

\* Every step keeps the invariant.
LEMMA StoresStay == StoresInv /\ [StoresNext]_storesVars => StoresInv'
BY ShapesKept, BoundsKept, PersistentStays, UniqueKept, ListedKept, IndexKept DEF StoresInv

\* What the runs check follows.
LEMMA StoresPromise == StoresInv => MemoryKept
<1> SUFFICES ASSUME StoresInv PROVE MemoryKept
  OBVIOUS
<1>1. StoresTypeOK
  BY ShapesTyped DEF StoresInv
<1>2. OneRowPerContent
  BY DEF OneRowPerContent, StoresInv, UniqueInv, Tidy, Stored
<1>3. SessionListed
  BY DEF SessionListed, StoresInv, ListedInv
<1>4. PersistentKept
  BY DEF StoresInv
<1>5. IndexAgrees
  <2> SUFFICES ASSUME NEW r \in born \ strayed, ~Pending(r) PROVE Agree(r)
    BY DEF IndexAgrees, Agree
  <2>1. ASSUME NEW c \in Client PROVE r \notin Own(task[c])
    <3>1. Own(task[c]) \subseteq born /\ r \notin Holds(c)
      BY OwnBorn DEF Pending, StoresInv
    <3> QED BY <3>1 DEF Holds, Own
  <2> QED BY <2>1 DEF StoresInv, IndexInv, RecordOK
<1> QED BY <1>1, <1>2, <1>3, <1>4, <1>5 DEF MemoryKept, StoresSound

\* A record stored for good stays in PostgreSQL, a content has one row, a
\* session record is listed, and a point is that of its row, for any number of
\* records, contents, operations and faults, but for the overlaps, failures and
\* expiries that strayed, rivalled and misfiled name.
THEOREM MemoryIsKept == StoresSpec => []MemoryKept
<1>1. StoresSpec => []StoresInv
  BY StoresBegin, StoresStay, PTL DEF StoresSpec
<1> QED BY <1>1, StoresPromise, PTL

=============================================================================
