------------------------ MODULE FreshnessQueueProofs ------------------------
(***************************************************************************)
(* Theorems about FreshnessQueue, for any number of workers, jobs and      *)
(* workspaces and any budget of faults, lapses and stops.                  *)
(***************************************************************************)
EXTENDS FreshnessQueue, SequenceTheorems, TLAPS

-----------------------------------------------------------------------------
(* The lists of Redis, as the set of places a job is at.                   *)

\* No job is on two lists, or twice on one.
OnePlace(ls) ==
  /\ \A k \in Key : IsInjective(ls[k])
  /\ \A k, l \in Key, j \in Job :
       Contains(ls[k], j) /\ Contains(ls[l], j) => k = l

\* The members of a sequence that an Append, a Tail or an LREM leaves.
LEMMA AppendMembers ==
  ASSUME NEW s \in Seq(Job), NEW j \in Job
  PROVE  /\ Append(s, j) \in Seq(Job)
         /\ Append(s, j) # <<>>
         /\ \A x : Contains(Append(s, j), x) <=> Contains(s, x) \/ x = j
         /\ IsInjective(s) /\ ~Contains(s, j) => IsInjective(Append(s, j))
         /\ s # <<>> => Head(Append(s, j)) = Head(s)
  BY DEF Contains, IsInjective

\* What Tail leaves of the members of a list.
LEMMA TailMembers ==
  ASSUME NEW s \in Seq(Job), s # <<>>
  PROVE  /\ Head(s) \in Job
         /\ Tail(s) \in Seq(Job)
         /\ Contains(s, Head(s))
         /\ \A x : Contains(s, x) => Contains(Tail(s), x) \/ x = Head(s)
         /\ \A x : Contains(Tail(s), x) => Contains(s, x)
         /\ IsInjective(s) => IsInjective(Tail(s)) /\ ~Contains(Tail(s), Head(s))
  <1>1. Len(s) \in Nat \ {0} /\ DOMAIN s = 1..Len(s) /\ Head(s) = s[1]
    BY EmptySeq, LenProperties
  <1>2. /\ Tail(s) \in Seq(Job) /\ Head(s) \in Job
        /\ Len(Tail(s)) = Len(s) - 1
        /\ DOMAIN Tail(s) = 1..Len(Tail(s))
        /\ \A i \in 1..Len(Tail(s)) : Tail(s)[i] = s[i + 1]
    BY HeadTailProperties, LenProperties
  <1>3. \A x : Contains(s, x) => Contains(Tail(s), x) \/ x = Head(s)
    <2> SUFFICES ASSUME NEW x, NEW i \in 1..Len(s), s[i] = x, i # 1
                 PROVE  \E n \in 1..Len(Tail(s)) : Tail(s)[n] = x
      BY <1>1 DEF Contains
    <2>1. i - 1 \in 1..Len(Tail(s)) /\ Tail(s)[i - 1] = x
      BY <1>1, <1>2
    <2> QED BY <2>1
  <1>4. \A x : Contains(Tail(s), x) => Contains(s, x)
    <2> SUFFICES ASSUME NEW x, NEW i \in 1..Len(Tail(s)), Tail(s)[i] = x
                 PROVE  \E n \in 1..Len(s) : s[n] = x
      BY DEF Contains
    <2>1. i + 1 \in 1..Len(s) /\ s[i + 1] = x
      BY <1>1, <1>2
    <2> QED BY <2>1
  <1>5. ASSUME IsInjective(s)
        PROVE  IsInjective(Tail(s)) /\ ~Contains(Tail(s), Head(s))
    BY <1>1, <1>2, <1>5 DEF IsInjective, Contains
  <1> QED BY <1>1, <1>2, <1>3, <1>4, <1>5 DEF Contains

\* What RemoveAt of the sequence library returns.
LEMMA RemoveAtElements ==
  ASSUME NEW s \in Seq(Job), NEW i \in 1..Len(s)
  PROVE  /\ RemoveAt(s, i) \in Seq(Job)
         /\ Len(RemoveAt(s, i)) = Len(s) - 1
         /\ \A n \in 1..(Len(s) - 1) :
              RemoveAt(s, i)[n] = IF n < i THEN s[n] ELSE s[n + 1]
  <1>1. /\ Len(s) \in Nat
        /\ \A n \in 1..Len(s) : s[n] \in Job
    BY LenProperties, ElementOfSeq
  <1> DEFINE a == SubSeq(s, 1, i - 1)
             b == SubSeq(s, i + 1, Len(s))
             r == a \o b
  <1>2. /\ a \in Seq(Job)
        /\ Len(a) = i - 1
        /\ \A n \in 1..(i - 1) : a[n] = s[n]
    <2>1. i - 1 \in Int /\ 1 \in Int /\ \A n \in 1..(i - 1) : s[n] \in Job
      BY <1>1
    <2>2. /\ a \in Seq(Job)
          /\ Len(a) = IF 1 <= i - 1 THEN (i - 1) - 1 + 1 ELSE 0
          /\ \A n \in 1..((i - 1) - 1 + 1) : a[n] = s[1 + n - 1]
      BY <2>1, SubSeqProperties
    <2> HIDE DEF a
    <2>3. (i - 1) - 1 + 1 = i - 1 /\ \A n \in 1..(i - 1) : 1 + n - 1 = n
      BY <1>1
    <2>4. Len(a) = i - 1
      BY <1>1, <2>2
    <2> QED BY <2>2, <2>3, <2>4
  <1>3. /\ b \in Seq(Job)
        /\ Len(b) = Len(s) - i
        /\ \A n \in 1..(Len(s) - i) : b[n] = s[i + n]
    <2>1. /\ i + 1 \in Int /\ Len(s) \in Int
          /\ \A n \in (i + 1)..Len(s) : s[n] \in Job
      BY <1>1
    <2>2. /\ b \in Seq(Job)
          /\ Len(b) = IF i + 1 <= Len(s) THEN Len(s) - (i + 1) + 1 ELSE 0
          /\ \A n \in 1..(Len(s) - (i + 1) + 1) : b[n] = s[(i + 1) + n - 1]
      BY <2>1, SubSeqProperties
    <2> HIDE DEF b
    <2>3. /\ Len(s) - (i + 1) + 1 = Len(s) - i
          /\ \A n \in 1..(Len(s) - i) : (i + 1) + n - 1 = i + n
      BY <1>1
    <2>4. Len(b) = Len(s) - i
      BY <1>1, <2>2
    <2> QED BY <2>2, <2>3, <2>4
  <1>4. /\ RemoveAt(s, i) = r
        /\ r \in Seq(Job)
        /\ Len(r) = Len(a) + Len(b)
        /\ \A n \in 1..(Len(a) + Len(b)) :
             r[n] = IF n <= Len(a) THEN a[n] ELSE b[n - Len(a)]
    <2>1. RemoveAt(s, i) = r
      BY DEF RemoveAt
    <2> HIDE DEF a, b
    <2> QED BY <1>2, <1>3, <2>1, ConcatProperties
  <1> HIDE DEF a, b, r
  <1>5. Len(a) + Len(b) = Len(s) - 1
    BY <1>1, <1>2, <1>3
  <1>6. \A n \in 1..(Len(s) - 1) : r[n] = IF n <= i - 1 THEN a[n] ELSE b[n - (i - 1)]
    BY <1>2, <1>4, <1>5
  <1>7. ASSUME NEW n \in 1..(Len(s) - 1)
        PROVE  r[n] = IF n < i THEN s[n] ELSE s[n + 1]
    <2>1. CASE n < i
      <3>1. n <= i - 1 /\ n \in 1..(i - 1)
        BY <1>1, <2>1
      <3> QED BY <1>2, <1>6, <2>1, <3>1
    <2>2. CASE ~(n < i)
      <3>1. /\ ~(n <= i - 1)
            /\ n - (i - 1) \in 1..(Len(s) - i)
            /\ i + (n - (i - 1)) = n + 1
        BY <1>1, <2>2
      <3>2. b[n - (i - 1)] = s[i + (n - (i - 1))]
        BY <1>3, <3>1
      <3> QED BY <1>6, <2>2, <3>1, <3>2
    <2> QED BY <2>1, <2>2
  <1> QED BY <1>4, <1>5, <1>7

\* LREM takes the one occurrence of an entry out and keeps the rest.
LEMMA RemoveMembers ==
  ASSUME NEW s \in Seq(Job), NEW j, IsInjective(s)
  PROVE  /\ LRem(s, j) \in Seq(Job)
         /\ IsInjective(LRem(s, j))
         /\ \A x : Contains(LRem(s, j), x) <=> Contains(s, x) /\ x # j
  <1>1. CASE ~Contains(s, j)
    BY <1>1 DEF LRem
  <1>2. CASE Contains(s, j)
    <2>1. Len(s) \in Nat /\ DOMAIN s = 1..Len(s)
      BY LenProperties
    <2>2. PICK i \in 1..Len(s) : s[i] = j /\ LRem(s, j) = RemoveAt(s, i)
      <3>1. \E i \in 1..Len(s) : s[i] = j
        BY <1>2 DEF Contains
      <3>2. PICK i \in 1..Len(s) : s[i] = j /\ i = CHOOSE n \in 1..Len(s) : s[n] = j
        BY <3>1
      <3> QED BY <1>2, <3>2 DEF LRem
    <2>3. PICK r : r = RemoveAt(s, i)
      OBVIOUS
    <2>4. /\ r \in Seq(Job) /\ Len(r) = Len(s) - 1 /\ DOMAIN r = 1..(Len(s) - 1)
          /\ \A n \in 1..(Len(s) - 1) : r[n] = IF n < i THEN s[n] ELSE s[n + 1]
      BY <2>3, RemoveAtElements, LenProperties
    <2>5. IsInjective(r)
      <3> DEFINE f(n) == IF n < i THEN n ELSE n + 1
      <3>1. \A n \in 1..(Len(s) - 1) : f(n) \in 1..Len(s) /\ r[n] = s[f(n)]
        BY <2>1, <2>4
      <3>2. \A m, n \in 1..(Len(s) - 1) : f(m) = f(n) => m = n
        BY <2>1
      <3> HIDE DEF f
      <3>3. \A m, n \in 1..Len(s) : s[m] = s[n] => m = n
        BY <2>1 DEF IsInjective
      <3> QED BY <2>4, <3>1, <3>2, <3>3 DEF IsInjective
    <2>6. ASSUME NEW x, Contains(r, x)
          PROVE  Contains(s, x) /\ x # j
      BY <2>1, <2>2, <2>4, <2>6 DEF IsInjective, Contains
    <2>7. ASSUME NEW x, Contains(s, x), x # j
          PROVE  Contains(r, x)
      <3>1. PICK n \in 1..Len(s) : s[n] = x
        BY <2>7 DEF Contains
      <3>2. CASE n < i
        <4>1. n \in 1..(Len(s) - 1) /\ r[n] = x
          BY <2>1, <2>4, <3>1, <3>2
        <4> QED BY <2>4, <4>1 DEF Contains
      <3>3. CASE n > i
        <4>1. n - 1 \in 1..(Len(s) - 1) /\ r[n - 1] = x
          BY <2>1, <2>4, <3>1, <3>3
        <4> QED BY <2>4, <4>1 DEF Contains
      <3> QED BY <2>1, <2>2, <2>7, <3>1, <3>2, <3>3
    <2> QED BY <2>2, <2>3, <2>4, <2>5, <2>6, <2>7
  <1> QED BY <1>1, <1>2

\* The three changes the code makes to the lists: LPUSH, LREM and LMOVE.
LEMMA PushPlaces ==
  ASSUME NEW ls \in [Key -> Seq(Job)], OnePlace(ls), NEW k \in Key, NEW j \in Job,
         \A l \in Key : ~Contains(ls[l], j)
  PROVE  LET new == [ls EXCEPT ![k] = Append(@, j)]
         IN  /\ new \in [Key -> Seq(Job)]
             /\ OnePlace(new)
             /\ \A l \in Key, x \in Job :
                  Contains(new[l], x) <=> Contains(ls[l], x) \/ (l = k /\ x = j)
  <1> DEFINE new == [ls EXCEPT ![k] = Append(@, j)]
  <1>1. /\ Append(ls[k], j) \in Seq(Job)
        /\ IsInjective(Append(ls[k], j))
        /\ \A x \in Job : Contains(Append(ls[k], j), x) <=> Contains(ls[k], x) \/ x = j
    BY AppendMembers DEF OnePlace
  <1>2. /\ new \in [Key -> Seq(Job)]
        /\ new[k] = Append(ls[k], j)
        /\ \A l \in Key \ {k} : new[l] = ls[l]
    BY <1>1
  <1> HIDE DEF new
  <1>3. \A l \in Key, x \in Job :
          Contains(new[l], x) <=> Contains(ls[l], x) \/ (l = k /\ x = j)
    BY <1>1, <1>2
  <1>4. \A l \in Key : IsInjective(new[l])
    BY <1>1, <1>2 DEF OnePlace
  <1>5. \A l, m \in Key, x \in Job : Contains(new[l], x) /\ Contains(new[m], x) => l = m
    BY <1>3 DEF OnePlace
  <1> QED BY <1>2, <1>3, <1>4, <1>5 DEF new, OnePlace

\* LREM on one list keeps every entry on one list at most.
LEMMA RemovePlaces ==
  ASSUME NEW ls \in [Key -> Seq(Job)], OnePlace(ls), NEW k \in Key, NEW j \in Job
  PROVE  LET new == [ls EXCEPT ![k] = LRem(@, j)]
         IN  /\ new \in [Key -> Seq(Job)]
             /\ OnePlace(new)
             /\ \A l \in Key, x \in Job :
                  Contains(new[l], x) <=> Contains(ls[l], x) /\ ~(l = k /\ x = j)
  BY RemoveMembers DEF OnePlace

\* LMOVE takes an entry from one list to another, and keeps every entry on one
\* list at most.
LEMMA MovePlaces ==
  ASSUME NEW ls \in [Key -> Seq(Job)], OnePlace(ls),
         NEW src \in Key, NEW dst \in Key, src # dst, ls[src] # <<>>
  PROVE  LET new == LMove(ls, src, dst)
             j == Head(ls[src])
         IN  /\ j \in Job
             /\ new \in [Key -> Seq(Job)]
             /\ OnePlace(new)
             /\ Contains(ls[src], j)
             /\ \A l \in Key, x \in Job :
                  Contains(new[l], x) <=>
                    IF x = j THEN l = dst ELSE Contains(ls[l], x)
  <1> DEFINE j == Head(ls[src])
             new == LMove(ls, src, dst)
  <1>1. /\ j \in Job /\ Tail(ls[src]) \in Seq(Job) /\ Contains(ls[src], j)
        /\ IsInjective(Tail(ls[src]))
        /\ \A x \in Job : Contains(Tail(ls[src]), x) <=> Contains(ls[src], x) /\ x # j
    BY TailMembers DEF OnePlace
  <1> HIDE DEF j
  <1>2. ~Contains(ls[dst], j)
    BY <1>1 DEF OnePlace
  <1>3. /\ Append(ls[dst], j) \in Seq(Job)
        /\ IsInjective(Append(ls[dst], j))
        /\ \A x \in Job : Contains(Append(ls[dst], j), x) <=> Contains(ls[dst], x) \/ x = j
    BY <1>1, <1>2, AppendMembers DEF OnePlace
  <1>4. /\ new \in [Key -> Seq(Job)]
        /\ new[src] = Tail(ls[src])
        /\ new[dst] = Append(ls[dst], j)
        /\ \A l \in Key \ {src, dst} : new[l] = ls[l]
    BY <1>1, <1>3 DEF LMove, j
  <1> HIDE DEF new
  <1>5. \A l \in Key, x \in Job :
          Contains(new[l], x) <=> IF x = j THEN l = dst ELSE Contains(ls[l], x)
    BY <1>1, <1>2, <1>3, <1>4 DEF OnePlace
  <1>6. OnePlace(new)
    BY <1>1, <1>3, <1>4, <1>5 DEF OnePlace
  <1> QED BY <1>1, <1>4, <1>5, <1>6 DEF j, new

-----------------------------------------------------------------------------
(* Types, the data each phase relies on, and one place per job.            *)

\* What a worker remembers fits the await it is at.
PhaseOK ==
  \A w \in Worker :
    /\ errors[w] = MaxErrors => pc[w] = "stopped"
    /\ pc[w] \in {"lock", "peek", "move", "drop", "release"} => target[w] \in Worker \ {w}
    /\ w \notin todo[w]
    /\ pc[w] = "move" => peeked[w] \in Job \ Malformed
    /\ pc[w] = "drop" => peeked[w] \in Malformed
    /\ pc[w] = "fetch" => space[w] \in Workspace /\ room[w] # 0
    /\ Running(w) => batch[w] # <<>>
    /\ pc[w] \notin {"fetch", "receive", "work", "ack", "nack"} => batch[w] = <<>>

\* Only what was pushed is anywhere, and a batch holds only what was parsed.
KnownJobs ==
  /\ \A k \in Key, j \in Job : Contains(lists[k], j) => j \in accepted
  /\ \A w \in Worker, j \in Job : Contains(batch[w], j) => j \in accepted \ Malformed

\* A job whose pipeline is running has been started.
RunningBegun == \A w \in Worker : Running(w) => Head(batch[w]) \in begun

TypeInv == TypeOK /\ PhaseOK /\ OnePlace(lists) /\ KnownJobs /\ RunningBegun

\* TypeInv holds in the initial states.
LEMMA InitTypeInv == Init => TypeInv
  <1> SUFFICES ASSUME Init PROVE TypeInv
    OBVIOUS
  <1> USE QueueAssumption DEF Init
  <1>1. TypeOK
    <2>1. <<>> \in Seq(Job)
      BY EmptySeq
    <2>2. lists \in [Key -> Seq(Job)] /\ batch \in [Worker -> Seq(Job)]
      BY <2>1
    <2>3. iteration \in [Worker -> 0..ReclaimInterval] /\ errors \in [Worker -> 0..MaxErrors]
      OBVIOUS
    <2>4. room \in [Worker -> 0..MaxBatch]
      OBVIOUS
    <2>5. pc \in [Worker -> Phase] /\ lockLost \in BOOLEAN
      BY DEF Phase
    <2>6. faults \in 0..MaxFaults /\ lapses \in 0..MaxLapses /\ stops \in 0..MaxStops
      OBVIOUS
    <2> QED BY <2>2, <2>3, <2>4, <2>5, <2>6 DEF TypeOK
  <1>2. PhaseOK
    BY DEF PhaseOK, Running
  <1>3. OnePlace(lists) /\ KnownJobs
    BY DEF OnePlace, KnownJobs, Contains, IsInjective
  <1>4. RunningBegun
    BY DEF RunningBegun, Running
  <1> QED BY <1>1, <1>2, <1>3, <1>4 DEF TypeInv

\* The typed variables of TypeOK that belong to a worker.
WorkerTypes ==
  /\ heartbeat \subseteq Worker
  /\ pc \in [Worker -> Phase]
  /\ iteration \in [Worker -> 0..ReclaimInterval]
  /\ errors \in [Worker -> 0..MaxErrors]
  /\ todo \in [Worker -> SUBSET Worker]
  /\ target \in [Worker -> Worker \cup {None}]
  /\ peeked \in [Worker -> Job \cup {None}]
  /\ spaces \in [Worker -> SUBSET Workspace]
  /\ space \in [Worker -> Workspace \cup {None}]
  /\ room \in [Worker -> 0..MaxBatch]
  /\ batch \in [Worker -> Seq(Job)]

\* Leaving an iteration or the process only forgets.
Forgets ==
  \A v \in Worker :
    /\ batch'[v] = batch[v] \/ batch'[v] = <<>>
    /\ Running(v)' => Running(v) /\ batch'[v] = batch[v]

\* A worker that halts forgets its locals.
LEMMA HaltTypes ==
  ASSUME TypeInv, NEW w \in Worker, Halt(w)
  PROVE  /\ pc' \in [Worker -> Phase]
         /\ todo' \in [Worker -> SUBSET Worker]
         /\ target' \in [Worker -> Worker \cup {None}]
         /\ peeked' \in [Worker -> Job \cup {None}]
         /\ spaces' \in [Worker -> SUBSET Workspace]
         /\ space' \in [Worker -> Workspace \cup {None}]
         /\ room' \in [Worker -> 0..MaxBatch]
         /\ batch' \in [Worker -> Seq(Job)]
         /\ (\A v \in Worker : errors'[v] = MaxErrors => errors[v] = MaxErrors \/ v = w)
              => PhaseOK'
         /\ Forgets
  <1> USE QueueAssumption DEF TypeInv, TypeOK, Halt, GoTo
  <1>1. <<>> \in Seq(Job)
    BY EmptySeq
  <1>2. /\ pc' \in [Worker -> Phase]
        /\ todo' \in [Worker -> SUBSET Worker]
        /\ target' \in [Worker -> Worker \cup {None}]
        /\ peeked' \in [Worker -> Job \cup {None}]
    BY DEF Phase
  <1>3. /\ spaces' \in [Worker -> SUBSET Workspace]
        /\ space' \in [Worker -> Workspace \cup {None}]
        /\ room' \in [Worker -> 0..MaxBatch]
        /\ batch' \in [Worker -> Seq(Job)]
    BY <1>1
  <1>4. ASSUME \A v \in Worker : errors'[v] = MaxErrors => errors[v] = MaxErrors \/ v = w
        PROVE  PhaseOK'
    BY <1>4 DEF PhaseOK, Running
  <1>5. Forgets
    BY DEF Forgets, Running
  <1> QED BY <1>2, <1>3, <1>4, <1>5

\* A worker whose iteration failed waits or gives up, and forgets its locals.
LEMMA IterationFailedTypes ==
  ASSUME TypeInv, NEW w \in Worker, Alive(w), IterationFailed(w),
         pc[w] \notin {"lock", "peek", "move", "drop", "release"}
  PROVE  WorkerTypes' /\ PhaseOK' /\ Forgets
  <1> USE QueueAssumption DEF TypeInv, TypeOK, WorkerTypes
  <1>1. errors[w] \in 0..MaxErrors /\ errors[w] # MaxErrors
    BY DEF PhaseOK, Alive
  <1>2. /\ errors' \in [Worker -> 0..MaxErrors] /\ iteration' = iteration
        /\ \A v \in Worker : errors'[v] = MaxErrors => errors[v] = MaxErrors \/ v = w
    BY <1>1 DEF IterationFailed
  <1>3. CASE errors[w] + 1 >= MaxErrors
    <2>1. Halt(w) /\ heartbeat' \subseteq Worker
      BY <1>3 DEF IterationFailed
    <2> QED BY <1>2, <2>1, HaltTypes
  <1>4. CASE ~(errors[w] + 1 >= MaxErrors)
    <2>1. <<>> \in Seq(Job)
      BY EmptySeq
    <2>2. /\ GoTo(w, "idle") /\ UNCHANGED <<heartbeat, todo, target, peeked>>
          /\ spaces' = [spaces EXCEPT ![w] = {}]
          /\ space' = [space EXCEPT ![w] = None]
          /\ room' = [room EXCEPT ![w] = 0]
          /\ batch' = [batch EXCEPT ![w] = <<>>]
          /\ errors'[w] # MaxErrors
          /\ \A v \in Worker \ {w} : errors'[v] = errors[v]
      BY <1>1, <1>4 DEF IterationFailed, reclaimVars
    <2>3. /\ heartbeat' \subseteq Worker
          /\ pc' \in [Worker -> Phase]
          /\ spaces' \in [Worker -> SUBSET Workspace]
          /\ space' \in [Worker -> Workspace \cup {None}]
          /\ room' \in [Worker -> 0..MaxBatch]
          /\ batch' \in [Worker -> Seq(Job)]
      BY <2>1, <2>2 DEF GoTo, Phase
    <2>4. PhaseOK'
      BY <2>2 DEF PhaseOK, GoTo, Running
    <2>5. Forgets
      BY <2>2 DEF Forgets, GoTo, Running
    <2> QED BY <1>2, <2>2, <2>3, <2>4, <2>5
  <1> QED BY <1>3, <1>4

\* What is left of TypeInv when the lists do not change.
LEMMA ForgetsKeeps ==
  ASSUME TypeInv, Forgets, lists' = lists, accepted' = accepted,
         begun \subseteq begun', batch' \in [Worker -> Seq(Job)]
  PROVE  OnePlace(lists)' /\ KnownJobs' /\ RunningBegun'
  <1> USE DEF TypeInv, Forgets
  <1>1. OnePlace(lists)'
    OBVIOUS
  <1>2. KnownJobs'
    BY DEF KnownJobs, Contains
  <1>3. RunningBegun'
    BY DEF RunningBegun
  <1> QED BY <1>1, <1>2, <1>3

\* A call that raises spends one unit of the fault budget.
LEMMA FaultTypes ==
  ASSUME TypeOK, Fault \/ UNCHANGED budgets
  PROVE  faults' \in 0..MaxFaults /\ lapses' \in 0..MaxLapses /\ stops' \in 0..MaxStops
  BY QueueAssumption DEF TypeOK, Fault, budgets

\* Every step keeps TypeInv.
LEMMA NextTypeInv == TypeInv /\ [Next]_vars => TypeInv'
  <1> SUFFICES ASSUME TypeInv, [Next]_vars PROVE TypeInv'
    OBVIOUS
  <1>a. TypeOK
    BY DEF TypeInv
  <1>b. PhaseOK
    BY DEF TypeInv
  <1>c. OnePlace(lists)
    BY DEF TypeInv
  <1>d. KnownJobs
    BY DEF TypeInv
  <1>e. RunningBegun
    BY DEF TypeInv
  <1>f. pc \in [Worker -> Phase]
    BY DEF TypeInv, TypeOK
  <1>g. target \in [Worker -> Worker \cup {None}] /\ lock \in [Worker -> Worker \cup {None}]
    BY DEF TypeInv, TypeOK
  <1>k. Workspace \subseteq Key /\ Worker \subseteq Key /\ Workspace \cap Worker = {}
    BY QueueAssumption DEF Key
  <1> USE QueueAssumption DEF GoTo, TickHeartbeat, Running,
        redisVars, reclaimVars, runVars, loopVars, history
  <1>1. ASSUME NEW j \in Job, Enqueue(j) PROVE TypeInv'
    <2> USE <1>1
    <2>1. PICK home \in Key :
            home = WorkspaceOf[j] /\ \A k \in Key : ~Contains(lists[k], j)
      BY <1>k, <1>d DEF KnownJobs, Enqueue
    <2>0. lists' = [lists EXCEPT ![home] = Append(@, j)]
      BY <2>1 DEF Enqueue
    <2>2. /\ lists' \in [Key -> Seq(Job)] /\ OnePlace(lists')
          /\ \A k \in Key, x \in Job :
               Contains(lists'[k], x) => Contains(lists[k], x) \/ x = j
      <3> HIDE DEF GoTo, TickHeartbeat, Running,
            redisVars, reclaimVars, runVars, loopVars, history
      <3>1. lists \in [Key -> Seq(Job)]
        BY <1>a DEF TypeOK
      <3>2. \A k \in Key : ~Contains(lists[k], j)
        BY <2>1
      <3> DEFINE new == [lists EXCEPT ![home] = Append(@, j)]
      <3>3. /\ new \in [Key -> Seq(Job)] /\ OnePlace(new)
            /\ \A k \in Key, x \in Job :
                 Contains(new[k], x) <=> Contains(lists[k], x) \/ (k = home /\ x = j)
        BY <3>1, <3>2, <1>c, PushPlaces
      <3> HIDE DEF new
      <3>4. lists' = new
        BY <2>0 DEF new
      <3> QED BY <3>3, <3>4
    <2>3. TypeOK'
      BY <1>a, <2>2 DEF TypeOK, Enqueue, budgets
    <2>4. PhaseOK'
      BY <1>b DEF PhaseOK, Enqueue
    <2>5. KnownJobs' /\ RunningBegun'
      BY <1>d, <1>e, <2>2 DEF KnownJobs, RunningBegun, Enqueue
    <2> QED BY <2>2, <2>3, <2>4, <2>5 DEF TypeInv
  <1>2. ASSUME NEW w \in Worker, Start(w) PROVE TypeInv'
    <2> USE <1>2
    <2>b. faults' \in 0..MaxFaults /\ lapses' \in 0..MaxLapses /\ stops' \in 0..MaxStops
      BY <1>a, FaultTypes DEF Start
    <2>2. pc' \in [Worker -> Phase]
      BY <1>f DEF Start, Phase
    <2>3. TypeOK'
      BY <1>a, <2>b, <2>2 DEF Start, TypeOK
    <2>4. PhaseOK'
      BY <1>a, <1>b DEF Start, TypeOK, PhaseOK
    <2>5. /\ UNCHANGED <<lists, batch, accepted, begun>>
          /\ \A v \in Worker : Running(v)' => Running(v)
      BY <1>a DEF Start, TypeOK
    <2>6. OnePlace(lists)' /\ KnownJobs' /\ RunningBegun'
      BY <2>5, <1>c, <1>d, <1>e DEF KnownJobs, RunningBegun
    <2> QED BY <2>3, <2>4, <2>6 DEF TypeInv
  <1>3. ASSUME NEW w \in Worker, BeginIteration(w) PROVE TypeInv'
    <2> USE <1>3
    <2>1. iteration' \in [Worker -> 0..ReclaimInterval]
      BY <1>a DEF BeginIteration, TypeOK
    <2>b. faults' \in 0..MaxFaults /\ lapses' \in 0..MaxLapses /\ stops' \in 0..MaxStops
      BY <1>a, FaultTypes DEF BeginIteration
    <2>2. pc' \in [Worker -> Phase]
      BY <1>f DEF BeginIteration, Phase
    <2>3. TypeOK'
      BY <1>a, <2>b, <2>2, <2>1 DEF BeginIteration, TypeOK
    <2>4. PhaseOK'
      BY <1>a, <1>b DEF BeginIteration, TypeOK, PhaseOK
    <2>5. /\ UNCHANGED <<lists, batch, accepted, begun>>
          /\ \A v \in Worker : Running(v)' => Running(v)
      BY <1>a DEF BeginIteration, TypeOK
    <2>6. OnePlace(lists)' /\ KnownJobs' /\ RunningBegun'
      BY <2>5, <1>c, <1>d, <1>e DEF KnownJobs, RunningBegun
    <2> QED BY <2>3, <2>4, <2>6 DEF TypeInv
  <1>4. ASSUME NEW w \in Worker, Discover(w) PROVE TypeInv'
    <2> USE <1>4
    <2>1. /\ todo' \in [Worker -> SUBSET Worker]
          /\ \A v \in Worker : v \notin todo'[v]
      <3> DEFINE found == {v \in Worker \ {w} : lists[v] # <<>>}
      <3>1. found \subseteq Worker /\ w \notin found
        OBVIOUS
      <3>2. todo' = [todo EXCEPT ![w] = found] \/ todo' = todo
        BY DEF Discover
      <3> HIDE DEF found
      <3>3. todo \in [Worker -> SUBSET Worker] /\ \A v \in Worker : v \notin todo[v]
        BY <1>a, <1>b DEF TypeOK, PhaseOK
      <3> QED BY <3>1, <3>2, <3>3
    <2>b. faults' \in 0..MaxFaults /\ lapses' \in 0..MaxLapses /\ stops' \in 0..MaxStops
      BY <1>a, FaultTypes DEF Discover
    <2>2. pc' \in [Worker -> Phase]
      BY <1>f DEF Discover, Phase
    <2>3. TypeOK'
      BY <1>a, <2>b, <2>2, <2>1 DEF Discover, TypeOK
    <2>4. PhaseOK'
      BY <1>a, <1>b, <2>1 DEF Discover, TypeOK, PhaseOK
    <2>5. /\ UNCHANGED <<lists, batch, accepted, begun>>
          /\ \A v \in Worker : Running(v)' => Running(v)
      BY <1>a DEF Discover, TypeOK
    <2>6. OnePlace(lists)' /\ KnownJobs' /\ RunningBegun'
      BY <2>5, <1>c, <1>d, <1>e DEF KnownJobs, RunningBegun
    <2> QED BY <2>3, <2>4, <2>6 DEF TypeInv
  <1>5. ASSUME NEW w \in Worker, NEW v \in Worker, Visit(w, v) PROVE TypeInv'
    <2> USE <1>5
    <2>1. todo' \in [Worker -> SUBSET Worker] /\ misjudged' \subseteq Worker
      BY <1>a DEF Visit, TypeOK
    <2>0. v \in todo[w] /\ v # w
      BY <1>b DEF Visit, PhaseOK
    <2>v. \/ pc' = pc /\ target' = target
          \/ /\ pc' = [pc EXCEPT ![w] = "lock"]
             /\ target' = [target EXCEPT ![w] = v]
      BY DEF Visit
    <2>t. target' \in [Worker -> Worker \cup {None}]
      BY <1>g, <2>v
    <2>b. faults' \in 0..MaxFaults /\ lapses' \in 0..MaxLapses /\ stops' \in 0..MaxStops
      BY <1>a, FaultTypes DEF Visit
    <2>2. pc' \in [Worker -> Phase]
      BY <1>f, <2>v DEF Phase
    <2>3. TypeOK'
      BY <1>a, <2>b, <2>1, <2>2, <2>t DEF Visit, TypeOK
    <2>e. /\ UNCHANGED <<errors, peeked, space, room, batch>>
          /\ todo' = [todo EXCEPT ![w] = @ \ {v}]
      BY DEF Visit
    <2>4. PhaseOK'
      <3>1. CASE pc' = pc /\ target' = target
        BY <1>a, <1>b, <2>0, <2>e, <3>1 DEF TypeOK, PhaseOK
      <3>2. CASE /\ pc' = [pc EXCEPT ![w] = "lock"]
                 /\ target' = [target EXCEPT ![w] = v]
        <4>1. pc[w] = "visit"
          BY DEF Visit
        <4> QED BY <1>a, <1>b, <2>0, <2>e, <3>2, <4>1 DEF TypeOK, PhaseOK
      <3> QED BY <2>v, <3>1, <3>2
    <2>5. /\ UNCHANGED <<lists, batch, accepted, begun>>
          /\ \A u \in Worker : Running(u)' => Running(u)
      BY <1>a DEF Visit, TypeOK
    <2>6. OnePlace(lists)' /\ KnownJobs' /\ RunningBegun'
      BY <2>5, <1>c, <1>d, <1>e DEF KnownJobs, RunningBegun
    <2> QED BY <2>3, <2>4, <2>6 DEF TypeInv
  <1>6. ASSUME NEW w \in Worker, EndReclaim(w) PROVE TypeInv'
    <2> USE <1>6
    <2>b. faults' \in 0..MaxFaults /\ lapses' \in 0..MaxLapses /\ stops' \in 0..MaxStops
      BY <1>a, FaultTypes DEF EndReclaim
    <2>2. pc' \in [Worker -> Phase]
      BY <1>f DEF EndReclaim, Phase
    <2>3. TypeOK'
      BY <1>a, <2>b, <2>2 DEF EndReclaim, TypeOK
    <2>4. PhaseOK'
      BY <1>a, <1>b DEF EndReclaim, TypeOK, PhaseOK
    <2>5. /\ UNCHANGED <<lists, batch, accepted, begun>>
          /\ \A v \in Worker : Running(v)' => Running(v)
      BY <1>a DEF EndReclaim, TypeOK
    <2>6. OnePlace(lists)' /\ KnownJobs' /\ RunningBegun'
      BY <2>5, <1>c, <1>d, <1>e DEF KnownJobs, RunningBegun
    <2> QED BY <2>3, <2>4, <2>6 DEF TypeInv
  <1>7. ASSUME NEW w \in Worker, AcquireReclaimLock(w) PROVE TypeInv'
    <2> USE <1>7
    <2>1. /\ lock' \in [Worker -> Worker \cup {None}]
          /\ target' \in [Worker -> Worker \cup {None}]
      <3>1. target[w] \in Worker
        BY <1>b DEF PhaseOK, AcquireReclaimLock
      <3> QED BY <1>g, <3>1 DEF NextTarget, AcquireReclaimLock
    <2>b. faults' \in 0..MaxFaults /\ lapses' \in 0..MaxLapses /\ stops' \in 0..MaxStops
      BY <1>a, FaultTypes DEF AcquireReclaimLock
    <2>x. \E x \in {"peek", "visit"} : pc' = [pc EXCEPT ![w] = x]
      BY DEF NextTarget, AcquireReclaimLock
    <2>2. pc' \in [Worker -> Phase]
      BY <1>f, <2>x DEF Phase
    <2>r. UNCHANGED <<lists, heartbeat, iteration, errors, todo, peeked, spaces, space,
                      room, batch, accepted, begun, misjudged, lockLost>>
      BY DEF AcquireReclaimLock
    <2>3. TypeOK'
      BY <1>a, <2>b, <2>2, <2>1, <2>r DEF TypeOK
    <2>4. PhaseOK'
      <3>1. /\ UNCHANGED <<errors, todo, peeked, space, room, batch>>
            /\ pc[w] = "lock" /\ \A v \in Worker \ {w} : target'[v] = target[v]
            /\ \/ pc' = [pc EXCEPT ![w] = "peek"] /\ target' = target
               \/ pc' = [pc EXCEPT ![w] = "visit"]
        BY <1>g DEF AcquireReclaimLock, NextTarget
      <3> QED BY <1>b, <1>f, <3>1 DEF PhaseOK
    <2>5. /\ UNCHANGED <<lists, batch, accepted, begun>>
          /\ \A v \in Worker : Running(v)' => Running(v)
      BY <1>a DEF AcquireReclaimLock, NextTarget, TypeOK
    <2>6. OnePlace(lists)' /\ KnownJobs' /\ RunningBegun'
      BY <2>5, <1>c, <1>d, <1>e DEF KnownJobs, RunningBegun
    <2> QED BY <2>3, <2>4, <2>6 DEF TypeInv
  <1>8. ASSUME NEW w \in Worker, PeekTail(w) PROVE TypeInv'
    <2> USE <1>8
    <2>1. /\ peeked' \in [Worker -> Job \cup {None}]
          /\ pc'[w] # "release" => peeked'[w] \in Job
      <3>1. target[w] \in Key
        BY <1>b, <1>k DEF PhaseOK, PeekTail
      <3>2. lists[target[w]] # <<>> => Head(lists[target[w]]) \in Job
        BY <1>a, <3>1, TailMembers DEF TypeOK
      <3> QED BY <1>a, <3>2 DEF TypeOK, PeekTail
    <2>b. faults' \in 0..MaxFaults /\ lapses' \in 0..MaxLapses /\ stops' \in 0..MaxStops
      BY <1>a, FaultTypes DEF PeekTail
    <2>x. \E x \in {"drop", "move", "release"} : pc' = [pc EXCEPT ![w] = x]
      BY DEF PeekTail
    <2>2. pc' \in [Worker -> Phase]
      BY <1>f, <2>x DEF Phase
    <2>3. TypeOK'
      BY <1>a, <2>b, <2>2, <2>1 DEF PeekTail, TypeOK
    <2>4. PhaseOK'
      <3>1. /\ pc'[w] = "move" => peeked'[w] \in Job \ Malformed
            /\ pc'[w] = "drop" => peeked'[w] \in Malformed
            /\ \A v \in Worker \ {w} : peeked'[v] = peeked[v]
            /\ pc[w] = "peek"
        BY <1>a, <2>1 DEF PeekTail, TypeOK
      <3>2. UNCHANGED <<errors, todo, target, space, room, batch>>
        BY DEF PeekTail
      <3> QED BY <1>b, <1>f, <2>x, <3>1, <3>2 DEF PhaseOK
    <2>5. /\ UNCHANGED <<lists, batch, accepted, begun>>
          /\ \A v \in Worker : Running(v)' => Running(v)
      BY <1>a DEF PeekTail, TypeOK
    <2>6. OnePlace(lists)' /\ KnownJobs' /\ RunningBegun'
      BY <2>5, <1>c, <1>d, <1>e DEF KnownJobs, RunningBegun
    <2> QED BY <2>3, <2>4, <2>6 DEF TypeInv
  <1>9. ASSUME NEW w \in Worker, DropMalformed(w) PROVE TypeInv'
    <2> USE <1>9
    <2>1. target[w] \in Worker /\ target[w] \in Key
      BY <1>b, <1>k DEF PhaseOK, DropMalformed
    <2>2. /\ lists' \in [Key -> Seq(Job)] /\ OnePlace(lists')
          /\ \A x \in Job, k \in Key : Contains(lists'[k], x) => \E l \in Key : Contains(lists[l], x)
      <3>1. peeked[w] \in Job
        BY <1>b DEF PhaseOK, DropMalformed
      <3>2. CASE lists' = [lists EXCEPT ![target[w]] = LRem(@, peeked[w])]
        BY <1>a, <1>c, <2>1, <3>1, <3>2, RemovePlaces DEF TypeOK
      <3>3. CASE lists' = lists
        BY <1>a, <1>c, <3>3 DEF TypeOK
      <3> QED BY <3>2, <3>3 DEF DropMalformed
    <2>b. faults' \in 0..MaxFaults /\ lapses' \in 0..MaxLapses /\ stops' \in 0..MaxStops
      BY <1>a, FaultTypes DEF DropMalformed
    <2>x. \E x \in {"peek", "release"} : pc' = [pc EXCEPT ![w] = x]
      BY DEF DropMalformed
    <2>p. pc' \in [Worker -> Phase]
      BY <1>f, <2>x DEF Phase
    <2>q. peeked' \in [Worker -> Job \cup {None}]
      BY <1>a DEF TypeOK, DropMalformed
    <2>r. UNCHANGED <<heartbeat, lock, iteration, errors, todo, target, spaces, space,
                      room, batch, accepted, begun, misjudged, lockLost>>
      BY DEF DropMalformed
    <2>3. TypeOK'
      BY <1>a, <2>2, <2>b, <2>p, <2>q, <2>r DEF TypeOK
    <2>4. PhaseOK'
      <3>1. /\ UNCHANGED <<errors, todo, target, space, room, batch>>
            /\ pc[w] = "drop" /\ \A v \in Worker \ {w} : peeked'[v] = peeked[v]
        BY <1>a DEF TypeOK, DropMalformed
      <3> QED BY <1>b, <1>f, <2>x, <3>1 DEF PhaseOK
    <2>5. KnownJobs'
      BY <1>d, <2>2 DEF KnownJobs, DropMalformed
    <2>6. RunningBegun'
      BY <1>a, <1>e DEF TypeOK, RunningBegun, DropMalformed
    <2> QED BY <2>2, <2>3, <2>4, <2>5, <2>6 DEF TypeInv
  <1>10. ASSUME NEW w \in Worker, MoveTail(w) PROVE TypeInv'
    <2> USE <1>10
    <2>1. target[w] \in Worker /\ target[w] \in Key
      BY <1>b, <1>k DEF PhaseOK, MoveTail
    <2>2. /\ lists' \in [Key -> Seq(Job)] /\ OnePlace(lists')
          /\ \A x \in Job, k \in Key : Contains(lists'[k], x) => \E l \in Key : Contains(lists[l], x)
      <3>1. PICK home \in Key, dead \in Key :
              home = HomeQueue(peeked[w]) /\ dead = target[w] /\ dead # home
        BY <1>b, <1>k, <2>1 DEF PhaseOK, HomeQueue, MoveTail
      <3>2. CASE lists' = LMove(lists, dead, home) /\ lists[dead] # <<>>
        <4>1. lists \in [Key -> Seq(Job)]
          BY <1>a DEF TypeOK
        <4>2. /\ Head(lists[dead]) \in Job /\ Contains(lists[dead], Head(lists[dead]))
              /\ lists' \in [Key -> Seq(Job)] /\ OnePlace(lists')
              /\ \A x \in Job, k \in Key : Contains(lists'[k], x) =>
                   Contains(lists[k], x) \/ x = Head(lists[dead])
          BY <1>c, <3>1, <3>2, <4>1, MovePlaces
        <4> QED BY <4>2
      <3>3. CASE lists' = lists
        BY <1>a, <1>c, <3>3 DEF TypeOK
      <3> QED BY <3>1, <3>2, <3>3 DEF MoveTail
    <2>b. faults' \in 0..MaxFaults /\ lapses' \in 0..MaxLapses /\ stops' \in 0..MaxStops
      BY <1>a, FaultTypes DEF MoveTail
    <2>x. \E x \in {"peek", "release"} : pc' = [pc EXCEPT ![w] = x]
      BY DEF MoveTail
    <2>p. pc' \in [Worker -> Phase]
      BY <1>f, <2>x DEF Phase
    <2>q. peeked' \in [Worker -> Job \cup {None}]
      BY <1>a DEF TypeOK, MoveTail
    <2>r. UNCHANGED <<heartbeat, lock, iteration, errors, todo, target, spaces, space,
                      room, batch, accepted, begun, misjudged, lockLost>>
      BY DEF MoveTail
    <2>3. TypeOK'
      BY <1>a, <2>2, <2>b, <2>p, <2>q, <2>r DEF TypeOK
    <2>4. PhaseOK'
      <3>1. /\ UNCHANGED <<errors, todo, target, space, room, batch>>
            /\ pc[w] = "move" /\ \A v \in Worker \ {w} : peeked'[v] = peeked[v]
        BY <1>a DEF TypeOK, MoveTail
      <3> QED BY <1>b, <1>f, <2>x, <3>1 DEF PhaseOK
    <2>5. KnownJobs'
      BY <1>d, <2>2 DEF KnownJobs, MoveTail
    <2>6. RunningBegun'
      BY <1>a, <1>e DEF TypeOK, RunningBegun, MoveTail
    <2> QED BY <2>2, <2>3, <2>4, <2>5, <2>6 DEF TypeInv
  <1>11. ASSUME NEW w \in Worker, ReleaseReclaimLock(w) PROVE TypeInv'
    <2> USE <1>11
    <2>1. /\ lock' \in [Worker -> Worker \cup {None}]
          /\ target' \in [Worker -> Worker \cup {None}]
      <3>1. target[w] \in Worker
        BY <1>b DEF PhaseOK, ReleaseReclaimLock
      <3> QED BY <1>a, <3>1 DEF TypeOK, NextTarget, ReleaseReclaimLock
    <2>b. faults' \in 0..MaxFaults /\ lapses' \in 0..MaxLapses /\ stops' \in 0..MaxStops
      BY <1>a, FaultTypes DEF ReleaseReclaimLock
    <2>2. pc' \in [Worker -> Phase]
      BY <1>f DEF ReleaseReclaimLock, NextTarget, Phase
    <2>3. TypeOK'
      BY <1>a, <2>b, <2>2, <2>1 DEF ReleaseReclaimLock, NextTarget, TypeOK
    <2>4. PhaseOK'
      BY <1>a, <1>b DEF ReleaseReclaimLock, NextTarget, TypeOK, PhaseOK
    <2>5. /\ UNCHANGED <<lists, batch, accepted, begun>>
          /\ \A v \in Worker : Running(v)' => Running(v)
      BY <1>a DEF ReleaseReclaimLock, NextTarget, TypeOK
    <2>6. OnePlace(lists)' /\ KnownJobs' /\ RunningBegun'
      BY <2>5, <1>c, <1>d, <1>e DEF KnownJobs, RunningBegun
    <2> QED BY <2>3, <2>4, <2>6 DEF TypeInv
  <1>12. ASSUME NEW w \in Worker, SelectWorkspaces(w) PROVE TypeInv'
    <2> USE <1>12
    <2>1. CASE Fault /\ IterationFailed(w) /\ UNCHANGED <<lists, accepted, begun>>
      <3>1. Alive(w) /\ pc[w] \notin {"lock", "peek", "move", "drop", "release"}
        BY DEF Alive, SelectWorkspaces
      <3>2. WorkerTypes' /\ PhaseOK' /\ Forgets
        BY <2>1, <3>1, IterationFailedTypes
      <3>b. faults' \in 0..MaxFaults /\ lapses' \in 0..MaxLapses /\ stops' \in 0..MaxStops
        BY <1>a, FaultTypes DEF SelectWorkspaces
      <3>3. UNCHANGED <<lock, misjudged, lockLost>>
        BY <2>1 DEF SelectWorkspaces
      <3>4. TypeOK'
        BY <1>a, <2>1, <3>b, <3>2, <3>3 DEF TypeOK, WorkerTypes
      <3>5. OnePlace(lists)' /\ KnownJobs' /\ RunningBegun'
        BY <2>1, <3>2, <3>3, ForgetsKeeps DEF WorkerTypes
      <3> QED BY <3>2, <3>4, <3>5 DEF TypeInv
    <2>2. CASE /\ spaces' = [spaces EXCEPT ![w] = {s \in Workspace : lists[s] # <<>>}]
               /\ GoTo(w, "pick")
               /\ UNCHANGED <<heartbeat, loopVars, reclaimVars, space, room, batch, budgets>>
      <3>1. spaces' \in [Worker -> SUBSET Workspace]
        <4> DEFINE found == {s \in Workspace : lists[s] # <<>>}
        <4>1. found \subseteq Workspace /\ spaces' = [spaces EXCEPT ![w] = found]
          BY <2>2
        <4> HIDE DEF found
        <4> QED BY <1>a, <4>1 DEF TypeOK
      <3>b. faults' \in 0..MaxFaults /\ lapses' \in 0..MaxLapses /\ stops' \in 0..MaxStops
        BY <1>a, FaultTypes DEF SelectWorkspaces
      <3>p. pc' \in [Worker -> Phase]
        BY <1>f, <2>2 DEF Phase
      <3>3. TypeOK'
        BY <1>a, <2>2, <3>b, <3>p, <3>1 DEF TypeOK, SelectWorkspaces
      <3>4. PhaseOK'
        BY <1>a, <1>b, <2>2 DEF TypeOK, PhaseOK, SelectWorkspaces
      <3>5. OnePlace(lists)' /\ KnownJobs' /\ RunningBegun'
        BY <1>a, <1>c, <1>d, <1>e, <2>2 DEF TypeOK, KnownJobs, RunningBegun, SelectWorkspaces
      <3> QED BY <3>3, <3>4, <3>5 DEF TypeInv
    <2> QED BY <2>1, <2>2 DEF SelectWorkspaces
  <1>13. ASSUME NEW w \in Worker, NEW s \in Workspace, PickWorkspace(w, s) PROVE TypeInv'
    <2> USE <1>13
    <2>1. room' \in [Worker -> 0..MaxBatch] /\ spaces' \in [Worker -> SUBSET Workspace]
      BY <1>a DEF PickWorkspace, TypeOK
    <2>b. faults' \in 0..MaxFaults /\ lapses' \in 0..MaxLapses /\ stops' \in 0..MaxStops
      BY <1>a, FaultTypes DEF PickWorkspace
    <2>2. pc' \in [Worker -> Phase]
      BY <1>f DEF PickWorkspace, Phase
    <2>3. TypeOK'
      BY <1>a, <2>b, <2>2, <2>1 DEF PickWorkspace, TypeOK
    <2>4. PhaseOK'
      BY <1>a, <1>b DEF PickWorkspace, TypeOK, PhaseOK
    <2>5. /\ UNCHANGED <<lists, batch, accepted, begun>>
          /\ \A v \in Worker : Running(v)' => Running(v)
      BY <1>a DEF PickWorkspace, TypeOK
    <2>6. OnePlace(lists)' /\ KnownJobs' /\ RunningBegun'
      BY <2>5, <1>c, <1>d, <1>e DEF KnownJobs, RunningBegun
    <2> QED BY <2>3, <2>4, <2>6 DEF TypeInv
  <1>14. ASSUME NEW w \in Worker, EndIteration(w) PROVE TypeInv'
    <2> USE <1>14
    <2>b. faults' \in 0..MaxFaults /\ lapses' \in 0..MaxLapses /\ stops' \in 0..MaxStops
      BY <1>a, FaultTypes DEF EndIteration
    <2>2. pc' \in [Worker -> Phase]
      BY <1>f DEF EndIteration, Phase
    <2>3. TypeOK'
      BY <1>a, <2>b, <2>2 DEF EndIteration, TypeOK
    <2>4. PhaseOK'
      BY <1>a, <1>b DEF EndIteration, TypeOK, PhaseOK
    <2>5. /\ UNCHANGED <<lists, batch, accepted, begun>>
          /\ \A v \in Worker : Running(v)' => Running(v)
      BY <1>a DEF EndIteration, TypeOK
    <2>6. OnePlace(lists)' /\ KnownJobs' /\ RunningBegun'
      BY <2>5, <1>c, <1>d, <1>e DEF KnownJobs, RunningBegun
    <2> QED BY <2>3, <2>4, <2>6 DEF TypeInv
  <1>15. ASSUME NEW w \in Worker, Fetch(w) PROVE TypeInv'
    <2> USE <1>15
    <2>1. CASE Fault /\ IterationFailed(w) /\ UNCHANGED <<lists, accepted, begun>>
      <3>1. Alive(w) /\ pc[w] \notin {"lock", "peek", "move", "drop", "release"}
        BY DEF Alive, Fetch
      <3>2. WorkerTypes' /\ PhaseOK' /\ Forgets
        BY <2>1, <3>1, IterationFailedTypes
      <3>b. faults' \in 0..MaxFaults /\ lapses' \in 0..MaxLapses /\ stops' \in 0..MaxStops
        BY <1>a, FaultTypes DEF Fetch
      <3>3. UNCHANGED <<lock, misjudged, lockLost>>
        BY <2>1 DEF Fetch
      <3>4. TypeOK'
        BY <1>a, <2>1, <3>b, <3>2, <3>3 DEF TypeOK, WorkerTypes
      <3>5. OnePlace(lists)' /\ KnownJobs' /\ RunningBegun'
        BY <2>1, <3>2, <3>3, ForgetsKeeps DEF WorkerTypes
      <3> QED BY <3>2, <3>4, <3>5 DEF TypeInv
    <2>2. CASE lists[space[w]] = <<>> /\ GoTo(w, "receive")
               /\ UNCHANGED <<lists, heartbeat, loopVars, reclaimVars, runVars, budgets>>
      <3>b. faults' \in 0..MaxFaults /\ lapses' \in 0..MaxLapses /\ stops' \in 0..MaxStops
        BY <1>a, FaultTypes DEF Fetch
      <3>p. pc' \in [Worker -> Phase]
        BY <1>f, <2>2 DEF Phase
      <3>3. TypeOK'
        BY <1>a, <2>2, <3>b, <3>p DEF TypeOK, Fetch
      <3>4. PhaseOK'
        BY <1>a, <1>b, <2>2 DEF TypeOK, PhaseOK, Fetch
      <3>5. OnePlace(lists)' /\ KnownJobs' /\ RunningBegun'
        BY <1>a, <1>c, <1>d, <1>e, <2>2 DEF TypeOK, KnownJobs, RunningBegun, Fetch
      <3> QED BY <3>3, <3>4, <3>5 DEF TypeInv
    <2>3. CASE /\ lists[space[w]] # <<>>
               /\ lists' = LMove(lists, space[w], w)
               /\ batch' = [batch EXCEPT ![w] =
                              IF Head(lists[space[w]]) \in Malformed THEN @
                              ELSE Append(@, Head(lists[space[w]]))]
               /\ room' = [room EXCEPT ![w] = @ - 1]
               /\ GoTo(w, IF RoomLeft(w) THEN "fetch" ELSE "receive")
               /\ UNCHANGED <<heartbeat, loopVars, reclaimVars, spaces, space, budgets>>
      <3>1. PICK j : j = Head(lists[space[w]])
        OBVIOUS
      <3>2. /\ space[w] \in Workspace /\ space[w] \in Key /\ w \in Key /\ space[w] # w
            /\ room[w] \in 0..MaxBatch /\ room[w] # 0 /\ pc[w] = "fetch"
        BY <1>a, <1>b, <1>k DEF PhaseOK, TypeOK, Fetch
      <3>3. /\ j \in Job
            /\ lists' \in [Key -> Seq(Job)] /\ OnePlace(lists')
            /\ Contains(lists[space[w]], j)
            /\ \A x \in Job, k \in Key :
                 Contains(lists'[k], x) => Contains(lists[k], x) \/ x = j
        BY <1>a, <1>c, <2>3, <3>1, <3>2, MovePlaces DEF TypeOK
      <3>4. batch[w] \in Seq(Job) /\ Append(batch[w], j) \in Seq(Job)
        BY <1>a, <3>3, AppendMembers DEF TypeOK
      <3>5. /\ batch' \in [Worker -> Seq(Job)]
            /\ batch'[w] = batch[w] \/ (j \notin Malformed /\ batch'[w] = Append(batch[w], j))
            /\ \A v \in Worker \ {w} : batch'[v] = batch[v]
        BY <1>a, <2>3, <3>1, <3>4 DEF TypeOK
      <3>6. \A x \in Job : Contains(batch'[w], x) =>
               Contains(batch[w], x) \/ (x = j /\ x \notin Malformed)
        <4>1. \A x : Contains(Append(batch[w], j), x) <=> Contains(batch[w], x) \/ x = j
          BY <3>3, <3>4, AppendMembers
        <4> QED BY <3>5, <4>1
      <3>7. /\ pc' = [pc EXCEPT ![w] = pc'[w]] /\ pc'[w] \in {"fetch", "receive"}
            /\ room' \in [Worker -> 0..MaxBatch]
            /\ \A v \in Worker \ {w} : room'[v] = room[v]
            /\ pc'[w] = "fetch" => room'[w] # 0
        BY <1>a, <2>3, <3>2 DEF TypeOK, RoomLeft, Phase
      <3>b. faults' \in 0..MaxFaults /\ lapses' \in 0..MaxLapses /\ stops' \in 0..MaxStops
        BY <1>a, FaultTypes DEF Fetch
      <3>p. pc' \in [Worker -> Phase]
        BY <1>f, <3>7 DEF Phase
      <3>r. UNCHANGED <<heartbeat, lock, iteration, errors, todo, target, peeked, spaces,
                        space, accepted, begun, misjudged, lockLost>>
        BY <2>3 DEF Fetch
      <3>8. TypeOK'
        BY <1>a, <3>b, <3>p, <3>3, <3>5, <3>7, <3>r DEF TypeOK
      <3>9. PhaseOK'
        <4>1. UNCHANGED <<errors, todo, target, peeked, space>>
          BY <2>3
        <4>2. \A v \in Worker \ {w} :
                pc'[v] = pc[v] /\ room'[v] = room[v] /\ batch'[v] = batch[v]
          BY <1>f, <3>5, <3>7
        <4> QED BY <1>b, <3>2, <3>7, <4>1, <4>2 DEF PhaseOK
      <3>10. UNCHANGED <<accepted, begun>>
        BY DEF Fetch
      <3>11. KnownJobs'
        BY <1>d, <3>2, <3>3, <3>5, <3>6, <3>10 DEF KnownJobs
      <3>12. RunningBegun'
        BY <1>a, <1>e, <3>5, <3>7, <3>10 DEF TypeOK, RunningBegun
      <3> QED BY <3>3, <3>8, <3>9, <3>11, <3>12 DEF TypeInv
    <2>4. CASE /\ Fault /\ IterationFailed(w)
               /\ lists[space[w]] # <<>> /\ lists' = LMove(lists, space[w], w)
      <3>1. Alive(w) /\ pc[w] \notin {"lock", "peek", "move", "drop", "release"}
        BY DEF Alive, Fetch
      <3>2. PICK src \in Key : src = space[w] /\ w \in Key /\ src # w
        BY <1>k, <1>b DEF PhaseOK, Fetch
      <3>3. /\ lists' \in [Key -> Seq(Job)] /\ OnePlace(lists')
            /\ \A x \in Job, k \in Key : Contains(lists'[k], x) => \E l \in Key : Contains(lists[l], x)
        <4>1. lists \in [Key -> Seq(Job)] /\ lists[src] # <<>> /\ lists' = LMove(lists, src, w)
          BY <1>a, <2>4, <3>2 DEF TypeOK
        <4>2. /\ lists' \in [Key -> Seq(Job)] /\ OnePlace(lists')
              /\ Contains(lists[src], Head(lists[src]))
              /\ \A x \in Job, k \in Key : Contains(lists'[k], x) =>
                   Contains(lists[k], x) \/ x = Head(lists[src])
          BY <1>c, <3>2, <4>1, MovePlaces
        <4> QED BY <4>2
      <3>4. WorkerTypes' /\ PhaseOK' /\ Forgets
        BY <2>4, <3>1, IterationFailedTypes
      <3>b. faults' \in 0..MaxFaults /\ lapses' \in 0..MaxLapses /\ stops' \in 0..MaxStops
        BY <1>a, <2>4, FaultTypes DEF Fetch
      <3>5. UNCHANGED <<lock, accepted, begun, misjudged, lockLost>>
        BY DEF Fetch
      <3>6. TypeOK'
        BY <1>a, <3>3, <3>4, <3>b, <3>5 DEF TypeOK, WorkerTypes
      <3>7. KnownJobs'
        <4>1. ASSUME NEW k \in Key, NEW x \in Job, Contains(lists'[k], x)
              PROVE  x \in accepted'
          <5>1. PICK l \in Key : Contains(lists[l], x)
            BY <3>3, <4>1
          <5> QED BY <1>d, <3>5, <5>1 DEF KnownJobs
        <4>2. ASSUME NEW v \in Worker, NEW x \in Job, Contains(batch'[v], x)
              PROVE  x \in accepted' \ Malformed
          <5>1. ~Contains(<<>>, x)
            BY DEF Contains
          <5>2. batch'[v] = batch[v]
            BY <3>4, <4>2, <5>1 DEF Forgets
          <5> QED BY <1>d, <3>5, <4>2, <5>2 DEF KnownJobs
        <4> QED BY <4>1, <4>2 DEF KnownJobs
      <3>8. RunningBegun'
        BY <1>e, <3>4, <3>5 DEF Forgets, RunningBegun
      <3> QED BY <3>3, <3>4, <3>6, <3>7, <3>8 DEF TypeInv
    <2> QED BY <2>1, <2>2, <2>3, <2>4 DEF Fetch
  <1>16. ASSUME NEW w \in Worker, EndBatch(w) PROVE TypeInv'
    <2> USE <1>16
    <2>b. faults' \in 0..MaxFaults /\ lapses' \in 0..MaxLapses /\ stops' \in 0..MaxStops
      BY <1>a, FaultTypes DEF EndBatch
    <2>2. pc' \in [Worker -> Phase]
      BY <1>f DEF EndBatch, Phase
    <2>3. TypeOK'
      BY <1>a, <2>b, <2>2 DEF EndBatch, TypeOK
    <2>4. PhaseOK'
      BY <1>a, <1>b DEF EndBatch, TypeOK, PhaseOK
    <2>5. /\ UNCHANGED <<lists, batch, accepted, begun>>
          /\ \A v \in Worker : Running(v)' => Running(v)
      BY <1>a DEF EndBatch, TypeOK
    <2>6. OnePlace(lists)' /\ KnownJobs' /\ RunningBegun'
      BY <2>5, <1>c, <1>d, <1>e DEF KnownJobs, RunningBegun
    <2> QED BY <2>3, <2>4, <2>6 DEF TypeInv
  <1>17. ASSUME NEW w \in Worker, Receive(w) PROVE TypeInv'
    <2> USE <1>17
    <2>1. CASE Fault /\ IterationFailed(w) /\ UNCHANGED <<lists, accepted, begun>>
      <3>1. Alive(w) /\ pc[w] \notin {"lock", "peek", "move", "drop", "release"}
        BY DEF Alive, Receive
      <3>2. WorkerTypes' /\ PhaseOK' /\ Forgets
        BY <2>1, <3>1, IterationFailedTypes
      <3>b. faults' \in 0..MaxFaults /\ lapses' \in 0..MaxLapses /\ stops' \in 0..MaxStops
        BY <1>a, FaultTypes DEF Receive
      <3>3. UNCHANGED <<lock, misjudged, lockLost>>
        BY <2>1 DEF Receive
      <3>4. TypeOK'
        BY <1>a, <2>1, <3>b, <3>2, <3>3 DEF TypeOK, WorkerTypes
      <3>5. OnePlace(lists)' /\ KnownJobs' /\ RunningBegun'
        BY <2>1, <3>2, <3>3, ForgetsKeeps DEF WorkerTypes
      <3> QED BY <3>2, <3>4, <3>5 DEF TypeInv
    <2>2. CASE /\ begun' = begun \cup {Head(batch[w])} /\ GoTo(w, "work")
               /\ UNCHANGED <<heartbeat, loopVars, reclaimVars, runVars, budgets>>
      <3>1. Head(batch[w]) \in Job
        BY <1>a, TailMembers DEF TypeOK, Receive
      <3>b. faults' \in 0..MaxFaults /\ lapses' \in 0..MaxLapses /\ stops' \in 0..MaxStops
        BY <1>a, FaultTypes DEF Receive
      <3>p. pc' \in [Worker -> Phase]
        BY <1>f, <2>2 DEF Phase
      <3>3. TypeOK'
        BY <1>a, <2>2, <3>b, <3>p, <3>1 DEF TypeOK, Receive
      <3>4. PhaseOK'
        BY <1>a, <1>b, <2>2 DEF TypeOK, PhaseOK, Receive
      <3>5. OnePlace(lists)' /\ KnownJobs' /\ RunningBegun'
        BY <1>a, <1>c, <1>d, <1>e, <2>2 DEF TypeOK, KnownJobs, RunningBegun, Receive
      <3> QED BY <3>3, <3>4, <3>5 DEF TypeInv
    <2> QED BY <2>1, <2>2 DEF Receive
  <1>18. ASSUME NEW w \in Worker, Work(w) PROVE TypeInv'
    <2> USE <1>18
    <2>1. CASE Fault /\ IterationFailed(w) /\ UNCHANGED <<lists, accepted, begun>>
      <3>1. Alive(w) /\ pc[w] \notin {"lock", "peek", "move", "drop", "release"}
        BY DEF Alive, Work
      <3>2. WorkerTypes' /\ PhaseOK' /\ Forgets
        BY <2>1, <3>1, IterationFailedTypes
      <3>b. faults' \in 0..MaxFaults /\ lapses' \in 0..MaxLapses /\ stops' \in 0..MaxStops
        BY <1>a, FaultTypes DEF Work
      <3>3. UNCHANGED <<lock, misjudged, lockLost>>
        BY <2>1 DEF Work
      <3>4. TypeOK'
        BY <1>a, <2>1, <3>b, <3>2, <3>3 DEF TypeOK, WorkerTypes
      <3>5. OnePlace(lists)' /\ KnownJobs' /\ RunningBegun'
        BY <2>1, <3>2, <3>3, ForgetsKeeps DEF WorkerTypes
      <3> QED BY <3>2, <3>4, <3>5 DEF TypeInv
    <2>2. CASE /\ GoTo(w, "ack") \/ GoTo(w, "nack")
               /\ UNCHANGED <<heartbeat, loopVars, reclaimVars, runVars>>
      <3>b. faults' \in 0..MaxFaults /\ lapses' \in 0..MaxLapses /\ stops' \in 0..MaxStops
        BY <1>a, FaultTypes DEF Work
      <3>p. pc' \in [Worker -> Phase]
        BY <1>f, <2>2 DEF Phase
      <3>r. UNCHANGED <<lists, heartbeat, lock, iteration, errors, todo, target, peeked,
                        spaces, space, room, batch, accepted, begun, misjudged, lockLost>>
        BY <2>2 DEF Work
      <3>3. TypeOK'
        BY <1>a, <3>b, <3>p, <3>r DEF TypeOK
      <3>4. PhaseOK'
        <4>1. UNCHANGED <<errors, todo, target, peeked, space, room, batch>>
          BY <2>2, <3>r
        <4>2. /\ pc[w] = "work" /\ \A v \in Worker \ {w} : pc'[v] = pc[v]
              /\ pc'[w] \in {"ack", "nack"}
          BY <1>f, <2>2 DEF Work
        <4> QED BY <1>b, <4>1, <4>2 DEF PhaseOK
      <3>5. OnePlace(lists)' /\ KnownJobs' /\ RunningBegun'
        BY <1>a, <1>c, <1>d, <1>e, <2>2 DEF TypeOK, KnownJobs, RunningBegun, Work
      <3> QED BY <3>3, <3>4, <3>5 DEF TypeInv
    <2> QED BY <2>1, <2>2 DEF Work
  <1>19. ASSUME NEW w \in Worker, Complete(w) PROVE TypeInv'
    <2> USE <1>19
    <2>1. /\ Head(batch[w]) \in Job
          /\ Tail(batch[w]) \in Seq(Job)
          /\ \A x : Contains(Tail(batch[w]), x) => Contains(batch[w], x)
      BY <1>a, <1>b, TailMembers DEF TypeOK, PhaseOK, Complete
    <2>2. /\ lists' \in [Key -> Seq(Job)] /\ OnePlace(lists')
          /\ \A x \in Job, k \in Key : Contains(lists'[k], x) => Contains(lists[k], x)
      <3>1. CASE lists' = [lists EXCEPT ![w] = LRem(@, Head(batch[w]))]
        BY <1>a, <1>c, <1>k, <2>1, <3>1, RemovePlaces DEF TypeOK
      <3>2. CASE lists' = lists
        BY <1>a, <1>c, <3>2 DEF TypeOK
      <3> QED BY <3>1, <3>2 DEF Complete
    <2>b. faults' \in 0..MaxFaults /\ lapses' \in 0..MaxLapses /\ stops' \in 0..MaxStops
      BY <1>a, FaultTypes DEF Complete
    <2>3. batch' \in [Worker -> Seq(Job)] /\ pc' \in [Worker -> Phase]
      BY <1>a, <1>f, <2>1 DEF TypeOK, Complete, Phase
    <2>4. TypeOK'
      BY <1>a, <2>2, <2>3, <2>b DEF TypeOK, Complete
    <2>5. PhaseOK'
      BY <1>a, <1>b DEF TypeOK, PhaseOK, Complete
    <2>6. KnownJobs'
      BY <1>a, <1>d, <2>1, <2>2 DEF KnownJobs, TypeOK, Complete
    <2>7. RunningBegun'
      BY <1>a, <1>e DEF TypeOK, RunningBegun, Complete
    <2> QED BY <2>2, <2>4, <2>5, <2>6, <2>7 DEF TypeInv
  <1>20. ASSUME NEW w \in Worker, CompleteFailed(w) PROVE TypeInv'
    <2> USE <1>20
    <2>1. /\ Head(batch[w]) \in Job
          /\ Tail(batch[w]) \in Seq(Job)
          /\ \A x : Contains(Tail(batch[w]), x) => Contains(batch[w], x)
      BY <1>a, <1>b, TailMembers DEF TypeOK, PhaseOK, CompleteFailed
    <2>2. /\ lists' \in [Key -> Seq(Job)] /\ OnePlace(lists')
          /\ \A x \in Job, k \in Key : Contains(lists'[k], x) => Contains(lists[k], x)
      <3>1. CASE lists' = [lists EXCEPT ![w] = LRem(@, Head(batch[w]))]
        BY <1>a, <1>c, <1>k, <2>1, <3>1, RemovePlaces DEF TypeOK
      <3>2. CASE lists' = lists
        BY <1>a, <1>c, <3>2 DEF TypeOK
      <3> QED BY <3>1, <3>2 DEF CompleteFailed
    <2>3. WorkerTypes' /\ PhaseOK' /\ Forgets
      BY IterationFailedTypes DEF Alive, CompleteFailed
    <2>b. faults' \in 0..MaxFaults /\ lapses' \in 0..MaxLapses /\ stops' \in 0..MaxStops
      BY <1>a, FaultTypes DEF CompleteFailed
    <2>4. UNCHANGED <<lock, history>>
      BY DEF CompleteFailed
    <2>5. TypeOK'
      BY <1>a, <2>b, <2>2, <2>3, <2>4 DEF TypeOK, WorkerTypes
    <2>6. KnownJobs'
      BY <1>d, <2>2, <2>3 DEF KnownJobs, Forgets, Contains, CompleteFailed
    <2>7. RunningBegun'
      BY <1>e, <2>3 DEF Forgets, RunningBegun, CompleteFailed
    <2> QED BY <2>2, <2>3, <2>5, <2>6, <2>7 DEF TypeInv
  <1>21. ASSUME NEW w \in Worker, Kill(w) PROVE TypeInv'
    <2> USE <1>21
    <2>1. Halt(w) /\ PhaseOK' /\ Forgets
      BY HaltTypes DEF Kill, loopVars
    <2>b. stops' \in 0..MaxStops
      BY <1>a DEF TypeOK, Kill
    <2>2. TypeOK'
      BY <1>a, <2>b, HaltTypes DEF TypeOK, Kill
    <2>3. OnePlace(lists)' /\ KnownJobs' /\ RunningBegun'
      BY <2>1, <2>2, ForgetsKeeps DEF TypeOK, Kill
    <2> QED BY <2>1, <2>2, <2>3 DEF TypeInv
  <1>22. ASSUME NEW w \in Worker, Interrupt(w) PROVE TypeInv'
    <2> USE <1>22
    <2>2. /\ lists' \in [Key -> Seq(Job)] /\ OnePlace(lists')
          /\ \A x \in Job, k \in Key : Contains(lists'[k], x) => Contains(lists[k], x)
      <3>1. CASE Running(w) /\ lists' = [lists EXCEPT ![w] = LRem(@, Head(batch[w]))]
        <4>1. Head(batch[w]) \in Job
          BY <1>a, <1>b, <3>1, TailMembers DEF TypeOK, PhaseOK
        <4> QED BY <1>a, <1>c, <1>k, <3>1, <4>1, RemovePlaces DEF TypeOK
      <3>2. CASE lists' = lists
        BY <1>a, <1>c, <3>2 DEF TypeOK
      <3> QED BY <3>1, <3>2 DEF Interrupt
    <2>3. Halt(w) /\ PhaseOK' /\ Forgets
      BY HaltTypes DEF Interrupt, loopVars
    <2>4. lock' \in [Worker -> Worker \cup {None}] /\ heartbeat' \subseteq Worker
      BY <1>a, <1>b DEF TypeOK, PhaseOK, Reclaiming, Interrupt
    <2>b. stops' \in 0..MaxStops
      BY <1>a DEF TypeOK, Interrupt
    <2>5. TypeOK'
      BY <1>a, <2>b, <2>2, <2>4, HaltTypes DEF TypeOK, Interrupt
    <2>6. KnownJobs'
      BY <1>d, <2>2, <2>3 DEF KnownJobs, Forgets, Contains, Interrupt
    <2>7. RunningBegun'
      BY <1>e, <2>3 DEF Forgets, RunningBegun, Interrupt
    <2> QED BY <2>2, <2>3, <2>5, <2>6, <2>7 DEF TypeInv
  <1>23. ASSUME NEW w \in Worker, HeartbeatExpires(w) PROVE TypeInv'
    <2> USE <1>23
    <2>b. faults' \in 0..MaxFaults /\ lapses' \in 0..MaxLapses /\ stops' \in 0..MaxStops
      BY <1>a DEF HeartbeatExpires, TypeOK
    <2>2. pc' \in [Worker -> Phase]
      BY <1>f DEF HeartbeatExpires, Phase
    <2>3. TypeOK'
      BY <1>a, <2>b, <2>2 DEF HeartbeatExpires, TypeOK
    <2>4. PhaseOK'
      BY <1>a, <1>b DEF HeartbeatExpires, TypeOK, PhaseOK
    <2>5. /\ UNCHANGED <<lists, batch, accepted, begun>>
          /\ \A v \in Worker : Running(v)' => Running(v)
      BY <1>a DEF HeartbeatExpires, TypeOK
    <2>6. OnePlace(lists)' /\ KnownJobs' /\ RunningBegun'
      BY <2>5, <1>c, <1>d, <1>e DEF KnownJobs, RunningBegun
    <2> QED BY <2>3, <2>4, <2>6 DEF TypeInv
  <1>24. ASSUME NEW w \in Worker, LockExpires(w) PROVE TypeInv'
    <2> USE <1>24
    <2>b. faults' \in 0..MaxFaults /\ lapses' \in 0..MaxLapses /\ stops' \in 0..MaxStops
      BY <1>a DEF LockExpires, TypeOK
    <2>2. pc' \in [Worker -> Phase]
      BY <1>f DEF LockExpires, Phase
    <2>3. TypeOK'
      BY <1>a, <2>b, <2>2 DEF LockExpires, TypeOK
    <2>4. PhaseOK'
      BY <1>a, <1>b DEF LockExpires, TypeOK, PhaseOK
    <2>5. /\ UNCHANGED <<lists, batch, accepted, begun>>
          /\ \A v \in Worker : Running(v)' => Running(v)
      BY <1>a DEF LockExpires, TypeOK
    <2>6. OnePlace(lists)' /\ KnownJobs' /\ RunningBegun'
      BY <2>5, <1>c, <1>d, <1>e DEF KnownJobs, RunningBegun
    <2> QED BY <2>3, <2>4, <2>6 DEF TypeInv
  <1>25. CASE UNCHANGED vars
    <2>1. TypeOK'
      BY <1>a, <1>25 DEF TypeOK, vars, budgets
    <2>2. PhaseOK'
      BY <1>b, <1>25 DEF PhaseOK, vars
    <2>3. OnePlace(lists)' /\ KnownJobs' /\ RunningBegun'
      BY <1>c, <1>d, <1>e, <1>25 DEF KnownJobs, RunningBegun, vars
    <2> QED BY <2>1, <2>2, <2>3 DEF TypeInv
  <1> QED
    BY <1>1, <1>2, <1>3, <1>4, <1>5, <1>6, <1>7, <1>8, <1>9, <1>10,
       <1>11, <1>12, <1>13, <1>14, <1>15, <1>16, <1>17, <1>18, <1>19,
       <1>20, <1>21, <1>22, <1>23, <1>24, <1>25
    DEF Next, WorkerStep, ReclaimStep, RunStep

\* Every variable keeps its type, for any number of workers and jobs.
THEOREM TypeCorrect == Spec => []TypeOK
  <1>1. TypeInv => TypeOK
    BY DEF TypeInv
  <1> QED BY InitTypeInv, NextTypeInv, <1>1, PTL DEF Spec

-----------------------------------------------------------------------------
(* The queue implements JobContract.                                       *)

StoredJobs == {j \in Job : Stored(j)}

\* Only LREM takes a job out of Redis; an LMOVE never does.
LEMMA StoredAfterRemove ==
  ASSUME TypeInv, NEW k \in Key, NEW j \in Job,
         lists' = [lists EXCEPT ![k] = LRem(@, j)]
  PROVE  \/ StoredJobs' = StoredJobs
         \/ j \in StoredJobs /\ StoredJobs' = StoredJobs \ {j}
  <1>1. /\ OnePlace(lists)
        /\ \A l \in Key, x \in Job :
             Contains(lists'[l], x) <=> Contains(lists[l], x) /\ ~(l = k /\ x = j)
    BY RemovePlaces DEF TypeInv, TypeOK
  <1>2. CASE Contains(lists[k], j)
    <2>1. j \in StoredJobs /\ j \notin StoredJobs'
      BY <1>1, <1>2 DEF StoredJobs, Stored, OnePlace
    <2>2. \A x \in Job \ {j} : x \in StoredJobs' <=> x \in StoredJobs
      BY <1>1 DEF StoredJobs, Stored
    <2> QED BY <2>1, <2>2 DEF StoredJobs
  <1>3. CASE ~Contains(lists[k], j)
    <2>1. \A x \in Job : x \in StoredJobs' <=> x \in StoredJobs
      BY <1>1, <1>3 DEF StoredJobs, Stored
    <2> QED BY <2>1 DEF StoredJobs
  <1> QED BY <1>2, <1>3

\* LMOVE changes no entry that is stored.
LEMMA StoredAfterMove ==
  ASSUME TypeInv, NEW src \in Key, NEW dst \in Key, src # dst, lists[src] # <<>>,
         lists' = LMove(lists, src, dst)
  PROVE  StoredJobs' = StoredJobs
  <1>1. PICK j \in Job :
          /\ Contains(lists[src], j)
          /\ \A l \in Key, x \in Job :
               Contains(lists'[l], x) <=> IF x = j THEN l = dst ELSE Contains(lists[l], x)
    <2>1. lists \in [Key -> Seq(Job)] /\ OnePlace(lists)
      BY DEF TypeInv, TypeOK
    <2>2. /\ Head(lists[src]) \in Job
          /\ Contains(lists[src], Head(lists[src]))
          /\ \A l \in Key, x \in Job :
               Contains(LMove(lists, src, dst)[l], x) <=>
                 IF x = Head(lists[src]) THEN l = dst ELSE Contains(lists[l], x)
      BY <2>1, MovePlaces
    <2> QED BY <2>2
  <1>2. \A x \in Job : x \in StoredJobs' <=> x \in StoredJobs
    BY <1>1 DEF StoredJobs, Stored
  <1> QED BY <1>2 DEF StoredJobs

\* The queue begins as its contract does.
LEMMA ContractInit == Init => Contract!Init
  BY DEF Init, Contract!Init, Stored, Contains

\* Every step of the queue is a step of the contract, or changes nothing in it.
LEMMA ContractStep == TypeInv /\ [Next]_vars => [Contract!Next]_(Contract!vars)
  <1> SUFFICES ASSUME TypeInv, [Next]_vars
               PROVE  [Contract!Next]_(Contract!vars)
    OBVIOUS
  <1> USE DEF history, redisVars
  <1>k. Workspace \subseteq Key /\ Worker \subseteq Key /\ Workspace \cap Worker = {}
    BY QueueAssumption DEF Key
  <1>s. ASSUME StoredJobs' = StoredJobs, accepted' = accepted, begun' = begun
        PROVE  [Contract!Next]_(Contract!vars)
    BY <1>s DEF Contract!vars, StoredJobs
  <1>r. ASSUME NEW k \in Key, NEW j \in Job, j \in begun \cup Malformed,
               \/ lists' = [lists EXCEPT ![k] = LRem(@, j)]
               \/ lists' = lists,
               accepted' = accepted, begun' = begun
        PROVE  [Contract!Next]_(Contract!vars)
    <2>1. CASE StoredJobs' = StoredJobs
      BY <1>r, <1>s, <2>1
    <2>2. CASE j \in StoredJobs /\ StoredJobs' = StoredJobs \ {j}
      <3>1. Contract!Retire(j)
        BY <1>r, <2>2 DEF Contract!Retire, StoredJobs
      <3> QED BY <3>1 DEF Contract!Next
    <2>3. CASE lists' = lists
      BY <1>r, <1>s, <2>3 DEF StoredJobs, Stored
    <2> QED BY <1>r, <2>1, <2>2, <2>3, StoredAfterRemove
  <1>q. ASSUME lists' = lists, accepted' = accepted, begun' = begun
        PROVE  [Contract!Next]_(Contract!vars)
    BY <1>q, <1>s DEF StoredJobs, Stored
  <1>1. ASSUME NEW j \in Job, Enqueue(j) PROVE [Contract!Next]_(Contract!vars)
    <2>1. PICK home \in Key : home = WorkspaceOf[j]
      BY <1>k, QueueAssumption
    <2>2. lists' = [lists EXCEPT ![home] = Append(@, j)]
      BY <1>1, <2>1 DEF Enqueue
    <2>3. \A l \in Key, x \in Job :
            Contains(lists'[l], x) <=> Contains(lists[l], x) \/ (l = home /\ x = j)
      <3>1. \A l \in Key : ~Contains(lists[l], j)
        BY <1>1 DEF TypeInv, KnownJobs, Enqueue
      <3>2. lists \in [Key -> Seq(Job)] /\ OnePlace(lists)
        BY DEF TypeInv, TypeOK
      <3>3. LET new == [lists EXCEPT ![home] = Append(@, j)]
            IN  \A l \in Key, x \in Job :
                  Contains(new[l], x) <=> Contains(lists[l], x) \/ (l = home /\ x = j)
        BY <3>1, <3>2, PushPlaces
      <3> QED BY <2>2, <3>3
    <2>4. StoredJobs' = StoredJobs \cup {j}
      BY <2>3 DEF StoredJobs, Stored
    <2>5. Contract!Accept(j)
      BY <1>1, <2>4 DEF Contract!Accept, Enqueue, StoredJobs
    <2> QED BY <2>5 DEF Contract!Next
  <1>2. ASSUME NEW w \in Worker, Receive(w) PROVE [Contract!Next]_(Contract!vars)
    <2>1. CASE begun' = begun
      BY <1>2, <1>q, <2>1 DEF Receive
    <2>2. CASE begun' = begun \cup {Head(batch[w])}
      <3>1. Contains(batch[w], Head(batch[w])) /\ Head(batch[w]) \in Job
        BY <1>2, TailMembers DEF TypeInv, TypeOK, Receive
      <3>2. Head(batch[w]) \in accepted \ Malformed
        BY <3>1 DEF TypeInv, KnownJobs
      <3>3. StoredJobs' = StoredJobs
        BY <1>2 DEF StoredJobs, Stored, Receive
      <3>4. Contract!Begin(Head(batch[w]))
        BY <1>2, <2>2, <3>2, <3>3 DEF Contract!Begin, Receive, StoredJobs
      <3> QED BY <3>1, <3>4 DEF Contract!Next
    <2> QED BY <1>2, <2>1, <2>2 DEF Receive
  <1>3. ASSUME NEW w \in Worker, Fetch(w) PROVE [Contract!Next]_(Contract!vars)
    <2>1. CASE lists[space[w]] # <<>> /\ lists' = LMove(lists, space[w], w)
      <3>1. space[w] \in Key /\ w \in Key /\ space[w] # w
        BY <1>3, <1>k DEF TypeInv, PhaseOK, Fetch
      <3>2. StoredJobs' = StoredJobs
        BY <2>1, <3>1, StoredAfterMove
      <3> QED BY <1>3, <1>s, <3>2 DEF Fetch
    <2>2. CASE lists' = lists
      BY <1>3, <1>q, <2>2 DEF Fetch
    <2> QED BY <1>3, <2>1, <2>2 DEF Fetch
  <1>4. ASSUME NEW w \in Worker, MoveTail(w) PROVE [Contract!Next]_(Contract!vars)
    <2>1. PICK home \in Key, dead \in Key :
            home = HomeQueue(peeked[w]) /\ dead = target[w] /\ dead # home
      <3>1. target[w] \in Worker /\ peeked[w] \in Job
        BY <1>4 DEF TypeInv, PhaseOK, MoveTail
      <3> QED BY <1>k, <3>1, QueueAssumption DEF HomeQueue
    <2>2. CASE lists[dead] # <<>> /\ lists' = LMove(lists, dead, home)
      <3>1. StoredJobs' = StoredJobs
        BY <2>1, <2>2, StoredAfterMove
      <3> QED BY <1>4, <1>s, <3>1 DEF MoveTail
    <2>3. CASE lists' = lists
      BY <1>4, <1>q, <2>3 DEF MoveTail
    <2> QED BY <1>4, <2>1, <2>2, <2>3 DEF MoveTail
  <1>5. ASSUME NEW w \in Worker, DropMalformed(w) PROVE [Contract!Next]_(Contract!vars)
    <2>1. target[w] \in Key /\ peeked[w] \in Malformed /\ peeked[w] \in Job
      BY <1>5, <1>k, QueueAssumption DEF TypeInv, PhaseOK, DropMalformed
    <2> QED BY <1>5, <1>r, <2>1 DEF DropMalformed
  <1>6. ASSUME NEW w \in Worker, Running(w) PROVE Head(batch[w]) \in begun /\ Head(batch[w]) \in Job
    BY <1>6 DEF TypeInv, TypeOK, RunningBegun
  <1>7. ASSUME NEW w \in Worker, Complete(w) \/ CompleteFailed(w)
        PROVE  [Contract!Next]_(Contract!vars)
    <2>1. Head(batch[w]) \in begun /\ Head(batch[w]) \in Job /\ w \in Key
      BY <1>6, <1>7, <1>k DEF Complete, CompleteFailed, Running
    <2> QED BY <1>7, <1>r, <2>1 DEF Complete, CompleteFailed
  <1>8. ASSUME NEW w \in Worker, Interrupt(w) PROVE [Contract!Next]_(Contract!vars)
    <2>1. CASE Running(w)
      <3>1. Head(batch[w]) \in begun /\ Head(batch[w]) \in Job /\ w \in Key
        BY <1>6, <1>k, <2>1
      <3> QED BY <1>8, <1>r, <2>1, <3>1 DEF Interrupt, Running
    <2>2. CASE ~Running(w)
      BY <1>8, <1>q, <2>2 DEF Interrupt, Running
    <2> QED BY <2>1, <2>2
  <1>9. ASSUME NEW w \in Worker, NEW v \in Worker, Visit(w, v)
        PROVE  [Contract!Next]_(Contract!vars)
    BY <1>9, <1>q DEF Visit
  <1>10. ASSUME NEW w \in Worker, NEW s \in Workspace, PickWorkspace(w, s)
         PROVE  [Contract!Next]_(Contract!vars)
    BY <1>10, <1>q DEF PickWorkspace
  <1>11. ASSUME NEW w \in Worker, Start(w) PROVE [Contract!Next]_(Contract!vars)
    BY <1>11, <1>q DEF Start
  <1>12. ASSUME NEW w \in Worker, BeginIteration(w) PROVE [Contract!Next]_(Contract!vars)
    BY <1>12, <1>q DEF BeginIteration
  <1>13. ASSUME NEW w \in Worker, Discover(w) PROVE [Contract!Next]_(Contract!vars)
    BY <1>13, <1>q DEF Discover
  <1>14. ASSUME NEW w \in Worker, EndReclaim(w) PROVE [Contract!Next]_(Contract!vars)
    BY <1>14, <1>q DEF EndReclaim
  <1>15. ASSUME NEW w \in Worker, AcquireReclaimLock(w) PROVE [Contract!Next]_(Contract!vars)
    BY <1>15, <1>q DEF AcquireReclaimLock
  <1>16. ASSUME NEW w \in Worker, PeekTail(w) PROVE [Contract!Next]_(Contract!vars)
    BY <1>16, <1>q DEF PeekTail
  <1>17. ASSUME NEW w \in Worker, ReleaseReclaimLock(w) PROVE [Contract!Next]_(Contract!vars)
    BY <1>17, <1>q DEF ReleaseReclaimLock
  <1>18. ASSUME NEW w \in Worker, EndIteration(w) PROVE [Contract!Next]_(Contract!vars)
    BY <1>18, <1>q DEF EndIteration
  <1>19. ASSUME NEW w \in Worker, EndBatch(w) PROVE [Contract!Next]_(Contract!vars)
    BY <1>19, <1>q DEF EndBatch
  <1>20. ASSUME NEW w \in Worker, Kill(w) PROVE [Contract!Next]_(Contract!vars)
    BY <1>20, <1>q DEF Kill
  <1>21. ASSUME NEW w \in Worker, HeartbeatExpires(w) PROVE [Contract!Next]_(Contract!vars)
    BY <1>21, <1>q DEF HeartbeatExpires
  <1>22. ASSUME NEW w \in Worker, LockExpires(w) PROVE [Contract!Next]_(Contract!vars)
    BY <1>22, <1>q DEF LockExpires
  <1>23. ASSUME NEW w \in Worker, SelectWorkspaces(w) PROVE [Contract!Next]_(Contract!vars)
    BY <1>23, <1>q DEF SelectWorkspaces
  <1>24. ASSUME NEW w \in Worker, Work(w) PROVE [Contract!Next]_(Contract!vars)
    BY <1>24, <1>q DEF Work
  <1>25. CASE UNCHANGED vars
    BY <1>25, <1>q DEF vars
  <1> QED
    BY <1>1, <1>2, <1>3, <1>4, <1>5, <1>7, <1>8, <1>9, <1>10, <1>11,
       <1>12, <1>13, <1>14, <1>15, <1>16, <1>17, <1>18, <1>19, <1>20,
       <1>21, <1>22, <1>23, <1>24, <1>25
    DEF Next, WorkerStep, ReclaimStep, RunStep

\* The strengthened types hold always.
LEMMA TypeInvariant == Spec => []TypeInv
  BY InitTypeInv, NextTypeInv, PTL DEF Spec

\* The lists, locks and heartbeats together keep the contract: an entry leaves
\* Redis only after its run has begun or because it cannot be parsed.
THEOREM QueueImplementsContract == Spec => ImplementsContract
  BY TypeInvariant, ContractInit, ContractStep, PTL
  DEF Spec, ImplementsContract, Contract!Spec

\* No kill, fault or lapse leaves an accepted job that was not begun in a
\* worker's memory only: the contract alone implies it.
THEOREM NothingLost == Spec => []NoJobLost
  <1>1. Init => NoJobLost
    BY DEF Init, NoJobLost
  <1>2. NoJobLost /\ [Contract!Next]_(Contract!vars) => NoJobLost'
    BY DEF NoJobLost, Contract!Next, Contract!vars, Contract!Accept, Contract!Begin,
           Contract!Retire
  <1> QED BY TypeInvariant, ContractStep, <1>1, <1>2, PTL DEF Spec

-----------------------------------------------------------------------------
(* The reclaim lock: one reclaimer per processing list.                    *)

\* What a failed iteration or the end of a process does to a worker's memory.
LEMMA HaltEffect ==
  ASSUME TypeInv, NEW w \in Worker, Halt(w)
  PROVE  /\ pc' = [pc EXCEPT ![w] = "stopped"]
         /\ batch' = [batch EXCEPT ![w] = <<>>]
         /\ \A v \in Worker :
              /\ target'[v] = target[v] \/ (v = w /\ target'[v] = None)
              /\ todo'[v] = todo[v] \/ (v = w /\ todo'[v] = {})
              /\ peeked'[v] = peeked[v] \/ v = w
  BY DEF TypeInv, TypeOK, Halt, GoTo

\* What an iteration that failed does to the locals of the workers.
LEMMA FailedEffect ==
  ASSUME TypeInv, NEW w \in Worker, IterationFailed(w)
  PROVE  \E phase \in {"idle", "stopped"} :
           /\ pc' = [pc EXCEPT ![w] = phase]
           /\ batch' = [batch EXCEPT ![w] = <<>>]
           /\ \A v \in Worker :
                /\ target'[v] = target[v] \/ (v = w /\ target'[v] = None)
                /\ todo'[v] = todo[v] \/ (v = w /\ todo'[v] = {})
                /\ peeked'[v] = peeked[v] \/ v = w
  <1>1. CASE Halt(w)
    BY <1>1, HaltEffect
  <1>2. CASE GoTo(w, "idle") /\ batch' = [batch EXCEPT ![w] = <<>>]
             /\ UNCHANGED <<todo, target, peeked>>
    BY <1>2 DEF TypeInv, TypeOK, GoTo
  <1> QED BY <1>1, <1>2 DEF IterationFailed, reclaimVars

\* A worker between acquiring and releasing a reclaim lock holds it, unless the
\* lock of some reclaimer has run out.
LockHeld ==
  \A w \in Worker : Reclaiming(w) => lockLost \/ lock[target[w]] = w

\* Every step keeps LockHeld.
LEMMA NextLockHeld == TypeInv /\ LockHeld /\ [Next]_vars => LockHeld'
  <1> SUFFICES ASSUME TypeInv, LockHeld, [Next]_vars PROVE LockHeld'
    OBVIOUS
  <1>a. pc \in [Worker -> Phase]
    BY DEF TypeInv, TypeOK
  <1>b. /\ target \in [Worker -> Worker \cup {None}]
        /\ lock \in [Worker -> Worker \cup {None}]
        /\ \A w \in Worker : Reclaiming(w) \/ pc[w] = "lock" => target[w] \in Worker
    BY DEF TypeInv, TypeOK, PhaseOK, Reclaiming
  <1> USE DEF GoTo, NextTarget, Reclaiming, redisVars, reclaimVars, history, runVars
  <1>1. ASSUME NEW j \in Job, Enqueue(j) PROVE LockHeld'
    BY <1>a, <1>b, <1>1 DEF Enqueue, LockHeld
  <1>2. ASSUME NEW w \in Worker, Start(w) PROVE LockHeld'
    BY <1>a, <1>b, <1>2 DEF Start, LockHeld
  <1>3. ASSUME NEW w \in Worker, BeginIteration(w) PROVE LockHeld'
    BY <1>a, <1>b, <1>3 DEF BeginIteration, LockHeld
  <1>4. ASSUME NEW w \in Worker, Discover(w) PROVE LockHeld'
    BY <1>a, <1>b, <1>4 DEF Discover, LockHeld
  <1>5. ASSUME NEW w \in Worker, NEW v \in Worker, Visit(w, v) PROVE LockHeld'
    BY <1>a, <1>b, <1>5 DEF Visit, LockHeld
  <1>6. ASSUME NEW w \in Worker, EndReclaim(w) PROVE LockHeld'
    BY <1>a, <1>b, <1>6 DEF EndReclaim, LockHeld
  <1>7. ASSUME NEW w \in Worker, AcquireReclaimLock(w) PROVE LockHeld'
    <2>1. CASE /\ lock[target[w]] = None /\ lock' = [lock EXCEPT ![target[w]] = w]
               /\ pc' = [pc EXCEPT ![w] = "peek"] /\ target' = target
      BY <1>a, <1>b, <1>7, <2>1, QueueAssumption DEF AcquireReclaimLock, LockHeld
    <2>2. CASE /\ lock' = lock /\ pc' = [pc EXCEPT ![w] = "visit"]
               /\ target' = [target EXCEPT ![w] = None]
      BY <1>a, <1>b, <1>7, <2>2 DEF AcquireReclaimLock, LockHeld
    <2>3. CASE /\ lock[target[w]] = None /\ lock' = [lock EXCEPT ![target[w]] = w]
               /\ pc' = [pc EXCEPT ![w] = "visit"]
               /\ target' = [target EXCEPT ![w] = None]
      BY <1>a, <1>b, <1>7, <2>3, QueueAssumption DEF AcquireReclaimLock, LockHeld
    <2> QED BY <1>7, <2>1, <2>2, <2>3 DEF AcquireReclaimLock, LockFree
  <1>8. ASSUME NEW w \in Worker, PeekTail(w) PROVE LockHeld'
    BY <1>a, <1>b, <1>8 DEF PeekTail, LockHeld
  <1>9. ASSUME NEW w \in Worker, DropMalformed(w) PROVE LockHeld'
    BY <1>a, <1>b, <1>9 DEF DropMalformed, LockHeld
  <1>10. ASSUME NEW w \in Worker, MoveTail(w) PROVE LockHeld'
    BY <1>a, <1>b, <1>10 DEF MoveTail, LockHeld
  <1>11. ASSUME NEW w \in Worker, ReleaseReclaimLock(w) PROVE LockHeld'
    BY <1>a, <1>b, <1>11 DEF ReleaseReclaimLock, LockHeld
  <1>12. ASSUME NEW w \in Worker, SelectWorkspaces(w) PROVE LockHeld'
    <2>1. CASE IterationFailed(w) /\ UNCHANGED <<lock, lockLost>>
      BY <1>a, <1>b, <1>12, <2>1, FailedEffect DEF LockHeld
    <2>2. CASE ~IterationFailed(w)
      BY <1>a, <1>b, <1>12, <2>2 DEF SelectWorkspaces, LockHeld
    <2> QED BY <1>12, <2>1, <2>2 DEF SelectWorkspaces
  <1>13. ASSUME NEW w \in Worker, NEW s \in Workspace, PickWorkspace(w, s) PROVE LockHeld'
    BY <1>a, <1>b, <1>13 DEF PickWorkspace, LockHeld
  <1>14. ASSUME NEW w \in Worker, EndIteration(w) PROVE LockHeld'
    BY <1>a, <1>b, <1>14 DEF EndIteration, LockHeld
  <1>15. ASSUME NEW w \in Worker, Fetch(w) PROVE LockHeld'
    <2>1. CASE IterationFailed(w) /\ UNCHANGED <<lock, lockLost>>
      BY <1>a, <1>b, <1>15, <2>1, FailedEffect DEF LockHeld
    <2>2. CASE ~IterationFailed(w)
      BY <1>a, <1>b, <1>15, <2>2 DEF Fetch, LockHeld
    <2> QED BY <1>15, <2>1, <2>2 DEF Fetch
  <1>16. ASSUME NEW w \in Worker, EndBatch(w) PROVE LockHeld'
    BY <1>a, <1>b, <1>16 DEF EndBatch, LockHeld
  <1>17. ASSUME NEW w \in Worker, Receive(w) PROVE LockHeld'
    <2>1. CASE IterationFailed(w) /\ UNCHANGED <<lock, lockLost>>
      BY <1>a, <1>b, <1>17, <2>1, FailedEffect DEF LockHeld
    <2>2. CASE ~IterationFailed(w)
      BY <1>a, <1>b, <1>17, <2>2 DEF Receive, LockHeld
    <2> QED BY <1>17, <2>1, <2>2 DEF Receive
  <1>18. ASSUME NEW w \in Worker, Work(w) PROVE LockHeld'
    <2>1. CASE IterationFailed(w) /\ UNCHANGED <<lock, lockLost>>
      BY <1>a, <1>b, <1>18, <2>1, FailedEffect DEF LockHeld
    <2>2. CASE ~IterationFailed(w)
      BY <1>a, <1>b, <1>18, <2>2 DEF Work, LockHeld
    <2> QED BY <1>18, <2>1, <2>2 DEF Work
  <1>19. ASSUME NEW w \in Worker, Complete(w) PROVE LockHeld'
    BY <1>a, <1>b, <1>19 DEF Complete, LockHeld
  <1>20. ASSUME NEW w \in Worker, CompleteFailed(w) PROVE LockHeld'
    <2>1. IterationFailed(w) /\ UNCHANGED <<lock, lockLost>>
      BY <1>20 DEF CompleteFailed
    <2> QED BY <1>a, <1>b, <2>1, FailedEffect DEF LockHeld
  <1>21. ASSUME NEW w \in Worker, Kill(w) PROVE LockHeld'
    <2>1. Halt(w) /\ UNCHANGED <<lock, lockLost>>
      BY <1>21 DEF Kill
    <2> QED BY <1>a, <1>b, <2>1, HaltEffect DEF LockHeld
  <1>22. ASSUME NEW w \in Worker, Interrupt(w) PROVE LockHeld'
    <2>1. Halt(w) /\ lockLost' = lockLost
      BY <1>22 DEF Interrupt
    <2>2. \A v \in Worker : lock'[v] = lock[v] \/ lock[v] = w
      BY <1>b, <1>22 DEF Interrupt
    <2> QED BY <1>a, <1>b, <2>1, <2>2, HaltEffect DEF LockHeld
  <1>23. ASSUME NEW w \in Worker, HeartbeatExpires(w) PROVE LockHeld'
    BY <1>a, <1>b, <1>23 DEF HeartbeatExpires, LockHeld
  <1>24. ASSUME NEW w \in Worker, LockExpires(w) PROVE LockHeld'
    BY <1>a, <1>b, <1>24 DEF LockExpires, LockHeld
  <1>25. CASE UNCHANGED vars
    BY <1>25 DEF vars, LockHeld
  <1> QED
    BY <1>1, <1>2, <1>3, <1>4, <1>5, <1>6, <1>7, <1>8, <1>9, <1>10,
       <1>11, <1>12, <1>13, <1>14, <1>15, <1>16, <1>17, <1>18, <1>19,
       <1>20, <1>21, <1>22, <1>23, <1>24, <1>25
    DEF Next, WorkerStep, ReclaimStep, RunStep

\* One reclaimer per processing list, as long as no reclaim lock runs out.
THEOREM OneReclaimer == Spec => []SingleReclaimer
  <1>1. Init => LockHeld
    BY DEF Init, LockHeld, Reclaiming
  <1>2. LockHeld => SingleReclaimer
    BY DEF LockHeld, SingleReclaimer
  <1> QED BY TypeInvariant, NextLockHeld, <1>1, <1>2, PTL DEF Spec

-----------------------------------------------------------------------------
(* Whose lists are reclaimed, and what a worker that is not reclaimed from *)
(* can rely on.                                                            *)

\* Only the lists of stopped or misjudged workers are reclaimed.
Justified ==
  /\ \A v \in Worker : pc[v] = "new" => lists[v] = <<>> /\ v \notin misjudged
  /\ \A v, w \in Worker : v \in todo[w] => pc[v] # "new"
  /\ \A v, w \in Worker : target[w] = v => pc[v] = "stopped" \/ v \in misjudged

\* A worker that leaves its iteration keeps the reclaimers justified.
LEMMA LeavingJustified ==
  ASSUME TypeInv, Justified, NEW w \in Worker, NEW phase \in {"idle", "stopped"},
         Alive(w), misjudged' = misjudged,
         \A v \in Worker : pc[v] = "new" => lists'[v] = lists[v],
         pc' = [pc EXCEPT ![w] = phase],
         \A v \in Worker :
           /\ target'[v] = target[v] \/ target'[v] = None
           /\ todo'[v] = todo[v] \/ todo'[v] = {}
  PROVE  Justified'
  <1>1. \A v \in Worker : /\ pc'[v] = "new" => pc[v] = "new"
                          /\ pc[v] = "stopped" => pc'[v] = "stopped"
    BY DEF TypeInv, TypeOK, Alive
  <1>2. \A v, u \in Worker : /\ target'[u] = v => target[u] = v
                             /\ v \in todo'[u] => v \in todo[u]
    BY QueueAssumption
  <1>3. \A v \in Worker : pc'[v] = "new" => lists'[v] = <<>> /\ v \notin misjudged'
    BY <1>1 DEF Justified
  <1>4. \A v, u \in Worker : v \in todo'[u] => pc'[v] # "new"
    BY <1>1, <1>2 DEF Justified
  <1>5. \A v, u \in Worker : target'[u] = v => pc'[v] = "stopped" \/ v \in misjudged'
    BY <1>1, <1>2 DEF Justified
  <1> QED BY <1>3, <1>4, <1>5 DEF Justified

\* Every step keeps Justified.
LEMMA NextJustified == TypeInv /\ Justified /\ [Next]_vars => Justified'
  <1> SUFFICES ASSUME TypeInv, Justified, [Next]_vars PROVE Justified'
    OBVIOUS
  <1>a. /\ pc \in [Worker -> Phase]
        /\ lists \in [Key -> Seq(Job)]
        /\ todo \in [Worker -> SUBSET Worker]
        /\ target \in [Worker -> Worker \cup {None}]
    BY DEF TypeInv, TypeOK
  <1>b. \A w \in Worker : pc[w] \in {"lock", "peek", "move", "drop", "release"} => target[w] \in Worker
    BY DEF TypeInv, PhaseOK
  <1>k. Workspace \subseteq Key /\ Worker \subseteq Key /\ Workspace \cap Worker = {}
    BY QueueAssumption DEF Key
  <1> USE DEF GoTo, NextTarget, redisVars, reclaimVars, history, runVars
  <1>1. ASSUME NEW j \in Job, Enqueue(j) PROVE Justified'
    <2>1. WorkspaceOf[j] \in Workspace
      BY QueueAssumption
    <2>2. \A v \in Worker : lists'[v] = lists[v]
      BY <1>a, <1>k, <1>1, <2>1 DEF Enqueue
    <2> QED BY <1>1, <2>2 DEF Enqueue, Justified
  <1>2. ASSUME NEW w \in Worker, Start(w) PROVE Justified'
    BY <1>a, <1>b, <1>2, QueueAssumption DEF Start, Justified
  <1>3. ASSUME NEW w \in Worker, BeginIteration(w) PROVE Justified'
    BY <1>a, <1>b, <1>3, QueueAssumption DEF BeginIteration, Justified
  <1>4. ASSUME NEW w \in Worker, Discover(w) PROVE Justified'
    <2>1. \A v, u \in Worker : v \in todo'[u] => v \in todo[u] \/ lists[v] # <<>>
      <3> DEFINE found == {v \in Worker \ {w} : lists[v] # <<>>}
      <3>1. todo' = [todo EXCEPT ![w] = found] \/ todo' = todo
        BY <1>4 DEF Discover
      <3>2. \A v \in found : lists[v] # <<>>
        OBVIOUS
      <3> HIDE DEF found
      <3> QED BY <1>a, <3>1, <3>2
    <2>2. /\ pc' = [pc EXCEPT ![w] = "visit"] /\ pc[w] = "discover"
          /\ UNCHANGED <<lists, target, misjudged>>
      BY <1>4 DEF Discover
    <2> QED BY <1>a, <2>1, <2>2 DEF Justified
  <1>5. ASSUME NEW w \in Worker, NEW v \in Worker, Visit(w, v) PROVE Justified'
    <2>1. /\ v \in todo[w] /\ pc[v] # "new" /\ pc[w] = "visit"
          /\ todo' = [todo EXCEPT ![w] = @ \ {v}] /\ lists' = lists
      BY <1>5 DEF Visit, Justified
    <2>2. CASE UNCHANGED <<pc, target, misjudged>>
      BY <1>a, <2>1, <2>2 DEF Justified
    <2>3. CASE /\ pc' = [pc EXCEPT ![w] = "lock"]
               /\ target' = [target EXCEPT ![w] = v]
               /\ misjudged' = IF Alive(v) THEN misjudged \cup {v} ELSE misjudged
      <3>1. pc[v] = "stopped" \/ v \in misjudged'
        BY <2>1, <2>3 DEF Alive
      <3>2. misjudged \subseteq misjudged' /\ misjudged' \subseteq misjudged \cup {v}
        BY <2>3
      <3>3. \A u \in Worker : pc'[u] = "new" => pc[u] = "new"
        BY <1>a, <2>3
      <3>4. \A u \in Worker : pc[u] = "stopped" => pc'[u] = "stopped"
        BY <1>a, <2>1, <2>3
      <3>5. \A x, u \in Worker : target'[u] = x => target[u] = x \/ x = v
        BY <1>a, <2>3
      <3>6. \A x, u \in Worker : x \in todo'[u] => x \in todo[u]
        BY <1>a, <2>1
      <3>7. \A u \in Worker : pc'[u] = "new" => u # v /\ u \notin misjudged'
        BY <2>1, <3>2, <3>3 DEF Justified
      <3>8. v # w => pc'[v] = pc[v]
        BY <1>a, <2>3
      <3>9. pc'[v] = "stopped" \/ v \in misjudged'
        BY <2>1, <3>1, <3>4
      <3>10. \A u \in Worker : pc'[u] = "new" => lists'[u] = <<>>
        BY <2>1, <3>3 DEF Justified
      <3>11. \A x, u \in Worker : x \in todo'[u] => pc'[x] # "new"
        BY <3>3, <3>6 DEF Justified
      <3>12. \A x, u \in Worker : target'[u] = x => pc'[x] = "stopped" \/ x \in misjudged'
        BY <3>2, <3>4, <3>5, <3>9 DEF Justified
      <3> QED BY <3>7, <3>10, <3>11, <3>12 DEF Justified
    <2> QED BY <1>5, <2>2, <2>3 DEF Visit
  <1>6. ASSUME NEW w \in Worker, EndReclaim(w) PROVE Justified'
    BY <1>a, <1>b, <1>6, QueueAssumption DEF EndReclaim, Justified
  <1>7. ASSUME NEW w \in Worker, AcquireReclaimLock(w) PROVE Justified'
    BY <1>a, <1>b, <1>7, QueueAssumption DEF AcquireReclaimLock, Justified
  <1>8. ASSUME NEW w \in Worker, PeekTail(w) PROVE Justified'
    BY <1>a, <1>b, <1>8, QueueAssumption DEF PeekTail, Justified
  <1>9. ASSUME NEW w \in Worker, DropMalformed(w) PROVE Justified'
    <2>1. target[w] \in Worker /\ pc[target[w]] # "new"
      BY <1>b, <1>9 DEF DropMalformed, Justified
    <2>2. \A v \in Worker : pc[v] = "new" => lists'[v] = lists[v]
      BY <1>a, <1>k, <1>9, <2>1 DEF DropMalformed
    <2>3. /\ \E x \in {"peek", "release"} : pc' = [pc EXCEPT ![w] = x]
          /\ pc[w] = "drop" /\ UNCHANGED <<todo, target, misjudged>>
      BY <1>9 DEF DropMalformed
    <2> QED BY <1>a, <2>2, <2>3 DEF Justified
  <1>10. ASSUME NEW w \in Worker, MoveTail(w) PROVE Justified'
    <2>1. /\ target[w] \in Worker /\ pc[target[w]] # "new"
          /\ HomeQueue(peeked[w]) \in Workspace
      BY <1>b, <1>10, QueueAssumption DEF MoveTail, Justified, TypeInv, PhaseOK, HomeQueue
    <2>2. \A v \in Worker : pc[v] = "new" => lists'[v] = lists[v]
      BY <1>a, <1>k, <1>10, <2>1 DEF MoveTail, LMove
    <2>3. /\ \E x \in {"peek", "release"} : pc' = [pc EXCEPT ![w] = x]
          /\ pc[w] = "move" /\ UNCHANGED <<todo, target, misjudged>>
      BY <1>10 DEF MoveTail
    <2> QED BY <1>a, <2>2, <2>3 DEF Justified
  <1>11. ASSUME NEW w \in Worker, ReleaseReclaimLock(w) PROVE Justified'
    BY <1>a, <1>b, <1>11, QueueAssumption DEF ReleaseReclaimLock, Justified
  <1>12. ASSUME NEW w \in Worker, SelectWorkspaces(w) PROVE Justified'
    <2>1. CASE IterationFailed(w) /\ UNCHANGED <<lists, misjudged>>
      <3>1. Alive(w) /\ \A v \in Worker : pc[v] = "new" => lists'[v] = lists[v]
        BY <1>12, <2>1 DEF SelectWorkspaces, Alive
      <3> QED BY <2>1, <3>1, FailedEffect, LeavingJustified
    <2>2. CASE ~(IterationFailed(w) /\ UNCHANGED <<lists, misjudged>>)
      BY <1>a, <1>b, <1>k, <1>12, <2>2, QueueAssumption DEF SelectWorkspaces, Justified
    <2> QED BY <2>1, <2>2
  <1>13. ASSUME NEW w \in Worker, NEW s \in Workspace, PickWorkspace(w, s) PROVE Justified'
    BY <1>a, <1>b, <1>13, QueueAssumption DEF PickWorkspace, Justified
  <1>14. ASSUME NEW w \in Worker, EndIteration(w) PROVE Justified'
    BY <1>a, <1>b, <1>14, QueueAssumption DEF EndIteration, Justified
  <1>15. ASSUME NEW w \in Worker, Fetch(w) PROVE Justified'
    <2>1. space[w] \in Workspace /\ pc[w] = "fetch"
      BY <1>15 DEF Fetch, TypeInv, PhaseOK
    <2>2. \A v \in Worker : pc[v] = "new" => lists'[v] = lists[v]
      BY <1>a, <1>k, <1>15, <2>1 DEF Fetch, LMove
    <2>3. CASE IterationFailed(w)
      <3>1. Alive(w) /\ misjudged' = misjudged
        BY <1>15 DEF Fetch, Alive
      <3> QED BY <2>2, <2>3, <3>1, FailedEffect, LeavingJustified
    <2>4. CASE ~IterationFailed(w)
      <3>1. /\ \E x \in {"fetch", "receive"} : pc' = [pc EXCEPT ![w] = x]
            /\ UNCHANGED <<todo, target, misjudged>>
        BY <1>15, <2>4 DEF Fetch
      <3> QED BY <1>a, <2>1, <2>2, <3>1 DEF Justified
    <2> QED BY <2>3, <2>4
  <1>16. ASSUME NEW w \in Worker, EndBatch(w) PROVE Justified'
    BY <1>a, <1>b, <1>16, QueueAssumption DEF EndBatch, Justified
  <1>17. ASSUME NEW w \in Worker, Receive(w) PROVE Justified'
    <2>1. CASE IterationFailed(w) /\ UNCHANGED <<lists, misjudged>>
      <3>1. Alive(w) /\ \A v \in Worker : pc[v] = "new" => lists'[v] = lists[v]
        BY <1>17, <2>1 DEF Receive, Alive
      <3> QED BY <2>1, <3>1, FailedEffect, LeavingJustified
    <2>2. CASE ~(IterationFailed(w) /\ UNCHANGED <<lists, misjudged>>)
      BY <1>a, <1>b, <1>k, <1>17, <2>2, QueueAssumption DEF Receive, Justified
    <2> QED BY <2>1, <2>2
  <1>18. ASSUME NEW w \in Worker, Work(w) PROVE Justified'
    <2>1. CASE IterationFailed(w) /\ UNCHANGED <<lists, misjudged>>
      <3>1. Alive(w) /\ \A v \in Worker : pc[v] = "new" => lists'[v] = lists[v]
        BY <1>18, <2>1 DEF Work, Alive
      <3> QED BY <2>1, <3>1, FailedEffect, LeavingJustified
    <2>2. CASE ~(IterationFailed(w) /\ UNCHANGED <<lists, misjudged>>)
      BY <1>a, <1>b, <1>k, <1>18, <2>2, QueueAssumption DEF Work, Justified
    <2> QED BY <2>1, <2>2
  <1>19. ASSUME NEW w \in Worker, Complete(w) PROVE Justified'
    <2>1. pc[w] = "ack" /\ pc' = [pc EXCEPT ![w] = "receive"] /\ UNCHANGED <<todo, target, misjudged>>
      BY <1>19 DEF Complete
    <2>2. \A v \in Worker : pc[v] = "new" => lists'[v] = lists[v]
      BY <1>a, <1>k, <1>19 DEF Complete
    <2> QED BY <1>a, <2>1, <2>2 DEF Justified
  <1>20. ASSUME NEW w \in Worker, CompleteFailed(w) PROVE Justified'
    <2>1. pc[w] = "nack" /\ IterationFailed(w) /\ misjudged' = misjudged
      BY <1>20 DEF CompleteFailed
    <2>2. \A v \in Worker : pc[v] = "new" => lists'[v] = lists[v]
      BY <1>a, <1>k, <1>20 DEF CompleteFailed
    <2> QED BY <2>1, <2>2, FailedEffect, LeavingJustified DEF Alive
  <1>21. ASSUME NEW w \in Worker, Kill(w) PROVE Justified'
    <2>1. Halt(w) /\ Alive(w) /\ misjudged' = misjudged
      BY <1>21 DEF Kill
    <2>2. \A v \in Worker : pc[v] = "new" => lists'[v] = lists[v]
      BY <1>21 DEF Kill
    <2> QED BY <2>1, <2>2, HaltEffect, LeavingJustified
  <1>22. ASSUME NEW w \in Worker, Interrupt(w) PROVE Justified'
    <2>1. Halt(w) /\ Alive(w) /\ misjudged' = misjudged
      BY <1>22 DEF Interrupt, Alive
    <2>2. \A v \in Worker : pc[v] = "new" => lists'[v] = lists[v]
      BY <1>a, <1>k, <1>22 DEF Interrupt, Alive
    <2> QED BY <2>1, <2>2, HaltEffect, LeavingJustified
  <1>23. ASSUME NEW w \in Worker, HeartbeatExpires(w) PROVE Justified'
    BY <1>a, <1>b, <1>23, QueueAssumption DEF HeartbeatExpires, Justified
  <1>24. ASSUME NEW w \in Worker, LockExpires(w) PROVE Justified'
    BY <1>a, <1>b, <1>24, QueueAssumption DEF LockExpires, Justified
  <1>25. CASE UNCHANGED vars
    BY <1>25 DEF vars, Justified
  <1> QED
    BY <1>1, <1>2, <1>3, <1>4, <1>5, <1>6, <1>7, <1>8, <1>9, <1>10,
       <1>11, <1>12, <1>13, <1>14, <1>15, <1>16, <1>17, <1>18, <1>19,
       <1>20, <1>21, <1>22, <1>23, <1>24, <1>25
    DEF Next, WorkerStep, ReclaimStep, RunStep

\* The target of a reclaimer is always dead or was misjudged.
LEMMA JustifiedInvariant == Spec => []Justified
  <1>1. Init => Justified
    BY QueueAssumption DEF Init, Justified, Key
  <1> QED BY TypeInvariant, NextJustified, <1>1, PTL DEF Spec

-----------------------------------------------------------------------------
(* Two workers run one entry at once only when one was taken for dead.     *)

\* A worker that was never taken for dead has each job of its batch once, and
\* still has it on its processing list.
Owned ==
  \A w \in Worker \ misjudged :
    /\ IsInjective(batch[w])
    /\ \A j \in Job : Contains(batch[w], j) => Contains(lists[w], j)

\* Owned is about the jobs of a batch only: it survives whatever happens to
\* the lists of workers whose batch is empty.
LEMMA OwnedKept ==
  ASSUME Owned, misjudged \subseteq misjudged',
         \A v \in Worker : batch'[v] = batch[v] \/ batch'[v] = <<>>,
         \A v \in Worker : \/ v \in misjudged'
                           \/ batch'[v] = <<>>
                           \/ lists'[v] = lists[v]
  PROVE  Owned'
  BY DEF Owned, IsInjective, Contains

\* Every step keeps Owned.
LEMMA NextOwned == TypeInv /\ Justified /\ Owned /\ [Next]_vars => Owned'
  <1> SUFFICES ASSUME TypeInv /\ Justified, Owned, [Next]_vars PROVE Owned'
    OBVIOUS
  <1>a. /\ lists \in [Key -> Seq(Job)] /\ OnePlace(lists)
        /\ batch \in [Worker -> Seq(Job)]
    BY DEF TypeInv, TypeOK
  <1>k. Workspace \subseteq Key /\ Worker \subseteq Key /\ Workspace \cap Worker = {}
    BY QueueAssumption DEF Key
  <1> USE DEF redisVars, runVars, history
  <1>1. ASSUME NEW j \in Job, Enqueue(j) PROVE Owned'
    <2>1. WorkspaceOf[j] \in Workspace
      BY QueueAssumption
    <2>2. \A v \in Worker : lists'[v] = lists[v]
      BY <1>a, <1>k, <1>1, <2>1 DEF Enqueue
    <2> QED BY <1>1, <2>2, OwnedKept DEF Enqueue
  <1>2. ASSUME NEW w \in Worker, Start(w) PROVE Owned'
    BY <1>2, OwnedKept DEF Start
  <1>3. ASSUME NEW w \in Worker, BeginIteration(w) PROVE Owned'
    BY <1>3, OwnedKept DEF BeginIteration
  <1>4. ASSUME NEW w \in Worker, Discover(w) PROVE Owned'
    BY <1>4, OwnedKept DEF Discover
  <1>5. ASSUME NEW w \in Worker, NEW v \in Worker, Visit(w, v) PROVE Owned'
    <2>1. misjudged \subseteq misjudged' /\ UNCHANGED <<lists, batch>>
      BY <1>5 DEF Visit
    <2> QED BY <2>1, OwnedKept
  <1>6. ASSUME NEW w \in Worker, EndReclaim(w) PROVE Owned'
    BY <1>6, OwnedKept DEF EndReclaim
  <1>7. ASSUME NEW w \in Worker, AcquireReclaimLock(w) PROVE Owned'
    BY <1>7, OwnedKept DEF AcquireReclaimLock
  <1>8. ASSUME NEW w \in Worker, PeekTail(w) PROVE Owned'
    BY <1>8, OwnedKept DEF PeekTail
  <1>9. ASSUME NEW w \in Worker, DropMalformed(w) PROVE Owned'
    <2>1. target[w] \in Worker
      BY <1>9 DEF TypeInv, PhaseOK, DropMalformed
    <2>2. batch[target[w]] = <<>> \/ target[w] \in misjudged
      BY <2>1 DEF Justified, TypeInv, PhaseOK
    <2>3. \A v \in Worker : v # target[w] => lists'[v] = lists[v]
      BY <1>a, <1>k, <1>9, <2>1 DEF DropMalformed
    <2>4. UNCHANGED <<batch, misjudged>>
      BY <1>9 DEF DropMalformed
    <2> QED BY <2>1, <2>2, <2>3, <2>4, OwnedKept
  <1>10. ASSUME NEW w \in Worker, MoveTail(w) PROVE Owned'
    <2>1. target[w] \in Worker
      BY <1>10 DEF TypeInv, PhaseOK, MoveTail
    <2>2. batch[target[w]] = <<>> \/ target[w] \in misjudged
      BY <2>1 DEF Justified, TypeInv, PhaseOK
    <2>3. \A v \in Worker : v # target[w] => lists'[v] = lists[v]
      <3>1. HomeQueue(peeked[w]) \in Workspace
        BY <1>10, QueueAssumption DEF TypeInv, PhaseOK, HomeQueue, MoveTail
      <3> QED BY <1>a, <1>k, <1>10, <2>1, <3>1 DEF MoveTail, LMove
    <2>4. UNCHANGED <<batch, misjudged>>
      BY <1>10 DEF MoveTail
    <2> QED BY <2>1, <2>2, <2>3, <2>4, OwnedKept
  <1>11. ASSUME NEW w \in Worker, ReleaseReclaimLock(w) PROVE Owned'
    BY <1>11, OwnedKept DEF ReleaseReclaimLock
  <1>12. ASSUME NEW w \in Worker, SelectWorkspaces(w) PROVE Owned'
    <2>1. CASE IterationFailed(w) /\ UNCHANGED <<lists, misjudged>>
      <3>1. \A v \in Worker : batch'[v] = batch[v] \/ batch'[v] = <<>>
        BY <1>a, <2>1, FailedEffect
      <3> QED BY <2>1, <3>1, OwnedKept
    <2>2. CASE UNCHANGED <<lists, batch, misjudged>>
      BY <2>2, OwnedKept
    <2> QED BY <1>12, <2>1, <2>2 DEF SelectWorkspaces
  <1>13. ASSUME NEW w \in Worker, NEW s \in Workspace, PickWorkspace(w, s) PROVE Owned'
    BY <1>13, OwnedKept DEF PickWorkspace
  <1>14. ASSUME NEW w \in Worker, EndIteration(w) PROVE Owned'
    BY <1>14, OwnedKept DEF EndIteration
  <1>15. ASSUME NEW w \in Worker, Fetch(w) PROVE Owned'
    <2>1. space[w] \in Workspace /\ space[w] # w /\ space[w] \in Key /\ w \in Key
      BY <1>k, <1>15 DEF TypeInv, PhaseOK, Fetch
    <2>2. CASE IterationFailed(w) /\ UNCHANGED lists
      <3>1. \A v \in Worker : batch'[v] = batch[v] \/ batch'[v] = <<>>
        BY <1>a, <2>2, FailedEffect
      <3> QED BY <1>15, <2>2, <3>1, OwnedKept DEF Fetch
    <2>3. CASE UNCHANGED <<lists, batch>>
      BY <1>15, <2>3, OwnedKept DEF Fetch
    <2>4. CASE /\ lists[space[w]] # <<>>
               /\ lists' = LMove(lists, space[w], w)
               /\ batch' = [batch EXCEPT ![w] =
                              IF Head(lists[space[w]]) \in Malformed THEN @
                              ELSE Append(@, Head(lists[space[w]]))]
      <3>1. PICK j \in Job :
              /\ j = Head(lists[space[w]])
              /\ Contains(lists[space[w]], j)
              /\ \A l \in Key, x \in Job :
                   Contains(lists'[l], x) <=> IF x = j THEN l = w ELSE Contains(lists[l], x)
        <4>1. PICK src \in Key : src = space[w]
          BY <2>1
        <4>2. lists \in [Key -> Seq(Job)] /\ src # w /\ lists[src] # <<>> /\ lists' = LMove(lists, src, w)
          BY <1>a, <2>1, <2>4, <4>1
        <4>3. LET j == Head(lists[src])
              IN  /\ j \in Job
                  /\ Contains(lists[src], j)
                  /\ \A l \in Key, x \in Job :
                       Contains(lists'[l], x) <=> IF x = j THEN l = w ELSE Contains(lists[l], x)
          BY <1>a, <2>1, <4>2, MovePlaces
        <4> QED BY <4>1, <4>3
      <3>2. ~Contains(lists[w], j)
        BY <1>a, <2>1, <3>1 DEF OnePlace
      <3>3. ASSUME NEW v \in Worker \ misjudged, v # w
            PROVE  /\ IsInjective(batch'[v])
                   /\ \A x \in Job : Contains(batch'[v], x) => Contains(lists'[v], x)
        <4>1. batch'[v] = batch[v] /\ v # space[w]
          BY <1>a, <1>k, <2>1, <2>4, <3>3
        <4>2. lists'[v] = lists[v]
          BY <1>a, <1>k, <2>4, <3>3, <4>1 DEF LMove
        <4> QED BY <4>1, <4>2 DEF Owned
      <3>4. ASSUME w \notin misjudged
            PROVE  /\ IsInjective(batch'[w])
                   /\ \A x \in Job : Contains(batch'[w], x) => Contains(lists'[w], x)
        <4>1. ~Contains(batch[w], j)
          BY <3>2, <3>4 DEF Owned
        <4>2. /\ IsInjective(batch[w])
              /\ \A x \in Job : Contains(batch[w], x) => Contains(lists'[w], x)
          BY <2>1, <3>1, <3>2, <3>4 DEF Owned
        <4>3. CASE batch'[w] = batch[w]
          BY <4>2, <4>3
        <4>4. CASE batch'[w] = Append(batch[w], j)
          <5>1. batch[w] \in Seq(Job)
            BY <1>a
          <5>2. /\ \A x : Contains(Append(batch[w], j), x) <=> Contains(batch[w], x) \/ x = j
                /\ IsInjective(Append(batch[w], j))
            BY <4>1, <4>2, <5>1, AppendMembers
          <5>3. Contains(lists'[w], j)
            BY <2>1, <3>1
          <5> QED BY <4>2, <4>4, <5>2, <5>3
        <4>5. batch'[w] = batch[w] \/ batch'[w] = Append(batch[w], j)
          BY <1>a, <2>4, <3>1
        <4> QED BY <4>3, <4>4, <4>5
      <3>5. misjudged' = misjudged
        BY <1>15 DEF Fetch
      <3> QED BY <3>3, <3>4, <3>5 DEF Owned
    <2>5. CASE IterationFailed(w) /\ lists' = LMove(lists, space[w], w)
      <3>1. \A v \in Worker : batch'[v] = IF v = w THEN <<>> ELSE batch[v]
        BY <1>a, <2>5, FailedEffect
      <3>2. \A v \in Worker : v # w => lists'[v] = lists[v]
        BY <1>a, <1>k, <2>1, <2>5 DEF LMove
      <3> QED BY <1>15, <3>1, <3>2, OwnedKept DEF Fetch
    <2> QED BY <1>15, <2>2, <2>3, <2>4, <2>5 DEF Fetch
  <1>16. ASSUME NEW w \in Worker, EndBatch(w) PROVE Owned'
    BY <1>16, OwnedKept DEF EndBatch
  <1>17. ASSUME NEW w \in Worker, Receive(w) PROVE Owned'
    <2>1. CASE IterationFailed(w) /\ UNCHANGED <<lists, misjudged>>
      <3>1. \A v \in Worker : batch'[v] = batch[v] \/ batch'[v] = <<>>
        BY <1>a, <2>1, FailedEffect
      <3> QED BY <2>1, <3>1, OwnedKept
    <2>2. CASE UNCHANGED <<lists, batch, misjudged>>
      BY <2>2, OwnedKept
    <2> QED BY <1>17, <2>1, <2>2 DEF Receive
  <1>18. ASSUME NEW w \in Worker, Work(w) PROVE Owned'
    <2>1. CASE IterationFailed(w) /\ UNCHANGED <<lists, misjudged>>
      <3>1. \A v \in Worker : batch'[v] = batch[v] \/ batch'[v] = <<>>
        BY <1>a, <2>1, FailedEffect
      <3> QED BY <2>1, <3>1, OwnedKept
    <2>2. CASE UNCHANGED <<lists, batch, misjudged>>
      BY <2>2, OwnedKept
    <2> QED BY <1>18, <2>1, <2>2 DEF Work
  <1>19. ASSUME NEW w \in Worker, Complete(w) PROVE Owned'
    <2>1. /\ batch[w] \in Seq(Job) /\ batch[w] # <<>> /\ w \in Key
          /\ batch' = [batch EXCEPT ![w] = Tail(@)]
          /\ misjudged' = misjudged
      BY <1>a, <1>k, <1>19 DEF Complete, TypeInv, PhaseOK, Running
    <2>2. PICK j \in Job : j = Head(batch[w])
      BY <2>1, TailMembers
    <2>3. \A v \in Worker : v # w => lists'[v] = lists[v] /\ batch'[v] = batch[v]
      BY <1>a, <1>k, <1>19, <2>1 DEF Complete
    <2>4. \A x \in Job : x # j /\ Contains(lists[w], x) => Contains(lists'[w], x)
      <3>1. CASE lists' = lists
        BY <3>1
      <3>2. CASE lists' = [lists EXCEPT ![w] = LRem(@, j)]
        BY <1>a, <2>1, <3>2, RemovePlaces
      <3> QED BY <1>19, <2>2, <3>1, <3>2 DEF Complete
    <2>5. ASSUME w \notin misjudged
          PROVE  /\ IsInjective(batch'[w])
                 /\ \A x \in Job : Contains(batch'[w], x) => Contains(lists'[w], x)
      <3>1. /\ IsInjective(batch[w])
            /\ \A x \in Job : Contains(batch[w], x) => Contains(lists[w], x)
        BY <2>5 DEF Owned
      <3>2. batch'[w] = Tail(batch[w])
        BY <1>a, <2>1
      <3>3. /\ IsInjective(Tail(batch[w])) /\ ~Contains(Tail(batch[w]), j)
            /\ \A x : Contains(Tail(batch[w]), x) => Contains(batch[w], x)
        BY <2>1, <2>2, <3>1, TailMembers
      <3> QED BY <2>4, <3>1, <3>2, <3>3
    <2>6. \A v \in Worker \ misjudged : v # w =>
            /\ IsInjective(batch'[v])
            /\ \A x \in Job : Contains(batch'[v], x) => Contains(lists'[v], x)
      BY <2>3 DEF Owned
    <2> QED BY <2>1, <2>5, <2>6 DEF Owned
  <1>20. ASSUME NEW w \in Worker, CompleteFailed(w) PROVE Owned'
    <2>1. /\ batch' = [batch EXCEPT ![w] = <<>>]
          /\ misjudged' = misjudged
      BY <1>20, FailedEffect DEF CompleteFailed
    <2>2. \A v \in Worker : v # w => lists'[v] = lists[v]
      BY <1>a, <1>k, <1>20 DEF CompleteFailed
    <2>3. \A v \in Worker : batch'[v] = IF v = w THEN <<>> ELSE batch[v]
      BY <1>a, <2>1
    <2> QED BY <2>1, <2>2, <2>3, OwnedKept
  <1>21. ASSUME NEW w \in Worker, Kill(w) PROVE Owned'
    <2>1. /\ batch' = [batch EXCEPT ![w] = <<>>]
          /\ misjudged' = misjudged
      BY <1>21, HaltEffect DEF Kill
    <2>2. \A v \in Worker : v # w => lists'[v] = lists[v]
      BY <1>a, <1>k, <1>21 DEF Kill
    <2>3. \A v \in Worker : batch'[v] = IF v = w THEN <<>> ELSE batch[v]
      BY <1>a, <2>1
    <2> QED BY <2>1, <2>2, <2>3, OwnedKept
  <1>22. ASSUME NEW w \in Worker, Interrupt(w) PROVE Owned'
    <2>1. /\ batch' = [batch EXCEPT ![w] = <<>>]
          /\ misjudged' = misjudged
      BY <1>22, HaltEffect DEF Interrupt
    <2>2. \A v \in Worker : v # w => lists'[v] = lists[v]
      BY <1>a, <1>k, <1>22 DEF Interrupt
    <2>3. \A v \in Worker : batch'[v] = IF v = w THEN <<>> ELSE batch[v]
      BY <1>a, <2>1
    <2> QED BY <2>1, <2>2, <2>3, OwnedKept
  <1>23. ASSUME NEW w \in Worker, HeartbeatExpires(w) PROVE Owned'
    BY <1>23, OwnedKept DEF HeartbeatExpires
  <1>24. ASSUME NEW w \in Worker, LockExpires(w) PROVE Owned'
    BY <1>24, OwnedKept DEF LockExpires
  <1>25. CASE UNCHANGED vars
    BY <1>25 DEF vars, Owned
  <1> QED
    BY <1>1, <1>2, <1>3, <1>4, <1>5, <1>6, <1>7, <1>8, <1>9, <1>10,
       <1>11, <1>12, <1>13, <1>14, <1>15, <1>16, <1>17, <1>18, <1>19,
       <1>20, <1>21, <1>22, <1>23, <1>24, <1>25
    DEF Next, WorkerStep, ReclaimStep, RunStep

\* Two workers run the pipeline on one entry at once only if one of them was
\* taken for dead while it was running, whatever else fails.
THEOREM OneRunner == Spec => []SingleRunner
  <1>1. Init => Owned
    BY DEF Init, Owned, IsInjective, Contains
  <1>2. TypeInv /\ Owned => SingleRunner
    <2> SUFFICES ASSUME TypeInv, Owned, NEW v \in Worker \ misjudged, NEW w \in Worker \ misjudged,
                        v # w, Running(v), Running(w), Head(batch[v]) = Head(batch[w])
                 PROVE  FALSE
      BY DEF SingleRunner
    <2>1. batch[v] \in Seq(Job) \ {<<>>} /\ batch[w] \in Seq(Job) \ {<<>>}
      BY DEF TypeInv, TypeOK, PhaseOK
    <2>2. PICK j \in Job : j = Head(batch[v])
      BY <2>1, TailMembers
    <2>3. Contains(batch[v], j) /\ Contains(batch[w], j)
      BY <2>1, <2>2, TailMembers
    <2>4. Contains(lists[v], j) /\ Contains(lists[w], j)
      BY <2>3 DEF Owned
    <2> QED BY <2>4 DEF TypeInv, OnePlace, Key
  <1> QED BY TypeInvariant, JustifiedInvariant, NextOwned, <1>1, <1>2, PTL DEF Spec

-----------------------------------------------------------------------------
(* Reclaimed jobs go home while only dead workers are reclaimed from.      *)

Untroubled == misjudged = {} /\ ~lockLost

\* A reclaimer about to move an entry peeked at the very entry it will move.
Routed ==
  Untroubled =>
    /\ \A s \in Workspace, j \in Job : Contains(lists[s], j) => WorkspaceOf[j] = s
    /\ \A w \in Worker : pc[w] = "move" =>
         lists[target[w]] # <<>> /\ Head(lists[target[w]]) = peeked[w]

\* Routed is about the queues and the targets of reclaimers only.
LEMMA RoutedKept ==
  ASSUME Routed, Untroubled' => Untroubled,
         Untroubled => \A s \in Workspace, j \in Job :
           Contains(lists'[s], j) => Contains(lists[s], j) \/ WorkspaceOf[j] = s,
         Untroubled => \A v \in Worker : pc'[v] = "move" =>
           /\ pc[v] = "move" /\ target'[v] = target[v] /\ peeked'[v] = peeked[v]
           /\ lists'[target[v]] = lists[target[v]]
  PROVE  Routed'
  BY DEF Routed

\* While no one is misjudged, the list of a running worker is no one's target.
LEMMA NotATarget ==
  ASSUME TypeInv, Justified, Untroubled, NEW w \in Worker, Alive(w), NEW v \in Worker
  PROVE  target[v] # w
  BY DEF Justified, Untroubled, Alive

\* While no lock is lost, two reclaimers have two targets.
LEMMA NotSharedTarget ==
  ASSUME TypeInv, LockHeld, Untroubled, NEW v \in Worker, NEW w \in Worker,
         Reclaiming(v), Reclaiming(w), target[v] = target[w]
  PROVE  v = w
  BY DEF LockHeld, Untroubled

\* Every step keeps Routed.
LEMMA NextRouted == TypeInv /\ Justified /\ LockHeld /\ Routed /\ [Next]_vars => Routed'
  <1> SUFFICES ASSUME TypeInv /\ Justified /\ LockHeld, Routed, [Next]_vars PROVE Routed'
    OBVIOUS
  <1>a. /\ lists \in [Key -> Seq(Job)] /\ OnePlace(lists)
        /\ pc \in [Worker -> Phase]
        /\ peeked \in [Worker -> Job \cup {None}]
        /\ target \in [Worker -> Worker \cup {None}]
    BY DEF TypeInv, TypeOK
  <1>b. \A w \in Worker : pc[w] \in {"peek", "move", "drop", "release"} => target[w] \in Worker
    BY DEF TypeInv, PhaseOK
  <1>k. Workspace \subseteq Key /\ Worker \subseteq Key /\ Workspace \cap Worker = {}
    BY QueueAssumption DEF Key
  <1> USE DEF GoTo, NextTarget, redisVars, runVars, reclaimVars, history
  <1>1. ASSUME NEW j \in Job, Enqueue(j) PROVE Routed'
    <2>1. PICK home \in Key : home = WorkspaceOf[j] /\ home \in Workspace
      BY <1>k, QueueAssumption
    <2>2. lists' = [lists EXCEPT ![home] = Append(@, j)]
      BY <1>1, <2>1 DEF Enqueue
    <2>3. \A l \in Key : ~Contains(lists[l], j)
      BY <1>1 DEF TypeInv, KnownJobs, Enqueue
    <2>4. LET new == [lists EXCEPT ![home] = Append(@, j)]
          IN  \A l \in Key, x \in Job :
                Contains(new[l], x) <=> Contains(lists[l], x) \/ (l = home /\ x = j)
      BY <1>a, <2>3, PushPlaces
    <2>5. \A v \in Worker : lists'[v] = lists[v]
      BY <1>a, <1>k, <2>1, <2>2
    <2>6. UNCHANGED <<pc, target, peeked, misjudged, lockLost>>
      BY <1>1 DEF Enqueue
    <2> QED BY <1>b, <1>k, <2>1, <2>2, <2>4, <2>5, <2>6, RoutedKept DEF Untroubled
  <1>2. ASSUME NEW w \in Worker, Start(w) PROVE Routed'
    <2>1. (Untroubled' => Untroubled) /\ UNCHANGED <<lists>>
      BY <1>2 DEF Start, Untroubled
    <2>2. \A v \in Worker : pc'[v] = "move" =>
            pc[v] = "move" /\ target'[v] = target[v] /\ peeked'[v] = peeked[v]
      BY <1>a, <1>2 DEF Start
    <2> QED BY <2>1, <2>2, RoutedKept
  <1>3. ASSUME NEW w \in Worker, BeginIteration(w) PROVE Routed'
    <2>1. (Untroubled' => Untroubled) /\ UNCHANGED <<lists>>
      BY <1>3 DEF BeginIteration, Untroubled
    <2>2. \A v \in Worker : pc'[v] = "move" =>
            pc[v] = "move" /\ target'[v] = target[v] /\ peeked'[v] = peeked[v]
      BY <1>a, <1>3 DEF BeginIteration
    <2> QED BY <2>1, <2>2, RoutedKept
  <1>4. ASSUME NEW w \in Worker, Discover(w) PROVE Routed'
    <2>1. (Untroubled' => Untroubled) /\ UNCHANGED <<lists>>
      BY <1>4 DEF Discover, Untroubled
    <2>2. \A v \in Worker : pc'[v] = "move" =>
            pc[v] = "move" /\ target'[v] = target[v] /\ peeked'[v] = peeked[v]
      BY <1>a, <1>4 DEF Discover
    <2> QED BY <2>1, <2>2, RoutedKept
  <1>5. ASSUME NEW w \in Worker, NEW v \in Worker, Visit(w, v) PROVE Routed'
    <2>1. (Untroubled' => Untroubled) /\ UNCHANGED <<lists, peeked>>
      BY <1>5 DEF Visit, Untroubled
    <2>2. \/ pc' = pc /\ target' = target
          \/ pc' = [pc EXCEPT ![w] = "lock"] /\ target' = [target EXCEPT ![w] = v]
      BY <1>5 DEF Visit
    <2>3. pc[w] = "visit"
      BY <1>5 DEF Visit
    <2>4. \A u \in Worker : pc'[u] = "move" =>
            pc[u] = "move" /\ target'[u] = target[u] /\ peeked'[u] = peeked[u]
      BY <1>a, <2>1, <2>2, <2>3
    <2> QED BY <2>1, <2>4, RoutedKept
  <1>6. ASSUME NEW w \in Worker, EndReclaim(w) PROVE Routed'
    <2>1. (Untroubled' => Untroubled) /\ UNCHANGED <<lists>>
      BY <1>6 DEF EndReclaim, Untroubled
    <2>2. \A v \in Worker : pc'[v] = "move" =>
            pc[v] = "move" /\ target'[v] = target[v] /\ peeked'[v] = peeked[v]
      BY <1>a, <1>6 DEF EndReclaim
    <2> QED BY <2>1, <2>2, RoutedKept
  <1>7. ASSUME NEW w \in Worker, AcquireReclaimLock(w) PROVE Routed'
    <2>1. (Untroubled' => Untroubled) /\ UNCHANGED <<lists>>
      BY <1>7 DEF AcquireReclaimLock, Untroubled
    <2>2. \A v \in Worker : pc'[v] = "move" =>
            pc[v] = "move" /\ target'[v] = target[v] /\ peeked'[v] = peeked[v]
      BY <1>a, <1>7 DEF AcquireReclaimLock
    <2> QED BY <2>1, <2>2, RoutedKept
  <1>8. ASSUME NEW w \in Worker, PeekTail(w) PROVE Routed'
    <2>1. (Untroubled' => Untroubled) /\ UNCHANGED <<lists, target>>
      BY <1>8 DEF PeekTail, Untroubled
    <2>2. \A v \in Worker \ {w} : pc'[v] = pc[v] /\ peeked'[v] = peeked[v]
      BY <1>a, <1>8 DEF PeekTail
    <2>3. pc'[w] = "move" => lists[target[w]] # <<>> /\ Head(lists[target[w]]) = peeked'[w]
      BY <1>a, <1>8 DEF PeekTail
    <2> QED BY <2>1, <2>2, <2>3 DEF Routed
  <1>9. ASSUME NEW w \in Worker, DropMalformed(w) PROVE Routed'
    <2>1. (Untroubled' => Untroubled) /\ Reclaiming(w) /\ target[w] \in Worker
      BY <1>b, <1>9 DEF DropMalformed, Untroubled, Reclaiming
    <2>2. \A l \in Key : l # target[w] => lists'[l] = lists[l]
      BY <1>a, <1>9 DEF DropMalformed
    <2>3. \A v \in Worker : pc'[v] = "move" =>
            v # w /\ pc[v] = "move" /\ target'[v] = target[v] /\ peeked'[v] = peeked[v]
      BY <1>a, <1>9 DEF DropMalformed
    <2>4. Untroubled => \A v \in Worker : pc[v] = "move" /\ v # w => target[v] # target[w]
      BY <2>1, NotSharedTarget DEF Reclaiming
    <2> QED BY <1>b, <1>k, <2>1, <2>2, <2>3, <2>4, RoutedKept
  <1>10. ASSUME NEW w \in Worker, MoveTail(w) PROVE Routed'
    <2>1. (Untroubled' => Untroubled) /\ Reclaiming(w) /\ target[w] \in Worker
      BY <1>b, <1>10 DEF MoveTail, Untroubled, Reclaiming
    <2>2. PICK home \in Workspace, dead \in Key :
            home = HomeQueue(peeked[w]) /\ dead = target[w] /\ dead # home /\ home \in Key
      BY <1>k, <1>10, <2>1, QueueAssumption DEF MoveTail, TypeInv, PhaseOK, HomeQueue
    <2>3. \A v \in Worker : v # target[w] => lists'[v] = lists[v]
      BY <1>a, <1>k, <1>10, <2>1, <2>2 DEF MoveTail, LMove
    <2>4. \A v \in Worker : pc'[v] = "move" =>
            v # w /\ pc[v] = "move" /\ target'[v] = target[v] /\ peeked'[v] = peeked[v]
      BY <1>a, <1>10 DEF MoveTail
    <2>5. Untroubled => \A v \in Worker : pc[v] = "move" /\ v # w => target[v] # target[w]
      BY <2>1, NotSharedTarget DEF Reclaiming
    <2>6. ASSUME Untroubled, NEW s \in Workspace, NEW j \in Job, Contains(lists'[s], j)
          PROVE  Contains(lists[s], j) \/ WorkspaceOf[j] = s
      <3>1. CASE lists' = lists
        BY <2>6, <3>1
      <3>2. CASE lists[dead] # <<>> /\ lists' = LMove(lists, dead, home)
        <4>1. Head(lists[dead]) = peeked[w]
          BY <1>10, <2>2, <2>6 DEF Routed, MoveTail
        <4>2. LET x == Head(lists[dead])
              IN  \A l \in Key, y \in Job :
                    Contains(lists'[l], y) <=> IF y = x THEN l = home ELSE Contains(lists[l], y)
          BY <1>a, <2>2, <3>2, MovePlaces
        <4>3. CASE j = Head(lists[dead])
          <5>1. s = home
            BY <1>k, <2>6, <4>2, <4>3
          <5> QED BY <2>2, <4>1, <4>3, <5>1 DEF HomeQueue
        <4>4. CASE j # Head(lists[dead])
          BY <1>k, <2>6, <4>2, <4>4
        <4> QED BY <4>3, <4>4
      <3> QED BY <1>10, <2>2, <3>1, <3>2 DEF MoveTail
    <2> QED BY <1>b, <2>1, <2>3, <2>4, <2>5, <2>6, RoutedKept
  <1>11. ASSUME NEW w \in Worker, ReleaseReclaimLock(w) PROVE Routed'
    <2>1. (Untroubled' => Untroubled) /\ UNCHANGED <<lists>>
      BY <1>11 DEF ReleaseReclaimLock, Untroubled
    <2>2. \A v \in Worker : pc'[v] = "move" =>
            pc[v] = "move" /\ target'[v] = target[v] /\ peeked'[v] = peeked[v]
      BY <1>a, <1>11 DEF ReleaseReclaimLock
    <2> QED BY <2>1, <2>2, RoutedKept
  <1>12. ASSUME NEW w \in Worker, SelectWorkspaces(w) PROVE Routed'
    <2>1. (Untroubled' => Untroubled) /\ UNCHANGED <<lists>>
      BY <1>12 DEF SelectWorkspaces, Untroubled
    <2>2. ASSUME NEW v \in Worker, pc'[v] = "move"
          PROVE  pc[v] = "move" /\ target'[v] = target[v] /\ peeked'[v] = peeked[v]
      <3>1. CASE IterationFailed(w)
        BY <1>a, <2>2, <3>1, FailedEffect
      <3>2. CASE ~IterationFailed(w)
        BY <1>a, <1>12, <2>2, <3>2 DEF SelectWorkspaces
      <3> QED BY <3>1, <3>2
    <2> QED BY <2>1, <2>2, RoutedKept
  <1>13. ASSUME NEW w \in Worker, NEW s \in Workspace, PickWorkspace(w, s) PROVE Routed'
    <2>1. (Untroubled' => Untroubled) /\ UNCHANGED <<lists>>
      BY <1>13 DEF PickWorkspace, Untroubled
    <2>2. \A v \in Worker : pc'[v] = "move" =>
            pc[v] = "move" /\ target'[v] = target[v] /\ peeked'[v] = peeked[v]
      BY <1>a, <1>13 DEF PickWorkspace
    <2> QED BY <2>1, <2>2, RoutedKept
  <1>14. ASSUME NEW w \in Worker, EndIteration(w) PROVE Routed'
    <2>1. (Untroubled' => Untroubled) /\ UNCHANGED <<lists>>
      BY <1>14 DEF EndIteration, Untroubled
    <2>2. \A v \in Worker : pc'[v] = "move" =>
            pc[v] = "move" /\ target'[v] = target[v] /\ peeked'[v] = peeked[v]
      BY <1>a, <1>14 DEF EndIteration
    <2> QED BY <2>1, <2>2, RoutedKept
  <1>15. ASSUME NEW w \in Worker, Fetch(w) PROVE Routed'
    <2>1. Alive(w) /\ (Untroubled' => Untroubled)
      BY <1>15 DEF Fetch, Untroubled, Alive
    <2>2. space[w] \in Workspace /\ space[w] \in Key /\ w \in Key /\ space[w] # w
      BY <1>k, <1>15 DEF Fetch, TypeInv, PhaseOK
    <2>3. ASSUME NEW s \in Workspace, NEW j \in Job, Contains(lists'[s], j)
          PROVE  Contains(lists[s], j)
      <3>1. CASE lists' = lists
        BY <2>3, <3>1
      <3>2. CASE lists[space[w]] # <<>> /\ lists' = LMove(lists, space[w], w)
        <4>1. PICK src \in Key : src = space[w]
          BY <2>2
        <4>2. LET x == Head(lists[src])
              IN  \A l \in Key, y \in Job :
                    Contains(lists'[l], y) <=> IF y = x THEN l = w ELSE Contains(lists[l], y)
          BY <1>a, <2>2, <3>2, <4>1, MovePlaces
        <4> QED BY <1>k, <2>2, <2>3, <4>2
      <3> QED BY <1>15, <3>1, <3>2 DEF Fetch
    <2>4. \A v \in Worker : v # w => lists'[v] = lists[v]
      BY <1>a, <1>k, <1>15, <2>2 DEF Fetch, LMove
    <2>5. ASSUME NEW v \in Worker, pc'[v] = "move"
          PROVE  pc[v] = "move" /\ target'[v] = target[v] /\ peeked'[v] = peeked[v]
      <3>1. CASE IterationFailed(w)
        BY <1>a, <2>5, <3>1, FailedEffect
      <3>2. CASE ~IterationFailed(w)
        BY <1>a, <1>15, <2>5, <3>2 DEF Fetch
      <3> QED BY <3>1, <3>2
    <2>6. Untroubled => \A v \in Worker : target[v] # w
      BY <2>1, NotATarget
    <2> QED BY <1>b, <2>1, <2>3, <2>4, <2>5, <2>6, RoutedKept
  <1>16. ASSUME NEW w \in Worker, EndBatch(w) PROVE Routed'
    <2>1. (Untroubled' => Untroubled) /\ UNCHANGED <<lists>>
      BY <1>16 DEF EndBatch, Untroubled
    <2>2. \A v \in Worker : pc'[v] = "move" =>
            pc[v] = "move" /\ target'[v] = target[v] /\ peeked'[v] = peeked[v]
      BY <1>a, <1>16 DEF EndBatch
    <2> QED BY <2>1, <2>2, RoutedKept
  <1>17. ASSUME NEW w \in Worker, Receive(w) PROVE Routed'
    <2>1. (Untroubled' => Untroubled) /\ UNCHANGED <<lists>>
      BY <1>17 DEF Receive, Untroubled
    <2>2. ASSUME NEW v \in Worker, pc'[v] = "move"
          PROVE  pc[v] = "move" /\ target'[v] = target[v] /\ peeked'[v] = peeked[v]
      <3>1. CASE IterationFailed(w)
        BY <1>a, <2>2, <3>1, FailedEffect
      <3>2. CASE ~IterationFailed(w)
        BY <1>a, <1>17, <2>2, <3>2 DEF Receive
      <3> QED BY <3>1, <3>2
    <2> QED BY <2>1, <2>2, RoutedKept
  <1>18. ASSUME NEW w \in Worker, Work(w) PROVE Routed'
    <2>1. (Untroubled' => Untroubled) /\ UNCHANGED <<lists>>
      BY <1>18 DEF Work, Untroubled
    <2>2. ASSUME NEW v \in Worker, pc'[v] = "move"
          PROVE  pc[v] = "move" /\ target'[v] = target[v] /\ peeked'[v] = peeked[v]
      <3>1. CASE IterationFailed(w)
        BY <1>a, <2>2, <3>1, FailedEffect
      <3>2. CASE ~IterationFailed(w)
        BY <1>a, <1>18, <2>2, <3>2 DEF Work
      <3> QED BY <3>1, <3>2
    <2> QED BY <2>1, <2>2, RoutedKept
  <1>19. ASSUME NEW w \in Worker, Complete(w) PROVE Routed'
    <2>1. Alive(w) /\ (Untroubled' => Untroubled)
      BY <1>19 DEF Complete, Untroubled, Alive
    <2>2. \A l \in Key : l # w => lists'[l] = lists[l]
      BY <1>a, <1>k, <1>19 DEF Complete
    <2>3. \A v \in Worker : pc'[v] = "move" =>
            pc[v] = "move" /\ target'[v] = target[v] /\ peeked'[v] = peeked[v]
      BY <1>a, <1>19 DEF Complete
    <2>4. Untroubled => \A v \in Worker : target[v] # w
      BY <2>1, NotATarget
    <2> QED BY <1>b, <1>k, <2>1, <2>2, <2>3, <2>4, RoutedKept
  <1>20. ASSUME NEW w \in Worker, CompleteFailed(w) PROVE Routed'
    <2>1. Alive(w) /\ (Untroubled' => Untroubled)
      BY <1>20 DEF CompleteFailed, Untroubled, Alive
    <2>2. \A l \in Key : l # w => lists'[l] = lists[l]
      BY <1>a, <1>k, <1>20 DEF CompleteFailed
    <2>3. \A v \in Worker : pc'[v] = "move" =>
            pc[v] = "move" /\ target'[v] = target[v] /\ peeked'[v] = peeked[v]
      BY <1>a, <1>20, FailedEffect DEF CompleteFailed
    <2>4. Untroubled => \A v \in Worker : target[v] # w
      BY <2>1, NotATarget
    <2> QED BY <1>b, <1>k, <2>1, <2>2, <2>3, <2>4, RoutedKept
  <1>21. ASSUME NEW w \in Worker, Kill(w) PROVE Routed'
    <2>1. Halt(w) /\ (Untroubled' => Untroubled) /\ UNCHANGED <<lists>>
      BY <1>21 DEF Kill, Untroubled
    <2>2. \A v \in Worker : pc'[v] = "move" =>
            pc[v] = "move" /\ target'[v] = target[v] /\ peeked'[v] = peeked[v]
      BY <1>a, <2>1, HaltEffect
    <2> QED BY <2>1, <2>2, RoutedKept
  <1>22. ASSUME NEW w \in Worker, Interrupt(w) PROVE Routed'
    <2>1. Alive(w) /\ (Untroubled' => Untroubled)
      BY <1>22 DEF Interrupt, Untroubled, Alive
    <2>2. \A l \in Key : l # w => lists'[l] = lists[l]
      BY <1>a, <1>k, <1>22 DEF Interrupt
    <2>3. \A v \in Worker : pc'[v] = "move" =>
            pc[v] = "move" /\ target'[v] = target[v] /\ peeked'[v] = peeked[v]
      BY <1>a, <1>22, HaltEffect DEF Interrupt
    <2>4. Untroubled => \A v \in Worker : target[v] # w
      BY <2>1, NotATarget
    <2> QED BY <1>b, <1>k, <2>1, <2>2, <2>3, <2>4, RoutedKept
  <1>23. ASSUME NEW w \in Worker, HeartbeatExpires(w) PROVE Routed'
    <2>1. (Untroubled' => Untroubled) /\ UNCHANGED <<lists>>
      BY <1>23 DEF HeartbeatExpires, Untroubled
    <2>2. \A v \in Worker : pc'[v] = "move" =>
            pc[v] = "move" /\ target'[v] = target[v] /\ peeked'[v] = peeked[v]
      BY <1>a, <1>23 DEF HeartbeatExpires
    <2> QED BY <2>1, <2>2, RoutedKept
  <1>24. ASSUME NEW w \in Worker, LockExpires(w) PROVE Routed'
    <2>1. (Untroubled' => Untroubled) /\ UNCHANGED <<lists>>
      BY <1>24 DEF LockExpires, Untroubled
    <2>2. \A v \in Worker : pc'[v] = "move" =>
            pc[v] = "move" /\ target'[v] = target[v] /\ peeked'[v] = peeked[v]
      BY <1>a, <1>24 DEF LockExpires
    <2> QED BY <2>1, <2>2, RoutedKept
  <1>25. CASE UNCHANGED vars
    BY <1>25 DEF vars, Untroubled, Routed
  <1> QED
    BY <1>1, <1>2, <1>3, <1>4, <1>5, <1>6, <1>7, <1>8, <1>9, <1>10,
       <1>11, <1>12, <1>13, <1>14, <1>15, <1>16, <1>17, <1>18, <1>19,
       <1>20, <1>21, <1>22, <1>23, <1>24, <1>25
    DEF Next, WorkerStep, ReclaimStep, RunStep

\* While only dead workers are reclaimed from and no reclaim lock runs out, a
\* workspace queue holds jobs of its own workspace only.
THEOREM ReclaimedJobsGoHome == Spec => []RoutedHome
  <1>1. Init => LockHeld
    BY DEF Init, LockHeld, Reclaiming
  <1>2. Init => Routed
    BY DEF Init, Routed, Contains, Key
  <1>3. Routed => RoutedHome
    BY DEF Routed, RoutedHome, Untroubled
  <1> QED BY TypeInvariant, JustifiedInvariant, NextLockHeld, NextRouted,
             <1>1, <1>2, <1>3, PTL DEF Spec

=============================================================================
