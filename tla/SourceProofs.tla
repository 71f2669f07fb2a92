---------------------------- MODULE SourceProofs ----------------------------
(***************************************************************************)
(* What is read in pages while it changes: the sources of the connectors,  *)
(* with the cursor of those that walk them and the token of the Drive      *)
(* feed, and the listings and exports of what is stored. The theorems hold *)
(* for any number of items, changes and failures, and pages of any size.   *)
(***************************************************************************)
EXTENDS PageWalk, DriveFeed, Listings, Functions, FiniteSetTheorems, SequenceTheorems, TLAPS

-----------------------------------------------------------------------------
(***************************************************************************)
(* Elements in an order. The rank of an element is below the number of     *)
(* elements, no two have the same, and each rank is taken, so that InOrder *)
(* lists all of them; ranks only grow when elements are added.             *)
(***************************************************************************)

\* R puts any two elements of S in an order.
Orders(R, S) ==
  /\ \A x, y \in S : x = y \/ <<x, y>> \in R \/ <<y, x>> \in R
  /\ \A x \in S : <<x, x>> \notin R
  /\ \A x, y, z \in S : <<x, y>> \in R /\ <<y, z>> \in R => <<x, z>> \in R

\* Ranks count, and an element that comes after another has a higher one.
LEMMA RankType ==
  ASSUME NEW R, NEW S, IsFiniteSet(S), NEW x
  PROVE  Rank(R, S, x) \in Nat /\ Rank(R, S, x) <= Cardinality(S)
<1>1. {y \in S : <<y, x>> \in R} \in SUBSET S
  OBVIOUS
<1> QED BY <1>1, FS_Subset, FS_CardinalityType DEF Rank

\* What comes before has the smaller rank.
LEMMA RankLess ==
  ASSUME NEW R, NEW S, IsFiniteSet(S), Orders(R, S), NEW x \in S, NEW z \in S, <<x, z>> \in R
  PROVE  Rank(R, S, x) < Rank(R, S, z)
<1> DEFINE A == {y \in S : <<y, x>> \in R}
           B == {y \in S : <<y, z>> \in R}
<1>1. A \subseteq B /\ x \in B /\ x \notin A
  BY DEF Orders
<1>2. IsFiniteSet(B) /\ IsFiniteSet(A)
  BY FS_Subset
<1>3. Cardinality(A) <= Cardinality(B) /\ Cardinality(A) # Cardinality(B)
  BY <1>1, <1>2, FS_Subset
<1>4. Cardinality(A) \in Nat /\ Cardinality(B) \in Nat
  BY <1>2, FS_CardinalityType
<1> QED BY <1>3, <1>4 DEF Rank

\* The first of two elements by rank is the first in the order.
LEMMA RankTells ==
  ASSUME NEW R, NEW S, IsFiniteSet(S), Orders(R, S), NEW x \in S, NEW z \in S,
         Rank(R, S, x) < Rank(R, S, z)
  PROVE  <<x, z>> \in R
<1>1. Rank(R, S, x) \in Nat /\ Rank(R, S, z) \in Nat
  BY RankType
<1>2. x # z
  BY <1>1
<1>3. CASE <<z, x>> \in R
  <2>1. Rank(R, S, z) < Rank(R, S, x)
    BY <1>3, RankLess
  <2> QED BY <1>1, <2>1
<1> QED BY <1>2, <1>3 DEF Orders

\* A rank is below the number of elements, and two elements have different ones.
LEMMA RankBelow ==
  ASSUME NEW R, NEW S, IsFiniteSet(S), Orders(R, S), NEW x \in S
  PROVE  Rank(R, S, x) \in Nat /\ Rank(R, S, x) < Cardinality(S)
<1> DEFINE A == {y \in S : <<y, x>> \in R}
<1>1. A \in SUBSET S /\ x \notin A
  BY DEF Orders
<1>2. IsFiniteSet(A) /\ Cardinality(A) <= Cardinality(S) /\ Cardinality(A) # Cardinality(S)
  BY <1>1, FS_Subset
<1>3. Cardinality(A) \in Nat /\ Cardinality(S) \in Nat
  BY <1>2, FS_CardinalityType
<1> QED BY <1>2, <1>3 DEF Rank

\* Two elements never share a rank.
LEMMA RankApart ==
  ASSUME NEW R, NEW S, IsFiniteSet(S), Orders(R, S), NEW x \in S, NEW z \in S,
         Rank(R, S, x) = Rank(R, S, z)
  PROVE  x = z
<1>1. Rank(R, S, x) \in Nat
  BY RankType
<1>2. <<x, z>> \notin R
  <2>1. SUFFICES ASSUME <<x, z>> \in R PROVE FALSE
    OBVIOUS
  <2>2. Rank(R, S, x) < Rank(R, S, z)
    BY <2>1, RankLess
  <2> QED BY <1>1, <2>2
<1>3. <<z, x>> \notin R
  <2>1. SUFFICES ASSUME <<z, x>> \in R PROVE FALSE
    OBVIOUS
  <2>2. Rank(R, S, z) < Rank(R, S, x)
    BY <2>1, RankLess
  <2> QED BY <1>1, <2>2
<1> QED BY <1>2, <1>3 DEF Orders

\* Every place below the number of elements is taken.
LEMMA RankOnto ==
  ASSUME NEW R, NEW S, IsFiniteSet(S), Orders(R, S), NEW n \in Nat, n < Cardinality(S)
  PROVE  \E x \in S : Rank(R, S, x) = n
<1> DEFINE m == Cardinality(S)
           T == 0 .. m - 1
           f == [x \in S |-> Rank(R, S, x)]
<1>1. m \in Nat
  BY FS_CardinalityType
<1>2. \A x \in S : Rank(R, S, x) \in Nat /\ Rank(R, S, x) < m
  BY RankBelow
<1>3. \A x \in S : Rank(R, S, x) \in T
  BY <1>1, <1>2
<1>4. \A x, z \in S : Rank(R, S, x) = Rank(R, S, z) => x = z
  BY RankApart
<1>5. f \in Injection(S, T)
  <2>1. f \in [S -> T] /\ DOMAIN f = S /\ \A x \in S : f[x] = Rank(R, S, x)
    BY <1>3
  <2> HIDE DEF f
  <2> QED BY <1>4, <2>1 DEF Injection, IsInjective
<1>6. IsFiniteSet(T) /\ Cardinality(T) = m
  <2>1. 0 \in Int /\ m - 1 \in Int
    BY <1>1
  <2>2. IsFiniteSet(0 .. m - 1)
        /\ Cardinality(0 .. m - 1) = IF 0 > m - 1 THEN 0 ELSE (m - 1) - 0 + 1
    BY <2>1, FS_Interval, Zenon
  <2> QED BY <1>1, <2>2
<1> HIDE DEF f
<1>7. f \in Surjection(S, T)
  BY <1>5, <1>6, FS_Injection
<1>8. n \in T
  BY <1>1
<1>9. PICK x \in S : f[x] = n
  BY <1>7, <1>8 DEF Surjection
<1> QED BY <1>9 DEF f

\* Ranks only grow when elements are added.
LEMMA RankGrows ==
  ASSUME NEW R, NEW Q, NEW S, NEW T, IsFiniteSet(T), NEW x,
         \A y \in S : <<y, x>> \in R => y \in T /\ <<y, x>> \in Q
  PROVE  Rank(R, S, x) <= Rank(Q, T, x)
<1> DEFINE B == {y \in T : <<y, x>> \in Q}
<1>1. {y \in S : <<y, x>> \in R} \in SUBSET B
  OBVIOUS
<1>2. IsFiniteSet(B)
  BY FS_Subset
<1> QED BY <1>1, <1>2, FS_Subset DEF Rank

\* A finite set that has elements has a last one.
LEMMA LastThere ==
  ASSUME NEW R, NEW S, IsFiniteSet(S), Orders(R, S), S # {}
  PROVE  \E x \in S : \A y \in S : <<x, y>> \notin R
<1> DEFINE m == Cardinality(S)
<1>1. m \in Nat /\ m # 0
  BY FS_CardinalityType, FS_EmptySet
<1>2. m - 1 \in Nat /\ m - 1 < m
  BY <1>1
<1>3. PICK x \in S : Rank(R, S, x) = m - 1
  BY <1>2, RankOnto
<1>4. ASSUME NEW y \in S, <<x, y>> \in R
      PROVE  FALSE
  <2>1. Rank(R, S, x) < Rank(R, S, y) /\ Rank(R, S, y) \in Nat /\ Rank(R, S, y) < m
    BY <1>4, RankLess, RankBelow
  <2> QED BY <1>1, <1>3, <2>1
<1> QED BY <1>4

\* InOrder lists each element once, at the place of its rank.
LEMMA InOrderLists ==
  ASSUME NEW R, NEW S, IsFiniteSet(S), Orders(R, S)
  PROVE  /\ InOrder(R, S) \in Seq(S) /\ Len(InOrder(R, S)) = Cardinality(S)
         /\ DOMAIN InOrder(R, S) = 1 .. Cardinality(S)
         /\ \A n \in 1 .. Cardinality(S) : Rank(R, S, InOrder(R, S)[n]) = n - 1
         /\ \A x \in S : Rank(R, S, x) + 1 \in 1 .. Cardinality(S)
                         /\ InOrder(R, S)[Rank(R, S, x) + 1] = x
<1> DEFINE m == Cardinality(S)
           s == InOrder(R, S)
<1>1. m \in Nat
  BY FS_CardinalityType
<1>2. ASSUME NEW n \in 1 .. m
      PROVE  s[n] \in S /\ Rank(R, S, s[n]) = n - 1
  <2>1. n - 1 \in Nat /\ n - 1 < m
    BY <1>1
  <2>2. \E x \in S : Rank(R, S, x) = n - 1
    BY <2>1, RankOnto
  <2>3. s[n] = CHOOSE x \in S : Rank(R, S, x) = n - 1
    BY DEF InOrder
  <2> QED BY <2>2, <2>3
<1>3. DOMAIN s = 1 .. m /\ s = [n \in 1 .. m |-> s[n]]
  BY DEF InOrder
<1> HIDE DEF s
<1>4. s \in [1 .. m -> S]
  BY <1>2, <1>3
<1>5. s \in Seq(S) /\ Len(s) = m
  BY <1>1, <1>3, <1>4
<1>6. ASSUME NEW x \in S
      PROVE  Rank(R, S, x) + 1 \in 1 .. m /\ s[Rank(R, S, x) + 1] = x
  <2>1. Rank(R, S, x) \in Nat /\ Rank(R, S, x) < m
    BY RankBelow
  <2>2. Rank(R, S, x) + 1 \in 1 .. m /\ (Rank(R, S, x) + 1) - 1 = Rank(R, S, x)
    BY <1>1, <2>1
  <2>3. s[Rank(R, S, x) + 1] \in S /\ Rank(R, S, s[Rank(R, S, x) + 1]) = Rank(R, S, x)
    BY <1>2, <2>2
  <2> QED BY <2>2, <2>3, RankApart
<1> QED BY <1>2, <1>3, <1>5, <1>6 DEF s

\* A page has at most limit elements.
LEMMA SliceBound ==
  ASSUME NEW R, NEW S, IsFiniteSet(S), Orders(R, S), NEW start \in Nat, NEW limit \in Nat
  PROVE  /\ Slice(R, S, start, limit) \subseteq S /\ IsFiniteSet(Slice(R, S, start, limit))
         /\ Cardinality(Slice(R, S, start, limit)) \in Nat
         /\ Cardinality(Slice(R, S, start, limit)) <= limit
<1> DEFINE T == start .. (start + limit - 1)
           P == Slice(R, S, start, limit)
           f == [x \in P |-> Rank(R, S, x)]
<1>1. P \subseteq S /\ IsFiniteSet(P) /\ \A x \in P : Rank(R, S, x) \in T
  <2>1. P \in SUBSET S
    BY DEF Slice
  <2> QED BY <2>1, FS_Subset DEF Slice
<1>2. IsFiniteSet(T) /\ Cardinality(T) = limit
  <2>1. start \in Int /\ start + limit - 1 \in Int
    OBVIOUS
  <2>2. IsFiniteSet(start .. (start + limit - 1))
        /\ Cardinality(start .. (start + limit - 1))
             = IF start > start + limit - 1 THEN 0 ELSE (start + limit - 1) - start + 1
    BY <2>1, FS_Interval, Zenon
  <2> QED BY <2>2
<1>3. f \in Injection(P, T)
  <2>1. f \in [P -> T] /\ DOMAIN f = P /\ \A x \in P : f[x] = Rank(R, S, x)
    BY <1>1
  <2> HIDE DEF f
  <2>2. \A x, z \in P : f[x] = f[z] => x = z
    BY <1>1, <2>1, RankApart
  <2> QED BY <2>1, <2>2 DEF Injection, IsInjective
<1> HIDE DEF f
<1>4. Cardinality(P) <= Cardinality(T)
  BY <1>1, <1>2, <1>3, FS_Injection
<1> QED BY <1>1, <1>2, <1>4, FS_CardinalityType

\* A page with elements after it is full.
LEMMA SliceFull ==
  ASSUME NEW R, NEW S, IsFiniteSet(S), Orders(R, S), NEW start \in Nat, NEW limit \in Nat,
         NEW x \in S, start + limit <= Rank(R, S, x)
  PROVE  Cardinality(Slice(R, S, start, limit)) = limit
<1> DEFINE T == start .. (start + limit - 1)
           P == Slice(R, S, start, limit)
           f == [n \in T |-> CHOOSE y \in S : Rank(R, S, y) = n]
<1>1. /\ P \subseteq S /\ IsFiniteSet(P) /\ Cardinality(P) \in Nat /\ Cardinality(P) <= limit
  BY SliceBound
<1>2. IsFiniteSet(T) /\ Cardinality(T) = limit
  <2>1. start \in Int /\ start + limit - 1 \in Int
    OBVIOUS
  <2>2. IsFiniteSet(start .. (start + limit - 1))
        /\ Cardinality(start .. (start + limit - 1))
             = IF start > start + limit - 1 THEN 0 ELSE (start + limit - 1) - start + 1
    BY <2>1, FS_Interval, Zenon
  <2> QED BY <2>2
<1>3. ASSUME NEW n \in T
      PROVE  f[n] \in P /\ Rank(R, S, f[n]) = n
  <2>1. Rank(R, S, x) \in Nat /\ Rank(R, S, x) < Cardinality(S) /\ Cardinality(S) \in Nat
    BY RankBelow, FS_CardinalityType
  <2>2. n \in Nat /\ n < Cardinality(S)
    BY <2>1
  <2>3. \E y \in S : Rank(R, S, y) = n
    BY <2>2, RankOnto
  <2>4. f[n] \in S /\ Rank(R, S, f[n]) = n
    BY <2>3
  <2> HIDE DEF f
  <2> QED BY <2>4 DEF Slice
<1>4. f \in Injection(T, P)
  <2>1. f \in [T -> P] /\ \A n \in T : Rank(R, S, f[n]) = n
    <3>1. DOMAIN f = T /\ f = [n \in T |-> f[n]]
      OBVIOUS
    <3> HIDE DEF f
    <3> QED BY <1>3, <3>1
  <2> HIDE DEF f
  <2>2. \A m, n \in T : f[m] = f[n] => m = n
    BY <2>1
  <2> QED BY <2>1, <2>2 DEF Injection, IsInjective
<1> HIDE DEF f
<1>5. Cardinality(T) <= Cardinality(P)
  BY <1>1, <1>2, <1>4, FS_Injection
<1> QED BY <1>1, <1>2, <1>5

\* Who has the first n elements of a set has them at their places.
LEMMA TopKept ==
  ASSUME NEW R, NEW S, IsFiniteSet(S), Orders(R, S), NEW n \in Nat \ {0},
         NEW T \in SUBSET S, \A y \in S : Rank(R, S, y) < n => y \in T, NEW x \in T
  PROVE  /\ Rank(R, T, x) \in Nat /\ Rank(R, S, x) \in Nat
         /\ Rank(R, S, x) < n => Rank(R, T, x) = Rank(R, S, x)
         /\ n <= Rank(R, S, x) => n <= Rank(R, T, x)
<1>1. IsFiniteSet(T) /\ Orders(R, T) /\ x \in S
  <2>1. T \subseteq S
    OBVIOUS
  <2> QED BY <2>1, FS_Subset DEF Orders
<1>2. Rank(R, T, x) \in Nat /\ Rank(R, S, x) \in Nat
  BY <1>1, RankType
<1>3. ASSUME NEW z \in T, Rank(R, S, z) < n
      PROVE  Rank(R, T, z) = Rank(R, S, z)
  <2>1. z \in S /\ Rank(R, S, z) \in Nat
    BY <1>1, RankType
  <2>2. ASSUME NEW y \in S, <<y, z>> \in R PROVE y \in T
    <3>1. Rank(R, S, y) < Rank(R, S, z) /\ Rank(R, S, y) \in Nat
      BY <1>1, <2>1, <2>2, RankLess, RankType
    <3> QED BY <1>3, <2>1, <3>1
  <2>3. {y \in T : <<y, z>> \in R} = {y \in S : <<y, z>> \in R}
    BY <2>2
  <2> QED BY <2>3 DEF Rank
<1>4. ASSUME n <= Rank(R, S, x)
      PROVE  n <= Rank(R, T, x)
  <2>1. Rank(R, S, x) < Cardinality(S) /\ Cardinality(S) \in Nat
    BY <1>1, RankBelow, FS_CardinalityType
  <2>2. n - 1 \in Nat /\ n - 1 < Cardinality(S) /\ n - 1 < n
    BY <1>2, <1>4, <2>1
  <2>3. PICK z \in S : Rank(R, S, z) = n - 1
    BY <2>2, RankOnto
  <2>4. z \in T /\ Rank(R, T, z) = n - 1
    BY <1>3, <2>2, <2>3
  <2>5. Rank(R, S, z) < Rank(R, S, x)
    BY <1>2, <1>4, <2>3
  <2>6. <<z, x>> \in R
    BY <1>1, <2>5, RankTells
  <2>7. Rank(R, T, z) < Rank(R, T, x)
    BY <1>1, <2>4, <2>6, RankLess
  <2> QED BY <1>2, <2>4, <2>7
<1> QED BY <1>2, <1>3, <1>4

-----------------------------------------------------------------------------
(***************************************************************************)
(* The walk by pages. FetchedUpToCursor needs to know, of each item that   *)
(* has changed since the cursor and not since the walk began, where it is: *)
(* read, failed, in hand, or still ahead of the offset or the token. An    *)
(* offset counts what is listed before an item, which additions can only   *)
(* raise; a removal can lower it, and is why the model forgives it.        *)
(***************************************************************************)

WalkType ==
  [at : {"idle", "walking"}, start : Nat, key : Nat, since : Nat, began : Nat,
   page : Seq(Entry \X Nat), more : BOOLEAN, got : [Entry -> Nat], failed : SUBSET Entry,
   shrunk : BOOLEAN]

WalkShapes ==
  /\ style \in Styles \cup {"none"}
  /\ touched \in [Entry -> Nat] /\ now \in Nat /\ until \in Nat /\ until <= now
  /\ \A e \in Entry : touched[e] <= now
  /\ \A d, e \in Entry : touched[d] = touched[e] /\ touched[d] # 0 => d = e
  /\ taken \in [Entry -> Nat] /\ forgiven \subseteq Entry
  /\ walk \in WalkType

\* The item is as it was when the walk u began.
Same(u, e) == touched[e] # 0 /\ touched[e] <= u.began

\* The item is on a page to come.
Ahead(u, e) ==
  IF style \in {"cql", "pulls"} THEN u.start <= Rank(Earlier, Listed, e) ELSE touched[e] < u.key

\* What a walk does with an item that has changed since the cursor.
Found(u, e) ==
  \/ u.got[e] = touched[e] \/ e \in u.failed \/ u.shrunk
  \/ \E i \in DOMAIN u.page : u.page[i][1] = e
  \/ u.more /\ Ahead(u, e)

WalkOK(u) ==
  u.at = "walking" =>
    /\ style # "none" /\ u.since <= until /\ u.began <= now
    /\ \A i \in DOMAIN u.page : Same(u, u.page[i][1]) => u.page[i][2] = touched[u.page[i][1]]
    /\ \A e \in Entry : Same(u, e) /\ u.got[e] # 0 => u.got[e] = touched[e]
    /\ \A e \in Entry : Same(u, e) /\ touched[e] > u.since => Found(u, e)

WalkInv == WalkShapes /\ FetchedUpToCursor /\ WalkOK(walk)

\* The fields of a walk.
LEMMA WalkFields ==
  ASSUME NEW u \in WalkType
  PROVE  /\ u.at \in {"idle", "walking"} /\ u.start \in Nat /\ u.key \in Nat /\ u.since \in Nat
         /\ u.began \in Nat /\ u.page \in Seq(Entry \X Nat) /\ u.more \in BOOLEAN
         /\ u.got \in [Entry -> Nat] /\ u.failed \subseteq Entry /\ u.shrunk \in BOOLEAN
BY DEF WalkType

\* The idle walk has its type and nothing in hand.
LEMMA NoWalkType ==
  NoWalk \in WalkType /\ NoWalk.at = "idle" /\ NoWalk.got = [e \in Entry |-> 0]
    /\ NoWalk.page = <<>> /\ NoWalk.start = 0 /\ NoWalk.failed = {} /\ NoWalk.shrunk = FALSE
BY DEF NoWalk, WalkType

\* What a server lists is a finite set, and its order puts any two items in an order.
LEMMA ListedOrdered ==
  ASSUME WalkShapes
  PROVE  /\ IsFiniteSet(Entry) /\ IsFiniteSet(Listed) /\ Listed \subseteq Entry
         /\ \A S \in SUBSET Listed : IsFiniteSet(S) /\ Orders(Earlier, S)
<1>1. IsFiniteSet(Entry)
  BY WalkAssumption, FS_Interval DEF Entry
<1>2. Listed \subseteq Entry /\ \A e \in Listed : touched[e] # 0
  BY DEF Listed
<1>3. \A S \in SUBSET Entry : IsFiniteSet(S)
  BY <1>1, FS_Subset
<1>4. \A e \in Entry : e \in Int /\ touched[e] \in Nat
  BY WalkAssumption DEF Entry, WalkShapes
<1>5. ASSUME NEW S \in SUBSET Listed
      PROVE  Orders(Earlier, S)
  <2>1. \A d, e \in S : /\ d \in Entry /\ e \in Entry /\ touched[d] # 0
                        /\ touched[d] = touched[e] => d = e
    BY <1>2 DEF WalkShapes
  <2>2. \A d, e \in S : <<d, e>> \in Earlier <=>
                          IF style = "cql" THEN d < e ELSE touched[d] > touched[e]
    BY <2>1 DEF Earlier
  <2>3. CASE style = "cql"
    <3>1. \A d, e \in S : d \in Int /\ e \in Int /\ (<<d, e>> \in Earlier <=> d < e)
      BY <1>4, <2>1, <2>2, <2>3
    <3> QED BY <3>1 DEF Orders
  <2>4. CASE style # "cql"
    <3>1. \A d, e \in S : /\ touched[d] \in Nat /\ touched[e] \in Nat
                          /\ <<d, e>> \in Earlier <=> touched[d] > touched[e]
      BY <1>4, <2>1, <2>2, <2>4
    <3> QED BY <2>1, <3>1 DEF Orders
  <2> QED BY <2>3, <2>4
<1> QED BY <1>1, <1>2, <1>3, <1>5

\* A function on an initial segment is a sequence.
LEMMA SeqOf ==
  ASSUME NEW T, NEW n \in Nat, NEW f \in [1 .. n -> T]
  PROVE  f \in Seq(T)
OBVIOUS

\* The places of two sequences put together.
Joined(p, q, s) ==
  /\ \A i \in DOMAIN p : i \in DOMAIN s /\ s[i] = p[i]
  /\ \A j \in DOMAIN q : \E i \in DOMAIN s : s[i] = q[j]
  /\ \A i \in DOMAIN s :
       \/ i \in DOMAIN p /\ s[i] = p[i]
       \/ \E j \in DOMAIN q : s[i] = q[j]

\* The places of a concatenation are those of its parts, one after the other.
LEMMA ConcatPlaces ==
  ASSUME NEW T, NEW p \in Seq(T), NEW q \in Seq(T)
  PROVE  p \o q \in Seq(T) /\ Joined(p, q, p \o q)
<1> DEFINE s == p \o q
<1>1. /\ s \in Seq(T) /\ Len(p) \in Nat /\ Len(q) \in Nat /\ Len(s) = Len(p) + Len(q)
      /\ \A i \in 1 .. Len(p) + Len(q) :
           s[i] = IF i <= Len(p) THEN p[i] ELSE q[i - Len(p)]
  BY ConcatProperties, LenProperties
<1>2. DOMAIN p = 1 .. Len(p) /\ DOMAIN q = 1 .. Len(q)
      /\ DOMAIN s = 1 .. Len(p) + Len(q)
  BY <1>1, LenProperties
<1> HIDE DEF s
<1>3. ASSUME NEW j \in 1 .. Len(q)
      PROVE  j + Len(p) \in 1 .. Len(p) + Len(q) /\ s[j + Len(p)] = q[j]
  <2>1. j + Len(p) \in 1 .. Len(p) + Len(q) /\ ~(j + Len(p) <= Len(p))
        /\ (j + Len(p)) - Len(p) = j
    BY <1>1
  <2> QED BY <1>1, <2>1
<1>4. ASSUME NEW i \in 1 .. Len(p) + Len(q), ~(i <= Len(p))
      PROVE  i - Len(p) \in 1 .. Len(q) /\ s[i] = q[i - Len(p)]
  BY <1>1, <1>4
<1>5. \A i \in 1 .. Len(p) : i \in 1 .. Len(p) + Len(q) /\ s[i] = p[i]
  BY <1>1
<1>6. \A i \in 1 .. Len(p) + Len(q) : i <= Len(p) => i \in 1 .. Len(p)
  BY <1>1
<1>7. Joined(p, q, s)
  BY <1>1, <1>2, <1>3, <1>4, <1>5, <1>6 DEF Joined
<1> QED BY <1>1, <1>7 DEF s

\* The places of a sequence without its head.
Beheaded(p, h, s) ==
  /\ 1 \in DOMAIN p /\ h = p[1]
  /\ \A i \in DOMAIN s : \E j \in DOMAIN p : s[i] = p[j]
  /\ \A i \in DOMAIN p : p[i] = h \/ \E j \in DOMAIN s : s[j] = p[i]

\* The places of a tail are those of the whole, but for the head.
LEMMA TailPlaces ==
  ASSUME NEW T, NEW p \in Seq(T), p # <<>>
  PROVE  Tail(p) \in Seq(T) /\ Head(p) \in T /\ Beheaded(p, Head(p), Tail(p))
<1>1. /\ Tail(p) \in Seq(T) /\ Head(p) \in T /\ Len(p) \in Nat /\ Len(p) # 0
      /\ Len(Tail(p)) = Len(p) - 1 /\ Head(p) = p[1]
      /\ \A i \in 1 .. Len(p) - 1 : Tail(p)[i] = p[i + 1]
  BY HeadTailProperties, EmptySeq, LenProperties
<1>2. DOMAIN p = 1 .. Len(p) /\ DOMAIN Tail(p) = 1 .. Len(p) - 1
  BY <1>1, LenProperties
<1>3. ASSUME NEW i \in 1 .. Len(p), i # 1
      PROVE  i - 1 \in 1 .. Len(p) - 1 /\ Tail(p)[i - 1] = p[i]
  <2>1. i - 1 \in 1 .. Len(p) - 1 /\ (i - 1) + 1 = i
    BY <1>1, <1>3
  <2> QED BY <1>1, <2>1
<1>4. 1 \in 1 .. Len(p) /\ \A i \in 1 .. Len(p) - 1 : i + 1 \in 1 .. Len(p)
  BY <1>1
<1>5. Beheaded(p, Head(p), Tail(p))
  BY <1>1, <1>2, <1>3, <1>4 DEF Beheaded
<1> QED BY <1>1, <1>5

\* The fetch begins: everything is on the pages to come.
LEMMA BeginWalkKeeps ==
  ASSUME WalkInv, NEW since \in {0, until}, BeginWalk(since)
  PROVE  WalkInv'
<1>0. WalkShapes /\ now \in Nat /\ until \in Nat /\ until <= now /\ since \in Nat
      /\ since <= until /\ touched \in [Entry -> Nat]
  BY DEF WalkInv, WalkShapes
<1> DEFINE v == [NoWalk EXCEPT !.at = "walking", !.since = since, !.began = now, !.key = now + 1,
                               !.more = TRUE]
<1>1. /\ walk' = v /\ UNCHANGED <<style, touched, now, until, taken, forgiven>>
      /\ style # "none"
  BY DEF BeginWalk
<1>2. /\ v.at = "walking" /\ v.since = since /\ v.began = now /\ v.key = now + 1
      /\ v.more = TRUE /\ v.start = 0 /\ v.got = [e \in Entry |-> 0] /\ v.page = <<>>
  BY DEF NoWalk
<1>3. v \in WalkType
  <2>1. now + 1 \in Nat
    BY <1>0
  <2> QED BY <1>0, <2>1, NoWalkType DEF WalkType
<1>31. PICK w \in WalkType :
         /\ walk' = w /\ w.at = "walking" /\ w.since = since /\ w.began = now /\ w.key = now + 1
         /\ w.more = TRUE /\ w.start = 0 /\ w.got = [e \in Entry |-> 0] /\ w.page = <<>>
  BY <1>1, <1>2, <1>3
<1> HIDE DEF v
<1>4. IsFiniteSet(Listed')
  <2>1. Listed' \subseteq Entry
    BY DEF Listed
  <2> QED BY <1>0, <2>1, ListedOrdered, FS_Subset
<1>5. ASSUME NEW e \in Entry, Same(w, e)'
      PROVE  Found(w, e)'
  <2>1. Rank(Earlier', Listed', e) \in Nat
    BY <1>4, RankType
  <2>2. touched'[e] < w.key
    BY <1>0, <1>1, <1>31, <1>5 DEF Same
  <2> QED BY <1>31, <2>1, <2>2 DEF Found, Ahead
<1>6. WalkOK(w)'
  <2>1. DOMAIN w.page = {} /\ \A e \in Entry : w.got[e] = 0
    BY <1>31
  <2> QED BY <1>0, <1>1, <1>31, <1>5, <2>1 DEF WalkOK
<1> QED BY <1>1, <1>31, <1>6 DEF WalkInv, WalkShapes, FetchedUpToCursor

\* One request takes the items of its page in hand, and leaves those after it ahead.
LEMMA ListPageKeeps ==
  ASSUME WalkInv, ListPage
  PROVE  WalkInv'
<1>0. /\ WalkShapes /\ walk \in WalkType /\ WalkOK(walk) /\ touched \in [Entry -> Nat]
      /\ PageLimit \in Nat \ {0} /\ style \in Styles \cup {"none"}
  BY WalkAssumption DEF WalkInv, WalkShapes
<1>1. PICK u \in WalkType : u = walk
  BY <1>0
<1> DEFINE page == {e \in Listed : Rank(Earlier, Listed, e)
                                     \in Skipped .. (Skipped + PageLimit - 1)}
           K    == {e \in page : touched[e] >= u.since}
           kept == InOrder(Earlier, K)
           last == {e \in page : \A d \in page : <<e, d>> \notin Earlier}
           q    == [i \in DOMAIN kept |-> <<kept[i], touched[kept[i]]>>]
           key  == IF page = {} THEN u.key ELSE touched[CHOOSE e \in last : TRUE]
           more == /\ \A e \in page : touched[e] >= u.since
                   /\ Skipped + PageLimit < Total(Listed)
           v    == [u EXCEPT !.page = @ \o q, !.start = @ + PageLimit, !.key = key, !.more = more]
<1>2. /\ walk' = v /\ UNCHANGED <<style, touched, now, until, taken, forgiven>>
      /\ u.at = "walking" /\ u.more
  BY <1>1 DEF ListPage, Asking, Slice
<1>3. /\ v.at = u.at /\ v.start = u.start + PageLimit /\ v.key = key /\ v.since = u.since
      /\ v.began = u.began /\ v.page = u.page \o q /\ v.more = more /\ v.got = u.got
      /\ v.failed = u.failed /\ v.shrunk = u.shrunk
  BY DEF WalkType
<1>4. /\ IsFiniteSet(Listed) /\ Listed \subseteq Entry /\ Orders(Earlier, Listed)
      /\ page \subseteq Listed /\ K \subseteq page
      /\ IsFiniteSet(page) /\ Orders(Earlier, page) /\ IsFiniteSet(K) /\ Orders(Earlier, K)
  <2>1. page \in SUBSET Listed /\ K \in SUBSET Listed
    OBVIOUS
  <2> QED BY <1>0, <2>1, ListedOrdered
<1>5. /\ kept \in Seq(K) /\ DOMAIN kept = 1 .. Cardinality(K) /\ Cardinality(K) \in Nat
      /\ \A e \in K : \E i \in DOMAIN kept : kept[i] = e
  <2> HIDE DEF K
  <2>1. /\ kept \in Seq(K) /\ DOMAIN kept = 1 .. Cardinality(K)
        /\ \A e \in K : /\ Rank(Earlier, K, e) + 1 \in 1 .. Cardinality(K)
                       /\ kept[Rank(Earlier, K, e) + 1] = e
    BY <1>4, InOrderLists
  <2>2. Cardinality(K) \in Nat
    BY <1>4, FS_CardinalityType
  <2> HIDE DEF kept
  <2>3. ASSUME NEW e \in K
        PROVE  \E i \in DOMAIN kept : kept[i] = e
    BY <2>1
  <2> QED BY <2>1, <2>2, <2>3
<1>6. /\ q \in Seq(Entry \X Nat)
      /\ \A j \in DOMAIN q : q[j][1] \in K /\ q[j][2] = touched[q[j][1]]
      /\ \A e \in K : \E j \in DOMAIN q : q[j][1] = e
  <2>1. \A i \in DOMAIN kept : kept[i] \in K /\ kept[i] \in Entry /\ touched[kept[i]] \in Nat
    <3>1. \A i \in DOMAIN kept : kept[i] \in K
      BY <1>5, ElementOfSeq
    <3> QED BY <1>0, <1>4, <3>1
  <2> HIDE DEF kept, K
  <2>2. q \in [1 .. Cardinality(K) -> Entry \X Nat]
    BY <1>5, <2>1
  <2>3. q \in Seq(Entry \X Nat)
    <3> HIDE DEF q
    <3>1. Cardinality(K) \in Nat
      BY <1>5
    <3> QED BY <2>2, <3>1, SeqOf
  <2>4. DOMAIN q = DOMAIN kept /\ \A i \in DOMAIN kept : q[i][1] = kept[i] /\ q[i][2] = touched[kept[i]]
    OBVIOUS
  <2> HIDE DEF q
  <2>5. \A e \in K : \E j \in DOMAIN q : q[j][1] = e
    BY <1>5, <2>4
  <2> QED BY <2>1, <2>3, <2>4, <2>5
<1> HIDE DEF q, kept
<1>7. key \in Nat /\ (page # {} => \E e \in page : key = touched[e])
  <2>1. page # {} => last # {}
    BY <1>4, LastThere
  <2>2. page # {} => (CHOOSE e \in last : TRUE) \in last
    BY <2>1
  <2> QED BY <1>0, <1>4, <2>2, WalkFields
<1>8. v.page \in Seq(Entry \X Nat) /\ Joined(u.page, q, v.page)
  <2>1. u.page \in Seq(Entry \X Nat) /\ q \in Seq(Entry \X Nat)
    BY <1>6, WalkFields
  <2>2. u.page \o q \in Seq(Entry \X Nat) /\ Joined(u.page, q, u.page \o q)
    BY <2>1, ConcatPlaces
  <2> HIDE DEF v
  <2> QED BY <1>3, <2>2
<1>9. more \in BOOLEAN
  OBVIOUS
<1> HIDE DEF key, more
<1>10. v \in WalkType
  <2>1. u.start + PageLimit \in Nat
    BY <1>0, WalkFields
  <2>2. u.page \o q \in Seq(Entry \X Nat)
    BY <1>3, <1>8
  <2> QED BY <1>7, <1>9, <2>1, <2>2 DEF WalkType
<1>101. PICK w \in WalkType :
          /\ walk' = w
          /\ w.at = u.at /\ w.start = u.start + PageLimit /\ w.key = key /\ w.since = u.since
          /\ w.began = u.began /\ w.more = more /\ w.got = u.got
          /\ w.failed = u.failed /\ w.shrunk = u.shrunk
          /\ Joined(u.page, q, w.page)
  BY <1>2, <1>3, <1>8, <1>10
<1> HIDE DEF v
<1>11. Listed' = Listed /\ Earlier' = Earlier
  BY <1>1, <1>2, <1>101 DEF Listed, Earlier
<1>12. /\ \A i \in DOMAIN u.page : Same(u, u.page[i][1]) => u.page[i][2] = touched[u.page[i][1]]
       /\ \A e \in Entry : Same(u, e) /\ u.got[e] # 0 => u.got[e] = touched[e]
       /\ \A e \in Entry : Same(u, e) /\ touched[e] > u.since => Found(u, e)
       /\ style # "none" /\ u.since <= until /\ u.began <= now
  BY <1>0, <1>1, <1>2 DEF WalkOK
<1>13. ASSUME NEW e \in Entry, Same(u, e), touched[e] > u.since, Ahead(u, e)
       PROVE  e \in K \/ (more /\ Ahead(w, e)')
  <2> DEFINE r == Rank(Earlier, Listed, e)
  <2>0. u.since \in Nat /\ u.start \in Nat /\ u.key \in Nat /\ touched[e] \in Nat
        /\ \A d \in Listed : touched[d] \in Nat /\ d \in Entry
    BY <1>0, <1>4, WalkFields
  <2>1. e \in Listed
    BY <1>1, <1>13, <2>0 DEF Same, Listed
  <2>2. r \in Nat /\ r < Cardinality(Listed) /\ Cardinality(Listed) \in Nat
    BY <1>4, <2>1, RankBelow, FS_CardinalityType
  <2>3. Skipped \in Nat /\ Skipped <= r
    <3>1. CASE style \in {"cql", "pulls"}
      BY <1>1, <1>13, <2>0, <2>2, <3>1 DEF Skipped, Ahead
    <3>2. CASE style \notin {"cql", "pulls"}
      <4> DEFINE A == {d \in Listed : touched[d] >= u.key}
                 B == {d \in Listed : <<d, e>> \in Earlier}
      <4>1. touched[e] < u.key
        BY <1>13, <3>2 DEF Ahead
      <4>2. \A d \in A : <<d, e>> \in Earlier
        BY <1>13, <2>0, <3>2, <4>1 DEF Earlier
      <4>3. A \in SUBSET B
        BY <4>2
      <4>4. IsFiniteSet(B) /\ IsFiniteSet(A)
        BY <1>4, FS_Subset
      <4>5. Cardinality(A) \in Nat /\ Cardinality(A) <= Cardinality(B)
        BY <4>3, <4>4, FS_Subset, FS_CardinalityType
      <4>6. Skipped = Cardinality(A)
        BY <1>1, <3>2 DEF Skipped
      <4> QED BY <4>5, <4>6 DEF Rank
    <3> QED BY <3>1, <3>2
  <2>4. CASE r <= Skipped + PageLimit - 1
    <3>1. r \in Skipped .. (Skipped + PageLimit - 1)
      BY <1>0, <2>2, <2>3, <2>4
    <3>2. e \in page
      BY <2>1, <3>1
    <3> QED BY <1>13, <2>0, <3>2
  <2>5. CASE r > Skipped + PageLimit - 1
    <3>1. ASSUME NEW d \in page
          PROVE  <<d, e>> \in Earlier
      <4>1. d \in Listed /\ Rank(Earlier, Listed, d) \in Skipped .. (Skipped + PageLimit - 1)
        OBVIOUS
      <4>2. Rank(Earlier, Listed, d) < r
        BY <1>0, <2>2, <2>3, <2>5, <4>1
      <4> QED BY <1>4, <2>1, <4>1, <4>2, RankTells
    <3>2. \A d \in page : style # "cql" => touched[d] > touched[e]
      <4> HIDE DEF page
      <4> QED BY <3>1 DEF Earlier
    <3>3. \A d \in page : touched[d] >= u.since
      <4>1. CASE style = "cql"
        BY <1>1, <4>1 DEF Listed
      <4>2. CASE style # "cql"
        BY <1>4, <1>13, <2>0, <3>2, <4>2
      <4> QED BY <4>1, <4>2
    <3>4. Skipped + PageLimit < Total(Listed)
      <4>1. Skipped + PageLimit <= r
        BY <1>0, <2>2, <2>3, <2>5
      <4> QED BY <1>0, <2>2, <2>3, <4>1 DEF Total
    <3>5. more
      BY <3>3, <3>4 DEF more
    <3>6. CASE style \in {"cql", "pulls"}
      <4>1. Skipped = u.start
        BY <1>1, <3>6 DEF Skipped
      <4>2. w.start <= r
        BY <1>0, <1>101, <2>0, <2>2, <2>5, <4>1
      <4> QED BY <1>2, <1>11, <3>5, <3>6, <4>2 DEF Ahead
    <3>7. CASE style \notin {"cql", "pulls"}
      <4>1. touched[e] < w.key
        <5>1. CASE page = {}
          <6>1. w.key = u.key
            BY <1>101, <5>1 DEF key
          <6> QED BY <1>13, <3>7, <6>1 DEF Ahead
        <5>2. CASE page # {}
          <6>1. PICK d \in page : key = touched[d]
            BY <1>7, <5>2
          <6>2. touched[d] > touched[e]
            BY <3>2, <3>7
          <6> QED BY <1>101, <6>1, <6>2
        <5> QED BY <5>1, <5>2
      <4> QED BY <1>2, <3>5, <3>7, <4>1 DEF Ahead
    <3> QED BY <3>6, <3>7
  <2> QED BY <1>0, <2>2, <2>3, <2>4, <2>5
<1> HIDE DEF K, page
<1>14. ASSUME NEW e \in Entry, Same(u, e), touched[e] > u.since
       PROVE  Found(w, e)'
  <2>1. Found(u, e)
    BY <1>12, <1>14
  <2>2. CASE u.got[e] = touched[e] \/ e \in u.failed \/ u.shrunk
    BY <1>2, <1>101, <2>2 DEF Found
  <2>3. CASE \E i \in DOMAIN u.page : u.page[i][1] = e
    BY <1>101, <2>3 DEF Found, Joined
  <2>4. CASE Ahead(u, e)
    <3>1. CASE e \in K
      <4>1. PICK j \in DOMAIN q : q[j][1] = e
        BY <1>6, <3>1
      <4>2. PICK i \in DOMAIN w.page : w.page[i] = q[j]
        BY <1>101 DEF Joined
      <4> QED BY <4>1, <4>2 DEF Found
    <3>2. CASE more /\ Ahead(w, e)'
      BY <1>101, <3>2 DEF Found
    <3> QED BY <1>13, <1>14, <2>4, <3>1, <3>2
  <2> QED BY <2>1, <2>2, <2>3, <2>4 DEF Found
<1>15. ASSUME NEW i \in DOMAIN w.page, Same(w, w.page[i][1])'
       PROVE  w.page[i][2] = touched'[w.page[i][1]]
  <2>1. CASE i \in DOMAIN u.page /\ w.page[i] = u.page[i]
    BY <1>2, <1>101, <1>12, <1>15, <2>1 DEF Same
  <2>2. CASE \E j \in DOMAIN q : w.page[i] = q[j]
    BY <1>2, <1>6, <2>2
  <2> QED BY <1>101, <2>1, <2>2 DEF Joined
<1>16. WalkOK(w)'
  <2>1. \A e \in Entry : Same(w, e)' => Same(u, e)
    BY <1>2, <1>101 DEF Same
  <2> QED BY <1>2, <1>101, <1>12, <1>14, <1>15, <2>1 DEF WalkOK
<1> QED BY <1>2, <1>101, <1>16 DEF WalkInv, WalkShapes, FetchedUpToCursor

\* The next item in hand is read, or given up: the others stay where they are.
LEMMA ItemGoes ==
  ASSUME WalkInv, InHand, NEW k \in Nat, NEW failed \in SUBSET Entry,
         walk' = [Past(k) EXCEPT !.failed = failed], walk.failed \subseteq failed,
         UNCHANGED <<style, touched, now, until, taken, forgiven>>,
         Head(walk.page)[1] \in Entry /\ Same(walk, Head(walk.page)[1]) =>
           /\ k # 0 => k = touched[Head(walk.page)[1]]
           /\ touched[Head(walk.page)[1]] > walk.since =>
                k = touched[Head(walk.page)[1]] \/ Head(walk.page)[1] \in failed
  PROVE  WalkInv'
<1>0. WalkShapes /\ walk \in WalkType /\ WalkOK(walk) /\ touched \in [Entry -> Nat]
  BY DEF WalkInv, WalkShapes
<1>1. PICK u \in WalkType : u = walk
  BY <1>0
<1>2. u.at = "walking" /\ u.page # <<>> /\ u.page \in Seq(Entry \X Nat)
  BY <1>1, WalkFields DEF InHand
<1>3. PICK h \in Entry \X Nat : h = Head(u.page)
  BY <1>2, TailPlaces
<1>4. Tail(u.page) \in Seq(Entry \X Nat) /\ Beheaded(u.page, h, Tail(u.page)) /\ h[1] \in Entry
  BY <1>2, <1>3, TailPlaces
<1> DEFINE v == [u EXCEPT !.page = Tail(@), !.got[h[1]] = k, !.failed = failed]
<1>5. walk' = v
  BY <1>1, <1>3 DEF Past
<1>6. /\ v.at = u.at /\ v.start = u.start /\ v.key = u.key /\ v.since = u.since
      /\ v.began = u.began /\ v.more = u.more /\ v.got = [u.got EXCEPT ![h[1]] = k]
      /\ v.failed = failed /\ v.shrunk = u.shrunk /\ v.page = Tail(u.page)
  BY DEF WalkType
<1>7. v \in WalkType
  <2>1. [u.got EXCEPT ![h[1]] = k] \in [Entry -> Nat]
    BY WalkFields
  <2> QED BY <1>4, <2>1 DEF WalkType
<1>8. PICK w \in WalkType :
        /\ walk' = w /\ w.at = u.at /\ w.start = u.start /\ w.key = u.key /\ w.since = u.since
        /\ w.began = u.began /\ w.more = u.more /\ w.failed = failed /\ w.shrunk = u.shrunk
        /\ \A e \in Entry : w.got[e] = IF e = h[1] THEN k ELSE u.got[e]
        /\ Beheaded(u.page, h, w.page)
  <2> HIDE DEF v
  <2>1. \A e \in Entry : v.got[e] = IF e = h[1] THEN k ELSE u.got[e]
    BY <1>6, WalkFields
  <2>2. Beheaded(u.page, h, v.page)
    BY <1>4, <1>6
  <2> QED BY <1>5, <1>6, <1>7, <2>1, <2>2
<1> HIDE DEF v
<1>9. Listed' = Listed /\ Earlier' = Earlier
  <2>1. style' = style /\ touched' = touched /\ walk'.since = walk.since
    BY <1>1, <1>8
  <2> QED BY <2>1 DEF Listed, Earlier
<1>10. /\ \A i \in DOMAIN u.page : Same(u, u.page[i][1]) => u.page[i][2] = touched[u.page[i][1]]
       /\ \A e \in Entry : Same(u, e) /\ u.got[e] # 0 => u.got[e] = touched[e]
       /\ \A e \in Entry : Same(u, e) /\ touched[e] > u.since => Found(u, e)
       /\ style # "none" /\ u.since <= until /\ u.began <= now
  BY <1>0, <1>1, <1>2 DEF WalkOK
<1>11. \A e \in Entry : Same(w, e)' => Same(u, e)
  BY <1>8 DEF Same
<1>12. Same(u, h[1]) => /\ k # 0 => k = touched[h[1]]
                        /\ touched[h[1]] > u.since => k = touched[h[1]] \/ h[1] \in failed
  BY <1>1, <1>3, <1>4
<1>13. ASSUME NEW i \in DOMAIN w.page, Same(w, w.page[i][1])'
       PROVE  w.page[i][2] = touched'[w.page[i][1]]
  <2>1. PICK j \in DOMAIN u.page : w.page[i] = u.page[j]
    BY <1>8 DEF Beheaded
  <2>2. Same(u, u.page[j][1])
    BY <1>8, <1>13, <2>1 DEF Same
  <2> QED BY <1>10, <2>1, <2>2
<1>14. ASSUME NEW e \in Entry, Same(u, e), touched[e] > u.since
       PROVE  Found(w, e)'
  <2>1. CASE e = h[1]
    BY <1>8, <1>12, <1>14, <2>1 DEF Found
  <2>2. CASE e # h[1]
    <3>1. Found(u, e)
      BY <1>10, <1>14
    <3>2. CASE u.got[e] = touched[e] \/ e \in u.failed \/ u.shrunk
      BY <1>1, <1>8, <2>2, <3>2 DEF Found
    <3>3. CASE \E i \in DOMAIN u.page : u.page[i][1] = e
      BY <1>8, <2>2, <3>3 DEF Found, Beheaded
    <3>4. CASE u.more /\ Ahead(u, e)
      BY <1>8, <1>9, <3>4 DEF Found, Ahead
    <3> QED BY <3>1, <3>2, <3>3, <3>4 DEF Found
  <2> QED BY <2>1, <2>2
<1>15. ASSUME NEW e \in Entry, Same(u, e), w.got[e] # 0
       PROVE  w.got[e] = touched[e]
  BY <1>8, <1>10, <1>12, <1>15
<1>16. WalkOK(w)'
  BY <1>8, <1>10, <1>11, <1>13, <1>14, <1>15 DEF WalkOK
<1> QED BY <1>8, <1>16 DEF WalkInv, WalkShapes, FetchedUpToCursor

\* The item read leaves the hand: it is had as it is, or has changed since it was listed
\* and comes again.
LEMMA ReadEntryKeeps ==
  ASSUME WalkInv, ReadEntry
  PROVE  WalkInv'
<1>0. WalkShapes /\ walk \in WalkType /\ WalkOK(walk) /\ touched \in [Entry -> Nat]
  BY DEF WalkInv, WalkShapes
<1>1. InHand /\ walk.at = "walking" /\ walk.page # <<>> /\ walk.page \in Seq(Entry \X Nat)
  BY <1>0, WalkFields DEF ReadEntry, InHand
<1>2. PICK h \in Entry \X Nat : h = Head(walk.page)
  BY <1>1, TailPlaces
<1>3. h[1] \in Entry /\ h[2] \in Nat /\ touched[h[1]] \in Nat
  BY <1>0
<1>4. Same(walk, h[1]) => h[2] = touched[h[1]]
  <2>1. Beheaded(walk.page, h, Tail(walk.page))
    BY <1>1, <1>2, TailPlaces
  <2> QED BY <1>0, <1>1, <2>1 DEF WalkOK, Beheaded
<1>5. PICK have \in Nat :
        /\ have \in {h[2], touched[h[1]]} /\ have # 0
        /\ walk' = Past(IF CollectsFirst \/ have > walk.since THEN have ELSE 0)
        /\ UNCHANGED <<style, touched, now, until, taken, forgiven>>
  BY <1>2, <1>3 DEF ReadEntry
<1>6. PICK k \in Nat : k = IF CollectsFirst \/ have > walk.since THEN have ELSE 0
  OBVIOUS
<1>7. walk' = [Past(k) EXCEPT !.failed = walk.failed] /\ walk.failed \in SUBSET Entry
  <2>1. Past(k).failed = walk.failed
    BY <1>0 DEF Past, WalkType
  <2>2. Past(k) = [Past(k) EXCEPT !.failed = walk.failed]
    BY <1>0, <2>1 DEF Past, WalkType
  <2> QED BY <1>0, <1>5, <1>6, <2>2, WalkFields
<1>8. Same(walk, h[1]) => /\ k # 0 => k = touched[h[1]]
                          /\ touched[h[1]] > walk.since => k = touched[h[1]]
  BY <1>4, <1>5, <1>6
<1> QED BY <1>1, <1>2, <1>5, <1>7, <1>8, ItemGoes

\* An item that fails is noted, and leaves the hand.
LEMMA EntryFailsKeeps ==
  ASSUME WalkInv, EntryFails
  PROVE  WalkInv'
<1>0. walk \in WalkType
  BY DEF WalkInv, WalkShapes
<1>1. InHand /\ walk.page # <<>> /\ walk.page \in Seq(Entry \X Nat)
  BY <1>0, WalkFields DEF EntryFails, InHand
<1>2. PICK h \in Entry \X Nat : h = Head(walk.page)
  BY <1>1, TailPlaces
<1>3. PICK failed \in SUBSET Entry : failed = walk.failed \cup {h[1]}
  BY <1>0, WalkFields
<1>4. walk' = [Past(0) EXCEPT !.failed = failed]
      /\ UNCHANGED <<style, touched, now, until, taken, forgiven>>
  <2>1. Past(0).failed = walk.failed
    BY <1>0 DEF Past, WalkType
  <2> QED BY <1>2, <1>3, <2>1 DEF EntryFails
<1> QED BY <1>1, <1>2, <1>3, <1>4, ItemGoes

\* The fetch ends: what was to be found is taken, or forgiven.
LEMMA EndWalkKeeps ==
  ASSUME WalkInv, EndWalk
  PROVE  WalkInv'
<1>0. /\ WalkShapes /\ walk \in WalkType /\ WalkOK(walk) /\ touched \in [Entry -> Nat]
      /\ taken \in [Entry -> Nat] /\ FetchedUpToCursor /\ now \in Nat /\ forgiven \subseteq Entry
  BY DEF WalkInv, WalkShapes
<1>1. PICK u \in WalkType : u = walk
  BY <1>0
<1>2. /\ u.at = "walking" /\ u.page = <<>> /\ ~u.more /\ until' = u.began
      /\ taken' = [e \in Entry |-> IF u.got[e] # 0 THEN u.got[e] ELSE taken[e]]
      /\ forgiven' = (forgiven \ {e \in Entry : u.got[e] # 0}) \cup u.failed
                       \cup (IF u.shrunk THEN {e \in Entry : u.got[e] = 0} ELSE {})
      /\ walk' = NoWalk /\ UNCHANGED <<style, touched, now>>
  BY <1>1 DEF EndWalk, WhenBegun, Handed
<1>3. /\ \A e \in Entry : Same(u, e) /\ u.got[e] # 0 => u.got[e] = touched[e]
      /\ \A e \in Entry : Same(u, e) /\ touched[e] > u.since => Found(u, e)
      /\ u.since <= until /\ u.began <= now
  BY <1>0, <1>1, <1>2 DEF WalkOK
<1>4. \A e \in Entry : u.got[e] \in Nat /\ taken[e] \in Nat /\ touched[e] \in Nat
  BY <1>0, WalkFields
<1>5. u.since \in Nat /\ u.began \in Nat /\ u.failed \subseteq Entry /\ until \in Nat
  BY <1>0, WalkFields DEF WalkShapes
<1>6. ASSUME NEW e \in Entry, Same(u, e)
      PROVE  taken'[e] = touched[e] \/ e \in forgiven'
  <2>1. CASE u.got[e] # 0
    BY <1>2, <1>3, <1>6, <2>1
  <2>2. CASE u.got[e] = 0
    <3>1. CASE touched[e] > u.since
      <4>1. Found(u, e)
        BY <1>3, <1>6, <3>1
      <4>2. u.got[e] # touched[e] /\ DOMAIN u.page = {}
        BY <1>2, <1>6, <2>2 DEF Same
      <4>3. e \in u.failed \/ u.shrunk
        BY <1>2, <4>1, <4>2 DEF Found
      <4> QED BY <1>2, <2>2, <4>3
    <3>2. CASE ~(touched[e] > u.since)
      <4>1. touched[e] <= until /\ touched[e] # 0
        BY <1>3, <1>4, <1>5, <1>6, <3>2 DEF Same
      <4>2. taken[e] = touched[e] \/ e \in forgiven
        BY <1>0, <4>1 DEF FetchedUpToCursor
      <4> QED BY <1>2, <2>2, <4>2
    <3> QED BY <3>1, <3>2
  <2> QED BY <2>1, <2>2
<1>7. FetchedUpToCursor'
  BY <1>2, <1>6 DEF FetchedUpToCursor, Same
<1>8. WalkShapes'
  <2>1. taken' \in [Entry -> Nat]
    BY <1>2, <1>4
  <2>2. forgiven' \subseteq Entry
    BY <1>0, <1>2, <1>5
  <2> QED BY <1>0, <1>2, <1>3, <1>5, <2>1, <2>2, NoWalkType DEF WalkShapes
<1>9. WalkOK(walk)'
  BY <1>2, NoWalkType DEF WalkOK
<1> QED BY <1>7, <1>8, <1>9 DEF WalkInv

\* A walk that breaks off leaves the cursor, or forgives what it had not reached.
LEMMA WalkRaisesKeeps ==
  ASSUME WalkInv, NEW others \in BOOLEAN, WalkRaises(others)
  PROVE  WalkInv'
<1>0. /\ WalkShapes /\ walk \in WalkType /\ WalkOK(walk) /\ touched \in [Entry -> Nat]
      /\ FetchedUpToCursor /\ now \in Nat /\ forgiven \subseteq Entry /\ until \in Nat
      /\ until <= now
  BY DEF WalkInv, WalkShapes
<1>1. /\ walk' = NoWalk /\ UNCHANGED <<style, touched, now, taken>> /\ walk.at = "walking"
      /\ until' = IF others THEN walk.began ELSE until
      /\ forgiven' = IF others THEN forgiven \cup {e \in Entry : touched[e] > walk.since}
                     ELSE forgiven
  BY DEF WalkRaises, Asking, WhenBegun
<1>2. walk.since <= until /\ walk.began <= now /\ walk.since \in Nat /\ walk.began \in Nat
  BY <1>0, <1>1, WalkFields DEF WalkOK
<1>3. WalkShapes'
  BY <1>0, <1>1, <1>2, NoWalkType DEF WalkShapes
<1>4. ASSUME NEW e \in Entry, touched[e] # 0, touched[e] <= until'
      PROVE  taken[e] = touched[e] \/ e \in forgiven'
  <2>1. touched[e] \in Nat
    BY <1>0
  <2>2. CASE touched[e] <= until
    BY <1>0, <1>1, <1>4, <2>2 DEF FetchedUpToCursor
  <2>3. CASE ~(touched[e] <= until)
    <3>1. others /\ touched[e] > walk.since
      BY <1>0, <1>1, <1>2, <1>4, <2>1, <2>3
    <3> QED BY <1>1, <3>1
  <2> QED BY <2>2, <2>3
<1>5. FetchedUpToCursor'
  BY <1>1, <1>4 DEF FetchedUpToCursor
<1>6. WalkOK(walk)'
  BY <1>1, NoWalkType DEF WalkOK
<1> QED BY <1>3, <1>5, <1>6 DEF WalkInv

\* A change moves its item to the front of what is ahead, and the others no nearer.
LEMMA TouchKeeps ==
  ASSUME WalkInv, NEW x \in Entry, Touch(x)
  PROVE  WalkInv'
<1>0. /\ WalkShapes /\ walk \in WalkType /\ WalkOK(walk) /\ touched \in [Entry -> Nat]
      /\ FetchedUpToCursor /\ now \in Nat /\ until \in Nat /\ until <= now
      /\ \A e \in Entry : touched[e] <= now
  BY DEF WalkInv, WalkShapes
<1>1. PICK u \in WalkType : u = walk
  BY <1>0
<1>2. /\ now' = now + 1 /\ touched' = [touched EXCEPT ![x] = now + 1] /\ touched[x] # 0
      /\ UNCHANGED <<style, until, taken, walk, forgiven>>
  BY DEF Touch
<1>3. \A e \in Entry : touched'[e] = IF e = x THEN now + 1 ELSE touched[e]
  BY <1>0, <1>2
<1>4. \A e \in Entry : touched[e] \in Nat
  BY <1>0
<1>5. WalkShapes'
  <2>1. touched' \in [Entry -> Nat] /\ now' \in Nat /\ until <= now'
    BY <1>0, <1>2
  <2>2. \A e \in Entry : touched'[e] <= now'
    BY <1>0, <1>2, <1>3, <1>4
  <2>3. \A d, e \in Entry : touched'[d] = touched'[e] /\ touched'[d] # 0 => d = e
    <3>1. \A d \in Entry : touched[d] # now + 1
      BY <1>0, <1>4
    <3> QED BY <1>0, <1>3, <3>1 DEF WalkShapes
  <2> QED BY <1>0, <1>2, <2>1, <2>2, <2>3 DEF WalkShapes
<1>6. FetchedUpToCursor'
  <2>1. ~(now + 1 <= until)
    BY <1>0
  <2> QED BY <1>0, <1>2, <1>3, <2>1 DEF FetchedUpToCursor
<1>7. ASSUME u.at = "walking"
      PROVE  WalkOK(u)'
  <2>1. /\ \A i \in DOMAIN u.page : Same(u, u.page[i][1]) => u.page[i][2] = touched[u.page[i][1]]
        /\ \A e \in Entry : Same(u, e) /\ u.got[e] # 0 => u.got[e] = touched[e]
        /\ \A e \in Entry : Same(u, e) /\ touched[e] > u.since => Found(u, e)
        /\ style # "none" /\ u.since <= until /\ u.began <= now
    BY <1>0, <1>1, <1>7 DEF WalkOK
  <2>2. u.began \in Nat /\ u.since \in Nat /\ u.page \in Seq(Entry \X Nat)
    BY WalkFields
  <2>3. \A e \in Entry : Same(u, e)' => e # x /\ Same(u, e) /\ touched'[e] = touched[e]
    BY <1>0, <1>3, <2>1, <2>2 DEF Same
  <2>4. ASSUME NEW e \in Entry, e # x
        PROVE  Rank(Earlier, Listed, e) <= Rank(Earlier', Listed', e)
    <3>1. \A d \in Listed : d \in Listed'
      <4>1. now + 1 # 0 /\ now + 1 >= u.since
        BY <1>0, <2>1, <2>2
      <4> QED BY <1>1, <1>2, <1>3, <4>1 DEF Listed
    <3>2. ASSUME NEW d \in Listed, <<d, e>> \in Earlier
          PROVE  <<d, e>> \in Earlier'
      <4>1. d \in Entry /\ (IF style = "cql" THEN d < e ELSE touched[d] > touched[e])
        BY <3>2 DEF Listed, Earlier
      <4>2. IF style = "cql" THEN d < e ELSE touched'[d] > touched'[e]
        BY <1>0, <1>3, <1>4, <2>4, <4>1
      <4> QED BY <1>2, <4>1, <4>2 DEF Earlier
    <3>3. IsFiniteSet(Listed')
      <4>1. Listed' \subseteq Entry
        BY DEF Listed
      <4> QED BY <1>0, <4>1, ListedOrdered, FS_Subset
    <3>4. \A d \in Listed : <<d, e>> \in Earlier => d \in Listed' /\ <<d, e>> \in Earlier'
      BY <3>1, <3>2
    <3> QED BY <3>3, <3>4, RankGrows
  <2>5. ASSUME NEW e \in Entry, Same(u, e)', touched'[e] > u.since
        PROVE  Found(u, e)'
    <3>1. e # x /\ Found(u, e) /\ touched'[e] = touched[e]
      BY <2>1, <2>3, <2>5
    <3>2. Ahead(u, e) => Ahead(u, e)'
      <4>1. CASE style \in {"cql", "pulls"}
        <5>1. Rank(Earlier, Listed, e) \in Nat /\ Rank(Earlier', Listed', e) \in Nat
          <6>1. IsFiniteSet(Listed) /\ IsFiniteSet(Listed')
            <7>1. Listed \subseteq Entry /\ Listed' \subseteq Entry
              BY DEF Listed
            <7> QED BY <1>0, <7>1, ListedOrdered, FS_Subset
          <6> QED BY <6>1, RankType
        <5>2. u.start \in Nat
          BY WalkFields
        <5> QED BY <1>2, <2>4, <3>1, <4>1, <5>1, <5>2 DEF Ahead
      <4>2. CASE style \notin {"cql", "pulls"}
        BY <1>2, <3>1, <4>2 DEF Ahead
      <4> QED BY <4>1, <4>2
    <3> QED BY <3>1, <3>2 DEF Found
  <2>6. \A i \in DOMAIN u.page : u.page[i][1] \in Entry
    <3>1. \A i \in DOMAIN u.page : u.page[i] \in Entry \X Nat
      BY <2>2, LenProperties, ElementOfSeq
    <3> QED BY <3>1
  <2>7. u.began <= now'
    BY <1>0, <1>2, <2>1, <2>2
  <2> QED BY <1>2, <2>1, <2>3, <2>5, <2>6, <2>7 DEF WalkOK
<1>8. WalkOK(u)'
  BY <1>7 DEF WalkOK
<1>9. WalkOK(walk)'
  <2>1. walk' = u
    BY <1>1, <1>2
  <2> QED BY <1>8, <2>1 DEF WalkOK, Same, Found, Ahead
<1> QED BY <1>5, <1>6, <1>9 DEF WalkInv

\* An item that goes draws nearer what offsets count, and is noted; tokens do not mind.
LEMMA VanishKeeps ==
  ASSUME WalkInv, NEW x \in Entry, Vanish(x)
  PROVE  WalkInv'
<1>0. /\ WalkShapes /\ walk \in WalkType /\ WalkOK(walk) /\ touched \in [Entry -> Nat]
      /\ FetchedUpToCursor /\ now \in Nat /\ until \in Nat /\ until <= now
      /\ \A e \in Entry : touched[e] <= now
  BY DEF WalkInv, WalkShapes
<1>1. PICK u \in WalkType : u = walk
  BY <1>0
<1>2. /\ now' = now + 1 /\ touched' = [touched EXCEPT ![x] = 0] /\ style # "none"
      /\ UNCHANGED <<style, until, taken, forgiven>>
      /\ walk' = [u EXCEPT !.shrunk = @ \/ (u.at = "walking" /\ style \in {"cql", "pulls"})]
  BY <1>1 DEF Vanish
<1>3. \A e \in Entry : touched'[e] = IF e = x THEN 0 ELSE touched[e]
  BY <1>0, <1>2
<1>4. \A e \in Entry : touched[e] \in Nat
  BY <1>0
<1>5. PICK w \in WalkType :
        /\ walk' = w /\ w.at = u.at /\ w.start = u.start /\ w.key = u.key /\ w.since = u.since
        /\ w.began = u.began /\ w.more = u.more /\ w.failed = u.failed /\ w.got = u.got
        /\ w.page = u.page
        /\ w.shrunk = (u.shrunk \/ (u.at = "walking" /\ style \in {"cql", "pulls"}))
  <2> DEFINE v == [u EXCEPT !.shrunk = @ \/ (u.at = "walking" /\ style \in {"cql", "pulls"})]
  <2>1. v \in WalkType
    BY WalkFields DEF WalkType
  <2>2. /\ v.at = u.at /\ v.start = u.start /\ v.key = u.key /\ v.since = u.since
        /\ v.began = u.began /\ v.more = u.more /\ v.failed = u.failed /\ v.got = u.got
        /\ v.page = u.page
        /\ v.shrunk = (u.shrunk \/ (u.at = "walking" /\ style \in {"cql", "pulls"}))
    BY DEF WalkType
  <2>3. walk' = v
    BY <1>2
  <2> HIDE DEF v
  <2> QED BY <2>1, <2>2, <2>3
<1>6. WalkShapes'
  <2>1. touched' \in [Entry -> Nat] /\ now' \in Nat /\ until <= now'
    BY <1>0, <1>2
  <2>2. \A e \in Entry : touched'[e] <= now'
    BY <1>0, <1>2, <1>3, <1>4
  <2>3. \A d, e \in Entry : touched'[d] = touched'[e] /\ touched'[d] # 0 => d = e
    BY <1>0, <1>3 DEF WalkShapes
  <2> QED BY <1>0, <1>2, <1>5, <2>1, <2>2, <2>3 DEF WalkShapes
<1>7. FetchedUpToCursor'
  BY <1>0, <1>2, <1>3 DEF FetchedUpToCursor
<1>8. ASSUME w.at = "walking"
      PROVE  WalkOK(w)'
  <2>1. /\ \A i \in DOMAIN u.page : Same(u, u.page[i][1]) => u.page[i][2] = touched[u.page[i][1]]
        /\ \A e \in Entry : Same(u, e) /\ u.got[e] # 0 => u.got[e] = touched[e]
        /\ \A e \in Entry : Same(u, e) /\ touched[e] > u.since => Found(u, e)
        /\ style # "none" /\ u.since <= until /\ u.began <= now
    BY <1>0, <1>1, <1>5, <1>8 DEF WalkOK
  <2>2. u.began \in Nat /\ u.page \in Seq(Entry \X Nat)
    BY WalkFields
  <2>3. \A e \in Entry : Same(w, e)' => Same(u, e) /\ touched'[e] = touched[e]
    BY <1>3, <1>5 DEF Same
  <2>4. ASSUME NEW e \in Entry, Same(w, e)', touched'[e] > w.since
        PROVE  Found(w, e)'
    <3>1. Found(u, e) /\ touched'[e] = touched[e]
      BY <1>5, <2>1, <2>3, <2>4
    <3>2. CASE style \in {"cql", "pulls"}
      BY <1>5, <1>8, <3>2 DEF Found
    <3>3. CASE style \notin {"cql", "pulls"}
      <4>1. Ahead(u, e) => Ahead(w, e)'
        BY <1>2, <1>5, <3>1, <3>3 DEF Ahead
      <4> QED BY <1>5, <3>1, <4>1 DEF Found
    <3> QED BY <3>2, <3>3
  <2>5. \A i \in DOMAIN u.page : u.page[i][1] \in Entry
    <3>1. \A i \in DOMAIN u.page : u.page[i] \in Entry \X Nat
      BY <2>2, LenProperties, ElementOfSeq
    <3> QED BY <3>1
  <2>6. u.began <= now'
    BY <1>0, <1>2, <2>1, <2>2
  <2> QED BY <1>2, <1>5, <2>1, <2>3, <2>4, <2>5, <2>6 DEF WalkOK
<1>9. WalkOK(w)'
  BY <1>8 DEF WalkOK
<1>10. WalkOK(walk)'
  BY <1>5, <1>9 DEF WalkOK, Same, Found, Ahead
<1> QED BY <1>6, <1>7, <1>10 DEF WalkInv

\* A new source, with nothing fetched, has the invariant.
LEMMA WalkInvStarts ==
  WalkInit => WalkInv
<1> SUFFICES ASSUME WalkInit PROVE WalkInv
  OBVIOUS
<1>1. \A e \in Entry : e \in Nat /\ e # 0 /\ e <= MaxEntry /\ touched[e] = e
  BY WalkAssumption DEF Entry, WalkInit
<1>2. WalkShapes
  BY <1>1, NoWalkType, WalkAssumption DEF WalkInit, WalkShapes
<1>3. FetchedUpToCursor
  BY <1>1 DEF FetchedUpToCursor, WalkInit
<1>4. WalkOK(walk)
  BY NoWalkType DEF WalkInit, WalkOK
<1> QED BY <1>2, <1>3, <1>4 DEF WalkInv

\* Every step of the source and of the walk keeps the invariant.
LEMMA WalkInvSteps ==
  WalkInv /\ [WalkNext]_walkVars => WalkInv'
<1> SUFFICES ASSUME WalkInv, [WalkNext]_walkVars PROVE WalkInv'
  OBVIOUS
<1>1. ASSUME NEW s \in Styles, ChooseSource(s) PROVE WalkInv'
  <2>1. style = "none" /\ style' = s /\ UNCHANGED <<touched, now, until, taken, walk, forgiven>>
    BY <1>1 DEF ChooseSource
  <2>2. walk.at # "walking"
    BY <2>1 DEF WalkInv, WalkOK
  <2> QED BY <2>1, <2>2 DEF WalkInv, WalkShapes, WalkOK, FetchedUpToCursor
<1>2. ASSUME NEW since \in {0, until}, BeginWalk(since) PROVE WalkInv'
  BY <1>2, BeginWalkKeeps
<1>3. CASE ListPage
  BY <1>3, ListPageKeeps
<1>4. CASE ReadEntry
  BY <1>4, ReadEntryKeeps
<1>5. CASE EntryFails
  BY <1>5, EntryFailsKeeps
<1>6. CASE EndWalk
  BY <1>6, EndWalkKeeps
<1>7. ASSUME NEW others \in BOOLEAN, WalkRaises(others) PROVE WalkInv'
  BY <1>7, WalkRaisesKeeps
<1>8. ASSUME NEW e \in Entry, Touch(e) PROVE WalkInv'
  BY <1>8, TouchKeeps
<1>9. ASSUME NEW e \in Entry, Vanish(e) PROVE WalkInv'
  BY <1>9, VanishKeeps
<1>10. CASE UNCHANGED walkVars
  BY <1>10 DEF walkVars, WalkInv, WalkShapes, WalkOK, FetchedUpToCursor, Same, Found, Ahead, Listed,
               Earlier
<1> QED BY <1>1, <1>2, <1>3, <1>4, <1>5, <1>6, <1>7, <1>8, <1>9, <1>10 DEF WalkNext

\* Up to its cursor a connection has fetched everything: for any items, page size, changes
\* and fetches, in each of the four ways of paging.
THEOREM CursorsSkipNothing == WalkSpec => []FetchedUpToCursor
<1>1. WalkInv => FetchedUpToCursor
  BY DEF WalkInv
<1> QED BY <1>1, WalkInvStarts, WalkInvSteps, PTL DEF WalkSpec

-----------------------------------------------------------------------------
(***************************************************************************)
(* The Drive feed. A sync knows, at each of its steps, why a file of the   *)
(* scope is not lost: it is in the index as it is, it changed after the    *)
(* number that the token will have, it is one of those passed over, or the *)
(* sync has still to list it, has its entry, or has it to build or store.  *)
(***************************************************************************)

Place == {"root", "sub", "away"}
FetchSteps == {"idle", "capture", "sweep", "scope", "feed", "build", "stored", "ingested"}
FetchType ==
  [at : FetchSteps, queue : SUBSET {"root", "sub"}, scope : SUBSET {"root", "sub"}, from : Int,
   metas : SUBSET (Thing \X Place), got : [File -> Int], todo : SUBSET File,
   failed : BOOLEAN, next : Int, status : {"none", "success", "partial", "failed"}]

DriveShapes ==
  /\ tick \in Nat /\ changed \in [Thing -> Nat] /\ \A t \in Thing : changed[t] <= tick
  /\ parent \in [Thing -> Place]
  /\ token \in Int /\ token <= tick
  /\ unsaved \subseteq Int /\ \A t \in unsaved : t <= tick
  /\ content \in [File -> Nat] /\ \A f \in File : content[f] <= tick
  /\ copied \in [File -> Int] /\ index \in [File -> Int]
  /\ unsynced \subseteq File /\ unfed \subseteq File /\ astray \subseteq File
  /\ fetch \in FetchType

\* What a token t may leave behind.
Behind(f, t) == index[f] = content[f] \/ changed[f] > t \/ f \in astray \cup unfed

Leaves(t) == \A f \in File : InScope(f) => Behind(f, t)

\* What a fetch u has before it for the file f at each of its steps.
Swept(u, f) ==
  \/ Behind(f, u.next) \/ f \in u.todo
  \/ "root" \in u.queue
  \/ parent[f] = "sub" /\ "sub" \in u.queue

FolderRead(u) ==
  parent[Sub] = "root" => "sub" \in u.scope \/ changed[Sub] > u.from \/ <<Sub, "root">> \in u.metas

Built(u, f) == u.failed \/ Behind(f, u.next) \/ f \in u.todo \/ u.got[f] = content[f]

\* A row that is as the file is, and marked synced: its points are so, or it is unfed.
Fed(f) == copied[f] = content[f] => index[f] = content[f] \/ f \in unfed

\* What is stored is no newer than the file.
Ordered(f) == -1 <= index[f] /\ index[f] <= copied[f] /\ copied[f] <= content[f]

FetchOK(u) ==
  /\ u.from <= tick /\ u.next <= tick
  /\ \A f \in File : u.got[f] # -1 => copied[f] <= u.got[f] /\ u.got[f] <= content[f]
  /\ u.at \in {"scope", "feed"} =>
       u.from # NoToken /\ \A f \in File : InScope(f) =>
          Behind(f, u.from) \/ (u.at = "feed" /\ <<f, parent[f]>> \in u.metas)
  /\ u.at = "feed" => "root" \in u.scope /\ FolderRead(u)
  /\ u.at = "sweep" => \A f \in File : InScope(f) => Swept(u, f)
  /\ u.at \in {"build", "stored"} => \A f \in File : InScope(f) => Built(u, f)
  /\ u.at \in {"stored", "ingested"} =>
       u.todo = {} /\ \A f \in File : u.got[f] # -1 => copied[f] = u.got[f]
  /\ u.at = "ingested" =>
       /\ \A f \in File : InScope(f) => u.failed \/ Behind(f, u.next)
       /\ \A f \in File : u.got[f] # -1 => Fed(f)

DriveInv ==
  /\ DriveShapes
  /\ \A f \in File : Ordered(f) /\ (f \notin unsynced => Fed(f))
  /\ \A t \in unsaved : Leaves(t)
  /\ token # NoToken => Leaves(token)
  /\ FetchOK(fetch)

\* The idle fetch has its type and claims nothing.
LEMMA NoFetchOK ==
  ASSUME DriveShapes
  PROVE  /\ NoFetch \in FetchType /\ FetchOK(NoFetch)
         /\ NoFetch.next = -1 /\ NoFetch.from = 0 /\ NoFetch.metas = {} /\ NoFetch.todo = {}
         /\ NoFetch.at = "idle" /\ NoFetch.failed = FALSE /\ NoFetch.queue = {} /\ NoFetch.scope = {}
         /\ NoFetch.got = [f \in File |-> -1]
<1>1. /\ NoFetch.next = -1 /\ NoFetch.from = 0 /\ NoFetch.metas = {} /\ NoFetch.todo = {}
      /\ NoFetch.at = "idle" /\ NoFetch.failed = FALSE /\ NoFetch.queue = {} /\ NoFetch.scope = {}
      /\ NoFetch.got = [f \in File |-> -1]
  BY DEF NoFetch, NoToken
<1>2. NoFetch \in FetchType
  BY DEF NoFetch, FetchType, FetchSteps, NoToken
<1>3. FetchOK(NoFetch)
  BY <1>1 DEF FetchOK, DriveShapes
<1> QED BY <1>1, <1>2, <1>3

\* A step of the sync alone: the drive and what is stored stay.
LEMMA FetchGoes ==
  ASSUME DriveInv, UNCHANGED <<drive, indexed, saved, astray>>, fetch' \in FetchType, FetchOK(fetch')
  PROVE  DriveInv'
<1>1. PICK u \in FetchType : u = fetch'
  OBVIOUS
<1>2. FetchOK(u)'
  <2>1. FetchOK(u)
    BY <1>1
  <2> QED BY <2>1 DEF FetchOK, Behind, InScope, Swept, FolderRead, Built, Fed, drive, indexed
<1>3. FetchOK(fetch)'
  BY <1>1, <1>2 DEF FetchOK, Behind, InScope, Swept, FolderRead, Built, Fed
<1>4. DriveShapes'
  BY DEF DriveInv, DriveShapes, drive, indexed, saved
<1>5. \A f \in File : Ordered(f)' /\ (f \notin unsynced' => Fed(f)')
  BY DEF DriveInv, Ordered, Fed, drive, indexed
<1> QED BY <1>3, <1>4, <1>5 DEF DriveInv, Leaves, Behind, InScope, drive, indexed, saved

\* The fields of a fetch, where they are used.
LEMMA FetchFields ==
  ASSUME NEW u \in FetchType
  PROVE  /\ u.at \in FetchSteps /\ u.queue \subseteq {"root", "sub"}
         /\ u.scope \subseteq {"root", "sub"} /\ u.from \in Int
         /\ u.metas \subseteq Thing \X Place /\ u.got \in [File -> Int] /\ u.todo \subseteq File
         /\ u.failed \in BOOLEAN /\ u.next \in Int
BY DEF FetchType

\* Where neither the drive nor the rows and points change, what is said of them stays.
LEMMA ChecksKeep ==
  ASSUME DriveInv, UNCHANGED <<drive, indexed>>
  PROVE  \A f \in File : Ordered(f)' /\ (f \notin unsynced' => Fed(f)')
BY DEF DriveInv, Ordered, Fed, drive, indexed

\* The shapes, where neither the drive nor the rows and points change.
LEMMA ShapesKeep ==
  ASSUME DriveInv, UNCHANGED <<drive, indexed, saved>>, fetch' \in FetchType, astray' \subseteq File
  PROVE  DriveShapes'
BY DEF DriveInv, DriveShapes, drive, indexed, saved

\* What every token may leave behind, those saved and to be saved may.
LEMMA TokensKeep ==
  ASSUME DriveInv, UNCHANGED <<token, unsaved>>,
         \A t \in Int : t <= tick /\ Leaves(t) => Leaves(t)'
  PROVE  (\A t \in unsaved' : Leaves(t)') /\ (token' # NoToken => Leaves(token)')
<1>1. /\ token \in Int /\ token <= tick /\ unsaved \subseteq Int /\ \A t \in unsaved : t <= tick
      /\ \A t \in unsaved : Leaves(t)
      /\ token # NoToken => Leaves(token)
  BY DEF DriveInv, DriveShapes
<1>2. \A t \in unsaved : Leaves(t)'
  BY <1>1
<1>3. PICK r \in Int : r = token
  BY <1>1
<1>4. r # NoToken => Leaves(r)'
  BY <1>1, <1>3
<1> QED BY <1>2, <1>3, <1>4

\* The sync is over, in whatever state the rest is left.
LEMMA IdleKeeps ==
  ASSUME DriveShapes, fetch' = NoFetch, tick' = tick
  PROVE  fetch' \in FetchType /\ FetchOK(fetch)'
<1>1. /\ NoFetch \in FetchType
      /\ NoFetch.next = -1 /\ NoFetch.from = 0 /\ NoFetch.at = "idle"
      /\ NoFetch.got = [f \in File |-> -1]
  BY NoFetchOK
<1>2. tick \in Nat
  BY DEF DriveShapes
<1>3. FetchOK(NoFetch)'
  BY <1>1, <1>2 DEF FetchOK
<1> QED BY <1>1, <1>3 DEF FetchOK

\* A sync begins, with the saved token if there is one.
LEMMA StartFetchKeeps ==
  ASSUME DriveInv, NEW full \in BOOLEAN, StartFetch(full)
  PROVE  DriveInv'
<1> DEFINE v == [NoFetch EXCEPT !.at = IF full THEN "capture" ELSE "scope", !.from = token]
<1>1. fetch' = v /\ (~full => token # NoToken) /\ UNCHANGED <<drive, indexed, saved, astray>>
  BY DEF StartFetch
<1>2. DriveShapes /\ token \in Int /\ token <= tick
  BY DEF DriveInv, DriveShapes
<1>3. /\ v.at = (IF full THEN "capture" ELSE "scope") /\ v.from = token /\ v.next = -1
      /\ v.got = [f \in File |-> -1]
  BY DEF NoFetch, NoToken
<1>4. v \in FetchType
  BY <1>2, NoFetchOK DEF FetchType, FetchSteps
<1> HIDE DEF v
<1>5. \A f \in File : v.got[f] = -1
  BY <1>3
<1>6. ~full => \A f \in File : InScope(f) => Behind(f, v.from)
  BY <1>1, <1>3 DEF DriveInv, Leaves
<1>7. -1 <= tick
  BY <1>2 DEF DriveShapes
<1>8. FetchOK(v)
  BY <1>1, <1>2, <1>3, <1>5, <1>6, <1>7 DEF FetchOK
<1> QED BY <1>1, <1>4, <1>8, FetchGoes

\* The sweep begins with the token of now, and all of the tree before it.
LEMMA CaptureTokenKeeps ==
  ASSUME DriveInv, CaptureToken
  PROVE  DriveInv'
<1>0. DriveShapes /\ fetch \in FetchType /\ FetchOK(fetch) /\ tick \in Nat
  BY DEF DriveInv, DriveShapes
<1>1. PICK u \in FetchType : u = fetch
  BY <1>0
<1> DEFINE v == [u EXCEPT !.at = "sweep", !.next = tick, !.queue = {"root"}]
<1>2. fetch' = v /\ UNCHANGED <<drive, indexed, saved, astray>>
  BY <1>1 DEF CaptureToken
<1>3. /\ v.at = "sweep" /\ v.next = tick /\ v.queue = {"root"} /\ v.got = u.got
      /\ v.from = u.from
  BY DEF FetchType
<1>4. v \in FetchType
  <2>1. tick \in Int /\ "sweep" \in FetchSteps
    BY <1>0 DEF FetchSteps
  <2> QED BY <2>1, FetchFields DEF FetchType
<1> HIDE DEF v
<1>5. \A f \in File : Swept(v, f)
  BY <1>3 DEF Swept
<1>6. FetchOK(v)
  BY <1>0, <1>1, <1>3, <1>5 DEF FetchOK
<1> QED BY <1>2, <1>4, <1>6, FetchGoes

\* One listing takes a folder's files to be read, and the subfolder into the queue.
LEMMA ListFolderKeeps ==
  ASSUME DriveInv, NEW p \in {"root", "sub"}, ListFolder(p)
  PROVE  DriveInv'
<1>0. DriveShapes /\ fetch \in FetchType /\ FetchOK(fetch)
  BY DEF DriveInv, DriveShapes
<1>1. PICK u \in FetchType : u = fetch
  BY <1>0
<1> DEFINE more == IF p = "root" /\ parent[Sub] = p THEN {"sub"} ELSE {}
           v == [u EXCEPT !.queue = (@ \ {p}) \cup more,
                          !.todo = @ \cup {f \in File : parent[f] = p}]
<1>2. fetch' = v /\ UNCHANGED <<drive, indexed, saved, astray>> /\ u.at = "sweep" /\ p \in u.queue
  BY <1>1 DEF ListFolder
<1>3. /\ v.at = u.at /\ v.next = u.next /\ v.got = u.got /\ v.from = u.from
      /\ v.queue = (u.queue \ {p}) \cup more
      /\ v.todo = u.todo \cup {f \in File : parent[f] = p}
  BY DEF FetchType
<1>4. v \in FetchType
  BY FetchFields DEF FetchType
<1> HIDE DEF v
<1>5. ASSUME NEW f \in File, InScope(f)
      PROVE  Swept(v, f)
  <2>1. Swept(u, f)
    BY <1>0, <1>1, <1>2, <1>5 DEF FetchOK
  <2>2. CASE parent[f] = p
    BY <1>3, <2>2 DEF Swept
  <2>3. CASE parent[f] # p /\ p = "root"
    <3>1. parent[f] = "sub" /\ more = {"sub"}
      BY <1>5, <2>3 DEF InScope
    <3> QED BY <1>3, <3>1 DEF Swept
  <2>4. CASE parent[f] # p /\ p = "sub"
    BY <1>3, <2>1, <2>4 DEF Swept
  <2> QED BY <2>2, <2>3, <2>4
<1>6. FetchOK(v)
  BY <1>0, <1>1, <1>2, <1>3, <1>5 DEF FetchOK
<1> QED BY <1>2, <1>4, <1>6, FetchGoes

\* The tree is listed: what was swept is to be built.
LEMMA SweepDoneKeeps ==
  ASSUME DriveInv, SweepDone
  PROVE  DriveInv'
<1>0. DriveShapes /\ fetch \in FetchType /\ FetchOK(fetch)
  BY DEF DriveInv, DriveShapes
<1>1. PICK u \in FetchType : u = fetch
  BY <1>0
<1> DEFINE v == [u EXCEPT !.at = "build"]
<1>2. fetch' = v /\ UNCHANGED <<drive, indexed, saved, astray>> /\ u.at = "sweep" /\ u.queue = {}
  BY <1>1 DEF SweepDone
<1>3. /\ v.at = "build" /\ v.next = u.next /\ v.got = u.got /\ v.from = u.from
      /\ v.todo = u.todo /\ v.failed = u.failed
  BY DEF FetchType
<1>4. v \in FetchType
  BY DEF FetchType, FetchSteps
<1> HIDE DEF v
<1>5. \A f \in File : InScope(f) => Built(v, f)
  BY <1>0, <1>1, <1>2, <1>3 DEF FetchOK, Swept, Built
<1>6. FetchOK(v)
  BY <1>0, <1>1, <1>3, <1>5 DEF FetchOK
<1> QED BY <1>2, <1>4, <1>6, FetchGoes

\* The folders of the scope are read, and the feed from the token is to come.
LEMMA ReadScopeKeeps ==
  ASSUME DriveInv, ReadScope
  PROVE  DriveInv'
<1>0. DriveShapes /\ fetch \in FetchType /\ FetchOK(fetch)
  BY DEF DriveInv, DriveShapes
<1>1. PICK u \in FetchType : u = fetch
  BY <1>0
<1> DEFINE folders == {"root"} \cup {s \in {"sub"} : parent[Sub] = "root"}
           v == [u EXCEPT !.at = "feed", !.scope = folders]
<1>2. fetch' = v /\ UNCHANGED <<drive, indexed, saved, astray>> /\ u.at = "scope"
  BY <1>1 DEF ReadScope
<1>3. /\ v.at = "feed" /\ v.next = u.next /\ v.got = u.got /\ v.from = u.from
      /\ v.metas = u.metas /\ v.scope = folders
  BY DEF FetchType
<1>4. v \in FetchType
  BY DEF FetchType, FetchSteps
<1> HIDE DEF v
<1>5. "root" \in v.scope /\ FolderRead(v)
  BY <1>3 DEF FolderRead
<1>6. FetchOK(v)
  BY <1>0, <1>1, <1>2, <1>3, <1>5 DEF FetchOK
<1> QED BY <1>2, <1>4, <1>6, FetchGoes

\* The feed is over and a full sweep follows, or the sync has failed.
LEMMA FetchStops ==
  ASSUME DriveInv, TokenExpires \/ FetchRaises
  PROVE  DriveInv'
<1>0. DriveShapes /\ NoFetch \in FetchType /\ FetchOK(NoFetch)
  BY NoFetchOK DEF DriveInv
<1>1. CASE TokenExpires
  <2> DEFINE v == [NoFetch EXCEPT !.at = "capture"]
  <2>1. fetch' = v /\ UNCHANGED <<drive, indexed, saved, astray>>
    BY <1>1 DEF TokenExpires
  <2>2. v.at = "capture" /\ v.from = NoFetch.from /\ v.next = NoFetch.next /\ v.got = NoFetch.got
    BY DEF NoFetch
  <2>3. v \in FetchType
    BY <1>0 DEF FetchType, FetchSteps
  <2> HIDE DEF v
  <2>4. FetchOK(v)
    BY <1>0, <2>2 DEF FetchOK
  <2> QED BY <2>1, <2>3, <2>4, FetchGoes
<1>2. CASE FetchRaises
  <2>1. fetch' = NoFetch /\ UNCHANGED <<drive, indexed, saved, astray>>
    BY <1>2 DEF FetchRaises
  <2> QED BY <1>0, <2>1, FetchGoes
<1> QED BY <1>1, <1>2

\* A file is read as it is now, or is given up and the token with it.
LEMMA DownloadKeeps ==
  ASSUME DriveInv, NEW f \in File, Download(f) \/ DownloadFails(f)
  PROVE  DriveInv'
<1>0. /\ DriveShapes /\ fetch \in FetchType /\ FetchOK(fetch) /\ changed \in [Thing -> Nat]
      /\ content \in [File -> Nat] /\ copied \in [File -> Int] /\ \A g \in File : copied[g] <= content[g]
  BY DEF DriveInv, DriveShapes, Ordered
<1>1. PICK u \in FetchType : u = fetch
  BY <1>0
<1>2. CASE Download(f)
  <2> DEFINE v == [u EXCEPT !.todo = @ \ {f}, !.got[f] = content[f]]
  <2>1. fetch' = v /\ UNCHANGED <<drive, indexed, saved, astray>> /\ u.at = "build"
    BY <1>1, <1>2 DEF Download
  <2>2. /\ v.at = u.at /\ v.next = u.next /\ v.from = u.from /\ v.failed = u.failed
        /\ v.todo = u.todo \ {f} /\ v.got = [u.got EXCEPT ![f] = content[f]]
    BY DEF FetchType
  <2>3. v \in FetchType
    <3>1. content[f] \in Int
      BY <1>0
    <3>2. PICK n \in Int : n = content[f]
      BY <3>1
    <3>3. [u.got EXCEPT ![f] = n] \in [File -> Int] /\ u.todo \ {f} \subseteq File
      BY FetchFields
    <3> QED BY <3>2, <3>3 DEF FetchType
  <2> HIDE DEF v
  <2>4. \A g \in File : v.got[g] = IF g = f THEN content[f] ELSE u.got[g]
    BY <2>2, FetchFields
  <2>5. \A g \in File : InScope(g) => Built(v, g)
    BY <1>0, <1>1, <2>1, <2>2, <2>4 DEF FetchOK, Built
  <2>6. \A g \in File : v.got[g] # -1 => copied[g] <= v.got[g] /\ v.got[g] <= content[g]
    BY <1>0, <1>1, <2>4 DEF FetchOK
  <2>7. FetchOK(v)
    BY <1>0, <1>1, <2>1, <2>2, <2>5, <2>6 DEF FetchOK
  <2> QED BY <2>1, <2>3, <2>7, FetchGoes
<1>3. CASE DownloadFails(f)
  <2> DEFINE v == [u EXCEPT !.todo = @ \ {f}, !.failed = TRUE]
  <2>1. fetch' = v /\ UNCHANGED <<drive, indexed, saved, astray>> /\ u.at = "build"
    BY <1>1, <1>3 DEF DownloadFails
  <2>2. v.at = u.at /\ v.next = u.next /\ v.from = u.from /\ v.failed = TRUE /\ v.got = u.got
    BY DEF FetchType
  <2>3. v \in FetchType
    BY FetchFields DEF FetchType
  <2> HIDE DEF v
  <2>4. FetchOK(v)
    BY <1>0, <1>1, <2>1, <2>2 DEF FetchOK, Built
  <2> QED BY <2>1, <2>3, <2>4, FetchGoes
<1> QED BY <1>2, <1>3

\* A file that is skipped is astray, and nothing else changes for the others.
LEMMA DownloadSkippedKeeps ==
  ASSUME DriveInv, NEW f \in File, DownloadSkipped(f)
  PROVE  DriveInv'
<1>0. DriveShapes /\ fetch \in FetchType /\ FetchOK(fetch) /\ astray \subseteq File
  BY DEF DriveInv, DriveShapes
<1>1. PICK u \in FetchType : u = fetch
  BY <1>0
<1> DEFINE v == [u EXCEPT !.todo = @ \ {f}]
<1>2. /\ fetch' = v /\ UNCHANGED <<drive, indexed, saved>> /\ u.at = "build"
      /\ astray' = astray \cup {f}
  BY <1>1 DEF DownloadSkipped
<1>3. /\ v.at = "build" /\ v.next = u.next /\ v.from = u.from /\ v.failed = u.failed
      /\ v.got = u.got /\ v.todo = u.todo \ {f}
  BY <1>2 DEF FetchType
<1>4. v \in FetchType
  BY FetchFields DEF FetchType
<1> HIDE DEF v
<1>5. \A t \in Int, g \in File : Behind(g, t) => Behind(g, t)'
  BY <1>2 DEF Behind, drive, indexed
<1>6. \A t \in Int : Leaves(t) => Leaves(t)'
  BY <1>2, <1>5 DEF Leaves, InScope, drive
<1>7. PICK w \in FetchType : w = v
  BY <1>4
<1>8. FetchOK(w)'
  <2>1. \A g \in File : w.got[g] # -1 => copied'[g] <= w.got[g] /\ w.got[g] <= content'[g]
    BY <1>0, <1>1, <1>2, <1>3, <1>7 DEF FetchOK, drive, indexed
  <2>2. ASSUME NEW g \in File, InScope(g)'
        PROVE  Built(w, g)'
    <3>1. Built(u, g) /\ InScope(g)
      BY <1>0, <1>1, <1>2, <2>2 DEF FetchOK, InScope, drive
    <3>2. CASE g = f
      BY <1>2, <3>2 DEF Built, Behind
    <3>3. CASE g # f
      <4>1. w.next \in Int /\ w.next = u.next
        BY <1>3, <1>7, FetchFields
      <4>2. Behind(g, u.next) => Behind(g, w.next)'
        BY <1>5, <4>1
      <4> QED BY <1>2, <1>3, <1>7, <3>1, <3>3, <4>2 DEF Built, drive
    <3> QED BY <3>2, <3>3
  <2>3. w.from <= tick' /\ w.next <= tick'
    BY <1>0, <1>1, <1>2, <1>3, <1>7 DEF FetchOK, drive
  <2> QED BY <1>3, <1>7, <2>1, <2>2, <2>3 DEF FetchOK
<1>9. fetch' \in FetchType /\ FetchOK(fetch)'
  <2>1. fetch' = w
    BY <1>2, <1>7
  <2> QED BY <1>8, <2>1 DEF FetchOK, Behind, InScope, Swept, FolderRead, Built, Fed
<1>10. DriveShapes'
  BY <1>0, <1>2, <1>9, ShapesKeep
<1>11. \A g \in File : Ordered(g)' /\ (g \notin unsynced' => Fed(g)')
  BY <1>2, ChecksKeep
<1>12. (\A t \in unsaved' : Leaves(t)') /\ (token' # NoToken => Leaves(token)')
  BY <1>2, <1>6, TokensKeep DEF saved
<1> QED BY <1>9, <1>10, <1>11, <1>12 DEF DriveInv

\* One page of the feed: what is taken from it is in metas, what is not lies ahead.
LEMMA PageOfChangesKeeps ==
  ASSUME DriveInv, NEW omitted \in BOOLEAN, PageOfChanges(omitted)
  PROVE  DriveInv'
<1>0. /\ DriveShapes /\ fetch \in FetchType /\ FetchOK(fetch) /\ changed \in [Thing -> Nat]
      /\ parent \in [Thing -> Place] /\ tick \in Nat /\ \A t \in Thing : changed[t] <= tick
  BY DEF DriveInv, DriveShapes
<1>1. PICK u \in FetchType : u = fetch
  BY <1>0
<1> DEFINE ahead == {t \in Thing : changed[t] > u.from}
           page  == {t \in ahead : \A s \in ahead : changed[t] <= changed[s]}
           metas == u.metas \cup (IF omitted THEN {} ELSE {<<t, parent[t]>> : t \in page})
           scope == Grown(u.scope, metas)
           last  == ahead \subseteq page
           from  == IF page = {} THEN u.from ELSE Max({changed[t] : t \in page})
           todo  == IF last THEN {f \in File : \E p \in scope : <<f, p>> \in metas} ELSE {}
           v == [u EXCEPT !.metas = metas, !.from = from,
                          !.at = IF last THEN "build" ELSE "feed",
                          !.next = IF last THEN tick ELSE NoToken, !.todo = todo]
<1>2. /\ fetch' = v /\ UNCHANGED <<drive, indexed, saved>> /\ u.at = "feed"
      /\ omitted => page \subseteq File
      /\ astray' = IF omitted THEN astray \cup page ELSE astray
  BY <1>1 DEF PageOfChanges
<1>3. /\ v.metas = metas /\ v.from = from /\ v.at = (IF last THEN "build" ELSE "feed")
      /\ v.next = (IF last THEN tick ELSE NoToken) /\ v.todo = todo /\ v.got = u.got
      /\ v.failed = u.failed /\ v.scope = u.scope
  BY DEF FetchType
<1>4. /\ from \in Int /\ from <= tick
      /\ \A t \in Thing : changed[t] > u.from => t \in page \/ changed[t] > from
      /\ from # NoToken
  <2>1. u.from \in Int /\ u.from <= tick /\ u.from # NoToken
    BY <1>0, <1>1, <1>2, FetchFields DEF FetchOK
  <2>2. CASE page = {}
    <3>1. last => ahead = {}
      BY <2>2
    <3> QED BY <2>1, <2>2
  <2>3. CASE page # {}
    <3>1. PICK t \in page : TRUE
      BY <2>3
    <3>2. t \in Thing /\ \A s \in page : changed[s] = changed[t]
      BY <1>0
    <3>3. {changed[s] : s \in page} = {changed[t]}
      BY <3>1, <3>2
    <3>4. from = changed[t]
      <4>1. changed[t] \in Nat
        BY <1>0, <3>2
      <4>2. Max({changed[t]}) = changed[t]
        BY <4>1 DEF Max
      <4> QED BY <2>3, <3>3, <4>2
    <3>5. changed[t] \in Nat /\ changed[t] <= tick
      BY <1>0, <3>2
    <3>6. ASSUME NEW s \in Thing, changed[s] > u.from, changed[s] <= changed[t]
          PROVE  s \in page
      <4>1. \A r \in ahead : changed[t] <= changed[r]
        BY <3>1
      <4>2. \A r \in ahead : changed[s] <= changed[r]
        BY <1>0, <3>5, <3>6, <4>1
      <4> QED BY <3>6, <4>2
    <3>7. \A s \in Thing : changed[s] > u.from => s \in page \/ changed[s] > from
      BY <1>0, <3>4, <3>5, <3>6
    <3>8. from # NoToken
      BY <3>4, <3>5 DEF NoToken
    <3> QED BY <3>4, <3>5, <3>7, <3>8
  <2> QED BY <2>2, <2>3
<1>41. PICK b \in Int : b = from
  BY <1>4
<1>5. u.metas \subseteq metas /\ ~omitted => \A t \in page : <<t, parent[t]>> \in metas
  OBVIOUS
<1>6. page \subseteq Thing /\ metas \subseteq Thing \X Place /\ todo \subseteq File
  BY <1>0, FetchFields
<1>7. v \in FetchType
  <2>1. v.at \in FetchSteps
    BY <1>3 DEF FetchSteps
  <2>2. v.next \in Int /\ v.from \in Int
    BY <1>0, <1>3, <1>4 DEF NoToken
  <2>3. v.metas \subseteq Thing \X Place /\ v.todo \subseteq File
    BY <1>3, <1>6
  <2>4. v = [u EXCEPT !.metas = v.metas, !.from = v.from, !.at = v.at, !.next = v.next,
                      !.todo = v.todo]
    BY <1>3
  <2> HIDE DEF v
  <2> QED BY <2>1, <2>2, <2>3, <2>4 DEF FetchType
<1>8. \A f \in File : f \in astray => f \in astray'
  BY <1>2
<1>9. FetchOK(u) /\ u.at = "feed" /\ "root" \in u.scope /\ FolderRead(u)
  BY <1>0, <1>1, <1>2 DEF FetchOK
<1>10. parent[Sub] = "root" =>
         "sub" \in u.scope \/ changed[Sub] > from \/ <<Sub, "root">> \in metas
  <2>1. Sub \in Thing
    BY DEF Thing
  <2>2. CASE changed[Sub] > u.from /\ parent[Sub] = "root" /\ Sub \in page
    <3>1. ~omitted
      BY <1>2, <2>2, DriveAssumption
    <3> QED BY <2>2, <3>1
  <2> QED BY <1>4, <1>9, <2>1, <2>2 DEF FolderRead
<1>11. ASSUME NEW f \in File, InScope(f)
       PROVE  Behind(f, b)' \/ <<f, parent[f]>> \in metas
  <2>1. Behind(f, u.from) \/ <<f, parent[f]>> \in u.metas
    BY <1>9, <1>11 DEF FetchOK
  <2>2. CASE changed[f] > u.from
    <3>1. f \in page \/ changed[f] > from
      BY <1>4, <2>2 DEF Thing
    <3>3. f \in page => f \in astray' \/ <<f, parent[f]>> \in metas
      BY <1>2
    <3>4. changed' = changed
      BY <1>2 DEF drive
    <3> QED BY <1>41, <3>1, <3>3, <3>4 DEF Behind
  <2>3. CASE index[f] = content[f] \/ f \in astray \cup unfed
    BY <1>2, <1>8, <2>3 DEF Behind, drive, indexed
  <2> QED BY <1>5, <2>1, <2>2, <2>3 DEF Behind
<1>12. last => \A t \in Thing : changed[t] <= from
  <2>1. \A t \in page : changed[t] <= from
    <3>1. ASSUME NEW t \in page
          PROVE  changed[t] <= from
      <4>1. {changed[s] : s \in page} = {changed[t]}
        BY <1>0
      <4>2. Max({changed[t]}) = changed[t]
        BY <1>0, <1>6 DEF Max
      <4> QED BY <1>0, <1>6, <4>1, <4>2
    <3> QED BY <3>1
  <2>2. ASSUME NEW t \in Thing, last
        PROVE  changed[t] <= from
    <3>1. CASE changed[t] > u.from
      BY <2>1, <2>2, <3>1
    <3>2. CASE ~(changed[t] > u.from)
      <4>1. u.from <= from
        <5>1. CASE page = {}
          BY <1>9, <5>1, FetchFields
        <5>2. CASE page # {}
          <6>1. PICK s \in page : TRUE
            BY <5>2
          <6>2. changed[s] > u.from /\ changed[s] <= from /\ changed[s] \in Nat
            BY <1>0, <2>1
          <6> QED BY <1>4, <6>2, FetchFields
        <5> QED BY <5>1, <5>2
      <4> QED BY <1>0, <1>4, <3>2, <4>1, FetchFields
    <3> QED BY <3>1, <3>2
  <2> QED BY <2>2
<1>13. ASSUME last, NEW f \in File, InScope(f)
       PROVE  Behind(f, tick)' \/ f \in todo
  <2>1. ASSUME <<f, parent[f]>> \in metas
        PROVE  f \in todo
    <3>1. parent[f] \in scope
      <4>1. CASE parent[f] = "root"
        BY <1>9, <4>1 DEF Grown
      <4>2. CASE parent[f] = "sub" /\ parent[Sub] = "root"
        <5>1. Sub \in Thing /\ changed[Sub] \in Nat /\ changed[Sub] <= from
          BY <1>0, <1>12, <1>13 DEF Thing
        <5>2. "sub" \in u.scope \/ <<Sub, "root">> \in metas
          BY <1>4, <1>10, <4>2, <5>1
        <5> QED BY <4>2, <5>2 DEF Grown
      <4> QED BY <1>13, <4>1, <4>2 DEF InScope
    <3> QED BY <1>13, <2>1, <3>1
  <2>2. ASSUME Behind(f, b)'
        PROVE  Behind(f, tick)'
    <3>1. changed[f] \in Nat /\ changed[f] <= from
      BY <1>0, <1>12, <1>13 DEF Thing
    <3>2. changed' = changed
      BY <1>2 DEF drive
    <3> QED BY <1>41, <2>2, <3>1, <3>2 DEF Behind
  <2> QED BY <1>11, <1>13, <2>1, <2>2
<1>14. PICK w \in FetchType : w = v
  BY <1>7
<1>15. FetchOK(w)'
  <2>1. w.from <= tick /\ w.next <= tick
    BY <1>0, <1>3, <1>4, <1>14 DEF NoToken
  <2>2. \A f \in File : w.got[f] # -1 => copied[f] <= w.got[f] /\ w.got[f] <= content[f]
    BY <1>3, <1>9, <1>14 DEF FetchOK
  <2>3. CASE last
    <3>1. w.at = "build" /\ w.next = tick /\ w.todo = todo
      BY <1>3, <1>14, <2>3
    <3>2. \A f \in File : InScope(f)' => Built(w, f)'
      BY <1>2, <1>13, <2>3, <3>1 DEF Built, Behind, InScope, drive, indexed
    <3> QED BY <1>2, <2>1, <2>2, <3>1, <3>2 DEF FetchOK, drive, indexed
  <2>4. CASE ~last
    <3>1. w.at = "feed" /\ w.from = from /\ w.metas = metas /\ w.scope = u.scope
      BY <1>3, <1>14, <2>4
    <3>2. "root" \in w.scope /\ FolderRead(w)'
      BY <1>2, <1>9, <1>10, <3>1 DEF FolderRead, drive
    <3>3. \A f \in File : InScope(f)' => Behind(f, w.from)' \/ <<f, parent[f]>> \in w.metas
      BY <1>2, <1>11, <1>41, <3>1 DEF Behind, InScope, drive, indexed
    <3>4. w.from # NoToken
      BY <1>4, <3>1
    <3> QED BY <1>2, <2>1, <2>2, <3>1, <3>2, <3>3, <3>4 DEF FetchOK, drive, indexed
  <2> QED BY <2>3, <2>4
<1>16. fetch' \in FetchType /\ FetchOK(fetch)'
  <2>1. fetch' = w
    BY <1>2, <1>14
  <2> QED BY <1>15, <2>1 DEF FetchOK, Behind, InScope, Swept, FolderRead, Built, Fed
<1>17. astray' \subseteq File
  BY <1>2 DEF DriveInv, DriveShapes
<1>18. \A t \in Int : Leaves(t) => Leaves(t)'
  BY <1>2, <1>8 DEF Leaves, Behind, InScope, drive, indexed
<1>19. DriveShapes'
  BY <1>2, <1>16, <1>17, ShapesKeep
<1>20. \A f \in File : Ordered(f)' /\ (f \notin unsynced' => Fed(f)')
  BY <1>2, ChecksKeep
<1>21. (\A t \in unsaved' : Leaves(t)') /\ (token' # NoToken => Leaves(token)')
  BY <1>2, <1>18, TokensKeep DEF saved
<1> QED BY <1>16, <1>19, <1>20, <1>21 DEF DriveInv

\* The rows are those of what was fetched, and the new ones are to be ingested.
LEMMA StoreCopiesKeeps ==
  ASSUME DriveInv, StoreCopies
  PROVE  DriveInv'
<1>0. /\ DriveShapes /\ fetch \in FetchType /\ FetchOK(fetch) /\ unsynced \subseteq File
      /\ content \in [File -> Nat] /\ copied \in [File -> Int] /\ index \in [File -> Int]
      /\ \A f \in File : Ordered(f) /\ (f \notin unsynced => Fed(f))
  BY DEF DriveInv, DriveShapes
<1>1. PICK u \in FetchType : u = fetch
  BY <1>0
<1> DEFINE v == [u EXCEPT !.at = "stored"]
<1>2. /\ fetch' = v /\ u.at = "build" /\ u.todo = {} /\ Got = {f \in File : u.got[f] # -1}
      /\ UNCHANGED <<drive, index, unfed, saved, astray>>
      /\ copied' = [f \in File |-> IF f \in Got THEN u.got[f] ELSE copied[f]]
      /\ unsynced' = unsynced \cup {f \in Got : copied[f] # u.got[f]}
  BY <1>1 DEF StoreCopies, Got
<1>3. /\ v.at = "stored" /\ v.next = u.next /\ v.from = u.from /\ v.failed = u.failed
      /\ v.got = u.got /\ v.todo = {}
  BY <1>2 DEF FetchType
<1>4. v \in FetchType
  BY DEF FetchType, FetchSteps
<1> HIDE DEF v
<1>5. PICK w \in FetchType : w = v
  BY <1>4
<1>6. \A f \in File : /\ u.got[f] \in Int /\ content[f] \in Nat /\ copied[f] \in Int /\ index[f] \in Int
                      /\ copied'[f] = IF u.got[f] # -1 THEN u.got[f] ELSE copied[f]
                      /\ u.got[f] # -1 => copied[f] <= u.got[f] /\ u.got[f] <= content[f]
  BY <1>0, <1>1, <1>2, FetchFields DEF FetchOK
<1>7. index' = index /\ content' = content /\ unfed' = unfed
  BY <1>2 DEF drive
<1>8. ASSUME NEW f \in File
      PROVE  Ordered(f)' /\ (f \notin unsynced' => Fed(f)')
  <2>1. Ordered(f)'
    BY <1>0, <1>6, <1>7 DEF Ordered
  <2>2. ASSUME f \notin unsynced'
        PROVE  Fed(f)'
    <3>1. f \notin unsynced /\ copied'[f] = copied[f]
      BY <1>2, <1>6, <2>2
    <3> QED BY <1>0, <1>7, <3>1 DEF Fed
  <2> QED BY <2>1, <2>2
<1>9. \A t \in Int, g \in File : Behind(g, t) => Behind(g, t)'
  BY <1>2, <1>7 DEF Behind, drive
<1>10. \A t \in Int : Leaves(t) => Leaves(t)'
  BY <1>2, <1>9 DEF Leaves, InScope, drive
<1>11. FetchOK(w)'
  <2>1. \A g \in File : w.got[g] # -1 => copied'[g] = w.got[g] /\ copied'[g] <= w.got[g]
                                         /\ w.got[g] <= content'[g]
    BY <1>3, <1>5, <1>6, <1>7
  <2>2. ASSUME NEW g \in File, InScope(g)'
        PROVE  Built(w, g)'
    <3>1. Built(u, g)
      BY <1>0, <1>1, <1>2, <2>2 DEF FetchOK, InScope, drive
    <3>2. Behind(g, u.next) => Behind(g, w.next)'
      BY <1>3, <1>5, <1>9, FetchFields
    <3> QED BY <1>2, <1>3, <1>5, <1>7, <3>1, <3>2 DEF Built
  <2>3. w.from <= tick' /\ w.next <= tick'
    BY <1>0, <1>1, <1>2, <1>3, <1>5 DEF FetchOK, drive
  <2> QED BY <1>3, <1>5, <2>1, <2>2, <2>3 DEF FetchOK
<1>12. fetch' \in FetchType /\ FetchOK(fetch)'
  <2>1. fetch' = w
    BY <1>2, <1>5
  <2> QED BY <1>11, <2>1 DEF FetchOK, Behind, InScope, Swept, FolderRead, Built, Fed
<1>13. DriveShapes'
  <2>1. copied' \in [File -> Int]
    BY <1>2, <1>6
  <2>2. unsynced' \subseteq File
    BY <1>0, <1>2
  <2> QED BY <1>0, <1>2, <1>12, <2>1, <2>2 DEF DriveShapes, drive, saved
<1>14. (\A t \in unsaved' : Leaves(t)') /\ (token' # NoToken => Leaves(token)')
  BY <1>2, <1>10, TokensKeep DEF saved
<1> QED BY <1>8, <1>12, <1>13, <1>14 DEF DriveInv

\* An ingest, whole or cut: the points of those done are those of the row, and of the
\* others that are as the file is, those that had to be ingested are unfed.
LEMMA IndexGoes ==
  ASSUME DriveInv, fetch.at = "stored", NEW done \in SUBSET ToIngest, NEW broken \in SUBSET ToIngest,
         done \cap broken = {}, index' = Reindexed(done, broken),
         UNCHANGED <<drive, copied, unsynced>>, unfed' \subseteq File,
         \A f \in unfed : f \in unfed' \/ (f \in done /\ f \in Current),
         \A f \in broken : index[f] = content[f] => f \in unfed'
  PROVE  /\ index' \in [File -> Int]
         /\ \A f \in File : Ordered(f)'
         /\ \A f \in File : index[f] = content[f] \/ f \in unfed =>
              index'[f] = content[f] \/ f \in unfed'
         /\ \A f \in File : f \notin unsynced => Fed(f)'
         /\ \A f \in done : f \in File /\ index'[f] = copied[f]
<1>0. /\ DriveShapes /\ fetch \in FetchType /\ FetchOK(fetch) /\ unfed \subseteq File
      /\ content \in [File -> Nat] /\ copied \in [File -> Int] /\ index \in [File -> Int]
      /\ \A f \in File : Ordered(f) /\ (f \notin unsynced => Fed(f))
  BY DEF DriveInv, DriveShapes
<1>1. /\ ToIngest = {f \in File : fetch.got[f] # -1} \cap unsynced
      /\ Current = {f \in File : fetch.got[f] # -1 /\ fetch.got[f] = content[f]}
  BY DEF ToIngest, Got, Current
<1>2. \A f \in File : index'[f] = IF f \in done THEN copied[f] ELSE IF f \in broken THEN -1
                                  ELSE index[f]
  BY DEF Reindexed
<1>3. content' = content /\ copied' = copied /\ unsynced' = unsynced
  BY DEF drive
<1>4. \A f \in File : fetch.got[f] # -1 => copied[f] = fetch.got[f]
  BY <1>0 DEF FetchOK
<1>5. \A f \in File : content[f] \in Nat /\ copied[f] \in Int /\ index[f] \in Int
                      /\ -1 <= index[f] /\ index[f] <= copied[f] /\ copied[f] <= content[f]
  BY <1>0 DEF Ordered
<1>6. index' \in [File -> Int]
  BY <1>5 DEF Reindexed
<1>7. \A f \in File : Ordered(f)'
  BY <1>2, <1>3, <1>5 DEF Ordered
<1>8. \A f \in done : f \in File /\ index'[f] = copied[f]
  BY <1>1, <1>2
<1>9. ASSUME NEW f \in File, index[f] = content[f] \/ f \in unfed
      PROVE  index'[f] = content[f] \/ f \in unfed'
  <2>1. CASE f \in done /\ f \in Current
    BY <1>1, <1>4, <1>8, <2>1
  <2>2. CASE f \in done /\ index[f] = content[f]
    BY <1>5, <1>8, <2>2
  <2>3. CASE f \notin done /\ index[f] = content[f]
    BY <1>2, <2>3
  <2>4. CASE f \in unfed /\ ~(f \in done /\ f \in Current)
    BY <2>4
  <2> QED BY <1>9, <2>1, <2>2, <2>3, <2>4
<1>10. \A f \in File : f \notin unsynced => Fed(f)'
  BY <1>0, <1>3, <1>9 DEF Fed
<1> QED BY <1>6, <1>7, <1>8, <1>9, <1>10

\* What every step of an ingest keeps, whatever becomes of the fetch.
LEMMA IngestedKeeps ==
  ASSUME DriveInv, UNCHANGED <<drive, saved, unsynced>>,
         copied' = copied, index' \in [File -> Int], unfed' \subseteq File, astray' \subseteq File,
         fetch' \in FetchType, FetchOK(fetch)',
         \A f \in File : Ordered(f)' /\ (f \notin unsynced => Fed(f)'),
         \A t \in Int, f \in File : Behind(f, t) => Behind(f, t)'
  PROVE  DriveInv'
<1>1. \A t \in Int : Leaves(t) => Leaves(t)'
  BY DEF Leaves, InScope, drive
<1>2. (\A t \in unsaved' : Leaves(t)') /\ (token' # NoToken => Leaves(token)')
  BY <1>1, TokensKeep DEF saved
<1>3. DriveShapes'
  BY DEF DriveInv, DriveShapes, drive, saved
<1>4. unsynced' = unsynced
  OBVIOUS
<1> QED BY <1>2, <1>3, <1>4 DEF DriveInv

\* The documents are ingested; those that were not, though they are as the file is, are
\* unfed.
LEMMA IngestCopiesKeeps ==
  ASSUME DriveInv, IngestCopies
  PROVE  DriveInv'
<1>0. /\ DriveShapes /\ fetch \in FetchType /\ FetchOK(fetch)
      /\ unfed \subseteq File /\ astray \subseteq File /\ tick \in Nat
      /\ \A f \in File : f \notin unsynced => Fed(f)
  BY DEF DriveInv, DriveShapes
<1>1. PICK done \in SUBSET ToIngest, blank \in SUBSET ToIngest :
        \E broken \in SUBSET (ToIngest \ (done \cup blank)) :
          /\ index' = Reindexed(done, broken)
          /\ unfed' = (unfed \ (Current \cap ToIngest)) \cup ((Current \cap ToIngest) \ done)
          /\ astray' = astray \ Current
          /\ fetch' = [fetch EXCEPT !.at = "ingested",
               !.status = IF done \cup blank = ToIngest THEN "success"
                          ELSE IF \E f \in done : index[f] = -1 THEN "partial" ELSE "failed"]
  BY DEF IngestCopies
<1>2. PICK broken \in SUBSET (ToIngest \ (done \cup blank)) :
          /\ index' = Reindexed(done, broken)
          /\ unfed' = (unfed \ (Current \cap ToIngest)) \cup ((Current \cap ToIngest) \ done)
          /\ astray' = astray \ Current
          /\ fetch' = [fetch EXCEPT !.at = "ingested",
               !.status = IF done \cup blank = ToIngest THEN "success"
                          ELSE IF \E f \in done : index[f] = -1 THEN "partial" ELSE "failed"]
  BY <1>1
<1>3. fetch.at = "stored" /\ UNCHANGED <<drive, copied, unsynced, saved>>
  BY DEF IngestCopies
<1>4. /\ Got = {f \in File : fetch.got[f] # -1} /\ ToIngest = Got \cap unsynced
      /\ Current = {f \in Got : fetch.got[f] = content[f]}
  BY DEF ToIngest, Got, Current
<1>5. \A f \in File : fetch.got[f] # -1 => copied[f] = fetch.got[f]
  BY <1>0, <1>3 DEF FetchOK
<1>6. ASSUME NEW f \in broken, index[f] = content[f]
      PROVE  f \in unfed'
  <2>1. f \in ToIngest /\ f \notin done /\ f \in File
    BY <1>4
  <2>2. f \in Current
    <3>1. /\ index[f] \in Int /\ copied[f] \in Int /\ content[f] \in Nat
          /\ index[f] <= copied[f] /\ copied[f] <= content[f]
      BY <2>1 DEF DriveInv, DriveShapes, Ordered
    <3> QED BY <1>4, <1>5, <1>6, <2>1, <3>1
  <2> QED BY <1>2, <2>1, <2>2
<1>7. /\ index' \in [File -> Int] /\ \A f \in File : Ordered(f)'
      /\ \A f \in File : index[f] = content[f] \/ f \in unfed =>
           index'[f] = content[f] \/ f \in unfed'
      /\ \A f \in File : f \notin unsynced => Fed(f)'
      /\ \A f \in done : f \in File /\ index'[f] = copied[f]
  <2>1. unfed' \subseteq File /\ broken \in SUBSET ToIngest /\ done \cap broken = {}
    BY <1>0, <1>2, <1>4
  <2>2. \A f \in unfed : f \in unfed' \/ (f \in done /\ f \in Current)
    BY <1>2
  <2> QED BY <1>2, <1>3, <1>6, <2>1, <2>2, IndexGoes
<1>8. ASSUME NEW f \in Current
      PROVE  index'[f] = content[f] \/ f \in unfed'
  <2>1. f \in File /\ copied[f] = content[f] /\ f \in Got
    BY <1>4, <1>5
  <2>2. CASE f \in unsynced
    BY <1>2, <1>4, <1>7, <2>1, <2>2
  <2>3. CASE f \notin unsynced
    <3>1. index[f] = content[f] \/ f \in unfed
      BY <1>0, <2>1, <2>3 DEF Fed
    <3> QED BY <1>7, <2>1, <3>1
  <2> QED BY <2>2, <2>3
<1>9. changed' = changed /\ content' = content /\ copied' = copied /\ tick' = tick /\ parent' = parent
  BY <1>3 DEF drive
<1>10. ASSUME NEW t \in Int, NEW f \in File, Behind(f, t)
       PROVE  Behind(f, t)'
  <2>1. CASE f \in Current
    BY <1>8, <1>9, <2>1 DEF Behind
  <2>2. CASE f \notin Current
    BY <1>2, <1>7, <1>9, <1>10, <2>2 DEF Behind
  <2> QED BY <2>1, <2>2
<1>11. PICK u \in FetchType : u = fetch
  BY <1>0
<1> DEFINE result == IF done \cup blank = ToIngest THEN "success"
                     ELSE IF \E f \in done : index[f] = -1 THEN "partial" ELSE "failed"
           v == [u EXCEPT !.at = "ingested", !.status = result]
<1>12. v \in FetchType
  BY DEF FetchType, FetchSteps
<1>13. /\ v.at = "ingested" /\ v.next = u.next /\ v.from = u.from /\ v.failed = u.failed
       /\ v.got = u.got /\ v.todo = u.todo /\ fetch' = v
  BY <1>2, <1>11 DEF FetchType
<1> HIDE DEF v, result
<1>14. PICK w \in FetchType : w = v
  BY <1>12
<1>15. FetchOK(w)'
  <2>1. /\ w.todo = {} /\ w.from <= tick' /\ w.next <= tick'
        /\ \A g \in File : w.got[g] # -1 => copied'[g] = w.got[g] /\ copied'[g] <= w.got[g]
                                            /\ w.got[g] <= content'[g]
    BY <1>0, <1>3, <1>9, <1>11, <1>13, <1>14 DEF FetchOK
  <2>2. ASSUME NEW g \in File, InScope(g)', ~w.failed
        PROVE  Behind(g, w.next)'
    <3>1. Built(u, g) /\ u.todo = {}
      BY <1>0, <1>3, <1>9, <1>11, <2>2 DEF FetchOK, InScope
    <3>2. CASE u.got[g] = content[g]
      <4>1. g \in Current
        <5>1. content[g] \in Nat
          BY <1>0 DEF DriveShapes
        <5> QED BY <1>4, <1>11, <3>2, <5>1
      <4> QED BY <1>8, <1>9, <4>1 DEF Behind
    <3>3. CASE Behind(g, u.next)
      BY <1>10, <1>13, <1>14, <3>3, FetchFields
    <3> QED BY <1>13, <1>14, <2>2, <3>1, <3>2, <3>3 DEF Built
  <2>3. ASSUME NEW g \in File, w.got[g] # -1
        PROVE  Fed(g)'
    <3>1. ASSUME copied[g] = content[g]
          PROVE  g \in Current
      BY <1>4, <1>5, <1>11, <1>13, <1>14, <2>3, <3>1
    <3> QED BY <1>8, <1>9, <3>1 DEF Fed
  <2> QED BY <1>13, <1>14, <2>1, <2>2, <2>3 DEF FetchOK
<1>16. fetch' \in FetchType /\ FetchOK(fetch)'
  <2>1. fetch' = w
    BY <1>13, <1>14
  <2> QED BY <1>15, <2>1 DEF FetchOK, Behind, InScope, Swept, FolderRead, Built, Fed
<1>17. unfed' \subseteq File /\ astray' \subseteq File
  BY <1>0, <1>2, <1>4
<1> QED BY <1>3, <1>7, <1>9, <1>10, <1>16, <1>17, IngestedKeeps

\* The ingest is cut: what was broken though it was as the file is, is unfed.
LEMMA IngestCutKeeps ==
  ASSUME DriveInv, IngestCut
  PROVE  DriveInv'
<1>0. DriveShapes /\ unfed \subseteq File /\ astray \subseteq File
  BY DEF DriveInv, DriveShapes
<1>1. PICK done \in SUBSET ToIngest : \E broken \in SUBSET (ToIngest \ done) :
        /\ index' = Reindexed(done, broken)
        /\ unfed' = (unfed \ (Current \cap done)) \cup {f \in broken : index[f] = content[f]}
  BY DEF IngestCut
<1>2. PICK broken \in SUBSET (ToIngest \ done) :
        /\ index' = Reindexed(done, broken)
        /\ unfed' = (unfed \ (Current \cap done)) \cup {f \in broken : index[f] = content[f]}
  BY <1>1
<1>3. fetch.at = "stored" /\ fetch' = NoFetch /\ UNCHANGED <<drive, copied, unsynced, saved, astray>>
  BY DEF IngestCut
<1>4. ToIngest \subseteq File
  BY DEF ToIngest, Got
<1>5. unfed' \subseteq File
  BY <1>0, <1>2, <1>4
<1>6. /\ index' \in [File -> Int] /\ \A f \in File : Ordered(f)'
      /\ \A f \in File : index[f] = content[f] \/ f \in unfed =>
           index'[f] = content[f] \/ f \in unfed'
      /\ \A f \in File : f \notin unsynced => Fed(f)'
  <2>1. broken \in SUBSET ToIngest /\ done \cap broken = {}
    OBVIOUS
  <2>2. \A f \in unfed : f \in unfed' \/ (f \in done /\ f \in Current)
    BY <1>2
  <2>3. \A f \in broken : index[f] = content[f] => f \in unfed'
    BY <1>2
  <2> QED BY <1>2, <1>3, <1>5, <2>1, <2>2, <2>3, IndexGoes
<1>7. ASSUME NEW t \in Int, NEW f \in File, Behind(f, t)
      PROVE  Behind(f, t)'
  BY <1>3, <1>6, <1>7 DEF Behind, drive
<1>8. fetch' \in FetchType /\ FetchOK(fetch)'
  BY <1>0, <1>3, IdleKeeps DEF drive
<1> QED BY <1>0, <1>3, <1>5, <1>6, <1>7, <1>8, IngestedKeeps

\* The sync ends: its documents are marked, and a sync that read and ingested everything
\* leaves a token that leaves nothing behind.
LEMMA FinishFetchKeeps ==
  ASSUME DriveInv, NEW marked \in BOOLEAN, FinishFetch(marked)
  PROVE  DriveInv'
<1>0. /\ DriveShapes /\ fetch \in FetchType /\ FetchOK(fetch) /\ unsynced \subseteq File
      /\ unsaved \subseteq Int /\ token \in Int
      /\ (\A t \in unsaved : t <= tick /\ Leaves(t)) /\ (token # NoToken => Leaves(token))
  BY DEF DriveInv, DriveShapes
<1> DEFINE next == IF fetch.status = "success" THEN HeldBack(fetch.failed, fetch.next) ELSE NoToken
<1>1. /\ fetch.at = "ingested" /\ fetch' = NoFetch
      /\ UNCHANGED <<drive, copied, index, unfed, token, astray>>
      /\ unsaved' = unsaved \cup ({next} \ {NoToken})
      /\ unsynced' = unsynced \/ unsynced' = unsynced \ Got
  BY DEF FinishFetch
<1>2. fetch.next \in Int /\ fetch.next <= tick
  BY <1>0, FetchFields DEF FetchOK
<1>3. next # NoToken => next = fetch.next /\ ~fetch.failed
  BY DEF HeldBack
<1>4. ASSUME next # NoToken
      PROVE  Leaves(fetch.next)
  BY <1>0, <1>1, <1>3, <1>4 DEF FetchOK, Leaves
<1>5. PICK n \in Int : n = fetch.next
  BY <1>2
<1>6. \A t \in Int : Leaves(t) => Leaves(t)'
  BY <1>1 DEF Leaves, Behind, InScope, drive
<1>7. \A t \in unsaved' : t \in Int /\ t <= tick /\ Leaves(t)
  BY <1>0, <1>1, <1>2, <1>3, <1>4
<1>8. \A t \in unsaved' : Leaves(t)'
  BY <1>6, <1>7
<1>9. token' # NoToken => Leaves(token)'
  <2>1. PICK r \in Int : r = token
    BY <1>0
  <2>2. r # NoToken => Leaves(r)'
    BY <1>0, <1>6, <2>1
  <2> QED BY <1>1, <2>1, <2>2
<1>10. fetch' \in FetchType /\ FetchOK(fetch)'
  BY <1>0, <1>1, IdleKeeps DEF drive
<1>11. ASSUME NEW f \in File
       PROVE  Ordered(f)' /\ (f \notin unsynced' => Fed(f)')
  <2>1. Ordered(f)'
    BY <1>1 DEF DriveInv, Ordered, drive
  <2>2. ASSUME f \notin unsynced'
        PROVE  Fed(f)
    <3>1. CASE f \notin unsynced
      BY <3>1 DEF DriveInv
    <3>2. CASE f \in Got
      BY <1>0, <1>1, <3>2 DEF FetchOK, Got
    <3> QED BY <1>1, <2>2, <3>1, <3>2
  <2>3. Fed(f) => Fed(f)'
    BY <1>1 DEF Fed, drive
  <2> QED BY <2>1, <2>2, <2>3
<1>12. DriveShapes'
  <2>1. unsynced' \subseteq File
    BY <1>0, <1>1
  <2>2. unsaved' \subseteq Int /\ \A t \in unsaved' : t <= tick'
    BY <1>1, <1>7 DEF drive
  <2> QED BY <1>0, <1>1, <1>10, <2>1, <2>2 DEF DriveShapes, drive
<1> QED BY <1>8, <1>9, <1>10, <1>11, <1>12 DEF DriveInv

\* A token that is saved, or lost, is one of those that leave nothing behind.
LEMMA SaveTokenKeeps ==
  ASSUME DriveInv, NEW t \in unsaved, SaveToken(t) \/ SaveTokenFails(t)
  PROVE  DriveInv'
<1>0. DriveShapes /\ t \in Int /\ t <= tick /\ Leaves(t)
  BY DEF DriveInv, DriveShapes
<1>1. /\ unsaved' = unsaved \ {t} /\ token' \in {t, token}
      /\ UNCHANGED <<drive, indexed, fetch, astray>>
  BY DEF SaveToken, SaveTokenFails
<1>2. DriveShapes'
  BY <1>0, <1>1 DEF DriveInv, DriveShapes, drive, indexed
<1>3. FetchOK(fetch)'
  BY <1>1 DEF DriveInv, FetchOK, Behind, InScope, Swept, FolderRead, Built, Fed, drive, indexed
<1>4. \A s \in Int : Leaves(s) => Leaves(s)'
  BY <1>1 DEF Leaves, Behind, InScope, drive, indexed
<1>5. (token' # NoToken => Leaves(token)') /\ \A s \in unsaved' : Leaves(s)'
  <2>1. PICK s \in Int : s = token'
    BY <1>0, <1>1 DEF DriveShapes
  <2>2. s # NoToken => Leaves(s)
    BY <1>0, <1>1, <2>1 DEF DriveInv
  <2>3. \A r \in unsaved' : r \in Int /\ Leaves(r)
    BY <1>0, <1>1 DEF DriveInv, DriveShapes
  <2> QED BY <1>4, <2>1, <2>2, <2>3
<1>6. \A f \in File : Ordered(f)' /\ (f \notin unsynced' => Fed(f)')
  BY <1>1, ChecksKeep
<1> QED BY <1>2, <1>3, <1>5, <1>6 DEF DriveInv

\* A change of the drive: the number of the thing is above every token, and what the
\* folder brings into the scope is astray.
LEMMA DriveChanges ==
  ASSUME DriveInv,
         \/ \E f \in File : EditFile(f) \/ \E p \in Place : MoveFile(f, p)
         \/ \E p \in {"root", "away"} : MoveFolder(p)
  PROVE  DriveInv'
<1>0. /\ DriveShapes /\ fetch \in FetchType /\ FetchOK(fetch) /\ changed \in [Thing -> Nat]
      /\ parent \in [Thing -> Place] /\ tick \in Nat /\ \A s \in Thing : changed[s] <= tick
      /\ content \in [File -> Nat] /\ unfed \subseteq File
      /\ \A g \in File : Ordered(g) /\ (g \notin unsynced => Fed(g))
      /\ \A g \in File : content[g] <= tick /\ copied[g] \in Int /\ index[g] \in Int
      /\ astray \subseteq File /\ token <= tick /\ \A s \in unsaved : s <= tick
      /\ token \in Int /\ unsaved \subseteq Int
  BY DEF DriveInv, DriveShapes
<1>1. PICK t \in Thing, p \in Place :
        /\ tick' = tick + 1 /\ UNCHANGED <<copied, unsynced, index, saved, fetch>>
        /\ changed' = [changed EXCEPT ![t] = tick + 1] /\ parent' = [parent EXCEPT ![t] = p]
        /\ t # Sub => t \in File /\ astray' = astray \ {t}
        /\ t = Sub => /\ astray \subseteq astray' /\ astray' \subseteq File
                      /\ p = "root" => \A f \in File : parent[f] = "sub" => f \in astray'
        /\ \/ content' = content /\ unfed' = unfed
           \/ content' = [content EXCEPT ![t] = tick + 1] /\ unfed' = unfed \ {t} /\ t # Sub
  <2>1. CASE \E f \in File : EditFile(f)
    <3>1. PICK f \in File : EditFile(f)
      BY <2>1
    <3>2. f \in Thing /\ f # Sub
      BY DriveAssumption DEF Thing
    <3>3. parent' = [parent EXCEPT ![f] = parent[f]] /\ parent[f] \in Place
      BY <1>0, <3>1, <3>2 DEF EditFile
    <3> QED BY <3>1, <3>2, <3>3 DEF EditFile
  <2>2. CASE \E f \in File, p \in Place : MoveFile(f, p)
    <3>1. PICK f \in File, p \in Place : MoveFile(f, p)
      BY <2>2
    <3>2. f \in Thing /\ f # Sub
      BY DriveAssumption DEF Thing
    <3> QED BY <3>1, <3>2 DEF MoveFile, indexed
  <2>3. CASE \E p \in {"root", "away"} : MoveFolder(p)
    <3>1. PICK p \in {"root", "away"} : MoveFolder(p)
      BY <2>3
    <3>2. Sub \in Thing /\ p \in Place
      BY DEF Thing, Place
    <3> QED BY <1>0, <3>1, <3>2 DEF MoveFolder, indexed
  <2> QED BY <2>1, <2>2, <2>3
<1>2. /\ \A s \in Thing : changed'[s] = IF s = t THEN tick + 1 ELSE changed[s]
      /\ \A s \in Thing : parent'[s] = IF s = t THEN p ELSE parent[s]
  BY <1>0, <1>1
<1>3. copied' = copied /\ index' = index /\ unsynced' = unsynced /\ token' = token /\ unsaved' = unsaved /\ fetch' = fetch
  BY <1>1 DEF saved
<1>4. ASSUME NEW f \in File, InScope(f)'
      PROVE  (InScope(f) /\ f # t /\ changed'[f] = changed[f] /\ parent'[f] = parent[f])
             \/ f \in astray' \/ (f = t /\ changed'[f] = tick + 1)
  <2>1. f \in Thing /\ Sub \in Thing /\ f # Sub
    BY DriveAssumption DEF Thing
  <2> QED BY <1>1, <1>2, <1>4, <2>1 DEF InScope
<1>5. /\ \A f \in File : f # t => /\ f \in astray \cup unfed => f \in astray' \cup unfed'
                                 /\ content'[f] = content[f]
      /\ \A f \in File : \/ content'[f] = content[f] /\ (f \in unfed => f \in unfed')
                         \/ content'[f] = tick + 1
      /\ content' \in [File -> Nat] /\ unfed' \subseteq File
  <2>1. t # Sub => t \in File
    BY <1>1
  <2> QED BY <1>0, <1>1, <2>1
<1>6. ASSUME NEW s \in Int, s <= tick, NEW f \in File, InScope(f)',
             Behind(f, s) \/ f = t \/ ~InScope(f)
      PROVE  Behind(f, s)'
  <2>1. CASE f = t /\ changed'[f] = tick + 1
    BY <1>0, <1>6, <2>1 DEF Behind
  <2>2. CASE f # t /\ InScope(f) /\ changed'[f] = changed[f]
    BY <1>3, <1>5, <1>6, <2>2 DEF Behind
  <2> QED BY <1>4, <1>6, <2>1, <2>2 DEF Behind
<1>7. \A s \in Int : s <= tick /\ Leaves(s) => Leaves(s)'
  BY <1>6 DEF Leaves
<1>8. DriveShapes'
  <2>1. changed' \in [Thing -> Nat] /\ parent' \in [Thing -> Place] /\ tick' \in Nat
    BY <1>0, <1>1
  <2>2. \A s \in Thing : changed'[s] <= tick'
    BY <1>0, <1>1, <1>2
  <2>3. astray' \subseteq File
    BY <1>0, <1>1
  <2>4. token <= tick' /\ \A s \in unsaved : s <= tick'
    BY <1>0, <1>1
  <2>5. \A f \in File : content'[f] <= tick'
    BY <1>0, <1>1, <1>5
  <2> QED BY <1>0, <1>3, <1>5, <2>1, <2>2, <2>3, <2>4, <2>5 DEF DriveShapes
<1>9. PICK u \in FetchType : u = fetch
  BY <1>0
<1>10. u.from \in Int /\ u.next \in Int /\ u.from <= tick /\ u.next <= tick /\ FetchOK(u)
  BY <1>0, <1>9, FetchFields DEF FetchOK
<1>11. \A f \in File : Ordered(f)' /\ (Fed(f) => Fed(f)')
  <2>1. ASSUME NEW f \in File
        PROVE  Ordered(f)' /\ (Fed(f) => Fed(f)')
    <3>1. /\ content[f] \in Nat /\ content[f] <= tick /\ copied[f] \in Int /\ index[f] \in Int
          /\ copied[f] <= content[f] /\ -1 <= index[f] /\ index[f] <= copied[f]
      BY <1>0 DEF Ordered
    <3>2. CASE content'[f] = content[f] /\ (f \in unfed => f \in unfed')
      BY <1>3, <3>1, <3>2 DEF Ordered, Fed
    <3>3. CASE content'[f] = tick + 1
      BY <1>0, <1>3, <3>1, <3>3 DEF Ordered, Fed
    <3> QED BY <1>5, <3>2, <3>3
  <2> QED BY <2>1
<1>12. FetchOK(u)'
  <2>1. u.from <= tick' /\ u.next <= tick'
    BY <1>0, <1>1, <1>10
  <2>2. \A f \in File : u.got[f] # -1 => copied'[f] <= u.got[f] /\ u.got[f] <= content'[f]
    <3>1. \A f \in File : u.got[f] \in Int /\ content[f] \in Nat /\ content[f] <= tick
      BY <1>0, FetchFields
    <3> QED BY <1>0, <1>3, <1>5, <1>10, <3>1 DEF FetchOK
  <2>3. ASSUME u.at \in {"scope", "feed"}
        PROVE  /\ u.from # NoToken
               /\ \A f \in File : InScope(f)' =>
                    Behind(f, u.from)' \/ (u.at = "feed" /\ <<f, parent'[f]>> \in u.metas)
    <3>1. u.from # NoToken
      BY <1>10, <2>3 DEF FetchOK
    <3>2. ASSUME NEW f \in File, InScope(f)', ~Behind(f, u.from)'
          PROVE  u.at = "feed" /\ <<f, parent'[f]>> \in u.metas
      <4>1. ~Behind(f, u.from) /\ f # t /\ InScope(f)
        BY <1>6, <1>10, <3>2
      <4>2. parent'[f] = parent[f]
        BY <1>2, <4>1 DEF Thing
      <4> QED BY <1>10, <2>3, <4>1, <4>2 DEF FetchOK
    <3> QED BY <3>1, <3>2
  <2>4. ASSUME u.at = "feed"
        PROVE  "root" \in u.scope /\ FolderRead(u)'
    <3>1. "root" \in u.scope /\ FolderRead(u) /\ Sub \in Thing
      BY <1>10, <2>4 DEF FetchOK, Thing
    <3>2. CASE t = Sub
      BY <1>0, <1>2, <1>10, <3>1, <3>2 DEF FolderRead
    <3>3. CASE t # Sub
      BY <1>2, <3>1, <3>3 DEF FolderRead
    <3> QED BY <3>1, <3>2, <3>3
  <2>5. ASSUME u.at = "sweep", NEW f \in File, InScope(f)'
        PROVE  Swept(u, f)'
    <3>1. CASE Behind(f, u.next)'
      BY <3>1 DEF Swept
    <3>2. CASE ~Behind(f, u.next)'
      <4>1. ~Behind(f, u.next) /\ f # t /\ InScope(f)
        BY <1>6, <1>10, <2>5, <3>2
      <4>2. parent'[f] = parent[f]
        BY <1>2, <4>1 DEF Thing
      <4> QED BY <1>10, <2>5, <4>1, <4>2 DEF FetchOK, Swept
    <3> QED BY <3>1, <3>2
  <2>6. ASSUME u.at \in {"build", "stored"}, NEW f \in File, InScope(f)'
        PROVE  Built(u, f)'
    <3>1. CASE Behind(f, u.next)'
      BY <3>1 DEF Built
    <3>2. CASE ~Behind(f, u.next)'
      <4>1. ~Behind(f, u.next) /\ f # t /\ InScope(f)
        BY <1>6, <1>10, <2>6, <3>2
      <4>2. content'[f] = content[f]
        BY <1>5, <4>1
      <4> QED BY <1>10, <2>6, <4>1, <4>2 DEF FetchOK, Built
    <3> QED BY <3>1, <3>2
  <2>7. u.at \in {"stored", "ingested"} =>
          u.todo = {} /\ \A f \in File : u.got[f] # -1 => copied'[f] = u.got[f]
    BY <1>3, <1>10 DEF FetchOK
  <2>8. ASSUME u.at = "ingested", NEW f \in File, InScope(f)', ~u.failed
        PROVE  Behind(f, u.next)'
    <3>1. CASE f = t \/ ~InScope(f)
      BY <1>6, <1>10, <2>8, <3>1
    <3>2. CASE f # t /\ InScope(f)
      BY <1>6, <1>10, <2>8, <3>2 DEF FetchOK
    <3> QED BY <3>1, <3>2
  <2>9. ASSUME u.at = "ingested", NEW f \in File, u.got[f] # -1
        PROVE  Fed(f)'
    BY <1>10, <1>11, <2>9 DEF FetchOK
  <2> QED BY <2>1, <2>2, <2>3, <2>4, <2>5, <2>6, <2>7, <2>8, <2>9 DEF FetchOK
<1>13. FetchOK(fetch)'
  BY <1>3, <1>9, <1>12 DEF FetchOK, Behind, InScope, Swept, FolderRead, Built, Fed
<1>14. (\A s \in unsaved' : Leaves(s)') /\ (token' # NoToken => Leaves(token)')
  <2>1. PICK r \in Int : r = token
    BY <1>0
  <2>2. r # NoToken => Leaves(r)'
    BY <1>0, <1>7, <2>1 DEF DriveInv
  <2>3. \A s \in unsaved : Leaves(s)'
    BY <1>0, <1>7 DEF DriveInv
  <2> QED BY <1>3, <2>1, <2>2, <2>3
<1>15. \A f \in File : f \notin unsynced' => Fed(f)'
  BY <1>0, <1>3, <1>11
<1> QED BY <1>8, <1>13, <1>11, <1>14, <1>15 DEF DriveInv

\* The invariant: at first, and from each step to the next.
LEMMA DriveInvStarts ==
  DriveInit => DriveInv
<1> SUFFICES ASSUME DriveInit PROVE DriveInv
  OBVIOUS
<1>1. DriveShapes
  <2>1. NoFetch \in FetchType
    BY DEF NoFetch, FetchType, FetchSteps, NoToken
  <2> QED BY <2>1 DEF DriveInit, DriveShapes, Place, NoToken
<1>2. FetchOK(NoFetch)
  BY <1>1, NoFetchOK
<1> QED BY <1>1, <1>2 DEF DriveInit, DriveInv, Ordered, Fed, NoToken

\* Every step of the Drive, of a sync and of its token keeps the invariant.
LEMMA DriveInvSteps ==
  DriveInv /\ [DriveNext]_driveVars => DriveInv'
<1> SUFFICES ASSUME DriveInv, [DriveNext]_driveVars PROVE DriveInv'
  OBVIOUS
<1>1. ASSUME NEW full \in BOOLEAN, StartFetch(full) PROVE DriveInv'
  BY <1>1, StartFetchKeeps
<1>2. CASE CaptureToken
  BY <1>2, CaptureTokenKeeps
<1>3. CASE ReadScope
  BY <1>3, ReadScopeKeeps
<1>4. CASE SweepDone
  BY <1>4, SweepDoneKeeps
<1>5. CASE TokenExpires \/ FetchRaises
  BY <1>5, FetchStops
<1>6. ASSUME NEW p \in {"root", "sub"}, ListFolder(p) PROVE DriveInv'
  BY <1>6, ListFolderKeeps
<1>7. ASSUME NEW omitted \in BOOLEAN, PageOfChanges(omitted) PROVE DriveInv'
  BY <1>7, PageOfChangesKeeps
<1>8. ASSUME NEW f \in File, Download(f) \/ DownloadFails(f) \/ DownloadSkipped(f)
      PROVE  DriveInv'
  BY <1>8, DownloadKeeps, DownloadSkippedKeeps
<1>9. ASSUME NEW marked \in BOOLEAN, FinishFetch(marked) PROVE DriveInv'
  BY <1>9, FinishFetchKeeps
<1>10. ASSUME NEW t \in unsaved, SaveToken(t) \/ SaveTokenFails(t) PROVE DriveInv'
  BY <1>10, SaveTokenKeeps
<1>11. ASSUME NEW f \in File, NEW p \in {"root", "sub", "away"}, EditFile(f) \/ MoveFile(f, p)
       PROVE  DriveInv'
  <2>1. p \in Place
    BY DEF Place
  <2> QED BY <1>11, <2>1, DriveChanges
<1>12. ASSUME NEW p \in {"root", "away"}, MoveFolder(p) PROVE DriveInv'
  BY <1>12, DriveChanges
<1>13. CASE StoreCopies \/ IngestCopies \/ IngestCut
  BY <1>13, StoreCopiesKeeps, IngestCopiesKeeps, IngestCutKeeps
<1>14. CASE UNCHANGED driveVars
  <2>1. UNCHANGED <<drive, indexed, saved, astray, fetch>> /\ fetch \in FetchType /\ FetchOK(fetch)
    BY <1>14 DEF DriveInv, DriveShapes, driveVars, drive, indexed, saved
  <2>2. fetch' \in FetchType /\ FetchOK(fetch')
    BY <2>1
  <2> QED BY <2>1, <2>2, FetchGoes
<1> QED BY <1>1, <1>2, <1>3, <1>4, <1>5, <1>6, <1>7, <1>8, <1>9, <1>10, <1>11, <1>12, <1>13,
       <1>14
        DEF DriveNext

\* The token of the Drive feed leaves nothing behind: for any files, changes, fetches and
\* failures, what it stands before is searchable as it is, or changes after it, or was passed
\* over in one of the ways that TokenLeavesNothing names.
THEOREM TokensLeaveNothing == DriveSpec => []TokenLeavesNothing
<1>1. DriveInv => TokenLeavesNothing
  BY DEF DriveInv, Leaves, Behind, TokenLeavesNothing
<1> QED BY <1>1, DriveInvStarts, DriveInvSteps, PTL DEF DriveSpec

-----------------------------------------------------------------------------
(***************************************************************************)
(* Listings and exports. A row that is there throughout is handed out, in  *)
(* hand, or at a place that the offset has not passed; a row that was      *)
(* handed out lies behind the offset. Places only grow when rows are added *)
(* and only shrink when rows are removed, which is why the one duplicates  *)
(* rows and the other skips them. The merged list is paged well when the   *)
(* first rows of both sources hold the first rows of their union.          *)
(***************************************************************************)

\* Every field of a listing in its set.
PagingType ==
  [at : {"idle", "reading", "done"}, kind : ListingKinds \cup {"none"}, offset : Nat,
   key : SUBSET (Shelved \X Nat), todo : SUBSET (Legs \X {"rows", "count"}),
   held : SUBSET (Shelved \X Nat), total : [Legs -> Nat], partial : BOOLEAN,
   seen : [Shelved -> Nat], steady : SUBSET Shelved, added : BOOLEAN, removed : BOOLEAN,
   overtaken : BOOLEAN, gaps : BOOLEAN]

\* Times are past, and each record was stored at its own.
DatesOK ==
  /\ made \in [Shelved -> Nat] /\ renewed \in [Shelved -> Nat] /\ shifts \in Nat
  /\ \A i \in Shelved : made[i] < Hour /\ renewed[i] < Hour
  /\ \A m, n \in Memo : made[m] = made[n] /\ made[m] > 0 => m = n

\* Where a row stands in its source.
RowPlace(leg, i) == Rank(OrderOf(leg), RowsOf(leg), i)

\* A row not handed out yet is on a page to come, or on the one being put together.
Coming(u, leg, i) ==
  IF <<leg, "rows">> \in u.todo THEN u.offset <= RowPlace(leg, i)
  ELSE \/ i \in Ids(u.held)
       \/ /\ u.offset + ListLimit <= RowPlace(leg, i)
          /\ <<leg, "count">> \notin u.todo => u.offset + ListLimit < u.total[leg]

\* A row that was handed out is on the pages behind.
Once(u, leg, i) ==
  /\ u.seen[i] <= 1 /\ (u.seen[i] = 1 => RowPlace(leg, i) < u.offset)
  /\ i \in Ids(u.held) => u.seen[i] = 0 /\ RowPlace(leg, i) < u.offset + ListLimit

\* One source paged.
LegReads(u, leg) ==
  /\ IsFiniteSet(u.held) /\ Cardinality(u.held) <= ListLimit
  /\ <<leg, "rows">> \in u.todo => u.held = {}
  /\ ~u.overtaken /\ <<leg, "rows">> \in u.todo /\ <<leg, "count">> \notin u.todo =>
       u.total[leg] = Cardinality(RowsOf(leg))
  /\ \A i \in u.steady \cap RowsOf(leg) :
       /\ ~u.removed /\ ~u.overtaken => u.seen[i] > 0 \/ Coming(u, leg, i)
       /\ ~u.added => Once(u, leg, i)

LegEnds(u, leg) ==
  \A i \in u.steady \cap RowsOf(leg) :
    /\ ~u.removed /\ ~u.overtaken => u.seen[i] > 0
    /\ ~u.added => u.seen[i] <= 1

\* The records of an export.
RecordsOK(u) ==
  \A i \in u.steady \cap RowsOf("agent") :
    /\ ~u.removed => u.seen[i] > 0 \/ (u.at = "reading" /\ u.offset <= RowPlace("agent", i))
    /\ ~u.added => u.seen[i] <= 1 /\ (u.seen[i] = 1 => u.at = "done" \/ RowPlace("agent", i) < u.offset)

\* Whether a document is still to come in an export.
AfterRow(key, d) ==
  \A row \in key : renewed[d] < row[2] \/ (renewed[d] = row[2] /\ d > row[1])

\* The documents of an export.
DocsOK(u) ==
  /\ \A row \in u.key : row[2] < Hour
  /\ \A d \in Leaf :
       /\ u.seen[d] <= 1
       /\ u.seen[d] = 1 => u.key # {} /\ (made[d] > 0 => ~AfterRow(u.key, d))
  /\ \A d \in u.steady \cap Leaf : u.seen[d] = 1 \/ (u.at = "reading" /\ AfterRow(u.key, d))

\* Nothing moved since the listing began; all rows have times of their own.
Calm(u) == ~u.added /\ ~u.removed /\ ~u.overtaken /\ ~u.gaps
Even ==
  /\ \A i, j \in Existing : i # j => renewed[i] # renewed[j]
  /\ \A m \in Memo : made[m] = renewed[m]

\* Where a row stands in both sources together.
Overall(i) == Rank(Newest, Dated(Existing), <<i, renewed[i]>>)

\* Both sources paged.
BothRead(u) ==
  /\ u.steady = Existing /\ u.held \subseteq Dated(Existing)
  /\ \A leg \in Legs :
       /\ <<leg, "rows">> \notin u.todo =>
            Dated(Slice(OrderOf(leg), RowsOf(leg), 0, u.offset + ListLimit)) \subseteq u.held
       /\ <<leg, "count">> \notin u.todo => u.total[leg] = Cardinality(RowsOf(leg))
  /\ \A i \in Existing : u.seen[i] = IF Overall(i) < u.offset THEN 1 ELSE 0

PageOK(u) ==
  /\ u \in PagingType /\ u.todo \subseteq ReadsOf(u.kind) /\ (u.todo # {} => u.at = "reading")
  /\ \A i \in u.steady : made[i] > 0
  /\ \A leg \in Legs : u.kind = leg =>
       (u.at = "reading" => LegReads(u, leg)) /\ (u.at = "done" => LegEnds(u, leg))
  /\ u.kind = "exportRecords" => RecordsOK(u)
  /\ u.kind = "exportDocs" => DocsOK(u)
  /\ u.kind = "all" /\ Calm(u) /\ Even =>
       (u.at = "reading" => BothRead(u)) /\ (u.at = "done" => \A i \in u.steady : u.seen[i] = 1)

ListingInv == DatesOK /\ PageOK(paging)

\* The fields of a listing.
LEMMA PagingFields ==
  ASSUME NEW u \in PagingType
  PROVE  /\ u.at \in {"idle", "reading", "done"} /\ u.kind \in ListingKinds \cup {"none"}
         /\ u.offset \in Nat /\ u.key \in SUBSET (Shelved \X Nat)
         /\ u.todo \in SUBSET (Legs \X {"rows", "count"}) /\ u.held \in SUBSET (Shelved \X Nat)
         /\ u.total \in [Legs -> Nat] /\ u.seen \in [Shelved -> Nat] /\ u.steady \in SUBSET Shelved
         /\ u.partial \in BOOLEAN /\ u.added \in BOOLEAN /\ u.removed \in BOOLEAN
         /\ u.overtaken \in BOOLEAN /\ u.gaps \in BOOLEAN
BY DEF PagingType

\* The idle listing.
LEMMA NoListingFields ==
  /\ NoListing \in PagingType /\ NoListing.at = "idle" /\ NoListing.kind = "none"
  /\ NoListing.offset = 0 /\ NoListing.key = {} /\ NoListing.todo = {} /\ NoListing.held = {}
  /\ NoListing.total = [leg \in Legs |-> 0] /\ NoListing.seen = [i \in Shelved |-> 0]
  /\ NoListing.steady = {} /\ NoListing.added = FALSE /\ NoListing.removed = FALSE
  /\ NoListing.overtaken = FALSE /\ NoListing.gaps = FALSE /\ NoListing.partial = FALSE
BY DEF NoListing, PagingType

\* The queries of each kind of listing.
LEMMA Reads ==
  /\ \A leg \in Legs : ReadsOf(leg) = {<<leg, "rows">>, <<leg, "count">>}
  /\ ReadsOf("all") = Legs \X {"rows", "count"}
  /\ ReadsOf("exportRecords") = {} /\ ReadsOf("exportDocs") = {} /\ ReadsOf("none") = {}
  /\ "all" \notin Legs /\ "exportRecords" \notin Legs /\ "exportDocs" \notin Legs
  /\ "none" \notin Legs
<1>1. /\ "all" \notin Legs /\ "exportRecords" \notin Legs /\ "exportDocs" \notin Legs
      /\ "none" \notin Legs
  BY DEF Legs
<1>2. ASSUME NEW leg \in Legs
      PROVE  ReadsOf(leg) = {<<leg, "rows">>, <<leg, "count">>}
  <2>1. leg # "all" /\ {leg} \cap Legs = {leg}
    BY <1>1
  <2>2. ReadsOf(leg) = UNION {Queries(l) : l \in {leg}}
    BY <2>1 DEF ReadsOf
  <2> QED BY <2>2 DEF Queries
<1>3. ReadsOf("all") = Legs \X {"rows", "count"}
  <2>1. ReadsOf("all") = UNION {Queries(l) : l \in Legs}
    BY DEF ReadsOf
  <2> QED BY <2>1 DEF Queries
<1>4. ReadsOf("exportRecords") = {}
  <2>1. ReadsOf("exportRecords") = UNION {Queries(l) : l \in {}}
    BY <1>1 DEF ReadsOf
  <2> QED BY <2>1
<1>5. ReadsOf("exportDocs") = {}
  <2>1. ReadsOf("exportDocs") = UNION {Queries(l) : l \in {}}
    BY <1>1 DEF ReadsOf
  <2> QED BY <2>1
<1>6. ReadsOf("none") = {}
  <2>1. ReadsOf("none") = UNION {Queries(l) : l \in {}}
    BY <1>1 DEF ReadsOf
  <2> QED BY <2>1
<1> QED BY <1>1, <1>2, <1>3, <1>4, <1>5, <1>6

\* What is stored is finite, and each source's rows are in its order.
LEMMA ListingOrders ==
  ASSUME DatesOK
  PROVE  /\ IsFiniteSet(Shelved) /\ Shelved \subseteq Nat /\ Memo \subseteq Shelved
         /\ Leaf \subseteq Shelved /\ Cardinality(Shelved) \in Nat /\ Hour \in Nat
         /\ RowsOf("agent") = {m \in Memo : made[m] > 0}
         /\ RowsOf("kb") = {d \in Leaf : made[d] > 0}
         /\ \A leg \in Legs :
              /\ RowsOf(leg) \subseteq Existing /\ IsFiniteSet(RowsOf(leg))
              /\ Cardinality(RowsOf(leg)) \in Nat /\ Orders(OrderOf(leg), RowsOf(leg))
         /\ \A S \in SUBSET RowsOf("kb") : IsFiniteSet(S) /\ Orders(ByRenewal, S)
         /\ \A S \in SUBSET RowsOf("agent") : IsFiniteSet(S) /\ Orders(ByCreation, S)
<1>1. /\ Memo \subseteq Shelved /\ Leaf \subseteq Shelved /\ IsFiniteSet(Shelved)
      /\ IsFiniteSet(Memo) /\ IsFiniteSet(Leaf)
  BY ListingAssumption, FS_Union DEF Shelved
<1>2. Cardinality(Shelved) \in Nat /\ Hour \in Nat
  BY <1>1, FS_CardinalityType DEF DatesOK, Hour
<1>3. Shelved \subseteq Nat
  BY <1>2, ListingAssumption DEF Shelved
<1>4. RowsOf("agent") = {m \in Memo : made[m] > 0}
  BY DEF RowsOf
<1>5. RowsOf("kb") = {d \in Leaf : made[d] > 0}
  BY DEF RowsOf
<1>6. ASSUME NEW S \in SUBSET RowsOf("kb")
      PROVE  IsFiniteSet(S) /\ Orders(ByRenewal, S)
  <2>1. S \subseteq Leaf /\ S \subseteq Shelved
    BY <1>1, <1>5
  <2>2. \A d, e \in S : /\ renewed[d] \in Nat /\ renewed[e] \in Nat /\ d \in Nat /\ e \in Nat
                        /\ <<d, e>> \in ByRenewal <=>
                             renewed[d] > renewed[e] \/ (renewed[d] = renewed[e] /\ d < e)
    BY <1>3, <2>1 DEF DatesOK, ByRenewal
  <2>3. Orders(ByRenewal, S)
    BY <2>2 DEF Orders
  <2> QED BY <1>1, <2>1, <2>3, FS_Subset
<1>7. ASSUME NEW S \in SUBSET RowsOf("agent")
      PROVE  IsFiniteSet(S) /\ Orders(ByCreation, S)
  <2>1. S \subseteq Memo /\ S \subseteq Shelved /\ \A m \in S : made[m] > 0
    BY <1>1, <1>4
  <2>2. \A m, n \in S : /\ made[m] \in Nat /\ made[n] \in Nat /\ (made[m] = made[n] => m = n)
                        /\ <<m, n>> \in ByCreation <=> made[m] > made[n]
    BY <2>1 DEF DatesOK, ByCreation
  <2>3. Orders(ByCreation, S)
    BY <2>2 DEF Orders
  <2> QED BY <1>1, <2>1, <2>3, FS_Subset
<1>8. /\ RowsOf("agent") \subseteq Existing /\ RowsOf("kb") \subseteq Existing
      /\ OrderOf("agent") = ByCreation /\ OrderOf("kb") = ByRenewal
  BY <1>1, <1>4, <1>5 DEF Existing, OrderOf
<1>9. /\ IsFiniteSet(RowsOf("agent")) /\ IsFiniteSet(RowsOf("kb"))
      /\ Cardinality(RowsOf("agent")) \in Nat /\ Cardinality(RowsOf("kb")) \in Nat
  BY <1>6, <1>7, FS_CardinalityType
<1>10. ASSUME NEW leg \in Legs
       PROVE  /\ RowsOf(leg) \subseteq Existing /\ IsFiniteSet(RowsOf(leg))
              /\ Cardinality(RowsOf(leg)) \in Nat /\ Orders(OrderOf(leg), RowsOf(leg))
  <2>1. CASE leg = "agent"
    BY <1>7, <1>8, <1>9, <2>1
  <2>2. CASE leg = "kb"
    BY <1>6, <1>8, <1>9, <2>2
  <2> QED BY <2>1, <2>2 DEF Legs
<1> QED BY <1>1, <1>2, <1>3, <1>4, <1>5, <1>6, <1>7, <1>10

\* Rows with their times are in the order of the merged list.
LEMMA NewestOrders ==
  ASSUME DatesOK, NEW P \in SUBSET (Shelved \X Nat)
  PROVE  Orders(Newest, P)
<1>1. \A p \in P : p[1] \in Nat /\ p[2] \in Nat /\ p = <<p[1], p[2]>>
  BY ListingOrders
<1>2. \A p, q \in P : <<p, q>> \in Newest <=> p[2] > q[2] \/ (p[2] = q[2] /\ p[1] > q[1])
  BY DEF Newest
<1>3. ASSUME NEW p \in P, NEW q \in P
      PROVE  p = q \/ <<p, q>> \in Newest \/ <<q, p>> \in Newest
  <2>1. p[2] > q[2] \/ q[2] > p[2] \/ (p[2] = q[2] /\ (p[1] > q[1] \/ q[1] > p[1] \/ p[1] = q[1]))
    BY <1>1
  <2>2. p[1] = q[1] /\ p[2] = q[2] => p = q
    BY <1>1, Zenon
  <2>3. /\ <<p, q>> \in Newest <=> p[2] > q[2] \/ (p[2] = q[2] /\ p[1] > q[1])
        /\ <<q, p>> \in Newest <=> q[2] > p[2] \/ (q[2] = p[2] /\ q[1] > p[1])
    BY <1>2
  <2> QED BY <2>1, <2>2, <2>3
<1>4. \A p \in P : <<p, p>> \notin Newest
  BY <1>1, <1>2
<1>5. \A p, q, r \in P : <<p, q>> \in Newest /\ <<q, r>> \in Newest => <<p, r>> \in Newest
  BY <1>1, <1>2
<1> QED BY <1>3, <1>4, <1>5 DEF Orders

\* The places of rows count.
LEMMA PlaceType ==
  ASSUME DatesOK, NEW leg \in Legs, NEW i
  PROVE  RowPlace(leg, i) \in Nat
BY ListingOrders, RankType DEF RowPlace

\* As many rows with their times as rows.
LEMMA DatedRows ==
  ASSUME DatesOK, NEW S \in SUBSET Shelved
  PROVE  /\ Dated(S) \in SUBSET (Shelved \X Nat) /\ IsFiniteSet(Dated(S)) /\ IsFiniteSet(S)
         /\ Cardinality(Dated(S)) = Cardinality(S)
         /\ \A i \in S : <<i, renewed[i]>> \in Dated(S)
         /\ \A row \in Dated(S) : row[1] \in S /\ row = <<row[1], renewed[row[1]]>>
<1> DEFINE f == [i \in S |-> <<i, renewed[i]>>]
<1>1. Dated(S) \in SUBSET (Shelved \X Nat) /\ \A i \in S : <<i, renewed[i]>> \in Dated(S)
  BY DEF Dated, DatesOK
<1>2. \A row \in Dated(S) : row[1] \in S /\ row = <<row[1], renewed[row[1]]>>
  BY DEF Dated
<1>3. IsFiniteSet(S)
  BY ListingOrders, FS_Subset
<1>4. f \in Bijection(S, Dated(S))
  <2>1. f \in [S -> Dated(S)] /\ \A i \in S : f[i] = <<i, renewed[i]>>
    BY <1>1
  <2> HIDE DEF f
  <2>2. \A i, j \in S : f[i] = f[j] => i = j
    BY <2>1
  <2>3. \A row \in Dated(S) : \E i \in S : f[i] = row
    BY <1>2, <2>1
  <2> QED BY <2>1, <2>2, <2>3 DEF Bijection, Injection, Surjection, IsInjective
<1> HIDE DEF f
<1>5. IsFiniteSet(Dated(S)) /\ Cardinality(Dated(S)) = Cardinality(S)
  BY <1>3, <1>4, FS_Bijection DEF ExistsBijection
<1> QED BY <1>1, <1>2, <1>3, <1>5

\* The places of both sources' rows together count.
LEMMA OverallType ==
  ASSUME DatesOK, NEW i
  PROVE  Overall(i) \in Nat
<1>1. Existing \in SUBSET Shelved
  BY DEF Existing
<1> QED BY <1>1, DatedRows, RankType DEF Overall

\* A listing that begins has everything ahead of it.
LEMMA Begins ==
  ASSUME DatesOK, NEW kind \in ListingKinds, NEW w \in PagingType,
         w.at = "reading", w.kind = kind, w.offset = 0, w.key = {}, w.todo = ReadsOf(kind),
         w.held = {}, w.seen = [i \in Shelved |-> 0], w.steady = Existing
  PROVE  PageOK(w)
<1>1. \A i \in Shelved : w.seen[i] = 0
  OBVIOUS
<1>2. \A i \in w.steady : made[i] > 0 /\ i \in Shelved
  BY DEF Existing
<1>3. ASSUME NEW leg \in Legs, kind = leg
      PROVE  LegReads(w, leg)
  <2>1. IsFiniteSet(w.held) /\ Cardinality(w.held) = 0 /\ Ids(w.held) = {}
    BY FS_EmptySet DEF Ids
  <2>2. <<leg, "rows">> \in w.todo /\ <<leg, "count">> \in w.todo
    BY <1>3, Reads
  <2>3. \A i \in w.steady : /\ Coming(w, leg, i)
                            /\ Once(w, leg, i)
    BY <1>1, <1>2, <2>1, <2>2, PlaceType DEF Coming, Once
  <2> QED BY <2>1, <2>2, <2>3, ListingAssumption DEF LegReads
<1>4. RecordsOK(w)
  BY <1>1, <1>2, PlaceType DEF RecordsOK, Legs
<1>5. DocsOK(w)
  <2>1. \A d \in Leaf : d \in Shelved /\ AfterRow(w.key, d)
    BY ListingOrders DEF AfterRow
  <2> QED BY <1>1, <2>1 DEF DocsOK
<1>6. ASSUME kind = "all" PROVE BothRead(w)
  <2>1. \A leg \in Legs : <<leg, "rows">> \in w.todo /\ <<leg, "count">> \in w.todo
    BY <1>6, Reads
  <2>2. \A i \in Existing : i \in Shelved /\ Overall(i) \in Nat
    BY OverallType DEF Existing
  <2> QED BY <1>1, <2>1, <2>2 DEF BothRead
<1> QED BY <1>2, <1>3, <1>4, <1>5, <1>6 DEF PageOK

\* The rows of one source are read.
LEMMA RowsRead ==
  ASSUME DatesOK, NEW u \in PagingType, PageOK(u), NEW w \in PagingType, NEW leg \in Legs,
         u.at = "reading", <<leg, "rows">> \in u.todo,
         w.at = "reading", w.kind = u.kind, w.offset = u.offset, w.key = u.key,
         w.todo = u.todo \ {<<leg, "rows">>}, w.total = u.total, w.seen = u.seen,
         w.steady = u.steady, w.added = u.added, w.removed = u.removed,
         w.overtaken = u.overtaken, w.gaps = u.gaps,
         w.held = u.held \cup
           Dated(Slice(OrderOf(leg), RowsOf(leg),
                       IF u.kind = "all" THEN 0 ELSE u.offset,
                       IF u.kind = "all" THEN u.offset + ListLimit ELSE ListLimit))
  PROVE  PageOK(w)
<1> DEFINE R == OrderOf(leg)
           S == RowsOf(leg)
<1>0. /\ u.offset \in Nat /\ ListLimit \in Nat \ {0} /\ IsFiniteSet(S) /\ Orders(R, S)
      /\ S \subseteq Existing /\ Existing \subseteq Shelved /\ Cardinality(S) \in Nat
      /\ u.seen \in [Shelved -> Nat] /\ u.total \in [Legs -> Nat]
  BY PagingFields, ListingAssumption, ListingOrders DEF Existing
<1>1. u.todo \subseteq ReadsOf(u.kind) /\ \A i \in u.steady : made[i] > 0
  BY DEF PageOK
<1>2. u.kind = leg \/ u.kind = "all"
  <2>1. CASE u.kind \in Legs
    BY <1>1, <2>1, Reads
  <2>2. CASE u.kind \notin Legs
    BY <1>1, <2>2, Reads, PagingFields DEF ListingKinds
  <2> QED BY <2>1, <2>2
<1>3. ASSUME NEW l \in Legs, u.kind = l
      PROVE  LegReads(w, l)
  <2> DEFINE page == Slice(R, S, u.offset, ListLimit)
  <2>1. l = leg /\ LegReads(u, leg)
    BY <1>2, <1>3, Reads DEF PageOK
  <2>2. u.held = {} /\ w.held = Dated(page)
    BY <1>3, <2>1, Reads DEF LegReads
  <2>3. page \subseteq S /\ Cardinality(page) <= ListLimit
    BY <1>0, SliceBound
  <2>4. IsFiniteSet(w.held) /\ Cardinality(w.held) <= ListLimit /\ Ids(w.held) = page
    <3>1. page \in SUBSET Shelved
      BY <1>0, <2>3
    <3>2. /\ IsFiniteSet(Dated(page)) /\ Cardinality(Dated(page)) = Cardinality(page)
          /\ \A i \in page : <<i, renewed[i]>> \in Dated(page)
          /\ \A row \in Dated(page) : row[1] \in page
      BY <3>1, DatedRows
    <3> HIDE DEF page
    <3>3. ASSUME NEW i \in page PROVE \E row \in Dated(page) : row[1] = i
      BY <3>2
    <3>4. Ids(Dated(page)) = page
      BY <3>2, <3>3 DEF Ids
    <3> QED BY <2>2, <2>3, <3>2, <3>4
  <2>5. <<leg, "rows">> \notin w.todo /\ (<<leg, "count">> \in w.todo <=> <<leg, "count">> \in u.todo)
    OBVIOUS
  <2>6. ASSUME NEW i \in w.steady \cap S
        PROVE  /\ ~w.removed /\ ~w.overtaken => w.seen[i] > 0 \/ Coming(w, leg, i)
               /\ ~w.added => Once(w, leg, i)
    <3> DEFINE g == RowPlace(leg, i)
    <3>1. g \in Nat /\ g = Rank(R, S, i) /\ g < Cardinality(S) /\ w.seen[i] \in Nat
      BY <1>0, RankBelow DEF RowPlace
    <3>2. i \in page <=> u.offset <= g /\ g < u.offset + ListLimit
      BY <1>0, <3>1 DEF Slice
    <3>3. /\ ~u.removed /\ ~u.overtaken => u.seen[i] > 0 \/ u.offset <= g
          /\ ~u.added => u.seen[i] <= 1 /\ (u.seen[i] = 1 => g < u.offset)
          /\ ~u.overtaken /\ <<leg, "count">> \notin u.todo => u.total[leg] = Cardinality(S)
      BY <2>1 DEF LegReads, Coming, Once
    <3> HIDE DEF page, g
    <3>4. ASSUME ~w.removed, ~w.overtaken, ~(w.seen[i] > 0)
          PROVE  Coming(w, leg, i)
      <4>1. u.offset <= g
        BY <3>3, <3>4
      <4>2. CASE g < u.offset + ListLimit
        BY <2>4, <2>5, <3>2, <4>1, <4>2 DEF Coming
      <4>3. CASE ~(g < u.offset + ListLimit)
        <5>1. w.offset + ListLimit <= g
          BY <1>0, <3>1, <4>3
        <5>2. <<leg, "count">> \notin w.todo => w.offset + ListLimit < w.total[leg]
          BY <1>0, <3>1, <3>3, <3>4, <5>1, <2>5
        <5> QED BY <2>5, <5>1, <5>2 DEF Coming, g
      <4> QED BY <4>2, <4>3
    <3>5. ASSUME ~w.added
          PROVE  Once(w, leg, i)
      <4>1. w.seen[i] <= 1 /\ (w.seen[i] = 1 => g < w.offset)
        BY <3>3, <3>5
      <4>2. i \in Ids(w.held) => w.seen[i] = 0 /\ g < w.offset + ListLimit
        BY <1>0, <2>4, <3>1, <3>2, <4>1
      <4> QED BY <4>1, <4>2 DEF Once, g
    <3> QED BY <3>4, <3>5
  <2> QED BY <2>1, <2>4, <2>5, <2>6 DEF LegReads
<1>4. ASSUME u.kind = "all", Calm(w), Even
      PROVE  BothRead(w)
  <2> DEFINE page == Slice(R, S, 0, u.offset + ListLimit)
  <2>1. BothRead(u)
    BY <1>4 DEF PageOK, Calm
  <2>2. page \subseteq Existing /\ Dated(page) \subseteq Dated(Existing)
    <3>1. page \subseteq S
      BY DEF Slice
    <3> QED BY <1>0, <3>1 DEF Dated
  <2>3. w.held = u.held \cup Dated(page)
    BY <1>4
  <2> QED BY <2>1, <2>2, <2>3 DEF BothRead
<1>5. u.kind \notin {"exportRecords", "exportDocs"}
  BY <1>2, Reads
<1> QED BY <1>1, <1>3, <1>4, <1>5 DEF PageOK

\* The rows of one source are counted.
LEMMA RowsCounted ==
  ASSUME DatesOK, NEW u \in PagingType, PageOK(u), NEW w \in PagingType, NEW leg \in Legs,
         u.at = "reading", <<leg, "count">> \in u.todo,
         w.at = "reading", w.kind = u.kind, w.offset = u.offset, w.key = u.key, w.held = u.held,
         w.todo = u.todo \ {<<leg, "count">>}, w.seen = u.seen, w.steady = u.steady,
         w.added = u.added, w.removed = u.removed, w.overtaken = u.overtaken, w.gaps = u.gaps,
         w.total = [u.total EXCEPT ![leg] = Cardinality(RowsOf(leg))]
  PROVE  PageOK(w)
<1> DEFINE R == OrderOf(leg)
           S == RowsOf(leg)
<1>0. /\ u.offset \in Nat /\ ListLimit \in Nat \ {0} /\ IsFiniteSet(S) /\ Orders(R, S)
      /\ Cardinality(S) \in Nat /\ u.seen \in [Shelved -> Nat] /\ u.total \in [Legs -> Nat]
  BY PagingFields, ListingAssumption, ListingOrders
<1>1. u.todo \subseteq ReadsOf(u.kind) /\ \A i \in u.steady : made[i] > 0
  BY DEF PageOK
<1>2. u.kind = leg \/ u.kind = "all"
  <2>1. CASE u.kind \in Legs
    BY <1>1, <2>1, Reads
  <2>2. CASE u.kind \notin Legs
    BY <1>1, <2>2, Reads, PagingFields DEF ListingKinds
  <2> QED BY <2>1, <2>2
<1>3. w.total[leg] = Cardinality(S) /\ \A l \in Legs : l # leg => w.total[l] = u.total[l]
  BY <1>0
<1>4. \A l \in Legs : /\ <<l, "rows">> \in w.todo <=> <<l, "rows">> \in u.todo
                      /\ l # leg => (<<l, "count">> \in w.todo <=> <<l, "count">> \in u.todo)
  OBVIOUS
<1>5. ASSUME NEW l \in Legs, u.kind = l
      PROVE  LegReads(w, l)
  <2>1. l = leg /\ LegReads(u, leg)
    BY <1>2, <1>5, Reads DEF PageOK
  <2>2. ASSUME NEW i \in w.steady \cap S
        PROVE  /\ ~w.removed /\ ~w.overtaken => w.seen[i] > 0 \/ Coming(w, leg, i)
               /\ ~w.added => Once(w, leg, i)
    <3>1. RowPlace(leg, i) \in Nat /\ RowPlace(leg, i) < Cardinality(S)
      BY <1>0, RankBelow DEF RowPlace
    <3>2. /\ ~u.removed /\ ~u.overtaken => u.seen[i] > 0 \/ Coming(u, leg, i)
          /\ ~u.added => Once(u, leg, i)
      BY <2>1 DEF LegReads
    <3>3. Coming(u, leg, i) => Coming(w, leg, i)
      BY <1>0, <1>3, <1>4, <3>1 DEF Coming
    <3> QED BY <3>2, <3>3 DEF Once
  <2> QED BY <1>3, <1>4, <2>1, <2>2 DEF LegReads
<1>6. ASSUME u.kind = "all", Calm(w), Even
      PROVE  BothRead(w)
  <2>1. BothRead(u)
    BY <1>6 DEF PageOK, Calm
  <2> QED BY <1>3, <1>4, <2>1 DEF BothRead
<1>7. u.kind \notin {"exportRecords", "exportDocs"}
  BY <1>2, Reads
<1> QED BY <1>1, <1>5, <1>6, <1>7 DEF PageOK

\* Rows that come before another in their source come before it in the merged list.
LEMMA PlaceOverall ==
  ASSUME DatesOK, Even, NEW leg \in Legs, NEW i \in RowsOf(leg)
  PROVE  RowPlace(leg, i) <= Overall(i)
<1> DEFINE A == {j \in RowsOf(leg) : <<j, i>> \in OrderOf(leg)}
           B == {row \in Dated(Existing) : <<row, <<i, renewed[i]>>>> \in Newest}
<1>1. /\ RowsOf(leg) \subseteq Existing /\ Existing \subseteq Shelved /\ A \subseteq RowsOf(leg)
      /\ A \in SUBSET Shelved /\ Existing \in SUBSET Shelved
  BY ListingOrders DEF Existing
<1>2. ASSUME NEW j \in A
      PROVE  <<j, renewed[j]>> \in B
  <2>1. /\ j \in Existing /\ i \in Existing /\ j \in Shelved /\ i \in Shelved
        /\ renewed[j] \in Nat /\ renewed[i] \in Nat
    BY <1>1 DEF DatesOK
  <2>2. j # i
    BY ListingOrders DEF Orders
  <2>3. renewed[j] > renewed[i]
    <3>1. CASE leg = "agent"
      <4>1. made[j] > made[i]
        BY <3>1 DEF OrderOf, ByCreation
      <4>2. j \in Memo /\ i \in Memo
        BY <3>1, ListingOrders
      <4> QED BY <4>1, <4>2 DEF Even
    <3>2. CASE leg # "agent"
      <4>1. <<j, i>> \in ByRenewal
        BY <3>2 DEF OrderOf
      <4>2. renewed[j] >= renewed[i]
        BY <2>1, <4>1 DEF ByRenewal
      <4>3. renewed[j] # renewed[i]
        BY <2>1, <2>2 DEF Even
      <4> QED BY <2>1, <4>2, <4>3
    <3> QED BY <3>1, <3>2
  <2>4. <<<<j, renewed[j]>>, <<i, renewed[i]>>>> \in Newest
    BY <2>1, <2>3 DEF Newest
  <2>5. <<j, renewed[j]>> \in Dated(Existing)
    BY <2>1 DEF Dated
  <2> QED BY <2>4, <2>5
<1>3. Dated(A) \in SUBSET B
  BY <1>2 DEF Dated
<1>4. Cardinality(Dated(A)) = Cardinality(A)
  BY <1>1, DatedRows
<1>5. IsFiniteSet(B)
  <2>1. B \in SUBSET Dated(Existing) /\ IsFiniteSet(Dated(Existing))
    BY <1>1, DatedRows
  <2> QED BY <2>1, FS_Subset
<1>6. Cardinality(Dated(A)) <= Cardinality(B)
  BY <1>3, <1>5, FS_Subset
<1> QED BY <1>4, <1>6 DEF RowPlace, Overall, Rank

\* Both counts together are no less than what is stored.
LEMMA CountsCover ==
  ASSUME DatesOK
  PROVE  Cardinality(Dated(Existing)) <= Cardinality(RowsOf("agent")) + Cardinality(RowsOf("kb"))
<1>1. Existing = RowsOf("agent") \cup RowsOf("kb") /\ Existing \in SUBSET Shelved
  <2>1. RowsOf("agent") = {m \in Memo : made[m] > 0} /\ RowsOf("kb") = {d \in Leaf : made[d] > 0}
    BY ListingOrders
  <2> QED BY <2>1 DEF Existing, Shelved
<1>2. /\ IsFiniteSet(RowsOf("agent")) /\ IsFiniteSet(RowsOf("kb"))
      /\ Cardinality(RowsOf("agent")) \in Nat /\ Cardinality(RowsOf("kb")) \in Nat
  BY ListingOrders DEF Legs
<1>3. Cardinality(RowsOf("agent") \cap RowsOf("kb")) \in Nat
  <2>1. RowsOf("agent") \cap RowsOf("kb") \in SUBSET RowsOf("kb")
    OBVIOUS
  <2> QED BY <1>2, <2>1, FS_Subset, FS_CardinalityType
<1>4. Cardinality(Existing) = Cardinality(RowsOf("agent")) + Cardinality(RowsOf("kb"))
                               - Cardinality(RowsOf("agent") \cap RowsOf("kb"))
  BY <1>1, <1>2, FS_Union
<1>5. Cardinality(Dated(Existing)) = Cardinality(Existing)
  BY <1>1, DatedRows
<1> QED BY <1>2, <1>3, <1>4, <1>5

\* The merged page has the rows of its places.
LEMMA PageOfBoth ==
  ASSUME DatesOK, Even, NEW u \in PagingType, BothRead(u), u.todo = {},
         NEW page, page = Slice(Newest, u.held, u.offset, ListLimit), NEW i \in Existing
  PROVE  i \in Ids(page) <=> u.offset <= Overall(i) /\ Overall(i) < u.offset + ListLimit
<1> DEFINE P == Dated(Existing)
           H == u.held
           n == u.offset + ListLimit
           x == <<i, renewed[i]>>
<1>0. u.offset \in Nat /\ ListLimit \in Nat \ {0} /\ n \in Nat \ {0}
  BY PagingFields, ListingAssumption
<1>1. /\ Existing \in SUBSET Shelved /\ P \in SUBSET (Shelved \X Nat) /\ IsFiniteSet(P)
      /\ H \in SUBSET P /\ x \in P
      /\ \A row \in P : row[1] \in Existing /\ row = <<row[1], renewed[row[1]]>>
  <2>1. Existing \in SUBSET Shelved
    BY DEF Existing
  <2> QED BY <2>1, DatedRows DEF BothRead
<1>2. Orders(Newest, P)
  BY <1>1, NewestOrders
<1>3. Overall(i) = Rank(Newest, P, x)
  BY DEF Overall
<1>4. ASSUME NEW row \in P, Rank(Newest, P, row) < n
      PROVE  row \in H
  <2>1. row[1] \in Existing /\ row = <<row[1], renewed[row[1]]>>
    BY <1>1
  <2>2. PICK leg \in Legs : row[1] \in RowsOf(leg)
    <3>1. row[1] \in RowsOf("agent") \/ row[1] \in RowsOf("kb")
      BY <2>1, ListingOrders DEF Existing, Shelved
    <3> QED BY <3>1 DEF Legs
  <2>3. RowPlace(leg, row[1]) <= Overall(row[1]) /\ RowPlace(leg, row[1]) \in Nat
    BY <2>2, PlaceOverall, PlaceType
  <2>4. Overall(row[1]) = Rank(Newest, P, row) /\ Overall(row[1]) \in Nat
    BY <2>1, OverallType DEF Overall
  <2>5. RowPlace(leg, row[1]) \in 0 .. (0 + n - 1)
    BY <1>0, <1>4, <2>3, <2>4
  <2>6. row[1] \in Slice(OrderOf(leg), RowsOf(leg), 0, n)
    BY <2>2, <2>5 DEF Slice, RowPlace
  <2>7. row \in Dated(Slice(OrderOf(leg), RowsOf(leg), 0, n))
    BY <2>1, <2>6 DEF Dated
  <2>8. <<leg, "rows">> \notin u.todo
    OBVIOUS
  <2> QED BY <2>7, <2>8 DEF BothRead
<1> HIDE DEF P, H, x
<1>5. ASSUME NEW row \in H
      PROVE  /\ Rank(Newest, H, row) \in Nat /\ Rank(Newest, P, row) \in Nat
             /\ Rank(Newest, P, row) < n => Rank(Newest, H, row) = Rank(Newest, P, row)
             /\ n <= Rank(Newest, P, row) => n <= Rank(Newest, H, row)
  BY <1>0, <1>1, <1>2, <1>4, TopKept
<1>6. \A row \in H : row \in page <=> /\ u.offset <= Rank(Newest, H, row)
                                      /\ Rank(Newest, H, row) < n
  BY <1>0, <1>5 DEF Slice, H
<1>7. page \subseteq H
  BY DEF Slice, H
<1>8. \A row \in P : row[1] = i => row = x
  BY <1>1 DEF x
<1>9. ASSUME i \in Ids(page)
      PROVE  u.offset <= Overall(i) /\ Overall(i) < n
  <2>1. PICK row \in page : row[1] = i
    BY <1>9 DEF Ids
  <2>2. row = x /\ x \in H /\ x \in page
    BY <1>1, <1>7, <1>8, <2>1
  <2> QED BY <1>0, <1>3, <1>5, <1>6, <2>2
<1>10. ASSUME u.offset <= Overall(i), Overall(i) < n
       PROVE  i \in Ids(page)
  <2>1. x \in H
    BY <1>1, <1>3, <1>4, <1>10
  <2>2. x \in page
    BY <1>0, <1>3, <1>5, <1>6, <1>10, <2>1
  <2>3. x[1] = i
    BY DEF x
  <2> QED BY <2>2, <2>3 DEF Ids
<1> QED BY <1>9, <1>10

\* A page is answered, and the next one begins or the listing ends.
LEMMA Answered ==
  ASSUME DatesOK, NEW u \in PagingType, PageOK(u), NEW w \in PagingType, NEW page,
         u.at = "reading", u.kind \in Legs \cup {"all"}, u.todo = {},
         page = IF u.kind # "all" THEN u.held
                ELSE Slice(Newest, u.held, u.offset, ListLimit),
         w.kind = u.kind, w.held = {}, w.steady = u.steady, w.added = u.added,
         w.removed = u.removed, w.overtaken = u.overtaken, w.gaps = u.gaps,
         w.seen = [i \in Shelved |-> u.seen[i] + (IF i \in Ids(page) THEN 1 ELSE 0)],
         \/ /\ u.offset + Cardinality(page) < u.total["agent"] + u.total["kb"]
            /\ w.at = "reading" /\ w.offset = u.offset + ListLimit /\ w.todo = ReadsOf(u.kind)
         \/ /\ ~(u.offset + Cardinality(page) < u.total["agent"] + u.total["kb"])
            /\ w.at = "done" /\ w.todo = {}
  PROVE  PageOK(w)
<1>0. /\ u.offset \in Nat /\ ListLimit \in Nat \ {0} /\ u.seen \in [Shelved -> Nat]
      /\ u.total["agent"] \in Nat /\ u.total["kb"] \in Nat /\ u.steady \subseteq Shelved
      /\ \A i \in Shelved : w.seen[i] = u.seen[i] + (IF i \in Ids(page) THEN 1 ELSE 0)
  BY PagingFields, ListingAssumption DEF Legs
<1>1. \A i \in w.steady : made[i] > 0
  BY DEF PageOK
<1>2. ASSUME NEW leg \in Legs, u.kind = leg
      PROVE  (w.at = "reading" => LegReads(w, leg)) /\ (w.at = "done" => LegEnds(w, leg))
  <2>1. LegReads(u, leg) /\ page = u.held /\ leg # "all"
    BY <1>2, Reads DEF PageOK
  <2>2. Cardinality(page) <= ListLimit /\ Cardinality(page) \in Nat
    BY <2>1, FS_CardinalityType DEF LegReads
  <2>3. u.total[leg] <= u.total["agent"] + u.total["kb"]
    BY <1>0 DEF Legs
  <2>4. ASSUME NEW i \in u.steady \cap RowsOf(leg)
        PROVE  /\ RowPlace(leg, i) \in Nat /\ u.seen[i] \in Nat /\ w.seen[i] \in Nat
               /\ w.seen[i] = u.seen[i] + (IF i \in Ids(u.held) THEN 1 ELSE 0)
               /\ ~u.removed /\ ~u.overtaken =>
                    \/ w.seen[i] > 0
                    \/ /\ u.offset + ListLimit <= RowPlace(leg, i)
                       /\ u.offset + ListLimit < u.total[leg]
               /\ ~u.added => w.seen[i] <= 1 /\ (w.seen[i] = 1 => RowPlace(leg, i) < u.offset + ListLimit)
    <3>1. RowPlace(leg, i) \in Nat /\ u.seen[i] \in Nat /\ i \in Shelved
          /\ w.seen[i] = u.seen[i] + (IF i \in Ids(u.held) THEN 1 ELSE 0)
      BY <1>0, <2>1, PlaceType
    <3>2. /\ ~u.removed /\ ~u.overtaken => u.seen[i] > 0 \/ Coming(u, leg, i)
          /\ ~u.added => Once(u, leg, i)
      BY <2>1 DEF LegReads
    <3>3. Coming(u, leg, i) => \/ i \in Ids(u.held)
                               \/ /\ u.offset + ListLimit <= RowPlace(leg, i)
                                  /\ u.offset + ListLimit < u.total[leg]
      BY DEF Coming
    <3>4. Once(u, leg, i) =>
            w.seen[i] <= 1 /\ (w.seen[i] = 1 => RowPlace(leg, i) < u.offset + ListLimit)
      BY <1>0, <3>1 DEF Once
    <3> QED BY <3>1, <3>2, <3>3, <3>4
  <2>5. ASSUME w.at = "reading"
        PROVE  LegReads(w, leg)
    <3>1. w.offset = u.offset + ListLimit /\ w.todo = {<<leg, "rows">>, <<leg, "count">>}
      BY <1>2, <2>5, Reads
    <3>2. IsFiniteSet(w.held) /\ Cardinality(w.held) <= ListLimit /\ Ids(w.held) = {}
      BY <1>0, FS_EmptySet DEF Ids
    <3>3. ASSUME NEW i \in w.steady \cap RowsOf(leg)
          PROVE  /\ ~w.removed /\ ~w.overtaken => w.seen[i] > 0 \/ Coming(w, leg, i)
                 /\ ~w.added => Once(w, leg, i)
      BY <2>4, <3>1, <3>2 DEF Coming, Once
    <3> QED BY <3>1, <3>2, <3>3 DEF LegReads
  <2>6. ASSUME w.at = "done"
        PROVE  LegEnds(w, leg)
    <3>1. ~(u.offset + Cardinality(page) < u.total["agent"] + u.total["kb"])
      BY <2>6
    <3>2. ~(u.offset + ListLimit < u.total[leg])
      <4>1. u.total[leg] \in Nat
        BY <1>0 DEF Legs
      <4> QED BY <1>0, <2>2, <2>3, <3>1, <4>1
    <3> QED BY <2>4, <3>2 DEF LegEnds
  <2> QED BY <2>5, <2>6
<1>3. ASSUME u.kind = "all", Calm(w), Even
      PROVE  /\ w.at = "reading" => BothRead(w)
             /\ w.at = "done" => \A i \in w.steady : w.seen[i] = 1
  <2>1. BothRead(u) /\ page = Slice(Newest, u.held, u.offset, ListLimit)
    BY <1>3 DEF PageOK, Calm
  <2>2. ASSUME NEW i \in Existing
        PROVE  /\ Overall(i) \in Nat
               /\ w.seen[i] = IF Overall(i) < u.offset + ListLimit THEN 1 ELSE 0
    <3>1. Overall(i) \in Nat /\ i \in Shelved
      BY OverallType DEF Existing
    <3>2. i \in Ids(page) <=> u.offset <= Overall(i) /\ Overall(i) < u.offset + ListLimit
      BY <1>3, <2>1, PageOfBoth
    <3>3. u.seen[i] = IF Overall(i) < u.offset THEN 1 ELSE 0
      BY <2>1 DEF BothRead
    <3> QED BY <1>0, <3>1, <3>2, <3>3
  <2>3. ASSUME w.at = "reading"
        PROVE  BothRead(w)
    <3>1. w.offset = u.offset + ListLimit /\ w.todo = Legs \X {"rows", "count"}
      BY <1>3, <2>3, Reads
    <3> QED BY <2>1, <2>2, <3>1 DEF BothRead
  <2>4. ASSUME w.at = "done", NEW i \in w.steady
        PROVE  w.seen[i] = 1
    <3>1. i \in Existing /\ u.held \in SUBSET Dated(Existing)
      BY <2>1 DEF BothRead
    <3>2. /\ Dated(Existing) \in SUBSET (Shelved \X Nat) /\ IsFiniteSet(Dated(Existing))
      <4>1. Existing \in SUBSET Shelved
        BY DEF Existing
      <4> QED BY <4>1, DatedRows
    <3>3. Cardinality(page) \in Nat /\ Cardinality(page) <= ListLimit
      <4>1. IsFiniteSet(u.held) /\ u.held \in SUBSET (Shelved \X Nat)
        BY <3>1, <3>2, FS_Subset
      <4>2. Orders(Newest, u.held)
        BY <4>1, NewestOrders
      <4>3. u.offset \in Nat /\ ListLimit \in Nat
        BY <1>0
      <4>4. /\ Cardinality(Slice(Newest, u.held, u.offset, ListLimit)) \in Nat
            /\ Cardinality(Slice(Newest, u.held, u.offset, ListLimit)) <= ListLimit
        BY <4>1, <4>2, <4>3, SliceBound
      <4> QED BY <2>1, <4>4
    <3>4. Overall(i) < Cardinality(Dated(Existing)) /\ Cardinality(Dated(Existing)) \in Nat
      <4>1. Orders(Newest, Dated(Existing)) /\ <<i, renewed[i]>> \in Dated(Existing)
        BY <3>1, <3>2, NewestOrders DEF Dated
      <4> QED BY <3>2, <4>1, RankBelow, FS_CardinalityType DEF Overall
    <3>5. u.total["agent"] = Cardinality(RowsOf("agent")) /\ u.total["kb"] = Cardinality(RowsOf("kb"))
      BY <2>1 DEF BothRead, Legs
    <3>6. Cardinality(Dated(Existing)) <= u.total["agent"] + u.total["kb"]
      BY <3>5, CountsCover
    <3>7. ~(u.offset + Cardinality(page) < u.total["agent"] + u.total["kb"])
      BY <2>4
    <3>8. Overall(i) < u.offset + ListLimit
      BY <1>0, <2>2, <3>1, <3>3, <3>4, <3>6, <3>7
    <3> QED BY <2>2, <3>1, <3>8
  <2> QED BY <2>3, <2>4
<1>4. w.todo \subseteq ReadsOf(w.kind)
  OBVIOUS
<1>5. u.kind \notin {"exportRecords", "exportDocs"}
  BY Reads
<1> QED BY <1>1, <1>2, <1>3, <1>4, <1>5 DEF PageOK

\* The records of an export go on by a page.
LEMMA RecordsExported ==
  ASSUME DatesOK, NEW u \in PagingType, PageOK(u), NEW w \in PagingType, NEW page,
         u.at = "reading", u.kind = "exportRecords",
         page = Slice(ByCreation, RowsOf("agent"), u.offset, ListLimit),
         w.at = IF Cardinality(page) < ListLimit THEN "done" ELSE u.at,
         w.kind = u.kind, w.offset = u.offset + ListLimit, w.todo = u.todo, w.steady = u.steady,
         w.added = u.added, w.removed = u.removed,
         w.seen = [i \in Shelved |-> u.seen[i] + (IF i \in page THEN 1 ELSE 0)]
  PROVE  PageOK(w)
<1> DEFINE S == RowsOf("agent")
<1>0. /\ u.offset \in Nat /\ ListLimit \in Nat \ {0} /\ u.seen \in [Shelved -> Nat]
      /\ IsFiniteSet(S) /\ Orders(ByCreation, S) /\ S \subseteq Shelved
      /\ OrderOf("agent") = ByCreation /\ u.steady \subseteq Shelved
  <2>1. S \in SUBSET S /\ S \subseteq Shelved
    BY ListingOrders
  <2> QED BY <2>1, PagingFields, ListingAssumption, ListingOrders DEF OrderOf
<1>1. RecordsOK(u) /\ \A i \in w.steady : made[i] > 0
  BY DEF PageOK
<1>2. ASSUME NEW i \in u.steady \cap S
      PROVE  /\ ~w.removed => w.seen[i] > 0 \/ (w.at = "reading" /\ w.offset <= RowPlace("agent", i))
             /\ ~w.added => /\ w.seen[i] <= 1
                            /\ w.seen[i] = 1 => w.at = "done" \/ RowPlace("agent", i) < w.offset
  <2> DEFINE g == RowPlace("agent", i)
  <2>1. g = Rank(ByCreation, S, i) /\ g \in Nat /\ u.seen[i] \in Nat
        /\ w.seen[i] = u.seen[i] + (IF i \in page THEN 1 ELSE 0)
    BY <1>0, RankType DEF RowPlace
  <2>2. i \in page <=> u.offset <= g /\ g < u.offset + ListLimit
    BY <1>0, <2>1 DEF Slice
  <2>3. /\ ~u.removed => u.seen[i] > 0 \/ u.offset <= g
        /\ ~u.added => u.seen[i] <= 1 /\ (u.seen[i] = 1 => g < u.offset)
    BY <1>1 DEF RecordsOK
  <2>4. u.offset + ListLimit <= g => w.at = "reading"
    <3>1. ASSUME u.offset + ListLimit <= g
          PROVE  Cardinality(page) = ListLimit
      <4>1. u.offset \in Nat /\ ListLimit \in Nat /\ u.offset + ListLimit <= Rank(ByCreation, S, i)
        BY <1>0, <2>1, <3>1
      <4>2. Cardinality(Slice(ByCreation, S, u.offset, ListLimit)) = ListLimit
        BY <1>0, <4>1, SliceFull
      <4> QED BY <4>2
    <3> QED BY <1>0, <3>1
  <2> HIDE DEF g
  <2>5. ASSUME ~w.removed, ~(w.seen[i] > 0)
        PROVE  w.at = "reading" /\ w.offset <= g
    BY <1>0, <2>1, <2>2, <2>3, <2>4, <2>5
  <2>6. ASSUME ~w.added
        PROVE  w.seen[i] <= 1 /\ (w.seen[i] = 1 => g < w.offset)
    BY <1>0, <2>1, <2>2, <2>3, <2>6
  <2> QED BY <2>5, <2>6 DEF g
<1>3. RecordsOK(w)
  BY <1>2 DEF RecordsOK
<1>4. u.kind \notin Legs /\ w.todo = {} /\ w.todo \subseteq ReadsOf(w.kind)
  BY Reads DEF PageOK
<1> QED BY <1>1, <1>3, <1>4 DEF PageOK

\* The documents of an export go on by a page.
LEMMA DocsExported ==
  ASSUME DatesOK, NEW u \in PagingType, PageOK(u), NEW w \in PagingType, NEW left, NEW page,
         NEW last,
         u.at = "reading", u.kind = "exportDocs",
         \A d : d \in left <=> d \in RowsOf("kb") /\ AfterRow(u.key, d),
         page = Slice(ByRenewal, left, 0, ListLimit),
         last = LastOf(page),
         w.at = IF Cardinality(page) < ListLimit THEN "done" ELSE u.at,
         w.key = IF page = {} THEN u.key ELSE Dated({last}),
         w.kind = u.kind, w.todo = u.todo, w.steady = u.steady,
         w.seen = [i \in Shelved |-> u.seen[i] + (IF i \in page THEN 1 ELSE 0)]
  PROVE  PageOK(w)
<1>0. /\ ListLimit \in Nat \ {0} /\ u.seen \in [Shelved -> Nat] /\ Hour \in Nat
      /\ Leaf \subseteq Shelved /\ Shelved \subseteq Nat /\ u.steady \subseteq Shelved
      /\ RowsOf("kb") = {d \in Leaf : made[d] > 0}
      /\ IsFiniteSet(left) /\ Orders(ByRenewal, left)
      /\ \A d \in Leaf : renewed[d] \in Nat /\ renewed[d] < Hour /\ made[d] \in Nat /\ d \in Nat
  <2>1. left \in SUBSET RowsOf("kb")
    OBVIOUS
  <2> QED BY <2>1, PagingFields, ListingAssumption, ListingOrders DEF DatesOK
<1>1. DocsOK(u) /\ \A i \in w.steady : made[i] > 0
  BY DEF PageOK
<1>2. \A row \in u.key : row[1] \in Nat /\ row[2] \in Nat
  BY <1>0, PagingFields
<1>3. /\ page \subseteq left /\ IsFiniteSet(page) /\ Cardinality(page) \in Nat /\ Orders(ByRenewal, page)
  <2>1. 0 \in Nat /\ ListLimit \in Nat
    BY <1>0
  <2>2. page \subseteq left /\ IsFiniteSet(page) /\ Cardinality(page) \in Nat
    BY <1>0, <2>1, SliceBound
  <2> QED BY <1>0, <2>2 DEF Orders
<1>4. \A d, e \in Leaf : <<d, e>> \in ByRenewal <=>
                           renewed[d] > renewed[e] \/ (renewed[d] = renewed[e] /\ d < e)
  BY <1>0 DEF ByRenewal
<1>5. page # {} => last \in page /\ last \in Leaf /\ \A x \in page : <<last, x>> \notin ByRenewal
  <2>1. page # {} => \E d \in page : \A x \in page : <<d, x>> \notin ByRenewal
    BY <1>3, LastThere
  <2> QED BY <1>0, <1>3, <2>1 DEF LastOf
<1>51. page # {} => w.key = {<<last, renewed[last]>>}
  <2>1. Dated({last}) = {<<last, renewed[last]>>}
    BY DEF Dated
  <2> QED BY <2>1
<1>6. \A d \in Leaf : page # {} =>
        (AfterRow(w.key, d) <=> renewed[d] < renewed[last] \/ (renewed[d] = renewed[last] /\ d > last))
  <2>1. ASSUME NEW d \in Leaf, page # {}
        PROVE  AfterRow(w.key, d)
                 <=> renewed[d] < renewed[last] \/ (renewed[d] = renewed[last] /\ d > last)
    <3>1. w.key = {<<last, renewed[last]>>}
      BY <1>51, <2>1
    <3>2. PICK row : row = <<last, renewed[last]>>
      OBVIOUS
    <3>3. row[1] = last /\ row[2] = renewed[last] /\ w.key = {row}
      BY <3>1, <3>2
    <3> QED BY <3>3 DEF AfterRow
  <2> QED BY <2>1
<1>7. \A d \in Leaf : /\ u.seen[d] \in Nat /\ d \in Shelved
                      /\ w.seen[d] = u.seen[d] + (IF d \in page THEN 1 ELSE 0)
  BY <1>0
<1>8. \A row \in w.key : row[2] < Hour
  <2>1. CASE page = {}
    BY <1>1, <2>1 DEF DocsOK
  <2>2. CASE page # {}
    <3>1. PICK row : row = <<last, renewed[last]>>
      OBVIOUS
    <3>2. row[2] = renewed[last] /\ w.key = {row} /\ last \in Leaf
      BY <1>5, <1>51, <2>2, <3>1
    <3> QED BY <1>0, <3>2
  <2> QED BY <2>1, <2>2
<1>9. ASSUME NEW d \in Leaf
      PROVE  w.seen[d] <= 1 /\ (w.seen[d] = 1 => w.key # {} /\ (made[d] > 0 => ~AfterRow(w.key, d)))
  <2>1. /\ u.seen[d] <= 1
        /\ u.seen[d] = 1 => u.key # {} /\ (made[d] > 0 => ~AfterRow(u.key, d))
    BY <1>1 DEF DocsOK
  <2>2. d \in page => made[d] > 0 /\ AfterRow(u.key, d)
    BY <1>0, <1>3
  <2>3. CASE page = {}
    BY <1>7, <2>1, <2>3
  <2>4. CASE page # {}
    <3>1. w.key # {}
      BY <2>4 DEF Dated
    <3>2. ASSUME d \in page PROVE ~AfterRow(w.key, d)
      <4>1. <<last, d>> \notin ByRenewal /\ last \in Leaf
        BY <1>5, <2>4, <3>2
      <4>2. ~(renewed[last] > renewed[d] \/ (renewed[last] = renewed[d] /\ last < d))
        BY <1>4, <4>1
      <4> QED BY <1>0, <1>6, <2>4, <4>1, <4>2
    <3>3. ASSUME made[d] > 0, ~AfterRow(u.key, d) PROVE ~AfterRow(w.key, d)
      <4>1. PICK row \in u.key : ~(renewed[d] < row[2] \/ (renewed[d] = row[2] /\ d > row[1]))
        BY <3>3 DEF AfterRow
      <4>2. last \in Leaf /\ AfterRow(u.key, last)
        BY <1>3, <1>5, <2>4
      <4>3. renewed[last] < row[2] \/ (renewed[last] = row[2] /\ last > row[1])
        BY <4>2 DEF AfterRow
      <4>4. row[1] \in Nat /\ row[2] \in Nat
        BY <1>2
      <4>5. /\ renewed[d] \in Nat /\ renewed[last] \in Nat /\ d \in Nat /\ last \in Nat
        BY <1>0, <4>2
      <4>6. ~(renewed[d] < renewed[last] \/ (renewed[d] = renewed[last] /\ d > last))
        BY <4>1, <4>3, <4>4, <4>5
      <4> QED BY <1>6, <2>4, <4>6
    <3>4. made[d] > 0 => ~AfterRow(w.key, d) \/ (d \notin page /\ u.seen[d] # 1)
      BY <2>1, <3>2, <3>3
    <3>5. w.seen[d] = u.seen[d] + (IF d \in page THEN 1 ELSE 0) /\ u.seen[d] \in Nat
      BY <1>7
    <3>6. d \in page => u.seen[d] # 1
      BY <2>1, <2>2
    <3>7. w.seen[d] <= 1 /\ (w.seen[d] = 1 => d \in page \/ u.seen[d] = 1)
      BY <2>1, <3>5, <3>6
    <3> QED BY <3>1, <3>4, <3>7
  <2> QED BY <2>3, <2>4
<1>10. ASSUME NEW d \in w.steady \cap Leaf
       PROVE  w.seen[d] = 1 \/ (w.at = "reading" /\ AfterRow(w.key, d))
  <2>1. u.seen[d] = 1 \/ AfterRow(u.key, d)
    BY <1>1 DEF DocsOK
  <2>2. CASE u.seen[d] = 1
    <3>1. d \notin page
      <4>1. made[d] > 0 => ~AfterRow(u.key, d)
        BY <1>1, <2>2 DEF DocsOK
      <4> QED BY <1>1, <1>3, <4>1
    <3> QED BY <1>7, <2>2, <3>1
  <2>3. CASE u.seen[d] # 1
    <3>0. d \in left /\ u.seen[d] = 0 /\ u.seen[d] <= 1
      <4>1. u.seen[d] <= 1
        BY <1>1 DEF DocsOK
      <4>2. d \in Leaf /\ made[d] > 0 /\ AfterRow(u.key, d)
        BY <1>1, <2>1, <2>3
      <4>3. u.seen[d] \in Nat
        BY <1>7
      <4> QED BY <1>0, <2>3, <4>1, <4>2, <4>3
    <3>1. CASE d \in page
      BY <1>7, <3>0, <3>1
    <3>2. CASE d \notin page
      <4>1. Rank(ByRenewal, left, d) \in Nat
        BY <1>0, RankType
      <4>2. ~(Rank(ByRenewal, left, d) \in 0 .. (0 + ListLimit - 1))
        BY <3>0, <3>2 DEF Slice
      <4>3. 0 + ListLimit <= Rank(ByRenewal, left, d)
        BY <1>0, <4>1, <4>2
      <4>4. 0 \in Nat /\ ListLimit \in Nat
        BY <1>0
      <4>5. Cardinality(Slice(ByRenewal, left, 0, ListLimit)) = ListLimit
        BY <1>0, <3>0, <4>3, <4>4, SliceFull
      <4>6. w.at = "reading" /\ page # {}
        <5>1. Cardinality(page) = ListLimit
          BY <4>5
        <5>2. ListLimit # 0 /\ ~(ListLimit < ListLimit)
          BY <1>0
        <5>3. page # {}
          BY <5>1, <5>2, FS_EmptySet
        <5> QED BY <5>1, <5>2, <5>3
      <4>7. last \in left /\ Rank(ByRenewal, left, last) \in 0 .. (0 + ListLimit - 1)
        <5>1. last \in page
          BY <1>5, <4>6
        <5> QED BY <5>1 DEF Slice
      <4>8. Rank(ByRenewal, left, last) < Rank(ByRenewal, left, d)
        BY <1>0, <4>1, <4>3, <4>7
      <4>9. <<last, d>> \in ByRenewal
        BY <1>0, <3>0, <4>7, <4>8, RankTells
      <4>10. renewed[last] > renewed[d] \/ (renewed[last] = renewed[d] /\ last < d)
        BY <1>4, <1>5, <4>6, <4>9
      <4>11. last \in Leaf
        BY <1>5, <4>6
      <4>12. AfterRow(w.key, d)
        BY <1>0, <1>6, <4>6, <4>10, <4>11
      <4> QED BY <4>6, <4>12
    <3> QED BY <3>1, <3>2
  <2> QED BY <2>2, <2>3
<1>11. DocsOK(w)
  BY <1>8, <1>9, <1>10 DEF DocsOK
<1>12. u.kind \notin Legs /\ w.todo = {} /\ w.todo \subseteq ReadsOf(w.kind)
  BY Reads DEF PageOK
<1> QED BY <1>1, <1>11, <1>12 DEF PageOK

\* A listing stays sound while rows stay as they are and time goes on.
LEMMA DatesSame ==
  ASSUME DatesOK, UNCHANGED <<made, renewed>>, shifts' \in {shifts, shifts + 1}, NEW u, PageOK(u)
  PROVE  DatesOK' /\ PageOK(u)'
<1>1. /\ Existing' = Existing /\ ByCreation' = ByCreation /\ ByRenewal' = ByRenewal
      /\ (Even)' = Even /\ Hour \in Nat /\ Hour' \in Nat /\ Hour <= Hour'
      /\ \A S : Dated(S)' = Dated(S)
  <2>1. Hour \in Nat /\ shifts \in Nat /\ Cardinality(Shelved) \in Nat
    BY ListingOrders DEF DatesOK
  <2>2. Hour' \in Nat /\ Hour <= Hour'
    BY <2>1 DEF Hour
  <2>3. Existing' = Existing /\ ByCreation' = ByCreation /\ ByRenewal' = ByRenewal
    BY DEF Existing, ByCreation, ByRenewal
  <2>4. (Even)' = Even
    BY <2>3 DEF Even
  <2> QED BY <2>1, <2>2, <2>3, <2>4 DEF Dated
<1>2. \A leg : RowsOf(leg)' = RowsOf(leg) /\ OrderOf(leg)' = OrderOf(leg)
  BY <1>1 DEF RowsOf, OrderOf
<1>3. \A leg, i : RowPlace(leg, i)' = RowPlace(leg, i)
  BY <1>2 DEF RowPlace
<1>4. \A i : Overall(i)' = Overall(i)
  BY <1>1 DEF Overall
<1>5. DatesOK'
  BY <1>1 DEF DatesOK
<1>6. \A key, d : AfterRow(key, d)' <=> AfterRow(key, d)
  BY DEF AfterRow
<1>7. ASSUME NEW leg \in Legs, LegReads(u, leg) PROVE LegReads(u, leg)'
  BY <1>2, <1>3, <1>7 DEF LegReads, Coming, Once
<1>8. ASSUME NEW leg \in Legs, LegEnds(u, leg) PROVE LegEnds(u, leg)'
  BY <1>2, <1>8 DEF LegEnds
<1>9. RecordsOK(u) => RecordsOK(u)'
  BY <1>2, <1>3 DEF RecordsOK
<1>10. u \in PagingType
  BY DEF PageOK
<1>11. DocsOK(u) => DocsOK(u)'
  <2>1. SUFFICES ASSUME DocsOK(u) PROVE DocsOK(u)'
    OBVIOUS
  <2>2. \A row \in u.key : row[2] \in Nat
    BY <1>10, PagingFields
  <2>3. \A row \in u.key : row[2] < Hour'
    BY <1>1, <2>1, <2>2 DEF DocsOK
  <2> QED BY <1>6, <2>1, <2>3 DEF DocsOK
<1>12. BothRead(u) => BothRead(u)'
  BY <1>1, <1>2, <1>4 DEF BothRead
<1> QED BY <1>1, <1>5, <1>7, <1>8, <1>9, <1>11, <1>12 DEF PageOK

\* What a row added, changed or removed does to the listing under way.
Added(u, w, i) ==
  /\ made[i] = 0
  /\ made' = [made EXCEPT ![i] = Hour] /\ renewed' = [renewed EXCEPT ![i] = Hour]
  /\ w.added = TRUE /\ w.removed = u.removed /\ w.steady = u.steady
Changed(u, w, i) ==
  /\ made[i] > 0
  /\ made' = made /\ renewed' = [renewed EXCEPT ![i] = Hour] /\ w.removed = u.removed
  /\ IF i \in Leaf THEN w.added = TRUE /\ w.steady = u.steady \ {i}
     ELSE w.added = u.added /\ w.steady = u.steady
Dropped(u, w, i) ==
  /\ made[i] > 0
  /\ made' = [made EXCEPT ![i] = 0] /\ renewed' = [renewed EXCEPT ![i] = 0]
  /\ w.removed = TRUE /\ w.added = u.added /\ w.steady = u.steady \ {i}
Moved(u, w, i) == Added(u, w, i) \/ Changed(u, w, i) \/ Dropped(u, w, i)

\* Times stay past and records apart.
LEMMA DatesMove ==
  ASSUME DatesOK, NEW u, NEW w, NEW i \in Shelved, Moved(u, w, i), shifts' = shifts + 1
  PROVE  /\ DatesOK' /\ Hour' = Hour + 1
         /\ \A j \in Shelved : j # i => made'[j] = made[j] /\ renewed'[j] = renewed[j]
<1>1. /\ Hour \in Nat /\ shifts \in Nat /\ Cardinality(Shelved) \in Nat
      /\ made \in [Shelved -> Nat] /\ renewed \in [Shelved -> Nat] /\ Memo \subseteq Shelved
      /\ \A j \in Shelved : made[j] < Hour /\ renewed[j] < Hour
      /\ \A m, n \in Memo : made[m] = made[n] /\ made[m] > 0 => m = n
  BY ListingOrders DEF DatesOK
<1>2. Hour' = Hour + 1
  BY <1>1 DEF Hour
<1>3. /\ made' \in [Shelved -> Nat] /\ renewed' \in [Shelved -> Nat]
      /\ \A j \in Shelved : j # i => made'[j] = made[j] /\ renewed'[j] = renewed[j]
      /\ made'[i] \in {0, made[i], Hour} /\ renewed'[i] \in {0, Hour}
  BY <1>1 DEF Moved, Added, Changed, Dropped
<1>4. \A j \in Shelved : made'[j] < Hour' /\ renewed'[j] < Hour'
  BY <1>1, <1>2, <1>3
<1>5. \A m, n \in Memo : made'[m] = made'[n] /\ made'[m] > 0 => m = n
  BY <1>1, <1>3
<1> QED BY <1>1, <1>2, <1>3, <1>4, <1>5 DEF DatesOK

\* Rows that stay only fall back unless one is removed, and only come forward unless
\* one is added.
LEMMA PlacesMove ==
  ASSUME DatesOK, NEW u \in PagingType, PageOK(u), NEW w, NEW i \in Shelved, Moved(u, w, i),
         shifts' = shifts + 1, NEW leg \in Legs, NEW j \in w.steady, j \in RowsOf(leg)'
  PROVE  /\ j \in RowsOf(leg) /\ RowPlace(leg, j) \in Nat /\ RowPlace(leg, j)' \in Nat
         /\ ~w.added => RowPlace(leg, j)' <= RowPlace(leg, j)
         /\ ~w.removed => RowPlace(leg, j) <= RowPlace(leg, j)'
<1> DEFINE R == OrderOf(leg)
           S == RowsOf(leg)
           Q == OrderOf(leg)'
           T == RowsOf(leg)'
<1>1. /\ DatesOK' /\ \A k \in Shelved : k # i => made'[k] = made[k] /\ renewed'[k] = renewed[k]
      /\ \A k \in Shelved : made[k] \in Nat /\ renewed[k] \in Nat /\ made[k] < Hour /\ renewed[k] < Hour
      /\ Hour \in Nat
  BY DatesMove, ListingOrders DEF DatesOK
<1>2. /\ IsFiniteSet(S) /\ S \subseteq Shelved /\ Memo \subseteq Shelved /\ Leaf \subseteq Shelved
      /\ Memo \cap Leaf = {}
  BY ListingOrders, ListingAssumption DEF Existing
<1>3. IsFiniteSet(T)
  <2>1. T \in SUBSET Shelved
    BY <1>2 DEF RowsOf
  <2> QED BY <2>1, FS_Subset, ListingOrders
<1>4. j \in Shelved /\ made[j] > 0
  BY PagingFields DEF PageOK, Moved, Added, Changed, Dropped
<1>5. j \in S
  BY <1>4 DEF RowsOf
<1>6. /\ \A k : k \in S <=> k \in (IF leg = "agent" THEN Memo ELSE Leaf) /\ made[k] > 0
      /\ \A k : k \in T <=> k \in (IF leg = "agent" THEN Memo ELSE Leaf) /\ made'[k] > 0
  BY DEF RowsOf
<1>7. \A k \in Shelved :
        /\ leg = "agent" => /\ <<k, j>> \in R <=> made[k] > made[j]
                            /\ <<k, j>> \in Q <=> made'[k] > made'[j]
        /\ leg # "agent" =>
             /\ <<k, j>> \in R <=> renewed[k] > renewed[j] \/ (renewed[k] = renewed[j] /\ k < j)
             /\ <<k, j>> \in Q <=> renewed'[k] > renewed'[j] \/ (renewed'[k] = renewed'[j] /\ k < j)
  BY <1>4 DEF OrderOf, ByCreation, ByRenewal
<1>8. RowPlace(leg, j) \in Nat /\ RowPlace(leg, j)' \in Nat
  <2>1. Rank(R, S, j) \in Nat /\ Rank(Q, T, j) \in Nat
    BY <1>2, <1>3, RankType
  <2> QED BY <2>1 DEF RowPlace
<1>9. ASSUME \A k \in S : <<k, j>> \in R => k \in T /\ <<k, j>> \in Q
      PROVE  RowPlace(leg, j) <= RowPlace(leg, j)'
  <2>1. Rank(R, S, j) <= Rank(Q, T, j)
    BY <1>3, <1>9, RankGrows
  <2> QED BY <2>1 DEF RowPlace
<1>10. ASSUME \A k \in T : <<k, j>> \in Q => k \in S /\ <<k, j>> \in R
       PROVE  RowPlace(leg, j)' <= RowPlace(leg, j)
  <2>1. Rank(Q, T, j) <= Rank(R, S, j)
    BY <1>2, <1>10, RankGrows
  <2> QED BY <2>1 DEF RowPlace
<1> HIDE DEF R, S, Q, T
<1>11. CASE Added(u, w, i)
  <2>1. j # i /\ w.added /\ made[i] = 0
    BY <1>4, <1>11 DEF Added
  <2>2. \A k \in S : k # i /\ k \in Shelved
    BY <1>2, <1>6, <2>1
  <2>3. \A k \in S : <<k, j>> \in R => k \in T /\ <<k, j>> \in Q
    BY <1>1, <1>4, <1>6, <1>7, <2>1, <2>2
  <2> QED BY <1>5, <1>8, <1>9, <2>1, <2>3 DEF S
<1>12. CASE Dropped(u, w, i)
  <2>1. j # i /\ w.removed /\ made'[i] = 0
    BY <1>12 DEF Dropped, DatesOK
  <2>2. \A k \in T : k # i /\ k \in Shelved
    BY <1>2, <1>6, <2>1
  <2>3. \A k \in T : <<k, j>> \in Q => k \in S /\ <<k, j>> \in R
    BY <1>1, <1>4, <1>6, <1>7, <2>1, <2>2
  <2> QED BY <1>5, <1>8, <1>10, <2>1, <2>3 DEF S
<1>13. CASE Changed(u, w, i)
  <2>1. made' = made /\ renewed'[i] = Hour /\ S = T
    BY <1>13 DEF Changed, DatesOK, S, T, RowsOf
  <2>2. CASE leg = "agent"
    <3>1. \A k \in S : <<k, j>> \in R <=> <<k, j>> \in Q
      BY <1>2, <1>7, <2>1, <2>2
    <3> QED BY <1>5, <1>8, <1>9, <1>10, <2>1, <3>1 DEF S
  <2>3. CASE leg # "agent" /\ i \notin Leaf
    <3>1. \A k \in S : k # i /\ k \in Shelved
      BY <1>2, <1>6, <2>3
    <3>2. j # i
      BY <1>5, <3>1 DEF S
    <3>3. \A k \in S : <<k, j>> \in R <=> <<k, j>> \in Q
      BY <1>1, <1>4, <1>7, <2>3, <3>1, <3>2
    <3> QED BY <1>5, <1>8, <1>9, <1>10, <2>1, <3>3 DEF S
  <2>4. CASE leg # "agent" /\ i \in Leaf
    <3>1. j # i /\ w.added
      BY <1>13, <2>4 DEF Changed
    <3>2. \A k \in S : k \in Shelved
      BY <1>2
    <3>3. \A k \in S : <<k, j>> \in R => <<k, j>> \in Q
      BY <1>1, <1>4, <1>7, <2>1, <2>4, <3>1, <3>2
    <3> QED BY <1>5, <1>8, <1>9, <2>1, <3>1, <3>3 DEF S
  <2> QED BY <2>2, <2>3, <2>4
<1> QED BY <1>11, <1>12, <1>13 DEF Moved

\* The listing stays sound while a row moves.
LEMMA Shifted ==
  ASSUME DatesOK, NEW u \in PagingType, PageOK(u), NEW w \in PagingType, NEW i \in Shelved,
         Moved(u, w, i), shifts' = shifts + 1,
         w.at = u.at, w.kind = u.kind, w.offset = u.offset, w.key = u.key, w.todo = u.todo,
         w.held = u.held, w.total = u.total, w.seen = u.seen, w.gaps = u.gaps,
         w.overtaken = (u.overtaken \/ (u.todo # {} /\ u.todo # ReadsOf(u.kind)))
  PROVE  DatesOK' /\ PageOK(w)'
<1>1. /\ DatesOK' /\ Hour' = Hour + 1 /\ Hour \in Nat
      /\ \A j \in Shelved : j # i => made'[j] = made[j] /\ renewed'[j] = renewed[j]
  BY DatesMove, ListingOrders
<1>2. /\ u.steady \subseteq Shelved /\ u.seen \in [Shelved -> Nat] /\ u.offset \in Nat
      /\ ListLimit \in Nat \ {0} /\ u.todo \subseteq ReadsOf(u.kind)
      /\ \A row \in u.key : row[2] \in Nat
      /\ u.added \in BOOLEAN /\ w.added \in BOOLEAN /\ u.removed \in BOOLEAN /\ w.removed \in BOOLEAN
      /\ u.overtaken \in BOOLEAN /\ w.overtaken \in BOOLEAN
  BY PagingFields, ListingAssumption DEF PageOK
<1>3. /\ w.steady \subseteq u.steady /\ (u.added => w.added) /\ (u.removed => w.removed)
      /\ (u.overtaken => w.overtaken)
  BY <1>2 DEF Moved, Added, Changed, Dropped
<1>4. ASSUME NEW j \in w.steady PROVE made'[j] > 0
  <2>1. made[j] > 0 /\ j \in Shelved
    BY <1>2, <1>3 DEF PageOK
  <2>2. CASE j # i
    BY <1>1, <2>1, <2>2
  <2>3. CASE j = i
    BY <2>1, <2>3 DEF Moved, Added, Changed, Dropped
  <2> QED BY <2>2, <2>3
<1>5. ASSUME NEW leg \in Legs, NEW j \in w.steady, j \in RowsOf(leg)'
      PROVE  /\ j \in RowsOf(leg) /\ RowPlace(leg, j) \in Nat /\ RowPlace(leg, j)' \in Nat
             /\ ~w.added => RowPlace(leg, j)' <= RowPlace(leg, j)
             /\ ~w.removed => RowPlace(leg, j) <= RowPlace(leg, j)'
  BY <1>5, PlacesMove
<1>6. ASSUME NEW leg \in Legs, u.kind = leg, LegReads(u, leg)
      PROVE  LegReads(w, leg)'
  <2>1. ~(~w.overtaken /\ <<leg, "rows">> \in w.todo /\ <<leg, "count">> \notin w.todo)
    BY <1>6, Reads
  <2>2. ASSUME NEW j \in w.steady, j \in RowsOf(leg)'
        PROVE  /\ ~w.removed /\ ~w.overtaken => w.seen[j] > 0 \/ Coming(w, leg, j)'
               /\ ~w.added => Once(w, leg, j)'
    <3>1. /\ j \in u.steady \cap RowsOf(leg) /\ RowPlace(leg, j) \in Nat /\ RowPlace(leg, j)' \in Nat
          /\ ~w.added => RowPlace(leg, j)' <= RowPlace(leg, j)
          /\ ~w.removed => RowPlace(leg, j) <= RowPlace(leg, j)'
          /\ u.seen[j] \in Nat
      BY <1>2, <1>3, <1>5, <2>2
    <3>2. /\ ~u.removed /\ ~u.overtaken => u.seen[j] > 0 \/ Coming(u, leg, j)
          /\ ~u.added => Once(u, leg, j)
      BY <1>6, <3>1 DEF LegReads
    <3>3. ASSUME ~w.removed, Coming(u, leg, j)
          PROVE  Coming(w, leg, j)'
      BY <1>2, <3>1, <3>3 DEF Coming
    <3>4. ASSUME ~w.added, Once(u, leg, j)
          PROVE  Once(w, leg, j)'
      BY <1>2, <3>1, <3>4 DEF Once
    <3> QED BY <1>3, <3>2, <3>3, <3>4
  <2> QED BY <1>6, <2>1, <2>2 DEF LegReads
<1>7. ASSUME NEW leg \in Legs, u.kind = leg, LegEnds(u, leg)
      PROVE  LegEnds(w, leg)'
  <2>1. ASSUME NEW j \in w.steady, j \in RowsOf(leg)'
        PROVE  j \in u.steady \cap RowsOf(leg)
    BY <1>3, <1>5, <2>1
  <2> QED BY <1>3, <1>7, <2>1 DEF LegEnds
<1>8. ASSUME RecordsOK(u)
      PROVE  RecordsOK(w)'
  <2>1. ASSUME NEW j \in w.steady, j \in RowsOf("agent")'
        PROVE  /\ ~w.removed =>
                    w.seen[j] > 0 \/ (w.at = "reading" /\ w.offset <= RowPlace("agent", j)')
               /\ ~w.added => /\ w.seen[j] <= 1
                              /\ w.seen[j] = 1 => w.at = "done" \/ RowPlace("agent", j)' < w.offset
    <3>1. /\ j \in u.steady \cap RowsOf("agent") /\ RowPlace("agent", j) \in Nat
          /\ RowPlace("agent", j)' \in Nat
          /\ ~w.added => RowPlace("agent", j)' <= RowPlace("agent", j)
          /\ ~w.removed => RowPlace("agent", j) <= RowPlace("agent", j)'
      BY <1>3, <1>5, <2>1 DEF Legs
    <3>2. /\ ~u.removed =>
               u.seen[j] > 0 \/ (u.at = "reading" /\ u.offset <= RowPlace("agent", j))
          /\ ~u.added => /\ u.seen[j] <= 1
                         /\ u.seen[j] = 1 => u.at = "done" \/ RowPlace("agent", j) < u.offset
      BY <1>8, <3>1 DEF RecordsOK
    <3> QED BY <1>2, <1>3, <3>1, <3>2
  <2> QED BY <2>1 DEF RecordsOK
<1>9. \A d \in Leaf : d \in Shelved
  BY ListingOrders
<1>10. \A d \in Leaf : d # i => /\ made'[d] = made[d]
                                /\ AfterRow(u.key, d)' <=> AfterRow(u.key, d)
  BY <1>1, <1>9 DEF AfterRow
<1>11. ASSUME DocsOK(u)
       PROVE  DocsOK(w)'
  <2>1. \A row \in w.key : row[2] < Hour'
    BY <1>1, <1>2, <1>11 DEF DocsOK
  <2>2. ASSUME NEW d \in Leaf
        PROVE  /\ w.seen[d] <= 1
               /\ w.seen[d] = 1 => w.key # {} /\ (made'[d] > 0 => ~AfterRow(w.key, d)')
    <3>1. /\ u.seen[d] <= 1
          /\ u.seen[d] = 1 => u.key # {} /\ (made[d] > 0 => ~AfterRow(u.key, d))
      BY <1>11 DEF DocsOK
    <3>2. CASE d # i
      BY <1>10, <3>1, <3>2
    <3>3. CASE d = i
      <4>1. made'[i] > 0 => renewed'[i] = Hour
        BY DEF Moved, Added, Changed, Dropped, DatesOK
      <4>2. \A row \in u.key : row[2] < Hour
        BY <1>11 DEF DocsOK
      <4>3. ASSUME u.key # {}, made'[i] > 0
            PROVE  ~AfterRow(u.key, i)'
        <5>1. PICK row \in u.key : TRUE
          BY <4>3
        <5>2. ~(renewed'[i] < row[2]) /\ renewed'[i] # row[2]
          BY <1>1, <1>2, <4>1, <4>2, <4>3
        <5> QED BY <5>2 DEF AfterRow
      <4> QED BY <3>1, <3>3, <4>3
    <3> QED BY <3>2, <3>3
  <2>3. ASSUME NEW d \in w.steady \cap Leaf
        PROVE  w.seen[d] = 1 \/ (w.at = "reading" /\ AfterRow(w.key, d)')
    <3>1. d # i
      <4>1. made[d] > 0
        BY <1>3, <2>3 DEF PageOK
      <4> QED BY <2>3, <4>1 DEF Moved, Added, Changed, Dropped
    <3>2. u.seen[d] = 1 \/ (u.at = "reading" /\ AfterRow(u.key, d))
      BY <1>3, <1>11 DEF DocsOK
    <3> QED BY <1>10, <3>1, <3>2
  <2> QED BY <2>1, <2>2, <2>3 DEF DocsOK
<1>12. ~(Calm(w) /\ Even')
  <2>1. CASE w.added \/ w.removed
    BY <2>1 DEF Calm
  <2>2. CASE ~w.added /\ ~w.removed
    <3>1. Changed(u, w, i) /\ i \notin Leaf
      BY <2>2 DEF Moved, Added, Changed, Dropped
    <3>2. made'[i] = made[i] /\ renewed'[i] = Hour /\ i \in Memo /\ made[i] < Hour
          /\ made[i] \in Nat
      BY <3>1 DEF Changed, DatesOK, Shelved
    <3>3. made'[i] # renewed'[i]
      BY <1>1, <3>2
    <3> QED BY <3>2, <3>3 DEF Even
  <2> QED BY <2>1, <2>2
<1> QED BY <1>1, <1>2, <1>4, <1>6, <1>7, <1>8, <1>11, <1>12 DEF PageOK, Calm

\* A listing that begins, over what is stored.
LEMMA BeginListingKeeps ==
  ASSUME ListingInv, NEW kind \in ListingKinds, BeginListing(kind)
  PROVE  ListingInv'
<1> DEFINE v == [NoListing EXCEPT !.at = "reading", !.kind = kind, !.todo = ReadsOf(kind),
                                   !.steady = Existing]
<1>1. DatesOK /\ paging' = v /\ UNCHANGED <<made, renewed, shifts>>
  BY DEF ListingInv, BeginListing, dates
<1>2. v \in PagingType
  <2>1. ReadsOf(kind) \in SUBSET (Legs \X {"rows", "count"}) /\ Existing \in SUBSET Shelved
    BY Reads DEF ListingKinds, Existing
  <2> QED BY <2>1, NoListingFields DEF PagingType
<1>3. /\ v.at = "reading" /\ v.kind = kind /\ v.offset = 0 /\ v.key = {} /\ v.todo = ReadsOf(kind)
      /\ v.held = {} /\ v.seen = [i \in Shelved |-> 0] /\ v.steady = Existing
  BY NoListingFields DEF PagingType
<1>4. PICK w \in PagingType :
        /\ paging' = w /\ w.at = "reading" /\ w.kind = kind /\ w.offset = 0 /\ w.key = {}
        /\ w.todo = ReadsOf(kind) /\ w.held = {} /\ w.seen = [i \in Shelved |-> 0]
        /\ w.steady = Existing
  BY <1>1, <1>2, <1>3
<1>5. PageOK(w)
  BY <1>1, <1>4, Begins
<1>6. DatesOK' /\ PageOK(w)'
  BY <1>1, <1>5, DatesSame
<1> QED BY <1>4, <1>6 DEF ListingInv

\* The idle listing is sound.
LEMMA NoListingOK ==
  PageOK(NoListing)
BY NoListingFields, Reads DEF PageOK

\* A query of the rows returns.
LEMMA ReadRowsKeeps ==
  ASSUME ListingInv, NEW leg \in Legs, ReadRows(leg)
  PROVE  ListingInv'
<1>0. DatesOK /\ PageOK(paging) /\ paging \in PagingType
  BY DEF ListingInv, PageOK
<1>1. PICK u \in PagingType : u = paging
  BY <1>0
<1> DEFINE page == Slice(OrderOf(leg), RowsOf(leg), IF u.kind = "all" THEN 0 ELSE u.offset,
                         IF u.kind = "all" THEN u.offset + ListLimit ELSE ListLimit)
           v == [u EXCEPT !.todo = @ \ {<<leg, "rows">>}, !.held = @ \cup Dated(page)]
<1>2. /\ paging' = v /\ UNCHANGED <<made, renewed, shifts>> /\ <<leg, "rows">> \in u.todo
  BY <1>1 DEF ReadRows, dates, From, Depth
<1>3. Dated(page) \in SUBSET (Shelved \X Nat)
  <2>1. page \in SUBSET Shelved
    BY <1>0, ListingOrders DEF Slice, Existing
  <2> QED BY <1>0, <2>1, DatedRows
<1> HIDE DEF page
<1>4. v \in PagingType
  BY <1>3 DEF PagingType
<1>5. /\ v.at = u.at /\ v.kind = u.kind /\ v.offset = u.offset /\ v.key = u.key
      /\ v.todo = u.todo \ {<<leg, "rows">>} /\ v.total = u.total /\ v.seen = u.seen
      /\ v.steady = u.steady /\ v.added = u.added /\ v.removed = u.removed
      /\ v.overtaken = u.overtaken /\ v.gaps = u.gaps /\ v.held = u.held \cup Dated(page)
  BY DEF PagingType
<1>6. PICK w \in PagingType :
        /\ paging' = w
        /\ w.at = u.at /\ w.kind = u.kind /\ w.offset = u.offset /\ w.key = u.key
        /\ w.todo = u.todo \ {<<leg, "rows">>} /\ w.total = u.total /\ w.seen = u.seen
        /\ w.steady = u.steady /\ w.added = u.added /\ w.removed = u.removed
        /\ w.overtaken = u.overtaken /\ w.gaps = u.gaps /\ w.held = u.held \cup Dated(page)
  BY <1>2, <1>4, <1>5
<1>7. u.at = "reading"
  BY <1>0, <1>1, <1>2 DEF PageOK
<1>8. PageOK(w)
  BY <1>0, <1>1, <1>2, <1>6, <1>7, RowsRead DEF page
<1>9. DatesOK' /\ PageOK(w)'
  BY <1>0, <1>2, <1>8, DatesSame
<1> QED BY <1>6, <1>9 DEF ListingInv

\* A count returns.
LEMMA CountRowsKeeps ==
  ASSUME ListingInv, NEW leg \in Legs, CountRows(leg)
  PROVE  ListingInv'
<1>0. DatesOK /\ PageOK(paging) /\ paging \in PagingType
  BY DEF ListingInv, PageOK
<1>1. PICK u \in PagingType : u = paging
  BY <1>0
<1> DEFINE v == [u EXCEPT !.todo = @ \ {<<leg, "count">>},
                          !.total[leg] = Cardinality(RowsOf(leg))]
<1>2. paging' = v /\ UNCHANGED <<made, renewed, shifts>> /\ <<leg, "count">> \in u.todo
  BY <1>1 DEF CountRows, dates
<1>3. Cardinality(RowsOf(leg)) \in Nat
  BY <1>0, ListingOrders
<1>4. v \in PagingType
  BY <1>3 DEF PagingType
<1>5. /\ v.at = u.at /\ v.kind = u.kind /\ v.offset = u.offset /\ v.key = u.key /\ v.held = u.held
      /\ v.todo = u.todo \ {<<leg, "count">>} /\ v.seen = u.seen /\ v.steady = u.steady
      /\ v.added = u.added /\ v.removed = u.removed /\ v.overtaken = u.overtaken
      /\ v.gaps = u.gaps /\ v.total = [u.total EXCEPT ![leg] = Cardinality(RowsOf(leg))]
  BY DEF PagingType
<1>6. PICK w \in PagingType :
        /\ paging' = w
        /\ w.at = u.at /\ w.kind = u.kind /\ w.offset = u.offset /\ w.key = u.key
        /\ w.held = u.held /\ w.todo = u.todo \ {<<leg, "count">>} /\ w.seen = u.seen
        /\ w.steady = u.steady /\ w.added = u.added /\ w.removed = u.removed
        /\ w.overtaken = u.overtaken /\ w.gaps = u.gaps
        /\ w.total = [u.total EXCEPT ![leg] = Cardinality(RowsOf(leg))]
  BY <1>2, <1>4, <1>5
<1>7. u.at = "reading"
  BY <1>0, <1>1, <1>2 DEF PageOK
<1>8. PageOK(w)
  BY <1>0, <1>1, <1>2, <1>6, <1>7, RowsCounted
<1>9. DatesOK' /\ PageOK(w)'
  BY <1>0, <1>2, <1>8, DatesSame
<1> QED BY <1>6, <1>9 DEF ListingInv

\* A leg that fails leaves a gap, or ends the listing.
LEMMA LegFailsKeeps ==
  ASSUME ListingInv, NEW leg \in Legs, LegFails(leg)
  PROVE  ListingInv'
<1>0. DatesOK /\ PageOK(paging) /\ paging \in PagingType
  BY DEF ListingInv, PageOK
<1>1. UNCHANGED <<made, renewed>> /\ shifts' = shifts + 1
  BY DEF LegFails, dates
<1>2. CASE paging' = NoListing
  <2>1. DatesOK' /\ PageOK(NoListing)'
    BY <1>0, <1>1, NoListingOK, DatesSame
  <2> QED BY <1>2, <2>1 DEF ListingInv
<1>3. CASE paging' # NoListing
  <2>1. PICK u \in PagingType : u = paging
    BY <1>0
  <2> DEFINE v == [u EXCEPT !.todo = @ \ Queries(leg),
                     !.held = {row \in @ : row[1] \in IF leg = "agent" THEN Leaf ELSE Memo},
                     !.total[leg] = 0, !.partial = TRUE, !.gaps = TRUE]
  <2>2. paging' = v /\ u.kind = "all" /\ u.at = "reading"
    BY <1>3, <2>1 DEF LegFails
  <2>3. v \in PagingType
    BY DEF PagingType
  <2>4. /\ v.kind = u.kind /\ v.steady = u.steady /\ v.gaps = TRUE /\ v.todo \subseteq u.todo
        /\ v.at = u.at
    BY DEF PagingType
  <2>5. PICK w \in PagingType : /\ paging' = w /\ w.kind = "all" /\ w.steady = u.steady
                                /\ w.gaps = TRUE /\ w.todo \subseteq u.todo /\ w.at = "reading"
    BY <2>2, <2>3, <2>4
  <2>6. PageOK(w)
    <3>1. ~Calm(w) /\ w.kind \notin Legs
      BY <2>5, Reads DEF Calm
    <3>2. w.todo \subseteq ReadsOf(w.kind) /\ \A i \in w.steady : made[i] > 0
      BY <1>0, <2>1, <2>2, <2>5 DEF PageOK
    <3> QED BY <2>5, <3>1, <3>2 DEF PageOK
  <2>7. DatesOK' /\ PageOK(w)'
    BY <1>0, <1>1, <2>6, DatesSame
  <2> QED BY <2>5, <2>7 DEF ListingInv
<1> QED BY <1>2, <1>3

\* A page is answered.
LEMMA RespondKeeps ==
  ASSUME ListingInv, Respond
  PROVE  ListingInv'
<1>0. DatesOK /\ PageOK(paging) /\ paging \in PagingType
  BY DEF ListingInv, PageOK
<1>1. PICK u \in PagingType : u = paging
  BY <1>0
<1>2. PICK page : page = Shown
  OBVIOUS
<1> DEFINE seen == [i \in Shelved |-> u.seen[i] + (IF i \in Ids(page) THEN 1 ELSE 0)]
           next == [u EXCEPT !.held = {}, !.total = [leg \in Legs |-> 0], !.seen = seen]
           more == u.offset + Cardinality(page) < u.total["agent"] + u.total["kb"]
           v    == IF more
                   THEN [next EXCEPT !.offset = @ + ListLimit, !.todo = ReadsOf(u.kind),
                                     !.partial = FALSE]
                   ELSE [next EXCEPT !.at = "done"]
<1>3. /\ paging' = v /\ UNCHANGED <<made, renewed, shifts>>
      /\ u.at = "reading" /\ u.kind \in Legs \cup {"all"} /\ u.todo = {}
      /\ page = IF u.kind # "all" THEN u.held ELSE Slice(Newest, u.held, u.offset, ListLimit)
  BY <1>1, <1>2 DEF Respond, dates, Tally, Shown
<1>4. seen \in [Shelved -> Nat]
  BY PagingFields
<1>5. ReadsOf(u.kind) \in SUBSET (Legs \X {"rows", "count"}) /\ u.offset + ListLimit \in Nat
  BY <1>3, Reads, PagingFields, ListingAssumption
<1> HIDE DEF seen, more
<1>6. next \in PagingType
  BY <1>4 DEF PagingType
<1>7. v \in PagingType
  BY <1>5, <1>6 DEF PagingType
<1>8. /\ v.kind = u.kind /\ v.held = {} /\ v.steady = u.steady /\ v.added = u.added
      /\ v.removed = u.removed /\ v.overtaken = u.overtaken /\ v.gaps = u.gaps /\ v.seen = seen
      /\ \/ more /\ v.at = u.at /\ v.offset = u.offset + ListLimit /\ v.todo = ReadsOf(u.kind)
         \/ ~more /\ v.at = "done" /\ v.todo = u.todo
  BY DEF PagingType
<1>9. PICK w \in PagingType :
        /\ paging' = w
        /\ w.kind = u.kind /\ w.held = {} /\ w.steady = u.steady /\ w.added = u.added
        /\ w.removed = u.removed /\ w.overtaken = u.overtaken /\ w.gaps = u.gaps /\ w.seen = seen
        /\ \/ more /\ w.at = u.at /\ w.offset = u.offset + ListLimit /\ w.todo = ReadsOf(u.kind)
           \/ ~more /\ w.at = "done" /\ w.todo = u.todo
  BY <1>3, <1>7, <1>8
<1>10. PageOK(w)
  BY <1>0, <1>1, <1>3, <1>9, Answered DEF seen, more
<1>11. DatesOK' /\ PageOK(w)'
  BY <1>0, <1>3, <1>10, DatesSame
<1> QED BY <1>9, <1>11 DEF ListingInv

\* A page of records is exported.
LEMMA ExportRecordsKeeps ==
  ASSUME ListingInv, ExportRecords
  PROVE  ListingInv'
<1>0. DatesOK /\ PageOK(paging) /\ paging \in PagingType
  BY DEF ListingInv, PageOK
<1>1. PICK u \in PagingType : u = paging
  BY <1>0
<1>2. PICK page : page = Slice(ByCreation, RowsOf("agent"), u.offset, ListLimit)
  OBVIOUS
<1> DEFINE seen == [i \in Shelved |-> u.seen[i] + (IF i \in page THEN 1 ELSE 0)]
           at == IF Cardinality(page) < ListLimit THEN "done" ELSE u.at
           v == [u EXCEPT !.seen = seen, !.offset = @ + ListLimit, !.at = at]
<1>3. /\ paging' = v /\ UNCHANGED <<made, renewed, shifts>>
      /\ u.at = "reading" /\ u.kind = "exportRecords"
  BY <1>1, <1>2 DEF ExportRecords, dates, Tally
<1>4. seen \in [Shelved -> Nat] /\ u.offset + ListLimit \in Nat /\ at \in {"reading", "done"}
  BY <1>3, PagingFields, ListingAssumption
<1> HIDE DEF seen, at
<1>5. v \in PagingType
  BY <1>4 DEF PagingType
<1>6. /\ v.at = at /\ v.kind = u.kind /\ v.offset = u.offset + ListLimit /\ v.todo = u.todo
      /\ v.steady = u.steady /\ v.added = u.added /\ v.removed = u.removed /\ v.seen = seen
  BY DEF PagingType
<1>7. PICK w \in PagingType :
        /\ paging' = w
        /\ w.at = at /\ w.kind = u.kind /\ w.offset = u.offset + ListLimit /\ w.todo = u.todo
        /\ w.steady = u.steady /\ w.added = u.added /\ w.removed = u.removed /\ w.seen = seen
  BY <1>3, <1>5, <1>6
<1>8. PageOK(w)
  BY <1>0, <1>1, <1>2, <1>3, <1>7, RecordsExported DEF seen, at
<1>9. DatesOK' /\ PageOK(w)'
  BY <1>0, <1>3, <1>8, DatesSame
<1> QED BY <1>7, <1>9 DEF ListingInv

\* A page of documents is exported.
LEMMA ExportDocsKeeps ==
  ASSUME ListingInv, ExportDocs
  PROVE  ListingInv'
<1>0. DatesOK /\ PageOK(paging) /\ paging \in PagingType
  BY DEF ListingInv, PageOK
<1>1. PICK u \in PagingType : u = paging
  BY <1>0
<1>2. PICK page : page = Slice(ByRenewal, DocsLeft, 0, ListLimit)
  OBVIOUS
<1>21. \A d : d \in DocsLeft <=> d \in RowsOf("kb") /\ AfterRow(u.key, d)
  BY <1>1 DEF DocsLeft, AfterKey, AfterRow
<1>3. PICK last : last = LastOf(page)
  OBVIOUS
<1> DEFINE seen == [i \in Shelved |-> u.seen[i] + (IF i \in page THEN 1 ELSE 0)]
           at == IF Cardinality(page) < ListLimit THEN "done" ELSE u.at
           key == IF page = {} THEN u.key ELSE Dated({last})
           v == [u EXCEPT !.seen = seen, !.key = key, !.at = at]
<1>4. /\ paging' = v /\ UNCHANGED <<made, renewed, shifts>>
      /\ u.at = "reading" /\ u.kind = "exportDocs"
  <2>1. /\ paging' = [u EXCEPT !.seen = Tally(page), !.key = IF page = {} THEN @ ELSE Dated({last}),
                        !.at = IF Cardinality(page) < ListLimit THEN "done" ELSE @]
        /\ UNCHANGED <<made, renewed, shifts>> /\ u.at = "reading" /\ u.kind = "exportDocs"
    BY <1>1, <1>2, <1>3 DEF ExportDocs, dates
  <2>2. seen = Tally(page)
    BY <1>1 DEF Tally
  <2> HIDE DEF seen
  <2> QED BY <2>1, <2>2
<1>5. key \in SUBSET (Shelved \X Nat)
  <2>1. CASE page = {}
    BY <2>1, PagingFields
  <2>2. CASE page # {}
    <3>1. /\ page \in SUBSET RowsOf("kb") /\ IsFiniteSet(page) /\ Orders(ByRenewal, page)
      <4>1. page \in SUBSET RowsOf("kb")
        BY <1>2 DEF Slice, DocsLeft
      <4> QED BY <1>0, <4>1, ListingOrders
    <3>2. \E d \in page : \A x \in page : <<d, x>> \notin ByRenewal
      BY <2>2, <3>1, LastThere
    <3>3. last \in page
      BY <1>3, <3>2 DEF LastOf
    <3>4. {last} \in SUBSET Shelved
      BY <1>0, <3>1, <3>3, ListingOrders
    <3> QED BY <1>0, <2>2, <3>4, DatedRows
  <2> QED BY <2>1, <2>2
<1>6. seen \in [Shelved -> Nat] /\ at \in {"reading", "done"}
  BY <1>4, PagingFields
<1> HIDE DEF seen, at, key
<1>7. v \in PagingType
  BY <1>5, <1>6 DEF PagingType
<1>8. /\ v.at = at /\ v.kind = u.kind /\ v.key = key /\ v.todo = u.todo /\ v.steady = u.steady
      /\ v.seen = seen
  BY DEF PagingType
<1>9. PICK w \in PagingType :
        /\ paging' = w
        /\ w.at = at /\ w.kind = u.kind /\ w.key = key /\ w.todo = u.todo
        /\ w.steady = u.steady /\ w.seen = seen
  BY <1>4, <1>7, <1>8
<1>10. PageOK(w)
  <2>1. /\ w.at = IF Cardinality(page) < ListLimit THEN "done" ELSE u.at
        /\ w.key = IF page = {} THEN u.key ELSE Dated({last})
        /\ w.seen = [i \in Shelved |-> u.seen[i] + (IF i \in page THEN 1 ELSE 0)]
    BY <1>9 DEF seen, at, key
  <2>2. PageOK(u)
    BY <1>0, <1>1
  <2> QED BY <1>0, <1>2, <1>21, <1>3, <1>4, <1>9, <2>1, <2>2, DocsExported
<1>11. DatesOK' /\ PageOK(w)'
  BY <1>0, <1>4, <1>10, DatesSame
<1> QED BY <1>9, <1>11 DEF ListingInv

\* A row moves.
LEMMA RowMovesKeeps ==
  ASSUME ListingInv, NEW i \in Shelved, AddRow(i) \/ ChangeRow(i) \/ DropRow(i)
  PROVE  ListingInv'
<1>0. DatesOK /\ PageOK(paging) /\ paging \in PagingType
  BY DEF ListingInv, PageOK
<1>1. PICK u \in PagingType : u = paging
  BY <1>0
<1> DEFINE o == u.overtaken \/ (u.todo # {} /\ u.todo # ReadsOf(u.kind))
<1>2. o \in BOOLEAN
  BY PagingFields
<1>3. PICK w \in PagingType :
        /\ paging' = w /\ Moved(u, w, i) /\ shifts' = shifts + 1
        /\ w.at = u.at /\ w.kind = u.kind /\ w.offset = u.offset /\ w.key = u.key
        /\ w.todo = u.todo /\ w.held = u.held /\ w.total = u.total /\ w.seen = u.seen
        /\ w.gaps = u.gaps /\ w.overtaken = o
  <2>1. CASE AddRow(i)
    <3> DEFINE v == [[u EXCEPT !.added = TRUE] EXCEPT !.overtaken = @ \/ (u.todo # {} /\ u.todo # ReadsOf(u.kind))]
    <3>1. /\ paging' = v /\ shifts' = shifts + 1 /\ made[i] = 0
          /\ made' = [made EXCEPT ![i] = Hour] /\ renewed' = [renewed EXCEPT ![i] = Hour]
      BY <1>1, <2>1 DEF AddRow, Shift
    <3>2. v \in PagingType
      BY <1>2 DEF PagingType
    <3>3. /\ v.added = TRUE /\ v.removed = u.removed /\ v.steady = u.steady
          /\ v.at = u.at /\ v.kind = u.kind /\ v.offset = u.offset /\ v.key = u.key
          /\ v.todo = u.todo /\ v.held = u.held /\ v.total = u.total /\ v.seen = u.seen
          /\ v.gaps = u.gaps /\ v.overtaken = o
      BY DEF PagingType
    <3> HIDE DEF v, o
    <3>4. Moved(u, v, i)
      BY <3>1, <3>3 DEF Moved, Added
    <3> QED BY <3>1, <3>2, <3>3, <3>4
  <2>2. CASE ChangeRow(i) /\ i \in Leaf
    <3> DEFINE v == [[u EXCEPT !.added = TRUE, !.steady = @ \ {i}]
                       EXCEPT !.overtaken = @ \/ (u.todo # {} /\ u.todo # ReadsOf(u.kind))]
    <3>1. /\ paging' = v /\ shifts' = shifts + 1 /\ made[i] > 0
          /\ made' = made /\ renewed' = [renewed EXCEPT ![i] = Hour]
      BY <1>1, <2>2 DEF ChangeRow, Shift
    <3>2. v \in PagingType
      BY <1>2 DEF PagingType
    <3>3. /\ v.added = TRUE /\ v.removed = u.removed /\ v.steady = u.steady \ {i}
          /\ v.at = u.at /\ v.kind = u.kind /\ v.offset = u.offset /\ v.key = u.key
          /\ v.todo = u.todo /\ v.held = u.held /\ v.total = u.total /\ v.seen = u.seen
          /\ v.gaps = u.gaps /\ v.overtaken = o
      BY DEF PagingType
    <3> HIDE DEF v, o
    <3>4. Moved(u, v, i)
      BY <2>2, <3>1, <3>3 DEF Moved, Changed
    <3> QED BY <3>1, <3>2, <3>3, <3>4
  <2>3. CASE ChangeRow(i) /\ i \notin Leaf
    <3> DEFINE v == [u EXCEPT !.overtaken = @ \/ (u.todo # {} /\ u.todo # ReadsOf(u.kind))]
    <3>1. /\ paging' = v /\ shifts' = shifts + 1 /\ made[i] > 0
          /\ made' = made /\ renewed' = [renewed EXCEPT ![i] = Hour]
      BY <1>1, <2>3 DEF ChangeRow, Shift
    <3>2. v \in PagingType
      BY <1>2 DEF PagingType
    <3>3. /\ v.added = u.added /\ v.removed = u.removed /\ v.steady = u.steady
          /\ v.at = u.at /\ v.kind = u.kind /\ v.offset = u.offset /\ v.key = u.key
          /\ v.todo = u.todo /\ v.held = u.held /\ v.total = u.total /\ v.seen = u.seen
          /\ v.gaps = u.gaps /\ v.overtaken = o
      BY DEF PagingType
    <3> HIDE DEF v, o
    <3>4. Moved(u, v, i)
      BY <2>3, <3>1, <3>3 DEF Moved, Changed
    <3> QED BY <3>1, <3>2, <3>3, <3>4
  <2>4. CASE DropRow(i)
    <3> DEFINE v == [[u EXCEPT !.removed = TRUE, !.steady = @ \ {i}]
                       EXCEPT !.overtaken = @ \/ (u.todo # {} /\ u.todo # ReadsOf(u.kind))]
    <3>1. /\ paging' = v /\ shifts' = shifts + 1 /\ made[i] > 0
          /\ made' = [made EXCEPT ![i] = 0] /\ renewed' = [renewed EXCEPT ![i] = 0]
      BY <1>1, <2>4 DEF DropRow, Shift
    <3>2. v \in PagingType
      BY <1>2 DEF PagingType
    <3>3. /\ v.added = u.added /\ v.removed = TRUE /\ v.steady = u.steady \ {i}
          /\ v.at = u.at /\ v.kind = u.kind /\ v.offset = u.offset /\ v.key = u.key
          /\ v.todo = u.todo /\ v.held = u.held /\ v.total = u.total /\ v.seen = u.seen
          /\ v.gaps = u.gaps /\ v.overtaken = o
      BY DEF PagingType
    <3> HIDE DEF v, o
    <3>4. Moved(u, v, i)
      BY <3>1, <3>3 DEF Moved, Dropped
    <3> QED BY <3>1, <3>2, <3>3, <3>4
  <2> QED BY <2>1, <2>2, <2>3, <2>4
<1>4. DatesOK' /\ PageOK(w)'
  BY <1>0, <1>1, <1>3, Shifted
<1> QED BY <1>3, <1>4 DEF ListingInv

\* All rows stored, nothing listed.
LEMMA ListingStarts ==
  ListingInit => ListingInv
<1> SUFFICES ASSUME ListingInit PROVE ListingInv
  OBVIOUS
<1>1. PICK apart \in BOOLEAN : ListingInitWith(apart)
  BY DEF ListingInit
<1>2. /\ made = [i \in Shelved |-> IF i \in Memo \/ apart THEN i ELSE 1]
      /\ renewed = made /\ paging = NoListing /\ shifts = 0
  BY <1>1 DEF ListingInitWith
<1>3. /\ IsFiniteSet(Shelved) /\ Cardinality(Shelved) \in Nat /\ Memo \subseteq Shelved
      /\ Shelved = 1 .. Cardinality(Shelved)
  BY ListingAssumption, FS_Union, FS_CardinalityType DEF Shelved
<1>4. Hour = Cardinality(Shelved) + 1
  BY <1>2, <1>3 DEF Hour
<1>5. \A i \in Shelved : i \in Nat /\ 1 <= i /\ i < Hour /\ 1 < Hour
  BY <1>3, <1>4
<1>6. \A i \in Shelved : made[i] = (IF i \in Memo \/ apart THEN i ELSE 1)
  BY <1>2
<1>7. DatesOK
  <2>1. made \in [Shelved -> Nat] /\ \A i \in Shelved : made[i] < Hour
    BY <1>2, <1>5, <1>6
  <2>2. \A m, n \in Memo : made[m] = made[n] => m = n
    BY <1>3, <1>6
  <2> QED BY <1>2, <2>1, <2>2 DEF DatesOK
<1> QED BY <1>2, <1>7, NoListingOK DEF ListingInv

\* What the invariant says of a listing that has ended.
LEMMA ListingInvCovers ==
  ListingInv => ListingsCover
<1> SUFFICES ASSUME ListingInv PROVE ListingsCover
  OBVIOUS
<1>0. PageOK(paging) /\ DatesOK /\ paging \in PagingType
  BY DEF ListingInv, PageOK
<1>1. PagesCover
  <2>1. ASSUME paging.at = "done", paging.kind = "all", Settled
        PROVE  \A i \in paging.steady : paging.seen[i] = 1
    BY <1>0, <2>1 DEF PageOK, Settled, Calm, Even
  <2>2. ASSUME paging.at = "done", paging.kind \in Legs
        PROVE  LegEnds(paging, paging.kind)
    BY <1>0, <2>2 DEF PageOK
  <2> QED BY <2>1, <2>2 DEF PagesCover, LegEnds
<1>2. ExportsCover
  <2>1. ASSUME paging.at = "done", paging.kind = "exportDocs"
        PROVE  /\ \A d \in paging.steady \cap Leaf : paging.seen[d] = 1
               /\ \A d \in Leaf : paging.seen[d] <= 1
    BY <1>0, <2>1 DEF PageOK, DocsOK
  <2>2. ASSUME paging.at = "done", paging.kind = "exportRecords"
        PROVE  \A m \in paging.steady \cap Memo : /\ ~paging.removed => paging.seen[m] > 0
                                                  /\ ~paging.added => paging.seen[m] <= 1
    <3>1. RecordsOK(paging) /\ \A m \in paging.steady : made[m] > 0
      BY <1>0, <2>2 DEF PageOK
    <3>2. \A m \in paging.steady \cap Memo : m \in paging.steady \cap RowsOf("agent")
      BY <1>0, <3>1, ListingOrders
    <3> QED BY <2>2, <3>1, <3>2 DEF RecordsOK
  <2> QED BY <2>1, <2>2 DEF ExportsCover
<1> QED BY <1>1, <1>2 DEF ListingsCover

\* Every step of a listing and of the rows keeps the invariant.
LEMMA ListingSteps ==
  ListingInv /\ [ListingNext]_listingVars => ListingInv'
<1> SUFFICES ASSUME ListingInv, [ListingNext]_listingVars PROVE ListingInv'
  OBVIOUS
<1>1. ASSUME NEW kind \in ListingKinds, BeginListing(kind) PROVE ListingInv'
  BY <1>1, BeginListingKeeps
<1>2. ASSUME NEW leg \in Legs, ReadRows(leg) PROVE ListingInv'
  BY <1>2, ReadRowsKeeps
<1>3. ASSUME NEW leg \in Legs, CountRows(leg) PROVE ListingInv'
  BY <1>3, CountRowsKeeps
<1>4. ASSUME NEW leg \in Legs, LegFails(leg) PROVE ListingInv'
  BY <1>4, LegFailsKeeps
<1>5. CASE Respond
  BY <1>5, RespondKeeps
<1>6. CASE ExportRecords
  BY <1>6, ExportRecordsKeeps
<1>7. CASE ExportDocs
  BY <1>7, ExportDocsKeeps
<1>8. ASSUME NEW i \in Shelved, AddRow(i) \/ ChangeRow(i) \/ DropRow(i) PROVE ListingInv'
  BY <1>8, RowMovesKeeps
<1>9. CASE UNCHANGED listingVars
  <2>1. DatesOK /\ UNCHANGED <<made, renewed, shifts, paging>>
    BY <1>9 DEF listingVars, ListingInv
  <2>2. PICK u \in PagingType : u = paging
    BY DEF ListingInv, PageOK
  <2>3. PageOK(u)
    BY <2>2 DEF ListingInv
  <2>4. DatesOK' /\ PageOK(u)'
    BY <2>1, <2>3, DatesSame
  <2> QED BY <2>1, <2>2, <2>4 DEF ListingInv
<1> QED BY <1>1, <1>2, <1>3, <1>4, <1>5, <1>6, <1>7, <1>8, <1>9 DEF ListingNext

\* What is paged is found: a client that pages to the end, and an export, have had every
\* row that stayed, once, but for what was added, removed, overtaken or failed meanwhile;
\* for any rows, page size, changes and failures.
THEOREM ListingsFindAll == ListingSpec => []ListingsCover
<1>1. ListingInit => ListingInv
  BY ListingStarts
<1>2. ListingInv /\ [ListingNext]_listingVars => ListingInv'
  BY ListingSteps
<1>3. ListingInv => ListingsCover
  BY ListingInvCovers
<1> QED BY <1>1, <1>2, <1>3, PTL DEF ListingSpec
=============================================================================
