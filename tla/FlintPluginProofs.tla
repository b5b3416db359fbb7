-------------------------- MODULE FlintPluginProofs -------------------------
(***************************************************************************)
(* For any finite set of objects and any number of operations: the io      *)
(* thread serves the plugin for as long as it is up, an object has only    *)
(* operations outstanding that it started, and a responder prints what     *)
(* arrives, once and in order, one receive for each search.                *)
(***************************************************************************)
EXTENDS SsdpResponder, CompletionQueue

\* ThreadServes is not inductive: run() returns when nothing is left to do.
\* What keeps it is holderWork_, set exactly while the plugin is up.
WorkHolds ==
    /\ work <=> plugin = "ready"
    /\ plugin = "constructed" => thread = "none"
    /\ plugin = "ready" => thread = "running"

\* The initial state satisfies the invariant.
LEMMA WorkHoldsInit == Init => WorkHolds
  BY DEF Init, WorkHolds

\* Every step keeps the invariant.
LEMMA WorkHoldsNext == WorkHolds /\ [Next]_vars => WorkHolds'
  <1> SUFFICES ASSUME WorkHolds, [Next]_vars PROVE WorkHolds'
    OBVIOUS
  <1>1. CASE CreateJSAPI
    BY <1>1 DEF CreateJSAPI, WorkHolds
  <1>2. CASE OnPluginReady
    BY <1>2 DEF OnPluginReady, WorkHolds
  <1>3. CASE Shutdown
    BY <1>3 DEF Shutdown, WorkHolds
  <1>4. CASE ReleaseObjects
    BY <1>4 DEF ReleaseObjects, WorkHolds
  <1>5. CASE DestroyMembers
    BY <1>5 DEF DestroyMembers, WorkHolds
  <1>6. CASE \E o \in Objects : Create(o) \/ StartOp(o) \/ Release(o)
    BY <1>6 DEF Create, StartOp, Release, WorkHolds
  <1>7. CASE HandlerBegins
    BY <1>7 DEF HandlerBegins, WorkHolds
  <1>8. CASE HandlerEnds
    BY <1>8 DEF HandlerEnds, WorkHolds
  <1>9. CASE RunReturns
    BY <1>9 DEF RunReturns, WorkHolds
  <1>10. CASE \E o \in Objects : Completes(o)
    BY <1>10 DEF Completes, WorkHolds
  <1>11. CASE UNCHANGED vars
    BY <1>11 DEF vars, WorkHolds
  <1> QED
    BY <1>1, <1>2, <1>3, <1>4, <1>5, <1>6, <1>7, <1>8, <1>9, <1>10, <1>11
       DEF Next, Host, Page, IoThread

\* While the plugin is ready its io thread runs (FlintPlugin::onPluginReady,
\* shutdown).
THEOREM ServesCorrect == Spec => []ThreadServes
  <1>1. WorkHolds => ThreadServes
    BY DEF WorkHolds, ThreadServes
  <1> QED
    BY WorkHoldsInit, WorkHoldsNext, <1>1, PTL DEF Spec

(***************************************************************************)
(* How many handlers of an object a queue holds                            *)
(***************************************************************************)
\* It is a number.
LEMMA EntriesType ==
    ASSUME NEW S, NEW queue \in Seq(S), NEW o
    PROVE  /\ IsFiniteSet({i \in 1..Len(queue) : queue[i] = o})
           /\ Entries(o, queue) =
                Cardinality({i \in 1..Len(queue) : queue[i] = o})
           /\ Entries(o, queue) \in Nat
<1> DEFINE A == {i \in 1..Len(queue) : queue[i] = o}
<1>1. Len(queue) \in Nat /\ DOMAIN queue = 1..Len(queue)
  BY LenProperties
<1>2. IsFiniteSet(1..Len(queue)) /\ A \in SUBSET (1..Len(queue))
  BY <1>1, FS_Interval
<1>3. IsFiniteSet(A)
  BY <1>2, FS_Subset
<1>4. Cardinality(A) \in Nat
  BY <1>3, FS_CardinalityType
<1> QED BY <1>1, <1>3, <1>4 DEF Entries

\* An empty queue holds none.
LEMMA EntriesEmpty == ASSUME NEW o PROVE Entries(o, <<>>) = 0
<1>1. {i \in DOMAIN <<>> : <<>>[i] = o} = {}
  OBVIOUS
<1> QED BY <1>1, FS_EmptySet DEF Entries

\* Two queues in a row hold what each holds.
LEMMA EntriesConcat ==
    ASSUME NEW S, NEW q \in Seq(S), NEW r \in Seq(S), NEW o
    PROVE  Entries(o, q \o r) = Entries(o, q) + Entries(o, r)
<1> DEFINE qr == q \o r
<1>1. PICK m \in Nat, n \in Nat : m = Len(q) /\ n = Len(r)
  BY LenProperties
<1>2. /\ qr \in Seq(S) /\ Len(qr) = m + n
      /\ \A i \in 1..(m + n) : qr[i] = IF i <= m THEN q[i] ELSE r[i - m]
  BY <1>1, ConcatProperties
<1> HIDE DEF qr
<1> DEFINE A == {i \in 1..m : q[i] = o}
           B == {i \in 1..n : r[i] = o}
           C == {i \in (m + 1)..(m + n) : r[i - m] = o}
           f == [i \in B |-> m + i]
<1>3. {i \in 1..(m + n) : qr[i] = o} = A \cup C
  BY <1>2
<1>4. A \cap C = {}
  OBVIOUS
<1>5. f \in Bijection(B, C)
  <2>1. f \in [B -> C]
    OBVIOUS
  <2>2. \A i, j \in B : f[i] = f[j] => i = j
    OBVIOUS
  <2>3. ASSUME NEW c \in C PROVE \E i \in B : f[i] = c
    <3>1. c - m \in B /\ f[c - m] = c
      OBVIOUS
    <3> QED BY <3>1
  <2> HIDE DEF f, B, C
  <2> QED BY <2>1, <2>2, <2>3
         DEF Bijection, Injection, Surjection, IsInjective
<1>6. /\ IsFiniteSet(A) /\ Entries(o, q) = Cardinality(A)
      /\ IsFiniteSet(B) /\ Entries(o, r) = Cardinality(B)
      /\ Entries(o, qr) = Cardinality(A \cup C)
  <2>1. /\ IsFiniteSet(A) /\ Entries(o, q) = Cardinality(A)
        /\ IsFiniteSet(B) /\ Entries(o, r) = Cardinality(B)
    BY <1>1, EntriesType
  <2>2. Entries(o, qr) = Cardinality({i \in 1..(m + n) : qr[i] = o})
    BY <1>2, EntriesType
  <2> HIDE DEF A, B, C
  <2> QED BY <1>3, <2>1, <2>2
<1> HIDE DEF A, B, C, f
<1>7. IsFiniteSet(C) /\ Cardinality(C) = Cardinality(B)
  BY <1>5, <1>6, FS_Bijection DEF ExistsBijection
<1>8. Cardinality(A \cap C) = 0
  BY <1>4, FS_EmptySet
<1>9. Cardinality(A \cup C) = Cardinality(A) + Cardinality(C) - Cardinality(A \cap C)
  BY <1>6, <1>7, FS_Union
<1>10. Cardinality(A) \in Nat /\ Cardinality(C) \in Nat
  BY <1>6, <1>7, FS_CardinalityType
<1> QED BY <1>6, <1>7, <1>8, <1>9, <1>10 DEF qr

\* A queue of one handler holds that of its object.
LEMMA EntriesOne ==
    ASSUME NEW p, NEW o
    PROVE  Entries(o, <<p>>) = IF p = o THEN 1 ELSE 0
<1>1. {i \in DOMAIN <<p>> : <<p>>[i] = o} = IF p = o THEN {1} ELSE {}
  OBVIOUS
<1> QED BY <1>1, FS_EmptySet, FS_Singleton DEF Entries

\* A handler is queued.
LEMMA EntriesAppend ==
    ASSUME NEW S, NEW q \in Seq(S), NEW p \in S, NEW o
    PROVE  Entries(o, Append(q, p)) =
             Entries(o, q) + IF p = o THEN 1 ELSE 0
<1>1. <<p>> \in Seq(S) /\ Append(q, p) = q \o <<p>>
  OBVIOUS
<1>2. Entries(o, Append(q, p)) = Entries(o, q) + Entries(o, <<p>>)
  BY <1>1, EntriesConcat
<1> QED BY <1>2, EntriesOne

\* The first handler is taken.
LEMMA EntriesTail ==
    ASSUME NEW S, NEW q \in Seq(S), q # <<>>, NEW o
    PROVE  /\ Head(q) \in S /\ Tail(q) \in Seq(S)
           /\ Entries(o, q) =
                Entries(o, Tail(q)) + IF Head(q) = o THEN 1 ELSE 0
<1>1. Head(q) \in S /\ Tail(q) \in Seq(S)
  BY HeadTailProperties
<1>2. <<Head(q)>> \in Seq(S) /\ q = <<Head(q)>> \o Tail(q)
  OBVIOUS
<1>3. Entries(o, q) = Entries(o, <<Head(q)>>) + Entries(o, Tail(q))
  BY <1>1, <1>2, EntriesConcat
<1>4. Entries(o, Tail(q)) \in Nat
  BY <1>1, EntriesType
<1> QED BY <1>1, <1>3, <1>4, EntriesOne

\* What freed objects have under way, and a queue of it.
UnderWay(counts, freed) ==
    {p \in freed \X (1..MaxOps) : p[2] <= counts[p[1]]}
Owners(order) == [i \in DOMAIN order |-> order[i][1]]

\* The handlers that a freed object leaves in the queue, in any order, are those
\* of what it had under way.
LEMMA EntriesFreed ==
    ASSUME NEW counts \in [Objects -> 0..MaxOps], NEW freed \in SUBSET Objects,
           NEW order \in SetToSeqs(UnderWay(counts, freed))
    PROVE  /\ Owners(order) \in Seq(Objects)
           /\ \A o \in Objects : Entries(o, Owners(order)) =
                                   IF o \in freed THEN counts[o] ELSE 0
<1> DEFINE P == {p \in freed \X (1..MaxOps) : p[2] <= counts[p[1]]}
           q == [i \in DOMAIN order |-> order[i][1]]
<1>0. UnderWay(counts, freed) = P /\ Owners(order) = q
  BY DEF UnderWay, Owners
<1>1. MaxOps \in Nat /\ IsFiniteSet(freed)
  BY ObjectsAssumption, FS_Subset
<1>2. IsFiniteSet(P)
  <2>1. IsFiniteSet(freed \X (1..MaxOps))
    <3>1. IsFiniteSet(1..MaxOps)
      BY <1>1, FS_Interval
    <3> QED BY <1>1, <3>1, FS_Product
  <2> QED BY <2>1, FS_Subset
<1>3. Names(order, P)
  BY <1>0, <1>2, OrderNames
<1>4. PICK n \in Nat : n = Len(order) /\ DOMAIN order = 1..n
  BY <1>3, LenProperties DEF Names
<1>5. \A i \in 1..n : order[i] \in P
  BY <1>3, <1>4, ElementOfSeq DEF Names
<1>6. /\ \A i, j \in 1..n : order[i] = order[j] => i = j
      /\ \A p \in P : \E i \in 1..n : order[i] = p
  BY <1>3, <1>4 DEF Names
<1>7. \A i \in 1..n : /\ order[i][1] \in freed /\ order[i][2] \in 1..MaxOps
                      /\ order[i][2] <= counts[order[i][1]]
                      /\ order[i] = <<order[i][1], order[i][2]>>
  BY <1>5
<1>8. q \in Seq(Objects) /\ DOMAIN q = 1..n /\ \A i \in 1..n : q[i] = order[i][1]
  BY <1>4, <1>7
<1> SUFFICES ASSUME NEW o \in Objects
             PROVE  Entries(o, q) = IF o \in freed THEN counts[o] ELSE 0
  BY <1>0, <1>8
<1> DEFINE A == {i \in 1..n : order[i][1] = o}
<1>9. Entries(o, q) = Cardinality(A)
  <2>1. {i \in DOMAIN q : q[i] = o} = A
    BY <1>8
  <2> HIDE DEF A
  <2> QED BY <2>1 DEF Entries
<1>10. CASE o \notin freed
  <2>1. A = {}
    BY <1>7, <1>10
  <2> QED BY <1>9, <1>10, <2>1, FS_EmptySet
<1>11. CASE o \in freed
  <2> DEFINE c == counts[o]
             f == [i \in A |-> order[i][2]]
  <2>1. c \in Nat /\ c <= MaxOps
    BY <1>1
  <2>2. f \in [A -> 1..c]
    BY <1>7, <2>1
  <2>3. ASSUME NEW i \in A, NEW j \in A, f[i] = f[j] PROVE i = j
    <3>1. order[i] = order[j]
      BY <1>7, <2>3
    <3> QED BY <1>6, <3>1
  <2>4. ASSUME NEW k \in 1..c PROVE \E i \in A : f[i] = k
    <3>1. <<o, k>> \in P
      BY <1>11, <2>1, <1>1
    <3>2. PICK i \in 1..n : order[i] = <<o, k>>
      BY <1>6, <3>1
    <3> QED BY <3>2
  <2>5. IsFiniteSet(A) /\ IsFiniteSet(1..c) /\ Cardinality(1..c) = c
    <3>1. IsFiniteSet(1..n)
      BY FS_Interval
    <3>2. A \in SUBSET (1..n)
      OBVIOUS
    <3> HIDE DEF A, c
    <3>3. IsFiniteSet(A)
      BY <3>1, <3>2, FS_Subset
    <3>4. IsFiniteSet(1..c) /\ Cardinality(1..c) = IF 1 > c THEN 0 ELSE c - 1 + 1
      BY <2>1, FS_Interval
    <3> QED BY <2>1, <3>3, <3>4
  <2> HIDE DEF f, A, c
  <2>6. f \in Bijection(A, 1..c)
    BY <2>2, <2>3, <2>4 DEF Bijection, Injection, Surjection, IsInjective
  <2>7. Cardinality(A) = c
    BY <2>5, <2>6, FS_Bijection DEF ExistsBijection
  <2> QED BY <1>9, <1>11, <2>7 DEF c
<1> QED BY <1>10, <1>11

(***************************************************************************)
(* What an object has outstanding                                          *)
(***************************************************************************)
\* The initial state is of the types.
LEMMA TypeInit == Init => TypeOK
<1> SUFFICES ASSUME Init PROVE TypeOK
  OBVIOUS
<1>1. MaxOps \in Nat /\ None \notin Objects
  BY ObjectsAssumption
<1>2. ready = <<>> /\ \A o \in Objects : started[o] = 0 /\ pending[o] = 0
      /\ running # o
  BY <1>1 DEF Init
<1>3. ASSUME NEW o \in Objects PROVE Outstanding(o) <= started[o]
  BY <1>2, EntriesEmpty DEF Outstanding
<1>4. /\ started \in [Objects -> 0..MaxOps] /\ pending \in [Objects -> 0..MaxOps]
      /\ object \in [Objects -> {"none", "alive", "freed"}]
  BY <1>1 DEF Init
<1>5. ready \in Seq(Objects) /\ running \in Objects \cup {None}
  BY DEF Init
<1>6. plugin = "constructed" /\ api = "none" /\ work = FALSE /\ thread = "none"
      /\ misused = {}
  BY DEF Init
<1> QED BY <1>3, <1>4, <1>5, <1>6 DEF TypeOK

\* The numbers of an object are naturals, and within MaxOps.
LEMMA Numbers ==
    ASSUME TypeOK, NEW o \in Objects
    PROVE  /\ MaxOps \in Nat /\ None \notin Objects
           /\ started[o] \in Nat /\ pending[o] \in Nat
           /\ Entries(o, ready) \in Nat /\ Outstanding(o) \in Nat
           /\ Outstanding(o) <= started[o] /\ started[o] <= MaxOps
           /\ Outstanding(o) = pending[o] + Entries(o, ready)
                                 + IF running = o THEN 1 ELSE 0
<1>1. MaxOps \in Nat /\ None \notin Objects
  BY ObjectsAssumption
<1>2. Entries(o, ready) \in Nat
  BY EntriesType DEF TypeOK
<1>3. started[o] \in 0..MaxOps /\ pending[o] \in 0..MaxOps
      /\ Outstanding(o) <= started[o]
  BY DEF TypeOK
<1> QED BY <1>1, <1>2, <1>3 DEF Outstanding

\* When an object is freed, what it has under way comes to the queue.
LEMMA FreeCounts ==
    ASSUME TypeOK, NEW freed \in SUBSET Objects, Free(freed)
    PROVE  /\ pending' \in [Objects -> 0..MaxOps] /\ ready' \in Seq(Objects)
           /\ object' \in [Objects -> {"none", "alive", "freed"}]
           /\ \A o \in Objects :
                /\ pending'[o] + Entries(o, ready')
                     = pending[o] + Entries(o, ready)
                /\ o \in freed => object'[o] = "freed"
                /\ o \notin freed =>
                     /\ object'[o] = object[o] /\ pending'[o] = pending[o]
                     /\ Entries(o, ready') = Entries(o, ready)
<1>1. MaxOps \in Nat /\ ready \in Seq(Objects) /\ pending \in [Objects -> 0..MaxOps]
      /\ object \in [Objects -> {"none", "alive", "freed"}]
  BY ObjectsAssumption DEF TypeOK
<1>2. /\ object' = [o \in Objects |-> IF o \in freed THEN "freed" ELSE object[o]]
      /\ pending' = [o \in Objects |-> IF o \in freed THEN 0 ELSE pending[o]]
  BY DEF Free
<1>3. PICK order \in SetToSeqs(UnderWay(pending, freed)) :
         ready' = ready \o Owners(order)
  BY DEF Free, UnderWay, Owners
<1> DEFINE q == Owners(order)
<1>4. /\ q \in Seq(Objects)
      /\ \A o \in Objects : Entries(o, q) = IF o \in freed THEN pending[o] ELSE 0
  <2>1. pending \in [Objects -> 0..MaxOps]
        /\ order \in SetToSeqs(UnderWay(pending, freed))
    BY <1>1, <1>3
  <2>2. freed \in SUBSET Objects
    OBVIOUS
  <2>3. \A c \in [Objects -> 0..MaxOps], s \in SUBSET Objects :
          \A r \in SetToSeqs(UnderWay(c, s)) :
             /\ Owners(r) \in Seq(Objects)
             /\ \A o \in Objects : Entries(o, Owners(r)) =
                                   IF o \in s THEN c[o] ELSE 0
    BY EntriesFreed, Zenon
  <2>4. /\ Owners(order) \in Seq(Objects)
        /\ \A o \in Objects : Entries(o, Owners(order)) =
                                IF o \in freed THEN pending[o] ELSE 0
    BY <2>1, <2>2, <2>3
  <2> QED BY <2>4
<1>5. ready' = ready \o q
  BY <1>3
<1> HIDE DEF q
<1>6. ready' \in Seq(Objects)
  BY <1>1, <1>4, <1>5, ConcatProperties
<1>7. ASSUME NEW o \in Objects
      PROVE  /\ pending'[o] + Entries(o, ready') = pending[o] + Entries(o, ready)
             /\ o \in freed => object'[o] = "freed"
             /\ o \notin freed =>
                  /\ object'[o] = object[o] /\ pending'[o] = pending[o]
                  /\ Entries(o, ready') = Entries(o, ready)
  <2>1. Entries(o, ready') = Entries(o, ready) + Entries(o, q)
    BY <1>1, <1>4, <1>5, EntriesConcat
  <2>2. Entries(o, ready) \in Nat /\ pending[o] \in Nat
    BY Numbers
  <2>3. Entries(o, q) = IF o \in freed THEN pending[o] ELSE 0
    BY <1>4
  <2>4. /\ pending'[o] = IF o \in freed THEN 0 ELSE pending[o]
        /\ object'[o] = IF o \in freed THEN "freed" ELSE object[o]
    BY <1>2
  <2> QED BY <2>1, <2>2, <2>3, <2>4
<1> QED BY <1>1, <1>2, <1>6, <1>7

\* A step that starts an operation of one object.
LEMMA StartsCounts ==
    ASSUME TypeOK, NEW p \in Objects, Starts(p)
    PROVE  /\ started' \in [Objects -> 0..MaxOps]
           /\ \A o \in Objects :
                /\ started'[o] = started[o] + IF o = p THEN 1 ELSE 0
                /\ pending'[o] = pending[o] + IF o = p THEN 1 ELSE 0
           /\ pending' \in [Objects -> 0..MaxOps]
<1>1. /\ MaxOps \in Nat /\ started \in [Objects -> 0..MaxOps]
      /\ pending \in [Objects -> 0..MaxOps] /\ started[p] < MaxOps
      /\ started' = [started EXCEPT ![p] = @ + 1]
      /\ pending' = [pending EXCEPT ![p] = @ + 1]
  BY ObjectsAssumption DEF TypeOK, Starts
<1>2. pending[p] + 1 <= MaxOps
  BY <1>1, Numbers
<1> QED BY <1>1, <1>2

\* Every step keeps the types, and what is outstanding was started.
LEMMA TypeNext == TypeOK /\ [Next]_vars => TypeOK'
<1> SUFFICES ASSUME TypeOK, [Next]_vars PROVE TypeOK'
  OBVIOUS
<1>0. \A o \in Objects :
        /\ MaxOps \in Nat /\ None \notin Objects
        /\ started[o] \in Nat /\ pending[o] \in Nat
        /\ Entries(o, ready) \in Nat /\ Outstanding(o) \in Nat
        /\ Outstanding(o) <= started[o] /\ started[o] <= MaxOps
        /\ Outstanding(o) = pending[o] + Entries(o, ready)
                              + IF running = o THEN 1 ELSE 0
  BY Numbers
<1>1. CASE Shutdown \/ CreateJSAPI \/ OnPluginReady
  <2>1. UNCHANGED <<object, started, pending, ready, running, misused>>
    BY <1>1 DEF Shutdown, CreateJSAPI, OnPluginReady
  <2>2. \A o \in Objects : Outstanding(o)' <= started'[o]
    BY <1>0, <2>1 DEF Outstanding
  <2> QED
    BY <1>1, <2>1, <2>2 DEF Shutdown, CreateJSAPI, OnPluginReady, TypeOK
<1>2. CASE ReleaseObjects \/ \E o \in Objects : Release(o)
  <2>1. PICK freed \in SUBSET Objects : Free(freed)
    BY <1>2 DEF ReleaseObjects, Release
  <2>2. UNCHANGED <<work, thread, started, running, misused>>
    BY <1>2 DEF ReleaseObjects, Release
  <2>3. plugin' \in {plugin, "dying"} /\ api' \in {api, "alive", "released"}
    BY <1>2 DEF ReleaseObjects, Release
  <2>4. /\ pending' \in [Objects -> 0..MaxOps] /\ ready' \in Seq(Objects)
        /\ object' \in [Objects -> {"none", "alive", "freed"}]
        /\ \A o \in Objects : pending'[o] + Entries(o, ready')
                                = pending[o] + Entries(o, ready)
    BY <2>1, FreeCounts
  <2>5. ASSUME NEW o \in Objects PROVE Outstanding(o)' <= started'[o]
    BY <1>0, <2>2, <2>4 DEF Outstanding
  <2> QED BY <2>2, <2>3, <2>4, <2>5 DEF TypeOK
<1>3. CASE DestroyMembers
  <2>1. ready' = <<>> /\ pending' = [o \in Objects |-> 0] /\ plugin' = "gone"
        /\ misused' \subseteq {"io_service", "object"}
        /\ UNCHANGED <<api, work, thread, object, started, running>>
    BY <1>3 DEF DestroyMembers, TypeOK
  <2>2. ASSUME NEW o \in Objects PROVE Outstanding(o)' <= started'[o]
    <3>1. Entries(o, ready)' = 0
      BY <2>1, EntriesEmpty
    <3> QED BY <1>0, <2>1, <3>1 DEF Outstanding
  <2>3. ready' \in Seq(Objects) /\ pending' \in [Objects -> 0..MaxOps]
    BY <2>1, ObjectsAssumption
  <2> QED BY <2>1, <2>2, <2>3 DEF TypeOK
<1>4. ASSUME NEW p \in Objects, Create(p) PROVE TypeOK'
  <2>1. UNCHANGED <<plugin, api, work, thread, started, pending, ready, running>>
    BY <1>4 DEF Create
  <2>2. /\ object' \in [Objects -> {"none", "alive", "freed"}]
        /\ misused' \subseteq {"io_service", "object"}
    BY <1>4 DEF Create, TypeOK
  <2>3. \A o \in Objects : Outstanding(o)' <= started'[o]
    BY <1>0, <2>1 DEF Outstanding
  <2> QED BY <2>1, <2>2, <2>3 DEF TypeOK
<1>5. ASSUME NEW p \in Objects, StartOp(p) PROVE TypeOK'
  <2>1. UNCHANGED <<plugin, api, work, thread, object, ready, running, misused>>
    BY <1>5 DEF StartOp
  <2>2. /\ started' \in [Objects -> 0..MaxOps] /\ pending' \in [Objects -> 0..MaxOps]
        /\ \A o \in Objects :
             /\ started'[o] = started[o] + IF o = p THEN 1 ELSE 0
             /\ pending'[o] = pending[o] + IF o = p THEN 1 ELSE 0
    BY <1>5, StartsCounts DEF StartOp
  <2>3. ASSUME NEW o \in Objects PROVE Outstanding(o)' <= started'[o]
    BY <1>0, <2>1, <2>2 DEF Outstanding
  <2> QED BY <2>1, <2>2, <2>3 DEF TypeOK
<1>6. CASE HandlerBegins
  <2>1. /\ running = None /\ ready # <<>> /\ ready \in Seq(Objects)
        /\ running' = Head(ready) /\ ready' = Tail(ready)
        /\ UNCHANGED <<plugin, api, work, thread, object, started, pending>>
    BY <1>6 DEF HandlerBegins, TypeOK
  <2>2. misused' \subseteq {"io_service", "object"}
    BY <1>6 DEF HandlerBegins, TypeOK
  <2>3. running' \in Objects /\ ready' \in Seq(Objects)
        /\ \A o \in Objects : Entries(o, ready) =
             Entries(o, ready') + IF running' = o THEN 1 ELSE 0
    BY <2>1, EntriesTail
  <2>4. ASSUME NEW o \in Objects PROVE Outstanding(o)' <= started'[o]
    <3>1. running # o
      BY <1>0, <2>1
    <3>2. Entries(o, ready') \in Nat
      BY <2>3, EntriesType
    <3>3. Entries(o, ready) = Entries(o, ready') + IF running' = o THEN 1 ELSE 0
      BY <2>3
    <3>4. pending[o] \in Nat /\ pending'[o] = pending[o] /\ started'[o] = started[o]
      BY <1>0, <2>1
    <3>5. Outstanding(o)' = Outstanding(o)
      BY <3>1, <3>2, <3>3, <3>4 DEF Outstanding
    <3> QED BY <1>0, <3>4, <3>5
  <2> QED BY <2>1, <2>2, <2>3, <2>4 DEF TypeOK
<1>7. CASE HandlerEnds
  <2>1. /\ running \in Objects /\ running' = None
        /\ UNCHANGED <<plugin, api, work, thread, object, ready>>
    BY <1>7 DEF HandlerEnds, TypeOK
  <2>2. misused' \subseteq {"io_service", "object"}
    BY <1>7 DEF HandlerEnds, TypeOK
  <2>3. Starts(running) \/ UNCHANGED <<started, pending>>
    BY <1>7 DEF HandlerEnds
  <2>4. CASE Starts(running)
    <3>1. /\ started' \in [Objects -> 0..MaxOps] /\ pending' \in [Objects -> 0..MaxOps]
          /\ \A o \in Objects :
               /\ started'[o] = started[o] + IF o = running THEN 1 ELSE 0
               /\ pending'[o] = pending[o] + IF o = running THEN 1 ELSE 0
      BY <2>1, <2>4, StartsCounts
    <3>2. ASSUME NEW o \in Objects PROVE Outstanding(o)' <= started'[o]
      BY <1>0, <2>1, <3>1 DEF Outstanding
    <3> QED BY <2>1, <2>2, <3>1, <3>2 DEF TypeOK
  <2>5. CASE UNCHANGED <<started, pending>>
    <3>1. ASSUME NEW o \in Objects PROVE Outstanding(o)' <= started'[o]
      BY <1>0, <2>1, <2>5 DEF Outstanding
    <3> QED BY <2>1, <2>2, <2>5, <3>1 DEF TypeOK
  <2> QED BY <2>3, <2>4, <2>5
<1>8. CASE RunReturns
  <2>1. UNCHANGED <<plugin, api, work, object, started, pending, ready, running,
                    misused>> /\ thread' = "returned"
    BY <1>8 DEF RunReturns
  <2>2. \A o \in Objects : Outstanding(o)' <= started'[o]
    BY <1>0, <2>1 DEF Outstanding
  <2> QED BY <2>1, <2>2 DEF TypeOK
<1>9. ASSUME NEW p \in Objects, Completes(p) PROVE TypeOK'
  <2>1. /\ pending[p] > 0 /\ pending' = [pending EXCEPT ![p] = @ - 1]
        /\ ready' = Append(ready, p) /\ ready \in Seq(Objects)
        /\ pending \in [Objects -> 0..MaxOps]
        /\ UNCHANGED <<plugin, api, work, thread, object, started, running, misused>>
    BY <1>9 DEF Completes, TypeOK
  <2>2. ready' \in Seq(Objects) /\ pending' \in [Objects -> 0..MaxOps]
    BY <1>0, <2>1
  <2>3. \A o \in Objects : Entries(o, ready') =
          Entries(o, ready) + IF p = o THEN 1 ELSE 0
    BY <2>1, EntriesAppend
  <2>4. ASSUME NEW o \in Objects PROVE Outstanding(o)' <= started'[o]
    <3>1. pending'[o] = pending[o] - IF p = o THEN 1 ELSE 0
      BY <1>0, <2>1
    <3> QED BY <1>0, <2>1, <2>3, <3>1 DEF Outstanding
  <2> QED BY <2>1, <2>2, <2>4 DEF TypeOK
<1>10. CASE UNCHANGED vars
  <2>1. \A o \in Objects : Outstanding(o)' <= started'[o]
    BY <1>0, <1>10 DEF Outstanding, vars
  <2> QED BY <1>10, <2>1 DEF vars, TypeOK
<1> QED
  BY <1>1, <1>2, <1>3, <1>4, <1>5, <1>6, <1>7, <1>8, <1>9, <1>10
     DEF Next, Host, Page, IoThread

\* Types, and an object has no more outstanding than it started, whatever is
\* released or destroyed meanwhile (FlintPlugin, FlintPluginAPI).
THEOREM TypeCorrect == Spec => []TypeOK
  BY TypeInit, TypeNext, PTL DEF Spec

(***************************************************************************)
(* What arrives at a responder                                             *)
(***************************************************************************)
Got == Sizes \cup {0}

\* What InOrder says, over the indices of sequences of lengths m and n.
Places(line, came, m, n) ==
    \E at \in [1..n -> 1..m] :
        /\ \A j, k \in 1..n : j < k => at[j] < at[k]
        /\ \A k \in 1..n : line[at[k]] = came[k]
        /\ \A i \in 1..m : line[i] # 0 => \E k \in 1..n : at[k] = i

\* Both say the same of sequences.
LEMMA InOrderPlaces ==
    ASSUME NEW line \in Seq(Got), NEW came \in Seq(Got)
    PROVE  InOrder(line, came) <=> Places(line, came, Len(line), Len(came))
<1>1. DOMAIN line = 1..Len(line) /\ DOMAIN came = 1..Len(came)
  BY LenProperties
<1> QED BY <1>1 DEF InOrder, Places

\* The next datagram comes last.
LEMMA InOrderNext ==
    ASSUME NEW line \in Seq(Got), NEW came \in Seq(Got), NEW size \in Got,
           InOrder(line, came)
    PROVE  InOrder(Append(line, size), Append(came, size))
<1> DEFINE next == Append(line, size)
           more == Append(came, size)
<1>1. PICK m \in Nat, n \in Nat : m = Len(line) /\ n = Len(came)
  BY LenProperties
<1>2. /\ next \in Seq(Got) /\ Len(next) = m + 1 /\ next[m + 1] = size
      /\ \A i \in 1..m : next[i] = line[i]
  BY <1>1
<1>3. /\ more \in Seq(Got) /\ Len(more) = n + 1 /\ more[n + 1] = size
      /\ \A k \in 1..n : more[k] = came[k]
  BY <1>1
<1>4. PICK at \in [1..n -> 1..m] :
         /\ \A j, k \in 1..n : j < k => at[j] < at[k]
         /\ \A k \in 1..n : line[at[k]] = came[k]
         /\ \A i \in 1..m : line[i] # 0 => \E k \in 1..n : at[k] = i
  <2>1. Places(line, came, m, n)
    BY <1>1, InOrderPlaces
  <2> QED BY <2>1 DEF Places
<1> HIDE DEF next, more
<1> DEFINE to == [k \in 1..(n + 1) |-> IF k <= n THEN at[k] ELSE m + 1]
<1>5. /\ to \in [1..(n + 1) -> 1..(m + 1)] /\ to[n + 1] = m + 1
      /\ \A k \in 1..n : to[k] = at[k] /\ k \in 1..(n + 1)
  <2>1. \A k \in 1..(n + 1) : k <= n => at[k] \in 1..(m + 1)
    BY <1>4
  <2> QED BY <2>1
<1> HIDE DEF to
<1>6. \A k \in 1..(n + 1) : k \in 1..n \/ k = n + 1
  OBVIOUS
<1>7. ASSUME NEW j \in 1..(n + 1), NEW k \in 1..(n + 1), j < k
      PROVE  to[j] < to[k]
  <2>1. j \in 1..n
    BY <1>7
  <2>2. CASE k \in 1..n
    BY <1>4, <1>5, <1>7, <2>1, <2>2
  <2>3. CASE k = n + 1
    <3>1. at[j] \in 1..m /\ to[j] = at[j] /\ to[k] = m + 1
      BY <1>4, <1>5, <2>1, <2>3
    <3> QED BY <3>1
  <2> QED BY <1>6, <2>2, <2>3
<1>8. ASSUME NEW k \in 1..(n + 1) PROVE next[to[k]] = more[k]
  <2>1. CASE k \in 1..n
    <3>1. at[k] \in 1..m /\ to[k] = at[k]
      BY <1>4, <1>5, <2>1
    <3>2. line[at[k]] = came[k] /\ more[k] = came[k]
      BY <1>3, <1>4, <2>1
    <3>3. next[at[k]] = line[at[k]]
      BY <1>2, <3>1
    <3> QED BY <3>1, <3>2, <3>3
  <2>2. CASE k = n + 1
    BY <1>2, <1>3, <1>5, <2>2
  <2> QED BY <1>6, <2>1, <2>2
<1>9. ASSUME NEW i \in 1..(m + 1), next[i] # 0
      PROVE  \E k \in 1..(n + 1) : to[k] = i
  <2>1. CASE i \in 1..m
    <3>1. PICK k \in 1..n : at[k] = i
      BY <1>2, <1>4, <1>9, <2>1
    <3> QED BY <1>5, <3>1
  <2>2. CASE i = m + 1
    <3>1. n + 1 \in 1..(n + 1)
      OBVIOUS
    <3> QED BY <1>5, <2>2, <3>1
  <2> QED BY <2>1, <2>2
<1>10. Places(next, more, m + 1, n + 1)
  BY <1>5, <1>7, <1>8, <1>9 DEF Places
<1>11. InOrder(next, more)
  BY <1>2, <1>3, <1>10, InOrderPlaces
<1> QED BY <1>11 DEF next, more

\* The 0 of a receive that failed changes nothing, wherever it is.
LEMMA InOrderFailure ==
    ASSUME NEW came \in Seq(Got), NEW a \in Seq(Got), NEW b \in Seq(Got),
           InOrder(a \o b, came)
    PROVE  InOrder(Append(a, 0) \o b, came)
<1> DEFINE old == a \o b
           c == Append(a, 0)
           new == c \o b
<1>1. PICK m \in Nat, l \in Nat, n \in Nat :
         m = Len(a) /\ l = Len(b) /\ n = Len(came)
  BY LenProperties
<1>2. /\ old \in Seq(Got) /\ Len(old) = m + l
      /\ \A i \in 1..(m + l) : old[i] = IF i <= m THEN a[i] ELSE b[i - m]
  BY <1>1, ConcatProperties
<1>3. /\ c \in Seq(Got) /\ Len(c) = m + 1
      /\ \A i \in 1..m : c[i] = a[i]
      /\ c[m + 1] = 0
  BY <1>1 DEF Got
<1>4. /\ new \in Seq(Got) /\ Len(new) = m + 1 + l
      /\ \A i \in 1..(m + 1 + l) :
           new[i] = IF i <= m + 1 THEN c[i] ELSE b[i - (m + 1)]
  <2>1. c \in Seq(Got) /\ b \in Seq(Got) /\ Len(c) = m + 1 /\ Len(b) = l
    BY <1>1, <1>3
  <2>2. Len(c) + Len(b) = m + 1 + l
    BY <2>1
  <2> HIDE DEF c
  <2>3. /\ new \in Seq(Got) /\ Len(new) = Len(c) + Len(b)
        /\ \A i \in 1..(Len(c) + Len(b)) :
             new[i] = IF i <= Len(c) THEN c[i] ELSE b[i - Len(c)]
    BY <2>1, ConcatProperties
  <2> HIDE DEF new
  <2> QED BY <2>1, <2>2, <2>3
<1> HIDE DEF old, new, c
<1> DEFINE by(i) == IF i <= m THEN i ELSE i + 1
<1>5. ASSUME NEW i \in 1..(m + l)
      PROVE  by(i) \in 1..(m + 1 + l) /\ new[by(i)] = old[i]
  <2>1. CASE i <= m
    <3>1. by(i) = i /\ i \in 1..m /\ i \in 1..(m + 1 + l) /\ i <= m + 1
      BY <2>1
    <3>2. new[i] = c[i] /\ old[i] = a[i] /\ c[i] = a[i]
      BY <1>2, <1>3, <1>4, <2>1, <3>1
    <3> QED BY <3>1, <3>2
  <2>2. CASE i > m
    <3>1. /\ by(i) = i + 1 /\ i + 1 \in 1..(m + 1 + l) /\ ~(i + 1 <= m + 1)
          /\ ~(i <= m) /\ i + 1 - (m + 1) = i - m
      BY <2>2
    <3>2. new[i + 1] = b[i + 1 - (m + 1)] /\ old[i] = b[i - m]
      BY <1>2, <1>4, <3>1
    <3> QED BY <3>1, <3>2
  <2> QED BY <2>1, <2>2
<1>6. ASSUME NEW i \in 1..(m + 1 + l), new[i] # 0
      PROVE  \E h \in 1..(m + l) : by(h) = i
  <2>1. i # m + 1
    <3>1. new[m + 1] = 0
      BY <1>3, <1>4
    <3> QED BY <1>6, <3>1
  <2>2. CASE i <= m
    <3>1. i \in 1..(m + l) /\ by(i) = i
      BY <2>2
    <3> QED BY <3>1
  <2>3. CASE i > m + 1
    <3>1. i - 1 \in 1..(m + l) /\ by(i - 1) = i
      BY <2>3
    <3> QED BY <3>1
  <2> QED BY <2>1, <2>2, <2>3
<1>7. \A h, i \in 1..(m + l) : h < i => by(h) < by(i)
  OBVIOUS
<1> HIDE DEF by
<1>9. PICK at \in [1..n -> 1..(m + l)] :
         /\ \A j, k \in 1..n : j < k => at[j] < at[k]
         /\ \A k \in 1..n : old[at[k]] = came[k]
         /\ \A i \in 1..(m + l) : old[i] # 0 => \E k \in 1..n : at[k] = i
  <2>1. InOrder(old, came)
    BY DEF old
  <2>2. Places(old, came, m + l, n)
    BY <1>1, <1>2, <2>1, InOrderPlaces
  <2> QED BY <2>2 DEF Places
<1> DEFINE to == [k \in 1..n |-> by(at[k])]
<1>10. to \in [1..n -> 1..(m + 1 + l)] /\ \A k \in 1..n : to[k] = by(at[k])
  BY <1>5, <1>9
<1> HIDE DEF to
<1>11. ASSUME NEW j \in 1..n, NEW k \in 1..n, j < k PROVE to[j] < to[k]
  BY <1>7, <1>9, <1>10, <1>11
<1>12. ASSUME NEW k \in 1..n PROVE new[to[k]] = came[k]
  BY <1>5, <1>9, <1>10
<1>13. ASSUME NEW i \in 1..(m + 1 + l), new[i] # 0
       PROVE  \E k \in 1..n : to[k] = i
  <2>1. PICK h \in 1..(m + l) : by(h) = i
    BY <1>6, <1>13
  <2>2. old[h] # 0
    BY <1>5, <1>13, <2>1
  <2>3. PICK k \in 1..n : at[k] = h
    BY <1>9, <2>2
  <2> QED BY <1>10, <2>1, <2>3
<1>14. Places(new, came, m + 1 + l, n)
  BY <1>10, <1>11, <1>12, <1>13 DEF Places
<1>15. InOrder(new, came)
  BY <1>1, <1>4, <1>14, InOrderPlaces
<1> QED BY <1>15 DEF new, c

\* The first of one queue becomes the last of the queue before it.
LEMMA MoveOne ==
    ASSUME NEW S, NEW a \in Seq(S), NEW b \in Seq(S), b # <<>>
    PROVE  /\ Head(b) \in S /\ Tail(b) \in Seq(S) /\ Append(a, Head(b)) \in Seq(S)
           /\ Append(a, Head(b)) \o Tail(b) = a \o b
<1>1. Head(b) \in S /\ Tail(b) \in Seq(S)
  BY HeadTailProperties
<1>2. b = <<Head(b)>> \o Tail(b) /\ <<Head(b)>> \in Seq(S)
  OBVIOUS
<1>3. Append(a, Head(b)) = a \o <<Head(b)>> /\ Append(a, Head(b)) \in Seq(S)
  BY <1>1
<1>4. (a \o <<Head(b)>>) \o Tail(b) = a \o (<<Head(b)>> \o Tail(b))
  BY <1>1, <1>2, ConcatAssociative
<1> QED BY <1>1, <1>2, <1>3, <1>4

\* What arrives comes last, behind all queues.
LEMMA AppendLast ==
    ASSUME NEW S, NEW a \in Seq(S), NEW b \in Seq(S), NEW e \in S
    PROVE  a \o Append(b, e) = Append(a \o b, e)
<1>1. Append(b, e) = b \o <<e>> /\ <<e>> \in Seq(S) /\ a \o b \in Seq(S)
  BY ConcatProperties
<1>2. Append(a \o b, e) = (a \o b) \o <<e>>
  BY <1>1
<1> QED BY <1>1, <1>2, ConcatAssociative

\* It also leaves the line as it was behind a third queue.
Moved(a, b, c) == a \o Append(b, Head(c)) \o Tail(c)

LEMMA MoveBetween ==
    ASSUME NEW a \in Seq(Got), NEW b \in Seq(Got), NEW c \in Seq(Got), c # <<>>
    PROVE  Moved(a, b, c) = a \o b \o c
<1> DEFINE d == Append(b, Head(c))
           e == Tail(c)
<1>a. d \o e = b \o c
  BY MoveOne, Zenon
<1>1. d \in Seq(Got) /\ e \in Seq(Got)
  BY MoveOne, Zenon
<1> HIDE DEF d, e
<1>2. (a \o d) \o e = a \o (d \o e)
  BY <1>1, ConcatAssociative
<1>3. (a \o b) \o c = a \o (b \o c)
  BY ConcatAssociative
<1>4. (a \o d) \o e = (a \o b) \o c
  BY <1>a, <1>2, <1>3, Zenon
<1> QED BY <1>4 DEF d, e, Moved

\* The same for three queues: printed, waiting, in the socket.
LEMMA InOrderQueues ==
    ASSUME NEW came \in Seq(Got), NEW a \in Seq(Got), NEW b \in Seq(Got),
           NEW c \in Seq(Got), InOrder(a \o b \o c, came)
    PROVE  /\ \A size \in Got :
                InOrder(a \o b \o Append(c, size), Append(came, size))
           /\ InOrder(a \o Append(b, 0) \o c, came)
           /\ c # <<>> => InOrder(a \o Append(b, Head(c)) \o Tail(c), came)
<1>1. a \o b \in Seq(Got) /\ a \o b \o c \in Seq(Got) /\ 0 \in Got
  BY ConcatProperties DEF Got
<1>2. ASSUME NEW size \in Got
      PROVE  InOrder(a \o b \o Append(c, size), Append(came, size))
  <2>1. (a \o b) \o Append(c, size) = Append((a \o b) \o c, size)
    <3>1. PICK line \in Seq(Got) : line = a \o b
      BY <1>1, Zenon
    <3>2. line \o Append(c, size) = Append(line \o c, size)
      BY AppendLast
    <3> QED BY <3>1, <3>2, Zenon
  <2>2. InOrder(Append(a \o b \o c, size), Append(came, size))
    BY <1>1, InOrderNext, Zenon
  <2> QED BY <2>1, <2>2, Zenon
<1>3. InOrder(a \o Append(b, 0) \o c, came)
  <2>1. a \o Append(b, 0) = Append(a \o b, 0)
    <3>1. PICK mark \in Got : mark = 0
      BY <1>1, Zenon
    <3>2. a \o Append(b, mark) = Append(a \o b, mark)
      BY AppendLast
    <3> QED BY <3>1, <3>2, Zenon
  <2>2. InOrder(Append(a \o b, 0) \o c, came)
    BY <1>1, InOrderFailure, Zenon
  <2> QED BY <2>1, <2>2, Zenon
<1>4. ASSUME c # <<>> PROVE InOrder(a \o Append(b, Head(c)) \o Tail(c), came)
  <2>1. Moved(a, b, c) = a \o b \o c
    BY <1>4, MoveBetween, Zenon
  <2>2. InOrder(Moved(a, b, c), came)
    BY <2>1, Zenon
  <2> QED BY <2>2 DEF Moved
<1> QED BY <1>2, <1>3, <1>4

(***************************************************************************)
(* Receives and what they got                                              *)
(***************************************************************************)
\* A step of the responders is a step of the plugin.
LEMMA SsdpIsPluginStep == [SsdpNext]_ssdpVars => [Next]_vars
  BY ObjectsAssumption
     DEF SsdpNext, SsdpIoThread, SsdpHandlerBegins, SsdpHandlerEnds, Network,
         Answer, Receive, ReceiveFails, ssdpVars, vars, Next, IoThread

LineTypes ==
    /\ arrived \in [Responders -> Seq(Got)] /\ socket \in [Responders -> Seq(Got)]
    /\ results \in [Responders -> Seq(Got)]
    /\ printed \in [Responders -> Seq(Got)]

\* The sizes printed, waiting for a handler and in the socket are, in this
\* order, those of the datagrams that arrived: of a freed object as well.
LineInv ==
    LineTypes /\ \A o \in Responders :
        InOrder(printed[o] \o results[o] \o socket[o], arrived[o])

\* Before its creation an object has nothing; as long as it lives each receive
\* is under way, waits, or was printed.
Counted(o) ==
    /\ object[o] = "none" =>
         started[o] = 0 /\ results[o] = <<>> /\ printed[o] = <<>>
    /\ object[o] = "alive" /\ plugin # "gone" =>
         /\ started[o] = pending[o] + Len(results[o]) + Len(printed[o])
         /\ Len(results[o]) = Entries(o, ready)

CountInv == \A o \in Responders : Counted(o)

SsdpInv == TypeOK /\ LineInv /\ CountInv

\* The initial state satisfies the invariant.
LEMMA SsdpInvInit == SsdpInit => SsdpInv
<1> SUFFICES ASSUME SsdpInit PROVE SsdpInv
  OBVIOUS
<1>1. TypeOK
  BY TypeInit DEF SsdpInit
<1>2. LineTypes
  BY DEF SsdpInit, LineTypes
<1>3. ASSUME NEW o \in Responders
      PROVE  InOrder(printed[o] \o results[o] \o socket[o], arrived[o])
  <2>1. printed[o] = <<>> /\ results[o] = <<>> /\ socket[o] = <<>>
        /\ arrived[o] = <<>>
    BY DEF SsdpInit
  <2>2. <<>> \o <<>> \o <<>> = <<>> /\ <<>> \in Seq(Got) /\ Len(<<>>) = 0
    OBVIOUS
  <2>3. PICK at \in [1..0 -> 1..0] : TRUE
    <3>1. [k \in 1..0 |-> k] \in [1..0 -> 1..0]
      OBVIOUS
    <3> QED BY <3>1
  <2>4. 1..0 = {}
    OBVIOUS
  <2>5. Places(<<>>, <<>>, 0, 0)
    BY <2>3, <2>4 DEF Places
  <2>6. InOrder(<<>>, <<>>)
    BY <2>2, <2>5, InOrderPlaces
  <2> QED BY <2>1, <2>2, <2>6
<1>4. CountInv
  <2> SUFFICES ASSUME NEW o \in Responders
               PROVE  object[o] = "none" /\ started[o] = 0 /\ results[o] = <<>>
                        /\ printed[o] = <<>>
    BY DEF CountInv, Counted
  <2> QED BY ObjectsAssumption DEF SsdpInit, Init
<1> QED BY <1>1, <1>2, <1>3, <1>4 DEF SsdpInv, LineInv

\* Only what concerns one object changes.
LEMMA LineStep ==
    ASSUME LineInv, LineTypes', NEW p \in Responders,
           \A o \in Responders : o # p =>
               /\ arrived'[o] = arrived[o] /\ socket'[o] = socket[o]
               /\ results'[o] = results[o] /\ printed'[o] = printed[o],
           InOrder(printed'[p] \o results'[p] \o socket'[p], arrived'[p])
    PROVE  LineInv'
<1>1. ASSUME NEW o \in Responders
      PROVE  InOrder(printed'[o] \o results'[o] \o socket'[o], arrived'[o])
  <2>1. CASE o = p
    BY <2>1
  <2>2. CASE o # p
    <3>1. InOrder(printed[o] \o results[o] \o socket[o], arrived[o])
      BY DEF LineInv
    <3> QED BY <2>2, <3>1
  <2> QED BY <2>1, <2>2
<1> QED BY <1>1 DEF LineInv

\* A datagram arrives.
LEMMA AnswerLine == ASSUME SsdpInv, NEW p \in Responders, Answer(p) PROVE LineInv'
<1>1. LineInv /\ LineTypes
  BY DEF SsdpInv, LineInv
<1>2. /\ arrived[p] \in Seq(Got) /\ socket[p] \in Seq(Got)
      /\ results[p] \in Seq(Got) /\ printed[p] \in Seq(Got)
      /\ InOrder(printed[p] \o results[p] \o socket[p], arrived[p])
  BY <1>1 DEF LineInv, LineTypes
<1>3. PICK size \in Sizes :
        /\ arrived' = [arrived EXCEPT ![p] = Append(@, size)]
        /\ socket' = [socket EXCEPT ![p] = Append(@, size)]
        /\ UNCHANGED <<results, printed>>
  BY DEF Answer
<1>4. /\ size \in Got /\ Append(socket[p], size) \in Seq(Got)
      /\ Append(arrived[p], size) \in Seq(Got)
  BY <1>2 DEF Got
<1>5. LineTypes'
  BY <1>1, <1>3, <1>4 DEF LineTypes
<1>8. InOrder(printed[p] \o results[p] \o Append(socket[p], size),
              Append(arrived[p], size))
  BY <1>2, <1>4, InOrderQueues
<1>9. /\ socket'[p] = Append(socket[p], size)
      /\ arrived'[p] = Append(arrived[p], size)
      /\ results'[p] = results[p] /\ printed'[p] = printed[p]
  BY <1>1, <1>3 DEF LineTypes
<1>10. \A o \in Responders : o # p =>
          /\ arrived'[o] = arrived[o] /\ socket'[o] = socket[o]
          /\ results'[o] = results[o] /\ printed'[o] = printed[o]
  BY <1>1, <1>3 DEF LineTypes
<1>11. InOrder(printed'[p] \o results'[p] \o socket'[p], arrived'[p])
  BY <1>8, <1>9
<1> QED BY <1>1, <1>5, <1>10, <1>11, LineStep

\* A receive takes the first datagram of the socket.
LEMMA ReceiveLine == ASSUME SsdpInv, NEW p \in Responders, Receive(p) PROVE LineInv'
<1>1. LineInv /\ LineTypes
  BY DEF SsdpInv, LineInv
<1>2. /\ arrived[p] \in Seq(Got) /\ socket[p] \in Seq(Got) /\ socket[p] # <<>>
      /\ results[p] \in Seq(Got) /\ printed[p] \in Seq(Got)
      /\ InOrder(printed[p] \o results[p] \o socket[p], arrived[p])
  BY <1>1 DEF LineInv, LineTypes, Receive
<1>3. /\ socket' = [socket EXCEPT ![p] = Tail(@)]
      /\ results' = [results EXCEPT ![p] = Append(@, Head(socket[p]))]
      /\ UNCHANGED <<arrived, printed>>
  BY DEF Receive
<1>4. /\ Tail(socket[p]) \in Seq(Got)
      /\ Append(results[p], Head(socket[p])) \in Seq(Got)
      /\ Append(results[p], Head(socket[p])) \o Tail(socket[p])
           = results[p] \o socket[p]
  BY <1>2, MoveOne
<1>5. LineTypes'
  BY <1>1, <1>3, <1>4 DEF LineTypes
<1>6. InOrder(printed[p] \o Append(results[p], Head(socket[p])) \o Tail(socket[p]),
              arrived[p])
  BY <1>2, InOrderQueues
<1>7. /\ socket'[p] = Tail(socket[p]) /\ printed'[p] = printed[p]
      /\ results'[p] = Append(results[p], Head(socket[p]))
      /\ arrived'[p] = arrived[p]
  BY <1>1, <1>3 DEF LineTypes
<1>8. \A o \in Responders : o # p =>
          /\ arrived'[o] = arrived[o] /\ socket'[o] = socket[o]
          /\ results'[o] = results[o] /\ printed'[o] = printed[o]
  BY <1>1, <1>3 DEF LineTypes
<1>9. InOrder(printed'[p] \o results'[p] \o socket'[p], arrived'[p])
  BY <1>2, <1>6, <1>7
<1> QED BY <1>1, <1>5, <1>8, <1>9, LineStep

\* A receive ends with an error.
LEMMA FailsLine ==
    ASSUME SsdpInv, NEW p \in Responders, ReceiveFails(p) PROVE LineInv'
<1>1. LineInv /\ LineTypes
  BY DEF SsdpInv, LineInv
<1>2. /\ arrived[p] \in Seq(Got) /\ socket[p] \in Seq(Got)
      /\ results[p] \in Seq(Got) /\ printed[p] \in Seq(Got)
      /\ InOrder(printed[p] \o results[p] \o socket[p], arrived[p])
  BY <1>1 DEF LineInv, LineTypes
<1>3. /\ results' = [results EXCEPT ![p] = Append(@, 0)]
      /\ UNCHANGED <<arrived, socket, printed>>
  BY DEF ReceiveFails
<1>4. 0 \in Got /\ Append(results[p], 0) \in Seq(Got)
  BY <1>2 DEF Got
<1>5. LineTypes'
  BY <1>1, <1>3, <1>4 DEF LineTypes
<1>8. InOrder(printed[p] \o Append(results[p], 0) \o socket[p], arrived[p])
  BY <1>2, InOrderQueues
<1>9. /\ results'[p] = Append(results[p], 0)
      /\ socket'[p] = socket[p] /\ printed'[p] = printed[p]
      /\ arrived'[p] = arrived[p]
  BY <1>1, <1>3 DEF LineTypes
<1>10. \A o \in Responders : o # p =>
          /\ arrived'[o] = arrived[o] /\ socket'[o] = socket[o]
          /\ results'[o] = results[o] /\ printed'[o] = printed[o]
  BY <1>1, <1>3 DEF LineTypes
<1>11. InOrder(printed'[p] \o results'[p] \o socket'[p], arrived'[p])
  BY <1>8, <1>9
<1> QED BY <1>1, <1>5, <1>10, <1>11, LineStep

\* A handler prints.
LEMMA PrintLine ==
    ASSUME SsdpInv, NEW p \in Responders, HandleReceivedFrom(p),
           results[p] # <<>>
    PROVE  LineInv'
<1>1. LineInv /\ LineTypes
  BY DEF SsdpInv, LineInv
<1>2. /\ socket[p] \in Seq(Got) /\ arrived[p] \in Seq(Got)
      /\ results[p] \in Seq(Got) /\ printed[p] \in Seq(Got)
      /\ InOrder(printed[p] \o results[p] \o socket[p], arrived[p])
  BY <1>1 DEF LineInv, LineTypes
<1>3. /\ results' = [results EXCEPT ![p] = Tail(@)]
      /\ printed' = [printed EXCEPT ![p] = Append(@, Head(results[p]))]
      /\ UNCHANGED <<arrived, socket>>
  BY DEF HandleReceivedFrom
<1>4. /\ Tail(results[p]) \in Seq(Got)
      /\ Append(printed[p], Head(results[p])) \in Seq(Got)
      /\ Append(printed[p], Head(results[p])) \o Tail(results[p])
           = printed[p] \o results[p]
  BY <1>2, MoveOne
<1>5. LineTypes'
  BY <1>1, <1>3, <1>4 DEF LineTypes
<1>6. /\ printed'[p] = Append(printed[p], Head(results[p]))
      /\ results'[p] = Tail(results[p])
      /\ socket'[p] = socket[p] /\ arrived'[p] = arrived[p]
  BY <1>1, <1>3 DEF LineTypes
<1>7. \A o \in Responders : o # p =>
          /\ arrived'[o] = arrived[o] /\ socket'[o] = socket[o]
          /\ results'[o] = results[o] /\ printed'[o] = printed[o]
  BY <1>1, <1>3 DEF LineTypes
<1>8. InOrder(printed'[p] \o results'[p] \o socket'[p], arrived'[p])
  BY <1>2, <1>4, <1>6
<1> QED BY <1>1, <1>5, <1>7, <1>8, LineStep

\* Nothing that the counts speak of changes.
LEMMA CountedSame ==
    ASSUME NEW o \in Responders, Counted(o),
           object'[o] = object[o], started'[o] = started[o],
           pending'[o] = pending[o], Entries(o, ready') = Entries(o, ready),
           results'[o] = results[o], printed'[o] = printed[o],
           plugin = "gone" => plugin' = "gone"
    PROVE  Counted(o)'
  BY DEF Counted

\* A step of host, page or thread that no responder's receive notices.
LEMMA PluginCounts ==
    ASSUME SsdpInv, [Host \/ Page]_vars, UNCHANGED datagramVars
    PROVE  CountInv'
<1>0. /\ TypeOK /\ CountInv /\ LineTypes
      /\ results' = results /\ printed' = printed
  BY DEF SsdpInv, LineInv, datagramVars
<1>1. ASSUME UNCHANGED <<object, started, pending, ready>>,
             plugin = "gone" => plugin' = "gone"
      PROVE  CountInv'
  BY <1>0, <1>1, CountedSame DEF CountInv
<1>2. CASE CreateJSAPI \/ OnPluginReady \/ Shutdown \/ UNCHANGED vars
  BY <1>1, <1>2 DEF CreateJSAPI, OnPluginReady, Shutdown, vars
<1>3. CASE ReleaseObjects \/ \E o \in Objects : Release(o)
  <2>1. PICK freed \in SUBSET Objects : Free(freed)
    BY <1>3 DEF ReleaseObjects, Release
  <2>2. started' = started /\ (plugin = "gone" => plugin' = "gone")
    BY <1>3 DEF ReleaseObjects, Release
  <2>3. ASSUME NEW o \in Responders PROVE Counted(o)'
    <3>1. o \in Objects
      BY ObjectsAssumption
    <3>2. CASE o \in freed
      <4>1. object'[o] = "freed"
        BY <1>0, <2>1, <3>1, <3>2, FreeCounts
      <4> QED BY <4>1 DEF Counted
    <3>3. CASE o \notin freed
      <4>1. /\ object'[o] = object[o] /\ pending'[o] = pending[o]
            /\ Entries(o, ready') = Entries(o, ready)
        BY <1>0, <2>1, <3>1, <3>3, FreeCounts
      <4> QED BY <1>0, <2>2, <4>1, CountedSame DEF CountInv
    <3> QED BY <3>2, <3>3
  <2> QED BY <2>3 DEF CountInv
<1>4. CASE DestroyMembers
  <2>1. plugin' = "gone" /\ UNCHANGED <<object, started>>
    BY <1>4 DEF DestroyMembers
  <2> QED BY <1>0, <2>1 DEF CountInv, Counted
<1>5. ASSUME NEW p \in Objects, Create(p) PROVE CountInv'
  <2>1. /\ UNCHANGED <<plugin, started, pending, ready>>
        /\ object[p] = "none"
        /\ object' = object \/ object' = [object EXCEPT ![p] = "alive"]
    BY <1>5 DEF Create
  <2>2. ASSUME NEW o \in Responders PROVE Counted(o)'
    <3>1. o \in Objects /\ object \in [Objects -> {"none", "alive", "freed"}]
      BY <1>0, ObjectsAssumption DEF TypeOK
    <3>2. CASE o = p /\ object'[o] = "alive"
      <4>1. started[o] = 0 /\ results[o] = <<>> /\ printed[o] = <<>>
        BY <1>0, <2>1, <3>2 DEF CountInv, Counted
      <4>2. pending[o] = 0 /\ Entries(o, ready) = 0
        BY <1>0, <3>1, <4>1, Numbers
      <4>3. /\ started'[o] = 0 /\ pending'[o] = 0 /\ Entries(o, ready') = 0
            /\ Len(results'[o]) = 0 /\ Len(printed'[o]) = 0
        BY <1>0, <2>1, <4>1, <4>2
      <4> QED BY <3>2, <4>3 DEF Counted
    <3>3. CASE object'[o] = object[o]
      BY <1>0, <2>1, <3>3, CountedSame DEF CountInv
    <3> QED BY <2>1, <3>1, <3>2, <3>3
  <2> QED BY <2>2 DEF CountInv
<1>6. ASSUME NEW p \in Objects, StartOp(p) PROVE CountInv'
  <2>1. /\ UNCHANGED <<plugin, object, ready>>
        /\ object[p] = "alive" /\ Starts(p)
    BY <1>6 DEF StartOp
  <2>2. ASSUME NEW o \in Responders PROVE Counted(o)'
    <3>1. o \in Objects
      BY ObjectsAssumption
    <3>2. /\ started'[o] = started[o] + IF o = p THEN 1 ELSE 0
          /\ pending'[o] = pending[o] + IF o = p THEN 1 ELSE 0
      BY <1>0, <2>1, <3>1, StartsCounts
    <3>3. Counted(o) /\ started[o] \in Nat /\ pending[o] \in Nat
      BY <1>0, <3>1, Numbers DEF CountInv
    <3>4. CASE o = p
      <4>1. PICK l \in Nat, m \in Nat :
              l = Len(results[o]) /\ m = Len(printed[o])
        BY <1>0, LenProperties DEF LineTypes
      <4>2. plugin # "gone" => /\ started[o] = pending[o] + l + m
                               /\ l = Entries(o, ready)
        BY <2>1, <3>3, <3>4, <4>1 DEF Counted
      <4>3. plugin' # "gone" => /\ started'[o] = pending'[o] + l + m
                                /\ l = Entries(o, ready')
        BY <2>1, <3>2, <3>3, <3>4, <4>2
      <4>4. object'[o] = "alive" /\ l = Len(results'[o]) /\ m = Len(printed'[o])
        BY <1>0, <2>1, <3>4, <4>1
      <4> QED BY <4>3, <4>4 DEF Counted
    <3>5. CASE o # p
      <4>1. started'[o] = started[o] /\ pending'[o] = pending[o]
        BY <3>2, <3>3, <3>5
      <4> QED BY <1>0, <2>1, <3>3, <4>1, CountedSame
    <3> QED BY <3>4, <3>5
  <2> QED BY <2>2 DEF CountInv
<1> QED
  BY <1>2, <1>3, <1>4, <1>5, <1>6 DEF Host, Page

\* A receive completes.
LEMMA ReceiveCounts ==
    ASSUME SsdpInv, NEW p \in Responders, Completes(p), printed' = printed,
           NEW got \in Got, results' = [results EXCEPT ![p] = Append(@, got)]
    PROVE  CountInv'
<1>0. TypeOK /\ CountInv /\ LineTypes
  BY DEF SsdpInv, LineInv
<1>1. /\ pending[p] > 0 /\ pending' = [pending EXCEPT ![p] = @ - 1]
      /\ ready' = Append(ready, p) /\ UNCHANGED <<plugin, object, started>>
      /\ ready \in Seq(Objects) /\ pending \in [Objects -> 0..MaxOps]
      /\ p \in Objects
  BY <1>0, ObjectsAssumption DEF Completes, TypeOK
<1>2. ASSUME NEW o \in Responders PROVE Counted(o)'
  <2>1. o \in Objects
    BY ObjectsAssumption
  <2>2. Entries(o, ready') = Entries(o, ready) + IF p = o THEN 1 ELSE 0
    BY <1>1, EntriesAppend
  <2>3. Counted(o) /\ started[o] \in Nat /\ pending[o] \in Nat
        /\ Entries(o, ready) \in Nat /\ pending[o] <= started[o]
    BY <1>0, <2>1, Numbers DEF CountInv
  <2>4. CASE o = p
    <3>1. object[o] # "none"
      BY <1>1, <2>3, <2>4 DEF Counted
    <3>2. PICK l \in Nat, m \in Nat :
            l = Len(results[o]) /\ m = Len(printed[o])
      BY <1>0, LenProperties DEF LineTypes
    <3>3. Len(results'[o]) = l + 1
      BY <1>0, <2>4, <3>2 DEF LineTypes
    <3>4. pending'[o] = pending[o] - 1
      BY <1>1, <2>4
    <3>5. object[o] = "alive" /\ plugin # "gone" =>
            /\ started[o] = pending[o] + l + m /\ l = Entries(o, ready)
      BY <2>3, <3>2 DEF Counted
    <3>6. object'[o] = "alive" /\ plugin' # "gone" =>
            /\ started'[o] = pending'[o] + (l + 1) + m
            /\ l + 1 = Entries(o, ready')
      BY <1>1, <2>2, <2>3, <2>4, <3>4, <3>5
    <3>7. m = Len(printed'[o])
      BY <3>2
    <3> QED BY <1>1, <3>1, <3>3, <3>6, <3>7 DEF Counted
  <2>5. CASE o # p
    <3>1. /\ pending'[o] = pending[o] /\ results'[o] = results[o]
          /\ Entries(o, ready') = Entries(o, ready)
      BY <1>0, <1>1, <2>1, <2>2, <2>3, <2>5 DEF LineTypes
    <3> QED BY <1>1, <2>3, <3>1, CountedSame
  <2> QED BY <2>4, <2>5
<1> QED BY <1>2 DEF CountInv

\* A handler begins; that of a living responder prints.
LEMMA BeginsCounts ==
    ASSUME SsdpInv, SsdpHandlerBegins
    PROVE  CountInv' /\ LineInv'
<1>0. TypeOK /\ CountInv /\ LineTypes /\ LineInv
  BY DEF SsdpInv, LineInv
<1>1. /\ plugin # "gone" /\ ready # <<>> /\ ready \in Seq(Objects)
      /\ ready' = Tail(ready)
      /\ UNCHANGED <<plugin, object, started, pending>>
  BY <1>0 DEF SsdpHandlerBegins, HandlerBegins, TypeOK
<1>2. PICK h \in Objects : h = Head(ready)
  BY <1>1, EntriesTail
<1>3. Tail(ready) \in Seq(Objects)
      /\ \A o \in Objects : /\ Entries(o, Tail(ready)) \in Nat
                            /\ Entries(o, ready) =
                                 Entries(o, Tail(ready)) + IF h = o THEN 1 ELSE 0
  BY <1>1, <1>2, EntriesTail, EntriesType
<1>4. IF h \in Responders /\ object[h] = "alive"
      THEN HandleReceivedFrom(h) ELSE UNCHANGED datagramVars
  BY <1>2 DEF SsdpHandlerBegins
<1>5. ASSUME NEW o \in Responders, o # h, results'[o] = results[o],
             printed'[o] = printed[o]
      PROVE  Counted(o)'
  <2>1. o \in Objects
    BY ObjectsAssumption
  <2>2. Entries(o, ready') = Entries(o, ready)
    BY <1>1, <1>3, <1>5, <2>1
  <2> QED BY <1>0, <1>1, <1>5, <2>2, CountedSame DEF CountInv
<1>6. CASE h \in Responders /\ object[h] = "alive"
  <2>1. HandleReceivedFrom(h) /\ Counted(h)
    BY <1>0, <1>4, <1>6 DEF CountInv
  <2>2. PICK l \in Nat, m \in Nat : l = Len(results[h]) /\ m = Len(printed[h])
    BY <1>0, <1>6, LenProperties DEF LineTypes
  <2>3. started[h] = pending[h] + l + m /\ l = Entries(h, ready)
    BY <1>1, <1>6, <2>1, <2>2 DEF Counted
  <2>4. Entries(h, ready) = Entries(h, Tail(ready)) + 1
        /\ Entries(h, Tail(ready)) \in Nat
    BY <1>3
  <2>5. l > 0 /\ results[h] \in Seq(Got) /\ printed[h] \in Seq(Got)
    BY <1>0, <1>6, <2>3, <2>4 DEF LineTypes
  <2>6. results[h] # <<>>
    BY <2>2, <2>5
  <2>7. LineInv'
    BY <1>6, <2>1, <2>6, PrintLine
  <2>8. /\ results' = [results EXCEPT ![h] = Tail(@)]
        /\ printed' = [printed EXCEPT ![h] = Append(@, Head(results[h]))]
    BY <2>1 DEF HandleReceivedFrom
  <2>9. results'[h] = Tail(results[h])
        /\ printed'[h] = Append(printed[h], Head(results[h]))
    BY <1>0, <1>6, <2>8 DEF LineTypes
  <2>10. Len(results'[h]) = l - 1
    BY <2>2, <2>5, <2>6, <2>9, HeadTailProperties
  <2>11. Len(printed'[h]) = m + 1
    BY <2>2, <2>5, <2>9
  <2>12. started[h] \in Nat /\ pending[h] \in Nat
    BY <1>0, <1>3, Numbers
  <2>13. /\ started'[h] = pending'[h] + (l - 1) + (m + 1)
         /\ l - 1 = Entries(h, ready')
    <3>1. Entries(h, ready') = Entries(h, Tail(ready))
      BY <1>1
    <3>2. started'[h] = started[h] /\ pending'[h] = pending[h]
      BY <1>1
    <3>3. started[h] = pending[h] + (l - 1) + (m + 1)
      BY <2>3, <2>12
    <3>4. l - 1 = Entries(h, Tail(ready))
      BY <2>3, <2>4
    <3> QED BY <3>1, <3>2, <3>3, <3>4
  <2>14. Counted(h)'
    BY <1>1, <1>6, <2>10, <2>11, <2>13 DEF Counted
  <2>15. ASSUME NEW o \in Responders, o # h PROVE Counted(o)'
    <3>1. results'[o] = results[o] /\ printed'[o] = printed[o]
      BY <1>0, <2>8, <2>15 DEF LineTypes
    <3> QED BY <1>5, <2>15, <3>1
  <2> QED BY <2>7, <2>14, <2>15 DEF CountInv
<1>7. CASE ~(h \in Responders /\ object[h] = "alive")
  <2>1. UNCHANGED datagramVars
    BY <1>4, <1>7
  <2>2. LineInv'
    BY <1>0, <2>1 DEF LineInv, LineTypes, datagramVars
  <2>3. ASSUME NEW o \in Responders PROVE Counted(o)'
    <3>1. CASE o # h
      BY <1>5, <2>1, <3>1 DEF datagramVars
    <3>2. CASE o = h
      <4>1. object'[o] # "alive"
        BY <1>1, <1>7, <3>2
      <4> QED BY <1>0, <1>1, <2>1, <4>1 DEF CountInv, Counted, datagramVars
    <3> QED BY <3>1, <3>2
  <2> QED BY <2>2, <2>3 DEF CountInv
<1> QED BY <1>6, <1>7

\* A handler ends; none of a responder starts an operation.
LEMMA EndsCounts == ASSUME SsdpInv, SsdpHandlerEnds PROVE CountInv'
<1>0. TypeOK /\ CountInv
  BY DEF SsdpInv
<1>1. /\ running \in Objects /\ UNCHANGED <<plugin, object, ready>>
      /\ Starts(running) \/ UNCHANGED <<started, pending>>
      /\ running \in Responders => started' = started
      /\ results' = results /\ printed' = printed
  BY <1>0 DEF SsdpHandlerEnds, HandlerEnds, TypeOK, datagramVars
<1>2. ASSUME NEW o \in Responders PROVE Counted(o)'
  <2>1. o \in Objects /\ started[o] \in Nat /\ pending[o] \in Nat
    BY <1>0, ObjectsAssumption, Numbers
  <2>2. CASE Starts(running)
    <3>1. /\ started'[o] = started[o] + IF o = running THEN 1 ELSE 0
          /\ pending'[o] = pending[o] + IF o = running THEN 1 ELSE 0
      BY <1>0, <1>1, <2>1, <2>2, StartsCounts
    <3>2. o # running
      BY <1>1, <2>1, <3>1
    <3>3. started'[o] = started[o] /\ pending'[o] = pending[o]
      BY <2>1, <3>1, <3>2
    <3> QED BY <1>0, <1>1, <3>3, CountedSame DEF CountInv
  <2>3. CASE UNCHANGED <<started, pending>>
    BY <1>0, <1>1, <2>3, CountedSame DEF CountInv
  <2> QED BY <1>1, <2>2, <2>3
<1> QED BY <1>2 DEF CountInv

\* Every step of the responders keeps the invariant.
LEMMA SsdpInvNext == SsdpInv /\ [SsdpNext]_ssdpVars => SsdpInv'
<1> SUFFICES ASSUME SsdpInv, [SsdpNext]_ssdpVars PROVE SsdpInv'
  OBVIOUS
<1>0. TypeOK /\ LineInv /\ CountInv /\ Responders \subseteq Objects
  BY ObjectsAssumption DEF SsdpInv
<1>1. TypeOK'
  BY <1>0, TypeNext, SsdpIsPluginStep
<1>2. ASSUME UNCHANGED datagramVars PROVE LineInv'
  BY <1>0, <1>2 DEF LineInv, LineTypes, datagramVars
<1>3. CASE ((Host \/ Page) /\ UNCHANGED datagramVars) \/ UNCHANGED ssdpVars
  BY <1>1, <1>2, <1>3, PluginCounts DEF SsdpInv, ssdpVars
<1>4. CASE SsdpHandlerBegins
  BY <1>1, <1>4, BeginsCounts DEF SsdpInv
<1>5. CASE SsdpHandlerEnds
  BY <1>1, <1>2, <1>5, EndsCounts DEF SsdpInv, SsdpHandlerEnds
<1>6. CASE RunReturns /\ UNCHANGED datagramVars
  <2>1. ASSUME NEW o \in Responders PROVE Counted(o)'
    BY <1>0, <1>6, CountedSame DEF CountInv, RunReturns, datagramVars
  <2> QED BY <1>1, <1>2, <1>6, <2>1 DEF SsdpInv, CountInv
<1>7. ASSUME NEW p \in Objects \ Responders, Completes(p), UNCHANGED datagramVars
      PROVE  SsdpInv'
  <2>1. /\ pending' = [pending EXCEPT ![p] = @ - 1] /\ ready' = Append(ready, p)
        /\ ready \in Seq(Objects) /\ pending \in [Objects -> 0..MaxOps]
        /\ UNCHANGED <<plugin, object, started, results, printed>>
    BY <1>0, <1>7 DEF Completes, TypeOK, datagramVars
  <2>2. ASSUME NEW o \in Responders PROVE Counted(o)'
    <3>1. o \in Objects /\ o # p
      BY <1>0
    <3>2. Entries(o, ready) \in Nat
      BY <1>0, <3>1, Numbers
    <3>3. Entries(o, ready') = Entries(o, ready) + 0
      BY <2>1, <3>1, EntriesAppend
    <3>4. Entries(o, ready') = Entries(o, ready)
      BY <3>2, <3>3
    <3>5. pending'[o] = pending[o]
      BY <2>1, <3>1
    <3> QED BY <1>0, <2>1, <3>4, <3>5, CountedSame DEF CountInv
  <2> QED BY <1>1, <1>2, <1>7, <2>2 DEF SsdpInv, CountInv
<1>8. ASSUME NEW p \in Responders, Answer(p) PROVE SsdpInv'
  <2>1. ASSUME NEW o \in Responders PROVE Counted(o)'
    BY <1>0, <1>8, CountedSame DEF CountInv, Answer, vars
  <2> QED BY <1>1, <1>8, <2>1, AnswerLine DEF SsdpInv, CountInv
<1>9. ASSUME NEW p \in Responders, Receive(p) PROVE SsdpInv'
  <2>1. socket[p] \in Seq(Got) /\ socket[p] # <<>>
    BY <1>0, <1>9 DEF LineInv, LineTypes, Receive
  <2>2. Head(socket[p]) \in Got
    BY <2>1
  <2>3. CountInv'
    BY <1>9, <2>2, ReceiveCounts DEF Receive
  <2> QED BY <1>1, <1>9, <2>3, ReceiveLine DEF SsdpInv
<1>10. ASSUME NEW p \in Responders, ReceiveFails(p) PROVE SsdpInv'
  <2>1. 0 \in Got
    BY DEF Got
  <2>2. CountInv'
    BY <1>10, <2>1, ReceiveCounts DEF ReceiveFails
  <2> QED BY <1>1, <1>10, <2>2, FailsLine DEF SsdpInv
<1> QED
  BY <1>3, <1>4, <1>5, <1>6, <1>7, <1>8, <1>9, <1>10
     DEF SsdpNext, SsdpIoThread, Network

\* The invariant holds throughout.
LEMMA SsdpInductive == SsdpSpec => []SsdpInv
  BY SsdpInvInit, SsdpInvNext, PTL DEF SsdpSpec

\* With its responders the plugin is still the plugin: what is proved of
\* FlintPlugin holds of FlintSSDPResponderAPI on its io_service.
THEOREM SsdpIsPlugin == SsdpSpec => Spec
<1>1. SsdpInit => Init
  BY DEF SsdpInit
<1> QED BY <1>1, SsdpIsPluginStep, PTL DEF SsdpSpec, Spec

\* A responder prints the sizes of the answers in the order of their arrival, each
\* once, though its receives share one buffer (search, handleReceivedFrom).
THEOREM SizesCorrect == SsdpSpec => []SizesPrintedOnce
<1>1. SsdpInv => SizesPrintedOnce
  BY DEF SsdpInv, LineInv, SizesPrintedOnce
<1> QED BY <1>1, SsdpInductive, PTL

\* Each search() has one receive, under way, waiting for its handler or printed;
\* an object that lives keeps it whatever else the plugin does.
THEOREM ReceivesCorrect == SsdpSpec => []ReceivePerSearch
<1>1. SsdpInv => ReceivePerSearch
  BY DEF SsdpInv, CountInv, Counted, ReceivePerSearch
<1> QED BY <1>1, SsdpInductive, PTL
=============================================================================
