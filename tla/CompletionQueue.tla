--------------------------- MODULE CompletionQueue ---------------------------
(***************************************************************************)
(* The queue of completions of an io_service, as XmlHttpRequest and        *)
(* HttpRequest model it: a sequence that names each operation of a set     *)
(* exactly once.                                                           *)
(***************************************************************************)
EXTENDS Integers, Sequences, FiniteSets, SequencesExt, FiniteSetTheorems,
        SequenceTheorems, TLAPS

Names(queue, S) ==
    /\ queue \in Seq(S)
    /\ \A i, j \in 1..Len(queue) : queue[i] = queue[j] => i = j
    /\ \A s \in S : \E i \in 1..Len(queue) : queue[i] = s

\* An order of a set is such a sequence.
LEMMA OrderNames ==
    ASSUME NEW S, IsFiniteSet(S), NEW order \in SetToSeqs(S)
    PROVE  Names(order, S)
<1> DEFINE n == Cardinality(S)
           R == {order[i] : i \in 1..n}
<1>1. n \in Nat
  BY FS_CardinalityType
<1>2. order \in [1..n -> S] /\ \A i, j \in 1..n : i # j => order[i] # order[j]
  BY DEF SetToSeqs
<1>3. order \in Seq(S) /\ Len(order) = n
  BY <1>1, <1>2
<1>4. order \in Bijection(1..n, R)
  BY <1>2 DEF Bijection, Injection, Surjection, IsInjective
<1>5. Cardinality(R) = n
  BY <1>1, <1>4, FS_CountingElements DEF ExistsBijection
<1>6. R \in SUBSET S
  BY <1>2
<1>7. R = S
  BY <1>5, <1>6, FS_Subset
<1> QED BY <1>2, <1>3, <1>7 DEF Names

\* The first completion is taken.
LEMMA NamesTail ==
    ASSUME NEW S, NEW queue, Names(queue, S), queue # <<>>
    PROVE  Head(queue) \in S /\ Names(Tail(queue), S \ {Head(queue)})
<1> DEFINE q == Tail(queue)
           h == Head(queue)
<1>1. /\ Len(queue) \in Nat \ {0} /\ q \in Seq(S) /\ Len(q) = Len(queue) - 1
      /\ \A i \in 1..Len(q) : q[i] = queue[i + 1]
      /\ h = queue[1] /\ h \in S
  BY HeadTailProperties, EmptySeq, LenProperties DEF Names
<1> HIDE DEF q, h
<1>2. \A i, j \in 1..Len(queue) : queue[i] = queue[j] => i = j
  BY DEF Names
<1>3. \A i, j \in 1..Len(q) : q[i] = q[j] => i = j
  BY <1>1, <1>2
<1>4. \A i \in 1..Len(q) : q[i] # h
  BY <1>1, <1>2
<1>5. q \in Seq(S \ {h})
  <2>1. \A i \in 1..Len(q) : q[i] \in S \ {h}
    BY <1>1, <1>4, ElementOfSeq
  <2>2. q \in [1..Len(q) -> S] /\ Len(q) \in Nat
    BY <1>1, LenProperties
  <2>3. q \in [1..Len(q) -> S \ {h}]
    BY <2>1, <2>2
  <2> QED BY <2>2, <2>3
<1>6. ASSUME NEW s \in S \ {h} PROVE \E i \in 1..Len(q) : q[i] = s
  <2>1. PICK i \in 1..Len(queue) : queue[i] = s
    BY DEF Names
  <2>2. i - 1 \in 1..Len(q) /\ q[i - 1] = s
    BY <1>1, <1>6, <2>1
  <2> QED BY <2>2
<1> QED BY <1>1, <1>3, <1>5, <1>6 DEF Names, q, h

\* The completions of other operations are added.
LEMMA NamesConcat ==
    ASSUME NEW S, NEW T, NEW queue, NEW order, Names(queue, S), Names(order, T),
           S \cap T = {}
    PROVE  Names(queue \o order, S \cup T)
<1> DEFINE q == queue \o order
<1>0. queue \in Seq(S) /\ order \in Seq(T)
  BY DEF Names
<1>1. queue \in Seq(S \cup T) /\ order \in Seq(S \cup T)
  BY <1>0, SeqMonotonic
<1>2. PICK m \in Nat, n \in Nat : m = Len(queue) /\ n = Len(order)
  BY <1>0, LenProperties
<1>3. /\ q \in Seq(S \cup T) /\ Len(q) = m + n
      /\ \A i \in 1..(m + n) : q[i] = IF i <= m THEN queue[i] ELSE order[i - m]
  BY <1>1, <1>2, ConcatProperties
<1>4. /\ \A i, j \in 1..m : queue[i] = queue[j] => i = j
      /\ \A i, j \in 1..n : order[i] = order[j] => i = j
      /\ \A s \in S : \E i \in 1..m : queue[i] = s
      /\ \A s \in T : \E i \in 1..n : order[i] = s
  BY <1>2 DEF Names
<1>5. \A i \in 1..m, j \in 1..n : queue[i] # order[j]
  BY <1>0, <1>2, ElementOfSeq
<1> HIDE DEF q
<1>6. \A i \in 1..(m + n) : \/ i \in 1..m /\ q[i] = queue[i]
                            \/ i > m /\ i - m \in 1..n /\ q[i] = order[i - m]
  BY <1>3
<1>7. ASSUME NEW i \in 1..(m + n), NEW j \in 1..(m + n), q[i] = q[j] PROVE i = j
  <2>1. CASE i \in 1..m /\ j \in 1..m
    BY <1>3, <1>4, <1>7, <2>1
  <2>2. CASE i > m /\ j > m
    <3>1. i - m \in 1..n /\ j - m \in 1..n /\ order[i - m] = order[j - m]
      BY <1>6, <1>7, <2>2
    <3>2. i - m = j - m
      BY <1>4, <3>1
    <3> QED BY <3>2
  <2>3. CASE ~(i \in 1..m /\ j \in 1..m) /\ ~(i > m /\ j > m)
    BY <1>5, <1>6, <1>7, <2>3
  <2> QED BY <2>1, <2>2, <2>3
<1>8. ASSUME NEW s \in S \cup T PROVE \E i \in 1..(m + n) : q[i] = s
  <2>1. CASE s \in S
    <3>1. PICK i \in 1..m : queue[i] = s
      BY <1>4, <2>1
    <3>2. i \in 1..(m + n) /\ q[i] = s
      BY <1>3, <3>1
    <3> QED BY <3>2
  <2>2. CASE s \in T
    <3>1. PICK i \in 1..n : order[i] = s
      BY <1>4, <2>2
    <3>2. m + i \in 1..(m + n) /\ q[m + i] = s
      BY <1>3, <3>1
    <3> QED BY <3>2
  <2> QED BY <2>1, <2>2
<1> QED BY <1>3, <1>7, <1>8 DEF Names, q

\* The completion of one is added.
LEMMA NamesAppend ==
    ASSUME NEW S, NEW queue, Names(queue, S), NEW s, s \notin S
    PROVE  Names(Append(queue, s), S \cup {s})
<1>1. Names(<<s>>, {s})
  BY DEF Names
<1>2. Append(queue, s) = queue \o <<s>>
  BY DEF Names
<1> QED BY <1>1, <1>2, NamesConcat
==============================================================================
