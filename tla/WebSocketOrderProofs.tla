------------------------ MODULE WebSocketOrderProofs ------------------------
(***************************************************************************)
(* Theorems about the order in which a WebSocket sends and delivers, for   *)
(* every number of messages, calls of close() and frames of the peer:      *)
(* nothing overtakes, nothing is left out, and the handlers are called as  *)
(* WsSession promises.                                                     *)
(***************************************************************************)
EXTENDS WebSocketProofs

(***************************************************************************)
(* Frames in order                                                         *)
(***************************************************************************)
Frames(queue) == {queue[i] : i \in DOMAIN queue}

\* What frame y may be if x goes before it.
Fits(x, y) == (x > Pong /\ y > Pong => x < y) /\ (x < Pong => y < Pong)

Sorted(queue) ==
    \A i, j \in DOMAIN queue : i < j => Fits(queue[i], queue[j])

Across(p, q) == \A x \in Frames(p), y \in Frames(q) : Fits(x, y)

\* A frame that fits behind all others.
LEMMA FramesAppend ==
    ASSUME NEW T, NEW q \in Seq(T), NEW x \in T
    PROVE  /\ Frames(Append(q, x)) = Frames(q) \cup {x}
           /\ Sorted(q) /\ (\A y \in Frames(q) : Fits(y, x))
                => Sorted(Append(q, x))
<1> DEFINE r == Append(q, x)
<1>1. /\ DOMAIN q = 1..Len(q) /\ DOMAIN r = 1..(Len(q) + 1) /\ Len(q) \in Nat
      /\ \A i \in 1..Len(q) : r[i] = q[i]
      /\ r[Len(q) + 1] = x
  BY AppendProperties, LenProperties
<1>2. /\ 1..(Len(q) + 1) = 1..Len(q) \cup {Len(q) + 1}
      /\ \A i, j \in 1..(Len(q) + 1) : i < j => i \in 1..Len(q)
  BY <1>1
<1> HIDE DEF r
<1>3. Frames(r) = Frames(q) \cup {x}
  <2>1. /\ \A i \in DOMAIN q : i \in DOMAIN r /\ r[i] = q[i]
        /\ \A i \in DOMAIN r : (i \in DOMAIN q /\ r[i] = q[i]) \/ r[i] = x
        /\ Len(q) + 1 \in DOMAIN r
    BY <1>1, <1>2
  <2> QED BY <1>1, <2>1 DEF Frames
<1>4. ASSUME Sorted(q), \A y \in Frames(q) : Fits(y, x) PROVE Sorted(r)
  <2> SUFFICES ASSUME NEW i \in 1..(Len(q) + 1), NEW j \in 1..(Len(q) + 1), i < j
               PROVE  Fits(r[i], r[j])
    BY <1>1, Zenon DEF Sorted
  <2>1. i \in DOMAIN q /\ r[i] = q[i] /\ q[i] \in Frames(q)
    BY <1>1, <1>2, Zenon DEF Frames
  <2>2. CASE j \in 1..Len(q)
    BY <1>1, <1>4, <2>1, <2>2, Zenon DEF Sorted
  <2>3. CASE j = Len(q) + 1
    BY <1>1, <1>4, <2>1, <2>3, Zenon
  <2> QED BY <1>2, <2>2, <2>3, Zenon
<1> QED BY <1>3, <1>4 DEF r

\* Two queues, one behind the other.
LEMMA FramesConcat ==
    ASSUME NEW T, NEW p \in Seq(T), NEW q \in Seq(T)
    PROVE  /\ Frames(p \o q) = Frames(p) \cup Frames(q)
           /\ Sorted(p) /\ Sorted(q) /\ Across(p, q) => Sorted(p \o q)
<1> DEFINE r == p \o q
<1>1. /\ DOMAIN p = 1..Len(p) /\ DOMAIN q = 1..Len(q)
      /\ Len(p) \in Nat /\ Len(q) \in Nat
      /\ DOMAIN r = 1..(Len(p) + Len(q))
      /\ \A i \in 1..(Len(p) + Len(q)) :
            r[i] = IF i <= Len(p) THEN p[i] ELSE q[i - Len(p)]
  BY ConcatProperties, LenProperties
<1>2. /\ \A i \in 1..Len(p) : i \in 1..(Len(p) + Len(q)) /\ i <= Len(p)
      /\ \A i \in 1..Len(q) : i + Len(p) \in 1..(Len(p) + Len(q))
                              /\ ~(i + Len(p) <= Len(p))
                              /\ (i + Len(p)) - Len(p) = i
      /\ \A i \in 1..(Len(p) + Len(q)) :
            IF i <= Len(p) THEN i \in 1..Len(p) ELSE i - Len(p) \in 1..Len(q)
      /\ \A i, j \in 1..(Len(p) + Len(q)) : i < j =>
            /\ j <= Len(p) => i <= Len(p)
            /\ i - Len(p) < j - Len(p)
  BY <1>1
<1> HIDE DEF r
<1>3. /\ \A i \in DOMAIN p : i \in DOMAIN r /\ r[i] = p[i]
      /\ \A i \in DOMAIN q : i + Len(p) \in DOMAIN r /\ r[i + Len(p)] = q[i]
      /\ \A i \in DOMAIN r : IF i <= Len(p) THEN i \in DOMAIN p /\ r[i] = p[i]
                             ELSE i - Len(p) \in DOMAIN q /\ r[i] = q[i - Len(p)]
  BY <1>1, <1>2, Zenon
<1>4. Frames(r) = Frames(p) \cup Frames(q)
  <2>1. Frames(p) \subseteq Frames(r)
    BY <1>3 DEF Frames
  <2>2. Frames(q) \subseteq Frames(r)
    BY <1>3 DEF Frames
  <2>3. ASSUME NEW i \in DOMAIN r PROVE r[i] \in Frames(p) \cup Frames(q)
    BY <1>3, Zenon DEF Frames
  <2> QED BY <2>1, <2>2, <2>3 DEF Frames
<1>5. ASSUME Sorted(p), Sorted(q), Across(p, q) PROVE Sorted(r)
  <2> SUFFICES ASSUME NEW i \in DOMAIN r, NEW j \in DOMAIN r, i < j
               PROVE  Fits(r[i], r[j])
    BY Zenon DEF Sorted
  <2>1. (j <= Len(p) => i <= Len(p)) /\ i - Len(p) < j - Len(p)
    BY <1>1, <1>2
  <2>2. CASE j <= Len(p)
    BY <1>3, <1>5, <2>1, <2>2, Zenon DEF Sorted
  <2>3. CASE i <= Len(p) /\ ~(j <= Len(p))
    BY <1>3, <1>5, <2>3, Zenon DEF Across, Frames
  <2>4. CASE ~(i <= Len(p)) /\ ~(j <= Len(p))
    BY <1>3, <1>5, <2>1, <2>4, Zenon DEF Sorted
  <2> QED BY <2>1, <2>2, <2>3, <2>4, Zenon
<1> QED BY <1>4, <1>5 DEF r

\* A queue cut in two.
LEMMA FramesSplit ==
    ASSUME NEW T, NEW q \in Seq(T), NEW n \in 0..Len(q)
    PROVE  LET p == SubSeq(q, 1, n)
               r == SubSeq(q, n + 1, Len(q))
           IN  /\ Frames(q) = Frames(p) \cup Frames(r)
               /\ Sorted(q) => Sorted(p) /\ Sorted(r) /\ Across(p, r)
<1> DEFINE p == SubSeq(q, 1, n)
           r == SubSeq(q, n + 1, Len(q))
<1>1. Len(q) \in Nat /\ n \in Nat /\ n <= Len(q) /\ DOMAIN q = 1..Len(q)
  BY LenProperties
<1>2. /\ DOMAIN p = 1..n /\ \A i \in 1..n : p[i] = q[i]
  BY <1>1, SubSeqProperties
<1>3. /\ DOMAIN r = 1..(Len(q) - n)
      /\ \A i \in 1..(Len(q) - n) : r[i] = q[i + n]
  BY <1>1, SubSeqProperties
<1>4. /\ \A i \in 1..n : i \in 1..Len(q)
      /\ \A i \in 1..(Len(q) - n) : i + n \in 1..Len(q)
      /\ \A i \in 1..Len(q) : i \in 1..n \/ (i - n \in 1..(Len(q) - n)
                                             /\ (i - n) + n = i)
      /\ \A i \in 1..n, j \in 1..(Len(q) - n) : i < j + n
      /\ \A i, j \in 1..(Len(q) - n) : i < j => i + n < j + n
  BY <1>1
<1> HIDE DEF p, r
<1>5. /\ \A i \in DOMAIN p : i \in DOMAIN q /\ p[i] = q[i]
      /\ \A i \in DOMAIN r : i + n \in DOMAIN q /\ r[i] = q[i + n]
      /\ \A i \in DOMAIN q : i \in DOMAIN p
                             \/ (i - n \in DOMAIN r /\ (i - n) + n = i)
  BY <1>1, <1>2, <1>3, <1>4, Zenon
<1>6. Frames(q) = Frames(p) \cup Frames(r)
  <2>1. Frames(p) \subseteq Frames(q) /\ Frames(r) \subseteq Frames(q)
    BY <1>5 DEF Frames
  <2>2. ASSUME NEW i \in DOMAIN q PROVE q[i] \in Frames(p) \cup Frames(r)
    <3>1. CASE i \in DOMAIN p
      BY <1>5, <3>1, Zenon DEF Frames
    <3>2. CASE i - n \in DOMAIN r /\ (i - n) + n = i
      <4>1. r[i - n] = q[i]
        BY <1>5, <3>2, Zenon
      <4> QED BY <3>2, <4>1, Zenon DEF Frames
    <3> QED BY <1>5, <3>1, <3>2, Zenon
  <2> QED BY <2>1, <2>2 DEF Frames
<1>7. ASSUME Sorted(q) PROVE Sorted(p) /\ Sorted(r) /\ Across(p, r)
  <2>1. Sorted(p)
    BY <1>5, <1>7, Zenon DEF Sorted
  <2>2. Sorted(r)
    BY <1>3, <1>4, <1>5, <1>7, Zenon DEF Sorted
  <2>3. Across(p, r)
    <3>1. ASSUME NEW i \in DOMAIN p, NEW j \in DOMAIN r PROVE i < j + n
      BY <1>2, <1>3, <1>4, <3>1
    <3>2. /\ \A i \in DOMAIN p : i \in DOMAIN q /\ p[i] = q[i]
          /\ \A j \in DOMAIN r : j + n \in DOMAIN q /\ r[j] = q[j + n]
      BY <1>5, Zenon
    <3> QED BY <1>7, <3>1, <3>2, Zenon DEF Sorted, Across, Frames
  <2> QED BY <2>1, <2>2, <2>3
<1> QED BY <1>6, <1>7 DEF p, r

(***************************************************************************)
(* Messages posted to the io thread                                        *)
(***************************************************************************)
Sends(queue) == {i \in DOMAIN queue : queue[i].what = "sendImpl"}
Posted(queue) == {queue[i].got[1] : i \in Sends(queue)}

InTurn(queue) ==
    \A i, j \in Sends(queue) : i < j => queue[i].got[1] < queue[j].got[1]

\* A write that did not fail has its handler queued.
WrittenOk(queue) ==
    \E i \in DOMAIN queue : queue[i].what = "write" /\ queue[i].ec # "fail"

\* What an entry more does to the messages in a queue.
LEMMA PostsAppend ==
    ASSUME NEW q \in Seq(Entries), NEW entry \in Entries
    PROVE  /\ entry.what # "sendImpl" => Posted(Append(q, entry)) = Posted(q)
           /\ entry.what = "sendImpl" =>
                Posted(Append(q, entry)) = Posted(q) \cup {entry.got[1]}
           /\ InTurn(q) /\ (entry.what = "sendImpl" =>
                              \A n \in Posted(q) : n < entry.got[1])
                => InTurn(Append(q, entry))
           /\ WrittenOk(Append(q, entry)) <=>
                WrittenOk(q) \/ (entry.what = "write" /\ entry.ec # "fail")
<1> DEFINE r == Append(q, entry)
           last == Len(q) + 1
<1>1. /\ DOMAIN q = 1..Len(q) /\ DOMAIN r = 1..(Len(q) + 1) /\ Len(q) \in Nat
      /\ \A i \in 1..Len(q) : r[i] = q[i]
      /\ r[last] = entry
  BY AppendProperties, LenProperties
<1>2. /\ \A i \in DOMAIN q : i \in DOMAIN r /\ r[i] = q[i]
      /\ \A i \in DOMAIN r : i \in DOMAIN q \/ i = last
      /\ last \in DOMAIN r /\ r[last] = entry
      /\ \A i, j \in DOMAIN r : i < j => i \in DOMAIN q
  BY <1>1
<1> HIDE DEF r, last
<1>3. Sends(r) = Sends(q) \cup (IF entry.what = "sendImpl" THEN {last} ELSE {})
  BY <1>2 DEF Sends
<1>4. \A i \in Sends(q) : r[i] = q[i]
  BY <1>2, Zenon DEF Sends
<1>5. entry.what # "sendImpl" => Posted(r) = Posted(q)
  BY <1>3, <1>4 DEF Posted
<1>6. entry.what = "sendImpl" => Posted(r) = Posted(q) \cup {entry.got[1]}
  BY <1>2, <1>3, <1>4 DEF Posted
<1>7. ASSUME InTurn(q), entry.what = "sendImpl" =>
                          \A n \in Posted(q) : n < entry.got[1]
      PROVE  InTurn(r)
  <2> SUFFICES ASSUME NEW i \in Sends(r), NEW j \in Sends(r), i < j
               PROVE  r[i].got[1] < r[j].got[1]
    BY Zenon DEF InTurn
  <2>1. i \in DOMAIN q /\ j \in DOMAIN r /\ i \in DOMAIN r
    BY <1>2, Zenon DEF Sends
  <2>2. r[i] = q[i] /\ i \in Sends(q)
    BY <1>2, <2>1, Zenon DEF Sends
  <2>3. CASE j \in DOMAIN q
    <3>1. r[j] = q[j] /\ j \in Sends(q)
      BY <1>2, <2>1, <2>3, Zenon DEF Sends
    <3> QED BY <1>7, <2>2, <3>1, Zenon DEF InTurn
  <2>4. CASE j = last
    <3>1. r[j] = entry /\ entry.what = "sendImpl"
      BY <1>2, <2>4, Zenon DEF Sends
    <3> QED BY <1>7, <2>2, <3>1, Zenon DEF Posted
  <2> QED BY <1>2, <2>1, <2>3, <2>4, Zenon
<1>8. WrittenOk(r) <=> WrittenOk(q) \/ (entry.what = "write" /\ entry.ec # "fail")
  BY <1>2 DEF WrittenOk
<1> QED BY <1>5, <1>6, <1>7, <1>8 DEF r

\* What is in a queue when its first entry is taken.
LEMMA PostsTail ==
    ASSUME NEW q \in Seq(Entries), q # <<>>
    PROVE  /\ Head(q).what # "sendImpl" => Posted(Tail(q)) = Posted(q)
           /\ Head(q).what = "sendImpl" =>
                Posted(q) = Posted(Tail(q)) \cup {Head(q).got[1]}
           /\ InTurn(q) => InTurn(Tail(q))
           /\ InTurn(q) /\ Head(q).what = "sendImpl" =>
                \A n \in Posted(Tail(q)) : Head(q).got[1] < n
           /\ WrittenOk(Tail(q)) => WrittenOk(q)
           /\ Head(q).what = "write" /\ Head(q).ec # "fail" => WrittenOk(q)
<1> DEFINE r == Tail(q)
<1>1. /\ Len(q) \in Nat \ {0} /\ DOMAIN q = 1..Len(q)
      /\ DOMAIN r = 1..(Len(q) - 1)
      /\ \A i \in 1..(Len(q) - 1) : r[i] = q[i + 1]
      /\ Head(q) = q[1]
  BY HeadTailProperties, EmptySeq, LenProperties
<1>2. /\ 1 \in DOMAIN q /\ Head(q) = q[1]
      /\ \A i \in DOMAIN r : i + 1 \in DOMAIN q /\ 1 < i + 1 /\ r[i] = q[i + 1]
      /\ \A i \in DOMAIN q : i = 1 \/ (i - 1 \in DOMAIN r /\ r[i - 1] = q[i])
      /\ \A i, j \in DOMAIN r : i < j => i + 1 < j + 1
  BY <1>1
<1> HIDE DEF r
<1>3. /\ \A i \in Sends(r) : i + 1 \in Sends(q) /\ 1 < i + 1 /\ r[i] = q[i + 1]
      /\ \A i \in Sends(q) : i = 1 \/ (i - 1 \in Sends(r) /\ r[i - 1] = q[i])
      /\ \A i, j \in Sends(r) : i < j => i + 1 < j + 1
      /\ 1 \in Sends(q) <=> Head(q).what = "sendImpl"
  BY <1>2 DEF Sends
<1>4. Posted(r) \subseteq Posted(q)
  BY <1>3 DEF Posted
<1>5. \A n \in Posted(q) : n \in Posted(r) \/ (1 \in Sends(q) /\ n = q[1].got[1])
  BY <1>3 DEF Posted
<1>6. 1 \in Sends(q) => q[1].got[1] \in Posted(q)
  BY Zenon DEF Posted
<1>7. InTurn(q) => InTurn(r)
  BY <1>3, Zenon DEF InTurn
<1>8. ASSUME InTurn(q), 1 \in Sends(q), NEW i \in Sends(r)
      PROVE  q[1].got[1] < r[i].got[1]
  BY <1>3, <1>8, Zenon DEF InTurn
<1>9. /\ WrittenOk(r) => WrittenOk(q)
      /\ Head(q).what = "write" /\ Head(q).ec # "fail" => WrittenOk(q)
  BY <1>2 DEF WrittenOk
<1>10. InTurn(q) /\ Head(q).what = "sendImpl" =>
         \A n \in Posted(r) : Head(q).got[1] < n
  BY <1>2, <1>3, <1>8, Zenon DEF Posted
<1>11. Head(q).what # "sendImpl" => Posted(r) = Posted(q)
  BY <1>3, <1>4, <1>5
<1>12. Head(q).what = "sendImpl" => Posted(q) = Posted(r) \cup {Head(q).got[1]}
  BY <1>2, <1>3, <1>4, <1>5, <1>6
<1> QED BY <1>7, <1>9, <1>10, <1>11, <1>12 DEF r

(***************************************************************************)
(* The invariant                                                           *)
(***************************************************************************)
OnWire == IF "write" \in pending THEN current ELSE <<>>
Sent == Frames(received) \cup Frames(current) \cup Frames(sendQueue)

\* Messages reach the io thread in the order of the calls, and behind those
\* that were taken before them.
PostInv ==
    /\ InTurn(ready) /\ Posted(ready) \subseteq 1..texts
    /\ \A x \in Sent : x <= texts /\ \A n \in Posted(ready) : x < n

OrderInv ==
    /\ Sorted(received) /\ Sorted(OnWire) /\ Sorted(sendQueue)
    /\ Across(received, OnWire) /\ Across(received, sendQueue)
    /\ Across(OnWire, sendQueue)
    /\ state \in {"connecting", "open"} => \A x \in Sent : x >= Pong
    /\ state = "connecting" => Sent = {}

Messages(S) == {x \in S : x > Pong}
Proper(S) == S \cap NotUtf8 = {}
Run(S) == \A m, n \in S : (m..n) \ NotUtf8 \subseteq S
Kept == Messages(Sent) \cup Posted(ready)

\* current is written once its completion is queued, and may be dropped then.
GapInv ==
    /\ Proper(Messages(Sent))
    /\ Run(Messages(Frames(received)))
    /\ state # "closed" =>
          /\ Run(Messages(Sent))
          /\ WrittenOk(ready) => Frames(current) \subseteq Frames(received)
    /\ state \in {"connecting", "open"} =>
          \A n \in Kept : (n..texts) \ NotUtf8 \subseteq Kept

SendInv == PostInv /\ OrderInv /\ GapInv

(***************************************************************************)
(* What a step can be to the messages                                      *)
(***************************************************************************)
SamePosts ==
    /\ Posted(ready') = Posted(ready) /\ InTurn(ready')
    /\ WrittenOk(ready') => WrittenOk(ready)

\* No message comes or goes on, and those being written may be done with.
Quiet ==
    /\ UNCHANGED <<received, sendQueue, texts>> /\ SamePosts
    /\ "write" \in pending' => "write" \in pending
    /\ \/ current' = current
       \/ /\ current' = <<>>
          /\ state' = "closed" \/ Frames(current) \subseteq Frames(received)
    /\ \/ state' = state \/ state' = "closed"
       \/ state = "connecting" /\ state' = "open"

Pushes(frame) ==
    /\ frame \in Outgoing /\ sendQueue' = Append(sendQueue, frame)
    /\ UNCHANGED <<received, current, texts>>
    /\ "write" \in pending' <=> "write" \in pending

PushesMark ==
    /\ SamePosts
    /\ \/ Pushes(Pong) /\ state = "open" /\ state' = "open"
       \/ /\ Pushes(CloseFrame) \/ Pushes(LastClose)
          /\ state # "closed" /\ state' = "closing"

\* sendImpl takes message n.
TakesIn(n) ==
    /\ Pushes(n) /\ state = "open" /\ state' = "open" /\ n \notin NotUtf8
    /\ Posted(ready) = Posted(ready') \cup {n} /\ InTurn(ready')
    /\ \A m \in Posted(ready') : n < m
    /\ WrittenOk(ready') => WrittenOk(ready)

\* sendImpl drops message n.
Drops(n) ==
    /\ UNCHANGED <<received, current, sendQueue, texts, state, pending>>
    /\ state # "open" \/ n \in NotUtf8
    /\ Posted(ready) = Posted(ready') \cup {n} /\ InTurn(ready')
    /\ \A m \in Posted(ready') : n < m
    /\ WrittenOk(ready') => WrittenOk(ready)

\* The script calls send(), perhaps without an io thread.
Asks ==
    /\ UNCHANGED <<received, current, sendQueue, state, pending>>
    /\ texts' = texts + 1 /\ InTurn(ready')
    /\ WrittenOk(ready') => WrittenOk(ready)
    /\ \/ Posted(ready') = Posted(ready) \cup {texts + 1}
       \/ Posted(ready) = {} /\ Posted(ready') = {} /\ state = "connecting"

\* write_frame takes messages from the queue.
Moves ==
    /\ UNCHANGED <<received, texts, state>> /\ SamePosts
    /\ "write" \notin pending /\ ~WrittenOk(ready)
    /\ current = <<>> /\ state # "closed"
    /\ \E n \in 0..Len(sendQueue) :
         /\ current' = SubSeq(sendQueue, 1, n)
         /\ sendQueue' = SubSeq(sendQueue, n + 1, Len(sendQueue))

\* write_frame drops them after the shutdown.
MovesOut ==
    /\ UNCHANGED <<received, texts, state>> /\ SamePosts
    /\ "write" \notin pending' /\ state = "closed" /\ current' = <<>>
    /\ \E n \in 0..Len(sendQueue) :
         sendQueue' = SubSeq(sendQueue, n + 1, Len(sendQueue))

\* A write completes.
Writes ==
    /\ UNCHANGED <<current, sendQueue, texts, state>>
    /\ Posted(ready') = Posted(ready) /\ InTurn(ready')
    /\ "write" \in pending /\ "write" \notin pending' /\ state # "closed"
    /\ received' = received \o current

\* Nothing goes before nothing.
LEMMA FramesEmpty ==
    /\ Frames(<<>>) = {} /\ Sorted(<<>>)
    /\ \A q : Across(q, <<>>) /\ Across(<<>>, q)
<1>1. DOMAIN <<>> = {}
  OBVIOUS
<1>2. Frames(<<>>) = {} /\ Sorted(<<>>)
  BY <1>1 DEF Frames, Sorted
<1> QED BY <1>2, Zenon DEF Across

\* Frames are numbers, and what is on the wire was sent.
LEMMA SentTyped ==
    ASSUME TypeOK
    PROVE  /\ Sent \subseteq Int /\ Frames(OnWire) \subseteq Frames(current)
           /\ texts \in Nat
<1>1. \A q \in Seq(Outgoing) : Frames(q) \subseteq Int
  BY BoundsAssumption DEF Frames, Outgoing, LastClose
<1>2. received \in Seq(Outgoing) /\ current \in Seq(Outgoing)
      /\ sendQueue \in Seq(Outgoing)
  BY DEF TypeOK, WriteType
<1>3. Sent \subseteq Int
  BY <1>1, <1>2, Zenon DEF Sent
<1>4. Frames(OnWire) \subseteq Frames(current)
  BY FramesEmpty DEF OnWire
<1>5. texts \in Nat
  BY DEF TypeOK, CallType
<1> QED BY <1>3, <1>4, <1>5

\* A step that concerns no message keeps them in order.
LEMMA QuietKeeps == ASSUME SendInv, Quiet PROVE SendInv'
<1>1. OnWire' = OnWire \/ OnWire' = <<>>
  BY DEF OnWire, Quiet
<1>2. /\ received' = received /\ sendQueue' = sendQueue /\ texts' = texts
      /\ Posted(ready') = Posted(ready) /\ InTurn(ready')
      /\ WrittenOk(ready') => WrittenOk(ready)
  BY DEF Quiet, SamePosts
<1>3. Frames(current') = Frames(current) \/ Frames(current') = {}
  BY FramesEmpty DEF Quiet
<1>4. Sent' \subseteq Sent
  BY <1>2, <1>3 DEF Sent
<1>5. state' # "closed" => Sent' = Sent /\ state # "closed"
  <2>1. state' # "closed" =>
          \/ current' = current
          \/ Frames(current') = {} /\ Frames(current) \subseteq Frames(received)
    BY FramesEmpty DEF Quiet
  <2>2. state' # "closed" => state # "closed"
    BY DEF Quiet
  <2> QED BY <1>2, <2>1, <2>2 DEF Sent
<1>6. state' \in {"connecting", "open"} => state \in {"connecting", "open"}
      /\ (state' = "connecting" => state = "connecting")
  BY DEF Quiet
<1>7. PostInv'
  BY <1>2, <1>4, Zenon DEF SendInv, PostInv
<1>8. OrderInv'
  <2>1. /\ Sorted(OnWire') /\ Across(received, OnWire')
        /\ Across(OnWire', sendQueue)
    BY <1>1, FramesEmpty, Zenon DEF SendInv, OrderInv
  <2>2. Sorted(received') /\ Sorted(sendQueue') /\ Across(received', sendQueue')
    BY <1>2, Zenon DEF SendInv, OrderInv
  <2>3. state' \in {"connecting", "open"} => \A x \in Sent' : x >= Pong
    BY <1>4, <1>6, Zenon DEF SendInv, OrderInv
  <2>4. state' = "connecting" => Sent' = {}
    BY <1>4, <1>6 DEF SendInv, OrderInv
  <2> QED BY <1>2, <2>1, <2>2, <2>3, <2>4, Zenon DEF OrderInv
<1>9. GapInv'
  <2>1. Run(Messages(Frames(received')))
    BY <1>2, Zenon DEF SendInv, GapInv
  <2>2. ASSUME state' # "closed"
        PROVE  /\ Run(Messages(Sent'))
               /\ WrittenOk(ready') => Frames(current') \subseteq Frames(received')
    <3>1. Sent' = Sent /\ state # "closed"
      BY <1>5, <2>2
    <3>2. WrittenOk(ready) => Frames(current) \subseteq Frames(received)
      BY <3>1 DEF SendInv, GapInv
    <3>3. Frames(current') \subseteq Frames(current)
      BY <1>3
    <3> QED BY <1>2, <3>1, <3>2, <3>3 DEF SendInv, GapInv
  <2>3. ASSUME state' \in {"connecting", "open"}
        PROVE  \A n \in Kept' : (n..texts') \ NotUtf8 \subseteq Kept'
    <3>1. Kept' = Kept /\ texts' = texts
      BY <1>2, <1>5, <2>3, Zenon DEF Kept
    <3> QED BY <1>6, <2>3, <3>1, Zenon DEF SendInv, GapInv
  <2>4. Proper(Messages(Sent'))
    BY <1>4 DEF SendInv, GapInv, Proper, Messages
  <2> QED BY <2>1, <2>2, <2>3, <2>4, Zenon DEF GapInv
<1> QED BY <1>7, <1>8, <1>9 DEF SendInv

\* A frame pushed fits behind what was sent before.
LEMMA PushInOrder ==
    ASSUME TypeOK, OrderInv, NEW frame, Pushes(frame),
           \A x \in Sent : Fits(x, frame)
    PROVE  /\ Sorted(received') /\ Sorted(OnWire') /\ Sorted(sendQueue')
           /\ Across(received', OnWire') /\ Across(received', sendQueue')
           /\ Across(OnWire', sendQueue')
           /\ Sent' = Sent \cup {frame}
<1>1. /\ OnWire' = OnWire /\ received' = received /\ current' = current
      /\ frame \in Outgoing /\ sendQueue' = Append(sendQueue, frame)
  BY DEF Pushes, OnWire
<1>2. sendQueue \in Seq(Outgoing)
  BY DEF TypeOK, WriteType
<1>3. /\ Frames(sendQueue') = Frames(sendQueue) \cup {frame}
      /\ Sorted(sendQueue) /\ (\A y \in Frames(sendQueue) : Fits(y, frame))
           => Sorted(sendQueue')
  BY <1>1, <1>2, FramesAppend
<1>4. Frames(OnWire) \subseteq Sent /\ Frames(received) \subseteq Sent
      /\ Frames(sendQueue) \subseteq Sent
  BY SentTyped DEF Sent
<1>5. Sorted(sendQueue')
  BY <1>3, <1>4, Zenon DEF OrderInv
<1>6. Across(received', sendQueue')
  BY <1>1, <1>3, <1>4, Zenon DEF OrderInv, Across
<1>7. Across(OnWire', sendQueue')
  BY <1>1, <1>3, <1>4, Zenon DEF OrderInv, Across
<1>8. Sent' = Sent \cup {frame}
  BY <1>1, <1>3 DEF Sent
<1> QED BY <1>1, <1>5, <1>6, <1>7, <1>8, Zenon DEF OrderInv

\* A Pong goes out only before a Close, and a Close behind anything.
LEMMA MarkKeeps == ASSUME TypeOK, SendInv, PushesMark PROVE SendInv'
<1>1. PICK frame :
        /\ Pushes(frame) /\ frame \in {Pong, CloseFrame, LastClose}
        /\ \/ frame = Pong /\ state = "open" /\ state' = "open"
           \/ frame < Pong /\ state # "closed" /\ state' = "closing"
  BY DEF PushesMark, Pong, CloseFrame, LastClose
<1>2. /\ UNCHANGED <<received, current, texts>>
      /\ Posted(ready') = Posted(ready) /\ InTurn(ready')
      /\ WrittenOk(ready') => WrittenOk(ready)
  BY <1>1 DEF PushesMark, SamePosts, Pushes
<1>3. Sent \subseteq Int /\ texts \in Nat /\ frame \in Int /\ frame <= Pong
  BY <1>1, SentTyped DEF Pong, CloseFrame, LastClose
<1>4. \A x \in Sent : Fits(x, frame)
  <2> SUFFICES ASSUME NEW x \in Sent PROVE Fits(x, frame)
    OBVIOUS
  <2>1. state = "open" => x >= Pong
    BY DEF SendInv, OrderInv
  <2>2. x \in Int
    BY <1>3
  <2> QED BY <1>1, <1>3, <2>1, <2>2 DEF Fits, Pong
<1>5. /\ Sorted(received') /\ Sorted(OnWire') /\ Sorted(sendQueue')
      /\ Across(received', OnWire') /\ Across(received', sendQueue')
      /\ Across(OnWire', sendQueue')
      /\ Sent' = Sent \cup {frame}
  BY <1>1, <1>4, PushInOrder DEF SendInv
<1>6. Messages(Sent') = Messages(Sent)
  BY <1>3, <1>5 DEF Messages, Pong
<1>7. PostInv'
  <2>1. \A n \in Posted(ready) : n \in Nat /\ n >= 1
    BY <1>3 DEF SendInv, PostInv
  <2>2. frame <= texts /\ \A n \in Posted(ready) : frame < n
    BY <1>3, <2>1 DEF Pong
  <2> QED BY <1>2, <1>5, <2>2 DEF SendInv, PostInv
<1>8. OrderInv'
  <2>1. state' \in {"connecting", "open"} => \A x \in Sent' : x >= Pong
    <3>1. ASSUME state' = "open" PROVE \A x \in Sent' : x >= Pong
      <4>1. state = "open" /\ frame = Pong
        BY <1>1, <3>1
      <4>2. \A x \in Sent : x >= Pong
        BY <4>1 DEF SendInv, OrderInv
      <4>3. Pong >= Pong
        BY DEF Pong
      <4> QED BY <1>5, <4>1, <4>2, <4>3, Zenon
    <3> QED BY <1>1, <3>1
  <2> QED BY <1>1, <1>5, <2>1 DEF OrderInv
<1>9. GapInv'
  <2>1. Kept' = Kept /\ texts' = texts
    BY <1>2, <1>6, Zenon DEF Kept
  <2>2. state # "closed"
    BY <1>1
  <2>3. state' \in {"connecting", "open"} => state = "open"
    BY <1>1
  <2> QED BY <1>2, <1>6, <2>1, <2>2, <2>3 DEF SendInv, GapInv
<1> QED BY <1>7, <1>8, <1>9 DEF SendInv

\* A message that is taken goes behind all that were taken.
LEMMA TakeKeeps ==
    ASSUME TypeOK, SendInv, NEW n, TakesIn(n)
    PROVE  SendInv'
<1>1. /\ Pushes(n) /\ state = "open" /\ state' = "open" /\ n \notin NotUtf8
      /\ Posted(ready) = Posted(ready') \cup {n} /\ InTurn(ready')
      /\ \A m \in Posted(ready') : n < m
      /\ WrittenOk(ready') => WrittenOk(ready)
      /\ UNCHANGED <<received, current, texts>>
  BY DEF TakesIn, Pushes
<1>2. Sent \subseteq Int /\ texts \in Nat
  BY SentTyped
<1>3. n \in 1..texts /\ \A x \in Sent : x < n
  BY <1>1 DEF SendInv, PostInv
<1>4. \A x \in Sent : x >= Pong
  BY <1>1 DEF SendInv, OrderInv
<1>5. \A x \in Sent : Fits(x, n)
  BY <1>2, <1>3, <1>4 DEF Fits, Pong
<1>6. /\ Sorted(received') /\ Sorted(OnWire') /\ Sorted(sendQueue')
      /\ Across(received', OnWire') /\ Across(received', sendQueue')
      /\ Across(OnWire', sendQueue')
      /\ Sent' = Sent \cup {n}
  BY <1>1, <1>5, PushInOrder DEF SendInv
<1>7. Messages(Sent') = Messages(Sent) \cup {n}
  BY <1>2, <1>3, <1>6 DEF Messages, Pong
<1>8. PostInv'
  <2>1. Posted(ready') \subseteq 1..texts'
    BY <1>1, Zenon DEF SendInv, PostInv
  <2>2. ASSUME NEW x \in Sent', NEW m \in Posted(ready') PROVE x < m
    <3>1. x \in Sent \/ x = n
      BY <1>6
    <3>2. m \in Posted(ready)
      BY <1>1
    <3> QED BY <1>1, <3>1, <3>2 DEF SendInv, PostInv
  <2>3. \A x \in Sent' : x <= texts'
    <3>1. n <= texts
      BY <1>2, <1>3
    <3> QED BY <1>1, <1>6, <3>1, Zenon DEF SendInv, PostInv
  <2> QED BY <1>1, <2>1, <2>2, <2>3 DEF PostInv
<1>9. OrderInv'
  <2>1. n >= Pong
    BY <1>2, <1>3 DEF Pong
  <2>2. \A x \in Sent' : x >= Pong
    BY <1>4, <1>6, <2>1, Zenon
  <2> QED BY <1>1, <1>6, <2>2 DEF OrderInv
<1>10. GapInv'
  <2>1. Kept' = Kept
    BY <1>1, <1>7 DEF Kept
  <2>2. Run(Messages(Sent'))
    <3> SUFFICES ASSUME NEW m \in Messages(Sent'), NEW k \in Messages(Sent'),
                        NEW j \in m..k, j \notin NotUtf8
                 PROVE  j \in Messages(Sent')
      BY DEF Run
    <3>1. m \in Int /\ k \in Int /\ n \in Int /\ j \in Int /\ m <= j /\ j <= k
      <4>1. Messages(Sent) \subseteq Int /\ n \in Int
        <5>1. Messages(Sent) \subseteq Sent
          BY DEF Messages
        <5>2. n \in Int
          BY <1>2, <1>3
        <5> QED BY <1>2, <5>1, <5>2, Zenon
      <4>2. m \in Int /\ k \in Int
        BY <1>7, <4>1
      <4> QED BY <4>1, <4>2
    <3>2. CASE m \in Messages(Sent) /\ k \in Messages(Sent)
      BY <1>1, <1>7, <3>2 DEF SendInv, GapInv, Run
    <3>3. CASE m = n
      <4>1. k <= n
        <5>1. k \in Sent \/ k = n
          BY <1>7 DEF Messages
        <5>2. k < n \/ k = n
          BY <1>3, <5>1
        <5> QED BY <3>1, <5>2
      <4> QED BY <1>7, <3>1, <3>3, <4>1
    <3>4. CASE m \in Messages(Sent) /\ k = n
      <4>1. j = n \/ j < n
        BY <3>1, <3>4
      <4>2. j \in m..texts
        BY <1>2, <1>3, <3>1, <3>4
      <4>3. j \in Messages(Sent) \/ j \in Posted(ready)
        BY <1>1, <3>4, <4>2 DEF SendInv, GapInv, Kept
      <4>4. j \in Posted(ready) => j = n \/ j \in Posted(ready')
        BY <1>1
      <4>5. ASSUME j \in Posted(ready'), j < n PROVE FALSE
        <5>1. n < j
          BY <1>1, <4>5
        <5> QED BY <3>1, <4>5, <5>1
      <4> QED BY <1>7, <4>1, <4>3, <4>4, <4>5
    <3> QED BY <1>7, <3>2, <3>3, <3>4
  <2>3. WrittenOk(ready') => Frames(current') \subseteq Frames(received')
    BY <1>1 DEF SendInv, GapInv
  <2>4. Run(Messages(Frames(received')))
    BY <1>1 DEF SendInv, GapInv
  <2>5. \A m \in Kept' : (m..texts') \ NotUtf8 \subseteq Kept'
    BY <1>1, <2>1, Zenon DEF SendInv, GapInv
  <2>6. Proper(Messages(Sent'))
    BY <1>1, <1>7 DEF SendInv, GapInv, Proper
  <2> QED BY <2>2, <2>3, <2>4, <2>5, <2>6 DEF GapInv
<1> QED BY <1>8, <1>9, <1>10 DEF SendInv

\* A message that is dropped before the connection is open is the first, and
\* one dropped later is not UTF-8.
LEMMA DropKeeps ==
    ASSUME TypeOK, SendInv, NEW n, Drops(n)
    PROVE  SendInv'
<1>1. /\ UNCHANGED <<received, current, sendQueue, texts, state, pending>>
      /\ state # "open" \/ n \in NotUtf8
      /\ Posted(ready) = Posted(ready') \cup {n} /\ InTurn(ready')
      /\ \A m \in Posted(ready') : n < m
      /\ WrittenOk(ready') => WrittenOk(ready)
  BY DEF Drops
<1>2. Sent' = Sent /\ OnWire' = OnWire
  BY <1>1 DEF Sent, OnWire
<1>3. PostInv'
  BY <1>1, <1>2 DEF SendInv, PostInv
<1>4. OrderInv'
  BY <1>1, <1>2 DEF SendInv, OrderInv
<1>5. GapInv'
  <2>1. ASSUME state' \in {"connecting", "open"}
        PROVE  \A m \in Kept' : (m..texts') \ NotUtf8 \subseteq Kept'
    <3> SUFFICES ASSUME NEW m \in Kept', NEW j \in m..texts, j \notin NotUtf8
                 PROVE  j \in Kept'
      BY <1>1
    <3>1. Kept = Kept' \cup {n}
      BY <1>1, <1>2, Zenon DEF Kept
    <3>2. m \in Kept /\ j \in Kept
      BY <1>1, <2>1, <3>1 DEF SendInv, GapInv
    <3>3. CASE n \in NotUtf8
      BY <3>1, <3>2, <3>3
    <3>4. CASE state # "open"
      <4>1. Sent = {}
        BY <1>1, <2>1, <3>4 DEF SendInv, OrderInv
      <4>2. Kept' = Posted(ready')
        BY <1>2, <4>1 DEF Kept, Messages
      <4>3. Posted(ready) \subseteq 1..texts /\ texts \in Nat
        BY SentTyped DEF SendInv, PostInv
      <4>4. n < m /\ m <= j /\ n \in Int /\ m \in Int /\ j \in Int
        BY <1>1, <4>2, <4>3
      <4> QED BY <3>1, <3>2, <4>4
    <3> QED BY <1>1, <3>3, <3>4
  <2>2. Run(Messages(Frames(received')))
    BY <1>1 DEF SendInv, GapInv
  <2>3. state' # "closed" =>
          /\ Run(Messages(Sent'))
          /\ WrittenOk(ready') => Frames(current') \subseteq Frames(received')
    BY <1>1, <1>2 DEF SendInv, GapInv
  <2>4. Proper(Messages(Sent'))
    BY <1>2 DEF SendInv, GapInv
  <2> QED BY <2>1, <2>2, <2>3, <2>4 DEF GapInv
<1> QED BY <1>3, <1>4, <1>5 DEF SendInv

\* A call of send() is behind all that came before it.
LEMMA AskKeeps == ASSUME TypeOK, SendInv, Asks PROVE SendInv'
<1>1. /\ UNCHANGED <<received, current, sendQueue, state, pending>>
      /\ texts' = texts + 1 /\ InTurn(ready')
      /\ WrittenOk(ready') => WrittenOk(ready)
      /\ \/ Posted(ready') = Posted(ready) \cup {texts + 1}
         \/ Posted(ready) = {} /\ Posted(ready') = {} /\ state = "connecting"
  BY DEF Asks
<1>2. Sent' = Sent /\ OnWire' = OnWire
  BY <1>1 DEF Sent, OnWire
<1>3. Sent \subseteq Int /\ texts \in Nat
  BY SentTyped
<1>4. Posted(ready) \subseteq 1..texts /\ \A x \in Sent : x <= texts
  BY DEF SendInv, PostInv
<1>5. Posted(ready') \subseteq Posted(ready) \cup {texts + 1}
  BY <1>1
<1>6. PostInv'
  <2>1. Posted(ready') \subseteq 1..texts'
    BY <1>1, <1>3, <1>4, <1>5
  <2>2. \A x \in Sent : x <= texts + 1 /\ x < texts + 1
    BY <1>3, <1>4
  <2> QED BY <1>1, <1>2, <1>5, <2>1, <2>2 DEF SendInv, PostInv
<1>7. OrderInv'
  BY <1>1, <1>2 DEF SendInv, OrderInv
<1>8. GapInv'
  <2>1. ASSUME state' \in {"connecting", "open"}
        PROVE  \A m \in Kept' : (m..texts') \ NotUtf8 \subseteq Kept'
    <3>1. CASE Posted(ready') = Posted(ready) \cup {texts + 1}
      <4>1. Kept' = Kept \cup {texts + 1} /\ Kept \subseteq Int
        <5>1. Messages(Sent) \subseteq Int /\ Posted(ready) \subseteq Int
          <6>1. Messages(Sent) \subseteq Sent
            BY DEF Messages
          <6>2. 1..texts \subseteq Int
            BY <1>3
          <6> QED BY <1>3, <1>4, <6>1, <6>2, Zenon
        <5>2. Kept' = Messages(Sent) \cup (Posted(ready) \cup {texts + 1})
          BY <1>2, <3>1, Zenon DEF Kept
        <5> QED BY <5>1, <5>2 DEF Kept
      <4> SUFFICES ASSUME NEW m \in Kept', NEW j \in m..(texts + 1),
                          j \notin NotUtf8
                   PROVE  j \in Kept'
        BY <1>1
      <4>2. m \in Int /\ j \in Int /\ m <= j /\ j <= texts + 1
        BY <1>3, <4>1
      <4>3. CASE m = texts + 1 \/ j = texts + 1
        BY <1>3, <4>1, <4>2, <4>3
      <4>4. CASE m \in Kept /\ j # texts + 1
        <5>1. j \in m..texts
          BY <1>3, <4>2, <4>4
        <5> QED BY <1>1, <2>1, <4>1, <4>4, <5>1 DEF SendInv, GapInv
      <4> QED BY <4>1, <4>3, <4>4
    <3>2. CASE Posted(ready') = {} /\ state = "connecting"
      <4>1. Kept' = {}
        BY <1>2, <3>2 DEF SendInv, OrderInv, Kept, Messages
      <4> QED BY <4>1
    <3> QED BY <1>1, <3>1, <3>2
  <2>2. Run(Messages(Frames(received')))
    BY <1>1 DEF SendInv, GapInv
  <2>3. state' # "closed" =>
          /\ Run(Messages(Sent'))
          /\ WrittenOk(ready') => Frames(current') \subseteq Frames(received')
    BY <1>1, <1>2 DEF SendInv, GapInv
  <2>4. Proper(Messages(Sent'))
    BY <1>2 DEF SendInv, GapInv
  <2> QED BY <2>1, <2>2, <2>3, <2>4 DEF GapInv
<1> QED BY <1>6, <1>7, <1>8 DEF SendInv

\* The first messages of the queue go behind what was received.
LEMMA MoveKeeps == ASSUME TypeOK, SendInv, Moves PROVE SendInv'
<1>1. PICK n \in 0..Len(sendQueue) :
         /\ current' = SubSeq(sendQueue, 1, n)
         /\ sendQueue' = SubSeq(sendQueue, n + 1, Len(sendQueue))
  BY DEF Moves
<1>2. /\ UNCHANGED <<received, texts, state>>
      /\ Posted(ready') = Posted(ready) /\ InTurn(ready')
      /\ ~WrittenOk(ready') /\ current = <<>> /\ state # "closed"
      /\ OnWire' = current' \/ OnWire' = <<>>
  BY DEF Moves, SamePosts, OnWire
<1>3. sendQueue \in Seq(Outgoing)
  BY DEF TypeOK, WriteType
<1>4. /\ Frames(sendQueue) = Frames(current') \cup Frames(sendQueue')
      /\ Sorted(sendQueue) => /\ Sorted(current') /\ Sorted(sendQueue')
                              /\ Across(current', sendQueue')
  BY <1>1, <1>3, FramesSplit
<1>5. Sent' = Sent
  BY <1>2, <1>4, FramesEmpty DEF Sent
<1>6. PostInv'
  BY <1>2, <1>5 DEF SendInv, PostInv
<1>7. OrderInv'
  <2>1. Sorted(received) /\ Sorted(sendQueue) /\ Across(received, sendQueue)
    BY DEF SendInv, OrderInv
  <2>2. Across(received, current') /\ Across(received, sendQueue')
    BY <1>4, <2>1, Zenon DEF Across
  <2>3. /\ Sorted(OnWire') /\ Across(received, OnWire')
        /\ Across(OnWire', sendQueue')
    BY <1>2, <1>4, <2>1, <2>2, FramesEmpty, Zenon
  <2> QED BY <1>2, <1>4, <1>5, <2>1, <2>2, <2>3 DEF SendInv, OrderInv
<1>8. GapInv'
  <2>1. Kept' = Kept
    BY <1>2, <1>5, Zenon DEF Kept
  <2> QED BY <1>2, <1>5, <2>1 DEF SendInv, GapInv
<1> QED BY <1>6, <1>7, <1>8 DEF SendInv

\* After the shutdown the queue loses its first messages.
LEMMA MoveOutKeeps == ASSUME TypeOK, SendInv, MovesOut PROVE SendInv'
<1>1. PICK n \in 0..Len(sendQueue) :
         sendQueue' = SubSeq(sendQueue, n + 1, Len(sendQueue))
  BY DEF MovesOut
<1>2. /\ UNCHANGED <<received, texts, state>>
      /\ Posted(ready') = Posted(ready) /\ InTurn(ready')
      /\ current' = <<>> /\ state = "closed" /\ OnWire' = <<>>
  BY DEF MovesOut, SamePosts, OnWire
<1>3. sendQueue \in Seq(Outgoing)
  BY DEF TypeOK, WriteType
<1>4. /\ Frames(sendQueue') \subseteq Frames(sendQueue)
      /\ Sorted(sendQueue) => Sorted(sendQueue')
  BY <1>1, <1>3, FramesSplit
<1>5. Sent' \subseteq Sent
  BY <1>2, <1>4, FramesEmpty DEF Sent
<1>6. PostInv'
  BY <1>2, <1>5 DEF SendInv, PostInv
<1>7. OrderInv'
  <2>1. Sorted(received) /\ Sorted(sendQueue) /\ Across(received, sendQueue)
    BY DEF SendInv, OrderInv
  <2>2. Across(received, sendQueue')
    BY <1>4, <2>1, Zenon DEF Across
  <2>3. /\ Sorted(OnWire') /\ Across(received, OnWire')
        /\ Across(OnWire', sendQueue')
    BY <1>2, FramesEmpty, Zenon
  <2> QED BY <1>2, <1>4, <2>1, <2>2, <2>3 DEF OrderInv
<1>8. GapInv'
  <2>1. Proper(Messages(Sent'))
    BY <1>5 DEF SendInv, GapInv, Proper, Messages
  <2> QED BY <1>2, <2>1 DEF SendInv, GapInv
<1> QED BY <1>6, <1>7, <1>8 DEF SendInv

\* What was on the wire is with the peer.
LEMMA WriteDoneKeeps == ASSUME TypeOK, SendInv, Writes PROVE SendInv'
<1>1. /\ UNCHANGED <<current, sendQueue, texts, state>>
      /\ Posted(ready') = Posted(ready) /\ InTurn(ready')
      /\ state # "closed" /\ OnWire = current /\ OnWire' = <<>>
      /\ received' = received \o current
  BY DEF Writes, OnWire
<1>2. received \in Seq(Outgoing) /\ current \in Seq(Outgoing)
  BY DEF TypeOK, WriteType
<1>3. /\ Sorted(received) /\ Sorted(current) /\ Sorted(sendQueue)
      /\ Across(received, current) /\ Across(received, sendQueue)
      /\ Across(current, sendQueue)
  BY <1>1 DEF SendInv, OrderInv
<1>4. /\ Frames(received') = Frames(received) \cup Frames(current)
      /\ Sorted(received')
  BY <1>1, <1>2, <1>3, FramesConcat
<1>5. Sent' = Sent
  BY <1>1, <1>4 DEF Sent
<1>6. PostInv'
  BY <1>1, <1>5 DEF SendInv, PostInv
<1>7. Across(received', sendQueue)
  BY <1>3, <1>4, Zenon DEF Across
<1>8. OrderInv'
  <2>1. /\ Sorted(OnWire') /\ Across(received', OnWire')
        /\ Across(OnWire', sendQueue')
    BY <1>1, FramesEmpty, Zenon
  <2> QED BY <1>1, <1>3, <1>4, <1>5, <1>7, <2>1 DEF SendInv, OrderInv
<1>9. GapInv'
  <2>1. Run(Messages(Frames(received')))
    <3> SUFFICES ASSUME NEW m \in Messages(Frames(received')),
                        NEW k \in Messages(Frames(received')), NEW j \in m..k,
                        j \notin NotUtf8
                 PROVE  j \in Messages(Frames(received'))
      BY DEF Run
    <3>1. Frames(received') \subseteq Sent
      BY <1>4 DEF Sent
    <3>2. /\ m \in Sent /\ k \in Sent /\ m > Pong /\ k > Pong
          /\ k \in Frames(received')
      BY <3>1 DEF Messages
    <3>3. j \in Messages(Sent)
      BY <1>1, <3>2 DEF SendInv, GapInv, Run, Messages
    <3>4. m \in Int /\ k \in Int /\ j \in Int /\ m <= j /\ j <= k /\ j > Pong
      BY <3>2, SentTyped DEF Pong
    <3>5. ASSUME j \in Frames(sendQueue) PROVE FALSE
      <4>1. Fits(k, j)
        BY <1>7, <3>2, <3>5, Zenon DEF Across
      <4> QED BY <3>2, <3>4, <4>1 DEF Fits
    <3>6. j \in Frames(received')
      BY <1>4, <3>3, <3>5 DEF Messages, Sent
    <3> QED BY <3>4, <3>6 DEF Messages
  <2>2. Kept' = Kept
    BY <1>1, <1>5, Zenon DEF Kept
  <2>3. Frames(current') \subseteq Frames(received')
    BY <1>1, <1>4
  <2>4. Run(Messages(Sent'))
    BY <1>1, <1>5 DEF SendInv, GapInv
  <2>5. state' \in {"connecting", "open"} =>
          \A m \in Kept' : (m..texts') \ NotUtf8 \subseteq Kept'
    BY <1>1, <2>2, Zenon DEF SendInv, GapInv
  <2>6. Proper(Messages(Sent'))
    BY <1>5 DEF SendInv, GapInv
  <2> QED BY <2>1, <2>3, <2>4, <2>5, <2>6 DEF GapInv
<1> QED BY <1>6, <1>8, <1>9 DEF SendInv

(***************************************************************************)
(* Every step is one of these                                              *)
(***************************************************************************)
\* A handler other than sendImpl takes no message from the queue.
LEMMA RestPosts ==
    ASSUME TypeOK, InTurn(ready), NEW what, Runs(what)
    PROVE  /\ Rest \in Seq(Entries) /\ InTurn(Rest)
           /\ WrittenOk(Rest) => WrittenOk(ready)
           /\ what # "sendImpl" => Posted(Rest) = Posted(ready)
           /\ what = "sendImpl" =>
                /\ Posted(ready) = Posted(Rest) \cup {Got[1]}
                /\ \A n \in Posted(Rest) : Got[1] < n
           /\ what = "write" /\ Ec # "fail" => WrittenOk(ready)
<1>1. ready # <<>> /\ Head(ready).what = what /\ ready \in Seq(Entries)
  BY DEF Runs, TypeOK, IoType
<1>2. Rest \in Seq(Entries)
  BY <1>1, HeadEntry
<1> QED BY <1>1, <1>2, PostsTail DEF Rest, Got, Ec

\* A push may post a write_frame, and no message.
LEMMA PushPosts ==
    ASSUME NEW frame, NEW queue \in Seq(Entries), Push(frame, queue)
    PROVE  /\ Posted(ready') = Posted(queue)
           /\ InTurn(queue) => InTurn(ready')
           /\ WrittenOk(ready') => WrittenOk(queue)
           /\ sendQueue' = Append(sendQueue, frame)
           /\ UNCHANGED <<current, writeFlag>>
<1>1. /\ Post("write_frame") \in Entries
      /\ Post("write_frame").what = "write_frame"
  BY EntriesMade DEF Post, Entry
<1>2. ready' = queue \/ ready' = Append(queue, Post("write_frame"))
  BY DEF Push
<1>3. sendQueue' = Append(sendQueue, frame) /\ UNCHANGED <<current, writeFlag>>
  BY DEF Push
<1>4. /\ Posted(Append(queue, Post("write_frame"))) = Posted(queue)
      /\ InTurn(queue) => InTurn(Append(queue, Post("write_frame")))
      /\ WrittenOk(Append(queue, Post("write_frame"))) => WrittenOk(queue)
  BY <1>1, PostsAppend
<1> QED BY <1>2, <1>3, <1>4

\* Every step keeps the messages in order and without a gap.
LEMMA SendInvStep ==
    TypeOK /\ ReadInv /\ WriteInv /\ SendInv /\ [Next]_vars => SendInv'
<1> SUFFICES ASSUME TypeOK, ReadInv, WriteInv, SendInv, [Next]_vars
             PROVE  SendInv'
  OBVIOUS
<1>0. ready \in Seq(Entries) /\ InTurn(ready)
  BY DEF TypeOK, IoType, SendInv, PostInv
<1>1. ASSUME UNCHANGED <<received, current, sendQueue, texts, ready>>,
             "write" \in pending' => "write" \in pending,
             \/ state' = state \/ state' = "closed"
             \/ state = "connecting" /\ state' = "open"
      PROVE  SendInv'
  BY <1>0, <1>1, QuietKeeps DEF Quiet, SamePosts
<1>2. ASSUME NEW what, Runs(what), what # "sendImpl", ready' = Rest,
             UNCHANGED <<received, sendQueue, texts>>,
             current' \in {current, <<>>},
             current' # current => state' = "closed",
             "write" \in pending' => "write" \in pending,
             \/ state' = state \/ state' = "closed"
             \/ state = "connecting" /\ state' = "open"
      PROVE  SendInv'
  <2>1. SamePosts
    BY <1>0, <1>2, RestPosts DEF SamePosts
  <2> QED BY <1>2, <2>1, QuietKeeps DEF Quiet
<1>3. ASSUME NEW what, Runs(what), what # "sendImpl", Terminate(Rest),
             UNCHANGED <<received, sendQueue, texts>>,
             current' \in {current, <<>>}
      PROVE  SendInv'
  <2>1. /\ ready' = Rest /\ state' = "closed"
        /\ "write" \in pending' => "write" \in pending
    BY <1>3 DEF Terminate
  <2> QED BY <1>2, <1>3, <2>1
<1>4. ASSUME NEW entry \in Entries, entry.what # "sendImpl",
             entry.what = "write" => entry.ec = "fail",
             ready' = Append(ready, entry),
             UNCHANGED <<received, current, sendQueue, texts, state>>,
             "write" \in pending' => "write" \in pending
      PROVE  SendInv'
  <2>1. SamePosts
    BY <1>0, <1>4, PostsAppend DEF SamePosts
  <2> QED BY <1>4, <2>1, QuietKeeps DEF Quiet
<1>5. ASSUME NEW frame, NEW queue \in Seq(Entries), Push(frame, queue),
             Posted(queue) = Posted(ready), InTurn(queue),
             WrittenOk(queue) => WrittenOk(ready),
             UNCHANGED <<received, texts, pending>>,
             \/ frame = Pong /\ state = "open" /\ state' = "open"
             \/ /\ frame \in {CloseFrame, LastClose}
                /\ state # "closed" /\ state' = "closing"
      PROVE  SendInv'
  <2>1. SamePosts /\ Pushes(frame)
    BY <1>5, PushPosts, MarksTyped DEF SamePosts, Pushes
  <2>2. PushesMark
    BY <1>5, <2>1 DEF PushesMark
  <2> QED BY <2>2, MarkKeeps
<1>6. ASSUME NEW frame, Push(frame, ready), UNCHANGED <<received, texts, pending>>,
             \/ frame = Pong /\ state = "open" /\ state' = "open"
             \/ /\ frame \in {CloseFrame, LastClose}
                /\ state # "closed" /\ state' = "closing"
      PROVE  SendInv'
  BY <1>0, <1>5, <1>6
<1>7. looping => state \in {"open", "closing"}
  BY DEF ReadInv, StageFits
<1>8. CASE HandleResolve
  <2>1. /\ Runs("resolve") /\ UNCHANGED <<received, sendQueue, current, texts>>
        /\ \/ Terminate(Rest)
           \/ /\ ready' = Rest /\ state' = state
              /\ pending' = pending \cup {"connect"}
    BY <1>8 DEF HandleResolve, sessionVars, writeVars, peerVars, callVars
  <2> QED BY <1>2, <1>3, <2>1
<1>9. CASE HandleConnect
  <2>1. /\ Runs("connect") /\ UNCHANGED <<received, sendQueue, current, texts>>
        /\ \/ Terminate(Rest)
           \/ /\ ready' = Rest /\ state' = state
              /\ pending' = pending \cup {"request"}
    BY <1>9 DEF HandleConnect, writeVars, peerVars, callVars
  <2> QED BY <1>2, <1>3, <2>1
<1>10. CASE HandleSendHttpRequest
  <2>1. /\ Runs("request") /\ UNCHANGED <<received, sendQueue, current, texts>>
        /\ \/ Terminate(Rest)
           \/ /\ ready' = Rest /\ state' = state
              /\ pending' = pending \cup {"read"}
    BY <1>10 DEF HandleSendHttpRequest, writeVars, peerVars, callVars
  <2> QED BY <1>2, <1>3, <2>1
<1>11. CASE HandleReadHttpResponse
  <2>1. /\ Runs("read") /\ UNCHANGED <<received, sendQueue, current, texts>>
        /\ state # "closed" /\ internal = "read response"
        /\ \/ Terminate(Rest)
           \/ /\ ready' = Rest /\ state' \in {state, "open"}
              /\ pending' = pending \/ pending' = pending \cup {"read"}
    BY <1>11 DEF HandleReadHttpResponse, writeVars, peerVars, callVars,
       sessionVars
  <2>2. state = "connecting"
    <3>1. state \in {"connecting", "open", "closing", "closed"}
      BY DEF TypeOK, SessionType
    <3> QED BY <2>1, <3>1 DEF ReadInv, StageFits
  <2> QED BY <1>2, <1>3, <2>1, <2>2
<1>12. CASE HandleReadFrame
  <2>1. /\ Runs("read") /\ UNCHANGED <<received, sendQueue, current, texts>>
        /\ \/ Terminate(Rest)
           \/ ready' = Rest /\ state' = state /\ pending' = pending
    BY <1>12 DEF HandleReadFrame, writeVars, peerVars, callVars, sessionVars
  <2> QED BY <1>2, <1>3, <2>1
<1>13. CASE HandleLate \/ HandleNone
  <2>1. /\ ready' = Rest
        /\ UNCHANGED <<received, sendQueue, current, texts, state, pending>>
        /\ \E what : Runs(what) /\ what # "sendImpl"
    BY <1>13 DEF HandleLate, HandleNone, writeVars, peerVars, callVars,
       sessionVars
  <2> QED BY <1>2, <2>1
<1>14. CASE \E which \in Timers : HandleTimeout(which)
  <2>1. /\ UNCHANGED <<received, sendQueue, current, texts>>
        /\ \E which \in Timers : Runs(which) /\ Terminate(Rest)
    BY <1>14 DEF HandleTimeout, writeVars, peerVars, callVars
  <2>2. "sendImpl" \notin Timers
    BY DEF Timers
  <2> QED BY <1>3, <2>1, <2>2
<1>15. CASE ProcessFrame
  <2>1. /\ UNCHANGED <<received, texts, pending, state>>
        /\ \/ state = "open" /\ Push(Pong, ready)
           \/ UNCHANGED <<writeVars, ready>>
    BY <1>15 DEF ProcessFrame, sessionVars, peerVars, callVars
  <2> QED BY <1>1, <1>6, <2>1 DEF writeVars
<1>16. CASE ProcessClose \/ ProcessBadClose
  <2>1. /\ UNCHANGED <<received, texts, pending>> /\ state # "closed"
        /\ \/ Push(CloseFrame, ready) /\ state' = "closing"
           \/ UNCHANGED <<state, writeVars, ready>>
    BY <1>7, <1>16 DEF ProcessClose, ProcessBadClose, SendCloseFrame, Loops,
       peerVars, callVars
  <2> QED BY <1>1, <1>6, <2>1 DEF writeVars
<1>17. CASE ProcessJunk
  <2>1. /\ UNCHANGED <<received, texts>> /\ state # "closed"
        /\ \/ /\ Push(LastClose, ready) /\ state' = "closing"
              /\ pending' = pending
           \/ Terminate(ready) /\ UNCHANGED writeVars
    BY <1>7, <1>17 DEF ProcessJunk, SendCloseFrame, Loops, peerVars, callVars
  <2>2. Terminate(ready) => /\ ready' = ready /\ state' = "closed"
                            /\ "write" \in pending' => "write" \in pending
    BY DEF Terminate
  <2> QED BY <1>1, <1>6, <2>1, <2>2 DEF writeVars
<1>18. CASE ReadFrame
  <2>1. /\ UNCHANGED <<received, current, sendQueue, texts, ready, state>>
        /\ pending' = pending \cup {"read"}
    BY <1>18 DEF ReadFrame, writeVars, peerVars, callVars, sessionVars
  <2> QED BY <1>1, <2>1
<1>19. CASE WriteFrame
  <2>1. /\ Runs("write_frame") /\ ready' = Rest
        /\ UNCHANGED <<received, texts, state>>
    BY <1>19 DEF WriteFrame, sessionVars, peerVars, callVars
  <2>2. SamePosts
    BY <1>0, <2>1, RestPosts DEF SamePosts
  <2>3. CASE writeFlag \/ sendQueue = <<>>
    <3>1. UNCHANGED <<writeVars, pending>>
      BY <1>19, <2>3 DEF WriteFrame
    <3> QED BY <1>2, <2>1, <3>1 DEF writeVars
  <2>4. CASE ~(writeFlag \/ sendQueue = <<>>)
    <3>1. PICK n \in 1..Len(sendQueue) :
            /\ sendQueue' = SubSeq(sendQueue, n + 1, Len(sendQueue))
            /\ IF state = "closed"
               THEN current' = <<>> /\ UNCHANGED pending
               ELSE /\ current' = SubSeq(sendQueue, 1, n)
                    /\ pending' = pending \cup {"write"}
      BY <1>19, <2>4 DEF WriteFrame
    <3>2. n \in 0..Len(sendQueue)
      BY <3>1
    <3>3. CASE state = "closed"
      <4>1. "write" \notin pending /\ current' = <<>> /\ pending' = pending
        BY <3>1, <3>3 DEF WriteInv
      <4> QED BY <2>1, <2>2, <3>1, <3>2, <3>3, <4>1, MoveOutKeeps DEF MovesOut
    <3>4. CASE state # "closed"
      <4>1. ~Under("write") /\ current = <<>>
        BY <2>4, <3>4 DEF WriteInv
      <4>2. ~WrittenOk(ready)
        <5>1. DOMAIN ready = 1..Len(ready)
          BY <1>0, LenProperties
        <5> QED BY <4>1, <5>1 DEF WrittenOk, Under, Has
      <4> QED
        BY <2>1, <2>2, <3>1, <3>2, <3>4, <4>1, <4>2, MoveKeeps
           DEF Moves, Under
    <3> QED BY <3>3, <3>4
  <2> QED BY <2>3, <2>4
<1>20. CASE HandleWriteFrame
  <2>1. /\ Runs("write") /\ state # "closed" /\ current' = <<>>
        /\ UNCHANGED <<received, texts, sendQueue>>
        /\ \/ Terminate(Rest)
           \/ /\ Ec # "fail" /\ UNCHANGED <<state, pending>>
              /\ ready' \in {Rest, Append(Rest, Post("write_frame"))}
    BY <1>20 DEF HandleWriteFrame, sessionVars, peerVars, callVars
  <2>2. CASE Terminate(Rest)
    BY <1>3, <2>1, <2>2
  <2>3. CASE Ec # "fail" /\ UNCHANGED <<state, pending>>
             /\ ready' \in {Rest, Append(Rest, Post("write_frame"))}
    <3>1. /\ Rest \in Seq(Entries) /\ InTurn(Rest) /\ Posted(Rest) = Posted(ready)
          /\ WrittenOk(Rest) => WrittenOk(ready)
          /\ WrittenOk(ready)
      BY <1>0, <2>1, <2>3, RestPosts
    <3>2. Frames(current) \subseteq Frames(received)
      BY <2>1, <3>1 DEF SendInv, GapInv
    <3>3. /\ Post("write_frame") \in Entries
          /\ Post("write_frame").what = "write_frame"
      BY EntriesMade DEF Post, Entry
    <3>4. SamePosts
      BY <2>3, <3>1, <3>3, PostsAppend DEF SamePosts
    <3> QED BY <2>1, <2>3, <3>2, <3>4, QuietKeeps DEF Quiet
  <2> QED BY <2>1, <2>2, <2>3
<1>21. CASE CloseImpl
  <2>1. /\ Runs("closeImpl") /\ UNCHANGED <<received, texts, pending>>
        /\ \/ /\ Push(CloseFrame, Rest)
              /\ state = "open" /\ state' = "closing"
           \/ UNCHANGED <<state, writeVars, ready>>
    BY <1>21 DEF CloseImpl, SendCloseFrame, sessionVars, peerVars, callVars
  <2>2. /\ Rest \in Seq(Entries) /\ InTurn(Rest) /\ Posted(Rest) = Posted(ready)
        /\ WrittenOk(Rest) => WrittenOk(ready)
    BY <1>0, <2>1, RestPosts
  <2> QED BY <1>1, <1>5, <2>1, <2>2 DEF writeVars
<1>22. CASE SendImpl
  <2>1. /\ Runs("sendImpl") /\ UNCHANGED <<received, texts, pending, state>>
        /\ \/ state = "open" /\ Got[1] \notin NotUtf8 /\ Push(Got[1], Rest)
           \/ /\ state # "open" \/ Got[1] \in NotUtf8
              /\ ready' = Rest /\ UNCHANGED writeVars
    BY <1>22 DEF SendImpl, sessionVars, peerVars, callVars
  <2>2. /\ Rest \in Seq(Entries) /\ InTurn(Rest)
        /\ WrittenOk(Rest) => WrittenOk(ready)
        /\ Posted(ready) = Posted(Rest) \cup {Got[1]}
        /\ \A n \in Posted(Rest) : Got[1] < n
    BY <1>0, <2>1, RestPosts
  <2>3. CASE state = "open" /\ Got[1] \notin NotUtf8 /\ Push(Got[1], Rest)
    <3>1. Got[1] \in Outgoing
      BY <2>1, HeadEntry DEF Runs
    <3>2. TakesIn(Got[1])
      BY <2>1, <2>2, <2>3, <3>1, PushPosts DEF TakesIn, Pushes
    <3> QED BY <3>2, TakeKeeps
  <2>4. CASE /\ state # "open" \/ Got[1] \in NotUtf8
             /\ ready' = Rest /\ UNCHANGED writeVars
    <3>1. Drops(Got[1])
      BY <2>1, <2>2, <2>4 DEF Drops, writeVars
    <3> QED BY <3>1, DropKeeps
  <2> QED BY <2>1, <2>3, <2>4
<1>23. CASE RunReturns \/ OpenInvalid \/ Peer \/ UNCHANGED vars
  <2>1. UNCHANGED <<received, current, sendQueue, texts, ready, state, pending>>
    BY <1>23 DEF RunReturns, OpenInvalid, Peer, PeerSends, PeerHangsUp,
       PeerActs, vars, sessionVars, writeVars, peerVars, callVars
  <2> QED BY <1>1, <2>1
<1>24. CASE Open
  <2>1. /\ UNCHANGED <<received, current, sendQueue, texts, ready, state>>
        /\ pending' = {"resolve"}
    BY <1>24 DEF Open, sessionVars, writeVars, peerVars, callVars
  <2> QED BY <1>1, <2>1
<1>25. CASE Close
  <2>1. /\ UNCHANGED <<received, current, sendQueue, texts, state, pending>>
        /\ ready' = ready \/ ready' = Append(ready, Post("closeImpl"))
    BY <1>25 DEF Close, PostToService, sessionVars, writeVars, peerVars
  <2>2. /\ Post("closeImpl") \in Entries
        /\ Post("closeImpl").what = "closeImpl"
    BY EntriesMade DEF Post, Entry
  <2> QED BY <1>1, <1>4, <2>1, <2>2
<1>26. CASE Send
  <2> DEFINE entry == Entry("sendImpl", "ok", <<texts + 1>>)
  <2>1. /\ UNCHANGED <<received, current, sendQueue, state, pending>>
        /\ texts' = texts + 1
        /\ IF thread = "none" THEN ready' = ready
           ELSE ready' = Append(ready, entry)
    BY <1>26 DEF Send, PostToService, sessionVars, writeVars, peerVars
  <2>2. CASE thread = "none"
    <3>1. state = "connecting" /\ ready = <<>>
      BY <2>2 DEF ReadInv, StageFits
    <3>2. Posted(ready) = {}
      <4>1. DOMAIN <<>> = {}
        OBVIOUS
      <4> QED BY <3>1, <4>1 DEF Posted, Sends
    <3> QED BY <1>0, <2>1, <2>2, <3>1, <3>2, AskKeeps DEF Asks
  <2>3. CASE thread # "none"
    <3>1. /\ entry \in Entries /\ entry.what = "sendImpl"
          /\ entry.got[1] = texts + 1
      <4>1. texts + 1 \in 1..MaxTexts
        BY <1>26, BoundsAssumption DEF Send, TypeOK, CallType
      <4> QED BY <4>1, EntriesMade DEF Entry
    <3>2. \A n \in Posted(ready) : n < texts + 1
      <4>1. Posted(ready) \subseteq 1..texts /\ texts \in Nat
        BY SentTyped DEF SendInv, PostInv
      <4> QED BY <4>1
    <3> HIDE DEF entry
    <3>3. /\ Posted(ready') = Posted(ready) \cup {texts + 1} /\ InTurn(ready')
          /\ WrittenOk(ready') => WrittenOk(ready)
      <4>1. ready' = Append(ready, entry)
        BY <2>1, <2>3
      <4>2. \A n \in Posted(ready) : n < entry.got[1]
        BY <3>1, <3>2, Zenon
      <4>3. /\ Posted(Append(ready, entry)) = Posted(ready) \cup {entry.got[1]}
            /\ InTurn(Append(ready, entry))
            /\ WrittenOk(Append(ready, entry)) => WrittenOk(ready)
        BY <1>0, <3>1, <4>2, PostsAppend
      <4> QED BY <3>1, <4>1, <4>3, Zenon
    <3> QED BY <2>1, <3>3, AskKeeps DEF Asks
  <2> QED BY <2>2, <2>3
<1>27. ASSUME NEW op \in Ops, NEW ec \in {"ok", "fail", "eof"},
              NEW got \in Seq(Incoming), Completes(op, ec, got),
              op = "write" => ec = "fail", UNCHANGED received
       PROVE  SendInv'
  <2>1. /\ Entry(op, ec, got) \in Entries /\ Entry(op, ec, got).what = op
        /\ Entry(op, ec, got).ec = ec
        /\ pending' = pending \ {op} /\ op # "sendImpl"
        /\ UNCHANGED <<state, sendQueue, current, texts>>
        /\ ready' = Append(ready, Entry(op, ec, got))
    BY <1>27, EntriesMade
       DEF Completes, Entry, Ops, sessionVars, writeVars, callVars
  <2> QED BY <1>4, <1>27, <2>1
<1>28. CASE Written
  <2>1. /\ Completes("write", "ok", <<>>) /\ received' = received \o current
    BY <1>28 DEF Written
  <2>2. /\ "write" \in pending /\ pending' = pending \ {"write"}
        /\ UNCHANGED <<state, sendQueue, current, texts>>
        /\ ready' = Append(ready, Entry("write", "ok", <<>>))
    BY <2>1 DEF Completes, sessionVars, writeVars, callVars
  <2>3. /\ Entry("write", "ok", <<>>) \in Entries
        /\ Entry("write", "ok", <<>>).what = "write"
    <3>1. <<>> \in Seq(Incoming)
      OBVIOUS
    <3> QED BY <3>1, EntriesMade DEF Entry, Ops
  <2>4. Posted(ready') = Posted(ready) /\ InTurn(ready')
    BY <1>0, <2>2, <2>3, PostsAppend
  <2>5. state # "closed"
    BY <2>2 DEF WriteInv
  <2> QED BY <2>1, <2>2, <2>4, <2>5, WriteDoneKeeps DEF Writes
<1>29. CASE Succeeds \/ Fails \/ Arrives \/ Eof
  <2>1. <<>> \in Seq(Incoming)
    OBVIOUS
  <2>2. CASE Succeeds \/ Fails \/ Eof
    <3>1. \E op \in Ops, ec \in {"ok", "fail", "eof"} :
            /\ Completes(op, ec, <<>>) /\ (op = "write" => ec = "fail")
            /\ UNCHANGED received
      BY <2>2 DEF Succeeds, Fails, Eof, Ops, peerVars
    <3> QED BY <1>27, <2>1, <3>1
  <2>3. CASE Arrives
    <3>1. PICK n \in 0..Len(inbox) :
            Completes("read", "ok", SubSeq(inbox, 1, n))
      BY <2>3 DEF Arrives
    <3>2. SubSeq(inbox, 1, n) \in Seq(Incoming) /\ received' = received
      BY <2>3, SuffixType DEF TypeOK, ReadType, Arrives
    <3> QED BY <1>27, <3>1, <3>2 DEF Ops
  <2> QED BY <1>29, <2>2, <2>3
<1>30. CASE Clock
  <2>1. PICK which \in Timers : Expire(which)
    BY <1>30 DEF Clock, ExpireDeadline, ExpireHandshake, ExpireOrphan, Timers
  <2>2. /\ Post(which) \in Entries /\ Post(which).what # "sendImpl"
        /\ Post(which).what # "write"
    BY EntriesMade DEF Post, Entry, Timers
  <2>3. /\ ready' = Append(ready, Post(which))
        /\ UNCHANGED <<received, current, sendQueue, texts, state, pending>>
    BY <2>1 DEF Expire, writeVars, peerVars, callVars
  <2> QED BY <1>4, <2>2, <2>3
<1> QED
  BY <1>8, <1>9, <1>10, <1>11, <1>12, <1>13, <1>14, <1>15, <1>16, <1>17,
     <1>18, <1>19, <1>20, <1>21, <1>22, <1>23, <1>24, <1>25, <1>26, <1>28,
     <1>29, <1>30 DEF Next, IoThread, Script, Network

\* A new object has sent nothing.
LEMMA SendInit == Init => SendInv
<1> SUFFICES ASSUME Init PROVE SendInv
  OBVIOUS
<1>1. /\ ready = <<>> /\ received = <<>> /\ current = <<>> /\ sendQueue = <<>>
      /\ pending = {} /\ texts = 0 /\ state = "connecting"
  BY DEF Init
<1>2. DOMAIN <<>> = {}
  OBVIOUS
<1>3. Posted(ready) = {} /\ InTurn(ready) /\ ~WrittenOk(ready)
  BY <1>1, <1>2 DEF Posted, Sends, InTurn, WrittenOk
<1>4. Sent = {} /\ OnWire = <<>> /\ Frames(received) = {}
  BY <1>1, FramesEmpty DEF Sent, OnWire
<1>5. PostInv
  BY <1>3, <1>4 DEF PostInv
<1>6. OrderInv
  BY <1>1, <1>4, FramesEmpty DEF OrderInv
<1>7. GapInv
  <2>1. Messages({}) = {} /\ Run({}) /\ Proper({})
    BY DEF Messages, Run, Proper
  <2> QED BY <1>3, <1>4, <2>1 DEF GapInv, Kept
<1> QED BY <1>5, <1>6, <1>7 DEF SendInv

\* The three invariants that the theorems rest on.
LEMMA SendInvCorrect == Spec => [](TypeOK /\ SendInv)
<1>1. TypeOK /\ ReadInv /\ [Next]_vars => ReadInv'
  BY OneStageStep, StageFitsStep DEF ReadInv
<1> QED
  BY <1>1, ReadInit, WriteInit, SendInit, WriteInvStep, SendInvStep,
     TypeCorrect, PTL DEF Spec

(***************************************************************************)
(* The theorems                                                            *)
(***************************************************************************)
\* What the peer gets are the messages of the script in the order of its calls,
\* and nothing but Close frames comes after one (FlintWebSocketAPI::send,
\* connection::write_frame, send_close_frame).
THEOREM OrderCorrect == Spec => []OutgoingInOrder
<1>1. TypeOK /\ SendInv => OutgoingInOrder
  <2> SUFFICES ASSUME TypeOK, SendInv PROVE OutgoingInOrder
    OBVIOUS
  <2>1. /\ received \in Seq(Outgoing) /\ OnWire \in Seq(Outgoing)
        /\ sendQueue \in Seq(Outgoing)
    <3>1. <<>> \in Seq(Outgoing)
      OBVIOUS
    <3> QED BY <3>1 DEF TypeOK, WriteType, OnWire
  <2> DEFINE wire == received \o OnWire
  <2>2. /\ wire \in Seq(Outgoing) /\ Sorted(wire)
        /\ Frames(wire) = Frames(received) \cup Frames(OnWire)
    BY <2>1, FramesConcat, ConcatProperties DEF SendInv, OrderInv
  <2>3. Across(wire, sendQueue)
    BY <2>2, Zenon DEF SendInv, OrderInv, Across
  <2> HIDE DEF wire
  <2>4. Sorted(wire \o sendQueue)
    BY <2>1, <2>2, <2>3, FramesConcat DEF SendInv, OrderInv
  <2>5. \A i, j \in DOMAIN (wire \o sendQueue) : i < j =>
          Fits((wire \o sendQueue)[i], (wire \o sendQueue)[j])
    BY <2>4, Zenon DEF Sorted
  <2> QED BY <2>5, Zenon DEF OutgoingInOrder, OnWire, Fits, wire
<1> QED BY <1>1, SendInvCorrect, PTL

\* Between two messages that the peer gets only those are left out that are not
\* UTF-8, and until the connection closes none else between the first that was
\* taken and the last call (FlintWebSocketAPI::sendImpl, connection::send).
THEOREM GapCorrect == Spec => []NoGap
<1>1. TypeOK /\ SendInv => NoGap
  <2> SUFFICES ASSUME TypeOK, SendInv PROVE NoGap
    OBVIOUS
  <2> DEFINE messages(q) == {n \in 1..texts : \E i \in DOMAIN q : q[i] = n}
             posted == {ready[i].got[1] : i \in Queued("sendImpl")}
             kept == messages(received \o current \o sendQueue) \cup posted
  <2>1. /\ received \in Seq(Outgoing) /\ current \in Seq(Outgoing)
        /\ sendQueue \in Seq(Outgoing) /\ received \o current \in Seq(Outgoing)
    BY ConcatProperties DEF TypeOK, WriteType
  <2>2. ASSUME NEW q, Frames(q) \subseteq Sent
        PROVE  messages(q) = Messages(Frames(q))
    <3>1. \A x \in Frames(q) : x \in Int /\ x <= texts
      BY <2>2, SentTyped DEF SendInv, PostInv
    <3>2. messages(q) = {n \in 1..texts : n \in Frames(q)}
      BY DEF Frames
    <3>3. texts \in Nat
      BY SentTyped
    <3> HIDE DEF messages
    <3> QED BY <3>1, <3>2, <3>3 DEF Messages, Pong
  <2>3. Frames(received \o current \o sendQueue) = Sent
    <3>1. Frames(received \o current) = Frames(received) \cup Frames(current)
      BY <2>1, FramesConcat
    <3>2. ASSUME NEW p \in Seq(Outgoing)
          PROVE  Frames(p \o sendQueue) = Frames(p) \cup Frames(sendQueue)
      BY <2>1, FramesConcat
    <3> QED BY <2>1, <3>1, <3>2, Zenon DEF Sent
  <2>4. messages(received) = Messages(Frames(received))
    BY <2>2 DEF Sent
  <2>5. messages(received \o current \o sendQueue) = Messages(Sent)
    BY <2>2, <2>3
  <2>6. posted = Posted(ready)
    BY DEF Posted, Sends, Queued
  <2>7. kept = Kept
    BY <2>5, <2>6, Zenon DEF Kept
  <2>8. \A m, n \in messages(received) :
          (m..n) \ NotUtf8 \subseteq messages(received)
    BY <2>4, Zenon DEF SendInv, GapInv, Run
  <2>9. state \in {"connecting", "open"} =>
          \A n \in kept : (n..texts) \ NotUtf8 \subseteq kept
    BY <2>7, Zenon DEF SendInv, GapInv
  <2>10. messages(received) \cap NotUtf8 = {}
    <3>1. Messages(Frames(received)) \subseteq Messages(Sent)
      BY DEF Messages, Sent
    <3> HIDE DEF messages
    <3> QED BY <2>4, <3>1 DEF SendInv, GapInv, Proper
  <2> HIDE DEF kept, posted, messages
  <2> QED BY <2>8, <2>9, <2>10, Zenon DEF NoGap, kept, posted, messages
<1> QED BY <1>1, SendInvCorrect, PTL


(***************************************************************************)
(* The promise to the handlers                                             *)
(***************************************************************************)
\* What the handlers were called for, by the state of the session.
FiredInv ==
    /\ state = "connecting" =>
          fired["open"] = 0 /\ fired["error"] = 0 /\ fired["close"] = 0
    /\ state \in {"open", "closing"} =>
          fired["open"] = 1 /\ fired["error"] = 0 /\ fired["close"] = 0
    /\ state = "closed" =>
          /\ fired["open"] + fired["error"] = 1
          /\ fired["close"] = fired["open"]

\* The messages in queue are those after low up to high, in order.
Flow(queue, low, high) ==
    /\ low <= high
    /\ \A i \in DOMAIN queue : queue[i] > Ping => low < queue[i] /\ queue[i] <= high
    /\ \A i, j \in DOMAIN queue :
          i < j /\ queue[i] > Ping /\ queue[j] > Ping => queue[i] < queue[j]
    /\ (low + 1)..high \subseteq Frames(queue)

\* What the connection has read and not handled: at most one holder has it.
Reads(queue) == {queue[i].got : i \in {j \in DOMAIN queue : queue[j].what = "read"}}

Held ==
    IF looping THEN {buf}
    ELSE IF Reads(ready) = {} THEN {<<>>} ELSE Reads(ready)

ToCome(read) == Flow(read \o inbox, Len(delivered), data)

FlowInv ==
    /\ ~looping => buf = <<>>
    /\ state \in {"connecting", "open"} => \A read \in Held : ToCome(read)
    /\ \A i \in DOMAIN delivered : delivered[i] = i

SessionInv == FiredInv /\ FlowInv

\* What is left of a queue of messages when its first frame is taken.
LEMMA FlowTail ==
    ASSUME NEW q \in Seq(Int), q # <<>>, NEW low \in Nat, NEW high \in Nat,
           Flow(q, low, high)
    PROVE  /\ Head(q) <= Ping => Flow(Tail(q), low, high)
           /\ Head(q) > Ping =>
                Head(q) = low + 1 /\ Flow(Tail(q), low + 1, high)
<1> DEFINE r == Tail(q)
<1>1. /\ Len(q) \in Nat \ {0} /\ DOMAIN q = 1..Len(q) /\ Head(q) = q[1]
      /\ r \in Seq(Int) /\ Len(r) = Len(q) - 1 /\ DOMAIN r = 1..(Len(q) - 1)
      /\ \A i \in 1..(Len(q) - 1) : r[i] = q[i + 1]
  BY HeadTailProperties, EmptySeq, LenProperties
<1>2. /\ \A i \in DOMAIN q : q[i] \in Int
      /\ \A i \in DOMAIN q : q[i] > 0 => low < q[i] /\ q[i] <= high
      /\ \A i, j \in DOMAIN q : i < j /\ q[i] > 0 /\ q[j] > 0 => q[i] < q[j]
      /\ \A n \in (low + 1)..high : \E i \in DOMAIN q : q[i] = n
  BY DEF Flow, Frames, Ping
<1> HIDE DEF r
<1>3. /\ 1 \in DOMAIN q
      /\ \A i \in DOMAIN r : /\ i + 1 \in DOMAIN q /\ 1 < i + 1 /\ r[i] = q[i + 1]
      /\ \A i \in DOMAIN q : i = 1 \/ (i - 1 \in DOMAIN r /\ r[i - 1] = q[i])
      /\ \A i, j \in DOMAIN r : i < j => i + 1 < j + 1
  <2>1. PICK n \in Nat \ {0} : Len(q) = n
    BY <1>1
  <2>2. /\ DOMAIN q = 1..n /\ DOMAIN r = 1..(n - 1)
        /\ \A i \in 1..(n - 1) : r[i] = q[i + 1]
    BY <1>1, <2>1
  <2>3. /\ 1 \in 1..n
        /\ \A i \in 1..(n - 1) : i + 1 \in 1..n /\ 1 < i + 1
        /\ \A i \in 1..n : i = 1 \/ (i - 1 \in 1..(n - 1) /\ (i - 1) + 1 = i)
        /\ \A i, j \in 1..(n - 1) : i < j => i + 1 < j + 1
    OBVIOUS
  <2>4. ASSUME NEW i \in 1..n, i # 1
        PROVE  i - 1 \in 1..(n - 1) /\ r[i - 1] = q[i]
    <3>1. i - 1 \in 1..(n - 1) /\ (i - 1) + 1 = i
      BY <2>3, <2>4
    <3>2. r[i - 1] = q[(i - 1) + 1]
      BY <2>2, <3>1
    <3> QED BY <3>1, <3>2
  <2>5. 1 \in DOMAIN q
    BY <2>2, <2>3
  <2>6. \A i \in DOMAIN r : i + 1 \in DOMAIN q /\ 1 < i + 1 /\ r[i] = q[i + 1]
    BY <2>2, <2>3
  <2>7. \A i \in DOMAIN q : i = 1 \/ (i - 1 \in DOMAIN r /\ r[i - 1] = q[i])
    <3> TAKE i \in DOMAIN q
    <3>1. i \in 1..n
      BY <2>2, Zenon
    <3>2. i # 1 => i - 1 \in 1..(n - 1) /\ r[i - 1] = q[i]
      BY <2>4, <3>1, Zenon
    <3>3. DOMAIN r = 1..(n - 1)
      BY <2>2, Zenon
    <3> QED BY <3>2, <3>3, Zenon
  <2>8. \A i, j \in DOMAIN r : i < j => i + 1 < j + 1
    BY <2>2, <2>3
  <2> QED BY <2>5, <2>6, <2>7, <2>8, Zenon
<1>4. ASSUME NEW i \in DOMAIN r, NEW j \in DOMAIN r, i < j, r[i] > 0, r[j] > 0
      PROVE  r[i] < r[j]
  BY <1>2, <1>3, <1>4
<1>5. ASSUME q[1] <= 0 PROVE Flow(r, low, high)
  <2>1. \A i \in DOMAIN r : r[i] > 0 => low < r[i] /\ r[i] <= high
    BY <1>2, <1>3
  <2>2. ASSUME NEW n \in (low + 1)..high PROVE n \in Frames(r)
    <3>1. PICK i \in DOMAIN q : q[i] = n
      BY <1>2
    <3>2. i # 1
      BY <1>5, <3>1
    <3> QED BY <1>3, <3>1, <3>2 DEF Frames
  <2>3. low <= high
    BY DEF Flow
  <2> QED BY <1>4, <2>1, <2>2, <2>3 DEF Flow, Ping
<1>6. ASSUME q[1] > 0 PROVE q[1] = low + 1 /\ Flow(r, low + 1, high)
  <2>1. low < q[1] /\ q[1] <= high /\ q[1] \in Int
    BY <1>2, <1>3, <1>6
  <2>2. ASSUME NEW i \in DOMAIN r, r[i] > 0 PROVE q[1] < r[i] /\ r[i] <= high
    BY <1>2, <1>3, <1>6, <2>2
  <2>3. q[1] = low + 1
    <3>1. PICK i \in DOMAIN q : q[i] = low + 1
      BY <1>2, <2>1
    <3>2. CASE i = 1
      BY <3>1, <3>2
    <3>3. CASE i - 1 \in DOMAIN r /\ r[i - 1] = q[i]
      BY <2>1, <2>2, <3>1, <3>3
    <3> QED BY <1>3, <3>2, <3>3
  <2>4. ASSUME NEW n \in (low + 1 + 1)..high PROVE n \in Frames(r)
    <3>1. PICK i \in DOMAIN q : q[i] = n
      BY <1>2
    <3>2. i # 1
      BY <2>3, <3>1
    <3> QED BY <1>3, <3>1, <3>2 DEF Frames
  <2>5. \A i \in DOMAIN r : r[i] > 0 => low + 1 < r[i] /\ r[i] <= high
    BY <2>2, <2>3
  <2>6. low + 1 <= high
    BY <2>1, <2>3
  <2> QED BY <1>4, <2>3, <2>4, <2>5, <2>6 DEF Flow, Ping
<1>7. q[1] \in Int
  BY <1>2, <1>3
<1> QED BY <1>1, <1>5, <1>6, <1>7 DEF r, Ping

\* A frame more at the end: no message, or the next one.
LEMMA FlowAppend ==
    ASSUME NEW q \in Seq(Int), NEW low \in Nat, NEW high \in Nat, NEW x \in Int,
           Flow(q, low, high)
    PROVE  /\ x <= Ping => Flow(Append(q, x), low, high)
           /\ x = high + 1 => Flow(Append(q, x), low, high + 1)
<1> DEFINE r == Append(q, x)
<1>1. /\ Len(q) \in Nat /\ DOMAIN q = 1..Len(q) /\ DOMAIN r = 1..(Len(q) + 1)
      /\ \A i \in DOMAIN q : r[i] = q[i]
      /\ r[Len(q) + 1] = x
  BY AppendProperties, LenProperties
<1>2. /\ \A i \in DOMAIN q : q[i] \in Int
      /\ \A i \in DOMAIN q : q[i] > 0 => low < q[i] /\ q[i] <= high
      /\ \A i, j \in DOMAIN q : i < j /\ q[i] > 0 /\ q[j] > 0 => q[i] < q[j]
      /\ \A n \in (low + 1)..high : n \in Frames(q)
      /\ low <= high /\ low <= high + 1
  BY DEF Flow, Ping
<1> HIDE DEF r
<1>3. /\ \A i \in DOMAIN r : i \in DOMAIN q \/ i = Len(q) + 1
      /\ \A i \in DOMAIN q : i < Len(q) + 1 /\ i \in DOMAIN r
      /\ Len(q) + 1 \in DOMAIN r
      /\ \A i \in DOMAIN r : r[i] \in Int
  BY <1>1, <1>2
<1>4. Frames(q) \subseteq Frames(r) /\ x \in Frames(r)
  BY <1>1, <1>3 DEF Frames
<1>5. ASSUME x <= 0 PROVE Flow(r, low, high)
  <2>1. \A i \in DOMAIN r : r[i] > 0 => i \in DOMAIN q /\ r[i] = q[i]
    BY <1>1, <1>3, <1>5
  <2> QED BY <1>2, <1>4, <2>1 DEF Flow, Ping
<1>6. ASSUME x = high + 1 PROVE Flow(r, low, high + 1)
  <2>1. \A i \in DOMAIN r : r[i] > 0 => low < r[i] /\ r[i] <= high + 1
    BY <1>1, <1>2, <1>3, <1>6
  <2>2. ASSUME NEW i \in DOMAIN r, NEW j \in DOMAIN r, i < j, r[i] > 0, r[j] > 0
        PROVE  r[i] < r[j]
    <3>1. i \in DOMAIN q /\ r[i] = q[i]
      BY <1>1, <1>3, <2>2
    <3>2. CASE j \in DOMAIN q
      BY <1>1, <1>2, <2>2, <3>1, <3>2
    <3>3. CASE j = Len(q) + 1
      BY <1>1, <1>2, <1>6, <2>2, <3>1, <3>3
    <3> QED BY <1>3, <3>2, <3>3
  <2>3. \A n \in (low + 1)..(high + 1) : n \in (low + 1)..high \/ n = x
    BY <1>6
  <2>4. (low + 1)..(high + 1) \subseteq Frames(r)
    BY <1>2, <1>4, <2>3
  <2> QED BY <2>1, <2>2, <2>4 DEF Flow, Ping
<1> QED BY <1>5, <1>6 DEF r, Ping

\* Sequences that are the same.
LEMMA Joined ==
    ASSUME NEW T, NEW p \in Seq(T), NEW q \in Seq(T), NEW x \in T
    PROVE  /\ p # <<>> => /\ p \o q # <<>> /\ Head(p \o q) = Head(p)
                          /\ Tail(p \o q) = Tail(p) \o q
           /\ p \o Append(q, x) = Append(p \o q, x)
<1>1. ASSUME p # <<>>
      PROVE  p \o q # <<>> /\ Head(p \o q) = Head(p) /\ Tail(p \o q) = Tail(p) \o q
  <2>1. /\ Len(p) \in Nat \ {0} /\ Len(q) \in Nat /\ Tail(p) \in Seq(T)
        /\ Len(Tail(p)) = Len(p) - 1 /\ Head(p) = p[1]
        /\ \A i \in 1..Len(Tail(p)) : Tail(p)[i] = p[i + 1]
    BY <1>1, HeadTailProperties, EmptySeq, LenProperties
  <2>2. /\ p \o q \in Seq(T) /\ Len(p \o q) = Len(p) + Len(q)
        /\ \A i \in 1..(Len(p) + Len(q)) :
             (p \o q)[i] = IF i <= Len(p) THEN p[i] ELSE q[i - Len(p)]
    BY ConcatProperties
  <2>3. /\ Tail(p) \o q \in Seq(T) /\ Len(Tail(p) \o q) = Len(Tail(p)) + Len(q)
        /\ \A i \in 1..(Len(Tail(p)) + Len(q)) :
             (Tail(p) \o q)[i] =
               IF i <= Len(Tail(p)) THEN Tail(p)[i] ELSE q[i - Len(Tail(p))]
    BY <2>1, ConcatProperties
  <2>4. p \o q # <<>>
    BY <2>1, <2>2, EmptySeq
  <2>5. /\ Tail(p \o q) \in Seq(T) /\ Len(Tail(p \o q)) = Len(p \o q) - 1
        /\ \A i \in 1..Len(Tail(p \o q)) : Tail(p \o q)[i] = (p \o q)[i + 1]
        /\ Head(p \o q) = (p \o q)[1]
    BY <2>2, <2>4, HeadTailProperties, EmptySeq, LenProperties
  <2>6. Head(p \o q) = Head(p)
    BY <2>1, <2>2, <2>5
  <2>7. ASSUME NEW i \in 1..Len(Tail(p \o q))
        PROVE  Tail(p \o q)[i] = (Tail(p) \o q)[i]
    BY <2>1, <2>2, <2>3, <2>5
  <2>8. Tail(p \o q) = Tail(p) \o q
    BY <2>1, <2>2, <2>3, <2>5, <2>7, SeqEqual
  <2> QED BY <2>4, <2>6, <2>8
<1>2. p \o Append(q, x) = Append(p \o q, x)
  <2>1. <<x>> \in Seq(T)
    OBVIOUS
  <2>2. Append(q, x) = q \o <<x>>
    OBVIOUS
  <2>3. Append(p \o q, x) = (p \o q) \o <<x>>
    BY ConcatProperties
  <2> QED BY <2>1, <2>2, <2>3, ConcatAssociative
<1> QED BY <1>1, <1>2

\* What is read and not handled, when one entry is added to the queue or taken.
LEMMA ReadsAppend ==
    ASSUME NEW q \in Seq(Entries), NEW entry \in Entries
    PROVE  Reads(Append(q, entry)) =
             Reads(q) \cup IF entry.what = "read" THEN {entry.got} ELSE {}
<1> DEFINE r == Append(q, entry)
<1>1. /\ Len(q) \in Nat /\ DOMAIN q = 1..Len(q) /\ DOMAIN r = 1..(Len(q) + 1)
      /\ \A i \in DOMAIN q : r[i] = q[i]
      /\ r[Len(q) + 1] = entry
  BY AppendProperties, LenProperties
<1> HIDE DEF r
<1>2. DOMAIN r = DOMAIN q \cup {Len(q) + 1} /\ Len(q) + 1 \in DOMAIN r
  BY <1>1
<1>3. \A i \in DOMAIN r : r[i].what = "read" =>
        r[i].got \in Reads(q) \cup IF entry.what = "read" THEN {entry.got} ELSE {}
  BY <1>1, <1>2 DEF Reads
<1>4. entry.what = "read" => entry.got \in Reads(r)
  BY <1>1, <1>2 DEF Reads
<1>5. Reads(q) \subseteq Reads(r)
  BY <1>1, <1>2 DEF Reads
<1>6. Reads(r) \subseteq Reads(q) \cup IF entry.what = "read" THEN {entry.got} ELSE {}
  BY <1>3 DEF Reads
<1> QED BY <1>4, <1>5, <1>6 DEF r

LEMMA ReadsTail ==
    ASSUME NEW q \in Seq(Entries), q # <<>>
    PROVE  Reads(q) =
             Reads(Tail(q)) \cup IF Head(q).what = "read" THEN {Head(q).got} ELSE {}
<1> DEFINE r == Tail(q)
<1>1. /\ Len(q) \in Nat \ {0} /\ DOMAIN q = 1..Len(q) /\ Head(q) = q[1]
      /\ DOMAIN r = 1..(Len(q) - 1)
      /\ \A i \in 1..(Len(q) - 1) : r[i] = q[i + 1]
  BY HeadTailProperties, EmptySeq, LenProperties
<1> HIDE DEF r
<1>2. /\ 1 \in DOMAIN q
      /\ \A i \in DOMAIN r : i + 1 \in DOMAIN q /\ r[i] = q[i + 1]
  BY <1>1
<1>3. ASSUME NEW i \in DOMAIN q, i # 1 PROVE i - 1 \in DOMAIN r /\ r[i - 1] = q[i]
  <2>1. i - 1 \in 1..(Len(q) - 1) /\ (i - 1) + 1 = i
    BY <1>1, <1>3
  <2> QED BY <1>1, <2>1
<1>4. Reads(r) \subseteq Reads(q)
  BY <1>2 DEF Reads
<1>5. Head(q).what = "read" => Head(q).got \in Reads(q)
  BY <1>1, <1>2 DEF Reads
<1>6. \A i \in DOMAIN q : q[i].what = "read" =>
        q[i].got \in Reads(r) \cup IF Head(q).what = "read" THEN {Head(q).got} ELSE {}
  BY <1>1, <1>3 DEF Reads
<1>7. Reads(q) \subseteq Reads(r) \cup IF Head(q).what = "read" THEN {Head(q).got} ELSE {}
  BY <1>6 DEF Reads
<1> QED BY <1>4, <1>5, <1>7 DEF r

\* Nothing is read exactly when no read is queued.
LEMMA ReadsNone == ASSUME NEW q \in Seq(Entries)
                   PROVE  Reads(q) = {} <=> ~Has(q, "read")
<1>1. DOMAIN q = 1..Len(q)
  BY LenProperties
<1> QED BY <1>1 DEF Reads, Has

\* How the handlers that were called show in WsSession's variables.
LEMMA PhaseIs ==
    ASSUME TypeOK
    PROVE  /\ fired["open"] = 0 /\ fired["error"] = 0 /\ fired["close"] = 0
                => Phase = "new" /\ Calls = 0
           /\ fired["open"] = 1 /\ fired["error"] = 0 /\ fired["close"] = 0
                => Phase = "open" /\ Calls = 1
           /\ fired["open"] = 0 /\ fired["error"] = 1 /\ fired["close"] = 0
                => Phase = "failed" /\ Calls = 1
           /\ fired["open"] = 1 /\ fired["error"] = 0 /\ fired["close"] = 1
                => Phase = "closed" /\ Calls = 2
  BY DEF Phase, Calls

LEMMA FiredStep ==
    ASSUME NEW event \in Events, TypeOK, Fire(event)
    PROVE  /\ fired'[event] = fired[event] + 1
           /\ \A other \in Events \ {event} : fired'[other] = fired[other]
  BY DEF Fire, TypeOK, SessionType

\* A step that calls no handler, and leaves the session or begins to close it.
LEMMA HandlersQuiet ==
    ASSUME FiredInv, UNCHANGED <<fired, delivered>>,
           \/ state' = state
           \/ state \in {"open", "closing"} /\ state' = "closing"
    PROVE  FiredInv' /\ [Session!Next]_Session!vars
  BY DEF FiredInv, Session!vars, Phase, Calls

\* terminate calls the one handler that is due.
LEMMA HandlersTerminate ==
    ASSUME TypeOK, TypeOK', FiredInv, NEW queue, Terminate(queue),
           UNCHANGED delivered
    PROVE  FiredInv' /\ [Session!Next]_Session!vars
<1>1. state' = "closed"
  BY DEF Terminate
<1>2. CASE state = "connecting"
  <2>1. Fire("error")
    BY <1>2 DEF Terminate
  <2>2. /\ fired["open"] = 0 /\ fired["error"] = 0 /\ fired["close"] = 0
        /\ fired'["open"] = 0 /\ fired'["error"] = 1 /\ fired'["close"] = 0
    BY <1>2, <2>1, FiredStep DEF FiredInv, Events
  <2>3. Phase = "new" /\ Calls = 0
    BY <2>2, PhaseIs
  <2>4. Phase' = "failed" /\ Calls' = 1
    <3>1. (fired["open"] = 0 /\ fired["error"] = 1 /\ fired["close"] = 0
            => Phase = "failed" /\ Calls = 1)'
      BY PhaseIs, PTL
    <3> QED BY <2>2, <3>1
  <2>5. Session!Next
    BY <2>3, <2>4 DEF Session!Next, Session!Handler
  <2> QED BY <1>1, <2>2, <2>5 DEF FiredInv
<1>3. CASE state \in {"open", "closing"}
  <2>1. Fire("close")
    BY <1>3 DEF Terminate
  <2>2. /\ fired["open"] = 1 /\ fired["error"] = 0 /\ fired["close"] = 0
        /\ fired'["open"] = 1 /\ fired'["error"] = 0 /\ fired'["close"] = 1
    BY <1>3, <2>1, FiredStep DEF FiredInv, Events
  <2>3. Phase = "open" /\ Calls = 1
    BY <2>2, PhaseIs
  <2>4. Phase' = "closed" /\ Calls' = 2
    <3>1. (fired["open"] = 1 /\ fired["error"] = 0 /\ fired["close"] = 1
            => Phase = "closed" /\ Calls = 2)'
      BY PhaseIs, PTL
    <3> QED BY <2>2, <3>1
  <2>5. Session!Next
    BY <2>3, <2>4 DEF Session!Next, Session!Handler
  <2> QED BY <1>1, <2>2, <2>5 DEF FiredInv
<1>4. CASE state = "closed"
  <2>1. UNCHANGED fired
    BY <1>4 DEF Terminate
  <2> QED BY <1>1, <1>4, <2>1, HandlersQuiet
<1> QED BY <1>2, <1>3, <1>4 DEF TypeOK, SessionType

\* The response to the handshake opens the session.
LEMMA HandlersOpen ==
    ASSUME TypeOK, TypeOK', FiredInv, state = "connecting", state' = "open",
           Fire("open"), UNCHANGED delivered
    PROVE  FiredInv' /\ [Session!Next]_Session!vars
<1>1. /\ fired["open"] = 0 /\ fired["error"] = 0 /\ fired["close"] = 0
      /\ fired'["open"] = 1 /\ fired'["error"] = 0 /\ fired'["close"] = 0
  BY FiredStep DEF FiredInv, Events
<1>2. Phase = "new" /\ Calls = 0
  BY <1>1, PhaseIs
<1>3. Phase' = "open" /\ Calls' = 1
  <2>1. (fired["open"] = 1 /\ fired["error"] = 0 /\ fired["close"] = 0
          => Phase = "open" /\ Calls = 1)'
    BY PhaseIs, PTL
  <2> QED BY <1>1, <2>1
<1>4. Session!Next
  BY <1>2, <1>3 DEF Session!Next, Session!Handler
<1> QED BY <1>1, <1>4 DEF FiredInv

\* The first frame that the loop has to handle, if it is a message, is the one
\* that comes after those delivered.
LEMMA HeldTyped ==
    ASSUME TypeOK
    PROVE  /\ inbox \in Seq(Int) /\ buf \in Seq(Int) /\ delivered \in Seq(Int)
           /\ Len(delivered) \in Nat /\ data \in Nat
           /\ Incoming \subseteq Int /\ Seq(Incoming) \subseteq Seq(Int)
<1>1. Incoming \subseteq Int /\ 1..MaxFrames \subseteq Int
  BY BoundsAssumption DEF Incoming, Reject
<1>2. Seq(Incoming) \subseteq Seq(Int) /\ Seq(1..MaxFrames) \subseteq Seq(Int)
  BY <1>1, SeqMonotonic
<1>3. delivered \in Seq(1..MaxFrames) /\ buf \in Seq(Incoming) /\ inbox \in Seq(Incoming)
  BY DEF TypeOK, ReadType
<1>4. Len(delivered) \in Nat
  BY <1>3, LenProperties
<1>5. data \in Nat
  BY BoundsAssumption DEF TypeOK, CallType
<1> QED BY <1>1, <1>2, <1>3, <1>4, <1>5

LEMMA NextFrame ==
    ASSUME TypeOK, FlowInv, looping, buf # <<>>, state \in {"connecting", "open"}
    PROVE  /\ Head(buf) \in Int
           /\ Head(buf) <= Ping =>
                Flow(Tail(buf) \o inbox, Len(delivered), data)
           /\ Head(buf) > Ping =>
                /\ Head(buf) = Len(delivered) + 1
                /\ Flow(Tail(buf) \o inbox, Len(delivered) + 1, data)
<1>1. Flow(buf \o inbox, Len(delivered), data)
  BY DEF FlowInv, Held, ToCome
<1>2. /\ buf \o inbox # <<>> /\ Head(buf \o inbox) = Head(buf)
      /\ Tail(buf \o inbox) = Tail(buf) \o inbox
      /\ buf \o inbox \in Seq(Int)
  <2>1. inbox \in Seq(Int) /\ buf \in Seq(Int) /\ 0 \in Int
    BY HeldTyped
  <2> QED BY <2>1, Joined, ConcatProperties
<1>3. Head(buf) \in Int
  BY HeldTyped, HeadTailProperties
<1>4. Len(delivered) \in Nat /\ data \in Nat
  BY HeldTyped
<1> QED BY <1>1, <1>2, <1>3, <1>4, FlowTail

\* Every step is one that the promise allows.
LEMMA HandlersStep ==
    TypeOK /\ TypeOK' /\ ReadInv /\ SessionInv /\ [Next]_vars
      => FiredInv' /\ [Session!Next]_Session!vars
<1> SUFFICES ASSUME TypeOK, TypeOK', ReadInv, FiredInv, FlowInv, [Next]_vars
             PROVE  FiredInv' /\ [Session!Next]_Session!vars
  BY DEF SessionInv
<1>1. ASSUME UNCHANGED <<fired, delivered, state>>
      PROVE  FiredInv' /\ [Session!Next]_Session!vars
  BY <1>1, HandlersQuiet
<1>2. ASSUME NEW frame, NEW ack, NEW queue, SendCloseFrame(frame, ack, queue),
             UNCHANGED delivered, state \in {"open", "closing"}
      PROVE  FiredInv' /\ [Session!Next]_Session!vars
  BY <1>2, HandlersQuiet DEF SendCloseFrame
<1>3. looping => state \in {"open", "closing"}
  BY DEF ReadInv, StageFits
<1>4. CASE HandleResolve
  <2>1. delivered' = delivered /\ (UNCHANGED <<fired, state>> \/ Terminate(Rest))
    BY <1>4 DEF HandleResolve, sessionVars
  <2> QED BY <1>1, <2>1, HandlersTerminate
<1>5. CASE HandleConnect
  <2>1. delivered' = delivered /\ (UNCHANGED <<fired, state>> \/ Terminate(Rest))
    BY <1>5 DEF HandleConnect
  <2> QED BY <1>1, <2>1, HandlersTerminate
<1>6. CASE HandleSendHttpRequest
  <2>1. delivered' = delivered /\ (UNCHANGED <<fired, state>> \/ Terminate(Rest))
    BY <1>6 DEF HandleSendHttpRequest
  <2> QED BY <1>1, <2>1, HandlersTerminate
<1>7. CASE HandleReadHttpResponse
  <2>1. /\ delivered' = delivered /\ state # "closed"
        /\ internal = "read response"
        /\ \/ UNCHANGED <<fired, state>> \/ Terminate(Rest)
           \/ state' = "open" /\ Fire("open")
    BY <1>7 DEF HandleReadHttpResponse, sessionVars
  <2>2. state = "connecting"
    <3>1. state \in {"connecting", "open", "closing", "closed"}
      BY DEF TypeOK, SessionType
    <3> QED BY <2>1, <3>1 DEF ReadInv, StageFits
  <2> QED BY <1>1, <2>1, <2>2, HandlersTerminate, HandlersOpen
<1>8. CASE HandleReadFrame
  <2>1. delivered' = delivered /\ (UNCHANGED <<fired, state>> \/ Terminate(Rest))
    BY <1>8 DEF HandleReadFrame, sessionVars
  <2> QED BY <1>1, <2>1, HandlersTerminate
<1>9. CASE \E which \in Timers : HandleTimeout(which)
  <2>1. delivered' = delivered /\ Terminate(Rest)
    BY <1>9 DEF HandleTimeout
  <2> QED BY <2>1, HandlersTerminate
<1>10. CASE ProcessFrame
  <2>1. /\ looping /\ buf # <<>> /\ UNCHANGED <<fired, state>>
        /\ delivered' = IF state = "open" /\ Head(buf) # Ping
                        THEN Append(delivered, Head(buf)) ELSE delivered
        /\ \E n \in Ping..MaxFrames : Head(buf) = n
    BY <1>10 DEF ProcessFrame, Loops, sessionVars
  <2>2. CASE state = "open" /\ Head(buf) # Ping
    <3>1. Head(buf) > Ping
      BY <2>1, <2>2, BoundsAssumption DEF Ping
    <3>2. delivered' = Append(delivered, Len(delivered) + 1)
      BY <2>1, <2>2, <3>1, NextFrame
    <3>3. /\ fired["open"] = 1 /\ fired["error"] = 0 /\ fired["close"] = 0
      BY <2>2 DEF FiredInv
    <3>4. Phase = "open" /\ Phase' = Phase /\ Calls' = Calls
      BY <2>1, <3>3, PhaseIs DEF Phase, Calls
    <3>5. Session!Next
      BY <3>2, <3>4 DEF Session!Next, Session!Message
    <3> QED BY <2>1, <3>5 DEF FiredInv
  <2>3. CASE ~(state = "open" /\ Head(buf) # Ping)
    BY <1>1, <2>1, <2>3
  <2> QED BY <2>2, <2>3
<1>11. CASE ProcessClose
  <2>1. /\ looping /\ delivered' = delivered
        /\ UNCHANGED <<fired, state>> \/ SendCloseFrame(CloseFrame, TRUE, ready)
    BY <1>11 DEF ProcessClose, Loops
  <2> QED BY <1>1, <1>2, <1>3, <2>1
<1>12. CASE ProcessBadClose
  <2>1. /\ looping /\ delivered' = delivered
        /\ SendCloseFrame(CloseFrame, TRUE, ready)
    BY <1>12 DEF ProcessBadClose, Loops
  <2> QED BY <1>2, <1>3, <2>1
<1>13. CASE ProcessJunk
  <2>1. /\ looping /\ delivered' = delivered
        /\ Terminate(ready) \/ SendCloseFrame(LastClose, FALSE, ready)
    BY <1>13 DEF ProcessJunk, Loops
  <2> QED BY <1>2, <1>3, <2>1, HandlersTerminate
<1>14. CASE HandleWriteFrame
  <2>1. delivered' = delivered /\ (UNCHANGED <<fired, state>> \/ Terminate(Rest))
    BY <1>14 DEF HandleWriteFrame, sessionVars
  <2> QED BY <1>1, <2>1, HandlersTerminate
<1>15. CASE CloseImpl
  <2>1. /\ delivered' = delivered
        /\ \/ UNCHANGED <<fired, state>>
           \/ state = "open" /\ SendCloseFrame(CloseFrame, FALSE, Rest)
    BY <1>15 DEF CloseImpl, sessionVars
  <2> QED BY <1>1, <1>2, <2>1
<1>16. CASE HandleLate \/ HandleNone \/ ReadFrame \/ WriteFrame \/ SendImpl
            \/ RunReturns
  <2>1. UNCHANGED <<fired, delivered, state>>
    BY <1>16 DEF HandleLate, HandleNone, ReadFrame, WriteFrame, SendImpl,
       RunReturns, sessionVars
  <2> QED BY <1>1, <2>1
<1>17. CASE Clock \/ Network \/ Peer \/ Script \/ UNCHANGED vars
  <2>1. UNCHANGED <<fired, delivered, state>>
    BY <1>17 DEF Clock, ExpireDeadline, ExpireHandshake, ExpireOrphan, Expire,
       Network, Succeeds, Fails, Written, Arrives, Eof, Completes,
       Peer, PeerSends, PeerHangsUp, PeerActs,
       Script, Open, OpenInvalid, Close, Send, PostToService, sessionVars, vars
  <2> QED BY <1>1, <2>1
<1> QED
  BY <1>4, <1>5, <1>6, <1>7, <1>8, <1>9, <1>10, <1>11, <1>12, <1>13, <1>14,
     <1>15, <1>16, <1>17 DEF Next, IoThread

\* A step that adds nothing to what is to come keeps it.
LEMMA FlowKeeps ==
    ASSUME FlowInv, UNCHANGED <<inbox, delivered, data>>,
           state' \in {"connecting", "open"} =>
              state \in {"connecting", "open"} /\ Held' \subseteq Held,
           ~looping' => buf' = <<>>
    PROVE  FlowInv'
<1>1. \A read : ToCome(read)' <=> ToCome(read)
  BY DEF ToCome
<1>2. \A i \in DOMAIN delivered' : delivered'[i] = i
  BY DEF FlowInv
<1>3. state' \in {"connecting", "open"} => \A read \in Held' : ToCome(read)'
  BY <1>1, Zenon DEF FlowInv
<1> HIDE DEF Held
<1> QED BY <1>2, <1>3 DEF FlowInv

LEMMA HeldSame ==
    ASSUME UNCHANGED <<looping, buf>>, Reads(ready') = Reads(ready)
    PROVE  Held' = Held
<1>1. Reads(ready)' = Reads(ready')
  BY DEF Reads
<1> QED BY <1>1, Zenon DEF Held

LEMMA RestReads ==
    ASSUME TypeOK, ReadInv, NEW what, Runs(what)
    PROVE  /\ Rest \in Seq(Entries)
           /\ what # "read" => Reads(Rest) = Reads(ready)
           /\ what = "read" =>
                /\ Reads(Rest) = {} /\ Held = {Got}
                /\ Got \in Seq(Incoming) /\ ~looping
<1>1. /\ ready # <<>> /\ Head(ready).what = what /\ ready \in Seq(Entries)
      /\ ~looping
  BY DEF Runs, TypeOK, IoType
<1>2. Rest \in Seq(Entries)
  BY <1>1, HeadEntry
<1>3. Reads(ready) = Reads(Rest) \cup IF what = "read" THEN {Got} ELSE {}
  BY <1>1, ReadsTail, Zenon DEF Rest, Got
<1>4. ASSUME what = "read"
      PROVE  Reads(Rest) = {} /\ Held = {Got} /\ Got \in Seq(Incoming)
  <2>1. None(Rest, Stages) /\ "read" \in Stages
    <3>1. "read" \in Stages
      BY DEF Stages
    <3> QED BY <1>4, <3>1, StageTaken DEF ReadInv
  <2>2. Reads(Rest) = {}
    BY <1>2, <2>1, ReadsNone DEF None
  <2>3. Reads(ready) = {Got}
    BY <1>3, <1>4, <2>2
  <2>4. Held = {Got}
    BY <1>1, <2>3 DEF Held
  <2>5. Got \in Seq(Incoming)
    BY <1>1, <1>4, HeadEntry
  <2> QED BY <2>2, <2>4, <2>5
<1> QED BY <1>1, <1>2, <1>3, <1>4

LEMMA PushReads ==
    ASSUME NEW frame, NEW queue \in Seq(Entries), Push(frame, queue)
    PROVE  Reads(ready') = Reads(queue)
<1>1. /\ Post("write_frame") \in Entries
      /\ Post("write_frame").what = "write_frame"
  BY EntriesMade DEF Post, Entry
<1>2. ready' = queue \/ ready' = Append(queue, Post("write_frame"))
  BY DEF Push
<1>3. Reads(Append(queue, Post("write_frame"))) = Reads(queue)
  BY <1>1, ReadsAppend
<1> QED BY <1>2, <1>3

\* The frames that an entry or the loop holds are frames of the peer.
LEMMA HeldFrames == ASSUME TypeOK PROVE Held \subseteq Seq(Int)
<1>1. ready \in Seq(Entries) /\ DOMAIN ready = 1..Len(ready)
  BY LenProperties DEF TypeOK, IoType
<1>2. \A i \in DOMAIN ready : ready[i] \in Entries
  BY <1>1, ElementOfSeq
<1>3. \A entry \in Entries : entry.what = "read" => entry.got \in Seq(Incoming)
  BY DEF Entries, PostOrOp, Ops, Timers, Posts
<1>4. Reads(ready) \subseteq Seq(Incoming)
  BY <1>2, <1>3 DEF Reads
<1>5. <<>> \in Seq(Int) /\ buf \in Seq(Int)
  BY HeldTyped
<1> QED BY <1>4, <1>5, HeldTyped DEF Held

\* Every step keeps what is to come.
LEMMA FlowStep ==
    TypeOK /\ TypeOK' /\ ReadInv /\ FlowInv /\ [Next]_vars => FlowInv'
<1> SUFFICES ASSUME TypeOK, TypeOK', ReadInv, FlowInv, [Next]_vars
             PROVE  FlowInv'
  OBVIOUS
<1>0. ready \in Seq(Entries)
  BY DEF TypeOK, IoType
<1>1. ASSUME UNCHANGED <<inbox, delivered, data, looping, buf>>,
             Reads(ready') = Reads(ready),
             state' \in {"connecting", "open"} => state \in {"connecting", "open"}
      PROVE  FlowInv'
  <2>1. Held' = Held
    BY <1>1, HeldSame
  <2>2. ~looping' => buf' = <<>>
    BY <1>1 DEF FlowInv
  <2> QED BY <1>1, <2>1, <2>2, FlowKeeps
<1>2. ASSUME UNCHANGED <<inbox, delivered, data>>, state' \in {"closing", "closed"},
             ~looping' => buf' = <<>>
      PROVE  FlowInv'
  BY <1>2, FlowKeeps
<1>3. ASSUME NEW queue, Terminate(queue),
             UNCHANGED <<inbox, delivered, data, looping, buf>>
      PROVE  FlowInv'
  <2>1. state' = "closed"
    BY <1>3 DEF Terminate
  <2>2. ~looping' => buf' = <<>>
    BY <1>3 DEF FlowInv
  <2> QED BY <1>2, <1>3, <2>1, <2>2
<1>4. ASSUME NEW what, what # "read", Runs(what), ready' = Rest,
             UNCHANGED <<inbox, delivered, data, looping, buf, state>>
      PROVE  FlowInv'
  BY <1>1, <1>4, RestReads
<1>5. ASSUME NEW entry \in Entries, entry.what # "read",
             ready' = Append(ready, entry),
             UNCHANGED <<inbox, delivered, data, looping, buf, state>>
      PROVE  FlowInv'
  <2>1. Reads(ready') = Reads(ready)
    BY <1>0, <1>5, ReadsAppend
  <2> QED BY <1>1, <1>5, <2>1
<1>6. looping => state \in {"open", "closing"} /\ Reads(ready) = {}
  <2>1. looping => ~Has(ready, "read")
    BY DEF ReadInv, OneStage, None, Stages
  <2> QED BY <1>0, <2>1, ReadsNone DEF ReadInv, StageFits
<1>30. \A read : ToCome(read)' <=> Flow(read \o inbox', Len(delivered'), data')
  BY DEF ToCome, Flow, Frames
<1>7. CASE HandleResolve
  <2>1. /\ Runs("resolve") /\ UNCHANGED <<inbox, delivered, data, looping, buf>>
        /\ Terminate(Rest) \/ (ready' = Rest /\ state' = state)
    BY <1>7 DEF HandleResolve, sessionVars, readVars, peerVars
  <2> QED BY <1>3, <1>4, <2>1
<1>8. CASE HandleConnect
  <2>1. /\ Runs("connect") /\ UNCHANGED <<inbox, delivered, data, looping, buf>>
        /\ Terminate(Rest) \/ (ready' = Rest /\ state' = state)
    BY <1>8 DEF HandleConnect, readVars, peerVars
  <2> QED BY <1>3, <1>4, <2>1
<1>9. CASE HandleSendHttpRequest
  <2>1. /\ Runs("request") /\ UNCHANGED <<inbox, delivered, data, looping, buf>>
        /\ Terminate(Rest) \/ (ready' = Rest /\ state' = state)
    BY <1>9 DEF HandleSendHttpRequest, readVars, peerVars
  <2> QED BY <1>3, <1>4, <2>1
<1>10. CASE HandleReadHttpResponse
  <2>1. /\ Runs("read") /\ UNCHANGED <<inbox, delivered, data>>
        /\ state # "closed" /\ internal = "read response"
    BY <1>10 DEF HandleReadHttpResponse, peerVars
  <2>2. state = "connecting"
    <3>1. state \in {"connecting", "open", "closing", "closed"}
      BY DEF TypeOK, SessionType
    <3> QED BY <2>1, <3>1 DEF ReadInv, StageFits
  <2>3. /\ Reads(Rest) = {} /\ Held = {Got} /\ Got \in Seq(Incoming) /\ ~looping
    BY <2>1, RestReads
  <2>4. CASE Terminate(Rest) /\ UNCHANGED readVars
    BY <1>3, <2>1, <2>4 DEF readVars
  <2>5. CASE Got = <<>> /\ ready' = Rest /\ UNCHANGED <<sessionVars, readVars>>
    <3>1. Reads(ready)' = {} /\ ~looping' /\ buf' = buf
      BY <2>3, <2>5 DEF Reads, readVars
    <3>2. Held' = Held
      BY <2>3, <2>5, <3>1 DEF Held
    <3>3. buf' = <<>>
      BY <2>3, <3>1 DEF FlowInv
    <3> QED BY <2>1, <2>2, <3>2, <3>3, FlowKeeps
  <2>6. CASE /\ Got # <<>> /\ Head(Got) = Accept
             /\ state' = "open" /\ buf' = Tail(Got) /\ looping' = TRUE
    <3>1. Flow(Got \o inbox, Len(delivered), data)
      BY <2>2, <2>3 DEF FlowInv, ToCome
    <3>2. /\ Got \o inbox # <<>> /\ Head(Got \o inbox) = Accept
          /\ Tail(Got \o inbox) = Tail(Got) \o inbox /\ Got \o inbox \in Seq(Int)
      <4>1. Got \in Seq(Int) /\ inbox \in Seq(Int) /\ 0 \in Int
        BY <2>3, HeldTyped
      <4> QED BY <2>6, <4>1, Joined, ConcatProperties
    <3>3. Flow(Tail(Got) \o inbox, Len(delivered), data)
      <4>1. Accept <= Ping
        BY DEF Accept, Ping
      <4>2. Len(delivered) \in Nat /\ data \in Nat
        BY HeldTyped
      <4> QED BY <3>1, <3>2, <4>1, <4>2, FlowTail
    <3>4. Held' = {Tail(Got)}
      BY <2>6 DEF Held
    <3>5. \A read \in Held' : ToCome(read)'
      <4>1. Flow(Tail(Got) \o inbox', Len(delivered'), data')
        BY <2>1, <3>3
      <4> HIDE DEF Held, ToCome
      <4> QED BY <1>30, <3>4, <4>1
    <3>6. \A i \in DOMAIN delivered' : delivered'[i] = i
      BY <2>1 DEF FlowInv
    <3> HIDE DEF Held
    <3> QED BY <2>6, <3>5, <3>6 DEF FlowInv
  <2>7. \/ Terminate(Rest) /\ UNCHANGED readVars
        \/ Got = <<>> /\ ready' = Rest /\ UNCHANGED <<sessionVars, readVars>>
        \/ /\ Got # <<>> /\ Head(Got) = Accept
           /\ state' = "open" /\ buf' = Tail(Got) /\ looping' = TRUE
    BY <1>10, HeadEntry DEF HandleReadHttpResponse, Runs
  <2> QED BY <2>4, <2>5, <2>6, <2>7 DEF sessionVars
<1>11. CASE HandleReadFrame
  <2>1. /\ Runs("read") /\ UNCHANGED <<inbox, delivered, data>>
        /\ \/ Terminate(Rest) /\ UNCHANGED readVars
           \/ buf' = Got /\ looping' = TRUE /\ state' = state
    BY <1>11 DEF HandleReadFrame, sessionVars, peerVars
  <2>2. CASE Terminate(Rest) /\ UNCHANGED readVars
    BY <1>3, <2>1, <2>2 DEF readVars
  <2>3. CASE buf' = Got /\ looping' = TRUE /\ state' = state
    <3>1. Held' = Held
      BY <2>1, <2>3, RestReads DEF Held
    <3> QED BY <2>1, <2>3, <3>1, FlowKeeps
  <2> QED BY <2>1, <2>2, <2>3
<1>12. CASE HandleLate \/ HandleNone
  <2>1. /\ ready' = Rest /\ UNCHANGED <<inbox, delivered, data, looping, buf, state>>
        /\ \/ state = "closed"
           \/ \E what : what # "read" /\ Runs(what)
    BY <1>12 DEF HandleLate, HandleNone, sessionVars, readVars, peerVars
  <2>2. ~looping' => buf' = <<>>
    BY <2>1 DEF FlowInv
  <2> QED BY <1>2, <1>4, <2>1, <2>2
<1>13. CASE \E which \in Timers : HandleTimeout(which)
  <2>1. Terminate(Rest) /\ UNCHANGED <<inbox, delivered, data, looping, buf>>
    BY <1>13 DEF HandleTimeout, readVars, peerVars
  <2> QED BY <1>3, <2>1
<1>14. CASE ProcessFrame
  <2>1. /\ looping /\ looping' = TRUE /\ buf # <<>> /\ buf' = Tail(buf)
        /\ UNCHANGED <<state, inbox, data>>
        /\ delivered' = IF state = "open" /\ Head(buf) # Ping
                        THEN Append(delivered, Head(buf)) ELSE delivered
        /\ \E n \in Ping..MaxFrames : Head(buf) = n
    BY <1>14 DEF ProcessFrame, Loops, sessionVars, readVars, peerVars
  <2>2. Held' = {Tail(buf)}
    BY <2>1 DEF Held
  <2>3. CASE state = "open" /\ Head(buf) # Ping
    <3>1. Head(buf) > Ping
      BY <2>1, <2>3, BoundsAssumption DEF Ping
    <3>2. /\ Head(buf) = Len(delivered) + 1
          /\ Flow(Tail(buf) \o inbox, Len(delivered) + 1, data)
      BY <2>1, <2>3, <3>1, NextFrame
    <3>3. /\ Len(delivered') = Len(delivered) + 1
          /\ DOMAIN delivered' = 1..(Len(delivered) + 1)
          /\ \A i \in 1..Len(delivered) : delivered'[i] = delivered[i]
          /\ delivered'[Len(delivered) + 1] = Len(delivered) + 1
          /\ DOMAIN delivered = 1..Len(delivered) /\ Len(delivered) \in Nat
      <4>1. delivered \in Seq(Int) /\ Len(delivered) + 1 \in Int
        BY HeldTyped
      <4>2. delivered' = Append(delivered, Len(delivered) + 1)
        BY <2>1, <2>3, <3>2
      <4> HIDE DEF Held
      <4> QED BY <4>1, <4>2, AppendProperties, LenProperties
    <3>4. \A i \in DOMAIN delivered' : delivered'[i] = i
      <4>1. \A i \in 1..Len(delivered) : delivered[i] = i
        BY <3>3 DEF FlowInv
      <4>2. \A i \in 1..(Len(delivered) + 1) :
              i \in 1..Len(delivered) \/ i = Len(delivered) + 1
        BY <3>3
      <4> QED BY <3>3, <4>1, <4>2
    <3>6. \A read \in Held' : ToCome(read)'
      <4>1. Flow(Tail(buf) \o inbox', Len(delivered'), data')
        BY <2>1, <3>2, <3>3
      <4> HIDE DEF Held, ToCome
      <4> QED BY <1>30, <2>2, <4>1
    <3> HIDE DEF Held
    <3> QED BY <2>1, <3>4, <3>6 DEF FlowInv
  <2>4. CASE state = "open" /\ Head(buf) = Ping
    <3>1. delivered' = delivered /\ Flow(Tail(buf) \o inbox, Len(delivered), data)
      BY <2>1, <2>4, NextFrame DEF Ping
    <3>2. \A read \in Held' : ToCome(read)'
      <4>1. Flow(Tail(buf) \o inbox', Len(delivered'), data')
        BY <2>1, <3>1
      <4> HIDE DEF Held, ToCome
      <4> QED BY <1>30, <2>2, <4>1
    <3>3. \A i \in DOMAIN delivered' : delivered'[i] = i
      BY <3>1 DEF FlowInv
    <3> HIDE DEF Held
    <3> QED BY <2>1, <3>2, <3>3 DEF FlowInv
  <2>5. CASE state # "open"
    <3>1. state' = "closing" /\ delivered' = delivered
      BY <1>6, <2>1, <2>5
    <3> QED BY <1>2, <2>1, <3>1
  <2> QED BY <2>3, <2>4, <2>5
<1>15. CASE ProcessClose \/ ProcessBadClose
  <2>1. /\ looping /\ looping' = TRUE /\ UNCHANGED <<inbox, delivered, data>>
        /\ state' = "closing" \/ (state' = state /\ state # "open")
    BY <1>15 DEF ProcessClose, ProcessBadClose, SendCloseFrame, Loops, readVars,
       peerVars
  <2>2. state' = "closing"
    BY <1>6, <2>1
  <2> QED BY <1>2, <2>1, <2>2
<1>16. CASE ProcessJunk
  <2>1. /\ buf' = <<>> /\ UNCHANGED <<inbox, delivered, data>>
        /\ state' \in {"closing", "closed"}
    BY <1>16 DEF ProcessJunk, SendCloseFrame, Terminate, peerVars
  <2> QED BY <1>2, <2>1
<1>17. CASE ReadFrame
  <2>1. /\ looping /\ buf = <<>> /\ looping' = FALSE
        /\ UNCHANGED <<inbox, delivered, data, buf, ready, state>>
    BY <1>17 DEF ReadFrame, sessionVars, peerVars
  <2>2. Held' = Held
    <3>1. Reads(ready)' = {}
      BY <1>6, <2>1 DEF Reads
    <3> QED BY <2>1, <3>1 DEF Held
  <2> QED BY <2>1, <2>2, FlowKeeps
<1>18. CASE WriteFrame
  <2>1. /\ Runs("write_frame") /\ ready' = Rest
        /\ UNCHANGED <<inbox, delivered, data, looping, buf, state>>
    BY <1>18 DEF WriteFrame, sessionVars, readVars, peerVars
  <2> QED BY <1>4, <2>1
<1>19. CASE HandleWriteFrame
  <2>1. /\ Runs("write") /\ UNCHANGED <<inbox, delivered, data, looping, buf>>
        /\ \/ Terminate(Rest)
           \/ /\ state' = state
              /\ ready' \in {Rest, Append(Rest, Post("write_frame"))}
    BY <1>19 DEF HandleWriteFrame, sessionVars, readVars, peerVars
  <2>2. CASE Terminate(Rest)
    BY <1>3, <2>1, <2>2
  <2>3. CASE /\ state' = state
             /\ ready' \in {Rest, Append(Rest, Post("write_frame"))}
    <3>1. Rest \in Seq(Entries) /\ Reads(Rest) = Reads(ready)
      BY <2>1, RestReads
    <3>2. /\ Post("write_frame") \in Entries
          /\ Post("write_frame").what = "write_frame"
      BY EntriesMade DEF Post, Entry
    <3>3. Reads(Append(Rest, Post("write_frame"))) = Reads(Rest)
      BY <3>1, <3>2, ReadsAppend
    <3> QED BY <1>1, <2>1, <2>3, <3>1, <3>3
  <2> QED BY <2>1, <2>2, <2>3
<1>20. CASE CloseImpl
  <2>1. /\ UNCHANGED <<inbox, delivered, data, looping, buf>>
        /\ state' = "closing" \/ (state' = state /\ ready' = ready)
    BY <1>20 DEF CloseImpl, SendCloseFrame, sessionVars, readVars, peerVars
  <2>2. ~looping' => buf' = <<>>
    BY <2>1 DEF FlowInv
  <2> QED BY <1>1, <1>2, <2>1, <2>2
<1>21. CASE SendImpl
  <2>1. /\ Runs("sendImpl")
        /\ UNCHANGED <<inbox, delivered, data, looping, buf, state>>
        /\ ready' = Rest \/ Push(Got[1], Rest)
    BY <1>21 DEF SendImpl, sessionVars, readVars, peerVars
  <2>2. Rest \in Seq(Entries) /\ Reads(Rest) = Reads(ready)
    BY <2>1, RestReads
  <2> QED BY <1>1, <2>1, <2>2, PushReads
<1>22. CASE RunReturns \/ OpenInvalid \/ Open \/ PeerHangsUp \/ UNCHANGED vars
  <2>1. UNCHANGED <<inbox, delivered, data, looping, buf, state, ready>>
    BY <1>22 DEF RunReturns, OpenInvalid, Open, PeerHangsUp, PeerActs, vars,
       sessionVars, readVars, peerVars
  <2> QED BY <1>1, <2>1
<1>23. CASE Close
  <2>1. /\ UNCHANGED <<inbox, delivered, data, looping, buf, state>>
        /\ ready' = ready \/ ready' = Append(ready, Post("closeImpl"))
    BY <1>23 DEF Close, PostToService, sessionVars, readVars, peerVars
  <2>2. /\ Post("closeImpl") \in Entries
        /\ Post("closeImpl").what = "closeImpl"
    BY EntriesMade DEF Post, Entry
  <2> QED BY <1>1, <1>5, <2>1, <2>2
<1>24. CASE Send
  <2> DEFINE entry == Entry("sendImpl", "ok", <<texts + 1>>)
  <2>1. /\ UNCHANGED <<inbox, delivered, data, looping, buf, state>>
        /\ ready' = ready \/ ready' = Append(ready, entry)
    BY <1>24 DEF Send, PostToService, sessionVars, readVars, peerVars
  <2>2. entry \in Entries /\ entry.what = "sendImpl"
    <3>1. texts + 1 \in 1..MaxTexts
      BY <1>24, BoundsAssumption DEF Send, TypeOK, CallType
    <3> QED BY <3>1, EntriesMade DEF Entry
  <2> HIDE DEF entry
  <2> QED BY <1>1, <1>5, <2>1, <2>2
<1>25. ASSUME NEW op \in Ops, NEW ec \in {"ok", "fail", "eof"},
              Completes(op, ec, <<>>), UNCHANGED <<inbox, data>>
       PROVE  FlowInv'
  <2>1. /\ Entry(op, ec, <<>>) \in Entries /\ Entry(op, ec, <<>>).what = op
        /\ Entry(op, ec, <<>>).got = <<>>
    <3>1. <<>> \in Seq(Incoming)
      OBVIOUS
    <3> QED BY <3>1, EntriesMade DEF Entry
  <2>2. /\ op \in pending /\ ready' = Append(ready, Entry(op, ec, <<>>))
        /\ UNCHANGED <<inbox, delivered, data, looping, buf, state>>
    BY <1>25 DEF Completes, sessionVars, readVars
  <2>3. CASE op # "read"
    BY <1>5, <2>1, <2>2, <2>3
  <2>4. CASE op = "read"
    <3>1. ~looping /\ ~Has(ready, "read")
      BY <2>2, <2>4 DEF ReadInv, OneStage, None, Stages
    <3>2. Reads(ready) = {}
      BY <1>0, <3>1, ReadsNone
    <3>3. Reads(ready') = {<<>>}
      BY <1>0, <2>1, <2>2, <2>4, <3>2, ReadsAppend
    <3>4. Reads(ready)' = {<<>>}
      BY <3>3 DEF Reads
    <3>5. Held' = Held
      BY <2>2, <3>1, <3>2, <3>4 DEF Held
    <3>6. ~looping' => buf' = <<>>
      BY <2>2 DEF FlowInv
    <3> QED BY <2>2, <3>5, <3>6, FlowKeeps
  <2> QED BY <2>3, <2>4
<1>26. CASE Succeeds \/ Fails \/ Written \/ Eof
  <2>1. \E op \in Ops, ec \in {"ok", "fail", "eof"} :
          Completes(op, ec, <<>>) /\ UNCHANGED <<inbox, data>>
    BY <1>26 DEF Succeeds, Fails, Written, Eof, Ops, peerVars
  <2> QED BY <1>25, <2>1
<1>27. CASE Arrives
  <2>1. PICK n \in 0..Len(inbox) :
          /\ Completes("read", "ok", SubSeq(inbox, 1, n))
          /\ inbox' = SubSeq(inbox, n + 1, Len(inbox))
    BY <1>27 DEF Arrives
  <2> DEFINE got == SubSeq(inbox, 1, n)
             entry == Entry("read", "ok", got)
  <2>2. /\ "read" \in pending /\ ready' = Append(ready, entry)
        /\ UNCHANGED <<delivered, data, looping, buf, state>>
    BY <1>27, <2>1 DEF Completes, Arrives, sessionVars, readVars
  <2>3. /\ inbox \in Seq(Incoming) /\ got \in Seq(Incoming)
    BY <2>1, SuffixType DEF TypeOK, ReadType
  <2>4. entry \in Entries /\ entry.what = "read" /\ entry.got = got
    BY <2>3, EntriesMade DEF Entry, Ops
  <2>5. got \o inbox' = inbox
    <3>1. /\ 1 \in 1..(Len(inbox) + 1) /\ n \in (1 - 1)..Len(inbox)
          /\ Len(inbox) \in n..Len(inbox)
      BY <2>1, <2>3, LenProperties
    <3>2. SubSeq(inbox, 1, n) \o SubSeq(inbox, n + 1, Len(inbox))
            = SubSeq(inbox, 1, Len(inbox))
      BY <2>3, <3>1, ConcatAdjacentSubSeq
    <3> QED BY <2>1, <2>3, <3>2, SubSeqFull
  <2> HIDE DEF got, entry
  <2>6. ~looping /\ Reads(ready) = {}
    <3>1. ~looping /\ ~Has(ready, "read")
      BY <2>2 DEF ReadInv, OneStage, None, Stages
    <3> QED BY <1>0, <3>1, ReadsNone
  <2>7. Held = {<<>>}
    BY <2>6 DEF Held
  <2>8. Held' = {got}
    <3>1. Reads(ready') = {got}
      BY <1>0, <2>2, <2>4, <2>6, ReadsAppend
    <3>2. Reads(ready)' = {got}
      BY <3>1 DEF Reads
    <3> QED BY <2>2, <2>6, <3>2 DEF Held
  <2>9. ASSUME state \in {"connecting", "open"}
       PROVE  Flow(got \o inbox', Len(delivered'), data')
    <3>1. Flow(<<>> \o inbox, Len(delivered), data)
      BY <2>7, <2>9 DEF FlowInv, ToCome
    <3>2. Flow(inbox, Len(delivered), data)
      BY <2>3, <3>1, ConcatEmptySeq
    <3> QED BY <2>2, <2>5, <3>2
  <2>10. state' \in {"connecting", "open"} => \A read \in Held' : ToCome(read)'
    <3> HIDE DEF Held, ToCome
    <3> QED BY <1>30, <2>2, <2>8, <2>9
  <2>11. /\ \A i \in DOMAIN delivered' : delivered'[i] = i
         /\ ~looping' => buf' = <<>>
    BY <2>2 DEF FlowInv
  <2> HIDE DEF Held
  <2> QED BY <2>10, <2>11 DEF FlowInv
<1>28. CASE PeerSends
  <2>1. PICK frame \in {Accept, Reject, Ping, CloseFrame, BadClose, Junk, data + 1} :
          /\ inbox' = Append(inbox, frame)
          /\ data' = IF frame > Ping THEN frame ELSE data
    BY <1>28 DEF PeerSends
  <2>2. UNCHANGED <<delivered, looping, buf, state, ready>>
    BY <1>28 DEF PeerSends, PeerActs, sessionVars, readVars
  <2>3. Held' = Held
    BY <2>2 DEF Held, Reads
  <2>4. ASSUME NEW read \in Held, ToCome(read) PROVE ToCome(read)'
    <3>1. /\ read \in Seq(Int) /\ inbox \in Seq(Int) /\ frame \in Int
          /\ frame <= Ping \/ frame = data + 1
      BY HeldFrames, HeldTyped
         DEF Accept, Reject, Ping, CloseFrame, BadClose, Junk
    <3>2. read \o Append(inbox, frame) = Append(read \o inbox, frame)
      BY <3>1, Joined
    <3>3. read \o inbox \in Seq(Int)
      BY <3>1, ConcatProperties
    <3>4. Len(delivered) \in Nat /\ data \in Nat
      BY HeldTyped
    <3>5. Flow(read \o inbox, Len(delivered), data)
      BY <2>4 DEF ToCome
    <3>6. /\ frame <= Ping => Flow(Append(read \o inbox, frame), Len(delivered), data)
          /\ frame = data + 1 =>
               Flow(Append(read \o inbox, frame), Len(delivered), data + 1)
      BY <3>1, <3>3, <3>4, <3>5, FlowAppend
    <3>7. Flow(Append(read \o inbox, frame), Len(delivered), data')
      BY <2>1, <3>1, <3>6 DEF Ping
    <3> QED BY <2>1, <2>2, <3>2, <3>7 DEF ToCome
  <2>5. state' \in {"connecting", "open"} => \A read \in Held' : ToCome(read)'
    BY <2>2, <2>3, <2>4, Zenon DEF FlowInv
  <2>6. /\ \A i \in DOMAIN delivered' : delivered'[i] = i
        /\ ~looping' => buf' = <<>>
    BY <2>2 DEF FlowInv
  <2> HIDE DEF Held
  <2> QED BY <2>5, <2>6 DEF FlowInv
<1>29. CASE Clock
  <2>1. PICK which \in Timers : Expire(which)
    BY <1>29 DEF Clock, ExpireDeadline, ExpireHandshake, ExpireOrphan, Timers
  <2>2. Post(which) \in Entries /\ Post(which).what # "read"
    BY EntriesMade DEF Post, Entry, Timers
  <2>3. /\ ready' = Append(ready, Post(which))
        /\ UNCHANGED <<inbox, delivered, data, looping, buf, state>>
    BY <2>1 DEF Expire, readVars, peerVars
  <2> QED BY <1>5, <2>2, <2>3
<1> QED
  BY <1>7, <1>8, <1>9, <1>10, <1>11, <1>12, <1>13, <1>14, <1>15, <1>16,
     <1>17, <1>18, <1>19, <1>20, <1>21, <1>22, <1>23, <1>24, <1>26, <1>27,
     <1>28, <1>29 DEF Next, IoThread, Script, Network, Peer

\* A new object has called no handler and read nothing.
LEMMA SessionInit == Init => SessionInv /\ Session!Init
<1> SUFFICES ASSUME Init PROVE SessionInv /\ Session!Init
  OBVIOUS
<1>1. /\ state = "connecting" /\ looping = FALSE /\ buf = <<>> /\ ready = <<>>
      /\ inbox = <<>> /\ delivered = <<>> /\ data = 0
      /\ fired = [event \in Events |-> 0]
  BY DEF Init
<1>2. /\ fired["open"] = 0 /\ fired["error"] = 0 /\ fired["close"] = 0
  BY <1>1 DEF Events
<1>3. FiredInv
  BY <1>1, <1>2 DEF FiredInv
<1>4. TypeOK
  BY TypeInit
<1>5. Phase = "new" /\ Calls = 0
  BY <1>2, <1>4, PhaseIs
<1>6. DOMAIN <<>> = {} /\ Len(<<>>) = 0 /\ <<>> \o <<>> = <<>>
  <2>1. <<>> \in Seq(Int)
    OBVIOUS
  <2> QED BY <2>1, ConcatEmptySeq
<1>7. Held = {<<>>}
  BY <1>1, <1>6 DEF Held, Reads
<1>8. Flow(<<>>, 0, 0)
  BY <1>6 DEF Flow, Frames
<1>9. ToCome(<<>>)
  BY <1>1, <1>6, <1>8 DEF ToCome
<1>10. FlowInv
  <2> HIDE DEF Held, ToCome
  <2> QED BY <1>1, <1>6, <1>7, <1>9 DEF FlowInv
<1>11. Session!Init
  BY <1>1, <1>5 DEF Session!Init
<1> QED BY <1>3, <1>10, <1>11 DEF SessionInv

\* The handlers are called as the comments on them in connection.hpp promise:
\* open or fail, close once and only after open, the messages in between, each
\* once and in the order the peer sent them.
THEOREM SessionCorrect == Spec => KeepsSession
<1>1. TypeOK /\ ReadInv /\ [Next]_vars => ReadInv'
  BY OneStageStep, StageFitsStep DEF ReadInv
<1>2. TypeOK /\ TypeOK' /\ ReadInv /\ SessionInv /\ [Next]_vars => SessionInv'
  BY HandlersStep, FlowStep DEF SessionInv
<1>3. TypeOK /\ TypeOK' /\ ReadInv /\ SessionInv /\ [Next]_vars
        => [Session!Next]_Session!vars
  BY HandlersStep
<1> QED
  BY <1>1, <1>2, <1>3, ReadInit, SessionInit, TypeCorrect, PTL
     DEF Spec, KeepsSession, Session!Spec
=============================================================================
