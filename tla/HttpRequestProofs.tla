-------------------------- MODULE HttpRequestProofs --------------------------
(***************************************************************************)
(* Theorems about HttpRequest, for every number of open() calls, however   *)
(* they overlap, and every number of endpoints.                            *)
(***************************************************************************)
EXTENDS HttpRequest, CompletionQueue

\* A chain belongs to one open(); one that is over has no outcome; what the
\* resolver finds has at least one endpoint.
StageInv ==
    \A c \in Chains :
        /\ op[c] = "idle" <=> c > opens
        /\ op[c] \in {"idle", "end"} => result[c] = "none"
        /\ op[c] = "resolve" /\ result[c] = "ok" => endpoints[c] > 0

\* CompletionsQueuedOnce, of any outcomes.
Done(res) == {c \in Chains : res[c] \in Outcomes}
QueueInv == Names(ready, Done(result))

\* For a script that waits: the requests in request_ are different, from calls
\* that were made, and none of them was sent; a write sends all of them.
SentInv ==
    ~overlapped =>
        /\ \A c \in Chains : c < opens => op[c] = "end"
        /\ \A i, j \in 1..Len(request) : request[i] = request[j] => i = j
        /\ \A i \in 1..Len(request) :
              request[i] <= opens /\ handed[request[i]] = 0
        /\ \A c \in Chains : handed[c] <= 1 /\ (c > opens => handed[c] = 0)
        /\ \A c \in Chains :
              op[c] = "write" /\ result[c] = "pending" => outgoing[c] = request

(***************************************************************************)
(* Parts                                                                   *)
(***************************************************************************)
Kinds == {"idle", "resolve", "end"} \cup SocketKinds
Results == {"none", "pending"} \cup Outcomes

LEMMA ChainsFinite == IsFiniteSet(Chains) /\ \A S \in SUBSET Chains : IsFiniteSet(S)
<1>1. IsFiniteSet(Chains)
  BY FS_Interval, BoundsAssumption DEF Chains
<1> QED BY <1>1, FS_Subset

LEMMA SuffixType ==
    ASSUME NEW T, NEW q \in Seq(T), NEW n \in 0..Len(q)
    PROVE  SubSeq(q, n + 1, Len(q)) \in Seq(T) /\ SubSeq(q, 1, n) \in Seq(T)
  BY SubSeqProperties, LenProperties

\* An operation that starts is pending or has its outcome at once.
LEMMA AtOnceOutcome ==
    ASSUME NEW kind, NEW buf, NEW outcome \in AtOnce(kind, buf)
    PROVE  outcome \in {"pending"} \cup Outcomes
  BY DEF AtOnce, Outcomes

\* What a handler does to the operation of its chain.
Begins(c, kind) ==
    \E outcome \in {"pending"} \cup Outcomes : Begin(c, kind, outcome)

Retries(c) ==
    /\ op[c] = "connect" /\ UNCHANGED op
    /\ result' = [d \in Chains |-> IF d = c THEN "pending"
                                   ELSE IF d \in OnSocket THEN "fail"
                                   ELSE result[d]]
    /\ \E order \in SetToSeqs(OnSocket) : ready' = Tail(ready) \o order

\* Every handler starts the next operation, ends the chain or tries the next
\* endpoint.
LEMMA HandlerCases ==
    ASSUME NEW c \in Chains, Io(c)
    PROVE  /\ \E kind \in SocketKinds \cup {"resolve"} : Handling(c, kind)
           /\ \/ \E kind \in SocketKinds : Begins(c, kind)
              \/ EndChain(c) \/ Retries(c)
           /\ UNCHANGED <<opens, overlapped, handed, request>>
<1> USE DEF SocketKinds, ReadKinds
<1>1. CASE HandleError(c)
  BY <1>1 DEF HandleError, bufVars, histVars
<1>2. CASE HandleResolve(c)
  <2>1. Begins(c, "connect")
    BY <1>2, AtOnceOutcome DEF HandleResolve, Begins
  <2> QED BY <1>2, <2>1 DEF HandleResolve, bufVars
<1>3. CASE HandleConnect(c)
  <2>1. Begins(c, "write")
    BY <1>3, AtOnceOutcome DEF HandleConnect, Begins
  <2> QED BY <1>3, <2>1 DEF HandleConnect, bufVars, histVars
<1>4. CASE HandleConnectNext(c)
  BY <1>4 DEF HandleConnectNext, Retries, Handling, bufVars, histVars
<1>5. CASE HandleWriteRequest(c)
  <2>1. Begins(c, "status")
    BY <1>5, AtOnceOutcome DEF HandleWriteRequest, Begins
  <2> QED BY <1>5, <2>1 DEF HandleWriteRequest, bufVars, histVars
<1>6. CASE HandleReadStatusLine(c)
  <2>1. Begins(c, "headers") \/ EndChain(c)
    <3>1. \/ EndChain(c)
          \/ \E outcome \in AtOnce("headers", response') :
               Begin(c, "headers", outcome)
      BY <1>6 DEF HandleReadStatusLine
    <3> QED BY <3>1, AtOnceOutcome DEF Begins
  <2> QED BY <1>6, <2>1 DEF HandleReadStatusLine, histVars
<1>7. CASE HandleReadHeaders(c)
  <2>1. Begins(c, "content")
    BY <1>7, AtOnceOutcome DEF HandleReadHeaders, Begins
  <2> QED BY <1>7, <2>1 DEF HandleReadHeaders
<1>8. CASE HandleReadContent(c)
  <2>1. Begins(c, "content")
    BY <1>8, AtOnceOutcome DEF HandleReadContent, Begins
  <2> QED BY <1>8, <2>1 DEF HandleReadContent
<1> QED BY <1>1, <1>2, <1>3, <1>4, <1>5, <1>6, <1>7, <1>8 DEF Io

\* The network completes a pending operation or adds to what it has read.
LEMMA NetworkCases ==
    ASSUME NEW c \in Chains, Network(c)
    PROVE  /\ op[c] \in SocketKinds \cup {"resolve"} /\ result[c] = "pending"
           /\ \/ \E outcome \in Outcomes : Complete(c, outcome)
              \/ UNCHANGED <<result, ready>>
           /\ UNCHANGED <<op, opens, overlapped, skipped, printed>>
<1> USE DEF SocketKinds, Outcomes
<1>1. CASE Resolved(c)
  BY <1>1 DEF Resolved, Pending, histVars
<1>2. CASE Connected(c)
  BY <1>2 DEF Connected, Pending, histVars
<1>3. CASE Written(c)
  BY <1>3 DEF Written, Pending
<1>4. CASE Arrive(c)
  BY <1>4 DEF Arrive, Reading, histVars
<1>5. CASE Eof(c)
  BY <1>5 DEF Eof, Reading, histVars
<1>6. CASE Fail(c)
  BY <1>6 DEF Fail, histVars
<1> QED BY <1>1, <1>2, <1>3, <1>4, <1>5, <1>6 DEF Network

(***************************************************************************)
(* The queue of completions                                                *)
(***************************************************************************)
\* A handler takes its completion and may queue the next one of its chain.
LEMMA QueueBegin ==
    ASSUME TypeOK, QueueInv, NEW c \in Chains, NEW from, Handling(c, from),
           NEW to, NEW outcome \in {"pending"} \cup Outcomes,
           Begin(c, to, outcome)
    PROVE  QueueInv'
<1>1. /\ c \in Done(result) /\ Names(Tail(ready), Done(result) \ {c})
  BY NamesTail DEF QueueInv, Handling
<1>2. result \in [Chains -> Results] /\ result' = [result EXCEPT ![c] = outcome]
  BY DEF TypeOK, Begin, Results
<1>3. CASE outcome = "pending"
  <2>1. Done(result') = Done(result) \ {c}
    BY <1>2, <1>3 DEF Done, Outcomes
  <2>2. ready' = Tail(ready)
    BY <1>3 DEF Begin
  <2> QED BY <1>1, <2>1, <2>2 DEF QueueInv, Done
<1>4. CASE outcome # "pending"
  <2>1. Done(result') = (Done(result) \ {c}) \cup {c}
    BY <1>2, <1>4 DEF Done
  <2>2. ready' = Append(Tail(ready), c)
    BY <1>4 DEF Begin
  <2>3. Names(ready', Done(result'))
    BY <1>1, <2>1, <2>2, NamesAppend
  <2> QED BY <2>3 DEF QueueInv, Done
<1> QED BY <1>3, <1>4

\* Every step keeps the queue of completions exact.
LEMMA QueueStep == ASSUME TypeOK, StageInv, QueueInv, Next PROVE QueueInv'
<1>0. result \in [Chains -> Results] /\ op \in [Chains -> Kinds]
  BY DEF TypeOK, Results, Kinds
<1>1. ASSUME NEW c \in Chains, Io(c) PROVE QueueInv'
  <2>1. PICK kind \in SocketKinds \cup {"resolve"} : Handling(c, kind)
    BY <1>1, HandlerCases
  <2>2. c \in Done(result) /\ Names(Tail(ready), Done(result) \ {c})
    BY <2>1, NamesTail DEF QueueInv, Handling
  <2>3. ASSUME NEW to, Begins(c, to) PROVE QueueInv'
    BY <2>1, <2>3, QueueBegin DEF Begins
  <2>4. CASE EndChain(c)
    <3>1. Done(result') = Done(result) \ {c}
      BY <1>0, <2>4 DEF EndChain, Done, Outcomes
    <3> QED BY <2>2, <2>4, <3>1 DEF EndChain, QueueInv, Done
  <2>5. CASE Retries(c)
    <3>1. PICK order \in SetToSeqs(OnSocket) : ready' = Tail(ready) \o order
      BY <2>5 DEF Retries
    <3>2. OnSocket \in SUBSET Chains /\ c \notin OnSocket
          /\ (Done(result) \ {c}) \cap OnSocket = {}
      BY <2>2 DEF OnSocket, Done, Outcomes
    <3>3. Done(result') = (Done(result) \ {c}) \cup OnSocket
      BY <1>0, <2>5, <3>2 DEF Retries, Done, Outcomes
    <3>4. Names(order, OnSocket)
      BY <3>2, ChainsFinite, OrderNames
    <3> DEFINE others == Done(result) \ {c}
    <3>5. Names(Tail(ready), others) /\ others \cap OnSocket = {}
      BY <2>2, <3>2
    <3> HIDE DEF others
    <3>6. Names(Tail(ready) \o order, others \cup OnSocket)
      BY <3>4, <3>5, NamesConcat
    <3>7. Names(ready', Done(result'))
      BY <3>1, <3>3, <3>6, Zenon DEF others
    <3> QED BY <3>7 DEF QueueInv, Done
  <2> QED BY <1>1, <2>3, <2>4, <2>5, HandlerCases
<1>2. ASSUME NEW c \in Chains, Network(c) PROVE QueueInv'
  <2>1. CASE UNCHANGED <<result, ready>>
    BY <2>1 DEF QueueInv, Done
  <2>2. ASSUME NEW outcome \in Outcomes, Complete(c, outcome) PROVE QueueInv'
    <3>1. c \notin Done(result)
      BY <1>2, NetworkCases DEF Done, Outcomes
    <3>2. Done(result') = Done(result) \cup {c}
      BY <1>0, <2>2 DEF Complete, Done
    <3>3. Names(Append(ready, c), Done(result) \cup {c})
      BY <3>1, NamesAppend DEF QueueInv
    <3>4. Names(ready', Done(result'))
      BY <2>2, <3>2, <3>3, Zenon DEF Complete
    <3> QED BY <3>4 DEF QueueInv, Done
  <2> QED BY <1>2, <2>1, <2>2, NetworkCases
<1>3. CASE Open
  <2>1. opens + 1 \in Chains /\ opens + 1 > opens
    BY <1>3, BoundsAssumption DEF Open, TypeOK, Chains
  <2>2. result[opens + 1] = "none"
    BY <2>1 DEF StageInv
  <2>3. Done(result') = Done(result)
    BY <1>0, <1>3, <2>1, <2>2 DEF Open, Done, Outcomes
  <2> QED BY <1>3, <2>3 DEF Open, QueueInv, Done
<1> QED BY <1>1, <1>2, <1>3 DEF Next, IoThread

(***************************************************************************)
(* Types                                                                   *)
(***************************************************************************)
\* Every step keeps chains and open() calls in correspondence.
LEMMA StageStep == ASSUME TypeOK, StageInv, Next PROVE StageInv'
<1>0. /\ result \in [Chains -> Results] /\ op \in [Chains -> Kinds]
      /\ endpoints \in [Chains -> 0..MaxEndpoints] /\ opens \in 0..MaxOpens
  BY DEF TypeOK, Results, Kinds
<1>1. ASSUME NEW c \in Chains, Io(c) PROVE StageInv'
  <2>1. /\ op[c] \in SocketKinds \cup {"resolve"} /\ opens' = opens
    BY <1>1, HandlerCases DEF Handling
  <2>2. ASSUME NEW d \in Chains, d # c PROVE endpoints'[d] = endpoints[d]
    BY <1>0, <1>1, <2>2 DEF Io, HandleError, HandleResolve, HandleConnect,
       HandleConnectNext, HandleWriteRequest, HandleReadStatusLine,
       HandleReadHeaders, HandleReadContent
  <2>3. ASSUME NEW kind \in SocketKinds, Begins(c, kind) PROVE StageInv'
    BY <1>0, <2>1, <2>2, <2>3
       DEF Begins, Begin, StageInv, SocketKinds, ReadKinds, Outcomes
  <2>4. CASE EndChain(c)
    BY <1>0, <2>1, <2>2, <2>4 DEF EndChain, StageInv, SocketKinds, ReadKinds
  <2>5. CASE Retries(c)
    BY <1>0, <2>1, <2>2, <2>5
       DEF Retries, OnSocket, StageInv, SocketKinds, ReadKinds
  <2> QED BY <1>1, <2>3, <2>4, <2>5, HandlerCases
<1>2. ASSUME NEW c \in Chains, Network(c) PROVE StageInv'
  <2>1. /\ op[c] \in SocketKinds \cup {"resolve"} /\ UNCHANGED <<op, opens>>
        /\ \/ \E outcome \in Outcomes : result' = [result EXCEPT ![c] = outcome]
           \/ result' = result
    BY <1>2, NetworkCases DEF Complete
  <2>2. CASE Resolved(c)
    BY <1>0, <2>1, <2>2 DEF Resolved, StageInv, SocketKinds, ReadKinds
  <2>3. CASE ~Resolved(c)
    <3>1. endpoints' = endpoints /\ (op[c] = "resolve" => result'[c] # "ok")
      BY <1>0, <1>2, <2>3 DEF Network, Connected, Written, Arrive, Eof, Fail,
         Pending, Reading, Complete, ReadKinds
    <3> QED BY <1>0, <2>1, <3>1 DEF StageInv, SocketKinds, ReadKinds
  <2> QED BY <2>2, <2>3
<1>3. CASE Open
  <2>1. opens + 1 \in Chains /\ opens' = opens + 1
    BY <1>0, <1>3, BoundsAssumption DEF Open, Chains
  <2>2. \A c \in Chains : c > opens' <=> (c > opens /\ c # opens + 1)
    BY <1>0, <2>1, BoundsAssumption DEF Chains
  <2>3. /\ op' = [op EXCEPT ![opens + 1] = "resolve"]
        /\ result' = [result EXCEPT ![opens + 1] = "pending"]
        /\ endpoints' = endpoints
    BY <1>3 DEF Open
  <2> QED BY <1>0, <2>1, <2>2, <2>3 DEF StageInv
<1> QED BY <1>1, <1>2, <1>3 DEF Next, IoThread

\* Every step keeps the types of the operations and their outcomes.
LEMMA IoTypeStep ==
    ASSUME TypeOK, StageInv, QueueInv, Next
    PROVE  /\ op' \in [Chains -> Kinds] /\ result' \in [Chains -> Results]
           /\ endpoints' \in [Chains -> 0..MaxEndpoints]
           /\ ready' \in Seq(Chains)
<1>0. /\ result \in [Chains -> Results] /\ op \in [Chains -> Kinds]
      /\ endpoints \in [Chains -> 0..MaxEndpoints] /\ opens \in 0..MaxOpens
  BY DEF TypeOK, Results, Kinds
<1>1. ready' \in Seq(Chains)
  <2>1. Names(ready', Done(result'))
    BY QueueStep DEF QueueInv, Done
  <2> QED BY <2>1, SeqMonotonic DEF Names, Done
<1>2. ASSUME NEW c \in Chains, Io(c)
      PROVE  op' \in [Chains -> Kinds] /\ result' \in [Chains -> Results]
  <2>1. ASSUME NEW kind \in SocketKinds, Begins(c, kind)
        PROVE  op' \in [Chains -> Kinds] /\ result' \in [Chains -> Results]
    BY <1>0, <2>1 DEF Begins, Begin, Kinds, Results
  <2>2. CASE EndChain(c)
    BY <1>0, <2>2 DEF EndChain, Kinds, Results
  <2>3. CASE Retries(c)
    BY <1>0, <2>3 DEF Retries, Results, Outcomes
  <2> QED BY <1>2, <2>1, <2>2, <2>3, HandlerCases
<1>3. ASSUME NEW c \in Chains, Io(c)
      PROVE  endpoints' \in [Chains -> 0..MaxEndpoints]
  <2>1. \/ endpoints' = endpoints
        \/ endpoints[c] > 0 /\ endpoints' = [endpoints EXCEPT ![c] = @ - 1]
    BY <1>3 DEF Io, HandleError, HandleResolve, HandleConnect,
       HandleConnectNext, HandleWriteRequest, HandleReadStatusLine,
       HandleReadHeaders, HandleReadContent, StageInv, Handling
  <2>2. endpoints[c] > 0 => endpoints[c] - 1 \in 0..MaxEndpoints
    BY <1>0, BoundsAssumption
  <2> QED BY <1>0, <2>1, <2>2
<1>4. ASSUME NEW c \in Chains, Network(c)
      PROVE  /\ op' \in [Chains -> Kinds] /\ result' \in [Chains -> Results]
             /\ endpoints' \in [Chains -> 0..MaxEndpoints]
  <2>1. op' \in [Chains -> Kinds] /\ result' \in [Chains -> Results]
    <3>1. op' = op
      BY <1>4, NetworkCases
    <3>2. \/ result' = result
          \/ \E outcome \in Outcomes : result' = [result EXCEPT ![c] = outcome]
      BY <1>4, NetworkCases DEF Complete
    <3> QED BY <1>0, <3>1, <3>2 DEF Results
  <2>2. \/ endpoints' = endpoints
        \/ \E n \in 1..MaxEndpoints : endpoints' = [endpoints EXCEPT ![c] = n]
    BY <1>4 DEF Network, Resolved, Connected, Written, Arrive, Eof, Fail
  <2>3. 1..MaxEndpoints \subseteq 0..MaxEndpoints
    BY BoundsAssumption
  <2> QED BY <1>0, <2>1, <2>2, <2>3
<1>5. ASSUME Open
      PROVE  /\ op' \in [Chains -> Kinds] /\ result' \in [Chains -> Results]
             /\ endpoints' \in [Chains -> 0..MaxEndpoints]
  <2>1. /\ op' = [op EXCEPT ![opens + 1] = "resolve"]
        /\ result' = [result EXCEPT ![opens + 1] = "pending"]
        /\ endpoints' = endpoints
    BY <1>5 DEF Open
  <2> QED BY <1>0, <2>1 DEF Kinds, Results
<1> DEFINE Goal == /\ op' \in [Chains -> Kinds] /\ result' \in [Chains -> Results]
                   /\ endpoints' \in [Chains -> 0..MaxEndpoints]
<1>6. Goal
  <2>1. ASSUME NEW c \in Chains, Io(c) PROVE Goal
    BY <1>2, <1>3, <2>1
  <2>2. ASSUME NEW c \in Chains, Network(c) PROVE Goal
    BY <1>4, <2>2
  <2>3. ASSUME Open PROVE Goal
    BY <1>5, <2>3
  <2> HIDE DEF Goal
  <2> QED BY <2>1, <2>2, <2>3, Zenon DEF Next, IoThread
<1> QED BY <1>1, <1>6

\* The texts that go over the wire.
LEMMA TextsTyped ==
    /\ <<>> \in Seq(Pieces) /\ <<>> \in Seq(Chains)
    /\ Responses \subseteq Seq(Pieces)
<1>1. /\ <<>> \in Seq(Pieces) /\ <<>> \in Seq(Chains)
      /\ <<"404", "headers", "body 1">> \in Seq(Pieces)
      /\ <<"garbage">> \in Seq(Pieces)
  BY DEF Pieces
<1>2. <<"200", "headers">> \in Seq(Pieces) /\ Body \in Seq(Pieces)
  BY DEF Pieces, Body
<1>3. Full \in Seq(Pieces)
  BY <1>2, ConcatProperties, Zenon DEF Full
<1>4. \A n \in 0..Len(Full) : SubSeq(Full, 1, n) \in Seq(Pieces)
  BY <1>3, SuffixType
<1> QED BY <1>1, <1>4 DEF Responses

\* Every step keeps the types of the object's buffers and of what was printed.
LEMMA BufStep ==
    ASSUME TypeOK, Next
    PROVE  /\ request' \in Seq(Chains) /\ response' \in Seq(Pieces)
           /\ printed' \in [Chains -> Seq(Pieces)]
<1>0. /\ request \in Seq(Chains) /\ response \in Seq(Pieces)
      /\ printed \in [Chains -> Seq(Pieces)] /\ left \in Seq(Pieces)
      /\ outgoing \in [Chains -> Seq(Chains)]
  BY DEF TypeOK
<1>1. CASE Open
  <2>1. opens + 1 \in Chains
    BY <1>1, BoundsAssumption DEF Open, TypeOK, Chains
  <2>2. request' = Append(request, opens + 1) /\ UNCHANGED <<response, printed>>
    BY <1>1 DEF Open
  <2> QED BY <1>0, <2>1, <2>2, AppendProperties
<1>2. ASSUME NEW c \in Chains, HandleReadStatusLine(c)
      PROVE  response' \in Seq(Pieces) /\ UNCHANGED <<request, printed>>
  BY <1>0, <1>2, HeadTailProperties, TextsTyped
     DEF HandleReadStatusLine, histVars
<1>3. ASSUME NEW c \in Chains, HandleReadHeaders(c)
      PROVE  /\ request' = request /\ response' = <<>>
             /\ printed' \in [Chains -> Seq(Pieces)]
  <2>1. PICK n \in 0..Len(response) :
          printed' = [printed EXCEPT ![c] =
                        @ \o SubSeq(response, n + 1, Len(response))]
    BY <1>3 DEF HandleReadHeaders
  <2>2. printed[c] \o SubSeq(response, n + 1, Len(response)) \in Seq(Pieces)
    BY <1>0, SuffixType, ConcatProperties
  <2>3. request' = request /\ response' = <<>>
    BY <1>3 DEF HandleReadHeaders
  <2> QED BY <1>0, <2>1, <2>2, <2>3
<1>4. ASSUME NEW c \in Chains, HandleReadContent(c)
      PROVE  /\ request' = request /\ response' = <<>>
             /\ printed' \in [Chains -> Seq(Pieces)]
  <2>1. printed[c] \o response \in Seq(Pieces)
    BY <1>0, ConcatProperties
  <2>2. /\ request' = request /\ response' = <<>>
        /\ printed' = [printed EXCEPT ![c] = @ \o response]
    BY <1>4 DEF HandleReadContent
  <2> QED BY <1>0, <2>1, <2>2
<1>5. ASSUME NEW c \in Chains,
             \/ HandleError(c) \/ HandleResolve(c) \/ HandleConnect(c)
             \/ HandleConnectNext(c) \/ HandleWriteRequest(c)
             \/ Resolved(c) \/ Connected(c) \/ Eof(c) \/ Fail(c)
      PROVE  UNCHANGED <<request, response, printed>>
  BY <1>5 DEF HandleError, HandleResolve, HandleConnect, HandleConnectNext,
     HandleWriteRequest, Resolved, Connected, Eof, Fail, bufVars, histVars
<1>6. ASSUME NEW c \in Chains, Written(c)
      PROVE  request' \in Seq(Chains) /\ UNCHANGED <<response, printed>>
  <2>1. /\ request' = SubSeq(request, Len(outgoing[c]) + 1, Len(request))
        /\ UNCHANGED <<response, printed>>
    BY <1>6 DEF Written
  <2>2. Len(outgoing[c]) \in Nat /\ Len(request) \in Nat
    BY <1>0, LenProperties
  <2>3. \A i \in (Len(outgoing[c]) + 1)..Len(request) : request[i] \in Chains
    BY <1>0, <2>2, ElementOfSeq
  <2>4. SubSeq(request, Len(outgoing[c]) + 1, Len(request)) \in Seq(Chains)
    BY <2>2, <2>3, SubSeqProperties
  <2> QED BY <2>1, <2>4
<1>7. ASSUME NEW c \in Chains, Arrive(c)
      PROVE  response' \in Seq(Pieces) /\ UNCHANGED <<request, printed>>
  <2>1. PICK n \in 1..Len(left) : response' = response \o SubSeq(left, 1, n)
    BY <1>7 DEF Arrive
  <2>2. n \in 0..Len(left)
    BY <1>0, <2>1, LenProperties
  <2>3. response' \in Seq(Pieces)
    BY <1>0, <2>1, <2>2, SuffixType, ConcatProperties
  <2> QED BY <1>7, <2>3 DEF Arrive, histVars
<1>8. ASSUME NEW c \in Chains, Io(c) \/ Network(c)
      PROVE  /\ request' \in Seq(Chains) /\ response' \in Seq(Pieces)
             /\ printed' \in [Chains -> Seq(Pieces)]
  BY <1>0, <1>2, <1>3, <1>4, <1>5, <1>6, <1>7, <1>8, TextsTyped DEF Io, Network
<1> QED BY <1>1, <1>8 DEF Next, IoThread

\* Every step keeps the types of the socket and its connection.
LEMMA ConnStep ==
    ASSUME TypeOK, Next
    PROVE  /\ socket' \in {"closed", "connecting", "connected", "failed"}
           /\ left' \in Seq(Pieces) /\ answering' \in 0..MaxOpens
           /\ outgoing' \in [Chains -> Seq(Chains)]
<1> DEFINE Goal == /\ socket' \in {"closed", "connecting", "connected", "failed"}
                   /\ left' \in Seq(Pieces) /\ answering' \in 0..MaxOpens
                   /\ outgoing' \in [Chains -> Seq(Chains)]
<1>0. /\ socket \in {"closed", "connecting", "connected", "failed"}
      /\ left \in Seq(Pieces) /\ answering \in 0..MaxOpens
      /\ outgoing \in [Chains -> Seq(Chains)] /\ request \in Seq(Chains)
      /\ 0 \in 0..MaxOpens /\ Chains \subseteq 0..MaxOpens
  BY BoundsAssumption DEF TypeOK, Chains
<1>1. ASSUME UNCHANGED connVars PROVE Goal
  BY <1>0, <1>1 DEF connVars
<1>2. ASSUME Disconnect("connecting") \/ Disconnect("failed") PROVE Goal
  <2>1. Each(<<>>) \in [Chains -> Seq(Chains)]
    BY TextsTyped DEF Each
  <2> QED BY <1>0, <1>2, <2>1, TextsTyped DEF Disconnect
<1>3. ASSUME NEW c \in Chains,
             \/ HandleError(c) \/ HandleWriteRequest(c)
             \/ HandleReadStatusLine(c) \/ HandleReadHeaders(c)
             \/ HandleReadContent(c) \/ Resolved(c) \/ Eof(c)
      PROVE  Goal
  BY <1>1, <1>3 DEF HandleError, HandleWriteRequest, HandleReadStatusLine,
     HandleReadHeaders, HandleReadContent, Resolved, Eof
<1>4. ASSUME NEW c \in Chains, HandleResolve(c) PROVE Goal
  <2>1. UNCHANGED <<left, answering, outgoing>>
    BY <1>4 DEF HandleResolve
  <2>2. socket' = "connecting" \/ socket' = socket
    BY <1>4 DEF HandleResolve
  <2> QED BY <1>0, <2>1, <2>2
<1>5. ASSUME NEW c \in Chains, HandleConnect(c) PROVE Goal
  <2>1. /\ UNCHANGED <<socket, left, answering>>
        /\ outgoing' = [outgoing EXCEPT ![c] = request] \/ outgoing' = outgoing
    BY <1>5 DEF HandleConnect
  <2> QED BY <1>0, <2>1
<1>6. ASSUME NEW c \in Chains, HandleConnectNext(c) PROVE Goal
  BY <1>2, <1>6 DEF HandleConnectNext
<1>7. ASSUME NEW c \in Chains, Connected(c) PROVE Goal
  BY <1>0, <1>7, TextsTyped DEF Connected
<1>8. ASSUME NEW c \in Chains, Written(c) PROVE Goal
  <2>1. /\ socket' = socket /\ outgoing' = [outgoing EXCEPT ![c] = <<>>]
        /\ \/ /\ outgoing[c] # <<>> /\ answering' = Head(outgoing[c])
              /\ left' \in Responses
           \/ UNCHANGED <<answering, left>>
    BY <1>8 DEF Written
  <2>2. outgoing[c] # <<>> => Head(outgoing[c]) \in Chains
    BY <1>0, HeadTailProperties
  <2>3. outgoing' \in [Chains -> Seq(Chains)]
    BY <1>0, <2>1, TextsTyped
  <2>4. left' \in Seq(Pieces) /\ answering' \in 0..MaxOpens
    BY <1>0, <2>1, <2>2, TextsTyped
  <2> QED BY <1>0, <2>1, <2>3, <2>4
<1>9. ASSUME NEW c \in Chains, Arrive(c) PROVE Goal
  <2>1. /\ UNCHANGED <<socket, answering, outgoing>>
        /\ \E n \in 1..Len(left) : left' = SubSeq(left, n + 1, Len(left))
    BY <1>9 DEF Arrive
  <2>2. \A n \in 1..Len(left) : n \in 0..Len(left)
    BY <1>0, LenProperties
  <2>3. left' \in Seq(Pieces)
    BY <1>0, <2>1, <2>2, SuffixType
  <2> QED BY <1>0, <2>1, <2>3
<1>10. ASSUME NEW c \in Chains, Fail(c) PROVE Goal
  BY <1>1, <1>2, <1>10 DEF Fail
<1>11. ASSUME Open PROVE Goal
  BY <1>1, <1>11 DEF Open
<1> HIDE DEF Goal
<1>12. ASSUME NEW c \in Chains, Io(c) PROVE Goal
  BY <1>3, <1>4, <1>5, <1>6, <1>12, Zenon DEF Io
<1>13. ASSUME NEW c \in Chains, Network(c) PROVE Goal
  BY <1>3, <1>7, <1>8, <1>9, <1>10, <1>13, Zenon DEF Network
<1>14. Goal
  BY <1>11, <1>12, <1>13, Zenon DEF Next, IoThread
<1> QED BY <1>14 DEF Goal

\* How many copies of a request a text holds.
LEMMA CopiesType ==
    ASSUME NEW text \in Seq(Chains), NEW r
    PROVE  /\ Copies(r, text) \in Nat
           /\ (\A i \in 1..Len(text) : text[i] # r) => Copies(r, text) = 0
           /\ (\A i, j \in 1..Len(text) : text[i] = text[j] => i = j)
                => Copies(r, text) <= 1
<1> DEFINE at == {i \in 1..Len(text) : text[i] = r}
<1>1. Copies(r, text) = Cardinality(at)
  BY LenProperties DEF Copies
<1>2. IsFiniteSet(at)
  <2>1. IsFiniteSet(1..Len(text)) /\ at \in SUBSET (1..Len(text))
    BY FS_Interval, LenProperties
  <2> HIDE DEF at
  <2> QED BY <2>1, FS_Subset
<1>3. ASSUME \A i \in 1..Len(text) : text[i] # r PROVE Copies(r, text) = 0
  BY <1>1, <1>3, FS_EmptySet
<1>4. ASSUME \A i, j \in 1..Len(text) : text[i] = text[j] => i = j
      PROVE  Copies(r, text) <= 1
  <2>1. \A i, j \in at : i = j
    BY <1>4
  <2> HIDE DEF at
  <2>2. at = {} \/ \E i \in at : at = {i}
    BY <2>1
  <2>3. Cardinality(at) = 0 \/ Cardinality(at) = 1
    BY <2>2, FS_EmptySet, FS_Singleton
  <2> QED BY <1>1, <2>3
<1>5. Copies(r, text) \in Nat
  BY <1>1, <1>2, FS_CardinalityType
<1> QED BY <1>3, <1>4, <1>5

\* Every step keeps the types of the history.
LEMMA HistStep ==
    ASSUME TypeOK, Next
    PROVE  /\ opens' \in 0..MaxOpens /\ overlapped' \in BOOLEAN
           /\ skipped' \in [Chains -> Nat] /\ handed' \in [Chains -> Nat]
<1>0. /\ opens \in 0..MaxOpens /\ overlapped \in BOOLEAN
      /\ skipped \in [Chains -> Nat] /\ handed \in [Chains -> Nat]
      /\ outgoing \in [Chains -> Seq(Chains)]
  BY DEF TypeOK
<1>1. opens' \in 0..MaxOpens /\ overlapped' \in BOOLEAN
  <2>1. CASE Open
    BY <1>0, <2>1, BoundsAssumption DEF Open
  <2>2. ASSUME NEW c \in Chains, Io(c) \/ Network(c)
        PROVE  UNCHANGED <<opens, overlapped>>
    BY <2>2, HandlerCases, NetworkCases
  <2> QED BY <1>0, <2>1, <2>2 DEF Next, IoThread
<1>2. skipped' \in [Chains -> Nat]
  <2>1. ASSUME NEW c \in Chains, HandleResolve(c)
        PROVE  skipped' \in [Chains -> Nat]
    <3>1. PICK n \in Nat : n = skipped[c]
      BY <1>0
    <3>2. \/ skipped' = skipped
          \/ skipped' = [skipped EXCEPT ![c] =
                            IF socket = "connected" THEN n + 1 ELSE n]
      BY <2>1, <3>1 DEF HandleResolve
    <3>3. n + 1 \in Nat
      OBVIOUS
    <3> QED BY <1>0, <3>2, <3>3
  <2>2. ASSUME NEW c \in Chains, Io(c), ~HandleResolve(c)
        PROVE  skipped' = skipped
    BY <2>2 DEF Io, HandleError, HandleConnect, HandleConnectNext,
       HandleWriteRequest, HandleReadStatusLine, HandleReadHeaders,
       HandleReadContent, histVars
  <2>3. ASSUME NEW c \in Chains, Network(c) PROVE skipped' = skipped
    BY <2>3, NetworkCases
  <2>4. Open => skipped' = skipped
    BY DEF Open
  <2> QED BY <1>0, <2>1, <2>2, <2>3, <2>4 DEF Next, IoThread
<1>3. handed' \in [Chains -> Nat]
  <2>1. ASSUME NEW c \in Chains, Written(c) PROVE handed' \in [Chains -> Nat]
    <3>1. \A r \in Chains : Copies(r, outgoing[c]) \in Nat
      BY <1>0, CopiesType
    <3>2. handed' = [r \in Chains |-> handed[r] + Copies(r, outgoing[c])]
      BY <2>1 DEF Written
    <3> QED BY <1>0, <3>1, <3>2
  <2>2. ASSUME NEW c \in Chains, Network(c), ~Written(c)
        PROVE  handed' = handed
    BY <2>2 DEF Network, Resolved, Connected, Arrive, Eof, Fail, histVars
  <2>3. ASSUME NEW c \in Chains, Io(c) PROVE handed' = handed
    BY <2>3, HandlerCases
  <2>4. Open => handed' = handed
    BY DEF Open
  <2> QED BY <1>0, <2>1, <2>2, <2>3, <2>4 DEF Next, IoThread
<1> QED BY <1>1, <1>2, <1>3

\* Every step keeps all types.
LEMMA TypeStep == ASSUME TypeOK, StageInv, QueueInv, Next PROVE TypeOK'
<1>1. /\ op' \in [Chains -> {"idle", "resolve", "end"} \cup SocketKinds]
      /\ result' \in [Chains -> {"none", "pending"} \cup Outcomes]
  BY IoTypeStep DEF Kinds, Results
<1> QED BY <1>1, IoTypeStep, BufStep, ConnStep, HistStep, Zenon DEF TypeOK

(***************************************************************************)
(* Requests                                                                *)
(***************************************************************************)
\* Of a script that waits, only the last chain is under way.
LEMMA LastChain ==
    ASSUME TypeOK, StageInv, SentInv, ~overlapped,
           NEW c \in Chains, op[c] \in SocketKinds \cup {"resolve"}
    PROVE  /\ c = opens
           /\ \A d \in Chains : d # c => op[d] \in {"idle", "end"}
<1>1. c <= opens /\ ~(c < opens)
  BY DEF TypeOK, StageInv, SentInv, SocketKinds, ReadKinds, Chains
<1>2. c = opens
  BY <1>1 DEF TypeOK, Chains
<1>3. ASSUME NEW d \in Chains, d # c PROVE d < opens \/ d > opens
  BY <1>2, <1>3 DEF TypeOK, Chains
<1> QED BY <1>2, <1>3 DEF StageInv, SentInv

\* What a write that completes has sent is gone from request_.
LEMMA SentWritten ==
    ASSUME TypeOK, StageInv, SentInv, NEW c \in Chains, Written(c)
    PROVE  SentInv'
<1> SUFFICES ASSUME ~overlapped' PROVE SentInv'
  BY DEF SentInv
<1>0. /\ request \in Seq(Chains) /\ handed \in [Chains -> Nat]
      /\ opens \in 0..MaxOpens /\ result \in [Chains -> Results]
  BY DEF TypeOK, Results
<1>1. /\ op[c] = "write" /\ result[c] = "pending"
      /\ UNCHANGED <<op, opens, overlapped>>
      /\ result' = [result EXCEPT ![c] = "ok"]
      /\ request' = SubSeq(request, Len(outgoing[c]) + 1, Len(request))
      /\ handed' = [r \in Chains |-> handed[r] + Copies(r, outgoing[c])]
  BY DEF Written, Pending, Complete
<1>2. ~overlapped /\ op[c] \in SocketKinds \cup {"resolve"}
  BY <1>1 DEF SocketKinds
<1>3. /\ \A d \in Chains : d < opens => op[d] = "end"
      /\ \A i, j \in 1..Len(request) : request[i] = request[j] => i = j
      /\ \A i \in 1..Len(request) : request[i] <= opens /\ handed[request[i]] = 0
      /\ \A d \in Chains : handed[d] <= 1 /\ (d > opens => handed[d] = 0)
      /\ outgoing[c] = request
  BY <1>1, <1>2 DEF SentInv
<1>4. request' = <<>> /\ Len(request') = 0
  <2>1. PICK n \in Nat : n = Len(request)
    BY <1>0, LenProperties
  <2>2. request' = SubSeq(request, n + 1, n)
    BY <1>1, <1>3, <2>1
  <2> QED BY <2>2
<1>5. ASSUME NEW r \in Chains
      PROVE  handed'[r] <= 1 /\ (r > opens => handed'[r] = 0)
  <2>1. PICK k \in Nat : k = Copies(r, request) /\ k <= 1
    BY <1>0, <1>3, CopiesType
  <2>2. handed'[r] = handed[r] + k
    BY <1>1, <1>3, <2>1
  <2>3. CASE \E i \in 1..Len(request) : request[i] = r
    <3>1. handed[r] = 0 /\ r <= opens
      BY <1>3, <2>3
    <3> QED BY <1>0, <2>1, <2>2, <3>1 DEF Chains
  <2>4. CASE \A i \in 1..Len(request) : request[i] # r
    <3>1. k = 0
      BY <1>0, <2>1, <2>4, CopiesType
    <3>2. handed'[r] = handed[r]
      BY <1>0, <2>2, <3>1
    <3> QED BY <1>3, <3>2
  <2> QED BY <2>3, <2>4
<1>6. ASSUME NEW d \in Chains, op'[d] = "write" PROVE result'[d] # "pending"
  <2>1. d = c
    BY <1>1, <1>2, <1>6, LastChain
  <2> QED BY <1>0, <1>1, <2>1
<1>7. \A i \in 1..Len(request') : FALSE
  BY <1>4
<1> QED BY <1>1, <1>3, <1>5, <1>6, <1>7 DEF SentInv

\* Every step keeps SentInv.
LEMMA SentStep == ASSUME TypeOK, StageInv, SentInv, Next PROVE SentInv'
<1> SUFFICES ASSUME ~overlapped' PROVE SentInv'
  BY DEF SentInv
<1>0. /\ request \in Seq(Chains) /\ handed \in [Chains -> Nat]
      /\ opens \in 0..MaxOpens /\ result \in [Chains -> Results]
      /\ op \in [Chains -> Kinds] /\ outgoing \in [Chains -> Seq(Chains)]
  BY DEF TypeOK, Results, Kinds
<1> DEFINE Kept == /\ UNCHANGED <<opens, overlapped, handed, request>>
                   /\ \A d \in Chains : d < opens => op'[d] = "end"
                   /\ \A d \in Chains :
                         op'[d] = "write" /\ result'[d] = "pending"
                           => outgoing'[d] = request
<1>1. ASSUME Kept PROVE SentInv'
  BY <1>1 DEF SentInv
<1>2. ASSUME NEW c \in Chains, Io(c) PROVE SentInv'
  <2>1. /\ ~overlapped /\ op[c] \in SocketKinds \cup {"resolve"}
        /\ UNCHANGED <<opens, overlapped, handed, request>>
    BY <1>2, HandlerCases DEF Handling
  <2>2. c = opens /\ \A d \in Chains : d # c => op[d] \in {"idle", "end"}
    BY <2>1, LastChain
  <2>3. \A d \in Chains : d # c => op'[d] = op[d]
    <3>1. op' = op \/ \E kind : op' = [op EXCEPT ![c] = kind]
      BY <1>2, HandlerCases DEF Begins, Begin, EndChain, Retries
    <3> QED BY <1>0, <3>1
  <2>4. op'[c] = "write" /\ result'[c] = "pending" => outgoing'[c] = request
    <3>1. CASE HandleConnect(c)
      BY <1>0, <3>1 DEF HandleConnect, Begin
    <3>2. CASE ~HandleConnect(c)
      <4>1. op'[c] # "write"
        BY <1>0, <1>2, <3>2 DEF Io, HandleError, HandleResolve,
           HandleConnectNext, HandleWriteRequest, HandleReadStatusLine,
           HandleReadHeaders, HandleReadContent, Begin, EndChain, Handling
      <4> QED BY <4>1
    <3> QED BY <3>1, <3>2
  <2>5. \A d \in Chains : d < opens => op'[d] = "end"
    BY <1>0, <2>1, <2>2, <2>3 DEF SentInv
  <2>6. \A d \in Chains : op'[d] = "write" => d = c
    BY <2>2, <2>3
  <2> QED BY <1>1, <2>1, <2>4, <2>5, <2>6
<1>3. ASSUME NEW c \in Chains, Network(c), ~Written(c) PROVE SentInv'
  <2>1. /\ ~overlapped /\ op[c] \in SocketKinds \cup {"resolve"}
        /\ UNCHANGED <<op, opens, overlapped>>
    BY <1>3, NetworkCases
  <2>2. UNCHANGED <<handed, request>>
    BY <1>3 DEF Network, Resolved, Connected, Arrive, Eof, Fail, bufVars,
       histVars
  <2>3. op[c] = "write" => result'[c] # "pending"
    BY <1>0, <1>3 DEF Network, Resolved, Connected, Arrive, Eof, Fail, Pending,
       Reading, ReadKinds, Complete
  <2>4. \A d \in Chains : d # c => op[d] \in {"idle", "end"}
    BY <2>1, LastChain
  <2>5. \A d \in Chains : d < opens => op'[d] = "end"
    BY <2>1 DEF SentInv
  <2>6. \A d \in Chains : op'[d] = "write" => result'[d] # "pending"
    BY <2>1, <2>3, <2>4
  <2> QED BY <1>1, <2>1, <2>2, <2>5, <2>6
<1>4. CASE Open
  <2>0. opens \in Nat /\ opens < MaxOpens /\ Len(request) \in Nat
    BY <1>0, <1>4, LenProperties DEF Open
  <2>1. PICK n \in Nat, m \in Nat : n = opens /\ m = Len(request)
    BY <2>0
  <2>2. /\ n + 1 \in Chains /\ opens' = n + 1 /\ ~overlapped
        /\ \A c \in 1..n : op[c] = "end"
        /\ request' = Append(request, n + 1) /\ handed' = handed
        /\ op' = [op EXCEPT ![n + 1] = "resolve"]
    <3>1. n + 1 \in Chains
      BY <2>0, <2>1, BoundsAssumption DEF Chains
    <3>2. ~overlapped /\ \A c \in 1..n : op[c] = "end"
      BY <1>4, <2>1 DEF Open
    <3> QED BY <1>4, <2>1, <3>1, <3>2 DEF Open
  <2>3. /\ \A i, j \in 1..m : request[i] = request[j] => i = j
        /\ \A i \in 1..m : request[i] <= n /\ handed[request[i]] = 0
        /\ \A c \in Chains : handed[c] <= 1 /\ (c > n => handed[c] = 0)
    BY <2>1, <2>2 DEF SentInv
  <2>4. /\ Len(request') = m + 1 /\ request'[m + 1] = n + 1
        /\ \A i \in 1..m : request'[i] = request[i]
    BY <1>0, <2>1, <2>2, AppendProperties
  <2>5. \A i \in 1..(m + 1) : i \in 1..m \/ i = m + 1
    BY <2>1
  <2>6. \A i \in 1..m : request[i] \in Chains /\ request[i] # n + 1
    <3>1. \A i \in 1..m : request[i] \in Chains
      BY <1>0, <2>1, ElementOfSeq
    <3> QED BY <2>3, <3>1 DEF Chains
  <2>7. \A i, j \in 1..(m + 1) : request'[i] = request'[j] => i = j
    BY <2>3, <2>4, <2>5, <2>6
  <2>8. \A i \in 1..(m + 1) : request'[i] <= n + 1 /\ handed[request'[i]] = 0
    <3>1. handed[n + 1] = 0 /\ n + 1 <= n + 1
      BY <2>2, <2>3
    <3>2. \A i \in 1..m : request'[i] <= n + 1 /\ handed[request'[i]] = 0
      BY <2>3, <2>4, <2>6 DEF Chains
    <3> QED BY <2>4, <2>5, <3>1, <3>2
  <2>9. \A c \in Chains : c < n + 1 => op'[c] = "end"
    BY <1>0, <2>2 DEF Chains
  <2>10. \A c \in Chains : handed[c] <= 1 /\ (c > n + 1 => handed[c] = 0)
    BY <2>3 DEF Chains
  <2>11. \A c \in Chains : op'[c] # "write"
    <3>1. \A c \in Chains : c # n + 1 => c \in 1..n \/ c > opens
      BY <2>1 DEF Chains
    <3>2. \A c \in Chains : c > opens => op[c] = "idle"
      BY DEF StageInv
    <3>3. \A c \in Chains : c # n + 1 => op[c] # "write"
      BY <2>2, <3>1, <3>2
    <3> QED BY <1>0, <2>2, <3>3
  <2> QED BY <2>2, <2>4, <2>7, <2>8, <2>9, <2>10, <2>11 DEF SentInv
<1> QED BY <1>2, <1>3, <1>4, SentWritten DEF Next, IoThread

(***************************************************************************)
(* What is read                                                            *)
(***************************************************************************)
\* The pieces of a response of status 200 in their order.
Piece(i) ==
    CASE i = 1 -> "200" [] i = 2 -> "headers" [] i = 3 -> "body 1"
      [] OTHER -> "body 2"

\* After n pieces, what is read and then what is still to come go on with the
\* response.
Reads(n, buf, rest) ==
    /\ n + Len(buf) + Len(rest) <= 4
    /\ \A i \in 1..Len(buf) : buf[i] = Piece(n + i)
    /\ \A i \in 1..Len(rest) : rest[i] = Piece(n + Len(buf) + i)

NoStatus(text) == \A i \in 1..Len(text) : text[i] # "200"
Answers(rest) == Reads(0, <<>>, rest) \/ NoStatus(rest)

\* What a chain knows of the pieces at each of its stages.
ChainReads(c) ==
    /\ op[c] \notin {"content", "end"} => printed[c] = <<>>
    /\ op[c] = "connect" /\ result[c] = "ok" => left = <<>>
    /\ op[c] = "write" /\ result[c] = "pending" => left = <<>>
    /\ op[c] = "write" /\ result[c] = "ok" => Answers(left)
    /\ op[c] = "status" =>
          /\ result[c] = "pending" => response = <<>> /\ Answers(left)
          /\ result[c] # "ok" => NoStatus(response)
          /\ result[c] = "ok" =>
                Reads(0, response, left) \/ NoStatus(response)
    /\ op[c] = "headers" =>
          /\ response = <<>> <=> result[c] # "ok"
          /\ result[c] \in {"pending", "ok"} => Reads(1, response, left)
    /\ op[c] = "content" =>
          /\ result[c] # "ok" => response = <<>>
          /\ result[c] # "fail" => Reads(2, printed[c] \o response, left)

\* For a script that waits: what a chain leaves in response_ when it ends early
\* has no status line 200 that the next one could take for its own.
ReadInv ==
    ~overlapped =>
        /\ \A c \in Chains : ChainReads(c)
        /\ (\A c \in Chains : op[c] \notin ReadKinds) => NoStatus(response)

LEMMA NoneRead ==
    /\ NoStatus(<<>>) /\ Answers(<<>>)
    /\ \A n \in 0..4 : Reads(n, <<>>, <<>>)
  BY DEF NoStatus, Answers, Reads

\* What is to come is lost.
LEMMA ReadCut ==
    ASSUME NEW b \in Seq(Pieces), NEW l \in Seq(Pieces), NEW n \in 0..4,
           Reads(n, b, l)
    PROVE  Reads(n, b, <<>>)
<1>1. PICK p \in Nat, q \in Nat : p = Len(b) /\ q = Len(l)
  BY LenProperties
<1> QED BY <1>1 DEF Reads

\* Pieces arrive.
LEMMA ReadMove ==
    ASSUME NEW b \in Seq(Pieces), NEW l \in Seq(Pieces), NEW n \in 0..4,
           NEW m \in 1..Len(l)
    PROVE  LET new == SubSeq(l, 1, m)
               rest == SubSeq(l, m + 1, Len(l))
           IN  /\ new \in Seq(Pieces) /\ new # <<>>
               /\ Reads(n, b, l) => Reads(n, b \o new, rest)
               /\ NoStatus(l) => NoStatus(new)
<1> DEFINE new == SubSeq(l, 1, m)
           rest == SubSeq(l, m + 1, Len(l))
           more == b \o new
<1>1. PICK p \in Nat, q \in Nat : p = Len(b) /\ q = Len(l)
  BY LenProperties
<1>2. m \in 1..q
  BY <1>1
<1>3. /\ new \in Seq(Pieces) /\ Len(new) = m
      /\ \A i \in 1..m : new[i] = l[i]
  <2>1. m \in 0..q
    BY <1>2
  <2>2. new \in Seq(Pieces)
    BY <1>1, <2>1, SuffixType
  <2>3. Len(new) = m /\ \A i \in 1..m : new[i] = l[i]
    BY <1>1, <1>2, SubSeqProperties
  <2> QED BY <2>2, <2>3
<1>4. Len(rest) = q - m /\ \A i \in 1..(q - m) : rest[i] = l[m + i]
  BY <1>1, <1>2, SubSeqProperties
<1>5. /\ Len(more) = p + m
      /\ \A i \in 1..(p + m) : more[i] = IF i <= p THEN b[i] ELSE new[i - p]
  BY <1>1, <1>3, ConcatProperties
<1> HIDE DEF new, rest, more
<1>6. new # <<>>
  BY <1>2, <1>3, EmptySeq
<1>7. ASSUME Reads(n, b, l) PROVE Reads(n, more, rest)
  <2>1. /\ n + p + q <= 4
        /\ \A i \in 1..p : b[i] = Piece(n + i)
        /\ \A i \in 1..q : l[i] = Piece(n + p + i)
    BY <1>1, <1>7 DEF Reads
  <2>2. ASSUME NEW i \in 1..(p + m) PROVE more[i] = Piece(n + i)
    <3>1. CASE i <= p
      BY <1>5, <2>1, <3>1
    <3>2. CASE ~(i <= p)
      <4>1. i - p \in 1..m /\ i - p \in 1..q /\ n + p + (i - p) = n + i
        BY <1>1, <1>2, <3>2
      <4>2. l[i - p] = Piece(n + p + (i - p)) /\ new[i - p] = l[i - p]
        BY <1>3, <2>1, <4>1
      <4>3. more[i] = new[i - p]
        BY <1>5, <3>2
      <4> QED BY <4>1, <4>2, <4>3, Zenon
    <3> QED BY <3>1, <3>2
  <2>3. ASSUME NEW i \in 1..(q - m) PROVE rest[i] = Piece(n + (p + m) + i)
    <3>1. m + i \in 1..q /\ n + p + (m + i) = n + (p + m) + i
      BY <1>1, <1>2
    <3>2. l[m + i] = Piece(n + p + (m + i))
      BY <2>1, <3>1
    <3> QED BY <1>4, <3>1, <3>2, Zenon
  <2>4. n + Len(more) + Len(rest) <= 4
    <3>1. n + (p + m) + (q - m) <= 4
      BY <1>1, <1>2, <2>1
    <3> QED BY <1>4, <1>5, <3>1, Zenon
  <2> QED BY <1>4, <1>5, <2>2, <2>3, <2>4, Zenon DEF Reads
<1>8. ASSUME NoStatus(l) PROVE NoStatus(new)
  BY <1>1, <1>2, <1>3, <1>8 DEF NoStatus
<1> QED BY <1>3, <1>6, <1>7, <1>8 DEF new, rest, more

\* The first piece is taken.
LEMMA ReadTake ==
    ASSUME NEW b \in Seq(Pieces), b # <<>>
    PROVE  /\ Tail(b) \in Seq(Pieces) /\ Tail(b) = SubSeq(b, 2, Len(b))
           /\ NoStatus(b) => NoStatus(Tail(b))
           /\ \A l \in Seq(Pieces), n \in 0..3 : Reads(n, b, l) =>
                 /\ Head(b) = Piece(n + 1) /\ b[1] = Head(b)
                 /\ Reads(n + 1, Tail(b), l)
<1>1. PICK p \in Nat : p = Len(b) /\ p > 0
  BY EmptySeq, LenProperties
<1>2. /\ Head(b) = b[1] /\ Tail(b) \in Seq(Pieces) /\ Len(Tail(b)) = p - 1
      /\ \A i \in 1..(p - 1) : Tail(b)[i] = b[i + 1]
  BY <1>1, HeadTailProperties
<1>3. Tail(b) = SubSeq(b, 2, Len(b))
  BY <1>1
<1>4. NoStatus(b) => NoStatus(Tail(b))
  <2>1. \A i \in 1..(p - 1) : i + 1 \in 1..p
    BY <1>1
  <2> QED BY <1>1, <1>2, <2>1 DEF NoStatus
<1>5. ASSUME NEW l \in Seq(Pieces), NEW n \in 0..3, Reads(n, b, l)
      PROVE  Head(b) = Piece(n + 1) /\ Reads(n + 1, Tail(b), l)
  <2>1. PICK q \in Nat : q = Len(l)
    BY LenProperties
  <2>2. /\ n + p + q <= 4
        /\ \A i \in 1..p : b[i] = Piece(n + i)
        /\ \A i \in 1..q : l[i] = Piece(n + p + i)
    BY <1>1, <1>5, <2>1 DEF Reads
  <2>3. ASSUME NEW i \in 1..(p - 1) PROVE Tail(b)[i] = Piece((n + 1) + i)
    <3>1. i + 1 \in 1..p /\ n + (i + 1) = (n + 1) + i
      BY <1>1
    <3>2. b[i + 1] = Piece(n + (i + 1))
      BY <2>2, <3>1
    <3> QED BY <1>2, <3>1, <3>2, Zenon
  <2>4. ASSUME NEW i \in 1..q PROVE l[i] = Piece((n + 1) + (p - 1) + i)
    <3>1. (n + 1) + (p - 1) + i = n + p + i
      BY <1>1, <2>1
    <3> QED BY <2>2, <3>1, Zenon
  <2>5. (n + 1) + Len(Tail(b)) + Len(l) <= 4
    BY <1>1, <1>2, <2>1, <2>2
  <2>6. Reads(n + 1, Tail(b), l)
    BY <1>2, <2>1, <2>3, <2>4, <2>5, Zenon DEF Reads
  <2>7. 1 \in 1..p
    BY <1>1
  <2> QED BY <1>2, <2>2, <2>6, <2>7
<1> QED BY <1>2, <1>3, <1>4, <1>5

\* The same for the status line and for the blank line.
LEMMA ReadStatus ==
    ASSUME NEW b \in Seq(Pieces), b # <<>>, NEW l \in Seq(Pieces),
           Reads(0, b, l)
    PROVE  Head(b) = "200" /\ Reads(1, Tail(b), l)
<1>1. 0 \in 0..3 /\ Head(b) = Piece(0 + 1) /\ Reads(0 + 1, Tail(b), l)
  BY ReadTake
<1> QED BY <1>1 DEF Piece

LEMMA ReadBlank ==
    ASSUME NEW b \in Seq(Pieces), b # <<>>, NEW l \in Seq(Pieces),
           Reads(1, b, l)
    PROVE  /\ b[1] = "headers" /\ 1 \in DOMAIN b /\ Reads(2, Tail(b), l)
           /\ Len(b) \in Nat /\ Len(b) > 0
<1>1. /\ 1 \in 0..3 /\ Head(b) = Piece(1 + 1) /\ b[1] = Head(b)
      /\ Reads(1 + 1, Tail(b), l)
  BY ReadTake
<1>2. 1 \in DOMAIN b /\ Len(b) \in Nat /\ Len(b) > 0
  BY EmptySeq, LenProperties
<1> QED BY <1>1, <1>2 DEF Piece

\* Behind the status line there is none.
LEMMA ReadOn ==
    ASSUME NEW b \in Seq(Pieces), NEW l \in Seq(Pieces), NEW n \in 1..4,
           Reads(n, b, l)
    PROVE  NoStatus(b) /\ NoStatus(l)
<1>1. PICK p \in Nat, q \in Nat : p = Len(b) /\ q = Len(l)
  BY LenProperties
<1>2. \A i \in Nat : i > 0 => Piece(n + i) # "200" /\ Piece(n + p + i) # "200"
  BY <1>1 DEF Piece
<1>3. NoStatus(b)
  <2> SUFFICES ASSUME NEW i \in 1..Len(b) PROVE b[i] # "200"
    BY DEF NoStatus
  <2>1. b[i] = Piece(n + i) /\ i \in Nat /\ i > 0
    BY <1>1 DEF Reads
  <2> QED BY <1>2, <2>1
<1>4. NoStatus(l)
  <2> SUFFICES ASSUME NEW i \in 1..Len(l) PROVE l[i] # "200"
    BY DEF NoStatus
  <2>1. l[i] = Piece(n + p + i) /\ i \in Nat /\ i > 0
    BY <1>1 DEF Reads
  <2> QED BY <1>2, <2>1
<1> QED BY <1>3, <1>4

\* Small numbers.
LEMMA UpTo2 == ASSUME NEW i \in 1..2 PROVE i = 1 \/ i = 2
  OBVIOUS
LEMMA UpTo3 == ASSUME NEW i \in 1..3 PROVE i = 1 \/ i = 2 \/ i = 3
  OBVIOUS

\* The response that servers are asked for.
LEMMA FullPieces ==
    /\ Len(Full) = 4 /\ \A i \in 1..4 : Full[i] = Piece(i)
    /\ Len(Body) = 2 /\ \A i \in 1..2 : Body[i] = Piece(2 + i)
    /\ Full \in Seq(Pieces) /\ Body \in Seq(Pieces)
<1> DEFINE front == <<"200", "headers">>
<1>1. /\ front \in Seq(Pieces) /\ Len(front) = 2
      /\ front[1] = "200" /\ front[2] = "headers"
  BY DEF Pieces
<1>2. /\ Body \in Seq(Pieces) /\ Len(Body) = 2
      /\ Body[1] = "body 1" /\ Body[2] = "body 2"
  BY DEF Pieces, Body
<1>3. Full = front \o Body
  BY DEF Full
<1> HIDE DEF front
<1>4. ASSUME NEW i \in 1..2 PROVE front[i] = Piece(i) /\ Body[i] = Piece(2 + i)
  <2>1. /\ Piece(1) = "200" /\ Piece(2) = "headers"
        /\ Piece(3) = "body 1" /\ Piece(4) = "body 2" /\ 2 + 1 = 3 /\ 2 + 2 = 4
    BY DEF Piece
  <2>2. CASE i = 1
    BY <1>1, <1>2, <2>1, <2>2, Zenon
  <2>3. CASE i = 2
    BY <1>1, <1>2, <2>1, <2>3, Zenon
  <2> QED BY UpTo2, <2>2, <2>3
<1>5. /\ Full \in Seq(Pieces) /\ Len(Full) = Len(front) + Len(Body)
      /\ \A i \in 1..(Len(front) + Len(Body)) :
            Full[i] = IF i <= Len(front) THEN front[i] ELSE Body[i - Len(front)]
  BY <1>1, <1>2, <1>3, ConcatProperties, Zenon
<1>6. PICK n \in Nat : n = 2 /\ Len(front) = n /\ Len(Body) = n
  BY <1>1, <1>2
<1>7. \A i \in 1..n : front[i] = Piece(i) /\ Body[i] = Piece(n + i)
  BY <1>4, <1>6
<1>8. \A i \in 1..(n + n) : Full[i] = IF i <= n THEN front[i] ELSE Body[i - n]
  BY <1>5, <1>6, Zenon
<1>9. ASSUME NEW i \in 1..(n + n) PROVE Full[i] = Piece(i)
  <2>1. CASE i <= n
    BY <1>7, <1>8, <2>1
  <2>2. CASE ~(i <= n)
    <3>1. i - n \in 1..n /\ n + (i - n) = i
      BY <2>2
    <3>2. Body[i - n] = Piece(n + (i - n))
      BY <1>7, <3>1
    <3> QED BY <1>8, <2>2, <3>1, <3>2
  <2> QED BY <2>1, <2>2
<1>10. n + n = 4
  BY <1>6
<1> QED BY <1>2, <1>4, <1>5, <1>6, <1>9, <1>10, Zenon

LEMMA ServerAnswers ==
    ASSUME NEW l \in Responses
    PROVE  l \in Seq(Pieces) /\ Answers(l)
<1>1. ASSUME NEW n \in 0..Len(Full), l = SubSeq(Full, 1, n)
      PROVE  l \in Seq(Pieces) /\ Answers(l)
  <2>1. n \in 0..4 /\ l \in Seq(Pieces)
    BY <1>1, FullPieces, SuffixType
  <2>2. Len(l) = n /\ \A i \in 1..n : l[i] = Full[i]
    BY <1>1, <2>1, FullPieces, SubSeqProperties
  <2>3. \A i \in 1..n : i \in 1..4 /\ 0 + 0 + i = i
    BY <2>1
  <2>4. \A i \in 1..n : l[i] = Piece(0 + 0 + i)
    BY <2>2, <2>3, FullPieces
  <2>5. Len(<<>>) = 0 /\ 0 + 0 + n <= 4 /\ \A i \in 1..0 : FALSE
    BY <2>1
  <2>6. Reads(0, <<>>, l)
    BY <2>2, <2>4, <2>5, Zenon DEF Reads
  <2> QED BY <2>1, <2>6 DEF Answers
<1>2. CASE l = <<"404", "headers", "body 1">>
  <2>1. <<"404", "headers", "body 1">> \in Seq(Pieces)
    BY DEF Pieces
  <2>2. l \in Seq(Pieces)
    BY <1>2, <2>1, Zenon
  <2>3. Len(l) = 3 /\ l[1] = "404" /\ l[2] = "headers" /\ l[3] = "body 1"
    BY <1>2
  <2>4. ASSUME NEW i \in 1..3 PROVE l[i] # "200"
    <3>1. l[i] \in {"404", "headers", "body 1"}
      BY <2>3, UpTo3, Zenon
    <3> QED BY <3>1
  <2>5. NoStatus(l)
    BY <2>3, <2>4, Zenon DEF NoStatus
  <2> QED BY <2>2, <2>5 DEF Answers
<1>3. CASE l = <<"garbage">>
  BY <1>3 DEF Answers, NoStatus, Pieces
<1> QED BY <1>1, <1>2, <1>3 DEF Responses

(***************************************************************************)
(* What is read, step by step                                              *)
(***************************************************************************)
\* An operation that starts succeeds at once only if its delimiter is there.
LEMMA Starts ==
    ASSUME NEW kind \in SocketKinds, NEW buf, NEW outcome \in AtOnce(kind, buf)
    PROVE  /\ outcome \in {"pending", "ok", "fail"}
           /\ outcome = "ok" => kind \in {"status", "headers"} /\ buf # <<>>
           /\ kind = "status" /\ buf # <<>> => outcome = "ok"
           /\ kind = "headers" /\ (\E i \in DOMAIN buf : buf[i] = "headers")
                => outcome = "ok"
<1>1. /\ Delimited(kind, buf) => kind \in {"status", "headers"} /\ buf # <<>>
      /\ kind = "status" /\ buf # <<>> => Delimited(kind, buf)
      /\ kind = "headers" /\ (\E i \in DOMAIN buf : buf[i] = "headers")
           => Delimited(kind, buf)
  <2>1. DOMAIN <<>> = {}
    OBVIOUS
  <2> QED BY <2>1 DEF Delimited
<1>2. CASE kind = "connect"
  <2>1. outcome \in CASE socket = "closed" -> {"pending"}
                     [] socket = "failed" -> {"pending", "fail"}
                     [] OTHER             -> {"fail"}
    BY <1>1, <1>2 DEF AtOnce
  <2>2. outcome \in {"pending", "fail"}
    BY <2>1
  <2> QED BY <1>2, <2>2
<1>3. CASE kind # "connect" /\ Delimited(kind, buf)
  BY <1>1, <1>3 DEF AtOnce
<1>4. CASE kind # "connect" /\ ~Delimited(kind, buf)
  BY <1>1, <1>4 DEF AtOnce
<1> QED BY <1>2, <1>3, <1>4

LEMMA ReadTypes ==
    ASSUME TypeOK
    PROVE  /\ response \in Seq(Pieces) /\ left \in Seq(Pieces)
           /\ printed \in [Chains -> Seq(Pieces)]
           /\ op \in [Chains -> Kinds] /\ result \in [Chains -> Results]
  BY DEF TypeOK, Kinds, Results

LEMMA EmptyConcat ==
    ASSUME NEW b \in Seq(Pieces)
    PROVE  <<>> \o b = b /\ b \o <<>> = b
  BY ConcatEmptySeq

\* Of a script that waits, the step of a chain need only keep what is said of
\* this chain.
LEMMA ReadOne ==
    ASSUME TypeOK, StageInv, SentInv, ReadInv, ~overlapped,
           NEW c \in Chains, op[c] \in SocketKinds \cup {"resolve"},
           overlapped' = overlapped,
           \A d \in Chains : d # c => op'[d] = op[d] /\ printed'[d] = printed[d],
           ChainReads(c)', op'[c] \notin ReadKinds => NoStatus(response')
    PROVE  ReadInv'
<1>1. ASSUME NEW d \in Chains, d # c PROVE ChainReads(d)'
  <2>1. op[d] \in {"idle", "end"}
    BY <1>1, LastChain
  <2>2. op'[d] = op[d] /\ printed'[d] = printed[d] /\ ChainReads(d)
    BY <1>1 DEF ReadInv
  <2> QED BY <2>1, <2>2 DEF ChainReads
<1>2. \A d \in Chains : ChainReads(d)'
  BY <1>1
<1> QED BY <1>2 DEF ReadInv

\* What is known of the chain that a step is of.
LEMMA ReadKnown ==
    ASSUME TypeOK, StageInv, SentInv, ReadInv, ~overlapped,
           NEW c \in Chains, op[c] \in SocketKinds \cup {"resolve"}
    PROVE  /\ ChainReads(c)
           /\ op[c] \notin ReadKinds => NoStatus(response)
<1>1. \A d \in Chains : d # c => op[d] \notin ReadKinds
  BY LastChain DEF ReadKinds
<1> QED BY <1>1 DEF ReadInv

\* A handler.
LEMMA ReadHandler ==
    ASSUME TypeOK, StageInv, SentInv, ReadInv, ~overlapped,
           NEW c \in Chains, Io(c)
    PROVE  /\ ChainReads(c)'
           /\ op'[c] \notin ReadKinds => NoStatus(response')
<1>1. op[c] \in SocketKinds \cup {"resolve"}
  BY HandlerCases DEF Handling
<1>2. ChainReads(c) /\ (op[c] \notin ReadKinds => NoStatus(response))
  BY <1>1, ReadKnown
<1>3. NoStatus(<<>>)
  BY NoneRead
<1>4. CASE HandleError(c)
  <2>1. /\ op'[c] = "end" /\ response' = response
        /\ op[c] \in ReadKinds => result[c] # "ok"
    BY <1>4, ReadTypes DEF HandleError, EndChain, Handling, bufVars, ReadKinds
  <2>2. NoStatus(response)
    BY <1>2, <1>3, <2>1 DEF ChainReads, ReadKinds
  <2> QED BY <2>1, <2>2 DEF ChainReads
<1>5. CASE HandleResolve(c)
  <2>1. /\ op[c] = "resolve" /\ UNCHANGED <<response, printed>>
        /\ \E outcome \in AtOnce("connect", response) :
             Begin(c, "connect", outcome)
    BY <1>5 DEF HandleResolve, Handling, bufVars
  <2>2. op'[c] = "connect" /\ result'[c] # "ok"
    BY <2>1, Starts, ReadTypes DEF Begin, SocketKinds
  <2> QED BY <1>2, <2>1, <2>2 DEF ChainReads, ReadKinds
<1>6. CASE HandleConnect(c)
  <2>1. /\ op[c] = "connect" /\ result[c] = "ok"
        /\ UNCHANGED <<response, left, printed>>
        /\ \E outcome \in AtOnce("write", response) : Begin(c, "write", outcome)
    BY <1>6 DEF HandleConnect, Handling, bufVars, histVars
  <2>2. op'[c] = "write" /\ result'[c] # "ok"
    BY <2>1, Starts, ReadTypes DEF Begin, SocketKinds
  <2> QED BY <1>2, <2>1, <2>2 DEF ChainReads, ReadKinds
<1>7. CASE HandleConnectNext(c)
  <2>1. /\ op[c] = "connect" /\ UNCHANGED <<response, printed, op>>
        /\ result'[c] = "pending"
    BY <1>7 DEF HandleConnectNext, Handling, bufVars, histVars
  <2> QED BY <1>2, <2>1 DEF ChainReads, ReadKinds
<1>8. CASE HandleWriteRequest(c)
  <2>1. /\ op[c] = "write" /\ result[c] = "ok"
        /\ UNCHANGED <<response, left, printed>>
        /\ \E outcome \in AtOnce("status", response) :
             Begin(c, "status", outcome)
    BY <1>8 DEF HandleWriteRequest, Handling, bufVars, connVars, histVars
  <2>2. op'[c] = "status" /\ (response # <<>> => result'[c] = "ok")
    BY <2>1, Starts, ReadTypes DEF Begin, SocketKinds, ReadKinds
  <2>3. NoStatus(response) /\ Answers(left) /\ printed[c] = <<>>
    BY <1>2, <2>1 DEF ChainReads, ReadKinds
  <2> QED BY <2>1, <2>2, <2>3 DEF ChainReads, ReadKinds
<1>9. CASE HandleReadStatusLine(c)
  <2>1. /\ op[c] = "status" /\ result[c] = "ok" /\ UNCHANGED <<left, printed>>
        /\ response' = response \/ (response # <<>> /\ response' = Tail(response))
        /\ response # <<>> /\ Head(response) = "200"
             => response' = Tail(response)
        /\ IF response # <<>> /\ Head(response) = "200"
           THEN \E outcome \in AtOnce("headers", response') :
                  Begin(c, "headers", outcome)
           ELSE EndChain(c)
    BY <1>9
       DEF HandleReadStatusLine, StatusLines, Handling, connVars, histVars
  <2>2. /\ Reads(0, response, left) \/ NoStatus(response)
        /\ printed[c] = <<>> /\ response \in Seq(Pieces) /\ left \in Seq(Pieces)
    BY <1>2, <2>1, ReadTypes DEF ChainReads
  <2>3. CASE response # <<>> /\ Head(response) = "200"
    <3>1. response' = Tail(response) /\ response' \in Seq(Pieces)
      BY <2>1, <2>2, <2>3, ReadTake
    <3>2. ~NoStatus(response)
      <4>1. 1 \in 1..Len(response) /\ response[1] = Head(response)
        BY <2>2, <2>3, EmptySeq, LenProperties
      <4> QED BY <2>3, <4>1 DEF NoStatus
    <3>3. Reads(1, response', left)
      BY <2>2, <2>3, <3>1, <3>2, ReadStatus
    <3>4. response' # <<>> => \E i \in DOMAIN response' : response'[i] = "headers"
      BY <2>2, <3>1, <3>3, ReadBlank
    <3>5. PICK outcome \in AtOnce("headers", response') :
              Begin(c, "headers", outcome)
      BY <2>1, <2>3
    <3>6. outcome = "ok" <=> response' # <<>>
      BY <3>4, Starts DEF SocketKinds, ReadKinds
    <3>7. op'[c] = "headers" /\ result'[c] = outcome
      BY <3>5, ReadTypes DEF Begin
    <3> QED BY <2>1, <2>2, <3>3, <3>6, <3>7 DEF ChainReads, ReadKinds
  <2>4. CASE ~(response # <<>> /\ Head(response) = "200")
    <3>1. NoStatus(response')
      <4>1. CASE response = <<>>
        BY <1>3, <2>1, <4>1
      <4>2. CASE response # <<>>
        <5>1. NoStatus(response)
          BY <2>2, <2>4, <4>2, ReadStatus
        <5> QED BY <2>1, <2>2, <4>2, <5>1, ReadTake
      <4> QED BY <4>1, <4>2
    <3>2. op'[c] = "end"
      BY <2>1, <2>4, ReadTypes DEF EndChain
    <3> QED BY <3>1, <3>2 DEF ChainReads
  <2> QED BY <2>3, <2>4
<1>10. CASE HandleReadHeaders(c)
  <2>1. /\ op[c] = "headers" /\ result[c] = "ok" /\ response' = <<>>
        /\ left' = left
        /\ \E n \in 0..Len(response) :
             /\ \A i \in 1..(n - 1) : response[i] # "headers"
             /\ n = Len(response) \/ (n > 0 /\ response[n] = "headers")
             /\ printed' = [printed EXCEPT ![c] =
                              @ \o SubSeq(response, n + 1, Len(response))]
        /\ \E outcome \in AtOnce("content", <<>>) : Begin(c, "content", outcome)
    BY <1>10 DEF HandleReadHeaders, Handling, connVars
  <2>2. /\ response # <<>> /\ Reads(1, response, left) /\ printed[c] = <<>>
        /\ response \in Seq(Pieces) /\ left \in Seq(Pieces)
    BY <1>2, <2>1, ReadTypes DEF ChainReads
  <2>3. /\ response[1] = "headers" /\ Len(response) \in Nat /\ Len(response) > 0
        /\ Reads(2, Tail(response), left) /\ Tail(response) \in Seq(Pieces)
        /\ Tail(response) = SubSeq(response, 2, Len(response))
    <3>1. /\ Tail(response) \in Seq(Pieces)
          /\ Tail(response) = SubSeq(response, 2, Len(response))
      BY <2>2, ReadTake
    <3> QED BY <2>2, <3>1, ReadBlank
  <2>4. PICK n \in 0..Len(response) :
            /\ \A i \in 1..(n - 1) : response[i] # "headers"
            /\ n = Len(response) \/ (n > 0 /\ response[n] = "headers")
            /\ printed' = [printed EXCEPT ![c] =
                             @ \o SubSeq(response, n + 1, Len(response))]
    BY <2>1
  <2>5. n = 1
    <3>1. ~(1 \in 1..(n - 1))
      BY <2>3, <2>4
    <3> QED BY <2>3, <2>4, <3>1
  <2>6. printed'[c] = Tail(response)
    <3>1. printed'[c] = printed[c] \o SubSeq(response, 2, Len(response))
      BY <2>4, <2>5, ReadTypes
    <3> QED BY <2>2, <2>3, <3>1, EmptyConcat
  <2>7. printed'[c] \o response' = Tail(response)
    BY <2>1, <2>3, <2>6, EmptyConcat
  <2>8. op'[c] = "content" /\ result'[c] # "ok"
    BY <2>1, Starts, ReadTypes DEF Begin, SocketKinds, ReadKinds
  <2> QED BY <2>1, <2>3, <2>7, <2>8 DEF ChainReads, ReadKinds
<1>11. CASE HandleReadContent(c)
  <2>1. /\ op[c] = "content" /\ result[c] = "ok" /\ response' = <<>>
        /\ left' = left
        /\ printed' = [printed EXCEPT ![c] = @ \o response]
        /\ \E outcome \in AtOnce("content", <<>>) : Begin(c, "content", outcome)
    BY <1>11 DEF HandleReadContent, Handling, connVars
  <2>2. Reads(2, printed[c] \o response, left)
    BY <1>2, <2>1 DEF ChainReads
  <2>3. printed[c] \o response \in Seq(Pieces)
    BY ReadTypes, ConcatProperties
  <2>4. printed'[c] = printed[c] \o response
    BY <2>1, ReadTypes
  <2>5. printed'[c] \o response' = printed[c] \o response
    BY <2>1, <2>3, <2>4, EmptyConcat
  <2>6. op'[c] = "content" /\ result'[c] # "ok"
    BY <2>1, Starts, ReadTypes DEF Begin, SocketKinds, ReadKinds
  <2> QED BY <2>1, <2>2, <2>5, <2>6 DEF ChainReads, ReadKinds
<1> QED BY <1>4, <1>5, <1>6, <1>7, <1>8, <1>9, <1>10, <1>11 DEF Io

\* The network.
LEMMA ReadNetwork ==
    ASSUME TypeOK, StageInv, SentInv, ReadInv, ~overlapped,
           NEW c \in Chains, Network(c)
    PROVE  /\ ChainReads(c)'
           /\ op'[c] \notin ReadKinds => NoStatus(response')
<1>1. /\ op[c] \in SocketKinds \cup {"resolve"} /\ result[c] = "pending"
      /\ UNCHANGED <<op, printed>>
  BY NetworkCases
<1>2. ChainReads(c) /\ (op[c] \notin ReadKinds => NoStatus(response))
  BY <1>1, ReadKnown
<1>3. /\ response \in Seq(Pieces) /\ left \in Seq(Pieces)
      /\ printed[c] \in Seq(Pieces) /\ result \in [Chains -> Results]
  BY ReadTypes
<1>4. NoStatus(<<>>) /\ Answers(<<>>)
  BY NoneRead
<1>5. CASE Resolved(c)
  <2>1. op[c] = "resolve" /\ response' = response
    BY <1>5 DEF Resolved, Pending, bufVars
  <2> QED BY <1>1, <1>2, <2>1 DEF ChainReads, ReadKinds
<1>6. CASE Connected(c)
  <2>1. op[c] = "connect" /\ response' = response /\ left' = <<>>
    BY <1>6 DEF Connected, Pending, bufVars
  <2> QED BY <1>1, <1>2, <2>1 DEF ChainReads, ReadKinds
<1>7. CASE Written(c)
  <2>1. /\ op[c] = "write" /\ response' = response /\ result'[c] = "ok"
        /\ left' \in Responses \/ left' = left
    BY <1>3, <1>7 DEF Written, Pending, Complete
  <2>2. Answers(left')
    BY <1>1, <1>2, <1>4, <2>1, ServerAnswers DEF ChainReads
  <2> QED BY <1>1, <1>2, <2>1, <2>2 DEF ChainReads, ReadKinds
<1>8. CASE Arrive(c)
  <2>1. PICK n \in 1..Len(left) :
            /\ response' = response \o SubSeq(left, 1, n)
            /\ left' = SubSeq(left, n + 1, Len(left))
    BY <1>8 DEF Arrive
  <2> DEFINE new == SubSeq(left, 1, n)
  <2>2. /\ op[c] \in ReadKinds
        /\ op[c] = "content" \/ Delimited(op[c], response') => result'[c] = "ok"
    BY <1>3, <1>8 DEF Arrive, Reading, Complete
  <2>3. response = <<>>
    BY <1>1, <1>2, <2>2 DEF ChainReads, ReadKinds
  <2>4. new \in Seq(Pieces) /\ new # <<>>
    <3>1. <<>> \in Seq(Pieces) /\ 0 \in 0..4
      OBVIOUS
    <3> QED BY <1>3, <2>1, <3>1, ReadMove
  <2>5. response' = new
    BY <2>1, <2>3, <2>4, EmptyConcat
  <2>6. NoStatus(left) => NoStatus(new)
    <3>1. <<>> \in Seq(Pieces) /\ 0 \in 0..4
      OBVIOUS
    <3> QED BY <1>3, <2>1, <3>1, ReadMove
  <2>7. ASSUME NEW b \in Seq(Pieces), NEW k \in 0..4, Reads(k, b, left)
        PROVE  Reads(k, b \o new, left')
    BY <1>3, <2>1, <2>7, ReadMove
  <2> HIDE DEF new
  <2>8. <<>> \in Seq(Pieces) /\ 0 \in 0..4 /\ 1 \in 0..4 /\ 2 \in 0..4
    OBVIOUS
  <2>9. <<>> \o new = new /\ printed[c] \o <<>> = printed[c]
    BY <1>3, <2>4, EmptyConcat
  <2>10. CASE op[c] = "status"
    <3>1. result'[c] = "ok"
      BY <2>2, <2>4, <2>5, <2>10 DEF Delimited
    <3>2. Reads(0, <<>>, left) \/ NoStatus(left)
      BY <1>1, <1>2, <2>10 DEF ChainReads, Answers
    <3>3. Reads(0, <<>>, left) => Reads(0, <<>> \o new, left')
      BY <2>7, <2>8
    <3>4. Reads(0, response', left') \/ NoStatus(response')
      BY <2>5, <2>6, <2>9, <3>2, <3>3
    <3> QED BY <1>1, <1>2, <2>10, <3>1, <3>4 DEF ChainReads, ReadKinds
  <2>11. CASE op[c] = "headers"
    <3>1. Reads(1, <<>>, left)
      BY <1>1, <1>2, <2>3, <2>11 DEF ChainReads
    <3>2. Reads(1, <<>> \o new, left')
      BY <2>7, <2>8, <3>1
    <3>3. Reads(1, response', left')
      BY <2>5, <2>9, <3>2
    <3>4. \E i \in DOMAIN response' : response'[i] = "headers"
      <4>1. left' \in Seq(Pieces)
        BY <1>3, <2>1, SuffixType, LenProperties
      <4> QED BY <2>4, <2>5, <3>3, <4>1, ReadBlank
    <3>5. result'[c] = "ok"
      BY <2>2, <2>11, <3>4 DEF Delimited
    <3> QED BY <1>1, <1>2, <2>4, <2>5, <2>11, <3>3, <3>5
            DEF ChainReads, ReadKinds
  <2>12. CASE op[c] = "content"
    <3>1. Reads(2, printed[c], left)
      BY <1>1, <1>2, <2>3, <2>9, <2>12 DEF ChainReads
    <3>2. Reads(2, printed[c] \o new, left')
      BY <1>3, <2>7, <2>8, <3>1
    <3> QED BY <1>1, <2>2, <2>5, <2>12, <3>2 DEF ChainReads, ReadKinds
  <2> QED BY <2>2, <2>10, <2>11, <2>12 DEF ReadKinds
<1>9. CASE Eof(c)
  <2>1. /\ op[c] \in ReadKinds /\ result'[c] = "eof"
        /\ UNCHANGED <<response, left>>
    BY <1>3, <1>9 DEF Eof, Reading, Complete, bufVars, connVars
  <2> QED BY <1>1, <1>2, <1>4, <2>1 DEF ChainReads, ReadKinds
<1>10. CASE Fail(c)
  <2>1. response' = response /\ result'[c] = "fail"
    BY <1>3, <1>10 DEF Fail, Complete, bufVars
  <2> QED BY <1>1, <1>2, <1>4, <2>1 DEF ChainReads
<1> QED BY <1>5, <1>6, <1>7, <1>8, <1>9, <1>10 DEF Network

\* Every step keeps ReadInv.
LEMMA ReadStep == ASSUME TypeOK, StageInv, SentInv, ReadInv, Next PROVE ReadInv'
<1> SUFFICES ASSUME ~overlapped' PROVE ReadInv'
  BY DEF ReadInv
<1>1. ASSUME NEW c \in Chains, Io(c) PROVE ReadInv'
  <2>1. /\ op[c] \in SocketKinds \cup {"resolve"} /\ UNCHANGED overlapped
    BY <1>1, HandlerCases DEF Handling
  <2>2. /\ op' = op \/ \E kind : op' = [op EXCEPT ![c] = kind]
        /\ printed' = printed \/ \E text : printed' = [printed EXCEPT ![c] = text]
    <3>1. op' = op \/ \E kind : op' = [op EXCEPT ![c] = kind]
      BY <1>1, HandlerCases DEF Begins, Begin, EndChain, Retries
    <3>2. CASE HandleReadHeaders(c)
      BY <3>1, <3>2 DEF HandleReadHeaders
    <3>3. CASE HandleReadContent(c)
      BY <3>1, <3>3 DEF HandleReadContent
    <3>4. CASE ~HandleReadHeaders(c) /\ ~HandleReadContent(c)
      BY <1>1, <3>1, <3>4 DEF Io, HandleError, HandleResolve, HandleConnect,
         HandleConnectNext, HandleWriteRequest, HandleReadStatusLine, histVars
    <3> QED BY <3>2, <3>3, <3>4
  <2>3. \A d \in Chains : d # c => op'[d] = op[d] /\ printed'[d] = printed[d]
    BY <2>2, ReadTypes
  <2> QED BY <1>1, <2>1, <2>3, ReadHandler, ReadOne
<1>2. ASSUME NEW c \in Chains, Network(c) PROVE ReadInv'
  BY <1>2, NetworkCases, ReadNetwork, ReadOne
<1>3. CASE Open
  <2>1. PICK n \in Nat : n = opens /\ n < MaxOpens /\ n + 1 \in Chains
    BY <1>3, BoundsAssumption DEF Open, TypeOK, Chains
  <2>2. /\ ~overlapped /\ \A c \in 1..n : op[c] = "end"
        /\ op' = [op EXCEPT ![n + 1] = "resolve"]
        /\ UNCHANGED <<response, printed>>
    BY <1>3, <2>1 DEF Open, connVars
  <2>3. \A c \in Chains : c \in 1..n \/ c > opens
    BY <2>1 DEF Chains
  <2>4. \A c \in Chains : op[c] \in {"idle", "end"}
    BY <2>2, <2>3 DEF StageInv
  <2>5. /\ op'[n + 1] = "resolve"
        /\ \A c \in Chains : c # n + 1 => op'[c] = op[c]
    BY <2>1, <2>2, ReadTypes
  <2>6. op[n + 1] = "idle"
    <3>1. n + 1 > opens
      BY <2>1
    <3> QED BY <2>1, <3>1 DEF StageInv
  <2>7. \A c \in Chains : ChainReads(c)'
    BY <2>2, <2>4, <2>5, <2>6 DEF ReadInv, ChainReads
  <2>8. NoStatus(response')
    BY <2>2, <2>4 DEF ReadInv, ReadKinds
  <2> QED BY <2>7, <2>8 DEF ReadInv
<1> QED BY <1>1, <1>2, <1>3 DEF Next, IoThread

\* What has been read of a body, and is still to come, is a prefix of it.
LEMMA ReadBody ==
    ASSUME NEW b \in Seq(Pieces), NEW l \in Seq(Pieces), Reads(2, b, l)
    PROVE  IsPrefix(b \o l, Body)
<1>1. PICK p \in Nat, q \in Nat : p = Len(b) /\ q = Len(l)
  BY LenProperties
<1>2. /\ 2 + p + q <= 4
      /\ \A i \in 1..p : b[i] = Piece(2 + i)
      /\ \A i \in 1..q : l[i] = Piece(2 + p + i)
  BY <1>1 DEF Reads
<1>3. /\ b \o l \in Seq(Pieces) /\ Len(b \o l) = p + q
      /\ \A i \in 1..(p + q) : (b \o l)[i] = IF i <= p THEN b[i] ELSE l[i - p]
  BY <1>1, ConcatProperties
<1>4. ASSUME NEW i \in 1..(p + q) PROVE (b \o l)[i] = Body[i]
  <2>1. i \in 1..2
    BY <1>1, <1>2
  <2>2. Body[i] = Piece(2 + i)
    BY <2>1, FullPieces
  <2>3. CASE i <= p
    BY <1>2, <1>3, <2>2, <2>3
  <2>4. CASE ~(i <= p)
    <3>1. i - p \in 1..q /\ 2 + p + (i - p) = 2 + i
      BY <1>1, <2>4
    <3>2. l[i - p] = Piece(2 + p + (i - p))
      BY <1>2, <3>1
    <3> QED BY <1>3, <2>2, <2>4, <3>1, <3>2
  <2> QED BY <2>3, <2>4
<1>5. /\ Body \in Seq(Pieces) /\ Len(Body) = 2
      /\ p + q <= 2 /\ p + q \in 0..2
  <2>1. Body \in Seq(Pieces) /\ Len(Body) = 2
    BY FullPieces
  <2> QED BY <1>1, <1>2, <2>1
<1>6. SubSeq(b \o l, 1, p + q) = SubSeq(Body, 1, p + q)
  <2> DEFINE x == SubSeq(b \o l, 1, p + q)
             y == SubSeq(Body, 1, p + q)
  <2>1. /\ x \in Seq(Pieces) /\ Len(x) = p + q
        /\ \A i \in 1..(p + q) : x[i] = (b \o l)[i]
    BY <1>1, <1>3, SubSeqProperties, SuffixType
  <2>2. /\ y \in Seq(Pieces) /\ Len(y) = p + q
        /\ \A i \in 1..(p + q) : y[i] = Body[i]
    <3>1. p + q \in 0..Len(Body)
      BY <1>5
    <3>2. y \in Seq(Pieces)
      BY <1>5, <3>1, SuffixType
    <3>3. PICK k \in Nat, m \in Nat : k = p + q /\ m = Len(Body) /\ k <= m
      BY <1>1, <1>5
    <3>4. Len(y) = k /\ \A i \in 1..k : y[i] = Body[i]
      BY <1>5, <3>3, SubSeqProperties
    <3> QED BY <3>2, <3>3, <3>4
  <2> HIDE DEF x, y
  <2>3. x = y
    BY <1>4, <2>1, <2>2, SeqEqual
  <2> QED BY <2>3 DEF x, y
<1> QED BY <1>3, <1>5, <1>6 DEF IsPrefix

(***************************************************************************)
(* The theorems                                                            *)
(***************************************************************************)
IInv == TypeOK /\ StageInv /\ QueueInv /\ SentInv /\ ReadInv

LEMMA InitIInv == Init => IInv
<1> SUFFICES ASSUME Init PROVE IInv
  OBVIOUS
<1>1. /\ 0 \in 0..MaxOpens /\ 0 \in 0..MaxEndpoints
      /\ \A c \in Chains : c > 0 /\ ~(c < 0)
  BY BoundsAssumption DEF Chains
<1>2. TypeOK
  BY <1>1, TextsTyped DEF Init, TypeOK, Each
<1>3. StageInv
  BY <1>1 DEF Init, StageInv, Each
<1>4. QueueInv
  <2>1. Done(result) = {} /\ ready = <<>>
    BY DEF Init, Done, Each, Outcomes
  <2> QED BY <2>1 DEF QueueInv, Names
<1>5. SentInv
  BY <1>1 DEF Init, SentInv, Each
<1>6. ReadInv
  BY NoneRead DEF Init, ReadInv, ChainReads, Each
<1> QED BY <1>2, <1>3, <1>4, <1>5, <1>6 DEF IInv

LEMMA NextIInv == IInv /\ [Next]_vars => IInv'
<1> SUFFICES ASSUME IInv, [Next]_vars PROVE IInv'
  OBVIOUS
<1>1. CASE Next
  <2>1. TypeOK /\ StageInv /\ QueueInv /\ SentInv /\ ReadInv
    BY DEF IInv
  <2>2. TypeOK' /\ StageInv' /\ QueueInv' /\ SentInv' /\ ReadInv'
    BY <1>1, <2>1, TypeStep, StageStep, QueueStep, SentStep, ReadStep
  <2> QED BY <2>2 DEF IInv
<1>2. CASE UNCHANGED vars
  <2>1. /\ TypeOK' /\ StageInv'
    BY <1>2 DEF IInv, TypeOK, StageInv, vars, bufVars, connVars, ioVars,
       histVars
  <2>2. QueueInv' /\ SentInv'
    BY <1>2 DEF IInv, QueueInv, Done, SentInv, vars, bufVars, connVars, ioVars,
       histVars
  <2>3. ReadInv'
    BY <1>2 DEF IInv, ReadInv, ChainReads, NoStatus, vars, bufVars, connVars,
       ioVars, histVars
  <2> QED BY <2>1, <2>2, <2>3 DEF IInv
<1> QED BY <1>1, <1>2

\* The members of FlintHttpRequestAPI, its socket and its chains keep their
\* types however the open() calls overlap (FlintHttpRequestAPI.cpp).
THEOREM TypeCorrect == Spec => []TypeOK
<1>1. IInv => TypeOK
  BY DEF IInv
<1> QED BY <1>1, InitIInv, NextIInv, PTL DEF Spec

\* Whatever a socket_.close() in handleConnect cancels, every completed
\* operation has its handler queued exactly once.
THEOREM CompletionsCorrect == Spec => []CompletionsQueuedOnce
<1>1. IInv => CompletionsQueuedOnce
  <2> SUFFICES ASSUME IInv PROVE CompletionsQueuedOnce
    OBVIOUS
  <2>1. Names(ready, Done(result)) /\ DOMAIN ready = 1..Len(ready)
    BY LenProperties DEF IInv, QueueInv, TypeOK
  <2>2. \A i \in 1..Len(ready) : ready[i] \in Done(result)
    BY <2>1, ElementOfSeq DEF Names
  <2> QED BY <2>1, <2>2 DEF Names, Done, CompletionsQueuedOnce
<1> QED BY <1>1, InitIInv, NextIInv, PTL DEF Spec

\* Of a script that waits for each load, a request reaches a server at most
\* once, though open() never clears request_.
THEOREM SentCorrect == Spec => []RequestSentAtMostOnce
<1>1. IInv => RequestSentAtMostOnce
  BY DEF IInv, SentInv, RequestSentAtMostOnce
<1> QED BY <1>1, InitIInv, NextIInv, PTL DEF Spec

\* Of a script that waits, what a chain prints as content is the body of one
\* response, whole so far and in order, though response_ is never cleared and
\* the blank line may arrive in one read with the body (handleReadHeaders,
\* handleReadContent).
THEOREM ContentCorrect == Spec => []ContentIsBody
<1>1. IInv => ContentIsBody
  <2> SUFFICES ASSUME IInv, ~overlapped, NEW c \in Chains,
                      op[c] = "content", result[c] # "fail"
               PROVE  IsPrefix(printed[c] \o response \o left, Body)
    BY DEF ContentIsBody
  <2>1. Reads(2, printed[c] \o response, left)
    BY DEF IInv, ReadInv, ChainReads
  <2>2. printed[c] \o response \in Seq(Pieces) /\ left \in Seq(Pieces)
    BY ReadTypes, ConcatProperties DEF IInv
  <2> QED BY <2>1, <2>2, ReadBody
<1> QED BY <1>1, InitIInv, NextIInv, PTL DEF Spec
==============================================================================
