----------------------- MODULE XmlHttpRequestProofs -------------------------
(***************************************************************************)
(* Theorems about XMLHttpRequest objects: first about XmlHttpRequest, for  *)
(* every number of calls, every nesting of callbacks and every number of   *)
(* endpoints, then about the script that makes one load after another      *)
(* (XhrSequential, XhrHeaders) and what the object promises it             *)
(* (XhrPromise).                                                           *)
(***************************************************************************)
EXTENDS XhrHeaders, CompletionQueue

\* The completions that socket_.close() posts for a set of operations name
\* each of them exactly once.
LEMMA OrderOfSet ==
    ASSUME NEW S \in SUBSET Sends, NEW order \in SetToSeqs(S)
    PROVE  /\ order \in Seq(S)
           /\ \A i, j \in 1..Len(order) : order[i] = order[j] => i = j
           /\ \A s \in S : \E i \in 1..Len(order) : order[i] = s
<1>1. IsFiniteSet(Sends)
  BY FS_Interval, BoundsAssumption DEF Sends
<1>2. IsFiniteSet(S)
  BY <1>1, FS_Subset
<1> QED BY <1>2, OrderNames DEF Names

\* They are a sequence of requests.
LEMMA OrderType ==
    ASSUME NEW S \in SUBSET Sends, NEW order \in SetToSeqs(S)
    PROVE  order \in Seq(Sends)
  BY OrderOfSet, SeqMonotonic

\* A text holds finitely many copies of a request.
LEMMA CopiesType ==
    ASSUME NEW text \in Seq(Sends), NEW r \in Sends
    PROVE  Copies(r, text) \in Nat
<1>1. IsFiniteSet(1..Len(text))
  BY FS_Interval, LenProperties
<1>2. IsFiniteSet({i \in DOMAIN text : text[i] = r})
  BY <1>1, FS_Subset, LenProperties
<1> QED BY <1>2, FS_CardinalityType DEF Copies

\* What is left of a streambuf after its first k tokens were consumed.
LEMMA SuffixType ==
    ASSUME NEW T, NEW q \in Seq(T), NEW k \in 0..Len(q)
    PROVE  SubSeq(q, k + 1, Len(q)) \in Seq(T)
  BY SubSeqProperties, LenProperties

(***************************************************************************)
(* Type correctness                                                        *)
(***************************************************************************)
\* A socket that is closed, lost or opened anew has a well-typed connection.
LEMMA DisconnectType ==
    ASSUME ConnectionType,
           NEW status \in {"closed", "connecting", "connected", "failed"},
           Disconnect(status)
    PROVE  ConnectionType' /\ AnswerType'
  BY BoundsAssumption DEF ConnectionType, Disconnect, NoWrite, AnswerType

\* Every step keeps the types of the object's members.
LEMMA ObjectStep == ASSUME TypeOK, Next PROVE ObjectType'
<1> USE DEF TypeOK
<1>1. CASE Open
  BY <1>1 DEF ObjectType, Open, States, Absent
<1>2. CASE FinishOpen
  <2>1. Head(stack) \in Frame
    BY <1>2, HeadTailProperties DEF FinishOpen, Innermost, ScriptType
  <2> QED BY <1>2, <2>1 DEF ObjectType, FinishOpen, States, Frame
<1>3. CASE Send
  <2>1. sends + 1 \in Sends
    BY <1>3, BoundsAssumption DEF Send, Sends, ScriptType
  <2> QED BY <1>3, <2>1, AppendProperties DEF ObjectType, Send
<1>4. CASE GetResponseText
  BY <1>4 DEF ObjectType, GetResponseText
<1>5. CASE GetResponseHeader
  BY <1>5 DEF ObjectType, GetResponseHeader, Empty
<1>6. ASSUME NEW b \in BOOLEAN, SetCallback(b) PROVE ObjectType'
  BY <1>6 DEF ObjectType, SetCallback
<1>7. ASSUME NEW s \in Sends, HandleReadStatusLine(s) PROVE ObjectType'
  <2>1. responseBuf # <<>> => Head(responseBuf).req \in 0..MaxSends
    <3>1. responseBuf # <<>> => Head(responseBuf) \in Token
      BY HeadTailProperties DEF ObjectType
    <3> QED BY <3>1, BoundsAssumption DEF Token, Sends
  <2>2. responseBuf' \in Seq(Token)
    <3>1. responseBuf \in Seq(Token) /\ Len(responseBuf) \in Nat
      BY LenProperties DEF ObjectType
    <3>2. PICK k \in 0..Len(responseBuf) :
            \E taken \in IF IsStatus(responseBuf) THEN {k} ELSE 0..k :
              responseBuf' = SubSeq(responseBuf, taken + 1, Len(responseBuf))
      BY <1>7 DEF HandleReadStatusLine
    <3>3. PICK taken \in IF IsStatus(responseBuf) THEN {k} ELSE 0..k :
            responseBuf' = SubSeq(responseBuf, taken + 1, Len(responseBuf))
      BY <3>2
    <3>4. taken \in 0..Len(responseBuf)
      BY <3>1, <3>3
    <3> QED BY <3>1, <3>3, <3>4, SuffixType
  <2>3. statusCode' \in 0..MaxSends
    BY <1>7, <2>1, BoundsAssumption
       DEF ObjectType, HandleReadStatusLine, IsStatus
  <2>4. UNCHANGED <<state, callback, aborted, url, requestBuf, responseHeader>>
    BY <1>7 DEF HandleReadStatusLine
  <2> QED BY <2>2, <2>3, <2>4 DEF ObjectType
<1>8. ASSUME NEW s \in Sends, HandleReadHeaders(s) PROVE ObjectType'
  <2>1. ASSUME NEW k \in 0..Len(responseBuf), k > 0
        PROVE  responseBuf[k].req \in Sends
    <3>1. responseBuf[k] \in Token
      BY <2>1, ElementOfSeq, LenProperties DEF ObjectType
    <3> QED BY <3>1 DEF Token
  <2>2. responseBuf' \in Seq(Token)
    BY <1>8, SuffixType DEF ObjectType, HandleReadHeaders
  <2>3. responseHeader' \in {Absent, Empty} \cup Sends
    BY <1>8, <2>1 DEF ObjectType, HandleReadHeaders
  <2>4. /\ state' \in States
        /\ UNCHANGED <<callback, aborted, url, requestBuf, statusCode>>
    BY <1>8 DEF HandleReadHeaders, States
  <2> QED BY <2>2, <2>3, <2>4 DEF ObjectType
<1>9. ASSUME NEW s \in Sends, HandleReadContent(s) PROVE ObjectType'
  BY <1>9 DEF ObjectType, HandleReadContent, States
<1>10. ASSUME NEW s \in Sends, Written(s) PROVE ObjectType'
  BY <1>10 DEF ObjectType, ConnectionType, Written, States
<1>11. ASSUME NEW s \in Sends, Arrive(s) PROVE ObjectType'
  BY <1>11 DEF ObjectType, ConnectionType, AnswerType, Arrive, Token
<1>12. ASSUME UNCHANGED objVars PROVE ObjectType'
  BY <1>12 DEF ObjectType, objVars
<1>13. ASSUME NEW s \in Sends, HandleError(s) \/ HandleResolve(s) \/ HandleConnect(s)
          \/ HandleConnectNext(s) \/ HandleWriteRequest(s) \/ Resolved(s) \/ Connected(s) \/ Eof(s) \/ Fail(s)
       PROVE ObjectType'
  BY <1>12, <1>13 DEF HandleError, HandleResolve, HandleConnect, HandleConnectNext, HandleWriteRequest, Resolved, Connected, Eof, Fail
<1>14. CASE Return \/ RunIoCallback \/ Resume
  BY <1>12, <1>14 DEF Return, RunIoCallback, Resume
<1> QED BY <1>1, <1>2, <1>3, <1>4, <1>5, <1>6, <1>7, <1>8, <1>9, <1>10, <1>11, <1>13, <1>14 DEF Next, System, MainThread, IoThread, Script, Io, Network

\* Every step keeps the types of the socket and its connection, and bytes are
\* only under way from a server that answers a request.
LEMMA ConnectionStep == ASSUME TypeOK, Next PROVE ConnectionType' /\ AnswerType'
<1> USE DEF TypeOK
<1>1. CASE Open
  BY <1>1, DisconnectType DEF Open
<1>2. ASSUME NEW s \in Sends, HandleConnectNext(s) \/ Fail(s)
      PROVE  ConnectionType' /\ AnswerType'
  BY <1>2, DisconnectType DEF HandleConnectNext, Fail, ConnectionType, AnswerType, connVars
<1>3. ASSUME NEW s \in Sends, HandleResolve(s)
      PROVE  ConnectionType' /\ AnswerType'
  BY <1>3 DEF HandleResolve, ConnectionType, AnswerType
<1>4. ASSUME NEW s \in Sends, HandleConnect(s)
      PROVE  ConnectionType' /\ AnswerType'
  BY <1>4 DEF HandleConnect, ConnectionType, AnswerType, ObjectType
<1>5. ASSUME NEW s \in Sends, Connected(s)
      PROVE  ConnectionType' /\ AnswerType'
  BY <1>5, BoundsAssumption DEF Connected, ConnectionType, AnswerType, ScriptType
<1>6. ASSUME NEW s \in Sends, Written(s)
      PROVE  ConnectionType' /\ AnswerType'
  <2>1. outgoing[s] # <<>> => Head(outgoing[s]) \in Sends
    BY HeadTailProperties DEF ConnectionType
  <2>2. /\ <<"status", "headers", "body">> \in Seq(Parts)
        /\ <<"garbage">> \in Seq(Parts)
    BY DEF Parts
  <2>3. CASE answering = 0 /\ outgoing[s] # <<>>
    <3>1. /\ answering' = Head(outgoing[s])
          /\ left' \in {<<"status", "headers", "body">>, <<"garbage">>}
      BY <1>6, <2>3 DEF Written
    <3>2. answering' \in Sends /\ answering' \in 0..MaxSends
      BY <2>1, <2>3, <3>1, BoundsAssumption DEF Sends
    <3>3. left' \in Seq(Parts)
      BY <2>2, <3>1
    <3>4. UNCHANGED <<socket, host>> /\ outgoing' = [outgoing EXCEPT ![s] = <<>>]
      BY <1>6 DEF Written
    <3> QED BY <3>2, <3>3, <3>4 DEF ConnectionType, AnswerType
  <2>4. CASE ~(answering = 0 /\ outgoing[s] # <<>>)
    BY <1>6, <2>4 DEF Written, ConnectionType, AnswerType
  <2> QED BY <2>3, <2>4
<1>7. ASSUME NEW s \in Sends, Arrive(s)
      PROVE  ConnectionType' /\ AnswerType'
  <2>1. left # <<>> /\ left' \in Seq(Parts)
    BY <1>7, SuffixType DEF Arrive, ConnectionType
  <2> QED BY <1>7, <2>1 DEF Arrive, ConnectionType, AnswerType
<1>8. ASSUME NEW s \in Sends, Eof(s)
      PROVE  ConnectionType' /\ AnswerType'
  BY <1>8 DEF Eof, ConnectionType, AnswerType
<1>9. ASSUME UNCHANGED connVars PROVE ConnectionType' /\ AnswerType'
  BY <1>9 DEF ConnectionType, AnswerType, connVars
<1>10. ASSUME NEW s \in Sends,
              HandleError(s) \/ HandleWriteRequest(s) \/ Resolved(s)
                \/ HandleReadStatusLine(s) \/ HandleReadHeaders(s) \/ HandleReadContent(s)
       PROVE  ConnectionType' /\ AnswerType'
  BY <1>9, <1>10 DEF HandleError, HandleWriteRequest, Resolved,
     HandleReadStatusLine, HandleReadHeaders, HandleReadContent
<1>11. CASE FinishOpen \/ Send \/ GetResponseText \/ GetResponseHeader \/ Return \/ RunIoCallback \/ Resume
  BY <1>9, <1>11 DEF FinishOpen, Send, GetResponseText, GetResponseHeader, Return, RunIoCallback, Resume
<1>12. ASSUME NEW b \in BOOLEAN, SetCallback(b) PROVE ConnectionType' /\ AnswerType'
  BY <1>9, <1>12 DEF SetCallback
<1> QED
  BY <1>1, <1>2, <1>3, <1>4, <1>5, <1>6, <1>7, <1>8, <1>10, <1>11, <1>12
  DEF Next, System, MainThread, IoThread, Script, Io, Network

\* Every step keeps the types of the main thread's frames and of the history.
LEMMA ScriptStep == ASSUME TypeOK, Next PROVE ScriptType'
<1> USE DEF TypeOK
<1>1. CASE Open
  <2> DEFINE frame == [at |-> IF Announces("Unsent") THEN "unsent" ELSE "finish",
                       load |-> opens + 1]
  <2>1. frame \in Frame
    BY <1>1, BoundsAssumption DEF Open, ScriptType, Frame
  <2>2. stack' = <<frame>> \o stack
    BY <1>1 DEF Open, Push
  <2>3. stack' \in Seq(Frame)
    BY <2>1, <2>2, ConcatProperties DEF ScriptType
  <2> QED BY <1>1, <2>3, BoundsAssumption DEF Open, ScriptType
<1>2. CASE FinishOpen
  <2>1. stack \in Seq(Frame) /\ stack # <<>>
    BY <1>2 DEF FinishOpen, Innermost, ScriptType
  <2>2. Head(stack) \in Frame /\ Tail(stack) \in Seq(Frame)
    BY <2>1, HeadTailProperties
  <2>3. [at |-> "opened", load |-> Head(stack).load] \in Frame
    BY <2>2 DEF Frame
  <2>4. stack' \in {Tail(stack),
                    <<[at |-> "opened", load |-> Head(stack).load]>> \o Tail(stack)}
    BY <1>2 DEF FinishOpen
  <2>a. <<[at |-> "opened", load |-> Head(stack).load]>> \in Seq(Frame)
    BY <2>3
  <2> HIDE DEF TypeOK
  <2>5. stack' \in Seq(Frame)
    <3> DEFINE new == <<[at |-> "opened", load |-> Head(stack).load]>>
    <3> HIDE DEF new
    <3>1. new \o Tail(stack) \in Seq(Frame)
      BY <2>2, <2>a, ConcatProperties DEF new
    <3> QED BY <2>2, <2>4, <3>1 DEF new
  <2> QED BY <1>2, <2>5 DEF FinishOpen, ScriptType, histVars, TypeOK
<1>3. CASE Send
  <2>1. sends + 1 \in Sends
    BY <1>3, BoundsAssumption DEF Send, Sends, ScriptType
  <2>2. /\ sends' = sends + 1 /\ UNCHANGED <<stack, opens, handed>>
        /\ target' = [target EXCEPT ![sends + 1] = url]
    BY <1>3 DEF Send
  <2>3. url \in 0..MaxOpens /\ ScriptType
    BY DEF ObjectType
  <2>4. sends' \in 0..MaxSends
    BY <2>1, <2>2 DEF Sends
  <2> QED BY <2>1, <2>2, <2>3, <2>4 DEF ScriptType
<1>4. CASE Return
  <2>1. stack \in Seq(Frame) /\ stack # <<>>
    BY <1>4 DEF Return, ScriptType
  <2>2. Head(stack) \in Frame /\ Tail(stack) \in Seq(Frame)
    BY <2>1, HeadTailProperties
  <2>3. [at |-> "finish", load |-> Head(stack).load] \in Frame
    BY <2>2 DEF Frame
  <2> QED BY <1>4, <2>2, <2>3, ConcatProperties DEF Return, ScriptType, histVars
<1>5. CASE RunIoCallback
  <2>1. [at |-> "io", load |-> 0] \in Frame
    BY BoundsAssumption DEF Frame
  <2> QED BY <1>5, <2>1, ConcatProperties DEF RunIoCallback, Push, ScriptType, histVars
<1>6. ASSUME NEW s \in Sends, Written(s) PROVE ScriptType'
  <2>1. outgoing[s] \in Seq(Sends)
    BY DEF ConnectionType
  <2>2. \A r \in Sends : Copies(r, outgoing[s]) \in Nat
    BY <2>1, CopiesType
  <2>3. handed' = [r \in Sends |-> handed[r] + Copies(r, outgoing[s])]
    BY <1>6 DEF Written
  <2>4. handed' \in [Sends -> Nat]
    BY <2>2, <2>3 DEF ScriptType
  <2> QED BY <1>6, <2>4 DEF Written, ScriptType
<1>9. ASSUME UNCHANGED <<stack, histVars>> PROVE ScriptType'
  BY <1>9 DEF ScriptType, histVars
<1>10. ASSUME NEW s \in Sends,
              HandleError(s) \/ HandleResolve(s) \/ HandleConnect(s) \/ HandleConnectNext(s) \/ HandleWriteRequest(s)
                \/ HandleReadStatusLine(s) \/ HandleReadHeaders(s) \/ HandleReadContent(s)
                \/ Resolved(s) \/ Connected(s) \/ Arrive(s) \/ Eof(s) \/ Fail(s)
       PROVE  ScriptType'
  BY <1>9, <1>10 DEF HandleError, HandleResolve, HandleConnect, HandleConnectNext, HandleWriteRequest, Resolved,
     HandleReadStatusLine, HandleReadHeaders, HandleReadContent, Connected, Arrive, Eof, Fail
<1>11. CASE GetResponseText \/ GetResponseHeader \/ Resume
  BY <1>9, <1>11 DEF GetResponseText, GetResponseHeader, Resume
<1>12. ASSUME NEW b \in BOOLEAN, SetCallback(b) PROVE ScriptType'
  BY <1>9, <1>12 DEF SetCallback
<1> QED
  BY <1>1, <1>2, <1>3, <1>4, <1>5, <1>6, <1>10, <1>11, <1>12
  DEF Next, System, MainThread, IoThread, Script, Io, Network

\* The outcomes an operation can have at once.
LEMMA AtOnceType ==
    ASSUME NEW kind, NEW buf, NEW outcome \in AtOnce(kind, buf)
    PROVE  outcome \in {"pending", "ok", "fail"}
  BY DEF AtOnce

\* Starting an operation other than a resolve keeps the io thread's types.
LEMMA BeginType ==
    ASSUME IoType, NEW s \in Sends, NEW kind \in Kinds \ {"resolve"},
           NEW outcome \in Results, NEW queue \in Seq(Sends),
           Begin(s, kind, outcome, queue),
           UNCHANGED endpoints \/ endpoints' = [endpoints EXCEPT ![s] = @ - 1],
           endpoints' \in [Sends -> 0..MaxEndpoints],
           io' \in 0..MaxSends, call' \in {"none", "posted", "running", "returned"}
    PROVE  IoType'
<1>1. op' \in [Sends -> Kinds] /\ result' \in [Sends -> Results]
  BY DEF Begin, IoType
<1>2. ready' \in Seq(Sends)
  BY AppendProperties DEF Begin
<1>3. \A r \in Sends : op'[r] = "resolve" /\ result'[r] = "ok" => endpoints'[r] > 0
  BY DEF Begin, IoType
<1> QED BY <1>1, <1>2, <1>3 DEF IoType

\* So does the completion of one.
LEMMA CompleteType ==
    ASSUME IoType, NEW s \in Sends, NEW outcome \in Results, outcome = "ok" => op[s] # "resolve",
           Complete(s, outcome), UNCHANGED <<op, endpoints, io, call>>
    PROVE  IoType'
<1>1. result' \in [Sends -> Results]
  BY DEF Complete, IoType
<1>2. ready' \in Seq(Sends)
  BY AppendProperties DEF Complete, IoType
<1>3. \A r \in Sends : op'[r] = "resolve" /\ result'[r] = "ok" => endpoints'[r] > 0
  BY DEF Complete, IoType
<1> QED BY <1>1, <1>2, <1>3 DEF IoType

\* Taking a completion from the queue leaves a queue.
LEMMA ReadyType == 
   ASSUME IoType, NEW s \in Sends, NEW kind, Handling(s, kind)
   PROVE Tail(ready) \in Seq(Sends)
  BY HeadTailProperties DEF Handling, IoType

\* socket_.close() keeps the types of the outcomes and of the queue.
LEMMA CancelType ==
    ASSUME IoType, NEW res \in [Sends -> Results], NEW queue \in Seq(Sends),
           CancelOnSocket(res, queue)
    PROVE  result' \in [Sends -> Results] /\ ready' \in Seq(Sends)
<1>1. result' \in [Sends -> Results]
  BY DEF CancelOnSocket, Results, Outcomes
<1>2. PICK order \in SetToSeqs(OnSocket) : ready' = queue \o order
  BY DEF CancelOnSocket
<1>3. order \in Seq(Sends)
  BY OrderType DEF OnSocket
<1> QED BY <1>1, <1>2, <1>3, ConcatProperties

\* Every step keeps the types of the operations and of the io thread.
LEMMA IoStep == ASSUME TypeOK, InvokeAgrees, Next PROVE IoType'
<1> USE DEF TypeOK
<1>1. CASE Open
  <2>1. result' \in [Sends -> Results] /\ ready' \in Seq(Sends)
    BY <1>1, CancelType DEF Open, IoType
  <2>2. \A r \in Sends : op[r] = "resolve" /\ result'[r] = "ok" => result[r] = "ok"
    BY <1>1 DEF Open, CancelOnSocket
  <2> QED BY <1>1, <2>1, <2>2 DEF Open, IoType
<1>2. ASSUME NEW s \in Sends, HandleConnectNext(s) PROVE IoType'
  <2>0. Tail(ready) \in Seq(Sends)
    BY <1>2, ReadyType DEF HandleConnectNext
  <2>1. result' \in [Sends -> Results] /\ ready' \in Seq(Sends)
    BY <1>2, <2>0, CancelType DEF HandleConnectNext, IoType, Results, Outcomes
  <2>2. \A r \in Sends : op[r] = "resolve" /\ result'[r] = "ok" => result[r] = "ok" /\ r # s
    BY <1>2 DEF HandleConnectNext, CancelOnSocket, IoType, Handling
  <2>3. endpoints' \in [Sends -> 0..MaxEndpoints]
    BY <1>2, BoundsAssumption DEF HandleConnectNext, IoType
  <2>4. \A r \in Sends \ {s} : endpoints'[r] = endpoints[r]
    BY <1>2 DEF HandleConnectNext, IoType
  <2> QED BY <1>2, <2>1, <2>2, <2>3, <2>4 DEF HandleConnectNext, IoType
<1>3. ASSUME NEW s \in Sends, HandleError(s) PROVE IoType'
  <2>1. Tail(ready) \in Seq(Sends)
    BY <1>3, ReadyType DEF HandleError
  <2> QED BY <1>3, <2>1 DEF HandleError, EndChain, IoType, Kinds, Results, Outcomes
<1>4. ASSUME NEW s \in Sends, HandleResolve(s) PROVE IoType'
  <2>1. Tail(ready) \in Seq(Sends)
    BY <1>4, ReadyType DEF HandleResolve
  <2>2. endpoints' \in [Sends -> 0..MaxEndpoints]
    BY <1>4, BoundsAssumption DEF HandleResolve, Handling, IoType
  <2>3. PICK outcome \in AtOnce("connect", responseBuf) :
           Begin(s, "connect", outcome, Tail(ready))
    BY <1>4 DEF HandleResolve
  <2>4. outcome \in Results
    BY AtOnceType DEF Results, Outcomes
  <2>5. /\ endpoints' = [endpoints EXCEPT ![s] = @ - 1]
        /\ io' \in 0..MaxSends /\ call' \in {"none", "posted", "running", "returned"}
    BY <1>4 DEF HandleResolve, IoType
  <2> QED BY <2>1, <2>2, <2>3, <2>4, <2>5, BeginType DEF Kinds, SocketKinds
<1>5. ASSUME NEW s \in Sends, HandleConnect(s) PROVE IoType'
  <2>1. Tail(ready) \in Seq(Sends)
    BY <1>5, ReadyType DEF HandleConnect
  <2>3. PICK outcome \in AtOnce("write", responseBuf) :
           Begin(s, "write", outcome, Tail(ready))
    BY <1>5 DEF HandleConnect
  <2>4. outcome \in Results
    BY AtOnceType DEF Results, Outcomes
  <2> QED BY <1>5, <2>1, <2>3, <2>4, BeginType DEF HandleConnect, Kinds, SocketKinds, IoType
<1>6. ASSUME NEW s \in Sends, HandleWriteRequest(s) PROVE IoType'
  <2>1. Tail(ready) \in Seq(Sends)
    BY <1>6, ReadyType DEF HandleWriteRequest
  <2> QED BY <1>6, <2>1, AtOnceType, BeginType DEF HandleWriteRequest, Kinds, SocketKinds, ReadKinds, Results, Outcomes, IoType
<1>7. ASSUME NEW s \in Sends, HandleReadStatusLine(s) PROVE IoType'
  <2>1. Tail(ready) \in Seq(Sends)
    BY <1>7, ReadyType DEF HandleReadStatusLine
  <2>2. UNCHANGED <<endpoints, io, call>>
    BY <1>7 DEF HandleReadStatusLine
  <2>3. \/ \E outcome \in AtOnce("headers", responseBuf') :
                 Begin(s, "headers", outcome, Tail(ready))
        \/ EndChain(s, Tail(ready))
    BY <1>7 DEF HandleReadStatusLine
  <2>4. CASE EndChain(s, Tail(ready))
    BY <2>1, <2>2, <2>4 DEF EndChain, IoType, Kinds, Results, Outcomes
  <2> QED BY <2>1, <2>2, <2>3, <2>4, AtOnceType, BeginType DEF Kinds, SocketKinds, ReadKinds, Results, Outcomes, IoType
<1>8. ASSUME NEW s \in Sends, HandleReadHeaders(s) PROVE IoType'
  <2>1. Tail(ready) \in Seq(Sends) /\ UNCHANGED endpoints /\ op[s] = "headers"
    BY <1>8, ReadyType DEF HandleReadHeaders, Handling
  <2>2. \/ /\ io' = s /\ call' = "posted"
           /\ result' = [result EXCEPT ![s] = "none"]
           /\ ready' = Tail(ready)
           /\ UNCHANGED op
        \/ /\ \E outcome \in AtOnce("content", responseBuf') :
                 Begin(s, "content", outcome, Tail(ready))
           /\ UNCHANGED <<io, call>>
    BY <1>8 DEF HandleReadHeaders
  <2>3. CASE io' = s /\ call' = "posted" /\ result' = [result EXCEPT ![s] = "none"]
             /\ ready' = Tail(ready) /\ UNCHANGED op
    BY <2>1, <2>3, BoundsAssumption DEF IoType, Results, Outcomes, Sends
  <2>4. CASE /\ \E outcome \in AtOnce("content", responseBuf') :
                 Begin(s, "content", outcome, Tail(ready))
             /\ UNCHANGED <<io, call>>
    <3>1. PICK outcome \in AtOnce("content", responseBuf') :
             Begin(s, "content", outcome, Tail(ready))
      BY <2>4
    <3>2. outcome \in Results
      BY AtOnceType DEF Results, Outcomes
    <3> QED BY <2>1, <2>4, <3>1, <3>2, BeginType DEF Kinds, SocketKinds, ReadKinds, IoType
  <2> QED BY <2>2, <2>3, <2>4
<1>9. ASSUME NEW s \in Sends, HandleReadContent(s) PROVE IoType'
  <2>1. Tail(ready) \in Seq(Sends) /\ UNCHANGED endpoints
    BY <1>9, ReadyType DEF HandleReadContent
  <2>2. io' \in 0..MaxSends /\ call' \in {"none", "posted", "running", "returned"}
    BY <1>9, BoundsAssumption DEF HandleReadContent, IoType, Sends
  <2>3. \/ EndChain(s, Tail(ready))
        \/ \E outcome \in AtOnce("content", responseBuf) :
              Begin(s, "content", outcome, Tail(ready))
    BY <1>9 DEF HandleReadContent
  <2>4. CASE EndChain(s, Tail(ready))
    BY <2>1, <2>2, <2>4 DEF EndChain, IoType, Kinds, Results, Outcomes
  <2>5. ASSUME NEW outcome \in AtOnce("content", responseBuf),
               Begin(s, "content", outcome, Tail(ready))
        PROVE  IoType'
    <3>1. outcome \in Results
      BY AtOnceType DEF Results, Outcomes
    <3> QED BY <2>1, <2>2, <2>5, <3>1, BeginType DEF Kinds, SocketKinds, ReadKinds, IoType
  <2> QED BY <2>3, <2>4, <2>5
<1>10. CASE Resume
  <2>1. io \in Sends
    BY <1>10, BoundsAssumption DEF Resume, InvokeAgrees, IoType, Sends
  <2>2. /\ UNCHANGED endpoints
        /\ io' \in 0..MaxSends /\ call' \in {"none", "posted", "running", "returned"}
    BY <1>10, BoundsAssumption DEF Resume
  <2>3. CASE UNCHANGED <<op, result, ready>>
    BY <2>2, <2>3 DEF IoType
  <2>4. ASSUME NEW outcome \in AtOnce("content", responseBuf),
               Begin(io, "content", outcome, ready)
        PROVE  IoType'
    <3>1. outcome \in Results
      BY AtOnceType DEF Results, Outcomes
    <3> QED BY <2>1, <2>2, <2>4, <3>1, BeginType DEF Kinds, SocketKinds, ReadKinds, IoType
  <2> QED BY <1>10, <2>3, <2>4 DEF Resume
<1>11. CASE Send
  <2>1. sends + 1 \in Sends
    BY <1>11, BoundsAssumption DEF Send, Sends, ScriptType
  <2> QED BY <1>11, <2>1 DEF Send, IoType, Kinds, Results, Outcomes
<1>12. ASSUME NEW s \in Sends, Resolved(s) PROVE IoType'
  <2>1. ready' \in Seq(Sends) /\ result' \in [Sends -> Results]
    BY <1>12, AppendProperties DEF Resolved, Complete, IoType, Results, Outcomes
  <2>2. PICK n \in 1..MaxEndpoints : endpoints' = [endpoints EXCEPT ![s] = n]
    BY <1>12 DEF Resolved
  <2>3. /\ endpoints' \in [Sends -> 0..MaxEndpoints] /\ endpoints'[s] > 0
        /\ \A r \in Sends \ {s} : endpoints'[r] = endpoints[r] /\ result'[r] = result[r]
    BY <1>12, <2>2, BoundsAssumption DEF IoType, Resolved, Complete
  <2> QED BY <1>12, <2>1, <2>3 DEF Resolved, IoType
<1>13. ASSUME NEW s \in Sends, Connected(s) \/ Written(s) \/ Eof(s) PROVE IoType'
  <2>1. /\ \/ Complete(s, "ok") /\ op[s] # "resolve"
           \/ Complete(s, "eof")
        /\ UNCHANGED <<op, endpoints, io, call>>
    BY <1>13 DEF Connected, Written, Eof, Pending
  <2> QED BY <2>1, CompleteType DEF Results, Outcomes
<1>14. ASSUME NEW s \in Sends, Fail(s) PROVE IoType'
  BY <1>14, CompleteType DEF Fail, Results, Outcomes
<1>15. ASSUME NEW s \in Sends, Arrive(s) PROVE IoType'
  <2>1. /\ Complete(s, "ok") \/ UNCHANGED <<result, ready>>
        /\ UNCHANGED <<op, endpoints, io, call>>
        /\ op[s] # "resolve"
    BY <1>15 DEF Arrive, Reading, ReadKinds
  <2> QED BY <2>1, CompleteType DEF Results, Outcomes, IoType
<1>16. CASE Return
  BY <1>16 DEF Return, IoType
<1>17. CASE RunIoCallback
  BY <1>17 DEF RunIoCallback, IoType
<1>18. CASE FinishOpen \/ GetResponseText \/ GetResponseHeader
  BY <1>18 DEF FinishOpen, GetResponseText, GetResponseHeader, IoType, ioVars
<1>19. ASSUME NEW b \in BOOLEAN, SetCallback(b) PROVE IoType'
  BY <1>19 DEF SetCallback, IoType, ioVars
<1> QED
  BY <1>1, <1>2, <1>3, <1>4, <1>5, <1>6, <1>7, <1>8, <1>9, <1>10, <1>11,
     <1>12, <1>13, <1>14, <1>15, <1>16, <1>17, <1>18, <1>19
  DEF Next, System, MainThread, IoThread, Script, Io, Network

(***************************************************************************)
(* The synchronous Invoke                                                  *)
(***************************************************************************)
\* The frame of the io thread's callback lies below all others, and exists
\* exactly while the callback runs.
IoFrameBelow(c, frames) ==
    /\ c = "running" <=> frames # <<>> /\ frames[Len(frames)].at = "io"
    /\ \A i \in 1..(Len(frames) - 1) : frames[i].at # "io"

\* A call of the script's own, made on top, does not change that.
LEMMA PushFrame ==
    ASSUME NEW c, NEW frames \in Seq(Frame), IoFrameBelow(c, frames),
           NEW frame \in Frame, frame.at # "io"
    PROVE  IoFrameBelow(c, <<frame>> \o frames)
<1> DEFINE new == <<frame>> \o frames
<1>1. /\ Len(new) = Len(frames) + 1 /\ new[1] = frame /\ new # <<>>
      /\ \A i \in 1..Len(new) : i > 1 => new[i] = frames[i - 1]
  BY ConcatProperties
<1>2. Len(frames) \in Nat /\ (Len(frames) = 0 <=> frames = <<>>)
  BY LenProperties, EmptySeq
<1> HIDE DEF new
<1>3. new[Len(new)].at = "io" <=> frames # <<>> /\ frames[Len(frames)].at = "io"
  BY <1>1, <1>2
<1>4. \A i \in 1..(Len(new) - 1) : new[i].at # "io"
  BY <1>1, <1>2 DEF IoFrameBelow
<1>5. IoFrameBelow(c, new)
  BY <1>1, <1>3, <1>4 DEF IoFrameBelow
<1> QED BY <1>5 DEF new

\* Nor does its return; what returns to the io thread is the last frame.
LEMMA PopFrame ==
    ASSUME NEW c, NEW frames \in Seq(Frame), IoFrameBelow(c, frames),
           frames # <<>>
    PROVE  /\ Head(frames).at # "io" => IoFrameBelow(c, Tail(frames))
           /\ Head(frames).at = "io" => Tail(frames) = <<>> /\ c = "running"
<1> DEFINE new == Tail(frames)
<1>1. /\ new \in Seq(Frame) /\ Len(new) = Len(frames) - 1
      /\ \A i \in 1..Len(new) : new[i] = frames[i + 1]
  BY HeadTailProperties
<1>a. Head(frames) = frames[1]
  OBVIOUS
<1> HIDE DEF new
<1>b. Len(frames) \in Nat /\ Len(frames) # 0
  BY EmptySeq, LenProperties
<1>c. Len(new) \in Nat /\ (Len(new) = 0 => new = <<>>)
  BY <1>1, EmptySeq, LenProperties
<1>2. /\ Len(frames) \in Nat /\ Len(frames) > 0 /\ Head(frames) = frames[1]
      /\ Len(new) \in Nat /\ (Len(new) = 0 <=> new = <<>>)
  BY <1>a, <1>b, <1>c
<1>d. IF new = <<>> THEN frames[Len(frames)] = Head(frames)
      ELSE new[Len(new)] = frames[Len(frames)]
  BY <1>1, <1>2
<1>3. ASSUME Head(frames).at # "io" PROVE IoFrameBelow(c, new)
  <2>1. c = "running" <=> new # <<>> /\ new[Len(new)].at = "io"
    BY <1>3, <1>d DEF IoFrameBelow
  <2>2. \A i \in 1..(Len(new) - 1) : new[i].at # "io"
    <3> TAKE i \in 1..(Len(new) - 1)
    <3>1. new[i] = frames[i + 1] /\ i + 1 \in 1..(Len(frames) - 1)
      BY <1>1, <1>2
    <3> QED BY <3>1 DEF IoFrameBelow
  <2> QED BY <2>1, <2>2 DEF IoFrameBelow
<1>4. Head(frames).at = "io" => new = <<>> /\ c = "running"
  BY <1>1, <1>2 DEF IoFrameBelow
<1> QED BY <1>3, <1>4 DEF new

\* Every step keeps the io thread's frame at the bottom.
LEMMA InvokeStack == ASSUME TypeOK, InvokeAgrees, Next
   PROVE IoFrameBelow(call', stack')
<1>0. IoFrameBelow(call, stack) /\ stack \in Seq(Frame)
  BY DEF InvokeAgrees, IoFrameBelow, TypeOK, ScriptType
<1>1. CASE Open
  <2> DEFINE frame == [at |-> IF Announces("Unsent") THEN "unsent" ELSE "finish",
                       load |-> opens + 1]
  <2>1. frame \in Frame /\ frame.at # "io"
    BY <1>1, BoundsAssumption DEF Open, TypeOK, ScriptType, Frame
  <2>2. stack' = <<frame>> \o stack /\ call' = call
    BY <1>1 DEF Open, Push
  <2> QED BY <1>0, <2>1, <2>2, PushFrame
<1>2. CASE FinishOpen
  <2>1. stack # <<>> /\ Head(stack).at = "finish" /\ call' = call
    BY <1>2 DEF FinishOpen, Innermost, ioVars
  <2>2. Head(stack) \in Frame /\ Tail(stack) \in Seq(Frame)
    BY <1>0, <2>1, HeadTailProperties
  <2> DEFINE frame == [at |-> "opened", load |-> Head(stack).load]
  <2>3. frame \in Frame /\ frame.at # "io"
    BY <2>2 DEF Frame
  <2>4. stack' \in {Tail(stack), <<frame>> \o Tail(stack)}
    BY <1>2 DEF FinishOpen
  <2>5. IoFrameBelow(call, Tail(stack))
    BY <1>0, <2>1, PopFrame
  <2> QED BY <2>1, <2>2, <2>3, <2>4, <2>5, PushFrame
<1>3. CASE Return
  <2>1. stack # <<>>
    BY <1>3 DEF Return
  <2>2. Head(stack) \in Frame /\ Tail(stack) \in Seq(Frame)
    BY <1>0, <2>1, HeadTailProperties
  <2>3. CASE Head(stack).at = "io"
    <3>1. Tail(stack) = <<>>
      BY <1>0, <2>1, <2>3, PopFrame
    <3>2. stack' = <<>> /\ call' = "returned"
      BY <1>3, <2>1, <2>3, <3>1 DEF Return, Innermost
    <3> QED BY <3>2 DEF IoFrameBelow
  <2>4. CASE Head(stack).at # "io"
    <3> DEFINE frame == [at |-> "finish", load |-> Head(stack).load]
    <3>1. frame \in Frame /\ frame.at # "io"
      BY <2>2 DEF Frame
    <3>2. stack' \in {Tail(stack), <<frame>> \o Tail(stack)} /\ call' = call
      BY <1>3, <2>4 DEF Return, Innermost
    <3>3. IoFrameBelow(call, Tail(stack))
      BY <1>0, <2>1, <2>4, PopFrame
    <3> QED BY <2>2, <3>1, <3>2, <3>3, PushFrame
  <2> QED BY <2>3, <2>4
<1>4. CASE RunIoCallback
  <2>1. stack' = <<[at |-> "io", load |-> 0]>> /\ call' = "running"
    BY <1>4 DEF RunIoCallback, Push
  <2> QED BY <2>1 DEF IoFrameBelow
<1>5. ASSUME NEW s \in Sends, HandleReadHeaders(s) \/ HandleReadContent(s)
      PROVE  IoFrameBelow(call', stack')
  <2>1. stack' = stack /\ io = 0 /\ call' \in {call, "posted"}
    BY <1>5 DEF HandleReadHeaders, HandleReadContent, Handling
  <2>2. call # "running" /\ call' # "running"
    BY <2>1 DEF InvokeAgrees
  <2> QED BY <1>0, <2>1, <2>2 DEF IoFrameBelow
<1>6. CASE Resume
  <2>1. stack' = stack /\ call = "returned" /\ call' = "none"
    BY <1>6 DEF Resume
  <2> QED BY <1>0, <2>1 DEF IoFrameBelow
<1>7. ASSUME UNCHANGED <<call, stack>> PROVE IoFrameBelow(call', stack')
  BY <1>0, <1>7
<1>8. ASSUME NEW s \in Sends,
              HandleError(s) \/ HandleResolve(s) \/ HandleConnect(s) \/ HandleConnectNext(s) \/ HandleWriteRequest(s)
                \/ HandleReadStatusLine(s)
                \/ Resolved(s) \/ Connected(s) \/ Written(s) \/ Arrive(s) \/ Eof(s) \/ Fail(s)
       PROVE  IoFrameBelow(call', stack')
  BY <1>7, <1>8 DEF HandleError, HandleResolve, HandleConnect, HandleConnectNext, HandleWriteRequest, Resolved,
     HandleReadStatusLine, Connected, Written, Arrive, Eof, Fail
<1>9. CASE GetResponseText \/ GetResponseHeader \/ Send
  BY <1>7, <1>9 DEF GetResponseText, GetResponseHeader, Send, ioVars
<1>10. ASSUME NEW b \in BOOLEAN, SetCallback(b) PROVE IoFrameBelow(call', stack')
  BY <1>7, <1>10 DEF SetCallback, ioVars
<1> QED
  BY <1>1, <1>2, <1>3, <1>4, <1>5, <1>6, <1>8, <1>9, <1>10
  DEF Next, System, MainThread, IoThread, Script, Io, Network

\* An operation that starts is pending or has its outcome at once.
LEMMA AtOnceOutcome ==
    ASSUME NEW kind, NEW buf, NEW outcome \in AtOnce(kind, buf)
    PROVE  outcome \in {"pending"} \cup Outcomes
  BY DEF AtOnce, Outcomes

\* What a handler does to its own operation: start the next one, wait for the
\* script, or try the next endpoint.
Begins(s, kind) ==
    \E outcome \in {"pending"} \cup Outcomes :
        Begin(s, kind, outcome, Tail(ready))

BeginsNext(s) == \E kind \in SocketKinds : Begins(s, kind)

Waits(s) ==
    /\ op[s] = "headers" /\ UNCHANGED op
    /\ result' = [result EXCEPT ![s] = "none"]
    /\ ready' = Tail(ready)

Retries(s) ==
    /\ op[s] = "connect" /\ result[s] = "fail" /\ UNCHANGED op
    /\ CancelOnSocket([result EXCEPT ![s] = "pending"], Tail(ready))

\* Every handler does one of these or ends the load, and if it blocks in
\* Invoke it waits for this load's callback.
LEMMA HandlerCases ==
    ASSUME NEW s \in Sends, Io(s)
    PROVE  /\ \E kind \in SocketKinds \cup {"resolve"} : Handling(s, kind)
           /\ \/ /\ BeginsNext(s) \/ EndChain(s, Tail(ready)) \/ Retries(s)
                 /\ UNCHANGED <<io, call>>
              \/ /\ Begins(s, "content") \/ EndChain(s, Tail(ready))
                 /\ op[s] = "content" /\ io' = s /\ call' = "posted"
              \/ Waits(s) /\ io' = s /\ call' = "posted"
           /\ UNCHANGED <<sends, stack>>
<1>1. CASE HandleError(s)
  BY <1>1 DEF HandleError, SocketKinds, ReadKinds, histVars
<1>2. CASE HandleResolve(s)
  <2>1. BeginsNext(s)
    BY <1>2, AtOnceOutcome DEF HandleResolve, BeginsNext, Begins, SocketKinds
  <2> QED BY <1>2, <2>1 DEF HandleResolve, histVars
<1>3. CASE HandleConnect(s)
  <2>1. BeginsNext(s)
    BY <1>3, AtOnceOutcome DEF HandleConnect, BeginsNext, Begins, SocketKinds
  <2> QED BY <1>3, <2>1 DEF HandleConnect, histVars, SocketKinds
<1>4. CASE HandleConnectNext(s)
  BY <1>4 DEF HandleConnectNext, Retries, Handling, SocketKinds, histVars
<1>5. CASE HandleWriteRequest(s)
  <2>1. BeginsNext(s)
    BY <1>5, AtOnceOutcome DEF HandleWriteRequest, BeginsNext, Begins, SocketKinds, ReadKinds
  <2> QED BY <1>5, <2>1 DEF HandleWriteRequest, histVars, SocketKinds
<1>6. CASE HandleReadStatusLine(s)
  <2>1. BeginsNext(s) \/ EndChain(s, Tail(ready))
    <3>1. \/ EndChain(s, Tail(ready))
          \/ \E outcome \in AtOnce("headers", responseBuf') : Begin(s, "headers", outcome, Tail(ready))
      BY <1>6 DEF HandleReadStatusLine
    <3> QED BY <3>1, AtOnceOutcome DEF BeginsNext, Begins, SocketKinds, ReadKinds
  <2> QED BY <1>6, <2>1 DEF HandleReadStatusLine, histVars, SocketKinds, ReadKinds
<1>7. CASE HandleReadHeaders(s)
  <2>1. Handling(s, "headers") /\ UNCHANGED <<sends, stack>>
    BY <1>7 DEF HandleReadHeaders, histVars
  <2>2. \/ Waits(s) /\ io' = s /\ call' = "posted"
        \/ /\ \E outcome \in AtOnce("content", responseBuf') : Begin(s, "content", outcome, Tail(ready))
           /\ UNCHANGED <<io, call>>
    BY <1>7 DEF HandleReadHeaders, Waits, Handling
  <2>3. ASSUME NEW outcome \in AtOnce("content", responseBuf'),
               Begin(s, "content", outcome, Tail(ready))
        PROVE  BeginsNext(s)
    BY <2>3, AtOnceOutcome DEF BeginsNext, Begins, SocketKinds, ReadKinds
  <2> QED BY <2>1, <2>2, <2>3 DEF SocketKinds, ReadKinds
<1>8. CASE HandleReadContent(s)
  <2>1. Handling(s, "content") /\ UNCHANGED <<sends, stack>>
    BY <1>8 DEF HandleReadContent, histVars
  <2>2. Begins(s, "content") \/ EndChain(s, Tail(ready))
    <3>1. \/ EndChain(s, Tail(ready))
          \/ \E outcome \in AtOnce("content", responseBuf) : Begin(s, "content", outcome, Tail(ready))
      BY <1>8 DEF HandleReadContent
    <3> QED BY <3>1, AtOnceOutcome DEF Begins
  <2>3. \/ UNCHANGED <<io, call>>
        \/ io' = s /\ call' = "posted"
    BY <1>8 DEF HandleReadContent
  <2> QED BY <2>1, <2>2, <2>3 DEF Handling, BeginsNext, SocketKinds, ReadKinds
<1> QED BY <1>1, <1>2, <1>3, <1>4, <1>5, <1>6, <1>7, <1>8 DEF Io

\* The network completes a pending operation or adds to what it has read.
LEMMA NetworkCases ==
    ASSUME NEW s \in Sends, Network(s)
    PROVE  /\ op[s] \in SocketKinds \cup {"resolve"} /\ result[s] = "pending"
           /\ \/ \E outcome \in Outcomes : Complete(s, outcome)
              \/ UNCHANGED <<result, ready>>
           /\ UNCHANGED <<op, io, call, sends, stack>>
<1>1. CASE Resolved(s)
  BY <1>1 DEF Resolved, Pending, Outcomes, histVars
<1>2. CASE Connected(s)
  BY <1>2 DEF Connected, Pending, Outcomes, histVars, SocketKinds
<1>3. CASE Written(s)
  BY <1>3 DEF Written, Pending, Outcomes, SocketKinds
<1>4. CASE Arrive(s)
  BY <1>4 DEF Arrive, Reading, Outcomes, histVars, SocketKinds
<1>5. CASE Eof(s)
  BY <1>5 DEF Eof, Reading, Outcomes, histVars, SocketKinds
<1>6. CASE Fail(s)
  BY <1>6 DEF Fail, Outcomes, histVars
<1> QED BY <1>1, <1>2, <1>3, <1>4, <1>5, <1>6 DEF Network

\* Back from Invoke, the io thread reads the content or is done.
LEMMA ResumeCases ==
    ASSUME TypeOK, InvokeAgrees, Resume
    PROVE  /\ io \in Sends /\ io' = 0 /\ call' = "none" /\ UNCHANGED sends
           /\ \/ UNCHANGED <<op, result, ready>>
              \/ /\ op[io] = "headers" /\ result[io] = "none"
                 /\ \E outcome \in {"pending"} \cup Outcomes :
                      Begin(io, "content", outcome, ready)
<1>1. io \in Sends
  BY BoundsAssumption DEF Resume, InvokeAgrees, TypeOK, IoType, Sends
<1>2. \/ UNCHANGED <<op, result, ready>>
      \/ /\ op[io] = "headers" 
         /\ \E outcome \in AtOnce("content", responseBuf) :
              Begin(io, "content", outcome, ready)
  BY DEF Resume
<1>3. op[io] = "headers" => result[io] = "none"
  BY <1>1 DEF InvokeAgrees, Sends
<1> QED BY <1>1, <1>2, <1>3, AtOnceOutcome DEF Resume, histVars

\* The remaining calls leave the io thread alone.
LEMMA OtherCases ==
    ASSUME NEW b \in BOOLEAN,
           FinishOpen \/ GetResponseText \/ GetResponseHeader \/ SetCallback(b)
    PROVE  UNCHANGED <<op, result, ready, io, call, sends>>
  BY DEF FinishOpen, GetResponseText, GetResponseHeader, SetCallback, ioVars, histVars

\* Every step keeps operations and send() calls in correspondence.
LEMMA OperationsStep ==
    ASSUME TypeOK, InvokeAgrees, Next PROVE OperationsType'
<1>0. /\ OperationsType /\ op \in [Sends -> Kinds] /\ result \in [Sends -> Results]
      /\ sends \in 0..MaxSends
  BY DEF TypeOK, IoType, ScriptType
<1>1. ASSUME NEW s \in Sends, Io(s) PROVE OperationsType'
  <2>1. op[s] \in SocketKinds \cup {"resolve"} /\ UNCHANGED sends
    BY <1>1, HandlerCases DEF Handling
  <2>2. CASE BeginsNext(s)
    BY <1>0, <2>1, <2>2 DEF BeginsNext, Begins, Begin, OperationsType, SocketKinds, ReadKinds
  <2>3. CASE EndChain(s, Tail(ready))
    BY <1>0, <2>1, <2>3 DEF EndChain, OperationsType, SocketKinds, ReadKinds
  <2>4. CASE Retries(s)
    BY <1>0, <2>1, <2>4 DEF Retries, CancelOnSocket, OnSocket, OperationsType, SocketKinds, ReadKinds
  <2>5. CASE Waits(s)
    BY <1>0, <2>1, <2>5 DEF Waits, OperationsType
  <2>6. Begins(s, "content") => BeginsNext(s)
    BY DEF BeginsNext, SocketKinds, ReadKinds
  <2> QED BY <1>1, HandlerCases, <2>2, <2>3, <2>4, <2>5, <2>6
<1>2. ASSUME NEW s \in Sends, Network(s) PROVE OperationsType'
  <2>1. CASE UNCHANGED <<result, ready>>
    BY <1>0, <1>2, <2>1, NetworkCases DEF OperationsType
  <2>2. ASSUME NEW outcome \in Outcomes, Complete(s, outcome) PROVE OperationsType'
    <3>1. op[s] \in SocketKinds \cup {"resolve"} /\ UNCHANGED <<op, sends>>
      BY <1>2, NetworkCases
    <3> QED BY <1>0, <2>2, <3>1 DEF Complete, OperationsType, SocketKinds, ReadKinds
  <2> QED BY <1>2, <2>1, <2>2, NetworkCases
<1>3. CASE Resume
  BY <1>0, <1>3, ResumeCases DEF Begin, OperationsType
<1>4. CASE Open
  BY <1>0, <1>4 DEF Open, CancelOnSocket, OnSocket, OperationsType, SocketKinds, ReadKinds
<1>5. CASE Send
  <2>1. sends + 1 \in Sends
    BY <1>0, <1>5, BoundsAssumption DEF Send, Sends
  <2> QED BY <1>0, <1>5, <2>1 DEF Send, OperationsType, Sends
<1>6. CASE Return \/ RunIoCallback
  BY <1>0, <1>6 DEF Return, RunIoCallback, OperationsType, histVars
<1>7. ASSUME NEW b \in BOOLEAN,
             FinishOpen \/ GetResponseText \/ GetResponseHeader \/ SetCallback(b)
      PROVE  OperationsType'
  BY <1>0, <1>7, OtherCases DEF OperationsType
<1> QED
  BY <1>1, <1>2, <1>3, <1>4, <1>5, <1>6, <1>7 DEF Next, System, MainThread, IoThread, Script

\* Every step keeps the two threads' views of the pending Invoke together.
LEMMA InvokeStep ==
    ASSUME TypeOK, InvokeAgrees, Next
    PROVE  /\ io' = 0 <=> call' = "none"
           /\ io' # 0 => /\ op'[io'] \in {"headers", "content", "end"}
                         /\ op'[io'] = "headers" => result'[io'] = "none"
<1> DEFINE Goal == /\ io' = 0 <=> call' = "none"
                   /\ io' # 0 => /\ op'[io'] \in {"headers", "content", "end"}
                                 /\ op'[io'] = "headers" => result'[io'] = "none"
<1>0. /\ op \in [Sends -> Kinds] /\ result \in [Sends -> Results]
      /\ sends \in 0..MaxSends /\ io \in {0} \cup Sends /\ OperationsType /\ 0 \notin Sends
  BY BoundsAssumption DEF TypeOK, IoType, ScriptType, Sends
<1>a. /\ io = 0 <=> call = "none"
      /\ io # 0 => /\ op[io] \in {"headers", "content", "end"}
                   /\ op[io] = "headers" => result[io] = "none"
  BY DEF InvokeAgrees
<1>1. ASSUME NEW s \in Sends, Io(s) PROVE Goal
  <2>1. io = 0 /\ call = "none"
    BY <1>1, <1>a, HandlerCases DEF Handling
  <2>2. CASE UNCHANGED <<io, call>>
    BY <2>1, <2>2
  <2>3. CASE Waits(s) /\ io' = s /\ call' = "posted"
    BY <1>0, <2>3 DEF Waits
  <2>4. CASE Begins(s, "content") /\ io' = s /\ call' = "posted"
    BY <1>0, <2>4 DEF Begins, Begin
  <2>5. CASE EndChain(s, Tail(ready)) /\ io' = s /\ call' = "posted"
    BY <1>0, <2>5 DEF EndChain
  <2> QED BY <1>1, HandlerCases, <2>2, <2>3, <2>4, <2>5
<1>2. ASSUME NEW s \in Sends, Network(s) PROVE Goal
  <2>1. result[s] = "pending" /\ UNCHANGED <<op, io, call>>
    BY <1>2, NetworkCases
  <2>2. io # 0 /\ op[io] = "headers" => result'[io] = "none"
    BY <1>0, <1>2, <1>a, <2>1, NetworkCases DEF Complete
  <2> QED BY <1>a, <2>1, <2>2
<1>3. CASE Resume
  BY <1>3, ResumeCases
<1>4. CASE Open
  <2>1. UNCHANGED <<op, io, call>>
    BY <1>4 DEF Open
  <2>2. io # 0 /\ op[io] = "headers" => result'[io] = "none"
    BY <1>0, <1>4, <1>a DEF Open, CancelOnSocket, OnSocket
  <2> QED BY <1>a, <2>1, <2>2
<1>5. CASE Send
  <2>1. io # 0 => io # sends + 1 /\ io \in Sends
    BY <1>0, <1>5, <1>a, BoundsAssumption DEF OperationsType, Send, Sends
  <2> QED BY <1>0, <1>5, <1>a, <2>1 DEF Send
<1>6. CASE Return
  <2>1. UNCHANGED <<op, result, io>>
    BY <1>6 DEF Return
  <2>2. call' # "none" <=> call # "none"
    <3>1. ASSUME Innermost("io") PROVE call = "running"
      <4>1. stack \in Seq(Frame) /\ stack # <<>> /\ Head(stack).at = "io"
        BY <3>1 DEF TypeOK, ScriptType, Innermost
      <4>2. IoFrameBelow(call, stack)
        BY DEF InvokeAgrees, IoFrameBelow
      <4> QED BY <4>1, <4>2, PopFrame
    <3> QED BY <1>6, <3>1 DEF Return
  <2> QED BY <1>a, <2>1, <2>2
<1>7. CASE RunIoCallback
  BY <1>7, <1>a DEF RunIoCallback
<1>8. ASSUME NEW b \in BOOLEAN,
             FinishOpen \/ GetResponseText \/ GetResponseHeader \/ SetCallback(b)
      PROVE  Goal
  BY <1>8, <1>a, OtherCases
<1> QED
  BY <1>1, <1>2, <1>3, <1>4, <1>5, <1>6, <1>7, <1>8
  DEF Next, System, MainThread, IoThread, Script

(***************************************************************************)
(* The queue of completions                                                *)
(***************************************************************************)
\* CompletionsQueuedOnce, of any queue and any outcomes.
Queued(queue, res) ==
    /\ queue \in Seq(Sends)
    /\ \A i, j \in 1..Len(queue) : queue[i] = queue[j] => i = j
    /\ \A s \in Sends :
          res[s] \in Outcomes <=> \E i \in 1..Len(queue) : queue[i] = s

Done(res) == {s \in Sends : res[s] \in Outcomes}

\* That is, the queue names the operations that are done.
LEMMA QueuedNames ==
    ASSUME NEW queue, NEW res
    PROVE  Queued(queue, res) <=> Names(queue, Done(res))
<1>1. ASSUME Queued(queue, res) PROVE Names(queue, Done(res))
  <2>1. /\ queue \in Seq(Sends)
        /\ \A i, j \in 1..Len(queue) : queue[i] = queue[j] => i = j
        /\ \A s \in Sends :
              res[s] \in Outcomes <=> \E i \in 1..Len(queue) : queue[i] = s
    BY <1>1 DEF Queued
  <2>2. Len(queue) \in Nat /\ queue \in [1..Len(queue) -> Sends]
    BY <2>1, LenProperties
  <2>3. \A i \in 1..Len(queue) : queue[i] \in Done(res)
    BY <2>1, <2>2 DEF Done
  <2>4. queue \in [1..Len(queue) -> Done(res)]
    BY <2>2, <2>3
  <2>5. queue \in Seq(Done(res))
    BY <2>2, <2>4
  <2>6. \A s \in Done(res) : \E i \in 1..Len(queue) : queue[i] = s
    BY <2>1 DEF Done
  <2> QED BY <2>1, <2>5, <2>6 DEF Names
<1>2. ASSUME Names(queue, Done(res)) PROVE Queued(queue, res)
  <2>1. queue \in Seq(Sends)
    BY <1>2, SeqMonotonic DEF Names, Done
  <2>2. \A i \in 1..Len(queue) : queue[i] \in Done(res)
    BY <1>2, ElementOfSeq DEF Names
  <2> QED BY <1>2, <2>1, <2>2 DEF Names, Queued, Done
<1> QED BY <1>1, <1>2

\* Taking the first completion.
LEMMA QueueTail ==
    ASSUME NEW queue, NEW res \in [Sends -> Results], Queued(queue, res),
           queue # <<>>, NEW new \in Results \ Outcomes
    PROVE  Queued(Tail(queue), [res EXCEPT ![Head(queue)] = new])
<1>1. Head(queue) \in Done(res) /\ Names(Tail(queue), Done(res) \ {Head(queue)})
  BY QueuedNames, NamesTail
<1>2. Done([res EXCEPT ![Head(queue)] = new]) = Done(res) \ {Head(queue)}
  BY <1>1 DEF Done
<1> QED BY <1>1, <1>2, QueuedNames

\* Queueing the completion of an operation that had none.
LEMMA QueueAppend ==
    ASSUME NEW queue, NEW res \in [Sends -> Results], Queued(queue, res),
           NEW s \in Sends, res[s] \notin Outcomes, NEW new \in Outcomes
    PROVE  Queued(Append(queue, s), [res EXCEPT ![s] = new])
<1> DEFINE after == [res EXCEPT ![s] = new]
<1>1. Names(queue, Done(res)) /\ s \notin Done(res)
  BY QueuedNames DEF Done
<1>2. Done(after) = Done(res) \cup {s}
  BY DEF Done
<1> HIDE DEF after
<1>3. Names(Append(queue, s), Done(after))
  BY <1>1, <1>2, NamesAppend
<1>4. Queued(Append(queue, s), after)
  BY <1>3, QueuedNames, Zenon
<1> QED BY <1>4 DEF after

\* An operation without an outcome may get another state without one.
LEMMA QueueSame ==
    ASSUME NEW queue, NEW res \in [Sends -> Results], Queued(queue, res),
           NEW s \in Sends, res[s] \notin Outcomes, NEW new \in Results \ Outcomes
    PROVE  Queued(queue, [res EXCEPT ![s] = new])
  BY DEF Queued

\* Queueing the completions of a set of operations that had none.
LEMMA QueueCancel ==
    ASSUME NEW queue, NEW res \in [Sends -> Results], Queued(queue, res),
           NEW S \in SUBSET Sends, \A s \in S : res[s] \notin Outcomes,
           NEW order \in SetToSeqs(S)
    PROVE  Queued(queue \o order, [s \in Sends |-> IF s \in S THEN "fail" ELSE res[s]])
<1> DEFINE after == [s \in Sends |-> IF s \in S THEN "fail" ELSE res[s]]
<1>1. Names(queue, Done(res)) /\ Names(order, S) /\ Done(res) \cap S = {}
  <2>1. Names(queue, Done(res))
    BY QueuedNames
  <2>2. Names(order, S)
    BY OrderOfSet DEF Names
  <2>3. Done(res) \cap S = {}
    BY DEF Done
  <2> QED BY <2>1, <2>2, <2>3
<1>2. Done(after) = Done(res) \cup S
  BY DEF Done, Outcomes
<1> HIDE DEF after
<1>3. Queued(queue \o order, after)
  BY <1>1, <1>2, NamesConcat, QueuedNames
<1> QED BY <1>3 DEF after

\* A handler that starts its load's next operation.
LEMMA QueueBegin ==
    ASSUME IoType, CompletionsQueuedOnce, NEW s \in Sends, NEW kind,
           NEW from, Handling(s, from),
           NEW to, NEW outcome \in {"pending"} \cup Outcomes,
           Begin(s, to, outcome, Tail(ready))
    PROVE  CompletionsQueuedOnce'
<1>1. Queued(ready, result) /\ result \in [Sends -> Results]
  BY DEF Queued, CompletionsQueuedOnce, IoType
<1>2. ready # <<>> /\ Head(ready) = s
  BY DEF Handling
<1> DEFINE mid == [result EXCEPT ![s] = "pending"]
<1>3. Queued(Tail(ready), mid) /\ mid \in [Sends -> Results]
  BY <1>1, <1>2, QueueTail DEF Results, Outcomes
<1>4. CASE outcome = "pending"
  <2>1. ready' = Tail(ready) /\ result' = mid
    BY <1>4 DEF Begin
  <2> QED BY <1>3, <2>1 DEF Queued, CompletionsQueuedOnce
<1>5. CASE outcome \in Outcomes
  <2>1. ready' = Append(Tail(ready), s) /\ result' = [mid EXCEPT ![s] = outcome]
    BY <1>1, <1>5 DEF Begin, Outcomes
  <2>2. mid[s] \notin Outcomes
    BY <1>1 DEF Outcomes
  <2>3. Queued(ready', result')
    BY <1>3, <1>5, <2>1, <2>2, QueueAppend
  <2> QED BY <2>3 DEF Queued, CompletionsQueuedOnce
<1> QED BY <1>4, <1>5

\* A handler that ends its load, or waits for the script.
LEMMA QueueEnd ==
    ASSUME IoType, CompletionsQueuedOnce, NEW s \in Sends,
           NEW from, Handling(s, from),
           ready' = Tail(ready), result' = [result EXCEPT ![s] = "none"]
    PROVE  CompletionsQueuedOnce'
<1>1. Queued(ready, result) /\ result \in [Sends -> Results]
  BY DEF Queued, CompletionsQueuedOnce, IoType
<1>2. ready # <<>> /\ Head(ready) = s
  BY DEF Handling
<1>3. Queued(Tail(ready), [result EXCEPT ![s] = "none"])
  BY <1>1, <1>2, QueueTail DEF Results, Outcomes
<1> QED BY <1>3 DEF Queued, CompletionsQueuedOnce

\* The network completes an operation.
LEMMA QueueComplete ==
    ASSUME IoType, CompletionsQueuedOnce, NEW s \in Sends,
           result[s] = "pending", NEW outcome \in Outcomes, Complete(s, outcome)
    PROVE  CompletionsQueuedOnce'
<1>1. Queued(ready, result) /\ result \in [Sends -> Results]
  BY DEF Queued, CompletionsQueuedOnce, IoType
<1>2. result[s] \notin Outcomes
  BY DEF Outcomes
<1>3. Queued(Append(ready, s), [result EXCEPT ![s] = outcome])
  BY <1>1, <1>2, QueueAppend
<1> QED BY <1>3 DEF Queued, CompletionsQueuedOnce, Complete

\* socket_.close() completes all that is pending on the socket.
LEMMA QueueClose ==
    ASSUME NEW res \in [Sends -> Results], NEW queue, Queued(queue, res),
           \A s \in OnSocket : res[s] \notin Outcomes,
           CancelOnSocket(res, queue)
    PROVE  CompletionsQueuedOnce'
<1>1. PICK order \in SetToSeqs(OnSocket) : ready' = queue \o order
  BY DEF CancelOnSocket
<1>2. OnSocket \in SUBSET Sends
  BY DEF OnSocket
<1>3. Queued(ready', result')
  BY <1>1, <1>2, QueueCancel DEF CancelOnSocket
<1> QED BY <1>3 DEF Queued, CompletionsQueuedOnce

\* Every step keeps the queue of completions exact.
LEMMA QueueStep ==
    ASSUME TypeOK, InvokeAgrees, CompletionsQueuedOnce, Next
    PROVE  CompletionsQueuedOnce'
<1>0. /\ IoType /\ OperationsType /\ op \in [Sends -> Kinds] /\ result \in [Sends -> Results]
      /\ Queued(ready, result)
  BY DEF TypeOK, IoType, CompletionsQueuedOnce, Queued
<1>1. ASSUME NEW s \in Sends, Io(s) PROVE CompletionsQueuedOnce'
  <2>1. PICK kind \in SocketKinds \cup {"resolve"} : Handling(s, kind)
    BY <1>1, HandlerCases
  <2>2. CASE BeginsNext(s) \/ Begins(s, "content")
    BY <1>0, <2>1, <2>2, QueueBegin DEF BeginsNext, Begins
  <2>3. CASE EndChain(s, Tail(ready)) \/ Waits(s)
    BY <1>0, <2>1, <2>3, QueueEnd DEF EndChain, Waits
  <2>4. CASE Retries(s)
    <3> DEFINE res == [result EXCEPT ![s] = "pending"]
    <3>1. Queued(Tail(ready), res) /\ res \in [Sends -> Results]
      BY <1>0, <2>1, QueueTail DEF Handling, Results, Outcomes
    <3>2. \A r \in OnSocket : res[r] \notin Outcomes
      BY <1>0 DEF OnSocket, Outcomes
    <3> QED BY <2>4, <3>1, <3>2, QueueClose DEF Retries
  <2> QED BY <1>1, HandlerCases, <2>2, <2>3, <2>4
<1>2. ASSUME NEW s \in Sends, Network(s) PROVE CompletionsQueuedOnce'
  <2>1. CASE UNCHANGED <<result, ready>>
    BY <2>1 DEF CompletionsQueuedOnce
  <2> QED BY <1>0, <1>2, <2>1, NetworkCases, QueueComplete
<1>3. CASE Resume
  <2>1. CASE UNCHANGED <<op, result, ready>>
    BY <2>1 DEF CompletionsQueuedOnce
  <2>2. ASSUME io \in Sends, result[io] = "none",
               NEW outcome \in {"pending"} \cup Outcomes,
               Begin(io, "content", outcome, ready)
        PROVE  CompletionsQueuedOnce'
    <3>1. result[io] \notin Outcomes
      BY <2>2 DEF Outcomes
    <3>2. CASE outcome = "pending"
      <4>1. Queued(ready, [result EXCEPT ![io] = "pending"])
        BY <1>0, <2>2, <3>1, QueueSame DEF Results, Outcomes
      <4> QED BY <2>2, <3>2, <4>1 DEF Begin, Queued, CompletionsQueuedOnce
    <3>3. CASE outcome \in Outcomes
      <4>1. Queued(Append(ready, io), [result EXCEPT ![io] = outcome])
        BY <1>0, <2>2, <3>1, <3>3, QueueAppend
      <4>2. outcome # "pending"
        BY <3>3 DEF Outcomes
      <4> QED BY <2>2, <4>1, <4>2 DEF Begin, Queued, CompletionsQueuedOnce
    <3> QED BY <2>2, <3>2, <3>3
  <2> QED BY <1>3, <2>1, <2>2, ResumeCases
<1>4. CASE Open
  <2>1. \A r \in OnSocket : result[r] \notin Outcomes
    BY DEF OnSocket, Outcomes
  <2> QED BY <1>0, <1>4, <2>1, QueueClose DEF Open
<1>5. CASE Send
  <2>1. sends + 1 \in Sends /\ op[sends + 1] = "idle"
    BY <1>0, <1>5, BoundsAssumption DEF Send, Sends, OperationsType, TypeOK, ScriptType
  <2>2. result[sends + 1] \notin Outcomes
    BY <1>0, <2>1 DEF OperationsType, Outcomes
  <2>3. Queued(ready, [result EXCEPT ![sends + 1] = "pending"])
    BY <1>0, <2>1, <2>2, QueueSame DEF Results, Outcomes
  <2> QED BY <1>5, <2>3 DEF Send, Queued, CompletionsQueuedOnce
<1>6. CASE Return \/ RunIoCallback
  BY <1>6 DEF Return, RunIoCallback, CompletionsQueuedOnce
<1>7. ASSUME NEW b \in BOOLEAN,
             FinishOpen \/ GetResponseText \/ GetResponseHeader \/ SetCallback(b)
      PROVE  CompletionsQueuedOnce'
  BY <1>7, OtherCases DEF CompletionsQueuedOnce
<1> QED
  BY <1>1, <1>2, <1>3, <1>4, <1>5, <1>6, <1>7 DEF Next, System, MainThread, IoThread, Script

(***************************************************************************)
(* The theorems                                                            *)
(***************************************************************************)
IInv == TypeOK /\ InvokeAgrees /\ CompletionsQueuedOnce

\* IInv is inductive: each part needs the others.  The io thread resumes a
\* load only because its frame is the last one, and a completion is queued
\* once only because an operation belongs to one send().
THEOREM Inductive == Spec => []IInv
<1>1. Init => IInv
  <2> SUFFICES ASSUME Init PROVE IInv
    OBVIOUS
  <2> USE BoundsAssumption DEF Init
  <2>1. ObjectType
    <3>1. state \in States /\ callback \in BOOLEAN /\ aborted \in BOOLEAN
      BY Zenon
    <3>2. url \in 0..MaxOpens /\ statusCode \in 0..MaxSends
      BY SMT
    <3>3. requestBuf \in Seq(Sends) /\ responseBuf \in Seq(Token)
      BY SMT
    <3>4. responseHeader \in {Absent, Empty} \cup Sends
      BY Zenon
    <3> HIDE DEF Init
    <3> QED BY <3>1, <3>2, <3>3, <3>4, Zenon DEF ObjectType
  <2>2. ConnectionType /\ AnswerType
    BY DEF ConnectionType, AnswerType, NoWrite
  <2>3. IoType
    BY DEF IoType, Kinds, Results
  <2>4. ScriptType /\ OperationsType
    BY DEF ScriptType, OperationsType, Sends
  <2>5. InvokeAgrees
    BY DEF InvokeAgrees
  <2>6. CompletionsQueuedOnce
    BY DEF CompletionsQueuedOnce, Outcomes
  <2> QED BY <2>1, <2>2, <2>3, <2>4, <2>5, <2>6 DEF IInv, TypeOK
<1>2. IInv /\ [Next]_vars => IInv'
  <2>1. ASSUME IInv, Next PROVE IInv'
    <3>1. TypeOK'
      BY <2>1, ObjectStep, ConnectionStep, ScriptStep, IoStep, OperationsStep
      DEF IInv, TypeOK
    <3>2. InvokeAgrees'
      BY <2>1, InvokeStack, InvokeStep DEF IInv, InvokeAgrees, IoFrameBelow
    <3>3. CompletionsQueuedOnce'
      BY <2>1, QueueStep DEF IInv
    <3> QED BY <3>1, <3>2, <3>3 DEF IInv
  <2>2. ASSUME IInv, UNCHANGED vars PROVE IInv'
    BY <2>2 DEF vars, objVars, connVars, ioVars, histVars, IInv, TypeOK,
       ObjectType, ConnectionType, AnswerType, IoType, ScriptType,
       OperationsType, InvokeAgrees, CompletionsQueuedOnce
  <2> QED BY <2>1, <2>2
<1> QED BY <1>1, <1>2, PTL DEF Spec

\* Every variable keeps its type, through all interleavings of the script,
\* the two threads and the network.
THEOREM TypeCorrect == Spec => []TypeOK
<1>1. IInv => TypeOK
  BY DEF IInv
<1> QED BY <1>1, Inductive, PTL

\* The io thread is blocked in changeState exactly while the main thread owes
\* it one callback, and that callback is the outermost call on the main
\* thread: no nesting of open() in callbacks loses it or runs it twice.
THEOREM InvokeCorrect == Spec => []InvokeAgrees
<1>1. IInv => InvokeAgrees
  BY DEF IInv
<1> QED BY <1>1, Inductive, PTL

\* Every completed operation has its handler queued exactly once, whatever
\* open() closes and however many send() calls overlap.
THEOREM CompletionsCorrect == Spec => []CompletionsQueuedOnce
<1>1. IInv => CompletionsQueuedOnce
  BY DEF IInv
<1> QED BY <1>1, Inductive, PTL


(***************************************************************************)
(* XhrSequential and XhrHeaders, for every number of loads, endpoints,     *)
(* nested callbacks and request headers: what a careful script sees is the *)
(* response to its own last request, and the object keeps the promise of   *)
(* its header.  First the invariant.                                       *)
(***************************************************************************)
\* The main thread is inside jsOpen.
Opening == stack # <<>> /\ Head(stack).at \in {"unsent", "finish"}

\* jsOpen is the innermost call, for the last load, while the state is Unsent;
\* a posted callback is about the state that it will find.
ScriptInv ==
    /\ opens = 0 => sends = 0 /\ stack = <<>>
    /\ opens > 0 => ~aborted
    /\ Opening <=> opens > 0 /\ state = "Unsent"
    /\ Opening => Head(stack).load = opens
    /\ \A i \in 2..Len(stack) : stack[i].at \in {"opened", "io"}
    /\ call = "posted" =>
          \/ op[io] = "headers" /\ state = "HeadersReceived"
          \/ op[io] = "end" /\ state = "Done"

\* The parts of a response in their order.
Part(i) == CASE i = 1 -> "status" [] i = 2 -> "headers" [] OTHER -> "body"

\* After n parts, what is buffered and then what is still to come go on with
\* the response to request c; or are something that is no response.
Whole(n, buf, rest, c) ==
    /\ n + Len(buf) + Len(rest) <= 3
    /\ \A i \in 1..Len(buf) : buf[i] = [req |-> c, part |-> Part(n + i)]
    /\ \A i \in 1..Len(rest) : rest[i] = Part(n + Len(buf) + i)

Garbled(buf, rest, c) ==
    /\ Len(buf) + Len(rest) <= 1
    /\ \A i \in 1..Len(buf) : buf[i] = [req |-> c, part |-> "garbage"]
    /\ \A i \in 1..Len(rest) : rest[i] = "garbage"

\* Nothing is under way, and nothing is left of the load before.
Idle ==
    /\ opens > 0 => state \in {"Unsent", "Opened"}
    /\ responseHeader = Absent /\ requestBuf = <<>> /\ responseBuf = <<>>
    /\ socket = "closed" /\ (sends > 0 => op[sends] = "end")

\* The request is not written yet; on the connection it is alone.
Connection ==
    socket = "connected" /\ host = target[sends] /\ answering = 0

Early ==
    \/ op[sends] \in {"resolve", "connect"}
    \/ op[sends] = "write" /\ result[sends] # "ok"

EarlyInv ==
    /\ state = "Opened" /\ responseHeader = Absent
    /\ requestBuf = <<sends>> /\ responseBuf = <<>> /\ handed[sends] = 0
    /\ op[sends] = "resolve" => socket = "closed"
    /\ op[sends] = "connect" /\ result[sends] = "ok" => Connection
    /\ op[sends] = "write" /\ result[sends] = "pending" =>
          Connection /\ outgoing[sends] = <<sends>>

\* The request is written, and its response is read.
Late ==
    \/ op[sends] = "write" /\ result[sends] = "ok"
    \/ op[sends] \in {"status", "headers", "content"}

LateInv ==
    /\ requestBuf = <<>> /\ (left # <<>> => answering = sends)
    /\ op[sends] \in {"write", "status"} =>
          /\ state = "Opened" /\ responseHeader = Absent
          /\ \/ Whole(0, responseBuf, left, sends)
             \/ Garbled(responseBuf, left, sends)
    /\ op[sends] \in {"status", "headers"} /\ result[sends] = "ok" =>
          responseBuf # <<>>
    /\ op[sends] = "headers" /\ result[sends] # "none" =>
          /\ state = "Opened" /\ responseHeader = Absent /\ statusCode = sends
          /\ Whole(1, responseBuf, left, sends)
    /\ op[sends] = "headers" /\ result[sends] = "none" =>
          state = "HeadersReceived" /\ Whole(2, responseBuf, left, sends)
    /\ op[sends] = "content" =>
          /\ state = "HeadersReceived" /\ result[sends] # "ok"
          /\ Whole(2, responseBuf, left, sends)

\* What the script can see of the response is that of its own last request.
Shown ==
    state \in {"HeadersReceived", "Done"} =>
        /\ statusCode = sends /\ responseHeader = sends
        /\ \A i \in 1..Len(responseBuf) :
              responseBuf[i] = [req |-> sends, part |-> "body"]
        /\ state = "Done" => op[sends] = "end" /\ requestBuf = <<>>

\* Of the chains only the last one can be under way, and only in its load.
Past ==
    /\ \A s \in Sends : s < sends => op[s] = "end"
    /\ \A s \in Sends : s <= sends => target[s] \in 1..opens

Course ==
    /\ state \in {"Opened", "HeadersReceived", "Done"}
    /\ Early => EarlyInv
    /\ Late => LateInv
    /\ Shown

LoadInv == Past /\ (~HasSent => Idle) /\ (HasSent => Course)

HandedInv ==
    \A s \in Sends : handed[s] <= 1 /\ (s > sends => handed[s] = 0)

SeqInv == ScriptInv /\ LoadInv /\ HandedInv

(***************************************************************************)
(* What is read                                                            *)
(***************************************************************************)
\* What is to come is lost.
LEMMA ReadCut ==
    ASSUME NEW b \in Seq(Token), NEW l \in Seq(Parts), NEW c,
           NEW n \in 0..2
    PROVE  /\ Whole(n, b, l, c) => Whole(n, b, <<>>, c)
           /\ Garbled(b, l, c) => Garbled(b, <<>>, c)
<1>1. PICK p \in Nat, q \in Nat : p = Len(b) /\ q = Len(l)
  BY LenProperties
<1> QED BY <1>1 DEF Whole, Garbled

\* Bytes arrive.
LEMMA ReadMove ==
    ASSUME NEW b \in Seq(Token), NEW l \in Seq(Parts), NEW c \in Sends,
           NEW n \in 0..2, NEW m \in 1..Len(l)
    PROVE  LET more == b \o [i \in 1..m |-> [req |-> c, part |-> l[i]]]
               rest == SubSeq(l, m + 1, Len(l))
           IN  /\ Whole(n, b, l, c) => Whole(n, more, rest, c)
               /\ Garbled(b, l, c) => Garbled(more, rest, c)
<1> DEFINE new == [i \in 1..m |-> [req |-> c, part |-> l[i]]]
           more == b \o new
           rest == SubSeq(l, m + 1, Len(l))
<1>1. PICK p \in Nat, q \in Nat : p = Len(b) /\ q = Len(l)
  BY LenProperties
<1>2. m \in 1..q /\ \A i \in 1..q : l[i] \in Parts
  BY <1>1, ElementOfSeq
<1>3. new \in Seq(Token) /\ Len(new) = m
  BY <1>2 DEF Token
<1>4. /\ Len(more) = p + m
      /\ \A i \in 1..(p + m) : more[i] = IF i <= p THEN b[i] ELSE new[i - p]
  BY <1>1, <1>3, ConcatProperties
<1>5. /\ Len(rest) = q - m
      /\ \A i \in 1..(q - m) : rest[i] = l[m + i]
  BY <1>1, <1>2, SubSeqProperties
<1>6. \A i \in 1..m : new[i] = [req |-> c, part |-> l[i]]
  OBVIOUS
<1> HIDE DEF new, more, rest
<1>7. \A i \in 1..(p + m) :
          \/ i \in 1..p /\ more[i] = b[i]
          \/ i > p /\ i - p \in 1..m /\ i - p \in 1..q
             /\ more[i] = [req |-> c, part |-> l[i - p]]
  <2> SUFFICES ASSUME NEW i \in 1..(p + m), ~(i <= p)
               PROVE  /\ i > p /\ i - p \in 1..m /\ i - p \in 1..q
                      /\ more[i] = [req |-> c, part |-> l[i - p]]
    BY <1>4
  <2>1. i > p /\ i - p \in 1..m /\ i - p \in 1..q
    BY <1>1, <1>2
  <2>2. more[i] = new[i - p]
    BY <1>4
  <2> QED BY <1>6, <2>1, <2>2
<1>8. ASSUME Whole(n, b, l, c) PROVE Whole(n, more, rest, c)
  <2>1. /\ n + p + q <= 3
        /\ \A i \in 1..p : b[i] = [req |-> c, part |-> Part(n + i)]
        /\ \A i \in 1..q : l[i] = Part(n + p + i)
    BY <1>1, <1>8 DEF Whole
  <2>2. \A i \in 1..(p + m) : more[i] = [req |-> c, part |-> Part(n + i)]
    <3> SUFFICES ASSUME NEW i \in 1..(p + m)
                 PROVE  more[i] = [req |-> c, part |-> Part(n + i)]
      OBVIOUS
    <3>1. CASE i \in 1..p /\ more[i] = b[i]
      BY <2>1, <3>1
    <3>2. CASE i > p /\ i - p \in 1..q
               /\ more[i] = [req |-> c, part |-> l[i - p]]
      <4>1. n + p + (i - p) = n + i
        BY <1>1
      <4>2. l[i - p] = Part(n + p + (i - p))
        BY <2>1, <3>2
      <4> QED BY <3>2, <4>1, <4>2, Zenon
    <3> QED BY <1>7, <3>1, <3>2
  <2>3. \A i \in 1..(q - m) : rest[i] = Part(n + (p + m) + i)
    <3> SUFFICES ASSUME NEW i \in 1..(q - m)
                 PROVE  rest[i] = Part(n + (p + m) + i)
      OBVIOUS
    <3>1. m + i \in 1..q /\ n + p + (m + i) = n + (p + m) + i
      BY <1>1, <1>2
    <3>2. l[m + i] = Part(n + p + (m + i))
      BY <2>1, <3>1
    <3> QED BY <1>5, <3>1, <3>2, Zenon
  <2>4. n + Len(more) + Len(rest) <= 3
    BY <1>1, <1>2, <1>4, <1>5, <2>1
  <2> QED BY <1>4, <1>5, <2>2, <2>3, <2>4, Zenon DEF Whole
<1>9. ASSUME Garbled(b, l, c) PROVE Garbled(more, rest, c)
  <2>1. /\ p + q <= 1
        /\ \A i \in 1..p : b[i] = [req |-> c, part |-> "garbage"]
        /\ \A i \in 1..q : l[i] = "garbage"
    BY <1>1, <1>9 DEF Garbled
  <2>2. \A i \in 1..(p + m) : more[i] = [req |-> c, part |-> "garbage"]
    BY <1>7, <2>1
  <2>3. \A i \in 1..(q - m) : m + i \in 1..q
    BY <1>1, <1>2
  <2>4. \A i \in 1..(q - m) : rest[i] = "garbage"
    BY <1>5, <2>1, <2>3
  <2>5. Len(more) + Len(rest) <= 1
    BY <1>1, <1>2, <1>4, <1>5, <2>1
  <2> QED BY <1>4, <1>5, <2>2, <2>4, <2>5, Zenon DEF Garbled
<1> QED BY <1>8, <1>9 DEF new, more, rest

\* The first part is taken.
LEMMA ReadTake ==
    ASSUME NEW b \in Seq(Token), NEW l \in Seq(Parts), NEW c,
           NEW n \in 0..1, b # <<>>, Whole(n, b, l, c)
    PROVE  /\ Whole(n + 1, SubSeq(b, 2, Len(b)), l, c)
           /\ b[1] = [req |-> c, part |-> Part(n + 1)] /\ b[1] = Head(b)
<1> DEFINE r == SubSeq(b, 2, Len(b))
<1>1. PICK p \in Nat, q \in Nat : p = Len(b) /\ q = Len(l)
  BY LenProperties
<1>2. p > 0
  BY <1>1, EmptySeq
<1>3. /\ n + p + q <= 3
      /\ \A i \in 1..p : b[i] = [req |-> c, part |-> Part(n + i)]
      /\ \A i \in 1..q : l[i] = Part(n + p + i)
  BY <1>1 DEF Whole
<1>4. Len(r) = p - 1 /\ \A i \in 1..(p - 1) : r[i] = b[i + 1]
  BY <1>1, <1>2, SubSeqProperties
<1>5. b[1] = [req |-> c, part |-> Part(n + 1)] /\ b[1] = Head(b)
  BY <1>1, <1>2, <1>3
<1> HIDE DEF r
<1>6. \A i \in 1..(p - 1) : r[i] = [req |-> c, part |-> Part((n + 1) + i)]
  <2> SUFFICES ASSUME NEW i \in 1..(p - 1)
               PROVE  r[i] = [req |-> c, part |-> Part((n + 1) + i)]
    OBVIOUS
  <2>1. i + 1 \in 1..p /\ n + (i + 1) = (n + 1) + i
    BY <1>1
  <2>2. b[i + 1] = [req |-> c, part |-> Part(n + (i + 1))]
    BY <1>3, <2>1
  <2> QED BY <1>4, <2>1, <2>2, Zenon
<1>7. \A i \in 1..q : l[i] = Part((n + 1) + (p - 1) + i)
  <2>1. \A i \in 1..q : (n + 1) + (p - 1) + i = n + p + i
    BY <1>1
  <2> QED BY <1>3, <2>1
<1>8. (n + 1) + Len(r) + Len(l) <= 3
  BY <1>1, <1>3, <1>4
<1>9. Whole(n + 1, r, l, c)
  BY <1>1, <1>4, <1>6, <1>7, <1>8, Zenon DEF Whole
<1> QED BY <1>5, <1>9 DEF r

\* A server answers with a response or with something else.
LEMMA ReadBegin ==
    ASSUME NEW c, NEW l \in {<<"status", "headers", "body">>, <<"garbage">>}
    PROVE  Whole(0, <<>>, l, c) \/ Garbled(<<>>, l, c)
<1>1. CASE l = <<"status", "headers", "body">>
  BY <1>1 DEF Whole, Part
<1>2. CASE l = <<"garbage">>
  BY <1>2 DEF Garbled
<1> QED BY <1>1, <1>2

\* Of the content only the body is left.
LEMMA ReadBody ==
    ASSUME NEW b \in Seq(Token), NEW l \in Seq(Parts), NEW c,
           Whole(2, b, l, c)
    PROVE  \A i \in 1..Len(b) : b[i] = [req |-> c, part |-> "body"]
<1>1. PICK p \in Nat : p = Len(b)
  BY LenProperties
<1>2. \A i \in 1..p : Part(2 + i) = "body"
  BY DEF Part
<1> QED BY <1>1, <1>2 DEF Whole

(***************************************************************************)
(* The chain of the last send()                                            *)
(***************************************************************************)
\* Whatever is under way belongs to the last send(), of the last load.
LEMMA LastSend ==
    ASSUME TypeOK, SeqInv, NEW s \in Sends, op[s] \notin {"idle", "end"}
    PROVE  /\ s = sends /\ HasSent /\ opens > 0
           /\ \A d \in Sends : d # sends => op[d] \in {"idle", "end"}
<1>1. /\ sends \in Nat /\ s \in Nat /\ opens \in Nat
      /\ \A d \in Sends : d \in Nat /\ (op[d] = "idle" <=> d > sends)
      /\ \A d \in Sends : d < sends => op[d] = "end"
      /\ \A d \in Sends : d <= sends => target[d] \in 1..opens
  BY BoundsAssumption
     DEF TypeOK, ScriptType, OperationsType, SeqInv, LoadInv, Past, Sends
<1>2. s = sends /\ sends > 0
  BY <1>1 DEF Sends
<1>3. HasSent
  BY <1>2 DEF SeqInv, LoadInv, Idle
<1>4. opens > 0
  BY <1>1, <1>2
<1>5. ASSUME NEW d \in Sends, d # sends PROVE op[d] \in {"idle", "end"}
  BY <1>1, <1>5
<1> QED BY <1>2, <1>3, <1>4, <1>5

\* A step of the chain need only keep the course of the load.
LEMMA ChainStep ==
    ASSUME SeqInv, HasSent, UNCHANGED <<opens, sends, target>>, Course',
           \A d \in Sends : d # sends => op'[d] = op[d]
    PROVE  LoadInv'
<1>1. HasSent' /\ Past
  BY DEF HasSent, SeqInv, LoadInv
<1>2. Past'
  <2>1. \A s \in Sends : s < sends => s # sends
    BY DEF Sends
  <2> QED BY <1>1, <2>1 DEF Past
<1> QED BY <1>1, <1>2 DEF LoadInv

\* What jsOpen and the callbacks know is not changed by a handler.
LEMMA ScriptKeeps ==
    ASSUME SeqInv, UNCHANGED <<opens, sends, stack, aborted>>,
           state' = state \/ (state # "Unsent" /\ state' # "Unsent"),
           call' = "posted" =>
             \/ op'[io'] = "headers" /\ state' = "HeadersReceived"
             \/ op'[io'] = "end" /\ state' = "Done"
    PROVE  ScriptInv'
  BY DEF SeqInv, ScriptInv, Opening

\* The outcomes of an operation that starts.
LEMMA Starts ==
    ASSUME NEW kind \in SocketKinds, NEW buf, NEW outcome \in AtOnce(kind, buf)
    PROVE  /\ outcome \in {"pending", "ok", "fail"}
           /\ outcome = "ok" => kind \in {"status", "headers"} /\ buf # <<>>
           /\ kind = "connect" /\ socket = "closed" => outcome = "pending"
           /\ kind = "write" /\ socket = "connected" => outcome = "pending"
<1>1. Delimited(kind, buf) => kind \in {"status", "headers"} /\ buf # <<>>
  <2>1. DOMAIN <<>> = {}
    OBVIOUS
  <2> QED BY <2>1 DEF Delimited
<1>2. CASE kind = "connect"
  <2>1. outcome \in CASE socket = "closed" -> {"pending"}
                     [] socket = "failed" -> {"pending", "fail"}
                     [] OTHER             -> {"fail"}
    BY <1>1, <1>2 DEF AtOnce
  <2>2. outcome \in {"pending", "fail"}
        /\ (socket = "closed" => outcome = "pending")
    BY <2>1
  <2> QED BY <1>2, <2>2
<1>3. CASE kind # "connect" /\ Delimited(kind, buf)
  BY <1>1, <1>3 DEF AtOnce
<1>4. CASE kind # "connect" /\ ~Delimited(kind, buf)
  BY <1>4 DEF AtOnce
<1> QED BY <1>2, <1>3, <1>4

\* The types that the steps of a chain need.
LEMMA ChainTypes ==
    ASSUME TypeOK
    PROVE  /\ op \in [Sends -> Kinds] /\ result \in [Sends -> Results]
           /\ requestBuf \in Seq(Sends) /\ responseBuf \in Seq(Token)
           /\ left \in Seq(Parts) /\ outgoing \in [Sends -> Seq(Sends)]
           /\ handed \in [Sends -> Nat] /\ sends \in 0..MaxSends
  BY DEF TypeOK, ObjectType, ConnectionType, IoType, ScriptType

\* A chain that ends shows nothing new, unless it is by the end of the stream.
LEMMA ErrorCourse ==
    ASSUME TypeOK, SeqInv, NEW s \in Sends, HandleError(s)
    PROVE  Course'
<1>1. op[s] \notin {"idle", "end"}
  BY DEF HandleError, Handling
<1>2. s = sends /\ Course
  BY <1>1, LastSend DEF SeqInv, LoadInv
<1>3. op'[sends] = "end" /\ UNCHANGED <<objVars, sends>>
  BY <1>2, ChainTypes DEF HandleError, EndChain, histVars
<1>4. state # "Done"
  BY <1>1, <1>2 DEF Course, Shown
<1> QED BY <1>2, <1>3, <1>4 DEF Course, Early, Late, Shown, objVars

\* The handlers up to the request.
LEMMA EarlyCourse ==
    ASSUME TypeOK, SeqInv, NEW s \in Sends,
           HandleResolve(s) \/ HandleConnect(s) \/ HandleConnectNext(s)
    PROVE  Course'
<1>1. op[s] \in {"resolve", "connect"}
  BY DEF HandleResolve, HandleConnect, HandleConnectNext, Handling
<1>2. s = sends /\ Course
  BY <1>1, LastSend DEF SeqInv, LoadInv
<1>3. EarlyInv
  BY <1>1, <1>2 DEF Course, Early
<1>4. UNCHANGED <<objVars, sends, target, handed>>
  BY DEF HandleResolve, HandleConnect, HandleConnectNext, histVars
<1>5. CASE HandleResolve(s)
  <2>1. op[sends] = "resolve" /\ socket = "closed"
    BY <1>2, <1>3, <1>5 DEF HandleResolve, Handling, EarlyInv
  <2>2. PICK outcome \in AtOnce("connect", responseBuf) :
          Begin(s, "connect", outcome, Tail(ready))
    BY <1>5 DEF HandleResolve
  <2>3. outcome = "pending"
    BY <2>1, Starts DEF SocketKinds
  <2>4. op'[sends] = "connect" /\ result'[sends] = "pending"
    BY <1>2, <2>2, <2>3, ChainTypes DEF Begin
  <2> QED BY <1>2, <1>3, <1>4, <2>4
          DEF Course, Early, EarlyInv, Late, Shown, objVars
<1>6. CASE HandleConnect(s)
  <2>1. Connection
    BY <1>2, <1>3, <1>6 DEF HandleConnect, Handling, EarlyInv
  <2>2. PICK outcome \in AtOnce("write", responseBuf) :
          /\ Begin(s, "write", outcome, Tail(ready))
          /\ outgoing' = IF outcome = "pending"
                         THEN [outgoing EXCEPT ![s] = requestBuf] ELSE outgoing
    BY <1>6 DEF HandleConnect
  <2>3. outcome = "pending"
    BY <2>1, Starts DEF SocketKinds, Connection
  <2>4. /\ op'[sends] = "write" /\ result'[sends] = "pending"
        /\ outgoing'[sends] = requestBuf
    BY <1>2, <2>2, <2>3, ChainTypes DEF Begin
  <2>5. Connection'
    BY <1>4, <1>6, <2>1 DEF HandleConnect, Connection
  <2> QED BY <1>2, <1>3, <1>4, <2>4, <2>5
          DEF Course, Early, EarlyInv, Late, Shown, objVars
<1>7. CASE HandleConnectNext(s)
  <2>1. op' = op /\ op[sends] = "connect" /\ result'[sends] # "ok"
    BY <1>2, <1>7, ChainTypes DEF HandleConnectNext, Handling, CancelOnSocket
  <2> QED BY <1>2, <1>3, <1>4, <2>1
          DEF Course, Early, EarlyInv, Late, Shown, objVars
<1> QED BY <1>5, <1>6, <1>7

\* The request is written: the response is read.
LEMMA WriteCourse ==
    ASSUME TypeOK, SeqInv, NEW s \in Sends, HandleWriteRequest(s)
    PROVE  Course'
<1>1. op[s] = "write" /\ result[s] = "ok"
  BY DEF HandleWriteRequest, Handling
<1>2. s = sends /\ Course /\ sends \in Sends
  BY <1>1, LastSend DEF SeqInv, LoadInv
<1>3. LateInv
  BY <1>1, <1>2 DEF Course, Late
<1>4. UNCHANGED <<objVars, sends, left, answering>>
  BY DEF HandleWriteRequest, connVars, histVars
<1>5. PICK outcome \in AtOnce("status", responseBuf) :
        Begin(s, "status", outcome, Tail(ready))
  BY DEF HandleWriteRequest
<1>6. outcome = "ok" => responseBuf # <<>>
  BY Starts DEF SocketKinds, ReadKinds
<1>7. op'[sends] = "status" /\ result'[sends] = outcome
  BY <1>2, <1>5, ChainTypes DEF Begin
<1> QED BY <1>1, <1>2, <1>3, <1>4, <1>6, <1>7
        DEF Course, Early, Late, LateInv, Shown, objVars

\* The status line is the first line, whole or garbled.
LEMMA StatusCourse ==
    ASSUME TypeOK, SeqInv, NEW s \in Sends, HandleReadStatusLine(s)
    PROVE  Course'
<1>1. op[s] = "status" /\ result[s] = "ok"
  BY DEF HandleReadStatusLine, Handling
<1>2. s = sends /\ Course /\ sends \in Sends
  BY <1>1, LastSend DEF SeqInv, LoadInv
<1>3. LateInv
  BY <1>1, <1>2 DEF Course, Late
<1>4. /\ state = "Opened" /\ responseHeader = Absent /\ responseBuf # <<>>
      /\ \/ Whole(0, responseBuf, left, sends)
         \/ Garbled(responseBuf, left, sends)
      /\ requestBuf = <<>> /\ (left # <<>> => answering = sends)
  BY <1>1, <1>2, <1>3 DEF LateInv
<1>5. UNCHANGED <<state, responseHeader, requestBuf, sends, left, answering>>
  BY DEF HandleReadStatusLine, connVars, histVars
<1>6. responseBuf[1] = Head(responseBuf) /\ Len(responseBuf) \in Nat \ {0}
  BY <1>4, ChainTypes, EmptySeq, LenProperties
<1>7. CASE Head(responseBuf).part = "status"
  <2>1. Whole(0, responseBuf, left, sends)
    BY <1>4, <1>6, <1>7 DEF Garbled
  <2>2. /\ Whole(1, SubSeq(responseBuf, 2, Len(responseBuf)), left, sends)
        /\ responseBuf[1] = [req |-> sends, part |-> Part(1)]
    <3>1. PICK n \in 0..1 : n = 0 /\ n + 1 = 1
      OBVIOUS
    <3>2. responseBuf \in Seq(Token) /\ left \in Seq(Parts) /\ responseBuf # <<>>
      BY <1>4, ChainTypes
    <3>3. Whole(n, responseBuf, left, sends)
      BY <2>1, <3>1
    <3>4. /\ Whole(n + 1, SubSeq(responseBuf, 2, Len(responseBuf)), left, sends)
          /\ responseBuf[1] = [req |-> sends, part |-> Part(n + 1)]
      BY <3>2, <3>3, ReadTake
    <3> QED BY <3>1, <3>4
  <2>3. PICK k \in 0..Len(responseBuf) :
          /\ Consumes(responseBuf, EndsLine, k)
          /\ responseBuf' = SubSeq(responseBuf, k + 1, Len(responseBuf))
    BY <1>4, <1>7 DEF HandleReadStatusLine, IsStatus
  <2>4. k = 1
    <3>1. EndsLine(responseBuf[1])
      BY <1>6, <1>7 DEF EndsLine
    <3>2. k # 0 /\ ~(1 \in 1..(k - 1))
      BY <1>6, <2>3, <3>1 DEF Consumes
    <3> QED BY <1>6, <3>2
  <2>5. Whole(1, responseBuf', left', sends')
    BY <1>5, <2>2, <2>3, <2>4
  <2>6. PICK outcome \in AtOnce("headers", responseBuf') :
          Begin(s, "headers", outcome, Tail(ready))
    BY <1>4, <1>7 DEF HandleReadStatusLine, IsStatus
  <2>7. /\ outcome \in {"pending", "ok", "fail"}
        /\ outcome = "ok" => responseBuf' # <<>>
    BY Starts DEF SocketKinds, ReadKinds
  <2>8. op'[sends] = "headers" /\ result'[sends] = outcome
    BY <1>2, <2>6, ChainTypes DEF Begin
  <2>9. statusCode' = sends
    BY <1>4, <1>6, <1>7, <2>2 DEF HandleReadStatusLine, IsStatus
  <2> QED BY <1>4, <1>5, <2>5, <2>7, <2>8, <2>9
          DEF Course, Early, Late, LateInv, Shown
<1>8. CASE Head(responseBuf).part # "status"
  <2>1. op'[sends] = "end"
    BY <1>2, <1>8, ChainTypes DEF HandleReadStatusLine, IsStatus, EndChain
  <2> QED BY <1>4, <1>5, <2>1 DEF Course, Early, Late, Shown
<1> QED BY <1>7, <1>8

\* The blank line is the first one left, and the content what is behind it.
LEMMA HeadersCourse ==
    ASSUME TypeOK, SeqInv, NEW s \in Sends, HandleReadHeaders(s)
    PROVE  /\ Course'
           /\ op[sends] = "headers" /\ state = "Opened"
           /\ state' = "HeadersReceived"
           /\ (io' = s /\ call' = "posted" /\ op' = op) \/ call' = call
<1>1. op[s] = "headers" /\ result[s] = "ok"
  BY DEF HandleReadHeaders, Handling
<1>2. s = sends /\ Course /\ sends \in Sends
  BY <1>1, LastSend DEF SeqInv, LoadInv
<1>3. LateInv
  BY <1>1, <1>2 DEF Course, Late
<1>4. /\ state = "Opened" /\ responseHeader = Absent /\ responseBuf # <<>>
      /\ Whole(1, responseBuf, left, sends) /\ statusCode = sends
      /\ requestBuf = <<>> /\ (left # <<>> => answering = sends)
  BY <1>1, <1>2, <1>3 DEF LateInv
<1>5. UNCHANGED <<statusCode, requestBuf, sends, left, answering>>
  BY DEF HandleReadHeaders, connVars, histVars
<1>6. /\ Whole(2, SubSeq(responseBuf, 2, Len(responseBuf)), left, sends)
      /\ responseBuf[1] = [req |-> sends, part |-> "headers"]
  <2>1. 1 \in 0..1 /\ 1 + 1 = 2 /\ Part(2) = "headers"
    BY DEF Part
  <2>2. responseBuf \in Seq(Token) /\ left \in Seq(Parts) /\ responseBuf # <<>>
    BY <1>4, ChainTypes
  <2> QED BY <1>4, <2>1, <2>2, ReadTake
<1>7. PICK k \in 0..Len(responseBuf) :
        /\ Consumes(responseBuf, IsHeaders, k)
        /\ responseBuf' = SubSeq(responseBuf, k + 1, Len(responseBuf))
        /\ responseHeader' =
             IF responseHeader = Absent /\ k > 0 /\ IsHeaders(responseBuf[k])
             THEN responseBuf[k].req ELSE responseHeader
  BY DEF HandleReadHeaders
<1>8. k = 1 /\ IsHeaders(responseBuf[1])
  <2>1. Len(responseBuf) \in Nat \ {0}
    BY <1>4, ChainTypes, EmptySeq, LenProperties
  <2>2. IsHeaders(responseBuf[1])
    BY <1>6 DEF IsHeaders
  <2>3. k # 0 /\ ~(1 \in 1..(k - 1))
    BY <1>7, <2>1, <2>2 DEF Consumes
  <2> QED BY <2>1, <2>2, <2>3
<1>9. responseHeader' = sends /\ Whole(2, responseBuf', left', sends')
  BY <1>4, <1>5, <1>6, <1>7, <1>8
<1>10. \A i \in 1..Len(responseBuf') :
          responseBuf'[i] = [req |-> sends, part |-> "body"]
  <2>1. responseBuf' \in Seq(Token)
    <3>1. responseBuf' = SubSeq(responseBuf, 2, Len(responseBuf))
      BY <1>7, <1>8
    <3> QED BY <1>4, <3>1, SuffixType, ChainTypes, EmptySeq, LenProperties
  <2> QED BY <1>5, <1>9, <2>1, ReadBody, ChainTypes
<1>11. state' = "HeadersReceived"
  BY DEF HandleReadHeaders
<1>12. CASE Announces("HeadersReceived")
  <2>1. /\ op' = op /\ io' = s /\ call' = "posted"
        /\ result' = [result EXCEPT ![s] = "none"]
    BY <1>12 DEF HandleReadHeaders
  <2>2. result'[sends] = "none"
    BY <1>2, <2>1, ChainTypes
  <2> QED BY <1>1, <1>2, <1>4, <1>5, <1>9, <1>10, <1>11, <2>1, <2>2
          DEF Course, Early, Late, LateInv, Shown
<1>13. CASE ~Announces("HeadersReceived")
  <2>1. PICK outcome \in AtOnce("content", responseBuf') :
          Begin(s, "content", outcome, Tail(ready))
    BY <1>13 DEF HandleReadHeaders
  <2>2. outcome \in {"pending", "fail"}
    BY Starts DEF SocketKinds, ReadKinds
  <2>3. op'[sends] = "content" /\ result'[sends] = outcome
    BY <1>2, <2>1, ChainTypes DEF Begin
  <2>4. call' = call
    BY <1>13 DEF HandleReadHeaders
  <2> QED BY <1>1, <1>2, <1>4, <1>5, <1>9, <1>10, <1>11, <2>2, <2>3, <2>4
          DEF Course, Early, Late, LateInv, Shown
<1> QED BY <1>12, <1>13

\* The end of the stream is the end of the load.
LEMMA ContentCourse ==
    ASSUME TypeOK, CompletionsQueuedOnce, SeqInv, NEW s \in Sends,
           HandleReadContent(s)
    PROVE  /\ Course'
           /\ state = "HeadersReceived" /\ state' = "Done"
           /\ op' = [op EXCEPT ![s] = "end"]
           /\ (io' = s /\ call' = "posted") \/ call' = call
<1>1. op[s] = "content" /\ result[s] # "fail"
  BY DEF HandleReadContent, Handling
<1>2. s = sends /\ Course /\ sends \in Sends
  BY <1>1, LastSend DEF SeqInv, LoadInv
<1>3. LateInv
  BY <1>1, <1>2 DEF Course, Late
<1>4. /\ state = "HeadersReceived" /\ result[sends] # "ok"
      /\ requestBuf = <<>> /\ Shown
  BY <1>1, <1>2, <1>3 DEF LateInv, Course
<1>5. result[s] = "eof"
  <2>1. \E i \in 1..Len(ready) : ready[i] = s
    <3>1. ready # <<>> /\ Head(ready) = s /\ ready \in Seq(Sends)
      BY DEF HandleReadContent, Handling, TypeOK, IoType
    <3>2. 1 \in 1..Len(ready) /\ ready[1] = s
      BY <3>1, EmptySeq, LenProperties
    <3> QED BY <3>2
  <2>2. result[s] \in Outcomes
    BY <2>1 DEF CompletionsQueuedOnce
  <2> QED BY <1>1, <1>2, <1>4, <2>2 DEF Outcomes
<1>6. /\ EndChain(s, Tail(ready)) /\ state' = "Done"
      /\ UNCHANGED <<requestBuf, responseBuf, statusCode, responseHeader, sends>>
      /\ (io' = s /\ call' = "posted") \/ call' = call
  BY <1>5 DEF HandleReadContent, histVars
<1>7. op' = [op EXCEPT ![s] = "end"] /\ op'[sends] = "end"
  BY <1>2, <1>6, ChainTypes DEF EndChain
<1> QED BY <1>4, <1>6, <1>7 DEF Course, Early, Late, Shown

\* After the callback the content is read.
LEMMA ResumeCourse ==
    ASSUME TypeOK, InvokeAgrees, SeqInv, Resume, op[io] = "headers"
    PROVE  /\ Course' /\ HasSent
           /\ \A d \in Sends : d # sends => op'[d] = op[d]
<1>1. io \in Sends
  BY DEF Resume, InvokeAgrees, TypeOK, IoType, Sends
<1>2. io = sends /\ Course /\ HasSent /\ sends \in Sends
  BY <1>1, LastSend DEF SeqInv, LoadInv
<1>3. result[sends] = "none"
  BY <1>1, <1>2 DEF InvokeAgrees, Sends
<1>4. LateInv
  BY <1>2 DEF Course, Late
<1>5. /\ state = "HeadersReceived" /\ Whole(2, responseBuf, left, sends)
      /\ requestBuf = <<>> /\ (left # <<>> => answering = sends) /\ Shown
  BY <1>2, <1>3, <1>4 DEF LateInv, Course
<1>6. PICK outcome \in AtOnce("content", responseBuf) :
        Begin(io, "content", outcome, ready)
  BY DEF Resume
<1>7. outcome # "ok"
  BY Starts DEF SocketKinds, ReadKinds
<1>8. /\ op'[sends] = "content" /\ result'[sends] = outcome
      /\ \A d \in Sends : d # sends => op'[d] = op[d]
  BY <1>2, <1>6, ChainTypes DEF Begin
<1>9. UNCHANGED <<objVars, left, answering, sends>>
  BY DEF Resume, connVars, histVars
<1> QED BY <1>2, <1>5, <1>7, <1>8, <1>9
        DEF Course, Early, Late, LateInv, Shown, objVars

\* The network ends operations of the last load only.
LEMMA NetworkCourse ==
    ASSUME TypeOK, SeqInv, NEW s \in Sends, Network(s)
    PROVE  Course' /\ s = sends /\ HasSent
<1>1. op[s] \notin {"idle", "end"} /\ result[s] = "pending"
  BY DEF Network, Resolved, Connected, Written, Arrive, Eof, Fail, Pending,
     Reading, SocketKinds, ReadKinds
<1>2. s = sends /\ Course /\ sends \in Sends /\ HasSent
  BY <1>1, LastSend DEF SeqInv, LoadInv
<1> SUFFICES Course'
  BY <1>2
<1>3. op[sends] # "end" /\ result[sends] = "pending" /\ state # "Done" /\ Shown
  BY <1>1, <1>2 DEF Course, Shown
<1>4. CASE Resolved(s)
  <2>1. op[sends] = "resolve" /\ EarlyInv
    BY <1>2, <1>4 DEF Resolved, Pending, Course, Early
  <2>2. UNCHANGED <<objVars, connVars, op, sends, handed>>
    BY <1>4 DEF Resolved, histVars
  <2> QED BY <1>3, <2>1, <2>2
          DEF Course, Early, EarlyInv, Late, Shown, objVars, connVars
<1>5. CASE Connected(s)
  <2>1. op[sends] = "connect" /\ EarlyInv
    BY <1>2, <1>5 DEF Connected, Pending, Course, Early
  <2>2. /\ UNCHANGED <<objVars, op, sends, target, handed>>
        /\ socket' = "connected" /\ host' = target[sends] /\ answering' = 0
    BY <1>2, <1>5 DEF Connected, histVars
  <2> QED BY <1>3, <2>1, <2>2
          DEF Course, Early, EarlyInv, Connection, Late, Shown, objVars
<1>6. CASE Written(s)
  <2>1. op[sends] = "write" /\ EarlyInv
    BY <1>2, <1>3, <1>6 DEF Written, Pending, Course, Early
  <2>2. /\ answering = 0 /\ outgoing[sends] = <<sends>>
        /\ state = "Opened" /\ responseHeader = Absent
        /\ requestBuf = <<sends>> /\ responseBuf = <<>>
    BY <1>3, <2>1 DEF EarlyInv, Connection
  <2>3. /\ requestBuf' = SubSeq(requestBuf, Len(outgoing[sends]) + 1, Len(requestBuf))
        /\ answering' = Head(outgoing[sends])
        /\ left' \in {<<"status", "headers", "body">>, <<"garbage">>}
    BY <1>2, <1>6, <2>2 DEF Written
  <2>4. requestBuf' = <<>> /\ answering' = sends
    BY <2>2, <2>3
  <2>5. /\ UNCHANGED <<state, responseBuf, responseHeader, op, sends>>
        /\ result'[sends] = "ok"
    BY <1>2, <1>6, ChainTypes DEF Written, Complete
  <2>6. \/ Whole(0, responseBuf', left', sends')
        \/ Garbled(responseBuf', left', sends')
    BY <2>2, <2>3, <2>5, ReadBegin
  <2> QED BY <2>1, <2>2, <2>4, <2>5, <2>6
          DEF Course, Early, Late, LateInv, Shown
<1>7. CASE Arrive(s)
  <2>1. op[sends] \in ReadKinds /\ LateInv
    BY <1>2, <1>7 DEF Arrive, Reading, Course, Late, ReadKinds
  <2>2. PICK m \in 1..Len(left) :
          /\ responseBuf' = responseBuf \o
               [i \in 1..m |-> [req |-> answering, part |-> left[i]]]
          /\ left' = SubSeq(left, m + 1, Len(left))
    BY <1>7 DEF Arrive
  <2>3. left # <<>> /\ answering = sends
    <3>1. left # <<>>
      BY <2>2
    <3> QED BY <2>1, <3>1 DEF LateInv
  <2>4. /\ UNCHANGED <<state, requestBuf, statusCode, responseHeader, sends>>
        /\ UNCHANGED <<answering, op>>
    BY <1>7 DEF Arrive, histVars
  <2>5. \A n \in 0..2 : Whole(n, responseBuf, left, sends)
                          => Whole(n, responseBuf', left', sends')
    BY <1>2, <2>2, <2>3, <2>4, ReadMove, ChainTypes
  <2>6. Garbled(responseBuf, left, sends) => Garbled(responseBuf', left', sends')
    <3>1. 0 \in 0..2
      OBVIOUS
    <3> QED BY <1>2, <2>2, <2>3, <2>4, <3>1, ReadMove, ChainTypes
  <2>7. /\ result'[sends] \in {"pending", "ok"}
        /\ result'[sends] = "ok" =>
              op[sends] \in {"status", "headers"} /\ responseBuf' # <<>>
    <3>1. CASE Delimited(op[s], responseBuf')
      <4>1. responseBuf' # <<>> /\ op[sends] \in {"status", "headers"}
        <5>1. DOMAIN <<>> = {}
          OBVIOUS
        <5> QED BY <1>2, <3>1, <5>1 DEF Delimited
      <4>2. result'[sends] = "ok"
        BY <1>2, <1>7, <3>1, ChainTypes DEF Arrive, Complete
      <4> QED BY <4>1, <4>2
    <3>2. CASE ~Delimited(op[s], responseBuf')
      BY <1>3, <1>7, <3>2 DEF Arrive
    <3> QED BY <3>1, <3>2
  <2>8. CASE op[sends] = "status"
    <3>1. /\ state = "Opened" /\ responseHeader = Absent /\ requestBuf = <<>>
          /\ \/ Whole(0, responseBuf, left, sends)
             \/ Garbled(responseBuf, left, sends)
      BY <2>1, <2>8 DEF LateInv
    <3>2. \/ Whole(0, responseBuf', left', sends')
          \/ Garbled(responseBuf', left', sends')
      BY <2>5, <2>6, <3>1
    <3> QED BY <2>3, <2>4, <2>7, <2>8, <3>1, <3>2
            DEF Course, Early, Late, LateInv, Shown
  <2>9. CASE op[sends] = "headers"
    <3>1. /\ state = "Opened" /\ responseHeader = Absent /\ requestBuf = <<>>
          /\ statusCode = sends /\ Whole(1, responseBuf, left, sends)
      BY <1>3, <2>1, <2>9 DEF LateInv
    <3>2. Whole(1, responseBuf', left', sends')
      BY <2>5, <3>1
    <3> QED BY <2>3, <2>4, <2>7, <2>9, <3>1, <3>2
            DEF Course, Early, Late, LateInv, Shown
  <2>10. CASE op[sends] = "content"
    <3>1. /\ state = "HeadersReceived" /\ requestBuf = <<>>
          /\ Whole(2, responseBuf, left, sends)
          /\ statusCode = sends /\ responseHeader = sends
      BY <1>3, <2>1, <2>10 DEF LateInv, Shown
    <3>2. Whole(2, responseBuf', left', sends')
      BY <2>5, <3>1
    <3>3. responseBuf' \in Seq(Token)
      <4>1. PICK k \in Nat : k = Len(left)
        BY ChainTypes, LenProperties
      <4>2. \A i \in 1..m : left[i] \in Parts
        BY <2>2, <4>1, ChainTypes, ElementOfSeq
      <4>3. [i \in 1..m |-> [req |-> answering, part |-> left[i]]] \in Seq(Token)
        BY <1>2, <2>2, <2>3, <4>1, <4>2 DEF Token
      <4> QED BY <2>2, <4>3, ChainTypes, ConcatProperties
    <3>4. left' \in Seq(Parts)
      BY <2>2, SuffixType, ChainTypes, LenProperties
    <3>5. \A i \in 1..Len(responseBuf') :
             responseBuf'[i] = [req |-> sends, part |-> "body"]
      BY <2>4, <3>2, <3>3, <3>4, ReadBody
    <3> QED BY <2>3, <2>4, <2>7, <2>10, <3>1, <3>2, <3>5
            DEF Course, Early, Late, LateInv, Shown
  <2> QED BY <2>1, <2>8, <2>9, <2>10 DEF ReadKinds
<1>8. CASE Eof(s) \/ Fail(s)
  <2>1. /\ UNCHANGED <<objVars, op, sends, target, handed>>
        /\ result'[sends] \in {"eof", "fail"}
    BY <1>2, <1>8, ChainTypes DEF Eof, Fail, Complete, histVars
  <2>2. op[sends] # "write" => (left' = <<>> /\ answering' = 0)
                              \/ (left' = left /\ answering' = answering)
                              \/ (left' = <<>> /\ answering' = answering)
    BY <1>8 DEF Eof, Fail, Disconnect, connVars
  <2>3. Early => EarlyInv
    BY <1>2 DEF Course
  <2>4. CASE Early
    <3>1. op[sends] = "resolve" => socket' = socket
      BY <1>2, <1>8, <2>4 DEF Eof, Fail, Reading, ReadKinds, connVars
    <3> QED BY <1>3, <2>1, <2>3, <2>4, <3>1
            DEF Course, Early, EarlyInv, Late, Shown, objVars
  <2>5. CASE ~Early
    <3>1. op[sends] \in ReadKinds /\ LateInv
      BY <1>1, <1>2, <1>3, <2>5, ChainTypes
         DEF Early, Late, Course, Kinds, SocketKinds, ReadKinds
    <3>2. /\ \A n \in 0..2 : Whole(n, responseBuf, left, sends)
                              => Whole(n, responseBuf, <<>>, sends)
          /\ Garbled(responseBuf, left, sends) => Garbled(responseBuf, <<>>, sends)
      <4>1. 0 \in 0..2
        OBVIOUS
      <4> QED BY <4>1, ReadCut, ChainTypes
    <3>3. /\ \A n \in 0..2 : Whole(n, responseBuf, left, sends)
                              => Whole(n, responseBuf', left', sends')
          /\ Garbled(responseBuf, left, sends) => Garbled(responseBuf', left', sends')
          /\ left' # <<>> => answering' = sends'
      BY <2>1, <2>2, <3>1, <3>2 DEF ReadKinds, LateInv, objVars
    <3>4. 0 \in 0..2 /\ 1 \in 0..2 /\ 2 \in 0..2
      OBVIOUS
    <3> QED BY <1>2, <1>3, <2>1, <3>1, <3>3, <3>4
            DEF Course, Early, Late, LateInv, Shown, objVars, ReadKinds
  <2> QED BY <2>4, <2>5
<1> QED BY <1>2, <1>4, <1>5, <1>6, <1>7, <1>8 DEF Network

\* A text of one request holds that request once.
LEMMA CopiesOfOne ==
    ASSUME NEW c, NEW r
    PROVE  Copies(r, <<c>>) = IF r = c THEN 1 ELSE 0
<1>1. {i \in DOMAIN <<c>> : <<c>>[i] = r} = IF r = c THEN {1} ELSE {}
  BY DOMAIN <<c>> = {1}
<1> QED BY <1>1, FS_EmptySet, FS_Singleton DEF Copies

\* A request that is written was not handed to a server before.
LEMMA HandedNetwork ==
    ASSUME TypeOK, SeqInv, NEW s \in Sends, Network(s)
    PROVE  HandedInv'
<1>1. s = sends /\ HasSent /\ Course /\ UNCHANGED sends /\ HandedInv
  BY NetworkCourse DEF SeqInv, LoadInv, Network, Resolved, Connected, Written,
     Arrive, Eof, Fail, histVars
<1>2. CASE Written(s)
  <2>1. EarlyInv /\ op[sends] = "write" /\ result[sends] = "pending"
    BY <1>1, <1>2 DEF Written, Pending, Course, Early
  <2>2. outgoing[sends] = <<sends>> /\ handed[sends] = 0
    BY <2>1 DEF EarlyInv
  <2>3. handed' = [r \in Sends |-> handed[r] + Copies(r, <<sends>>)]
    BY <1>1, <1>2, <2>2 DEF Written
  <2>4. \A r \in Sends : handed'[r] = IF r = sends THEN 1 ELSE handed[r]
    <3> SUFFICES ASSUME NEW r \in Sends
                 PROVE  handed'[r] = IF r = sends THEN 1 ELSE handed[r]
      OBVIOUS
    <3>1. handed'[r] = handed[r] + (IF r = sends THEN 1 ELSE 0)
      BY <2>3, CopiesOfOne
    <3> QED BY <2>2, <3>1, ChainTypes
  <2>5. ~(sends > sends)
    BY <1>1 DEF Sends
  <2> QED BY <1>1, <2>4, <2>5 DEF HandedInv
<1>3. CASE ~Written(s)
  <2>1. handed' = handed
    BY <1>3 DEF Network, Resolved, Connected, Arrive, Eof, Fail, histVars
  <2> QED BY <1>1, <2>1 DEF HandedInv
<1> QED BY <1>2, <1>3

\* The network keeps the invariant.
LEMMA NetworkKeeps ==
    ASSUME TypeOK, SeqInv, NEW s \in Sends, Network(s)
    PROVE  SeqInv'
<1>1. /\ UNCHANGED <<op, state, io, call, stack, aborted>>
      /\ UNCHANGED <<opens, sends, target>>
  BY DEF Network, Resolved, Connected, Written, Arrive, Eof, Fail, objVars,
     histVars
<1>2. LoadInv'
  BY <1>1, NetworkCourse, ChainStep
<1>3. ScriptInv'
  BY <1>1 DEF SeqInv, ScriptInv, Opening
<1> QED BY <1>2, <1>3, HandedNetwork DEF SeqInv

\* The handlers keep the invariant.
LEMMA IoKeeps ==
    ASSUME TypeOK, InvokeAgrees, CompletionsQueuedOnce, SeqInv,
           NEW s \in Sends, Io(s)
    PROVE  SeqInv'
<1>1. op[s] \notin {"idle", "end"} /\ io = 0
  BY DEF Io, HandleError, HandleResolve, HandleConnect, HandleConnectNext,
     HandleWriteRequest, HandleReadStatusLine, HandleReadHeaders,
     HandleReadContent, Handling, SocketKinds, ReadKinds
<1>2. s = sends /\ HasSent /\ Course /\ call # "posted"
  BY <1>1, LastSend DEF SeqInv, LoadInv, InvokeAgrees
<1>3. /\ UNCHANGED <<opens, sends, target, handed, stack, aborted>>
      /\ \A d \in Sends : d # sends => op'[d] = op[d]
  <2>1. UNCHANGED <<opens, sends, target, handed, stack, aborted>>
    BY DEF Io, HandleError, HandleResolve, HandleConnect, HandleConnectNext,
       HandleWriteRequest, HandleReadStatusLine, HandleReadHeaders,
       HandleReadContent, objVars, histVars
  <2>2. op' = op \/ \E kind : op' = [op EXCEPT ![s] = kind]
    BY DEF Io, HandleError, HandleResolve, HandleConnect, HandleConnectNext,
       HandleWriteRequest, HandleReadStatusLine, HandleReadHeaders,
       HandleReadContent, Begin, EndChain
  <2> QED BY <1>2, <2>1, <2>2, ChainTypes
<1>4. CASE HandleReadHeaders(s)
  <2>1. /\ Course' /\ op[sends] = "headers" /\ state = "Opened"
        /\ state' = "HeadersReceived"
        /\ (io' = s /\ call' = "posted" /\ op' = op) \/ call' = call
    BY <1>2, <1>4, HeadersCourse
  <2>2. ScriptInv'
    BY <1>2, <1>3, <2>1, ScriptKeeps
  <2> QED BY <1>2, <1>3, <2>1, <2>2, ChainStep DEF SeqInv, HandedInv
<1>5. CASE HandleReadContent(s)
  <2>1. /\ Course' /\ state = "HeadersReceived" /\ state' = "Done"
        /\ op' = [op EXCEPT ![s] = "end"]
        /\ (io' = s /\ call' = "posted") \/ call' = call
    BY <1>5, ContentCourse
  <2>2. op'[s] = "end"
    BY <2>1, ChainTypes
  <2>3. ScriptInv'
    BY <1>2, <1>3, <2>1, <2>2, ScriptKeeps
  <2> QED BY <1>2, <1>3, <2>1, <2>3, ChainStep DEF SeqInv, HandedInv
<1>6. CASE ~HandleReadHeaders(s) /\ ~HandleReadContent(s)
  <2>1. Course'
    BY <1>6, ErrorCourse, EarlyCourse, WriteCourse, StatusCourse DEF Io
  <2>2. UNCHANGED <<state, call>>
    BY <1>6 DEF Io, HandleError, HandleResolve, HandleConnect,
       HandleConnectNext, HandleWriteRequest, HandleReadStatusLine, objVars
  <2>3. ScriptInv'
    BY <1>2, <1>3, <2>2, ScriptKeeps
  <2> QED BY <1>2, <1>3, <2>1, <2>3, ChainStep DEF SeqInv, HandedInv
<1> QED BY <1>4, <1>5, <1>6

\* The end of a callback on the io thread keeps the invariant.
LEMMA ResumeKeeps ==
    ASSUME TypeOK, InvokeAgrees, SeqInv, Resume
    PROVE  SeqInv'
<1>1. /\ UNCHANGED <<objVars, connVars, stack, histVars>> /\ call' = "none"
  BY DEF Resume
<1>2. ScriptInv'
  BY <1>1, ScriptKeeps DEF objVars, histVars
<1>3. LoadInv'
  <2>1. CASE op[io] = "headers"
    BY <1>1, <2>1, ResumeCourse, ChainStep DEF histVars
  <2>2. CASE op[io] # "headers"
    <3>1. UNCHANGED <<op, result>>
      BY <2>2 DEF Resume
    <3> QED BY <1>1, <3>1 DEF SeqInv, LoadInv, Past, Idle, Course, HasSent,
            Early, EarlyInv, Connection, Late, LateInv, Shown, objVars,
            connVars, histVars
  <2> QED BY <2>1, <2>2
<1>4. HandedInv'
  BY <1>1 DEF SeqInv, HandedInv, histVars
<1> QED BY <1>2, <1>3, <1>4 DEF SeqInv

(***************************************************************************)
(* The main thread                                                         *)
(***************************************************************************)
\* A step that leaves the object and its chains alone keeps what is said of
\* them.
LEMMA LoadSame ==
    ASSUME SeqInv, UNCHANGED <<connVars, op, result, histVars>>,
           UNCHANGED <<state, requestBuf, responseBuf, statusCode,
                       responseHeader>>
    PROVE  LoadInv' /\ HandedInv'
  BY DEF SeqInv, LoadInv, HandedInv, Past, Idle, Course, HasSent, Early,
     EarlyInv, Connection, Late, LateInv, Shown, connVars, histVars

\* The calls on the stack have frames of their kind.
LEMMA StackTypes ==
    ASSUME TypeOK
    PROVE  /\ stack \in Seq(Frame) /\ Len(stack) \in Nat
           /\ stack # <<>> => /\ Len(stack) > 0 /\ Head(stack) = stack[1]
                             /\ Tail(stack) \in Seq(Frame)
                             /\ Len(Tail(stack)) = Len(stack) - 1
                             /\ \A i \in 1..(Len(stack) - 1) :
                                   Tail(stack)[i] = stack[i + 1]
           /\ \A i \in 1..Len(stack) :
                 stack[i].at \in {"unsent", "finish", "opened", "io"}
<1>1. stack \in Seq(Frame) /\ Len(stack) \in Nat
  BY LenProperties DEF TypeOK, ScriptType
<1>2. stack # <<>> => /\ Len(stack) > 0 /\ Head(stack) = stack[1]
                     /\ Tail(stack) \in Seq(Frame)
                     /\ Len(Tail(stack)) = Len(stack) - 1
                     /\ \A i \in 1..(Len(stack) - 1) :
                           Tail(stack)[i] = stack[i + 1]
  BY <1>1, EmptySeq, HeadTailProperties
<1>3. \A i \in 1..Len(stack) : stack[i] \in Frame
  BY <1>1, ElementOfSeq
<1> QED BY <1>1, <1>2, <1>3 DEF Frame

\* A call is put on the stack: the others are below it.
LEMMA StackPush ==
    ASSUME TypeOK, NEW frame, NEW below, below \in Seq(Frame),
           stack' = <<frame>> \o below
    PROVE  /\ stack' # <<>> /\ Head(stack') = frame
           /\ Len(stack') = Len(below) + 1
           /\ \A i \in 2..Len(stack') : i - 1 \in 1..Len(below)
                                       /\ stack'[i] = below[i - 1]
<1>1. PICK n \in Nat : n = Len(below)
  BY LenProperties
<1>2. <<frame>> \in Seq({frame} \cup Frame) /\ below \in Seq({frame} \cup Frame)
  BY SeqMonotonic
<1>3. Len(<<frame>>) = 1 /\ <<frame>>[1] = frame
  OBVIOUS
<1>4. /\ stack' \in Seq({frame} \cup Frame) /\ Len(stack') = 1 + n
      /\ \A i \in 1..(1 + n) :
            stack'[i] = IF i <= 1 THEN <<frame>>[i] ELSE below[i - 1]
  BY <1>1, <1>2, <1>3, ConcatProperties, Zenon
<1>5. stack' # <<>> /\ Head(stack') = stack'[1] /\ stack'[1] = frame
  BY <1>1, <1>3, <1>4, EmptySeq
<1>6. \A i \in 2..(1 + n) : /\ i \in 1..(1 + n) /\ ~(i <= 1)
                            /\ i - 1 \in 1..n
  BY <1>1
<1> QED BY <1>1, <1>4, <1>5, <1>6

\* Below the innermost call there is no jsOpen.
LEMMA BelowInnermost ==
    ASSUME TypeOK, SeqInv, stack # <<>>
    PROVE  /\ \A i \in 1..Len(Tail(stack)) : Tail(stack)[i].at \in {"opened", "io"}
           /\ Tail(stack) # <<>> => Head(Tail(stack)).at \in {"opened", "io"}
<1>1. PICK n \in Nat : n = Len(stack)
  BY StackTypes
<1>2. \A i \in 2..n : stack[i].at \in {"opened", "io"}
  BY <1>1 DEF SeqInv, ScriptInv
<1>3. /\ Len(Tail(stack)) = n - 1 /\ Tail(stack) \in Seq(Frame)
      /\ \A i \in 1..(n - 1) : Tail(stack)[i] = stack[i + 1]
  BY <1>1, StackTypes
<1>4. \A i \in 1..(n - 1) : i + 1 \in 2..n
  BY <1>1
<1>5. \A i \in 1..(n - 1) : Tail(stack)[i].at \in {"opened", "io"}
  BY <1>2, <1>3, <1>4
<1>6. ASSUME Tail(stack) # <<>>
      PROVE  Head(Tail(stack)) = Tail(stack)[1] /\ 1 \in 1..(n - 1)
  BY <1>1, <1>3, <1>6, EmptySeq, HeadTailProperties
<1> QED BY <1>3, <1>5, <1>6

\* A callback is posted for a load.
LEMMA PostedLoad ==
    ASSUME TypeOK, InvokeAgrees, SeqInv, call = "posted"
    PROVE  opens > 0
<1>1. io \in Sends /\ op[io] \in {"headers", "end"}
  BY DEF SeqInv, ScriptInv, InvokeAgrees, TypeOK, IoType, Sends
<1>2. sends > 0 /\ opens \in Nat /\ sends \in Nat
  BY <1>1, BoundsAssumption DEF TypeOK, OperationsType, ScriptType, Sends
<1> QED BY <1>2 DEF SeqInv, ScriptInv

\* open() between two loads.
LEMMA OpenKeeps == ASSUME TypeOK, InvokeAgrees, SeqInv, OpenNext PROVE SeqInv'
<1>1. /\ stack' = <<[at |-> IF Announces("Unsent") THEN "unsent" ELSE "finish",
                     load |-> opens + 1]>> \o stack
      /\ opens' = opens + 1 /\ ~aborted' /\ state' = "Unsent"
      /\ responseHeader' = Absent /\ socket' = "closed"
      /\ UNCHANGED <<requestBuf, responseBuf, op, io, call, sends, target, handed>>
  BY DEF OpenNext, Open, Push, Disconnect
<1>2. opens \in Nat /\ sends \in Nat
  BY BoundsAssumption DEF TypeOK, ScriptType
<1>3. /\ opens = 0 \/ (state = "Done" /\ call # "posted" /\ responseBuf = <<>>)
      /\ ScriptInv /\ LoadInv /\ HandedInv
  BY DEF OpenNext, SeqInv
<1>4. /\ requestBuf = <<>> /\ responseBuf = <<>>
      /\ sends > 0 => op[sends] = "end"
      /\ opens = 0 => sends = 0
  <2>1. CASE opens = 0
    BY <1>2, <1>3, <2>1 DEF ScriptInv, LoadInv, HasSent, Idle
  <2>2. CASE opens > 0 /\ state = "Done" /\ responseBuf = <<>>
    BY <1>3, <2>2 DEF LoadInv, Idle, Course, Shown
  <2> QED BY <1>2, <1>3, <2>1, <2>2
<1>5. call # "posted"
  BY <1>2, <1>3, PostedLoad
<1>6. /\ opens' > 0 /\ opens' # 0 /\ \A n \in 1..opens : n \in 1..opens' /\ n # opens'
  BY <1>1, <1>2
<1>7. Past' /\ ~HasSent'
  <2>1. Past'
    BY <1>1, <1>3, <1>6 DEF LoadInv, Past
  <2>2. sends > 0 => target[sends] \in 1..opens
    BY <1>2, <1>3 DEF LoadInv, Past, TypeOK, ScriptType, Sends
  <2> QED BY <1>1, <1>6, <2>1, <2>2 DEF HasSent
<1>8. LoadInv' /\ HandedInv'
  BY <1>1, <1>3, <1>4, <1>7 DEF LoadInv, Idle, HandedInv
<1>9. ScriptInv'
  <2>1. stack \in Seq(Frame)
    BY StackTypes
  <2>2. /\ stack' # <<>> /\ Head(stack').at \in {"unsent", "finish"}
        /\ Head(stack').load = opens'
        /\ Len(stack') = Len(stack) + 1
        /\ \A i \in 2..Len(stack') : i - 1 \in 1..Len(stack)
                                    /\ stack'[i] = stack[i - 1]
    <3> DEFINE frame == [at |-> IF Announces("Unsent") THEN "unsent" ELSE "finish",
                         load |-> opens + 1]
    <3>1. frame.at \in {"unsent", "finish"} /\ frame.load = opens'
      BY <1>1
    <3>2. stack' = <<frame>> \o stack
      BY <1>1
    <3> HIDE DEF frame
    <3> QED BY <2>1, <3>1, <3>2, StackPush
  <2>3. \A i \in 1..Len(stack) : stack[i].at \in {"opened", "io"}
    <3>1. CASE stack = <<>>
      BY <3>1
    <3>2. CASE stack # <<>>
      <4>1. ~Opening
        BY <1>3, <3>2 DEF ScriptInv
      <4>2. stack[1].at \in {"opened", "io"} /\ Len(stack) \in Nat
        BY <3>2, <4>1, StackTypes DEF Opening
      <4>3. \A i \in 1..Len(stack) : i = 1 \/ i \in 2..Len(stack)
        BY <4>2
      <4> QED BY <1>3, <4>2, <4>3 DEF ScriptInv
    <3> QED BY <3>1, <3>2
  <2> QED BY <1>1, <1>5, <1>6, <2>2, <2>3 DEF ScriptInv, Opening
<1> QED BY <1>8, <1>9 DEF SeqInv

\* The rest of jsOpen.
LEMMA FinishKeeps == ASSUME TypeOK, SeqInv, FinishOpen PROVE SeqInv'
<1>1. /\ ScriptInv /\ LoadInv /\ HandedInv /\ Opening
      /\ stack # <<>> /\ Head(stack).at = "finish"
  BY DEF FinishOpen, Innermost, SeqInv, Opening
<1>2. opens > 0 /\ state = "Unsent" /\ ~aborted
  BY <1>1 DEF ScriptInv
<1>3. /\ state' = "Opened"
      /\ \/ stack' = Tail(stack)
         \/ stack' = <<[at |-> "opened", load |-> url']>> \o Tail(stack)
      /\ UNCHANGED <<aborted, requestBuf, responseBuf, responseHeader>>
      /\ UNCHANGED <<connVars, ioVars, histVars>>
  BY <1>2 DEF FinishOpen
<1>4. ~HasSent /\ call # "posted"
  BY <1>1, <1>2 DEF LoadInv, Course, ScriptInv
<1>5. LoadInv' /\ HandedInv'
  BY <1>1, <1>3, <1>4 DEF LoadInv, HandedInv, HasSent, Past, Idle, connVars,
     ioVars, histVars
<1>6. /\ ~Opening'
      /\ \A i \in 2..Len(stack') : stack'[i].at \in {"opened", "io"}
  <2>1. PICK n \in Nat : n = Len(Tail(stack))
    BY <1>1, StackTypes, LenProperties
  <2>2. CASE stack' = Tail(stack)
    <3>1. \A i \in 2..n : i \in 1..n
      BY <2>1
    <3> QED BY <1>1, <2>1, <2>2, <3>1, BelowInnermost DEF Opening
  <2>3. CASE stack' = <<[at |-> "opened", load |-> url']>> \o Tail(stack)
    <3> DEFINE frame == [at |-> "opened", load |-> url']
    <3>1. frame.at = "opened" /\ stack' = <<frame>> \o Tail(stack)
      BY <2>3
    <3>2. Tail(stack) \in Seq(Frame)
      BY <1>1, StackTypes
    <3> HIDE DEF frame
    <3>3. /\ Head(stack') = frame
          /\ \A i \in 2..Len(stack') : i - 1 \in 1..Len(Tail(stack))
                                      /\ stack'[i] = Tail(stack)[i - 1]
      BY <3>1, <3>2, StackPush
    <3>4. \A i \in 1..Len(Tail(stack)) : Tail(stack)[i].at \in {"opened", "io"}
      BY <1>1, BelowInnermost
    <3> QED BY <3>1, <3>3, <3>4 DEF Opening
  <2> QED BY <1>3, <2>2, <2>3
<1>7. ScriptInv'
  BY <1>2, <1>3, <1>4, <1>6 DEF ScriptInv, ioVars, histVars
<1> QED BY <1>5, <1>7 DEF SeqInv

\* A callback of the script returns.
LEMMA ReturnKeeps == ASSUME TypeOK, SeqInv, Return PROVE SeqInv'
<1>1. /\ UNCHANGED <<objVars, connVars, histVars, op, io>> /\ result' = result
      /\ stack # <<>> /\ Head(stack).at # "finish" /\ ScriptInv
      /\ call' = "posted" => call = "posted"
  BY DEF Return, JsRuns, Innermost, SeqInv
<1>2. LoadInv' /\ HandedInv'
  BY <1>1, LoadSame DEF objVars
<1>3. /\ Opening' <=> Opening
      /\ Opening' => Head(stack').load = Head(stack).load
      /\ \A i \in 2..Len(stack') : stack'[i].at \in {"opened", "io"}
  <2>1. CASE Head(stack).at = "unsent"
    <3> DEFINE frame == [at |-> "finish", load |-> Head(stack).load]
    <3>1. /\ frame.at = "finish" /\ frame.load = Head(stack).load
          /\ stack' = <<frame>> \o Tail(stack)
      BY <1>1, <2>1 DEF Return, Innermost
    <3>2. Tail(stack) \in Seq(Frame)
      BY <1>1, StackTypes
    <3> HIDE DEF frame
    <3>3. /\ stack' # <<>> /\ Head(stack') = frame
          /\ \A i \in 2..Len(stack') : i - 1 \in 1..Len(Tail(stack))
                                      /\ stack'[i] = Tail(stack)[i - 1]
      BY <3>1, <3>2, StackPush
    <3>4. \A i \in 1..Len(Tail(stack)) : Tail(stack)[i].at \in {"opened", "io"}
      BY <1>1, BelowInnermost
    <3> QED BY <1>1, <2>1, <3>1, <3>3, <3>4 DEF Opening
  <2>2. CASE Head(stack).at # "unsent"
    <3>1. stack' = Tail(stack)
      BY <2>2 DEF Return, Innermost
    <3>2. PICK n \in Nat : n = Len(Tail(stack))
      BY <1>1, StackTypes, LenProperties
    <3>3. \A i \in 2..n : i \in 1..n
      BY <3>2
    <3> QED BY <1>1, <2>2, <3>1, <3>2, <3>3, BelowInnermost DEF Opening
  <2> QED BY <2>1, <2>2
<1> QED BY <1>1, <1>2, <1>3 DEF SeqInv, ScriptInv, objVars, histVars

\* The callback of the io thread begins.
LEMMA RunKeeps ==
    ASSUME TypeOK, InvokeAgrees, SeqInv, RunIoCallback
    PROVE  SeqInv'
<1>1. /\ UNCHANGED <<objVars, connVars, histVars, op, io>> /\ result' = result
      /\ stack = <<>> /\ call' = "running" /\ ScriptInv
      /\ stack' = <<[at |-> "io", load |-> 0]>> \o stack
  BY DEF RunIoCallback, Push, SeqInv
<1>2. LoadInv' /\ HandedInv'
  BY <1>1, LoadSame DEF objVars
<1>3. stack' = <<[at |-> "io", load |-> 0]>>
  BY <1>1
<1>4. /\ Head(stack').at = "io" /\ Len(stack') = 1
      /\ \A i \in 2..1 : FALSE
  BY <1>3
<1>5. opens > 0 /\ opens # 0 /\ ~Opening /\ ~Opening'
  BY <1>1, <1>4, PostedLoad DEF RunIoCallback, Opening, TypeOK, ScriptType
<1> QED BY <1>1, <1>2, <1>4, <1>5 DEF SeqInv, ScriptInv, objVars, histVars

\* send() after open().
LEMMA SendKeeps ==
    ASSUME TypeOK, InvokeAgrees, SeqInv, SendOnce
    PROVE  SeqInv'
<1>1. /\ opens > 0 /\ url = opens /\ state = "Opened" /\ ~HasSent /\ Idle
      /\ sends < MaxSends /\ sends' = sends + 1 /\ ~aborted'
      /\ requestBuf' = Append(requestBuf, sends + 1)
      /\ target' = [target EXCEPT ![sends + 1] = url]
      /\ op' = [op EXCEPT ![sends + 1] = "resolve"]
      /\ UNCHANGED <<state, responseBuf, responseHeader, connVars, io, call>>
      /\ UNCHANGED <<stack, opens, handed>>
      /\ ScriptInv /\ Past /\ HandedInv
  BY DEF SendOnce, Send, SeqInv, LoadInv
<1>2. /\ sends \in Nat /\ opens \in Nat /\ sends' \in Sends
      /\ \A d \in Sends : d \in Nat
      /\ target \in [Sends -> 0..MaxOpens] /\ op \in [Sends -> Kinds]
  <2>1. /\ target \in [Sends -> 0..MaxOpens] /\ op \in [Sends -> Kinds]
        /\ sends \in 0..MaxSends /\ opens \in 0..MaxOpens
    BY <1>1 DEF TypeOK, ScriptType, IoType
  <2>2. sends' = sends + 1 /\ sends < MaxSends
    BY <1>1
  <2>3. sends' \in Sends /\ \A d \in Sends : d \in Nat
    BY <2>1, <2>2, BoundsAssumption DEF Sends
  <2> QED BY <2>1, <2>3, BoundsAssumption
<1>3. /\ op'[sends'] = "resolve" /\ target'[sends'] = opens'
      /\ \A d \in Sends : d # sends' => op'[d] = op[d] /\ target'[d] = target[d]
  BY <1>1, <1>2
<1>4. HasSent'
  BY <1>1, <1>2, <1>3 DEF HasSent
<1>5. Past'
  <2>1. ASSUME NEW s \in Sends, s < sends' PROVE op'[s] = "end"
    <3>1. s < sends \/ s = sends
      BY <1>1, <1>2, <2>1
    <3>2. op[s] = "end"
      BY <1>1, <1>2, <3>1 DEF Past, Idle, Sends
    <3> QED BY <1>2, <1>3, <2>1, <3>2
  <2>2. ASSUME NEW s \in Sends, s <= sends' PROVE target'[s] \in 1..opens'
    <3>1. s <= sends \/ s = sends'
      BY <1>1, <1>2, <2>2
    <3>2. opens \in 1..opens
      BY <1>1, <1>2
    <3>3. s # sends' => s <= sends
      BY <3>1
    <3> QED BY <1>1, <1>3, <3>2, <3>3 DEF Past
  <2> QED BY <2>1, <2>2 DEF Past
<1>6. Course'
  <2>1. requestBuf' = <<sends'>>
    BY <1>1, <1>2 DEF Idle
  <2>2. handed'[sends'] = 0
    BY <1>1, <1>2 DEF HandedInv
  <2>3. EarlyInv' /\ ~Late'
    BY <1>1, <1>3, <2>1, <2>2 DEF EarlyInv, Late, Idle, connVars
  <2> QED BY <1>1, <2>3 DEF Course, Shown
<1>7. HandedInv'
  <2>1. \A s \in Sends : s > sends' => s > sends
    BY <1>1, <1>2
  <2> QED BY <1>1, <2>1 DEF HandedInv
<1>8. ScriptInv'
  <2>1. call # "posted"
    BY <1>1 DEF ScriptInv
  <2> QED BY <1>1, <2>1 DEF ScriptInv, Opening
<1> QED BY <1>4, <1>5, <1>6, <1>7, <1>8 DEF SeqInv, LoadInv

\* The script takes the text of its response.
LEMMA TakeKeeps == ASSUME SeqInv, TakeText PROVE SeqInv'
<1>1. /\ opens > 0 /\ state = "Done" /\ responseBuf' = <<>>
      /\ UNCHANGED <<state, aborted, requestBuf, statusCode, responseHeader>>
      /\ UNCHANGED <<connVars, ioVars, stack, histVars>>
      /\ ScriptInv /\ LoadInv /\ HandedInv
  BY DEF TakeText, GetResponseText, SeqInv
<1>2. HasSent /\ Course /\ op[sends] = "end"
  BY <1>1 DEF LoadInv, Idle, Course, Shown
<1>3. \A i \in 1..Len(<<>>) : FALSE
  OBVIOUS
<1>4. Course'
  BY <1>1, <1>2, <1>3 DEF Course, Early, Late, Shown, ioVars, histVars
<1>5. Past' /\ HasSent' /\ HandedInv'
  BY <1>1, <1>2 DEF LoadInv, Past, HasSent, HandedInv, ioVars, histVars
<1>6. ScriptInv'
  BY <1>1 DEF ScriptInv, Opening, ioVars, histVars
<1> QED BY <1>4, <1>5, <1>6 DEF SeqInv, LoadInv

\* What else the script does changes none of what the invariant is about.
LEMMA ReadKeeps == ASSUME TypeOK, SeqInv, ReadHeader PROVE SeqInv'
<1>1. /\ opens > 0 /\ state \in {"HeadersReceived", "Done"}
      /\ responseHeader' = IF responseHeader = Absent THEN Empty ELSE responseHeader
      /\ UNCHANGED <<state, aborted, requestBuf, responseBuf, statusCode>>
      /\ UNCHANGED <<connVars, ioVars, stack, histVars>>
      /\ ScriptInv /\ LoadInv
  BY DEF ReadHeader, GetResponseHeader, SeqInv
<1>2. responseHeader = sends
  BY <1>1 DEF LoadInv, Idle, Course, Shown
<1>3. responseHeader' = responseHeader
  BY <1>1, <1>2, BoundsAssumption DEF Absent, TypeOK, ScriptType
<1>4. LoadInv' /\ HandedInv'
  BY <1>1, <1>3, LoadSame DEF ioVars
<1> QED BY <1>1, <1>4 DEF SeqInv, ScriptInv, Opening, ioVars, histVars

LEMMA CallbackKeeps ==
    ASSUME SeqInv, NEW isSet \in BOOLEAN, SetCallback(isSet)
    PROVE  SeqInv'
<1>1. /\ UNCHANGED <<state, aborted, url, requestBuf, responseBuf, statusCode>>
      /\ UNCHANGED <<responseHeader, connVars, ioVars, stack, histVars>>
      /\ ScriptInv
  BY DEF SetCallback, SeqInv
<1>2. LoadInv' /\ HandedInv'
  BY <1>1, LoadSame DEF ioVars
<1> QED BY <1>1, <1>2 DEF SeqInv, ScriptInv, Opening, ioVars, histVars

(***************************************************************************)
(* The invariant of the careful script                                     *)
(***************************************************************************)
LEMMA SeqStep == ASSUME IInv, SeqInv, SeqNext PROVE SeqInv'
<1>1. TypeOK /\ InvokeAgrees /\ CompletionsQueuedOnce
  BY DEF IInv
<1> QED BY <1>1, NetworkKeeps, IoKeeps, ResumeKeeps, OpenKeeps, FinishKeeps,
        ReturnKeeps, RunKeeps, SendKeeps, TakeKeeps, ReadKeeps, CallbackKeeps
     DEF SeqNext, System, MainThread, IoThread

LEMMA SeqStutter == ASSUME SeqInv, UNCHANGED vars PROVE SeqInv'
<1>1. UNCHANGED <<state, aborted, requestBuf, responseBuf, statusCode,
                  responseHeader, connVars, ioVars, stack, histVars>>
  BY DEF vars, objVars
<1>2. LoadInv' /\ HandedInv'
  BY <1>1, LoadSame DEF ioVars
<1> QED BY <1>1, <1>2 DEF SeqInv, ScriptInv, Opening, ioVars, histVars

LEMMA SeqInit == Init => SeqInv
<1> SUFFICES ASSUME Init PROVE SeqInv
  OBVIOUS
<1>1. /\ opens = 0 /\ sends = 0 /\ stack = <<>> /\ call = "none"
      /\ responseHeader = Absent /\ requestBuf = <<>> /\ responseBuf = <<>>
      /\ socket = "closed" /\ handed = [s \in Sends |-> 0]
  BY DEF Init
<1>2. ScriptInv
  <2>1. \A i \in 2..Len(<<>>) : FALSE
    OBVIOUS
  <2> QED BY <1>1, <2>1 DEF ScriptInv, Opening
<1>3. LoadInv
  <2>1. \A s \in Sends : ~(s < 0) /\ ~(s <= 0)
    BY DEF Sends
  <2>2. Past /\ ~HasSent /\ Idle
    BY <1>1, <2>1 DEF Past, HasSent, Idle
  <2> QED BY <2>2 DEF LoadInv
<1>4. HandedInv
  BY <1>1 DEF HandedInv
<1> QED BY <1>2, <1>3, <1>4 DEF SeqInv

\* The careful script is a script.
LEMMA SeqIsScript == SeqSpec => Spec
<1>1. SeqNext => Next
  BY DEF SeqNext, Next, Script, OpenNext, SendOnce, TakeText, ReadHeader
<1> QED BY <1>1, PTL DEF SeqSpec, Spec

THEOREM SeqInductive == SeqSpec => []SeqInv
<1>1. Init => SeqInv
  BY SeqInit
<1>2. IInv /\ SeqInv /\ [SeqNext]_vars => SeqInv'
  BY SeqStep, SeqStutter
<1>3. SeqSpec => []IInv
  BY SeqIsScript, Inductive
<1> QED BY <1>1, <1>2, <1>3, PTL DEF SeqSpec

\* Whatever happens, the state, the status, the header and the bytes that the
\* script can read are those of the response to its own last request
\* (handleReadHeaders, handleReadContent and jsOpen of
\* FlintXmlHttpRequestAPI.cpp).
THEOREM OwnResponseCorrect == SeqSpec => []OwnResponse
<1>1. IInv /\ SeqInv => OwnResponse
  <2> SUFFICES ASSUME IInv, SeqInv, opens > 0,
                      state \in {"HeadersReceived", "Loading", "Done"}
               PROVE  /\ HasSent /\ statusCode = sends /\ responseHeader = sends
                      /\ \A i \in DOMAIN responseBuf :
                            responseBuf[i] = [req |-> sends, part |-> "body"]
    BY DEF OwnResponse
  <2>1. HasSent /\ Course
    BY DEF SeqInv, LoadInv, Idle
  <2>2. DOMAIN responseBuf = 1..Len(responseBuf)
    BY LenProperties DEF IInv, TypeOK, ObjectType
  <2> QED BY <2>1, <2>2 DEF Course, Shown
<1> QED BY <1>1, SeqIsScript, SeqInductive, Inductive, PTL

\* A request that is being written is alone in its buffer and on a connection
\* to the host of its own open(), also after other endpoints failed
\* (handleConnect and handleWriteRequest).
THEOREM RightHostCorrect == SeqSpec => []RightHost
<1>1. IInv /\ SeqInv => RightHost
  <2> SUFFICES ASSUME IInv, SeqInv,
                      NEW s \in Sends, op[s] = "write", result[s] = "pending"
               PROVE  /\ socket = "connected" /\ host = target[s]
                      /\ outgoing[s] = <<s>>
    BY DEF RightHost
  <2>1. s = sends /\ HasSent
    BY LastSend DEF IInv
  <2> QED BY <2>1 DEF SeqInv, LoadInv, Course, Early, EarlyInv, Connection
<1> QED BY <1>1, SeqIsScript, SeqInductive, Inductive, PTL

\* No request of a careful script is handed to a server twice, however many
\* endpoints are tried for it (handleConnect writes requestBuf_ again for each
\* connection).
THEOREM SentOnceCorrect == SeqSpec => []RequestSentAtMostOnce
<1>1. SeqInv => RequestSentAtMostOnce
  BY DEF SeqInv, HandedInv, RequestSentAtMostOnce
<1> QED BY <1>1, SeqInductive, PTL

\* The readyState that changeState announced is still there when the main
\* thread comes to run the callback (the Invoke of changeState).
THEOREM CallbackCorrect == SeqSpec => CallbackSeesItsState
<1>1. ASSUME IInv, SeqInv, [SeqNext]_vars
      PROVE  [RunIoCallback =>
               state = IF op[io] = "headers" THEN "HeadersReceived"
                       ELSE "Done"]_vars
  BY <1>1 DEF SeqInv, ScriptInv, RunIoCallback
<1> QED BY <1>1, SeqIsScript, SeqInductive, Inductive, PTL
        DEF SeqSpec, CallbackSeesItsState

(***************************************************************************)
(* XhrSequential implements XhrPromise                                     *)
(***************************************************************************)
\* What of the response the script can see, as XhrPromise puts it.
Visible ==
    IF opens > 0 /\ state \in {"HeadersReceived", "Done"}
       /\ statusCode = responseHeader
    THEN target[statusCode] ELSE 0

Text ==
    IF opens > 0 /\ state = "Done"
    THEN {target[responseBuf[i].req] : i \in DOMAIN responseBuf} ELSE {}

ViewInv ==
    /\ Visible = IF opens > 0 /\ state \in {"HeadersReceived", "Done"}
                 THEN opens ELSE 0
    /\ Text = IF opens > 0 /\ state = "Done" /\ responseBuf # <<>>
              THEN {opens} ELSE {}

LEMMA ViewStep == IInv /\ SeqInv => ViewInv
<1> SUFFICES ASSUME IInv, SeqInv PROVE ViewInv
  OBVIOUS
<1>1. CASE opens > 0 /\ state \in {"HeadersReceived", "Done"}
  <2>1. HasSent /\ Course
    BY <1>1 DEF SeqInv, LoadInv, Idle
  <2>2. /\ statusCode = sends /\ responseHeader = sends
        /\ target[sends] = opens
        /\ \A i \in 1..Len(responseBuf) : responseBuf[i].req = sends
    BY <1>1, <2>1 DEF Course, Shown, HasSent
  <2>3. Visible = opens
    BY <1>1, <2>2 DEF Visible
  <2>4. responseBuf \in Seq(Token) /\ DOMAIN responseBuf = 1..Len(responseBuf)
        /\ Len(responseBuf) \in Nat
    BY LenProperties DEF IInv, TypeOK, ObjectType
  <2>5. \A i \in DOMAIN responseBuf : target[responseBuf[i].req] = opens
    BY <2>2, <2>4
  <2>6. responseBuf = <<>> => DOMAIN responseBuf = {}
    BY <2>4
  <2>7. responseBuf # <<>> => 1 \in DOMAIN responseBuf
    BY <2>4, EmptySeq
  <2> DEFINE seen == {target[responseBuf[i].req] : i \in DOMAIN responseBuf}
  <2>8. seen = IF responseBuf # <<>> THEN {opens} ELSE {}
    BY <2>5, <2>6, <2>7
  <2>9. Text = IF state = "Done" THEN seen ELSE {}
    BY <1>1 DEF Text
  <2> HIDE DEF seen
  <2> QED BY <1>1, <2>3, <2>8, <2>9 DEF ViewInv
<1>2. CASE ~(opens > 0 /\ state \in {"HeadersReceived", "Done"})
  BY <1>2 DEF ViewInv, Visible, Text
<1> QED BY <1>1, <1>2

\* A step that shows the script nothing new.
LEMMA PromiseStutter ==
    ASSUME ViewInv, ViewInv', UNCHANGED <<opens, sends, target, state>>,
           opens > 0 /\ state = "Done" => UNCHANGED responseBuf
    PROVE  UNCHANGED Promise!vars
<1>1. Visible' = Visible /\ Text' = Text /\ HasSent' = HasSent
  BY DEF ViewInv, HasSent
<1> QED BY <1>1 DEF Promise!vars, Visible, Text

LEMMA PromiseIo ==
    ASSUME IInv, SeqInv, ViewInv, ViewInv', NEW s \in Sends, Io(s)
    PROVE  Promise!Next \/ UNCHANGED Promise!vars
<1>1. op[s] \notin {"idle", "end"}
  BY DEF Io, HandleError, HandleResolve, HandleConnect, HandleConnectNext,
     HandleWriteRequest, HandleReadStatusLine, HandleReadHeaders,
     HandleReadContent, Handling, SocketKinds, ReadKinds
<1>2. s = sends /\ HasSent /\ opens > 0 /\ Course
  BY <1>1, LastSend DEF SeqInv, LoadInv, IInv
<1>3. UNCHANGED <<opens, sends, target>> /\ opens # 0
  <2>1. UNCHANGED histVars
    BY DEF Io, HandleError, HandleResolve, HandleConnect, HandleConnectNext,
       HandleWriteRequest, HandleReadStatusLine, HandleReadHeaders,
       HandleReadContent
  <2> QED BY <1>2, <2>1 DEF histVars
<1>4. HasSent'
  BY <1>2, <1>3 DEF HasSent
<1>5. CASE HandleReadHeaders(s)
  <2>1. state = "Opened" /\ state' = "HeadersReceived"
    BY <1>5, HeadersCourse DEF IInv
  <2>2. Visible' = opens /\ Text' = Text
    BY <1>2, <1>3, <2>1 DEF ViewInv
  <2> QED BY <1>2, <1>3, <1>4, <2>1, <2>2
          DEF Promise!Next, Promise!Headers, Visible, Text
<1>6. CASE HandleReadContent(s)
  <2>1. state = "HeadersReceived" /\ state' = "Done"
    BY <1>6, ContentCourse DEF IInv
  <2>2. Visible' = Visible /\ Text' \in {{}, {opens}}
    BY <1>2, <1>3, <2>1 DEF ViewInv
  <2> QED BY <1>2, <1>3, <1>4, <2>1, <2>2
          DEF Promise!Next, Promise!Finish, Visible, Text
<1>7. CASE ~HandleReadHeaders(s) /\ ~HandleReadContent(s)
  <2>1. state' = state
    BY <1>7 DEF Io, HandleError, HandleResolve, HandleConnect,
       HandleConnectNext, HandleWriteRequest, HandleReadStatusLine, objVars
  <2>2. state # "Done"
    BY <1>1, <1>2 DEF Course, Shown
  <2> QED BY <1>3, <2>1, <2>2, PromiseStutter
<1> QED BY <1>5, <1>6, <1>7

\* Each step of the object is one step of the promise, or shows nothing.
LEMMA PromiseStep ==
    ASSUME IInv, SeqInv, ViewInv, ViewInv', SeqNext
    PROVE  Promise!Next \/ UNCHANGED Promise!vars
<1>1. opens \in Nat /\ sends \in Nat /\ (sends > 0 => sends \in Sends)
  BY BoundsAssumption DEF IInv, TypeOK, ScriptType, Sends
<1>2. /\ ScriptInv /\ LoadInv /\ (HasSent => Course) /\ (~HasSent => Idle)
      /\ TypeOK /\ InvokeAgrees
  BY DEF SeqInv, LoadInv, IInv
<1>3. CASE OpenNext
  <2>1. /\ opens = 0 \/ (opens > 0 /\ state = "Done")
        /\ opens' = opens + 1 /\ state' = "Unsent"
        /\ UNCHANGED <<sends, target>>
    BY <1>1, <1>3 DEF OpenNext, Open
  <2>2. ~HasSent'
    <3>1. sends > 0 => target[sends] \in 1..opens
      BY <1>1, <1>2 DEF LoadInv, Past
    <3> QED BY <1>1, <2>1, <3>1 DEF HasSent
  <2>3. Visible' = 0 /\ Text' = {} /\ opens' # 0
    BY <1>1, <2>1 DEF ViewInv
  <2> QED BY <2>1, <2>2, <2>3 DEF Promise!Next, Promise!Open, Visible, Text
<1>4. CASE FinishOpen
  <2>1. opens > 0 /\ state = "Unsent" /\ ~aborted
    BY <1>2, <1>4 DEF FinishOpen, Innermost, ScriptInv, Opening
  <2>2. state' = "Opened" /\ UNCHANGED <<opens, sends, target>>
    BY <1>4, <2>1 DEF FinishOpen, histVars
  <2>3. Visible' = Visible /\ Text' = Text /\ HasSent' = HasSent /\ opens # 0
    BY <1>1, <2>1, <2>2 DEF ViewInv, HasSent
  <2> QED BY <2>1, <2>2, <2>3 DEF Promise!Next, Promise!Opened, Visible, Text
<1>5. CASE SendOnce
  <2>1. /\ opens > 0 /\ state = "Opened" /\ ~HasSent /\ url = opens
        /\ sends < MaxSends /\ sends' = sends + 1
        /\ target' = [target EXCEPT ![sends + 1] = url]
        /\ UNCHANGED <<opens, state, responseBuf>>
    BY <1>5 DEF SendOnce, Send
  <2>2. sends + 1 \in Sends /\ target \in [Sends -> 0..MaxOpens]
    BY <1>1, <1>2, <2>1, BoundsAssumption DEF Sends, TypeOK, ScriptType
  <2>3. HasSent'
    BY <1>1, <2>1, <2>2 DEF HasSent
  <2>4. Visible' = Visible /\ Text' = Text /\ opens # 0
    BY <1>1, <2>1 DEF ViewInv
  <2> QED BY <2>1, <2>3, <2>4 DEF Promise!Next, Promise!Send, Visible, Text
<1>6. CASE TakeText
  <2>1. /\ opens > 0 /\ state = "Done" /\ responseBuf' = <<>>
        /\ UNCHANGED <<state, opens, sends, target>>
    BY <1>6 DEF TakeText, GetResponseText, histVars
  <2>2. Visible' = Visible /\ Text' = {} /\ HasSent' = HasSent /\ opens # 0
    BY <1>1, <2>1 DEF ViewInv, HasSent
  <2> QED BY <2>1, <2>2 DEF Promise!Next, Promise!TakeText, Visible, Text
<1>7. ASSUME NEW s \in Sends, Network(s) PROVE UNCHANGED Promise!vars
  <2>1. UNCHANGED <<opens, sends, target, state>>
    BY <1>7 DEF Network, Resolved, Connected, Written, Arrive, Eof, Fail,
       objVars, histVars
  <2>2. op[s] \notin {"idle", "end"}
    BY <1>7 DEF Network, Resolved, Connected, Written, Arrive, Eof, Fail,
       Pending, Reading, SocketKinds, ReadKinds
  <2>3. state # "Done"
    BY <1>2, <2>2, LastSend DEF Course, Shown
  <2> QED BY <2>1, <2>3, PromiseStutter
<1>8. ASSUME \/ Return \/ RunIoCallback \/ Resume \/ ReadHeader
             \/ \E isSet \in BOOLEAN : SetCallback(isSet)
      PROVE  UNCHANGED Promise!vars
  <2>1. UNCHANGED <<opens, sends, target, state, responseBuf>>
    BY <1>8 DEF Return, RunIoCallback, Resume, ReadHeader, GetResponseHeader,
       SetCallback, objVars, histVars
  <2> QED BY <2>1, PromiseStutter
<1> QED BY <1>3, <1>4, <1>5, <1>6, <1>7, <1>8, PromiseIo
        DEF SeqNext, System, MainThread, IoThread

\* What FlintXmlHttpRequestAPI.h promises of readyState and of the response,
\* the object keeps for a careful script: XhrSequential implements XhrPromise.
THEOREM PromiseKept == SeqSpec => KeepsPromise
<1>1. Init => Promise!Init
  BY DEF Init, Promise!Init, HasSent
<1>2. ASSUME IInv, SeqInv, ViewInv, ViewInv', [SeqNext]_vars
      PROVE  [Promise!Next]_(Promise!vars)
  <2>1. CASE SeqNext
    BY <1>2, <2>1, PromiseStep
  <2>2. CASE UNCHANGED vars
    <3>1. UNCHANGED <<opens, sends, target, state, responseBuf>>
      BY <2>2 DEF vars, objVars, histVars
    <3> QED BY <1>2, <3>1, PromiseStutter
  <2> QED BY <1>2, <2>1, <2>2
<1>3. SeqSpec => []IInv /\ []SeqInv /\ []ViewInv
  BY SeqIsScript, SeqInductive, Inductive, ViewStep, PTL
<1> QED BY <1>1, <1>2, <1>3, PTL DEF SeqSpec, KeepsPromise, Promise!Spec

(***************************************************************************)
(* The headers of a request                                                *)
(***************************************************************************)
HeaderType ==
    /\ requestHeader \in {Absent} \cup Nat /\ asked \in Nat
    /\ carried \in [Sends -> {Absent} \cup Nat]
    /\ first \in [Loads -> {Absent} \cup Nat]

\* Until its send(), the object holds what the last load asked for first; a
\* request holds what its own load did.
HeaderInv ==
    /\ opens > 0 /\ ~HasSent => requestHeader = first[opens]
    /\ \A load \in Loads : load > opens => first[load] = Absent
    /\ \A s \in Sends : s <= sends =>
          /\ carried[s] = first[target[s]]
          /\ target[s] = opens => HasSent

LEMMA HeaderKeeps ==
    ASSUME HeaderType, HeaderInv,
           UNCHANGED <<headerVars, opens, sends, target>>
    PROVE  HeaderType' /\ HeaderInv'
<1>1. HasSent' = HasSent
  BY DEF HasSent
<1> QED BY <1>1 DEF HeaderType, HeaderInv, headerVars

LEMMA HeaderStep ==
    ASSUME IInv, SeqInv, HeaderType, HeaderInv, HeadersNext
    PROVE  HeaderType' /\ HeaderInv'
<1>1. /\ opens \in Nat /\ sends \in Nat /\ MaxOpens \in Nat
      /\ target \in [Sends -> 0..MaxOpens] /\ Past
      /\ \A s \in Sends : s \in Nat
      /\ opens <= MaxOpens
  BY BoundsAssumption
     DEF IInv, TypeOK, ScriptType, SeqInv, LoadInv, Sends
<1>2. CASE OpenClears
  <2>1. /\ opens < MaxOpens /\ opens' = opens + 1 /\ requestHeader' = Absent
        /\ UNCHANGED <<sends, target, carried, asked, first>>
    BY <1>2 DEF OpenClears, OpenNext, Open, ClearHeaders
  <2>2. /\ opens' \in Loads /\ opens' > opens
        /\ \A load \in Loads : load > opens' => load > opens
        /\ \A s \in Sends : s <= sends => target[s] # opens'
    BY <1>1, <2>1 DEF Loads, Past
  <2>3. first'[opens'] = Absent
    BY <2>1, <2>2 DEF HeaderInv
  <2> QED BY <2>1, <2>2, <2>3 DEF HeaderType, HeaderInv
<1>3. CASE SetRequestHeader
  <2>1. /\ opens > 0 /\ ~HasSent /\ asked' = asked + 1
        /\ requestHeader' = IF requestHeader = Absent THEN asked'
                            ELSE requestHeader
        /\ first' = IF first[opens] = Absent
                    THEN [first EXCEPT ![opens] = asked'] ELSE first
        /\ UNCHANGED <<carried, opens, sends, target>>
    BY <1>3 DEF SetRequestHeader, vars, histVars
  <2>2. opens \in Loads /\ asked' \in Nat
    BY <1>1, <2>1 DEF Loads, HeaderType
  <2>3. /\ HeaderType'
        /\ first'[opens] = requestHeader'
        /\ \A load \in Loads : load # opens => first'[load] = first[load]
    BY <2>1, <2>2 DEF HeaderType, HeaderInv
  <2>4. \A load \in Loads : load > opens => load # opens
    BY <1>1
  <2>5. \A s \in Sends : s <= sends => target[s] \in Loads /\ target[s] # opens
    BY <1>1, <2>1 DEF Past, Loads, HeaderInv
  <2>6. HasSent' = HasSent
    BY <2>1 DEF HasSent
  <2> QED BY <2>1, <2>3, <2>4, <2>5, <2>6 DEF HeaderInv
<1>4. CASE SendWrites
  <2>1. /\ opens > 0 /\ url = opens /\ ~HasSent
        /\ sends < MaxSends /\ sends' = sends + 1
        /\ target' = [target EXCEPT ![sends + 1] = url]
        /\ carried' = [carried EXCEPT ![sends'] = requestHeader]
        /\ UNCHANGED <<opens, requestHeader, asked, first>>
    BY <1>4 DEF SendWrites, SendOnce, Send
  <2>2. sends' \in Sends
    BY <1>1, <2>1, BoundsAssumption DEF Sends
  <2>3. HasSent'
    BY <1>1, <2>1, <2>2 DEF HasSent
  <2>4. carried'[sends'] = first'[target'[sends']]
    BY <1>1, <2>1, <2>2 DEF HeaderType, HeaderInv
  <2>5. \A s \in Sends : s <= sends' => s = sends' \/ s <= sends
    BY <1>1, <2>1
  <2>6. \A s \in Sends : s # sends' =>
            carried'[s] = carried[s] /\ target'[s] = target[s]
    BY <1>1, <2>1 DEF HeaderType
  <2>7. HeaderType'
    BY <2>1 DEF HeaderType
  <2> QED BY <2>1, <2>3, <2>4, <2>5, <2>6, <2>7 DEF HeaderInv
<1>5. CASE /\ UNCHANGED headerVars
           /\ \/ System \/ TakeText \/ ReadHeader
              \/ \E isSet \in BOOLEAN : SetCallback(isSet)
  <2>1. CASE System
    <3>1. CASE MainThread
      BY <1>5, <3>1, HeaderKeeps DEF MainThread, FinishOpen, Return,
         RunIoCallback, histVars
    <3>2. CASE Resume
      BY <1>5, <3>2, HeaderKeeps DEF Resume, histVars
    <3>3. ASSUME NEW s \in Sends, Io(s) PROVE UNCHANGED histVars
      BY <3>3 DEF Io, HandleError, HandleResolve, HandleConnect,
         HandleConnectNext, HandleWriteRequest, HandleReadStatusLine,
         HandleReadHeaders, HandleReadContent
    <3>4. ASSUME NEW s \in Sends, Network(s)
          PROVE  UNCHANGED <<opens, sends, target>>
      BY <3>4 DEF Network, Resolved, Connected, Written, Arrive, Eof, Fail,
         histVars
    <3>5. UNCHANGED histVars => UNCHANGED <<opens, sends, target>>
      BY DEF histVars
    <3> QED BY <1>5, <2>1, <3>1, <3>2, <3>3, <3>4, <3>5, HeaderKeeps
            DEF System, IoThread
  <2>2. CASE TakeText \/ ReadHeader \/ \E isSet \in BOOLEAN : SetCallback(isSet)
    BY <1>5, <2>2, HeaderKeeps DEF TakeText, GetResponseText, ReadHeader,
       GetResponseHeader, SetCallback, histVars
  <2> QED BY <1>5, <2>1, <2>2
<1> QED BY <1>2, <1>3, <1>4, <1>5 DEF HeadersNext

LEMMA HeaderInit == HeadersInit => HeaderType /\ HeaderInv
<1> SUFFICES ASSUME HeadersInit PROVE HeaderType /\ HeaderInv
  OBVIOUS
<1>1. /\ opens = 0 /\ sends = 0 /\ requestHeader = Absent /\ asked = 0
      /\ carried = [s \in Sends |-> Absent]
      /\ first = [load \in Loads |-> Absent]
  BY DEF HeadersInit, Init
<1>2. \A s \in Sends : ~(s <= 0)
  BY DEF Sends
<1> QED BY <1>1, <1>2 DEF HeaderType, HeaderInv

\* The script that asks for headers is a careful script.
LEMMA HeadersIsSeq == HeadersSpec => SeqSpec
<1>1. HeadersInit => Init
  BY DEF HeadersInit
<1>2. [HeadersNext]_headersVars => [SeqNext]_vars
  BY DEF HeadersNext, headersVars, OpenClears, SetRequestHeader, SendWrites,
     SeqNext
<1> QED BY <1>1, <1>2, PTL DEF HeadersSpec, SeqSpec

\* A request goes out with the header that its own load set first, and with
\* none of another load (requestHeaders_ in jsOpen, jsSetRequestHeader and
\* jsSend).
THEOREM HeadersCorrect == HeadersSpec => []OwnRequestHeaders
<1>1. IInv /\ SeqInv /\ HeaderInv => OwnRequestHeaders
  <2> SUFFICES ASSUME IInv, SeqInv, HeaderInv,
                      NEW s \in Sends, op[s] = "write", result[s] = "pending",
                      NEW i \in DOMAIN outgoing[s]
               PROVE  carried[outgoing[s][i]] = first[host]
    BY DEF OwnRequestHeaders
  <2>1. s = sends /\ HasSent
    BY LastSend DEF IInv
  <2>2. outgoing[s] = <<s>> /\ host = target[s]
    BY <2>1 DEF SeqInv, LoadInv, Course, Early, EarlyInv, Connection
  <2>3. outgoing[s][i] = s
    BY <2>2
  <2>4. s <= sends
    BY <2>1 DEF Sends
  <2> QED BY <2>2, <2>3, <2>4 DEF HeaderInv
<1>2. IInv /\ SeqInv /\ HeaderType /\ HeaderInv /\ [HeadersNext]_headersVars
        => HeaderType' /\ HeaderInv'
  <2> SUFFICES ASSUME IInv, SeqInv, HeaderType, HeaderInv,
                      [HeadersNext]_headersVars
               PROVE  HeaderType' /\ HeaderInv'
    OBVIOUS
  <2>1. CASE UNCHANGED headersVars
    BY <2>1, HeaderKeeps DEF headersVars, vars, histVars
  <2> QED BY <2>1, HeaderStep
<1>3. HeadersSpec => []IInv /\ []SeqInv
  BY HeadersIsSeq, SeqIsScript, SeqInductive, Inductive, PTL
<1> QED BY <1>1, <1>2, <1>3, HeaderInit, PTL DEF HeadersSpec
=============================================================================
