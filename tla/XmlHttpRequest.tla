--------------------------- MODULE XmlHttpRequest ---------------------------
(***************************************************************************)
(* One FlintXmlHttpRequestAPI object (FlintXmlHttpRequestAPI.cpp), driven  *)
(* by two threads.  The main thread runs the page's script, which may call *)
(* any method of the object whenever it has control, from a readyState     *)
(* callback too.  The io thread runs FlintPlugin's io_service: it takes    *)
(* the completed asynchronous operations in FIFO order and runs their      *)
(* handlers.  A readyState change on the io thread is announced by a       *)
(* synchronous Invoke, which blocks the io thread until the main thread,   *)
(* back in its event loop, has run the script's callback.                  *)
(*                                                                         *)
(* Data is abstracted to where it comes from: a URL is the number of the   *)
(* open() that set it, a request the number of the send() that wrote it, a *)
(* piece of a response the request the server answered with it.            *)
(***************************************************************************)
EXTENDS Integers, Sequences, FiniteSets, SequencesExt

CONSTANTS
    MaxOpens,      \* how many times the script calls open()
    MaxSends,      \* how many times it calls send()
    MaxDepth,      \* how deep open() calls nest through callbacks
    MaxEndpoints,  \* how many addresses a host name resolves to, at most
    BodyHasLine    \* whether a response's body contains a line end

ASSUME BoundsAssumption ==
    /\ MaxOpens \in Nat \ {0} /\ MaxSends \in Nat \ {0}
    /\ MaxDepth \in Nat \ {0} /\ MaxEndpoints \in Nat \ {0}
    /\ BodyHasLine \in BOOLEAN

Sends == 1..MaxSends
Loads == 1..MaxOpens

States == {"Unsent", "Opened", "HeadersReceived", "Loading", "Done"}
ReadKinds == {"status", "headers", "content"}
SocketKinds == {"connect", "write"} \cup ReadKinds
Parts == {"status", "headers", "body", "garbage"}

VARIABLES
    \* members of the object
    state, callback, aborted, url, requestBuf, responseBuf, statusCode,
    responseHeader,
    \* the socket, the connection it holds and the server at its other end
    socket, host, answering, left, outgoing,
    \* the operation each send() has reached; the io_service and its thread
    op, result, endpoints, ready, io, call,
    \* the main thread: the frames of this object's calls, innermost first
    stack,
    \* history: calls made so far, URL each request was written for, and how
    \* often each request has been handed to a server
    opens, sends, target, handed

objVars  == <<state, callback, aborted, url, requestBuf, responseBuf,
              statusCode, responseHeader>>
connVars == <<socket, host, answering, left, outgoing>>
ioVars   == <<op, result, endpoints, ready, io, call>>
histVars == <<opens, sends, target, handed>>
vars     == <<objVars, connVars, ioVars, stack, histVars>>

\* Values of responseHeader: no entry of this name, an entry with an empty
\* value; any other value is the request whose response set the header.
Absent == -1
Empty == 0

NoWrite == [s \in Sends |-> <<>>]

Init ==
    /\ state \in States /\ aborted \in BOOLEAN  \* the constructor sets neither
    /\ callback = FALSE /\ url = 0
    /\ requestBuf = <<>> /\ responseBuf = <<>>
    /\ statusCode = 0 /\ responseHeader = Absent
    /\ socket = "closed" /\ host = 0 /\ answering = 0
    /\ left = <<>> /\ outgoing = NoWrite
    /\ op = [s \in Sends |-> "idle"] /\ result = [s \in Sends |-> "none"]
    /\ endpoints = [s \in Sends |-> 0]
    /\ ready = <<>> /\ io = 0 /\ call = "none" /\ stack = <<>>
    /\ opens = 0 /\ sends = 0
    /\ target = [s \in Sends |-> 0] /\ handed = [s \in Sends |-> 0]

(***************************************************************************)
(* Asynchronous operations                                                 *)
(***************************************************************************)
EndsLine(token) == token.part # "body" \/ BodyHasLine

\* What async_read_until looks for: a line for the status line, a blank line
\* for the headers.  Reading the content has no delimiter.
Delimited(kind, buf) ==
    \/ kind = "status" /\ \E i \in DOMAIN buf : EndsLine(buf[i])
    \/ kind = "headers" /\ \E i \in DOMAIN buf : buf[i].part = "headers"

\* The outcomes an operation started now can have at once.  A second
\* async_connect on a socket that is connecting or connected fails; a
\* delimiter that is already buffered completes a read on any socket.
AtOnce(kind, buf) ==
    CASE kind = "connect" ->
            (CASE socket = "closed" -> {"pending"}
               [] socket = "failed" -> {"pending", "fail"}
               [] OTHER             -> {"fail"})
      [] Delimited(kind, buf) -> {"ok"}
      [] OTHER -> IF socket \in {"connecting", "connected"}
                  THEN {"pending"} ELSE {"fail"}

Begin(s, kind, outcome, queue) ==
    /\ op' = [op EXCEPT ![s] = kind]
    /\ result' = [result EXCEPT ![s] = outcome]
    /\ ready' = IF outcome = "pending" THEN queue ELSE Append(queue, s)

EndChain(s, queue) ==
    /\ op' = [op EXCEPT ![s] = "end"]
    /\ result' = [result EXCEPT ![s] = "none"]
    /\ ready' = queue

OnSocket == {s \in Sends : op[s] \in SocketKinds /\ result[s] = "pending"}

\* socket_.close() cancels every operation on the socket: they complete with
\* an error, after what is queued already.  The resolver is not cancelled.
CancelOnSocket(res, queue) ==
    /\ result' = [s \in Sends |-> IF s \in OnSocket THEN "fail" ELSE res[s]]
    /\ \E order \in SetToSeqs(OnSocket) : ready' = queue \o order

Disconnect(newSocket) ==
    /\ socket' = newSocket
    /\ host' = 0 /\ answering' = 0 /\ left' = <<>> /\ outgoing' = NoWrite

(***************************************************************************)
(* The main thread: methods called by the script                           *)
(***************************************************************************)
\* The innermost frame is: a callback invoked for Unsent, for Opened or for
\* the io thread, in which the script has control, or the rest of jsOpen.
Innermost(at) == stack # <<>> /\ Head(stack).at = at

JsRuns == ~Innermost("finish")

Push(frame) == stack' = <<frame>> \o stack

\* changeState: a callback runs only when there is one and the state changes.
Announces(newState) == state # newState /\ callback

\* Mutant: jsOpen does not announce Unsent.
OpenSilent ==
    /\ JsRuns /\ opens < MaxOpens /\ Len(stack) < MaxDepth
    /\ opens' = opens + 1
    /\ CancelOnSocket(result, ready)
    /\ Disconnect("closed")
    /\ aborted' = FALSE
    /\ responseHeader' = Absent
    /\ Push([at |-> "finish", load |-> opens + 1])
    /\ UNCHANGED <<state, callback, url, requestBuf, responseBuf, statusCode,
                   op, endpoints, io, call, sends, target, handed>>

\* jsOpen up to and including changeState(Unsent).
Open ==
    /\ JsRuns /\ opens < MaxOpens /\ Len(stack) < MaxDepth
    /\ opens' = opens + 1
    /\ CancelOnSocket(result, ready)
    /\ Disconnect("closed")
    /\ aborted' = FALSE
    /\ responseHeader' = Absent
    /\ state' = "Unsent"
    /\ Push([at |-> IF Announces("Unsent") THEN "unsent" ELSE "finish",
             load |-> opens + 1])
    /\ UNCHANGED <<callback, url, requestBuf, responseBuf, statusCode,
                   op, endpoints, io, call, sends, target, handed>>

\* The rest of jsOpen.
FinishOpen ==
    /\ Innermost("finish")
    /\ IF aborted
       THEN stack' = Tail(stack) /\ UNCHANGED <<state, url>>
       ELSE /\ url' = Head(stack).load
            /\ state' = "Opened"
            /\ stack' = IF Announces("Opened")
                        THEN <<[at |-> "opened", load |-> url']>> \o Tail(stack)
                        ELSE Tail(stack)
    /\ UNCHANGED <<callback, aborted, requestBuf, responseBuf, statusCode,
                   responseHeader, connVars, ioVars, histVars>>

Send ==
    /\ JsRuns /\ sends < MaxSends
    /\ sends' = sends + 1
    /\ aborted' = FALSE
    /\ requestBuf' = Append(requestBuf, sends + 1)
    /\ target' = [target EXCEPT ![sends + 1] = url]
    /\ op' = [op EXCEPT ![sends + 1] = "resolve"]
    /\ result' = [result EXCEPT ![sends + 1] = "pending"]
    /\ UNCHANGED <<state, callback, url, responseBuf, statusCode,
                   responseHeader, connVars, endpoints, ready, io, call,
                   stack, opens, handed>>

\* Reading the text empties the streambuf.
GetResponseText ==
    /\ JsRuns
    /\ responseBuf' = <<>>
    /\ UNCHANGED <<state, callback, aborted, url, requestBuf, statusCode,
                   responseHeader, connVars, ioVars, stack, histVars>>

\* operator[] enters an empty value for a name the map does not hold.
GetResponseHeader ==
    /\ JsRuns
    /\ responseHeader' = IF responseHeader = Absent THEN Empty
                         ELSE responseHeader
    /\ UNCHANGED <<state, callback, aborted, url, requestBuf, responseBuf,
                   statusCode, connVars, ioVars, stack, histVars>>

SetCallback(isSet) ==
    /\ JsRuns
    /\ callback' = isSet
    /\ UNCHANGED <<state, aborted, url, requestBuf, responseBuf, statusCode,
                   responseHeader, connVars, ioVars, stack, histVars>>

\* Mutant: the io thread is not told.
ReturnUnnoticed ==
    /\ stack # <<>> /\ JsRuns
    /\ stack' = IF Innermost("unsent")
                THEN <<[at |-> "finish", load |-> Head(stack).load]>>
                     \o Tail(stack)
                ELSE Tail(stack)
    /\ UNCHANGED <<objVars, connVars, ioVars, histVars>>

\* The script's callback returns to the changeState that invoked it.
Return ==
    /\ stack # <<>> /\ JsRuns
    /\ stack' = IF Innermost("unsent")
                THEN <<[at |-> "finish", load |-> Head(stack).load]>>
                     \o Tail(stack)
                ELSE Tail(stack)
    /\ call' = IF Innermost("io") THEN "returned" ELSE call
    /\ UNCHANGED <<objVars, connVars, op, result, endpoints, ready, io,
                   histVars>>

\* The main thread's event loop runs the callback the io thread waits for.
RunIoCallback ==
    /\ call = "posted" /\ stack = <<>>
    /\ call' = "running"
    /\ Push([at |-> "io", load |-> 0])
    /\ UNCHANGED <<objVars, connVars, op, result, endpoints, ready, io,
                   histVars>>

(***************************************************************************)
(* The io thread: completion handlers                                      *)
(***************************************************************************)
\* Mutant: a second thread runs the io_service.
HandlingByPool(s, kind) == ready # <<>> /\ Head(ready) = s /\ op[s] = kind

Handling(s, kind) ==
    io = 0 /\ ready # <<>> /\ Head(ready) = s /\ op[s] = kind

\* Every handler but handleConnect only prints an error other than eof.
HandleError(s) ==
    /\ \/ \E kind \in {"resolve", "write", "status", "headers"} :
            Handling(s, kind) /\ result[s] # "ok"
       \/ Handling(s, "content") /\ result[s] = "fail"
       \/ Handling(s, "connect") /\ result[s] = "fail" /\ endpoints[s] = 0
    /\ EndChain(s, Tail(ready))
    /\ UNCHANGED <<objVars, connVars, endpoints, io, call, stack, histVars>>

\* Mutant: the request is written before the socket is connected.
HandleResolveWrites(s) ==
    /\ Handling(s, "resolve") /\ result[s] = "ok"
    /\ endpoints' = [endpoints EXCEPT ![s] = @ - 1]
    /\ Begin(s, "write", "pending", Tail(ready))
    /\ socket' = "connecting"
    /\ outgoing' = [outgoing EXCEPT ![s] = requestBuf]
    /\ UNCHANGED <<objVars, host, answering, left, io, call, stack, histVars>>

HandleResolve(s) ==
    /\ Handling(s, "resolve") /\ result[s] = "ok"
    /\ endpoints' = [endpoints EXCEPT ![s] = @ - 1]
    /\ \E outcome \in AtOnce("connect", responseBuf) :
         /\ Begin(s, "connect", outcome, Tail(ready))
         /\ socket' = IF outcome = "pending" THEN "connecting" ELSE socket
    /\ UNCHANGED <<objVars, host, answering, left, outgoing, io, call, stack,
                   histVars>>

HandleConnect(s) ==
    /\ Handling(s, "connect") /\ result[s] = "ok"
    /\ \E outcome \in AtOnce("write", responseBuf) :
         /\ Begin(s, "write", outcome, Tail(ready))
         /\ outgoing' = IF outcome = "pending"
                       THEN [outgoing EXCEPT ![s] = requestBuf] ELSE outgoing
    /\ UNCHANGED <<objVars, socket, host, answering, left, endpoints, io, call,
                   stack, histVars>>

\* Mutant: the end of the endpoints is not looked for.
HandleConnectPastEnd(s) ==
    /\ Handling(s, "connect") /\ result[s] = "fail"
    /\ endpoints' = [endpoints EXCEPT ![s] = @ - 1]
    /\ CancelOnSocket([result EXCEPT ![s] = "pending"], Tail(ready))
    /\ Disconnect("connecting")
    /\ UNCHANGED <<objVars, op, io, call, stack, histVars>>

\* Mutant: the request is formed again for each endpoint.
HandleConnectForms(s) ==
    /\ Handling(s, "connect") /\ result[s] = "fail" /\ endpoints[s] > 0
    /\ endpoints' = [endpoints EXCEPT ![s] = @ - 1]
    /\ requestBuf' = Append(requestBuf, s)
    /\ CancelOnSocket([result EXCEPT ![s] = "pending"], Tail(ready))
    /\ Disconnect("connecting")
    /\ UNCHANGED <<state, callback, aborted, url, responseBuf, statusCode,
                   responseHeader, op, io, call, stack, histVars>>

\* handleConnect with an error, a cancelled connect included: the next
\* endpoint is tried on a socket opened anew.
HandleConnectNext(s) ==
    /\ Handling(s, "connect") /\ result[s] = "fail" /\ endpoints[s] > 0
    /\ endpoints' = [endpoints EXCEPT ![s] = @ - 1]
    /\ CancelOnSocket([result EXCEPT ![s] = "pending"], Tail(ready))
    /\ Disconnect("connecting")
    /\ UNCHANGED <<objVars, op, io, call, stack, histVars>>

\* Mutant: the handler of the read runs at once and is registered as well.
HandleWriteRequestPosts(s) ==
    /\ Handling(s, "write") /\ result[s] = "ok"
    /\ Begin(s, "status", "pending", Append(Tail(ready), s))
    /\ UNCHANGED <<objVars, connVars, endpoints, io, call, stack, histVars>>

HandleWriteRequest(s) ==
    /\ Handling(s, "write") /\ result[s] = "ok"
    /\ \E outcome \in AtOnce("status", responseBuf) :
         Begin(s, "status", outcome, Tail(ready))
    /\ UNCHANGED <<objVars, connVars, endpoints, io, call, stack, histVars>>

\* k is how many tokens of buf a read consumes that stops after the first
\* token of which Ends holds, or takes everything when there is none.
Consumes(buf, Ends(_), k) ==
    /\ k \in 0..Len(buf)
    /\ \A i \in 1..(k - 1) : ~Ends(buf[i])
    /\ k = Len(buf) \/ (k > 0 /\ Ends(buf[k]))

IsStatus(buf) == buf # <<>> /\ Head(buf).part = "status"

\* The line is taken, or, when >> finds no number after the first word and
\* getline then does nothing, a part of it; the rest stays what it was.
HandleReadStatusLine(s) ==
    /\ Handling(s, "status") /\ result[s] = "ok"
    /\ \E k \in 0..Len(responseBuf) :
         /\ Consumes(responseBuf, EndsLine, k)
         /\ \E taken \in IF IsStatus(responseBuf) THEN {k} ELSE 0..k :
              responseBuf' = SubSeq(responseBuf, taken + 1, Len(responseBuf))
    /\ IF IsStatus(responseBuf)
       THEN /\ statusCode' = Head(responseBuf).req
            /\ \E outcome \in AtOnce("headers", responseBuf') :
                 Begin(s, "headers", outcome, Tail(ready))
       ELSE /\ statusCode' = IF responseBuf = <<>> THEN statusCode ELSE 0
            /\ EndChain(s, Tail(ready))  \* "Invalid response"
    /\ UNCHANGED <<state, callback, aborted, url, requestBuf, responseHeader,
                   connVars, endpoints, io, call, stack, histVars>>

\* Mutant: the blank line does not end the loop over the headers.
NoBlankLine(token) == token.part = "none"

IsHeaders(token) == token.part = "headers"

\* handleReadHeaders up to changeState(HeadersReceived).  insert() keeps the
\* value a name already has.
HandleReadHeaders(s) ==
    /\ Handling(s, "headers") /\ result[s] = "ok"
    /\ \E k \in 0..Len(responseBuf) :
         /\ Consumes(responseBuf, IsHeaders, k)
         /\ responseBuf' = SubSeq(responseBuf, k + 1, Len(responseBuf))
         /\ responseHeader' =
              IF responseHeader = Absent /\ k > 0 /\ IsHeaders(responseBuf[k])
              THEN responseBuf[k].req ELSE responseHeader
    /\ state' = "HeadersReceived"
    /\ IF Announces("HeadersReceived")
       THEN /\ io' = s /\ call' = "posted"
            /\ result' = [result EXCEPT ![s] = "none"]
            /\ ready' = Tail(ready)
            /\ UNCHANGED op
       ELSE /\ \E outcome \in AtOnce("content", responseBuf') :
                 Begin(s, "content", outcome, Tail(ready))
            /\ UNCHANGED <<io, call>>
    /\ UNCHANGED <<callback, aborted, url, requestBuf, statusCode, connVars,
                   endpoints, stack, histVars>>

\* Mutant: the callback runs before the state is set.
HandleReadContentLate(s) ==
    /\ Handling(s, "content") /\ result[s] = "eof"
    /\ EndChain(s, Tail(ready))
    /\ IF Announces("Done") THEN io' = s /\ call' = "posted"
       ELSE UNCHANGED <<io, call>>
    /\ UNCHANGED <<objVars, connVars, endpoints, stack, histVars>>

\* handleReadContent: data without an error continues the read, which
\* transfer_all() never reports; the end of the stream completes the load.
HandleReadContent(s) ==
    /\ Handling(s, "content") /\ result[s] # "fail"
    /\ IF result[s] = "eof"
       THEN EndChain(s, Tail(ready)) /\ state' = "Done"
       ELSE /\ \E outcome \in AtOnce("content", responseBuf) :
                 Begin(s, "content", outcome, Tail(ready))
            /\ state' = "Loading"
    /\ IF Announces(state') THEN io' = s /\ call' = "posted"
       ELSE UNCHANGED <<io, call>>
    /\ UNCHANGED <<callback, aborted, url, requestBuf, responseBuf, statusCode,
                   responseHeader, connVars, endpoints, stack, histVars>>

\* Mutant: the content is not read.
ResumeIdle ==
    /\ call = "returned"
    /\ io' = 0 /\ call' = "none"
    /\ UNCHANGED <<objVars, connVars, op, result, endpoints, ready, stack,
                   histVars>>

\* Invoke returns on the io thread; after the headers, the content is read.
Resume ==
    /\ call = "returned"
    /\ io' = 0 /\ call' = "none"
    /\ IF op[io] = "headers"
       THEN \E outcome \in AtOnce("content", responseBuf) :
              Begin(io, "content", outcome, ready)
       ELSE UNCHANGED <<op, result, ready>>
    /\ UNCHANGED <<objVars, connVars, endpoints, stack, histVars>>

(***************************************************************************)
(* The network: resolver, operating system and servers                     *)
(***************************************************************************)
Pending(s, kind) == op[s] = kind /\ result[s] = "pending"

Complete(s, outcome) ==
    /\ result' = [result EXCEPT ![s] = outcome]
    /\ ready' = Append(ready, s)

Resolved(s) ==
    /\ Pending(s, "resolve")
    /\ Complete(s, "ok")
    /\ \E n \in 1..MaxEndpoints : endpoints' = [endpoints EXCEPT ![s] = n]
    /\ UNCHANGED <<objVars, connVars, op, io, call, stack, histVars>>

Connected(s) ==
    /\ Pending(s, "connect")
    /\ Complete(s, "ok")
    /\ socket' = "connected" /\ host' = target[s]
    /\ answering' = 0 /\ left' = <<>> /\ UNCHANGED outgoing
    /\ UNCHANGED <<objVars, op, endpoints, io, call, stack, histVars>>

\* How many copies of request r a text holds.
Copies(r, text) == Cardinality({i \in DOMAIN text : text[i] = r})

\* The whole request text is written.  The server answers the first request
\* of a connection only ("Connection: close"), well or with something that is
\* no HTTP response.
Written(s) ==
    /\ Pending(s, "write") /\ socket = "connected"
    /\ Complete(s, "ok")
    /\ requestBuf' = SubSeq(requestBuf, Len(outgoing[s]) + 1, Len(requestBuf))
    /\ handed' = [r \in Sends |-> handed[r] + Copies(r, outgoing[s])]
    /\ outgoing' = [outgoing EXCEPT ![s] = <<>>]
    /\ IF answering = 0 /\ outgoing[s] # <<>>
       THEN /\ answering' = Head(outgoing[s])
            /\ left' \in {<<"status", "headers", "body">>, <<"garbage">>}
       ELSE UNCHANGED <<answering, left>>
    /\ UNCHANGED <<state, callback, aborted, url, responseBuf, statusCode,
                   responseHeader, socket, host, op, endpoints, io, call,
                   stack, opens, sends, target>>

Reading(s) == op[s] \in ReadKinds /\ result[s] = "pending"

Arrive(s) ==
    /\ Reading(s) /\ socket = "connected"
    /\ \E n \in 1..Len(left) :
         /\ responseBuf' = responseBuf \o
              [i \in 1..n |-> [req |-> answering, part |-> left[i]]]
         /\ left' = SubSeq(left, n + 1, Len(left))
    /\ IF Delimited(op[s], responseBuf') THEN Complete(s, "ok")
       ELSE UNCHANGED <<result, ready>>
    /\ UNCHANGED <<state, callback, aborted, url, requestBuf, statusCode,
                   responseHeader, socket, host, answering, outgoing, op,
                   endpoints, io, call, stack, histVars>>

\* The server closes the connection, early or after its answer.
Eof(s) ==
    /\ Reading(s) /\ socket = "connected"
    /\ Complete(s, "eof")
    /\ left' = <<>>
    /\ UNCHANGED <<objVars, socket, host, answering, outgoing, op, endpoints,
                   io, call, stack, histVars>>

\* An operation fails; with it the connection, unless it was a read that the
\* system refuses while another send() is still connecting.
Fail(s) ==
    /\ op[s] \in SocketKinds \cup {"resolve"} /\ result[s] = "pending"
    /\ Complete(s, "fail")
    /\ IF op[s] = "resolve" \/ (Reading(s) /\ socket = "connecting")
       THEN UNCHANGED connVars ELSE Disconnect("failed")
    /\ UNCHANGED <<objVars, op, endpoints, io, call, stack, histVars>>

(***************************************************************************)
(* The specification                                                       *)
(***************************************************************************)
Io(s) ==
    \/ HandleError(s) \/ HandleResolve(s) \/ HandleConnect(s)
    \/ HandleConnectNext(s) \/ HandleWriteRequest(s)
    \/ HandleReadStatusLine(s) \/ HandleReadHeaders(s) \/ HandleReadContent(s)

Network(s) ==
    \/ Resolved(s) \/ Connected(s) \/ Written(s) \/ Arrive(s) \/ Eof(s)
    \/ Fail(s)

MainThread == FinishOpen \/ Return \/ RunIoCallback
IoThread == Resume \/ \E s \in Sends : Io(s)

\* Everything but the script's calls.
System == MainThread \/ IoThread \/ \E s \in Sends : Network(s)

Script ==
    \/ Open \/ Send \/ GetResponseText \/ GetResponseHeader
    \/ \E isSet \in BOOLEAN : SetCallback(isSet)

Next == System \/ Script
Spec == Init /\ [][Next]_vars

\* The io_service runs what is ready, a callback of the script returns, the
\* browser's event loop goes on, and every network operation ends one way or
\* another (the code sets no timeout: this is asked of the peer).
Fairness ==
    /\ WF_vars(MainThread) /\ WF_vars(IoThread)
    /\ \A s \in Sends : WF_vars(Network(s))

FairSpec == Spec /\ Fairness

\* send() has been called since the last open().
HasSent == sends > 0 /\ target[sends] = opens

(***************************************************************************)
(* Properties of every client, however it mixes its calls                  *)
(***************************************************************************)
Token == [req : Sends, part : Parts]
Frame == [at : {"unsent", "finish", "opened", "io"}, load : 0..MaxOpens]
Kinds == {"idle", "resolve", "end"} \cup SocketKinds
Outcomes == {"ok", "fail", "eof"}
Results == {"none", "pending"} \cup Outcomes

\* Every variable keeps the type of the member or structure it stands for.
ObjectType ==
    /\ state \in States /\ callback \in BOOLEAN /\ aborted \in BOOLEAN
    /\ url \in 0..MaxOpens
    /\ requestBuf \in Seq(Sends) /\ responseBuf \in Seq(Token)
    /\ statusCode \in 0..MaxSends
    /\ responseHeader \in {Absent, Empty} \cup Sends

ConnectionType ==
    /\ socket \in {"closed", "connecting", "connected", "failed"}
    /\ host \in 0..MaxOpens /\ answering \in 0..MaxSends
    /\ left \in Seq(Parts) /\ outgoing \in [Sends -> Seq(Sends)]

\* Bytes come from a server only while it answers a request.
AnswerType == left # <<>> => answering \in Sends

\* What the resolver finds has at least one endpoint.
IoType ==
    /\ op \in [Sends -> Kinds] /\ result \in [Sends -> Results]
    /\ endpoints \in [Sends -> 0..MaxEndpoints]
    /\ \A s \in Sends :
          op[s] = "resolve" /\ result[s] = "ok" => endpoints[s] > 0
    /\ ready \in Seq(Sends) /\ io \in 0..MaxSends
    /\ call \in {"none", "posted", "running", "returned"}

ScriptType ==
    /\ stack \in Seq(Frame)
    /\ opens \in 0..MaxOpens /\ sends \in 0..MaxSends
    /\ target \in [Sends -> 0..MaxOpens] /\ handed \in [Sends -> Nat]

\* A send() that was made has an operation, and one that is over no outcome.
OperationsType ==
    \A s \in Sends :
        /\ op[s] = "idle" <=> s > sends
        /\ op[s] \in {"idle", "end"} => result[s] = "none"

TypeOK ==
    /\ ObjectType /\ ConnectionType /\ AnswerType /\ IoType
    /\ ScriptType /\ OperationsType

\* No completion is lost and none is delivered twice, whatever open() cancels
\* and whatever overlaps: an operation that has completed, by itself, at once
\* or by socket_.close(), has its handler queued exactly once.
CompletionsQueuedOnce ==
    /\ \A i, j \in 1..Len(ready) : ready[i] = ready[j] => i = j
    /\ \A s \in Sends :
          result[s] \in Outcomes <=> \E i \in 1..Len(ready) : ready[i] = s

\* The io thread and the main thread agree on the synchronous Invoke: the io
\* thread waits exactly while its callback is due or running, the callback
\* runs once, from the event loop and under whatever it calls itself.
InvokeAgrees ==
    /\ io = 0 <=> call = "none"
    /\ call = "running" <=> stack # <<>> /\ stack[Len(stack)].at = "io"
    /\ \A i \in 1..(Len(stack) - 1) : stack[i].at # "io"
    /\ io # 0 => /\ op[io] \in {"headers", "content", "end"}
                 /\ op[io] = "headers" => result[io] = "none"

\* A request goes out at most once, also when its load was slow, failed or
\* was tried on several endpoints.
RequestSentAtMostOnce == \A s \in Sends : handed[s] <= 1

\* The chain of handlers that a send() starts comes to its end, whatever is
\* opened, cancelled and retried meanwhile.
ChainEnds == \A s \in Sends : op[s] # "idle" ~> op[s] = "end"

\* The synchronous Invoke of changeState returns: the io thread is not held
\* for ever.
IoReleased == call # "none" ~> call = "none"
=============================================================================
