----------------------------- MODULE HttpRequest ----------------------------
(***************************************************************************)
(* One FlintHttpRequestAPI object (FlintHttpRequestAPI.cpp).  Each open()  *)
(* starts a chain of completion handlers: resolve, connect, write, read    *)
(* the status line, the headers and the content.  All chains share the     *)
(* socket, request_ and response_ of the object, and open() resets none of *)
(* them.  No handler tells the script anything: what is read is printed.   *)
(*                                                                         *)
(* A chain, a request and the response to it have the number of their      *)
(* open().  A response is a sequence of pieces, each of which ends a line; *)
(* "headers" ends with the blank line.                                     *)
(***************************************************************************)
EXTENDS Integers, Sequences, FiniteSets, SequencesExt

CONSTANTS
    MaxOpens,     \* how many times the script calls open()
    MaxEndpoints  \* how many addresses a host name resolves to, at most

ASSUME BoundsAssumption ==
    MaxOpens \in Nat \ {0} /\ MaxEndpoints \in Nat \ {0}

Chains == 1..MaxOpens

\* What a server may send before it closes the connection: a response, cut
\* anywhere, with the status 200 or another, or no HTTP at all.
Body == <<"body 1", "body 2">>
Full == <<"200", "headers">> \o Body
Responses ==
    {SubSeq(Full, 1, n) : n \in 0..Len(Full)}
      \cup {<<"404", "headers", "body 1">>, <<"garbage">>}

ReadKinds == {"status", "headers", "content"}
SocketKinds == {"connect", "write"} \cup ReadKinds

VARIABLES
    \* members of the object
    request, response,
    \* the socket, what the server at its other end has still to send and
    \* which request it answers, and what each chain is writing
    socket, left, answering, outgoing,
    \* the operation each chain has reached, its outcome, the endpoints it has
    \* not used yet; completed operations whose handlers are to run
    op, result, endpoints, ready,
    \* history: calls of open(), whether one came before the chain of another
    \* had ended, endpoints passed over because the socket was connected to
    \* another, how often each request reached a server, what each chain
    \* printed as content
    opens, overlapped, skipped, handed, printed

bufVars == <<request, response>>
connVars == <<socket, left, answering, outgoing>>
ioVars == <<op, result, endpoints, ready>>
histVars == <<opens, overlapped, skipped, handed, printed>>
vars == <<bufVars, connVars, ioVars, histVars>>

Each(value) == [c \in Chains |-> value]

Init ==
    /\ request = <<>> /\ response = <<>>
    /\ socket = "closed" /\ left = <<>> /\ answering = 0
    /\ outgoing = Each(<<>>)
    /\ op = Each("idle") /\ result = Each("none") /\ endpoints = Each(0)
    /\ ready = <<>>
    /\ opens = 0 /\ overlapped = FALSE /\ skipped = Each(0)
    /\ handed = Each(0) /\ printed = Each(<<>>)

(***************************************************************************)
(* Asynchronous operations                                                 *)
(***************************************************************************)
\* The delimiter that async_read_until looks for is buffered already.
Delimited(kind, buf) ==
    \/ kind = "status" /\ buf # <<>>
    \/ kind = "headers" /\ \E i \in DOMAIN buf : buf[i] = "headers"

\* The outcomes an operation can have at once.  async_connect is refused on a
\* socket that is connecting or connected.
AtOnce(kind, buf) ==
    CASE kind = "connect" ->
            (CASE socket = "closed" -> {"pending"}
               [] socket = "failed" -> {"pending", "fail"}
               [] OTHER             -> {"fail"})
      [] Delimited(kind, buf) -> {"ok"}
      [] OTHER -> IF socket \in {"connecting", "connected"}
                  THEN {"pending"} ELSE {"fail"}

Begin(c, kind, outcome) ==
    /\ op' = [op EXCEPT ![c] = kind]
    /\ result' = [result EXCEPT ![c] = outcome]
    /\ ready' = IF outcome = "pending" THEN Tail(ready)
                ELSE Append(Tail(ready), c)

EndChain(c) ==
    /\ op' = [op EXCEPT ![c] = "end"]
    /\ result' = [result EXCEPT ![c] = "none"]
    /\ ready' = Tail(ready)

Disconnect(newSocket) ==
    /\ socket' = newSocket
    /\ left' = <<>> /\ answering' = 0 /\ outgoing' = Each(<<>>)

(***************************************************************************)
(* The script                                                              *)
(***************************************************************************)
Open ==
    /\ opens < MaxOpens
    /\ opens' = opens + 1
    /\ overlapped' = (overlapped \/ \E c \in 1..opens : op[c] # "end")
    /\ request' = Append(request, opens + 1)
    /\ op' = [op EXCEPT ![opens + 1] = "resolve"]
    /\ result' = [result EXCEPT ![opens + 1] = "pending"]
    /\ UNCHANGED <<response, connVars, endpoints, ready, skipped, handed,
                   printed>>

(***************************************************************************)
(* Completion handlers                                                     *)
(***************************************************************************)
Handling(c, kind) == ready # <<>> /\ Head(ready) = c /\ op[c] = kind

\* An error other than eof is printed and ends the chain.
HandleError(c) ==
    /\ \/ \E kind \in {"resolve", "write", "status", "headers"} :
            Handling(c, kind) /\ result[c] # "ok"
       \/ Handling(c, "connect") /\ result[c] = "fail" /\ endpoints[c] = 0
       \/ Handling(c, "content") /\ result[c] \in {"fail", "eof"}
    /\ EndChain(c)
    /\ UNCHANGED <<bufVars, connVars, endpoints, histVars>>

HandleResolve(c) ==
    /\ Handling(c, "resolve") /\ result[c] = "ok"
    /\ endpoints' = [endpoints EXCEPT ![c] = @ - 1]
    /\ \E outcome \in AtOnce("connect", response) :
         /\ Begin(c, "connect", outcome)
         /\ IF outcome = "pending"
            THEN socket' = "connecting" /\ UNCHANGED skipped
            ELSE /\ skipped' = [skipped EXCEPT ![c] =
                                  IF socket = "connected" THEN @ + 1 ELSE @]
                 /\ UNCHANGED socket
    /\ UNCHANGED <<bufVars, left, answering, outgoing, opens, overlapped,
                   handed, printed>>

HandleConnect(c) ==
    /\ Handling(c, "connect") /\ result[c] = "ok"
    /\ \E outcome \in AtOnce("write", response) :
         /\ Begin(c, "write", outcome)
         /\ outgoing' = IF outcome = "pending"
                        THEN [outgoing EXCEPT ![c] = request] ELSE outgoing
    /\ UNCHANGED <<bufVars, socket, left, answering, endpoints, histVars>>

OnSocket == {c \in Chains : op[c] \in SocketKinds /\ result[c] = "pending"}

\* Mutant: the end of the endpoints is not looked for.
HandleConnectPastEnd(c) ==
    /\ Handling(c, "connect") /\ result[c] = "fail"
    /\ endpoints' = [endpoints EXCEPT ![c] = @ - 1]
    /\ result' = [result EXCEPT ![c] = "pending"]
    /\ ready' = Tail(ready)
    /\ Disconnect("connecting")
    /\ UNCHANGED <<bufVars, op, histVars>>

\* Mutant: the request is formed again for each endpoint.
HandleConnectForms(c) ==
    /\ Handling(c, "connect") /\ result[c] = "fail" /\ endpoints[c] > 0
    /\ endpoints' = [endpoints EXCEPT ![c] = @ - 1]
    /\ request' = Append(request, c)
    /\ result' = [d \in Chains |-> IF d = c THEN "pending"
                                   ELSE IF d \in OnSocket THEN "fail"
                                   ELSE result[d]]
    /\ \E order \in SetToSeqs(OnSocket) : ready' = Tail(ready) \o order
    /\ Disconnect("connecting")
    /\ UNCHANGED <<response, op, histVars>>

\* socket_.close() cancels what the other chains have on the socket.
HandleConnectNext(c) ==
    /\ Handling(c, "connect") /\ result[c] = "fail" /\ endpoints[c] > 0
    /\ endpoints' = [endpoints EXCEPT ![c] = @ - 1]
    /\ result' = [d \in Chains |-> IF d = c THEN "pending"
                                   ELSE IF d \in OnSocket THEN "fail"
                                   ELSE result[d]]
    /\ \E order \in SetToSeqs(OnSocket) : ready' = Tail(ready) \o order
    /\ Disconnect("connecting")
    /\ UNCHANGED <<bufVars, op, histVars>>

\* Mutant: the handler of the read is posted as well.
HandleWriteRequestPosts(c) ==
    /\ Handling(c, "write") /\ result[c] = "ok"
    /\ op' = [op EXCEPT ![c] = "status"]
    /\ result' = [result EXCEPT ![c] = "pending"]
    /\ ready' = Append(Tail(ready), c)
    /\ UNCHANGED <<bufVars, connVars, endpoints, histVars>>

HandleWriteRequest(c) ==
    /\ Handling(c, "write") /\ result[c] = "ok"
    /\ \E outcome \in AtOnce("status", response) : Begin(c, "status", outcome)
    /\ UNCHANGED <<bufVars, connVars, endpoints, histVars>>

StatusLines == {"200", "404"}

\* One line is taken, or, when >> finds no number after the first word and
\* getline then does nothing, a part of it; the rest stays in response_, for
\* later chains too when this one ends here.
HandleReadStatusLine(c) ==
    /\ Handling(c, "status") /\ result[c] = "ok"
    /\ IF response = <<>> THEN UNCHANGED response
       ELSE \/ response' = Tail(response)
            \/ Head(response) \notin StatusLines /\ UNCHANGED response
    /\ IF response # <<>> /\ Head(response) = "200"
       THEN \E outcome \in AtOnce("headers", response') :
              Begin(c, "headers", outcome)
       ELSE EndChain(c)
    /\ UNCHANGED <<request, connVars, endpoints, histVars>>

\* Mutant: what was read beyond the blank line is dropped.
HandleReadHeadersDrops(c) ==
    /\ Handling(c, "headers") /\ result[c] = "ok"
    /\ response' = <<>>
    /\ \E outcome \in AtOnce("content", <<>>) : Begin(c, "content", outcome)
    /\ UNCHANGED <<request, connVars, endpoints, histVars>>

\* The lines up to the blank one are taken, all if there is none; what
\* remains is printed.
HandleReadHeaders(c) ==
    /\ Handling(c, "headers") /\ result[c] = "ok"
    /\ \E n \in 0..Len(response) :
         /\ \A i \in 1..(n - 1) : response[i] # "headers"
         /\ n = Len(response) \/ (n > 0 /\ response[n] = "headers")
         /\ printed' = [printed EXCEPT ![c] =
                          @ \o SubSeq(response, n + 1, Len(response))]
    /\ response' = <<>>
    /\ \E outcome \in AtOnce("content", <<>>) : Begin(c, "content", outcome)
    /\ UNCHANGED <<request, connVars, endpoints, opens, overlapped, skipped,
                   handed>>

\* Mutant: the next read is not started.
HandleReadContentOnce(c) ==
    /\ Handling(c, "content") /\ result[c] = "ok"
    /\ printed' = [printed EXCEPT ![c] = @ \o response]
    /\ response' = <<>>
    /\ op' = op /\ result' = [result EXCEPT ![c] = "none"]
    /\ ready' = Tail(ready)
    /\ UNCHANGED <<request, connVars, endpoints, opens, overlapped, skipped,
                   handed>>

HandleReadContent(c) ==
    /\ Handling(c, "content") /\ result[c] = "ok"
    /\ printed' = [printed EXCEPT ![c] = @ \o response]
    /\ response' = <<>>
    /\ \E outcome \in AtOnce("content", <<>>) : Begin(c, "content", outcome)
    /\ UNCHANGED <<request, connVars, endpoints, opens, overlapped, skipped,
                   handed>>

(***************************************************************************)
(* The network and the servers                                             *)
(***************************************************************************)
Pending(c, kind) == op[c] = kind /\ result[c] = "pending"

Complete(c, outcome) ==
    /\ result' = [result EXCEPT ![c] = outcome]
    /\ ready' = Append(ready, c)

Resolved(c) ==
    /\ Pending(c, "resolve")
    /\ Complete(c, "ok")
    /\ \E n \in 1..MaxEndpoints : endpoints' = [endpoints EXCEPT ![c] = n]
    /\ UNCHANGED <<bufVars, connVars, op, histVars>>

Connected(c) ==
    /\ Pending(c, "connect")
    /\ Complete(c, "ok")
    /\ socket' = "connected" /\ left' = <<>> /\ answering' = 0
    /\ UNCHANGED <<bufVars, outgoing, op, endpoints, histVars>>

\* How many copies of request r a text holds.
Copies(r, text) == Cardinality({i \in DOMAIN text : text[i] = r})

\* The server answers the first request of a connection only.
Written(c) ==
    /\ Pending(c, "write") /\ socket = "connected"
    /\ Complete(c, "ok")
    /\ request' = SubSeq(request, Len(outgoing[c]) + 1, Len(request))
    /\ handed' = [r \in Chains |-> handed[r] + Copies(r, outgoing[c])]
    /\ outgoing' = [outgoing EXCEPT ![c] = <<>>]
    /\ IF answering = 0 /\ outgoing[c] # <<>>
       THEN answering' = Head(outgoing[c]) /\ left' \in Responses
       ELSE UNCHANGED <<answering, left>>
    /\ UNCHANGED <<response, socket, op, endpoints, opens, overlapped,
                   skipped, printed>>

Reading(c) == op[c] \in ReadKinds /\ result[c] = "pending"

\* The content is read with transfer_at_least(1), the rest to a delimiter.
Arrive(c) ==
    /\ Reading(c) /\ socket = "connected"
    /\ \E n \in 1..Len(left) :
         /\ response' = response \o SubSeq(left, 1, n)
         /\ left' = SubSeq(left, n + 1, Len(left))
    /\ IF op[c] = "content" \/ Delimited(op[c], response')
       THEN Complete(c, "ok") ELSE UNCHANGED <<result, ready>>
    /\ UNCHANGED <<request, socket, answering, outgoing, op, endpoints,
                   histVars>>

Eof(c) ==
    /\ Reading(c) /\ socket = "connected" /\ left = <<>>
    /\ Complete(c, "eof")
    /\ UNCHANGED <<bufVars, connVars, op, endpoints, histVars>>

Fail(c) ==
    /\ op[c] \in SocketKinds \cup {"resolve"} /\ result[c] = "pending"
    /\ Complete(c, "fail")
    /\ IF op[c] = "resolve" \/ (Reading(c) /\ socket = "connecting")
       THEN UNCHANGED connVars ELSE Disconnect("failed")
    /\ UNCHANGED <<bufVars, op, endpoints, histVars>>

(***************************************************************************)
(* The specification                                                       *)
(***************************************************************************)
Io(c) ==
    \/ HandleError(c) \/ HandleResolve(c) \/ HandleConnect(c)
    \/ HandleConnectNext(c) \/ HandleWriteRequest(c)
    \/ HandleReadStatusLine(c) \/ HandleReadHeaders(c) \/ HandleReadContent(c)

Network(c) ==
    \/ Resolved(c) \/ Connected(c) \/ Written(c) \/ Arrive(c) \/ Eof(c)
    \/ Fail(c)

IoThread == \E c \in Chains : Io(c)

Next == Open \/ IoThread \/ \E c \in Chains : Network(c)
Spec == Init /\ [][Next]_vars

\* The io thread runs what is ready, and the network and the servers end
\* every operation; the code itself sets no timeout.
Fairness == WF_vars(IoThread) /\ \A c \in Chains : WF_vars(Network(c))
FairSpec == Spec /\ Fairness

(***************************************************************************)
(* Properties                                                              *)
(***************************************************************************)
Pieces == {"200", "404", "garbage", "headers", "body 1", "body 2"}
Outcomes == {"ok", "fail", "eof"}

\* Every variable keeps the type of the member or structure it stands for.
TypeOK ==
    /\ request \in Seq(Chains) /\ response \in Seq(Pieces)
    /\ socket \in {"closed", "connecting", "connected", "failed"}
    /\ left \in Seq(Pieces) /\ answering \in 0..MaxOpens
    /\ outgoing \in [Chains -> Seq(Chains)]
    /\ op \in [Chains -> {"idle", "resolve", "end"} \cup SocketKinds]
    /\ result \in [Chains -> {"none", "pending"} \cup Outcomes]
    /\ endpoints \in [Chains -> 0..MaxEndpoints]
    /\ ready \in Seq(Chains)
    /\ opens \in 0..MaxOpens /\ overlapped \in BOOLEAN
    /\ skipped \in [Chains -> Nat] /\ handed \in [Chains -> Nat]
    /\ printed \in [Chains -> Seq(Pieces)]

\* However many chains share the socket, and whatever a socket_.close() of one
\* of them cancels for the others, a completed operation has its handler
\* queued exactly once.
CompletionsQueuedOnce ==
    /\ \A i, j \in DOMAIN ready : ready[i] = ready[j] => i = j
    /\ \A c \in Chains :
          result[c] \in Outcomes <=> \E i \in DOMAIN ready : ready[i] = c

\* For a script that waits for each chain to end, a request goes out at most
\* once, also when it was left over from an open() that failed.
RequestSentAtMostOnce ==
    ~overlapped => \A c \in Chains : handed[c] <= 1

\* "treat all data up until the EOF as the content": for such a script, what
\* a chain has printed, what is buffered and what is still to come make up a
\* prefix of the body of one response; nothing is lost where the headers and
\* the content meet, and no piece of an earlier load gets in.
ContentIsBody ==
    ~overlapped => \A c \in Chains : op[c] = "content" /\ result[c] # "fail" =>
        IsPrefix(printed[c] \o response \o left, Body)

\* Every chain comes to its end.
ChainEnds == \A c \in Chains : op[c] # "idle" ~> op[c] = "end"
=============================================================================
