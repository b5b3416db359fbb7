------------------------------ MODULE WebSocket ------------------------------
(***************************************************************************)
(* One FlintWebSocketAPI object: its websocketpp client connection         *)
(* (connection_impl.hpp) on the asio transport (transport/asio), driven by *)
(* the page's script on the main thread, by the detached thread that runs  *)
(* the client's io_service, by timers, by the network and by the peer.     *)
(*                                                                         *)
(* The io_service is a FIFO of completions and posts.  The socket policy   *)
(* is the plain one (security/none.hpp): init, post_init and shutdown call *)
(* back at once, so the timers set around them never run.                  *)
(***************************************************************************)
EXTENDS Integers, Sequences, FiniteSets

CONSTANTS
    MaxTexts,   \* how many messages the script sends
    NotUtf8,    \* which of them, by number, are not UTF-8
    MaxCloses,  \* how often it calls close()
    MaxFrames   \* how many frames the peer sends after its response

ASSUME BoundsAssumption ==
    MaxTexts \in Nat /\ MaxCloses \in Nat /\ MaxFrames \in Nat
ASSUME TextsAssumption == NotUtf8 \subseteq Nat

\* Frames: a text or data message is its number; the others are
Ping == 0        \* received
Pong == 0        \* sent
CloseFrame == -1
BadClose == -2   \* received: a Close whose code is invalid or reserved
LastClose == -2  \* sent: a Close marked terminal
Junk == -3       \* received: consume() fails on it
Accept == -4     \* the response to the handshake request
Reject == -5

Ops == {"resolve", "connect", "request", "read", "write"}
Timers == {"dns timeout", "connect timeout", "open timeout", "close timeout"}
Posts == {"closeImpl", "sendImpl", "write_frame"}
Events == {"open", "error", "close"}

VARIABLES
    \* connection: m_state, m_internal_state, m_was_clean, what
    \* m_handshake_timer is armed for, close timers it no longer points to
    state, internal, wasClean, timer, orphans,
    \* connection: m_send_queue, m_current_msgs, m_write_flag
    sendQueue, current, writeFlag,
    \* connection: what handle_read_frame has still to consume of m_buf
    buf, looping,
    \* endpoint: the timer around the resolve or the connect
    deadline,
    \* asio: operations under way, completions and posts to run, and the
    \* thread that runs them
    pending, ready, thread,
    \* the process: up, or how it was brought down
    process,
    \* the peer: what it sent and was not read, how many frames it sent, of
    \* which data, whether it closed; what it got
    inbox, frames, data, hungUp, received,
    \* the script: its calls, its handlers that were called, its messages
    texts, closes, fired, delivered

sessionVars == <<state, internal, wasClean, timer, orphans>>
writeVars == <<sendQueue, current, writeFlag>>
readVars == <<buf, looping>>
peerVars == <<inbox, frames, data, hungUp, received>>
callVars == <<texts, closes>>
vars == <<sessionVars, writeVars, readVars, deadline, pending, ready, thread,
          process, peerVars, callVars, fired, delivered>>

Init ==
    /\ state = "connecting" /\ internal = "user init" /\ wasClean = FALSE
    /\ timer = "off" /\ orphans = 0
    /\ sendQueue = <<>> /\ current = <<>> /\ writeFlag = FALSE
    /\ buf = <<>> /\ looping = FALSE
    /\ deadline = "off" /\ pending = {} /\ ready = <<>>
    /\ thread = "none" /\ process = "up"
    /\ inbox = <<>> /\ frames = 0 /\ data = 0 /\ hungUp = FALSE
    /\ received = <<>>
    /\ texts = 0 /\ closes = 0 /\ delivered = <<>>
    /\ fired = [event \in Events |-> 0]

Entry(what, ec, got) == [what |-> what, ec |-> ec, got |-> got]
Post(what) == Entry(what, "ok", <<>>)

(***************************************************************************)
(* The script                                                              *)
(***************************************************************************)
\* open(): a second call throws in init_asio and changes nothing.
Open ==
    /\ process = "up" /\ thread = "none"
    /\ thread' = "running"
    /\ pending' = {"resolve"} /\ deadline' = "dns"
    /\ UNCHANGED <<sessionVars, writeVars, readVars, ready, process, peerVars,
                   callVars, fired, delivered>>

\* open() of a URL that is no valid URI: get_connection returns null.
OpenInvalid ==
    /\ process = "up" /\ thread = "none"
    /\ process' = "null connection"
    /\ UNCHANGED <<sessionVars, writeVars, readVars, deadline, pending, ready,
                   thread, peerVars, callVars, fired, delivered>>

\* The client has an io_service from the first open() on.
PostToService(entry) ==
    /\ process = "up"
    /\ IF thread = "none"
       THEN process' = "null io_service" /\ UNCHANGED ready
       ELSE ready' = Append(ready, entry) /\ UNCHANGED process
    /\ UNCHANGED <<sessionVars, writeVars, readVars, deadline, pending, thread,
                   peerVars, fired, delivered>>

Close ==
    /\ closes < MaxCloses
    /\ closes' = closes + 1 /\ UNCHANGED texts
    /\ PostToService(Post("closeImpl"))

Send ==
    /\ texts < MaxTexts
    /\ texts' = texts + 1 /\ UNCHANGED closes
    /\ PostToService(Entry("sendImpl", "ok", <<texts + 1>>))

(***************************************************************************)
(* The io thread                                                           *)
(***************************************************************************)
Runs(what) ==
    /\ process = "up" /\ thread = "running" /\ ~looping
    /\ ready # <<>> /\ Head(ready).what = what

Ec == Head(ready).ec
Got == Head(ready).got
Rest == Tail(ready)

Fire(event) == fired' = [fired EXCEPT ![event] = @ + 1]

\* Mutant of Terminate: the handler is called at every call.
TerminateAgain(queue) ==
    /\ state' = "closed" /\ timer' = "off"
    /\ pending' = pending \cap {"resolve"} /\ ready' = queue
    /\ IF state = "connecting" THEN Fire("error") ELSE Fire("close")
    /\ UNCHANGED <<internal, wasClean, orphans>>

\* Mutant of Terminate: the socket is not shut down.
TerminateNoShutdown(queue) ==
    /\ state' = "closed" /\ timer' = "off"
    /\ ready' = queue
    /\ CASE state = "connecting"          -> Fire("error")
         [] state \in {"open", "closing"} -> Fire("close")
         [] OTHER                         -> UNCHANGED fired
    /\ UNCHANGED <<internal, wasClean, orphans, pending>>

\* connection::terminate, with the shutdown of the socket and the call of the
\* fail or close handler it leads to.  What is still pending on the socket
\* completes without a handler; a resolve whose timer has expired goes on, for
\* the resolver's cancel() does not interrupt getaddrinfo.
Terminate(queue) ==
    /\ state' = "closed" /\ timer' = "off"
    /\ pending' = IF state = "closed" THEN pending
                  ELSE pending \cap {"resolve"}
    /\ ready' = queue
    /\ CASE state = "connecting"          -> Fire("error")
         [] state \in {"open", "closing"} -> Fire("close")
         [] OTHER                         -> UNCHANGED fired
    /\ UNCHANGED <<internal, wasClean, orphans>>

HandleResolve ==
    /\ Runs("resolve") /\ deadline = "dns"
    /\ IF Ec = "ok"
       THEN /\ deadline' = "connect"
            /\ pending' = pending \cup {"connect"}
            /\ ready' = Rest
            /\ UNCHANGED <<sessionVars, fired>>
       ELSE deadline' = "off" /\ Terminate(Rest)
    /\ UNCHANGED <<writeVars, readVars, thread, process, peerVars, callVars,
                   delivered>>

\* start(), up to the write of the handshake request.
HandleConnect ==
    /\ Runs("connect") /\ deadline = "connect"
    /\ deadline' = "off"
    /\ IF Ec = "ok"
       THEN /\ internal' = "write request"
            /\ timer' = "open"
            /\ pending' = pending \cup {"request"}
            /\ ready' = Rest
            /\ UNCHANGED <<state, wasClean, orphans, fired>>
       ELSE Terminate(Rest)
    /\ UNCHANGED <<writeVars, readVars, thread, process, peerVars, callVars,
                   delivered>>

\* A resolve or connect whose timer has expired is left to the timer.
HandleLate ==
    /\ \/ Runs("resolve") /\ deadline # "dns"
       \/ Runs("connect") /\ deadline # "connect"
    /\ ready' = Rest
    /\ UNCHANGED <<sessionVars, writeVars, readVars, deadline, pending, thread,
                   process, peerVars, callVars, fired, delivered>>

\* handle_resolve_timeout, handle_connect_timeout,
\* handle_open_handshake_timeout and handle_close_handshake_timeout.
HandleTimeout(which) ==
    /\ Runs(which)
    /\ Terminate(Rest)
    /\ UNCHANGED <<writeVars, readVars, deadline, thread, process, peerVars,
                   callVars, delivered>>

\* async_shutdown has reset the handlers of a completion that comes later.
HandleNone ==
    /\ state = "closed" /\ \E op \in {"request", "read", "write"} : Runs(op)
    /\ ready' = Rest
    /\ UNCHANGED <<sessionVars, writeVars, readVars, deadline, pending, thread,
                   process, peerVars, callVars, fired, delivered>>

\* Mutant of HandleSendHttpRequest: the timer is cancelled with the write.
SendHttpRequestUntimed ==
    /\ Runs("request") /\ state # "closed"
    /\ IF Ec = "ok"
       THEN /\ internal' = "read response" /\ timer' = "off"
            /\ pending' = pending \cup {"read"}
            /\ ready' = Rest
            /\ UNCHANGED <<state, wasClean, orphans, fired>>
       ELSE Terminate(Rest)
    /\ UNCHANGED <<writeVars, readVars, deadline, thread, process, peerVars,
                   callVars, delivered>>

HandleSendHttpRequest ==
    /\ Runs("request") /\ state # "closed"
    /\ IF Ec = "ok"
       THEN /\ internal' = "read response"
            /\ pending' = pending \cup {"read"}
            /\ ready' = Rest
            /\ UNCHANGED <<state, wasClean, timer, orphans, fired>>
       ELSE Terminate(Rest)
    /\ UNCHANGED <<writeVars, readVars, deadline, thread, process, peerVars,
                   callVars, delivered>>

\* The response may be incomplete; what follows it in m_buf is frame data.
HandleReadHttpResponse ==
    /\ Runs("read") /\ state # "closed" /\ internal = "read response"
    /\ CASE Ec # "ok" \/ (Got # <<>> /\ Head(Got) # Accept) ->
              Terminate(Rest) /\ UNCHANGED readVars
         [] Ec = "ok" /\ Got = <<>> ->
              /\ pending' = pending \cup {"read"}
              /\ ready' = Rest
              /\ UNCHANGED <<sessionVars, readVars, fired>>
         [] OTHER ->
              /\ state' = "open" /\ internal' = "process"
              /\ timer' = "off"
              /\ Fire("open")
              /\ buf' = Tail(Got) /\ looping' = TRUE
              /\ ready' = Rest
              /\ UNCHANGED <<wasClean, orphans, pending>>
    /\ UNCHANGED <<writeVars, deadline, thread, process, peerVars, callVars,
                   delivered>>

\* handle_read_frame up to its loop.  Both branches for an error terminate.
HandleReadFrame ==
    /\ Runs("read") /\ state # "closed" /\ internal = "process"
    /\ IF Ec = "ok"
       THEN /\ buf' = Got /\ looping' = TRUE
            /\ ready' = Rest
            /\ UNCHANGED <<sessionVars, pending, fired>>
       ELSE Terminate(Rest) /\ UNCHANGED readVars
    /\ UNCHANGED <<writeVars, deadline, thread, process, peerVars, callVars,
                   delivered>>

\* Mutant of Push: the write is left to whoever writes next.
PushSilent(frame, queue) ==
    /\ sendQueue' = Append(sendQueue, frame)
    /\ ready' = queue
    /\ UNCHANGED <<current, writeFlag>>

\* write_push, and a write_frame when no write is outstanding.
Push(frame, queue) ==
    /\ sendQueue' = Append(sendQueue, frame)
    /\ ready' = IF writeFlag THEN queue ELSE Append(queue, Post("write_frame"))
    /\ UNCHANGED <<current, writeFlag>>

\* Mutant of SendCloseFrame: no timer for the closing handshake.
SendCloseUntimed(frame, ack, queue) ==
    /\ state' = "closing"
    /\ wasClean' = (wasClean \/ ack)
    /\ Push(frame, queue)
    /\ UNCHANGED <<internal, timer, orphans, pending, fired>>

\* The timer that m_handshake_timer pointed to goes on without it.
SendCloseFrame(frame, ack, queue) ==
    /\ state' = "closing"
    /\ wasClean' = (wasClean \/ ack)
    /\ timer' = "close"
    /\ orphans' = IF timer = "close" THEN orphans + 1 ELSE orphans
    /\ Push(frame, queue)
    /\ UNCHANGED <<internal, pending, fired>>

Loops(frame) ==
    /\ process = "up" /\ looping /\ buf # <<>> /\ Head(buf) = frame

\* Mutant of ProcessFrame: a ping is handed to the message handler too.
ProcessAny ==
    /\ \E n \in Ping..MaxFrames : Loops(n)
    /\ buf' = Tail(buf)
    /\ delivered' = Append(delivered, Head(buf))
    /\ UNCHANGED <<sessionVars, writeVars, ready, looping, deadline, pending,
                   thread, process, peerVars, callVars, fired>>

\* One iteration of the loop of handle_read_frame: a message or control frame.
ProcessFrame ==
    /\ \E n \in Ping..MaxFrames : Loops(n)
    /\ buf' = Tail(buf)
    /\ IF state = "open" /\ Head(buf) = Ping
       THEN Push(Pong, ready)
       ELSE UNCHANGED <<writeVars, ready>>
    /\ delivered' = IF state = "open" /\ Head(buf) # Ping
                    THEN Append(delivered, Head(buf)) ELSE delivered
    /\ UNCHANGED <<sessionVars, looping, deadline, pending, thread, process,
                   peerVars, callVars, fired>>

ProcessClose ==
    /\ Loops(CloseFrame)
    /\ buf' = Tail(buf)
    /\ IF state = "open"
       THEN SendCloseFrame(CloseFrame, TRUE, ready)
       ELSE /\ wasClean' = TRUE
            /\ UNCHANGED <<state, internal, timer, orphans, writeVars, pending,
                           ready, fired>>
    /\ UNCHANGED <<looping, deadline, thread, process, peerVars, callVars,
                   delivered>>

\* "sending acknowledgement and closing", also when a Close was sent before.
ProcessBadClose ==
    /\ Loops(BadClose)
    /\ buf' = Tail(buf)
    /\ SendCloseFrame(CloseFrame, TRUE, ready)
    /\ UNCHANGED <<looping, deadline, thread, process, peerVars, callVars,
                   delivered>>

\* consume() fails: the rest of m_buf is dropped and no read follows.
ProcessJunk ==
    /\ Loops(Junk)
    /\ buf' = <<>> /\ looping' = FALSE
    /\ IF state = "open"
       THEN SendCloseFrame(LastClose, FALSE, ready)
       ELSE Terminate(ready) /\ UNCHANGED writeVars
    /\ UNCHANGED <<deadline, thread, process, peerVars, callVars, delivered>>

\* Mutant of ReadFrame: no read follows.
ReadNoFrame ==
    /\ process = "up" /\ looping /\ buf = <<>>
    /\ looping' = FALSE
    /\ UNCHANGED <<sessionVars, writeVars, buf, deadline, pending, ready,
                   thread, process, peerVars, callVars, fired, delivered>>

ReadFrame ==
    /\ process = "up" /\ looping /\ buf = <<>>
    /\ looping' = FALSE
    /\ pending' = pending \cup {"read"}
    /\ UNCHANGED <<sessionVars, writeVars, buf, deadline, ready, thread,
                   process, peerVars, callVars, fired, delivered>>

\* How many messages write_frame takes: all, or up to the first terminal one.
Taken(n) ==
    /\ n \in 0..Len(sendQueue)
    /\ \A i \in 1..(n - 1) : sendQueue[i] # LastClose
    /\ n = Len(sendQueue) \/ (n > 0 /\ sendQueue[n] = LastClose)

\* After the shutdown async_write calls handle_write_frame at once, with an
\* error: it drops the messages and leaves the flag.
WriteFrame ==
    /\ Runs("write_frame")
    /\ IF writeFlag \/ sendQueue = <<>>
       THEN UNCHANGED <<writeVars, pending>>
       ELSE \E n \in 1..Len(sendQueue) :
              /\ Taken(n)
              /\ writeFlag' = TRUE
              /\ sendQueue' = SubSeq(sendQueue, n + 1, Len(sendQueue))
              /\ IF state = "closed"
                 THEN current' = <<>> /\ UNCHANGED pending
                 ELSE /\ current' = SubSeq(sendQueue, 1, n)
                      /\ pending' = pending \cup {"write"}
    /\ ready' = Rest
    /\ UNCHANGED <<sessionVars, readVars, deadline, thread, process, peerVars,
                   callVars, fired, delivered>>

\* Mutant of HandleWriteFrame: the flag stays set.
HandleWriteKeepsFlag ==
    /\ Runs("write") /\ state # "closed"
    /\ current' = <<>>
    /\ IF Ec = "fail" \/ current[Len(current)] = LastClose
       THEN Terminate(Rest)
       ELSE /\ ready' = IF sendQueue = <<>> THEN Rest
                        ELSE Append(Rest, Post("write_frame"))
            /\ UNCHANGED <<sessionVars, pending, fired>>
    /\ UNCHANGED <<sendQueue, writeFlag, readVars, deadline, thread, process,
                   peerVars, callVars, delivered>>

\* An error or a terminal message ends the connection, with the flag set.
HandleWriteFrame ==
    /\ Runs("write") /\ state # "closed"
    /\ current' = <<>>
    /\ IF Ec = "fail" \/ current[Len(current)] = LastClose
       THEN Terminate(Rest) /\ UNCHANGED writeFlag
       ELSE /\ writeFlag' = FALSE
            /\ ready' = IF sendQueue = <<>> THEN Rest
                        ELSE Append(Rest, Post("write_frame"))
            /\ UNCHANGED <<sessionVars, pending, fired>>
    /\ UNCHANGED <<sendQueue, readVars, deadline, thread, process, peerVars,
                   callVars, delivered>>

\* close() throws when the connection is not open, and nothing on the io
\* thread catches it.
CloseImpl ==
    /\ Runs("closeImpl")
    /\ IF state = "open"
       THEN SendCloseFrame(CloseFrame, FALSE, Rest) /\ UNCHANGED process
       ELSE /\ process' = "uncaught"
            /\ UNCHANGED <<sessionVars, writeVars, pending, ready, fired>>
    /\ UNCHANGED <<readVars, deadline, thread, peerVars, callVars, delivered>>

\* Mutant of SendImpl: the state is not looked at.
SendImplAnyState ==
    /\ Runs("sendImpl")
    /\ IF Got[1] \notin NotUtf8 THEN Push(Got[1], Rest)
       ELSE ready' = Rest /\ UNCHANGED writeVars
    /\ UNCHANGED <<sessionVars, readVars, deadline, pending, thread, process,
                   peerVars, callVars, fired, delivered>>

\* Mutant of SendImpl: nothing is queued behind a write under way.
SendImplWhenIdle ==
    /\ Runs("sendImpl")
    /\ IF state = "open" /\ Got[1] \notin NotUtf8 /\ ~writeFlag
       THEN Push(Got[1], Rest)
       ELSE ready' = Rest /\ UNCHANGED writeVars
    /\ UNCHANGED <<sessionVars, readVars, deadline, pending, thread, process,
                   peerVars, callVars, fired, delivered>>

\* send() refuses a message when the connection is not open, and
\* prepare_data_frame one that is not UTF-8; nobody looks at the error.
SendImpl ==
    /\ Runs("sendImpl")
    /\ IF state = "open" /\ Got[1] \notin NotUtf8 THEN Push(Got[1], Rest)
       ELSE ready' = Rest /\ UNCHANGED writeVars
    /\ UNCHANGED <<sessionVars, readVars, deadline, pending, thread, process,
                   peerVars, callVars, fired, delivered>>

\* io_service::run returns when it has no work left.
RunReturns ==
    /\ process = "up" /\ thread = "running"
    /\ ready = <<>> /\ pending = {} /\ ~looping
    /\ timer = "off" /\ orphans = 0 /\ deadline = "off"
    /\ thread' = "returned"
    /\ UNCHANGED <<sessionVars, writeVars, readVars, deadline, pending, ready,
                   process, peerVars, callVars, fired, delivered>>

(***************************************************************************)
(* Timers                                                                  *)
(***************************************************************************)
Expire(which) ==
    /\ process = "up"
    /\ ready' = Append(ready, Post(which))
    /\ UNCHANGED <<state, internal, wasClean, writeVars, readVars, pending,
                   thread, process, peerVars, callVars, fired, delivered>>

ExpireDeadline ==
    /\ \/ deadline = "dns" /\ Expire("dns timeout")
       \/ deadline = "connect" /\ Expire("connect timeout")
    /\ deadline' = "off" /\ UNCHANGED <<timer, orphans>>

ExpireHandshake ==
    /\ \/ timer = "open" /\ Expire("open timeout")
       \/ timer = "close" /\ Expire("close timeout")
    /\ timer' = "off" /\ UNCHANGED <<deadline, orphans>>

ExpireOrphan ==
    /\ orphans > 0 /\ Expire("close timeout")
    /\ orphans' = orphans - 1 /\ UNCHANGED <<deadline, timer>>

(***************************************************************************)
(* The network and the peer                                                *)
(***************************************************************************)
Completes(op, ec, got) ==
    /\ process = "up" /\ op \in pending
    /\ pending' = pending \ {op}
    /\ ready' = Append(ready, Entry(op, ec, got))
    /\ UNCHANGED <<sessionVars, writeVars, readVars, deadline, thread, process,
                   callVars, fired, delivered>>

Succeeds ==
    /\ \E op \in {"resolve", "connect", "request"} : Completes(op, "ok", <<>>)
    /\ UNCHANGED peerVars

Fails ==
    /\ \E op \in Ops : Completes(op, "fail", <<>>)
    /\ UNCHANGED peerVars

Written ==
    /\ Completes("write", "ok", <<>>)
    /\ received' = received \o current
    /\ UNCHANGED <<inbox, frames, data, hungUp>>

\* A read takes any part of what is there, perhaps no complete frame.
Arrives ==
    /\ \E n \in 0..Len(inbox) :
         /\ Completes("read", "ok", SubSeq(inbox, 1, n))
         /\ inbox' = SubSeq(inbox, n + 1, Len(inbox))
    /\ UNCHANGED <<frames, data, hungUp, received>>

Eof ==
    /\ hungUp /\ inbox = <<>> /\ Completes("read", "eof", <<>>)
    /\ UNCHANGED peerVars

PeerActs ==
    /\ process = "up" /\ ~hungUp
    /\ internal \in {"read response", "process"}
    /\ UNCHANGED <<sessionVars, writeVars, readVars, deadline, pending, ready,
                   thread, process, received, callVars, fired, delivered>>

\* The response to the handshake comes first, then frames.
PeerSends ==
    /\ PeerActs /\ frames <= MaxFrames
    /\ frames' = frames + 1
    /\ \E frame \in IF frames = 0 THEN {Accept, Reject}
                    ELSE {Ping, CloseFrame, BadClose, Junk, data + 1} :
         /\ inbox' = Append(inbox, frame)
         /\ data' = IF frame > Ping THEN frame ELSE data
    /\ UNCHANGED hungUp

PeerHangsUp ==
    /\ PeerActs /\ hungUp' = TRUE
    /\ UNCHANGED <<inbox, frames, data>>

(***************************************************************************)
(* The specification                                                       *)
(***************************************************************************)
IoThread ==
    \/ HandleResolve \/ HandleConnect \/ HandleLate \/ HandleNone
    \/ \E which \in Timers : HandleTimeout(which)
    \/ HandleSendHttpRequest \/ HandleReadHttpResponse \/ HandleReadFrame
    \/ ProcessFrame \/ ProcessClose \/ ProcessBadClose \/ ProcessJunk
    \/ ReadFrame \/ WriteFrame \/ HandleWriteFrame
    \/ CloseImpl \/ SendImpl \/ RunReturns

Clock == ExpireDeadline \/ ExpireHandshake \/ ExpireOrphan
Network == Succeeds \/ Fails \/ Written \/ Arrives \/ Eof
Peer == PeerSends \/ PeerHangsUp
Script == Open \/ OpenInvalid \/ Close \/ Send

Next == IoThread \/ Clock \/ Network \/ Peer \/ Script
Spec == Init /\ [][Next]_vars

\* getaddrinfo returns, also when nobody waits for it any more.
ResolveReturns ==
    /\ state = "closed"
    /\ \E ec \in {"ok", "fail"} : Completes("resolve", ec, <<>>)
    /\ UNCHANGED peerVars

\* The io thread runs what is ready and time passes.  Nothing is asked of the
\* peer, and of the network only the end of a resolve that was given up: for
\* all else the timers are there.
Fairness == WF_vars(IoThread) /\ WF_vars(ResolveReturns) /\ WF_vars(Clock)

FairSpec == Spec /\ Fairness

(***************************************************************************)
(* Properties                                                              *)
(***************************************************************************)
Outgoing == LastClose..MaxTexts
Incoming == Reject..MaxFrames
PostOrOp == (Ops \cup Timers \cup Posts) \ {"sendImpl"}
Entries ==
    [what : PostOrOp, ec : {"ok", "fail", "eof"}, got : Seq(Incoming)]
      \cup [what : {"sendImpl"}, ec : {"ok"}, got : {<<n>> : n \in 1..MaxTexts}]

SessionType ==
    /\ state \in {"connecting", "open", "closing", "closed"}
    /\ internal \in {"user init", "write request", "read response", "process"}
    /\ wasClean \in BOOLEAN
    /\ timer \in {"off", "open", "close"} /\ orphans \in Nat
    /\ fired \in [Events -> Nat]

WriteType ==
    /\ sendQueue \in Seq(Outgoing) /\ current \in Seq(Outgoing)
    /\ received \in Seq(Outgoing) /\ writeFlag \in BOOLEAN

ReadType ==
    /\ buf \in Seq(Incoming) /\ inbox \in Seq(Incoming)
    /\ looping \in BOOLEAN /\ delivered \in Seq(1..MaxFrames)

IoType ==
    /\ deadline \in {"off", "dns", "connect"}
    /\ pending \subseteq Ops /\ ready \in Seq(Entries)
    /\ thread \in {"none", "running", "returned"}
    /\ process \in {"up", "null io_service", "null connection", "uncaught"}

\* The peer's first frame is its response, so its messages are fewer.
CallType ==
    /\ frames \in 0..(MaxFrames + 1) /\ data \in 0..MaxFrames
    /\ data > 0 => data < frames
    /\ hungUp \in BOOLEAN
    /\ texts \in 0..MaxTexts /\ closes \in 0..MaxCloses

\* Every variable keeps the type of the member or structure it stands for.
TypeOK == SessionType /\ WriteType /\ ReadType /\ IoType /\ CallType

Queued(what) == {i \in DOMAIN ready : ready[i].what = what}
Outstanding(op) ==
    Cardinality(Queued(op)) + (IF op \in pending THEN 1 ELSE 0)

\* m_buf has one reader: there is never more than one read under way, be it
\* in asio, in the queue or in the loop of handle_read_frame, and while the
\* connection is open there is one, so that nothing of the peer is missed.
OneReader ==
    LET readers == Outstanding("read") + (IF looping THEN 1 ELSE 0)
    IN  /\ readers <= 1
        /\ state = "open" => readers = 1

\* m_write_flag is what its comment says as long as the connection lives,
\* "True if there is currently an outstanding transport write"; so writes
\* never overlap.
WriteFlagRight ==
    /\ Outstanding("write") <= 1
    /\ state # "closed" =>
          /\ writeFlag <=> Outstanding("write") = 1
          /\ writeFlag <=> current # <<>>

\* No message is forgotten in m_send_queue: a write is outstanding, which
\* looks at the queue when it completes, or a write_frame is posted.
QueueServed ==
    state # "closed" /\ sendQueue # <<>> =>
        writeFlag \/ Queued("write_frame") # {}

\* What goes out are the script's messages in the order of its calls and
\* pongs, and after a Close frame nothing but Close frames.
OutgoingInOrder ==
    LET all == received \o (IF "write" \in pending THEN current ELSE <<>>)
                 \o sendQueue
    IN  \A i, j \in DOMAIN all : i < j =>
            /\ all[i] > Pong /\ all[j] > Pong => all[i] < all[j]
            /\ all[i] < Pong => all[j] < Pong

\* Though send() says nothing of a message that it does not take, between two
\* that reach the peer only those are missing that are not UTF-8, and these
\* always; and until the connection closes every other one, from the first
\* that was taken to the last call, is with the peer, on its way or in a queue.
NoGap ==
    LET messages(q) == {n \in 1..texts : \E i \in DOMAIN q : q[i] = n}
        posted == {ready[i].got[1] : i \in Queued("sendImpl")}
        kept == messages(received \o current \o sendQueue) \cup posted
    IN  /\ messages(received) \cap NotUtf8 = {}
        /\ \A m, n \in messages(received) :
              (m..n) \ NotUtf8 \subseteq messages(received)
        /\ state \in {"connecting", "open"} =>
              \A n \in kept : (n..texts) \ NotUtf8 \subseteq kept

\* io_service::run does not return, which would leave the session behind
\* without a thread, before the connection is closed.
RunsWhileAlive == thread = "returned" => state = "closed"

\* An attempt to connect ends, whatever the network and the peer do: each of
\* resolve, connect and opening handshake runs under a timer.
AttemptEnds ==
    thread = "running" /\ state = "connecting" ~>
        state # "connecting" \/ process # "up"

\* A closing handshake ends, answered or not (send_close_frame's timer),
\* unless the process ends first.
CloseEnds == state = "closing" ~> state = "closed" \/ process # "up"

\* The detached thread ends with its connection: terminate leaves nothing
\* behind that holds io_service::run.
ThreadReturns == state = "closed" ~> thread = "returned" \/ process # "up"

\* What the handlers that were called make of the session.
Phase == CASE fired["close"] > 0 -> "closed"
           [] fired["error"] > 0 /\ fired["close"] = 0 -> "failed"
           [] fired["open"] > 0 /\ fired["error"] = 0 /\ fired["close"] = 0 -> "open"
           [] OTHER -> "new"
Calls == fired["open"] + fired["error"] + fired["close"]

Session == INSTANCE WsSession WITH
    phase <- Phase, calls <- Calls, messages <- delivered

\* The handlers are called as the comments on them promise.
KeepsSession == Session!Spec
=============================================================================
