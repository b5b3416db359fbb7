--------------------------- MODULE WebSocketProofs --------------------------
(***************************************************************************)
(* Theorems about WebSocket, for every number of messages, calls of        *)
(* close() and frames of the peer.                                         *)
(***************************************************************************)
EXTENDS WebSocket, FiniteSetTheorems, SequenceTheorems, TLAPS

(***************************************************************************)
(* Type correctness                                                        *)
(***************************************************************************)
\* The entries that handlers, calls and timers put into the queue.
LEMMA EntriesMade ==
    /\ Post("write_frame") \in Entries /\ Post("closeImpl") \in Entries
    /\ \A which \in Timers : Post(which) \in Entries
    /\ \A n \in 1..MaxTexts : Entry("sendImpl", "ok", <<n>>) \in Entries
    /\ \A op \in Ops, ec \in {"ok", "fail", "eof"}, got \in Seq(Incoming) :
          Entry(op, ec, got) \in Entries
<1>1. <<>> \in Seq(Incoming)
  OBVIOUS
<1>2. \A what \in PostOrOp, ec \in {"ok", "fail", "eof"}, got \in Seq(Incoming) :
        Entry(what, ec, got) \in Entries
  BY DEF Entries, Entry
<1>3. Ops \subseteq PostOrOp /\ Timers \subseteq PostOrOp
  BY DEF PostOrOp, Ops, Timers
<1>4. "write_frame" \in PostOrOp /\ "closeImpl" \in PostOrOp
  BY DEF PostOrOp, Posts
<1>5. \A n \in 1..MaxTexts : Entry("sendImpl", "ok", <<n>>) \in Entries
  BY DEF Entries, Entry
<1> QED BY <1>1, <1>2, <1>3, <1>4, <1>5 DEF Post

\* What the next completion or post carries.
LEMMA HeadEntry ==
    ASSUME TypeOK, ready # <<>>
    PROVE  /\ Rest \in Seq(Entries) /\ Ec \in {"ok", "fail", "eof"}
           /\ Head(ready).what # "sendImpl" => Got \in Seq(Incoming)
           /\ Head(ready).what = "sendImpl" => Got[1] \in Outgoing
<1>1. Head(ready) \in Entries /\ Rest \in Seq(Entries)
  BY HeadTailProperties DEF TypeOK, IoType, Rest
<1>2. CASE Head(ready) \in [what : PostOrOp, ec : {"ok", "fail", "eof"},
                            got : Seq(Incoming)]
  BY <1>1, <1>2 DEF Ec, Got, PostOrOp
<1>3. CASE Head(ready) \in [what : {"sendImpl"}, ec : {"ok"},
                            got : {<<n>> : n \in 1..MaxTexts}]
  <2>1. PICK n \in 1..MaxTexts : Got = <<n>>
    BY <1>3 DEF Got
  <2>2. Got[1] \in Outgoing
    BY <2>1, BoundsAssumption DEF Outgoing, LastClose
  <2> QED BY <1>1, <1>3, <2>2 DEF Ec
<1> QED BY <1>1, <1>2, <1>3 DEF Entries

\* The marks are frames.
LEMMA MarksTyped ==
    /\ Pong \in Outgoing /\ CloseFrame \in Outgoing /\ LastClose \in Outgoing
    /\ \A n \in 1..MaxTexts : n \in Outgoing
  BY BoundsAssumption DEF Outgoing, Pong, CloseFrame, LastClose

\* A frame pushed and a post of write_frame keep their types.
LEMMA PushType ==
    ASSUME TypeOK, NEW frame \in Outgoing, NEW queue \in Seq(Entries),
           Push(frame, queue)
    PROVE  /\ sendQueue' \in Seq(Outgoing) /\ ready' \in Seq(Entries)
           /\ UNCHANGED <<current, writeFlag>>
<1>1. sendQueue' \in Seq(Outgoing)
  BY AppendProperties DEF Push, TypeOK, WriteType
<1>2. Append(queue, Post("write_frame")) \in Seq(Entries)
  BY EntriesMade, AppendProperties
<1> QED BY <1>1, <1>2 DEF Push

\* The session that SendCloseFrame leaves, and the frame it pushes.
LEMMA SendCloseType ==
    ASSUME TypeOK, NEW frame \in Outgoing, NEW ack \in BOOLEAN,
           NEW queue \in Seq(Entries), SendCloseFrame(frame, ack, queue)
    PROVE  /\ SessionType' /\ ready' \in Seq(Entries) /\ pending' = pending
           /\ sendQueue' \in Seq(Outgoing) /\ UNCHANGED <<current, writeFlag>>
<1>1. Push(frame, queue)
  BY DEF SendCloseFrame
<1>2. wasClean' \in BOOLEAN
  BY Zenon DEF SendCloseFrame
<1>3. orphans' \in Nat
  <2>1. orphans \in Nat
    BY DEF TypeOK, SessionType
  <2>2. orphans' = IF timer = "close" THEN orphans + 1 ELSE orphans
    BY Zenon DEF SendCloseFrame
  <2> QED BY <2>1, <2>2
<1>4. SessionType'
  BY <1>2, <1>3 DEF SendCloseFrame, TypeOK, SessionType
<1> QED BY <1>1, <1>4, PushType DEF SendCloseFrame

\* A call of a handler is counted.
LEMMA FireType ==
    ASSUME fired \in [Events -> Nat],
           NEW event \in Events, Fire(event)
    PROVE  fired' \in [Events -> Nat]
  BY DEF Fire

\* The session that Terminate leaves.
LEMMA TerminateType ==
    ASSUME TypeOK, NEW queue \in Seq(Entries), Terminate(queue)
    PROVE  /\ SessionType' /\ ready' \in Seq(Entries)
           /\ pending' \subseteq pending
<1>1. ready' = queue /\ pending' \subseteq pending
  BY DEF Terminate
<1>2. /\ state' = "closed" /\ timer' = "off"
      /\ UNCHANGED <<internal, wasClean, orphans>>
  BY DEF Terminate
<1>3. fired' \in [Events -> Nat]
  <2>1. \/ Fire("error") \/ Fire("close")
        \/ UNCHANGED fired
    BY DEF Terminate
  <2>2. fired \in [Events -> Nat]
    BY DEF TypeOK, SessionType
  <2> QED BY <2>1, <2>2, FireType DEF Events
<1> QED BY <1>1, <1>2, <1>3 DEF TypeOK, SessionType

\* Every step keeps the types of the session's members.
LEMMA SessionTypeStep == TypeOK /\ [Next]_vars => SessionType'
<1> SUFFICES ASSUME TypeOK, [Next]_vars PROVE SessionType'
  OBVIOUS
<1>1. SessionType
  BY DEF TypeOK
<1>2. ASSUME UNCHANGED <<sessionVars, fired>> PROVE SessionType'
  BY <1>1, <1>2 DEF SessionType, sessionVars
<1>3. ASSUME ready # <<>>, Terminate(Rest) PROVE SessionType'
  BY <1>3, HeadEntry, TerminateType
<1>4. CASE HandleResolve \/ HandleReadFrame
  BY <1>2, <1>3, <1>4 DEF HandleResolve, HandleReadFrame, Runs, sessionVars
<1>5. CASE HandleConnect
  <2>1. CASE Ec = "ok"
    BY <1>1, <1>5, <2>1 DEF HandleConnect, SessionType
  <2> QED BY <1>3, <1>5, <2>1 DEF HandleConnect, Runs
<1>6. CASE \E which \in Timers : HandleTimeout(which)
  BY <1>3, <1>6 DEF HandleTimeout, Runs
<1>7. CASE HandleSendHttpRequest
  <2>1. CASE Ec = "ok"
    BY <1>1, <1>7, <2>1 DEF HandleSendHttpRequest, SessionType
  <2> QED BY <1>3, <1>7, <2>1 DEF HandleSendHttpRequest, Runs
<1>8. CASE HandleReadHttpResponse
  <2>1. ready # <<>>
    BY <1>8 DEF HandleReadHttpResponse, Runs
  <2>2. \/ Terminate(Rest)
        \/ UNCHANGED <<sessionVars, fired>>
        \/ /\ state' = "open" /\ internal' = "process" /\ timer' = "off"
           /\ Fire("open") /\ UNCHANGED <<wasClean, orphans>>
    BY <1>8 DEF HandleReadHttpResponse
  <2>3. CASE /\ state' = "open" /\ internal' = "process" /\ timer' = "off"
             /\ Fire("open") /\ UNCHANGED <<wasClean, orphans>>
    BY <1>1, <2>3, FireType DEF SessionType, Events
  <2> QED BY <1>2, <1>3, <2>1, <2>2, <2>3
<1>9. CASE ProcessClose
  <2>1. CASE state = "open"
    BY <1>9, <2>1, SendCloseType, MarksTyped DEF ProcessClose, TypeOK, IoType
  <2>2. CASE state # "open"
    BY <1>1, <1>9, <2>2 DEF ProcessClose, SessionType
  <2> QED BY <2>1, <2>2
<1>10. CASE ProcessBadClose
  BY <1>10, SendCloseType, MarksTyped DEF ProcessBadClose, TypeOK, IoType
<1>11. CASE ProcessJunk
  <2>1. ready \in Seq(Entries)
    BY DEF TypeOK, IoType
  <2> QED
    BY <1>11, <2>1, SendCloseType, TerminateType, MarksTyped DEF ProcessJunk
<1>12. CASE CloseImpl
  BY <1>2, <1>12, SendCloseType, HeadEntry, MarksTyped
     DEF CloseImpl, Runs, sessionVars
<1>13. CASE HandleWriteFrame
  BY <1>2, <1>3, <1>13 DEF HandleWriteFrame, Runs
<1>14. CASE Open \/ OpenInvalid \/ Close \/ Send
  BY <1>2, <1>14 DEF Open, OpenInvalid, Close, Send, PostToService
<1>15. CASE HandleLate \/ HandleNone \/ ProcessFrame \/ ReadFrame \/ WriteFrame
            \/ SendImpl \/ RunReturns
  BY <1>2, <1>15 DEF HandleLate, HandleNone, ProcessFrame, ReadFrame,
     WriteFrame, SendImpl, RunReturns
<1>16. CASE Network \/ Peer
  BY <1>2, <1>16 DEF Network, Succeeds, Fails, Written, Arrives, Eof,
     Completes, Peer, PeerSends, PeerHangsUp, PeerActs
<1>17. CASE Clock
  <2>1. /\ UNCHANGED <<state, internal, wasClean, fired>>
        /\ timer' \in {timer, "off"}
    BY <1>17 DEF Clock, ExpireDeadline, ExpireHandshake, ExpireOrphan, Expire
  <2>2. orphans' \in Nat
    <3>1. orphans' = orphans \/ (orphans > 0 /\ orphans' = orphans - 1)
      BY <1>17 DEF Clock, ExpireDeadline, ExpireHandshake, ExpireOrphan
    <3>2. orphans \in Nat
      BY <1>1 DEF SessionType
    <3> QED BY <3>1, <3>2
  <2> QED BY <1>1, <2>1, <2>2 DEF SessionType
<1>18. CASE UNCHANGED vars
  BY <1>2, <1>18 DEF vars
<1> QED
  BY <1>4, <1>5, <1>6, <1>7, <1>8, <1>9, <1>10, <1>11, <1>12, <1>13, <1>14,
     <1>15, <1>16, <1>17, <1>18 DEF Next, IoThread, Script

\* What remains of a sequence without its first or its first n elements.
LEMMA SuffixType ==
    ASSUME NEW T, NEW q \in Seq(T), NEW n \in 0..Len(q)
    PROVE  /\ SubSeq(q, n + 1, Len(q)) \in Seq(T)
           /\ SubSeq(q, 1, n) \in Seq(T)
  BY SubSeqProperties, LenProperties

\* Every step keeps the types of the members that writes use.
LEMMA WriteTypeStep == TypeOK /\ [Next]_vars => WriteType'
<1> SUFFICES ASSUME TypeOK, [Next]_vars PROVE WriteType'
  OBVIOUS
<1>1. WriteType /\ ready \in Seq(Entries)
  BY DEF TypeOK, IoType
<1>2. ASSUME UNCHANGED <<writeVars, received>> PROVE WriteType'
  BY <1>1, <1>2 DEF WriteType, writeVars
<1>3. ASSUME NEW frame \in Outgoing, NEW queue \in Seq(Entries),
             Push(frame, queue), UNCHANGED received
      PROVE  WriteType'
  BY <1>1, <1>3, PushType DEF WriteType
<1>4. CASE ProcessFrame
  BY <1>1, <1>2, <1>3, <1>4, MarksTyped DEF ProcessFrame, peerVars
<1>5. CASE ProcessClose \/ ProcessBadClose
  BY <1>1, <1>2, <1>3, <1>5, MarksTyped
     DEF ProcessClose, ProcessBadClose, SendCloseFrame, peerVars
<1>6. CASE ProcessJunk \/ CloseImpl
  BY <1>1, <1>2, <1>3, <1>6, MarksTyped, HeadEntry
     DEF ProcessJunk, CloseImpl, SendCloseFrame, Runs, peerVars
<1>7. CASE SendImpl
  BY <1>2, <1>3, <1>7, HeadEntry DEF SendImpl, Runs, peerVars
<1>8. CASE WriteFrame
  <2>1. CASE writeFlag \/ sendQueue = <<>>
    BY <1>2, <1>8, <2>1 DEF WriteFrame, peerVars
  <2>2. CASE ~(writeFlag \/ sendQueue = <<>>)
    <3>1. PICK n \in 1..Len(sendQueue) :
            /\ writeFlag' = TRUE
            /\ sendQueue' = SubSeq(sendQueue, n + 1, Len(sendQueue))
            /\ current' \in {<<>>, SubSeq(sendQueue, 1, n)}
      BY <1>8, <2>2 DEF WriteFrame
    <3>2. sendQueue' \in Seq(Outgoing) /\ current' \in Seq(Outgoing)
      <4>1. sendQueue \in Seq(Outgoing)
        BY <1>1 DEF WriteType
      <4>2. n \in 0..Len(sendQueue)
        BY <3>1, <4>1, LenProperties
      <4>3. /\ SubSeq(sendQueue, n + 1, Len(sendQueue)) \in Seq(Outgoing)
            /\ SubSeq(sendQueue, 1, n) \in Seq(Outgoing)
        BY <4>1, <4>2, SuffixType
      <4>4. <<>> \in Seq(Outgoing)
        OBVIOUS
      <4>5. CASE current' = <<>>
        BY <3>1, <4>3, <4>4, <4>5
      <4>6. CASE current' = SubSeq(sendQueue, 1, n)
        BY <3>1, <4>3, <4>6
      <4> QED BY <3>1, <4>5, <4>6
    <3> QED BY <1>1, <1>8, <3>1, <3>2 DEF WriteFrame, WriteType, peerVars
  <2> QED BY <2>1, <2>2
<1>9. CASE HandleWriteFrame
  <2>1. current' = <<>> /\ UNCHANGED <<sendQueue, received>>
    BY <1>9 DEF HandleWriteFrame, peerVars
  <2>2. writeFlag' \in BOOLEAN
    <3>1. writeFlag' = FALSE \/ writeFlag' = writeFlag
      BY <1>9 DEF HandleWriteFrame
    <3> QED BY <1>1, <3>1 DEF WriteType
  <2> QED BY <1>1, <2>1, <2>2 DEF WriteType
<1>10. CASE Written
  <2>1. received' \in Seq(Outgoing)
    BY <1>1, <1>10, ConcatProperties DEF Written, WriteType
  <2> QED BY <1>1, <1>10, <2>1 DEF Written, Completes, WriteType, writeVars
<1>11. CASE HandleResolve \/ HandleConnect \/ HandleLate \/ HandleNone
            \/ HandleSendHttpRequest \/ HandleReadHttpResponse
            \/ HandleReadFrame \/ ReadFrame \/ RunReturns
  BY <1>2, <1>11 DEF HandleResolve, HandleConnect, HandleLate, HandleNone,
     HandleSendHttpRequest, HandleReadHttpResponse, HandleReadFrame,
     ReadFrame, RunReturns, peerVars
<1>12. CASE \E which \in Timers : HandleTimeout(which)
  BY <1>2, <1>12 DEF HandleTimeout, peerVars
<1>13. CASE Open \/ OpenInvalid \/ Close \/ Send
  BY <1>2, <1>13 DEF Open, OpenInvalid, Close, Send, PostToService, peerVars
<1>14. CASE Succeeds \/ Fails \/ Arrives \/ Eof \/ Peer
  BY <1>2, <1>14 DEF Succeeds, Fails, Arrives, Eof, Completes, Peer,
     PeerSends, PeerHangsUp, PeerActs, peerVars
<1>15. CASE Clock
  BY <1>2, <1>15 DEF Clock, ExpireDeadline, ExpireHandshake, ExpireOrphan,
     Expire, peerVars
<1>16. CASE UNCHANGED vars
  BY <1>2, <1>16 DEF vars, peerVars
<1> QED
  BY <1>4, <1>5, <1>6, <1>7, <1>8, <1>9, <1>10, <1>11, <1>12, <1>13, <1>14,
     <1>15, <1>16 DEF Next, IoThread, Script, Network

\* Every step keeps the types of what is read.
LEMMA ReadTypeStep == TypeOK /\ [Next]_vars => ReadType'
<1> SUFFICES ASSUME TypeOK, [Next]_vars PROVE ReadType'
  OBVIOUS
<1>1. ReadType
  BY DEF TypeOK
<1>2. ASSUME UNCHANGED <<readVars, inbox, delivered>> PROVE ReadType'
  BY <1>1, <1>2 DEF ReadType, readVars
<1>3. ASSUME buf' \in Seq(Incoming), looping' \in BOOLEAN,
             UNCHANGED <<inbox, delivered>>
      PROVE  ReadType'
  BY <1>1, <1>3 DEF ReadType
<1>4. buf # <<>> => Head(buf) \in Incoming /\ Tail(buf) \in Seq(Incoming)
  BY <1>1, HeadTailProperties DEF ReadType
<1>5. ready # <<>> /\ Head(ready).what = "read" => Got \in Seq(Incoming)
  BY HeadEntry
<1>6. CASE HandleReadHttpResponse
  <2>1. CASE UNCHANGED readVars
    BY <1>2, <1>6, <2>1 DEF HandleReadHttpResponse, peerVars
  <2>2. CASE ~UNCHANGED readVars
    <3>1. Got # <<>> /\ buf' = Tail(Got) /\ looping' = TRUE
      BY <1>6, <2>2, HeadEntry DEF HandleReadHttpResponse, Runs
    <3>2. Tail(Got) \in Seq(Incoming)
      BY <1>5, <1>6, <3>1, HeadTailProperties DEF HandleReadHttpResponse, Runs
    <3> QED BY <1>3, <1>6, <3>1, <3>2 DEF HandleReadHttpResponse, peerVars
  <2> QED BY <2>1, <2>2
<1>7. CASE HandleReadFrame
  <2>1. \/ UNCHANGED readVars
        \/ buf' = Got /\ looping' = TRUE
    BY <1>7 DEF HandleReadFrame
  <2> QED
    BY <1>2, <1>3, <1>5, <1>7, <2>1 DEF HandleReadFrame, Runs, peerVars
<1>8. CASE ProcessFrame
  <2>1. PICK n \in Ping..MaxFrames : buf # <<>> /\ Head(buf) = n
    BY <1>8 DEF ProcessFrame, Loops
  <2>2. delivered' \in Seq(1..MaxFrames)
    <3>1. delivered \in Seq(1..MaxFrames)
      BY <1>1 DEF ReadType
    <3>2. \/ delivered' = delivered
          \/ Head(buf) # Ping /\ delivered' = Append(delivered, Head(buf))
      BY <1>8 DEF ProcessFrame
    <3>3. Head(buf) # Ping => Head(buf) \in 1..MaxFrames
      BY <2>1, BoundsAssumption DEF Ping
    <3>4. CASE Head(buf) # Ping /\ delivered' = Append(delivered, Head(buf))
      <4>1. Head(buf) \in 1..MaxFrames
        BY <3>3, <3>4
      <4> QED BY <3>1, <3>4, <4>1, AppendProperties
    <3> QED BY <3>1, <3>2, <3>4
  <2> QED
    BY <1>1, <1>4, <1>8, <2>1, <2>2 DEF ProcessFrame, ReadType, peerVars
<1>9. CASE ProcessClose \/ ProcessBadClose
  <2>1. buf # <<>> /\ buf' = Tail(buf)
    BY <1>9 DEF ProcessClose, ProcessBadClose, Loops
  <2>2. UNCHANGED <<looping, inbox, delivered>>
    BY <1>9 DEF ProcessClose, ProcessBadClose, peerVars
  <2> QED BY <1>1, <1>4, <2>1, <2>2 DEF ReadType
<1>10. CASE ProcessJunk
  <2>1. <<>> \in Seq(Incoming)
    OBVIOUS
  <2>2. /\ buf' = <<>> /\ looping' = FALSE
        /\ UNCHANGED <<inbox, delivered>>
    BY <1>10 DEF ProcessJunk, peerVars
  <2> QED BY <1>3, <2>1, <2>2
<1>11. CASE ReadFrame
  BY <1>1, <1>3, <1>11 DEF ReadFrame, ReadType, peerVars
<1>12. CASE Arrives
  <2>1. PICK n \in 0..Len(inbox) : inbox' = SubSeq(inbox, n + 1, Len(inbox))
    BY <1>12 DEF Arrives
  <2>2. inbox' \in Seq(Incoming)
    BY <1>1, <2>1, SuffixType DEF ReadType
  <2> QED
    BY <1>1, <1>12, <2>2 DEF Arrives, Completes, ReadType, readVars
<1>13. CASE PeerSends
  <2>1. PICK frame \in IF frames = 0 THEN {Accept, Reject}
                       ELSE {Ping, CloseFrame, BadClose, Junk, data + 1} :
          inbox' = Append(inbox, frame)
    BY <1>13 DEF PeerSends
  <2>2. frames > 0 => data + 1 \in 1..MaxFrames
    BY <1>13, BoundsAssumption DEF PeerSends, TypeOK, CallType
  <2>3. frame \in Incoming
    <3>1. frames \in Nat
      BY BoundsAssumption DEF TypeOK, CallType
    <3> QED
      BY <2>1, <2>2, <3>1, BoundsAssumption
         DEF Incoming, Accept, Reject, Ping, CloseFrame, BadClose, Junk
  <2>4. inbox' \in Seq(Incoming)
    BY <1>1, <2>1, <2>3, AppendProperties DEF ReadType
  <2> QED
    BY <1>1, <1>13, <2>4 DEF PeerSends, PeerActs, ReadType, readVars
<1>14. CASE HandleResolve \/ HandleConnect \/ HandleLate \/ HandleNone
            \/ HandleSendHttpRequest \/ WriteFrame \/ HandleWriteFrame
            \/ CloseImpl \/ SendImpl \/ RunReturns
  BY <1>2, <1>14 DEF HandleResolve, HandleConnect, HandleLate, HandleNone,
     HandleSendHttpRequest, WriteFrame, HandleWriteFrame, CloseImpl,
     SendImpl, RunReturns, peerVars
<1>15. CASE \E which \in Timers : HandleTimeout(which)
  BY <1>2, <1>15 DEF HandleTimeout, peerVars
<1>16. CASE Open \/ OpenInvalid \/ Close \/ Send
  BY <1>2, <1>16 DEF Open, OpenInvalid, Close, Send, PostToService, peerVars
<1>17. CASE Succeeds \/ Fails \/ Written \/ Eof \/ PeerHangsUp
  BY <1>2, <1>17 DEF Succeeds, Fails, Written, Eof, Completes, PeerHangsUp,
     PeerActs, peerVars
<1>18. CASE Clock
  BY <1>2, <1>18 DEF Clock, ExpireDeadline, ExpireHandshake, ExpireOrphan,
     Expire, peerVars
<1>19. CASE UNCHANGED vars
  BY <1>2, <1>19 DEF vars, peerVars
<1> QED
  BY <1>6, <1>7, <1>8, <1>9, <1>10, <1>11, <1>12, <1>13, <1>14, <1>15, <1>16,
     <1>17, <1>18, <1>19 DEF Next, IoThread, Script, Network, Peer

\* Every step keeps the types of the io_service and what it runs.
LEMMA IoTypeStep == TypeOK /\ [Next]_vars => IoType'
<1> SUFFICES ASSUME TypeOK, [Next]_vars PROVE IoType'
  OBVIOUS
<1>1. IoType /\ ready \in Seq(Entries)
  BY DEF TypeOK, IoType
<1>2. ASSUME UNCHANGED <<deadline, pending, ready, thread, process>>
      PROVE  IoType'
  BY <1>1, <1>2 DEF IoType
<1>3. ASSUME deadline' \in {"off", deadline, "dns", "connect"},
             pending' \in SUBSET Ops, ready' \in Seq(Entries),
             UNCHANGED <<thread, process>>
      PROVE  IoType'
  BY <1>1, <1>3 DEF IoType
<1>4. ASSUME ready # <<>>, ready' = Rest \/ Terminate(Rest),
             deadline' \in {"off", deadline, "dns", "connect"},
             \/ Terminate(Rest) \/ UNCHANGED pending
             \/ \E op \in Ops : pending' = pending \cup {op},
             UNCHANGED <<thread, process>>
      PROVE  IoType'
  <2>1. ready' \in Seq(Entries)
    BY <1>4, HeadEntry, TerminateType
  <2>2. pending' \in SUBSET Ops
    BY <1>1, <1>4, HeadEntry, TerminateType DEF IoType
  <2> QED BY <1>3, <1>4, <2>1, <2>2
<1>5. CASE HandleResolve \/ HandleConnect \/ HandleSendHttpRequest
            \/ HandleReadHttpResponse \/ HandleReadFrame
  <2>1. ready # <<>> /\ UNCHANGED <<thread, process>>
    BY <1>5 DEF HandleResolve, HandleConnect, HandleSendHttpRequest,
       HandleReadHttpResponse, HandleReadFrame, Runs
  <2>2. deadline' \in {"off", deadline, "dns", "connect"}
    BY <1>5 DEF HandleResolve, HandleConnect, HandleSendHttpRequest,
       HandleReadHttpResponse, HandleReadFrame
  <2>3. ready' = Rest \/ Terminate(Rest)
    BY <1>5 DEF HandleResolve, HandleConnect, HandleSendHttpRequest,
       HandleReadHttpResponse, HandleReadFrame
  <2>4. \/ Terminate(Rest) \/ UNCHANGED pending
        \/ \E op \in Ops : pending' = pending \cup {op}
    BY <1>5 DEF HandleResolve, HandleConnect, HandleSendHttpRequest,
       HandleReadHttpResponse, HandleReadFrame, Ops
  <2> QED BY <1>4, <2>1, <2>2, <2>3, <2>4
<1>6. CASE HandleLate \/ HandleNone \/ \E which \in Timers : HandleTimeout(which)
  BY <1>4, <1>6 DEF HandleLate, HandleNone, HandleTimeout, Runs
<1>7. ASSUME NEW frame \in Outgoing, NEW queue \in Seq(Entries),
             Push(frame, queue), UNCHANGED <<deadline, pending, thread, process>>
      PROVE  IoType'
  BY <1>1, <1>7, PushType DEF IoType
<1>8. CASE ProcessFrame
  BY <1>1, <1>2, <1>7, <1>8, MarksTyped DEF ProcessFrame
<1>9. CASE ProcessClose \/ ProcessBadClose
  BY <1>1, <1>2, <1>7, <1>9, MarksTyped
     DEF ProcessClose, ProcessBadClose, SendCloseFrame
<1>10. CASE ProcessJunk
  <2>1. CASE state = "open"
    BY <1>1, <1>7, <1>10, <2>1, MarksTyped DEF ProcessJunk, SendCloseFrame
  <2>2. CASE state # "open"
    <3>1. Terminate(ready) /\ UNCHANGED <<deadline, thread, process>>
      BY <1>10, <2>2 DEF ProcessJunk
    <3> QED BY <1>1, <1>3, <3>1, TerminateType DEF IoType
  <2> QED BY <2>1, <2>2
<1>11. CASE ReadFrame
  BY <1>1, <1>11 DEF ReadFrame, IoType, Ops
<1>12. CASE WriteFrame
  <2>1. ready # <<>> /\ ready' = Rest /\ UNCHANGED <<deadline, thread, process>>
    BY <1>12 DEF WriteFrame, Runs
  <2>2. UNCHANGED pending \/ pending' = pending \cup {"write"}
    BY <1>12 DEF WriteFrame
  <2> QED BY <1>4, <2>1, <2>2 DEF Ops
<1>13. CASE HandleWriteFrame
  <2>1. ready # <<>> /\ UNCHANGED <<deadline, thread, process>>
    BY <1>13 DEF HandleWriteFrame, Runs
  <2>2. CASE Terminate(Rest)
    BY <1>4, <2>1, <2>2
  <2>3. CASE ~Terminate(Rest)
    <3>1. /\ ready' \in {Rest, Append(Rest, Post("write_frame"))}
          /\ UNCHANGED pending
      BY <1>13, <2>3 DEF HandleWriteFrame
    <3>2. ready' \in Seq(Entries)
      BY <2>1, <3>1, HeadEntry, EntriesMade, AppendProperties
    <3> QED BY <1>1, <1>3, <2>1, <3>1, <3>2 DEF IoType
  <2> QED BY <2>2, <2>3
<1>14. CASE CloseImpl
  <2>1. CASE state = "open"
    BY <1>7, <1>14, <2>1, HeadEntry, MarksTyped
       DEF CloseImpl, SendCloseFrame, Runs
  <2>2. CASE state # "open"
    BY <1>1, <1>14, <2>2 DEF CloseImpl, IoType
  <2> QED BY <2>1, <2>2
<1>15. CASE SendImpl
  BY <1>4, <1>7, <1>15, HeadEntry DEF SendImpl, Runs
<1>16. CASE RunReturns
  BY <1>1, <1>16 DEF RunReturns, IoType
<1>17. CASE Open
  BY <1>1, <1>17 DEF Open, IoType, Ops
<1>18. CASE OpenInvalid
  BY <1>1, <1>18 DEF OpenInvalid, IoType
<1>19. ASSUME NEW entry \in Entries, PostToService(entry) PROVE IoType'
  <2>1. UNCHANGED <<deadline, pending, thread>>
    BY <1>19 DEF PostToService
  <2>2. process' \in {"null io_service", process}
    BY <1>19 DEF PostToService
  <2>3. ready' \in {ready, Append(ready, entry)}
    BY <1>19 DEF PostToService
  <2>4. ready' \in Seq(Entries)
    BY <1>1, <2>3, AppendProperties
  <2> QED BY <1>1, <2>1, <2>2, <2>4 DEF IoType
<1>20. CASE Close
  BY <1>19, <1>20, EntriesMade DEF Close
<1>21. CASE Send
  <2>1. texts + 1 \in 1..MaxTexts
    BY <1>21, BoundsAssumption DEF Send, TypeOK, CallType
  <2> QED BY <1>19, <1>21, <2>1, EntriesMade DEF Send
<1>22. ASSUME NEW op \in Ops, NEW ec \in {"ok", "fail", "eof"},
              NEW got \in Seq(Incoming), Completes(op, ec, got)
       PROVE  IoType'
  <2>1. Entry(op, ec, got) \in Entries
    BY EntriesMade
  <2> QED BY <1>1, <1>3, <1>22, <2>1, AppendProperties DEF Completes, IoType
<1>23. CASE Network
  <2>1. <<>> \in Seq(Incoming)
    OBVIOUS
  <2>2. CASE Succeeds \/ Fails \/ Written \/ Eof
    BY <1>22, <2>1, <2>2 DEF Succeeds, Fails, Written, Eof, Ops
  <2>3. CASE Arrives
    <3>1. PICK n \in 0..Len(inbox) : Completes("read", "ok", SubSeq(inbox, 1, n))
      BY <2>3 DEF Arrives
    <3>2. SubSeq(inbox, 1, n) \in Seq(Incoming)
      BY SuffixType DEF TypeOK, ReadType
    <3> QED BY <1>22, <3>1, <3>2 DEF Ops
  <2> QED BY <1>23, <2>2, <2>3 DEF Network
<1>24. CASE Clock
  <2>1. \A which \in Timers : Append(ready, Post(which)) \in Seq(Entries)
    BY <1>1, EntriesMade, AppendProperties
  <2> QED
    BY <1>1, <1>3, <1>24, <2>1
       DEF Clock, ExpireDeadline, ExpireHandshake, ExpireOrphan, Expire, IoType,
           Timers
<1>25. CASE Peer
  BY <1>2, <1>25 DEF Peer, PeerSends, PeerHangsUp, PeerActs
<1>26. CASE UNCHANGED vars
  BY <1>2, <1>26 DEF vars
<1> QED
  BY <1>5, <1>6, <1>8, <1>9, <1>10, <1>11, <1>12, <1>13, <1>14, <1>15, <1>16,
     <1>17, <1>18, <1>20, <1>21, <1>23, <1>24, <1>25, <1>26
     DEF Next, IoThread, Script

\* Every step keeps the counts of the script and of the peer.
LEMMA CallTypeStep == TypeOK /\ [Next]_vars => CallType'
<1> SUFFICES ASSUME TypeOK, [Next]_vars PROVE CallType'
  OBVIOUS
<1>1. CallType
  BY DEF TypeOK
<1>2. ASSUME UNCHANGED <<frames, data, hungUp, callVars>> PROVE CallType'
  BY <1>1, <1>2 DEF CallType, callVars
<1>3. CASE Close \/ Send
  <2>1. UNCHANGED <<frames, data, hungUp>>
    BY <1>3 DEF Close, Send, PostToService, peerVars
  <2>2. \/ texts' = texts /\ closes < MaxCloses /\ closes' = closes + 1
        \/ closes' = closes /\ texts < MaxTexts /\ texts' = texts + 1
    BY <1>3 DEF Close, Send
  <2>3. texts' \in 0..MaxTexts /\ closes' \in 0..MaxCloses
    BY <1>1, <2>2, BoundsAssumption DEF CallType
  <2> QED BY <1>1, <2>1, <2>3 DEF CallType
<1>4. CASE PeerSends
  <2>1. /\ frames \in Nat /\ data \in Nat /\ frames <= MaxFrames
        /\ data > 0 => data < frames
    BY <1>1, <1>4, BoundsAssumption DEF PeerSends, CallType
  <2>2. frames' = frames + 1 /\ UNCHANGED <<hungUp, callVars>>
    BY <1>4 DEF PeerSends, PeerActs
  <2>3. PICK frame \in IF frames = 0 THEN {Accept, Reject}
                       ELSE {Ping, CloseFrame, BadClose, Junk, data + 1} :
          data' = IF frame > Ping THEN frame ELSE data
    BY <1>4 DEF PeerSends
  <2>4. data' = data \/ (frames > 0 /\ data' = data + 1)
    BY <2>1, <2>3 DEF Accept, Reject, Ping, CloseFrame, BadClose, Junk
  <2>5. /\ data' \in 0..MaxFrames /\ frames' \in 0..(MaxFrames + 1)
        /\ data' > 0 => data' < frames'
    BY <1>1, <2>1, <2>2, <2>4, BoundsAssumption DEF CallType
  <2> QED BY <1>1, <2>2, <2>5 DEF CallType, callVars
<1>5. CASE PeerHangsUp
  BY <1>1, <1>5 DEF PeerHangsUp, PeerActs, CallType, callVars
<1>6. CASE IoThread
  BY <1>2, <1>6 DEF IoThread, HandleResolve, HandleConnect, HandleLate,
     HandleNone, HandleTimeout, HandleSendHttpRequest, HandleReadHttpResponse,
     HandleReadFrame, ProcessFrame, ProcessClose, ProcessBadClose, ProcessJunk,
     ReadFrame, WriteFrame, HandleWriteFrame, CloseImpl, SendImpl, RunReturns,
     peerVars
<1>7. CASE Network
  BY <1>2, <1>7 DEF Network, Succeeds, Fails, Written, Arrives, Eof, Completes,
     peerVars
<1>8. CASE Clock \/ Open \/ OpenInvalid
  BY <1>2, <1>8 DEF Clock, ExpireDeadline, ExpireHandshake, ExpireOrphan,
     Expire, Open, OpenInvalid, peerVars
<1>9. CASE UNCHANGED vars
  BY <1>2, <1>9 DEF vars, peerVars
<1> QED
  BY <1>3, <1>4, <1>5, <1>6, <1>7, <1>8, <1>9 DEF Next, Script, Peer

\* A new object has well-typed members.
LEMMA TypeInit == Init => TypeOK
<1> SUFFICES ASSUME Init PROVE TypeOK
  OBVIOUS
<1>1. /\ state = "connecting" /\ internal = "user init" /\ wasClean = FALSE
      /\ timer = "off" /\ orphans = 0
      /\ fired = [event \in Events |-> 0]
  BY Zenon DEF Init
<1>2. /\ sendQueue = <<>> /\ current = <<>> /\ writeFlag = FALSE
      /\ buf = <<>> /\ looping = FALSE /\ inbox = <<>> /\ received = <<>>
      /\ delivered = <<>>
  BY Zenon DEF Init
<1>3. /\ deadline = "off" /\ pending = {} /\ ready = <<>>
      /\ thread = "none" /\ process = "up"
  BY Zenon DEF Init
<1>4. frames = 0 /\ data = 0 /\ hungUp = FALSE /\ texts = 0 /\ closes = 0
  BY Zenon DEF Init
<1>5. fired \in [Events -> Nat]
  BY <1>1
<1>6. SessionType
  BY <1>1, <1>5 DEF SessionType
<1>7. WriteType /\ ReadType
  <2>1. <<>> \in Seq(Outgoing) /\ <<>> \in Seq(Incoming) /\ <<>> \in Seq(1..MaxFrames)
    OBVIOUS
  <2> QED BY <1>2, <2>1 DEF WriteType, ReadType
<1>8. IoType
  BY <1>3 DEF IoType
<1>9. CallType
  <2>1. /\ 0 \in 0..(MaxFrames + 1) /\ 0 \in 0..MaxFrames /\ 0 \in 0..MaxTexts
        /\ 0 \in 0..MaxCloses
    BY BoundsAssumption
  <2> QED BY <1>4, <2>1 DEF CallType
<1> QED BY <1>6, <1>7, <1>8, <1>9 DEF TypeOK

\* Every variable keeps its type.
THEOREM TypeCorrect == Spec => []TypeOK
<1>1. TypeOK /\ [Next]_vars => TypeOK'
  BY SessionTypeStep, WriteTypeStep, ReadTypeStep, IoTypeStep, CallTypeStep
     DEF TypeOK
<1> QED BY TypeInit, <1>1, PTL DEF Spec

(***************************************************************************)
(* One reader                                                              *)
(***************************************************************************)
Has(queue, what) == \E i \in 1..Len(queue) : queue[i].what = what

Once(queue, W) ==
    \A i, j \in 1..Len(queue) :
        queue[i].what \in W /\ queue[j].what \in W => i = j

None(queue, W) == \A what \in W : ~Has(queue, what)

Under(op) == op \in pending \/ Has(ready, op)

\* From the resolve to the loop over frames there is one chain of operations,
\* each begun by the handler of the one before.
Stages == {"resolve", "connect", "request", "read"}

OneStage ==
    /\ Once(ready, Stages)
    /\ \A s, t \in Stages : s \in pending /\ t \in pending => s = t
    /\ pending \cap Stages # {} \/ looping => None(ready, Stages)
    /\ looping => pending \cap Stages = {}

StageFits ==
    /\ thread = "none" =>
          /\ state = "connecting" /\ pending = {} /\ ready = <<>> /\ ~looping
          /\ deadline = "off" /\ timer = "off" /\ orphans = 0
    /\ looping => state \in {"open", "closing"}
    /\ internal = "process" => state # "connecting"
    /\ state \in {"open", "closing"} =>
          /\ internal = "process"
          /\ ~Under("resolve") /\ ~Under("connect") /\ ~Under("request")
    /\ state = "open" => looping \/ Under("read")

ReadInv == OneStage /\ StageFits

WriteInv ==
    /\ Once(ready, {"write"})
    /\ "write" \in pending => ~Has(ready, "write") /\ state # "closed"
    /\ state # "closed" =>
          /\ writeFlag <=> Under("write")
          /\ writeFlag <=> current # <<>>
          /\ sendQueue # <<>> => writeFlag \/ Has(ready, "write_frame")

AliveInv ==
    /\ thread # "none" /\ state = "connecting" =>
          \/ Has(ready, "dns timeout") \/ Has(ready, "connect timeout")
          \/ deadline = "dns" /\ Under("resolve")
          \/ deadline = "connect" /\ Under("connect")
          \/ Under("request") \/ Under("read")
    /\ state = "closing" =>
          timer = "close" \/ orphans > 0 \/ Has(ready, "close timeout")
    /\ RunsWhileAlive

\* What is in a queue when one entry is added.
LEMMA HasAppend ==
    ASSUME NEW queue \in Seq(Entries), NEW entry \in Entries
    PROVE  /\ \A what : Has(Append(queue, entry), what)
                          <=> entry.what = what \/ Has(queue, what)
           /\ \A W : Once(queue, W) /\ (entry.what \in W => None(queue, W))
                         => Once(Append(queue, entry), W)
<1> DEFINE longer == Append(queue, entry)
<1>1. /\ Len(queue) \in Nat /\ Len(longer) = Len(queue) + 1
      /\ \A i \in 1..Len(queue) : longer[i] = queue[i]
      /\ longer[Len(queue) + 1] = entry
  BY AppendProperties, LenProperties
<1>2. \A i \in 1..Len(longer) : i \in 1..Len(queue) \/ i = Len(queue) + 1
  BY <1>1
<1>3. 1..Len(queue) \subseteq 1..Len(longer) /\ Len(queue) + 1 \in 1..Len(longer)
  BY <1>1
<1> HIDE DEF longer
<1>4. \A what : Has(longer, what) <=> entry.what = what \/ Has(queue, what)
  BY <1>1, <1>2, <1>3, Zenon DEF Has
<1>5. ASSUME NEW W, Once(queue, W), entry.what \in W => None(queue, W)
      PROVE  Once(longer, W)
  BY <1>1, <1>2, <1>5, Zenon DEF Once, None, Has
<1> QED BY <1>4, <1>5 DEF longer

\* What is in a queue when its first entry is taken.
LEMMA HasTail ==
    ASSUME NEW queue \in Seq(Entries), queue # <<>>
    PROVE  /\ \A what : Has(queue, what)
                          <=> Head(queue).what = what \/ Has(Tail(queue), what)
           /\ \A W : Once(queue, W) => Once(Tail(queue), W)
           /\ \A W : Once(queue, W) /\ Head(queue).what \in W
                         => None(Tail(queue), W)
<1> DEFINE rest == Tail(queue)
<1>1. /\ Len(queue) \in Nat \ {0} /\ Len(rest) = Len(queue) - 1
      /\ \A i \in 1..Len(rest) : rest[i] = queue[i + 1]
      /\ Head(queue) = queue[1]
  BY HeadTailProperties, EmptySeq, LenProperties
<1>2. /\ \A i \in 1..Len(queue) : i = 1 \/ i - 1 \in 1..Len(rest)
      /\ \A i \in 1..Len(rest) : i + 1 \in 1..Len(queue) /\ i + 1 # 1
      /\ 1 \in 1..Len(queue)
      /\ \A i, j \in 1..Len(rest) : i + 1 = j + 1 => i = j
      /\ \A i \in 1..Len(queue) : (i - 1) + 1 = i
  BY <1>1
<1> HIDE DEF rest
<1>3. \A what : Has(queue, what) <=> Head(queue).what = what \/ Has(rest, what)
  <2> TAKE what
  <2>1. ASSUME NEW i \in 1..Len(rest), rest[i].what = what
        PROVE  Has(queue, what)
    <3>1. i + 1 \in 1..Len(queue) /\ queue[i + 1].what = what
      BY <1>1, <1>2, <2>1
    <3> QED BY <3>1, Zenon DEF Has
  <2>2. Head(queue).what = what => Has(queue, what)
    BY <1>1, <1>2, Zenon DEF Has
  <2>3. ASSUME NEW i \in 1..Len(queue), queue[i].what = what
        PROVE  Head(queue).what = what \/ Has(rest, what)
    <3>1. CASE i = 1
      BY <1>1, <2>3, <3>1
    <3>2. CASE i - 1 \in 1..Len(rest)
      <4>1. rest[i - 1] = queue[i]
        BY <1>1, <1>2, <3>2
      <4> QED BY <2>3, <3>2, <4>1, Zenon DEF Has
    <3> QED BY <1>2, <3>1, <3>2
  <2> QED BY <2>1, <2>2, <2>3 DEF Has
<1>4. ASSUME NEW W, Once(queue, W) PROVE Once(rest, W)
  <2> SUFFICES ASSUME NEW i \in 1..Len(rest), NEW j \in 1..Len(rest),
                      rest[i].what \in W, rest[j].what \in W
               PROVE  i = j
    BY Zenon DEF Once
  <2>1. /\ i + 1 \in 1..Len(queue) /\ queue[i + 1].what \in W
        /\ j + 1 \in 1..Len(queue) /\ queue[j + 1].what \in W
    BY <1>1, <1>2
  <2>2. i + 1 = j + 1
    BY <1>4, <2>1, Zenon DEF Once
  <2> QED BY <1>2, <2>2, Zenon
<1>5. ASSUME NEW W, Once(queue, W), Head(queue).what \in W PROVE None(rest, W)
  <2> SUFFICES ASSUME NEW i \in 1..Len(rest), rest[i].what \in W PROVE FALSE
    BY Zenon DEF None, Has
  <2>1. i + 1 \in 1..Len(queue) /\ i + 1 # 1 /\ queue[i + 1].what \in W
    BY <1>1, <1>2
  <2>2. 1 \in 1..Len(queue) /\ queue[1].what \in W
    BY <1>1, <1>2, <1>5
  <2> QED BY <1>5, <2>1, <2>2, Zenon DEF Once
<1> QED BY <1>3, <1>4, <1>5 DEF rest

\* The rest of the queue of the io_service.
LEMMA TakeHead ==
    ASSUME TypeOK, ready # <<>>
    PROVE  /\ Rest \in Seq(Entries)
           /\ \A what : Has(ready, what)
                          <=> Head(ready).what = what \/ Has(Rest, what)
           /\ \A W : Once(ready, W) => Once(Rest, W)
           /\ \A W : Once(ready, W) /\ Head(ready).what \in W => None(Rest, W)
  BY HasTail, HeadEntry DEF TypeOK, IoType, Rest

\* What a push does to a queue: at most a write_frame more, and one for sure
\* when no write is outstanding.
LEMMA PushQueue ==
    ASSUME NEW frame, NEW queue \in Seq(Entries), Push(frame, queue)
    PROVE  /\ \A what : what # "write_frame" =>
                          (Has(ready', what) <=> Has(queue, what))
           /\ Has(queue, "write_frame") \/ ~writeFlag => Has(ready', "write_frame")
           /\ \A W : Once(queue, W) /\ "write_frame" \notin W => Once(ready', W)
<1>1. /\ Post("write_frame") \in Entries
      /\ Post("write_frame").what = "write_frame"
  BY EntriesMade DEF Post, Entry
<1>2. CASE writeFlag
  BY <1>2 DEF Push
<1>3. CASE ~writeFlag
  <2>1. ready' = Append(queue, Post("write_frame"))
    BY <1>3 DEF Push
  <2> QED BY <1>1, <1>3, <2>1, HasAppend
<1> QED BY <1>2, <1>3

\* An entry that ends no stage adds none.
LEMMA AppendOther ==
    ASSUME TypeOK, NEW entry \in Entries, entry.what \notin Stages
    PROVE  /\ \A s \in Stages : Has(Append(ready, entry), s) <=> Has(ready, s)
           /\ Once(ready, Stages) => Once(Append(ready, entry), Stages)
  BY HasAppend DEF TypeOK, IoType

\* A step that adds no stage keeps OneStage.
LEMMA StageShrinks ==
    ASSUME OneStage, Once(ready', Stages), looping' => looping,
           \A s \in Stages : /\ s \in pending' => s \in pending
                             /\ Has(ready', s) => Has(ready, s)
    PROVE  OneStage'
  BY DEF OneStage, None

\* The handler of a stage finds no other.
LEMMA StageTaken ==
    ASSUME TypeOK, OneStage, NEW s \in Stages, Runs(s)
    PROVE  /\ None(Rest, Stages) /\ pending \cap Stages = {} /\ ~looping
           /\ Once(Rest, Stages)
<1>1. ready # <<>> /\ Head(ready).what = s /\ ~looping
  BY DEF Runs
<1>2. None(Rest, Stages) /\ Once(Rest, Stages)
  BY <1>1, TakeHead DEF OneStage
<1>3. Has(ready, s)
  BY <1>1, TakeHead
<1> QED BY <1>1, <1>2, <1>3 DEF OneStage, None

\* A handler that ends the session or leaves the stages alone.
LEMMA StageDropped ==
    ASSUME TypeOK, OneStage, ready # <<>>, ready' = Rest, looping' => looping,
           \A s \in Stages : s \in pending' => s \in pending
    PROVE  OneStage'
<1>1. Once(Rest, Stages) /\ \A s \in Stages : Has(Rest, s) => Has(ready, s)
  BY TakeHead DEF OneStage
<1> QED BY <1>1, StageShrinks

\* A handler that begins the next stage, or the loop over frames.
LEMMA StageBegins ==
    ASSUME TypeOK, OneStage, NEW s \in Stages, Runs(s), ready' = Rest,
           \/ \E t \in Stages : pending' = pending \cup {t} /\ looping' = looping
           \/ pending' = pending
    PROVE  OneStage'
<1>1. /\ None(ready', Stages) /\ pending \cap Stages = {} /\ ~looping
      /\ Once(ready', Stages)
  BY StageTaken
<1> QED BY <1>1 DEF OneStage

\* A frame pushed while the stages stay as they are.
LEMMA StagePush ==
    ASSUME OneStage, NEW frame, NEW queue \in Seq(Entries),
           Once(queue, Stages), \A s \in Stages : Has(queue, s) => Has(ready, s),
           Push(frame, queue), pending' = pending, looping' => looping
    PROVE  OneStage'
<1>1. "write_frame" \notin Stages
  BY DEF Stages
<1>2. /\ Once(ready', Stages)
      /\ \A s \in Stages : Has(ready', s) => Has(ready, s)
  BY <1>1, PushQueue
<1> QED BY <1>2, StageShrinks

\* Terminate leaves no stage behind that was not there.
LEMMA StageTerminates ==
    ASSUME TypeOK, OneStage, ready # <<>>, Terminate(Rest), looping' => looping
    PROVE  OneStage'
<1>1. ready' = Rest /\ pending' \subseteq pending
  BY DEF Terminate
<1> QED BY <1>1, StageDropped

\* An entry that ends no stage comes to the queue.
LEMMA StageAppend ==
    ASSUME TypeOK, OneStage, NEW entry \in Entries, entry.what \notin Stages,
           ready' = Append(ready, entry), pending' \subseteq pending,
           looping' = looping
    PROVE  OneStage'
  BY AppendOther, StageShrinks DEF OneStage

\* Every step keeps the stages apart.
LEMMA OneStageStep == TypeOK /\ ReadInv /\ [Next]_vars => OneStage'
<1> SUFFICES ASSUME TypeOK, OneStage, StageFits, [Next]_vars PROVE OneStage'
  BY DEF ReadInv
<1>0. ready \in Seq(Entries)
  BY DEF TypeOK, IoType
<1>1. ASSUME UNCHANGED <<pending, ready, looping>> PROVE OneStage'
  BY <1>0, <1>1, StageShrinks DEF OneStage
<1>2. ASSUME NEW what, Runs(what), Terminate(Rest), looping' = looping
      PROVE  OneStage'
  BY <1>2, StageTerminates DEF Runs
<1>3. CASE HandleResolve
  <2>1. Runs("resolve") /\ looping' = looping
    BY <1>3 DEF HandleResolve, readVars
  <2>2. CASE Ec = "ok"
    BY <1>3, <2>1, <2>2, StageBegins DEF HandleResolve, Stages
  <2> QED BY <1>2, <1>3, <2>1, <2>2 DEF HandleResolve
<1>4. CASE HandleConnect
  <2>1. Runs("connect") /\ looping' = looping
    BY <1>4 DEF HandleConnect, readVars
  <2>2. CASE Ec = "ok"
    BY <1>4, <2>1, <2>2, StageBegins DEF HandleConnect, Stages
  <2> QED BY <1>2, <1>4, <2>1, <2>2 DEF HandleConnect
<1>5. CASE HandleSendHttpRequest
  <2>1. Runs("request") /\ looping' = looping
    BY <1>5 DEF HandleSendHttpRequest, readVars
  <2>2. CASE Ec = "ok"
    BY <1>5, <2>1, <2>2, StageBegins DEF HandleSendHttpRequest, Stages
  <2> QED BY <1>2, <1>5, <2>1, <2>2 DEF HandleSendHttpRequest
<1>6. CASE HandleReadHttpResponse
  <2>1. Runs("read") /\ "read" \in Stages
    BY <1>6 DEF HandleReadHttpResponse, Stages
  <2>2. \/ Terminate(Rest) /\ looping' = looping
        \/ ready' = Rest /\ pending' = pending \cup {"read"} /\ looping' = looping
        \/ ready' = Rest /\ pending' = pending
    BY <1>6 DEF HandleReadHttpResponse, readVars
  <2> QED BY <1>2, <2>1, <2>2, StageBegins
<1>7. CASE HandleReadFrame
  <2>1. Runs("read") /\ "read" \in Stages
    BY <1>7 DEF HandleReadFrame, Stages
  <2>2. \/ Terminate(Rest) /\ looping' = looping
        \/ ready' = Rest /\ pending' = pending
    BY <1>7 DEF HandleReadFrame, readVars
  <2> QED BY <1>2, <2>1, <2>2, StageBegins
<1>8. CASE HandleLate \/ HandleNone
  BY <1>8, StageDropped DEF HandleLate, HandleNone, Runs, readVars
<1>9. CASE \E which \in Timers : HandleTimeout(which)
  BY <1>2, <1>9 DEF HandleTimeout, readVars
<1>push. ASSUME NEW frame, Push(frame, ready), pending' = pending,
              looping' => looping
       PROVE  OneStage'
  BY <1>0, <1>push, StagePush DEF OneStage
<1>pushRest. ASSUME NEW frame, ready # <<>>, Push(frame, Rest),
                    pending' = pending, looping' => looping
             PROVE  OneStage'
  BY <1>pushRest, StagePush, TakeHead DEF OneStage
<1>10. CASE ProcessFrame
  <2>1. \/ Push(Pong, ready)
        \/ ready' = ready
    BY <1>10 DEF ProcessFrame
  <2>2. pending' = pending /\ looping' = looping
    BY <1>10 DEF ProcessFrame
  <2> QED BY <1>1, <1>push, <2>1, <2>2
<1>11. CASE ProcessClose \/ ProcessBadClose
  <2>1. \/ Push(CloseFrame, ready)
        \/ ready' = ready
    BY <1>11 DEF ProcessClose, ProcessBadClose, SendCloseFrame
  <2>2. pending' = pending /\ looping' = looping
    BY <1>11 DEF ProcessClose, ProcessBadClose, SendCloseFrame
  <2> QED BY <1>1, <1>push, <2>1, <2>2
<1>12. CASE ProcessJunk
  <2>1. ~looping'
    BY <1>12 DEF ProcessJunk
  <2>2. \/ Push(LastClose, ready) /\ pending' = pending
        \/ Terminate(ready)
    BY <1>12 DEF ProcessJunk, SendCloseFrame
  <2>3. CASE Terminate(ready)
    <3>1. ready' = ready /\ pending' \subseteq pending
      BY <2>3 DEF Terminate
    <3> QED BY <2>1, <3>1, StageShrinks DEF OneStage
  <2> QED BY <1>push, <2>1, <2>2, <2>3
<1>13. CASE ReadFrame
  <2>1. /\ looping /\ ~looping' /\ ready' = ready
        /\ pending' = pending \cup {"read"}
    BY <1>13 DEF ReadFrame
  <2> QED BY <2>1 DEF OneStage
<1>14. CASE WriteFrame
  <2>1. "write" \notin Stages
    BY DEF Stages
  <2>2. /\ ready # <<>> /\ ready' = Rest /\ looping' = looping
        /\ pending' \subseteq pending \cup {"write"}
    BY <1>14 DEF WriteFrame, Runs, readVars
  <2> QED BY <2>1, <2>2, StageDropped
<1>15. CASE HandleWriteFrame
  <2>1. Runs("write") /\ ready # <<>> /\ looping' = looping
    BY <1>15 DEF HandleWriteFrame, Runs, readVars
  <2>2. CASE Terminate(Rest)
    BY <1>2, <2>1, <2>2
  <2>3. CASE ready' = Rest /\ pending' = pending
    BY <2>1, <2>3, StageDropped
  <2>4. CASE ready' = Append(Rest, Post("write_frame")) /\ pending' = pending
    <3>1. /\ Post("write_frame") \in Entries
          /\ Post("write_frame").what \notin Stages
      BY EntriesMade DEF Post, Entry, Stages
    <3>2. /\ Rest \in Seq(Entries) /\ Once(Rest, Stages)
          /\ \A s \in Stages : Has(Rest, s) => Has(ready, s)
      BY <2>1, TakeHead DEF OneStage
    <3>3. /\ Once(ready', Stages)
          /\ \A s \in Stages : Has(ready', s) => Has(ready, s)
      BY <2>4, <3>1, <3>2, HasAppend
    <3> QED BY <2>1, <2>4, <3>3, StageShrinks
  <2> QED BY <1>15, <2>2, <2>3, <2>4 DEF HandleWriteFrame
<1>16. CASE CloseImpl
  <2>1. ready # <<>> /\ looping' = looping /\ pending' = pending
    BY <1>16 DEF CloseImpl, SendCloseFrame, Runs, readVars
  <2>2. Push(CloseFrame, Rest) \/ ready' = ready
    BY <1>16 DEF CloseImpl, SendCloseFrame
  <2> QED BY <1>1, <1>pushRest, <2>1, <2>2
<1>17. CASE SendImpl
  <2>1. ready # <<>> /\ looping' = looping /\ pending' = pending
    BY <1>17 DEF SendImpl, Runs, readVars
  <2>2. Push(Got[1], Rest) \/ ready' = Rest
    BY <1>17 DEF SendImpl
  <2> QED BY <1>pushRest, <2>1, <2>2, StageDropped
<1>18. CASE RunReturns \/ OpenInvalid \/ Peer
  BY <1>1, <1>18 DEF RunReturns, OpenInvalid, Peer, PeerSends, PeerHangsUp,
     PeerActs, readVars
<1>19. CASE Open
  <2>1. ready' = <<>> /\ ~looping' /\ pending' = {"resolve"}
    BY <1>19 DEF Open, StageFits, readVars
  <2> QED BY <2>1 DEF OneStage, Once, None, Has
<1>20. ASSUME NEW entry \in Entries, entry.what \notin Stages,
              PostToService(entry)
       PROVE  OneStage'
  BY <1>1, <1>20, StageAppend DEF PostToService, readVars
<1>21. CASE Close \/ Send
  <2>1. CASE Close
    BY <1>20, <2>1, EntriesMade DEF Close, Post, Entry, Stages
  <2>2. CASE Send
    <3>1. texts + 1 \in 1..MaxTexts
      BY <2>2, BoundsAssumption DEF Send, TypeOK, CallType
    <3> QED BY <1>20, <2>2, <3>1, EntriesMade DEF Send, Entry, Stages
  <2> QED BY <1>21, <2>1, <2>2
<1>22. ASSUME NEW op \in Ops, NEW ec \in {"ok", "fail", "eof"},
              NEW got \in Seq(Incoming), Completes(op, ec, got)
       PROVE  OneStage'
  <2>1. /\ Entry(op, ec, got) \in Entries /\ Entry(op, ec, got).what = op
        /\ op \in pending /\ pending' = pending \ {op} /\ looping' = looping
        /\ ready' = Append(ready, Entry(op, ec, got))
    BY <1>22, EntriesMade DEF Completes, Entry, readVars
  <2>2. CASE op \notin Stages
    BY <2>1, <2>2, StageAppend
  <2>3. CASE op \in Stages
    <3>1. None(ready, Stages) /\ ~looping
      BY <2>1, <2>3 DEF OneStage
    <3>2. pending' \cap Stages = {}
      BY <2>1, <2>3 DEF OneStage
    <3>3. Once(ready', Stages)
      BY <1>0, <2>1, <3>1, HasAppend DEF OneStage
    <3> QED BY <2>1, <3>1, <3>2, <3>3 DEF OneStage
  <2> QED BY <2>2, <2>3
<1>23. CASE Network
  <2>1. <<>> \in Seq(Incoming)
    OBVIOUS
  <2>2. CASE Succeeds \/ Fails \/ Written \/ Eof
    BY <1>22, <2>1, <2>2 DEF Succeeds, Fails, Written, Eof, Ops
  <2>3. CASE Arrives
    <3>1. PICK n \in 0..Len(inbox) : Completes("read", "ok", SubSeq(inbox, 1, n))
      BY <2>3 DEF Arrives
    <3>2. SubSeq(inbox, 1, n) \in Seq(Incoming)
      BY SuffixType DEF TypeOK, ReadType
    <3> QED BY <1>22, <3>1, <3>2 DEF Ops
  <2> QED BY <1>23, <2>2, <2>3 DEF Network
<1>24. CASE Clock
  <2>1. PICK which \in Timers : Expire(which)
    BY <1>24 DEF Clock, ExpireDeadline, ExpireHandshake, ExpireOrphan, Timers
  <2>2. Post(which) \in Entries /\ Post(which).what \notin Stages
    BY EntriesMade DEF Post, Entry, Timers, Stages
  <2> QED BY <2>1, <2>2, StageAppend DEF Expire, readVars
<1>25. CASE UNCHANGED vars
  BY <1>1, <1>25 DEF vars, readVars
<1> QED
  BY <1>3, <1>4, <1>5, <1>6, <1>7, <1>8, <1>9, <1>10, <1>11, <1>12, <1>13,
     <1>14, <1>15, <1>16, <1>17, <1>18, <1>19, <1>21, <1>23, <1>24, <1>25
     DEF Next, IoThread, Script

\* A step that leaves the session and its stages alone.
LEMMA FitsKeeps ==
    ASSUME StageFits, thread' # "none", UNCHANGED <<state, internal, looping>>,
           \A s \in Stages : s \in pending' \/ Has(ready', s) <=> Under(s)
    PROVE  StageFits'
<1>1. /\ \A s \in Stages : Under(s)' <=> Under(s)
      /\ Stages = {"resolve", "connect", "request", "read"}
  BY DEF Under, Stages
<1> QED BY <1>1 DEF StageFits

\* A step that ends the session, or ends no loop because there is none.
LEMMA FitsCloses ==
    ASSUME thread' # "none", state' = "closed", ~looping'
    PROVE  StageFits'
  BY DEF StageFits

\* A step before the session opens, or after it has closed.
LEMMA FitsEarly ==
    ASSUME StageFits, state \notin {"open", "closing"}, state' = state,
           thread' # "none", ~looping',
           internal' \in {internal, "write request", "read response"}
    PROVE  StageFits'
  BY DEF StageFits

\* A session that is open or closing has only reads.
LEMMA StageEarly ==
    ASSUME TypeOK, StageFits, NEW s \in {"resolve", "connect", "request"}, Runs(s)
    PROVE  state \notin {"open", "closing"}
  BY TakeHead DEF Runs, StageFits, Under

\* A frame is pushed, or the Close that makes an open session closing.
LEMMA FitsPush ==
    ASSUME StageFits, NEW frame, NEW queue \in Seq(Entries),
           \A s \in Stages : Has(queue, s) <=> Has(ready, s),
           Push(frame, queue), thread' # "none",
           UNCHANGED <<internal, looping, pending>>,
           \/ state' = state
           \/ state \in {"open", "closing"} /\ state' = "closing"
    PROVE  StageFits'
<1>1. "write_frame" \notin Stages /\ Stages = {"resolve", "connect", "request", "read"}
  BY DEF Stages
<1>2. \A s \in Stages : Has(ready', s) <=> Has(ready, s)
  BY <1>1, PushQueue
<1>3. CASE state' = state
  BY <1>2, <1>3, FitsKeeps DEF Under
<1>4. CASE state \in {"open", "closing"} /\ state' = "closing"
  BY <1>1, <1>2, <1>4 DEF StageFits, Under
<1> QED BY <1>3, <1>4

\* A handler of no stage leaves the stages in the queue.
LEMMA TakeOther ==
    ASSUME TypeOK, NEW what, what \notin Stages, Runs(what)
    PROVE  /\ Rest \in Seq(Entries)
           /\ \A s \in Stages : Has(Rest, s) <=> Has(ready, s)
  BY TakeHead DEF Runs

\* Every step keeps stage and session together.
LEMMA StageFitsStep == TypeOK /\ ReadInv /\ [Next]_vars => StageFits'
<1> SUFFICES ASSUME TypeOK, OneStage, StageFits, [Next]_vars PROVE StageFits'
  BY DEF ReadInv
<1>0. ready \in Seq(Entries)
  BY DEF TypeOK, IoType
<1>1. ASSUME thread' # "none",
             UNCHANGED <<state, internal, looping, pending, ready>>
      PROVE  StageFits'
  BY <1>1, FitsKeeps DEF Under
<1>2. ASSUME NEW what, Runs(what), Terminate(Rest), UNCHANGED <<thread, looping>>
      PROVE  StageFits'
  BY <1>2, FitsCloses DEF Runs, Terminate
<1>3. ASSUME NEW what, Runs(what), UNCHANGED <<thread, looping, state>>,
             internal' \in {internal, "write request", "read response"},
             what \in {"resolve", "connect", "request"} \/ state = "closed"
      PROVE  StageFits'
  <2>1. state \notin {"open", "closing"}
    BY <1>3, StageEarly
  <2> QED BY <1>3, <2>1, FitsEarly DEF Runs
<1>4. CASE HandleResolve
  BY <1>2, <1>3, <1>4 DEF HandleResolve, sessionVars, readVars
<1>5. CASE HandleConnect
  BY <1>2, <1>3, <1>5 DEF HandleConnect, readVars
<1>6. CASE HandleSendHttpRequest
  BY <1>2, <1>3, <1>6 DEF HandleSendHttpRequest, readVars
<1>7. CASE HandleLate \/ HandleNone
  BY <1>3, <1>7 DEF HandleLate, HandleNone, sessionVars, readVars
<1>8. CASE \E which \in Timers : HandleTimeout(which)
  BY <1>2, <1>8 DEF HandleTimeout, readVars
<1>9. CASE HandleReadHttpResponse
  <2>1. /\ Runs("read") /\ "read" \in Stages /\ thread' = thread
        /\ thread = "running" /\ internal = "read response"
    BY <1>9 DEF HandleReadHttpResponse, Stages, Runs
  <2>2. CASE Terminate(Rest) /\ looping' = looping
    BY <1>2, <2>1, <2>2
  <2>3. CASE UNCHANGED <<sessionVars, readVars>>
    <3>1. state \notin {"open", "closing"}
      BY <2>1 DEF StageFits
    <3> QED BY <2>1, <2>3, <3>1, FitsEarly DEF Runs, sessionVars, readVars
  <2>4. CASE /\ state' = "open" /\ internal' = "process" /\ looping' = TRUE
             /\ ready' = Rest /\ pending' = pending
    <3>1. None(Rest, Stages) /\ pending \cap Stages = {}
      BY <2>1, StageTaken
    <3>2. \A s \in Stages : ~Under(s)'
      BY <2>4, <3>1 DEF None, Under
    <3> QED BY <2>1, <2>4, <3>2 DEF StageFits, Stages
  <2> QED
    BY <1>9, <2>2, <2>3, <2>4 DEF HandleReadHttpResponse, readVars
<1>10. CASE HandleReadFrame
  <2>1. /\ Runs("read") /\ thread' = thread /\ internal = "process"
        /\ state # "closed" /\ thread = "running" /\ ready # <<>>
    BY <1>10 DEF HandleReadFrame, Runs
  <2>2. CASE Terminate(Rest) /\ looping' = looping
    BY <1>2, <2>1, <2>2
  <2>3. CASE /\ looping' = TRUE /\ ready' = Rest
             /\ UNCHANGED <<sessionVars, pending>>
    <3>1. state \in {"open", "closing"}
      BY <2>1 DEF StageFits, TypeOK, SessionType
    <3>2. \A s \in Stages : Under(s)' => Under(s)
      BY <2>1, <2>3, TakeHead DEF Under
    <3> QED BY <2>1, <2>3, <3>1, <3>2 DEF StageFits, Stages, sessionVars
  <2> QED BY <1>10, <2>2, <2>3 DEF HandleReadFrame, readVars
<1>11. ASSUME NEW frame, Push(frame, ready), thread' # "none",
              UNCHANGED <<internal, looping, pending>>,
              \/ state' = state
              \/ state \in {"open", "closing"} /\ state' = "closing"
       PROVE  StageFits'
  BY <1>0, <1>11, FitsPush
<1>12. looping => thread # "none" /\ state \in {"open", "closing"}
  BY DEF StageFits
<1>13. CASE ProcessFrame
  <2>1. looping /\ UNCHANGED <<state, internal, looping, pending, thread>>
    BY <1>13 DEF ProcessFrame, Loops, sessionVars
  <2>2. Push(Pong, ready) \/ ready' = ready
    BY <1>13 DEF ProcessFrame
  <2> QED BY <1>1, <1>11, <1>12, <2>1, <2>2
<1>14. CASE ProcessClose \/ ProcessBadClose
  <2>1. looping /\ UNCHANGED <<internal, looping, pending, thread>>
    BY <1>14 DEF ProcessClose, ProcessBadClose, Loops, SendCloseFrame
  <2>2. \/ Push(CloseFrame, ready) /\ state' = "closing"
        \/ ready' = ready /\ state' = state
    BY <1>14 DEF ProcessClose, ProcessBadClose, SendCloseFrame
  <2> QED BY <1>1, <1>11, <1>12, <2>1, <2>2
<1>15. CASE ProcessJunk
  <2>1. looping /\ ~looping' /\ thread' = thread
    BY <1>15 DEF ProcessJunk, Loops
  <2>2. CASE state = "open"
    <3>1. /\ Push(LastClose, ready) /\ state' = "closing"
          /\ UNCHANGED <<internal, pending>>
      BY <1>15, <2>2 DEF ProcessJunk, SendCloseFrame
    <3>2. \A s \in Stages : Has(ready', s) <=> Has(ready, s)
      BY <1>0, <3>1, PushQueue DEF Stages
    <3> QED
      BY <1>12, <2>1, <2>2, <3>1, <3>2 DEF StageFits, Under, Stages
  <2>3. CASE state # "open"
    BY <1>12, <1>15, <2>1, <2>3, FitsCloses DEF ProcessJunk, Terminate
  <2> QED BY <2>2, <2>3
<1>16. CASE ReadFrame
  <2>1. /\ looping /\ ~looping' /\ UNCHANGED <<state, internal, thread, ready>>
        /\ pending' = pending \cup {"read"}
    BY <1>16 DEF ReadFrame, sessionVars
  <2> QED BY <1>12, <2>1 DEF StageFits, Under
<1>17. CASE WriteFrame
  <2>1. /\ Runs("write_frame") /\ "write_frame" \notin Stages
        /\ "write" \notin Stages /\ thread = "running"
    BY <1>17 DEF WriteFrame, Stages, Runs
  <2>2. /\ UNCHANGED <<state, internal, looping, thread>> /\ ready' = Rest
        /\ pending' = pending \/ pending' = pending \cup {"write"}
    BY <1>17 DEF WriteFrame, sessionVars, readVars
  <2>3. \A s \in Stages : Has(ready', s) <=> Has(ready, s)
    BY <2>1, <2>2, TakeOther
  <2> QED BY <2>1, <2>2, <2>3, FitsKeeps DEF Under
<1>18. CASE HandleWriteFrame
  <2>1. /\ Runs("write") /\ "write_frame" \notin Stages
        /\ "write" \notin Stages /\ thread = "running"
    BY <1>18 DEF HandleWriteFrame, Stages, Runs
  <2>2. UNCHANGED <<looping, thread>>
    BY <1>18 DEF HandleWriteFrame, readVars
  <2>3. CASE Terminate(Rest)
    BY <1>2, <2>1, <2>2, <2>3
  <2>4. CASE /\ UNCHANGED <<sessionVars, pending>>
             /\ ready' \in {Rest, Append(Rest, Post("write_frame"))}
    <3>1. /\ Post("write_frame") \in Entries
          /\ Post("write_frame").what = "write_frame"
      BY EntriesMade DEF Post, Entry
    <3>2. \A s \in Stages : Has(ready', s) <=> Has(ready, s)
      <4>1. /\ Rest \in Seq(Entries)
            /\ \A s \in Stages : Has(Rest, s) <=> Has(ready, s)
        BY <2>1, TakeOther
      <4>2. \A s \in Stages :
              Has(Append(Rest, Post("write_frame")), s) <=> Has(Rest, s)
        BY <2>1, <3>1, <4>1, HasAppend
      <4>3. CASE ready' = Rest
        BY <4>1, <4>3
      <4>4. CASE ready' = Append(Rest, Post("write_frame"))
        BY <4>1, <4>2, <4>4
      <4> QED BY <2>4, <4>3, <4>4
    <3> QED BY <2>1, <2>2, <2>4, <3>2, FitsKeeps DEF Under, sessionVars
  <2> QED BY <1>18, <2>3, <2>4 DEF HandleWriteFrame
<1>19. CASE CloseImpl
  <2>1. /\ Runs("closeImpl") /\ "closeImpl" \notin Stages /\ thread = "running"
    BY <1>19 DEF CloseImpl, Stages, Runs
  <2>2. CASE state = "open"
    <3>1. /\ Push(CloseFrame, Rest) /\ state' = "closing"
          /\ UNCHANGED <<internal, pending, looping, thread>>
      BY <1>19, <2>2 DEF CloseImpl, SendCloseFrame, readVars
    <3> QED BY <2>1, <2>2, <3>1, TakeOther, FitsPush
  <2>3. CASE state # "open"
    BY <1>1, <1>19, <2>1, <2>3 DEF CloseImpl, sessionVars, readVars
  <2> QED BY <2>2, <2>3
<1>20. CASE SendImpl
  <2>1. /\ Runs("sendImpl") /\ "sendImpl" \notin Stages /\ thread = "running"
        /\ UNCHANGED <<state, internal, pending, looping, thread>>
    BY <1>20 DEF SendImpl, Stages, Runs, sessionVars, readVars
  <2>2. CASE Push(Got[1], Rest)
    BY <2>1, <2>2, TakeOther, FitsPush
  <2>3. CASE ready' = Rest
    BY <2>1, <2>3, TakeOther, FitsKeeps DEF Under
  <2> QED BY <1>20, <2>2, <2>3 DEF SendImpl
<1>21. CASE RunReturns
  BY <1>1, <1>21 DEF RunReturns, sessionVars, readVars
<1>22. CASE Open
  <2>1. /\ thread' = "running" /\ pending' = {"resolve"}
        /\ UNCHANGED <<state, internal, looping, ready>> /\ thread = "none"
    BY <1>22 DEF Open, sessionVars, readVars
  <2>2. state \notin {"open", "closing"}
    BY <2>1 DEF StageFits
  <2> QED BY <2>1, <2>2, FitsEarly DEF StageFits
<1>23. ASSUME thread' = thread,
              UNCHANGED <<state, internal, looping, pending, ready, deadline,
                          timer, orphans>>
       PROVE  StageFits'
  BY <1>23 DEF StageFits, Under
<1>24. CASE OpenInvalid \/ Peer \/ UNCHANGED vars
  BY <1>23, <1>24 DEF OpenInvalid, Peer, PeerSends, PeerHangsUp, PeerActs, vars,
     sessionVars, readVars
<1>25. ASSUME NEW entry \in Entries, entry.what \notin Stages,
              ready' = Append(ready, entry), thread # "none", thread' = thread,
              UNCHANGED <<state, internal, looping, pending>>
       PROVE  StageFits'
  BY <1>25, AppendOther, FitsKeeps DEF Under
<1>26. ASSUME NEW entry \in Entries, entry.what \notin Stages,
              PostToService(entry)
       PROVE  StageFits'
  BY <1>23, <1>25, <1>26 DEF PostToService, sessionVars, readVars
<1>27. CASE Close \/ Send
  <2>1. CASE Close
    BY <1>26, <2>1, EntriesMade DEF Close, Post, Entry, Stages
  <2>2. CASE Send
    <3>1. texts + 1 \in 1..MaxTexts
      BY <2>2, BoundsAssumption DEF Send, TypeOK, CallType
    <3> QED BY <1>26, <2>2, <3>1, EntriesMade DEF Send, Entry, Stages
  <2> QED BY <1>27, <2>1, <2>2
<1>28. ASSUME NEW op \in Ops, NEW ec \in {"ok", "fail", "eof"},
              NEW got \in Seq(Incoming), Completes(op, ec, got)
       PROVE  StageFits'
  <2>1. /\ Entry(op, ec, got) \in Entries /\ Entry(op, ec, got).what = op
        /\ op \in pending /\ pending' = pending \ {op}
        /\ UNCHANGED <<state, internal, looping, thread>>
        /\ ready' = Append(ready, Entry(op, ec, got))
    BY <1>28, EntriesMade DEF Completes, Entry, sessionVars, readVars
  <2>2. thread # "none"
    BY <2>1 DEF StageFits
  <2>3. \A s \in Stages : s \in pending' \/ Has(ready', s) <=> Under(s)
    BY <1>0, <2>1, HasAppend DEF Under
  <2> QED BY <2>1, <2>2, <2>3, FitsKeeps
<1>29. CASE Network
  <2>1. <<>> \in Seq(Incoming)
    OBVIOUS
  <2>2. CASE Succeeds \/ Fails \/ Written \/ Eof
    BY <1>28, <2>1, <2>2 DEF Succeeds, Fails, Written, Eof, Ops
  <2>3. CASE Arrives
    <3>1. PICK n \in 0..Len(inbox) : Completes("read", "ok", SubSeq(inbox, 1, n))
      BY <2>3 DEF Arrives
    <3>2. SubSeq(inbox, 1, n) \in Seq(Incoming)
      BY SuffixType DEF TypeOK, ReadType
    <3> QED BY <1>28, <3>1, <3>2 DEF Ops
  <2> QED BY <1>29, <2>2, <2>3 DEF Network
<1>30. CASE Clock
  <2>1. thread # "none"
    <3>1. deadline # "off" \/ timer # "off" \/ orphans > 0
      BY <1>30 DEF Clock, ExpireDeadline, ExpireHandshake, ExpireOrphan
    <3> QED BY <3>1 DEF StageFits
  <2>2. PICK which \in Timers : Expire(which)
    BY <1>30 DEF Clock, ExpireDeadline, ExpireHandshake, ExpireOrphan, Timers
  <2>3. Post(which) \in Entries /\ Post(which).what \notin Stages
    BY EntriesMade DEF Post, Entry, Timers, Stages
  <2> QED BY <1>25, <2>1, <2>2, <2>3 DEF Expire, readVars
<1> QED
  BY <1>4, <1>5, <1>6, <1>7, <1>8, <1>9, <1>10, <1>13, <1>14, <1>15, <1>16,
     <1>17, <1>18, <1>19, <1>20, <1>21, <1>22, <1>24, <1>27, <1>29, <1>30
     DEF Next, IoThread, Script

\* A new object has no stage.
LEMMA ReadInit == Init => ReadInv
<1> SUFFICES ASSUME Init PROVE ReadInv
  OBVIOUS
<1>1. /\ thread = "none" /\ pending = {} /\ ready = <<>> /\ looping = FALSE
      /\ deadline = "off" /\ timer = "off" /\ orphans = 0
      /\ state = "connecting" /\ internal = "user init"
  BY Zenon DEF Init
<1>2. Len(ready) = 0 /\ 1..Len(ready) = {}
  <2>1. Len(<<>>) = 0 /\ 1..0 = {}
    OBVIOUS
  <2> QED BY <1>1, <2>1, Zenon
<1>3. \A what : ~Has(ready, what)
  BY <1>2, Zenon DEF Has
<1>4. Once(ready, Stages)
  BY <1>2, Zenon DEF Once
<1>5. OneStage
  BY <1>1, <1>3, <1>4 DEF OneStage, None
<1>6. StageFits
  BY <1>1 DEF StageFits
<1> QED BY <1>5, <1>6 DEF ReadInv

\* The count of entries of a kind that the queue holds at most once.
LEMMA QueuedCount ==
    ASSUME ready \in Seq(Entries), NEW W, Once(ready, W), NEW what \in W
    PROVE  /\ Has(ready, what) => Cardinality(Queued(what)) = 1
           /\ ~Has(ready, what) => Cardinality(Queued(what)) = 0
<1>1. DOMAIN ready = 1..Len(ready)
  BY LenProperties
<1>2. ASSUME Has(ready, what) PROVE Cardinality(Queued(what)) = 1
  <2>1. PICK i \in 1..Len(ready) : ready[i].what = what
    BY <1>2 DEF Has
  <2>2. Queued(what) = {i}
    BY <1>1, <2>1 DEF Queued, Once
  <2> QED BY <2>2, FS_Singleton
<1>3. ASSUME ~Has(ready, what) PROVE Cardinality(Queued(what)) = 0
  <2>1. Queued(what) = {}
    BY <1>1, <1>3 DEF Queued, Has
  <2> QED BY <2>1, FS_EmptySet
<1> QED BY <1>2, <1>3

\* There is never more than one reader of m_buf, and an open connection has
\* one (connection::read_frame, handle_read_frame).
THEOREM ReaderCorrect == Spec => []OneReader
<1>1. TypeOK /\ ReadInv => OneReader
  <2> SUFFICES ASSUME TypeOK, OneStage, StageFits PROVE OneReader
    BY DEF ReadInv
  <2>1. ready \in Seq(Entries) /\ "read" \in Stages /\ looping \in BOOLEAN
    BY DEF TypeOK, IoType, ReadType, Stages
  <2>2. /\ Has(ready, "read") => Cardinality(Queued("read")) = 1
        /\ ~Has(ready, "read") => Cardinality(Queued("read")) = 0
    BY <2>1, QueuedCount DEF OneStage
  <2>3. /\ "read" \in pending \/ looping => ~Has(ready, "read")
        /\ looping => "read" \notin pending
    BY <2>1 DEF OneStage, None
  <2>4. state = "open" => looping \/ "read" \in pending \/ Has(ready, "read")
    BY DEF StageFits, Under
  <2> QED BY <2>2, <2>3, <2>4 DEF OneReader, Outstanding
<1>2. TypeOK /\ ReadInv /\ [Next]_vars => ReadInv'
  BY OneStageStep, StageFitsStep DEF ReadInv
<1> QED BY ReadInit, <1>1, <1>2, TypeCorrect, PTL DEF Spec

(***************************************************************************)
(* Writes                                                                  *)
(***************************************************************************)
\* Once the session is closed nothing is written.
LEMMA WriteCloses ==
    ASSUME state' = "closed", "write" \notin pending', Once(ready', {"write"})
    PROVE  WriteInv'
  BY DEF WriteInv

\* A step that concerns no write.
LEMMA WriteKeeps ==
    ASSUME WriteInv, state' = "closed" <=> state = "closed",
           UNCHANGED writeVars, Once(ready', {"write"}),
           "write" \in pending' <=> "write" \in pending,
           Has(ready', "write") <=> Has(ready, "write"),
           Has(ready, "write_frame") => Has(ready', "write_frame")
    PROVE  WriteInv'
  BY DEF WriteInv, Under, writeVars

\* A message comes to the queue: a write looks at it, or a write_frame will.
LEMMA WritePush ==
    ASSUME WriteInv, state # "closed", state' # "closed",
           NEW frame, NEW queue \in Seq(Entries), Push(frame, queue),
           Once(queue, {"write"}), Has(queue, "write") <=> Has(ready, "write"),
           pending' = pending
    PROVE  WriteInv'
<1>1. /\ Has(ready', "write") <=> Has(ready, "write")
      /\ Once(ready', {"write"})
      /\ ~writeFlag => Has(ready', "write_frame")
  BY PushQueue
<1>2. UNCHANGED <<current, writeFlag>>
  BY DEF Push
<1> QED BY <1>1, <1>2 DEF WriteInv, Under

\* Every step keeps the flag, the queue and the messages being written in step.
LEMMA WriteInvStep == TypeOK /\ ReadInv /\ WriteInv /\ [Next]_vars => WriteInv'
<1> SUFFICES ASSUME TypeOK, ReadInv, WriteInv, [Next]_vars PROVE WriteInv'
  OBVIOUS
<1>0. ready \in Seq(Entries) /\ Once(ready, {"write"}) /\ "write" \in {"write"}
  BY DEF TypeOK, IoType, WriteInv
<1>1. ASSUME UNCHANGED <<state, writeVars, pending, ready>> PROVE WriteInv'
  BY <1>1 DEF WriteInv, Under, writeVars
<1>2. ASSUME NEW queue, Terminate(queue), Once(queue, {"write"})
      PROVE  WriteInv'
  BY <1>2, WriteCloses DEF Terminate, WriteInv
<1>3. ASSUME NEW what, Runs(what)
      PROVE  /\ Rest \in Seq(Entries) /\ Once(Rest, {"write"})
             /\ \A other : other # what => (Has(Rest, other) <=> Has(ready, other))
             /\ what = "write" => ~Has(Rest, "write") /\ Has(ready, "write")
  <2>1. ready # <<>> /\ Head(ready).what = what
    BY <1>3 DEF Runs
  <2> QED BY <1>0, <2>1, TakeHead DEF None
<1>4. ASSUME NEW what, Runs(what), Terminate(Rest) PROVE WriteInv'
  BY <1>2, <1>3, <1>4
<1>5. ASSUME NEW what, Runs(what), what \notin {"write", "write_frame"},
             ready' = Rest, UNCHANGED writeVars,
             state' = "closed" <=> state = "closed",
             "write" \in pending' <=> "write" \in pending
      PROVE  WriteInv'
  BY <1>3, <1>5, WriteKeeps
<1>6. ASSUME NEW frame, Push(frame, ready), state # "closed",
             state' # "closed", pending' = pending
      PROVE  WriteInv'
  BY <1>0, <1>6, WritePush
<1>7. ASSUME NEW what, Runs(what), what # "write", NEW frame,
             Push(frame, Rest), state # "closed", state' # "closed",
             pending' = pending
      PROVE  WriteInv'
  BY <1>3, <1>7, WritePush
<1>8. ASSUME NEW entry \in Entries, entry.what # "write",
             ready' = Append(ready, entry), UNCHANGED <<state, writeVars>>,
             "write" \in pending' <=> "write" \in pending
      PROVE  WriteInv'
  BY <1>0, <1>8, HasAppend, WriteKeeps
<1>9. looping => state \notin {"closed", "connecting"}
  BY DEF ReadInv, StageFits
<1>10. CASE HandleResolve
  BY <1>4, <1>5, <1>10 DEF HandleResolve, sessionVars
<1>11. CASE HandleConnect
  BY <1>4, <1>5, <1>11 DEF HandleConnect
<1>12. CASE HandleSendHttpRequest
  BY <1>4, <1>5, <1>12 DEF HandleSendHttpRequest
<1>13. CASE HandleLate
  BY <1>5, <1>13 DEF HandleLate, sessionVars
<1>14. CASE HandleNone
  <2>1. PICK op : Runs(op)
    BY <1>14 DEF HandleNone
  <2>2. state' = "closed" /\ ready' = Rest /\ pending' = pending /\ state = "closed"
    BY <1>14 DEF HandleNone, sessionVars
  <2> QED BY <1>3, <2>1, <2>2, WriteCloses DEF WriteInv
<1>15. CASE \E which \in Timers : HandleTimeout(which)
  BY <1>4, <1>15 DEF HandleTimeout
<1>16. CASE HandleReadHttpResponse
  BY <1>4, <1>5, <1>16 DEF HandleReadHttpResponse, sessionVars
<1>17. CASE HandleReadFrame
  BY <1>4, <1>5, <1>17 DEF HandleReadFrame, sessionVars
<1>18. CASE ProcessFrame
  <2>1. /\ state' = state /\ state # "closed" /\ pending' = pending
        /\ Push(Pong, ready) \/ UNCHANGED <<writeVars, ready>>
    BY <1>9, <1>18 DEF ProcessFrame, Loops, sessionVars
  <2> QED BY <1>1, <1>6, <2>1
<1>19. CASE ProcessClose \/ ProcessBadClose
  <2>1. /\ state # "closed" /\ pending' = pending
        /\ \/ Push(CloseFrame, ready) /\ state' = "closing"
           \/ UNCHANGED <<state, writeVars, ready>>
    BY <1>9, <1>19 DEF ProcessClose, ProcessBadClose, SendCloseFrame, Loops
  <2> QED BY <1>1, <1>6, <2>1
<1>20. CASE ProcessJunk
  <2>1. \/ /\ Push(LastClose, ready) /\ state' = "closing" /\ pending' = pending
           /\ state # "closed"
        \/ Terminate(ready)
    BY <1>9, <1>20 DEF ProcessJunk, SendCloseFrame, Loops
  <2> QED BY <1>0, <1>2, <1>6, <2>1
<1>21. CASE ReadFrame
  <2>1. /\ UNCHANGED <<state, writeVars, ready>>
        /\ "write" \in pending' <=> "write" \in pending
    BY <1>21 DEF ReadFrame, sessionVars
  <2> QED BY <1>0, <2>1, WriteKeeps
<1>22. CASE WriteFrame
  <2>1. /\ Runs("write_frame") /\ ready' = Rest /\ state' = state
    BY <1>22 DEF WriteFrame, sessionVars
  <2>2. Once(ready', {"write"}) /\ (Has(ready', "write") <=> Has(ready, "write"))
    BY <1>3, <2>1
  <2>3. CASE state = "closed"
    <3>1. pending' = pending
      BY <1>22, <2>3 DEF WriteFrame
    <3> QED BY <2>1, <2>2, <2>3, <3>1 DEF WriteInv
  <2>4. CASE state # "closed" /\ (writeFlag \/ sendQueue = <<>>)
    <3>1. UNCHANGED <<writeVars, pending>>
      BY <1>22, <2>4 DEF WriteFrame
    <3> QED BY <2>1, <2>2, <2>4, <3>1 DEF WriteInv, Under, writeVars
  <2>5. CASE state # "closed" /\ ~writeFlag /\ sendQueue # <<>>
    <3>1. PICK n \in 1..Len(sendQueue) :
            /\ writeFlag' = TRUE
            /\ current' = SubSeq(sendQueue, 1, n)
            /\ pending' = pending \cup {"write"}
      BY <1>22, <2>5 DEF WriteFrame
    <3>2. current' # <<>>
      <4>1. sendQueue \in Seq(Outgoing)
        BY DEF TypeOK, WriteType
      <4>2. Len(SubSeq(sendQueue, 1, n)) = n
        BY <4>1
      <4> QED BY <3>1, <4>2
    <3>3. ~Under("write")
      BY <2>5 DEF WriteInv
    <3> QED BY <2>1, <2>2, <2>5, <3>1, <3>2, <3>3 DEF WriteInv, Under
  <2> QED BY <2>3, <2>4, <2>5
<1>23. CASE HandleWriteFrame
  <2>1. Runs("write") /\ state # "closed" /\ current' = <<>>
    BY <1>23 DEF HandleWriteFrame
  <2>2. CASE Terminate(Rest)
    BY <1>4, <2>1, <2>2
  <2>3. CASE /\ writeFlag' = FALSE
             /\ ready' = IF sendQueue = <<>> THEN Rest
                         ELSE Append(Rest, Post("write_frame"))
             /\ UNCHANGED <<sessionVars, pending, sendQueue>>
    <3>1. /\ Post("write_frame") \in Entries
          /\ Post("write_frame").what = "write_frame"
      BY EntriesMade DEF Post, Entry
    <3>2. /\ Rest \in Seq(Entries) /\ Once(Rest, {"write"})
          /\ ~Has(Rest, "write") /\ Has(ready, "write")
      BY <1>3, <2>1
    <3>3. "write" \notin pending'
      BY <2>3, <3>2 DEF WriteInv
    <3>4. /\ Once(ready', {"write"}) /\ ~Has(ready', "write")
          /\ sendQueue # <<>> => Has(ready', "write_frame")
      BY <2>3, <3>1, <3>2, HasAppend
    <3> QED BY <2>1, <2>3, <3>3, <3>4 DEF WriteInv, Under
  <2>4. sendQueue' = sendQueue
    BY <1>23 DEF HandleWriteFrame
  <2> QED BY <1>23, <2>2, <2>3, <2>4 DEF HandleWriteFrame
<1>24. CASE CloseImpl
  <2>1. \/ /\ Runs("closeImpl") /\ Push(CloseFrame, Rest) /\ pending' = pending
           /\ state = "open" /\ state' = "closing"
        \/ UNCHANGED <<state, writeVars, pending, ready>>
    BY <1>24 DEF CloseImpl, SendCloseFrame, sessionVars
  <2> QED BY <1>1, <1>7, <2>1
<1>25. CASE SendImpl
  <2>1. /\ Runs("sendImpl") /\ UNCHANGED <<state, pending>>
        /\ \/ Push(Got[1], Rest) /\ state = "open"
           \/ ready' = Rest /\ UNCHANGED writeVars
    BY <1>25 DEF SendImpl, sessionVars
  <2> QED BY <1>5, <1>7, <2>1
<1>26. CASE RunReturns \/ OpenInvalid \/ Peer \/ UNCHANGED vars
  BY <1>1, <1>26 DEF RunReturns, OpenInvalid, Peer, PeerSends, PeerHangsUp,
     PeerActs, vars, sessionVars
<1>27. CASE Open
  <2>1. /\ thread = "none" /\ pending' = {"resolve"}
        /\ UNCHANGED <<state, writeVars, ready>>
    BY <1>27 DEF Open, sessionVars
  <2>2. pending = {}
    BY <2>1 DEF ReadInv, StageFits
  <2> QED BY <1>0, <2>1, <2>2, WriteKeeps
<1>28. ASSUME NEW entry \in Entries, entry.what # "write", PostToService(entry)
       PROVE  WriteInv'
  BY <1>1, <1>8, <1>28 DEF PostToService, sessionVars
<1>29. CASE Close \/ Send
  <2>1. CASE Close
    BY <1>28, <2>1, EntriesMade DEF Close, Post, Entry
  <2>2. CASE Send
    <3>1. texts + 1 \in 1..MaxTexts
      BY <2>2, BoundsAssumption DEF Send, TypeOK, CallType
    <3> QED BY <1>28, <2>2, <3>1, EntriesMade DEF Send, Entry
  <2> QED BY <1>29, <2>1, <2>2
<1>30. ASSUME NEW op \in Ops, NEW ec \in {"ok", "fail", "eof"},
              NEW got \in Seq(Incoming), Completes(op, ec, got)
       PROVE  WriteInv'
  <2>1. /\ Entry(op, ec, got) \in Entries /\ Entry(op, ec, got).what = op
        /\ op \in pending /\ pending' = pending \ {op}
        /\ UNCHANGED <<state, writeVars>>
        /\ ready' = Append(ready, Entry(op, ec, got))
    BY <1>30, EntriesMade DEF Completes, Entry, sessionVars
  <2>2. CASE op # "write"
    BY <1>8, <2>1, <2>2
  <2>3. CASE op = "write"
    <3>1. ~Has(ready, "write") /\ state # "closed"
      BY <2>1, <2>3 DEF WriteInv
    <3>2. /\ Once(ready', {"write"}) /\ Has(ready', "write")
          /\ Has(ready, "write_frame") => Has(ready', "write_frame")
      BY <1>0, <2>1, <2>3, <3>1, HasAppend DEF None
    <3> QED BY <2>1, <2>3, <3>1, <3>2 DEF WriteInv, Under, writeVars
  <2> QED BY <2>2, <2>3
<1>31. CASE Network
  <2>1. <<>> \in Seq(Incoming)
    OBVIOUS
  <2>2. CASE Succeeds \/ Fails \/ Written \/ Eof
    BY <1>30, <2>1, <2>2 DEF Succeeds, Fails, Written, Eof, Ops
  <2>3. CASE Arrives
    <3>1. PICK n \in 0..Len(inbox) : Completes("read", "ok", SubSeq(inbox, 1, n))
      BY <2>3 DEF Arrives
    <3>2. SubSeq(inbox, 1, n) \in Seq(Incoming)
      BY SuffixType DEF TypeOK, ReadType
    <3> QED BY <1>30, <3>1, <3>2 DEF Ops
  <2> QED BY <1>31, <2>2, <2>3 DEF Network
<1>32. CASE Clock
  <2>1. PICK which \in Timers : Expire(which)
    BY <1>32 DEF Clock, ExpireDeadline, ExpireHandshake, ExpireOrphan, Timers
  <2>2. Post(which) \in Entries /\ Post(which).what # "write"
    BY EntriesMade DEF Post, Entry, Timers
  <2> QED BY <1>8, <2>1, <2>2 DEF Expire
<1> QED
  BY <1>10, <1>11, <1>12, <1>13, <1>14, <1>15, <1>16, <1>17, <1>18, <1>19,
     <1>20, <1>21, <1>22, <1>23, <1>24, <1>25, <1>26, <1>27, <1>29, <1>31,
     <1>32 DEF Next, IoThread, Script

\* A new object writes nothing.
LEMMA WriteInit == Init => WriteInv
<1> SUFFICES ASSUME Init PROVE WriteInv
  OBVIOUS
<1>1. /\ pending = {} /\ ready = <<>> /\ sendQueue = <<>> /\ current = <<>>
      /\ writeFlag = FALSE
  BY Zenon DEF Init
<1>2. 1..Len(ready) = {}
  <2>1. Len(<<>>) = 0 /\ 1..0 = {}
    OBVIOUS
  <2> QED BY <1>1, <2>1, Zenon
<1>3. Once(ready, {"write"}) /\ ~Has(ready, "write")
  BY <1>2, Zenon DEF Once, Has
<1> QED BY <1>1, <1>3 DEF WriteInv, Under

\* The two invariants that the theorems about writes rest on.
LEMMA WriteInvCorrect == Spec => [](TypeOK /\ WriteInv)
<1>1. TypeOK /\ ReadInv /\ [Next]_vars => ReadInv'
  BY OneStageStep, StageFitsStep DEF ReadInv
<1> QED
  BY <1>1, ReadInit, WriteInit, WriteInvStep, TypeCorrect, PTL DEF Spec

\* m_write_flag tells whether a write is outstanding, and there is never more
\* than one (connection::write_frame, handle_write_frame).
THEOREM WritesCorrect == Spec => []WriteFlagRight
<1>1. TypeOK /\ WriteInv => WriteFlagRight
  <2> SUFFICES ASSUME TypeOK, WriteInv PROVE WriteFlagRight
    OBVIOUS
  <2>1. ready \in Seq(Entries) /\ "write" \in {"write"} /\ writeFlag \in BOOLEAN
    BY DEF TypeOK, IoType, WriteType
  <2>2. /\ Has(ready, "write") => Cardinality(Queued("write")) = 1
        /\ ~Has(ready, "write") => Cardinality(Queued("write")) = 0
    BY <2>1, QueuedCount DEF WriteInv
  <2>3. /\ Under("write") => Outstanding("write") = 1
        /\ ~Under("write") => Outstanding("write") = 0
    BY <2>2 DEF WriteInv, Under, Outstanding
  <2> QED BY <2>3 DEF WriteFlagRight, WriteInv
<1> QED BY <1>1, WriteInvCorrect, PTL

\* A message in m_send_queue is never forgotten: the write under way or a
\* posted write_frame sees it (connection::send, write_frame).
THEOREM QueueCorrect == Spec => []QueueServed
<1>1. TypeOK /\ WriteInv => QueueServed
  <2> SUFFICES ASSUME TypeOK, WriteInv PROVE QueueServed
    OBVIOUS
  <2>1. DOMAIN ready = 1..Len(ready)
    BY LenProperties DEF TypeOK, IoType
  <2>2. Has(ready, "write_frame") => Queued("write_frame") # {}
    BY <2>1 DEF Has, Queued
  <2> QED BY <2>2 DEF QueueServed, WriteInv
<1> QED BY <1>1, WriteInvCorrect, PTL

(***************************************************************************)
(* The thread outlives the session                                         *)
(***************************************************************************)
\* A step that takes away nothing that keeps the session going.
LEMMA AliveKeeps ==
    ASSUME AliveInv, thread # "none",
           UNCHANGED <<state, thread, deadline>>,
           \A s \in Stages : Under(s) => s \in pending' \/ Has(ready', s),
           \A which \in Timers : Has(ready, which) => Has(ready', which),
           \/ Has(ready', "close timeout")
           \/ /\ timer = "close" => timer' = "close"
              /\ orphans' = orphans
    PROVE  AliveInv'
<1>1. \A s \in Stages : Under(s) => Under(s)'
  BY DEF Under
<1>2. /\ Stages = {"resolve", "connect", "request", "read"}
      /\ Timers = {"dns timeout", "connect timeout", "open timeout", "close timeout"}
  BY DEF Stages, Timers
<1> QED BY <1>1, <1>2 DEF AliveInv, RunsWhileAlive

\* The session has closed.
LEMMA AliveCloses == ASSUME state' = "closed" PROVE AliveInv'
  BY DEF AliveInv, RunsWhileAlive

\* A session becomes closing, or goes on closing, under its timer.
LEMMA AliveClosing ==
    ASSUME state' = "closing", thread' # "returned",
           timer' = "close" \/ orphans' > 0
    PROVE  AliveInv'
  BY DEF AliveInv, RunsWhileAlive

\* Every step leaves a session that is not closed something to go on with.
LEMMA AliveInvStep == TypeOK /\ ReadInv /\ AliveInv /\ [Next]_vars => AliveInv'
<1> SUFFICES ASSUME TypeOK, ReadInv, AliveInv, [Next]_vars PROVE AliveInv'
  OBVIOUS
<1>0. /\ ready \in Seq(Entries) /\ orphans \in Nat
      /\ Stages = {"resolve", "connect", "request", "read"}
      /\ Timers = {"dns timeout", "connect timeout", "open timeout", "close timeout"}
  BY DEF TypeOK, IoType, SessionType, Stages, Timers
<1>1. ASSUME UNCHANGED <<state, thread, deadline, timer, orphans, pending, ready>>
      PROVE  AliveInv'
  BY <1>1 DEF AliveInv, RunsWhileAlive, Under
<1>2. ASSUME NEW queue, Terminate(queue) PROVE AliveInv'
  BY <1>2, AliveCloses DEF Terminate
<1>3. ASSUME NEW what, Runs(what)
      PROVE  /\ thread = "running" /\ ready # <<>>
             /\ \A other : other # what => (Has(Rest, other) <=> Has(ready, other))
             /\ Rest \in Seq(Entries) /\ Head(ready).what = what
  BY <1>3, TakeHead DEF Runs
<1>4. ASSUME NEW what, what \notin Stages \cup Timers, Runs(what), ready' = Rest,
             UNCHANGED <<state, thread, deadline, timer, orphans>>,
             pending \subseteq pending'
      PROVE  AliveInv'
  BY <1>3, <1>4, AliveKeeps DEF Under
<1>5. ASSUME NEW entry \in Entries, ready' = Append(ready, entry),
             UNCHANGED <<state, thread, deadline, timer, orphans>>,
             thread # "none", \A op \in pending : op \in pending' \/ op = entry.what
      PROVE  AliveInv'
  BY <1>0, <1>5, HasAppend, AliveKeeps DEF Under
<1>6. looping => state \in {"open", "closing"} /\ thread # "none"
  BY DEF ReadInv, StageFits
<1>7. state \notin {"connecting", "closing"} /\ state' = state
         /\ thread' = thread => AliveInv'
  BY DEF AliveInv, RunsWhileAlive
<1>8. state # "closed" => thread # "returned"
  BY DEF AliveInv, RunsWhileAlive
<1>9. ASSUME NEW op \in {"request", "read"}, op \in pending',
             state' = state, state # "closing", thread' = thread,
             thread = "running"
      PROVE  AliveInv'
  BY <1>9 DEF AliveInv, RunsWhileAlive, Under
<1>10. CASE HandleResolve
  <2>1. /\ Runs("resolve") /\ thread' = thread /\ thread = "running"
    BY <1>10 DEF HandleResolve, Runs
  <2>2. state \notin {"open", "closing"}
    BY <2>1, StageEarly DEF ReadInv
  <2>3. CASE Ec = "ok"
    <3>1. deadline' = "connect" /\ "connect" \in pending' /\ state' = state
      BY <1>10, <2>3 DEF HandleResolve, sessionVars
    <3> QED BY <2>1, <2>2, <3>1 DEF AliveInv, RunsWhileAlive, Under
  <2> QED BY <1>2, <1>10, <2>3 DEF HandleResolve
<1>11. CASE HandleConnect
  <2>1. /\ Runs("connect") /\ thread' = thread /\ thread = "running"
    BY <1>11 DEF HandleConnect, Runs
  <2>2. state \notin {"open", "closing"}
    BY <2>1, StageEarly DEF ReadInv
  <2>3. CASE Ec = "ok"
    BY <1>9, <1>11, <2>1, <2>2, <2>3 DEF HandleConnect
  <2> QED BY <1>2, <1>11, <2>3 DEF HandleConnect
<1>12. CASE HandleSendHttpRequest
  <2>1. /\ Runs("request") /\ thread' = thread /\ thread = "running"
    BY <1>12 DEF HandleSendHttpRequest, Runs
  <2>2. state \notin {"open", "closing"}
    BY <2>1, StageEarly DEF ReadInv
  <2>3. CASE Ec = "ok"
    BY <1>9, <1>12, <2>1, <2>2, <2>3 DEF HandleSendHttpRequest
  <2> QED BY <1>2, <1>12, <2>3 DEF HandleSendHttpRequest
<1>13. CASE HandleLate
  <2>1. PICK what \in {"resolve", "connect"} :
          /\ Runs(what)
          /\ what = "resolve" => deadline # "dns"
          /\ what = "connect" => deadline # "connect"
    BY <1>13 DEF HandleLate
  <2>2. state \notin {"open", "closing"} /\ thread = "running" /\ ready' = Rest
    BY <1>3, <1>13, <2>1, StageEarly DEF ReadInv, HandleLate
  <2>3. UNCHANGED <<state, thread, deadline, pending>>
    BY <1>13 DEF HandleLate, sessionVars
  <2>4. \A other : other # what /\ Has(ready, other) => Has(ready', other)
    BY <1>3, <2>1, <2>2
  <2>5. CASE what = "resolve"
    BY <2>1, <2>2, <2>3, <2>4, <2>5 DEF AliveInv, RunsWhileAlive, Under
  <2>6. CASE what = "connect"
    BY <2>1, <2>2, <2>3, <2>4, <2>6 DEF AliveInv, RunsWhileAlive, Under
  <2> QED BY <2>1, <2>5, <2>6
<1>14. CASE HandleNone
  BY <1>14, AliveCloses DEF HandleNone, sessionVars
<1>15. CASE \E which \in Timers : HandleTimeout(which)
  BY <1>2, <1>15 DEF HandleTimeout
<1>16. CASE HandleReadHttpResponse
  <2>1. /\ Runs("read") /\ thread' = thread /\ thread = "running"
        /\ internal = "read response" /\ state # "closing"
    BY <1>16 DEF HandleReadHttpResponse, Runs, ReadInv, StageFits
  <2>2. CASE Terminate(Rest)
    BY <1>2, <2>2
  <2>3. CASE state' = state /\ "read" \in pending'
    BY <1>9, <2>1, <2>3
  <2>4. CASE state' = "open"
    BY <2>1, <2>4 DEF AliveInv, RunsWhileAlive
  <2> QED
    BY <1>16, <2>2, <2>3, <2>4 DEF HandleReadHttpResponse, sessionVars
<1>17. CASE HandleReadFrame
  <2>1. /\ Runs("read") /\ thread' = thread /\ thread = "running"
        /\ state \in {"open", "closing"} /\ deadline' = deadline
    BY <1>17 DEF HandleReadFrame, Runs, ReadInv, StageFits, TypeOK, SessionType
  <2>2. CASE Terminate(Rest)
    BY <1>2, <2>2
  <2>3. CASE ready' = Rest /\ UNCHANGED <<state, timer, orphans>>
    <3>1. Has(ready, "close timeout") => Has(ready', "close timeout")
      BY <1>3, <2>1, <2>3
    <3> QED BY <2>1, <2>3, <3>1 DEF AliveInv, RunsWhileAlive
  <2> QED BY <1>17, <2>2, <2>3 DEF HandleReadFrame, sessionVars
<1>push. ASSUME NEW queue \in Seq(Entries), NEW frame, Push(frame, queue),
                Has(ready, "close timeout") => Has(queue, "close timeout"),
                state \in {"open", "closing"}, thread # "none",
                UNCHANGED <<state, thread, timer, orphans>>
         PROVE  AliveInv'
  <2>1. Has(queue, "close timeout") => Has(ready', "close timeout")
    BY <1>push, PushQueue
  <2> QED BY <1>push, <2>1 DEF AliveInv, RunsWhileAlive
<1>18. CASE ProcessFrame
  <2>1. /\ UNCHANGED <<state, thread, timer, orphans, pending, deadline>> /\ looping
        /\ Push(Pong, ready) \/ ready' = ready
    BY <1>18 DEF ProcessFrame, Loops, sessionVars
  <2> QED BY <1>0, <1>1, <1>6, <1>push, <2>1
<1>19. ASSUME NEW frame, NEW ack, NEW queue, SendCloseFrame(frame, ack, queue),
              thread' = thread, state # "closed"
       PROVE  AliveInv'
  BY <1>8, <1>19, AliveClosing DEF SendCloseFrame
<1>20. CASE ProcessClose \/ ProcessBadClose
  <2>1. looping /\ thread' = thread /\ deadline' = deadline
    BY <1>20 DEF ProcessClose, ProcessBadClose, Loops
  <2>2. \/ SendCloseFrame(CloseFrame, TRUE, ready)
        \/ UNCHANGED <<state, timer, orphans, pending, ready>>
    BY <1>20 DEF ProcessClose, ProcessBadClose
  <2> QED BY <1>1, <1>6, <1>19, <2>1, <2>2
<1>21. CASE ProcessJunk
  <2>1. looping /\ thread' = thread
    BY <1>21 DEF ProcessJunk, Loops
  <2>2. SendCloseFrame(LastClose, FALSE, ready) \/ Terminate(ready)
    BY <1>21 DEF ProcessJunk
  <2> QED BY <1>2, <1>6, <1>19, <2>1, <2>2
<1>22. CASE ReadFrame
  <2>1. /\ looping /\ pending \subseteq pending'
        /\ UNCHANGED <<state, thread, deadline, timer, orphans, ready>>
    BY <1>22 DEF ReadFrame, sessionVars
  <2> QED BY <1>6, <2>1, AliveKeeps DEF Under
<1>23. CASE WriteFrame
  <2>1. /\ Runs("write_frame") /\ ready' = Rest
        /\ UNCHANGED <<state, thread, deadline, timer, orphans>>
    BY <1>23 DEF WriteFrame, sessionVars
  <2>2. pending \subseteq pending'
    BY <1>23 DEF WriteFrame
  <2> QED BY <1>0, <1>4, <2>1, <2>2
<1>24. CASE HandleWriteFrame
  <2>1. Runs("write") /\ thread' = thread /\ deadline' = deadline
    BY <1>24 DEF HandleWriteFrame
  <2>2. CASE Terminate(Rest)
    BY <1>2, <2>2
  <2>3. CASE /\ UNCHANGED <<sessionVars, pending>>
             /\ ready' = Rest \/ ready' = Append(Rest, Post("write_frame"))
    <3>1. Post("write_frame") \in Entries
      BY EntriesMade DEF Post
    <3>2. /\ thread # "none" /\ Rest \in Seq(Entries)
          /\ \A other : other # "write" /\ Has(ready, other) => Has(Rest, other)
      BY <1>3, <2>1
    <3>3. \A other : other # "write" /\ Has(ready, other) => Has(ready', other)
      BY <2>3, <3>1, <3>2, HasAppend
    <3> QED BY <1>0, <2>1, <2>3, <3>2, <3>3, AliveKeeps DEF Under, sessionVars
  <2> QED BY <1>24, <2>2, <2>3 DEF HandleWriteFrame
<1>25. CASE CloseImpl
  <2>1. CASE state = "open"
    BY <1>19, <1>25, <2>1 DEF CloseImpl
  <2>2. CASE state # "open"
    BY <1>1, <1>25, <2>2 DEF CloseImpl, sessionVars
  <2> QED BY <2>1, <2>2
<1>26. CASE SendImpl
  <2>1. /\ Runs("sendImpl")
        /\ UNCHANGED <<state, thread, deadline, timer, orphans, pending>>
        /\ \/ Push(Got[1], Rest) /\ state = "open"
           \/ ready' = Rest
    BY <1>26 DEF SendImpl, sessionVars
  <2> QED BY <1>0, <1>4, <1>7, <2>1
<1>27. CASE RunReturns
  <2>1. \A what : ~Under(what)
    <3>1. ready = <<>> /\ pending = {}
      BY <1>27 DEF RunReturns
    <3>2. 1..Len(ready) = {}
      <4>1. Len(<<>>) = 0 /\ 1..0 = {}
        OBVIOUS
      <4> QED BY <3>1, <4>1, Zenon
    <3> QED BY <3>1, <3>2, Zenon DEF Under, Has
  <2>2. \A what : ~Has(ready, what)
    BY <2>1 DEF Under
  <2>3. /\ thread = "running" /\ ~looping /\ timer = "off" /\ orphans = 0
        /\ deadline = "off" /\ state' = state
    BY <1>27 DEF RunReturns, sessionVars
  <2>4. state # "connecting" /\ state # "closing"
    <3>1. /\ ~Under("resolve") /\ ~Under("connect") /\ ~Under("request")
          /\ ~Under("read") /\ ~Has(ready, "dns timeout")
          /\ ~Has(ready, "connect timeout") /\ ~Has(ready, "close timeout")
      BY <2>1, <2>2
    <3>2. deadline # "dns" /\ deadline # "connect" /\ timer # "close"
          /\ thread # "none" /\ ~(orphans > 0)
      BY <2>3
    <3> QED BY <3>1, <3>2, Zenon DEF AliveInv
  <2>5. state # "open"
    BY <2>1, <2>3 DEF ReadInv, StageFits
  <2>6. state = "closed"
    BY <2>4, <2>5 DEF TypeOK, SessionType
  <2> QED BY <2>3, <2>6, AliveCloses
<1>28. CASE OpenInvalid \/ Peer \/ UNCHANGED vars
  BY <1>1, <1>28 DEF OpenInvalid, Peer, PeerSends, PeerHangsUp, PeerActs, vars,
     sessionVars
<1>29. CASE Open
  <2>1. /\ thread = "none" /\ thread' = "running" /\ pending' = {"resolve"}
        /\ deadline' = "dns" /\ state' = state
    BY <1>29 DEF Open, sessionVars
  <2>2. state = "connecting"
    BY <2>1 DEF ReadInv, StageFits
  <2> QED BY <2>1, <2>2 DEF AliveInv, RunsWhileAlive, Under
<1>30. ASSUME NEW entry \in Entries, PostToService(entry) PROVE AliveInv'
  BY <1>1, <1>5, <1>30 DEF PostToService, sessionVars
<1>31. CASE Close \/ Send
  <2>1. CASE Close
    BY <1>30, <2>1, EntriesMade DEF Close, Post
  <2>2. CASE Send
    <3>1. texts + 1 \in 1..MaxTexts
      BY <2>2, BoundsAssumption DEF Send, TypeOK, CallType
    <3> QED BY <1>30, <2>2, <3>1, EntriesMade DEF Send
  <2> QED BY <1>31, <2>1, <2>2
<1>32. ASSUME NEW op \in Ops, NEW ec \in {"ok", "fail", "eof"},
              NEW got \in Seq(Incoming), Completes(op, ec, got)
       PROVE  AliveInv'
  <2>1. /\ Entry(op, ec, got) \in Entries /\ Entry(op, ec, got).what = op
        /\ op \in pending /\ pending' = pending \ {op}
        /\ UNCHANGED <<state, thread, deadline, timer, orphans>>
        /\ ready' = Append(ready, Entry(op, ec, got))
    BY <1>32, EntriesMade DEF Completes, Entry, sessionVars
  <2>2. thread # "none"
    BY <2>1 DEF ReadInv, StageFits
  <2> QED BY <1>5, <2>1, <2>2
<1>33. CASE Network
  <2>1. <<>> \in Seq(Incoming)
    OBVIOUS
  <2>2. CASE Succeeds \/ Fails \/ Written \/ Eof
    BY <1>32, <2>1, <2>2 DEF Succeeds, Fails, Written, Eof, Ops
  <2>3. CASE Arrives
    <3>1. PICK n \in 0..Len(inbox) : Completes("read", "ok", SubSeq(inbox, 1, n))
      BY <2>3 DEF Arrives
    <3>2. SubSeq(inbox, 1, n) \in Seq(Incoming)
      BY SuffixType DEF TypeOK, ReadType
    <3> QED BY <1>32, <3>1, <3>2 DEF Ops
  <2> QED BY <1>33, <2>2, <2>3 DEF Network
<1>34. CASE Clock
  <2>1. thread # "none"
    <3>1. deadline # "off" \/ timer # "off" \/ orphans > 0
      BY <1>34 DEF Clock, ExpireDeadline, ExpireHandshake, ExpireOrphan
    <3> QED BY <3>1 DEF ReadInv, StageFits
  <2>2. ASSUME NEW which \in Timers, Expire(which)
        PROVE  /\ UNCHANGED <<state, thread, pending>> /\ Has(ready', which)
               /\ \A other : Has(ready, other) => Has(ready', other)
    <3>1. Post(which) \in Entries /\ Post(which).what = which
      BY <2>2, EntriesMade DEF Post, Entry
    <3>2. /\ UNCHANGED <<state, thread, pending>>
          /\ ready' = Append(ready, Post(which))
      BY <2>2 DEF Expire
    <3> QED BY <1>0, <3>1, <3>2, HasAppend
  <2>3. CASE ExpireDeadline
    <3>1. PICK which \in {"dns timeout", "connect timeout"} : Expire(which)
      BY <2>3 DEF ExpireDeadline
    <3>2. UNCHANGED <<timer, orphans>>
      BY <2>3 DEF ExpireDeadline
    <3>3. /\ UNCHANGED <<state, thread, pending>> /\ Has(ready', which)
          /\ \A other : Has(ready, other) => Has(ready', other)
      BY <1>0, <2>2, <3>1
    <3> QED BY <3>1, <3>2, <3>3 DEF AliveInv, RunsWhileAlive
  <2>4. CASE ExpireHandshake
    <3>1. PICK which \in {"open timeout", "close timeout"} :
            Expire(which) /\ (timer = "close" => which = "close timeout")
      BY <2>4 DEF ExpireHandshake
    <3>2. UNCHANGED <<deadline, orphans>>
      BY <2>4 DEF ExpireHandshake
    <3>3. /\ UNCHANGED <<state, thread, pending>> /\ Has(ready', which)
          /\ \A other : Has(ready, other) => Has(ready', other)
      BY <1>0, <2>2, <3>1
    <3> QED BY <2>1, <3>1, <3>2, <3>3, AliveKeeps DEF Under
  <2>5. CASE ExpireOrphan
    <3>1. Expire("close timeout") /\ UNCHANGED <<deadline, timer>>
      BY <2>5 DEF ExpireOrphan
    <3>2. /\ UNCHANGED <<state, thread, pending>> /\ Has(ready', "close timeout")
          /\ \A other : Has(ready, other) => Has(ready', other)
      BY <1>0, <2>2, <3>1
    <3> QED BY <2>1, <3>1, <3>2, AliveKeeps DEF Under
  <2> QED BY <1>34, <2>3, <2>4, <2>5 DEF Clock
<1> QED
  BY <1>10, <1>11, <1>12, <1>13, <1>14, <1>15, <1>16, <1>17, <1>18, <1>20,
     <1>21, <1>22, <1>23, <1>24, <1>25, <1>26, <1>27, <1>28, <1>29, <1>31,
     <1>33, <1>34 DEF Next, IoThread, Script

\* io_service::run returns only when the session has closed: whatever state a
\* session is in before, an operation, a timer or a completion is left that
\* holds it (FlintWebSocketAPI::open, connection::terminate).
THEOREM AliveCorrect == Spec => []RunsWhileAlive
<1>1. Init => AliveInv
  BY Zenon DEF Init, AliveInv, RunsWhileAlive
<1>2. TypeOK /\ ReadInv /\ [Next]_vars => ReadInv'
  BY OneStageStep, StageFitsStep DEF ReadInv
<1>3. AliveInv => RunsWhileAlive
  BY DEF AliveInv
<1> QED
  BY <1>1, <1>2, <1>3, ReadInit, AliveInvStep, TypeCorrect, PTL DEF Spec

=============================================================================
