-------------------------------- MODULE Hybi13 --------------------------------
(***************************************************************************)
(* How an open WebSocket connection reads frames: handle_read_frame of     *)
(* connection_impl.hpp over hybi13::consume (processors/hybi13.hpp), from  *)
(* the bytes the transport puts in m_buf to the messages that are handed   *)
(* on.  The network cuts the server's bytes into reads of any length.      *)
(*                                                                         *)
(* One action is one iteration of the loop of consume, or one message that *)
(* handle_read_frame hands on.  All of it runs on the io thread: close()   *)
(* and the end of the connection come between two calls of the handler.    *)
(***************************************************************************)
EXTENDS Frame, Utf8

CONSTANTS
    Streams,     \* what a server may send: bytes, and where its frames begin
    ReadSize,    \* connection_read_buffer_size: 16384
    MaxMessage,  \* max_message_size: 32000000
    SizeT,       \* how many values a size_t has
    None         \* a null message_ptr

(***************************************************************************)
(* stream.at[k] bytes precede the k-th frame, and the last entry is where  *)
(* the last frame ends.  The frame's own header says how long it is.       *)
(***************************************************************************)
HeaderEnd(bytes, at) == at + 2 + extended_length(bytes[at + 2])

SizeAt(bytes, at) ==
    get_payload_size(bytes[at + 2], SubSeq(bytes, at + 3, HeaderEnd(bytes, at)))

WellFramed(s) ==
    /\ s.bytes \in Seq(Byte)
    /\ s.at \in Seq(Nat) /\ s.at # <<>>
    /\ s.at[Len(s.at)] = Len(s.bytes)
    /\ \A k \in 1..(Len(s.at) - 1) :
         /\ s.at[k] + 2 <= Len(s.bytes)
         /\ get_basic_size(s.bytes[s.at[k] + 2]) <= Code64
         /\ HeaderEnd(s.bytes, s.at[k]) <= Len(s.bytes)
         /\ s.at[k + 1] = HeaderEnd(s.bytes, s.at[k]) + SizeAt(s.bytes, s.at[k])
         /\ s.at[k + 1] <= Len(s.bytes)

ASSUME StreamAssumption == \A s \in Streams : WellFramed(s)

ASSUME LimitAssumption ==
    /\ ReadSize \in Nat \ {0} /\ MaxMessage \in Nat /\ SizeT \in Nat \ {0}

VARIABLES
    stream,      \* the server's bytes of this connection
    pos, avail,  \* m_buf holds the bytes after pos, up to avail
    handler,     \* of the read: idle (armed), in its loop, or never again
    session,     \* m_state
    fault,       \* the error the connection was given up for
    state,       \* the processor's m_state
    needed,      \* m_bytes_needed
    basic,       \* the bytes of m_basic_header that were read
    extended,    \* those of m_extended_header: m_cursor is their number
    dataMsg, controlMsg,  \* m_data_msg, m_control_msg
    current,     \* which of them m_current_msg points to
    taken,       \* history: how many frames the processor is through with
    dispatched   \* history: the messages handed on

headerVars == <<state, needed, basic, extended>>
messageVars == <<dataMsg, controlMsg, current>>
historyVars == <<taken, dispatched>>
networkVars == <<stream, avail>>
connectionVars == <<handler, session, fault>>
vars == <<networkVars, pos, connectionVars, headerVars, messageVars,
          historyVars>>

Smaller(a, b) == IF a <= b THEN a ELSE b
Bytes(n) == SubSeq(stream.bytes, pos + 1, pos + n)

ResetHeaders ==
    /\ state' = "HEADER_BASIC" /\ needed' = 2
    /\ basic' = <<>> /\ extended' = <<>>

NewProcessor ==
    /\ state = "HEADER_BASIC" /\ needed = 2 /\ basic = <<>> /\ extended = <<>>
    /\ dataMsg = None /\ controlMsg = None /\ current = "none"
    /\ fault = "none"
    /\ taken = 0 /\ dispatched = <<>>

\* handle_read_frame is called with what followed the response in m_buf.
Init ==
    /\ stream \in Streams
    /\ pos = stream.at[1] /\ avail \in pos..Len(stream.bytes)
    /\ handler = "frames" /\ session = "open"
    /\ NewProcessor

\* Mutant of Consuming: the loop goes on only while there are bytes.
ConsumingBytes ==
    /\ handler = "frames" /\ state # "READY"
    /\ pos < avail

\* The loop of consume goes on.
Consuming ==
    /\ handler = "frames" /\ state # "READY"
    /\ pos < avail \/ needed = 0

\* handle_read_frame after an error of consume: close(), and terminate() when
\* that fails because the connection is closing.  No read follows.
Fail ==
    /\ handler' = "stopped"
    /\ session' = IF session = "open" THEN "closing" ELSE "closed"
    /\ fault' = "frame"

\* validate_incoming_basic_header, of a client.
BadBasicHeader(header, new_msg) ==
    LET op == get_opcode(header[1]) IN
    \/ is_control(op) /\ get_basic_size(header[2]) > BasicLimit
    \/ get_rsv(header[1]) # 0
    \/ reserved(op)
    \/ is_control(op) /\ ~get_fin(header[1])
    \/ new_msg /\ op = CONTINUATION
    \/ ~new_msg /\ ~is_control(op) /\ op # CONTINUATION
    \/ get_masked(header[2])

\* Mutant of BasicHeader: both bytes are taken whenever there is one.
BasicHeaderWhole ==
    /\ Consuming /\ state = "HEADER_BASIC"
    /\ LET header == basic \o Bytes(needed)
       IN  /\ pos' = pos + needed /\ basic' = header
           /\ IF BadBasicHeader(header, dataMsg = None)
              THEN Fail /\ needed' = 0 /\ UNCHANGED <<state, extended>>
              ELSE /\ state' = "HEADER_EXTENDED"
                   /\ needed' = extended_length(header[2])
                   /\ extended' = <<>>
                   /\ UNCHANGED connectionVars
    /\ UNCHANGED <<networkVars, messageVars, historyVars>>

BasicHeader ==
    /\ Consuming /\ state = "HEADER_BASIC"
    /\ LET n == Smaller(needed, avail - pos)
           header == basic \o Bytes(n)
       IN  /\ pos' = pos + n /\ basic' = header
           /\ IF n < needed
              THEN needed' = needed - n
                   /\ UNCHANGED <<state, extended, connectionVars>>
              ELSE IF BadBasicHeader(header, dataMsg = None)
              THEN Fail /\ needed' = 0 /\ UNCHANGED <<state, extended>>
              ELSE /\ state' = "HEADER_EXTENDED"
                   /\ needed' = extended_length(header[2])
                   /\ extended' = <<>>
                   /\ UNCHANGED connectionVars
    /\ UNCHANGED <<networkVars, messageVars, historyVars>>

\* validate_incoming_extended_header
BadSize(b1, size) ==
    \/ get_basic_size(b1) = Code16 /\ size <= BasicLimit
    \/ get_basic_size(b1) = Code64 /\ size <= ExtendedLimit
    \/ size >= SizeT  \* requires_64bit

\* Mutant of TooBig: the size of a fragment is looked at alone.
TooBigAlone(size) == size > MaxMessage

\* message_too_big: the sum is one of size_t.
TooBig(size) ==
    IF dataMsg = None THEN size > MaxMessage
    ELSE (Len(dataMsg.payload) + size) % SizeT > MaxMessage

TooBigFor(op, size) == ~is_control(op) /\ TooBig(size)

NewMessage(op) == [op |-> op, payload |-> <<>>, validator |-> utf8_accept]

\* The frame is a control frame, begins a data message or goes on with one.
StartPayload(op, size) ==
    /\ state' = "APPLICATION" /\ needed' = size
    /\ IF is_control(op)
       THEN controlMsg' = NewMessage(op) /\ current' = "control"
            /\ UNCHANGED dataMsg
       ELSE /\ dataMsg' = IF dataMsg = None THEN NewMessage(op) ELSE dataMsg
            /\ current' = "data"
            /\ UNCHANGED controlMsg
    /\ UNCHANGED connectionVars

ExtendedHeader ==
    /\ Consuming /\ state = "HEADER_EXTENDED"
    /\ LET n == Smaller(needed, avail - pos)
           header == extended \o Bytes(n)
           size == get_payload_size(basic[2], header)
           op == get_opcode(basic[1])
       IN  /\ pos' = pos + n /\ extended' = header
           /\ IF n < needed
              THEN needed' = needed - n
                   /\ UNCHANGED <<state, messageVars, connectionVars>>
              ELSE IF BadSize(basic[2], size)
              THEN Fail /\ needed' = 0 /\ UNCHANGED <<state, messageVars>>
              ELSE IF TooBigFor(op, size)
              THEN Fail /\ state' = "APPLICATION" /\ needed' = size
                   /\ UNCHANGED messageVars
              ELSE StartPayload(op, size)
    /\ UNCHANGED <<basic, networkVars, historyVars>>

Message == IF current = "control" THEN controlMsg ELSE dataMsg

SetMessage(msg) ==
    /\ IF current = "control"
       THEN controlMsg' = msg /\ UNCHANGED dataMsg
       ELSE dataMsg' = msg /\ UNCHANGED controlMsg
    /\ UNCHANGED current

\* process_payload_bytes: the message with these bytes at its end.
Extended(msg, got) ==
    [op |-> msg.op, payload |-> msg.payload \o got,
     validator |-> IF msg.op = TEXT THEN Decode(msg.validator, got)
                   ELSE msg.validator]

\* "ensure that text messages end on a valid UTF8 code point": of the frame
\* it is the opcode that is looked at, and the last of several frames is a
\* continuation.
Unfinished(msg) ==
    get_opcode(basic[1]) = TEXT /\ msg.validator # utf8_accept

Payload ==
    /\ Consuming /\ state = "APPLICATION"
    /\ LET n == Smaller(needed, avail - pos)
           msg == Extended(Message, Bytes(n))
       IN  /\ SetMessage(msg)
           /\ IF msg.validator = utf8_reject
              THEN Fail /\ UNCHANGED <<pos, headerVars, taken>>
              ELSE /\ pos' = pos + n
                   /\ IF n < needed
                      THEN needed' = needed - n
                           /\ UNCHANGED <<state, basic, extended,
                                          connectionVars, taken>>
                      ELSE IF ~get_fin(basic[1])
                      THEN ResetHeaders /\ taken' = taken + 1
                           /\ UNCHANGED connectionVars
                      ELSE IF Unfinished(msg)
                      THEN Fail /\ needed' = 0
                           /\ UNCHANGED <<state, basic, extended, taken>>
                      ELSE state' = "READY" /\ needed' = 0
                           /\ UNCHANGED <<basic, extended, connectionVars,
                                          taken>>
    /\ UNCHANGED <<networkVars, dispatched>>

\* Mutant of Dispatch: the message that is read is the last one begun.
DispatchDropsData ==
    /\ handler = "frames" /\ state = "READY"
    /\ dispatched' = IF session = "open"
                     THEN Append(dispatched, [op |-> Message.op,
                                              payload |-> Message.payload])
                     ELSE dispatched
    /\ session' = IF Message.op = CLOSE THEN "closing" ELSE session
    /\ controlMsg' = None /\ dataMsg' = None
    /\ ResetHeaders /\ taken' = taken + 1
    /\ UNCHANGED <<networkVars, pos, handler, fault, current>>

\* get_message, and what handle_read_frame and process_control_frame do with
\* it: only a Close is looked at unless the connection is open, and it makes
\* the connection close.
Dispatch ==
    /\ handler = "frames" /\ state = "READY"
    /\ dispatched' = IF session = "open"
                     THEN Append(dispatched, [op |-> Message.op,
                                              payload |-> Message.payload])
                     ELSE dispatched
    /\ session' = IF Message.op = CLOSE THEN "closing" ELSE session
    /\ SetMessage(None)
    /\ ResetHeaders /\ taken' = taken + 1
    /\ UNCHANGED <<networkVars, pos, handler, fault>>

\* All bytes are used: read_frame.
ReadFrame ==
    /\ handler = "frames" /\ state # "READY" /\ ~Consuming
    /\ handler' = "idle"
    /\ UNCHANGED <<networkVars, pos, session, fault, headerVars, messageVars,
                   historyVars>>

\* async_read_at_least(1, m_buf, ReadSize) completes.
Arrives(n) ==
    /\ handler = "idle" /\ n \in 1..ReadSize
    /\ avail + n <= Len(stream.bytes)
    /\ avail' = avail + n

Receive ==
    /\ session \in {"open", "closing"}
    /\ \E n \in 1..ReadSize : Arrives(n)
    /\ handler' = "frames"
    /\ UNCHANGED <<stream, pos, session, fault, headerVars, messageVars,
                   historyVars>>

\* close() of the page, on the io thread.
LocalClose ==
    /\ handler \in {"idle", "stopped"} /\ session = "open"
    /\ session' = "closing"
    /\ UNCHANGED <<networkVars, pos, handler, fault, headerVars, messageVars,
                   historyVars>>

\* terminate(): the peer or the network ends the connection, a write fails, or
\* a timer expires.  The shutdown leaves no read.
Terminate ==
    /\ handler \in {"idle", "stopped"} /\ session # "closed"
    /\ session' = "closed" /\ handler' = "stopped"
    /\ UNCHANGED <<networkVars, pos, fault, headerVars, messageVars, historyVars>>

Reading ==
    BasicHeader \/ ExtendedHeader \/ Payload \/ Dispatch \/ ReadFrame \/ Receive

Next == Reading \/ LocalClose \/ Terminate

Spec == Init /\ [][Next]_vars

(***************************************************************************)
(* What must hold                                                          *)
(***************************************************************************)
IsMessage(msg) == msg.op \in 0..15 /\ msg.payload \in Seq(Byte)

\* Types of the variables; stream is one of Streams throughout.
TypeOK ==
    /\ pos \in Nat /\ avail \in Nat
    /\ pos <= avail /\ avail <= Len(stream.bytes)
    /\ handler \in {"idle", "response", "frames", "stopped"}
    /\ session \in {"connecting", "open", "closing", "closed"}
    /\ fault \in {"none", "response", "frame"}
    /\ state \in {"HEADER_BASIC", "HEADER_EXTENDED", "APPLICATION", "READY"}
    /\ needed \in Nat
    /\ basic \in Seq(Byte) /\ extended \in Seq(Byte)
    /\ dataMsg = None \/ IsMessage(dataMsg)
    /\ controlMsg = None \/ IsMessage(controlMsg)
    /\ current \in {"none", "data", "control"}
    /\ taken \in Nat
    /\ dispatched \in Seq([op : 0..15, payload : Seq(Byte)])

\* The processor takes for a header what the server sent as one, wherever the
\* network cut: the bytes in m_basic_header and m_extended_header are those of
\* the frame it is at, and what it waits for ends where that frame does.
InSync ==
    handler \in {"idle", "frames"} /\ session # "connecting" =>
      LET at == stream.at[taken + 1]
          bytes == stream.bytes
      IN  /\ taken < Len(stream.at)
          /\ Len(basic) > 0 => taken + 1 < Len(stream.at)
          /\ basic = SubSeq(bytes, at + 1, at + Len(basic))
          /\ state = "HEADER_BASIC" =>
               /\ Len(basic) \in 0..1 /\ needed = 2 - Len(basic)
               /\ pos = at + Len(basic)
          /\ state # "HEADER_BASIC" => Len(basic) = 2
          /\ state = "HEADER_EXTENDED" =>
               /\ pos = at + 2 + Len(extended)
               /\ pos + needed = HeaderEnd(bytes, at)
               /\ extended = SubSeq(bytes, at + 3, pos)
          /\ state \in {"APPLICATION", "READY"} =>
               pos + needed = stream.at[taken + 2]
          /\ state = "READY" => needed = 0

\* Before the connection waits for more bytes it has handed on every frame that
\* is there in full, one without payload at the end of a read included: only
\* the server's next byte could wake it.
Prompt ==
    handler = "idle" /\ session # "connecting" /\ taken + 1 < Len(stream.at) =>
      avail < stream.at[taken + 2]

\* No frame gives a size so near to 2^64 that the sum of the check wraps.
NoWrap ==
    \A s \in Streams : \A k \in 1..(Len(s.at) - 1) :
      MaxMessage + SizeAt(s.bytes, s.at[k]) < SizeT

\* A data message is not longer than max_message_size when all of the frame
\* that is being read is counted, however many frames it comes in.  (The sum
\* of the check is one of size_t: see NoWrap.)
MessageFits ==
    dataMsg # None /\ handler # "stopped" =>
      Len(dataMsg.payload)
        + (IF state = "APPLICATION" /\ current = "data" THEN needed ELSE 0)
        <= MaxMessage

\* The validator, which sees a text byte by byte over frames and reads with
\* control frames between them, is in its accepting state when the text so far
\* is UTF-8, and has given up when no text begins like that.
ValidatorAgrees ==
    dataMsg # None /\ handler # "stopped" =>
      (dataMsg.op = TEXT =>
         /\ dataMsg.validator = utf8_accept <=> IsText(dataMsg.payload)
         /\ BeginsText(dataMsg.payload))
===============================================================================
