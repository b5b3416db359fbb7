----------------------------- MODULE FrameStream ------------------------------
(***************************************************************************)
(* What reading a WebSocket connection promises, with no bytes and no      *)
(* reads: the frames that the server sent are taken one at a time, in      *)
(* their order; a data message is what its frames hold, whatever control   *)
(* frames come between them; and the connection fails at a frame when that *)
(* frame is wrong, never because of how the network delivered it.          *)
(***************************************************************************)
EXTENDS Frame, Utf8

CONSTANTS
    Streams,    \* what a server may send: its response and frames
    MaxMessage, \* max_message_size
    MaxHeader,  \* max_header_size
    None        \* no message begun

VARIABLES
    stream,      \* what the server of this connection sends
    session,     \* the state of the connection
    fault,       \* the error it was given up for
    reading,     \* whether it reads on
    taken,       \* how many frames were taken
    message,     \* the data message that was begun, None between two
    dispatched   \* the messages handed on

vars == <<stream, session, fault, reading, taken, message, dispatched>>

Init ==
    /\ stream \in Streams /\ session = "connecting" /\ fault = "none"
    /\ reading = TRUE
    /\ taken = 0 /\ message = None /\ dispatched = <<>>

Stop == reading' = FALSE /\ message' = None

Accept ==
    /\ session = "connecting"
    /\ stream.accepts /\ stream.at[1] <= MaxHeader
    /\ session' = "open"
    /\ UNCHANGED <<stream, fault, reading, taken, message, dispatched>>

\* Frames that come with the header may count as part of it.
Refuse ==
    /\ session = "connecting"
    /\ ~stream.accepts \/ Len(stream.bytes) > MaxHeader
    /\ session' = "closed" /\ fault' = "response" /\ Stop
    /\ UNCHANGED <<stream, taken, dispatched>>

(***************************************************************************)
(* Frames                                                                  *)
(***************************************************************************)
Taking == session # "connecting" /\ reading /\ taken < Len(stream.frames)
Frame == stream.frames[taken + 1]

\* The message with the payload of the frame
Grown ==
    IF message = None THEN [op |-> Frame.op, payload |-> Frame.payload]
    ELSE [message EXCEPT !.payload = @ \o Frame.payload]

WrongControl == ~Frame.fin \/ Len(Frame.payload) > BasicLimit

\* A text must be UTF-8 as far as it goes.  That it ends with a whole code
\* point is promised of a message of one frame.
WrongText ==
    \/ ~BeginsText(Grown.payload)
    \/ Frame.fin /\ message = None /\ ~IsText(Grown.payload)

WrongData ==
    \/ (message = None) # (Frame.op # CONTINUATION)
    \/ Len(Grown.payload) > MaxMessage
    \/ Grown.op = TEXT /\ WrongText

Wrong ==
    \/ Frame.rsv # 0 \/ reserved(Frame.op) \/ Frame.masked \/ Frame.badSize
    \/ is_control(Frame.op) /\ WrongControl
    \/ ~is_control(Frame.op) /\ WrongData

FailAt ==
    /\ Taking /\ Wrong
    /\ session' = IF session = "open" THEN "closing" ELSE "closed"
    /\ fault' = "frame" /\ Stop
    /\ UNCHANGED <<stream, taken, dispatched>>

HandOn(msg) ==
    dispatched' = IF session = "open" THEN Append(dispatched, msg)
                  ELSE dispatched

TakeControl ==
    /\ Taking /\ ~Wrong /\ is_control(Frame.op)
    /\ HandOn([op |-> Frame.op, payload |-> Frame.payload])
    /\ session' = IF Frame.op = CLOSE THEN "closing" ELSE session
    /\ taken' = taken + 1
    /\ UNCHANGED <<stream, fault, reading, message>>

TakeData ==
    /\ Taking /\ ~Wrong /\ ~is_control(Frame.op)
    /\ IF Frame.fin
       THEN HandOn(Grown) /\ message' = None
       ELSE message' = Grown /\ UNCHANGED dispatched
    /\ taken' = taken + 1
    /\ UNCHANGED <<stream, session, fault, reading>>

(***************************************************************************)
(* The page and the network                                                *)
(***************************************************************************)
LocalClose ==
    /\ session = "open" /\ session' = "closing"
    /\ UNCHANGED <<stream, fault, reading, taken, message, dispatched>>

Terminate ==
    /\ session # "closed" /\ session' = "closed" /\ Stop
    /\ UNCHANGED <<stream, fault, taken, dispatched>>

Next ==
    \/ Accept \/ Refuse \/ FailAt \/ TakeControl \/ TakeData
    \/ LocalClose \/ Terminate

Spec == Init /\ [][Next]_vars
===============================================================================
