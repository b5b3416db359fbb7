------------------------------- MODULE ReadPath -------------------------------
(***************************************************************************)
(* All that a WebSocket client reads: the response to its handshake, by    *)
(* handle_read_http_response over http::parser::response::consume, then    *)
(* frames (Hybi13), both out of one stream of bytes that the network cuts  *)
(* as it likes.  What a read holds beyond the response is handed to        *)
(* handle_read_frame.                                                      *)
(*                                                                         *)
(* A line of the response is one byte that says which line it is; the CR   *)
(* and the LF after it are two.  One action is one line.                   *)
(***************************************************************************)
EXTENDS Hybi13

CONSTANTS
    MaxHeader   \* max_header_size: 16000

CR == 13
LF == 10

\* Lines of a response
Status101 == 49    \* HTTP/1.1 101 Switching Protocols
StatusOther == 50  \* another status
Upgrade == 85      \* Upgrade, Connection and Sec-WebSocket-Accept as expected
Field == 70        \* another header
NoLine == 63       \* no status line; a header without a colon
Length == 100      \* Content-Length: 0; the bytes after it: of 1, 2...
NoNumber == 10     \* Length + NoNumber is a Content-Length that is no number
Lengths == Length..(Length + NoNumber)
Lines == {Status101, StatusOther, Upgrade, Field, NoLine} \cup Lengths

\* n lines and a blank one.  A response that announces a body is no handshake:
\* consume would take frames for it.
IsResponse(bytes, end, n) ==
    /\ end = 3 * n + 2 /\ end <= Len(bytes)
    /\ bytes[end - 1] = CR /\ bytes[end] = LF
    /\ \A k \in 1..n :
         /\ bytes[3 * k - 2] \in Lines \ (Length + 1)..(Length + 9)
         /\ bytes[3 * k - 1] = CR /\ bytes[3 * k] = LF

ASSUME ResponseAssumption ==
    /\ MaxHeader \in Nat
    /\ None \notin Lines \cup 0..NoNumber
    /\ \A s \in Streams :
         \E n \in 0..Len(s.bytes) : IsResponse(s.bytes, s.at[1], n)

\* What the bytes mean, for FrameStream: the frame behind the first at bytes
FrameAt(bytes, at) ==
    LET end == HeaderEnd(bytes, at) IN
    [fin |-> get_fin(bytes[at + 1]), rsv |-> get_rsv(bytes[at + 1]),
     op |-> get_opcode(bytes[at + 1]), masked |-> get_masked(bytes[at + 2]),
     badSize |-> BadSize(bytes[at + 2], SizeAt(bytes, at)),
     payload |-> SubSeq(bytes, end + 1, end + SizeAt(bytes, at))]

\* A response of n lines accepts the handshake: status 101, and what the
\* handshake asks for is given once; the first Content-Length, if there is one,
\* is a number.
IsAcceptance(bytes, n) ==
    /\ n > 0 /\ bytes[1] = Status101
    /\ \A k \in 1..n : bytes[3 * k - 2] # NoLine
    /\ \E k \in 2..n : \A j \in 2..n : bytes[3 * j - 2] = Upgrade <=> j = k
    /\ \A k \in 2..n : bytes[3 * k - 2] = Length + NoNumber =>
         \E j \in 2..(k - 1) : bytes[3 * j - 2] = Length

ASSUME MeaningAssumption ==
    \A s \in Streams :
      /\ s.frames = [k \in 1..(Len(s.at) - 1) |-> FrameAt(s.bytes, s.at[k])]
      /\ \A n \in 0..Len(s.bytes) :
           IsResponse(s.bytes, s.at[1], n) =>
             (s.accepts <=> IsAcceptance(s.bytes, n))

\* A null pointer is no message.
ASSUME NoneAssumption ==
    /\ None \notin [op : 0..15, payload : Seq(Byte)]
    /\ None \notin [op : 0..15, payload : Seq(Byte), validator : 0..8]

VARIABLES
    hstate,   \* m_state of the response
    mRead,    \* m_read: header bytes read before, then body bytes to come
    buf,      \* m_buf of the response from where the next line begins
    status,   \* m_status_code
    upgrades, \* how often the headers the handshake asks for were given
    length    \* the first Content-Length, which decides; None without one

responseVars == <<hstate, mRead, buf, status, upgrades, length>>
allVars == <<vars, responseVars>>

PathInit ==
    /\ stream \in Streams
    /\ pos = 0 /\ avail = 0
    /\ handler = "idle" /\ session = "connecting"
    /\ NewProcessor
    /\ hstate = "RESPONSE_LINE" /\ mRead = 0 /\ buf = <<>>
    /\ status = None /\ upgrades = 0 /\ length = None

frameVars == <<headerVars, messageVars, historyVars>>

\* An exception of consume, or a response that is no acceptance: terminate().
Refuse == session' = "closed" /\ handler' = "stopped" /\ fault' = "response"

\* handle_read_http_response, up to the loop of response::consume.
ReadResponse ==
    /\ session = "connecting"
    /\ \E n \in 1..ReadSize : Arrives(n)
    /\ IF mRead + avail' - pos > MaxHeader
       THEN Refuse /\ UNCHANGED buf
       ELSE /\ buf' = buf \o SubSeq(stream.bytes, pos + 1, avail')
            /\ handler' = "response" /\ UNCHANGED <<session, fault>>
    /\ UNCHANGED <<stream, pos, frameVars, hstate, mRead, status, upgrades,
                   length>>

\* Where the first delimiter of buf begins.
Delimiters == {i \in 1..(Len(buf) - 1) : buf[i] = CR /\ buf[i + 1] = LF}
Delimiter == CHOOSE i \in Delimiters : \A j \in Delimiters : i <= j
After(i) == SubSeq(buf, i + 2, Len(buf))

\* No line is complete: another read.
OutOfBytes ==
    /\ handler = "response" /\ Delimiters = {}
    /\ mRead' = mRead + avail - pos /\ pos' = avail
    /\ handler' = "idle"
    /\ UNCHANGED <<networkVars, session, fault, frameVars, hstate, buf,
                   status, upgrades, length>>

\* process and process_header throw.
BadLine(line) ==
    \/ line = NoLine
    \/ hstate = "RESPONSE_LINE" /\ line \notin {Status101, StatusOther}

\* process and process_header
ParseLine ==
    /\ handler = "response" /\ Delimiters # {} /\ Delimiter > 1
    /\ LET line == buf[1] IN
       IF BadLine(line)
       THEN Refuse /\ UNCHANGED <<hstate, buf, status, upgrades, length>>
       ELSE /\ IF hstate = "RESPONSE_LINE"
               THEN status' = line /\ UNCHANGED <<upgrades, length>>
               ELSE /\ upgrades' = IF line = Upgrade THEN upgrades + 1
                                   ELSE upgrades
                    /\ length' = IF length = None /\ line \in Lengths
                                 THEN line - Length ELSE length
                    /\ UNCHANGED status
            /\ hstate' = "HEADERS" /\ buf' = After(Delimiter)
            /\ UNCHANGED connectionVars
    /\ UNCHANGED <<networkVars, pos, frameVars, mRead>>

\* validate_server_handshake_response
Accepted == status = Status101 /\ upgrades = 1

\* process_body takes the bytes of the body that are there, and DONE follows
\* unless the body goes on.
BodyTaken(left) == IF length = None THEN 0 ELSE Smaller(length, left)

Open ==
    IF Accepted THEN session' = "open" /\ handler' = "frames" /\ UNCHANGED fault
    ELSE Refuse

\* Mutant of HeaderComplete: the rest of m_buf is dropped.
HeaderCompleteDrops ==
    /\ handler = "response" /\ Delimiters # {} /\ Delimiter = 1
    /\ IF hstate = "RESPONSE_LINE"
       THEN Refuse /\ UNCHANGED <<pos, hstate, mRead, buf>>
       ELSE IF length = NoNumber
       THEN Refuse /\ mRead' = 0 /\ UNCHANGED <<pos, hstate, buf>>
       ELSE Open /\ pos' = avail /\ hstate' = "DONE" /\ mRead' = 0 /\ buf' = <<>>
    /\ UNCHANGED <<networkVars, frameVars, status, upgrades, length>>

\* The blank line: the rest of handle_read_http_response, and its call of
\* handle_read_frame with the bytes that are left.
HeaderComplete ==
    /\ handler = "response" /\ Delimiters # {} /\ Delimiter = 1
    /\ IF hstate = "RESPONSE_LINE"
       THEN Refuse /\ UNCHANGED <<pos, hstate, mRead, buf>>
       ELSE IF length = NoNumber
       THEN Refuse /\ mRead' = 0 /\ UNCHANGED <<pos, hstate, buf>>
       ELSE LET left == Len(buf) - 2 IN
            /\ pos' = avail - left + BodyTaken(left)
            /\ mRead' = IF length = None THEN 0 ELSE length - BodyTaken(left)
            /\ hstate' = IF left > 0 /\ mRead' = 0 THEN "DONE" ELSE "BODY"
            /\ buf' = <<>> /\ Open
    /\ UNCHANGED <<networkVars, frameVars, status, upgrades, length>>

Handshake == ReadResponse \/ OutOfBytes \/ ParseLine \/ HeaderComplete

PathNext ==
    \/ Handshake
    \/ Next /\ UNCHANGED responseVars

PathSpec == PathInit /\ [][PathNext]_allVars

(***************************************************************************)
(* What must hold                                                          *)
(***************************************************************************)
\* Types of the variables.
PathTypeOK ==
    /\ TypeOK
    /\ hstate \in {"RESPONSE_LINE", "HEADERS", "BODY", "DONE"}
    /\ mRead \in Nat /\ buf \in Seq(Byte)
    /\ status \in Lines \cup {None} /\ upgrades \in Nat
    /\ length \in 0..NoNumber \cup {None}

\* The data message without what was read of the frame that is being read.
WholeFrames ==
    LET read == IF state \in {"APPLICATION", "READY"} /\ current = "data"
                THEN SizeAt(stream.bytes, stream.at[taken + 1]) - needed
                ELSE 0
        begun == state \in {"APPLICATION", "READY"} /\ current = "data"
                   /\ get_opcode(basic[1]) # CONTINUATION
    IN  IF handler = "stopped" \/ dataMsg = None \/ begun THEN None
        ELSE [op |-> dataMsg.op,
              payload |-> SubSeq(dataMsg.payload, 1,
                                 Len(dataMsg.payload) - read)]

\* However the network cuts the response and the frames into reads, what is
\* accepted, handed on and refused is what it is frame by frame.
FrameByFrame == INSTANCE FrameStream WITH
    reading <- handler # "stopped", message <- WholeFrames

DeliveredFrameByFrame == FrameByFrame!Spec
===============================================================================
