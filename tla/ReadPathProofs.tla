---------------------------- MODULE ReadPathProofs ----------------------------
(***************************************************************************)
(* Proofs about the read path, from the inside out: about reading frames   *)
(* (Hybi13), for every stream of well-formed frames, every way to cut it   *)
(* and every limit; that the response to the handshake hands the bytes     *)
(* behind it, all of them and no others, to the reader of frames           *)
(* (ReadPath), so that this holds from the first byte of the connection    *)
(* on; and last that what the page gets to see of all this is what         *)
(* FrameStream says, frame by frame.                                       *)
(***************************************************************************)
EXTENDS ReadPath, BytesProofs

(***************************************************************************)
(* Bytes and sizes                                                         *)
(***************************************************************************)
\* Two neighbouring parts of a sequence are one.
LEMMA Glue ==
    ASSUME NEW S, NEW b \in Seq(S), NEW a \in Nat, NEW p \in Nat, NEW q \in Nat,
           a <= p, p <= q, q <= Len(b)
    PROVE  /\ SubSeq(b, a + 1, p) \o SubSeq(b, p + 1, q) = SubSeq(b, a + 1, q)
           /\ SubSeq(b, a + 1, p) \in Seq(S)
           /\ Len(SubSeq(b, a + 1, p)) = p - a
OBVIOUS

\* The first of the two parts alone.
LEMMA GlueLeft ==
    ASSUME NEW S, NEW b \in Seq(S), NEW a \in Nat, NEW p \in Nat,
           a <= p, p <= Len(b)
    PROVE  /\ SubSeq(b, a + 1, p) \in Seq(S)
           /\ Len(SubSeq(b, a + 1, p)) = p - a
BY p <= p, Glue

\* A part of a sequence holds its elements.
LEMMA PartAt ==
    ASSUME NEW S, NEW b \in Seq(S), NEW a \in Nat, NEW p \in Nat,
           a <= p, p <= Len(b), NEW i \in 1..(p - a)
    PROVE  SubSeq(b, a + 1, p)[i] = b[a + i] /\ b[a + i] \in S
OBVIOUS

\* The fields of the basic header are in their ranges.
LEMMA FieldTypes ==
    ASSUME NEW b \in Byte
    PROVE  /\ get_opcode(b) \in 0..15
           /\ get_basic_size(b) \in 0..127
           /\ extended_length(b) \in Nat
BY DEF Byte, get_opcode, get_basic_size, extended_length

\* The limits are numbers in their order.
LEMMA Limits ==
    /\ BasicLimit \in Nat /\ ExtendedLimit \in Nat
    /\ Code16 \in Nat /\ Code16 = BasicLimit + 1
    /\ Code64 \in Nat /\ Code64 = BasicLimit + 2 /\ Code64 < 128
BY FrameAssumption DEF FrameAssumption

\* One more byte of a number
LEMMA Horner ==
    ASSUME NEW m \in Nat, NEW n \in Nat
    PROVE  256 * m + n \in Nat
OBVIOUS

\* The size that a header holds is a number.
LEMMA SizeNat ==
    \A b1, e :
      /\ b1 \in Byte /\ get_basic_size(b1) <= Code64
      /\ e \in Seq(Byte) /\ Len(e) = extended_length(b1)
      => get_payload_size(b1, e) \in Nat
<1>0. SUFFICES ASSUME NEW b1, NEW e,
                      b1 \in Byte, get_basic_size(b1) <= Code64,
                      e \in Seq(Byte), Len(e) = extended_length(b1)
               PROVE  get_payload_size(b1, e) \in Nat
  OBVIOUS
<1>1. get_basic_size(b1) \in 0..127
  BY <1>0, FieldTypes
<1>2. \A i \in 1..Len(e) : e[i] \in Nat
  <2>1. \A i \in 1..Len(e) : e[i] \in Byte
    BY <1>0, ElementOfSeq
  <2>2. \A n \in Byte : n \in Nat
    BY DEF Byte
  <2> QED BY <2>1, <2>2, Zenon
<1>3. CASE get_basic_size(b1) <= BasicLimit
  <2>1. get_basic_size(b1) # Code16
    BY <1>1, <1>3, Limits
  <2>2. get_payload_size(b1, e) = get_basic_size(b1)
    BY <1>3, <2>1 DEF get_payload_size
  <2> QED BY <1>1, <2>2
<1>4. CASE get_basic_size(b1) = Code16
  <2>1. Len(e) = 2
    BY <1>0, <1>4, Limits DEF extended_length
  <2>2. e[1] \in Nat /\ e[2] \in Nat
    BY <1>2, <2>1
  <2>3. get_extended_size(e) \in Nat
    BY <2>2 DEF get_extended_size
  <2> QED BY <1>1, <1>4, <2>3, Limits DEF get_payload_size
<1>5. CASE get_basic_size(b1) = Code64
  <2>1. Len(e) = 8
    BY <1>0, <1>5, Limits DEF extended_length
  <2>2. /\ e[1] \in Nat /\ e[2] \in Nat /\ e[3] \in Nat /\ e[4] \in Nat
        /\ e[5] \in Nat /\ e[6] \in Nat /\ e[7] \in Nat /\ e[8] \in Nat
    BY <1>2, <2>1
  <2>3. get_jumbo_size(e) \in Nat
    <3>1. 256 * e[1] + e[2] \in Nat
      BY <2>2, Horner
    <3>2. 256 * (256 * e[1] + e[2]) + e[3] \in Nat
      BY <2>2, <3>1, Horner
    <3>3. 256 * (256 * (256 * e[1] + e[2]) + e[3]) + e[4] \in Nat
      BY <2>2, <3>2, Horner
    <3>4. 256 * (256 * (256 * (256 * e[1] + e[2]) + e[3]) + e[4]) + e[5] \in Nat
      BY <2>2, <3>3, Horner
    <3>5. 256 * (256 * (256 * (256 * (256 * e[1] + e[2]) + e[3]) + e[4]) + e[5])
            + e[6] \in Nat
      BY <2>2, <3>4, Horner
    <3>6. 256 * (256 * (256 * (256 * (256 * (256 * e[1] + e[2]) + e[3]) + e[4])
            + e[5]) + e[6]) + e[7] \in Nat
      BY <2>2, <3>5, Horner
    <3> QED BY <2>2, <3>6, Horner DEF get_jumbo_size
  <2>4. get_basic_size(b1) # Code16 /\ ~(get_basic_size(b1) <= BasicLimit)
    BY <1>1, <1>5, Limits
  <2>5. get_payload_size(b1, e) = get_jumbo_size(e)
    BY <2>4 DEF get_payload_size
  <2> QED BY <2>3, <2>5
<1>6. \/ get_basic_size(b1) <= BasicLimit \/ get_basic_size(b1) = Code16
      \/ get_basic_size(b1) = Code64
  <2>1. get_basic_size(b1) <= Code64
    BY <1>0, Zenon
  <2> QED BY <1>1, <2>1, Limits
<1> QED BY <1>3, <1>4, <1>5, <1>6

\* What is known of a frame of a stream.
LEMMA FrameFacts ==
    ASSUME NEW s \in Streams, NEW k \in 1..(Len(s.at) - 1)
    PROVE  /\ s.at[k] \in Nat /\ s.at[k + 1] \in Nat
           /\ s.at[k] + 2 <= Len(s.bytes)
           /\ s.bytes[s.at[k] + 1] \in Byte /\ s.bytes[s.at[k] + 2] \in Byte
           /\ HeaderEnd(s.bytes, s.at[k]) \in Nat
           /\ HeaderEnd(s.bytes, s.at[k])
                = s.at[k] + 2 + extended_length(s.bytes[s.at[k] + 2])
           /\ HeaderEnd(s.bytes, s.at[k]) >= s.at[k] + 2
           /\ HeaderEnd(s.bytes, s.at[k]) <= Len(s.bytes)
           /\ SizeAt(s.bytes, s.at[k]) \in Nat
           /\ s.at[k + 1]
                = HeaderEnd(s.bytes, s.at[k]) + SizeAt(s.bytes, s.at[k])
           /\ s.at[k + 1] <= Len(s.bytes)
<1> DEFINE b == s.bytes
           o == s.at[k]
           h == HeaderEnd(b, o)
<1>1. WellFramed(s)
  BY StreamAssumption
<1>2. b \in Seq(Byte) /\ s.at \in Seq(Nat) /\ k \in 1..Len(s.at)
      /\ k + 1 \in 1..Len(s.at)
  BY <1>1 DEF WellFramed
<1>a. Len(b) \in Nat /\ DOMAIN b = 1..Len(b)
  BY <1>2, LenProperties
<1>3. /\ o + 2 <= Len(b) /\ get_basic_size(b[o + 2]) <= Code64
      /\ h <= Len(b) /\ s.at[k + 1] = h + SizeAt(b, o) /\ s.at[k + 1] <= Len(b)
  BY <1>1 DEF WellFramed
<1>4. o \in Nat /\ s.at[k + 1] \in Nat
  BY <1>2
<1>5. b[o + 1] \in Byte /\ b[o + 2] \in Byte
  <2>1. o + 1 \in DOMAIN b /\ o + 2 \in DOMAIN b
    BY <1>a, <1>3, <1>4
  <2> QED BY <1>2, <2>1, ElementOfSeq
<1>6. extended_length(b[o + 2]) \in Nat
  BY <1>5, FieldTypes
<1>7. h = o + 2 + extended_length(b[o + 2]) /\ h \in Nat /\ h >= o + 2
  BY <1>4, <1>6 DEF HeaderEnd
<1>8. /\ SubSeq(b, o + 3, h) \in Seq(Byte)
      /\ Len(SubSeq(b, o + 3, h)) = extended_length(b[o + 2])
  <2>1. (o + 2) + 1 = o + 3 /\ o + 2 \in Nat
    BY <1>4
  <2>2. /\ SubSeq(b, (o + 2) + 1, h) \in Seq(Byte)
        /\ Len(SubSeq(b, (o + 2) + 1, h)) = h - (o + 2)
    <3>1. o + 2 <= h /\ h <= Len(b) /\ h <= h
      BY <1>3, <1>7
    <3> HIDE DEF b, o, h
    <3>2. b \in Seq(Byte) /\ o + 2 \in Nat /\ h \in Nat
      BY <1>2, <1>7, <2>1
    <3> QED BY <3>1, <3>2, GlueLeft
  <2>3. h - (o + 2) = extended_length(b[o + 2])
    BY <1>4, <1>6, <1>7
  <2> HIDE DEF b, o, h
  <2> QED BY <2>1, <2>2, <2>3
<1>9. SizeAt(b, o) \in Nat
  BY <1>3, <1>5, <1>8, SizeNat DEF SizeAt
<1> QED BY <1>3, <1>4, <1>5, <1>7, <1>9

(***************************************************************************)
(* The inductive invariant                                                 *)
(***************************************************************************)
\* The processor is as new until the response was accepted.
Untouched == session = "connecting" => handler # "frames" /\ NewProcessor

\* m_current_msg points to a message while its payload is read.
CurrentOK ==
    handler \in {"idle", "frames"} /\ state \in {"APPLICATION", "READY"} =>
      current \in {"data", "control"} /\ IsMessage(Message)

\* A read is armed only when there is nothing to be done without it.
Waiting ==
    handler = "idle" /\ session # "connecting" =>
      pos = avail /\ state # "READY" /\ needed # 0

IInv ==
    /\ TypeOK /\ stream \in Streams
    /\ InSync /\ Untouched /\ CurrentOK /\ Waiting

\* What an iteration of the loop takes out of m_buf.
LEMMA Chunk ==
    ASSUME IInv
    PROVE  LET n == Smaller(needed, avail - pos)
           IN  /\ n \in Nat /\ n <= needed /\ pos + n <= avail
               /\ avail <= Len(stream.bytes)
               /\ n < needed => n = avail - pos
               /\ Bytes(n) \in Seq(Byte) /\ Len(Bytes(n)) = n
<1> DEFINE n == Smaller(needed, avail - pos)
<1>1. /\ pos \in Nat /\ avail \in Nat /\ needed \in Nat
      /\ pos <= avail /\ avail <= Len(stream.bytes)
  BY DEF IInv, TypeOK
<1>2. /\ n \in Nat /\ n <= needed /\ pos + n <= avail
      /\ n < needed => n = avail - pos
  BY <1>1 DEF Smaller
<1>3. stream.bytes \in Seq(Byte)
  BY StreamAssumption DEF IInv, WellFramed
<1>4. Bytes(n) \in Seq(Byte) /\ Len(Bytes(n)) = n
  <2>1. pos + n \in Nat /\ pos <= pos + n /\ pos + n <= Len(stream.bytes)
    BY <1>1, <1>2
  <2>2. (pos + n) - pos = n
    BY <1>1, <1>2
  <2> HIDE DEF n
  <2> QED BY <1>1, <1>3, <2>1, <2>2, Glue DEF Bytes
<1> QED BY <1>1, <1>2, <1>4

\* Where there are bytes to come there is a frame.
LEMMA FrameThere ==
    ASSUME IInv, handler = "frames", session # "connecting",
           pos < avail \/ state # "HEADER_BASIC"
    PROVE  taken + 1 \in 1..(Len(stream.at) - 1)
<1>1. /\ pos \in Nat /\ avail \in Nat /\ taken \in Nat
      /\ pos <= avail /\ avail <= Len(stream.bytes)
      /\ state \in {"HEADER_BASIC", "HEADER_EXTENDED", "APPLICATION", "READY"}
  BY DEF IInv, TypeOK
<1>2. /\ taken < Len(stream.at)
      /\ Len(basic) > 0 => taken + 1 < Len(stream.at)
      /\ state = "HEADER_BASIC" => pos = stream.at[taken + 1] + Len(basic)
      /\ state # "HEADER_BASIC" => Len(basic) = 2
  BY DEF IInv, InSync
<1>3. /\ stream.at \in Seq(Nat) /\ stream.bytes \in Seq(Byte)
      /\ stream.at[Len(stream.at)] = Len(stream.bytes)
  BY StreamAssumption DEF IInv, WellFramed
<1>4. Len(stream.at) \in Nat /\ Len(stream.bytes) \in Nat
  BY <1>3
<1>5. CASE Len(basic) > 0
  BY <1>1, <1>2, <1>4, <1>5
<1>6. CASE ~(Len(basic) > 0)
  <2>1. basic \in Seq(Byte)
    BY DEF IInv, TypeOK
  <2>2. Len(basic) = 0
    BY <1>6, <2>1
  <2>3. state = "HEADER_BASIC" /\ pos < avail
    BY <1>2, <2>2
  <2>4. stream.at[taken + 1] < Len(stream.bytes)
    <3>1. stream.at[taken + 1] \in Nat
      BY <1>1, <1>2, <1>3
    <3>2. pos = stream.at[taken + 1] + 0
      BY <1>2, <2>2, <2>3
    <3> QED BY <1>1, <1>4, <2>3, <3>1, <3>2
  <2>5. taken + 1 # Len(stream.at)
    BY <1>3, <1>4, <2>4
  <2> QED BY <1>1, <1>2, <1>4, <2>5
<1> QED BY <1>5, <1>6

\* The basic header: after it the extended header begins, or the read stops.
LEMMA BasicHeaderStep == IInv /\ BasicHeader => IInv'
<1> SUFFICES ASSUME IInv, BasicHeader PROVE IInv'
  OBVIOUS
<1> DEFINE n == Smaller(needed, avail - pos)
           header == basic \o Bytes(n)
           b == stream.bytes
           o == stream.at[taken + 1]
<1>1. /\ handler = "frames" /\ state = "HEADER_BASIC"
      /\ pos < avail \/ needed = 0
      /\ pos' = pos + n /\ basic' = header
      /\ UNCHANGED <<networkVars, messageVars, historyVars>>
  BY DEF BasicHeader, Consuming
<1>2. \/ /\ n < needed /\ needed' = needed - n
         /\ UNCHANGED <<state, extended, connectionVars>>
      \/ /\ ~(n < needed) /\ Fail /\ needed' = 0
         /\ UNCHANGED <<state, extended>>
      \/ /\ ~(n < needed) /\ state' = "HEADER_EXTENDED"
         /\ needed' = extended_length(header[2]) /\ extended' = <<>>
         /\ UNCHANGED connectionVars
  BY DEF BasicHeader
<1>3. /\ TypeOK /\ stream \in Streams /\ InSync /\ Untouched
      /\ session # "connecting"
  BY <1>1 DEF IInv, Untouched
<1>4. /\ pos \in Nat /\ avail \in Nat /\ needed \in Nat /\ taken \in Nat
  BY <1>3 DEF TypeOK
<1>5. basic \in Seq(Byte)
  BY <1>3 DEF TypeOK
<1>6. /\ n \in Nat /\ n <= needed /\ pos + n <= avail
      /\ n < needed => n = avail - pos
  BY Chunk
<1>7. avail <= Len(b)
  BY Chunk
<1>8. Bytes(n) \in Seq(Byte) /\ Len(Bytes(n)) = n
  BY Chunk
<1> HIDE DEF n, header, b, o
<1>9. PICK l \in 0..1 : /\ Len(basic) = l /\ needed = 2 - l /\ pos = o + l
                        /\ basic = SubSeq(b, o + 1, o + l)
  BY <1>1, <1>3 DEF InSync, b, o
<1>10. needed # 0 /\ pos < avail
  BY <1>1, <1>4, <1>9
<1>11. taken + 1 \in 1..(Len(stream.at) - 1)
  BY <1>1, <1>3, <1>10, FrameThere
<1>12. /\ o \in Nat /\ o + 2 <= Len(b) /\ b[o + 2] \in Byte
       /\ HeaderEnd(b, o) = o + 2 + extended_length(b[o + 2])
  BY <1>3, <1>11, FrameFacts DEF b, o
<1>13. b \in Seq(Byte)
  BY <1>3, StreamAssumption DEF WellFramed, b
<1>14. Len(b) \in Nat
  BY <1>13
<1>15. /\ n >= 1 /\ pos + n \in Nat /\ o <= pos /\ pos <= pos + n
       /\ pos + n <= Len(b) /\ o + l = pos /\ pos + n = o + (l + n)
  BY <1>4, <1>6, <1>7, <1>9, <1>10, <1>12, <1>14
<1>16. header \in Seq(Byte) /\ Len(header) = l + n
  BY <1>5, <1>8, <1>9 DEF header
<1>17. header = SubSeq(b, o + 1, pos + n)
  <2>1. basic = SubSeq(b, o + 1, pos)
    BY <1>9, <1>15, Zenon
  <2>2. Bytes(n) = SubSeq(b, pos + 1, pos + n)
    BY DEF Bytes, b
  <2>3. SubSeq(b, o + 1, pos) \o SubSeq(b, pos + 1, pos + n)
          = SubSeq(b, o + 1, pos + n)
    <3>1. PICK q \in Nat : q = pos + n
      BY <1>15
    <3>2. /\ o \in Nat /\ pos \in Nat /\ b \in Seq(Byte)
          /\ o <= pos /\ pos <= q /\ q <= Len(b)
      BY <1>4, <1>12, <1>13, <1>15, <3>1
    <3>3. SubSeq(b, o + 1, pos) \o SubSeq(b, pos + 1, q) = SubSeq(b, o + 1, q)
      BY <3>2, Glue
    <3> QED BY <3>1, <3>3
  <2> QED BY <2>1, <2>2, <2>3, Zenon DEF header
<1>18. pos' \in Nat /\ pos' <= avail /\ pos' = o + (l + n)
  BY <1>1, <1>6, <1>15
<1>19. ~(n < needed) => /\ l + n = 2 /\ header[2] = b[o + 2]
                        /\ header[2] \in Byte
  <2>1. SUFFICES ASSUME ~(n < needed)
                 PROVE  l + n = 2 /\ header[2] = b[o + 2]
    BY <1>12
  <2>2. l + n = 2
    BY <1>4, <1>6, <1>9, <2>1
  <2>3. SubSeq(b, o + 1, pos + n)[2] = b[o + 2]
    <3>1. 2 \in 1..((pos + n) - o)
      BY <1>12, <1>15, <2>2
    <3> QED BY <1>12, <1>13, <1>15, <3>1, PartAt
  <2> QED BY <1>17, <2>2, <2>3
<1>20. basic' = SubSeq(b, o + 1, o + (l + n))
  BY <1>1, <1>15, <1>17
<1>21. taken + 1 < Len(stream.at) /\ taken < Len(stream.at)
  <2>1. Len(stream.at) \in Nat
    BY <1>3, StreamAssumption DEF WellFramed
  <2> QED BY <1>4, <1>11, <2>1
<1>22. /\ stream' = stream /\ avail' = avail /\ taken' = taken
       /\ dataMsg' = dataMsg /\ controlMsg' = controlMsg
       /\ current' = current /\ dispatched' = dispatched
  BY <1>1 DEF networkVars, messageVars, historyVars
<1>23. basic' \in Seq(Byte) /\ Len(basic') = l + n
  BY <1>1, <1>16
<1>24.
       ASSUME handler' \in {"frames", "stopped"},
              session' \in {"open", "closing", "closed"},
              fault' \in {"none", "response", "frame"},
              state' \in {"HEADER_BASIC", "HEADER_EXTENDED"},
              needed' \in Nat, extended' \in Seq(Byte)
       PROVE  TypeOK'
  <2>1. pos' \in Nat /\ avail' \in Nat /\ pos' <= avail'
        /\ avail' <= Len(stream'.bytes)
    BY <1>4, <1>7, <1>18, <1>22 DEF b
  <2>2. /\ dataMsg' = None \/ IsMessage(dataMsg')
        /\ controlMsg' = None \/ IsMessage(controlMsg')
        /\ current' \in {"none", "data", "control"} /\ taken' \in Nat
        /\ dispatched' \in Seq([op : 0..15, payload : Seq(Byte)])
    BY <1>3, <1>22, Zenon DEF TypeOK
  <2> QED BY <1>23, <1>24, <2>1, <2>2, Zenon DEF TypeOK, IsMessage
<1>25. session \in {"open", "closing", "closed"}
       /\ fault \in {"none", "response", "frame"} /\ extended \in Seq(Byte)
  BY <1>3, Zenon DEF TypeOK
<1>26. CASE /\ n < needed /\ needed' = needed - n
            /\ UNCHANGED <<state, extended, connectionVars>>
  <2>1. n = 1 /\ needed = 2 /\ l = 0 /\ l + n = 1 /\ needed' = 1
    BY <1>6, <1>9, <1>15, <1>26
  <2>2. /\ state' = "HEADER_BASIC" /\ handler' = "frames"
        /\ session' = session /\ fault' = fault /\ extended' = extended
    BY <1>1, <1>26 DEF connectionVars
  <2>3. TypeOK'
    BY <1>24, <1>25, <2>1, <2>2
  <2>4. InSync'
    <3>1. Len(basic') = 1 /\ pos' = o + 1 /\ needed' = 2 - 1
      BY <1>18, <1>23, <2>1
    <3>2. basic' = SubSeq(b, o + 1, o + Len(basic'))
      BY <1>20, <1>23, Zenon
    <3> QED BY <1>21, <1>22, <2>2, <3>1, <3>2 DEF InSync, b, o
  <2> QED BY <1>3, <1>22, <2>2, <2>3, <2>4, Zenon
          DEF IInv, Untouched, CurrentOK, Waiting
<1>27. CASE /\ Fail /\ needed' = 0 /\ UNCHANGED <<state, extended>>
  <2>1. handler' = "stopped" /\ session' \in {"closing", "closed"}
        /\ fault' = "frame"
    BY <1>27 DEF Fail
  <2>2. TypeOK'
    BY <1>1, <1>24, <1>25, <1>27, <2>1
  <2> QED BY <1>3, <1>22, <2>1, <2>2
          DEF IInv, InSync, Untouched, CurrentOK, Waiting
<1>28. CASE /\ ~(n < needed) /\ state' = "HEADER_EXTENDED"
            /\ needed' = extended_length(header[2]) /\ extended' = <<>>
            /\ UNCHANGED connectionVars
  <2>1. needed' = extended_length(b[o + 2]) /\ needed' \in Nat
    BY <1>12, <1>19, <1>28, FieldTypes
  <2>2. /\ handler' = "frames" /\ session' = session /\ fault' = fault
    BY <1>1, <1>28 DEF connectionVars
  <2>3. extended' = <<>> /\ extended' \in Seq(Byte) /\ Len(extended') = 0
    BY <1>28
  <2>4. TypeOK'
    BY <1>24, <1>25, <1>28, <2>1, <2>2, <2>3
  <2>5. InSync'
    <3>1. /\ pos' = o + 2 /\ pos' + needed' = HeaderEnd(b, o)
          /\ pos' = o + 2 + Len(extended')
      BY <1>12, <1>18, <1>19, <1>28, <2>1, <2>3
    <3>2. Len(basic') = 2
      BY <1>19, <1>23, <1>28
    <3>3. basic' = SubSeq(b, o + 1, o + Len(basic'))
      BY <1>20, <1>23, Zenon
    <3>4. extended' = SubSeq(b, o + 3, pos')
      <4>1. SubSeq(b, o + 3, o + 2) = <<>>
        BY <1>12, <1>13
      <4> QED BY <2>3, <3>1, <4>1, Zenon
    <3> QED BY <1>21, <1>22, <1>28, <2>2, <3>1, <3>2, <3>3, <3>4
            DEF InSync, b, o
  <2> QED BY <1>3, <1>22, <1>28, <2>2, <2>4, <2>5, Zenon
          DEF IInv, Untouched, CurrentOK, Waiting
<1> QED BY <1>2, <1>26, <1>27, <1>28

\* A message with one more payload part is a message.
LEMMA ExtendedIsMessage ==
    \A msg, got : IsMessage(msg) /\ got \in Seq(Byte) =>
      /\ IsMessage(Extended(msg, got)) /\ Extended(msg, got).op = msg.op
      /\ Len(Extended(msg, got).payload) = Len(msg.payload) + Len(got)
<1>0. SUFFICES ASSUME NEW msg, NEW got, IsMessage(msg), got \in Seq(Byte)
               PROVE  /\ IsMessage(Extended(msg, got))
                      /\ Extended(msg, got).op = msg.op
                      /\ Len(Extended(msg, got).payload)
                           = Len(msg.payload) + Len(got)
  OBVIOUS
<1>1. msg.op \in 0..15 /\ msg.payload \in Seq(Byte)
  BY <1>0 DEF IsMessage
<1>2. /\ Extended(msg, got).op = msg.op
      /\ Extended(msg, got).payload = msg.payload \o got
  BY DEF Extended
<1>3. /\ msg.payload \o got \in Seq(Byte)
      /\ Len(msg.payload \o got) = Len(msg.payload) + Len(got)
  BY <1>0, <1>1
<1> QED BY <1>1, <1>2, <1>3, Zenon DEF IsMessage

\* A new message is a message without payload.
LEMMA NewIsMessage ==
    \A op : op \in 0..15 =>
      IsMessage(NewMessage(op)) /\ NewMessage(op).payload = <<>>
<1>0. SUFFICES ASSUME NEW op, op \in 0..15
               PROVE  IsMessage(NewMessage(op)) /\ NewMessage(op).payload = <<>>
  OBVIOUS
<1>1. NewMessage(op).op = op /\ NewMessage(op).payload = <<>>
  BY DEF NewMessage
<1>2. <<>> \in Seq(Byte)
  OBVIOUS
<1> QED BY <1>0, <1>1, <1>2, Zenon DEF IsMessage

\* Behind the basic header the processor knows the frame it is at.
LEMMA InFrame ==
    ASSUME IInv, handler = "frames", state # "HEADER_BASIC"
    PROVE  LET b == stream.bytes
               o == stream.at[taken + 1]
           IN  /\ session \in {"open", "closing", "closed"}
               /\ taken + 1 \in 1..(Len(stream.at) - 1)
               /\ taken < Len(stream.at) /\ taken + 1 < Len(stream.at)
               /\ basic \in Seq(Byte) /\ Len(basic) = 2
               /\ basic = SubSeq(b, o + 1, o + Len(basic))
               /\ basic[1] \in Byte /\ basic[2] \in Byte
               /\ basic[2] = b[o + 2]
<1> DEFINE b == stream.bytes
           o == stream.at[taken + 1]
<1>1. /\ session \in {"open", "closing", "closed"} /\ basic \in Seq(Byte)
      /\ taken \in Nat
  BY DEF IInv, TypeOK, Untouched
<1>2. taken + 1 \in 1..(Len(stream.at) - 1)
  BY <1>1, FrameThere
<1>3. Len(basic) = 2 /\ basic = SubSeq(b, o + 1, o + Len(basic))
  BY <1>1 DEF IInv, InSync
<1>4. o \in Nat /\ o + 2 <= Len(b)
  BY <1>2, FrameFacts DEF IInv
<1>5. b \in Seq(Byte)
  BY StreamAssumption DEF IInv, WellFramed
<1> HIDE DEF b, o
<1>6. basic = SubSeq(b, o + 1, o + 2)
  BY <1>3, Zenon
<1>7. SubSeq(b, o + 1, o + 2)[2] = b[o + 2]
  <2>1. 2 \in 1..((o + 2) - o) /\ o + 2 \in Nat /\ o <= o + 2
    BY <1>4
  <2> QED BY <1>4, <1>5, <2>1, PartAt
<1>8. basic[1] \in Byte /\ basic[2] \in Byte
  <2>1. Len(basic) = 2
    BY <1>3, Zenon
  <2>2. 1 \in 1..Len(basic) /\ 2 \in 1..Len(basic)
    BY <2>1
  <2> QED BY <1>1, <2>2, ElementOfSeq, Zenon
<1>9. taken < Len(stream.at) /\ taken + 1 < Len(stream.at)
  <2>1. Len(stream.at) \in Nat
    BY StreamAssumption DEF IInv, WellFramed
  <2> QED BY <1>1, <1>2, <2>1
<1> QED BY <1>1, <1>2, <1>3, <1>6, <1>7, <1>8, <1>9, Zenon DEF b, o

\* The extended header: with its last byte the size is that of the frame.
LEMMA ExtendedHeaderStep == IInv /\ ExtendedHeader => IInv'
<1> SUFFICES ASSUME IInv, ExtendedHeader PROVE IInv'
  OBVIOUS
<1> DEFINE n == Smaller(needed, avail - pos)
           header == extended \o Bytes(n)
           size == get_payload_size(basic[2], header)
           op == get_opcode(basic[1])
           b == stream.bytes
           o == stream.at[taken + 1]
<1>1. /\ handler = "frames" /\ state = "HEADER_EXTENDED"
      /\ pos' = pos + n /\ extended' = header
      /\ basic' = basic /\ UNCHANGED <<networkVars, historyVars>>
  BY DEF ExtendedHeader, Consuming
<1>2. \/ /\ n < needed /\ needed' = needed - n
         /\ UNCHANGED <<state, messageVars, connectionVars>>
      \/ /\ Fail /\ UNCHANGED messageVars
         /\ \/ needed' = 0 /\ state' = state
            \/ ~(n < needed) /\ needed' = size /\ state' = "APPLICATION"
      \/ ~(n < needed) /\ StartPayload(op, size)
  BY DEF ExtendedHeader
<1>3. TypeOK /\ stream \in Streams /\ InSync /\ Untouched
  BY DEF IInv
<1>4. /\ pos \in Nat /\ avail \in Nat /\ needed \in Nat /\ taken \in Nat
  BY <1>3 DEF TypeOK
<1>5. extended \in Seq(Byte)
  BY <1>3 DEF TypeOK
<1>6. /\ n \in Nat /\ n <= needed /\ pos + n <= avail
  BY Chunk
<1>7. avail <= Len(b)
  BY Chunk
<1>8. Bytes(n) \in Seq(Byte) /\ Len(Bytes(n)) = n
  BY Chunk
<1>9. /\ session \in {"open", "closing", "closed"}
      /\ taken + 1 \in 1..(Len(stream.at) - 1)
      /\ taken < Len(stream.at) /\ taken + 1 < Len(stream.at)
  BY <1>1, InFrame
<1>10. /\ basic \in Seq(Byte) /\ Len(basic) = 2
       /\ basic = SubSeq(b, o + 1, o + Len(basic))
  BY <1>1, InFrame
<1>11. basic[1] \in Byte /\ basic[2] \in Byte /\ basic[2] = b[o + 2]
  BY <1>1, InFrame
<1> HIDE DEF n, header, size, b, o
<1>12. PICK l \in Nat : Len(extended) = l /\ pos = o + 2 + l
         /\ pos + needed = HeaderEnd(b, o) /\ extended = SubSeq(b, o + 3, pos)
  <2>1. Len(extended) \in Nat
    BY <1>5
  <2> QED BY <1>1, <1>3, <1>9, <2>1 DEF InSync, b, o
<1>13. /\ o \in Nat /\ HeaderEnd(b, o) \in Nat /\ SizeAt(b, o) \in Nat
       /\ stream.at[taken + 2] = HeaderEnd(b, o) + SizeAt(b, o)
  <2>1. (taken + 1) + 1 = taken + 2
    BY <1>4
  <2> QED BY <1>3, <1>9, <2>1, FrameFacts DEF b, o
<1>14. b \in Seq(Byte) /\ Len(b) \in Nat
  <2>1. b \in Seq(Byte)
    BY <1>3, StreamAssumption DEF WellFramed, b
  <2> QED BY <2>1
<1>15. /\ pos + n \in Nat /\ pos + n <= Len(b) /\ o + 2 <= pos
       /\ pos <= pos + n /\ o + 2 \in Nat /\ (o + 2) + 1 = o + 3
  BY <1>4, <1>6, <1>7, <1>12, <1>13, <1>14
<1>16. header \in Seq(Byte) /\ Len(header) = l + n
  BY <1>5, <1>8, <1>12 DEF header
<1>17. header = SubSeq(b, o + 3, pos + n)
  <2>1. Bytes(n) = SubSeq(b, pos + 1, pos + n)
    BY DEF Bytes, b
  <2>2. PICK a \in Nat : a = o + 2
    BY <1>15
  <2>3. a <= pos /\ a + 1 = o + 3
    BY <1>15, <2>2
  <2>4. SubSeq(b, a + 1, pos) \o SubSeq(b, pos + 1, pos + n)
          = SubSeq(b, a + 1, pos + n)
    <3>1. PICK q \in Nat : q = pos + n
      BY <1>15
    <3>2. /\ b \in Seq(Byte) /\ pos \in Nat
          /\ a <= pos /\ pos <= q /\ q <= Len(b)
      BY <1>4, <1>14, <1>15, <2>3, <3>1
    <3>3. SubSeq(b, a + 1, pos) \o SubSeq(b, pos + 1, q) = SubSeq(b, a + 1, q)
      BY <3>2, Glue
    <3> QED BY <3>1, <3>3
  <2> QED BY <1>12, <2>1, <2>3, <2>4, Zenon DEF header
<1>18. /\ pos' \in Nat /\ pos' <= avail /\ pos' = o + 2 + (l + n)
  BY <1>1, <1>4, <1>6, <1>12, <1>13
<1>19. ~(n < needed) => size = SizeAt(b, o) /\ pos' = HeaderEnd(b, o)
  <2>1. SUFFICES ASSUME ~(n < needed)
                 PROVE  size = SizeAt(b, o) /\ pos' = HeaderEnd(b, o)
    OBVIOUS
  <2>2. pos + n = HeaderEnd(b, o)
    BY <1>4, <1>6, <1>12, <1>13, <2>1
  <2> QED BY <1>1, <1>11, <1>17, <2>2, Zenon DEF size, SizeAt
<1>20. op \in 0..15
  BY <1>11, FieldTypes
<1> HIDE DEF op
<1>21. /\ stream' = stream /\ avail' = avail /\ taken' = taken
       /\ dispatched' = dispatched /\ basic' = basic
  BY <1>1 DEF networkVars, historyVars
<1>22. extended' \in Seq(Byte) /\ Len(extended') = l + n
       /\ extended' = SubSeq(b, o + 3, pos')
  BY <1>1, <1>16, <1>17
<1>23. /\ fault \in {"none", "response", "frame"}
       /\ dataMsg = None \/ IsMessage(dataMsg)
       /\ controlMsg = None \/ IsMessage(controlMsg)
       /\ current \in {"none", "data", "control"} /\ taken \in Nat
       /\ dispatched \in Seq([op : 0..15, payload : Seq(Byte)])
  BY <1>3, Zenon DEF TypeOK
<1>24. ASSUME handler' \in {"frames", "stopped"},
              session' \in {"open", "closing", "closed"},
              fault' \in {"none", "response", "frame"},
              state' \in {"HEADER_EXTENDED", "APPLICATION"},
              needed' \in Nat,
              dataMsg' = None \/ IsMessage(dataMsg'),
              controlMsg' = None \/ IsMessage(controlMsg'),
              current' \in {"none", "data", "control"}
       PROVE  TypeOK'
  <2>1. pos' \in Nat /\ avail' \in Nat /\ pos' <= avail'
        /\ avail' <= Len(stream'.bytes)
    BY <1>4, <1>7, <1>18, <1>21 DEF b
  <2> QED BY <1>10, <1>21, <1>22, <1>23, <1>24, <2>1, Zenon
          DEF TypeOK, IsMessage
<1>25. CASE /\ n < needed /\ needed' = needed - n
            /\ UNCHANGED <<state, messageVars, connectionVars>>
  <2>1. needed' \in Nat /\ pos' + needed' = HeaderEnd(b, o)
        /\ pos' = o + 2 + Len(extended')
    BY <1>1, <1>4, <1>6, <1>12, <1>13, <1>18, <1>22, <1>25
  <2>2. /\ state' = "HEADER_EXTENDED" /\ handler' = "frames"
        /\ session' = session /\ fault' = fault /\ dataMsg' = dataMsg
        /\ controlMsg' = controlMsg /\ current' = current
    BY <1>1, <1>25 DEF connectionVars, messageVars
  <2>3. TypeOK'
    BY <1>9, <1>23, <1>24, <2>1, <2>2
  <2>4. InSync'
    BY <1>9, <1>10, <1>21, <1>22, <2>1, <2>2 DEF InSync, b, o
  <2> QED BY <1>3, <1>9, <1>21, <2>2, <2>3, <2>4
          DEF IInv, Untouched, CurrentOK, Waiting
<1>26. CASE /\ Fail /\ UNCHANGED messageVars
            /\ \/ needed' = 0 /\ state' = state
               \/ ~(n < needed) /\ needed' = size /\ state' = "APPLICATION"
  <2>1. handler' = "stopped" /\ session' \in {"closing", "closed"}
        /\ fault' = "frame"
    BY <1>26 DEF Fail
  <2>2. /\ state' \in {"HEADER_EXTENDED", "APPLICATION"} /\ needed' \in Nat
        /\ dataMsg' = dataMsg /\ controlMsg' = controlMsg
        /\ current' = current
    BY <1>1, <1>13, <1>19, <1>26 DEF messageVars
  <2>3. TypeOK'
    BY <1>23, <1>24, <2>1, <2>2
  <2> QED BY <1>3, <1>21, <2>1, <2>3
          DEF IInv, InSync, Untouched, CurrentOK, Waiting
<1>27. CASE ~(n < needed) /\ StartPayload(op, size)
  <2>1. /\ state' = "APPLICATION" /\ needed' = size /\ handler' = "frames"
        /\ session' = session /\ fault' = fault
    BY <1>1, <1>27 DEF StartPayload, connectionVars
  <2>2. needed' \in Nat /\ pos' + needed' = stream.at[taken + 2]
    BY <1>13, <1>19, <1>27, <2>1
  <2>3. IsMessage(NewMessage(op))
    BY <1>20, NewIsMessage
  <2>4. /\ dataMsg' = None \/ IsMessage(dataMsg')
        /\ controlMsg' = None \/ IsMessage(controlMsg')
        /\ current' \in {"data", "control"}
        /\ IsMessage(IF current' = "control" THEN controlMsg' ELSE dataMsg')
    <3>1. CASE is_control(op)
      BY <1>23, <1>27, <2>3, <3>1 DEF StartPayload
    <3>2. CASE ~is_control(op)
      BY <1>23, <1>27, <2>3, <3>2 DEF StartPayload
    <3> QED BY <3>1, <3>2
  <2>5. TypeOK'
    BY <1>9, <1>23, <1>24, <2>1, <2>2, <2>4
  <2>6. InSync'
    BY <1>9, <1>10, <1>21, <2>1, <2>2 DEF InSync, b, o
  <2>7. CurrentOK'
    BY <2>4 DEF CurrentOK, Message
  <2> QED BY <1>3, <1>9, <1>21, <2>1, <2>5, <2>6, <2>7
          DEF IInv, Untouched, Waiting
<1> QED BY <1>2, <1>25, <1>26, <1>27 DEF n, size, op

\* Where the payload of the frame ends.
LEMMA PayloadEnd ==
    ASSUME IInv, handler = "frames", state \in {"APPLICATION", "READY"}
    PROVE  /\ pos + needed = stream.at[taken + 2]
           /\ stream.at[taken + 2] \in Nat
           /\ state = "READY" => needed = 0
<1>1. session # "connecting"
  BY DEF IInv, Untouched
<1>2. /\ pos + needed = stream.at[taken + 2]
      /\ state = "READY" => needed = 0
  BY <1>1 DEF IInv, InSync
<1>3. pos \in Nat /\ needed \in Nat
  BY DEF IInv, TypeOK
<1> QED BY <1>2, <1>3

\* After a frame the processor is at the beginning of the next one.
LEMMA NextFrame ==
    ASSUME IInv, ResetHeaders, taken' = taken + 1, stream' = stream,
           pos' = stream.at[taken + 2], stream.at[taken + 2] \in Nat,
           taken + 1 < Len(stream.at)
    PROVE  /\ InSync' /\ taken' \in Nat /\ needed' \in Nat
           /\ basic' \in Seq(Byte) /\ extended' \in Seq(Byte)
           /\ state' = "HEADER_BASIC"
<1> DEFINE o == stream.at[taken + 2]
<1>1. taken \in Nat
  BY DEF IInv, TypeOK
<1>2. /\ state' = "HEADER_BASIC" /\ needed' = 2
      /\ basic' = <<>> /\ extended' = <<>>
  BY DEF ResetHeaders
<1>3. basic' \in Seq(Byte) /\ extended' \in Seq(Byte) /\ Len(basic') = 0
  BY <1>2
<1>4. taken' + 1 = taken + 2 /\ taken' < Len(stream.at) /\ taken' \in Nat
  BY <1>1
<1>5. basic' = SubSeq(stream'.bytes, o + 1, o + Len(basic'))
  <2>1. stream.bytes \in Seq(Byte)
    BY StreamAssumption DEF IInv, WellFramed
  <2> HIDE DEF o
  <2>2. SubSeq(stream.bytes, o + 1, o + 0) = <<>>
    BY <2>1 DEF o
  <2> QED BY <1>2, <1>3, <2>2
<1>6. /\ stream'.at[taken' + 1] = o /\ pos' = o + Len(basic')
      /\ needed' = 2 - Len(basic') /\ Len(basic') \in 0..1
      /\ ~(Len(basic') > 0) /\ taken' < Len(stream'.at)
  BY <1>2, <1>3, <1>4
<1>7. InSync'
  <2> HIDE DEF o
  <2>1. /\ state' # "HEADER_EXTENDED" /\ state' \notin {"APPLICATION", "READY"}
        /\ state' # "READY"
    BY <1>2
  <2> QED BY <1>2, <1>5, <1>6, <2>1, Zenon DEF InSync
<1> QED BY <1>2, <1>3, <1>4, <1>7

\* The payload: what is left of the frame ends where it did.
LEMMA PayloadStep == IInv /\ Payload => IInv'
<1> SUFFICES ASSUME IInv, Payload PROVE IInv'
  OBVIOUS
<1> DEFINE n == Smaller(needed, avail - pos)
           msg == Extended(Message, Bytes(n))
<1>1. /\ handler = "frames" /\ state = "APPLICATION" /\ SetMessage(msg)
      /\ UNCHANGED <<networkVars, dispatched>>
  BY DEF Payload, Consuming
<1>2. \/ Fail /\ UNCHANGED <<pos, headerVars, taken>>
      \/ /\ pos' = pos + n
         /\ \/ /\ n < needed /\ needed' = needed - n
               /\ UNCHANGED <<state, basic, extended, connectionVars, taken>>
            \/ /\ ~(n < needed) /\ ResetHeaders /\ taken' = taken + 1
               /\ UNCHANGED connectionVars
            \/ /\ Fail /\ needed' = 0
               /\ UNCHANGED <<state, basic, extended, taken>>
            \/ /\ ~(n < needed) /\ state' = "READY" /\ needed' = 0
               /\ UNCHANGED <<basic, extended, connectionVars, taken>>
  BY DEF Payload
<1>3. TypeOK /\ stream \in Streams /\ InSync /\ CurrentOK
  BY DEF IInv
<1>4. /\ pos \in Nat /\ avail \in Nat /\ needed \in Nat /\ taken \in Nat
  BY <1>3 DEF TypeOK
<1>5. n \in Nat /\ n <= needed /\ pos + n <= avail
  BY Chunk
<1>6. avail <= Len(stream.bytes) /\ pos <= avail
  BY <1>3 DEF TypeOK
<1>7. Bytes(n) \in Seq(Byte)
  BY Chunk
<1> HIDE DEF n
<1>8. current \in {"data", "control"} /\ IsMessage(Message)
  BY <1>1, <1>3 DEF CurrentOK
<1>9. IsMessage(msg)
  BY <1>7, <1>8, ExtendedIsMessage
<1> HIDE DEF msg
<1>10. /\ session \in {"open", "closing", "closed"}
       /\ taken < Len(stream.at) /\ taken + 1 < Len(stream.at)
       /\ Len(basic) = 2
       /\ basic = SubSeq(stream.bytes, stream.at[taken + 1] + 1,
                         stream.at[taken + 1] + Len(basic))
  BY <1>1, InFrame
<1>11. /\ pos + needed = stream.at[taken + 2] /\ stream.at[taken + 2] \in Nat
  BY <1>1, PayloadEnd
<1>12. /\ fault \in {"none", "response", "frame"}
       /\ basic \in Seq(Byte) /\ extended \in Seq(Byte)
       /\ dataMsg = None \/ IsMessage(dataMsg)
       /\ controlMsg = None \/ IsMessage(controlMsg)
       /\ dispatched \in Seq([op : 0..15, payload : Seq(Byte)])
  BY <1>3, Zenon DEF TypeOK
<1>13. /\ dataMsg' = None \/ IsMessage(dataMsg')
       /\ controlMsg' = None \/ IsMessage(controlMsg')
       /\ current' = current /\ current' \in {"data", "control"}
       /\ IsMessage(IF current' = "control" THEN controlMsg' ELSE dataMsg')
  BY <1>1, <1>8, <1>9, <1>12 DEF SetMessage
<1>14. stream' = stream /\ avail' = avail /\ dispatched' = dispatched
  BY <1>1 DEF networkVars
<1>15. CurrentOK'
  BY <1>13 DEF CurrentOK, Message
<1>16. ASSUME pos' \in Nat, pos' <= avail,
              handler' \in {"frames", "stopped"},
              session' \in {"open", "closing", "closed"},
              fault' \in {"none", "response", "frame"},
              state' \in {"HEADER_BASIC", "APPLICATION", "READY"},
              needed' \in Nat, taken' \in Nat,
              basic' \in Seq(Byte), extended' \in Seq(Byte)
       PROVE  TypeOK'
  <2>1. avail' \in Nat /\ pos' <= avail' /\ avail' <= Len(stream'.bytes)
    BY <1>4, <1>6, <1>14, <1>16
  <2> QED BY <1>12, <1>13, <1>14, <1>16, <2>1, Zenon DEF TypeOK, IsMessage
<1>17. ASSUME TypeOK', InSync', session' # "connecting", handler' # "idle"
       PROVE  IInv'
  BY <1>3, <1>14, <1>15, <1>17, Zenon DEF IInv, Untouched, Waiting
<1>18. ASSUME Fail PROVE /\ handler' = "stopped" /\ fault' = "frame"
                         /\ session' \in {"closing", "closed"} /\ InSync'
  BY <1>18 DEF Fail, InSync
<1>19. CASE Fail /\ UNCHANGED <<pos, headerVars, taken>>
  BY <1>1, <1>4, <1>6, <1>12, <1>16, <1>17, <1>18, <1>19 DEF headerVars
<1>20. CASE pos' = pos + n
  <2>1. pos' \in Nat /\ pos' <= avail
    BY <1>4, <1>5, <1>20
  <2>2. ~(n < needed) => pos' = stream.at[taken + 2]
    BY <1>4, <1>5, <1>11, <1>20
  <2>3. CASE /\ n < needed /\ needed' = needed - n
             /\ UNCHANGED <<state, basic, extended, connectionVars, taken>>
    <3>1. needed' \in Nat /\ pos' + needed' = stream.at[taken + 2]
      BY <1>4, <1>5, <1>11, <1>20, <2>3
    <3>2. /\ state' = "APPLICATION" /\ basic' = basic /\ extended' = extended
          /\ handler' = "frames" /\ session' = session /\ fault' = fault
          /\ taken' = taken
      BY <1>1, <2>3 DEF connectionVars
    <3>3. TypeOK'
      BY <1>4, <1>10, <1>12, <1>16, <2>1, <3>1, <3>2
    <3>4. InSync'
      BY <1>10, <1>14, <3>1, <3>2 DEF InSync
    <3> QED BY <1>10, <1>17, <3>2, <3>3, <3>4
  <2>4. CASE /\ ~(n < needed) /\ ResetHeaders /\ taken' = taken + 1
             /\ UNCHANGED connectionVars
    <3>1. /\ handler' = "frames" /\ session' = session /\ fault' = fault
      BY <1>1, <2>4 DEF connectionVars
    <3>2. /\ InSync' /\ taken' \in Nat /\ needed' \in Nat
          /\ basic' \in Seq(Byte) /\ extended' \in Seq(Byte)
          /\ state' = "HEADER_BASIC"
      BY <1>10, <1>11, <1>14, <2>2, <2>4, NextFrame
    <3>3. TypeOK'
      BY <1>10, <1>12, <1>16, <2>1, <3>1, <3>2
    <3> QED BY <1>10, <1>17, <3>1, <3>2, <3>3
  <2>5. CASE /\ Fail /\ needed' = 0
             /\ UNCHANGED <<state, basic, extended, taken>>
    BY <1>1, <1>4, <1>12, <1>16, <1>17, <1>18, <2>1, <2>5
  <2>6. CASE /\ ~(n < needed) /\ state' = "READY" /\ needed' = 0
             /\ UNCHANGED <<basic, extended, connectionVars, taken>>
    <3>1. /\ basic' = basic /\ extended' = extended /\ taken' = taken
          /\ handler' = "frames" /\ session' = session /\ fault' = fault
      BY <1>1, <2>6 DEF connectionVars
    <3>2. TypeOK'
      BY <1>4, <1>10, <1>12, <1>16, <2>1, <2>6, <3>1
    <3>3. pos' + needed' = stream.at[taken + 2]
      BY <1>11, <2>2, <2>6
    <3>4. InSync'
      BY <1>10, <1>14, <2>6, <3>1, <3>3 DEF InSync
    <3> QED BY <1>10, <1>17, <3>1, <3>2, <3>4
  <2> QED BY <1>2, <1>19, <1>20, <2>3, <2>4, <2>5, <2>6
<1> QED BY <1>2, <1>19, <1>20

\* A message handed on: the processor begins the next frame.
LEMMA DispatchStep == IInv /\ Dispatch => IInv'
<1> SUFFICES ASSUME IInv, Dispatch PROVE IInv'
  OBVIOUS
<1> DEFINE done == [op |-> Message.op, payload |-> Message.payload]
<1>1. /\ handler = "frames" /\ state = "READY" /\ SetMessage(None)
      /\ ResetHeaders /\ taken' = taken + 1
      /\ UNCHANGED <<networkVars, pos, handler, fault>>
      /\ dispatched' = IF session = "open" THEN Append(dispatched, done)
                       ELSE dispatched
      /\ session' = IF Message.op = CLOSE THEN "closing" ELSE session
  BY DEF Dispatch
<1>2. TypeOK /\ stream \in Streams /\ CurrentOK
  BY DEF IInv
<1>3. /\ session \in {"open", "closing", "closed"}
      /\ taken + 1 < Len(stream.at)
  BY <1>1, InFrame
<1>4. /\ pos + needed = stream.at[taken + 2] /\ needed = 0
      /\ stream.at[taken + 2] \in Nat
  BY <1>1, PayloadEnd
<1>5. /\ stream' = stream /\ avail' = avail /\ pos' = pos
      /\ handler' = handler /\ fault' = fault
  BY <1>1 DEF networkVars
<1>6. /\ pos \in Nat /\ avail \in Nat /\ pos <= avail
      /\ avail <= Len(stream.bytes)
  BY <1>2 DEF TypeOK
<1>7. /\ InSync' /\ taken' \in Nat /\ needed' \in Nat
      /\ basic' \in Seq(Byte) /\ extended' \in Seq(Byte)
      /\ state' = "HEADER_BASIC"
  BY <1>1, <1>3, <1>4, <1>5, <1>6, NextFrame
<1>8. /\ dataMsg' = None \/ IsMessage(dataMsg')
      /\ controlMsg' = None \/ IsMessage(controlMsg')
      /\ current' \in {"data", "control"} /\ IsMessage(Message)
  BY <1>1, <1>2, Zenon DEF CurrentOK, TypeOK, SetMessage
<1>9. dispatched' \in Seq([op : 0..15, payload : Seq(Byte)])
  <2>1. done \in [op : 0..15, payload : Seq(Byte)]
    BY <1>8 DEF IsMessage
  <2>2. dispatched \in Seq([op : 0..15, payload : Seq(Byte)])
    BY <1>2, Zenon DEF TypeOK
  <2> HIDE DEF done
  <2>3. Append(dispatched, done) \in Seq([op : 0..15, payload : Seq(Byte)])
    BY <2>1, <2>2
  <2> QED BY <1>1, <2>2, <2>3, Zenon
<1>10. session' \in {"open", "closing", "closed"}
  BY <1>1, <1>3
<1>11. TypeOK'
  <2>1. fault \in {"none", "response", "frame"}
    BY <1>2, Zenon DEF TypeOK
  <2> QED BY <1>1, <1>5, <1>6, <1>7, <1>8, <1>9, <1>10, <2>1, Zenon
          DEF TypeOK, IsMessage
<1> QED BY <1>1, <1>2, <1>5, <1>7, <1>10, <1>11
        DEF IInv, Untouched, CurrentOK, Waiting

\* The other steps change neither the header nor the message.
LEMMA OtherSteps ==
    IInv /\ (ReadFrame \/ Receive \/ LocalClose \/ Terminate) => IInv'
<1> SUFFICES ASSUME IInv, ReadFrame \/ Receive \/ LocalClose \/ Terminate
             PROVE  IInv'
  OBVIOUS
<1>1. TypeOK /\ stream \in Streams /\ InSync /\ Untouched /\ CurrentOK
      /\ Waiting
  BY DEF IInv
<1>2. /\ stream' = stream /\ pos' = pos
      /\ UNCHANGED <<headerVars, messageVars, historyVars, fault>>
  BY DEF ReadFrame, Receive, Arrives, LocalClose, Terminate, networkVars
<1>3. /\ state' = state /\ needed' = needed /\ basic' = basic
      /\ extended' = extended /\ dataMsg' = dataMsg
      /\ controlMsg' = controlMsg /\ current' = current /\ taken' = taken
      /\ dispatched' = dispatched /\ fault' = fault
  BY <1>2 DEF headerVars, messageVars, historyVars
<1>4. /\ pos \in Nat /\ avail \in Nat /\ needed \in Nat /\ pos <= avail
      /\ avail <= Len(stream.bytes)
  BY <1>1 DEF TypeOK
<1>5. ASSUME avail' \in Nat, pos <= avail', avail' <= Len(stream.bytes),
             handler' \in {"idle", "response", "frames", "stopped"},
             session' \in {"connecting", "open", "closing", "closed"}
      PROVE  TypeOK'
  BY <1>1, <1>2, <1>3, <1>5, Zenon DEF TypeOK, IsMessage
<1>6. ASSUME handler \in {"idle", "frames"}, session # "connecting"
      PROVE  InSync'
  <2>1. InSync <=> InSync'
    BY <1>1, <1>2, <1>3, <1>6, Zenon DEF InSync
  <2> QED BY <1>1, <2>1
<1>7. handler \in {"idle", "frames"} => CurrentOK'
  BY <1>1, <1>3, Zenon DEF CurrentOK, Message, IsMessage
<1>8. CASE ReadFrame
  <2>1. /\ handler = "frames" /\ state # "READY" /\ handler' = "idle"
        /\ avail' = avail /\ session' = session
        /\ ~(pos < avail) /\ needed # 0
    BY <1>8 DEF ReadFrame, Consuming, networkVars
  <2>2. session # "connecting" /\ pos = avail
    BY <1>1, <1>4, <2>1 DEF Untouched
  <2>3. TypeOK'
    <3>1. session \in {"connecting", "open", "closing", "closed"}
      BY <1>1, Zenon DEF TypeOK
    <3> QED BY <1>4, <1>5, <2>1, <3>1
  <2> QED BY <1>1, <1>2, <1>3, <1>6, <1>7, <2>1, <2>2, <2>3, Zenon
          DEF IInv, Untouched, Waiting
<1>9. CASE Receive
  <2>1. PICK k \in 1..ReadSize : Arrives(k)
    BY <1>9 DEF Receive
  <2>2. /\ handler = "idle" /\ session \in {"open", "closing"}
        /\ handler' = "frames" /\ session' = session
        /\ avail + k <= Len(stream.bytes) /\ avail' = avail + k
    BY <1>9, <2>1 DEF Receive, Arrives
  <2>3. avail' \in Nat /\ pos <= avail' /\ avail' <= Len(stream.bytes)
    BY <1>4, <2>1, <2>2, LimitAssumption DEF LimitAssumption
  <2>4. TypeOK'
    BY <1>5, <2>2, <2>3
  <2> QED BY <1>1, <1>2, <1>6, <1>7, <2>2, <2>4
          DEF IInv, Untouched, Waiting
<1>10. CASE LocalClose
  <2>1. /\ handler \in {"idle", "stopped"} /\ session = "open"
        /\ session' = "closing" /\ handler' = handler /\ avail' = avail
    BY <1>10 DEF LocalClose, networkVars
  <2>2. TypeOK'
    BY <1>4, <1>5, <2>1
  <2>3. CASE handler = "idle"
    BY <1>1, <1>2, <1>3, <1>6, <1>7, <2>1, <2>2, <2>3
       DEF IInv, Untouched, Waiting
  <2>4. CASE handler = "stopped"
    BY <1>1, <1>2, <2>1, <2>2, <2>4
       DEF IInv, InSync, Untouched, CurrentOK, Waiting
  <2> QED BY <2>1, <2>3, <2>4
<1>11. CASE Terminate
  <2>1. session' = "closed" /\ handler' = "stopped" /\ avail' = avail
    BY <1>11 DEF Terminate, networkVars
  <2>2. TypeOK'
    BY <1>4, <1>5, <2>1
  <2> QED BY <1>1, <1>2, <2>1, <2>2
          DEF IInv, InSync, Untouched, CurrentOK, Waiting
<1> QED BY <1>8, <1>9, <1>10, <1>11

\* A step that changes nothing
LEMMA StutterStep == IInv /\ UNCHANGED vars => IInv'
<1> SUFFICES ASSUME IInv, UNCHANGED vars PROVE IInv'
  OBVIOUS
<1>1. /\ UNCHANGED <<stream, avail, pos, handler, session, fault, state, needed,
                     basic, extended, dataMsg, controlMsg, current, taken,
                     dispatched>>
  BY DEF vars, networkVars, connectionVars, headerVars, messageVars, historyVars
<1>2. TypeOK' /\ stream' \in Streams
  <2>1. TypeOK /\ stream \in Streams
    BY DEF IInv
  <2>2. TypeOK'
    BY <1>1, <2>1 DEF TypeOK, IsMessage
  <2> QED BY <1>1, <2>1, <2>2
<1>3. InSync'
  BY <1>1, Zenon DEF IInv, InSync
<1>4. Untouched' /\ CurrentOK' /\ Waiting'
  BY <1>1, Zenon DEF IInv, Untouched, NewProcessor, CurrentOK, Message,
                     IsMessage, Waiting
<1> QED BY <1>2, <1>3, <1>4 DEF IInv

\* The steps of the reader preserve the invariant.
LEMMA ReadingStep == IInv /\ [Next]_vars => IInv'
BY BasicHeaderStep, ExtendedHeaderStep, PayloadStep, DispatchStep, OtherSteps,
   StutterStep DEF Next, Reading

\* A processor before its first byte, at the beginning of the first frame.
LEMMA NewReader ==
    ASSUME stream \in Streams, NewProcessor, pos = stream.at[1],
           handler \in {"idle", "frames"}, session \in {"open", "closing"},
           avail \in Nat, pos <= avail, avail <= Len(stream.bytes)
    PROVE  /\ TypeOK /\ InSync /\ CurrentOK
           /\ handler = "frames" => IInv
<1> DEFINE o == stream.at[1]
<1>1. /\ stream.at \in Seq(Nat) /\ stream.at # <<>>
      /\ stream.bytes \in Seq(Byte)
  BY StreamAssumption DEF WellFramed
<1>2. o \in Nat /\ Len(stream.at) \in Nat /\ 0 < Len(stream.at)
  BY <1>1
<1>3. /\ state = "HEADER_BASIC" /\ needed = 2 /\ basic = <<>>
      /\ extended = <<>> /\ dataMsg = None /\ controlMsg = None
      /\ current = "none" /\ fault = "none" /\ taken = 0
      /\ dispatched = <<>>
  BY DEF NewProcessor
<1>4. /\ basic \in Seq(Byte) /\ extended \in Seq(Byte) /\ Len(basic) = 0
      /\ dispatched \in Seq([op : 0..15, payload : Seq(Byte)])
  BY <1>3
<1>5. TypeOK
  BY <1>2, <1>3, <1>4 DEF TypeOK
<1>6. basic = SubSeq(stream.bytes, o + 1, o + Len(basic))
  <2> HIDE DEF o
  <2>1. SubSeq(stream.bytes, o + 1, o + 0) = <<>>
    BY <1>1, <1>2
  <2> QED BY <1>3, <1>4, <2>1
<1>7. /\ stream.at[taken + 1] = o /\ pos = o + Len(basic)
      /\ needed = 2 - Len(basic) /\ Len(basic) \in 0..1
      /\ ~(Len(basic) > 0) /\ taken < Len(stream.at)
  BY <1>2, <1>3, <1>4
<1>8. InSync
  <2> HIDE DEF o
  <2>1. state # "HEADER_EXTENDED" /\ state \notin {"APPLICATION", "READY"}
        /\ state # "READY"
    BY <1>3
  <2> QED BY <1>3, <1>6, <1>7, <2>1, Zenon DEF InSync
<1> QED BY <1>3, <1>5, <1>8 DEF IInv, Untouched, CurrentOK, Waiting

(***************************************************************************)
(* The theorems                                                            *)
(***************************************************************************)
\* The invariant holds in every state of the reader.
LEMMA Inductive == Spec => []IInv
<1>1. Init => IInv
  <2> SUFFICES ASSUME Init PROVE IInv
    OBVIOUS
  <2>1. /\ stream \in Streams /\ pos = stream.at[1] /\ NewProcessor
        /\ avail \in pos..Len(stream.bytes)
        /\ handler = "frames" /\ session = "open"
    BY DEF Init
  <2>2. /\ stream.at[1] \in Nat /\ Len(stream.bytes) \in Nat
    BY <2>1, StreamAssumption DEF WellFramed
  <2>3. avail \in Nat /\ pos <= avail /\ avail <= Len(stream.bytes)
    BY <2>1, <2>2
  <2> QED BY <2>1, <2>3, NewReader
<1> QED BY <1>1, ReadingStep, PTL DEF Spec

\* TypeOK for every set of streams and every way to cut them into reads:
\* consume never reads behind what is in m_buf.
THEOREM Types == Spec => []TypeOK
<1>1. IInv => TypeOK
  BY DEF IInv
<1> QED BY <1>1, Inductive, PTL

\* InSync for all of them: wherever the network cuts, the header fields of the
\* processor are the bytes of the frame that it is at.
THEOREM Synchronised == Spec => []InSync
<1>1. IInv => InSync
  BY DEF IInv
<1> QED BY <1>1, Inductive, PTL

\* When the read waits, the frame it is at is not there in full.
LEMMA PromptFromInv == IInv => Prompt
<1> SUFFICES ASSUME IInv, handler = "idle", session # "connecting",
                    taken + 1 < Len(stream.at)
             PROVE  avail < stream.at[taken + 2]
  BY DEF Prompt
<1> DEFINE b == stream.bytes
           o == stream.at[taken + 1]
<1>1. /\ pos \in Nat /\ avail \in Nat /\ needed \in Nat /\ taken \in Nat
      /\ stream \in Streams
      /\ state \in {"HEADER_BASIC", "HEADER_EXTENDED", "APPLICATION", "READY"}
  BY DEF IInv, TypeOK
<1>2. pos = avail /\ state # "READY" /\ needed # 0
  BY DEF IInv, Waiting
<1>3. /\ state = "HEADER_BASIC" =>
           \E l \in 0..1 : needed = 2 - l /\ pos = o + l
      /\ state = "HEADER_EXTENDED" => pos + needed = HeaderEnd(b, o)
      /\ state = "APPLICATION" => pos + needed = stream.at[taken + 2]
  BY DEF IInv, InSync
<1>4. /\ o \in Nat /\ HeaderEnd(b, o) \in Nat /\ SizeAt(b, o) \in Nat
      /\ o + 2 <= HeaderEnd(b, o)
      /\ stream.at[taken + 2] = HeaderEnd(b, o) + SizeAt(b, o)
  <2>1. taken + 1 \in 1..(Len(stream.at) - 1) /\ (taken + 1) + 1 = taken + 2
    <3>1. Len(stream.at) \in Nat
      BY <1>1, StreamAssumption DEF WellFramed
    <3> QED BY <1>1, <3>1
  <2> QED BY <1>1, <2>1, FrameFacts
<1> HIDE DEF b, o
<1> QED BY <1>1, <1>2, <1>3, <1>4

\* Prompt for all of them: no frame that has arrived waits for a later byte.
THEOREM HandedOnAtOnce == Spec => []Prompt
BY PromptFromInv, Inductive, PTL

(***************************************************************************)
(* The limit of a message                                                  *)
(***************************************************************************)
\* A sum below the width of size_t is not cut.
LEMMA NoCut ==
    \A x, y, w : x \in Nat /\ y \in Nat /\ w \in Nat /\ x + y < w =>
                   (x + y) % w = x + y
OBVIOUS

\* After the extended header the processor waits for the payload of the frame.
LEMMA PayloadSize ==
    ASSUME IInv, ExtendedHeader, state' = "APPLICATION", handler' # "stopped"
    PROVE  /\ needed' = get_payload_size(basic[2], extended')
           /\ needed' = SizeAt(stream.bytes, stream.at[taken + 1])
           /\ StartPayload(get_opcode(basic[1]), needed')
           /\ ~TooBigFor(get_opcode(basic[1]), needed')
<1> DEFINE n == Smaller(needed, avail - pos)
           header == extended \o Bytes(n)
           size == get_payload_size(basic[2], header)
           op == get_opcode(basic[1])
           b == stream.bytes
           o == stream.at[taken + 1]
<1>1. /\ handler = "frames" /\ state = "HEADER_EXTENDED"
      /\ pos' = pos + n /\ extended' = header
      /\ ~(n < needed) /\ ~TooBigFor(op, size) /\ StartPayload(op, size)
      /\ UNCHANGED <<networkVars, historyVars>>
  BY DEF ExtendedHeader, Consuming, Fail
<1>2. needed' = size
  BY <1>1 DEF StartPayload
<1>3. n \in Nat /\ n <= needed
  BY Chunk
<1>4. /\ IInv' /\ handler' = "frames" /\ session \in {"open", "closing", "closed"}
      /\ session' = session
  <2>1. session \in {"open", "closing", "closed"}
    BY <1>1, InFrame
  <2>2. IInv'
    BY ExtendedHeaderStep
  <2> QED BY <1>1, <2>1, <2>2 DEF StartPayload, connectionVars
<1>5. pos' + needed' = stream.at[taken + 2]
  BY <1>1, <1>4 DEF IInv, InSync, networkVars, historyVars
<1>6. pos + needed = HeaderEnd(b, o)
  BY <1>1, <1>4 DEF IInv, InSync
<1>7. /\ HeaderEnd(b, o) \in Nat /\ SizeAt(b, o) \in Nat
      /\ stream.at[taken + 2] = HeaderEnd(b, o) + SizeAt(b, o)
  <2>1. taken + 1 \in 1..(Len(stream.at) - 1) /\ stream \in Streams
    BY <1>1, InFrame DEF IInv
  <2>2. (taken + 1) + 1 = taken + 2
    BY DEF IInv, TypeOK
  <2> QED BY <2>1, <2>2, FrameFacts
<1>8. needed \in Nat /\ pos \in Nat /\ needed' \in Nat
  BY <1>4 DEF IInv, TypeOK
<1> HIDE DEF n, b, o
<1>9. needed' = SizeAt(b, o)
  BY <1>1, <1>3, <1>5, <1>6, <1>7, <1>8
<1> QED BY <1>1, <1>2, <1>9, Zenon DEF b, o

\* MessageFits, and what is to come of a data message counted before its first
\* byte is there.
Fits ==
    handler # "stopped" =>
      /\ dataMsg # None => Len(dataMsg.payload) <= MaxMessage
      /\ state = "APPLICATION" /\ current = "data" =>
           Len(dataMsg.payload) + needed <= MaxMessage

\* It is preserved while no size comes near to the width of size_t.
LEMMA FitsStep ==
    ASSUME NoWrap, IInv, Fits, [Next]_vars
    PROVE  Fits'
<1>1. ASSUME dataMsg # None PROVE Len(dataMsg.payload) \in Nat
  <2>1. dataMsg.payload \in Seq(Byte)
    BY <1>1 DEF IInv, TypeOK, IsMessage
  <2> QED BY <2>1
<1>2. needed \in Nat /\ MaxMessage \in Nat /\ SizeT \in Nat
  BY LimitAssumption DEF IInv, TypeOK, LimitAssumption
<1>3. ASSUME handler # "stopped"
      PROVE  /\ dataMsg # None => Len(dataMsg.payload) <= MaxMessage
             /\ state = "APPLICATION" /\ current = "data" =>
                  Len(dataMsg.payload) + needed <= MaxMessage
  BY <1>3, Zenon DEF Fits
<1>4. ASSUME dataMsg' = dataMsg, ~(state' = "APPLICATION" /\ current' = "data"),
             handler # "stopped"
      PROVE  Fits'
  BY <1>3, <1>4, Zenon DEF Fits
<1>5. CASE BasicHeader
  <2>1. /\ dataMsg' = dataMsg /\ handler # "stopped"
        /\ state' \in {"HEADER_BASIC", "HEADER_EXTENDED"}
    BY <1>5 DEF BasicHeader, Consuming, messageVars
  <2> QED BY <1>4, <2>1
<1>6. CASE ExtendedHeader
  <2>1. handler = "frames" /\ state = "HEADER_EXTENDED"
    BY <1>6 DEF ExtendedHeader, Consuming
  <2>2. CASE state' # "APPLICATION"
    <3>1. dataMsg' = dataMsg
      BY <1>6, <2>2, Zenon DEF ExtendedHeader, StartPayload, messageVars
    <3> QED BY <1>4, <2>1, <2>2, <3>1
  <2>4. CASE handler' = "stopped"
    BY <2>4 DEF Fits
  <2>3. CASE state' = "APPLICATION" /\ handler' # "stopped"
    <3> DEFINE op == get_opcode(basic[1])
    <3>1. /\ needed' = SizeAt(stream.bytes, stream.at[taken + 1])
          /\ StartPayload(op, needed') /\ ~TooBigFor(op, needed')
      BY <1>6, <2>3, PayloadSize
    <3> HIDE DEF op
    <3>2. CASE is_control(op)
      <4>1. dataMsg' = dataMsg /\ current' = "control"
        BY <3>1, <3>2 DEF StartPayload
      <4> QED BY <1>4, <2>1, <4>1
    <3>3. CASE ~is_control(op) /\ dataMsg = None
      <4>1. needed' <= MaxMessage
        <5>1. ~(needed' > MaxMessage) /\ needed' \in Nat
          <6>1. IInv'
            BY <1>6, ExtendedHeaderStep
          <6> QED BY <3>1, <3>3, <6>1 DEF TooBigFor, TooBig, IInv, TypeOK
        <5> QED BY <1>2, <5>1
      <4>2. dataMsg' = NewMessage(op) /\ NewMessage(op).payload = <<>>
        BY <3>1, <3>3 DEF StartPayload, NewMessage
      <4>3. Len(dataMsg'.payload) = 0
        BY <4>2
      <4>4. needed' \in Nat
        <5>1. IInv'
          BY <1>6, ExtendedHeaderStep
        <5> QED BY <5>1 DEF IInv, TypeOK
      <4>5. 0 <= MaxMessage /\ 0 + needed' = needed'
        <5>1. \A x \in Nat : 0 <= x /\ 0 + x = x
          OBVIOUS
        <5> QED BY <1>2, <4>4, <5>1, Zenon
      <4> QED BY <4>1, <4>3, <4>5, Zenon DEF Fits
    <3>4. CASE ~is_control(op) /\ dataMsg # None
      <4>1. MaxMessage + needed' < SizeT
        <5>1. taken + 1 \in 1..(Len(stream.at) - 1) /\ stream \in Streams
          BY <2>1, InFrame DEF IInv
        <5> QED BY <3>1, <5>1 DEF NoWrap
      <4>2. needed' \in Nat
        <5>1. IInv'
          BY <1>6, ExtendedHeaderStep
        <5> QED BY <5>1 DEF IInv, TypeOK
      <4>3. ~((Len(dataMsg.payload) + needed') % SizeT > MaxMessage)
        BY <3>1, <3>4 DEF TooBigFor, TooBig
      <4>4. Len(dataMsg.payload) \in Nat /\ Len(dataMsg.payload) <= MaxMessage
        BY <1>1, <1>3, <2>1, <3>4
      <4>5. Len(dataMsg.payload) + needed' <= MaxMessage
        <5>1. /\ Len(dataMsg.payload) + needed' < SizeT
              /\ Len(dataMsg.payload) + needed' \in Nat
          <6>1. \A x, y, m, w \in Nat :
                  x <= m /\ m + y < w => x + y < w /\ x + y \in Nat
            OBVIOUS
          <6> QED BY <1>2, <4>1, <4>2, <4>4, <6>1, Zenon
        <5>2. (Len(dataMsg.payload) + needed') % SizeT
                = Len(dataMsg.payload) + needed'
          BY <1>2, <4>2, <4>4, <5>1, NoCut
        <5> QED BY <1>2, <4>3, <5>1, <5>2
      <4>6. dataMsg' = dataMsg /\ current' = "data"
        BY <3>1, <3>4 DEF StartPayload
      <4> QED BY <2>3, <4>4, <4>5, <4>6 DEF Fits
    <3> QED BY <3>2, <3>3, <3>4
  <2> QED BY <2>2, <2>3, <2>4
<1>7. CASE Payload
  <2> DEFINE n == Smaller(needed, avail - pos)
             msg == Extended(Message, Bytes(n))
  <2>1. /\ handler = "frames" /\ state = "APPLICATION" /\ SetMessage(msg)
        /\ \/ handler' = "stopped"
           \/ n < needed /\ needed' = needed - n /\ state' = state
           \/ state' \in {"HEADER_BASIC", "READY"}
    BY <1>7 DEF Payload, Consuming, Fail, ResetHeaders
  <2>2. n \in Nat /\ n <= needed /\ Bytes(n) \in Seq(Byte)
        /\ Len(Bytes(n)) = n
    BY Chunk
  <2>3. current \in {"data", "control"} /\ IsMessage(Message)
    BY <2>1 DEF IInv, CurrentOK
  <2> HIDE DEF n
  <2>4. CASE current = "control"
    <3>1. dataMsg' = dataMsg /\ current' = "control"
      BY <2>1, <2>4 DEF SetMessage
    <3> QED BY <1>4, <2>1, <3>1
  <2>5. CASE current = "data"
    <3>1. dataMsg' = msg /\ current' = "data" /\ Message = dataMsg
      BY <2>1, <2>5 DEF SetMessage, Message
    <3>2. Len(msg.payload) = Len(Message.payload) + Len(Bytes(n))
      BY <2>2, <2>3, ExtendedIsMessage
    <3> HIDE DEF msg
    <3>3. /\ Len(dataMsg.payload) \in Nat
          /\ Len(dataMsg.payload) + needed <= MaxMessage
      <4>1. dataMsg.payload \in Seq(Byte)
        BY <2>3, <3>1 DEF IsMessage
      <4> QED BY <1>3, <2>1, <2>5, <4>1
    <3>4. Len(msg.payload) = Len(dataMsg.payload) + n
      BY <2>2, <3>1, <3>2
    <3>5. Len(msg.payload) <= MaxMessage
      BY <1>2, <2>2, <3>3, <3>4
    <3>6. n < needed /\ needed' = needed - n =>
            Len(msg.payload) + needed' <= MaxMessage
      BY <1>2, <2>2, <3>3, <3>4
    <3> QED BY <2>1, <3>1, <3>5, <3>6 DEF Fits
  <2> QED BY <2>3, <2>4, <2>5
<1>8. CASE Dispatch
  <2>1. /\ handler = "frames" /\ state' = "HEADER_BASIC"
        /\ dataMsg' = dataMsg \/ dataMsg' = None
    BY <1>8 DEF Dispatch, SetMessage, ResetHeaders
  <2> QED BY <1>3, <2>1 DEF Fits
<1>9. CASE ReadFrame \/ Receive \/ LocalClose \/ Terminate \/ UNCHANGED vars
  <2>1. /\ dataMsg' = dataMsg /\ state' = state /\ needed' = needed
        /\ current' = current
    BY <1>9 DEF ReadFrame, Receive, LocalClose, Terminate, vars, headerVars,
                messageVars
  <2>2. handler' # "stopped" => handler # "stopped"
    <3>1. ReadFrame \/ Receive => handler # "stopped"
      BY DEF ReadFrame, Receive, Arrives
    <3>2. LocalClose \/ UNCHANGED vars => handler' = handler
      BY DEF LocalClose, vars, connectionVars
    <3>3. Terminate => handler' = "stopped"
      BY DEF Terminate
    <3> QED BY <1>9, <3>1, <3>2, <3>3
  <2> QED BY <2>1, <2>2, Zenon DEF Fits
<1> QED BY <1>5, <1>6, <1>7, <1>8, <1>9 DEF Next, Reading

\* Fits counts what MessageFits counts.
LEMMA FitsIsLimit == IInv /\ Fits => MessageFits
<1> SUFFICES ASSUME IInv, Fits, dataMsg # None, handler # "stopped"
             PROVE  Len(dataMsg.payload)
                      + (IF state = "APPLICATION" /\ current = "data"
                         THEN needed ELSE 0) <= MaxMessage
  BY DEF MessageFits
<1>1. dataMsg.payload \in Seq(Byte)
  BY DEF IInv, TypeOK, IsMessage
<1>2. Len(dataMsg.payload) \in Nat
  BY <1>1
<1>3. Len(dataMsg.payload) <= MaxMessage
  BY DEF Fits
<1>4. state = "APPLICATION" /\ current = "data" =>
        Len(dataMsg.payload) + needed <= MaxMessage
  BY DEF Fits
<1> QED BY <1>2, <1>3, <1>4

\* MessageFits while no frame gives a size near to 2^64: however a message is
\* cut into frames, and the frames into reads, it is not longer than
\* max_message_size.
THEOREM LimitHolds == ASSUME NoWrap PROVE Spec => []MessageFits
<1>1. Init => Fits
  <2>1. Init => dataMsg = None /\ state = "HEADER_BASIC"
    BY DEF Init, NewProcessor
  <2> QED BY <2>1 DEF Fits
<1>2. IInv /\ Fits /\ [Next]_vars => Fits'
  BY FitsStep
<1>3. IInv /\ Fits => MessageFits
  BY FitsIsLimit
<1> QED BY <1>1, <1>2, <1>3, Inductive, PTL DEF Spec

(***************************************************************************)
(* The validator                                                           *)
(***************************************************************************)
\* The validator of a text stands where one run over all its bytes so far would
\* stand, and that is not where it has given up.
TextGoes ==
    dataMsg.op = TEXT =>
      /\ dataMsg.validator = Decode(utf8_accept, dataMsg.payload)
      /\ dataMsg.validator # utf8_reject

Reads == state = "APPLICATION" /\ current = "data"

Validated == handler # "stopped" /\ (dataMsg # None \/ Reads) => TextGoes

\* The bytes of a frame are decoded where those before them ended.
LEMMA ExtendedDecodes ==
    ASSUME NEW msg, IsMessage(msg), NEW got \in Seq(Byte), msg.op = TEXT,
           msg.validator = Decode(utf8_accept, msg.payload)
    PROVE  /\ Extended(msg, got).op = TEXT
           /\ Extended(msg, got).validator
                = Decode(utf8_accept, Extended(msg, got).payload)
<1>1. PICK old \in Seq(Byte) : old = msg.payload
  BY DEF IsMessage
<1>2. Decode(utf8_accept, old \o got) = Decode(Decode(utf8_accept, old), got)
  BY DecodeConcat DEF utf8_accept, Utf8State
<1>3. /\ Extended(msg, got).op = TEXT
      /\ Extended(msg, got).payload = old \o got
      /\ Extended(msg, got).validator = Decode(msg.validator, got)
  BY <1>1 DEF Extended
<1> QED BY <1>1, <1>2, <1>3, Zenon

\* Every step keeps it.
LEMMA ValidatedStep ==
    ASSUME IInv, Validated, [Next]_vars
    PROVE  Validated'
<1>1. ASSUME dataMsg' = dataMsg, handler # "stopped", Reads' => Reads
      PROVE  Validated'
  BY <1>1, Zenon DEF Validated, TextGoes
<1>s. ASSUME handler' = "stopped" PROVE Validated'
  BY <1>s, Zenon DEF Validated
<1>2. CASE BasicHeader
  <2>1. /\ dataMsg' = dataMsg /\ handler # "stopped"
        /\ state' \in {"HEADER_BASIC", "HEADER_EXTENDED"}
    BY <1>2 DEF BasicHeader, Consuming, messageVars
  <2>2. ~Reads'
    BY <2>1 DEF Reads
  <2> QED BY <1>1, <2>1, <2>2, Zenon
<1>3. CASE ExtendedHeader
  <2>1. handler # "stopped"
    BY <1>3 DEF ExtendedHeader, Consuming
  <2>2. CASE handler' = "stopped"
    BY <1>s, <2>2
  <2>3. CASE state' # "APPLICATION"
    <3>1. dataMsg' = dataMsg
      BY <1>3, <2>3, Zenon DEF ExtendedHeader, StartPayload, messageVars
    <3>2. ~Reads'
      BY <2>3, Zenon DEF Reads
    <3> QED BY <1>1, <2>1, <3>1, <3>2, Zenon
  <2>4. CASE state' = "APPLICATION" /\ handler' # "stopped"
    <3> DEFINE op == get_opcode(basic[1])
    <3>1. StartPayload(op, needed')
      BY <1>3, <2>4, PayloadSize
    <3> HIDE DEF op
    <3>2. CASE is_control(op)
      <4>1. dataMsg' = dataMsg /\ current' # "data"
        BY <3>1, <3>2 DEF StartPayload
      <4>2. ~Reads'
        BY <4>1, Zenon DEF Reads
      <4> QED BY <1>1, <2>1, <4>1, <4>2, Zenon
    <3>3. CASE dataMsg # None /\ dataMsg' = dataMsg
      BY <2>1, <3>3, Zenon DEF Validated, TextGoes
    <3>4. CASE dataMsg' = NewMessage(op)
      <4>1. dataMsg'.payload = <<>> /\ dataMsg'.validator = utf8_accept
        BY <3>4 DEF NewMessage
      <4>2. Decode(utf8_accept, <<>>) = utf8_accept
        BY DecodeNone DEF utf8_accept, Utf8State
      <4>3. utf8_accept # utf8_reject
        BY DEF utf8_accept, utf8_reject
      <4> QED BY <4>1, <4>2, <4>3, Zenon DEF Validated, TextGoes
    <3> QED BY <3>1, <3>2, <3>3, <3>4, Zenon DEF StartPayload
  <2> QED BY <2>2, <2>3, <2>4
<1>4. CASE Payload
  <2> DEFINE got == Bytes(Smaller(needed, avail - pos))
             msg == Extended(Message, got)
  <2>1. /\ handler = "frames" /\ state = "APPLICATION" /\ SetMessage(msg)
        /\ msg.validator = utf8_reject => handler' = "stopped"
    BY <1>4 DEF Payload, Consuming, Fail
  <2>2. got \in Seq(Byte)
    BY Chunk
  <2>3. current \in {"data", "control"} /\ IsMessage(Message)
    BY <2>1 DEF IInv, CurrentOK
  <2> HIDE DEF got
  <2>4. CASE current = "control"
    <3>1. dataMsg' = dataMsg /\ current' # "data" /\ handler # "stopped"
      BY <2>1, <2>4 DEF SetMessage
    <3>2. ~Reads'
      BY <3>1, Zenon DEF Reads
    <3> QED BY <1>1, <3>1, <3>2, Zenon
  <2>5. CASE current = "data"
    <3>1. dataMsg' = msg /\ Message = dataMsg
      BY <2>1, <2>5 DEF SetMessage, Message
    <3>2. msg.op = Message.op
      BY DEF Extended
    <3>3. CASE handler' = "stopped"
      BY <1>s, <3>3
    <3>4. CASE handler' # "stopped" /\ dataMsg'.op # TEXT
      BY <3>4, Zenon DEF Validated, TextGoes
    <3>5. CASE handler' # "stopped" /\ dataMsg'.op = TEXT
      <4>1. dataMsg.op = TEXT
        BY <3>1, <3>2, <3>5, Zenon
      <4>2. dataMsg.validator = Decode(utf8_accept, dataMsg.payload)
        <5>1. Reads /\ handler # "stopped"
          BY <2>1, <2>5 DEF Reads
        <5> QED BY <4>1, <5>1, Zenon DEF Validated, TextGoes
      <4>3. msg.validator = Decode(utf8_accept, msg.payload)
        BY <2>2, <2>3, <3>1, <4>1, <4>2, ExtendedDecodes
      <4>4. msg.validator # utf8_reject
        BY <2>1, <3>5
      <4> HIDE DEF msg
      <4> QED BY <3>1, <4>3, <4>4, Zenon DEF Validated, TextGoes
    <3> QED BY <3>3, <3>4, <3>5, Zenon
  <2> QED BY <2>3, <2>4, <2>5
<1>5. CASE Dispatch
  <2>1. /\ handler = "frames" /\ (dataMsg' = dataMsg \/ dataMsg' = None)
        /\ state' = "HEADER_BASIC"
    BY <1>5 DEF Dispatch, SetMessage, ResetHeaders
  <2>2. ~Reads' /\ handler # "stopped"
    BY <2>1 DEF Reads
  <2>3. CASE dataMsg' = dataMsg
    BY <1>1, <2>2, <2>3, Zenon
  <2>4. CASE dataMsg' = None
    BY <2>2, <2>4, Zenon DEF Validated
  <2> QED BY <2>1, <2>3, <2>4, Zenon
<1>6. CASE ReadFrame \/ Receive \/ LocalClose \/ Terminate \/ UNCHANGED vars
  <2>1. dataMsg' = dataMsg /\ state' = state /\ current' = current
    BY <1>6 DEF ReadFrame, Receive, LocalClose, Terminate, vars, headerVars,
                messageVars
  <2>2. handler' # "stopped" => handler # "stopped"
    <3>1. ReadFrame \/ Receive => handler # "stopped"
      BY DEF ReadFrame, Receive, Arrives
    <3>2. LocalClose \/ UNCHANGED vars => handler' = handler
      BY DEF LocalClose, vars, connectionVars
    <3>3. Terminate => handler' = "stopped"
      BY DEF Terminate
    <3> QED BY <1>6, <3>1, <3>2, <3>3
  <2> QED BY <2>1, <2>2, Zenon DEF Validated, TextGoes, Reads
<1> QED BY <1>2, <1>3, <1>4, <1>5, <1>6 DEF Next, Reading

\* What the validator says is so of the text.
LEMMA ValidatedAgrees == IInv /\ Validated => ValidatorAgrees
<1> SUFFICES ASSUME IInv, Validated, dataMsg # None, handler # "stopped",
                    dataMsg.op = TEXT
             PROVE  /\ dataMsg.validator = utf8_accept <=> IsText(dataMsg.payload)
                    /\ BeginsText(dataMsg.payload)
  BY DEF ValidatorAgrees
<1>1. PICK text \in Seq(Byte) : text = dataMsg.payload
  <2>1. IsMessage(dataMsg)
    BY DEF IInv, TypeOK
  <2> QED BY <2>1, Zenon DEF IsMessage
<1>2. /\ dataMsg.validator = Decode(utf8_accept, text)
      /\ dataMsg.validator # utf8_reject
  BY <1>1, Zenon DEF Validated, TextGoes
<1>3. Decode(utf8_accept, text) = utf8_accept <=> IsText(text)
  BY AcceptsText
<1>4. Decode(utf8_accept, text) = utf8_reject <=> ~BeginsText(text)
  BY RejectsNoBeginning
<1> QED BY <1>1, <1>2, <1>3, <1>4, Zenon

(***************************************************************************)
(* The response                                                            *)
(***************************************************************************)
\* The bytes from a line of the response on.
LEMMA LineAt ==
    ASSUME NEW b \in Seq(Byte), NEW end \in Nat, NEW n \in Nat,
           IsResponse(b, end, n), NEW k \in 0..n, NEW a \in Nat,
           3 * k <= a, a <= Len(b)
    PROVE  LET part == SubSeq(b, 3 * k + 1, a) IN
           /\ part \in Seq(Byte) /\ Len(part) = a - 3 * k
           /\ k < n /\ Len(part) >= 1 =>
                part[1] \in Lines \ (Length + 1)..(Length + 9) /\ part[1] # CR
           /\ k < n /\ Len(part) >= 3 => part[2] = CR /\ part[3] = LF
           /\ k = n /\ Len(part) >= 2 => part[1] = CR /\ part[2] = LF
<1> DEFINE s == 3 * k
           part == SubSeq(b, 3 * k + 1, a)
<1>1. s \in Nat /\ s <= a /\ s + 1 = 3 * k + 1
  OBVIOUS
<1>2. part \in Seq(Byte) /\ Len(part) = a - s
  <2> HIDE DEF s
  <2> QED BY <1>1, Glue
<1>3. \A i \in 1..(a - s) : part[i] = b[s + i]
  <2> HIDE DEF s
  <2> QED BY <1>1, PartAt
<1>4. /\ end = 3 * n + 2 /\ b[end - 1] = CR /\ b[end] = LF
      /\ \A j \in 1..n :
           /\ b[3 * j - 2] \in Lines \ (Length + 1)..(Length + 9)
           /\ b[3 * j - 1] = CR /\ b[3 * j] = LF
  BY DEF IsResponse
<1>5. CASE k < n
  <2>1. /\ k + 1 \in 1..n /\ 3 * (k + 1) - 2 = s + 1
        /\ 3 * (k + 1) - 1 = s + 2 /\ 3 * (k + 1) = s + 3
    BY <1>5
  <2>2. /\ b[s + 1] \in Lines \ (Length + 1)..(Length + 9)
        /\ b[s + 2] = CR /\ b[s + 3] = LF
    BY <1>4, <2>1
  <2>3. \A x \in Lines : x # CR
    BY DEF Lines, Lengths, NoNumber, CR, Status101, StatusOther, Upgrade, Field,
           NoLine, Length
  <2> HIDE DEF s
  <2>4. a - s >= 1 => part[1] = b[s + 1]
    BY <1>1, <1>3
  <2>5. a - s >= 3 => part[2] = b[s + 2] /\ part[3] = b[s + 3]
    BY <1>1, <1>3
  <2>6. k # n
    BY <1>5
  <2> QED BY <1>2, <2>2, <2>3, <2>4, <2>5, <2>6, Zenon DEF s
<1>6. CASE ~(k < n)
  <2>1. k = n /\ end - 1 = s + 1 /\ end = s + 2
    BY <1>4, <1>6
  <2>2. b[s + 1] = CR /\ b[s + 2] = LF
    BY <1>4, <2>1
  <2> HIDE DEF s
  <2>3. a - s >= 2 => part[1] = b[s + 1] /\ part[2] = b[s + 2]
    BY <1>1, <1>3
  <2> QED BY <1>2, <1>6, <2>2, <2>3, Zenon DEF s
<1> QED BY <1>5, <1>6

\* The first of the delimiters is the least.
LEMMA DelimiterIs ==
    ASSUME buf \in Seq(Byte), NEW d \in Delimiters,
           \A i \in Delimiters : d <= i
    PROVE  Delimiter = d
<1>1. Delimiters \subseteq Nat
  BY DEF Delimiters
<1>2. Delimiter \in Delimiters /\ \A j \in Delimiters : Delimiter <= j
  BY DEF Delimiter
<1> HIDE DEF Delimiter
<1> QED BY <1>1, <1>2

\* While the response is read, m_buf of the response is what lies between its
\* next line and the last byte that arrived.
HeaderInv ==
    /\ handler = "response" => session = "connecting"
    /\ session = "connecting" =>
         /\ handler \in {"idle", "response"}
         /\ handler = "idle" => pos = avail
         /\ length \in {None, 0, NoNumber}
         /\ \E n \in Nat : \E k \in 0..n :
              /\ IsResponse(stream.bytes, stream.at[1], n)
              /\ 3 * k <= avail
              /\ buf = SubSeq(stream.bytes, 3 * k + 1, avail)

ResponseTypes ==
    /\ hstate \in {"RESPONSE_LINE", "HEADERS", "BODY", "DONE"}
    /\ mRead \in Nat /\ buf \in Seq(Byte)
    /\ status \in Lines \cup {None} /\ upgrades \in Nat
    /\ length \in 0..NoNumber \cup {None}

PathInv == IInv /\ HeaderInv /\ ResponseTypes

\* What a step of the handshake leaves alone.
LEMMA HandshakeIInv ==
    ASSUME IInv, session = "connecting", handler # "frames",
           stream' = stream, UNCHANGED frameVars,
           pos' \in Nat, avail' \in Nat, pos' <= avail',
           avail' <= Len(stream.bytes),
           \/ /\ session' = "connecting" /\ handler' \in {"idle", "response"}
              /\ fault' = fault
           \/ Refuse
    PROVE  IInv'
<1>1. /\ state' = state /\ needed' = needed /\ basic' = basic
      /\ extended' = extended /\ dataMsg' = dataMsg
      /\ controlMsg' = controlMsg /\ current' = current /\ taken' = taken
      /\ dispatched' = dispatched
  BY DEF frameVars, headerVars, messageVars, historyVars
<1>2. NewProcessor
  BY DEF IInv, Untouched
<1>3. /\ handler' \in {"idle", "response", "stopped"}
      /\ session' \in {"connecting", "closed"}
      /\ fault' \in {"none", "response", "frame"}
      /\ session' = "closed" => handler' = "stopped"
      /\ session' = "connecting" => fault' = fault
  BY DEF IInv, TypeOK, Refuse
<1>4. TypeOK'
  BY <1>1, <1>3, Zenon DEF IInv, TypeOK, IsMessage
<1>5. state = "HEADER_BASIC"
  BY <1>2 DEF NewProcessor
<1>6. InSync' /\ CurrentOK' /\ Waiting'
  BY <1>1, <1>3, <1>5 DEF InSync, CurrentOK, Waiting
<1>7. Untouched'
  BY <1>1, <1>2, <1>3, Zenon DEF Untouched, NewProcessor
<1> QED BY <1>4, <1>6, <1>7 DEF IInv

\* Bytes of the response arrive.
LEMMA ReadResponseStep == PathInv /\ ReadResponse => PathInv'
<1> SUFFICES ASSUME PathInv, ReadResponse PROVE PathInv'
  OBVIOUS
<1> DEFINE b == stream.bytes
<1>1. IInv /\ HeaderInv /\ ResponseTypes /\ TypeOK /\ stream \in Streams
  BY DEF PathInv, IInv
<1>2. PICK m \in 1..ReadSize : Arrives(m)
  BY DEF ReadResponse
<1>3. /\ session = "connecting" /\ handler = "idle" /\ stream' = stream
      /\ pos' = pos /\ avail' = avail + m /\ avail' <= Len(b)
      /\ UNCHANGED <<frameVars, hstate, mRead, status, upgrades, length>>
      /\ \/ Refuse /\ buf' = buf
         \/ /\ buf' = buf \o SubSeq(b, pos + 1, avail')
            /\ handler' = "response" /\ session' = session /\ fault' = fault
  BY <1>2 DEF ReadResponse, Arrives
<1>4. /\ pos \in Nat /\ avail \in Nat /\ pos <= avail /\ pos = avail
      /\ m \in Nat
  BY <1>1, <1>2, <1>3, LimitAssumption DEF TypeOK, HeaderInv, LimitAssumption
<1>5. avail' \in Nat /\ avail <= avail'
  BY <1>3, <1>4
<1>6. IInv'
  BY <1>1, <1>3, <1>4, <1>5, HandshakeIInv
<1>7. b \in Seq(Byte)
  BY <1>1, StreamAssumption DEF WellFramed
<1>8a. PICK n \in Nat : \E k \in 0..n :
         /\ IsResponse(b, stream.at[1], n) /\ 3 * k <= avail
         /\ buf = SubSeq(b, 3 * k + 1, avail)
  BY <1>1, <1>3, Zenon DEF HeaderInv
<1>8. PICK k \in 0..n :
        /\ IsResponse(b, stream.at[1], n) /\ 3 * k <= avail
        /\ buf = SubSeq(b, 3 * k + 1, avail)
  BY <1>8a
<1> HIDE DEF b
<1>9. CASE Refuse /\ buf' = buf
  BY <1>1, <1>3, <1>6, <1>9 DEF PathInv, HeaderInv, ResponseTypes, Refuse
<1>10. CASE /\ buf' = buf \o SubSeq(b, pos + 1, avail')
            /\ handler' = "response" /\ session' = session /\ fault' = fault
  <2>1. PICK s \in Nat : s = 3 * k
    OBVIOUS
  <2>2. s <= avail
    BY <1>8, <2>1
  <2>3. /\ SubSeq(b, s + 1, avail) \o SubSeq(b, avail + 1, avail')
             = SubSeq(b, s + 1, avail')
    BY <1>3, <1>4, <1>5, <1>7, <2>2, Glue
  <2>4. buf' = SubSeq(b, 3 * k + 1, avail') /\ 3 * k <= avail'
    <3>1. 3 * k <= avail'
      BY <1>4, <1>5, <2>1, <2>2
    <3> QED BY <1>4, <1>8, <1>10, <2>1, <2>3, <3>1, Zenon
  <2>5. SubSeq(b, s + 1, avail') \in Seq(Byte)
    <3>1. s <= avail'
      BY <1>4, <1>5, <2>2
    <3> QED BY <1>3, <1>5, <1>7, <3>1, Glue
  <2>6. ResponseTypes'
    BY <1>1, <1>3, <2>1, <2>4, <2>5, Zenon DEF ResponseTypes
  <2>7. HeaderInv'
    <3>1. length \in {None, 0, NoNumber}
      BY <1>1, <1>3 DEF HeaderInv
    <3>2. /\ n \in Nat /\ k \in 0..n
          /\ IsResponse(stream'.bytes, stream'.at[1], n) /\ 3 * k <= avail'
          /\ buf' = SubSeq(stream'.bytes, 3 * k + 1, avail')
      BY <1>3, <1>8, <2>4 DEF b
    <3> QED BY <1>3, <1>10, <3>1, <3>2, Zenon DEF HeaderInv
  <2> QED BY <1>6, <2>6, <2>7 DEF PathInv
<1> QED BY <1>3, <1>9, <1>10 DEF b

\* The first delimiter ends the next line, or is the blank line.
LEMMA FirstLine ==
    ASSUME PathInv, handler = "response", Delimiters # {}
    PROVE  \E n \in Nat : \E k \in 0..n :
             /\ IsResponse(stream.bytes, stream.at[1], n)
             /\ 3 * k <= avail
             /\ buf = SubSeq(stream.bytes, 3 * k + 1, avail)
             /\ Len(buf) = avail - 3 * k
             /\ \/ /\ k < n /\ Delimiter = 2 /\ Len(buf) >= 3
                   /\ buf[1] \in Lines \ (Length + 1)..(Length + 9)
                \/ k = n /\ Delimiter = 1 /\ Len(buf) >= 2
<1> DEFINE b == stream.bytes
           end == stream.at[1]
<1>1. IInv /\ HeaderInv /\ stream \in Streams /\ session = "connecting"
  BY DEF PathInv, IInv, HeaderInv
<1>2. /\ b \in Seq(Byte) /\ end \in Nat
  BY <1>1, StreamAssumption DEF WellFramed
<1>3. avail \in Nat /\ avail <= Len(b)
  BY <1>1 DEF IInv, TypeOK
<1> HIDE DEF b, end
<1>4. PICK n \in Nat : \E k \in 0..n :
         /\ IsResponse(b, end, n) /\ 3 * k <= avail
         /\ buf = SubSeq(b, 3 * k + 1, avail)
  BY <1>1, Zenon DEF HeaderInv, b, end
<1>5. PICK k \in 0..n :
        /\ IsResponse(b, end, n) /\ 3 * k <= avail
        /\ buf = SubSeq(b, 3 * k + 1, avail)
  BY <1>4
<1>6. /\ buf \in Seq(Byte) /\ Len(buf) = avail - 3 * k
      /\ k < n /\ Len(buf) >= 1 =>
           buf[1] \in Lines \ (Length + 1)..(Length + 9) /\ buf[1] # CR
      /\ k < n /\ Len(buf) >= 3 => buf[2] = CR /\ buf[3] = LF
      /\ k = n /\ Len(buf) >= 2 => buf[1] = CR /\ buf[2] = LF
  <2> DEFINE part == SubSeq(b, 3 * k + 1, avail)
  <2>1. /\ part \in Seq(Byte) /\ Len(part) = avail - 3 * k
        /\ k < n /\ Len(part) >= 1 =>
             part[1] \in Lines \ (Length + 1)..(Length + 9) /\ part[1] # CR
        /\ k < n /\ Len(part) >= 3 => part[2] = CR /\ part[3] = LF
        /\ k = n /\ Len(part) >= 2 => part[1] = CR /\ part[2] = LF
    BY <1>2, <1>3, <1>5, LineAt
  <2>2. buf = part
    BY <1>5
  <2> HIDE DEF part
  <2> QED BY <2>1, <2>2, Zenon
<1>7. Len(buf) \in Nat
  BY <1>6
<1>8. PICK d \in 1..(Len(buf) - 1) : buf[d] = CR /\ buf[d + 1] = LF
  BY DEF Delimiters
<1>9. Len(buf) >= 2
  BY <1>7, <1>8
<1>10. CASE k < n
  <2>1. buf[1] # CR /\ buf[1] \in Lines \ (Length + 1)..(Length + 9)
    BY <1>6, <1>7, <1>9, <1>10
  <2>2. d # 1
    BY <1>8, <2>1
  <2>3. Len(buf) >= 3
    BY <1>7, <1>8, <2>2
  <2>4. 2 \in Delimiters
    BY <1>6, <1>7, <1>10, <2>3 DEF Delimiters
  <2>5. \A i \in Delimiters : 2 <= i
    <3> SUFFICES ASSUME NEW i \in Delimiters PROVE 2 <= i
      OBVIOUS
    <3>1. i \in Nat /\ i >= 1 /\ i # 1
      BY <1>7, <2>1 DEF Delimiters
    <3> QED BY <3>1
  <2>6. Delimiter = 2
    BY <1>6, <2>4, <2>5, DelimiterIs
  <2> QED BY <1>5, <1>6, <1>10, <2>1, <2>3, <2>6 DEF b, end
<1>11. CASE ~(k < n)
  <2>1. k = n
    BY <1>11
  <2>2. 1 \in Delimiters
    BY <1>6, <1>7, <1>9, <2>1 DEF Delimiters
  <2>3. \A i \in Delimiters : 1 <= i
    BY <1>7 DEF Delimiters
  <2>4. Delimiter = 1
    BY <1>6, <2>2, <2>3, DelimiterIs
  <2> QED BY <1>5, <1>6, <1>9, <2>1, <2>4 DEF b, end
<1> QED BY <1>10, <1>11

\* No line is complete: what is there waits in buf.
LEMMA OutOfBytesStep == PathInv /\ OutOfBytes => PathInv'
<1> SUFFICES ASSUME PathInv, OutOfBytes PROVE PathInv'
  OBVIOUS
<1>1. IInv /\ HeaderInv /\ ResponseTypes /\ TypeOK
  BY DEF PathInv, IInv
<1>2. /\ handler = "response" /\ mRead' = mRead + avail - pos
      /\ pos' = avail /\ handler' = "idle" /\ stream' = stream
      /\ avail' = avail /\ session' = session /\ fault' = fault
      /\ UNCHANGED <<frameVars, hstate, buf, status, upgrades, length>>
  BY DEF OutOfBytes, networkVars
<1>3. session = "connecting"
  BY <1>1, <1>2 DEF HeaderInv
<1>4. /\ pos \in Nat /\ avail \in Nat /\ pos <= avail
      /\ avail <= Len(stream.bytes)
  BY <1>1 DEF TypeOK
<1>5. IInv'
  BY <1>1, <1>2, <1>3, <1>4, HandshakeIInv
<1>6. mRead \in Nat
  BY <1>1 DEF ResponseTypes
<1>7. mRead' \in Nat
  BY <1>2, <1>4, <1>6
<1>8. ResponseTypes'
  BY <1>1, <1>2, <1>7, Zenon DEF ResponseTypes
<1>9. HeaderInv'
  BY <1>1, <1>2, <1>3, Zenon DEF HeaderInv
<1> QED BY <1>5, <1>8, <1>9 DEF PathInv

\* A line is taken out of buf.
LEMMA ParseLineStep == PathInv /\ ParseLine => PathInv'
<1> SUFFICES ASSUME PathInv, ParseLine PROVE PathInv'
  OBVIOUS
<1> DEFINE b == stream.bytes
           end == stream.at[1]
<1>1. IInv /\ HeaderInv /\ ResponseTypes /\ TypeOK /\ stream \in Streams
  BY DEF PathInv, IInv
<1>2. /\ handler = "response" /\ Delimiters # {} /\ Delimiter > 1
      /\ stream' = stream /\ avail' = avail /\ pos' = pos /\ mRead' = mRead
      /\ UNCHANGED frameVars
      /\ \/ Refuse /\ UNCHANGED <<hstate, buf, status, upgrades, length>>
         \/ buf' = After(Delimiter) /\ UNCHANGED connectionVars
  BY DEF ParseLine, networkVars
<1>3. session = "connecting"
  BY <1>1, <1>2 DEF HeaderInv
<1>4. /\ pos \in Nat /\ avail \in Nat /\ pos <= avail
      /\ avail <= Len(stream.bytes)
  BY <1>1 DEF TypeOK
<1>5. \/ Refuse /\ UNCHANGED <<hstate, buf, status, upgrades, length>>
      \/ /\ buf' = After(Delimiter)
         /\ session' = session /\ handler' = handler /\ fault' = fault
  BY <1>2 DEF connectionVars
<1>6. IInv'
  BY <1>1, <1>2, <1>3, <1>4, <1>5, HandshakeIInv
<1>7. PICK n \in Nat : \E k \in 0..n :
        /\ IsResponse(b, end, n) /\ 3 * k <= avail
        /\ buf = SubSeq(b, 3 * k + 1, avail)
        /\ Len(buf) = avail - 3 * k
        /\ \/ /\ k < n /\ Delimiter = 2 /\ Len(buf) >= 3
              /\ buf[1] \in Lines \ (Length + 1)..(Length + 9)
           \/ k = n /\ Delimiter = 1 /\ Len(buf) >= 2
  BY <1>2, FirstLine, Zenon
<1> HIDE DEF b, end
<1>7a. Delimiter # 1
  BY <1>2
<1>8. PICK k \in 0..n :
        /\ IsResponse(b, end, n) /\ 3 * k <= avail
        /\ buf = SubSeq(b, 3 * k + 1, avail)
        /\ Len(buf) = avail - 3 * k
        /\ k < n /\ Delimiter = 2 /\ Len(buf) >= 3
        /\ buf[1] \in Lines \ (Length + 1)..(Length + 9)
  BY <1>7, <1>7a, Zenon
<1>9. PICK s \in Nat : s = 3 * k /\ s + 3 = 3 * (k + 1) /\ s + 3 <= avail
  BY <1>4, <1>8
<1>10. b \in Seq(Byte)
  BY <1>1, StreamAssumption DEF WellFramed, b
<1>11. CASE Refuse /\ UNCHANGED <<hstate, buf, status, upgrades, length>>
  BY <1>1, <1>2, <1>6, <1>11 DEF PathInv, HeaderInv, ResponseTypes, Refuse
<1>12. CASE /\ buf' = After(Delimiter)
            /\ session' = session /\ handler' = handler /\ fault' = fault
  <2>1. /\ buf' = SubSeq(b, (s + 3) + 1, avail) /\ buf' \in Seq(Byte)
    <3>1. buf = SubSeq(b, s + 1, avail) /\ Len(buf) = avail - s
      BY <1>8, <1>9
    <3>2. avail <= Len(b)
      BY <1>4 DEF b
    <3>3. SubSeq(SubSeq(b, s + 1, avail), 4, avail - s)
            = SubSeq(b, (s + 3) + 1, avail)
      BY <1>4, <1>9, <1>10, <3>2
    <3>4. SubSeq(b, (s + 3) + 1, avail) \in Seq(Byte)
      BY <1>4, <1>9, <1>10, <3>2, Glue
    <3>5. buf' = SubSeq(buf, 4, Len(buf))
      <4>1. Delimiter = 2
        BY <1>8
      <4>2. Delimiter + 2 = 4
        BY <4>1
      <4> QED BY <1>12, <4>2, Zenon DEF After
    <3> QED BY <3>1, <3>3, <3>4, <3>5, Zenon
  <2>2. buf[1] \in Lines /\ buf[1] \notin (Length + 1)..(Length + 9)
    BY <1>8
  <2>3. hstate' \in {"RESPONSE_LINE", "HEADERS", "BODY", "DONE"}
        /\ status' \in Lines \cup {None} /\ upgrades' \in Nat
    BY <1>1, <2>2 DEF ParseLine, ResponseTypes
  <2>4. length' \in {None, 0, NoNumber}
    <3>1. length \in {None, 0, NoNumber}
      BY <1>1, <1>3 DEF HeaderInv
    <3>2. \/ length' = length
          \/ buf[1] \in Lengths /\ length' = buf[1] - Length
      BY DEF ParseLine
    <3>3. buf[1] \in Lengths => buf[1] - Length \in {0, NoNumber}
      BY <2>2 DEF Lengths, Length, NoNumber
    <3> QED BY <3>1, <3>2, <3>3
  <2>5. ResponseTypes'
    <3>1. length' \in 0..NoNumber \cup {None}
      BY <2>4 DEF NoNumber
    <3> QED BY <1>1, <1>2, <2>1, <2>3, <3>1 DEF ResponseTypes
  <2>6. k + 1 \in 0..n /\ 3 * (k + 1) <= avail
    BY <1>8, <1>9
  <2>7. buf' = SubSeq(b, 3 * (k + 1) + 1, avail)
    BY <1>9, <2>1, Zenon
  <2>8. \E k1 \in 0..n :
          /\ IsResponse(stream'.bytes, stream'.at[1], n)
          /\ 3 * k1 <= avail'
          /\ buf' = SubSeq(stream'.bytes, 3 * k1 + 1, avail')
    BY <1>2, <1>8, <2>6, <2>7 DEF b, end
  <2>9. HeaderInv'
    BY <1>2, <1>3, <1>12, <2>4, <2>8, Zenon DEF HeaderInv
  <2> QED BY <1>6, <2>5, <2>9 DEF PathInv
<1> QED BY <1>5, <1>11, <1>12

\* The reader of frames begins at the first frame.
FirstByte ==
    /\ stream \in Streams /\ NewProcessor /\ pos = stream.at[1]
    /\ handler = "frames" /\ session = "open"
    /\ avail \in Nat /\ pos <= avail /\ avail <= Len(stream.bytes)

LEMMA FromFirstByte == FirstByte => IInv
BY NewReader DEF FirstByte

\* The blank line: what is left in buf are the bytes of the frames.
LEMMA HeaderCompleteStep == PathInv /\ HeaderComplete => PathInv'
<1> SUFFICES ASSUME PathInv, HeaderComplete PROVE PathInv'
  OBVIOUS
<1> DEFINE b == stream.bytes
           end == stream.at[1]
           left == Len(buf) - 2
<1>1. IInv /\ HeaderInv /\ ResponseTypes /\ TypeOK /\ stream \in Streams
  BY DEF PathInv, IInv
<1>2. /\ handler = "response" /\ Delimiters # {} /\ Delimiter = 1
      /\ stream' = stream /\ avail' = avail
      /\ UNCHANGED <<frameVars, status, upgrades, length>>
      /\ \/ /\ Refuse /\ UNCHANGED <<pos, hstate, buf>>
            /\ mRead' \in {mRead, 0}
         \/ /\ length # NoNumber
            /\ pos' = avail - left + BodyTaken(left)
            /\ mRead' = IF length = None THEN 0 ELSE length - BodyTaken(left)
            /\ hstate' = IF left > 0 /\ mRead' = 0 THEN "DONE" ELSE "BODY"
            /\ buf' = <<>>
            /\ \/ Refuse
               \/ session' = "open" /\ handler' = "frames" /\ fault' = fault
  BY DEF HeaderComplete, Open, networkVars
<1>3. session = "connecting"
  BY <1>1, <1>2 DEF HeaderInv
<1>4. /\ pos \in Nat /\ avail \in Nat /\ pos <= avail
      /\ avail <= Len(stream.bytes)
  BY <1>1 DEF TypeOK
<1>5. PICK n \in Nat : \E k \in 0..n :
        /\ IsResponse(b, end, n) /\ 3 * k <= avail
        /\ buf = SubSeq(b, 3 * k + 1, avail)
        /\ Len(buf) = avail - 3 * k
        /\ \/ /\ k < n /\ Delimiter = 2 /\ Len(buf) >= 3
              /\ buf[1] \in Lines \ (Length + 1)..(Length + 9)
           \/ k = n /\ Delimiter = 1 /\ Len(buf) >= 2
  BY <1>2, FirstLine, Zenon
<1>6. Delimiter # 2
  BY <1>2
<1>7. IsResponse(b, end, n) /\ Len(buf) = avail - 3 * n /\ Len(buf) >= 2
      /\ 3 * n <= avail
  BY <1>5, <1>6, Zenon
<1>8. end = 3 * n + 2
  BY <1>7 DEF IsResponse
<1>9. PICK rest \in Nat : rest = left /\ avail - rest = end
  <2> HIDE DEF end
  <2>1. left \in Nat /\ avail - left = end
    BY <1>4, <1>7, <1>8
  <2> QED BY <2>1
<1>10. length # NoNumber => length = None \/ length = 0
  BY <1>1, <1>3 DEF HeaderInv
<1>11. length # NoNumber => BodyTaken(left) = 0
  <2>1. Smaller(0, rest) = 0
    BY DEF Smaller
  <2> QED BY <1>9, <1>10, <2>1, Zenon DEF BodyTaken
<1>12. <<>> \in Seq(Byte)
  OBVIOUS
<1>13. CASE /\ Refuse /\ UNCHANGED <<pos, hstate, buf>>
            /\ mRead' \in {mRead, 0}
  <2>1. IInv'
    BY <1>1, <1>2, <1>3, <1>4, <1>13, HandshakeIInv
  <2>2. mRead' \in Nat
    BY <1>1, <1>13 DEF ResponseTypes
  <2>3. HeaderInv' /\ ResponseTypes'
    BY <1>1, <1>2, <1>12, <1>13, <2>2 DEF HeaderInv, ResponseTypes, Refuse
  <2> QED BY <2>1, <2>3 DEF PathInv
<1>14. CASE /\ length # NoNumber
            /\ pos' = avail - left + BodyTaken(left)
            /\ mRead' = IF length = None THEN 0 ELSE length - BodyTaken(left)
            /\ hstate' = IF left > 0 /\ mRead' = 0 THEN "DONE" ELSE "BODY"
            /\ buf' = <<>>
            /\ \/ Refuse
               \/ session' = "open" /\ handler' = "frames" /\ fault' = fault
  <2>1. pos' = end /\ mRead' = 0
    <3>1. pos' = avail - rest + 0
      BY <1>9, <1>11, <1>14, Zenon
    <3>2. end \in Nat
      BY <1>8
    <3>3. mRead' = 0
      BY <1>10, <1>11, <1>14
    <3> HIDE DEF end, left
    <3> QED BY <1>4, <1>9, <3>1, <3>2, <3>3
  <2>2. pos' <= avail' /\ pos' \in Nat
    BY <1>2, <1>4, <1>8, <1>9, <2>1
  <2>3. ASSUME Refuse PROVE IInv'
    BY <1>1, <1>2, <1>3, <1>4, <2>2, <2>3, HandshakeIInv
  <2>4. ASSUME session' = "open", handler' = "frames", fault' = fault
        PROVE  IInv'
    <3>1. NewProcessor
      BY <1>1, <1>3 DEF IInv, Untouched
    <3>2. NewProcessor'
      BY <1>2, <2>4, <3>1
         DEF NewProcessor, frameVars, headerVars, messageVars, historyVars
    <3>3. FirstByte'
      BY <1>1, <1>2, <1>4, <2>1, <2>2, <2>4, <3>2 DEF FirstByte
    <3>4. (FirstByte => IInv)'
      BY FromFirstByte, PTL
    <3> QED BY <3>3, <3>4
  <2>5. IInv'
    BY <1>14, <2>3, <2>4
  <2>6. HeaderInv'
    BY <1>14 DEF HeaderInv, Refuse
  <2>7. ResponseTypes'
    BY <1>1, <1>2, <1>12, <1>14, <2>1 DEF ResponseTypes
  <2> QED BY <2>5, <2>6, <2>7 DEF PathInv
<1> QED BY <1>2, <1>13, <1>14

\* After the response it is the reader of frames that makes the steps.
LEMMA ReaderStep == PathInv /\ Next /\ UNCHANGED responseVars => PathInv'
<1> SUFFICES ASSUME PathInv, Next, UNCHANGED responseVars PROVE PathInv'
  OBVIOUS
<1>1. IInv /\ HeaderInv /\ ResponseTypes
  BY DEF PathInv
<1>2. IInv'
  BY <1>1, ReadingStep
<1>3. ResponseTypes'
  BY <1>1 DEF ResponseTypes, responseVars
<1>4. session = "connecting" => Terminate
  <2>1. handler = "frames" => session # "connecting"
    BY <1>1 DEF IInv, Untouched
  <2> QED BY <2>1 DEF Next, Reading, BasicHeader, ExtendedHeader, Payload,
                      Consuming, Dispatch, ReadFrame, Receive, LocalClose
<1>5. Terminate => session' = "closed" /\ handler' = "stopped"
  BY DEF Terminate
<1>6. session # "connecting" => session' # "connecting"
  BY DEF Next, Reading, BasicHeader, ExtendedHeader, Payload, Dispatch,
         ReadFrame, Receive, LocalClose, Terminate, Fail, StartPayload,
         connectionVars
<1>7. handler # "response" => handler' # "response"
  BY DEF Next, Reading, BasicHeader, ExtendedHeader, Payload, Dispatch,
         ReadFrame, Receive, LocalClose, Terminate, Fail, StartPayload,
         connectionVars
<1>8. HeaderInv'
  BY <1>1, <1>4, <1>5, <1>6, <1>7 DEF HeaderInv
<1> QED BY <1>2, <1>3, <1>8 DEF PathInv

\* The invariant of the whole path
LEMMA PathInductive == PathSpec => []PathInv
<1>1. PathInit => PathInv
  <2> SUFFICES ASSUME PathInit PROVE PathInv
    OBVIOUS
  <2>1. /\ stream \in Streams /\ pos = 0 /\ avail = 0 /\ handler = "idle"
        /\ session = "connecting" /\ NewProcessor
        /\ hstate = "RESPONSE_LINE" /\ mRead = 0 /\ buf = <<>>
        /\ status = None /\ upgrades = 0 /\ length = None
    BY DEF PathInit
  <2>2. /\ stream.bytes \in Seq(Byte) /\ Len(stream.bytes) \in Nat
    <3>1. stream.bytes \in Seq(Byte)
      BY <2>1, StreamAssumption DEF WellFramed
    <3> QED BY <3>1
  <2>3. /\ state = "HEADER_BASIC" /\ needed = 2 /\ basic = <<>>
        /\ extended = <<>> /\ dataMsg = None /\ controlMsg = None
        /\ current = "none" /\ fault = "none" /\ taken = 0
        /\ dispatched = <<>>
    BY <2>1 DEF NewProcessor
  <2>4. /\ <<>> \in Seq(Byte)
        /\ <<>> \in Seq([op : 0..15, payload : Seq(Byte)])
    OBVIOUS
  <2>5. TypeOK
    BY <2>1, <2>2, <2>3, <2>4 DEF TypeOK
  <2>6. IInv
    BY <2>1, <2>3, <2>5 DEF IInv, InSync, Untouched, CurrentOK, Waiting
  <2>7. \E n \in Nat : \E k \in 0..n :
          /\ IsResponse(stream.bytes, stream.at[1], n)
          /\ 3 * k <= avail
          /\ buf = SubSeq(stream.bytes, 3 * k + 1, avail)
    <3>1. PICK n \in 0..Len(stream.bytes) :
            IsResponse(stream.bytes, stream.at[1], n)
      BY <2>1, ResponseAssumption
    <3>2. n \in Nat /\ 0 \in 0..n /\ 3 * 0 <= 0 /\ 3 * 0 + 1 = 1
      BY <2>2, <3>1
    <3>3. SubSeq(stream.bytes, 1, 0) = <<>>
      BY <2>2
    <3> QED BY <2>1, <3>1, <3>2, <3>3, Zenon
  <2>8. HeaderInv
    BY <2>1, <2>7, Zenon DEF HeaderInv
  <2>9. ResponseTypes
    BY <2>1, <2>4 DEF ResponseTypes
  <2> QED BY <2>6, <2>8, <2>9 DEF PathInv
<1>2. PathInv /\ [PathNext]_allVars => PathInv'
  <2>1. PathInv /\ UNCHANGED allVars => PathInv'
    <3> SUFFICES ASSUME PathInv, UNCHANGED allVars PROVE PathInv'
      OBVIOUS
    <3>1. UNCHANGED vars /\ UNCHANGED responseVars
      BY DEF allVars
    <3>2. IInv'
      BY <3>1, StutterStep DEF PathInv
    <3>3. HeaderInv' /\ ResponseTypes'
      BY <3>1 DEF PathInv, HeaderInv, ResponseTypes, vars, networkVars,
                  connectionVars, responseVars
    <3> QED BY <3>2, <3>3 DEF PathInv
  <2> QED BY <2>1, ReadResponseStep, OutOfBytesStep, ParseLineStep,
             HeaderCompleteStep, ReaderStep DEF PathNext, Handshake
<1> QED BY <1>1, <1>2, PTL DEF PathSpec

(***************************************************************************)
(* The theorems                                                            *)
(***************************************************************************)
\* PathTypeOK for every response, every sequence of frames and every way to cut
\* them into reads.
THEOREM PathTypes == PathSpec => []PathTypeOK
<1>1. PathInv => PathTypeOK
  BY DEF PathInv, IInv, ResponseTypes, PathTypeOK
<1> QED BY <1>1, PathInductive, PTL

\* InSync from the first byte of the connection on: the response takes no byte
\* of a frame and leaves none of its own.
THEOREM PathSynchronised == PathSpec => []InSync
<1>1. PathInv => InSync
  BY DEF PathInv, IInv
<1> QED BY <1>1, PathInductive, PTL

\* Prompt from the first byte on: a frame that came in one read with the
\* response, too, is handed on without another byte.
THEOREM PathPrompt == PathSpec => []Prompt
<1>1. PathInv => Prompt
  BY PromptFromInv DEF PathInv
<1> QED BY <1>1, PathInductive, PTL

\* MessageFits for the whole path while no size comes near to 2^64.
THEOREM PathLimit == ASSUME NoWrap PROVE PathSpec => []MessageFits
<1>1. PathInit => Fits
  <2>1. PathInit => dataMsg = None /\ state = "HEADER_BASIC"
    BY DEF PathInit, NewProcessor
  <2> QED BY <2>1 DEF Fits
<1>2. PathInv /\ Fits /\ [PathNext]_allVars => Fits'
  <2> SUFFICES ASSUME PathInv, Fits, [PathNext]_allVars PROVE Fits'
    OBVIOUS
  <2>1. CASE Next \/ UNCHANGED allVars
    BY <2>1, FitsStep DEF PathInv, allVars
  <2>2. CASE Handshake
    <3>1. /\ UNCHANGED frameVars /\ handler # "stopped"
      BY <2>2 DEF Handshake, ReadResponse, Arrives, OutOfBytes, ParseLine,
                  HeaderComplete
    <3> QED BY <3>1, Zenon
            DEF Fits, frameVars, headerVars, messageVars
  <2> QED BY <2>1, <2>2 DEF PathNext
<1>3. PathInv /\ Fits => MessageFits
  BY FitsIsLimit DEF PathInv
<1> QED BY <1>1, <1>2, <1>3, PathInductive, PTL DEF PathSpec

\* ValidatorAgrees: over any number of frames and reads, with control frames
\* between them, the validator accepts a text exactly when it is UTF-8, and the
\* connection reads on only while some text begins like that.
THEOREM PathValidates == PathSpec => []ValidatorAgrees
<1>1. PathInit => Validated
  <2>1. PathInit => dataMsg = None /\ state = "HEADER_BASIC"
    BY DEF PathInit, NewProcessor
  <2> QED BY <2>1 DEF Validated, Reads
<1>2. PathInv /\ Validated /\ [PathNext]_allVars => Validated'
  <2> SUFFICES ASSUME PathInv, Validated, [PathNext]_allVars PROVE Validated'
    OBVIOUS
  <2>1. CASE Next \/ UNCHANGED allVars
    BY <2>1, ValidatedStep DEF PathInv, allVars
  <2>2. CASE Handshake
    <3>1. UNCHANGED frameVars /\ handler # "stopped"
      BY <2>2 DEF Handshake, ReadResponse, Arrives, OutOfBytes, ParseLine,
                  HeaderComplete
    <3> QED BY <3>1, Zenon
            DEF Validated, TextGoes, Reads, frameVars, headerVars, messageVars
  <2> QED BY <2>1, <2>2 DEF PathNext
<1>3. PathInv /\ Validated => ValidatorAgrees
  BY ValidatedAgrees DEF PathInv
<1> QED BY <1>1, <1>2, <1>3, PathInductive, PTL DEF PathSpec

(***************************************************************************)
(* Frame by frame: the path implements FrameStream                         *)
(***************************************************************************)
\* FrameStream's texts are the same texts.
LEMMA SameText ==
    \A x : /\ FrameByFrame!IsText(x) <=> IsText(x)
           /\ FrameByFrame!BeginsText(x) <=> BeginsText(x)
<1>1. \A x : FrameByFrame!IsText(x) <=> IsText(x)
  BY DEF FrameByFrame!IsText, FrameByFrame!IsCodePoint, FrameByFrame!Trail,
         FrameByFrame!Value2, FrameByFrame!Value3, FrameByFrame!Value4,
         FrameByFrame!Surrogate,
         IsText, IsCodePoint, Trail, Value2, Value3, Value4, Surrogate
<1> QED BY <1>1 DEF FrameByFrame!BeginsText, FrameByFrame!Completions,
                    BeginsText, Completions

\* What FrameStream says of the frame f and the message m before it
Takes == session # "connecting" /\ handler # "stopped" /\ taken < Len(stream.frames)

Grown(f, m) ==
    IF m = None THEN [op |-> f.op, payload |-> f.payload]
    ELSE [m EXCEPT !.payload = @ \o f.payload]

WrongHeader(f) == f.rsv # 0 \/ reserved(f.op) \/ f.masked \/ f.badSize
WrongControl(f) == ~f.fin \/ Len(f.payload) > BasicLimit

WrongText(f, m) ==
    \/ ~BeginsText(Grown(f, m).payload)
    \/ f.fin /\ m = None /\ ~IsText(Grown(f, m).payload)

WrongData(f, m) ==
    \/ (m = None) # (f.op # CONTINUATION)
    \/ Len(Grown(f, m).payload) > MaxMessage
    \/ Grown(f, m).op = TEXT /\ WrongText(f, m)

Wrong(f, m) ==
    \/ WrongHeader(f)
    \/ is_control(f.op) /\ WrongControl(f)
    \/ ~is_control(f.op) /\ WrongData(f, m)

\* It is what FrameStream says.
LEMMA SameWrong ==
    FrameByFrame!Wrong <=> Wrong(stream.frames[taken + 1], WholeFrames)
BY SameText, Zenon
   DEF FrameByFrame!Wrong, FrameByFrame!WrongControl, FrameByFrame!WrongData,
       FrameByFrame!WrongText, FrameByFrame!Grown, FrameByFrame!Frame,
       FrameByFrame!reserved, FrameByFrame!is_control, FrameByFrame!CONTINUATION,
       FrameByFrame!TEXT,
       Wrong, WrongHeader, WrongControl, WrongData, WrongText, Grown, reserved,
       is_control, CONTINUATION, TEXT

\* The steps of FrameStream, by what they do to the variables of the path
LEMMA FailsAt ==
    ASSUME Takes, Wrong(stream.frames[taken + 1], WholeFrames), Fail,
           stream' = stream, taken' = taken, dispatched' = dispatched
    PROVE  FrameByFrame!FailAt
<1>1. WholeFrames' = None /\ handler' = "stopped"
  BY DEF Fail, WholeFrames
<1> QED BY <1>1, SameWrong
        DEF Takes, Fail, FrameByFrame!FailAt, FrameByFrame!Taking,
            FrameByFrame!Stop

\* A control frame is handed on.
LEMMA TakesControl ==
    ASSUME NEW f, f = stream.frames[taken + 1],
           Takes, ~Wrong(f, WholeFrames), is_control(f.op),
           dispatched' = IF session = "open"
                         THEN Append(dispatched,
                                     [op |-> f.op, payload |-> f.payload])
                         ELSE dispatched,
           session' = IF f.op = CLOSE THEN "closing" ELSE session,
           taken' = taken + 1, stream' = stream, fault' = fault,
           handler' = handler, WholeFrames' = WholeFrames
    PROVE  FrameByFrame!TakeControl
<1>1. FrameByFrame!Taking /\ ~FrameByFrame!Wrong
  BY SameWrong DEF Takes, FrameByFrame!Taking
<1> QED BY <1>1
        DEF FrameByFrame!TakeControl, FrameByFrame!Frame, FrameByFrame!HandOn,
            FrameByFrame!is_control, FrameByFrame!CLOSE, is_control, CLOSE

\* A data frame is added to the message, and with the last one it is handed on.
LEMMA TakesData ==
    ASSUME NEW f, f = stream.frames[taken + 1],
           Takes, ~Wrong(f, WholeFrames), ~is_control(f.op),
           IF f.fin
           THEN /\ dispatched' = IF session = "open"
                                 THEN Append(dispatched, Grown(f, WholeFrames))
                                 ELSE dispatched
                /\ WholeFrames' = None
           ELSE WholeFrames' = Grown(f, WholeFrames) /\ dispatched' = dispatched,
           taken' = taken + 1, stream' = stream, session' = session,
           fault' = fault, handler' = handler
    PROVE  FrameByFrame!TakeData
<1>1. FrameByFrame!Taking /\ ~FrameByFrame!Wrong
  BY SameWrong DEF Takes, FrameByFrame!Taking
<1>2. FrameByFrame!Grown = Grown(f, WholeFrames)
  BY DEF FrameByFrame!Grown, FrameByFrame!Frame, Grown
<1> QED BY <1>1, <1>2
        DEF FrameByFrame!TakeData, FrameByFrame!Frame, FrameByFrame!HandOn,
            FrameByFrame!is_control, is_control

\* What FrameStream does not see
LEMMA ShowsNothing ==
    ASSUME stream' = stream, session' = session, fault' = fault,
           handler' = "stopped" <=> handler = "stopped",
           taken' = taken, dispatched' = dispatched, WholeFrames' = WholeFrames
    PROVE  UNCHANGED FrameByFrame!vars
BY DEF FrameByFrame!vars

\* The opcode of the frame the processor is at, and what was read of its payload
Opcode == get_opcode(basic[1])
ReadOf ==
    SubSeq(stream.bytes, HeaderEnd(stream.bytes, stream.at[taken + 1]) + 1, pos)
InPayload == handler # "stopped" /\ state \in {"APPLICATION", "READY"}

\* Behind the basic header, nothing in it was wrong.
HeaderGood ==
    handler # "stopped" /\ state # "HEADER_BASIC" =>
      /\ ~BadBasicHeader(basic, Opcode # CONTINUATION)
      /\ state = "HEADER_EXTENDED" /\ ~is_control(Opcode) =>
           (dataMsg = None <=> Opcode # CONTINUATION)

\* Behind the extended header, nothing in that, and the message is the frame's.
SizeGood ==
    InPayload =>
      /\ ~BadSize(basic[2],
                     SizeAt(stream.bytes, stream.at[taken + 1]))
      /\ needed <= SizeAt(stream.bytes, stream.at[taken + 1])
      /\ current = IF is_control(Opcode) THEN "control" ELSE "data"

ControlGood ==
    InPayload /\ current = "control" =>
      controlMsg = [op |-> Opcode, payload |-> ReadOf, validator |-> utf8_accept]

\* A data message ends with what was read of the frame.
DataGood ==
    InPayload /\ current = "data" =>
      /\ dataMsg # None
      /\ \E old \in Seq(Byte) :
           /\ dataMsg.payload = old \o ReadOf
           /\ Opcode # CONTINUATION => old = <<>> /\ dataMsg.op = Opcode

ReadyGood ==
    handler # "stopped" /\ state = "READY" =>
      /\ get_fin(basic[1])
      /\ Opcode = TEXT => dataMsg.validator = utf8_accept

\* What a data message is whatever frame comes
KindGood ==
    handler # "stopped" /\ dataMsg # None =>
      /\ dataMsg \in [op : 0..15, payload : Seq(Byte), validator : Utf8State]
      /\ ~is_control(dataMsg.op)
      /\ dataMsg.op # TEXT => dataMsg.validator = utf8_accept

\* The lines of the response, and u: that among the headers up to the k-th there
\* is none, or one, of those that the handshake asks for.
HeaderLines == [j \in Nat |-> stream.bytes[3 * j - 2]]
Given(line, k, u) ==
    /\ u = 0 <=> \A j \in 2..k : line[j] # Upgrade
    /\ u = 1 <=> \E i \in 2..k : \A j \in 2..k : line[j] = Upgrade <=> j = i

\* That l is the first Content-Length among the headers up to the k-th, all of
\* which are 0 or no number
LengthFirst(line, k) ==
    \A i \in 2..k : line[i] = Length + NoNumber =>
      \E j \in 2..(i - 1) : line[j] = Length
LengthRead(line, k, l) ==
    /\ l = None <=> \A j \in 2..k : line[j] \notin {Length, Length + NoNumber}
    /\ l = NoNumber <=> ~LengthFirst(line, k)

\* What the lines of the response that were read say
LinesRead(k) ==
    /\ hstate = IF k = 0 THEN "RESPONSE_LINE" ELSE "HEADERS"
    /\ k > 0 => status = HeaderLines[1]
    /\ \A j \in 1..k : HeaderLines[j] # NoLine
    /\ Given(HeaderLines, k, upgrades)
    /\ LengthRead(HeaderLines, k, length)

ResponseRead ==
    session = "connecting" =>
      /\ mRead = pos
      /\ handler = "response" => avail <= MaxHeader
      /\ \A k \in Nat : 3 * k + Len(buf) = avail => LinesRead(k)

ReadInv ==
    /\ HeaderGood /\ SizeGood /\ ControlGood /\ DataGood /\ ReadyGood
    /\ KindGood

Good == IInv /\ Fits /\ Validated /\ ReadInv

InData == state \in {"APPLICATION", "READY"} /\ current = "data"

(***************************************************************************)
(* The frame at hand                                                       *)
(***************************************************************************)
\* The frame that the stream is said to have is the one in its bytes.
LEMMA FrameHere ==
    ASSUME IInv, session # "connecting", handler # "stopped",
           taken + 1 \in 1..(Len(stream.at) - 1),
           NEW f, f = stream.frames[taken + 1],
           NEW b, b = stream.bytes, NEW o, o = stream.at[taken + 1]
    PROVE  /\ Takes
           /\ f.fin <=> get_fin(b[o + 1])
           /\ f.rsv = get_rsv(b[o + 1])
           /\ f.op = get_opcode(b[o + 1]) /\ f.op \in 0..15
           /\ f.masked <=> get_masked(b[o + 2])
           /\ f.badSize <=> BadSize(b[o + 2], SizeAt(b, o))
           /\ f.payload = SubSeq(b, HeaderEnd(b, o) + 1, stream.at[taken + 2])
           /\ f.payload \in Seq(Byte) /\ Len(f.payload) = SizeAt(b, o)
<1> DEFINE frame(k) == FrameAt(stream.bytes, stream.at[k])
<1>1. stream \in Streams /\ taken \in Nat
  BY DEF IInv, TypeOK
<1>2. stream.frames = [k \in 1..(Len(stream.at) - 1) |-> frame(k)]
  BY <1>1, MeaningAssumption
<1>3. Len(stream.at) - 1 \in Nat /\ taken < Len(stream.at) - 1
  <2>1. Len(stream.at) \in Nat
    BY <1>1, StreamAssumption DEF WellFramed
  <2> QED BY <1>1, <2>1
<1>4. f = frame(taken + 1)
  <2> HIDE DEF frame
  <2> QED BY <1>2
<1>5. Len(stream.frames) = Len(stream.at) - 1
  <2> HIDE DEF frame
  <2>1. PICK n \in Nat : n = Len(stream.at) - 1
    BY <1>3
  <2>2. stream.frames = [k \in 1..n |-> frame(k)]
    BY <1>2, <2>1
  <2>3. Len([k \in 1..n |-> frame(k)]) = n
    BY <2>1
  <2> QED BY <2>1, <2>2, <2>3
<1>6. Takes
  BY <1>3, <1>5 DEF Takes
<1>7. f = FrameAt(b, o)
  BY <1>4
<1>8. /\ o \in Nat /\ b[o + 1] \in Byte /\ b[o + 2] \in Byte
      /\ HeaderEnd(b, o) \in Nat /\ SizeAt(b, o) \in Nat
      /\ stream.at[taken + 2] = HeaderEnd(b, o) + SizeAt(b, o)
      /\ stream.at[taken + 2] <= Len(b)
  <2>1. (taken + 1) + 1 = taken + 2
    BY <1>1
  <2> QED BY <1>1, <2>1, FrameFacts
<1>9. b \in Seq(Byte)
  BY <1>1, StreamAssumption DEF WellFramed
<1>10. /\ f.fin <=> get_fin(b[o + 1])
       /\ f.masked <=> get_masked(b[o + 2])
       /\ f.badSize <=> BadSize(b[o + 2], SizeAt(b, o))
  BY <1>7 DEF FrameAt
<1>11. /\ f.rsv = get_rsv(b[o + 1]) /\ f.op = get_opcode(b[o + 1])
       /\ f.payload = SubSeq(b, HeaderEnd(b, o) + 1,
                             HeaderEnd(b, o) + SizeAt(b, o))
  <2>1. f.rsv = get_rsv(b[o + 1]) /\ f.op = get_opcode(b[o + 1])
    BY <1>7 DEF FrameAt
  <2>2. f.payload = SubSeq(b, HeaderEnd(b, o) + 1,
                           HeaderEnd(b, o) + SizeAt(b, o))
    <3>1. PICK x : x = SubSeq(b, HeaderEnd(b, o) + 1,
                              HeaderEnd(b, o) + SizeAt(b, o))
      OBVIOUS
    <3>2. f = [fin |-> get_fin(b[o + 1]), rsv |-> get_rsv(b[o + 1]),
               op |-> get_opcode(b[o + 1]), masked |-> get_masked(b[o + 2]),
               badSize |-> BadSize(b[o + 2], SizeAt(b, o)),
               payload |-> x]
      BY <1>7, <3>1, Zenon DEF FrameAt
    <3>3. f.payload = x
      BY <3>2
    <3> QED BY <3>1, <3>3
  <2> QED BY <2>1, <2>2
<1>12. f.op \in 0..15
  BY <1>8, <1>11, FieldTypes
<1>13. f.payload \in Seq(Byte) /\ Len(f.payload) = SizeAt(b, o)
  <2>1. PICK h \in Nat, z \in Nat : h = HeaderEnd(b, o) /\ z = SizeAt(b, o)
    BY <1>8, Zenon
  <2>b. PICK q \in Nat : q = h + z /\ h <= q /\ q - h = z
    OBVIOUS
  <2>a. q = h + SizeAt(b, o) /\ h <= q /\ q - h = SizeAt(b, o)
    BY <2>1, <2>b, Zenon
  <2>2. q <= Len(b)
    BY <1>8, <2>1, <2>a
  <2>3. SubSeq(b, h + 1, q) \in Seq(Byte) /\ Len(SubSeq(b, h + 1, q)) = q - h
    BY <1>9, <2>a, <2>2, GlueLeft
  <2> QED BY <1>11, <2>1, <2>a, <2>3, Zenon
<1> QED BY <1>6, <1>8, <1>10, <1>11, <1>12, <1>13, Zenon

\* Behind the basic header its two bytes are those of the frame.
LEMMA FrameRead ==
    ASSUME IInv, handler = "frames", state # "HEADER_BASIC",
           NEW f, f = stream.frames[taken + 1],
           NEW size, size = SizeAt(stream.bytes, stream.at[taken + 1])
    PROVE  /\ Takes
           /\ f.fin <=> get_fin(basic[1])
           /\ f.rsv = get_rsv(basic[1])
           /\ f.op = Opcode /\ Opcode \in 0..15
           /\ f.masked <=> get_masked(basic[2])
           /\ f.badSize <=> BadSize(basic[2], size)
           /\ f.payload \in Seq(Byte) /\ Len(f.payload) = size /\ size \in Nat
<1> DEFINE b == stream.bytes
           o == stream.at[taken + 1]
<1>1. /\ session # "connecting" /\ taken + 1 \in 1..(Len(stream.at) - 1)
      /\ Len(basic) = 2 /\ basic = SubSeq(b, o + 1, o + Len(basic))
      /\ basic[2] = b[o + 2]
  BY InFrame
<1>2. stream \in Streams
  BY DEF IInv
<1>3. o \in Nat /\ o + 2 <= Len(b) /\ SizeAt(b, o) \in Nat
  BY <1>1, <1>2, FrameFacts
<1>4. b \in Seq(Byte)
  BY <1>2, StreamAssumption DEF WellFramed
<1>5. basic[1] = b[o + 1]
  <2> HIDE DEF b, o
  <2>1. basic = SubSeq(b, o + 1, o + 2)
    BY <1>1, Zenon
  <2>2. 1 \in 1..((o + 2) - o) /\ o + 2 \in Nat /\ o <= o + 2
    BY <1>3
  <2> QED BY <1>3, <1>4, <2>1, <2>2, PartAt
<1>6. /\ Takes
      /\ f.fin <=> get_fin(b[o + 1])
      /\ f.rsv = get_rsv(b[o + 1])
      /\ f.op = get_opcode(b[o + 1]) /\ f.op \in 0..15
      /\ f.masked <=> get_masked(b[o + 2])
      /\ f.badSize <=> BadSize(b[o + 2], SizeAt(b, o))
      /\ f.payload \in Seq(Byte) /\ Len(f.payload) = SizeAt(b, o)
  BY <1>1, FrameHere
<1> QED BY <1>1, <1>3, <1>5, <1>6, Zenon DEF Opcode

\* A size that is not given in more bytes than it needs is above the limit of a
\* control frame just when the basic header says so.
LEMMA SmallSize ==
    ASSUME NEW s \in Streams, NEW k \in 1..(Len(s.at) - 1),
           NEW b2, b2 = s.bytes[s.at[k] + 2],
           NEW size, size = SizeAt(s.bytes, s.at[k])
    PROVE  BadSize(b2, size) \/ (get_basic_size(b2) > BasicLimit
                                      <=> size > BasicLimit)
<1>1. get_basic_size(b2) <= Code64 /\ b2 \in Byte /\ size \in Nat
  BY StreamAssumption, FrameFacts DEF WellFramed
<1>2. get_basic_size(b2) \in 0..127
  BY <1>1, FieldTypes
<1>3. BasicLimit <= ExtendedLimit
  BY FrameAssumption DEF FrameAssumption
<1>4. CASE get_basic_size(b2) <= BasicLimit
  <2>1. get_basic_size(b2) # Code16
    BY <1>2, <1>4, Limits
  <2>2. size = get_basic_size(b2)
    BY <1>4, <2>1 DEF SizeAt, get_payload_size
  <2> QED BY <1>2, <1>4, <2>2
<1>5. CASE ~(get_basic_size(b2) <= BasicLimit)
  <2>0. PICK code \in 0..127 : code = get_basic_size(b2)
    BY <1>2
  <2>1. get_basic_size(b2) > BasicLimit
        /\ get_basic_size(b2) \in {Code16, Code64}
    <3>1. code <= Code64 /\ ~(code <= BasicLimit)
      BY <1>1, <1>5, <2>0, Zenon
    <3>2. code > BasicLimit
      BY <3>1, Limits
    <3>3. code = Code16 \/ code = Code64
      BY <3>1, <3>2, Limits
    <3> QED BY <2>0, <3>2, <3>3
  <2>2. CASE size > BasicLimit
    BY <2>1, <2>2
  <2>3. CASE ~(size > BasicLimit)
    <3>1. size <= BasicLimit /\ size <= ExtendedLimit
      BY <1>1, <1>3, <2>3, Limits
    <3> QED BY <2>1, <3>1 DEF BadSize
  <2> QED BY <2>2, <2>3
<1> QED BY <1>4, <1>5

\* validate_incoming_basic_header refuses what FrameStream calls wrong in it.
LEMMA HeaderVerdict ==
    ASSUME NEW f, NEW m, NEW header,
           f.fin <=> get_fin(header[1]), f.rsv = get_rsv(header[1]),
           f.op = get_opcode(header[1]), f.op \in 0..15,
           f.masked <=> get_masked(header[2]),
           f.badSize \/ (get_basic_size(header[2]) > BasicLimit
                          <=> Len(f.payload) > BasicLimit)
    PROVE  BadBasicHeader(header, m = None) \/ f.badSize
             <=> \/ WrongHeader(f)
                 \/ is_control(f.op) /\ WrongControl(f)
                 \/ ~is_control(f.op) /\ (m = None) # (f.op # CONTINUATION)
<1>1. f.op = CONTINUATION => ~is_control(f.op)
  BY DEF CONTINUATION, is_control
<1>2. BadBasicHeader(header, m = None)
        <=> \/ is_control(f.op) /\ get_basic_size(header[2]) > BasicLimit
            \/ f.rsv # 0 \/ reserved(f.op)
            \/ is_control(f.op) /\ ~f.fin
            \/ m = None /\ f.op = CONTINUATION
            \/ m # None /\ ~is_control(f.op) /\ f.op # CONTINUATION
            \/ f.masked
  BY Zenon DEF BadBasicHeader
<1>3. ~is_control(f.op) /\ (m = None) # (f.op # CONTINUATION)
        <=> \/ m = None /\ f.op = CONTINUATION
            \/ m # None /\ ~is_control(f.op) /\ f.op # CONTINUATION
  BY <1>1
<1> QED BY <1>2, <1>3, Zenon DEF WrongHeader, WrongControl

(***************************************************************************)
(* The message before the frame at hand                                    *)
(***************************************************************************)
\* What was read of the payload, and that it is all of it in the end
LEMMA ReadOfIs ==
    ASSUME IInv, ReadInv, handler = "frames", state \in {"APPLICATION", "READY"},
           NEW size, size = SizeAt(stream.bytes, stream.at[taken + 1])
    PROVE  /\ ReadOf \in Seq(Byte) /\ Len(ReadOf) = size - needed
           /\ size \in Nat /\ needed \in Nat /\ needed <= size
           /\ needed = 0 => ReadOf = stream.frames[taken + 1].payload
<1> DEFINE b == stream.bytes
           o == stream.at[taken + 1]
<1>1. /\ session # "connecting" /\ taken + 1 \in 1..(Len(stream.at) - 1)
  BY InFrame
<1>2. stream \in Streams /\ pos \in Nat /\ needed \in Nat /\ taken \in Nat
  BY DEF IInv, TypeOK
<1>3. /\ HeaderEnd(b, o) \in Nat /\ SizeAt(b, o) \in Nat
      /\ stream.at[taken + 2] = HeaderEnd(b, o) + SizeAt(b, o)
      /\ stream.at[taken + 2] <= Len(b)
  <2>1. (taken + 1) + 1 = taken + 2
    BY <1>2
  <2> QED BY <1>1, <1>2, <2>1, FrameFacts
<1>4. pos + needed = stream.at[taken + 2]
  BY PayloadEnd
<1>5. needed <= size
  BY DEF ReadInv, SizeGood, InPayload
<1>6. b \in Seq(Byte)
  BY <1>2, StreamAssumption DEF WellFramed
<1>7. PICK h \in Nat : h = HeaderEnd(b, o) /\ h <= pos /\ pos - h = size - needed
  BY <1>2, <1>3, <1>4, <1>5
<1>8. pos <= Len(b)
  BY <1>2, <1>3, <1>4, <1>6
<1>9. SubSeq(b, h + 1, pos) \in Seq(Byte) /\ Len(SubSeq(b, h + 1, pos)) = pos - h
  BY <1>2, <1>6, <1>7, <1>8, GlueLeft
<1>10. stream.frames[taken + 1].payload
         = SubSeq(b, HeaderEnd(b, o) + 1, stream.at[taken + 2])
  BY <1>1, FrameHere
<1>11. needed = 0 => pos = stream.at[taken + 2]
  BY <1>2, <1>4
<1>12. ReadOf = SubSeq(b, HeaderEnd(b, o) + 1, pos)
  BY DEF ReadOf
<1> QED BY <1>2, <1>3, <1>5, <1>7, <1>9, <1>10, <1>11, <1>12, Zenon

\* Between two data frames the message is what was read.
LEMMA WholeOutside ==
    handler # "stopped" /\ ~InData /\ KindGood =>
      WholeFrames = IF dataMsg = None THEN None
                    ELSE [op |-> dataMsg.op, payload |-> dataMsg.payload]
<1> SUFFICES ASSUME handler # "stopped", ~InData, KindGood, dataMsg # None
             PROVE  WholeFrames = [op |-> dataMsg.op, payload |-> dataMsg.payload]
  BY DEF WholeFrames, InData
<1>1. PICK p \in Seq(Byte) : p = dataMsg.payload
  BY DEF KindGood
<1>2. SubSeq(p, 1, Len(p) - 0) = p
  BY <1>1
<1>3. WholeFrames = [op |-> dataMsg.op,
                     payload |-> SubSeq(dataMsg.payload, 1,
                                        Len(dataMsg.payload) - 0)]
  BY Zenon DEF WholeFrames, InData
<1> QED BY <1>1, <1>2, <1>3, Zenon

\* Within a data frame it is what was there before the frame.
LEMMA WholeInside ==
    IInv /\ ReadInv /\ handler = "frames" /\ InData =>
      \A old \in Seq(Byte) : dataMsg.payload = old \o ReadOf =>
        WholeFrames = IF Opcode # CONTINUATION THEN None
                      ELSE [op |-> dataMsg.op, payload |-> old]
<1> SUFFICES ASSUME IInv, ReadInv, handler = "frames", InData,
                    NEW old \in Seq(Byte), dataMsg.payload = old \o ReadOf
             PROVE  WholeFrames = IF Opcode # CONTINUATION THEN None
                                  ELSE [op |-> dataMsg.op, payload |-> old]
  OBVIOUS
<1>1. PICK size : size = SizeAt(stream.bytes, stream.at[taken + 1])
  OBVIOUS
<1>2. /\ ReadOf \in Seq(Byte) /\ Len(ReadOf) = size - needed
      /\ size \in Nat /\ needed \in Nat /\ needed <= size
  BY <1>1, ReadOfIs DEF InData
<1>3. dataMsg # None
  BY DEF ReadInv, DataGood, InData, InPayload
<1>4. PICK read \in Seq(Byte) : read = ReadOf
  BY <1>2
<1>5. SubSeq(old \o read, 1, Len(old \o read) - (size - needed)) = old
  <2>1. PICK n \in Nat : n = Len(old)
    OBVIOUS
  <2>2. Len(old \o read) - (size - needed) = n
    <3>1. PICK m \in Nat : m = Len(read)
      OBVIOUS
    <3>2. Len(old \o read) = n + m
      BY <2>1, <3>1
    <3>3. m = size - needed
      BY <1>2, <1>4, <3>1
    <3>4. (n + m) - m = n
      BY <2>1
    <3> QED BY <3>2, <3>3, <3>4, Zenon
  <2>3. SubSeq(old \o read, 1, n) = old
    BY <2>1
  <2> QED BY <2>2, <2>3, Zenon
<1>6. CASE Opcode # CONTINUATION
  BY <1>6, Zenon DEF WholeFrames, InData, Opcode
<1>7. CASE Opcode = CONTINUATION
  <2>1. WholeFrames = [op |-> dataMsg.op,
                       payload |-> SubSeq(dataMsg.payload, 1,
                                          Len(dataMsg.payload) - (size - needed))]
    <3>1. handler # "stopped"
      OBVIOUS
    <3> QED BY <1>1, <1>3, <1>7, <3>1, Zenon DEF WholeFrames, InData, Opcode
  <2> QED BY <1>4, <1>5, <1>7, <2>1, Zenon
<1> QED BY <1>6, <1>7

(***************************************************************************)
(* Each step is one of FrameStream or shows it nothing                     *)
(***************************************************************************)
\* With its last byte the basic header is that of the frame.
LEMMA BasicBytes ==
    ASSUME IInv, handler = "frames", state = "HEADER_BASIC",
           pos < avail \/ needed = 0, ~(Smaller(needed, avail - pos) < needed)
    PROVE  LET header == basic \o Bytes(Smaller(needed, avail - pos))
               b == stream.bytes
               o == stream.at[taken + 1]
           IN  /\ session # "connecting" /\ taken + 1 \in 1..(Len(stream.at) - 1)
               /\ header[1] = b[o + 1] /\ header[2] = b[o + 2]
<1> DEFINE n == Smaller(needed, avail - pos)
           header == basic \o Bytes(n)
           b == stream.bytes
           o == stream.at[taken + 1]
<1>1. /\ TypeOK /\ stream \in Streams /\ InSync /\ session # "connecting"
      /\ pos \in Nat /\ avail \in Nat /\ needed \in Nat
  BY DEF IInv, Untouched, TypeOK
<1>2. n \in Nat /\ n <= needed /\ ~(n < needed)
  BY Chunk
<1> HIDE DEF n, header, b, o
<1>3. PICK l \in 0..1 : /\ Len(basic) = l /\ needed = 2 - l /\ pos = o + l
                        /\ basic = SubSeq(b, o + 1, o + l)
  BY <1>1 DEF InSync, b, o
<1>4. pos < avail
  BY <1>1, <1>3
<1>5. taken + 1 \in 1..(Len(stream.at) - 1)
  BY <1>1, <1>4, FrameThere
<1>6. o \in Nat /\ o + 2 <= Len(b)
  BY <1>1, <1>5, FrameFacts DEF b, o
<1>7. b \in Seq(Byte)
  BY <1>1, StreamAssumption DEF WellFramed, b
<1>8. PICK q \in Nat : q = o + 2
  BY <1>6
<1>9. pos + n = q /\ pos <= q /\ o <= pos /\ q <= Len(b)
  BY <1>1, <1>2, <1>3, <1>6, <1>8
<1>10. SubSeq(b, o + 1, pos) \o SubSeq(b, pos + 1, q) = SubSeq(b, o + 1, q)
  BY <1>1, <1>6, <1>7, <1>9, Glue
<1>11. header = SubSeq(b, o + 1, q)
  BY <1>3, <1>9, <1>10, Zenon DEF Bytes, header, b
<1>12. 1 \in 1..(q - o) /\ 2 \in 1..(q - o) /\ o <= q
  BY <1>6, <1>8
<1>13. header[1] = b[o + 1] /\ header[2] = b[o + 2]
  BY <1>6, <1>7, <1>9, <1>11, <1>12, PartAt
<1> QED BY <1>1, <1>5, <1>13, Zenon DEF header, n, b, o

\* With its last byte the extended header gives the size of the frame.
LEMMA ExtendedBytes ==
    ASSUME IInv, handler = "frames", state = "HEADER_EXTENDED",
           ~(Smaller(needed, avail - pos) < needed)
    PROVE  LET n == Smaller(needed, avail - pos)
               b == stream.bytes
               o == stream.at[taken + 1]
           IN  /\ get_payload_size(basic[2], extended \o Bytes(n)) = SizeAt(b, o)
               /\ pos + n = HeaderEnd(b, o) /\ HeaderEnd(b, o) \in Nat
<1> DEFINE n == Smaller(needed, avail - pos)
           b == stream.bytes
           o == stream.at[taken + 1]
<1>1. /\ TypeOK /\ stream \in Streams /\ InSync
      /\ pos \in Nat /\ avail \in Nat /\ needed \in Nat
      /\ extended \in Seq(Byte)
  BY DEF IInv, TypeOK
<1>2. /\ session # "connecting" /\ taken + 1 \in 1..(Len(stream.at) - 1)
      /\ basic[2] = b[o + 2]
  BY InFrame
<1>3. n \in Nat /\ n <= needed /\ ~(n < needed)
  BY Chunk
<1> HIDE DEF n, b, o
<1>4. /\ o \in Nat /\ HeaderEnd(b, o) \in Nat /\ HeaderEnd(b, o) <= Len(b)
  BY <1>1, <1>2, FrameFacts DEF b, o
<1>5. PICK l \in Nat : Len(extended) = l /\ pos = o + 2 + l
        /\ pos + needed = HeaderEnd(b, o) /\ extended = SubSeq(b, o + 3, pos)
  <2>1. Len(extended) \in Nat
    BY <1>1
  <2> QED BY <1>1, <1>2, <2>1 DEF InSync, b, o
<1>6. b \in Seq(Byte)
  BY <1>1, StreamAssumption DEF WellFramed, b
<1>7. PICK q \in Nat : q = HeaderEnd(b, o)
  BY <1>4
<1>8. pos + n = q /\ pos <= q /\ q <= Len(b)
  BY <1>1, <1>3, <1>4, <1>5, <1>7
<1>9. PICK a \in Nat : a = o + 2
  BY <1>4
<1>10. a + 1 = o + 3 /\ a <= pos
  BY <1>4, <1>5, <1>9
<1>11. SubSeq(b, a + 1, pos) \o SubSeq(b, pos + 1, q) = SubSeq(b, a + 1, q)
  BY <1>1, <1>6, <1>8, <1>10, Glue
<1>12. extended \o Bytes(n) = SubSeq(b, o + 3, HeaderEnd(b, o))
  BY <1>5, <1>7, <1>8, <1>10, <1>11, Zenon DEF Bytes, b
<1> QED BY <1>2, <1>4, <1>7, <1>8, <1>12, Zenon DEF SizeAt, n, b, o

\* A step of FrameStream, or nothing
Shown == FrameByFrame!Next \/ UNCHANGED FrameByFrame!vars

\* Between two data frames there is a message when one was begun.
LEMMA NoneOutside ==
    handler # "stopped" /\ ~InData /\ KindGood =>
      (WholeFrames = None <=> dataMsg = None)
<1> SUFFICES ASSUME handler # "stopped", ~InData, KindGood, dataMsg # None
             PROVE  WholeFrames # None
  BY WholeOutside
<1>1. dataMsg.op \in 0..15 /\ dataMsg.payload \in Seq(Byte)
  BY DEF KindGood
<1>2. [op |-> dataMsg.op, payload |-> dataMsg.payload]
        \in [op : 0..15, payload : Seq(Byte)]
  BY <1>1
<1> QED BY <1>2, WholeOutside, NoneAssumption, Zenon

\* Steps between two data frames that leave the message alone
LEMMA SameWhole ==
    handler # "stopped" /\ ~InData /\ handler' # "stopped" /\ ~InData'
      /\ KindGood /\ KindGood' /\ dataMsg' = dataMsg => WholeFrames' = WholeFrames
<1> SUFFICES ASSUME handler # "stopped", ~InData, handler' # "stopped", ~InData',
                    KindGood, KindGood', dataMsg' = dataMsg
             PROVE  WholeFrames' = WholeFrames
  OBVIOUS
<1>1. WholeFrames = IF dataMsg = None THEN None
                    ELSE [op |-> dataMsg.op, payload |-> dataMsg.payload]
  BY WholeOutside
<1>2. (handler # "stopped" /\ ~InData /\ KindGood =>
         WholeFrames = IF dataMsg = None THEN None
                       ELSE [op |-> dataMsg.op, payload |-> dataMsg.payload])'
  BY WholeOutside, PTL
<1>3. WholeFrames' = IF dataMsg' = None THEN None
                     ELSE [op |-> dataMsg'.op, payload |-> dataMsg'.payload]
  BY <1>2
<1> QED BY <1>1, <1>3, Zenon

\* A stopped reader has nothing to keep.
LEMMA StoppedRead == handler' = "stopped" => ReadInv'
BY DEF ReadInv, HeaderGood, SizeGood, ControlGood, DataGood, ReadyGood, KindGood,
       InPayload

\* A header that is not bad begins a message, goes on with one or is control.
LEMMA GoodHeader ==
    \A header : \A new \in BOOLEAN : ~BadBasicHeader(header, new) =>
      LET op == get_opcode(header[1]) IN
      /\ ~BadBasicHeader(header, op # CONTINUATION)
      /\ ~is_control(op) => (new <=> op # CONTINUATION)
BY DEF BadBasicHeader

\* The basic header shows FrameStream nothing, or that the frame is wrong.
LEMMA BasicShows == Good /\ BasicHeader => ReadInv' /\ Shown
<1> SUFFICES ASSUME Good, BasicHeader PROVE ReadInv' /\ Shown
  OBVIOUS
<1> DEFINE n == Smaller(needed, avail - pos)
           header == basic \o Bytes(n)
           b == stream.bytes
           o == stream.at[taken + 1]
           f == stream.frames[taken + 1]
<1>1. /\ handler = "frames" /\ state = "HEADER_BASIC"
      /\ pos < avail \/ needed = 0
      /\ basic' = header
      /\ UNCHANGED <<networkVars, messageVars, historyVars>>
  BY DEF BasicHeader, Consuming
<1>2. \/ n < needed /\ UNCHANGED <<state, connectionVars>>
      \/ ~(n < needed) /\ BadBasicHeader(header, dataMsg = None) /\ Fail
      \/ /\ ~BadBasicHeader(header, dataMsg = None)
         /\ state' = "HEADER_EXTENDED" /\ UNCHANGED connectionVars
  BY DEF BasicHeader
<1>3. /\ stream' = stream /\ taken' = taken /\ dispatched' = dispatched
      /\ dataMsg' = dataMsg /\ controlMsg' = controlMsg /\ current' = current
  BY <1>1 DEF networkVars, messageVars, historyVars
<1>4. IInv /\ ReadInv /\ KindGood /\ stream \in Streams
  BY DEF Good, ReadInv, IInv
<1> HIDE DEF n, header, b, o, f
<1>5. CASE state' \in {"HEADER_BASIC", "HEADER_EXTENDED"}
           /\ UNCHANGED connectionVars /\ HeaderGood'
  <2>1. handler' = "frames" /\ session' = session /\ fault' = fault
    BY <1>1, <1>5 DEF connectionVars
  <2>2. KindGood'
    BY <1>1, <1>3, <1>4, <2>1, Zenon DEF KindGood
  <2>3. ~InData /\ ~InData'
    BY <1>1, <1>5 DEF InData
  <2>4. WholeFrames' = WholeFrames
    BY <1>1, <1>3, <1>4, <2>1, <2>2, <2>3, SameWhole
  <2>5. UNCHANGED FrameByFrame!vars
    BY <1>1, <1>3, <2>1, <2>4, ShowsNothing
  <2>6. ReadInv'
    BY <1>5, <2>2 DEF ReadInv, SizeGood, ControlGood, DataGood, ReadyGood,
                      InPayload
  <2> QED BY <2>5, <2>6 DEF Shown
<1>6. CASE n < needed /\ UNCHANGED <<state, connectionVars>>
  <2>1. HeaderGood'
    BY <1>1, <1>6 DEF HeaderGood
  <2> QED BY <1>1, <1>5, <1>6, <2>1
<1>7. CASE ~(n < needed) /\ BadBasicHeader(header, dataMsg = None) /\ Fail
  <2>1. /\ session # "connecting" /\ taken + 1 \in 1..(Len(stream.at) - 1)
        /\ header[1] = b[o + 1] /\ header[2] = b[o + 2]
    BY <1>1, <1>4, <1>7, BasicBytes DEF n, header, b, o
  <2>2. /\ Takes
        /\ f.fin <=> get_fin(b[o + 1])
        /\ f.rsv = get_rsv(b[o + 1])
        /\ f.op = get_opcode(b[o + 1]) /\ f.op \in 0..15
        /\ f.masked <=> get_masked(b[o + 2])
        /\ f.badSize <=> BadSize(b[o + 2], SizeAt(b, o))
        /\ Len(f.payload) = SizeAt(b, o)
    <3>1. handler # "stopped"
      BY <1>1
    <3>2. f = stream.frames[taken + 1] /\ b = stream.bytes
          /\ o = stream.at[taken + 1]
      BY Zenon DEF b, o, f
    <3>3. IInv /\ session # "connecting"
      BY <1>4, <2>1
    <3>4. taken + 1 \in 1..(Len(stream.at) - 1)
      BY <2>1
    <3>5. ASSUME NEW g, NEW c, NEW k, g = stream.frames[taken + 1],
                 c = stream.bytes, k = stream.at[taken + 1]
          PROVE  /\ Takes
                 /\ g.fin <=> get_fin(c[k + 1])
                 /\ g.rsv = get_rsv(c[k + 1])
                 /\ g.op = get_opcode(c[k + 1]) /\ g.op \in 0..15
                 /\ g.masked <=> get_masked(c[k + 2])
                 /\ g.badSize <=> BadSize(c[k + 2], SizeAt(c, k))
                 /\ Len(g.payload) = SizeAt(c, k)
      BY <3>1, <3>3, <3>4, <3>5, FrameHere
    <3> QED BY <3>2, <3>5
  <2>3. BadSize(b[o + 2], SizeAt(b, o))
          \/ (get_basic_size(b[o + 2]) > BasicLimit <=> SizeAt(b, o) > BasicLimit)
    BY <1>4, <2>1, SmallSize DEF b, o
  <2>4. WholeFrames = None <=> dataMsg = None
    BY <1>1, <1>4, NoneOutside DEF InData
  <2>5. BadBasicHeader(header, WholeFrames = None) \/ f.badSize
          <=> \/ WrongHeader(f)
              \/ is_control(f.op) /\ WrongControl(f)
              \/ ~is_control(f.op)
                   /\ (WholeFrames = None) # (f.op # CONTINUATION)
    <3>1. /\ f.fin <=> get_fin(header[1])
          /\ f.rsv = get_rsv(header[1])
          /\ f.op = get_opcode(header[1])
          /\ f.masked <=> get_masked(header[2])
          /\ f.badSize \/ (get_basic_size(header[2]) > BasicLimit
                            <=> Len(f.payload) > BasicLimit)
      BY <2>1, <2>2, <2>3, Zenon
    <3> QED BY <2>2, <3>1, HeaderVerdict, Zenon
  <2>6. BadBasicHeader(header, WholeFrames = None)
    BY <1>7, <2>4 DEF BadBasicHeader
  <2>7. Wrong(f, WholeFrames)
    BY <2>5, <2>6, Zenon DEF Wrong, WrongData
  <2>8. FrameByFrame!FailAt
    BY <1>3, <1>7, <2>2, <2>7, FailsAt DEF f
  <2>9. handler' = "stopped"
    BY <1>7 DEF Fail
  <2> QED BY <2>8, <2>9, StoppedRead DEF Shown, FrameByFrame!Next
<1>8. CASE /\ ~BadBasicHeader(header, dataMsg = None)
           /\ state' = "HEADER_EXTENDED" /\ UNCHANGED connectionVars
  <2>1. /\ ~BadBasicHeader(header, get_opcode(header[1]) # CONTINUATION)
        /\ ~is_control(get_opcode(header[1])) =>
             (dataMsg = None <=> get_opcode(header[1]) # CONTINUATION)
    BY <1>8, GoodHeader
  <2>2. HeaderGood'
    BY <1>1, <1>3, <2>1, Zenon DEF HeaderGood, Opcode
  <2> QED BY <1>5, <1>8, <2>2
<1> QED BY <1>2, <1>6, <1>7, <1>8

\* A frame that begins adds nothing to what was read before it.
LEMMA BeginsEmpty ==
    ASSUME IInv, NEW e, e = HeaderEnd(stream.bytes, stream.at[taken + 1]),
           e \in Nat, stream' = stream, taken' = taken, pos' = e
    PROVE  ReadOf' = <<>>
<1>1. stream.bytes \in Seq(Byte)
  BY StreamAssumption DEF IInv, WellFramed
<1>2. SubSeq(stream.bytes, e + 1, e) = <<>>
  BY <1>1
<1>3. ReadOf' = SubSeq(stream'.bytes,
                       HeaderEnd(stream'.bytes, stream'.at[taken' + 1]) + 1, pos')
  BY Zenon DEF ReadOf
<1> QED BY <1>2, <1>3, Zenon

\* A frame whose data message goes beyond the limit is wrong.
LEMMA TooBigWrong ==
    ASSUME Good, handler = "frames", state = "HEADER_EXTENDED",
           NEW f, f = stream.frames[taken + 1], TooBigFor(Opcode, Len(f.payload))
    PROVE  Wrong(f, WholeFrames)
<1>1. IInv /\ KindGood
  BY DEF Good, ReadInv
<1>2. f.op = Opcode /\ f.payload \in Seq(Byte)
  BY <1>1, FrameRead
<1>3. ~is_control(f.op) /\ TooBig(Len(f.payload))
  BY <1>2 DEF TooBigFor
<1>4. WholeFrames = IF dataMsg = None THEN None
                    ELSE [op |-> dataMsg.op, payload |-> dataMsg.payload]
  BY <1>1, WholeOutside DEF InData
<1>5. Len(Grown(f, WholeFrames).payload) > MaxMessage
  <2>1. CASE dataMsg = None
    <3>1. Grown(f, WholeFrames).payload = f.payload
      BY <1>4, <2>1 DEF Grown
    <3>2. Len(f.payload) > MaxMessage
      BY <1>3, <2>1 DEF TooBig
    <3> QED BY <3>1, <3>2
  <2>2. CASE dataMsg # None
    <3>1. PICK p \in Seq(Byte) : p = dataMsg.payload
      BY <1>1, <2>2 DEF KindGood
    <3>2. WholeFrames # None
      BY <1>1, <2>2, NoneOutside DEF InData
    <3>3. WholeFrames = [op |-> dataMsg.op, payload |-> p]
      BY <1>4, <2>2, <3>1, Zenon
    <3>4. Grown(f, WholeFrames).payload = p \o f.payload
      <4>1. Grown(f, WholeFrames) = [WholeFrames EXCEPT !.payload = @ \o f.payload]
        BY <3>2, Zenon DEF Grown
      <4> QED BY <3>3, <4>1
    <3>5. PICK l \in Nat : l = Len(p) + Len(f.payload)
      BY <1>2
    <3>6. Len(p \o f.payload) = l
      BY <1>2, <3>5
    <3>7. l % SizeT > MaxMessage
      BY <1>3, <2>2, <3>1, <3>5 DEF TooBig
    <3>8. l % SizeT <= l
      BY LimitAssumption DEF LimitAssumption
    <3>9. l > MaxMessage
      <4>1. l % SizeT \in Int /\ MaxMessage \in Nat
        BY LimitAssumption DEF LimitAssumption
      <4> QED BY <3>7, <3>8, <4>1
    <3> QED BY <3>4, <3>6, <3>9
  <2> QED BY <2>1, <2>2
<1> QED BY <1>3, <1>5, Zenon DEF Wrong, WrongData

\* What both kinds of frame have in common when their payload begins
Begins(size) ==
    /\ handler = "frames" /\ state = "HEADER_EXTENDED"
    /\ size = SizeAt(stream.bytes, stream.at[taken + 1])
    /\ ~BadSize(basic[2], size)
    /\ HeaderEnd(stream.bytes, stream.at[taken + 1]) \in Nat
    /\ pos' = HeaderEnd(stream.bytes, stream.at[taken + 1])
    /\ StartPayload(Opcode, size)
    /\ stream' = stream /\ taken' = taken /\ dispatched' = dispatched
    /\ basic' = basic

\* The beginning of a payload shows nothing, and nothing of it was read.
LEMMA BeginsGood ==
    ASSUME Good, NEW size, Begins(size)
    PROVE  /\ handler' = "frames" /\ session' = session /\ fault' = fault
           /\ state' = "APPLICATION" /\ Opcode' = Opcode /\ ReadOf' = <<>>
           /\ HeaderGood' /\ ReadyGood'
           /\ current' = (IF is_control(Opcode) THEN "control" ELSE "data")
           /\ SizeGood'
<1>1. /\ handler = "frames" /\ stream' = stream /\ taken' = taken
      /\ basic' = basic /\ state = "HEADER_EXTENDED"
      /\ size = SizeAt(stream.bytes, stream.at[taken + 1])
      /\ ~BadSize(basic[2], size)
  BY DEF Begins
<1>2. /\ handler' = "frames" /\ session' = session /\ fault' = fault
      /\ state' = "APPLICATION" /\ needed' = size
      /\ current' = (IF is_control(Opcode) THEN "control" ELSE "data")
  BY DEF Begins, StartPayload, connectionVars
<1>3. Opcode' = Opcode
  BY <1>1 DEF Opcode
<1>4. ReadOf' = <<>>
  BY BeginsEmpty DEF Begins, Good
<1>5. /\ ~BadBasicHeader(basic, Opcode # CONTINUATION)
  BY <1>1 DEF Good, ReadInv, HeaderGood
<1>6. HeaderGood'
  BY <1>1, <1>2, <1>3, <1>5 DEF HeaderGood
<1>7. ReadyGood'
  BY <1>2 DEF ReadyGood
<1>8. size \in Nat /\ needed' <= size
  BY <1>1, <1>2, FrameRead DEF Good
<1>9. SizeGood'
  BY <1>1, <1>2, <1>3, <1>8 DEF SizeGood
<1> QED BY <1>2, <1>3, <1>4, <1>6, <1>7, <1>9

\* A control frame begins.
LEMMA StartsControl ==
    ASSUME Good, NEW size, Begins(size), is_control(Opcode)
    PROVE  ReadInv' /\ Shown
<1>1. /\ handler' = "frames" /\ session' = session /\ fault' = fault
      /\ state' = "APPLICATION" /\ Opcode' = Opcode /\ ReadOf' = <<>>
      /\ HeaderGood' /\ SizeGood' /\ ReadyGood' /\ current' = "control"
  BY BeginsGood
<1>2. /\ controlMsg' = NewMessage(Opcode) /\ dataMsg' = dataMsg
      /\ handler = "frames" /\ state = "HEADER_EXTENDED"
      /\ stream' = stream /\ taken' = taken /\ dispatched' = dispatched
  BY DEF Begins, StartPayload
<1>3. ControlGood'
  <2>1. controlMsg' = [op |-> Opcode', payload |-> ReadOf',
                       validator |-> utf8_accept]
    BY <1>1, <1>2, Zenon DEF NewMessage
  <2> QED BY <2>1 DEF ControlGood
<1>4. DataGood'
  BY <1>1 DEF DataGood
<1>5. KindGood /\ KindGood'
  <2>1. KindGood
    BY DEF Good, ReadInv
  <2>2. handler # "stopped"
    BY <1>2
  <2> QED BY <1>2, <2>1, <2>2, Zenon DEF KindGood
<1>6. WholeFrames' = WholeFrames
  BY <1>1, <1>2, <1>5, SameWhole DEF InData
<1>7. UNCHANGED FrameByFrame!vars
  BY <1>1, <1>2, <1>6, ShowsNothing
<1> QED BY <1>1, <1>3, <1>4, <1>5, <1>7 DEF ReadInv, Shown

\* A frame of a data message begins, the first or another one.
LEMMA StartsData ==
    ASSUME Good, NEW size, Begins(size), ~is_control(Opcode), IInv'
    PROVE  ReadInv' /\ Shown
<1>1. /\ handler' = "frames" /\ session' = session /\ fault' = fault
      /\ state' = "APPLICATION" /\ Opcode' = Opcode /\ ReadOf' = <<>>
      /\ HeaderGood' /\ SizeGood' /\ ReadyGood' /\ current' = "data"
  BY BeginsGood
<1>2. /\ dataMsg' = (IF dataMsg = None THEN NewMessage(Opcode) ELSE dataMsg)
      /\ handler = "frames" /\ state = "HEADER_EXTENDED"
      /\ stream' = stream /\ taken' = taken /\ dispatched' = dispatched
  BY DEF Begins, StartPayload
<1>3. dataMsg = None <=> Opcode # CONTINUATION
  BY <1>2 DEF Good, ReadInv, HeaderGood
<1>4. KindGood /\ IInv
  BY DEF Good, ReadInv
<1>5. Opcode \in 0..15
  BY <1>2, <1>4, FrameRead
<1>6. ControlGood'
  BY <1>1 DEF ControlGood
<1>7. PICK was \in Seq(Byte) :
        /\ dataMsg'.payload = was
        /\ Opcode # CONTINUATION => was = <<>> /\ dataMsg'.op = Opcode
        /\ Opcode = CONTINUATION => dataMsg' = dataMsg /\ dataMsg.payload = was
  <2>1. CASE dataMsg = None
    <3>1. dataMsg'.payload = <<>> /\ dataMsg'.op = Opcode
      BY <1>2, <2>1 DEF NewMessage
    <3>2. <<>> \in Seq(Byte)
      OBVIOUS
    <3> QED BY <1>3, <2>1, <3>1, <3>2
  <2>2. CASE dataMsg # None
    <3>1. dataMsg.payload \in Seq(Byte)
      BY <1>2, <1>4, <2>2 DEF KindGood
    <3> QED BY <1>2, <1>3, <2>2, <3>1
  <2> QED BY <2>1, <2>2
<1>8. /\ dataMsg' \in [op : 0..15, payload : Seq(Byte), validator : Utf8State]
      /\ ~is_control(dataMsg'.op)
      /\ dataMsg'.op # TEXT => dataMsg'.validator = utf8_accept
  <2>1. CASE dataMsg = None
    <3>1. dataMsg' = [op |-> Opcode, payload |-> <<>>, validator |-> utf8_accept]
      BY <1>2, <2>1, Zenon DEF NewMessage
    <3>2. utf8_accept \in Utf8State /\ <<>> \in Seq(Byte)
      BY DEF utf8_accept, Utf8State
    <3> QED BY <1>5, <3>1, <3>2
  <2>2. CASE dataMsg # None
    <3>1. handler # "stopped" /\ dataMsg' = dataMsg
      BY <1>2, <2>2
    <3> QED BY <1>4, <2>2, <3>1, Zenon DEF KindGood
  <2> QED BY <2>1, <2>2
<1>9. dataMsg' # None
  BY <1>8, NoneAssumption, Zenon DEF Utf8State
<1>10. KindGood'
  BY <1>8 DEF KindGood
<1>11. dataMsg'.payload = was \o ReadOf'
  <2>1. was \o <<>> = was
    OBVIOUS
  <2> QED BY <1>1, <1>7, <2>1
<1>12. DataGood'
  BY <1>1, <1>7, <1>9, <1>11, Zenon DEF DataGood
<1>13. ReadInv'
  BY <1>1, <1>6, <1>10, <1>12 DEF ReadInv
<1>14. (IInv /\ ReadInv /\ handler = "frames" /\ InData =>
          \A old \in Seq(Byte) : dataMsg.payload = old \o ReadOf =>
            WholeFrames = IF Opcode # CONTINUATION THEN None
                          ELSE [op |-> dataMsg.op, payload |-> old])'
  BY WholeInside, PTL
<1>15. InData'
  BY <1>1 DEF InData
<1>16. WholeFrames' = IF Opcode' # CONTINUATION THEN None
                      ELSE [op |-> dataMsg'.op, payload |-> was]
  BY <1>1, <1>11, <1>13, <1>14, <1>15
<1>17. WholeFrames = IF dataMsg = None THEN None
                     ELSE [op |-> dataMsg.op, payload |-> dataMsg.payload]
  BY <1>2, <1>4, WholeOutside DEF InData
<1>18. WholeFrames' = WholeFrames
  BY <1>1, <1>3, <1>7, <1>16, <1>17, Zenon
<1>19. UNCHANGED FrameByFrame!vars
  BY <1>1, <1>2, <1>18, ShowsNothing
<1> QED BY <1>13, <1>19 DEF Shown

\* The extended header shows FrameStream nothing, or that the frame is wrong.
LEMMA ExtendedShows == Good /\ IInv' /\ ExtendedHeader => ReadInv' /\ Shown
<1> SUFFICES ASSUME Good, IInv', ExtendedHeader PROVE ReadInv' /\ Shown
  OBVIOUS
<1> DEFINE n == Smaller(needed, avail - pos)
           size == get_payload_size(basic[2], extended \o Bytes(n))
           full == SizeAt(stream.bytes, stream.at[taken + 1])
           f == stream.frames[taken + 1]
<1>1. /\ handler = "frames" /\ state = "HEADER_EXTENDED" /\ pos' = pos + n
      /\ basic' = basic /\ UNCHANGED <<networkVars, historyVars>>
  BY DEF ExtendedHeader, Consuming
<1>2. \/ n < needed /\ UNCHANGED <<state, messageVars, connectionVars>>
      \/ ~(n < needed) /\ BadSize(basic[2], size) /\ Fail
      \/ ~(n < needed) /\ TooBigFor(Opcode, size) /\ Fail
      \/ /\ ~(n < needed) /\ ~BadSize(basic[2], size)
         /\ StartPayload(Opcode, size)
  BY DEF ExtendedHeader, Opcode
<1>3. /\ stream' = stream /\ taken' = taken /\ dispatched' = dispatched
  BY <1>1 DEF networkVars, historyVars
<1>4. IInv /\ ReadInv /\ KindGood
  BY DEF Good, ReadInv
<1>5. ~(n < needed) =>
        /\ size = full
        /\ pos' = HeaderEnd(stream.bytes, stream.at[taken + 1])
        /\ HeaderEnd(stream.bytes, stream.at[taken + 1]) \in Nat
  BY <1>1, <1>4, ExtendedBytes
<1> HIDE DEF n, size, full, f
<1>6. /\ Takes /\ f.op = Opcode
      /\ f.badSize <=> BadSize(basic[2], full)
      /\ Len(f.payload) = full
  <2>1. state # "HEADER_BASIC"
    BY <1>1
  <2> QED BY <1>1, <1>4, <2>1, FrameRead, Zenon DEF f, full
<1>7. ASSUME Fail, Wrong(f, WholeFrames) PROVE ReadInv' /\ Shown
  <2>1. FrameByFrame!FailAt
    BY <1>3, <1>6, <1>7, FailsAt DEF f
  <2>2. handler' = "stopped"
    BY <1>7 DEF Fail
  <2> QED BY <2>1, <2>2, StoppedRead DEF Shown, FrameByFrame!Next
<1>8. CASE n < needed /\ UNCHANGED <<state, messageVars, connectionVars>>
  <2>1. /\ state' = "HEADER_EXTENDED" /\ handler' = "frames"
        /\ session' = session /\ fault' = fault /\ dataMsg' = dataMsg
        /\ Opcode' = Opcode
    BY <1>1, <1>8 DEF messageVars, connectionVars, Opcode
  <2>2. HeaderGood'
    BY <1>1, <1>4, <2>1, Zenon DEF ReadInv, HeaderGood
  <2>3. handler # "stopped" /\ ~InData /\ ~InData' /\ ~InPayload'
        /\ handler' # "stopped" /\ state' # "READY"
    BY <1>1, <2>1 DEF InData, InPayload
  <2>4. KindGood'
    BY <1>4, <2>1, <2>3, Zenon DEF KindGood
  <2>5. ReadInv'
    BY <2>2, <2>3, <2>4, Zenon
       DEF ReadInv, SizeGood, ControlGood, DataGood, ReadyGood
  <2>6. WholeFrames' = WholeFrames
    BY <1>4, <2>1, <2>3, <2>4, SameWhole
  <2>7. UNCHANGED FrameByFrame!vars
    BY <1>3, <2>1, <2>3, <2>6, ShowsNothing
  <2> QED BY <2>5, <2>7 DEF Shown
<1>9. CASE ~(n < needed) /\ BadSize(basic[2], size) /\ Fail
  <2>1. Wrong(f, WholeFrames)
    BY <1>5, <1>6, <1>9, Zenon DEF Wrong, WrongHeader
  <2> QED BY <1>7, <1>9, <2>1
<1>10. CASE ~(n < needed) /\ TooBigFor(Opcode, size) /\ Fail
  <2>1. TooBigFor(Opcode, Len(f.payload))
    BY <1>5, <1>6, <1>10
  <2>2. Wrong(f, WholeFrames)
    BY <1>1, <2>1, TooBigWrong DEF f
  <2> QED BY <1>7, <1>10, <2>2
<1>11. CASE /\ ~(n < needed) /\ ~BadSize(basic[2], size)
            /\ StartPayload(Opcode, size)
  <2>1. Begins(full)
    BY <1>1, <1>3, <1>5, <1>11 DEF Begins, full
  <2> QED BY <2>1, StartsControl, StartsData
<1> QED BY <1>2, <1>8, <1>9, <1>10, <1>11

\* While the payload is read the header of the frame is known to be right.
LEMMA HeaderRight ==
    ASSUME Good, handler = "frames", state \in {"APPLICATION", "READY"},
           NEW m, is_control(Opcode) \/ (m = None <=> Opcode # CONTINUATION)
    PROVE  LET f == stream.frames[taken + 1] IN
           /\ ~WrongHeader(f)
           /\ is_control(f.op) => ~WrongControl(f)
           /\ ~is_control(f.op) => (m = None <=> f.op # CONTINUATION)
<1> DEFINE f == stream.frames[taken + 1]
           size == SizeAt(stream.bytes, stream.at[taken + 1])
<1>1. IInv /\ stream \in Streams /\ handler # "stopped" /\ state # "HEADER_BASIC"
  BY DEF Good, IInv
<1>2. /\ f.fin <=> get_fin(basic[1])
      /\ f.rsv = get_rsv(basic[1])
      /\ f.op = Opcode /\ Opcode \in 0..15
      /\ f.masked <=> get_masked(basic[2])
      /\ f.badSize <=> BadSize(basic[2], size)
      /\ Len(f.payload) = size
  BY <1>1, FrameRead
<1>3. /\ taken + 1 \in 1..(Len(stream.at) - 1)
      /\ basic[2] = stream.bytes[stream.at[taken + 1] + 2]
  BY <1>1, InFrame
<1>4. BadSize(basic[2], size) \/ (get_basic_size(basic[2]) > BasicLimit
                                       <=> size > BasicLimit)
  BY <1>1, <1>3, SmallSize
<1>5. ~f.badSize
  BY <1>1, <1>2 DEF Good, ReadInv, SizeGood, InPayload
<1>6. ~BadBasicHeader(basic, Opcode # CONTINUATION)
  BY <1>1 DEF Good, ReadInv, HeaderGood
<1> HIDE DEF f, size
<1>7. ~BadBasicHeader(basic, m = None)
  <2>1. CASE is_control(Opcode)
    BY <1>6, <2>1 DEF BadBasicHeader, Opcode, CONTINUATION, is_control
  <2>2. CASE m = None <=> Opcode # CONTINUATION
    BY <1>6, <2>2 DEF BadBasicHeader
  <2> QED BY <2>1, <2>2
<1>8. BadBasicHeader(basic, m = None) \/ f.badSize
        <=> \/ WrongHeader(f)
            \/ is_control(f.op) /\ WrongControl(f)
            \/ ~is_control(f.op) /\ (m = None) # (f.op # CONTINUATION)
  <2>1. f.op = get_opcode(basic[1]) /\ f.op \in 0..15
    BY <1>2 DEF Opcode
  <2>2. f.badSize \/ (get_basic_size(basic[2]) > BasicLimit
                       <=> Len(f.payload) > BasicLimit)
    BY <1>2, <1>4, Zenon
  <2> QED BY <1>2, <2>1, <2>2, HeaderVerdict, Zenon
<1>9. /\ ~WrongHeader(f)
      /\ is_control(f.op) => ~WrongControl(f)
      /\ ~is_control(f.op) => (m = None <=> f.op # CONTINUATION)
  BY <1>5, <1>7, <1>8
<1> QED BY <1>9 DEF f

\* A control frame that was read is right.
LEMMA ControlRight ==
    ASSUME Good, handler = "frames", state \in {"APPLICATION", "READY"},
           is_control(Opcode)
    PROVE  LET f == stream.frames[taken + 1]
           IN  is_control(f.op) /\ ~Wrong(f, WholeFrames)
<1> DEFINE f == stream.frames[taken + 1]
<1>1. f.op = Opcode
  <2>1. IInv /\ state # "HEADER_BASIC"
    BY DEF Good
  <2> QED BY <2>1, FrameRead
<1>2. ~WrongHeader(f) /\ (is_control(f.op) => ~WrongControl(f))
  BY HeaderRight
<1> HIDE DEF f
<1>3. is_control(f.op) /\ ~Wrong(f, WholeFrames)
  BY <1>1, <1>2, Zenon DEF Wrong
<1> QED BY <1>3 DEF f

\* What the data message is with all of the frame at hand
LEMMA GrownInside ==
    ASSUME Good, handler = "frames", InData,
           NEW old \in Seq(Byte), dataMsg.payload = old \o ReadOf,
           Opcode # CONTINUATION => old = <<>> /\ dataMsg.op = Opcode
    PROVE  LET f == stream.frames[taken + 1]
           IN  /\ Grown(f, WholeFrames)
                    = [op |-> dataMsg.op, payload |-> old \o f.payload]
               /\ WholeFrames = None <=> Opcode # CONTINUATION
<1> DEFINE f == stream.frames[taken + 1]
<1>1. IInv /\ ReadInv /\ state # "HEADER_BASIC" /\ dataMsg # None
      /\ handler # "stopped"
  BY DEF Good, ReadInv, DataGood, InPayload, InData
<1>2. f.op = Opcode /\ f.payload \in Seq(Byte)
  BY <1>1, FrameRead
<1>3. WholeFrames = IF Opcode # CONTINUATION THEN None
                    ELSE [op |-> dataMsg.op, payload |-> old]
  BY <1>1, WholeInside
<1> HIDE DEF f
<1>4. CASE Opcode # CONTINUATION
  <2>1. old \o f.payload = f.payload
    BY <1>2, <1>4
  <2> QED BY <1>2, <1>3, <1>4, <2>1, Zenon DEF Grown, f
<1>5. CASE Opcode = CONTINUATION
  <2>1. dataMsg.op \in 0..15
    BY <1>1 DEF ReadInv, KindGood
  <2>2. [op |-> dataMsg.op, payload |-> old] \in [op : 0..15, payload : Seq(Byte)]
    BY <2>1
  <2>3. WholeFrames # None
    BY <1>3, <1>5, <2>2, NoneAssumption, Zenon
  <2>4. PICK w : w = old \o f.payload
    OBVIOUS
  <2>5. [WholeFrames EXCEPT !.payload = w] = [op |-> dataMsg.op, payload |-> w]
    BY <1>3, <1>5
  <2>6. Grown(f, WholeFrames) = [WholeFrames EXCEPT !.payload = @ \o f.payload]
    BY <2>3, Zenon DEF Grown
  <2>7. WholeFrames.payload = old
    BY <1>3, <1>5
  <2>8. Grown(f, WholeFrames) = [WholeFrames EXCEPT !.payload = w]
    BY <2>4, <2>6, <2>7, Zenon
  <2> QED BY <1>5, <2>3, <2>4, <2>5, <2>8, Zenon DEF f
<1> QED BY <1>4, <1>5

\* A data frame is right when its message stays in the limit and the validator
\* is content with it.
LEMMA DataRight ==
    ASSUME Good, handler = "frames", InData,
           NEW old \in Seq(Byte), dataMsg.payload = old \o ReadOf,
           Opcode # CONTINUATION => old = <<>> /\ dataMsg.op = Opcode,
           NEW whole \in Seq(Byte),
           whole = old \o stream.frames[taken + 1].payload,
           Len(whole) <= MaxMessage,
           dataMsg.op = TEXT => Decode(utf8_accept, whole) # utf8_reject,
           get_fin(basic[1]) /\ Opcode = TEXT =>
             Decode(utf8_accept, whole) = utf8_accept
    PROVE  LET f == stream.frames[taken + 1]
           IN  /\ ~is_control(f.op) /\ ~Wrong(f, WholeFrames)
               /\ Grown(f, WholeFrames) = [op |-> dataMsg.op, payload |-> whole]
               /\ f.fin <=> get_fin(basic[1])
<1> DEFINE f == stream.frames[taken + 1]
           grown == Grown(f, WholeFrames)
<1>1. /\ IInv /\ state # "HEADER_BASIC" /\ handler # "stopped"
      /\ ~is_control(Opcode)
  BY DEF Good, ReadInv, SizeGood, InPayload, InData
<1>2. f.op = Opcode /\ (f.fin <=> get_fin(basic[1])) /\ Takes
  BY <1>1, FrameRead
<1>3. grown = [op |-> dataMsg.op, payload |-> old \o f.payload]
      /\ (WholeFrames = None <=> Opcode # CONTINUATION)
  BY GrownInside
<1>4. ~WrongHeader(f) /\ (WholeFrames = None <=> f.op # CONTINUATION)
  BY <1>1, <1>2, <1>3, HeaderRight DEF InData
<1>5. grown = [op |-> dataMsg.op, payload |-> whole]
  BY <1>3, Zenon
<1> HIDE DEF f, grown
<1>6. grown.op = dataMsg.op /\ grown.payload = whole
  BY <1>5
<1>7. grown.op = TEXT => ~WrongText(f, WholeFrames)
  <2> SUFFICES ASSUME grown.op = TEXT PROVE ~WrongText(f, WholeFrames)
    OBVIOUS
  <2>1. BeginsText(whole)
    BY <1>6, RejectsNoBeginning
  <2>2. f.fin /\ WholeFrames = None => IsText(whole)
    <3>1. WholeFrames = None => Opcode = TEXT
      BY <1>3, <1>6
    <3> QED BY <1>2, <3>1, AcceptsText
  <2> QED BY <1>6, <2>1, <2>2, Zenon DEF WrongText, grown
<1>8. ~WrongData(f, WholeFrames)
  <2>1. ~(Len(grown.payload) > MaxMessage)
    <3>1. PICK l \in Nat : l = Len(whole)
      OBVIOUS
    <3>2. MaxMessage \in Nat /\ l <= MaxMessage
      BY <3>1, LimitAssumption DEF LimitAssumption
    <3> QED BY <1>6, <3>1, <3>2
  <2> QED BY <1>4, <1>7, <2>1, Zenon DEF WrongData, grown
<1>9. ~Wrong(f, WholeFrames) /\ ~is_control(f.op)
  BY <1>1, <1>2, <1>4, <1>8, Zenon DEF Wrong
<1> QED BY <1>2, <1>5, <1>9, Zenon DEF f, grown

\* What an iteration of the loop adds to what was read of a payload
LEMMA ReadMore ==
    ASSUME Good, handler = "frames", state = "APPLICATION"
    PROVE  LET n == Smaller(needed, avail - pos)
               b == stream.bytes
               f == stream.frames[taken + 1]
           IN  /\ Bytes(n) \in Seq(Byte) /\ ReadOf \in Seq(Byte)
               /\ f.payload \in Seq(Byte)
               /\ n \in Nat /\ n <= needed /\ needed \in Nat
               /\ ReadOf \o Bytes(n)
                    = SubSeq(b, HeaderEnd(b, stream.at[taken + 1]) + 1, pos + n)
               /\ \E rest \in Seq(Byte) :
                    f.payload = (ReadOf \o Bytes(n)) \o rest
               /\ ~(n < needed) => ReadOf \o Bytes(n) = f.payload
<1> DEFINE n == Smaller(needed, avail - pos)
           b == stream.bytes
           f == stream.frames[taken + 1]
           e == HeaderEnd(b, stream.at[taken + 1])
           end == stream.at[taken + 2]
           size == SizeAt(b, stream.at[taken + 1])
<1>1. /\ IInv /\ ReadInv /\ stream \in Streams /\ handler # "stopped"
      /\ pos \in Nat /\ needed \in Nat /\ taken \in Nat
  BY DEF Good, IInv, TypeOK
<1>2. /\ session # "connecting" /\ taken + 1 \in 1..(Len(stream.at) - 1)
  BY <1>1, InFrame
<1>3. /\ f.payload = SubSeq(b, e + 1, end) /\ f.payload \in Seq(Byte)
  BY <1>1, <1>2, FrameHere
<1>4. /\ e \in Nat /\ size \in Nat /\ end = e + size /\ end <= Len(b)
  <2>1. (taken + 1) + 1 = taken + 2
    BY <1>1
  <2> QED BY <1>1, <1>2, <2>1, FrameFacts
<1>5. pos + needed = end
  BY <1>1, PayloadEnd
<1>6. needed <= size
  BY <1>1 DEF ReadInv, SizeGood, InPayload
<1>7. n \in Nat /\ n <= needed /\ Bytes(n) \in Seq(Byte)
  BY <1>1, Chunk
<1>8. b \in Seq(Byte)
  BY <1>1, StreamAssumption DEF WellFramed
<1>9. ReadOf = SubSeq(b, e + 1, pos)
  BY DEF ReadOf
<1>10. Bytes(n) = SubSeq(b, pos + 1, pos + n)
  BY DEF Bytes
<1> HIDE DEF n, b, f, e, end, size
<1>11. PICK q \in Nat : q = pos + n
  BY <1>1, <1>7
<1>12. e <= pos /\ pos <= q /\ q <= end /\ e <= q /\ q <= Len(b) /\ end \in Nat
  <2>1. Len(b) \in Nat
    BY <1>8
  <2> QED BY <1>1, <1>4, <1>5, <1>6, <1>7, <1>11, <2>1
<1>13. SubSeq(b, e + 1, pos) \o SubSeq(b, pos + 1, q) = SubSeq(b, e + 1, q)
       /\ SubSeq(b, e + 1, pos) \in Seq(Byte)
  BY <1>1, <1>4, <1>8, <1>12, Glue
<1>14. ReadOf \o Bytes(n) = SubSeq(b, e + 1, q) /\ ReadOf \in Seq(Byte)
  BY <1>9, <1>10, <1>11, <1>13, Zenon
<1>15. /\ SubSeq(b, e + 1, q) \o SubSeq(b, q + 1, end) = SubSeq(b, e + 1, end)
  BY <1>4, <1>8, <1>12, Glue
<1>16. SubSeq(b, q + 1, end) \in Seq(Byte)
  BY <1>4, <1>8, <1>12, GlueLeft
<1>17. \E rest \in Seq(Byte) : f.payload = (ReadOf \o Bytes(n)) \o rest
  BY <1>3, <1>14, <1>15, <1>16, Zenon
<1>18. ~(n < needed) => q = end
  BY <1>1, <1>5, <1>7, <1>11
<1>19. ~(n < needed) => ReadOf \o Bytes(n) = f.payload
  BY <1>3, <1>14, <1>18, Zenon
<1> QED BY <1>1, <1>3, <1>7, <1>11, <1>14, <1>17, <1>19, Zenon DEF n, b, f, e

\* Reading on in a frame: all but the message is as before.
LEMMA ReadsOn ==
    ASSUME Good, Payload, handler' = "frames", taken' = taken
    PROVE  LET n == Smaller(needed, avail - pos) IN
           /\ stream' = stream /\ dispatched' = dispatched /\ session' = session
           /\ fault' = fault /\ current' = current
           /\ basic' = basic /\ Opcode' = Opcode
           /\ handler = "frames" /\ state = "APPLICATION"
           /\ ReadOf' = ReadOf \o Bytes(n)
           /\ SetMessage(Extended(Message, Bytes(n)))
           /\ Extended(Message, Bytes(n)).validator # utf8_reject
           /\ \/ state' = "APPLICATION"
              \/ /\ state' = "READY" /\ get_fin(basic[1])
                 /\ ~Unfinished(Extended(Message, Bytes(n)))
           /\ HeaderGood' /\ SizeGood'
<1> DEFINE n == Smaller(needed, avail - pos)
           msg == Extended(Message, Bytes(n))
           e == HeaderEnd(stream.bytes, stream.at[taken + 1])
<1>1. /\ handler = "frames" /\ state = "APPLICATION" /\ SetMessage(msg)
      /\ stream' = stream /\ dispatched' = dispatched
  BY DEF Payload, Consuming, networkVars
<1>2. taken + 1 # taken
  BY DEF Good, IInv, TypeOK
<1>3. /\ msg.validator # utf8_reject /\ pos' = pos + n
      /\ \/ /\ needed' = needed - n /\ UNCHANGED <<state, basic, connectionVars>>
         \/ /\ get_fin(basic[1]) /\ ~Unfinished(msg) /\ state' = "READY"
            /\ needed' = 0 /\ UNCHANGED <<basic, connectionVars>>
  BY <1>2 DEF Payload, Fail
<1>4. n \in Nat /\ n <= needed /\ needed \in Nat
      /\ ReadOf \o Bytes(n) = SubSeq(stream.bytes, e + 1, pos + n)
  BY <1>1, ReadMore
<1> HIDE DEF n, msg, e
<1>5. session' = session /\ fault' = fault /\ basic' = basic /\ current' = current
  BY <1>1, <1>3 DEF connectionVars, SetMessage
<1>6. Opcode' = Opcode
  BY <1>5 DEF Opcode
<1>7. ReadOf' = ReadOf \o Bytes(n)
  <2>1. ReadOf' = SubSeq(stream'.bytes,
                         HeaderEnd(stream'.bytes, stream'.at[taken' + 1]) + 1, pos')
    BY Zenon DEF ReadOf
  <2> QED BY <1>1, <1>3, <1>4, <2>1, Zenon DEF e
<1>8. state' \in {"APPLICATION", "READY"}
  BY <1>1, <1>3
<1>9. HeaderGood /\ SizeGood /\ handler # "stopped" /\ InPayload
  BY <1>1 DEF Good, ReadInv, InPayload
<1>10. HeaderGood'
  <2>1. ~BadBasicHeader(basic, Opcode # CONTINUATION)
    BY <1>1, <1>9 DEF HeaderGood
  <2> QED BY <1>5, <1>6, <1>8, <2>1 DEF HeaderGood
<1>11. SizeGood'
  <2>1. PICK size \in Nat : size = SizeAt(stream.bytes, stream.at[taken + 1])
    BY <1>1, FrameRead DEF Good
  <2>2. needed' <= size
    <3>1. needed <= size
      BY <1>9, <2>1 DEF SizeGood
    <3>2. needed' = needed - n \/ needed' = 0
      BY <1>3
    <3> QED BY <1>4, <3>1, <3>2
  <2> QED BY <1>1, <1>5, <1>6, <1>9, <2>1, <2>2 DEF SizeGood
<1> QED BY <1>1, <1>3, <1>5, <1>6, <1>7, <1>10, <1>11, Zenon
        DEF n, msg, connectionVars

\* The payload of a control frame: never refused, and seen when it is complete.
LEMMA ControlPayload ==
    ASSUME Good, Payload, current = "control"
    PROVE  ReadInv' /\ Shown
<1> DEFINE n == Smaller(needed, avail - pos)
           got == Bytes(n)
<1>1. handler = "frames" /\ state = "APPLICATION" /\ handler # "stopped"
  BY DEF Payload, Consuming
<1>2. is_control(Opcode) /\ get_fin(basic[1])
  <2>1. is_control(Opcode)
    BY <1>1 DEF Good, ReadInv, SizeGood, InPayload
  <2>2. ~BadBasicHeader(basic, Opcode # CONTINUATION)
    BY <1>1 DEF Good, ReadInv, HeaderGood
  <2> QED BY <2>1, <2>2 DEF BadBasicHeader, Opcode
<1>3. controlMsg = [op |-> Opcode, payload |-> ReadOf, validator |-> utf8_accept]
  BY <1>1 DEF Good, ReadInv, ControlGood, InPayload
<1>4. Opcode # TEXT
  <2>1. Opcode \in 0..15
    BY <1>1, FrameRead DEF Good
  <2> QED BY <1>2, <2>1 DEF is_control, TEXT
<1>5. PICK text : text = ReadOf \o got
  OBVIOUS
<1>6. Extended(Message, got)
        = [op |-> Opcode, payload |-> text, validator |-> utf8_accept]
  <2>1. PICK read : read = ReadOf
    OBVIOUS
  <2>2. Message = [op |-> Opcode, payload |-> read, validator |-> utf8_accept]
    BY <1>3, <2>1, Zenon DEF Message
  <2>3. Message.op = Opcode /\ Message.payload = read
        /\ Message.validator = utf8_accept
    BY <2>2
  <2> QED BY <1>4, <1>5, <2>1, <2>3, Zenon DEF Extended
<1>7. Extended(Message, got).validator = utf8_accept
  BY <1>6
<1> HIDE DEF n, got
<1>8. handler' = "frames" /\ taken' = taken
  <2>1. ~Unfinished(Extended(Message, got))
    BY <1>7 DEF Unfinished
  <2>2. utf8_accept # utf8_reject
    BY DEF utf8_accept, utf8_reject
  <2> QED BY <1>1, <1>2, <1>7, <2>1, <2>2, Zenon
          DEF Payload, connectionVars, n, got
<1>9. /\ stream' = stream /\ dispatched' = dispatched /\ session' = session
      /\ fault' = fault /\ current' = current /\ Opcode' = Opcode
      /\ ReadOf' = ReadOf \o got
      /\ SetMessage(Extended(Message, got))
      /\ state' \in {"APPLICATION", "READY"}
      /\ HeaderGood' /\ SizeGood'
  BY <1>8, ReadsOn DEF n, got
<1>10. dataMsg' = dataMsg /\ controlMsg' = Extended(Message, got)
  BY <1>9 DEF SetMessage
<1>11. ControlGood'
  <2>1. controlMsg' = [op |-> Opcode', payload |-> ReadOf',
                       validator |-> utf8_accept]
    BY <1>5, <1>6, <1>9, <1>10, Zenon
  <2> QED BY <2>1 DEF ControlGood
<1>12. DataGood'
  BY <1>9 DEF DataGood
<1>13. ReadyGood'
  <2>1. basic' = basic
    BY <1>1, <1>2, <1>7, <1>8 DEF Payload, Unfinished, ResetHeaders, headerVars
  <2> QED BY <1>2, <1>4, <1>9, <2>1 DEF ReadyGood
<1>14. KindGood /\ KindGood'
  <2>1. KindGood
    BY DEF Good, ReadInv
  <2> QED BY <1>1, <1>10, <2>1, Zenon DEF KindGood
<1>15. WholeFrames' = WholeFrames
  BY <1>1, <1>8, <1>9, <1>10, <1>14, SameWhole DEF InData
<1>16. UNCHANGED FrameByFrame!vars
  BY <1>1, <1>8, <1>9, <1>15, ShowsNothing
<1> QED BY <1>9, <1>11, <1>12, <1>13, <1>14, <1>16 DEF ReadInv, Shown

\* A data message with one more part of the frame
LEMMA DataMore ==
    ASSUME Good, handler = "frames", state = "APPLICATION", current = "data"
    PROVE  LET n == Smaller(needed, avail - pos)
               msg == Extended(dataMsg, Bytes(n))
               f == stream.frames[taken + 1]
           IN  \E old \in Seq(Byte), text \in Seq(Byte), rest \in Seq(Byte) :
                 /\ dataMsg.payload = old \o ReadOf
                 /\ Opcode # CONTINUATION => old = <<>> /\ dataMsg.op = Opcode
                 /\ text = ReadOf \o Bytes(n) /\ f.payload = text \o rest
                 /\ ~(n < needed) => text = f.payload
                 /\ ~(n < needed) => Len(old \o text) <= MaxMessage
                 /\ msg.op = dataMsg.op /\ msg.payload = old \o text
                 /\ msg.op = TEXT =>
                      msg.validator = Decode(utf8_accept, old \o text)
                 /\ msg.op # TEXT => msg.validator = utf8_accept
                 /\ msg \in [op : 0..15, payload : Seq(Byte),
                             validator : Utf8State]
                 /\ ~is_control(msg.op)
<1> DEFINE n == Smaller(needed, avail - pos)
           got == Bytes(n)
           msg == Extended(dataMsg, got)
           f == stream.frames[taken + 1]
<1>1. handler # "stopped" /\ InData /\ InPayload /\ Reads
  BY DEF InData, InPayload, Reads
<1>2. /\ got \in Seq(Byte) /\ ReadOf \in Seq(Byte) /\ f.payload \in Seq(Byte)
      /\ n \in Nat /\ n <= needed /\ needed \in Nat
      /\ \E rest \in Seq(Byte) : f.payload = (ReadOf \o got) \o rest
      /\ ~(n < needed) => ReadOf \o got = f.payload
  BY ReadMore
<1>3. Len(got) = n
  BY Chunk DEF Good
<1> HIDE DEF n, got, f
<1>4. PICK old \in Seq(Byte) :
        /\ dataMsg.payload = old \o ReadOf
        /\ Opcode # CONTINUATION => old = <<>> /\ dataMsg.op = Opcode
  <2>1. DataGood
    BY DEF Good, ReadInv
  <2> QED BY <1>1, <2>1, Zenon DEF DataGood
<1>5. /\ dataMsg \in [op : 0..15, payload : Seq(Byte), validator : Utf8State]
      /\ ~is_control(dataMsg.op)
      /\ dataMsg.op # TEXT => dataMsg.validator = utf8_accept
  <2>1. dataMsg # None
    BY <1>1 DEF Good, ReadInv, DataGood
  <2> QED BY <1>1, <2>1 DEF Good, ReadInv, KindGood
<1>6. PICK text \in Seq(Byte) : text = ReadOf \o got
  <2>1. \A x, y : x \in Seq(Byte) /\ y \in Seq(Byte) => x \o y \in Seq(Byte)
    OBVIOUS
  <2>2. ReadOf \o got \in Seq(Byte)
    BY <1>2, <2>1, Zenon
  <2> QED BY <2>2, Zenon
<1>7. PICK rest \in Seq(Byte) : f.payload = text \o rest
  BY <1>2, <1>6
<1>8. PICK read \in Seq(Byte) : read = ReadOf
  BY <1>2
<1>9. msg.op = dataMsg.op /\ msg.payload = old \o text
  <2>1. msg.op = dataMsg.op /\ msg.payload = dataMsg.payload \o got
    BY DEF Extended
  <2>2. (old \o read) \o got = old \o (read \o got)
    BY <1>2
  <2> QED BY <1>4, <1>6, <1>8, <2>1, <2>2, Zenon
<1>10. dataMsg.op = TEXT => dataMsg.validator = Decode(utf8_accept, dataMsg.payload)
  BY <1>1 DEF Good, Validated, TextGoes
<1>11. old \o text \in Seq(Byte)
  OBVIOUS
<1>12. msg.op = TEXT => msg.validator = Decode(utf8_accept, old \o text)
  <2>1. IsMessage(dataMsg)
    BY <1>5 DEF IsMessage
  <2> HIDE DEF msg
  <2>2. dataMsg.op = TEXT => msg.validator = Decode(utf8_accept, msg.payload)
    BY <1>2, <1>10, <2>1, ExtendedDecodes DEF msg
  <2> QED BY <1>9, <2>2
<1>13. msg.op # TEXT => msg.validator = utf8_accept
  BY <1>5 DEF Extended
<1>14. msg \in [op : 0..15, payload : Seq(Byte), validator : Utf8State]
  <2>1. PICK v : v = msg.validator
    OBVIOUS
  <2>2. v \in Utf8State
    <3>1. utf8_accept \in Utf8State
      BY DEF utf8_accept, Utf8State
    <3>2. Decode(utf8_accept, old \o text) \in Utf8State
      BY <1>11, <3>1, DecodeIn
    <3> QED BY <1>12, <1>13, <2>1, <3>1, <3>2, Zenon
  <2>3. PICK whole \in Seq(Byte) : whole = old \o text
    BY <1>11
  <2>4. msg = [op |-> dataMsg.op, payload |-> whole, validator |-> v]
    <3>1. PICK w : w = dataMsg.payload \o got
      OBVIOUS
    <3>2. PICK u : u = IF dataMsg.op = TEXT THEN Decode(dataMsg.validator, got)
                       ELSE dataMsg.validator
      OBVIOUS
    <3>3. msg = [op |-> dataMsg.op, payload |-> w, validator |-> u]
      BY <3>1, <3>2, Zenon DEF Extended
    <3> HIDE DEF msg
    <3>4. w = whole /\ u = v
      BY <1>9, <2>1, <2>3, <3>3
    <3> QED BY <3>3, <3>4, Zenon
  <2> QED BY <1>5, <2>2, <2>4
<1>15. ~(n < needed) => Len(old \o text) <= MaxMessage
  <2>1. Len(dataMsg.payload) + needed <= MaxMessage
    BY <1>1 DEF Good, Fits
  <2>2. PICK l \in Nat, k \in Nat : l = Len(old) /\ k = Len(read)
    OBVIOUS
  <2>3. Len(old \o read) = l + k /\ Len(read \o got) = k + n
    <3>1. PICK g \in Seq(Byte) : g = got
      BY <1>2
    <3>2. Len(old \o read) = l + k /\ Len(read \o g) = k + Len(g)
      BY <2>2
    <3> QED BY <1>3, <3>1, <3>2, Zenon
  <2>4. Len(old \o text) = l + (k + n)
    BY <1>6, <1>8, <2>2, <2>3
  <2>5. (l + k) + needed <= MaxMessage
    BY <1>4, <1>8, <2>1, <2>3
  <2>6. MaxMessage \in Nat
    BY LimitAssumption DEF LimitAssumption
  <2> QED BY <1>2, <2>4, <2>5, <2>6
<1>16. ~is_control(msg.op)
  BY <1>5, <1>9
<1>17. ~(n < needed) => text = f.payload
  BY <1>2, <1>6
<1> HIDE DEF msg
<1> QED BY <1>4, <1>6, <1>7, <1>9, <1>12, <1>13, <1>14, <1>15, <1>16, <1>17,
           Zenon DEF n, got, msg, f

\* Reading on in a data frame shows nothing.
LEMMA DataReadsOn ==
    ASSUME Good, Payload, current = "data", handler' = "frames", taken' = taken,
           IInv'
    PROVE  ReadInv' /\ Shown
<1> DEFINE n == Smaller(needed, avail - pos)
           msg == Extended(dataMsg, Bytes(n))
<1>1. /\ stream' = stream /\ dispatched' = dispatched /\ session' = session
      /\ fault' = fault /\ current' = "data" /\ basic' = basic
      /\ Opcode' = Opcode /\ handler = "frames" /\ state = "APPLICATION"
      /\ ReadOf' = ReadOf \o Bytes(n) /\ dataMsg' = msg
      /\ \/ state' = "APPLICATION"
         \/ state' = "READY" /\ get_fin(basic[1]) /\ ~Unfinished(msg)
      /\ HeaderGood' /\ SizeGood'
  <2>1. current # "control"
    OBVIOUS
  <2>2. Message = dataMsg
    BY <2>1, Zenon DEF Message
  <2>3. SetMessage(msg) => dataMsg' = msg /\ current' = current
    BY <2>1, Zenon DEF SetMessage
  <2> QED BY <2>2, <2>3, ReadsOn, Zenon
<1>2. PICK was \in Seq(Byte), text \in Seq(Byte) :
        /\ dataMsg.payload = was \o ReadOf
        /\ Opcode # CONTINUATION => was = <<>> /\ dataMsg.op = Opcode
        /\ text = ReadOf \o Bytes(n)
        /\ msg.op = dataMsg.op /\ msg.payload = was \o text
        /\ msg.op # TEXT => msg.validator = utf8_accept
        /\ msg \in [op : 0..15, payload : Seq(Byte), validator : Utf8State]
        /\ ~is_control(msg.op)
  <2>1. handler = "frames" /\ state = "APPLICATION"
    BY <1>1
  <2> QED BY <2>1, DataMore, Zenon
<1> HIDE DEF n, msg
<1>3. dataMsg' # None
  BY <1>1, <1>2, NoneAssumption, Zenon DEF Utf8State
<1>4. KindGood'
  BY <1>1, <1>2, Zenon DEF KindGood
<1>5. dataMsg'.payload = was \o ReadOf'
  BY <1>1, <1>2, Zenon
<1>6. DataGood'
  BY <1>1, <1>2, <1>3, <1>5, Zenon DEF DataGood
<1>7. ControlGood'
  BY <1>1 DEF ControlGood
<1>8. ReadyGood'
  BY <1>1 DEF ReadyGood, Unfinished, Opcode
<1>9. ReadInv'
  BY <1>1, <1>4, <1>6, <1>7, <1>8 DEF ReadInv
<1>10. (IInv /\ ReadInv /\ handler = "frames" /\ InData =>
          \A old \in Seq(Byte) : dataMsg.payload = old \o ReadOf =>
            WholeFrames = IF Opcode # CONTINUATION THEN None
                          ELSE [op |-> dataMsg.op, payload |-> old])'
  BY WholeInside, PTL
<1>11. InData /\ InData'
  BY <1>1 DEF InData
<1>12. WholeFrames' = IF Opcode' # CONTINUATION THEN None
                      ELSE [op |-> dataMsg'.op, payload |-> was]
  BY <1>5, <1>9, <1>10, <1>11
<1>13. WholeFrames = IF Opcode # CONTINUATION THEN None
                     ELSE [op |-> dataMsg.op, payload |-> was]
  BY <1>1, <1>2, <1>11, WholeInside DEF Good
<1>14. WholeFrames' = WholeFrames
  BY <1>1, <1>2, <1>12, <1>13, Zenon
<1>15. UNCHANGED FrameByFrame!vars
  BY <1>1, <1>14, ShowsNothing
<1> QED BY <1>9, <1>15 DEF Shown

\* A text is given up when no text begins like it, whatever is still to come of
\* the frame, or when a message of one frame ends within a code point.
LEMMA DataRefused ==
    ASSUME Good, Payload, current = "data", Fail, taken' = taken
    PROVE  ReadInv' /\ Shown
<1> DEFINE n == Smaller(needed, avail - pos)
           msg == Extended(dataMsg, Bytes(n))
           f == stream.frames[taken + 1]
<1>1. /\ handler = "frames" /\ state = "APPLICATION" /\ handler' = "stopped"
      /\ stream' = stream /\ dispatched' = dispatched
  BY DEF Payload, Consuming, networkVars, Fail
<1>2. \/ msg.validator = utf8_reject
      \/ ~(n < needed) /\ get_fin(basic[1]) /\ Unfinished(msg)
  <2>1. handler' # handler
    BY <1>1
  <2> QED BY <2>1, Zenon DEF Payload, Message, connectionVars
<1>3. PICK old \in Seq(Byte), text \in Seq(Byte), rest \in Seq(Byte) :
        /\ dataMsg.payload = old \o ReadOf
        /\ Opcode # CONTINUATION => old = <<>> /\ dataMsg.op = Opcode
        /\ f.payload = text \o rest
        /\ ~(n < needed) => text = f.payload
        /\ msg.op = dataMsg.op
        /\ msg.op = TEXT => msg.validator = Decode(utf8_accept, old \o text)
        /\ msg.op # TEXT => msg.validator = utf8_accept
  BY <1>1, DataMore, Zenon
<1>4. /\ Grown(f, WholeFrames) = [op |-> dataMsg.op, payload |-> old \o f.payload]
      /\ WholeFrames = None <=> Opcode # CONTINUATION
  BY <1>1, <1>3, GrownInside DEF InData
<1>5. f.op = Opcode /\ (f.fin <=> get_fin(basic[1])) /\ Takes
  BY <1>1, FrameRead DEF Good
<1>6. ~is_control(Opcode)
  BY <1>1 DEF Good, ReadInv, SizeGood, InPayload
<1> HIDE DEF n, msg, f
<1>7. PICK whole : whole = old \o f.payload
  OBVIOUS
<1>8. Grown(f, WholeFrames).op = dataMsg.op
      /\ Grown(f, WholeFrames).payload = whole
  BY <1>4, <1>7
<1>9. msg.op = TEXT /\ WrongText(f, WholeFrames)
  <2>1. CASE msg.validator = utf8_reject
    <3>1. msg.op = TEXT
      BY <1>3, <2>1 DEF utf8_accept, utf8_reject
    <3>2. PICK part \in Seq(Byte) : part = old \o text
      <4>1. old \o text \in Seq(Byte)
        OBVIOUS
      <4> QED BY <4>1, Zenon
    <3>3. whole = part \o rest
      <4>1. (old \o text) \o rest = old \o (text \o rest)
        OBVIOUS
      <4> QED BY <1>3, <1>7, <3>2, <4>1, Zenon
    <3>4. whole \in Seq(Byte)
      BY <3>3
    <3>5. Decode(utf8_accept, part) = utf8_reject
      BY <1>3, <2>1, <3>1, <3>2, Zenon
    <3>6. Decode(utf8_accept, part \o rest)
            = Decode(Decode(utf8_accept, part), rest)
      BY DecodeConcat DEF utf8_accept, Utf8State
    <3>7. Decode(utf8_reject, rest) = utf8_reject
      BY RejectStays
    <3>8. ~BeginsText(whole)
      BY <3>3, <3>4, <3>5, <3>6, <3>7, RejectsNoBeginning
    <3> QED BY <1>8, <3>1, <3>8, Zenon DEF WrongText
  <2>2. CASE ~(n < needed) /\ get_fin(basic[1]) /\ Unfinished(msg)
    <3>1. Opcode = TEXT /\ msg.validator # utf8_accept
      BY <2>2 DEF Unfinished, Opcode
    <3>2. msg.op = TEXT
      BY <1>3, <3>1
    <3>3. WholeFrames = None
      BY <1>4, <3>1 DEF TEXT, CONTINUATION
    <3>4. whole = old \o text
      BY <1>3, <1>7, <2>2
    <3>5. ~IsText(old \o text)
      <4>1. old \o text \in Seq(Byte)
        OBVIOUS
      <4> QED BY <1>3, <3>1, <3>2, <4>1, AcceptsText, Zenon
    <3> QED BY <1>5, <1>8, <2>2, <3>2, <3>3, <3>4, <3>5, Zenon DEF WrongText
  <2> QED BY <1>2, <2>1, <2>2
<1>10. Wrong(f, WholeFrames)
  BY <1>3, <1>5, <1>6, <1>8, <1>9, Zenon DEF Wrong, WrongData
<1>11. FrameByFrame!FailAt
  BY <1>1, <1>5, <1>10, FailsAt DEF f
<1> QED BY <1>1, <1>11, StoppedRead DEF Shown, FrameByFrame!Next

\* Between two frames nothing is kept but the message.
LEMMA NextRead ==
    state' = "HEADER_BASIC" /\ KindGood' => ReadInv'
BY DEF ReadInv, HeaderGood, SizeGood, ControlGood, DataGood, ReadyGood, InPayload

\* The last byte of a frame that does not end its message: it is taken.
LEMMA DataTaken ==
    ASSUME Good, Payload, current = "data", handler' = "frames", taken' # taken
    PROVE  ReadInv' /\ Shown
<1> DEFINE n == Smaller(needed, avail - pos)
           msg == Extended(dataMsg, Bytes(n))
           f == stream.frames[taken + 1]
<1>1. /\ handler = "frames" /\ state = "APPLICATION"
      /\ stream' = stream /\ dispatched' = dispatched
  BY DEF Payload, Consuming, networkVars
<1>2. dataMsg' = msg
  <2>1. current # "control"
    OBVIOUS
  <2> QED BY <2>1, Zenon DEF Payload, SetMessage, Message
<1>3. /\ ~(n < needed) /\ ~get_fin(basic[1]) /\ taken' = taken + 1
      /\ state' = "HEADER_BASIC" /\ msg.validator # utf8_reject
      /\ session' = session /\ fault' = fault /\ handler' = handler
  <2>1. Message = dataMsg
    BY Zenon DEF Message
  <2>2. handler' # "stopped"
    OBVIOUS
  <2>3. /\ ~(n < needed) /\ ~get_fin(basic[1]) /\ taken' = taken + 1
        /\ ResetHeaders /\ msg.validator # utf8_reject
        /\ UNCHANGED connectionVars
    BY <2>1, <2>2, Zenon DEF Payload, Fail
  <2> QED BY <2>3, Zenon DEF ResetHeaders, connectionVars
<1>4. PICK was \in Seq(Byte), text \in Seq(Byte), rest \in Seq(Byte) :
        /\ dataMsg.payload = was \o ReadOf
        /\ Opcode # CONTINUATION => was = <<>> /\ dataMsg.op = Opcode
        /\ ~(n < needed) => text = f.payload
        /\ ~(n < needed) => Len(was \o text) <= MaxMessage
        /\ msg.op = dataMsg.op /\ msg.payload = was \o text
        /\ msg.op = TEXT => msg.validator = Decode(utf8_accept, was \o text)
        /\ msg.op # TEXT => msg.validator = utf8_accept
        /\ msg \in [op : 0..15, payload : Seq(Byte), validator : Utf8State]
        /\ ~is_control(msg.op)
  BY <1>1, DataMore, Zenon
<1> HIDE DEF n, msg, f
<1>5. PICK whole \in Seq(Byte) : whole = was \o text
  <2>1. was \o text \in Seq(Byte)
    OBVIOUS
  <2> QED BY <2>1, Zenon
<1>6. /\ ~is_control(f.op) /\ ~Wrong(f, WholeFrames)
      /\ Grown(f, WholeFrames) = [op |-> dataMsg.op, payload |-> whole]
      /\ f.fin <=> get_fin(basic[1])
  <2>1. whole = was \o f.payload /\ Len(whole) <= MaxMessage
    BY <1>3, <1>4, <1>5, Zenon
  <2>2. dataMsg.op = TEXT => Decode(utf8_accept, whole) # utf8_reject
    BY <1>3, <1>4, <1>5, Zenon
  <2>3. InData
    BY <1>1 DEF InData
  <2> QED BY <1>1, <1>3, <1>4, <2>1, <2>2, <2>3, DataRight, Zenon DEF f
<1>7. KindGood'
  BY <1>2, <1>4, Zenon DEF KindGood
<1>8. dataMsg' # None
  BY <1>2, <1>4, NoneAssumption, Zenon DEF Utf8State
<1>9. (handler # "stopped" /\ ~InData /\ KindGood =>
         WholeFrames = IF dataMsg = None THEN None
                       ELSE [op |-> dataMsg.op, payload |-> dataMsg.payload])'
  BY WholeOutside, PTL
<1>10. ~InData' /\ handler' # "stopped"
  BY <1>3 DEF InData
<1>11. WholeFrames' = [op |-> dataMsg'.op, payload |-> dataMsg'.payload]
  BY <1>7, <1>8, <1>9, <1>10
<1>12. WholeFrames' = Grown(f, WholeFrames)
  BY <1>2, <1>4, <1>5, <1>6, <1>11, Zenon
<1>13. Takes
  BY <1>1, FrameRead DEF Good
<1>14. FrameByFrame!TakeData
  BY <1>1, <1>3, <1>6, <1>12, <1>13, TakesData DEF f
<1> QED BY <1>3, <1>7, <1>14, NextRead DEF Shown, FrameByFrame!Next

\* An iteration of the payload
LEMMA PayloadShows == Good /\ IInv' /\ Payload => ReadInv' /\ Shown
<1> SUFFICES ASSUME Good, IInv', Payload PROVE ReadInv' /\ Shown
  OBVIOUS
<1>1. handler = "frames" /\ state = "APPLICATION"
  BY DEF Payload, Consuming
<1>2. current \in {"data", "control"}
  BY <1>1 DEF Good, IInv, CurrentOK
<1>3. \/ Fail /\ taken' = taken
      \/ handler' = handler
  BY DEF Payload, connectionVars
<1> QED BY <1>1, <1>2, <1>3, ControlPayload, DataReadsOn, DataTaken, DataRefused

\* A message that is handed on is what its frames are.
LEMMA DispatchShows == Good /\ Dispatch => ReadInv' /\ Shown
<1> SUFFICES ASSUME Good, Dispatch PROVE ReadInv' /\ Shown
  OBVIOUS
<1> DEFINE f == stream.frames[taken + 1]
<1>1. /\ handler = "frames" /\ state = "READY" /\ SetMessage(None)
      /\ state' = "HEADER_BASIC" /\ taken' = taken + 1 /\ stream' = stream
      /\ handler' = handler /\ fault' = fault
      /\ dispatched' = IF session = "open"
                       THEN Append(dispatched, [op |-> Message.op,
                                                payload |-> Message.payload])
                       ELSE dispatched
      /\ session' = IF Message.op = CLOSE THEN "closing" ELSE session
  BY DEF Dispatch, ResetHeaders, networkVars
<1>2. IInv /\ ReadInv /\ KindGood /\ InPayload /\ handler # "stopped"
      /\ state # "HEADER_BASIC" /\ current \in {"data", "control"}
  BY <1>1 DEF Good, ReadInv, InPayload, IInv, CurrentOK
<1>3. Takes /\ f.op = Opcode
  BY <1>1, <1>2, FrameRead
<1>4. ReadOf \in Seq(Byte) /\ ReadOf = f.payload
  <2>1. needed = 0
    BY <1>1, <1>2, PayloadEnd
  <2> QED BY <1>1, <1>2, <2>1, ReadOfIs
<1> HIDE DEF f
<1>5. CASE current = "control"
  <2>1. controlMsg = [op |-> Opcode, payload |-> ReadOf, validator |-> utf8_accept]
    BY <1>2, <1>5 DEF ReadInv, ControlGood
  <2>2. PICK p : p = ReadOf
    OBVIOUS
  <2>3. controlMsg.op = Opcode /\ controlMsg.payload = p
    <3>1. controlMsg = [op |-> Opcode, payload |-> p, validator |-> utf8_accept]
      BY <2>1, <2>2, Zenon
    <3> QED BY <3>1
  <2>4. Message.op = f.op /\ Message.payload = f.payload
    BY <1>3, <1>4, <1>5, <2>2, <2>3, Zenon DEF Message
  <2>5. is_control(Opcode)
    BY <1>2, <1>5 DEF ReadInv, SizeGood
  <2>6. is_control(f.op) /\ ~Wrong(f, WholeFrames)
    BY <1>1, <2>5, ControlRight DEF f
  <2>7. dataMsg' = dataMsg
    BY <1>1, <1>5 DEF SetMessage
  <2>8. KindGood'
    BY <1>1, <1>2, <2>7, Zenon DEF KindGood
  <2>9. WholeFrames' = WholeFrames
    BY <1>1, <1>2, <1>5, <2>7, <2>8, SameWhole DEF InData
  <2>10. /\ dispatched' = IF session = "open"
                          THEN Append(dispatched,
                                      [op |-> f.op, payload |-> f.payload])
                          ELSE dispatched
         /\ session' = IF f.op = CLOSE THEN "closing" ELSE session
    BY <1>1, <2>4, Zenon
  <2>11. FrameByFrame!TakeControl
    BY <1>1, <1>3, <2>6, <2>9, <2>10, TakesControl DEF f
  <2> QED BY <1>1, <2>8, <2>11, NextRead DEF Shown, FrameByFrame!Next
<1>6. CASE current = "data"
  <2>1. PICK old \in Seq(Byte) :
          /\ dataMsg.payload = old \o ReadOf
          /\ Opcode # CONTINUATION => old = <<>> /\ dataMsg.op = Opcode
    BY <1>2, <1>6, Zenon DEF ReadInv, DataGood
  <2>2. dataMsg # None
    BY <1>2, <1>6 DEF ReadInv, DataGood
  <2>3. /\ dataMsg \in [op : 0..15, payload : Seq(Byte), validator : Utf8State]
        /\ ~is_control(dataMsg.op)
        /\ dataMsg.op # TEXT => dataMsg.validator = utf8_accept
    BY <1>2, <2>2, Zenon DEF KindGood
  <2>4. PICK whole \in Seq(Byte) : whole = dataMsg.payload
    BY <2>3
  <2>5. whole = old \o f.payload
    BY <1>4, <2>1, <2>4, Zenon
  <2>6. Len(whole) <= MaxMessage
    BY <1>2, <2>2, <2>4 DEF Good, Fits
  <2>7. dataMsg.op = TEXT =>
          /\ dataMsg.validator = Decode(utf8_accept, whole)
          /\ dataMsg.validator # utf8_reject
    BY <1>2, <2>2, <2>4, Zenon DEF Good, Validated, TextGoes
  <2>8. get_fin(basic[1]) /\ (Opcode = TEXT => dataMsg.validator = utf8_accept)
    BY <1>1, <1>2 DEF ReadInv, ReadyGood
  <2>9. Opcode = TEXT => dataMsg.op = TEXT
    BY <2>1 DEF TEXT, CONTINUATION
  <2>10. InData
    BY <1>1, <1>6 DEF InData
  <2>11. /\ ~is_control(f.op) /\ ~Wrong(f, WholeFrames)
         /\ Grown(f, WholeFrames) = [op |-> dataMsg.op, payload |-> whole]
         /\ f.fin <=> get_fin(basic[1])
    <3>1. whole = old \o stream.frames[taken + 1].payload
      BY <2>5 DEF f
    <3>2. dataMsg.op = TEXT => Decode(utf8_accept, whole) # utf8_reject
      BY <2>7
    <3>3. get_fin(basic[1]) /\ Opcode = TEXT =>
            Decode(utf8_accept, whole) = utf8_accept
      BY <2>7, <2>8, <2>9
    <3> QED BY <1>1, <2>1, <2>6, <2>10, <3>1, <3>2, <3>3, DataRight, Zenon DEF f
  <2>12. Message = dataMsg
    BY <1>6 DEF Message
  <2>13. session' = session
    <3>1. dataMsg.op # CLOSE
      BY <2>3 DEF is_control, CLOSE
    <3> QED BY <1>1, <2>12, <3>1, Zenon
  <2>14. dataMsg' = None
    BY <1>1, <1>6 DEF SetMessage
  <2>15. WholeFrames' = None
    BY <2>14 DEF WholeFrames
  <2>16. dispatched' = IF session = "open"
                       THEN Append(dispatched, Grown(f, WholeFrames))
                       ELSE dispatched
    BY <1>1, <2>4, <2>11, <2>12, Zenon
  <2>17. KindGood'
    BY <2>14 DEF KindGood
  <2>18. f.fin
    BY <2>8, <2>11
  <2>19. FrameByFrame!TakeData
    BY <1>1, <1>3, <2>11, <2>13, <2>15, <2>16, <2>18, TakesData DEF f
  <2> QED BY <1>1, <2>17, <2>19, NextRead DEF Shown, FrameByFrame!Next
<1> QED BY <1>2, <1>5, <1>6

\* Steps that leave the processor alone
LEMMA SameRead ==
    ASSUME ReadInv, handler' = "stopped" <=> handler = "stopped",
           stream' = stream, pos' = pos,
           UNCHANGED <<headerVars, messageVars, historyVars>>
    PROVE  ReadInv' /\ WholeFrames' = WholeFrames
<1>1. /\ state' = state /\ needed' = needed /\ basic' = basic
      /\ dataMsg' = dataMsg /\ controlMsg' = controlMsg
      /\ current' = current /\ taken' = taken
  BY DEF headerVars, messageVars, historyVars
<1>2. /\ Opcode' = Opcode /\ ReadOf' = ReadOf /\ (InPayload' <=> InPayload)
  BY <1>1, Zenon DEF Opcode, ReadOf, InPayload
<1>3. HeaderGood' /\ SizeGood'
  <2>1. HeaderGood /\ SizeGood
    BY DEF ReadInv
  <2> QED BY <1>1, <1>2, <2>1, Zenon DEF HeaderGood, SizeGood
<1>4. ControlGood' /\ DataGood'
  <2>1. ControlGood /\ DataGood
    BY DEF ReadInv
  <2> QED BY <1>1, <1>2, <2>1, Zenon DEF ControlGood, DataGood
<1>5. ReadyGood' /\ KindGood'
  <2>1. ReadyGood /\ KindGood
    BY DEF ReadInv
  <2> QED BY <1>1, <1>2, <2>1, Zenon DEF ReadyGood, KindGood
<1>6. WholeFrames' = WholeFrames
  BY <1>1, Zenon DEF WholeFrames
<1> QED BY <1>3, <1>4, <1>5, <1>6 DEF ReadInv

\* The calls and the network: what FrameStream says of them
LEMMA OthersShow ==
    Good /\ (ReadFrame \/ Receive \/ LocalClose \/ Terminate) => ReadInv' /\ Shown
<1> SUFFICES ASSUME Good, ReadFrame \/ Receive \/ LocalClose \/ Terminate
             PROVE  ReadInv' /\ Shown
  OBVIOUS
<1>1. /\ stream' = stream /\ pos' = pos /\ fault' = fault
      /\ UNCHANGED <<headerVars, messageVars, historyVars>>
  BY DEF ReadFrame, Receive, Arrives, LocalClose, Terminate, networkVars
<1>2. taken' = taken /\ dispatched' = dispatched
  BY <1>1 DEF historyVars
<1>3. ReadInv
  BY DEF Good
<1>4. CASE ReadFrame \/ Receive
  <2>1. handler # "stopped" /\ handler' # "stopped" /\ session' = session
    BY <1>4 DEF ReadFrame, Receive, Arrives
  <2>2. ReadInv' /\ WholeFrames' = WholeFrames
    BY <1>1, <1>3, <2>1, SameRead
  <2> QED BY <1>1, <1>2, <2>1, <2>2, ShowsNothing DEF Shown
<1>5. CASE LocalClose
  <2>1. handler' = handler /\ session = "open" /\ session' = "closing"
    BY <1>5 DEF LocalClose
  <2>2. ReadInv' /\ WholeFrames' = WholeFrames
    BY <1>1, <1>3, <2>1, SameRead
  <2>3. FrameByFrame!LocalClose
    BY <1>1, <1>2, <2>1, <2>2 DEF FrameByFrame!LocalClose
  <2> QED BY <2>2, <2>3 DEF Shown, FrameByFrame!Next
<1>6. CASE Terminate
  <2>1. session # "closed" /\ session' = "closed" /\ handler' = "stopped"
    BY <1>6 DEF Terminate
  <2>2. WholeFrames' = None
    BY <2>1 DEF WholeFrames
  <2>3. FrameByFrame!Terminate
    BY <1>1, <1>2, <2>1, <2>2 DEF FrameByFrame!Terminate, FrameByFrame!Stop
  <2> QED BY <2>1, <2>3, StoppedRead DEF Shown, FrameByFrame!Next
<1> QED BY <1>4, <1>5, <1>6

\* Every step of the reader
LEMMA ReaderShows == Good /\ IInv' /\ Next => ReadInv' /\ Shown
BY BasicShows, ExtendedShows, PayloadShows, DispatchShows, OthersShow
   DEF Next, Reading

\* Nothing of a frame was read before the response.
LEMMA ConnectingShows ==
    ASSUME IInv, session = "connecting", UNCHANGED frameVars
    PROVE  /\ ReadInv' /\ WholeFrames = None /\ WholeFrames' = None
           /\ taken' = taken /\ dispatched' = dispatched
<1>1. /\ state' = state /\ dataMsg' = dataMsg
      /\ taken' = taken /\ dispatched' = dispatched
  BY DEF frameVars, headerVars, messageVars, historyVars
<1>2. state = "HEADER_BASIC" /\ dataMsg = None
  BY DEF IInv, Untouched, NewProcessor
<1>3. ReadInv'
  BY <1>1, <1>2, NextRead DEF KindGood
<1> QED BY <1>1, <1>2, <1>3 DEF WholeFrames

\* How the stream says whether its response is an acceptance
LEMMA Acceptance ==
    ASSUME NEW s \in Streams, NEW n \in Nat, IsResponse(s.bytes, s.at[1], n)
    PROVE  s.accepts <=> IsAcceptance(s.bytes, n)
<1>1. s.bytes \in Seq(Byte)
  BY StreamAssumption DEF WellFramed
<1>2. n \in 0..Len(s.bytes)
  <2>1. PICK end : end = s.at[1]
    OBVIOUS
  <2>2. Len(s.bytes) \in Nat
    BY <1>1
  <2>3. end = 3 * n + 2 /\ end <= Len(s.bytes)
    BY <2>1 DEF IsResponse
  <2> QED BY <2>2, <2>3
<1> QED BY <1>2, MeaningAssumption

\* A response that is refused
LEMMA RefusedShows ==
    ASSUME IInv, session = "connecting", Refuse,
           ~stream.accepts \/ Len(stream.bytes) > MaxHeader,
           stream' = stream, UNCHANGED frameVars
    PROVE  ReadInv' /\ ResponseRead' /\ Shown
<1>1. /\ ReadInv' /\ WholeFrames' = None /\ taken' = taken
      /\ dispatched' = dispatched
  BY ConnectingShows
<1>2. session' = "closed" /\ handler' = "stopped" /\ fault' = "response"
  BY DEF Refuse
<1>3. FrameByFrame!Refuse
  BY <1>1, <1>2 DEF FrameByFrame!Refuse, FrameByFrame!Stop
<1> QED BY <1>1, <1>2, <1>3 DEF Shown, FrameByFrame!Next, ResponseRead

\* A step of the handshake that decides nothing
LEMMA UndecidedShows ==
    ASSUME IInv, session = "connecting", handler # "stopped",
           handler' # "stopped", session' = session, fault' = fault,
           stream' = stream, UNCHANGED frameVars
    PROVE  ReadInv' /\ Shown
<1>1. /\ ReadInv' /\ WholeFrames' = None /\ WholeFrames = None /\ taken' = taken
      /\ dispatched' = dispatched
  BY ConnectingShows
<1> QED BY <1>1, ShowsNothing DEF Shown

\* The line of the response that is next
LEMMA NextLine ==
    ASSUME PathInv, handler = "response", Delimiters # {}
    PROVE  \E n \in Nat : \E k \in 0..n :
             /\ IsResponse(stream.bytes, stream.at[1], n)
             /\ 3 * k + Len(buf) = avail /\ Len(buf) >= 2
             /\ Delimiter > 1 => k < n /\ buf[1] = stream.bytes[3 * (k + 1) - 2]
             /\ Delimiter = 1 => k = n
             /\ Delimiter \in {1, 2}
             /\ Delimiter > 1 => Len(buf) >= 3
<1> DEFINE b == stream.bytes
           end == stream.at[1]
<1>1. PICK n \in Nat : \E k \in 0..n :
        /\ IsResponse(b, end, n) /\ 3 * k <= avail
        /\ buf = SubSeq(b, 3 * k + 1, avail)
        /\ Len(buf) = avail - 3 * k
        /\ \/ /\ k < n /\ Delimiter = 2 /\ Len(buf) >= 3
              /\ buf[1] \in Lines \ (Length + 1)..(Length + 9)
           \/ k = n /\ Delimiter = 1 /\ Len(buf) >= 2
  BY FirstLine, Zenon
<1>2. PICK k \in 0..n :
        /\ IsResponse(b, end, n) /\ 3 * k <= avail
        /\ buf = SubSeq(b, 3 * k + 1, avail)
        /\ Len(buf) = avail - 3 * k
        /\ \/ k < n /\ Delimiter = 2 /\ Len(buf) >= 3
           \/ k = n /\ Delimiter = 1 /\ Len(buf) >= 2
  BY <1>1, Zenon
<1>3. avail \in Nat /\ avail <= Len(b) /\ b \in Seq(Byte)
  BY StreamAssumption DEF PathInv, IInv, TypeOK, WellFramed
<1> HIDE DEF b, end
<1>4. PICK s \in Nat : s = 3 * k /\ s + 1 = 3 * (k + 1) - 2
  OBVIOUS
<1>5. s + Len(buf) = avail /\ Len(buf) >= 2 /\ s <= avail
  BY <1>2, <1>3, <1>4
<1>6. buf[1] = b[s + 1]
  <2>1. buf = SubSeq(b, s + 1, avail)
    BY <1>2, <1>4
  <2>2. 1 \in 1..(avail - s)
    BY <1>2, <1>3, <1>4
  <2> QED BY <1>3, <1>5, <2>1, <2>2, PartAt
<1>7. Delimiter = 2 \/ Delimiter = 1
  BY <1>2
<1>8. /\ Delimiter > 1 => k < n /\ Len(buf) >= 3
      /\ Delimiter = 1 => k = n
  <2>1. PICK d, l : d = Delimiter /\ l = Len(buf)
    OBVIOUS
  <2>2. (k < n /\ d = 2 /\ l >= 3) \/ (k = n /\ d = 1 /\ l >= 2)
    BY <1>2, <2>1, Zenon
  <2>3. (d > 1 => k < n /\ l >= 3) /\ (d = 1 => k = n)
    BY <2>2
  <2> QED BY <2>1, <2>3, Zenon
<1> QED BY <1>2, <1>4, <1>5, <1>6, <1>7, <1>8 DEF b, end

\* One more header: how often the handshake was answered, none or once
LEMMA OneHeader ==
    ASSUME NEW f, NEW k \in Nat, k >= 1, NEW u \in Nat, Given(f, k, u),
           NEW v \in Nat, v = IF f[k + 1] = Upgrade THEN u + 1 ELSE u
    PROVE  Given(f, k + 1, v)
<1>1. \A j : j \in 2..(k + 1) <=> j \in 2..k \/ j = k + 1
  OBVIOUS
<1>0. /\ u = 0 <=> \A j \in 2..k : f[j] # Upgrade
      /\ u = 1 <=> \E i \in 2..k : \A j \in 2..k : f[j] = Upgrade <=> j = i
  BY DEF Given
<1>2. k + 1 \notin 2..k /\ 2..k \subseteq Nat
  OBVIOUS
<1>3. CASE f[k + 1] = Upgrade
  <2>1. v # 0 /\ (v = 1 <=> u = 0)
    BY <1>3
  <2>2. (\A j \in 2..k : f[j] # Upgrade) <=>
          \E i \in 2..(k + 1) :
             \A j \in 2..(k + 1) : f[j] = Upgrade <=> j = i
    <3>1. ASSUME \A j \in 2..k : f[j] # Upgrade
          PROVE  \E i \in 2..(k + 1) :
                   \A j \in 2..(k + 1) : f[j] = Upgrade <=> j = i
      <4>1. \A j \in 2..(k + 1) : f[j] = Upgrade <=> j = k + 1
        BY <1>1, <1>2, <1>3, <3>1, Zenon
      <4>2. k + 1 \in 2..(k + 1)
        BY <1>1
      <4> QED BY <4>1, <4>2, Zenon
    <3>2. ASSUME NEW i \in 2..(k + 1),
                 \A j \in 2..(k + 1) : f[j] = Upgrade <=> j = i
          PROVE  \A j \in 2..k : f[j] # Upgrade
      <4>1. i = k + 1
        BY <1>1, <1>3, <3>2, Zenon
      <4> QED BY <1>1, <1>2, <3>2, <4>1, Zenon
    <3> QED BY <3>1, <3>2, Zenon
  <2>3. ~ \A j \in 2..(k + 1) : f[j] # Upgrade
    BY <1>1, <1>3, Zenon
  <2> QED BY <1>0, <2>1, <2>2, <2>3, Zenon DEF Given
<1>4. CASE f[k + 1] # Upgrade
  <2>1. v = u
    BY <1>4
  <2>2. (\A j \in 2..(k + 1) : f[j] # Upgrade) <=>
          \A j \in 2..k : f[j] # Upgrade
    BY <1>1, <1>4, Zenon
  <2>3. (\E i \in 2..(k + 1) : \A j \in 2..(k + 1) : f[j] = Upgrade <=> j = i)
          <=> \E i \in 2..k : \A j \in 2..k : f[j] = Upgrade <=> j = i
    <3>1. ASSUME NEW i \in 2..(k + 1),
                 \A j \in 2..(k + 1) : f[j] = Upgrade <=> j = i
          PROVE  \E h \in 2..k : \A j \in 2..k : f[j] = Upgrade <=> j = h
      <4>1. i # k + 1
        BY <1>4, <3>1, Zenon
      <4>2. i \in 2..k
        BY <1>1, <4>1, Zenon
      <4> QED BY <1>1, <3>1, <4>2, Zenon
    <3>2. ASSUME NEW i \in 2..k, \A j \in 2..k : f[j] = Upgrade <=> j = i
          PROVE  \E h \in 2..(k + 1) :
                   \A j \in 2..(k + 1) : f[j] = Upgrade <=> j = h
      <4>1. i # k + 1 /\ i \in 2..(k + 1)
        BY <1>1, <1>2, Zenon
      <4>2. f[k + 1] = Upgrade <=> k + 1 = i
        BY <1>4, <4>1, Zenon
      <4>3. \A j \in 2..(k + 1) : f[j] = Upgrade <=> j = i
        <5> SUFFICES ASSUME NEW j \in 2..(k + 1)
                     PROVE  f[j] = Upgrade <=> j = i
          OBVIOUS
        <5>1. CASE j \in 2..k
          BY <3>2, <5>1, Zenon
        <5>2. CASE j = k + 1
          BY <4>2, <5>2, Zenon
        <5> QED BY <1>1, <5>1, <5>2, Zenon
      <4> QED BY <4>1, <4>3, Zenon
    <3> QED BY <3>1, <3>2, Zenon
  <2> QED BY <1>0, <2>1, <2>2, <2>3, Zenon DEF Given
<1> QED BY <1>3, <1>4

\* A step that reads no line
LEMMA SameLines ==
    ASSUME NEW k \in Nat, LinesRead(k), stream' = stream, hstate' = hstate,
           status' = status, upgrades' = upgrades, length' = length
    PROVE  LinesRead(k)'
<1>1. HeaderLines' = HeaderLines
  BY Zenon DEF HeaderLines
<1> QED BY <1>1, Zenon DEF LinesRead, Given, LengthRead, LengthFirst

\* One header more, and the first Content-Length
LEMMA OneLength ==
    ASSUME NEW line, NEW k \in Nat, k >= 1, NEW l, NEW l1,
           l \in {None, 0, NoNumber}, LengthRead(line, k, l),
           line[k + 1] \in Lines \ (Length + 1)..(Length + 9),
           l1 = IF l = None /\ line[k + 1] \in Lengths
                THEN line[k + 1] - Length ELSE l
    PROVE  LengthRead(line, k + 1, l1)
<1>1. /\ l = None <=> \A j \in 2..k : line[j] \notin {Length, Length + NoNumber}
      /\ l = NoNumber <=> ~LengthFirst(line, k)
  BY DEF LengthRead
<1>2. /\ \A j \in 2..(k + 1) : j \in 2..k \/ j = k + 1
      /\ \A j \in 2..k : j \in 2..(k + 1)
      /\ k + 1 \in 2..(k + 1) /\ (k + 1) - 1 = k
  OBVIOUS
<1>3. None # 0 /\ None # NoNumber /\ 0 # NoNumber
  BY ResponseAssumption DEF NoNumber
<1>4. Length # Length + NoNumber
  BY DEF Length, NoNumber
<1>5. LengthFirst(line, k + 1)
        <=> /\ LengthFirst(line, k)
            /\ line[k + 1] = Length + NoNumber =>
                 \E j \in 2..k : line[j] = Length
  <2>1. ASSUME LengthFirst(line, k + 1)
        PROVE  /\ LengthFirst(line, k)
               /\ line[k + 1] = Length + NoNumber =>
                    \E j \in 2..k : line[j] = Length
    BY <1>2, <2>1, Zenon DEF LengthFirst
  <2>2. ASSUME LengthFirst(line, k),
               line[k + 1] = Length + NoNumber =>
                 \E j \in 2..k : line[j] = Length
        PROVE  LengthFirst(line, k + 1)
    BY <1>2, <2>2, Zenon DEF LengthFirst
  <2> QED BY <2>1, <2>2
<1>6. CASE line[k + 1] \notin {Length, Length + NoNumber}
  <2>1. line[k + 1] \notin Lengths
    BY <1>6 DEF Lengths, NoNumber, Length
  <2>2. l1 = l
    BY <2>1
  <2>3. (\A j \in 2..(k + 1) : line[j] \notin {Length, Length + NoNumber})
          <=> \A j \in 2..k : line[j] \notin {Length, Length + NoNumber}
    BY <1>2, <1>6, Zenon
  <2> QED BY <1>1, <1>5, <1>6, <2>2, <2>3, Zenon DEF LengthRead
<1>7. CASE line[k + 1] \in {Length, Length + NoNumber} /\ l = None
  <2>1. line[k + 1] \in Lengths
    BY <1>7 DEF Lengths, NoNumber, Length
  <2>2. l1 = line[k + 1] - Length
    BY <1>7, <2>1
  <2>3. CASE line[k + 1] = Length
    <3>1. l1 = 0
      BY <2>2, <2>3 DEF Length
    <3>2. LengthFirst(line, k + 1)
      BY <1>1, <1>3, <1>4, <1>5, <1>7, <2>3, Zenon
    <3> QED BY <1>2, <1>3, <2>3, <3>1, <3>2, Zenon DEF LengthRead
  <2>4. CASE line[k + 1] = Length + NoNumber
    <3>1. l1 = NoNumber
      BY <2>2, <2>4 DEF Length, NoNumber
    <3>2. ~LengthFirst(line, k + 1)
      BY <1>1, <1>5, <1>7, <2>4, Zenon
    <3> QED BY <1>2, <1>3, <2>4, <3>1, <3>2, Zenon DEF LengthRead
  <2> QED BY <1>7, <2>3, <2>4
<1>8. CASE line[k + 1] \in {Length, Length + NoNumber} /\ l # None
  <2>1. l1 = l
    BY <1>8
  <2>2. PICK j \in 2..k : line[j] \in {Length, Length + NoNumber}
    BY <1>1, <1>8
  <2>3. LengthFirst(line, k) => \E i \in 2..k : line[i] = Length
    <3>1. \A i \in 2..(j - 1) : i \in 2..k
      OBVIOUS
    <3> QED BY <2>2, <3>1, Zenon DEF LengthFirst
  <2>4. LengthFirst(line, k + 1) <=> LengthFirst(line, k)
    BY <1>5, <2>3, Zenon
  <2> QED BY <1>1, <1>2, <1>8, <2>1, <2>2, <2>4, Zenon DEF LengthRead
<1> QED BY <1>6, <1>7, <1>8

\* Bytes of the response arrive: it is refused only for its size.
LEMMA ResponseBytesShow ==
    PathInv /\ ResponseRead /\ ReadResponse => ReadInv' /\ ResponseRead' /\ Shown
<1> SUFFICES ASSUME PathInv, ResponseRead, ReadResponse
             PROVE  ReadInv' /\ ResponseRead' /\ Shown
  OBVIOUS
<1> DEFINE b == stream.bytes
<1>1. IInv /\ HeaderInv /\ ResponseTypes /\ TypeOK /\ stream \in Streams
  BY DEF PathInv, IInv
<1>2. PICK m \in 1..ReadSize : Arrives(m)
  BY DEF ReadResponse
<1>3. /\ session = "connecting" /\ handler = "idle" /\ stream' = stream
      /\ pos' = pos /\ avail' = avail + m /\ avail' <= Len(b)
      /\ UNCHANGED <<frameVars, hstate, mRead, status, upgrades, length>>
      /\ IF mRead + avail' - pos > MaxHeader
         THEN Refuse /\ UNCHANGED buf
         ELSE /\ buf' = buf \o SubSeq(b, pos + 1, avail')
              /\ handler' = "response" /\ session' = session /\ fault' = fault
  BY <1>2 DEF ReadResponse, Arrives
<1>4. /\ pos \in Nat /\ avail \in Nat /\ pos = avail /\ m \in Nat
      /\ mRead = pos /\ Len(b) \in Nat /\ b \in Seq(Byte) /\ buf \in Seq(Byte)
  <2>1. b \in Seq(Byte)
    BY <1>1, StreamAssumption DEF WellFramed
  <2>2. pos \in Nat /\ avail \in Nat
    BY <1>1 DEF TypeOK
  <2>3. pos = avail /\ mRead = pos
    BY <1>1, <1>3 DEF HeaderInv, ResponseRead
  <2>4. m \in Nat
    BY <1>2, LimitAssumption DEF LimitAssumption
  <2>5. Len(b) \in Nat /\ buf \in Seq(Byte)
    BY <1>1, <2>1 DEF ResponseTypes
  <2> QED BY <2>1, <2>2, <2>3, <2>4, <2>5
<1>5. mRead + avail' - pos = avail' /\ avail' \in Nat /\ avail <= avail'
  BY <1>3, <1>4
<1>6. CASE avail' > MaxHeader
  <2>1. Refuse
    BY <1>3, <1>5, <1>6
  <2>2. Len(b) > MaxHeader
    BY <1>3, <1>4, <1>5, <1>6, ResponseAssumption
  <2> QED BY <1>1, <1>3, <2>1, <2>2, RefusedShows
<1>7. CASE ~(avail' > MaxHeader)
  <2>1. /\ buf' = buf \o SubSeq(b, pos + 1, avail')
        /\ handler' = "response" /\ session' = session /\ fault' = fault
    BY <1>3, <1>5, <1>7
  <2>2. ReadInv' /\ Shown
    BY <1>1, <1>3, <2>1, UndecidedShows
  <2>3. avail' <= MaxHeader
    BY <1>5, <1>7, ResponseAssumption
  <2>4. Len(buf') = Len(buf) + (avail' - pos)
    <3>1. PICK part \in Seq(Byte) :
            part = SubSeq(b, pos + 1, avail') /\ Len(part) = avail' - pos
      <4>1. pos <= avail' /\ avail' <= Len(b)
        BY <1>3, <1>4, <1>5
      <4> HIDE DEF b
      <4>2. /\ SubSeq(b, pos + 1, avail') \in Seq(Byte)
            /\ Len(SubSeq(b, pos + 1, avail')) = avail' - pos
        BY <1>4, <1>5, <4>1, GlueLeft
      <4> QED BY <4>2, Zenon
    <3> QED BY <1>4, <2>1, <3>1
  <2>5. \A k \in Nat : 3 * k + Len(buf') = avail' => LinesRead(k)'
    <3> SUFFICES ASSUME NEW k \in Nat, 3 * k + Len(buf') = avail'
                 PROVE  LinesRead(k)'
      OBVIOUS
    <3>1. 3 * k + Len(buf) = avail
      <4>1. PICK l \in Nat : l = Len(buf)
        BY <1>4
      <4>2. PICK s \in Nat : s = 3 * k
        OBVIOUS
      <4>3. s + (l + (avail' - pos)) = avail'
        BY <2>4, <4>1, <4>2, Zenon
      <4>4. PICK a \in Nat, z \in Nat : a = avail /\ a = pos /\ z = avail'
        BY <1>4, <1>5, Zenon
      <4>5. s + (l + (z - a)) = z
        BY <4>3, <4>4, Zenon
      <4>6. s + l = a
        BY <4>5
      <4> QED BY <4>1, <4>2, <4>4, <4>6, Zenon
    <3>2. LinesRead(k)
      BY <1>3, <3>1 DEF ResponseRead
    <3> QED BY <1>3, <3>2, SameLines
  <2>6. mRead' = pos'
    BY <1>3, <1>4
  <2> QED BY <2>2, <2>3, <2>5, <2>6 DEF ResponseRead
<1> QED BY <1>6, <1>7

\* No line is complete: nothing shows.
LEMMA OutOfBytesShows ==
    PathInv /\ ResponseRead /\ OutOfBytes => ReadInv' /\ ResponseRead' /\ Shown
<1> SUFFICES ASSUME PathInv, ResponseRead, OutOfBytes
             PROVE  ReadInv' /\ ResponseRead' /\ Shown
  OBVIOUS
<1>1. /\ handler = "response" /\ mRead' = mRead + avail - pos
      /\ pos' = avail /\ handler' = "idle" /\ stream' = stream
      /\ avail' = avail /\ session' = session /\ fault' = fault
      /\ UNCHANGED <<frameVars, hstate, buf, status, upgrades, length>>
  BY DEF OutOfBytes, networkVars
<1>2. IInv /\ session = "connecting" /\ pos \in Nat /\ avail \in Nat
  BY <1>1 DEF PathInv, HeaderInv, IInv, TypeOK
<1>3. ReadInv' /\ Shown
  BY <1>1, <1>2, UndecidedShows
<1>4. mRead' = pos'
  BY <1>1, <1>2 DEF ResponseRead
<1>5. \A k \in Nat : 3 * k + Len(buf') = avail' => LinesRead(k)'
  <2> SUFFICES ASSUME NEW k \in Nat, 3 * k + Len(buf') = avail'
               PROVE  LinesRead(k)'
    OBVIOUS
  <2>1. 3 * k + Len(buf) = avail
    BY <1>1
  <2>2. LinesRead(k)
    BY <1>2, <2>1 DEF ResponseRead
  <2> QED BY <1>1, <2>2, SameLines
<1> QED BY <1>1, <1>3, <1>4, <1>5 DEF ResponseRead

\* What was read of the lines with one line more
LEMMA LineMore ==
    ASSUME NEW k \in Nat, LinesRead(k), ResponseTypes, stream' = stream,
           buf[1] = HeaderLines[k + 1], ~BadLine(buf[1]),
           buf[1] \in Lines \ (Length + 1)..(Length + 9),
           length \in {None, 0, NoNumber}, hstate' = "HEADERS",
           IF hstate = "RESPONSE_LINE"
           THEN status' = buf[1] /\ upgrades' = upgrades /\ length' = length
           ELSE /\ status' = status
                /\ upgrades' = IF buf[1] = Upgrade THEN upgrades + 1
                               ELSE upgrades
                /\ length' = IF length = None /\ buf[1] \in Lengths
                             THEN buf[1] - Length ELSE length
    PROVE  LinesRead(k + 1)'
<1> DEFINE line == buf[1]
<1>1. /\ hstate = IF k = 0 THEN "RESPONSE_LINE" ELSE "HEADERS"
      /\ k > 0 => status = HeaderLines[1]
      /\ \A j \in 1..k : HeaderLines[j] # NoLine
      /\ Given(HeaderLines, k, upgrades)
      /\ LengthRead(HeaderLines, k, length)
  BY DEF LinesRead
<1>2. line # NoLine /\ upgrades \in Nat /\ upgrades' \in Nat
  BY DEF BadLine, ResponseTypes
<1>3. HeaderLines' = HeaderLines
  BY Zenon DEF HeaderLines
<1>4. status' = HeaderLines[1]
  <2>1. CASE k = 0
    BY <1>1, <2>1
  <2>2. CASE k # 0
    BY <1>1, <2>2
  <2> QED BY <2>1, <2>2
<1>5. \A j \in 1..(k + 1) : HeaderLines[j] # NoLine
  <2> SUFFICES ASSUME NEW j \in 1..(k + 1) PROVE HeaderLines[j] # NoLine
    OBVIOUS
  <2>1. j \in 1..k \/ j = k + 1
    OBVIOUS
  <2> QED BY <1>1, <1>2, <2>1, Zenon
<1>6. Given(HeaderLines, k + 1, upgrades')
  <2>1. CASE k = 0
    <3>1. \A j : j \notin 2..k /\ j \notin 2..(k + 1)
      BY <2>1
    <3>2. upgrades = 0
      BY <1>1, <3>1, Zenon DEF Given
    <3>3. upgrades' = 0 /\ 0 # 1
      BY <1>1, <2>1, <3>2
    <3> QED BY <3>1, <3>3, Zenon DEF Given
  <2>2. CASE k # 0
    <3>1. k >= 1
      BY <2>2
    <3>2. upgrades' = IF HeaderLines[k + 1] = Upgrade THEN upgrades + 1
                      ELSE upgrades
      BY <1>1, <2>2
    <3> QED BY <1>1, <1>2, <3>1, <3>2, OneHeader
  <2> QED BY <2>1, <2>2
<1>7. LengthRead(HeaderLines, k + 1, length')
  <2>1. CASE k = 0
    <3>1. \A j : j \notin 2..k /\ j \notin 2..(k + 1)
      BY <2>1
    <3>2. length' = length
      BY <1>1, <2>1
    <3> QED BY <1>1, <3>1, <3>2, Zenon DEF LengthRead, LengthFirst
  <2>2. CASE k # 0
    <3>1. k >= 1
      BY <2>2
    <3>2. length' = IF length = None /\ HeaderLines[k + 1] \in Lengths
                    THEN HeaderLines[k + 1] - Length ELSE length
      BY <1>1, <2>2
    <3> HIDE DEF line
    <3> QED BY <1>1, <3>1, <3>2, OneLength
  <2> QED BY <2>1, <2>2
<1>8. k + 1 # 0
  OBVIOUS
<1> QED BY <1>3, <1>4, <1>5, <1>6, <1>7, <1>8, Zenon
        DEF LinesRead, Given, LengthRead, LengthFirst

\* A line of the response: a bad one is refused, and none is in an acceptance.
LEMMA ParseLineShows ==
    PathInv /\ ResponseRead /\ ParseLine => ReadInv' /\ ResponseRead' /\ Shown
<1> SUFFICES ASSUME PathInv, ResponseRead, ParseLine
             PROVE  ReadInv' /\ ResponseRead' /\ Shown
  OBVIOUS
<1> DEFINE b == stream.bytes
           end == stream.at[1]
<1>1. /\ handler = "response" /\ Delimiters # {} /\ Delimiter > 1
      /\ stream' = stream /\ avail' = avail /\ pos' = pos /\ mRead' = mRead
      /\ UNCHANGED frameVars
      /\ \/ BadLine(buf[1]) /\ Refuse
         \/ /\ ~BadLine(buf[1])
            /\ IF hstate = "RESPONSE_LINE"
               THEN status' = buf[1] /\ upgrades' = upgrades /\ length' = length
               ELSE /\ status' = status
                    /\ upgrades' = IF buf[1] = Upgrade THEN upgrades + 1
                                   ELSE upgrades
                    /\ length' = IF length = None /\ buf[1] \in Lengths
                                 THEN buf[1] - Length ELSE length
            /\ hstate' = "HEADERS" /\ buf' = After(Delimiter)
            /\ session' = session /\ handler' = handler /\ fault' = fault
  BY DEF ParseLine, networkVars, connectionVars
<1>2. /\ IInv /\ HeaderInv /\ ResponseTypes /\ TypeOK /\ stream \in Streams
      /\ session = "connecting" /\ buf \in Seq(Byte) /\ avail \in Nat
  BY <1>1 DEF PathInv, IInv, HeaderInv, ResponseTypes, TypeOK
<1> HIDE DEF b, end
<1>3a. PICK n \in Nat : \E k \in 0..n :
         /\ IsResponse(b, end, n) /\ 3 * k + Len(buf) = avail
         /\ k < n /\ buf[1] = b[3 * (k + 1) - 2]
         /\ Delimiter = 2 /\ Len(buf) >= 3
  <2>1. \E n \in Nat : \E k \in 0..n :
             /\ IsResponse(b, end, n)
             /\ 3 * k + Len(buf) = avail /\ Len(buf) >= 2
             /\ Delimiter > 1 => k < n /\ buf[1] = b[3 * (k + 1) - 2]
             /\ Delimiter = 1 => k = n
             /\ Delimiter \in {1, 2}
             /\ Delimiter > 1 => Len(buf) >= 3
    BY <1>1, <1>2, NextLine, Zenon DEF b, end
  <2>2. Delimiter # 1
    BY <1>1
  <2> QED BY <1>1, <2>1, <2>2, Zenon
<1>3. PICK k \in 0..n :
        /\ IsResponse(b, end, n) /\ 3 * k + Len(buf) = avail
        /\ k < n /\ buf[1] = b[3 * (k + 1) - 2]
        /\ Delimiter = 2 /\ Len(buf) >= 3
  BY <1>3a
<1>4. k \in Nat /\ k + 1 \in Nat /\ LinesRead(k)
  <2>1. k \in Nat /\ k + 1 \in Nat
    OBVIOUS
  <2> QED BY <1>2, <1>3, <2>1, Zenon DEF ResponseRead
<1>5. CASE BadLine(buf[1]) /\ Refuse
  <2>1. ~IsAcceptance(b, n)
    <3>1. k + 1 \in 1..n
      BY <1>3
    <3>2. CASE buf[1] = NoLine
      BY <1>3, <3>1, <3>2, Zenon DEF IsAcceptance
    <3>3. CASE hstate = "RESPONSE_LINE" /\ buf[1] # Status101
      <4>1. k = 0
        BY <1>4, <3>3 DEF LinesRead
      <4>2. 3 * (k + 1) - 2 = 1
        BY <4>1
      <4>3. b[1] # Status101
        BY <1>3, <3>3, <4>2, Zenon
      <4> QED BY <4>3, Zenon DEF IsAcceptance
    <3> QED BY <1>5, <3>2, <3>3, Zenon DEF BadLine
  <2>2. ~stream.accepts
    BY <1>2, <1>3, <2>1, Acceptance DEF b, end
  <2> QED BY <1>1, <1>2, <1>5, <2>2, RefusedShows
<1>6. CASE /\ ~BadLine(buf[1])
           /\ IF hstate = "RESPONSE_LINE"
              THEN status' = buf[1] /\ upgrades' = upgrades /\ length' = length
              ELSE /\ status' = status
                   /\ upgrades' = IF buf[1] = Upgrade THEN upgrades + 1
                                  ELSE upgrades
                   /\ length' = IF length = None /\ buf[1] \in Lengths
                                THEN buf[1] - Length ELSE length
           /\ hstate' = "HEADERS" /\ buf' = After(Delimiter)
           /\ session' = session /\ handler' = handler /\ fault' = fault
  <2>1. ReadInv' /\ Shown
    BY <1>1, <1>2, <1>6, UndecidedShows
  <2>2. LinesRead(k + 1)'
    <3>1. buf[1] = HeaderLines[k + 1]
      BY <1>3, <1>4 DEF HeaderLines, b
    <3>2. length \in {None, 0, NoNumber}
      BY <1>2 DEF HeaderInv
    <3>3. buf[1] \in Lines \ (Length + 1)..(Length + 9)
      <4>1. k + 1 \in 1..n
        BY <1>3
      <4> QED BY <1>3, <4>1, Zenon DEF IsResponse
    <3> QED BY <1>1, <1>2, <1>4, <1>6, <3>1, <3>2, <3>3, LineMore
  <2>3. Len(buf') = Len(buf) - 3
    <3>1. buf' = SubSeq(buf, 4, Len(buf))
      <4>1. Delimiter + 2 = 4
        BY <1>3
      <4> QED BY <1>6, <4>1, Zenon DEF After
    <3>2. PICK l \in Nat : l = Len(buf) /\ l >= 3
      BY <1>2, <1>3
    <3>3. SubSeq(buf, 4, l) \in Seq(Byte) /\ Len(SubSeq(buf, 4, l)) = l - 3
      BY <1>2, <3>2
    <3> QED BY <3>1, <3>2, <3>3, Zenon
  <2>4. \A h \in Nat : 3 * h + Len(buf') = avail' => h = k + 1
    <3>1. PICK l \in Nat, m \in Int : l = Len(buf) /\ m = Len(buf')
      BY <1>2, <2>3
    <3>2. m = l - 3 /\ 3 * k + l = avail
      BY <1>3, <2>3, <3>1, Zenon
    <3>3. \A h \in Nat : 3 * h + m = avail => h = k + 1
      BY <1>4, <3>2
    <3> QED BY <1>1, <3>1, <3>3, Zenon
  <2>5. \A h \in Nat : 3 * h + Len(buf') = avail' => LinesRead(h)'
    <3> SUFFICES ASSUME NEW h \in Nat, 3 * h + Len(buf') = avail'
                 PROVE  LinesRead(h)'
      OBVIOUS
    <3>1. h = k + 1
      BY <2>4
    <3> QED BY <2>2, <3>1
            DEF LinesRead, Given, LengthRead, LengthFirst
  <2> QED BY <1>1, <1>2, <2>1, <2>5 DEF ResponseRead
<1> QED BY <1>1, <1>5, <1>6

\* The blank line: what the page gets to see is what the lines said.
LEMMA HeaderCompleteShows ==
    PathInv /\ ResponseRead /\ HeaderComplete => ReadInv' /\ ResponseRead' /\ Shown
<1> SUFFICES ASSUME PathInv, ResponseRead, HeaderComplete
             PROVE  ReadInv' /\ ResponseRead' /\ Shown
  OBVIOUS
<1> DEFINE b == stream.bytes
           end == stream.at[1]
<1>1. /\ handler = "response" /\ Delimiters # {} /\ Delimiter = 1
      /\ stream' = stream /\ UNCHANGED frameVars
      /\ \/ (hstate = "RESPONSE_LINE" \/ length = NoNumber) /\ Refuse
         \/ /\ hstate # "RESPONSE_LINE" /\ length # NoNumber
            /\ \/ ~Accepted /\ Refuse
               \/ /\ Accepted /\ session' = "open" /\ handler' = "frames"
                  /\ fault' = fault
  BY DEF HeaderComplete, Open, networkVars
<1>2. /\ IInv /\ ResponseTypes /\ TypeOK /\ stream \in Streams
      /\ session = "connecting" /\ buf \in Seq(Byte) /\ avail \in Nat
  BY <1>1 DEF PathInv, IInv, HeaderInv, ResponseTypes, TypeOK
<1> HIDE DEF b, end
<1>3. PICK n \in Nat :
        IsResponse(b, end, n) /\ 3 * n + Len(buf) = avail /\ Len(buf) >= 2
  <2>1. \E n \in Nat : \E k \in 0..n :
             /\ IsResponse(b, end, n)
             /\ 3 * k + Len(buf) = avail /\ Len(buf) >= 2
             /\ Delimiter > 1 => k < n /\ buf[1] = b[3 * (k + 1) - 2]
             /\ Delimiter = 1 => k = n
             /\ Delimiter \in {1, 2}
             /\ Delimiter > 1 => Len(buf) >= 3
    BY <1>1, <1>2, NextLine, Zenon DEF b, end
  <2> QED BY <1>1, <2>1, Zenon
<1>4. LinesRead(n)
  BY <1>2, <1>3, Zenon DEF ResponseRead
<1>5. stream.accepts <=> IsAcceptance(b, n)
  BY <1>2, <1>3, Acceptance DEF b, end
<1>6. hstate = "RESPONSE_LINE" <=> n = 0
  BY <1>4 DEF LinesRead
<1>7. n # 0 => (Accepted /\ length # NoNumber <=> IsAcceptance(b, n))
  <2> SUFFICES ASSUME n # 0
               PROVE  Accepted /\ length # NoNumber <=> IsAcceptance(b, n)
    OBVIOUS
  <2>1. n > 0 /\ 3 * 1 - 2 = 1
    OBVIOUS
  <2>2. \A j \in 1..n : HeaderLines[j] = b[3 * j - 2]
    BY DEF HeaderLines, b
  <2>3. /\ 1 \in 1..n /\ \A j \in 2..n : j \in 1..n
    BY <2>1
  <2>4. status = b[1] /\ \A j \in 1..n : b[3 * j - 2] # NoLine
    BY <1>4, <2>1, <2>2, <2>3, Zenon DEF LinesRead
  <2>5. \A i, j \in 2..n : (HeaderLines[j] = Upgrade <=> j = i)
                             <=> (b[3 * j - 2] = Upgrade <=> j = i)
    BY <2>2, <2>3, Zenon
  <2>6. upgrades = 1 <=> \E i \in 2..n :
          \A j \in 2..n : HeaderLines[j] = Upgrade <=> j = i
    BY <1>4, Zenon DEF LinesRead, Given
  <2>7. upgrades = 1 <=> \E i \in 2..n :
          \A j \in 2..n : b[3 * j - 2] = Upgrade <=> j = i
    <3>1. ASSUME NEW i \in 2..n,
                 \A j \in 2..n : HeaderLines[j] = Upgrade <=> j = i
          PROVE  \A j \in 2..n : b[3 * j - 2] = Upgrade <=> j = i
      BY <2>5, <3>1, Zenon
    <3>2. ASSUME NEW i \in 2..n,
                 \A j \in 2..n : b[3 * j - 2] = Upgrade <=> j = i
          PROVE  \A j \in 2..n : HeaderLines[j] = Upgrade <=> j = i
      BY <2>5, <3>2, Zenon
    <3> QED BY <2>6, <3>1, <3>2, Zenon
  <2>8. length # NoNumber <=> \A i \in 2..n : b[3 * i - 2] = Length + NoNumber =>
          \E j \in 2..(i - 1) : b[3 * j - 2] = Length
    <3>1. length # NoNumber <=> LengthFirst(HeaderLines, n)
      BY <1>4, Zenon DEF LinesRead, LengthRead
    <3>2. \A i \in 2..n : \A j \in 2..(i - 1) : j \in 1..n
      OBVIOUS
    <3> DEFINE First == \A i \in 2..n : b[3 * i - 2] = Length + NoNumber =>
                          \E j \in 2..(i - 1) : b[3 * j - 2] = Length
    <3>3. ASSUME LengthFirst(HeaderLines, n) PROVE First
      BY <2>2, <2>3, <3>2, <3>3, Zenon DEF LengthFirst
    <3>4. ASSUME First PROVE LengthFirst(HeaderLines, n)
      BY <2>2, <2>3, <3>2, <3>4, Zenon DEF LengthFirst
    <3> QED BY <3>1, <3>3, <3>4, Zenon
  <2> QED BY <2>1, <2>4, <2>7, <2>8, Zenon DEF Accepted, IsAcceptance
<1>8. CASE Refuse /\ (\/ hstate = "RESPONSE_LINE" \/ length = NoNumber
                     \/ ~Accepted)
  <2>1. ~IsAcceptance(b, n)
    <3>1. CASE n = 0
      BY <3>1 DEF IsAcceptance
    <3>2. CASE n # 0
      BY <1>6, <1>7, <1>8, <3>2, Zenon
    <3> QED BY <3>1, <3>2
  <2> QED BY <1>1, <1>2, <1>5, <1>8, <2>1, RefusedShows
<1>9. CASE /\ hstate # "RESPONSE_LINE" /\ length # NoNumber /\ Accepted
           /\ session' = "open" /\ handler' = "frames" /\ fault' = fault
  <2>1. stream.accepts
    BY <1>5, <1>6, <1>7, <1>9, Zenon
  <2>2. stream.at[1] <= MaxHeader
    <3>1. PICK l \in Nat : l = Len(buf)
      BY <1>2
    <3>2. 3 * n + l = avail /\ l >= 2 /\ end = 3 * n + 2
      BY <1>3, <3>1, Zenon DEF IsResponse
    <3>3. avail <= MaxHeader
      BY <1>1, <1>2 DEF ResponseRead
    <3>4. end <= avail
      BY <3>2
    <3> QED BY <1>2, <3>2, <3>3, <3>4, ResponseAssumption DEF end
  <2>3. /\ ReadInv' /\ WholeFrames = None /\ WholeFrames' = None
        /\ taken' = taken /\ dispatched' = dispatched
    BY <1>1, <1>2, ConnectingShows
  <2>4. FrameByFrame!Accept
    BY <1>1, <1>2, <1>9, <2>1, <2>2, <2>3 DEF FrameByFrame!Accept
  <2>5. ResponseRead'
    BY <1>9 DEF ResponseRead
  <2> QED BY <2>3, <2>4, <2>5 DEF Shown, FrameByFrame!Next
<1> QED BY <1>1, <1>8, <1>9

\* After the response nothing is said of it.
LEMMA ReaderRead ==
    PathInv /\ ResponseRead /\ Next => ResponseRead'
<1> SUFFICES ASSUME PathInv, Next PROVE ResponseRead'
  OBVIOUS
<1>1. session = "connecting" => Terminate
  <2>1. handler = "frames" => session # "connecting"
    BY DEF PathInv, IInv, Untouched
  <2> QED BY <2>1 DEF Next, Reading, BasicHeader, ExtendedHeader, Payload,
                      Consuming, Dispatch, ReadFrame, Receive, LocalClose
<1>2. Terminate => session' = "closed"
  BY DEF Terminate
<1>3. session # "connecting" => session' # "connecting"
  BY DEF Next, Reading, BasicHeader, ExtendedHeader, Payload, Dispatch,
         ReadFrame, Receive, LocalClose, Terminate, Fail, StartPayload,
         connectionVars
<1> QED BY <1>1, <1>2, <1>3 DEF ResponseRead

\* The invariant that relates the path to its frames
Read == PathInv /\ Fits /\ Validated /\ ReadInv /\ ResponseRead

\* Every step of the path is one of FrameStream or shows nothing.
LEMMA PathShows ==
    Read /\ PathInv' /\ PathNext => ReadInv' /\ ResponseRead' /\ Shown
<1> SUFFICES ASSUME Read, PathInv', PathNext
             PROVE  ReadInv' /\ ResponseRead' /\ Shown
  OBVIOUS
<1>1. PathInv /\ ResponseRead /\ Good /\ IInv'
  BY DEF Read, PathInv, Good
<1>2. CASE Handshake
  BY <1>1, <1>2, ResponseBytesShow, OutOfBytesShows, ParseLineShows,
     HeaderCompleteShows DEF Handshake
<1>3. CASE Next
  BY <1>1, <1>3, ReaderShows, ReaderRead
<1> QED BY <1>2, <1>3 DEF PathNext

\* A step that changes nothing
LEMMA StutterShows == Read /\ UNCHANGED allVars => ReadInv' /\ ResponseRead' /\ Shown
<1> SUFFICES ASSUME Read, UNCHANGED allVars
             PROVE  ReadInv' /\ ResponseRead' /\ Shown
  OBVIOUS
<1>1. /\ stream' = stream /\ pos' = pos /\ avail' = avail
      /\ handler' = handler /\ session' = session /\ fault' = fault
      /\ UNCHANGED <<headerVars, messageVars, historyVars>>
      /\ hstate' = hstate /\ mRead' = mRead /\ buf' = buf
      /\ status' = status /\ upgrades' = upgrades /\ length' = length
  BY DEF allVars, vars, networkVars, connectionVars, responseVars
<1>2. ReadInv' /\ WholeFrames' = WholeFrames
  BY <1>1, SameRead DEF Read
<1>3. ResponseRead'
  <2>1. ResponseRead
    BY DEF Read
  <2>2. ASSUME NEW k \in Nat, session = "connecting",
               3 * k + Len(buf') = avail'
        PROVE  LinesRead(k)'
    <3>1. 3 * k + Len(buf) = avail
      BY <1>1, <2>2, Zenon
    <3>2. LinesRead(k)
      BY <2>1, <2>2, <3>1, Zenon DEF ResponseRead
    <3> QED BY <1>1, <3>2, SameLines
  <2>3. session = "connecting" =>
          mRead = pos /\ (handler = "response" => avail <= MaxHeader)
    BY <2>1, Zenon DEF ResponseRead
  <2> QED BY <1>1, <2>2, <2>3, Zenon DEF ResponseRead
<1>4. UNCHANGED FrameByFrame!vars
  BY <1>1, <1>2 DEF FrameByFrame!vars, historyVars
<1> QED BY <1>2, <1>3, <1>4 DEF Shown

\* Before the first byte
LEMMA PathBegins == PathInit => FrameByFrame!Init /\ ReadInv /\ ResponseRead
<1> SUFFICES ASSUME PathInit PROVE FrameByFrame!Init /\ ReadInv /\ ResponseRead
  OBVIOUS
<1>1. /\ stream \in Streams /\ pos = 0 /\ avail = 0 /\ handler = "idle"
      /\ session = "connecting" /\ hstate = "RESPONSE_LINE" /\ mRead = 0
      /\ buf = <<>> /\ upgrades = 0 /\ length = None
      /\ state = "HEADER_BASIC"
      /\ dataMsg = None /\ fault = "none" /\ taken = 0 /\ dispatched = <<>>
  BY DEF PathInit, NewProcessor
<1>2. FrameByFrame!Init
  BY <1>1 DEF FrameByFrame!Init, WholeFrames
<1>3. ReadInv
  BY <1>1 DEF ReadInv, HeaderGood, SizeGood, ControlGood, DataGood, ReadyGood,
              KindGood, InPayload
<1>4. \A k \in Nat : 3 * k + Len(buf) = avail => LinesRead(k)
  <2> SUFFICES ASSUME NEW k \in Nat, 3 * k + Len(buf) = avail
               PROVE  LinesRead(k)
    OBVIOUS
  <2>1. k = 0
    <3>1. Len(buf) = 0
      BY <1>1
    <3> QED BY <1>1, <3>1
  <2>2. \A j : j \notin 1..k /\ j \notin 2..k
    BY <2>1
  <2>3. ~(k > 0) /\ 0 # 1
    BY <2>1
  <2>4. None # NoNumber
    BY ResponseAssumption DEF NoNumber
  <2> QED BY <1>1, <2>1, <2>2, <2>3, <2>4, Zenon
          DEF LinesRead, Given, LengthRead, LengthFirst
<1>5. ResponseRead
  BY <1>1, <1>4 DEF ResponseRead
<1> QED BY <1>2, <1>3, <1>5

\* DeliveredFrameByFrame: however the network cuts the response and the frames
\* into reads, what is accepted, handed on and refused is what FrameStream says,
\* frame by frame, while no size comes near to 2^64.
THEOREM PathImplements ==
    ASSUME NoWrap PROVE PathSpec => DeliveredFrameByFrame
<1>1. PathInit => Fits /\ Validated
  <2>1. PathInit => dataMsg = None /\ state = "HEADER_BASIC"
    BY DEF PathInit, NewProcessor
  <2> QED BY <2>1 DEF Fits, Validated, Reads
<1>2. Read /\ PathInv' /\ [PathNext]_allVars =>
        /\ Fits' /\ Validated' /\ ReadInv' /\ ResponseRead'
        /\ [FrameByFrame!Next]_FrameByFrame!vars
  <2> SUFFICES ASSUME Read, PathInv', [PathNext]_allVars
               PROVE  /\ Fits' /\ Validated' /\ ReadInv' /\ ResponseRead'
                      /\ Shown
    BY DEF Shown
  <2>1. PathInv /\ Fits /\ Validated /\ IInv
    BY DEF Read, PathInv
  <2>2. Fits' /\ Validated'
    <3>1. CASE Next \/ UNCHANGED vars
      BY <2>1, <3>1, FitsStep, ValidatedStep
    <3>2. CASE Handshake
      <4>1. UNCHANGED frameVars /\ handler # "stopped"
        BY <3>2 DEF Handshake, ReadResponse, Arrives, OutOfBytes, ParseLine,
                    HeaderComplete
      <4>2. Fits'
        BY <2>1, <4>1, Zenon DEF Fits, frameVars, headerVars, messageVars
      <4> QED BY <2>1, <4>1, <4>2, Zenon
              DEF Validated, TextGoes, Reads, frameVars, headerVars, messageVars
    <3> QED BY <3>1, <3>2 DEF PathNext, allVars
  <2> QED BY <2>2, PathShows, StutterShows
<1>3. PathInit => FrameByFrame!Init /\ ReadInv /\ ResponseRead
  BY PathBegins
<1>4. PathSpec => []PathInv
  BY PathInductive
<1> QED BY <1>1, <1>2, <1>3, <1>4, PTL
        DEF PathSpec, Read, DeliveredFrameByFrame, FrameByFrame!Spec
==============================================================================
