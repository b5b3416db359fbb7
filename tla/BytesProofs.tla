----------------------------- MODULE BytesProofs -----------------------------
(***************************************************************************)
(* Theorems about the functions on bytes that the WebSocket connection is  *)
(* built from, without any state: the header prepare_header writes (Frame) *)
(* is read back as it was meant; the digest in the response to the         *)
(* handshake is compared as text without taking another for it (Base64);   *)
(* and the streaming validator (Utf8) accepts exactly the texts that are   *)
(* UTF-8, however they are cut, and gives up exactly where none begins.    *)
(***************************************************************************)
EXTENDS Frame, Base64, Utf8, SequenceTheorems, WellFoundedInduction, TLAPS

(***************************************************************************)
(* The header of a frame                                                   *)
(***************************************************************************)
\* The limits are numbers in their order.
LEMMA LimitOrder ==
    /\ BasicLimit \in Nat /\ ExtendedLimit \in Nat
    /\ Code16 \in Nat /\ Code16 = BasicLimit + 1
    /\ Code64 \in Nat /\ Code64 = BasicLimit + 2 /\ Code64 < 128
    /\ BasicLimit <= ExtendedLimit /\ ExtendedLimit < 65536
BY FrameAssumption DEF FrameAssumption

\* The last byte of a number, and what is left without it.
LowByte(x) == x % 256
HighPart(x) == x \div 256

LEMMA OneByte ==
    ASSUME NEW x \in Nat
    PROVE  /\ HighPart(x) \in Nat /\ LowByte(x) \in Byte /\ 256 * HighPart(x) + LowByte(x) = x
           /\ x < 256 => LowByte(x) = x
BY DEF Byte, LowByte, HighPart

\* A number below a power of 256 has a byte less when its last one is dropped.
LEMMA Shorter ==
    ASSUME NEW x \in Nat, NEW m \in Nat, x < 256 * m
    PROVE  HighPart(x) < m
BY DEF HighPart

\* The code that prepare_header writes says how long the size is.
LEMMA CodeOfSize ==
    ASSUME NEW size \in Nat, NEW masked \in BOOLEAN
    PROVE  /\ basic_value(size) \in 0..127
           /\ get_basic_size(basic_b1(masked, size)) = basic_value(size)
           /\ get_masked(basic_b1(masked, size)) <=> masked
           /\ basic_b1(masked, size) \in Byte
           /\ \/ size <= BasicLimit /\ basic_value(size) = size
              \/ /\ size > BasicLimit /\ size <= ExtendedLimit
                 /\ basic_value(size) = Code16
              \/ /\ size > BasicLimit /\ size > ExtendedLimit
                 /\ basic_value(size) = Code64
<1>1. \/ size <= BasicLimit /\ basic_value(size) = size
      \/ /\ size > BasicLimit /\ size <= ExtendedLimit
         /\ basic_value(size) = Code16
      \/ /\ size > BasicLimit /\ size > ExtendedLimit
         /\ basic_value(size) = Code64
  BY LimitOrder DEF basic_value
<1>2. basic_value(size) \in 0..127
  BY <1>1, LimitOrder
<1>3. \A v \in 0..127 : /\ v % 128 = v /\ (128 + v) % 128 = v
                        /\ v \div 128 = 0 /\ (128 + v) \div 128 = 1
                        /\ v \in Byte /\ 128 + v \in Byte /\ 0 + v = v
  BY DEF Byte
<1>4. CASE masked
  <2>1. basic_b1(masked, size) = 128 + basic_value(size)
    BY <1>4, Zenon DEF basic_b1
  <2> DEFINE v == basic_value(size)
  <2>4. (128 + v) % 128 = v /\ (128 + v) \div 128 = 1 /\ 128 + v \in Byte
    BY <1>2, <1>3, Zenon
  <2>2. /\ get_basic_size(basic_b1(masked, size)) = basic_value(size)
        /\ basic_b1(masked, size) \in Byte
    BY <2>1, <2>4, Zenon DEF get_basic_size
  <2>3. get_masked(basic_b1(masked, size))
    BY <2>1, <2>4, Zenon DEF get_masked
  <2> QED BY <1>1, <1>2, <1>4, <2>2, <2>3, Zenon
<1>5. CASE ~masked
  <2>1. basic_b1(masked, size) = 0 + basic_value(size)
    BY <1>5, Zenon DEF basic_b1
  <2>2. basic_b1(masked, size) = basic_value(size)
    BY <1>2, <1>3, <2>1, Zenon
  <2>3. 0 # 1
    OBVIOUS
  <2>4. /\ get_basic_size(basic_b1(masked, size)) = basic_value(size)
        /\ basic_b1(masked, size) \in Byte
    BY <1>2, <1>3, <2>2 DEF get_basic_size
  <2>5. ~get_masked(basic_b1(masked, size))
    BY <1>2, <1>3, <2>2, <2>3, Zenon DEF get_masked
  <2> QED BY <1>1, <1>2, <1>5, <2>4, <2>5, Zenon
<1> QED BY <1>4, <1>5

\* Powers of 256
P1 == 256
P2 == 256 * P1
P3 == 256 * P2
P4 == 256 * P3
P5 == 256 * P4
P6 == 256 * P5
P7 == 256 * P6
P8 == 256 * P7

LEMMA Powers ==
    /\ P1 \in Nat /\ P2 = 256 * P1 /\ P2 \in Nat /\ P3 = 256 * P2
    /\ P3 \in Nat /\ P4 = 256 * P3 /\ P4 \in Nat /\ P5 = 256 * P4
    /\ P5 \in Nat /\ P6 = 256 * P5 /\ P6 \in Nat /\ P7 = 256 * P6
    /\ P7 \in Nat /\ P8 = 256 * P7 /\ P8 \in Nat
BY DEF P1, P2, P3, P4, P5, P6, P7, P8

\* The eight bytes of a size below 2^64 are its bytes.
LEMMA JumboRoundTrip ==
    ASSUME NEW size \in Nat, size < P8
    PROVE  /\ get_jumbo_size(jumbo_bytes(size)) = size
           /\ Len(jumbo_bytes(size)) = 8 /\ jumbo_bytes(size) \in Seq(Byte)
<1> DEFINE s1 == HighPart(size)
           s2 == HighPart(s1)
           s3 == HighPart(s2)
           s4 == HighPart(s3)
           s5 == HighPart(s4)
           s6 == HighPart(s5)
           s7 == HighPart(s6)
<1>1. jumbo_bytes(size) =
        <<LowByte(s7), LowByte(s6), LowByte(s5), LowByte(s4), LowByte(s3), LowByte(s2),
          LowByte(s1), LowByte(size)>>
  BY Zenon DEF jumbo_bytes, HighPart, LowByte
<1>2. s1 \in Nat /\ LowByte(size) \in Byte /\ 256 * s1 + LowByte(size) = size
  BY OneByte
<1>3. s1 < P7
  BY Powers, Shorter
<1> HIDE DEF s1
<1>4. s2 \in Nat /\ LowByte(s1) \in Byte /\ 256 * s2 + LowByte(s1) = s1
  BY <1>2, OneByte
<1>5. s2 < P6
  BY <1>2, <1>3, Powers, Shorter
<1> HIDE DEF s2
<1>6. s3 \in Nat /\ LowByte(s2) \in Byte /\ 256 * s3 + LowByte(s2) = s2
  BY <1>4, OneByte
<1>7. s3 < P5
  BY <1>4, <1>5, Powers, Shorter
<1> HIDE DEF s3
<1>8. s4 \in Nat /\ LowByte(s3) \in Byte /\ 256 * s4 + LowByte(s3) = s3
  BY <1>6, OneByte
<1>9. s4 < P4
  BY <1>6, <1>7, Powers, Shorter
<1> HIDE DEF s4
<1>10. s5 \in Nat /\ LowByte(s4) \in Byte /\ 256 * s5 + LowByte(s4) = s4
  BY <1>8, OneByte
<1>11. s5 < P3
  BY <1>8, <1>9, Powers, Shorter
<1> HIDE DEF s5
<1>12. s6 \in Nat /\ LowByte(s5) \in Byte /\ 256 * s6 + LowByte(s5) = s5
  BY <1>10, OneByte
<1>13. s6 < P2
  BY <1>10, <1>11, Powers, Shorter
<1> HIDE DEF s6
<1>14. s7 \in Nat /\ LowByte(s6) \in Byte /\ 256 * s7 + LowByte(s6) = s6
  BY <1>12, OneByte
<1>15. s7 < P1
  BY <1>12, <1>13, Powers, Shorter
<1> HIDE DEF s7
<1>16. LowByte(s7) = s7 /\ LowByte(s7) \in Byte
  BY <1>14, <1>15, OneByte DEF P1
<1>17. get_jumbo_size(jumbo_bytes(size)) = size
  <2> DEFINE e == jumbo_bytes(size)
  <2>1. /\ e[1] = s7 /\ e[2] = LowByte(s6) /\ e[3] = LowByte(s5)
        /\ e[4] = LowByte(s4) /\ e[5] = LowByte(s3) /\ e[6] = LowByte(s2)
        /\ e[7] = LowByte(s1) /\ e[8] = LowByte(size)
    BY <1>1, <1>16
  <2> HIDE DEF e
  <2>2. 256 * e[1] + e[2] = s6
    BY <1>14, <2>1
  <2>3. 256 * (256 * e[1] + e[2]) + e[3] = s5
    BY <1>12, <2>1, <2>2
  <2>4. 256 * (256 * (256 * e[1] + e[2]) + e[3]) + e[4] = s4
    BY <1>10, <2>1, <2>3
  <2>5. 256 * (256 * (256 * (256 * e[1] + e[2]) + e[3]) + e[4]) + e[5] = s3
    BY <1>8, <2>1, <2>4
  <2>6. 256 * (256 * (256 * (256 * (256 * e[1] + e[2]) + e[3]) + e[4]) + e[5])
          + e[6] = s2
    BY <1>6, <2>1, <2>5
  <2>7. 256 * (256 * (256 * (256 * (256 * (256 * e[1] + e[2]) + e[3]) + e[4])
          + e[5]) + e[6]) + e[7] = s1
    BY <1>4, <2>1, <2>6
  <2>8. get_jumbo_size(e) = size
    BY <1>2, <2>1, <2>7 DEF get_jumbo_size
  <2> QED BY <2>8 DEF e
<1>18. Len(jumbo_bytes(size)) = 8
  BY <1>1
<1>19. jumbo_bytes(size) \in Seq(Byte)
  BY <1>1, <1>2, <1>4, <1>6, <1>8, <1>10, <1>12, <1>14, <1>16
<1> QED BY <1>17, <1>18, <1>19

\* The first byte, with its two halves: fin, the reserved bits and the opcode.
LEMMA HeaderByte ==
    ASSUME NEW fin \in BOOLEAN, NEW rsv \in 0..7, NEW op \in 0..15
    PROVE  /\ basic_b0(fin, rsv, op) \in Byte
           /\ get_fin(basic_b0(fin, rsv, op)) <=> fin
           /\ get_rsv(basic_b0(fin, rsv, op)) = rsv
           /\ get_opcode(basic_b0(fin, rsv, op)) = op
<1> DEFINE b0 == basic_b0(fin, rsv, op)
<1>1. /\ fin => b0 = 128 + 16 * rsv + (op % 16)
      /\ ~fin => b0 = 0 + 16 * rsv + (op % 16)
  BY Zenon DEF basic_b0
<1> HIDE DEF b0
<1>2. PICK f \in 0..1 : f = 1 <=> fin
  <2>1. 0 \in 0..1 /\ 1 \in 0..1 /\ 0 # 1
    OBVIOUS
  <2> QED BY <2>1, Zenon
<1>3. b0 = 128 * f + 16 * rsv + op
  <2>1. op % 16 = op
    OBVIOUS
  <2>2. CASE fin
    <3>1. f = 1 /\ b0 = 128 + 16 * rsv + (op % 16)
      BY <1>1, <1>2, <2>2, Zenon
    <3> QED BY <2>1, <3>1
  <2>3. CASE ~fin
    <3>1. f = 0
      BY <1>2, <2>3
    <3>2. b0 = 0 + 16 * rsv + (op % 16)
      BY <1>1, <2>3, Zenon
    <3> QED BY <2>1, <3>1, <3>2
  <2> QED BY <2>2, <2>3
<1>4. b0 \in 0..255 /\ b0 \div 128 = f
  BY <1>3
<1>5. b0 \div 16 = 8 * f + rsv /\ (8 * f + rsv) % 8 = rsv
  BY <1>3
<1>6. b0 % 16 = op
  BY <1>3
<1>7. b0 \in Byte /\ (get_fin(b0) <=> fin)
  BY <1>2, <1>4 DEF Byte, get_fin
<1>8. get_rsv(b0) = rsv /\ get_opcode(b0) = op
  BY <1>5, <1>6 DEF get_rsv, get_opcode
<1> QED BY <1>7, <1>8 DEF b0

\* The header that basic_header and copy_payload write for any flags and opcode
\* and a payload of any size below 2^64, the accessors read back: fin, the
\* reserved bits, the opcode, the mask bit, the header's length and the size.
THEOREM HeaderRoundTrip ==
    ASSUME NEW size \in Nat, size < P8, NEW masked \in BOOLEAN,
           NEW fin \in BOOLEAN, NEW rsv \in 0..7, NEW op \in 0..15
    PROVE  /\ basic_b0(fin, rsv, op) \in Byte /\ basic_b1(masked, size) \in Byte
           /\ copy_payload(size) \in Seq(Byte)
           /\ get_fin(basic_b0(fin, rsv, op)) <=> fin
           /\ get_rsv(basic_b0(fin, rsv, op)) = rsv
           /\ get_opcode(basic_b0(fin, rsv, op)) = op
           /\ get_masked(basic_b1(masked, size)) <=> masked
           /\ Len(copy_payload(size)) = extended_length(basic_b1(masked, size))
           /\ get_payload_size(basic_b1(masked, size), copy_payload(size))
                = size
<1> DEFINE b1 == basic_b1(masked, size)
           e == copy_payload(size)
<1>1. /\ basic_value(size) \in 0..127 /\ get_basic_size(b1) = basic_value(size)
      /\ b1 \in Byte /\ get_masked(b1) <=> masked
      /\ \/ size <= BasicLimit /\ basic_value(size) = size
         \/ /\ size > BasicLimit /\ size <= ExtendedLimit
            /\ basic_value(size) = Code16
         \/ /\ size > BasicLimit /\ size > ExtendedLimit
            /\ basic_value(size) = Code64
  BY CodeOfSize
<1>5. /\ basic_b1(masked, size) \in Byte
      /\ get_masked(basic_b1(masked, size)) <=> masked
      /\ basic_b0(fin, rsv, op) \in Byte
      /\ get_fin(basic_b0(fin, rsv, op)) <=> fin
      /\ get_rsv(basic_b0(fin, rsv, op)) = rsv
      /\ get_opcode(basic_b0(fin, rsv, op)) = op
  BY CodeOfSize, HeaderByte
<1>6. SUFFICES /\ e \in Seq(Byte) /\ Len(e) = extended_length(b1)
               /\ get_payload_size(b1, e) = size
  BY <1>5
<1> HIDE DEF b1
<1>2. CASE size <= BasicLimit /\ basic_value(size) = size
  <2>1. e = <<>>
    <3>1. ~(size > BasicLimit)
      BY <1>2, LimitOrder
    <3>2. \A x : ~(size > BasicLimit /\ x)
      BY <3>1, Zenon
    <3> QED BY <1>2, <3>1, Zenon DEF copy_payload
  <2>3. Len(e) = 0 /\ e \in Seq(Byte)
    BY <2>1
  <2>2. extended_length(b1) = 0 /\ get_payload_size(b1, e) = size
    BY <1>1, <1>2, LimitOrder DEF extended_length, get_payload_size
  <2> QED BY <2>2, <2>3
<1>3. CASE /\ size > BasicLimit /\ size <= ExtendedLimit
           /\ basic_value(size) = Code16
  <2>1. e = extended_bytes(size)
    BY <1>3, LimitOrder DEF copy_payload
  <2>2. HighPart(size) \in Byte /\ LowByte(size) \in Byte
        /\ 256 * HighPart(size) + LowByte(size) = size
    <3>1. size < 256 * 256
      BY <1>3, LimitOrder
    <3>2. HighPart(size) < 256
      BY <3>1, Shorter
    <3> QED BY <3>2, OneByte DEF Byte
  <2>3. Len(e) = 2 /\ e \in Seq(Byte) /\ get_extended_size(e) = size
    BY <2>1, <2>2 DEF extended_bytes, get_extended_size, HighPart, LowByte
  <2> HIDE DEF e
  <2>4. extended_length(b1) = 2 /\ get_payload_size(b1, e) = size
    BY <1>1, <1>3, <2>3, LimitOrder DEF extended_length, get_payload_size
  <2> QED BY <2>3, <2>4
<1>4. CASE /\ size > BasicLimit /\ size > ExtendedLimit
           /\ basic_value(size) = Code64
  <2>1. e = jumbo_bytes(size)
    BY <1>4, LimitOrder DEF copy_payload
  <2>2. Len(e) = 8 /\ e \in Seq(Byte) /\ get_jumbo_size(e) = size
    BY <2>1, JumboRoundTrip
  <2> HIDE DEF e
  <2>3. extended_length(b1) = 8 /\ get_payload_size(b1, e) = size
    BY <1>1, <1>4, <2>2, LimitOrder DEF extended_length, get_payload_size
  <2> QED BY <2>2, <2>3
<1> QED BY <1>1, <1>2, <1>3, <1>4

(***************************************************************************)
(* The key of the handshake                                                *)
(***************************************************************************)
\* Each of the 64 characters is one, and is found where it stands; the padding
\* is none.
LEMMA Characters ==
    /\ \A v \in 0..63 : /\ is_base64(base64_chars[v])
                        /\ find(base64_chars[v]) = v
    /\ ~is_base64(Padding)
<1>1. \A v \in 0..63 :
        base64_chars[v] = IF v < 26 THEN 65 + v ELSE IF v < 52 THEN 71 + v
                          ELSE IF v < 62 THEN v - 4 ELSE IF v = 62 THEN 43 ELSE 47
  BY DEF base64_chars
<1>2. \A v \in 0..63 : is_base64(base64_chars[v])
  BY <1>1 DEF is_base64
<1>3. \A v, w \in 0..63 : base64_chars[v] = base64_chars[w] => v = w
  BY <1>1
<1>4. ASSUME NEW v \in 0..63 PROVE find(base64_chars[v]) = v
  <2> DEFINE c == base64_chars[v]
             w == CHOOSE w \in 0..63 : base64_chars[w] = c
  <2>1. \E u \in 0..63 : base64_chars[u] = c
    OBVIOUS
  <2>2. w \in 0..63 /\ base64_chars[w] = c
    BY <2>1
  <2>3. find(c) = w
    BY <2>1 DEF find
  <2> HIDE DEF w
  <2> QED BY <1>3, <2>2, <2>3
<1>5. ~is_base64(Padding)
  BY DEF is_base64, Padding
<1> QED BY <1>2, <1>4, <1>5

\* What a group of bytes is written as, its bytes are read from: a byte needs its
\* own character and the next.
LEMMA Groups ==
    ASSUME NEW b0 \in Byte, NEW b1 \in Byte, NEW b2 \in Byte
    PROVE  /\ \A d \in 0..3 : Sextet(b0, b1, b2, d) \in 0..63
           /\ \A x, y \in Nat :
                /\ Octet(Sextet(b0, b1, b2, 0), Sextet(b0, b1, b2, 1), x, y, 0) = b0
                /\ Octet(y, Sextet(b0, b1, b2, 1), Sextet(b0, b1, b2, 2), x, 1) = b1
                /\ Octet(x, y, Sextet(b0, b1, b2, 2), Sextet(b0, b1, b2, 3), 2) = b2
<1> DEFINE s0 == b0 \div 4
           s1 == (b0 % 4) * 16 + b1 \div 16
           s2 == (b1 % 16) * 4 + b2 \div 64
           s3 == b2 % 64
<1>1. /\ b0 \div 4 \in 0..63 /\ b0 % 4 \in 0..3 /\ b0 = 4 * (b0 \div 4) + (b0 % 4)
      /\ b1 \div 16 \in 0..15 /\ b1 % 16 \in 0..15
      /\ b1 = 16 * (b1 \div 16) + (b1 % 16)
      /\ b2 \div 64 \in 0..3 /\ b2 % 64 \in 0..63
      /\ b2 = 64 * (b2 \div 64) + (b2 % 64)
      /\ b0 % 256 = b0 /\ b1 % 256 = b1 /\ b2 % 256 = b2
  BY DEF Byte
<1>2. s0 \in 0..63 /\ s1 \in 0..63 /\ s2 \in 0..63 /\ s3 \in 0..63
  BY <1>1
<1>3. /\ Sextet(b0, b1, b2, 0) = s0 /\ Sextet(b0, b1, b2, 1) = s1
      /\ Sextet(b0, b1, b2, 2) = s2 /\ Sextet(b0, b1, b2, 3) = s3
  BY DEF Sextet
<1>4. (s1 \div 16) % 4 = b0 % 4 /\ s1 % 16 = b1 \div 16
  BY <1>1
<1>5. (s2 \div 4) % 16 = b1 % 16 /\ s2 % 4 = b2 \div 64
  BY <1>1
<1>6. /\ s0 * 4 + (b0 % 4) = b0
      /\ (b1 \div 16) * 16 + (b1 % 16) = b1
      /\ (b2 \div 64) * 64 + s3 = b2
  BY <1>1
<1>7. \A d \in 0..3 : d = 0 \/ d = 1 \/ d = 2 \/ d = 3
  OBVIOUS
<1>8. ASSUME NEW x \in Nat, NEW y \in Nat
      PROVE  Octet(s0, s1, x, y, 0) = b0 /\ Octet(y, s1, s2, x, 1) = b1
               /\ Octet(x, y, s2, s3, 2) = b2
  <2>1. Octet(s0, s1, x, y, 0) = (s0 * 4 + ((s1 \div 16) % 4)) % 256
    BY DEF Octet
  <2>2. Octet(y, s1, s2, x, 1) = ((s1 % 16) * 16 + ((s2 \div 4) % 16)) % 256
    BY DEF Octet
  <2>3. Octet(x, y, s2, s3, 2) = ((s2 % 4) * 64 + s3) % 256
    BY DEF Octet
  <2> HIDE DEF s0, s1, s2, s3
  <2> QED BY <1>1, <1>4, <1>5, <1>6, <2>1, <2>2, <2>3
<1> HIDE DEF s0, s1, s2, s3
<1>9. \A d \in 0..3 : Sextet(b0, b1, b2, d) \in 0..63
  BY <1>2, <1>3, <1>7
<1> QED BY <1>3, <1>8, <1>9

\* Decoding stops where the first other character stands, or the text ends.
LEMMA DigitsAre ==
    ASSUME NEW text, Len(text) \in Nat, NEW m \in 0..Len(text),
           \A i \in 1..m : is_base64(text[i]),
           m < Len(text) => ~is_base64(text[m + 1])
    PROVE  Digits(text) = m
<1> DEFINE P(n) == /\ \A i \in 1..n : is_base64(text[i])
                   /\ n < Len(text) => ~is_base64(text[n + 1])
<1>1. P(m)
  OBVIOUS
<1>2. ASSUME NEW n \in 0..Len(text), P(n) PROVE n = m
  <2>1. CASE n < m
    <3>1. n + 1 \in 1..m /\ n < Len(text)
      BY <2>1
    <3> QED BY <1>2, <3>1
  <2>2. CASE n > m
    <3>1. m + 1 \in 1..n /\ m < Len(text)
      BY <2>2
    <3> QED BY <1>2, <3>1
  <2> QED BY <2>1, <2>2
<1> HIDE DEF P
<1>3. (CHOOSE n \in 0..Len(text) : P(n)) = m
  BY <1>1, <1>2
<1> QED BY <1>3 DEF Digits, P

\* What is found is a number.
LEMMA FindType == \A c : find(c) \in Nat
<1> SUFFICES ASSUME NEW c PROVE find(c) \in Nat
  OBVIOUS
<1>1. CASE \E v \in 0..63 : base64_chars[v] = c
  BY <1>1 DEF find
<1>2. CASE ~\E v \in 0..63 : base64_chars[v] = c
  BY <1>2 DEF find
<1> QED BY <1>1, <1>2

\* How many characters are written for n bytes, the padding not counted.
Written(n) == 4 * (n \div 3) + (IF n % 3 = 0 THEN 0 ELSE (n % 3) + 1)

\* Places in groups of three bytes and of four characters: n bytes, m characters
\* of them, l with the padding.
PlacesOf(n, m, l) ==
    /\ m \in Nat /\ l \in Nat /\ m <= l
    /\ 3 * (m \div 4) + (IF m % 4 = 0 THEN 0 ELSE (m % 4) - 1) = n
    /\ \A i \in 1..l :
         /\ (i - 1) \div 4 \in Nat /\ (i - 1) % 4 \in 0..3
         /\ i = 4 * ((i - 1) \div 4) + ((i - 1) % 4) + 1
         /\ 3 * ((i - 1) \div 4) + ((i - 1) % 4) <= n <=> i <= m
    /\ \A j \in 1..n :
         /\ (j - 1) \div 3 \in Nat /\ (j - 1) % 3 \in 0..2
         /\ j = 3 * ((j - 1) \div 3) + ((j - 1) % 3) + 1
         /\ 4 * ((j - 1) \div 3) + ((j - 1) % 3) + 2 <= m

LEMMA Places ==
    ASSUME NEW n \in Nat
    PROVE  PlacesOf(n, Written(n), 4 * ((n + 2) \div 3))
<1> DEFINE w == n \div 3
           r == n % 3
           m == Written(n)
           l == 4 * ((n + 2) \div 3)
<1>1. w \in Nat /\ r \in 0..2 /\ n = 3 * w + r
  OBVIOUS
<1>0. m = 4 * w + (IF r = 0 THEN 0 ELSE r + 1)
  BY DEF Written
<1>2. l = IF r = 0 THEN 4 * w ELSE 4 * w + 4
  <2>1. (n + 2) \div 3 = IF r = 0 THEN w ELSE w + 1
    OBVIOUS
  <2> HIDE DEF w, r
  <2> QED BY <1>1, <2>1
<1> HIDE DEF w, r, m, l
<1>3. m \in Nat /\ l \in Nat /\ m <= l
  BY <1>0, <1>1, <1>2
<1>4. m \div 4 = w /\ m % 4 = IF r = 0 THEN 0 ELSE r + 1
  BY <1>0, <1>1
<1>5. 3 * (m \div 4) + (IF m % 4 = 0 THEN 0 ELSE (m % 4) - 1) = n
  BY <1>1, <1>4
<1>6. ASSUME NEW i \in 1..l
      PROVE  /\ (i - 1) \div 4 \in Nat /\ (i - 1) % 4 \in 0..3
             /\ i = 4 * ((i - 1) \div 4) + ((i - 1) % 4) + 1
             /\ 3 * ((i - 1) \div 4) + ((i - 1) % 4) <= n <=> i <= m
  <2>1. PICK g \in Nat, d \in 0..3 :
          g = (i - 1) \div 4 /\ d = (i - 1) % 4 /\ i = 4 * g + d + 1
    OBVIOUS
  <2>2. 3 * g + d <= n <=> i <= m
    BY <1>0, <1>1, <1>2, <2>1
  <2> QED BY <2>1, <2>2
<1>7. ASSUME NEW j \in 1..n
      PROVE  /\ (j - 1) \div 3 \in Nat /\ (j - 1) % 3 \in 0..2
             /\ j = 3 * ((j - 1) \div 3) + ((j - 1) % 3) + 1
             /\ 4 * ((j - 1) \div 3) + ((j - 1) % 3) + 2 <= m
  <2>1. PICK g \in Nat, e \in 0..2 :
          g = (j - 1) \div 3 /\ e = (j - 1) % 3 /\ j = 3 * g + e + 1
    OBVIOUS
  <2>2. 4 * g + e + 2 <= m
    BY <1>0, <1>1, <2>1
  <2> QED BY <2>1, <2>2
<1>8. PlacesOf(n, m, l)
  BY <1>3, <1>5, <1>6, <1>7 DEF PlacesOf
<1> QED BY <1>8 DEF m, l

\* base64_decode gives back what base64_encode wrote, for bytes of every number,
\* such as the 16 of a key and the 20 of a digest, whose last groups are not full.
THEOREM Base64RoundTrip ==
    ASSUME NEW bytes \in Seq(Byte)
    PROVE  base64_decode(base64_encode(bytes)) = bytes
<1>1. PICK n \in Nat : n = Len(bytes) /\ DOMAIN bytes = 1..n
  BY LenProperties
<1> DEFINE m == Written(n)
           l == 4 * ((n + 2) \div 3)
<1>0. l = 4 * ((n + 2) \div 3)
  OBVIOUS
<1>0a. PlacesOf(n, m, l)
  BY Places
<1> HIDE DEF m, l
<1>2. /\ m \in Nat /\ l \in Nat /\ m <= l
      /\ 3 * (m \div 4) + (IF m % 4 = 0 THEN 0 ELSE (m % 4) - 1) = n
      /\ \A i \in 1..l :
           /\ (i - 1) \div 4 \in Nat /\ (i - 1) % 4 \in 0..3
           /\ i = 4 * ((i - 1) \div 4) + ((i - 1) % 4) + 1
           /\ 3 * ((i - 1) \div 4) + ((i - 1) % 4) <= n <=> i <= m
      /\ \A j \in 1..n :
           /\ (j - 1) \div 3 \in Nat /\ (j - 1) % 3 \in 0..2
           /\ j = 3 * ((j - 1) \div 3) + ((j - 1) % 3) + 1
           /\ 4 * ((j - 1) \div 3) + ((j - 1) % 3) + 2 <= m
  BY <1>0a DEF PlacesOf
<1> DEFINE text == base64_encode(bytes)
           digit(i) == find(IF i <= m THEN text[i] ELSE 0)
           sextet(g, d) == Sextet(At(bytes, 3 * g + 1), At(bytes, 3 * g + 2),
                                  At(bytes, 3 * g + 3), d)
<1>3. \A i \in Nat \ {0} : At(bytes, i) \in Byte
  BY <1>1 DEF At, Byte
<1>4. \A g \in Nat, d \in 0..3 : sextet(g, d) \in 0..63
  <2> SUFFICES ASSUME NEW g \in Nat PROVE \A d \in 0..3 : sextet(g, d) \in 0..63
    OBVIOUS
  <2>1. /\ At(bytes, 3 * g + 1) \in Byte /\ At(bytes, 3 * g + 2) \in Byte
        /\ At(bytes, 3 * g + 3) \in Byte
    BY <1>3
  <2> QED BY <2>1, Groups
<1>5. /\ Len(text) = l
      /\ \A i \in 1..l :
           text[i] = IF i <= m THEN base64_chars[sextet((i - 1) \div 4, (i - 1) % 4)]
                     ELSE Padding
  BY <1>1, <1>2, <1>0 DEF base64_encode
<1> HIDE DEF text, sextet
<1>6. \A i \in 1..m : is_base64(text[i])
  <2> TAKE i \in 1..m
  <2>1. i \in 1..l /\ (i - 1) \div 4 \in Nat /\ (i - 1) % 4 \in 0..3
    BY <1>2
  <2>2. text[i] = base64_chars[sextet((i - 1) \div 4, (i - 1) % 4)]
    BY <1>5, <2>1
  <2>3. sextet((i - 1) \div 4, (i - 1) % 4) \in 0..63
    BY <1>4, <2>1
  <2> QED BY <2>2, <2>3, Characters
<1>7. m < l => ~is_base64(text[m + 1])
  <2>1. ASSUME m < l PROVE text[m + 1] = Padding
    <3>1. m + 1 \in 1..l /\ ~(m + 1 <= m)
      BY <1>2, <2>1
    <3> QED BY <1>5, <3>1
  <2> QED BY <2>1, Characters
<1>8. Digits(text) = m
  <2>1. Len(text) = l /\ m <= l /\ m \in Nat /\ l \in Nat
    BY <1>2, <1>5
  <2>2. Len(text) \in Nat /\ m \in 0..Len(text)
        /\ (m < Len(text) => ~is_base64(text[m + 1]))
    BY <1>7, <2>1
  <2> QED BY <1>6, <2>2, DigitsAre
<1>9. ASSUME NEW g \in Nat, NEW d \in 0..3, 4 * g + d + 1 <= m
      PROVE  digit(4 * g + d + 1) = sextet(g, d)
  <2>1. PICK i \in 1..l : i = 4 * g + d + 1 /\ i <= m
    BY <1>2, <1>9
  <2>2. (i - 1) \div 4 = g /\ (i - 1) % 4 = d
    BY <2>1
  <2>3. text[i] = base64_chars[sextet(g, d)]
    BY <1>5, <2>1, <2>2
  <2>4. sextet(g, d) \in 0..63
    BY <1>4
  <2>5. find(text[i]) = sextet(g, d)
    BY <2>3, <2>4, Characters
  <2>6. digit(i) = find(text[i])
    BY <2>1
  <2> HIDE DEF digit
  <2> QED BY <2>1, <2>5, <2>6
<1>10. ASSUME NEW j \in 1..n
       PROVE  Octet(digit(4 * ((j - 1) \div 3) + 1), digit(4 * ((j - 1) \div 3) + 2),
                    digit(4 * ((j - 1) \div 3) + 3), digit(4 * ((j - 1) \div 3) + 4),
                    (j - 1) % 3) = bytes[j]
  <2>1. PICK g \in Nat, e \in 0..2 :
          /\ g = (j - 1) \div 3 /\ e = (j - 1) % 3 /\ j = 3 * g + e + 1
          /\ 4 * g + e + 2 <= m
    BY <1>2
  <2>2. \A i : digit(i) \in Nat
    BY FindType
  <2> HIDE DEF digit
  <2>3. ASSUME NEW d \in 0..3, d <= e + 1 PROVE digit(4 * g + d + 1) = sextet(g, d)
    <3>1. 4 * g + d + 1 <= m
      BY <1>2, <2>1, <2>3
    <3> QED BY <1>9, <3>1
  <2> DEFINE b0 == At(bytes, 3 * g + 1)
             b1 == At(bytes, 3 * g + 2)
             b2 == At(bytes, 3 * g + 3)
  <2>4. b0 \in Byte /\ b1 \in Byte /\ b2 \in Byte
    BY <1>3
  <2>5. bytes[j] = IF e = 0 THEN b0 ELSE IF e = 1 THEN b1 ELSE b2
    <3>1. At(bytes, j) = bytes[j]
      BY <1>1 DEF At
    <3> QED BY <2>1, <3>1
  <2>6. \A d : sextet(g, d) = Sextet(b0, b1, b2, d)
    BY DEF sextet
  <2> HIDE DEF b0, b1, b2
  <2>7. \A x, y \in Nat :
          /\ Octet(sextet(g, 0), sextet(g, 1), x, y, 0) = b0
          /\ Octet(y, sextet(g, 1), sextet(g, 2), x, 1) = b1
          /\ Octet(x, y, sextet(g, 2), sextet(g, 3), 2) = b2
    BY <2>4, <2>6, Groups
  <2>8. digit(4 * g + 1) = sextet(g, 0) /\ digit(4 * g + 2) = sextet(g, 1)
    <3>1. digit(4 * g + 0 + 1) = sextet(g, 0) /\ digit(4 * g + 1 + 1) = sextet(g, 1)
      BY <2>1, <2>3
    <3> QED BY <3>1
  <2>9. CASE e = 0
    BY <2>1, <2>2, <2>5, <2>7, <2>8, <2>9
  <2>10. CASE e = 1
    <3>1. digit(4 * g + 2 + 1) = sextet(g, 2)
      BY <2>3, <2>10
    <3>2. digit(4 * g + 3) = sextet(g, 2)
      BY <3>1
    <3> QED BY <2>1, <2>2, <2>5, <2>7, <2>8, <2>10, <3>2
  <2>11. CASE e = 2
    <3>1. digit(4 * g + 2 + 1) = sextet(g, 2) /\ digit(4 * g + 3 + 1) = sextet(g, 3)
      BY <2>3, <2>11
    <3>2. digit(4 * g + 3) = sextet(g, 2) /\ digit(4 * g + 4) = sextet(g, 3)
      BY <3>1
    <3> QED BY <2>1, <2>2, <2>5, <2>7, <2>8, <2>11, <3>2
  <2> QED BY <2>9, <2>10, <2>11
<1>11. base64_decode(text) = [j \in 1..n |-> bytes[j]]
  BY <1>2, <1>8, <1>10 DEF base64_decode
<1>12. bytes = [j \in 1..n |-> bytes[j]]
  BY <1>1
<1> QED BY <1>11, <1>12 DEF text

\* The text that a client compares with Sec-WebSocket-Accept is that of one digest
\* only (validate_server_handshake_response, process_handshake_key).
THEOREM AcceptsOwnDigest ==
    ASSUME NEW digest \in Seq(Byte), NEW other \in Seq(Byte),
           base64_encode(other) = base64_encode(digest)
    PROVE  other = digest
<1>1. base64_decode(base64_encode(other)) = base64_decode(base64_encode(digest))
  OBVIOUS
<1> QED BY <1>1, Base64RoundTrip

(***************************************************************************)
(* Induction over numbers, and functions defined by recursion              *)
(***************************************************************************)
\* The numbers are well-ordered by <.
LEMMA NatOrder == IsWellFoundedOn({p \in Nat \X Nat : p[1] < p[2]}, Nat)
BY NatLessThanWellFounded DEF OpToRel

\* What holds of 0, and of n + 1 whenever of n, holds of every number.
LEMMA SetInduction ==
    ASSUME NEW T, 0 \in T, \A n \in Nat : n \in T => n + 1 \in T
    PROVE  \A n \in Nat : n \in T
<1> DEFINE R == {p \in Nat \X Nat : p[1] < p[2]}
           U == {n \in Nat : n \notin T}
<1>1. SUFFICES ASSUME U # {} PROVE FALSE
  OBVIOUS
<1>2. U \subseteq Nat /\ IsWellFoundedOn(R, Nat)
  BY NatOrder
<1> HIDE DEF R
<1>3. PICK x \in U : \A y \in U : <<y, x>> \notin R
  BY <1>1, <1>2, WFMin
<1>4. x \in Nat /\ x # 0 /\ x - 1 \in Nat
  OBVIOUS
<1>5. x - 1 \in U
  <2>1. x - 1 \in T => (x - 1) + 1 \in T
    BY <1>4
  <2> QED BY <2>1, <1>4
<1>6. <<x - 1, x>> \in R
  BY <1>4 DEF R
<1> QED BY <1>3, <1>5, <1>6

\* The function that is a at 0 and goes on from one number to the next by F
Goes(F, a, n, g) == g = [i \in 0..n |-> IF i = 0 THEN a ELSE F[i][g[i - 1]]]

\* There is one.
LEMMA GoesExists ==
    ASSUME NEW F, NEW a
    PROVE  \A n \in Nat : \E g : Goes(F, a, n, g)
<1> DEFINE T == {n \in Nat : \E g : Goes(F, a, n, g)}
<1>1. 0 \in T
  <2> DEFINE g == [i \in 0..0 |-> a]
  <2>1. g = [i \in 0..0 |-> IF i = 0 THEN a ELSE F[i][g[i - 1]]]
    OBVIOUS
  <2>2. Goes(F, a, 0, g)
    BY <2>1 DEF Goes
  <2> QED BY <2>2
<1>2. ASSUME NEW n \in Nat, n \in T PROVE n + 1 \in T
  <2>1. PICK g : Goes(F, a, n, g)
    BY <1>2
  <2>2. g = [i \in 0..n |-> IF i = 0 THEN a ELSE F[i][g[i - 1]]]
    BY <2>1 DEF Goes
  <2> DEFINE h == [i \in 0..(n + 1) |-> IF i <= n THEN g[i] ELSE F[n + 1][g[n]]]
  <2>3. \A i \in 0..(n + 1) :
           h[i] = (IF i = 0 THEN a ELSE F[i][h[i - 1]])
    <3>1. SUFFICES ASSUME NEW i \in 0..(n + 1)
                   PROVE  h[i] = (IF i = 0 THEN a ELSE F[i][h[i - 1]])
      OBVIOUS
    <3>2. CASE i = 0
      BY <2>2, <3>2
    <3>3. CASE i \in 1..n
      <4>1. g[i] = F[i][g[i - 1]]
        BY <2>2, <3>3
      <4>2. h[i] = g[i] /\ h[i - 1] = g[i - 1]
        BY <3>3
      <4> QED BY <3>3, <4>1, <4>2
    <3>4. CASE i = n + 1
      <4>1. h[i] = F[i][g[n]] /\ h[n] = g[n] /\ i - 1 = n /\ i # 0
        BY <3>4
      <4> QED BY <4>1
    <3> QED BY <3>2, <3>3, <3>4
  <2>4. h = [i \in 0..(n + 1) |-> IF i = 0 THEN a ELSE F[i][h[i - 1]]]
    <3>1. h = [i \in 0..(n + 1) |-> h[i]]
      OBVIOUS
    <3> HIDE DEF h
    <3> QED BY <2>3, <3>1
  <2>5. Goes(F, a, n + 1, h)
    BY <2>4, Zenon DEF Goes
  <2> QED BY <2>5
<1> HIDE DEF T
<1>3. \A n \in Nat : n \in T
  BY <1>1, <1>2, SetInduction
<1> QED BY <1>3 DEF T

\* A function that begins in a set and does not leave it in a step stays there.
LEMMA StaysIn ==
    ASSUME NEW g, NEW V, NEW n \in Nat, g[0] \in V,
           \A i \in 1..n : g[i - 1] \in V => g[i] \in V
    PROVE  \A i \in 0..n : g[i] \in V
<1> DEFINE T == {i \in Nat : i <= n => g[i] \in V}
<1>1. 0 \in T
  OBVIOUS
<1>2. ASSUME NEW i \in Nat, i \in T PROVE i + 1 \in T
  <2>1. SUFFICES ASSUME i + 1 <= n PROVE g[i + 1] \in V
    OBVIOUS
  <2>2. i + 1 \in 1..n /\ (i + 1) - 1 = i /\ g[i] \in V
    BY <1>2, <2>1
  <2> QED BY <2>2
<1> HIDE DEF T
<1>3. \A i \in Nat : i \in T
  BY <1>1, <1>2, SetInduction
<1> QED BY <1>3 DEF T

(***************************************************************************)
(* The validator: decode goes from state to state                          *)
(***************************************************************************)
\* The validator's states
Utf8State == 0..8

\* The class of a byte
LEMMA ClassOf ==
    ASSUME NEW x \in Byte
    PROVE  /\ x \in 0..127 => Class(x) = 0
           /\ x \in 128..143 => Class(x) = 1
           /\ x \in 144..159 => Class(x) = 9
           /\ x \in 160..191 => Class(x) = 7
           /\ x \in {192, 193} \cup 245..255 => Class(x) = 8
           /\ x \in 194..223 => Class(x) = 2
           /\ x = 224 => Class(x) = 10
           /\ x = 237 => Class(x) = 4
           /\ x \in 225..239 \ {237} => Class(x) = 3
           /\ x = 240 => Class(x) = 11
           /\ x \in 241..243 => Class(x) = 6
           /\ x = 244 => Class(x) = 5
<1>1. x \in 0..127 => Class(x) = 0
  BY DEF Class, Byte
<1>2. x \in 128..143 => Class(x) = 1
  BY DEF Class, Byte
<1>3. x \in 144..159 => Class(x) = 9
  BY DEF Class, Byte
<1>4. x \in 160..191 => Class(x) = 7
  BY DEF Class, Byte
<1>5. x \in {192, 193} \cup 245..255 => Class(x) = 8
  BY DEF Class, Byte
<1>6. x \in 194..223 => Class(x) = 2
  BY DEF Class, Byte
<1>7. x = 224 => Class(x) = 10
  BY DEF Class, Byte
<1>8. x = 237 => Class(x) = 4
  BY DEF Class, Byte
<1>9. x \in 225..239 \ {237} => Class(x) = 3
  BY DEF Class, Byte
<1>10. x = 240 => Class(x) = 11
  BY DEF Class, Byte
<1>11. x \in 241..243 => Class(x) = 6
  BY DEF Class, Byte
<1>12. x = 244 => Class(x) = 5
  BY DEF Class, Byte
<1> QED BY <1>1, <1>2, <1>3, <1>4, <1>5, <1>6, <1>7, <1>8, <1>9, <1>10, <1>11, <1>12, Zenon


\* The row of the table for the accepting state
AfterAccept == <<0, 1, 2, 3, 5, 8, 7, 1, 1, 1, 4, 6>>

\* Its entries
LEMMA AfterAcceptAt ==
    /\ AfterAccept[1] = 0 /\ AfterAccept[2] = 1 /\ AfterAccept[3] = 2 /\ AfterAccept[4] = 3
    /\ AfterAccept[5] = 5 /\ AfterAccept[6] = 8 /\ AfterAccept[7] = 7 /\ AfterAccept[8] = 1
    /\ AfterAccept[9] = 1 /\ AfterAccept[10] = 1 /\ AfterAccept[11] = 4 /\ AfterAccept[12] = 6
BY DEF AfterAccept

\* A byte leads out of the accepting state by that row.
LEMMA StepFrom0 ==
    ASSUME NEW x, Class(x) \in 0..11
    PROVE Step(0, x) = AfterAccept[Class(x) + 1]
BY DEF Step, AfterAccept

\* The other rows
LEMMA StepIn ==
    ASSUME NEW s \in 1..8, NEW x
    PROVE Step(s, x) = 
             IF s = 2 /\ Class(x) \in {1, 7, 9} THEN 0
        ELSE IF s = 3 /\ Class(x) \in {1, 7, 9} THEN 2
        ELSE IF s = 4 /\ Class(x) = 7 THEN 2
        ELSE IF s = 5 /\ Class(x) \in {1, 9} THEN 2
        ELSE IF s = 6 /\ Class(x) \in {7, 9} THEN 3
        ELSE IF s = 7 /\ Class(x) \in {1, 7, 9} THEN 3
        ELSE IF s = 8 /\ Class(x) = 1 THEN 3
        ELSE 1
BY DEF Step, utf8_reject
\* What may follow the first byte of a code point
TrailByte == 128..191

\* What the tables say of a byte, from each state.
LEMMA FromEach ==
    ASSUME NEW x \in Byte
    PROVE  /\ Step(0, x) = 0 <=> x \in 0..127
           /\ Step(0, x) = 2 <=> x \in 194..223
           /\ Step(0, x) = 3 <=> x \in 225..239 \ {237}
           /\ Step(0, x) = 4 <=> x = 224
           /\ Step(0, x) = 5 <=> x = 237
           /\ Step(0, x) = 6 <=> x = 240
           /\ Step(0, x) = 7 <=> x \in 241..243
           /\ Step(0, x) = 8 <=> x = 244
           /\ Step(1, x) = 1
           /\ Step(2, x) = IF x \in TrailByte THEN 0 ELSE 1
           /\ Step(3, x) = IF x \in TrailByte THEN 2 ELSE 1
           /\ Step(4, x) = IF x \in 160..191 THEN 2 ELSE 1
           /\ Step(5, x) = IF x \in 128..159 THEN 2 ELSE 1
           /\ Step(6, x) = IF x \in 144..191 THEN 3 ELSE 1
           /\ Step(7, x) = IF x \in TrailByte THEN 3 ELSE 1
           /\ Step(8, x) = IF x \in 128..143 THEN 3 ELSE 1
           /\ \A s \in Utf8State : Step(s, x) \in Utf8State
<1> DEFINE c == Class(x)
           r0 == x \in 0..127
           r1 == x \in 128..143
           r9 == x \in 144..159
           r7 == x \in 160..191
           r8 == x \in {192, 193} \cup 245..255
           r2 == x \in 194..223
           r10 == x = 224
           r4 == x = 237
           r3 == x \in 225..239 \ {237}
           r11 == x = 240
           r6 == x \in 241..243
           r5 == x = 244
<1>1. /\ c = 0 <=> r0
      /\ c = 1 <=> r1
      /\ c = 2 <=> r2
      /\ c = 3 <=> r3
      /\ c = 4 <=> r4
      /\ c = 5 <=> r5
      /\ c = 6 <=> r6
      /\ c = 7 <=> r7
      /\ c = 8 <=> r8
      /\ c = 9 <=> r9
      /\ c = 10 <=> r10
      /\ c = 11 <=> r11
      /\ c \in 0..11
  <2>1. r0 \/ r1 \/ r9 \/ r7 \/ r8 \/ r2 \/ r10 \/ r4 \/ r3 \/ r11 \/ r6 \/ r5
    BY DEF Byte
  <2>2. /\ r0 => c = 0
        /\ r1 => c = 1
        /\ r9 => c = 9
        /\ r7 => c = 7
        /\ r8 => c = 8
        /\ r2 => c = 2
        /\ r10 => c = 10
        /\ r4 => c = 4
        /\ r3 => c = 3
        /\ r11 => c = 11
        /\ r6 => c = 6
        /\ r5 => c = 5
    BY ClassOf
  <2> HIDE DEF c, r0, r1, r9, r7, r8, r2, r10, r4, r3, r11, r6, r5
  <2> QED BY <2>1, <2>2
<1>2. /\ Step(0, x) = AfterAccept[Class(x) + 1]
      /\ \A s \in 1..8 :
           Step(s, x) =
             IF s = 2 /\ Class(x) \in {1, 7, 9} THEN 0
        ELSE IF s = 3 /\ Class(x) \in {1, 7, 9} THEN 2
        ELSE IF s = 4 /\ Class(x) = 7 THEN 2
        ELSE IF s = 5 /\ Class(x) \in {1, 9} THEN 2
        ELSE IF s = 6 /\ Class(x) \in {7, 9} THEN 3
        ELSE IF s = 7 /\ Class(x) \in {1, 7, 9} THEN 3
        ELSE IF s = 8 /\ Class(x) = 1 THEN 3
        ELSE 1
  <2>1. Class(x) \in 0..11
    BY <1>1
  <2>2. Step(0, x) = AfterAccept[Class(x) + 1]
    BY <2>1, StepFrom0
  <2> QED BY <2>2, StepIn
<1>3. /\ Step(0, x) = 0 <=> r0
      /\ Step(0, x) = 2 <=> r2
      /\ Step(0, x) = 3 <=> r3
      /\ Step(0, x) = 4 <=> r10
      /\ Step(0, x) = 5 <=> r4
      /\ Step(0, x) = 6 <=> r11
      /\ Step(0, x) = 7 <=> r6
      /\ Step(0, x) = 8 <=> r5
      /\ Step(0, x) \in Utf8State
  <2>1. Step(0, x) = AfterAccept[c + 1]
    BY <1>2
  <2> HIDE DEF c, r0, r1, r9, r7, r8, r2, r10, r4, r3, r11, r6, r5
  <2> QED BY <1>1, <2>1, AfterAcceptAt DEF Utf8State
<1>4. /\ x \in TrailByte <=> c \in {1, 7, 9}
      /\ x \in 160..191 <=> c = 7
      /\ x \in 128..159 <=> c \in {1, 9}
      /\ x \in 144..191 <=> c \in {7, 9}
      /\ x \in 128..143 <=> c = 1
  <2>1. /\ x \in TrailByte <=> r1 \/ r7 \/ r9
        /\ x \in 160..191 <=> r7
        /\ x \in 128..159 <=> r1 \/ r9
        /\ x \in 144..191 <=> r7 \/ r9
        /\ x \in 128..143 <=> r1
    BY DEF TrailByte
  <2> DEFINE t == x \in TrailByte
             t7 == x \in 160..191
             t19 == x \in 128..159
             t79 == x \in 144..191
             t1 == x \in 128..143
  <2>2. (t <=> r1 \/ r7 \/ r9) /\ (t7 <=> r7) /\ (t19 <=> r1 \/ r9)
        /\ (t79 <=> r7 \/ r9) /\ (t1 <=> r1)
    BY <2>1
  <2> HIDE DEF c, r1, r7, r9, t, t7, t19, t79, t1
  <2>3. /\ t <=> c \in {1, 7, 9}
        /\ t7 <=> c = 7
        /\ t19 <=> c \in {1, 9}
        /\ t79 <=> c \in {7, 9}
        /\ t1 <=> c = 1
    BY <1>1, <2>2
  <2> QED BY <2>3 DEF t, t7, t19, t79, t1
<1> HIDE DEF c
<1>5. /\ Step(1, x) = 1
      /\ Step(2, x) = IF c \in {1, 7, 9} THEN 0 ELSE 1
      /\ Step(3, x) = IF c \in {1, 7, 9} THEN 2 ELSE 1
      /\ Step(4, x) = IF c = 7 THEN 2 ELSE 1
      /\ Step(5, x) = IF c \in {1, 9} THEN 2 ELSE 1
      /\ Step(6, x) = IF c \in {7, 9} THEN 3 ELSE 1
      /\ Step(7, x) = IF c \in {1, 7, 9} THEN 3 ELSE 1
      /\ Step(8, x) = IF c = 1 THEN 3 ELSE 1
  BY <1>2 DEF c
<1>6. /\ Step(1, x) = 1
      /\ Step(2, x) = IF x \in TrailByte THEN 0 ELSE 1
      /\ Step(3, x) = IF x \in TrailByte THEN 2 ELSE 1
      /\ Step(4, x) = IF x \in 160..191 THEN 2 ELSE 1
      /\ Step(5, x) = IF x \in 128..159 THEN 2 ELSE 1
      /\ Step(6, x) = IF x \in 144..191 THEN 3 ELSE 1
      /\ Step(7, x) = IF x \in TrailByte THEN 3 ELSE 1
      /\ Step(8, x) = IF x \in 128..143 THEN 3 ELSE 1
  BY <1>4, <1>5
<1>7. \A s \in Utf8State : Step(s, x) \in Utf8State
  <2>1. SUFFICES ASSUME NEW s \in Utf8State PROVE Step(s, x) \in Utf8State
    OBVIOUS
  <2>2. s = 0 \/ s = 1 \/ s = 2 \/ s = 3 \/ s = 4 \/ s = 5 \/ s = 6 \/ s = 7
        \/ s = 8
    BY DEF Utf8State
  <2> QED BY <1>3, <1>6, <2>2 DEF Utf8State
<1> QED BY <1>3, <1>6, <1>7

\* From the accepting state alone
LEMMA FromAccept ==
    ASSUME NEW x \in Byte
    PROVE  /\ Step(0, x) = 0 <=> x \in 0..127
           /\ Step(0, x) = 2 <=> x \in 194..223
           /\ Step(0, x) = 3 <=> x \in 225..239 \ {237}
           /\ Step(0, x) = 4 <=> x = 224
           /\ Step(0, x) = 5 <=> x = 237
           /\ Step(0, x) = 6 <=> x = 240
           /\ Step(0, x) = 7 <=> x \in 241..243
           /\ Step(0, x) = 8 <=> x = 244
BY FromEach

\* From the others
LEMMA FromOthers ==
    ASSUME NEW x \in Byte
    PROVE  /\ Step(1, x) = 1
           /\ Step(2, x) = IF x \in TrailByte THEN 0 ELSE 1
           /\ Step(3, x) = IF x \in TrailByte THEN 2 ELSE 1
           /\ Step(4, x) = IF x \in 160..191 THEN 2 ELSE 1
           /\ Step(5, x) = IF x \in 128..159 THEN 2 ELSE 1
           /\ Step(6, x) = IF x \in 144..191 THEN 3 ELSE 1
           /\ Step(7, x) = IF x \in TrailByte THEN 3 ELSE 1
           /\ Step(8, x) = IF x \in 128..143 THEN 3 ELSE 1
           /\ \A s \in Utf8State : Step(s, x) \in Utf8State
BY FromEach

\* How validator::decode goes over the bytes
Decoding(s, bytes, d) ==
    /\ d \in [0..Len(bytes) -> Utf8State] /\ d[0] = s
    /\ \A i \in 1..Len(bytes) : d[i] = Step(d[i - 1], bytes[i])

\* Two runs over bytes that begin alike are alike that far.
LEMMA OneRun ==
    ASSUME NEW s, NEW bytes, NEW c, NEW d, NEW n \in Nat, NEW l \in Nat, n <= l,
           NEW bs, n <= Len(bytes), Len(bytes) \in Nat,
           \A i \in 1..n : bytes[i] = bs[i], l = Len(bs),
           Decoding(s, bytes, c), Decoding(s, bs, d)
    PROVE  c[n] = d[n]
<1> DEFINE T == {i \in Nat : i <= n => c[i] = d[i]}
<1>1. 0 \in T
  BY DEF Decoding
<1>2. ASSUME NEW i \in Nat, i \in T PROVE i + 1 \in T
  <2>1. SUFFICES ASSUME i + 1 <= n PROVE c[i + 1] = d[i + 1]
    OBVIOUS
  <2>2. c[i] = d[i]
    BY <1>2, <2>1
  <2>3. i + 1 \in 1..Len(bytes) /\ i + 1 \in 1..l /\ (i + 1) - 1 = i /\ i + 1 \in 1..n
    BY <2>1
  <2>4. c[i + 1] = Step(c[i], bytes[i + 1])
    BY <2>3 DEF Decoding
  <2>5. d[i + 1] = Step(d[i], bs[i + 1])
    BY <2>3 DEF Decoding
  <2> QED BY <2>2, <2>3, <2>4, <2>5
<1> HIDE DEF T
<1>3. n \in T
  BY <1>1, <1>2, SetInduction
<1> QED BY <1>3 DEF T

\* decode is its run over the bytes.
LEMMA DecodeIsRun ==
    ASSUME NEW s \in Utf8State, NEW bytes \in Seq(Byte)
    PROVE  \E d : Decoding(s, bytes, d) /\ Decode(s, bytes) = d[Len(bytes)]
<1>1. PICK m \in Nat : m = Len(bytes)
  BY LenProperties
<1> DEFINE F == [i \in 1..m |-> [v \in Utf8State |-> Step(v, bytes[i])]]
           IsIt(d) == d = [n \in 0..Len(bytes) |->
                             IF n = 0 THEN s ELSE Step(d[n - 1], bytes[n])]
<1>2. \A i \in 1..m : \A v \in Utf8State : Step(v, bytes[i]) \in Utf8State
  <2>1. SUFFICES ASSUME NEW i \in 1..m, NEW v \in Utf8State
                 PROVE  Step(v, bytes[i]) \in Utf8State
    OBVIOUS
  <2>2. bytes[i] \in Byte
    BY <1>1, ElementOfSeq
  <2> QED BY <2>2, FromOthers
<1>3. \E d : IsIt(d)
  <2>1. PICK g : Goes(F, s, m, g)
    BY GoesExists, <1>1
  <2>2. g = [i \in 0..m |-> IF i = 0 THEN s ELSE F[i][g[i - 1]]]
    BY <2>1 DEF Goes
  <2>3. \A i \in 1..m : g[i - 1] \in Utf8State => g[i] \in Utf8State
    <3>1. SUFFICES ASSUME NEW i \in 1..m, g[i - 1] \in Utf8State
                   PROVE  g[i] \in Utf8State
      OBVIOUS
    <3>2. F[i][g[i - 1]] = Step(g[i - 1], bytes[i])
      BY <3>1
    <3> HIDE DEF F
    <3>3. g[i] = F[i][g[i - 1]]
      <4>1. i \in 0..m /\ i # 0
        OBVIOUS
      <4> QED BY <2>2, <4>1
    <3> QED BY <1>2, <3>1, <3>2, <3>3
  <2>4. g[0] \in Utf8State
    BY <2>2
  <2> HIDE DEF F
  <2>5. \A i \in 0..m : g[i] \in Utf8State
    BY <2>3, <2>4, StaysIn
  <2>6. \A i \in 0..m : (IF i = 0 THEN s ELSE F[i][g[i - 1]])
                          = IF i = 0 THEN s ELSE Step(g[i - 1], bytes[i])
    <3>1. SUFFICES ASSUME NEW i \in 0..m, i # 0
                   PROVE  F[i][g[i - 1]] = Step(g[i - 1], bytes[i])
      OBVIOUS
    <3>2. i \in 1..m /\ g[i - 1] \in Utf8State
      BY <2>5, <3>1
    <3> QED BY <3>2 DEF F
  <2>7. IsIt(g)
    BY <1>1, <2>2, <2>6
  <2> QED BY <2>7
<1> DEFINE d == CHOOSE x : IsIt(x)
<1>4. IsIt(d)
  BY <1>3
<1>5. Decode(s, bytes) = d[Len(bytes)]
  BY DEF Decode
<1> HIDE DEF d
<1>6. d = [n \in 0..m |-> IF n = 0 THEN s ELSE Step(d[n - 1], bytes[n])]
  BY <1>4, <1>1
<1>7. d[0] = s /\ \A i \in 1..m : d[i] = Step(d[i - 1], bytes[i])
  BY <1>6
<1>8. \A i \in 1..m : d[i - 1] \in Utf8State => d[i] \in Utf8State
  BY <1>2, <1>7
<1>9. \A i \in 0..m : d[i] \in Utf8State
  BY <1>7, <1>8, StaysIn
<1>10. d \in [0..m -> Utf8State]
  BY <1>6, <1>9
<1> QED BY <1>1, <1>5, <1>7, <1>10 DEF Decoding

\* No byte
LEMMA DecodeNone ==
    ASSUME NEW s \in Utf8State
    PROVE  Decode(s, <<>>) = s
<1>1. PICK d : Decoding(s, <<>>, d) /\ Decode(s, <<>>) = d[Len(<<>>)]
  BY DecodeIsRun, EmptySeq
<1> QED BY <1>1 DEF Decoding

\* One byte more
LEMMA DecodeAppend ==
    ASSUME NEW s \in Utf8State, NEW bytes \in Seq(Byte), NEW x \in Byte
    PROVE  /\ Decode(s, bytes) \in Utf8State
           /\ Decode(s, Append(bytes, x)) = Step(Decode(s, bytes), x)
<1>1. PICK m \in Nat : m = Len(bytes)
  BY LenProperties
<1> DEFINE more == Append(bytes, x)
<1>2. /\ more \in Seq(Byte) /\ Len(more) = m + 1 /\ more[m + 1] = x
      /\ \A i \in 1..m : more[i] = bytes[i]
  BY <1>1, AppendProperties
<1>3. PICK c : Decoding(s, bytes, c) /\ Decode(s, bytes) = c[m]
  BY DecodeIsRun, <1>1
<1>4. PICK d : Decoding(s, more, d) /\ Decode(s, more) = d[m + 1]
  BY DecodeIsRun, <1>2
<1> HIDE DEF more
<1>5. c[m] = d[m]
  <2>1. m <= m + 1 /\ m <= Len(bytes) /\ m + 1 \in Nat /\ Len(bytes) \in Nat
    BY <1>1
  <2>2. \A i \in 1..m : bytes[i] = more[i]
    BY <1>2
  <2> QED BY <1>2, <1>3, <1>4, <2>1, <2>2, OneRun
<1>6. d[m + 1] = Step(d[m], more[m + 1])
  <2>1. m + 1 \in 1..Len(more) /\ (m + 1) - 1 = m
    BY <1>2
  <2> QED BY <1>4, <2>1 DEF Decoding
<1>7. c[m] \in Utf8State
  BY <1>1, <1>3 DEF Decoding
<1> QED BY <1>2, <1>3, <1>4, <1>5, <1>6, <1>7 DEF more

\* A state it is that decode returns.
LEMMA DecodeIn ==
    ASSUME NEW s \in Utf8State, NEW bytes \in Seq(Byte)
    PROVE  Decode(s, bytes) \in Utf8State
<1>1. PICK d : Decoding(s, bytes, d) /\ Decode(s, bytes) = d[Len(bytes)]
  BY DecodeIsRun
<1> QED BY <1>1 DEF Decoding

\* Bytes that come in two parts are decoded as in one: the state is all that
\* is carried over.
THEOREM DecodeConcat ==
    ASSUME NEW s \in Utf8State, NEW a \in Seq(Byte), NEW b \in Seq(Byte)
    PROVE  Decode(s, a \o b) = Decode(Decode(s, a), b)
<1> DEFINE T == {n \in Nat : \A e \in Seq(Byte) :
                   Len(e) = n => Decode(s, a \o e) = Decode(Decode(s, a), e)}
<1>1. 0 \in T
  <2>1. SUFFICES ASSUME NEW e \in Seq(Byte), Len(e) = 0
                 PROVE  Decode(s, a \o e) = Decode(Decode(s, a), e)
    OBVIOUS
  <2>2. e = <<>>
    BY <2>1, EmptySeq
  <2>3. a \o <<>> = a
    OBVIOUS
  <2>4. Decode(s, a) \in Utf8State
    BY DecodeIn
  <2> QED BY <2>2, <2>3, <2>4, DecodeNone
<1>2. ASSUME NEW n \in Nat, n \in T PROVE n + 1 \in T
  <2>1. SUFFICES ASSUME NEW e \in Seq(Byte), Len(e) = n + 1
                 PROVE  Decode(s, a \o e) = Decode(Decode(s, a), e)
    OBVIOUS
  <2>2. PICK f \in Seq(Byte), x \in Byte : e = Append(f, x) /\ Len(f) = n
    <3> DEFINE f == SubSeq(e, 1, n)
    <3>1. f \in Seq(Byte) /\ e[n + 1] \in Byte /\ e = Append(f, e[n + 1])
          /\ Len(f) = n
      BY <2>1
    <3> QED BY <3>1
  <2>3. PICK g \in Seq(Byte) : g = a \o f
    BY ConcatProperties
  <2>8. a \o e = Append(g, x)
    BY <2>2, <2>3
  <2>4. Decode(s, a \o f) = Decode(Decode(s, a), f)
    BY <1>2, <2>2
  <2>5. Decode(s, a) \in Utf8State
    BY DecodeIn
  <2>6. Decode(s, Append(g, x)) = Step(Decode(s, g), x)
    BY DecodeAppend
  <2>7. Decode(Decode(s, a), e) = Step(Decode(Decode(s, a), f), x)
    BY <2>2, <2>5, DecodeAppend
  <2> QED BY <2>3, <2>4, <2>6, <2>7, <2>8, Zenon
<1> HIDE DEF T
<1>3. \A n \in Nat : n \in T
  BY <1>1, <1>2, SetInduction
<1>4. Len(b) \in Nat
  OBVIOUS
<1> QED BY <1>3, <1>4 DEF T

\* The second byte of three, and of four, is one that may follow the first.
Second3(x, y) ==
    \/ x = 224 /\ y \in 160..191
    \/ x \in 225..239 \ {237} /\ y \in TrailByte
    \/ x = 237 /\ y \in 128..159
Second4(x, y) ==
    \/ x = 240 /\ y \in 144..191
    \/ x \in 241..243 /\ y \in TrailByte
    \/ x = 244 /\ y \in 128..143

\* What is not written shorter, no surrogate and no larger than 1114111 is seen
\* from the first two bytes.
LEMMA ShortestOf2 ==
    ASSUME NEW x \in 192..223, NEW y \in TrailByte
    PROVE  128 <= Value2(x, y) <=> x \in 194..223
BY DEF Value2, TrailByte

\* ... of three bytes
LEMMA ShortestOf3 ==
    ASSUME NEW x \in 224..239, NEW y \in TrailByte, NEW z \in TrailByte
    PROVE  2048 <= Value3(x, y, z) /\ ~Surrogate(Value3(x, y, z)) <=> Second3(x, y)
<1>1. PICK v \in Int : v = Value3(x, y, z)
  BY DEF Value3, TrailByte
<1>2. v = 4096 * (x - 224) + 64 * (y - 128) + z - 128
  BY <1>1 DEF Value3
<1>3. 2048 <= v /\ ~(55296 <= v /\ v <= 57343) <=> Second3(x, y)
  <2>1. CASE x = 224
    BY <1>2, <2>1 DEF Second3, TrailByte
  <2>2. CASE x = 237
    BY <1>2, <2>2 DEF Second3, TrailByte
  <2>3. CASE x # 224 /\ x # 237
    BY <1>2, <2>3 DEF Second3, TrailByte
  <2> QED BY <2>1, <2>2, <2>3
<1> QED BY <1>1, <1>3 DEF Surrogate

\* ... of four
LEMMA ShortestOf4 ==
    ASSUME NEW x \in 240..247, NEW y \in TrailByte, NEW z \in TrailByte,
           NEW u \in TrailByte
    PROVE  65536 <= Value4(x, y, z, u) /\ Value4(x, y, z, u) <= 1114111
             <=> Second4(x, y)
<1>1. PICK v \in Int : v = Value4(x, y, z, u)
  BY DEF Value4, TrailByte
<1>2. v = 262144 * (x - 240) + 4096 * (y - 128) + 64 * (z - 128) + u - 128
  BY <1>1 DEF Value4
<1>3. 65536 <= v /\ v <= 1114111 <=> Second4(x, y)
  <2>1. CASE x = 240
    BY <1>2, <2>1 DEF Second4, TrailByte
  <2>2. CASE x = 244
    BY <1>2, <2>2 DEF Second4, TrailByte
  <2>3. CASE x \in 241..243
    BY <1>2, <2>3 DEF Second4, TrailByte
  <2>4. CASE x > 244
    BY <1>2, <2>4 DEF Second4, TrailByte
  <2> QED BY <2>1, <2>2, <2>3, <2>4
<1> QED BY <1>1, <1>3
\* When one byte is a code point
LEMMA OnePoint ==
    ASSUME NEW p, Len(p) = 1, NEW x \in Byte, p[1] = x
    PROVE  IsCodePoint(p) <=> x \in 0..127
<1>1. Trail(p)
  BY DEF Trail
<1> QED BY <1>1 DEF IsCodePoint

\* ... two
LEMMA TwoPoint ==
    ASSUME NEW p, Len(p) = 2, NEW x \in Byte, NEW y \in Byte,
           p[1] = x, p[2] = y
    PROVE  IsCodePoint(p) <=> x \in 194..223 /\ y \in TrailByte
<1>1. Trail(p) <=> y \in TrailByte
  BY DEF Trail, TrailByte
<1>2. IsCodePoint(p) <=> Trail(p) /\ x \in 192..223 /\ 128 <= Value2(x, y)
  BY DEF IsCodePoint
<1>3. x \in 192..223 /\ y \in TrailByte =>
        (128 <= Value2(x, y) <=> x \in 194..223)
  BY ShortestOf2
<1>4. x \in 194..223 => x \in 192..223
  OBVIOUS
<1> QED BY <1>1, <1>2, <1>3, <1>4

\* ... three
LEMMA ThreePoint ==
    ASSUME NEW p, Len(p) = 3, NEW x \in Byte, NEW y \in Byte, NEW z \in Byte,
           p[1] = x, p[2] = y, p[3] = z
    PROVE  IsCodePoint(p) <=> Second3(x, y) /\ z \in TrailByte
<1> DEFINE shortest == 2048 <= Value3(x, y, z) /\ ~Surrogate(Value3(x, y, z))
<1>1. Trail(p) <=> y \in TrailByte /\ z \in TrailByte
  BY DEF Trail, TrailByte
<1>2. IsCodePoint(p) <=> Trail(p) /\ x \in 224..239 /\ shortest
  BY DEF IsCodePoint
<1>3. x \in 224..239 /\ y \in TrailByte /\ z \in TrailByte =>
        (shortest <=> Second3(x, y))
  BY ShortestOf3
<1>4. Second3(x, y) => x \in 224..239 /\ y \in TrailByte
  BY DEF Second3, TrailByte
<1> HIDE DEF shortest
<1> QED BY <1>1, <1>2, <1>3, <1>4

\* ... four
LEMMA FourPoint ==
    ASSUME NEW p, Len(p) = 4, NEW x \in Byte, NEW y \in Byte, NEW z \in Byte,
           NEW u \in Byte, p[1] = x, p[2] = y, p[3] = z, p[4] = u
    PROVE  IsCodePoint(p) <=> /\ Second4(x, y) /\ z \in TrailByte
                              /\ u \in TrailByte
<1> DEFINE shortest == /\ 65536 <= Value4(x, y, z, u)
                       /\ Value4(x, y, z, u) <= 1114111
<1>1. Trail(p) <=> y \in TrailByte /\ z \in TrailByte /\ u \in TrailByte
  BY DEF Trail, TrailByte
<1>2. IsCodePoint(p) <=> Trail(p) /\ x \in 240..247 /\ shortest
  BY DEF IsCodePoint
<1>3. x \in 240..247 /\ y \in TrailByte /\ z \in TrailByte /\ u \in TrailByte =>
        (shortest <=> Second4(x, y))
  BY ShortestOf4
<1>4. Second4(x, y) => x \in 240..247 /\ y \in TrailByte
  BY DEF Second4, TrailByte
<1> HIDE DEF shortest
<1> QED BY <1>1, <1>2, <1>3, <1>4

\* The last k of n bytes are one code point.
Point(bytes, n, k) == IsCodePoint(SubSeq(bytes, n - k + 1, n))

\* They are themselves, wherever they stand.
LEMMA PointBytes ==
    ASSUME NEW b \in Seq(Byte), NEW n \in Nat, n <= Len(b),
           NEW k \in 1..4, k <= n
    PROVE  LET p == SubSeq(b, n - k + 1, n) IN
           /\ Len(p) = k
           /\ \A i \in 1..k : p[i] = b[n - k + i] /\ b[n - k + i] \in Byte
<1> DEFINE p == SubSeq(b, n - k + 1, n)
<1>1. PICK l \in Nat : l = Len(b)
  BY LenProperties
<1>2. PICK m \in Nat : m = n - k
  OBVIOUS
<1>3. p = SubSeq(b, m + 1, n) /\ m + 1 \in 1..(l + 1) /\ n \in m..l
  BY <1>1, <1>2
<1>4. Len(p) = n - m
  BY <1>1, <1>3
<1>5. \A i \in 1..(n - m) : p[i] = b[m + i] /\ b[m + i] \in Byte
  BY <1>1, <1>3
<1>6. n - m = k
  BY <1>2
<1> HIDE DEF p
<1>7. Len(p) = k /\ \A i \in 1..k : p[i] = b[n - k + i] /\ b[n - k + i] \in Byte
  BY <1>2, <1>4, <1>5, <1>6
<1> QED BY <1>7 DEF p

\* The last byte
LEMMA Point1 ==
    ASSUME NEW b \in Seq(Byte), NEW n \in Nat, n <= Len(b), 1 <= n
    PROVE  Point(b, n, 1) <=> b[n] \in 0..127
<1> DEFINE p == SubSeq(b, n - 1 + 1, n)
<1>1. Len(p) = 1 /\ \A i \in 1..1 : p[i] = b[n - 1 + i] /\ b[n - 1 + i] \in Byte
  BY PointBytes
<1> HIDE DEF p
<1>2. n - 1 + 1 = n
  OBVIOUS
<1>3. Len(p) = 1 /\ p[1] = b[n] /\ b[n] \in Byte
  BY <1>1, <1>2
<1>4. IsCodePoint(p) <=> b[n] \in 0..127
  BY <1>3, OnePoint
<1> QED BY <1>4, Zenon DEF Point, p

\* ... of two
LEMMA Point2 ==
    ASSUME NEW b \in Seq(Byte), NEW n \in Nat, n <= Len(b), 2 <= n
    PROVE  Point(b, n, 2) <=> b[n - 1] \in 194..223 /\ b[n] \in TrailByte
<1> DEFINE p == SubSeq(b, n - 2 + 1, n)
<1>1. Len(p) = 2 /\ \A i \in 1..2 : p[i] = b[n - 2 + i] /\ b[n - 2 + i] \in Byte
  BY PointBytes
<1> HIDE DEF p
<1>2. n - 2 + 1 = n - 1 /\ n - 2 + 2 = n
  OBVIOUS
<1>3. /\ Len(p) = 2 /\ p[1] = b[n - 1] /\ p[2] = b[n]
      /\ b[n - 1] \in Byte /\ b[n] \in Byte
  BY <1>1, <1>2
<1>4. IsCodePoint(p) <=> b[n - 1] \in 194..223 /\ b[n] \in TrailByte
  BY <1>3, TwoPoint
<1> QED BY <1>4, Zenon DEF Point, p

\* ... of three
LEMMA Point3 ==
    ASSUME NEW b \in Seq(Byte), NEW n \in Nat, n <= Len(b), 3 <= n
    PROVE  Point(b, n, 3) <=> Second3(b[n - 2], b[n - 1]) /\ b[n] \in TrailByte
<1> DEFINE p == SubSeq(b, n - 3 + 1, n)
<1>1. Len(p) = 3 /\ \A i \in 1..3 : p[i] = b[n - 3 + i] /\ b[n - 3 + i] \in Byte
  BY PointBytes
<1> HIDE DEF p
<1>2. n - 3 + 1 = n - 2 /\ n - 3 + 2 = n - 1 /\ n - 3 + 3 = n
  OBVIOUS
<1>3. /\ Len(p) = 3 /\ p[1] = b[n - 2] /\ p[2] = b[n - 1] /\ p[3] = b[n]
      /\ b[n - 2] \in Byte /\ b[n - 1] \in Byte /\ b[n] \in Byte
  BY <1>1, <1>2
<1>4. IsCodePoint(p) <=> Second3(b[n - 2], b[n - 1]) /\ b[n] \in TrailByte
  BY <1>3, ThreePoint
<1> QED BY <1>4, Zenon DEF Point, p

\* ... of four
LEMMA Point4 ==
    ASSUME NEW b \in Seq(Byte), NEW n \in Nat, n <= Len(b), 4 <= n
    PROVE  Point(b, n, 4) <=> /\ Second4(b[n - 3], b[n - 2])
                              /\ b[n - 1] \in TrailByte /\ b[n] \in TrailByte
<1> DEFINE p == SubSeq(b, n - 4 + 1, n)
<1>1. 4 \in 1..4
  OBVIOUS
<1>2. Len(p) = 4 /\ \A i \in 1..4 : p[i] = b[n - 4 + i] /\ b[n - 4 + i] \in Byte
  BY <1>1, PointBytes
<1> HIDE DEF p
<1>3. n - 4 + 1 = n - 3 /\ n - 4 + 2 = n - 2 /\ n - 4 + 3 = n - 1 /\ n - 4 + 4 = n
  OBVIOUS
<1>4. /\ Len(p) = 4 /\ p[1] = b[n - 3] /\ p[2] = b[n - 2] /\ p[3] = b[n - 1]
      /\ p[4] = b[n] /\ b[n - 3] \in Byte /\ b[n - 2] \in Byte
      /\ b[n - 1] \in Byte /\ b[n] \in Byte
  BY <1>2, <1>3
<1>5. IsCodePoint(p) <=> /\ Second4(b[n - 3], b[n - 2])
                         /\ b[n - 1] \in TrailByte /\ b[n] \in TrailByte
  BY <1>4, FourPoint
<1> QED BY <1>5, Zenon DEF Point, p

\* What the recursion of IsText says of w at n
WholeAt(b, w, n) ==
    \/ n = 0
    \/ \E k \in 1..4 : /\ k <= n /\ w[n - k]
                       /\ IsCodePoint(SubSeq(b, n - k + 1, n))

\* The recursion has a solution.
LEMMA WholeExists ==
    ASSUME NEW b
    PROVE  \A m \in Nat : \E w : w = [n \in 0..m |-> WholeAt(b, w, n)]
<1> DEFINE IsWhole(m, w) == w = [n \in 0..m |-> WholeAt(b, w, n)]
           T == {m \in Nat : \E w : IsWhole(m, w)}
<1>1. 0 \in T
  <2> DEFINE w == [n \in 0..0 |-> TRUE]
  <2>1. \A v : WholeAt(b, v, 0) = TRUE
    BY Zenon DEF WholeAt
  <2>2. \A n \in 0..0 : n = 0
    OBVIOUS
  <2>3. w = [n \in 0..0 |-> WholeAt(b, w, n)]
    BY <2>1, <2>2, Zenon
  <2> QED BY <2>3
<1>2. ASSUME NEW m \in Nat, m \in T PROVE m + 1 \in T
  <2>1. PICK w : w = [n \in 0..m |-> WholeAt(b, w, n)]
    BY <1>2
  <2> DEFINE h == [n \in 0..(m + 1) |-> IF n <= m THEN w[n] ELSE WholeAt(b, w, m + 1)]
  <2>2. ASSUME NEW n \in 0..(m + 1) PROVE WholeAt(b, h, n) = WholeAt(b, w, n)
    <3>1. \A k \in 1..4 : k <= n => h[n - k] = w[n - k]
      OBVIOUS
    <3> HIDE DEF h
    <3> QED BY <3>1, Zenon DEF WholeAt
  <2>3. \A n \in 0..(m + 1) : h[n] = WholeAt(b, w, n)
    <3>1. SUFFICES ASSUME NEW n \in 0..(m + 1) PROVE h[n] = WholeAt(b, w, n)
      OBVIOUS
    <3>2. CASE n <= m
      <4>1. n \in 0..m
        BY <3>2
      <4>2. h[n] = w[n]
        BY <3>2
      <4> HIDE DEF h
      <4>3. w[n] = WholeAt(b, w, n)
        BY <2>1, <4>1, Zenon
      <4> QED BY <4>2, <4>3, Zenon
    <3>3. CASE n = m + 1
      <4>1. ~(n <= m)
        BY <3>3
      <4> QED BY <3>3, <4>1, Zenon
    <3>4. n <= m \/ n = m + 1
      OBVIOUS
    <3> QED BY <3>2, <3>3, <3>4, Zenon
  <2>4. h = [n \in 0..(m + 1) |-> h[n]]
    BY Zenon
  <2> HIDE DEF h
  <2>5. h = [n \in 0..(m + 1) |-> WholeAt(b, h, n)]
    BY <2>2, <2>3, <2>4, Zenon
  <2>6. m + 1 \in Nat
    OBVIOUS
  <2> QED BY <2>5, <2>6, Zenon
<1> HIDE DEF T
<1>3. \A m \in Nat : m \in T
  BY <1>1, <1>2, SetInduction
<1> QED BY <1>3 DEF T

\* Ends are where a part of whole code points may end.
Ends(b, E) ==
    /\ 0 \in E
    /\ \A n \in 1..Len(b) :
         n \in E <=> \E k \in 1..4 : k <= n /\ n - k \in E /\ Point(b, n, k)

\* A text is one that may end where it does.
LEMMA TextEnds ==
    ASSUME NEW b \in Seq(Byte)
    PROVE  \E E : Ends(b, E) /\ (IsText(b) <=> Len(b) \in E)
<1>1. PICK m \in Nat : m = Len(b)
  BY LenProperties
<1> DEFINE IsWhole(w) == w = [n \in 0..Len(b) |->
              \/ n = 0
              \/ \E k \in 1..4 : /\ k <= n /\ w[n - k]
                                 /\ IsCodePoint(SubSeq(b, n - k + 1, n))]
           whole == CHOOSE w : IsWhole(w)
           E == {n \in 0..m : whole[n]}
<1>2. \E w : IsWhole(w)
  <2>1. PICK w : w = [n \in 0..m |-> WholeAt(b, w, n)]
    BY WholeExists
  <2>2. IsWhole(w)
    BY <1>1, <2>1, Zenon DEF WholeAt
  <2> QED BY <2>2
<1>3. IsWhole(whole)
  BY <1>2, Zenon
<1>4. IsText(b) <=> whole[Len(b)]
  BY Zenon DEF IsText
<1>5. \A n \in 0..m : whole[n] = WholeAt(b, whole, n)
  BY <1>1, <1>3, Zenon DEF WholeAt
<1> HIDE DEF whole
<1>6. \A n \in 0..m : n \in E <=> WholeAt(b, whole, n)
  BY <1>5, Zenon
<1>7. 0 \in E
  <2>1. 0 \in 0..m
    OBVIOUS
  <2> QED BY <1>6, <2>1, Zenon DEF WholeAt
<1>8. ASSUME NEW n \in 1..m
      PROVE  n \in E <=> \E k \in 1..4 : k <= n /\ n - k \in E /\ Point(b, n, k)
  <2>1. n \in 0..m /\ n # 0
    OBVIOUS
  <2>2. \A k \in 1..4 : k <= n => n - k \in 0..m
    OBVIOUS
  <2>3. n \in E <=> \E k \in 1..4 : /\ k <= n /\ whole[n - k]
                                    /\ IsCodePoint(SubSeq(b, n - k + 1, n))
    BY <1>6, <2>1, Zenon DEF WholeAt
  <2> QED BY <2>2, <2>3, Zenon DEF Point
<1>9. IsText(b) <=> m \in E
  <2>1. m \in 0..m
    OBVIOUS
  <2> QED BY <1>1, <1>4, <2>1, Zenon
<1> HIDE DEF E
<1> QED BY <1>1, <1>7, <1>8, <1>9, Zenon DEF Ends

\* What a state of the validator after n bytes says of where code points end
Pending(b, E, s, n) ==
    /\ s = 0 => n \in E
    /\ s = 2 => \/ 1 <= n /\ n - 1 \in E /\ b[n] \in 194..223
                \/ 2 <= n /\ n - 2 \in E /\ Second3(b[n - 1], b[n])
                \/ /\ 3 <= n /\ n - 3 \in E /\ Second4(b[n - 2], b[n - 1])
                   /\ b[n] \in TrailByte
    /\ s = 3 => \/ 1 <= n /\ n - 1 \in E /\ b[n] \in 225..239 \ {237}
                \/ 2 <= n /\ n - 2 \in E /\ Second4(b[n - 1], b[n])
    /\ s = 4 => 1 <= n /\ n - 1 \in E /\ b[n] = 224
    /\ s = 5 => 1 <= n /\ n - 1 \in E /\ b[n] = 237
    /\ s = 6 => 1 <= n /\ n - 1 \in E /\ b[n] = 240
    /\ s = 7 => 1 <= n /\ n - 1 \in E /\ b[n] \in 241..243
    /\ s = 8 => 1 <= n /\ n - 1 \in E /\ b[n] = 244

\* The last code point before n is of one, two, three or four bytes.
Last1(b, E, n) == n - 1 \in E /\ b[n] \in 0..127
Last2(b, E, n) ==
    2 <= n /\ n - 2 \in E /\ b[n - 1] \in 194..223 /\ b[n] \in TrailByte
Last3(b, E, n) ==
    3 <= n /\ n - 3 \in E /\ Second3(b[n - 2], b[n - 1]) /\ b[n] \in TrailByte
Last4(b, E, n) ==
    /\ 4 <= n /\ n - 4 \in E /\ Second4(b[n - 3], b[n - 2])
    /\ b[n - 1] \in TrailByte /\ b[n] \in TrailByte

\* Where a code point ends
LEMMA EndsBy ==
    ASSUME NEW b \in Seq(Byte), NEW E, Ends(b, E), NEW n \in 1..Len(b)
    PROVE  n \in E <=> \/ Last1(b, E, n) \/ Last2(b, E, n)
                       \/ Last3(b, E, n) \/ Last4(b, E, n)
<1>1. n \in E <=> \E k \in 1..4 : k <= n /\ n - k \in E /\ Point(b, n, k)
  BY DEF Ends
<1>2. n \in Nat /\ n <= Len(b) /\ 1 <= n
  OBVIOUS
<1>3. Point(b, n, 1) <=> b[n] \in 0..127
  BY <1>2, Point1
<1>4. 2 <= n => (Point(b, n, 2) <=> b[n - 1] \in 194..223 /\ b[n] \in TrailByte)
  BY <1>2, Point2
<1>5. 3 <= n => (Point(b, n, 3) <=> /\ Second3(b[n - 2], b[n - 1])
                                    /\ b[n] \in TrailByte)
  BY <1>2, Point3
<1>6. 4 <= n => (Point(b, n, 4) <=> /\ Second4(b[n - 3], b[n - 2])
                                    /\ b[n - 1] \in TrailByte
                                    /\ b[n] \in TrailByte)
  BY <1>2, Point4
<1>7. n \in E <=> \/ n - 1 \in E /\ Point(b, n, 1)
                  \/ 2 <= n /\ n - 2 \in E /\ Point(b, n, 2)
                  \/ 3 <= n /\ n - 3 \in E /\ Point(b, n, 3)
                  \/ 4 <= n /\ n - 4 \in E /\ Point(b, n, 4)
  BY <1>1, <1>2
<1> QED BY <1>3, <1>4, <1>5, <1>6, <1>7, Zenon DEF Last1, Last2, Last3, Last4

\* Where the validator accepts, a code point ends.
LEMMA AcceptEnds ==
    ASSUME NEW b \in Seq(Byte), NEW E, Ends(b, E), NEW d, Decoding(0, b, d)
    PROVE  \A n \in 0..Len(b) : Pending(b, E, d[n], n)
<1>1. PICK m \in Nat : m = Len(b)
  BY LenProperties
<1> DEFINE T == {n \in Nat : n <= m => Pending(b, E, d[n], n)}
<1>2. 0 \in T
  BY DEF Decoding, Ends, Pending
<1>3. ASSUME NEW l \in Nat, l \in T PROVE l + 1 \in T
  <2>1. SUFFICES ASSUME l + 1 <= m PROVE Pending(b, E, d[l + 1], l + 1)
    OBVIOUS
  <2>2. PICK n \in 1..m : n = l + 1 /\ n - 1 = l
    BY <2>1
  <2>3. Pending(b, E, d[l], l)
    BY <1>3, <2>1
  <2>4. PICK x \in Byte : x = b[n]
    BY <1>1, ElementOfSeq
  <2>5. PICK s \in Utf8State : s = d[l]
    BY <1>1, <2>2 DEF Decoding
  <2>6. d[n] = Step(s, x)
    BY <1>1, <2>2, <2>4, <2>5 DEF Decoding
  <2> HIDE DEF T
  <2>7. /\ 1 <= n /\ n \in Nat /\ l - 1 = n - 2 /\ l - 2 = n - 3 /\ l - 3 = n - 4
        /\ (1 <= l => 2 <= n) /\ (2 <= l => 3 <= n) /\ (3 <= l => 4 <= n)
    BY <2>2
  <2>8. CASE s = 0
    <3>1. l \in E
      BY <2>3, <2>5, <2>8 DEF Pending
    <3>2. n - 1 \in E /\ 1 <= n /\ n - 1 = l
      BY <2>2, <3>1
    <3>3. d[n] = Step(0, x)
      BY <2>6, <2>8
    <3>4. x \in 0..127 => Last1(b, E, n)
      BY <2>2, <2>4, <3>1 DEF Last1
    <3>5. x \in 0..127 => n \in E
      BY <1>1, <2>2, <3>4, EndsBy
    <3>6. CASE Step(0, x) = 0
      <4>1. x \in 0..127
        BY <3>6, FromAccept
      <4> QED BY <2>2, <2>4, <3>2, <3>3, <3>6, <3>5, <4>1 DEF Pending
    <3>7. CASE Step(0, x) = 2
      <4>1. x \in 194..223
        BY <3>7, FromAccept
      <4> QED BY <2>2, <2>4, <3>2, <3>3, <3>7, <4>1 DEF Pending
    <3>8. CASE Step(0, x) = 3
      <4>1. x \in 225..239 \ {237}
        BY <3>8, FromAccept
      <4> QED BY <2>2, <2>4, <3>2, <3>3, <3>8, <4>1 DEF Pending
    <3>9. CASE Step(0, x) = 4
      <4>1. x = 224
        BY <3>9, FromAccept
      <4> QED BY <2>2, <2>4, <3>2, <3>3, <3>9, <4>1 DEF Pending
    <3>10. CASE Step(0, x) = 5
      <4>1. x = 237
        BY <3>10, FromAccept
      <4> QED BY <2>2, <2>4, <3>2, <3>3, <3>10, <4>1 DEF Pending
    <3>11. CASE Step(0, x) = 6
      <4>1. x = 240
        BY <3>11, FromAccept
      <4> QED BY <2>2, <2>4, <3>2, <3>3, <3>11, <4>1 DEF Pending
    <3>12. CASE Step(0, x) = 7
      <4>1. x \in 241..243
        BY <3>12, FromAccept
      <4> QED BY <2>2, <2>4, <3>2, <3>3, <3>12, <4>1 DEF Pending
    <3>13. CASE Step(0, x) = 8
      <4>1. x = 244
        BY <3>13, FromAccept
      <4> QED BY <2>2, <2>4, <3>2, <3>3, <3>13, <4>1 DEF Pending
    <3>14. CASE Step(0, x) = 1
      BY <2>2, <3>3, <3>14 DEF Pending
    <3>15. Step(0, x) \in Utf8State
      BY <2>5, <2>8, FromOthers
    <3> QED BY <3>6, <3>7, <3>8, <3>9, <3>10, <3>11, <3>12, <3>13, <3>14, <3>15 DEF Utf8State
  <2>9. CASE s = 1
    BY <2>2, <2>6, <2>9, FromOthers DEF Pending
  <2>10. CASE s = 2
    <3>1. Step(2, x) = IF x \in TrailByte THEN 0 ELSE 1
      BY FromOthers
    <3>2. x \in TrailByte => n \in E
      <4>1. \/ 1 <= l /\ l - 1 \in E /\ b[l] \in 194..223
            \/ 2 <= l /\ l - 2 \in E /\ Second3(b[l - 1], b[l])
            \/ /\ 3 <= l /\ l - 3 \in E /\ Second4(b[l - 2], b[l - 1])
               /\ b[l] \in TrailByte
        BY <2>3, <2>5, <2>10 DEF Pending
      <4>2. CASE 1 <= l /\ l - 1 \in E /\ b[l] \in 194..223
        <5>1. x \in TrailByte => Last2(b, E, n)
          BY <2>2, <2>4, <2>7, <4>2 DEF Last2
        <5> QED BY <1>1, <2>2, <5>1, EndsBy
      <4>3. CASE 2 <= l /\ l - 2 \in E /\ Second3(b[l - 1], b[l])
        <5>1. x \in TrailByte => Last3(b, E, n)
          BY <2>2, <2>4, <2>7, <4>3 DEF Last3
        <5> QED BY <1>1, <2>2, <5>1, EndsBy
      <4>4. CASE /\ 3 <= l /\ l - 3 \in E /\ Second4(b[l - 2], b[l - 1])
                 /\ b[l] \in TrailByte
        <5>1. x \in TrailByte => Last4(b, E, n)
          BY <2>2, <2>4, <2>7, <4>4 DEF Last4
        <5> QED BY <1>1, <2>2, <5>1, EndsBy
      <4> QED BY <4>1, <4>2, <4>3, <4>4
    <3> QED BY <2>2, <2>6, <2>10, <3>1, <3>2 DEF Pending
  <2>11. CASE s = 3
    <3>1. Step(3, x) = IF x \in TrailByte THEN 2 ELSE 1
      BY FromOthers
    <3>2. \/ 1 <= l /\ l - 1 \in E /\ b[l] \in 225..239 \ {237}
          \/ 2 <= l /\ l - 2 \in E /\ Second4(b[l - 1], b[l])
      BY <2>3, <2>5, <2>11 DEF Pending
    <3>3. CASE 1 <= l /\ l - 1 \in E /\ b[l] \in 225..239 \ {237}
      <4>1. x \in TrailByte => Second3(b[n - 1], b[n])
        BY <2>2, <2>4, <3>3 DEF Second3
      <4> QED BY <2>2, <2>6, <2>7, <2>11, <3>1, <3>3, <4>1 DEF Pending
    <3>4. CASE 2 <= l /\ l - 2 \in E /\ Second4(b[l - 1], b[l])
      <4>1. x \in TrailByte =>
              3 <= n /\ n - 3 \in E /\ Second4(b[n - 2], b[n - 1])
                /\ b[n] \in TrailByte
        BY <2>2, <2>4, <2>7, <3>4
      <4> QED BY <2>2, <2>6, <2>11, <3>1, <4>1 DEF Pending
    <3> QED BY <3>2, <3>3, <3>4
  <2>12. CASE s \in {4, 5}
    <3>1. /\ Step(4, x) = IF x \in 160..191 THEN 2 ELSE 1
          /\ Step(5, x) = IF x \in 128..159 THEN 2 ELSE 1
      BY FromOthers
    <3>2. 1 <= l /\ l - 1 \in E /\ (s = 4 => b[l] = 224) /\ (s = 5 => b[l] = 237)
      BY <2>3, <2>5, <2>12 DEF Pending
    <3>3. \/ Step(s, x) = 2 /\ Second3(b[n - 1], b[n])
          \/ Step(s, x) = 1
      BY <2>2, <2>4, <2>12, <3>1, <3>2 DEF Second3
    <3> QED BY <2>2, <2>6, <2>7, <3>2, <3>3 DEF Pending
  <2>13. CASE s \in {6, 7, 8}
    <3>1. /\ Step(6, x) = IF x \in 144..191 THEN 3 ELSE 1
          /\ Step(7, x) = IF x \in TrailByte THEN 3 ELSE 1
          /\ Step(8, x) = IF x \in 128..143 THEN 3 ELSE 1
      BY FromOthers
    <3>2. /\ 1 <= l /\ l - 1 \in E /\ (s = 6 => b[l] = 240)
          /\ (s = 7 => b[l] \in 241..243) /\ (s = 8 => b[l] = 244)
      BY <2>3, <2>5, <2>13 DEF Pending
    <3>3. \/ Step(s, x) = 3 /\ Second4(b[n - 1], b[n])
          \/ Step(s, x) = 1
      BY <2>2, <2>4, <2>13, <3>1, <3>2 DEF Second4
    <3> QED BY <2>2, <2>6, <2>7, <3>2, <3>3 DEF Pending
  <2> QED BY <2>8, <2>9, <2>10, <2>11, <2>12, <2>13 DEF Utf8State
<1> HIDE DEF T
<1>4. \A n \in Nat : n \in T
  BY <1>2, <1>3, SetInduction
<1> QED BY <1>1, <1>4 DEF T

\* The state that two bytes of three lead to
LEMMA TwoOfThree ==
    ASSUME NEW x \in Byte, NEW y \in Byte, Second3(x, y)
    PROVE  Step(Step(0, x), y) = 2
<1>1. CASE x = 224 /\ y \in 160..191
  <2>1. Step(0, x) = 4
    BY <1>1, FromAccept
  <2> QED BY <1>1, <2>1, FromOthers
<1>2. CASE x \in 225..239 \ {237} /\ y \in TrailByte
  <2>1. Step(0, x) = 3
    BY <1>2, FromAccept
  <2> QED BY <1>2, <2>1, FromOthers
<1>3. CASE x = 237 /\ y \in 128..159
  <2>1. Step(0, x) = 5
    BY <1>3, FromAccept
  <2> QED BY <1>3, <2>1, FromOthers
<1> QED BY <1>1, <1>2, <1>3 DEF Second3

\* ... of four
LEMMA TwoOfFour ==
    ASSUME NEW x \in Byte, NEW y \in Byte, Second4(x, y)
    PROVE  Step(Step(0, x), y) = 3
<1>1. CASE x = 240 /\ y \in 144..191
  <2>1. Step(0, x) = 6
    BY <1>1, FromAccept
  <2> QED BY <1>1, <2>1, FromOthers
<1>2. CASE x \in 241..243 /\ y \in TrailByte
  <2>1. Step(0, x) = 7
    BY <1>2, FromAccept
  <2> QED BY <1>2, <2>1, FromOthers
<1>3. CASE x = 244 /\ y \in 128..143
  <2>1. Step(0, x) = 8
    BY <1>3, FromAccept
  <2> QED BY <1>3, <2>1, FromOthers
<1> QED BY <1>1, <1>2, <1>3 DEF Second4

\* Where code points end, the validator accepts.
LEMMA EndAccepts ==
    ASSUME NEW b \in Seq(Byte), NEW E, Ends(b, E), NEW d, Decoding(0, b, d)
    PROVE  \A n \in 0..Len(b) : n \in E => d[n] = 0
<1>1. PICK m \in Nat : m = Len(b)
  BY LenProperties
<1> DEFINE T == {n \in Nat : \A i \in 0..m : i <= n /\ i \in E => d[i] = 0}
<1>2. 0 \in T
  BY DEF Decoding
<1>3. ASSUME NEW l \in Nat, l \in T PROVE l + 1 \in T
  <2>1. SUFFICES ASSUME l + 1 <= m, l + 1 \in E PROVE d[l + 1] = 0
    <3>1. \A i \in 0..m : i <= l + 1 => i <= l \/ i = l + 1
      OBVIOUS
    <3>2. \A i \in 0..m : i <= l /\ i \in E => d[i] = 0
      BY <1>3
    <3> QED BY <3>1, <3>2
  <2>2. PICK n \in 1..m : n = l + 1 /\ n - 1 = l
    BY <2>1
  <2>3. \A i \in 0..l : i \in E => d[i] = 0
    BY <1>3, <2>2
  <2> HIDE DEF T
  <2>4. \A i \in 1..n : d[i] = Step(d[i - 1], b[i]) /\ b[i] \in Byte
    BY <1>1, <2>2, ElementOfSeq DEF Decoding
  <2>5. \/ Last1(b, E, n) \/ Last2(b, E, n) \/ Last3(b, E, n) \/ Last4(b, E, n)
    BY <1>1, <2>1, <2>2, EndsBy
  <2>6. d[n] = Step(d[n - 1], b[n]) /\ b[n] \in Byte
    BY <2>4
  <2>7. 2 <= n => d[n - 1] = Step(d[n - 2], b[n - 1]) /\ b[n - 1] \in Byte
    BY <2>4
  <2>8. 3 <= n => d[n - 2] = Step(d[n - 3], b[n - 2]) /\ b[n - 2] \in Byte
    BY <2>4
  <2>9. 4 <= n => d[n - 3] = Step(d[n - 4], b[n - 3]) /\ b[n - 3] \in Byte
    BY <2>4
  <2>10. CASE Last1(b, E, n)
    <3>1. d[n - 1] = 0
      BY <2>2, <2>3, <2>10 DEF Last1
    <3>2. b[n] \in 0..127
      BY <2>10 DEF Last1
    <3> QED BY <2>2, <2>6, <3>1, <3>2, FromAccept
  <2>11. CASE Last2(b, E, n)
    <3>1. d[n - 2] = 0
      BY <2>2, <2>3, <2>11 DEF Last2
    <3>2. b[n - 1] \in 194..223 /\ 2 <= n
      BY <2>11 DEF Last2
    <3>3. d[n - 1] = 2
      BY <2>7, <3>1, <3>2, FromAccept
    <3> QED BY <2>2, <2>6, <2>11, <3>3, FromOthers DEF Last2
  <2>12. CASE Last3(b, E, n)
    <3>1. d[n - 3] = 0
      BY <2>2, <2>3, <2>12 DEF Last3
    <3>2. 3 <= n /\ Second3(b[n - 2], b[n - 1])
      BY <2>12 DEF Last3
    <3>3. d[n - 1] = 2
      BY <2>7, <2>8, <3>1, <3>2, TwoOfThree
    <3> QED BY <2>2, <2>6, <2>12, <3>3, FromOthers DEF Last3
  <2>13. CASE Last4(b, E, n)
    <3>1. d[n - 4] = 0
      BY <2>2, <2>3, <2>13 DEF Last4
    <3>2. 4 <= n /\ Second4(b[n - 3], b[n - 2])
      BY <2>13 DEF Last4
    <3>3. d[n - 2] = 3
      BY <2>8, <2>9, <3>1, <3>2, TwoOfFour
    <3>4. d[n - 1] = 2
      BY <2>7, <2>13, <3>2, <3>3, FromOthers DEF Last4
    <3> QED BY <2>2, <2>6, <2>13, <3>4, FromOthers DEF Last4
  <2> QED BY <2>5, <2>10, <2>11, <2>12, <2>13
<1> HIDE DEF T
<1>4. \A n \in Nat : n \in T
  BY <1>2, <1>3, SetInduction
<1> QED BY <1>1, <1>4 DEF T

\* The validator accepts exactly the texts that are UTF-8.
THEOREM AcceptsText ==
    ASSUME NEW b \in Seq(Byte)
    PROVE  Decode(utf8_accept, b) = utf8_accept <=> IsText(b)
<1>1. PICK E : Ends(b, E) /\ (IsText(b) <=> Len(b) \in E)
  BY TextEnds
<1>2. PICK d : Decoding(0, b, d) /\ Decode(0, b) = d[Len(b)]
  BY DecodeIsRun DEF Utf8State
<1>3. Len(b) \in 0..Len(b)
  BY LenProperties
<1>4. d[Len(b)] = 0 => Len(b) \in E
  BY <1>1, <1>2, <1>3, AcceptEnds DEF Pending
<1>5. Len(b) \in E => d[Len(b)] = 0
  BY <1>1, <1>2, <1>3, EndAccepts
<1> QED BY <1>1, <1>2, <1>4, <1>5, Zenon DEF utf8_accept

\* No byte leads out of the rejecting state.
LEMMA RejectStays ==
    ASSUME NEW b \in Seq(Byte)
    PROVE  Decode(utf8_reject, b) = utf8_reject
<1>1. PICK d : Decoding(1, b, d) /\ Decode(1, b) = d[Len(b)]
  BY DecodeIsRun DEF Utf8State
<1>2. PICK m \in Nat : m = Len(b)
  BY LenProperties
<1>3. \A i \in 1..m : d[i - 1] \in {1} => d[i] \in {1}
  <2>1. SUFFICES ASSUME NEW i \in 1..m, d[i - 1] = 1 PROVE d[i] = 1
    OBVIOUS
  <2>2. b[i] \in Byte
    BY <1>2, ElementOfSeq
  <2>3. d[i] = Step(1, b[i])
    BY <1>1, <1>2, <2>1 DEF Decoding
  <2> QED BY <2>2, <2>3, FromOthers
<1>4. d[0] \in {1}
  BY <1>1 DEF Decoding
<1>5. \A i \in 0..m : d[i] \in {1}
  BY <1>3, <1>4, StaysIn
<1>6. d[m] = 1
  BY <1>5
<1> QED BY <1>1, <1>2, <1>6 DEF utf8_reject

\* Last1 to three bytes more lead to acceptance from every state but that one.
LEMMA OneMore ==
    ASSUME NEW s \in Utf8State, NEW x \in Byte
    PROVE  Decode(s, <<x>>) = Step(s, x)
<1>1. <<x>> = Append(<<>>, x) /\ <<>> \in Seq(Byte)
  OBVIOUS
<1>2. Decode(s, <<>>) = s
  BY DecodeNone
<1> QED BY <1>1, <1>2, DecodeAppend

\* One to three bytes more lead to acceptance from every state but that one.
LEMMA Completed ==
    ASSUME NEW s \in Utf8State, s # utf8_reject
    PROVE  \E rest \in Completions : rest \in Seq(Byte) /\ Decode(s, rest) = 0
<1> DEFINE Rests(n) == [1..n -> {128, 191}]
           Goal == \E rest \in Completions :
                     rest \in Seq(Byte) /\ Decode(s, rest) = 0
<1>1. \A n \in 0..3 : \A rest \in Rests(n) :
        rest \in Seq(Byte) /\ Decode(s, rest) = 0 => Goal
  <2>1. \A n \in 0..3 : \A rest \in Rests(n) : rest \in Completions
    BY DEF Completions
  <2> HIDE DEF Rests
  <2> QED BY <2>1, Zenon
<1>2. 128 \in Byte /\ 191 \in Byte
  BY DEF Byte
<1>3. CASE s = 0
  <2>1. <<>> \in Rests(0)
    OBVIOUS
  <2>2. <<>> \in Seq(Byte) /\ Decode(s, <<>>) = 0 /\ 0 \in 0..3
    BY <1>3, DecodeNone, EmptySeq
  <2> HIDE DEF Rests, Goal
  <2>3. Goal
    BY <1>1, <2>1, <2>2, Zenon
  <2> QED BY <2>3 DEF Goal
<1>4. \A x \in {128, 191} : Step(2, x) = 0 /\ Step(3, x) = 2 /\ Step(7, x) = 3
  BY <1>2, FromOthers DEF TrailByte
<1>5. Step(4, 191) = 2 /\ Step(5, 128) = 2 /\ Step(6, 191) = 3 /\ Step(8, 128) = 3
  <2>1. 191 \in 160..191 /\ 128 \in 128..159 /\ 191 \in 144..191 /\ 128 \in 128..143
    OBVIOUS
  <2> QED BY <1>2, <2>1, FromOthers
<1>6. CASE s = 2
  <2>1. <<128>> \in Rests(1) /\ <<128>> \in Seq(Byte)
    BY <1>2
  <2>2. Decode(2, <<128>>) = 0
    BY <1>2, <1>4, OneMore DEF Utf8State
  <2>3. 1 \in 0..3
    OBVIOUS
  <2> HIDE DEF Rests, Goal
  <2>4. Goal
    BY <1>1, <1>6, <2>1, <2>2, <2>3
  <2> QED BY <2>4 DEF Goal
<1>7. \A t \in Utf8State, x, y \in {128, 191} : Step(t, x) = 2 => 
        <<x, y>> \in Rests(2) /\ <<x, y>> \in Seq(Byte) /\ Decode(t, <<x, y>>) = 0
  <2>1. SUFFICES ASSUME NEW t \in Utf8State, NEW x \in {128, 191}, NEW y \in {128, 191},
                        Step(t, x) = 2
                 PROVE  <<x, y>> \in Rests(2) /\ <<x, y>> \in Seq(Byte)
                        /\ Decode(t, <<x, y>>) = 0
    OBVIOUS
  <2>2. <<x, y>> = Append(<<x>>, y) /\ <<x>> \in Seq(Byte) /\ y \in Byte
    BY <1>2
  <2>3. Decode(t, <<x>>) = 2
    BY <1>2, <2>1, OneMore
  <2>4. Decode(t, Append(<<x>>, y)) = Step(2, y)
    <3>1. PICK one \in Seq(Byte) : one = <<x>>
      BY <2>2
    <3>2. Decode(t, Append(one, y)) = Step(Decode(t, one), y)
      BY <2>2, DecodeAppend
    <3> QED BY <2>3, <3>1, <3>2, Zenon
  <2>5. <<x, y>> \in Rests(2) /\ <<x, y>> \in Seq(Byte)
    BY <1>2
  <2> QED BY <1>4, <2>2, <2>4, <2>5
<1>8. \A t \in Utf8State, x \in {128, 191} : Step(t, x) = 3 => 
        /\ <<x, 128, 128>> \in Rests(3) /\ <<x, 128, 128>> \in Seq(Byte)
        /\ Decode(t, <<x, 128, 128>>) = 0
  <2>1. SUFFICES ASSUME NEW t \in Utf8State, NEW x \in {128, 191}, Step(t, x) = 3
                 PROVE  /\ <<x, 128, 128>> \in Rests(3)
                        /\ <<x, 128, 128>> \in Seq(Byte)
                        /\ Decode(t, <<x, 128, 128>>) = 0
    OBVIOUS
  <2>2. <<x, 128, 128>> = <<x>> \o <<128, 128>> /\ <<x>> \in Seq(Byte)
    BY <1>2
  <2>3. Decode(t, <<x>>) = 3
    BY <1>2, <2>1, OneMore
  <2>4. <<128, 128>> \in Seq(Byte) /\ Decode(3, <<128, 128>>) = 0
    BY <1>4, <1>7 DEF Utf8State
  <2>7. PICK one \in Seq(Byte), two \in Seq(Byte) : one = <<x>> /\ two = <<128, 128>>
    BY <2>2, <2>4
  <2>8. Decode(t, one \o two) = Decode(Decode(t, one), two)
    BY DecodeConcat
  <2>5. Decode(t, <<x>> \o <<128, 128>>) = 0
    BY <2>3, <2>4, <2>7, <2>8, Zenon
  <2>6. <<x, 128, 128>> \in Rests(3) /\ <<x, 128, 128>> \in Seq(Byte)
    BY <1>2
  <2> QED BY <2>2, <2>5, <2>6
<1>9. CASE s \in {3, 4, 5}
  <2>1. \E x \in {128, 191} : Step(s, x) = 2
    BY <1>4, <1>5, <1>9
  <2>2. 2 \in 0..3 /\ 128 \in {128, 191}
    OBVIOUS
  <2> HIDE DEF Rests, Goal
  <2>3. Goal
    <3>1. PICK x \in {128, 191} : Step(s, x) = 2
      BY <2>1
    <3>2. <<x, 128>> \in Rests(2) /\ <<x, 128>> \in Seq(Byte)
          /\ Decode(s, <<x, 128>>) = 0
      BY <1>7, <2>2, <3>1
    <3>3. PICK rest : rest \in Rests(2) /\ rest \in Seq(Byte) /\ Decode(s, rest) = 0
      BY <3>2
    <3> QED BY <1>1, <2>2, <3>3
  <2> QED BY <2>3 DEF Goal
<1>10. CASE s \in {6, 7, 8}
  <2>1. \E x \in {128, 191} : Step(s, x) = 3
    BY <1>4, <1>5, <1>10
  <2>2. 3 \in 0..3
    OBVIOUS
  <2> HIDE DEF Rests, Goal
  <2>3. Goal
    <3>1. PICK x \in {128, 191} : Step(s, x) = 3
      BY <2>1
    <3>2. <<x, 128, 128>> \in Rests(3) /\ <<x, 128, 128>> \in Seq(Byte)
          /\ Decode(s, <<x, 128, 128>>) = 0
      BY <1>8, <3>1
    <3>3. PICK rest : rest \in Rests(3) /\ rest \in Seq(Byte) /\ Decode(s, rest) = 0
      BY <3>2
    <3> QED BY <1>1, <2>2, <3>3
  <2> QED BY <2>3 DEF Goal
<1> QED BY <1>3, <1>6, <1>9, <1>10 DEF Utf8State, utf8_reject

\* The validator gives up exactly where no text begins like that.
THEOREM RejectsNoBeginning ==
    ASSUME NEW b \in Seq(Byte)
    PROVE  Decode(utf8_accept, b) = utf8_reject <=> ~BeginsText(b)
<1>1. 0 \in Utf8State /\ 1 \in Utf8State /\ utf8_accept = 0 /\ utf8_reject = 1
  BY DEF Utf8State, utf8_accept, utf8_reject
<1>2. PICK s \in Utf8State : s = Decode(0, b)
  BY <1>1, DecodeIn
<1>3. Completions \subseteq Seq(Byte)
  <2>1. SUFFICES ASSUME NEW n \in 0..3, NEW rest \in [1..n -> {128, 191}]
                 PROVE  rest \in Seq(Byte)
    BY DEF Completions
  <2>2. 128 \in Byte /\ 191 \in Byte
    BY DEF Byte
  <2>3. rest \in [1..n -> Byte]
    BY <2>2
  <2> QED BY <2>3, SeqDef
<1>4. \A rest \in Completions :
        Decode(0, b \o rest) = Decode(s, rest) /\ b \o rest \in Seq(Byte)
  BY <1>1, <1>2, <1>3, DecodeConcat, ConcatProperties
<1>5. \A rest \in Completions : IsText(b \o rest) <=> Decode(s, rest) = 0
  <2>1. SUFFICES ASSUME NEW rest \in Completions
                 PROVE  IsText(b \o rest) <=> Decode(s, rest) = 0
    OBVIOUS
  <2>2. PICK t \in Seq(Byte) : t = b \o rest /\ Decode(0, t) = Decode(s, rest)
    BY <1>4
  <2>3. Decode(0, t) = 0 <=> IsText(t)
    BY <1>1, AcceptsText
  <2> QED BY <2>2, <2>3, Zenon
<1>6. BeginsText(b) <=> \E rest \in Completions : Decode(s, rest) = 0
  BY <1>5, Zenon DEF BeginsText
<1>7. CASE s = 1
  <2>1. \A rest \in Completions : Decode(1, rest) = 1
    BY <1>1, <1>3, RejectStays
  <2> QED BY <1>1, <1>2, <1>6, <1>7, <2>1
<1>8. CASE s # 1
  <2>1. \E rest \in Completions : Decode(s, rest) = 0
    BY <1>1, <1>8, Completed
  <2> QED BY <1>1, <1>2, <1>6, <1>8, <2>1
<1> QED BY <1>7, <1>8
==============================================================================
