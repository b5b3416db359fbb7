-------------------------------- MODULE Base64 --------------------------------
(***************************************************************************)
(* base64_encode and base64_decode of websocketpp, over bytes and          *)
(* characters as numbers.  A client writes its key of 16 bytes with the    *)
(* first, and with it the SHA-1 digest of 20 bytes that the server has to  *)
(* answer with (process_handshake_key).  The loops go over groups of three *)
(* bytes and of four characters: a byte or a character is given by its     *)
(* group and its place there.                                              *)
(***************************************************************************)
EXTENDS Integers, Sequences

base64_chars ==
    [v \in 0..63 |-> CASE v \in 0..25  -> 65 + v
                       [] v \in 26..51 -> 97 + v - 26
                       [] v \in 52..61 -> 48 + v - 52
                       [] v = 62       -> 43
                       [] v = 63       -> 47]

Padding == 61

is_base64(c) == c = 43 \/ c \in 47..57 \/ c \in 65..90 \/ c \in 97..122

\* base64_chars.find, as an unsigned char: 255 where it finds nothing.
find(c) ==
    IF \E v \in 0..63 : base64_chars[v] = c
    THEN CHOOSE v \in 0..63 : base64_chars[v] = c ELSE 255

At(s, i) == IF i <= Len(s) THEN s[i] ELSE 0

\* char_array_4[d] of three bytes
Sextet(b0, b1, b2, d) ==
    CASE d = 0 -> b0 \div 4
      [] d = 1 -> (b0 % 4) * 16 + b1 \div 16
      [] d = 2 -> (b1 % 16) * 4 + b2 \div 64
      [] d = 3 -> b2 % 64

\* Of a last group of one or two bytes there are two or three characters.
base64_encode(bytes) ==
    [i \in 1..(4 * ((Len(bytes) + 2) \div 3)) |->
       LET g == 3 * ((i - 1) \div 4)
           d == (i - 1) % 4
       IN  IF g + d <= Len(bytes)
           THEN base64_chars[Sextet(At(bytes, g + 1), At(bytes, g + 2),
                                    At(bytes, g + 3), d)]
           ELSE Padding]

\* char_array_3[e] of four characters
Octet(d0, d1, d2, d3, e) ==
    (CASE e = 0 -> d0 * 4 + ((d1 \div 16) % 4)
       [] e = 1 -> (d1 % 16) * 16 + ((d2 \div 4) % 16)
       [] e = 2 -> (d2 % 4) * 64 + d3) % 256

\* How many characters there are before the first that is none of base64_chars.
Digits(text) ==
    CHOOSE m \in 0..Len(text) :
        /\ \A i \in 1..m : is_base64(text[i])
        /\ m < Len(text) => ~is_base64(text[m + 1])

base64_decode(text) ==
    LET m == Digits(text)
        left == m % 4
        digit(i) == find(IF i <= m THEN text[i] ELSE 0)
    IN  [j \in 1..(3 * (m \div 4) + (IF left = 0 THEN 0 ELSE left - 1)) |->
           LET g == 4 * ((j - 1) \div 3)
           IN  Octet(digit(g + 1), digit(g + 2), digit(g + 3), digit(g + 4),
                     (j - 1) % 3)]
===============================================================================
