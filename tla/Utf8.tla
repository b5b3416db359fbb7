--------------------------------- MODULE Utf8 ---------------------------------
(***************************************************************************)
(* The streaming UTF-8 validator of websocketpp (utf8_validator.hpp), and  *)
(* what UTF-8 is, written without it.                                      *)
(***************************************************************************)
EXTENDS Integers, Sequences

(***************************************************************************)
(* The validator: the tables of utf8d, by byte class and by state          *)
(***************************************************************************)
utf8_accept == 0
utf8_reject == 1

Class(byte) ==
    CASE byte \in 0..127                  -> 0
      [] byte \in 128..143                -> 1
      [] byte \in 144..159                -> 9
      [] byte \in 160..191                -> 7
      [] byte \in {192, 193} \cup 245..255 -> 8
      [] byte \in 194..223                -> 2
      [] byte = 224                       -> 10
      [] byte = 237                       -> 4
      [] byte \in 225..239 \ {237}        -> 3
      [] byte = 240                       -> 11
      [] byte \in 241..243                -> 6
      [] byte = 244                       -> 5

\* Mutant of Step: the second byte of a three-byte form is not limited.
StepOverlong(state, byte) ==
    LET c == Class(byte) IN
    CASE state = 0 /\ c < 12 -> <<0, 1, 2, 3, 5, 8, 7, 1, 1, 1, 4, 6>>[c + 1]
      [] state = 2 /\ c \in {1, 7, 9}          -> 0
      [] state \in {3, 4, 5} /\ c \in {1, 7, 9} -> 2
      [] state \in {6, 7, 8} /\ c \in {1, 7, 9} -> 3
      [] OTHER                                 -> utf8_reject

\* decode(state, codepoint, byte): the code point is computed for nobody.
Step(state, byte) ==
    LET c == Class(byte) IN
    CASE state = 0 /\ c < 12 -> <<0, 1, 2, 3, 5, 8, 7, 1, 1, 1, 4, 6>>[c + 1]
      [] state = 2 /\ c \in {1, 7, 9} -> 0
      [] state = 3 /\ c \in {1, 7, 9} -> 2
      [] state = 4 /\ c = 7           -> 2
      [] state = 5 /\ c \in {1, 9}    -> 2
      [] state = 6 /\ c \in {7, 9}    -> 3
      [] state = 7 /\ c \in {1, 7, 9} -> 3
      [] state = 8 /\ c = 1           -> 3
      [] OTHER                        -> utf8_reject

\* validator::decode, whose loop ends early at utf8_reject: no byte leads out
\* of that state.
Decode(state, bytes) ==
    LET decoded[n \in 0..Len(bytes)] ==
          IF n = 0 THEN state ELSE Step(decoded[n - 1], bytes[n])
    IN  decoded[Len(bytes)]

(***************************************************************************)
(* The reference: code points and their encodings                          *)
(***************************************************************************)
Trail(bytes) == \A i \in 2..Len(bytes) : bytes[i] \in 128..191

\* The code points that two, three and four bytes spell
Value2(x, y) == 64 * (x - 192) + y - 128
Value3(x, y, z) == 4096 * (x - 224) + 64 * (y - 128) + z - 128
Value4(x, y, z, u) ==
    262144 * (x - 240) + 4096 * (y - 128) + 64 * (z - 128) + u - 128

Surrogate(point) == 55296 <= point /\ point <= 57343

\* One code point in its shortest form.
IsCodePoint(bytes) ==
    /\ Trail(bytes)
    /\ \/ Len(bytes) = 1 /\ bytes[1] \in 0..127
       \/ /\ Len(bytes) = 2 /\ bytes[1] \in 192..223
          /\ 128 <= Value2(bytes[1], bytes[2])
       \/ /\ Len(bytes) = 3 /\ bytes[1] \in 224..239
          /\ LET point == Value3(bytes[1], bytes[2], bytes[3])
             IN  2048 <= point /\ ~Surrogate(point)
       \/ /\ Len(bytes) = 4 /\ bytes[1] \in 240..247
          /\ LET point == Value4(bytes[1], bytes[2], bytes[3], bytes[4])
             IN  65536 <= point /\ point <= 1114111

\* The text is a sequence of whole code points.
IsText(bytes) ==
    LET whole[n \in 0..Len(bytes)] ==
          \/ n = 0
          \/ \E k \in 1..4 :
               /\ k <= n /\ whole[n - k]
               /\ IsCodePoint(SubSeq(bytes, n - k + 1, n))
    IN  whole[Len(bytes)]

\* Some bytes would make a text of it: of those that may follow a byte, one of
\* these always does.
Completions == UNION {[1..n -> {128, 191}] : n \in 0..3}
BeginsText(bytes) == \E rest \in Completions : IsText(bytes \o rest)
===============================================================================
