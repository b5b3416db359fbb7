-------------------------------- MODULE Frame ---------------------------------
(***************************************************************************)
(* The header of a WebSocket frame as bytes (frame.hpp): what              *)
(* prepare_header writes and what the accessors read.                      *)
(***************************************************************************)
EXTENDS Integers, Sequences

CONSTANTS
    BasicLimit,     \* limits::payload_size_basic: 125
    Code16,         \* payload_size_code_16bit: 126
    Code64,         \* payload_size_code_64bit: 127
    ExtendedLimit   \* limits::payload_size_extended: 65535

ASSUME FrameAssumption ==
    /\ {BasicLimit, Code16, Code64, ExtendedLimit} \subseteq Nat
    /\ Code16 = BasicLimit + 1 /\ Code64 = BasicLimit + 2 /\ Code64 < 128
    /\ BasicLimit <= ExtendedLimit /\ ExtendedLimit < 65536

Byte == 0..255

CONTINUATION == 0
TEXT == 1
BINARY == 2
CLOSE == 8
PING == 9
PONG == 10
is_control(op) == op >= 8
reserved(op) == op \in 3..7 \cup 11..15

\* The basic header: fin, three reserved bits and the opcode, then the mask
\* bit and the size or the code of its width
get_fin(b0) == b0 \div 128 = 1
get_rsv(b0) == (b0 \div 16) % 8
get_opcode(b0) == b0 % 16
get_masked(b1) == b1 \div 128 = 1
get_basic_size(b1) == b1 % 128

basic_b0(fin, rsv, op) == (IF fin THEN 128 ELSE 0) + 16 * rsv + (op % 16)

basic_value(size) ==
    CASE size <= BasicLimit -> size
      [] size > BasicLimit /\ size <= ExtendedLimit -> Code16
      [] OTHER -> Code64

basic_b1(masked, size) == (IF masked THEN 128 ELSE 0) + basic_value(size)

\* How many bytes hold the size: get_masking_key_offset, and the length of the
\* extended header of a frame without a masking key.
extended_length(b1) ==
    CASE get_basic_size(b1) = Code16 -> 2
      [] get_basic_size(b1) = Code64 -> 8
      [] OTHER -> 0

get_extended_size(e) == 256 * e[1] + e[2]

get_jumbo_size(e) ==
    256 * (256 * (256 * (256 * (256 * (256 * (256 * e[1] + e[2]) + e[3])
      + e[4]) + e[5]) + e[6]) + e[7]) + e[8]

get_payload_size(b1, e) ==
    CASE get_basic_size(b1) <= BasicLimit -> get_basic_size(b1)
      [] get_basic_size(b1) = Code16 -> get_extended_size(e)
      [] OTHER -> get_jumbo_size(e)

\* The size in network order
extended_bytes(size) == <<size \div 256, size % 256>>

jumbo_bytes(size) ==
    LET s1 == size \div 256
        s2 == s1 \div 256
        s3 == s2 \div 256
        s4 == s3 \div 256
        s5 == s4 \div 256
        s6 == s5 \div 256
        s7 == s6 \div 256
    IN  <<s7 % 256, s6 % 256, s5 % 256, s4 % 256, s3 % 256, s2 % 256,
          s1 % 256, size % 256>>

\* copy_payload: the bytes of the size that the extended header holds.
copy_payload(size) ==
    CASE size <= BasicLimit -> <<>>
      [] size > BasicLimit /\ size <= ExtendedLimit -> extended_bytes(size)
      [] OTHER -> jumbo_bytes(size)
===============================================================================
