------------------------------ MODULE MCReadPath -------------------------------
(***************************************************************************)
(* What the server sends in the runs of ReadPath: responses, and frames    *)
(* with the limits of a frame's size scaled down.                          *)
(***************************************************************************)
EXTENDS ReadPath, Base64

LOCAL INSTANCE SequencesExt

MCFrame(op, fin, payload) ==
    [fin |-> fin, rsv |-> 0, op |-> op, masked |-> FALSE, badSize |-> FALSE,
     payload |-> payload]

\* A frame whose size takes more bytes than it needs is bad.
Wire(f) ==
    LET size == Len(f.payload) IN
    <<basic_b0(f.fin, f.rsv, f.op)>>
      \o (IF f.badSize THEN <<Code16>> \o extended_bytes(size)
          ELSE <<basic_b1(f.masked, size)>> \o copy_payload(size))
      \o f.payload

Line(byte) == <<byte, CR, LF>>

Header(lines) == FlattenSeq([i \in DOMAIN lines |-> Line(lines[i])]) \o <<CR, LF>>

MCStream(lines, accepts, frames) ==
    LET wires == [i \in DOMAIN frames |-> Wire(frames[i])]
        before(k) == Header(lines) \o FlattenSeq(SubSeq(wires, 1, k))
    IN  [bytes |-> before(Len(frames)), accepts |-> accepts, frames |-> frames,
         at |-> [k \in 1..(Len(frames) + 1) |-> Len(before(k - 1))]]

Good == <<Status101, Upgrade>>

\* Frames that are wrong whatever they follow, one for each reason
WrongFrames ==
    {[MCFrame(TEXT, TRUE, <<65>>) EXCEPT !.rsv = 4],
     [MCFrame(TEXT, TRUE, <<65>>) EXCEPT !.masked = TRUE],
     [MCFrame(BINARY, TRUE, <<1>>) EXCEPT !.badSize = TRUE],
     MCFrame(3, TRUE, <<>>), MCFrame(PING, FALSE, <<1>>),
     MCFrame(PING, TRUE, <<1, 2, 3>>), MCFrame(TEXT, TRUE, <<195>>)}

PlainFrames ==
    {MCFrame(TEXT, TRUE, <<>>), MCFrame(TEXT, FALSE, <<195>>),
     MCFrame(CONTINUATION, TRUE, <<169>>), MCFrame(CONTINUATION, FALSE, <<>>),
     MCFrame(BINARY, TRUE, <<255, 0, 255>>), MCFrame(PING, TRUE, <<7>>),
     MCFrame(PONG, TRUE, <<>>), MCFrame(CLOSE, TRUE, <<>>)}

\* Messages in two fragments, with a control frame between: one that is too
\* big, and texts cut at every byte
Texts ==
    {<<195, 169>>, <<193, 129>>, <<224, 160, 128>>, <<224, 159, 191>>,
     <<237, 159, 191>>, <<237, 160, 128>>, <<240, 144, 128, 128>>,
     <<240, 143, 128, 128>>, <<244, 143, 191, 191>>, <<244, 144, 128, 128>>,
     <<226, 130>>, <<65, 128>>}

InTwo(op, payload, k) ==
    <<MCFrame(op, FALSE, SubSeq(payload, 1, k)),
      MCFrame(CONTINUATION, TRUE, SubSeq(payload, k + 1, Len(payload)))>>

Fragmented ==
    {InTwo(BINARY, <<1, 2, 3, 4, 5>>, 2)}
      \cup UNION {{InTwo(TEXT, text, k) : k \in 1..(Len(text) - 1)} :
                    text \in Texts}

Between(two, control) == <<two[1], control, two[2]>>

FrameLists ==
    {<<>>}
      \cup {<<f>> : f \in WrongFrames \cup PlainFrames}
      \cup {<<f, g>> : f \in PlainFrames, g \in PlainFrames \cup WrongFrames}
      \cup Fragmented
      \cup {Between(two, control) :
              two \in {InTwo(TEXT, <<195, 169>>, 1), InTwo(TEXT, <<65, 128>>, 1)},
              control \in {MCFrame(PING, TRUE, <<7>>),
                           MCFrame(CLOSE, TRUE, <<>>),
                           MCFrame(TEXT, TRUE, <<>>)}}
      \cup {<<MCFrame(TEXT, TRUE, text)>> : text \in Texts}
      \cup {<<MCFrame(TEXT, FALSE, <<195>>), f, g>> :
              f \in PlainFrames, g \in PlainFrames}

Refused ==
    {<<>>, <<StatusOther, Upgrade>>, <<NoLine>>, <<Status101>>,
     <<Status101, Upgrade, Upgrade>>, <<Status101, NoLine, Upgrade>>,
     <<Status101, Length + NoNumber, Upgrade>>}

MCStreams ==
    {MCStream(Good, TRUE, frames) : frames \in FrameLists}
      \cup {MCStream(<<Status101, Field, Length, Upgrade>>, TRUE, frames) :
              frames \in {<<>>, <<MCFrame(TEXT, TRUE, <<65>>)>>}}
      \cup {MCStream(<<Status101, Length, Length + NoNumber, Upgrade>>, TRUE,
                     <<MCFrame(PING, TRUE, <<7>>)>>)}
      \cup {MCStream(<<Status101, Field, Field, Length, Upgrade>>, TRUE, <<>>)}
      \cup {MCStream(lines, FALSE, frames) :
              lines \in Refused, frames \in {<<>>, <<MCFrame(PING, TRUE, <<>>)>>}}

\* Bytes of every length up to seven, with all patterns of bits at the borders of
\* a character, come back from base64_decode; "Man" is "TWFu".
ASSUME Base64Agrees ==
    /\ base64_encode(<<77, 97, 110>>) = <<84, 87, 70, 117>>
    /\ \A n \in 0..3 : \A bytes \in [1..n -> {0, 3, 4, 15, 63, 64, 170, 255}] :
         base64_decode(base64_encode(bytes)) = bytes
    /\ \A n \in 4..7 : \A bytes \in [1..n -> {1, 254}] :
         base64_decode(base64_encode(bytes)) = bytes
===============================================================================
