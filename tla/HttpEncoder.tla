------------------------------ MODULE HttpEncoder ------------------------------
(***************************************************************************)
(* my_net::HttpEncoder as operators from a packet to the message it puts   *)
(* on the wire.                                                            *)
(*                                                                         *)
(* A text is a sequence of units that nothing tells apart further.  The    *)
(* header map of a packet is a function from names in lower case to texts, *)
(* as HttpPacket::AddHeader builds it.  A message is its first line, its   *)
(* header lines in order, and its body in the chunks it is sent in.        *)
(***************************************************************************)
EXTENDS Naturals, Sequences, SequencesExt

CONSTANTS
    Alphabet,          \* the names of the header map, in the order of std::map
    ChunkedThreshold,  \* HttpEncoder::_ChunkedThreshold
    ChunkedSize        \* HttpEncoder::_ChunkedSize, 0 for no chunks

Connection == <<"c", "onnection">>
ContentLength == <<"content", "-length">>
TransferEncoding == <<"transfer", "-encoding">>

\* A number in a header.
Decimal(n) == <<ToString(n)>>

Line(name, value) == [name |-> name, value |-> value]

\* tolower, unit by unit.
Lower(text) ==
    LET unit(u) == CASE u = "A" -> "a" [] u = "C" -> "c" [] OTHER -> u
    IN  [i \in DOMAIN text |-> unit(text[i])]

ASSUME EncoderAssumption ==
    /\ Alphabet \in Seq(ToSet(Alphabet))
    /\ \A name \in ToSet(Alphabet) : Lower(name) = name
    /\ ChunkedThreshold \in Nat
    /\ ChunkedSize \in Nat

\* What the version does not say by itself is said, unless the user has said it.
ConnectionLine(p) ==
    IF Connection \notin DOMAIN p.headers /\ (p.keepAlive <=> p.version = "HTTP_1_0")
      THEN << Line(<<"C", "onnection">>, <<IF p.keepAlive THEN "keep-alive" ELSE "close">>) >>
      ELSE <<>>

UserLines(p) ==
    FlattenSeq([i \in DOMAIN Alphabet |->
                    IF Alphabet[i] \in DOMAIN p.headers
                      THEN << Line(Alphabet[i], p.headers[Alphabet[i]]) >> ELSE <<>>])

\* Only a long body of a response that keeps an HTTP/1.1 connection goes in chunks.
UseChunk(p) ==
    /\ ContentLength \notin DOMAIN p.headers
    /\ ChunkedSize > 0
    /\ Len(p.body) > ChunkedThreshold
    /\ p.version = "HTTP_1_1"
    /\ p.keepAlive

\* Mutant: the rest after the last whole chunk is left out.
ChunksMutant(body) ==
    [i \in 1 .. Len(body) \div ChunkedSize |->
        SubSeq(body, (i - 1) * ChunkedSize + 1, i * ChunkedSize)]

\* The body cut into pieces of _ChunkedSize, the last of what is left.
Chunks(body) ==
    [i \in 1 .. (Len(body) + ChunkedSize - 1) \div ChunkedSize |->
        LET end == IF i * ChunkedSize > Len(body) THEN Len(body) ELSE i * ChunkedSize
        IN  SubSeq(body, (i - 1) * ChunkedSize + 1, end)]

\* A body in one piece.
Whole(body) == IF body = <<>> THEN <<>> ELSE <<body>>

\* A request tells the length of a body that is there, a response always does.
LengthLine(p) ==
    IF ContentLength \in DOMAIN p.headers \/ (p.type = "HDT_REQUEST" /\ p.body = <<>>)
      THEN <<>>
      ELSE << Line(ContentLength, Decimal(Len(p.body))) >>

\* The texts it writes by itself, besides numbers, and all names.
OwnTexts ==
    ToSet(Alphabet) \cup
    {Connection, ContentLength, TransferEncoding, <<"C", "onnection">>,
     <<"keep-alive">>, <<"close">>, <<"chunked">>}

Versions == {"HTTP_1_0", "HTTP_1_1"}

RequestRefused(p) ==
    \/ p.method \notin {"GET", "HEAD", "POST", "PUT", "PATCH", "DELETE"}
    \/ p.uri = <<>>
    \/ p.version \notin Versions

EncodeRequest(p) ==
    [type |-> "HDT_REQUEST", method |-> p.method, line |-> p.uri, version |-> p.version,
     headers |-> ConnectionLine(p) \o UserLines(p) \o LengthLine(p),
     chunks |-> Whole(p.body), trailers |-> <<>>]

\* _StatusCode is -1 until it is set.
ResponseRefused(p) ==
    \/ p.version \notin Versions
    \/ p.code = "unset"
    \/ p.status = <<>>

EncodeResponse(p) ==
    [type |-> "HDT_RESPONSE", code |-> p.code, line |-> p.status, version |-> p.version,
     headers |-> ConnectionLine(p) \o UserLines(p) \o
                 (IF UseChunk(p) THEN << Line(TransferEncoding, <<"chunked">>) >>
                                 ELSE LengthLine(p)),
     chunks |-> IF UseChunk(p) THEN Chunks(p.body) ELSE Whole(p.body), trailers |-> <<>>]

Refuses(p) == IF p.type = "HDT_REQUEST" THEN RequestRefused(p) ELSE ResponseRefused(p)

Encode(p) == IF p.type = "HDT_REQUEST" THEN EncodeRequest(p) ELSE EncodeResponse(p)
=============================================================================
