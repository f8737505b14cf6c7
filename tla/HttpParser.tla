------------------------------- MODULE HttpParser -------------------------------
(***************************************************************************)
(* my_net::HttpParser: the callbacks the vendored http_parser calls while  *)
(* Decode feeds it what a read returned, and the packets they assemble.    *)
(*                                                                         *)
(* A read may end anywhere: the vendored parser then hands over what it    *)
(* has of a text, and the rest in the next Decode.  Each callback is an    *)
(* action, with the number of units it is given.  The messages are those   *)
(* of HttpEncoder, and others that a peer may send.                        *)
(*                                                                         *)
(* Packets is what HttpEncoder may be given: its messages are on the wire  *)
(* as well, and what is decoded is compared with what was encoded.         *)
(***************************************************************************)
EXTENDS HttpEncoder, FiniteSetsExt

CONSTANTS
    Units,        \* what texts are made of
    Foreign,      \* messages of a peer with an encoder of its own
    Packets,      \* packets that HttpEncoder may be given
    UrlMaxLen,    \* HttpParser::_UrlMaxLen, 0 for no limit
    BodyMaxLen,   \* HttpParser::_BodyMaxLen, 0 for no limit
    MaxMessages   \* bound: messages on the connection

Texts == Seq(Units)

ASSUME ParserAssumption ==
    /\ {"a", "c"} \subseteq Units
    /\ OwnTexts \subseteq Texts \ {<<>>}
    /\ UrlMaxLen \in Nat
    /\ BodyMaxLen \in Nat
    /\ MaxMessages \in Nat \ {0}

VARIABLES
    type,      \* HttpParser::_Type
    head,      \* HttpParser::_HeadInfo
    current,   \* HttpParser::_CurrentPacket, <<>> when there is none
    list,      \* HttpParser::_PacketList
    pc,        \* in DoRead, in Decode, or Decode has returned false
    message,   \* the message the vendored parser is in
    calls,     \* the callbacks it calls for it
    at,        \* the next of them
    given,     \* how much of its text the reads before have had
    begun,     \* messages begun
    due        \* the messages of the packets in the list

vars == <<type, head, current, list, pc, message, calls, at, given, begun, due>>

\* The packets that Encode does not refuse, each with its message.
Encoded == {[packet |-> p, message |-> Encode(p)] : p \in {q \in Packets : ~Refuses(q)}}

Messages == Foreign \cup {e.message : e \in Encoded}

-----------------------------------------------------------------------------
(* The vendored parser.                                                    *)

\* A header line of the message has this name and this value, whatever their case.
Says(m, name, value) ==
    \E i \in DOMAIN m.headers :
        Lower(m.headers[i].name) = name /\ m.headers[i].value = value

ShouldKeepAlive(m) ==
    IF m.version = "HTTP_1_0" THEN Says(m, Connection, <<"keep-alive">>)
                              ELSE ~Says(m, Connection, <<"close">>)

\* How the header lines say the body ends.
Length(m) == {n \in 0 .. Len(FlattenSeq(m.chunks)) : Says(m, ContentLength, Decimal(n))}

Pieces(m) ==
    IF Says(m, TransferEncoding, <<"chunked">>)
      THEN m.chunks
      ELSE Whole(SubSeq(FlattenSeq(m.chunks), 1, IF Length(m) = {} THEN 0 ELSE Max(Length(m))))

\* What the vendored parser takes for a message: header lines have names, and the
\* body is what they say it is.
WellFormed(m) ==
    /\ m.line \in Texts
    /\ m.type = "HDT_REQUEST" => m.line # <<>>
    /\ {m.headers, m.trailers} \subseteq Seq([name : Texts \ {<<>>}, value : Texts])
    /\ m.chunks \in Seq(Texts)
    /\ \/ Says(m, TransferEncoding, <<"chunked">>)
       \/ Len(FlattenSeq(m.chunks)) \in Length(m) \cup {0}

\* What the user makes of a packet; how its body ends is left to HttpEncoder.
WellMade(p) ==
    /\ p.keepAlive \in BOOLEAN
    /\ IF p.type = "HDT_REQUEST" THEN p.uri \in Texts ELSE p.status \in Texts
    /\ p.headers \in [DOMAIN p.headers -> Texts]
    /\ DOMAIN p.headers \subseteq ToSet(Alphabet) \ {ContentLength, TransferEncoding}
    /\ p.body \in Texts /\ Decimal(Len(p.body)) \in Texts

ASSUME MessagesAssumption ==
    /\ \A m \in Foreign : WellFormed(m)
    /\ \A p \in Packets : WellMade(p)

Callback(name, text) == [name |-> name, text |-> text]

LineCallbacks(lines) ==
    FlattenSeq([i \in DOMAIN lines |-> << Callback("field", lines[i].name),
                                          Callback("value", lines[i].value) >>])

\* on_headers_complete is not called for trailers.
Callbacks(m) ==
    << Callback(IF m.type = "HDT_REQUEST" THEN "url" ELSE "status", m.line) >>
    \o LineCallbacks(m.headers)
    \o << Callback("headers", <<>>) >>
    \o [i \in DOMAIN Pieces(m) |-> Callback("body", Pieces(m)[i])]
    \o LineCallbacks(m.trailers)
    \o << Callback("complete", <<>>) >>

\* What the reads have not brought of the text of the next callback.
Left == Len(calls[at].text) - given

\* The next callback is this one, and is given n more units of its text; if that is not
\* all that is left of it, the read ends there.
Called(name, n) ==
    /\ pc = "decode"
    /\ at <= Len(calls)
    /\ calls[at].name = name
    /\ n \in 1 .. Left \/ (n = 0 /\ Left = 0)
    /\ IF n = Left THEN at' = at + 1 /\ given' = 0
                   ELSE at' = at /\ given' = given + n
    /\ UNCHANGED calls

\* What it is given.
Data(n) == SubSeq(calls[at].text, given + 1, given + n)

\* Where DoRead is when the callback returns 0, and when it returns -1.
Goes(n) == pc' = IF n < Left THEN "read" ELSE "decode"
Fails == pc' = "refused"

-----------------------------------------------------------------------------
(* The callbacks.                                                          *)

\* _HeadInfo when it is cleared.
NoHead == [url |-> <<>>, status |-> <<>>, field |-> <<>>, value |-> <<>>,
           map |-> [name \in {} |-> <<>>]]

Init ==
    /\ type \in {"HDT_REQUEST", "HDT_RESPONSE"}
    /\ head = NoHead
    /\ current = <<>>
    /\ list = <<>>
    /\ pc = "read"
    /\ message = <<>>
    /\ calls = <<>>
    /\ at = 1
    /\ given = 0
    /\ begun = 0
    /\ due = <<>>

\* Mutant: trailers of the message before are left in _HeadInfo.
OnMessageBeginMutant(m) ==
    /\ pc = "decode" /\ at > Len(calls)
    /\ begun < MaxMessages
    /\ m.type = type
    /\ begun > 0 => ShouldKeepAlive(message)
    /\ message' = m
    /\ calls' = Callbacks(m)
    /\ at' = 1
    /\ given' = 0
    /\ begun' = begun + 1
    /\ UNCHANGED <<type, head, current, list, pc, due>>

OnMessageBegin(m) ==
    /\ pc = "decode" /\ at > Len(calls)
    /\ begun < MaxMessages
    /\ m.type = type
    /\ begun > 0 => ShouldKeepAlive(message)
    /\ message' = m
    /\ calls' = Callbacks(m)
    /\ at' = 1
    /\ given' = 0
    /\ begun' = begun + 1
    /\ head' = NoHead
    /\ UNCHANGED <<type, current, list, pc, due>>

OnUrl(n) ==
    /\ Called("url", n)
    /\ IF UrlMaxLen # 0 /\ UrlMaxLen < n + Len(head.url)
         THEN Fails /\ UNCHANGED head
         ELSE Goes(n) /\ head' = [head EXCEPT !.url = @ \o Data(n)]
    /\ UNCHANGED <<type, current, list, message, begun, due>>

OnStatus(n) ==
    /\ Called("status", n)
    /\ Goes(n)
    /\ head' = [head EXCEPT !.status = @ \o Data(n)]
    /\ UNCHANGED <<type, current, list, message, begun, due>>

\* The map with one more entry, or with the entry of that name replaced.
With(map, name, value) ==
    [x \in DOMAIN map \cup {name} |-> IF x = name THEN value ELSE map[x]]

\* A value that is there tells that a new name begins, and is stored with its name.
OnHeaderField(n) ==
    /\ Called("field", n)
    /\ Goes(n)
    /\ head' = IF head.value # <<>>
                 THEN [head EXCEPT !.map = With(@, Lower(head.field), head.value),
                                   !.field = Data(n), !.value = <<>>]
                 ELSE [head EXCEPT !.field = @ \o Data(n)]
    /\ UNCHANGED <<type, current, list, message, begun, due>>

OnHeaderValue(n) ==
    /\ Called("value", n)
    /\ Goes(n)
    /\ head' = [head EXCEPT !.value = @ \o Data(n)]
    /\ UNCHANGED <<type, current, list, message, begun, due>>

\* GetUri: what follows the host, from the path on; "/" if there is no path. A URL that
\* cannot be parsed is taken as it is.
Uri(url) ==
    LET paths == {i \in DOMAIN url : url[i] = "/path"}
    IN  IF url[1] = "opaque" THEN url
        ELSE IF paths = {} THEN <<"/">>
        ELSE SubSeq(url, Min(paths), Len(url))

\* ParseMethod: one of the methods of HTTP_METHOD, or another.
Method(method) ==
    IF method \in {"GET", "HEAD", "POST", "PUT", "CONNECT", "PATCH", "DELETE"}
      THEN method ELSE "OTHER"

\* SetStatusCode puts the phrase of its table in place of the one that was parsed.
Phrase(code) == IF code \in {"200", "404"} THEN <<code>> ELSE <<"UNKNOW">>

\* The packet of the head; OnMessageComplete sets keepAlive, which ParseVersion set
\* to what the version says.
PacketOf(m, h) ==
    LET headers == IF h.field = <<>> THEN h.map ELSE With(h.map, Lower(h.field), h.value)
        keepAlive == m.version = "HTTP_1_1"
    IN  IF type = "HDT_REQUEST"
          THEN [type |-> type, version |-> m.version, keepAlive |-> keepAlive,
                headers |-> headers, body |-> <<>>,
                uri |-> Uri(h.url), method |-> Method(m.method)]
          ELSE [type |-> type, version |-> m.version, keepAlive |-> keepAlive,
                headers |-> headers, body |-> <<>>,
                code |-> m.code, status |-> Phrase(m.code)]

OnHeadersComplete ==
    /\ Called("headers", 0)
    /\ IF message.version \notin Versions \/ (type = "HDT_REQUEST" /\ head.url = <<>>)
         THEN Fails /\ UNCHANGED <<head, current>>
         ELSE /\ pc' = pc
              /\ current' = PacketOf(message, head)
              /\ head' = NoHead
    /\ UNCHANGED <<type, list, message, begun, due>>

OnBody(n) ==
    /\ Called("body", n)
    /\ IF BodyMaxLen # 0 /\ BodyMaxLen < n + Len(current.body)
         THEN Fails /\ UNCHANGED current
         ELSE Goes(n) /\ current' = [current EXCEPT !.body = @ \o Data(n)]
    /\ UNCHANGED <<type, head, list, message, begun, due>>

OnMessageComplete ==
    /\ Called("complete", 0)
    /\ pc' = pc
    /\ list' = Append(list, [current EXCEPT !.keepAlive = ShouldKeepAlive(message)])
    /\ due' = Append(due, message)
    /\ current' = <<>>
    /\ UNCHANGED <<type, head, message, begun>>

-----------------------------------------------------------------------------
(* Decode and GetPacket, as DoRead calls them.                             *)

\* DoRead has a buffer, and has taken all the packets of the one before.
Decode ==
    /\ pc = "read"
    /\ list = <<>>
    /\ pc' = "decode"
    /\ UNCHANGED <<type, head, current, list, message, calls, at, given, begun, due>>

\* The buffer ends between two callbacks.
DecodeReturns ==
    /\ pc = "decode"
    /\ pc' = "read"
    /\ UNCHANGED <<type, head, current, list, message, calls, at, given, begun, due>>

\* The vendored parser refuses what follows, also whatever follows a message that ends
\* the connection.
DecodeFails ==
    /\ pc = "decode"
    /\ pc' = "failed"
    /\ UNCHANGED <<type, head, current, list, message, calls, at, given, begun, due>>

GetPacket ==
    /\ pc = "read"
    /\ list # <<>>
    /\ list' = Tail(list)
    /\ due' = Tail(due)
    /\ UNCHANGED <<type, head, current, pc, message, calls, at, given, begun>>

\* A callback with n units.
Text(n) == OnUrl(n) \/ OnStatus(n) \/ OnHeaderField(n) \/ OnHeaderValue(n) \/ OnBody(n)

Next ==
    \/ \E m \in Messages : OnMessageBegin(m)
    \/ at <= Len(calls) /\ \E n \in 0 .. Len(calls[at].text) : Text(n)
    \/ OnHeadersComplete \/ OnMessageComplete
    \/ Decode \/ DecodeReturns \/ DecodeFails \/ GetPacket

Spec == Init /\ [][Next]_vars

-----------------------------------------------------------------------------
(* Properties.                                                             *)

TypeOK ==
    /\ type \in {"HDT_REQUEST", "HDT_RESPONSE"}
    /\ DOMAIN head = DOMAIN NoHead
    /\ head.url \in Texts /\ head.status \in Texts
    /\ head.field \in Texts /\ head.value \in Texts
    /\ \A x \in DOMAIN head.map : x \in Texts /\ head.map[x] \in Texts
    /\ pc \in {"read", "decode", "refused", "failed"}
    /\ begun > 0 => message \in Messages
    /\ current # <<>> => current.body \in Texts /\ current.version \in Versions
    /\ begun \in 0 .. MaxMessages
    /\ Len(list) = Len(due)

\* The header map a message stands for: for every name, in lower case, the last value.
HeaderMap(m) ==
    LET lines(name) == {i \in DOMAIN m.headers : Lower(m.headers[i].name) = name}
    IN  [x \in {Lower(m.headers[i].name) : i \in DOMAIN m.headers} |->
            m.headers[Max(lines(x))].value]

\* A header line without a value is not followed by another one.
OnlyLastIsEmpty(m) == \A i \in DOMAIN m.headers : m.headers[i].value = <<>> => i = Len(m.headers)

\* The name a line has in _HeadInfo: that of a line without a value is still there when
\* the next one comes, whose name is put behind it.
Names(m) ==
    LET names[i \in DOMAIN m.headers] ==
            (IF i = 1 \/ m.headers[i - 1].value # <<>> THEN <<>> ELSE names[i - 1])
            \o m.headers[i].name
    IN  names

\* The lines that are stored, each with that name: those that have a value, and the last.
StoredMap(m) ==
    LET taken == {i \in DOMAIN m.headers : m.headers[i].value # <<>> \/ i = Len(m.headers)}
        lines(name) == {i \in taken : Lower(Names(m)[i]) = name}
    IN  [x \in {Lower(Names(m)[i]) : i \in taken} |-> m.headers[Max(lines(x))].value]

\* However the reads cut the stream, a packet is made of its own message: its URI or
\* its code, its version, its whole body, and the headers that OnHeaderField makes of its
\* lines, none of another message's, of its trailers' or of a piece of a line.  Those are
\* its lines with their values, unless one without a value stands before another line:
\* that one is lost, and its name is put before the next one's (OnMessageBegin to
\* OnMessageComplete).
PacketsFaithful ==
    \A i \in DOMAIN list :
        /\ list[i].headers = StoredMap(due[i])
        /\ OnlyLastIsEmpty(due[i]) => list[i].headers = HeaderMap(due[i])
        /\ list[i].body = FlattenSeq(due[i].chunks)
        /\ list[i].version = due[i].version
        /\ IF type = "HDT_REQUEST" THEN list[i].uri = Uri(due[i].line)
                                   ELSE list[i].code = due[i].code

\* Whether a message is refused depends on the message, and not on the reads: it is
\* when its URL or its body is longer than the limit, or its version unknown (OnUrl,
\* OnBody, OnHeadersComplete).
Refusable(m) ==
    \/ type = "HDT_REQUEST" /\ UrlMaxLen # 0 /\ Len(m.line) > UrlMaxLen
    \/ BodyMaxLen # 0 /\ Len(FlattenSeq(m.chunks)) > BodyMaxLen
    \/ m.version \notin Versions

RefusedByContent ==
    /\ pc = "refused" => Refusable(message)
    /\ \A i \in DOMAIN due : ~Refusable(due[i])

\* What comes of a message depends on the message alone, not on how it is read.
DecodedByContent == TypeOK /\ PacketsFaithful /\ RefusedByContent

\* What HttpEncoder wrote is decoded to what it was given: its body, whether it went in
\* chunks or not, and its word on keeping the connection, always; its headers when none of
\* them but the last one written is without a value.
DecodesEncoded ==
    \A i \in DOMAIN list : \A e \in Encoded : due[i] = e.message =>
        LET p == e.packet
        IN  /\ list[i].body = p.body
            /\ OnlyLastIsEmpty(e.message) =>
                  \A x \in DOMAIN p.headers : list[i].headers[x] = p.headers[x]
            /\ Connection \notin DOMAIN p.headers => list[i].keepAlive = p.keepAlive

-----------------------------------------------------------------------------
(* What a comment of the code says and the code does not do.               *)

\* http_parser.h:80: every _Field is stored with its _Value in the map.
EveryFieldStored ==
    \A i \in DOMAIN list : \A j \in DOMAIN due[i].headers :
        Lower(due[i].headers[j].name) \in DOMAIN list[i].headers
=============================================================================
