------------------------------ MODULE MCHttpParser ------------------------------
(* Messages and packets for TLC. *)
EXTENDS HttpParser

MCAlphabet == << <<"a", "a">>, <<"b", "b">>, Connection >>

MCUnits == UNION {ToSet(text) : text \in OwnTexts} \cup STRING

\* Names "Aa" and "aa" are one name; a value is whole, or there is none.
MCNames == {<<"a", "a">>, <<"A", "a">>, <<"b", "b">>}
MCLines == {Line(n, v) : n \in MCNames, v \in {<<>>, <<"v", "w">>}}
MCHeaders == {<<>>} \cup {<<l>> : l \in MCLines} \cup {<<l, k>> : l \in MCLines, k \in MCLines}

MCRequest(url, version, headers, chunks, trailers) ==
    [type |-> "HDT_REQUEST", method |-> "OPTIONS", line |-> url, version |-> version,
     headers |-> headers, chunks |-> chunks, trailers |-> trailers]

MCChunked == <<Line(TransferEncoding, <<"chunked">>)>>

MCForeign ==
    {MCRequest(<<"/path", "?query">>, "HTTP_1_1", h, <<>>, <<>>) : h \in MCHeaders} \cup
    {MCRequest(u, v, <<>>, <<>>, <<>>) :
        u \in {<<"host", "/path">>, <<"host", "?query">>, <<"host", "/path", "?query">>,
               <<"opaque", "opaque">>},
        v \in {"HTTP_1_0", "HTTP_1_1", "HTTP_2_0"}} \cup
    {MCRequest(<<"/path">>, "HTTP_1_1", MCChunked, c, t) :
        c \in {<<>>, <<<<"x">>, <<"y", "z">>>>, <<<<"x", "y">>, <<"z", "x">>>>},
        t \in {<<>>, <<Line(<<"A", "a">>, <<"v">>)>>, <<Line(<<"b", "b">>, <<>>)>>}}

MCBodies == {<<>>, <<"x">>, <<"x", "y", "z">>, <<"x", "y", "z", "x">>}

MCUserHeaders ==
    {<<>>, (<<"a", "a">> :> <<"v">>) @@ (<<"b", "b">> :> <<"v", "w">>),
     <<"b", "b">> :> <<>>, (Connection :> <<"close">>) @@ (<<"b", "b">> :> <<>>)}

MCPackets ==
    [type : {"HDT_REQUEST"}, method : {"POST", "OTHER"}, uri : {<<"/path">>},
     version : Versions, keepAlive : BOOLEAN, headers : MCUserHeaders, body : MCBodies] \cup
    [type : {"HDT_RESPONSE"}, code : {"200", "unset"}, status : {<<"200">>},
     version : Versions, keepAlive : BOOLEAN, headers : MCUserHeaders, body : MCBodies]
=============================================================================
