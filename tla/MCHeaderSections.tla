-------------------------- MODULE MCHeaderSections --------------------------
(***************************************************************************)
(* Two edits of a valid request of each kind, of a response and of a       *)
(* trailer section; texts over the characters that steer the loops; lists  *)
(* of three names, with a bound of two on what the parser takes.           *)
(***************************************************************************)
EXTENDS HeaderSections

Get ==
    <<Field(":method", <<"GET">>), Field(":scheme", <<"https">>), Field(":authority", <<"a">>),
      Field(":path", <<"/">>)>>
PlainConnect == <<Field(":method", <<"CONNECT">>), Field(":authority", <<"a", ":", "5">>)>>
Ftp == <<Field(":method", <<"GET">>), Field(":scheme", <<"ftp">>), Field(":path", <<"a">>)>>
MCTemplates ==
    {Get, PlainConnect, Ftp, RequestFields(OfferOf(<<>>)),
     <<Field(":status", <<"200">>), Field("x", <<"a">>)>>, <<Field("x", <<"a">>)>>}

MCFields ==
    {Field(n, v) : n \in {":method"}, v \in {<<"GET">>, <<"OPTIONS">>, <<"CONNECT">>, <<>>, <<"a", " ">>}}
    \union {Field(":scheme", v) : v \in {<<"https">>, <<"ftp">>, <<"5">>}}
    \union {Field(":path", v) : v \in {<<"/">>, <<"*">>, <<>>, <<"a">>, <<"/", "OBS">>}}
    \union {Field(n, v) : n \in {":authority", "host"},
                          v \in {<<"a">>, <<"a", ":", "5">>, <<>>, <<"a", "@", "a">>, <<"5", " ">>}}
    \union {Field(":protocol", v) : v \in {<<"webtransport">>, <<"a", "/", "a">>, <<"a", "/">>, <<"webtransport", "a">>}}
    \union {Field(":status", v) : v \in {<<"200">>, <<"101">>, <<"5">>}}
    \union {Field("te", v) : v \in {<<"trailers">>, <<"a">>}}
    \union {Field(n, <<"a">>) : n \in {"connection", ":unknown", "X-Upper", "", "x"}}
    \union {Field("x", v) : v \in {<<>>, <<" ", "a">>, <<"a", " ", "a">>, <<"NUL">>, <<"OBS">>}}
    \union {Field("origin", <<"OBS">>), Field("wt-available-protocols", <<"DQ", "DQ">>)}

A(first, chars, most) == [first |-> first, chars |-> chars, most |-> most]
MCAlphabets ==
    {A("[", {"a", "v", "5", ":", "]", "."}, 7), A("a", {"a", "5", ":", "%", "]", "@", "/"}, 5),
     A("g", {"5", ":", "["}, 6), A("5", {"5", ":", "g"}, 6), A(":", {"5", "a"}, 3), A("%", {"a", "5", "g", "%", ":"}, 6),
     A("/", {"/", "?", "#", "%", "a", "g", "*"}, 6), A("*", {"*"}, 2), A("?", {"a"}, 2)}
=============================================================================
