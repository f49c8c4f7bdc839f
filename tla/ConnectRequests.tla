-------------------------- MODULE ConnectRequests --------------------------
(***************************************************************************)
(* The request that opens a WebTransport session and its response          *)
(* (webtransport/connect): header lists written and read back, and the     *)
(* lists of application protocols in them, as the small Structured Fields  *)
(* parser of sf_parser.rs reads them.  Characters are those of HeaderRules. *)
(***************************************************************************)
EXTENDS HeaderRules

CONSTANT MaxSfElements    \* MAX_SF_ELEMENTS

\* ProtocolToken
Tokens == {"webtransport-h3", "webtransport"}

Field(name, value) == [name |-> name, value |-> value]

-----------------------------------------------------------------------------
(* Structured Fields.                                                      *)

\* str::replace of one character, then of pairs, from left to right.
RECURSIVE ReplaceChar(_, _, _)
ReplaceChar(v, c, by) ==
    IF v = <<>> THEN <<>>
    ELSE (IF v[1] = c THEN by ELSE <<v[1]>>) \o ReplaceChar(Tail(v), c, by)
RECURSIVE ReplacePair(_, _, _)
ReplacePair(v, pair, by) ==
    IF Len(v) < 2 THEN v
    ELSE IF SubSeq(v, 1, 2) = pair THEN by \o ReplacePair(SubSeq(v, 3, Len(v)), pair, by)
    ELSE <<v[1]>> \o ReplacePair(Tail(v), pair, by)

\* The string of a name in to_headers, and the inverse in parse_sf_item_string.
Escape(name) == ReplaceChar(ReplaceChar(name, "BS", <<"BS", "BS">>), "DQ", <<"BS", "DQ">>)
Quote(name) == <<"DQ">> \o Escape(name) \o <<"DQ">>
Unescape(inner) ==
    ReplaceChar(ReplacePair(ReplacePair(inner, <<"BS", "BS">>, <<"NUL">>), <<"BS", "DQ">>, <<"DQ">>),
                "NUL", <<"BS">>)

\* str::trim, str::split
RECURSIVE Trim(_)
Trim(v) ==
    IF v = <<>> THEN v
    ELSE IF v[1] \in Blank THEN Trim(Tail(v))
    ELSE IF v[Len(v)] \in Blank THEN Trim(SubSeq(v, 1, Len(v) - 1))
    ELSE v
RECURSIVE Split(_)
Split(v) ==
    IF ~Has(v, ",") THEN <<v>>
    ELSE LET i == FirstAt(v, ",") IN <<Cut(v, 1, i - 1)>> \o Split(Cut(v, i + 1, Len(v)))

\* The loop of strip_sf_parameters: what stands before the first semicolon
\* that is not in a string.
RECURSIVE Strip(_, _, _, _)
Strip(v, i, in_string, escaped) ==
    IF i > Len(v) THEN v
    ELSE IF escaped THEN Strip(v, i + 1, in_string, FALSE)
    ELSE IF v[i] = "DQ" THEN Strip(v, i + 1, ~in_string, FALSE)
    ELSE IF v[i] = "BS" /\ in_string THEN Strip(v, i + 1, in_string, TRUE)
    ELSE IF v[i] = ";" /\ ~in_string THEN Cut(v, 1, i - 1)
    ELSE Strip(v, i + 1, in_string, FALSE)
\* Mutant: an escaped quote ends the string.
RECURSIVE StripBlind(_, _)
StripBlind(v, i) ==
    IF i > Len(v) THEN v
    ELSE IF v[i] = ";" /\ Len(SelectSeq(Cut(v, 1, i - 1), LAMBDA c : c = "DQ")) % 2 = 0
    THEN Cut(v, 1, i - 1)
    ELSE StripBlind(v, i + 1)
StripParametersBlind(v) == StripBlind(v, 1)
\* strip_sf_parameters
StripParameters(v) == Strip(v, 1, FALSE, FALSE)

\* parse_sf_item_string; a name is a sequence of characters.
NotAString == <<"(not a string)">>
ParseItem(value) ==
    LET v == Trim(StripParameters(Trim(value)))
    IN  IF Len(v) >= 2 /\ v[1] = "DQ" /\ v[Len(v)] = "DQ" THEN Unescape(Cut(v, 2, Len(v) - 1))
        ELSE NotAString

\* parse_sf_list_strings: one item that is not a string empties the list.
RECURSIVE ParseItems(_, _)
ParseItems(items, result) ==
    IF items = <<>> THEN result
    ELSE IF Len(result) >= MaxSfElements THEN <<>>
    ELSE IF Trim(Head(items)) = <<>> THEN ParseItems(Tail(items), result)
    ELSE LET name == ParseItem(Head(items))
         IN  IF name = NotAString THEN <<>> ELSE ParseItems(Tail(items), Append(result, name))
ParseList(value) ==
    IF \E i \in DOMAIN value : value[i] \in Control \union {"HTAB"} THEN <<>>
    ELSE ParseItems(Split(value), <<>>)

-----------------------------------------------------------------------------
(* The request.                                                            *)

\* The names, quoted and joined by a comma and a blank.
RECURSIVE Joined(_)
Joined(names) ==
    IF Len(names) = 1 THEN Quote(names[1])
    ELSE Quote(names[1]) \o <<",", " ">> \o Joined(Tail(names))

\* ConnectRequest; the origin may be None.
Request(token, scheme, authority, path, origin, protocols) ==
    [token |-> token, scheme |-> scheme, authority |-> authority, path |-> path,
     origin |-> origin, protocols |-> protocols]

\* The fields of ConnectRequest::to_headers; it fails when one of them fails
\* check_header.
RequestFields(r) ==
    <<Field(":method", <<"CONNECT">>), Field(":protocol", <<r.token>>), Field(":scheme", r.scheme),
      Field(":authority", r.authority), Field(":path", r.path)>>
    \o (IF r.origin = None THEN <<>> ELSE <<Field("origin", r.origin)>>)
    \o (IF r.protocols = <<>> THEN <<>> ELSE <<Field("wt-available-protocols", Joined(r.protocols))>>)
CanWrite(fields) == \A i \in DOMAIN fields : CheckHeader(fields[i])

IsUtf8(v) == ~Has(v, "OBS")
Refused(why) == [refused |-> why]
IsRefused(r) == "refused" \in DOMAIN r

Read == {":method", ":protocol", ":scheme", ":authority", ":path", "origin", "wt-available-protocols"}
Texts == Read \ {":method", ":protocol"}

\* The loop of from_headers: a pseudo-header field comes first and once, any
\* other field replaces the one before it.
RECURSIVE ReadFields(_, _, _)
ReadFields(headers, seen_regular, v) ==
    IF headers = <<>> THEN v
    ELSE LET f == Head(headers)
         IN  IF IsPseudo(f.name) /\ (seen_regular \/ (f.name \in Read /\ v[f.name] # None))
             THEN Refused("InvalidEncoding")
             ELSE IF f.name \in Texts /\ ~IsUtf8(f.value) THEN Refused("InvalidEncoding")
             ELSE ReadFields(Tail(headers), seen_regular \/ ~IsPseudo(f.name),
                             IF f.name \in Read THEN [v EXCEPT ![f.name] = f.value] ELSE v)

OrEmpty(v) == IF v = None THEN <<>> ELSE v
\* ConnectRequest::from_headers
FromHeaders(headers) ==
    LET v == ReadFields(headers, FALSE, [n \in Read |-> None])
    IN  IF IsRefused(v) THEN v
        ELSE IF v[":method"] # <<"CONNECT">> THEN Refused("InvalidMethod")
        ELSE IF v[":protocol"] \notin {<<t>> : t \in Tokens} THEN Refused("InvalidProtocol")
        ELSE Request(v[":protocol"][1], OrEmpty(v[":scheme"]), OrEmpty(v[":authority"]),
                     OrEmpty(v[":path"]), v["origin"],
                     IF v["wt-available-protocols"] = None THEN <<>>
                     ELSE ParseList(v["wt-available-protocols"]))

\* ConnectRequest::validate
ValidateConnect(r) == r.scheme = <<"https">> /\ r.authority # <<>> /\ r.path # <<>>

-----------------------------------------------------------------------------
(* The response.                                                           *)

\* ConnectResponse::to_headers
ResponseFields(status, selected) ==
    <<Field(":status", status)>>
    \o (IF selected = None THEN <<>> ELSE <<Field("wt-protocol", Quote(selected))>>)

\* The first wt-protocol field that is a string: find_map in
\* handle_wt_connect_response, with parse_protocol.
Selected(headers) ==
    LET strings == SelectSeq(headers, LAMBDA f : /\ f.name = "wt-protocol" /\ IsUtf8(f.value)
                                                  /\ ParseItem(f.value) # NotAString)
    IN  IF strings = <<>> THEN None ELSE ParseItem(strings[1].value)

\* is_protocol_valid, and the same check in handle_wt_connect_response.
IsProtocolValid(selected, available) ==
    IF selected = None THEN available = <<>>
    ELSE \E i \in DOMAIN available : available[i] = selected
=============================================================================
