---------------------------- MODULE HeaderRules ----------------------------
(***************************************************************************)
(* What makes a field and a field section valid: qpack/header.rs (the      *)
(* check of one field when a Header is built) and validation.rs (the       *)
(* checks of a whole section, which repeat those of one field because a    *)
(* decoded Header was built without them).                                 *)
(*                                                                         *)
(* A name is one of a few strings.  A value is a sequence of characters;   *)
(* a word that the rules compare as a whole is one character of its own.   *)
(* One character stands for its class: "a" is a letter and a hexadecimal   *)
(* digit, "g" a letter that is not, "v" the letter of IPvFuture, "5" a     *)
(* digit, "101" the one number that the rules single out, "DQ" and "BS" a  *)
(* quote and a backslash, "OBS" an octet above 127.                        *)
(***************************************************************************)
EXTENDS Integers, Sequences

Digit == {"5"}
Words == {"CONNECT", "OPTIONS", "GET", "http", "https", "ftp", "trailers", "webtransport", "webtransport-h3"}
Alpha == {"a", "g", "v"} \union Words
HexDigit == {"a", "5"}
AlphaNumeric == Alpha \union Digit
\* is_tchar
TChar == AlphaNumeric \union {"-", ".", "+", "*", "%", "#", "!"}
\* is_pchar: "%" is not one.
PChar == AlphaNumeric \union {"-", ".", "+", "*", "!", ",", ";", ":", "@"}
\* is_reg_name_char, but for "%", which is_valid_reg_name has looked at before.
RegNameChar == AlphaNumeric \union {"-", ".", "+", "*", "!", ",", ";"}
IpFutureChar == HexDigit \union {".", ":", "-", "+", "*", "!", ",", ";"}
Blank == {" ", "HTAB"}
Control == {"NUL"}
Number == {"101", "200"}
\* is_field_vchar
FieldVChar == TChar \union PChar \union Number \union {"/", "?", "[", "]", "DQ", "BS", "OBS"}

All(v, S) == \A i \in DOMAIN v : v[i] \in S
IsToken(v) == v # <<>> /\ All(v, TChar)
Cut(v, i, j) == SubSeq(v, i, j)
FirstAt(v, c) == CHOOSE i \in DOMAIN v : v[i] = c /\ \A j \in 1 .. i - 1 : v[j] # c
LastAt(v, c) == CHOOSE i \in DOMAIN v : v[i] = c /\ \A j \in i + 1 .. Len(v) : v[j] # c
Has(v, c) == \E i \in DOMAIN v : v[i] = c

\* is_valid_field_value
IsFieldValue(v) ==
    v # <<>> => /\ v[1] \in FieldVChar /\ v[Len(v)] \in FieldVChar
                /\ All(v, FieldVChar \union Blank)

\* is_valid_method, is_valid_scheme
IsMethod(v) == IsToken(v)
IsScheme(v) == v # <<>> /\ v[1] \in Alpha /\ All(v, AlphaNumeric \union {"+", "-", "."})

\* is_valid_protocol, check_upgrade_token: token [ "/" token ]
IsProtocol(v) ==
    IF Has(v, "/")
    THEN LET i == FirstAt(v, "/") IN IsToken(Cut(v, 1, i - 1)) /\ IsToken(Cut(v, i + 1, Len(v)))
    ELSE IsToken(v)

-----------------------------------------------------------------------------
(* Paths and authorities, as the loops over their octets.                  *)

\* is_valid_pct_encoded
IsPctEncoded(v, i) == Len(v) >= i + 2 /\ v[i + 1] \in HexDigit /\ v[i + 2] \in HexDigit

\* is_valid_path_chars, is_valid_query_chars, is_valid_reg_name: one loop.
RECURSIVE Chars(_, _, _)
Chars(v, i, S) ==
    IF i > Len(v) THEN TRUE
    ELSE IF v[i] = "%" THEN IsPctEncoded(v, i) /\ Chars(v, i + 3, S)
    ELSE v[i] \in S /\ Chars(v, i + 1, S)
IsPathChars(v) == Chars(v, 1, PChar \union {"/"})
IsQueryChars(v) == Chars(v, 1, PChar \union {"/", "?"})
IsRegName(v) == Chars(v, 1, RegNameChar)

\* is_valid_http_path
IsHttpPath(v, method) ==
    \/ method = <<"OPTIONS">> /\ v = <<"*">>
    \/ /\ v # <<>> /\ v[1] = "/"
       /\ ~Has(v, "#")
       /\ IF Has(v, "?")
          THEN LET i == FirstAt(v, "?")
               IN  IsPathChars(Cut(v, 1, i - 1)) /\ IsQueryChars(Cut(v, i + 1, Len(v)))
          ELSE IsPathChars(v)

\* is_valid_ip_literal_content
IsIpLiteralContent(v) ==
    /\ v # <<>>
    /\ IF v[1] = "v"
       THEN Len(v) >= 4 /\ Has(Tail(v), ".") /\ All(Tail(v), IpFutureChar)
       ELSE All(v, HexDigit \union {":", "."})

\* is_valid_authority
IsAuthority(v) ==
    IF v = <<>> THEN FALSE
    ELSE IF v[1] = "["
    THEN /\ Has(v, "]")
         /\ LET i == FirstAt(v, "]")
                rest == Cut(v, i + 1, Len(v))
            IN  /\ IsIpLiteralContent(Cut(v, 2, i - 1))
                /\ rest # <<>> => rest[1] = ":" /\ All(Tail(rest), Digit)
    ELSE IF Has(v, ":") /\ LET i == LastAt(v, ":") IN i < Len(v) /\ All(Cut(v, i + 1, Len(v)), Digit)
    THEN LET i == LastAt(v, ":") IN i > 1 /\ IsRegName(Cut(v, 1, i - 1))
    ELSE IsRegName(v)

\* is_valid_connect_authority
IsConnectAuthority(v) ==
    IF v = <<>> THEN FALSE
    ELSE IF v[1] = "["
    THEN /\ Has(v, "]")
         /\ LET i == FirstAt(v, "]")
                port == Cut(v, i + 2, Len(v))
            IN  /\ i < Len(v) /\ v[i + 1] = ":"
                /\ IsIpLiteralContent(Cut(v, 2, i - 1))
                /\ port # <<>> /\ All(port, Digit)
    ELSE /\ Has(v, ":")
         /\ LET i == LastAt(v, ":")
                port == Cut(v, i + 1, Len(v))
            IN  i > 1 /\ port # <<>> /\ IsRegName(Cut(v, 1, i - 1)) /\ All(port, Digit)

-----------------------------------------------------------------------------
(* One field: check_header.                                                *)

\* KNOWN_PSEUDO_HEADERS
RequestPseudo == {":method", ":scheme", ":path", ":authority", ":protocol"}
KnownPseudo == RequestPseudo \union {":status"}
\* Names that begin with a colon, and names with an octet that is no
\* lower-case token character.
PseudoNames == KnownPseudo \union {":", ":unknown", ":Method"}
BadNames == {"", "X-Upper", "x y", ":Method"}
IsPseudo(name) == name \in PseudoNames

\* is_lowercase_token_byte, is_valid_field_name_byte, is_valid_field_name
IsFieldName(name) == name \notin BadNames \union PseudoNames

IsStatus(v) == v \in {<<n>> : n \in Number} \union {<<"5", "5", "5">>}

\* check_pseudo_value
CheckPseudoValue(name, v) ==
    CASE name = ":method" -> IsToken(v)
      [] name = ":scheme" -> IsScheme(v)
      [] name = ":status" -> IsStatus(v)
      [] name = ":protocol" -> IsProtocol(v)
      [] OTHER -> TRUE

\* check_header, Header::new, Header::from_static
CheckHeader(f) ==
    /\ IF IsPseudo(f.name) THEN f.name \in KnownPseudo ELSE IsFieldName(f.name)
    /\ IsFieldValue(f.value)
    /\ IsPseudo(f.name) => CheckPseudoValue(f.name, f.value)

-----------------------------------------------------------------------------
(* Sections: the loops of validation.rs, which stop at the first mistake.  *)

ConnectionSpecific == {"connection", "transfer-encoding", "upgrade"}

None == <<"(none)">>
NothingSeen ==
    [ok |-> TRUE, pseudo_done |-> FALSE,
     v |-> [n \in RequestPseudo \union {":status", "host"} |-> None]]
Stop(seen) == [seen EXCEPT !.ok = FALSE]

\* The branch of every loop for a field that is not a pseudo-header field;
\* te is the set of values the te field may have.
RegularOk(f, te) ==
    /\ IsFieldName(f.name)
    /\ f.name \notin ConnectionSpecific
    /\ f.name = "te" => f.value \in te
    /\ IsFieldValue(f.value)

\* Mutant: a second host field replaces the first.
RECURSIVE ScanRequestLastHost(_, _)
ScanRequestLastHost(headers, seen) ==
    IF headers = <<>> THEN seen
    ELSE LET f == Head(headers)
         IN  IF IsPseudo(f.name)
             THEN IF seen.pseudo_done \/ ~IsFieldValue(f.value) \/ f.name \notin RequestPseudo THEN Stop(seen)
                  ELSE IF seen.v[f.name] # None THEN Stop(seen)
                  ELSE ScanRequestLastHost(Tail(headers), [seen EXCEPT !.v[f.name] = f.value])
             ELSE IF ~RegularOk(f, {<<"trailers">>}) THEN Stop(seen)
             ELSE IF f.name = "host"
             THEN ScanRequestLastHost(Tail(headers),
                                      [seen EXCEPT !.pseudo_done = TRUE, !.v["host"] = f.value])
             ELSE ScanRequestLastHost(Tail(headers), [seen EXCEPT !.pseudo_done = TRUE])
RECURSIVE ScanRequest(_, _)
ScanRequest(headers, seen) ==
    IF headers = <<>> THEN seen
    ELSE LET f == Head(headers)
         IN  IF IsPseudo(f.name)
             THEN IF seen.pseudo_done \/ ~IsFieldValue(f.value) \/ f.name \notin RequestPseudo THEN Stop(seen)
                  ELSE IF seen.v[f.name] # None THEN Stop(seen)
                  ELSE ScanRequest(Tail(headers), [seen EXCEPT !.v[f.name] = f.value])
             ELSE IF ~RegularOk(f, {<<"trailers">>}) THEN Stop(seen)
             ELSE IF f.name = "host"
             THEN IF seen.v["host"] # None THEN Stop(seen)
                  ELSE ScanRequest(Tail(headers),
                                   [seen EXCEPT !.pseudo_done = TRUE, !.v["host"] = f.value])
             ELSE ScanRequest(Tail(headers), [seen EXCEPT !.pseudo_done = TRUE])

IsHttpScheme(v) == v \in {<<"http">>, <<"https">>}

\* The three branches on the method.
ExtendedConnectOk(v) ==
    /\ v[":scheme"] # None /\ v[":path"] # None
    /\ IsProtocol(v[":protocol"]) /\ IsScheme(v[":scheme"]) /\ IsHttpPath(v[":path"], v[":method"])
    /\ IsHttpScheme(v[":scheme"]) => v[":authority"] # None \/ v["host"] # None
    /\ v[":authority"] # None /\ v["host"] # None => v[":authority"] = v["host"]
    /\ v[":authority"] # <<>> /\ v["host"] # <<>>
PlainConnectOk(v) ==
    /\ v[":scheme"] = None /\ v[":path"] = None
    /\ v[":authority"] # None /\ IsConnectAuthority(v[":authority"])
OtherMethodOk(v) ==
    /\ v[":protocol"] = None
    /\ v[":scheme"] # None /\ v[":path"] # None
    /\ IsScheme(v[":scheme"])
    /\ v[":path"] # <<>>
    /\ IsHttpScheme(v[":scheme"]) => /\ IsHttpPath(v[":path"], v[":method"])
                                     /\ v[":authority"] # None \/ v["host"] # None

\* validate_request_headers
ValidateRequest(headers) ==
    LET seen == ScanRequest(headers, NothingSeen)
        v == seen.v
        connect == v[":method"] = <<"CONNECT">>
        extended == connect /\ v[":protocol"] # None
    IN  /\ seen.ok
        /\ v[":method"] # None /\ IsMethod(v[":method"])
        /\ IF extended THEN ExtendedConnectOk(v)
           ELSE IF connect THEN PlainConnectOk(v) ELSE OtherMethodOk(v)
        /\ v[":authority"] # None /\ v["host"] # None => v[":authority"] = v["host"]
        /\ v[":authority"] = <<>> => connect
        /\ v["host"] # <<>>
        /\ v[":authority"] = None /\ v["host"] # None => IsAuthority(v["host"])
        /\ IsHttpScheme(v[":scheme"]) /\ v[":authority"] # None => ~Has(v[":authority"], "@")
        /\ (~connect \/ extended) /\ v[":authority"] # None => IsAuthority(v[":authority"])

\* validate_response_headers
RECURSIVE ScanResponse(_, _)
ScanResponse(headers, seen) ==
    IF headers = <<>> THEN seen
    ELSE LET f == Head(headers)
         IN  IF IsPseudo(f.name)
             THEN IF seen.pseudo_done \/ f.name # ":status" \/ seen.v[":status"] # None THEN Stop(seen)
                  ELSE IF ~IsStatus(f.value) \/ f.value = <<"101">> THEN Stop(seen)
                  ELSE ScanResponse(Tail(headers), [seen EXCEPT !.v[":status"] = f.value])
             ELSE IF ~RegularOk(f, {}) THEN Stop(seen)
             ELSE ScanResponse(Tail(headers), [seen EXCEPT !.pseudo_done = TRUE])
ValidateResponse(headers) ==
    LET seen == ScanResponse(headers, NothingSeen) IN seen.ok /\ seen.v[":status"] # None

\* validate_trailer_headers
ValidateTrailers(headers) ==
    \A i \in DOMAIN headers : ~IsPseudo(headers[i].name) /\ RegularOk(headers[i], {})
=============================================================================
