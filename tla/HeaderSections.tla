--------------------------- MODULE HeaderSections ---------------------------
(***************************************************************************)
(* The rules of HeaderRules and ConnectRequests against what they are to   *)
(* mean, over inputs that grow step by step: a valid section that is       *)
(* edited, a text typed character by character, and a handshake between a  *)
(* client that offers protocols and a server that chooses one.             *)
(***************************************************************************)
EXTENDS ConnectRequests, FiniteSets

CONSTANTS
    Templates,   \* sections to begin with
    Fields,      \* fields that an edit inserts
    MaxEdits,    \* the bound on edits
    Alphabets,   \* records: first, chars, most; the texts that are typed
    NameChars,   \* characters of the names of protocols
    MaxNames,    \* the bound on names
    MaxChars     \* the bound on their characters

VARIABLES
    phase,             \* what grows, and how far the handshake is
    section, edits,    \* a field section, and how often it was edited
    alphabet, text,    \* a text, and what it is written in
    names,             \* the protocols the client's application offers
    offer,             \* the section of the request
    kept,              \* the list each end keeps with the session
    choice,            \* what the server's application chose
    verdict            \* the client: "waiting", "established", "closed"

vars == <<phase, section, edits, alphabet, text, names, offer, kept, choice, verdict>>
input == <<section, edits, alphabet, text, names>>
handshake == <<offer, kept, choice, verdict>>

NoAlphabet == [first |-> "none", chars |-> {}, most |-> 0]

Init ==
    /\ \/ phase = "edit" /\ section \in Templates /\ alphabet = NoAlphabet /\ text = <<>>
       \/ phase = "type" /\ section = <<>> /\ alphabet \in Alphabets /\ text = <<alphabet.first>>
       \/ phase = "name" /\ section = <<>> /\ alphabet = NoAlphabet /\ text = <<>>
    /\ edits = 0
    /\ names = <<>>
    /\ offer = <<>>
    /\ kept = [client |-> <<>>, server |-> <<>>]
    /\ choice = None
    /\ verdict = "waiting"

-----------------------------------------------------------------------------
(* Edits of a section.                                                     *)

Edit(new) ==
    /\ phase = "edit"
    /\ edits < MaxEdits
    /\ section' = new
    /\ edits' = edits + 1
    /\ UNCHANGED <<phase, alphabet, text, names, handshake>>

Insert ==
    \E f \in Fields, i \in 0 .. Len(section) :
       Edit(SubSeq(section, 1, i) \o <<f>> \o SubSeq(section, i + 1, Len(section)))
Remove ==
    \E i \in DOMAIN section :
       Edit(SubSeq(section, 1, i - 1) \o SubSeq(section, i + 1, Len(section)))

Type ==
    /\ phase = "type"
    /\ Len(text) < alphabet.most
    /\ \E c \in alphabet.chars : text' = Append(text, c)
    /\ UNCHANGED <<phase, section, edits, alphabet, names, handshake>>

-----------------------------------------------------------------------------
(* The handshake.                                                          *)

AddName ==
    /\ phase = "name"
    /\ Len(names) < MaxNames
    /\ names' = Append(names, <<>>)
    /\ UNCHANGED <<phase, section, edits, alphabet, text, handshake>>

AddChar ==
    /\ phase = "name"
    /\ names # <<>> /\ Len(names[Len(names)]) < MaxChars
    /\ \E c \in NameChars : names' = [names EXCEPT ![Len(names)] = Append(@, c)]
    /\ UNCHANGED <<phase, section, edits, alphabet, text, handshake>>

OfferOf(list) ==
    Request("webtransport-h3", <<"https">>, <<"a">>, <<"/">>, None, list)

\* The list of the first wt-available-protocols field: send_request_inner at
\* the client, register_wt_connect_session at the server.
Available(headers) ==
    LET lists == SelectSeq(headers, LAMBDA f : f.name = "wt-available-protocols")
    IN  IF lists = <<>> \/ ~IsUtf8(lists[1].value) THEN <<>> ELSE ParseList(lists[1].value)

\* The client's application builds the request and sends it.
Send ==
    /\ phase = "name"
    /\ CanWrite(RequestFields(OfferOf(names)))
    /\ phase' = "sent"
    /\ offer' = RequestFields(OfferOf(names))
    /\ kept' = [kept EXCEPT !.client = Available(offer')]
    /\ UNCHANGED <<input, choice, verdict>>

\* It arrives: the server validates the section and keeps the session's list.
Receive ==
    /\ phase = "sent"
    /\ ValidateRequest(offer)
    /\ phase' = "received"
    /\ kept' = [kept EXCEPT !.server = Available(offer)]
    /\ UNCHANGED <<input, offer, choice, verdict>>

\* The server's application chooses one of them, if there are any, and
\* answers; the client reads the response.
Choose ==
    /\ phase = "received"
    /\ \E s \in IF kept.server = <<>> THEN {None} ELSE {kept.server[i] : i \in DOMAIN kept.server} :
          LET response == ResponseFields(<<"200">>, s)
          IN  /\ CanWrite(response)
              /\ phase' = "answered"
              /\ choice' = s
              /\ verdict' = IF IsProtocolValid(Selected(response), kept.client)
                            THEN "established" ELSE "closed"
    /\ UNCHANGED <<input, offer, kept>>

Next == Insert \/ Remove \/ Type \/ AddName \/ AddChar \/ Send \/ Receive \/ Choose

Spec == Init /\ [][Next]_vars

-----------------------------------------------------------------------------
(* What the rules are to mean: the grammars of the RFCs, without a loop.   *)

PctOk(v) == \A i \in DOMAIN v : v[i] = "%" => IsPctEncoded(v, i)
RegNameGrammar(v) == All(v, RegNameChar \union {"%"}) /\ PctOk(v)
IpLiteralGrammar(v) ==
    /\ Len(v) >= 2 /\ v[1] = "[" /\ v[Len(v)] = "]"
    /\ IsIpLiteralContent(Cut(v, 2, Len(v) - 1))
\* host [ ":" port ]; a port may be empty behind an IP literal.
AuthorityGrammar(v, port_required) ==
    \E i \in 1 .. Len(v) :
       LET host == Cut(v, 1, i)
           rest == Cut(v, i + 1, Len(v))
       IN  /\ RegNameGrammar(host) \/ IpLiteralGrammar(host)
           /\ IF rest = <<>> THEN ~port_required
              ELSE /\ rest[1] = ":" /\ All(Tail(rest), Digit)
                   /\ Tail(rest) = <<>> => ~port_required /\ IpLiteralGrammar(host)
PathGrammar(v, method) ==
    \/ method = <<"OPTIONS">> /\ v = <<"*">>
    \/ v # <<>> /\ v[1] = "/" /\ All(v, PChar \union {"/", "?", "%"}) /\ PctOk(v)

Named(s, name) == {i \in DOMAIN s : s[i].name = name}
Once(s, name) == Cardinality(Named(s, name)) = 1
ValueOf(s, name) == s[CHOOSE i \in Named(s, name) : TRUE].value
PseudoFirst(s) ==
    \A i, j \in DOMAIN s : IsPseudo(s[j].name) /\ ~IsPseudo(s[i].name) => j < i
PseudoAre(s, required, allowed) ==
    /\ \A n \in required : Once(s, n)
    /\ \A i \in DOMAIN s : IsPseudo(s[i].name) => s[i].name \in allowed /\ Once(s, s[i].name)
PlainFields(s, te) == \A i \in DOMAIN s : ~IsPseudo(s[i].name) => RegularOk(s[i], te)

\* RFC 9114 Sections 4.2, 4.3.1 and 4.4: a request with its kind.
RequestGrammar(s) ==
    LET connect == Once(s, ":method") /\ ValueOf(s, ":method") = <<"CONNECT">>
        extended == connect /\ Named(s, ":protocol") # {}
        http == Once(s, ":scheme") /\ IsHttpScheme(ValueOf(s, ":scheme"))
        target == Named(s, ":authority") \union Named(s, "host")
    IN  /\ PseudoFirst(s)
        /\ PlainFields(s, {<<"trailers">>})
        /\ CASE extended -> PseudoAre(s, {":method", ":protocol", ":scheme", ":path"}, RequestPseudo)
             [] connect /\ ~extended -> PseudoAre(s, {":method", ":authority"}, {":method", ":authority"})
             [] OTHER -> PseudoAre(s, {":method", ":scheme", ":path"}, RequestPseudo \ {":protocol"})
        /\ \A i \in DOMAIN s : CheckHeader(s[i])
        /\ (http \/ extended) => PathGrammar(ValueOf(s, ":path"), ValueOf(s, ":method"))
        /\ Named(s, ":path") # {} => ValueOf(s, ":path") # <<>>
        /\ http => target # {}
        /\ Cardinality(Named(s, "host")) <= 1
        /\ \A i, j \in target : s[i].value = s[j].value
        /\ \A i \in target : AuthorityGrammar(s[i].value, connect /\ ~extended)

-----------------------------------------------------------------------------
(* Properties.                                                             *)

\* TypeOK: inputs within their bounds; both ends keep the same list, and the
\* request a client can write is one a server accepts.
TypeOK ==
    /\ edits \in 0 .. MaxEdits
    /\ phase = "type" => Len(text) \in 1 .. alphabet.most
    /\ phase = "sent" => ValidateRequest(offer)
    /\ phase \in {"received", "answered"} => kept.server = kept.client
    /\ Len(kept.client) <= MaxSfElements

\* RequestRulesExact: validate_request_headers accepts exactly the sections
\* of the grammar, whatever the order, number and values of the fields: its
\* loop and its branches overlook no combination.
RequestRulesExact == phase = "edit" => (ValidateRequest(section) <=> RequestGrammar(section))

\* ResponseRulesExact: validate_response_headers and validate_trailer_headers
\* likewise; no section is both a request and a response, and one that is a
\* trailer section is neither.
ResponseRulesExact ==
    phase = "edit" /\ section # <<>> =>
        /\ ValidateResponse(section) <=>
              /\ PseudoFirst(section) /\ PlainFields(section, {})
              /\ PseudoAre(section, {":status"}, {":status"})
              /\ IsStatus(ValueOf(section, ":status")) /\ ValueOf(section, ":status") # <<"101">>
        /\ ~(ValidateRequest(section) /\ ValidateResponse(section))
        /\ ValidateTrailers(section) => ~ValidateRequest(section) /\ ~ValidateResponse(section)

\* SameRules: a decoded section that passes validation holds no field that
\* Header::new would have refused ("the two layers are equivalent").
SameRules ==
    phase = "edit" /\ (ValidateRequest(section) \/ ValidateResponse(section) \/ ValidateTrailers(section)) =>
        \A i \in DOMAIN section : CheckHeader(section[i])

\* TargetsExact: authorities and paths are accepted exactly when the grammar
\* of RFC 3986 derives them (is_valid_authority, is_valid_connect_authority,
\* is_valid_http_path).
TargetsExact ==
    phase = "type" =>
        /\ IsAuthority(text) <=> AuthorityGrammar(text, FALSE)
        /\ IsConnectAuthority(text) <=> AuthorityGrammar(text, TRUE)
        /\ \A m \in {"GET", "OPTIONS"} : IsHttpPath(text, <<m>>) <=> PathGrammar(text, <<m>>)

\* RulesExact: the checks of fields and sections accept what their grammars
\* derive and nothing else: RequestRulesExact, ResponseRulesExact, SameRules and
\* TargetsExact (validation.rs, Header::new).
RulesExact == RequestRulesExact /\ ResponseRulesExact /\ SameRules /\ TargetsExact

\* ConnectRead: a request that validation accepts as one for a WebTransport
\* session is read by ConnectRequest::from_headers, with the values that the
\* validation looked at, and its scheme, authority and path are those that
\* ConnectRequest::validate asks for unless the request names another scheme
\* or carries its authority in host.
ConnectRead ==
    phase = "edit" /\ ValidateRequest(section) /\ Named(section, ":protocol") # {} =>
        LET r == FromHeaders(section)
        IN  /\ ValueOf(section, ":protocol")[1] \in Tokens /\ Len(ValueOf(section, ":protocol")) = 1
                  <=> ~IsRefused(r) \/ r = Refused("InvalidEncoding")
            /\ r = Refused("InvalidEncoding") => \E i \in DOMAIN section : section[i].name \in Texts /\ ~IsUtf8(section[i].value)
            /\ ~IsRefused(r) =>
                  /\ r.scheme = ValueOf(section, ":scheme") /\ r.path = ValueOf(section, ":path")
                  /\ ValidateConnect(r) <=> r.scheme = <<"https">> /\ Named(section, ":authority") # {}

\* ProtocolAgreed: what the server's application chose is what the client's
\* application offered, and the client reads that very name and keeps the
\* session; a list without a comma in a name and within the bound arrives
\* whole, any other arrives empty, never in part.
ProtocolAgreed ==
    /\ phase \in {"received", "answered"} =>
          kept.server = IF Len(names) <= MaxSfElements /\ \A i \in DOMAIN names : ~Has(names[i], ",")
                        THEN names ELSE <<>>
    /\ verdict # "closed"
    /\ choice # None => /\ \E i \in DOMAIN names : names[i] = choice
                                     /\ Selected(ResponseFields(<<"200">>, choice)) = choice

\* HandshakeAgrees: client and server read the CONNECT request and its response
\* alike: TypeOK, ConnectRead and ProtocolAgreed (ConnectRequest, ConnectResponse,
\* parse_sf_list_strings).
HandshakeAgrees == TypeOK /\ ConnectRead /\ ProtocolAgreed
=============================================================================
