----------------------------- MODULE H3Settings -----------------------------
(***************************************************************************)
(* SETTINGS (settings.rs, frame/mod.rs, webtransport/settings.rs): the     *)
(* parameters, their form on the wire, and what two endpoints conclude     *)
(* from each other's: the WebTransport draft in use                        *)
(* (connection/wt_session.rs, webtransport/connect/draft.rs) and flow      *)
(* control.                                                                *)
(***************************************************************************)
EXTENDS Integers, Sequences, SequencesExt

Absent == -1

H3Ids == <<"QPACK_MAX_TABLE_CAPACITY", "MAX_FIELD_SECTION_SIZE", "QPACK_BLOCKED_STREAMS",
           "ENABLE_CONNECT_PROTOCOL", "H3_DATAGRAM">>
\* VarInt fields, for which 0 stands for absent.
WtVarIntIds == <<"WT_ENABLED", "WT_ENABLED_DRAFT17", "WT_INITIAL_MAX_STREAMS_UNI",
                 "WT_INITIAL_MAX_STREAMS_BIDI", "WT_INITIAL_MAX_DATA">>
\* Option fields.
WtOptionIds == <<"ENABLE_WEBTRANSPORT_DRAFT02", "WEBTRANSPORT_MAX_SESSIONS_DRAFT07",
                 "WT_MAX_SESSIONS_DRAFT14">>
WtIds == WtVarIntIds \o WtOptionIds
Ids == H3Ids \o WtIds

\* A SETTINGS payload: parameters that mean something, one that does not, and
\* one that HTTP/3 reserves.
Names == Range(Ids) \cup {"GREASE", "HTTP2"}
Payloads == Seq(Names \X Nat)

\* Settings: the fields, and whether wt_settings is there at all.
NoSettings == [wt |-> FALSE, v |-> [id \in Range(Ids) |-> Absent]]

\* The elements of seq at the positions in places, in their order.
Picked(seq, places) ==
    LET At(i) == CHOOSE j \in places : Cardinality({m \in places : m <= j}) = i
    IN  [i \in 1 .. Cardinality(places) |-> seq[At(i)]]

With(s, id, n) == [s EXCEPT !.v[id] = n]

\* webtransport::Settings::new
EmptyWt(s) ==
    [wt |-> TRUE,
     v |-> [id \in Range(Ids) |-> IF id \in Range(WtVarIntIds) THEN 0 ELSE s.v[id]]]

-----------------------------------------------------------------------------
(* The wire.                                                               *)

\* Settings::iter of both kinds, and the GREASE parameter.
Writes(s, id) ==
    /\ id \in Range(WtIds) => s.wt
    /\ s.v[id] # Absent
    /\ id \in Range(WtVarIntIds) => s.v[id] # 0
FromSettings(s) ==
    LET fields == [i \in DOMAIN Ids |-> <<Ids[i], s.v[Ids[i]]>>]
    IN  Append(Picked(fields, {i \in DOMAIN Ids : Writes(s, Ids[i])}), <<"GREASE", 0>>)

BoolIds == {"ENABLE_CONNECT_PROTOCOL", "H3_DATAGRAM", "ENABLE_WEBTRANSPORT_DRAFT02"}

\* Setting::from_wire refuses, or SettingsPayload::add does.
InvalidSetting(payload) ==
    \E i \in DOMAIN payload :
       \/ payload[i][1] = "HTTP2"                               \* is_http2_only_id
       \/ payload[i][1] \in BoolIds /\ payload[i][2] > 1        \* check_bool
       \/ \E j \in 1 .. i - 1 : payload[j][1] = payload[i][1]   \* DuplicateId

\* Settings::from_payload: without any WebTransport parameter there are no
\* WebTransport settings.
FromPayload(payload) ==
    LET sent == {p[1] : p \in Range(payload)}
        value(id) == (CHOOSE p \in Range(payload) : p[1] = id)[2]
        wt == sent \cap Range(WtIds) # {}
    IN  [wt |-> wt,
         v |-> [id \in Range(Ids) |-> IF id \in sent THEN value(id)
                                      ELSE IF wt /\ id \in Range(WtVarIntIds) THEN 0
                                      ELSE Absent]]

-----------------------------------------------------------------------------
(* Drafts.                                                                 *)

\* DRAFT_SELECTION_ORDER
DraftOrder == <<"17", "15", "07", "14", "02">>
NoDraft == "none"

DraftId(d) ==
    CASE d = "17" -> "WT_ENABLED_DRAFT17"
      [] d = "15" -> "WT_ENABLED"
      [] d = "14" -> "WT_MAX_SESSIONS_DRAFT14"
      [] d = "07" -> "WEBTRANSPORT_MAX_SESSIONS_DRAFT07"
      [] d = "02" -> "ENABLE_WEBTRANSPORT_DRAFT02"

\* advertises_draft_version
Advertises(s, d) == s.wt /\ s.v[DraftId(d)] > 0

\* The first draft, in the order of DRAFT_SELECTION_ORDER, that both advertise.
FirstMutualDraft(a, b) ==
    LET mutual == {i \in DOMAIN DraftOrder : \A s \in {a, b} : Advertises(s, DraftOrder[i])}
    IN  IF mutual = {} THEN NoDraft
        ELSE DraftOrder[CHOOSE i \in mutual : \A j \in mutual : i <= j]

\* detect_draft_pattern
DetectDraftPattern(s) == FirstMutualDraft(s, s)
IsEnabled(s) == DetectDraftPattern(s) # NoDraft

InitialMaxima == {"WT_INITIAL_MAX_STREAMS_UNI", "WT_INITIAL_MAX_STREAMS_BIDI",
                  "WT_INITIAL_MAX_DATA"}

\* Settings::for_draft_versions: the code points of drafts.
ForDraftVersions(drafts, sessions) ==
    LET value(d) == IF d \in {"07", "14"} THEN (IF sessions = 0 THEN Absent ELSE sessions) ELSE 1
        of(id) == CHOOSE d \in drafts : DraftId(d) = id
    IN  [EmptyWt(NoSettings) EXCEPT
           !.v = [id \in Range(Ids) |->
                    IF \E d \in drafts : DraftId(d) = id THEN value(of(id)) ELSE @[id]]]

\* wt_initial_max_streams_uni, wt_initial_max_streams_bidi, wt_initial_max_data
WithMaxima(s, n) ==
    [s EXCEPT !.v = [id \in Range(Ids) |-> IF id \in InitialMaxima THEN n ELSE @[id]]]

\* DraftVersion::build_server_settings: Safari finds draft 07 and 14 together,
\* and no initial maxima.
BuildServerSettings(d, n) ==
    LET s == ForDraftVersions(IF d = "14" THEN {"14", "07"} ELSE {d}, 1)
    IN  IF d \in {"15", "17"} THEN WithMaxima(s, n) ELSE s

\* DraftVersion::build_client_settings
BuildClientSettings(d, n) ==
    LET s == ForDraftVersions({d}, 1)
    IN  IF d \in {"14", "15", "17"} THEN WithMaxima(s, n) ELSE s

\* Settings::enable_webtransport_server, Settings::enable_webtransport_client
EnableWebtransport(role, s) ==
    [s EXCEPT !.v["H3_DATAGRAM"] = 1,
              !.v["ENABLE_CONNECT_PROTOCOL"] = IF role = "server" THEN 1 ELSE @]

\* Mutant: a server goes by its own preference.
SelectOwnDraft(role, local, peer) ==
    IF ~local.wt THEN NoDraft
    ELSE IF role = "client" THEN FirstMutualDraft(local, peer)
    ELSE DetectDraftPattern(local)

\* select_wt_draft_version, once the peer's SETTINGS are there.
SelectDraft(role, local, peer) ==
    LET mutual == FirstMutualDraft(local, peer)
    IN  IF ~local.wt \/ (role = "client" /\ ~peer.wt) THEN NoDraft
        ELSE IF mutual # NoDraft THEN mutual
        ELSE IF role = "client"
             THEN IF ~IsEnabled(local) /\ Advertises(peer, "17") THEN "17" ELSE NoDraft
             ELSE IF Advertises(local, "17") THEN "17" ELSE NoDraft

AdvertisesWtEnabled(s) == s.wt /\ (s.v["WT_ENABLED"] > 0 \/ s.v["WT_ENABLED_DRAFT17"] > 0)

\* DraftVersion::requires_enable_connect_protocol, requires_reset_stream_at
RequiresConnect(d) == d \in {"07", "14", "15", "17"}
RequiresResetAt(d) == d \in {"14", "15", "17"}

\* is_wt_fully_negotiated: transport says whether the transport parameters
\* were verified, and reset_stream_at found.
FullyNegotiated(role, local, peer, transport) ==
    LET d == SelectDraft(role, local, peer)
    IN  /\ local.wt /\ (role = "server" => IsEnabled(local))
        /\ peer.v["H3_DATAGRAM"] = 1
        /\ transport.verified
        /\ IF d = NoDraft THEN role = "server" /\ ~AdvertisesWtEnabled(local)
           ELSE /\ role = "client" /\ RequiresConnect(d) => peer.v["ENABLE_CONNECT_PROTOCOL"] = 1
                /\ RequiresResetAt(d) => transport.resetAt

\* declares_flow_control
DeclaresFlowControl(s) ==
    \/ ~AdvertisesWtEnabled(s) /\ s.v["WT_MAX_SESSIONS_DRAFT14"] > 1
    \/ \E id \in InitialMaxima : s.v[id] # 0

\* is_wt_flow_control_enabled
FlowControlEnabled(local, peer) ==
    local.wt /\ peer.wt /\ DeclaresFlowControl(local) /\ DeclaresFlowControl(peer)

\* The limits of a resumed connection (previous_wt_settings) must not shrink:
\* whether they are compared, and whether they did.
ComparesPrevious(local, peer) ==
    LET d == SelectDraft("client", local, peer)
    IN  \/ d \in {"14", "15"}
        \/ /\ d = NoDraft
           /\ Advertises(local, "14") \/ Advertises(local, "15")
           /\ ~Advertises(local, "17") /\ ~Advertises(peer, "17")

Decreases(local, peer, previous) ==
    LET d == SelectDraft("client", local, peer)
        at(s, id) == IF s.wt /\ s.v[id] # Absent THEN s.v[id] ELSE 0
        sessions == d = "14" \/ (d = NoDraft /\ Advertises(local, "14"))
    IN  \/ \E id \in InitialMaxima : at(peer, id) < at(previous, id)
        \/ sessions /\ at(peer, "WT_MAX_SESSIONS_DRAFT14") < at(previous, "WT_MAX_SESSIONS_DRAFT14")
=============================================================================
