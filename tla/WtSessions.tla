----------------------------- MODULE WtSessions -----------------------------
(***************************************************************************)
(* WebTransport over one Connection: the sessions of connection/wt_*.rs    *)
(* and their branches in connection/mod.rs.  A session lives on a CONNECT  *)
(* stream and owns the data streams whose header names it.  Streams,       *)
(* datagrams and capsules may arrive before the session, before SETTINGS,  *)
(* or after the session has ended.                                         *)
(*                                                                         *)
(* The handlers call each other while they hold &mut self, so they are     *)
(* operators on c, the state of the Connection, and an action is one call  *)
(* of the application or of QUIC.                                          *)
(*                                                                         *)
(* A data stream starts with a header of HeaderLen bytes: a type or signal *)
(* value of TypeLen bytes and the session id.  Of its payload only the     *)
(* number of bytes matters.  QPACK appears as the parking of a CONNECT     *)
(* section; DATA frames carry whole capsules or the head of one ("half").  *)
(***************************************************************************)
EXTENDS WtFlowControl, Sequences, FiniteSets, SequencesExt

CONSTANTS
    Sessions,           \* ids of CONNECT streams
    PeerUni, PeerBidi,  \* WebTransport streams the peer opens
    LocalUni, LocalBidi,\* and those the application opens
    UniLimit, BidiLimit, DataWindow,    \* local SETTINGS_WT_INITIAL_MAX_*
    MaxBuffered,        \* MAX_BUFFERED_STREAMS
    MaxBufferedBytes,   \* WT_MAX_BUFFERED_STREAM_BYTES
    MaxDatagrams,       \* MAX_BUFFERED_DATAGRAMS
    MaxPending,         \* WT_MAX_PENDING_SESSIONS
    MaxDeferred,        \* MAX_DEFERRED_WT_CONNECTS
    MaxCapsules,        \* PENDING_CAPSULE_BUF_LIMIT, MAX_DEFERRED_DATA_BYTES
    GoawayIds,          \* ids a GOAWAY may carry
    Scopes              \* bounds: what a behaviour explores

TypeLen == 2        \* the varints 0x54 and 0x41 take two bytes
HeaderLen == 3      \* and a session id below 64 one
NoSession == -1
NoGoaway == -1
BadId == -2         \* a session id that is no client-initiated bidirectional stream

Peers == PeerUni \cup PeerBidi
Locals == LocalUni \cup LocalBidi
Streams == Peers \cup Locals
Bidi(s) == s \in PeerBidi \cup LocalBidi

\* What the section of a CONNECT stream holds.  A server reads requests:
\* "forbidden" ones carry content-length or content-type, "mismatched" ones the
\* wrong :protocol or :scheme.  A client reads responses.
Requests == {"ok", "forbidden", "mismatched"}
Responses == {"2xx", "badproto", "forbidden", "refusal"}

CapsuleKinds == {"close", "drain", "fc", "unknown", "prohibited", "bad", "half"}

\* The end it is, whether flow control is on (is_wt_flow_control_enabled), the
\* sessions and streams in use, what the sections of CONNECT streams hold and
\* whether they may wait for QPACK, the DATA frames of a CONNECT stream as
\* sequences of capsules, the header bytes of one chunk; and how many frames,
\* payload bytes per stream, datagrams and GOAWAYs there are.
Scope ==
    [role : {"Client", "Server"}, fc : BOOLEAN, sessions : SUBSET Sessions,
     streams : SUBSET Streams, sections : SUBSET (Requests \cup Responses),
     parking : SUBSET BOOLEAN, capsules : SUBSET Seq(CapsuleKinds),
     chunks : SUBSET (0 .. HeaderLen), frames : Nat, payload : Nat, grams : Nat,
     goaways : SUBSET GoawayIds]

ASSUME WtAssumption ==
    /\ IsFiniteSet(Sessions) /\ \A i \in Sessions \cup GoawayIds : i \in Nat /\ i % 4 = 0
    /\ IsFiniteSet(Streams) /\ Streams \cap Sessions = {}
    /\ PeerUni \cap PeerBidi = {} /\ LocalUni \cap LocalBidi = {} /\ Peers \cap Locals = {}
    /\ {UniLimit, BidiLimit, DataWindow, MaxBuffered, MaxBufferedBytes, MaxDatagrams,
        MaxPending, MaxDeferred, MaxCapsules} \subseteq Nat
    /\ Scopes \subseteq Scope

VARIABLES
    scope,      \* what this behaviour explores
    c,          \* the Connection
    net         \* (history) what QUIC and the application did

vars == <<scope, c, net>>

role == scope.role
fc == scope.fc

Absent == [here |-> FALSE, bytes |-> 0, fin |-> FALSE]

\* WtSession::new
NewSession ==
    [state |-> "Pending", assoc |-> {}, order |-> <<>>,
     entry |-> [s \in Streams |-> Absent],      \* buffered_stream_entries
     grams |-> 0, caps |-> <<>>,                \* buffered_datagrams, capsule_buf
     on |-> FALSE, uni |-> NewFlowControl(0), bidi |-> NewFlowControl(0),
     data |-> NewFlowControl(0),
     tracked |-> [s \in Streams |-> 0]]         \* stream_received_data

NoSes == [NewSession EXCEPT !.state = "None"]   \* no entry in wt_sessions

\* Events of a data stream: the session it was opened for, payload bytes, End,
\* StreamReset, how often reset_streams listed it, BufferedStreamRejected.
NoEvents == [open |-> NoSession, bytes |-> 0, end |-> FALSE, reset |-> FALSE,
             listed |-> 0, rejected |-> FALSE]

Init ==
    /\ scope \in Scopes
    /\ c = [settings |-> "none",                        \* peer_settings
            ses |-> [i \in Sessions |-> NoSes],         \* wt_sessions
            closed |-> {},                              \* closed_wt_sessions
            reg |-> [s \in Streams |-> NoSession],      \* wt_uni_streams, wt_bidi_streams
            wait |-> [s \in Streams |-> 0],             \* header bytes of a pending stream
            pre |-> [s \in Streams |-> Absent],         \* pending_wt_bidi_pre_negotiation
            ignored |-> {},                             \* ignored_pre_negotiation_wt_bidi
            deferred |-> {},                            \* deferred_wt_connects
            body |-> [i \in Sessions |-> <<>>],         \* their recv_body
            conn |-> [i \in Sessions |-> "none"],       \* the CONNECT stream in streams
            out |-> [i \in Sessions |-> [data |-> FALSE, fin |-> FALSE]],  \* its send buffer
            shown |-> {},                               \* CONNECTs reported (HeadersEnd)
            index |-> {},                               \* blocked_by_ricnt
            goaway |-> NoGoaway,
            err |-> "none",
            ev |-> [s \in Streams |-> NoEvents],
            est |-> [i \in Sessions |-> 0],             \* SessionEstablished events
            gone |-> [i \in Sessions |-> 0],            \* SessionClosed events
            grams |-> [i \in Sessions |-> 0]]           \* Datagram events
    /\ net = [head |-> [s \in Streams |-> 0],           \* header bytes that arrived
              to |-> [s \in Streams |-> NoSession],     \* the session it names
              fed |-> [s \in Streams |-> 0],            \* payload bytes that arrived
              fin |-> {}, reset |-> {},                 \* data streams finished, reset
              lost |-> [s \in Streams |-> 0],           \* payload only a reset counted
              refused |-> {},                           \* an Err(StreamError) gave it up
              stray |-> {},                             \* late chunks taken for new streams
              what |-> [i \in Sessions |-> "none"],     \* the CONNECT, or its response
              over |-> {},                              \* CONNECT streams ended or reset
              frames |-> [i \in Sessions |-> 0],
              answered |-> {},                          \* CONNECTs with a response
              asked |-> {}, finned |-> {},              \* FIN queued; FIN taken
              eaten |-> [i \in Sessions |-> 0],         \* bytes the application consumed
              grams |-> 0]

-----------------------------------------------------------------------------
(* WtSession: flow control and buffers.                                    *)

Pick(ses, bidi) == IF bidi THEN ses.bidi ELSE ses.uni
WithFc(ses, bidi, f) ==
    IF bidi THEN [ses EXCEPT !.bidi = f] ELSE [ses EXCEPT !.uni = f]

CheckReceivedStream(ses, bidi) == ~ses.on \/ CheckReceived(Pick(ses, bidi), 1)
CheckReceivedData(ses, n) == ~ses.on \/ CheckReceived(ses.data, n)

AddReceivedStream(ses, bidi) ==
    IF ses.on THEN WithFc(ses, bidi, OnReceived(Pick(ses, bidi), 1)) ELSE ses

AddReceivedData(ses, n) == IF ses.on THEN [ses EXCEPT !.data = OnReceived(@, n)] ELSE ses

\* Mutant: the per-stream account is not kept.
AddUntracked(ses, s, n) == AddReceivedData(ses, n)

\* add_received_data_and_track
AddAndTrack(ses, s, n) == [AddReceivedData(ses, n) EXCEPT !.tracked[s] = @ + n]

OnRemoteStreamClosed(ses, bidi) ==
    IF ses.on THEN WithFc(ses, bidi, OnStreamClosed(Pick(ses, bidi))) ELSE ses

Consume(ses, n) == IF ses.on THEN [ses EXCEPT !.data = OnDataConsumed(@, n)] ELSE ses

Buffer(ses, s) ==
    [ses EXCEPT !.order = Append(@, s), !.entry[s] = [Absent EXCEPT !.here = TRUE]]

\* append_buffered_stream_data would succeed.
Fits(ses, s, n) == ses.entry[s].here /\ ses.entry[s].bytes + n <= MaxBufferedBytes

Pending(x, i) == x.ses[i].state = "Pending"
Exists(x, i) == x.ses[i].state # "None"
CountPending(x) == Cardinality({i \in Sessions : Pending(x, i)})
CountActive(x) == Cardinality({i \in Sessions : Exists(x, i)})

\* is_wt_fully_negotiated: the peer's SETTINGS are there and allow WebTransport.
Negotiated(x) == x.settings = "wt"

-----------------------------------------------------------------------------
(* Events.                                                                 *)

Open(x, s, i) == [x EXCEPT !.ev[s].open = i]
Data(x, s, n) == [x EXCEPT !.ev[s].bytes = @ + n]
End(x, s) == [x EXCEPT !.ev[s].end = TRUE]
Reject(x, s) == [x EXCEPT !.ev[s].rejected = TRUE]
Unregister(x, s) == [x EXCEPT !.reg[s] = NoSession]

\* The stream of a session that has ended is removed (remove_stream_if_done).
Settle(x, i) == IF i \in x.closed THEN [x EXCEPT !.conn[i] = "gone"] ELSE x

-----------------------------------------------------------------------------
(* wt_session.rs                                                           *)

Times(s, q) == Cardinality({k \in DOMAIN q : q[k] = s})

\* Mutant: only the streams still buffered are listed.
ListedBuffered(ses, s) == Times(s, ses.order)

\* How often reset_streams names s.
Listed(ses, s) == (IF s \in ses.assoc THEN 1 ELSE 0) + Times(s, ses.order)

\* terminate_wt_session_with: the associated streams are unregistered, the
\* buffered ones are only listed.
Terminate(x, i) ==
    LET ses == x.ses[i]
    IN  IF ~Exists(x, i) THEN x
        ELSE [x EXCEPT
                !.ses[i] = NoSes,
                !.closed = @ \cup {i},
                !.gone[i] = @ + 1,
                !.reg = [s \in Streams |-> IF s \in ses.assoc THEN NoSession ELSE @[s]],
                !.ev = [s \in Streams |-> [@[s] EXCEPT !.listed = @ + Listed(ses, s)]]]

\* A Pending session that is dropped without an event (non-2xx, FIN).
Drop(x, i) == [x EXCEPT !.ses[i] = NoSes, !.closed = @ \cup {i}]

\* Mutant: the tombstone is not looked at.
AssociateRevived(x, s, i) ==
    LET ses == x.ses[i]
        buffered(e) == IF Len(e.order) >= MaxBuffered THEN <<"overflow", x>>
                       ELSE <<"buffered", [x EXCEPT !.ses[i] = Buffer(e, s)]>>
    IN  CASE ses.state = "Established" ->
               <<"established", [x EXCEPT !.ses[i].assoc = @ \cup {s}]>>
          [] ses.state = "Pending" -> buffered(ses)
          [] ses.state = "Draining" -> <<"gone", x>>
          [] ses.state = "None" -> IF role = "Client" THEN <<"gone", x>> ELSE buffered(NewSession)

\* associate_or_buffer_stream: <<outcome, connection>>.
AssociateOrBuffer(x, s, i) ==
    LET ses == x.ses[i]
        buffered(e) == IF Len(e.order) >= MaxBuffered THEN <<"overflow", [x EXCEPT !.ses[i] = e]>>
                       ELSE <<"buffered", [x EXCEPT !.ses[i] = Buffer(e, s)]>>
    IN  CASE ses.state = "Established" ->
               <<"established", [x EXCEPT !.ses[i].assoc = @ \cup {s}]>>
          [] ses.state = "Pending" -> buffered(ses)
          [] ses.state = "Draining" -> <<"gone", x>>
          [] ses.state = "None" ->
               IF \/ role = "Client"
                  \/ i \in x.closed
                  \/ x.goaway # NoGoaway /\ i >= x.goaway
               THEN <<"gone", x>>
               ELSE IF CountPending(x) >= MaxPending THEN <<"overflow", x>>
               ELSE buffered(NewSession)

\* A stream opens in an established session: stream credit, Open, data credit,
\* Data.
OpenStream(x, s, i, n) ==
    LET one == [x EXCEPT !.ses[i] = AddReceivedStream(@, Bidi(s))]
        opened == Open(one, s, i)
    IN  IF ~CheckReceivedStream(x.ses[i], Bidi(s)) THEN Terminate(Unregister(x, s), i)
        ELSE IF n = 0 THEN opened
        ELSE IF ~CheckReceivedData(opened.ses[i], n) THEN Terminate(opened, i)
        ELSE Data([opened EXCEPT !.ses[i] = AddAndTrack(@, s, n)], s, n)

\* The header of stream s is complete and names session i; n payload bytes
\* follow (resolve_wt_uni_stream_session_id, resolve_wt_bidi_stream_header).
Resolve(x, s, i, n) ==
    LET r == AssociateOrBuffer([x EXCEPT !.reg[s] = i, !.wait[s] = 0], s, i)
        y == r[2]
    IN  IF i = BadId THEN [x EXCEPT !.err = "H3_ID_ERROR"]
        ELSE CASE r[1] \in {"gone", "overflow"} -> Reject(Unregister(y, s), s)
               [] r[1] = "buffered" ->
                    IF n = 0 THEN y
                    ELSE IF Fits(y.ses[i], s, n) THEN [y EXCEPT !.ses[i].entry[s].bytes = @ + n]
                    ELSE Reject(Unregister([y EXCEPT !.ses[i].entry[s] = Absent], s), s)
               [] r[1] = "established" -> OpenStream(y, s, i, n)

\* Payload on a registered stream (handle_wt_uni_stream_data, the first half of
\* handle_wt_bidi_stream).
Payload(x, s, n) ==
    LET i == x.reg[s]
    IN  IF n = 0 THEN x
        ELSE IF Pending(x, i)
        THEN IF Fits(x.ses[i], s, n) THEN [x EXCEPT !.ses[i].entry[s].bytes = @ + n]
             ELSE Reject(Unregister([x EXCEPT !.ses[i].entry[s] = Absent], s), s)
        ELSE IF ~Exists(x, i) THEN Data(x, s, n)
        ELSE IF ~CheckReceivedData(x.ses[i], n) THEN Terminate(x, i)
        ELSE Data([x EXCEPT !.ses[i] = AddAndTrack(@, s, n)], s, n)

\* Mutant: the credit of a finished stream is not returned.
CloseUncredited(x, s) == [x EXCEPT !.ses[x.reg[s]].tracked[s] = 0]

\* The peer has closed stream s of an established session: its credit returns.
CloseRemote(x, s) ==
    [x EXCEPT !.ses[x.reg[s]] = [OnRemoteStreamClosed(@, Bidi(s)) EXCEPT !.tracked[s] = 0]]

\* FIN on a registered stream.  One of our own streams stays registered.
Fin(x, s) ==
    LET i == x.reg[s]
    IN  IF Pending(x, i)
        THEN [x EXCEPT !.ses[i].entry[s].fin = x.ses[i].entry[s].here]
        ELSE IF s \in Locals THEN End(x, s)
        ELSE End(Unregister(IF Exists(x, i) THEN CloseRemote(x, s) ELSE x, s), s)

\* handle_wt_bidi_stream, handle_wt_uni_stream_data and _fin on a registered
\* stream.  A payload that ends the session or is rejected ends the call.
HandleRegistered(x, s, n, fin) ==
    LET y == Payload(x, s, n)
    IN  IF fin /\ y.reg[s] # NoSession THEN Fin(y, s) ELSE y

\* One iteration of deliver_buffered_streams.  A stream over its limits goes back
\* to the buffer with those behind it (the session is then terminated).
DeliverOne(acc, s) ==
    LET x == acc.x
        i == acc.i
        e == x.ses[i].entry[s]
        back == [acc EXCEPT !.violation = TRUE, !.x.ses[i].order = Append(@, s)]
        open == Open([x EXCEPT !.ses[i] = [AddReceivedStream(@, Bidi(s))
                                             EXCEPT !.assoc = @ \cup {s}]], s, i)
        data == Data([open EXCEPT !.ses[i] = [AddAndTrack(@, s, e.bytes)
                                                EXCEPT !.entry[s] = Absent]], s, e.bytes)
        closed == End([data EXCEPT !.ses[i] = [OnRemoteStreamClosed(@, Bidi(s))
                                                 EXCEPT !.tracked[s] = 0],
                                   !.reg[s] = NoSession], s)
    IN  IF ~e.here THEN acc
        ELSE IF acc.violation THEN [acc EXCEPT !.x.ses[i].order = Append(@, s)]
        ELSE IF ~CheckReceivedStream(x.ses[i], Bidi(s)) THEN back
        ELSE IF e.bytes > 0 /\ ~CheckReceivedData(open.ses[i], e.bytes)
        THEN [back EXCEPT !.x = [open EXCEPT !.ses[i].order = Append(@, s)]]
        ELSE [acc EXCEPT !.x = IF e.fin THEN closed ELSE data]

\* deliver_buffered_streams, and the termination by its caller.
Deliver(x, i) ==
    LET start == [x |-> [x EXCEPT !.ses[i].order = <<>>], i |-> i, violation |-> FALSE]
        r == FoldLeft(DeliverOne, start, x.ses[i].order)
    IN  IF r.violation THEN Terminate(r.x, i)
        ELSE [r.x EXCEPT !.grams[i] = @ + r.x.ses[i].grams, !.ses[i].grams = 0]

\* The session is established (handle_wt_connect_response,
\* establish_wt_session_server, initialize_flow_control).
Establish(x, i) ==
    IF ~Pending(x, i) THEN x
    ELSE Deliver([x EXCEPT
            !.ses[i] = [@ EXCEPT !.state = "Established", !.on = fc,
                                 !.uni = NewFlowControl(UniLimit),
                                 !.bidi = NewFlowControl(BidiLimit),
                                 !.data = NewFlowControl(DataWindow)],
            !.est[i] = @ + 1], i)

-----------------------------------------------------------------------------
(* wt_capsule.rs                                                           *)

\* handle_wt_capsule.  Flow control capsules are passed on without a check.
HandleCapsule(x, i, kind) ==
    CASE kind \in {"close", "prohibited"} -> Terminate(x, i)
      [] kind = "drain" -> [x EXCEPT !.ses[i].state = "Draining"]
      [] OTHER -> x

\* One capsule of process_wt_capsule_data: the k-th of q.
CapsuleLoop(acc, k) ==
    LET i == acc.i
        rest == SubSeq(acc.q, k + 1, Len(acc.q))
        x == HandleCapsule([acc.x EXCEPT !.ses[i].caps = rest], i, acc.q[k])
    IN  IF acc.over \/ ~Exists(acc.x, i) THEN acc
        ELSE IF acc.q[k] = "half" THEN [acc EXCEPT !.over = TRUE]
        ELSE IF acc.q[k] = "bad" \/ (acc.q[k] = "close" /\ rest # <<>>)
        THEN [acc EXCEPT !.over = TRUE, !.failed = TRUE,
                         !.x = IF acc.q[k] = "bad" THEN @ ELSE x]
        ELSE [acc EXCEPT !.x = x]

\* A capsule cut off at the end of the buffer is completed by what follows.
Joined(caps, more) ==
    IF caps # <<>> /\ more # <<>> /\ Last(caps) = "half"
    THEN Append(Front(caps), "unknown") \o more
    ELSE caps \o more

\* process_wt_capsule_data
ProcessCapsules(x, i, more) ==
    LET q == Joined(x.ses[i].caps, more)
    IN  FoldLeft(CapsuleLoop,
                 [x |-> [x EXCEPT !.ses[i].caps = q], i |-> i, q |-> q,
                  over |-> FALSE, failed |-> FALSE],
                 [k \in DOMAIN q |-> k])

-----------------------------------------------------------------------------
(* Data streams: feed_stream.                                              *)

Fail(x, code) == [x EXCEPT !.err = code]

\* handle_new_unidirectional_stream, its 0x54 branch.  FIN on the chunk that
\* completes the header unregisters the stream and nothing else.
NewUni(x, s, head, n, fin, i) ==
    LET y == IF head = HeaderLen THEN Resolve(x, s, i, n) ELSE [x EXCEPT !.wait[s] = head]
        z == IF y.reg[s] # NoSession THEN End(Unregister(y, s), s) ELSE y
    IN  IF fin THEN [z EXCEPT !.wait[s] = 0] ELSE y

\* handle_unidirectional_stream on a stream whose session id is still awaited.
ResumeUni(x, s, head, n, fin, i) ==
    LET y == IF head = HeaderLen THEN Resolve(x, s, i, n) ELSE x
        z == IF y.reg[s] # NoSession THEN Fin(y, s) ELSE y
    IN  IF fin THEN [z EXCEPT !.wait[s] = 0] ELSE y

FeedUni(x, s, head, n, fin, i) ==
    IF x.reg[s] # NoSession THEN HandleRegistered(x, s, n, fin)
    ELSE IF x.wait[s] >= TypeLen THEN ResumeUni(x, s, head, n, fin, i)
    ELSE IF head < TypeLen THEN [x EXCEPT !.wait[s] = IF fin THEN 0 ELSE head]
    ELSE NewUni(x, s, head, n, fin, i)

\* The type of a unidirectional stream is WebTransport and that is not agreed:
\* Err(StreamError).
UniRefused(x, s, head) ==
    s \in PeerUni /\ x.reg[s] = NoSession /\ x.wait[s] < TypeLen /\ head >= TypeLen
    /\ ~Negotiated(x)

\* handle_wt_bidi_stream on a stream whose header is not complete.
BidiHeader(x, s, head, n, fin, i) ==
    LET y == IF head = HeaderLen THEN Resolve(x, s, i, n) ELSE [x EXCEPT !.wait[s] = head]
        z == IF y.reg[s] # NoSession THEN Fin(y, s) ELSE y
    IN  IF fin THEN [z EXCEPT !.wait[s] = 0] ELSE y

RejectPre(x, s) ==
    Reject([x EXCEPT !.ignored = @ \cup {s}, !.pre[s] = Absent, !.wait[s] = 0], s)

\* buffer_pre_negotiation_wt_bidi
BufferPre(x, s, bytes, fin) ==
    IF ~x.pre[s].here /\ Cardinality({p \in Streams : x.pre[p].here}) >= MaxBuffered
    THEN RejectPre(x, s)
    ELSE IF x.pre[s].bytes + bytes > MaxBufferedBytes THEN RejectPre(x, s)
    ELSE [x EXCEPT !.pre[s] = [here |-> TRUE, bytes |-> @.bytes + bytes, fin |-> @.fin \/ fin],
                   !.wait[s] = 0]

\* dispatch_client_bidi_stream
Dispatch(x, s, head, n, fin, i) ==
    IF head < TypeLen
    THEN IF fin THEN Fail(x, "H3_FRAME_ERROR") ELSE [x EXCEPT !.wait[s] = head]
    ELSE IF Negotiated(x) THEN BidiHeader([x EXCEPT !.wait[s] = 0], s, head, n, fin, i)
    ELSE IF x.settings = "plain" THEN RejectPre(x, s)
    ELSE BufferPre(x, s, head + n, fin)

FeedBidi(x, s, more, head, n, fin, i) ==
    IF role = "Client" /\ s \in PeerBidi /\ ~Negotiated(x)
    THEN Fail(x, "H3_STREAM_CREATION_ERROR")
    ELSE IF x.reg[s] # NoSession THEN HandleRegistered(x, s, n, fin)
    ELSE IF role = "Client" \/ x.wait[s] >= TypeLen THEN BidiHeader(x, s, head, n, fin, i)
    ELSE IF s \in x.ignored THEN x
    ELSE IF x.pre[s].here THEN BufferPre(x, s, more + n, fin)
    ELSE Dispatch(x, s, head, n, fin, i)

Ready == c.err = "none"

\* QUIC may deliver on a data stream.
MayArrive(s) == s \notin net.fin \cup net.reset \cup net.refused

\* The header of s is behind it and the connection has forgotten the stream: it
\* was rejected, or its session has ended.
Forgotten(s) ==
    /\ net.head[s] = HeaderLen /\ c.reg[s] = NoSession
    /\ ~c.pre[s].here /\ s \notin c.ignored

\* A chunk of a data stream: more bytes of the header, then payload, then FIN.
\* The header names session i once it is complete.
FeedStream(s, more, n, fin, i) ==
    LET head == net.head[s] + more
    IN  /\ Ready
        /\ MayArrive(s) /\ ~Forgotten(s)
        /\ s \in Locals => s \in LocalBidi /\ c.reg[s] # NoSession
        /\ more > 0 \/ n > 0 \/ fin
        /\ head <= HeaderLen /\ (n > 0 => head = HeaderLen)
        /\ s \in PeerBidi => head > 0      \* an empty stream is a request
        /\ net.fed[s] + n <= scope.payload
        /\ i = (IF net.to[s] # NoSession \/ head < HeaderLen THEN net.to[s] ELSE i)
        /\ head = HeaderLen => i # NoSession
        /\ IF UniRefused(c, s, head)
           THEN /\ net' = [net EXCEPT !.refused = @ \cup {s}, !.head[s] = head]
                /\ c' = [c EXCEPT !.wait[s] = 0]
           ELSE /\ net' = [net EXCEPT !.head[s] = head, !.to[s] = i, !.fed[s] = @ + n,
                                      !.fin = IF fin THEN @ \cup {s} ELSE @]
                /\ c' = IF s \in PeerUni THEN FeedUni(c, s, head, n, fin, i)
                        ELSE FeedBidi(c, s, more, head, n, fin, i)
        /\ UNCHANGED scope

\* Payload of a stream the connection has forgotten is read as the start of a
\* new stream: as a type that may occur once only, or not at all, or as bytes
\* that are of no consequence.  (Payload that spells a WebTransport header is
\* left out.)
FeedForgotten(s, outcome) ==
    /\ Ready
    /\ MayArrive(s) /\ Forgotten(s)
    /\ s \in Peers
    /\ net.fed[s] < scope.payload
    /\ net' = [net EXCEPT !.fed[s] = @ + 1, !.stray = @ \cup {s}, !.refused = @ \cup {s}]
    /\ c' = IF outcome = "none" THEN c ELSE Fail(c, outcome)
    /\ UNCHANGED scope

StrayErrors(s) ==
    IF s \in PeerUni THEN {"H3_STREAM_CREATION_ERROR"}
    ELSE IF role = "Server" THEN {"H3_FRAME_UNEXPECTED"} ELSE {"H3_FRAME_ERROR"}

\* account_wt_stream_reset: what the reset stream still owes.
Residual(x, s, final) ==
    Minus(Minus(final, IF s \in Locals THEN 0 ELSE HeaderLen), x.ses[x.reg[s]].tracked[s])

Disowned(x, s) ==
    Unregister([x EXCEPT !.ses[x.reg[s]] = [@ EXCEPT !.tracked[s] = 0,
                                                      !.assoc = @ \ {s}],
                         !.ev[s].reset = TRUE], s)

\* handle_wt_stream_reset on a registered stream.
ResetRegistered(x, s, final) ==
    LET i == x.reg[s]
        residual == Residual(x, s, final)
        charged == [x EXCEPT !.ses[i] = Consume(AddReceivedData(@, residual), residual)]
        credited == IF s \in Locals THEN charged
                    ELSE [charged EXCEPT !.ses[i] = OnRemoteStreamClosed(@, Bidi(s))]
    IN  IF s \in LocalUni THEN x
        ELSE IF ~Exists(x, i) THEN [Unregister(x, s) EXCEPT !.ev[s].reset = TRUE]
        ELSE IF ~CheckReceivedData(x.ses[i], residual) THEN Terminate(x, i)
        ELSE Disowned(credited, s)

\* handle_wt_stream_reset on a data stream.
HandleReset(x, s, final) ==
    LET buffered == {i \in Sessions : x.ses[i].entry[s].here}
        unbuffered == [x EXCEPT !.ses = [i \in Sessions |->
                          [@[i] EXCEPT !.order = SelectSeq(@, LAMBDA p : p # s),
                                       !.entry[s] = Absent]]]
    IN  IF x.pre[s].here THEN [x EXCEPT !.pre[s] = Absent, !.ignored = @ \cup {s}]
        ELSE IF s \in x.ignored THEN x
        ELSE IF buffered # {} \/ x.reg[s] = NoSession THEN unbuffered
        ELSE ResetRegistered(unbuffered, s, final)

\* stream_reset on a data stream: RESET_STREAM with a final size that counts
\* extra payload that never arrived.  FIN may have been received before.
StreamReset(s, extra) ==
    /\ Ready
    /\ s \notin net.reset \cup net.refused
    /\ net.head[s] > 0
    /\ extra > 0 => s \notin net.fin /\ net.head[s] = HeaderLen
    /\ net.fed[s] + extra <= scope.payload
    /\ net' = [net EXCEPT !.reset = @ \cup {s}, !.lost[s] = extra]
    /\ c' = HandleReset(IF c.wait[s] = 1 /\ s \in PeerBidi /\ role = "Server"
                        THEN [c EXCEPT !.wait[s] = 0] ELSE c, s,
                        (IF s \in Locals THEN 0 ELSE net.head[s]) + net.fed[s] + extra)
    /\ UNCHANGED scope

\* register_local_wt_stream
RegisterLocal(s, i) ==
    /\ Ready
    /\ c.reg[s] = NoSession /\ net.head[s] = 0
    /\ c.ses[i].state = "Established"
    /\ c' = Open([c EXCEPT !.ses[i].assoc = @ \cup {s}, !.reg[s] = i], s, i)
    /\ net' = [net EXCEPT !.head[s] = HeaderLen, !.to[s] = i]
    /\ UNCHANGED scope

\* feed_datagram
FeedDatagram(i) ==
    LET room == c.ses[i].grams < MaxDatagrams
        more(ses) == [ses EXCEPT !.grams = @ + 1]
    IN  /\ Ready
        /\ Negotiated(c)
        /\ net.grams < scope.grams
        /\ net' = [net EXCEPT !.grams = @ + 1]
        /\ c' = CASE c.ses[i].state \in {"Established", "Draining"} ->
                       [c EXCEPT !.grams[i] = @ + 1]
                  [] Pending(c, i) -> IF room THEN [c EXCEPT !.ses[i] = more(@)] ELSE c
                  [] OTHER ->
                       IF \/ i \in c.closed \/ role = "Client"
                          \/ c.goaway # NoGoaway /\ i >= c.goaway
                          \/ CountPending(c) >= MaxPending
                       THEN c
                       ELSE [c EXCEPT !.ses[i] = IF MaxDatagrams > 0 THEN more(NewSession)
                                                 ELSE NewSession]
        /\ UNCHANGED scope

\* wt_data_consumed: the application has read n more bytes.
DataConsumed(i, n) ==
    LET shown == FoldSet(LAMBDA s, sum : sum + IF c.ev[s].open = i THEN c.ev[s].bytes ELSE 0,
                         0, Streams)
    IN  /\ Ready
        /\ Exists(c, i)
        /\ net.eaten[i] + n <= shown
        /\ net' = [net EXCEPT !.eaten[i] = @ + n]
        /\ c' = [c EXCEPT !.ses[i] = Consume(@, n)]
        /\ UNCHANGED scope

-----------------------------------------------------------------------------
(* CONNECT streams.                                                        *)

\* Mutant: sessions that early streams created do not count.
OtherEstablished(x, i) ==
    Cardinality({j \in Sessions \ {i} : x.ses[j].state = "Established"})

\* The active sessions besides a Pending one of this CONNECT.
OtherActive(x, i) == CountActive(x) - IF Pending(x, i) THEN 1 ELSE 0

\* validate_wt_connect_request_server fails.
ServerRefuses(x, i, what) ==
    \/ what = "forbidden"
    \/ /\ x.settings # "none"
       /\ \/ x.settings = "plain" \/ what = "mismatched"
          \/ ~fc /\ OtherActive(x, i) >= 1

\* register_wt_connect_session, with the DATA a deferred CONNECT held back.
Register(x, i) ==
    [x EXCEPT !.ses[i] = [(IF Exists(x, i) THEN @ ELSE NewSession)
                            EXCEPT !.caps = Joined(@, x.body[i])],
              !.body[i] = <<>>, !.shown = @ \cup {i}]

\* emit_header_events for a CONNECT request: <<refused, connection>>.
RequestHeaders(x, i, what) ==
    IF ServerRefuses(x, i, what) THEN <<TRUE, x>>
    ELSE IF x.settings = "none"
    THEN IF Cardinality(x.deferred) >= MaxDeferred THEN <<TRUE, x>>
         ELSE <<FALSE, [x EXCEPT !.deferred = @ \cup {i}]>>
    ELSE <<FALSE, Register(x, i)>>

\* handle_wt_connect_response: <<refused, connection>>.
ResponseHeaders(x, i, what) ==
    CASE what = "forbidden" -> <<Exists(x, i), x>>
      [] what = "badproto" -> <<FALSE, IF Pending(x, i) THEN Terminate(x, i) ELSE x>>
      [] what = "2xx" -> <<FALSE, Establish(x, i)>>
      [] what = "refusal" -> <<FALSE, x>>

\* The section of stream i is decoded: emit_header_events.
SectionRead(x, i, what) ==
    LET y == [x EXCEPT !.conn[i] = "open"]
    IN  IF role = "Server" THEN RequestHeaders(y, i, what) ELSE ResponseHeaders(y, i, what)

\* The result of a call that read stream i.
Conclude(r, i, more) ==
    /\ c' = Settle(r[2], i)
    /\ net' = IF r[1] THEN [more EXCEPT !.refused = @ \cup {i}] ELSE more
    /\ UNCHANGED scope

\* QUIC may deliver on a CONNECT stream.
ConnectMayArrive(i) == i \notin net.over \cup net.refused

\* feed_stream with the HEADERS of a CONNECT stream, whose section may have to
\* wait for QPACK insertions: the stream is parked.
ConnectHeaders(i, what, parks) ==
    LET told == [net EXCEPT !.what[i] = what]
    IN  /\ Ready
        /\ ConnectMayArrive(i) /\ net.what[i] = "none"
        /\ IF role = "Server" THEN what \in Requests
           ELSE what \in Responses /\ c.conn[i] = "open"
        /\ Conclude(
             IF i \in c.closed \/ (role = "Server" /\ c.goaway # NoGoaway /\ i >= c.goaway)
             THEN <<TRUE, c>>
             ELSE IF parks
             THEN <<FALSE, [c EXCEPT !.conn[i] = "parked", !.index = @ \cup {i}]>>
             ELSE SectionRead(c, i, what),
             i, told)

\* poll_event retries a stream of blocked_by_ricnt, unless it is gone.
Retry(i) ==
    LET x == [c EXCEPT !.index = @ \ {i}]
    IN  /\ Ready
        /\ i \in c.index
        /\ Conclude(IF c.conn[i] = "parked" THEN SectionRead(x, i, net.what[i])
                    ELSE <<FALSE, x>>, i, net)

\* process_stream_frames with a DATA frame of a CONNECT stream
\* (handle_bidirectional_stream, handle_wt_data_frame).
ConnectData(i, q) ==
    LET ses == c.ses[i]
        body == Joined(c.body[i], q)
        caps == Joined(ses.caps, q)
        r == ProcessCapsules(c, i, q)
    IN  /\ Ready
        /\ ConnectMayArrive(i) /\ net.what[i] # "none" /\ c.conn[i] \in {"open", "gone"}
        /\ net.frames[i] < scope.frames
        /\ Conclude(
             IF i \in c.closed THEN <<TRUE, c>>
             ELSE IF i \in c.deferred
             THEN <<Len(body) + Len(q) > MaxCapsules, [c EXCEPT !.body[i] = body]>>
             ELSE CASE ses.state \in {"Established", "Draining"} -> <<r.failed, r.x>>
                    [] ses.state = "Pending" ->
                         IF role = "Client" \/ Len(caps) > MaxCapsules THEN <<TRUE, c>>
                         ELSE <<FALSE, [c EXCEPT !.ses[i].caps = caps]>>
                    [] OTHER -> <<FALSE, c>>,
             i, [net EXCEPT !.frames[i] = @ + 1])

\* Its FIN (handle_wt_stream_end).
ConnectFin(i) ==
    LET ses == c.ses[i]
    IN  /\ Ready
        /\ ConnectMayArrive(i) /\ net.what[i] # "none" /\ c.conn[i] \in {"open", "gone"}
        /\ Conclude(
             IF i \in c.closed THEN <<FALSE, c>>
             ELSE IF i \in c.deferred THEN <<FALSE, [c EXCEPT !.deferred = @ \ {i}]>>
             ELSE IF Pending(c, i) THEN <<FALSE, Drop(c, i)>>
             ELSE IF ses.caps # <<>> THEN <<TRUE, c>>
             ELSE <<FALSE, Terminate(c, i)>>,
             i, [net EXCEPT !.over = @ \cup {i}])

\* clear_qpack_blocked
Unparked(x, i) ==
    [x EXCEPT !.index = IF x.conn[i] = "parked" THEN @ \ {i} ELSE @,
              !.conn[i] = IF @ = "parked" THEN "open" ELSE @]

\* stream_reset on a CONNECT stream.
ConnectReset(i) ==
    LET x == [Unparked(c, i) EXCEPT !.conn[i] = "gone"]
    IN  /\ Ready
        /\ i \notin net.over
        /\ role = "Client" => c.conn[i] # "none"
        /\ Conclude(<<FALSE, IF Exists(x, i) THEN Terminate(x, i)
                             ELSE [x EXCEPT !.deferred = @ \ {i}]>>,
                    i, [net EXCEPT !.over = @ \cup {i}])

\* stop_sending on a CONNECT stream.
ConnectStop(i) ==
    LET x == [Unparked(c, i) EXCEPT !.out[i] = [data |-> FALSE, fin |-> FALSE]]
    IN  /\ Ready
        /\ c.conn[i] \in {"open", "parked"}
        /\ Exists(c, i)
        /\ Conclude(<<FALSE, Terminate(x, i)>>, i, [net EXCEPT !.asked = @ \ {i}])

\* send_request_inner with a WebTransport CONNECT.
SendConnect(i) ==
    /\ Ready
    /\ role = "Client"
    /\ c.conn[i] = "none" /\ \A j \in scope.sessions : j < i => c.conn[j] # "none"
    /\ Negotiated(c)                      \* validate_wt_connect_request
    /\ fc \/ CountActive(c) = 0
    /\ c.goaway = NoGoaway \/ i < c.goaway
    /\ c' = [c EXCEPT !.ses[i] = NewSession, !.conn[i] = "open", !.out[i].data = TRUE]
    /\ UNCHANGED <<scope, net>>

\* Capsules that came before the answer (establish_wt_session_server).
Optimistic(x, i) ==
    LET r == ProcessCapsules(x, i, <<>>)
    IN  IF x.ses[i].state # "Established" \/ x.ses[i].caps = <<>> THEN <<FALSE, x>>
        ELSE IF r.failed THEN <<TRUE, Terminate(r.x, i)>>
        ELSE <<FALSE, r.x>>

\* send_response_inner to a CONNECT the application has seen.
SendResponse(i, success, fin) ==
    LET x == [c EXCEPT !.out[i] = [data |-> TRUE, fin |-> fin]]
        r == IF success THEN IF Pending(x, i) THEN Optimistic(Establish(x, i), i)
                             ELSE <<FALSE, x>>
             ELSE <<FALSE, IF Pending(x, i) THEN Drop(x, i) ELSE x>>
    IN  /\ Ready
        /\ role = "Server"
        /\ c.conn[i] = "open" /\ i \in c.shown \ net.answered
        /\ c' = r[2]
        /\ net' = [net EXCEPT !.answered = @ \cup {i},
                              !.asked = IF fin THEN @ \cup {i} ELSE @,
                              !.refused = IF r[1] THEN @ \cup {i} ELSE @]
        /\ UNCHANGED scope

\* send_body with FIN alone.
SendFin(i) ==
    /\ Ready
    /\ c.conn[i] \in {"open", "parked"} /\ i \notin net.asked
    /\ role = "Server" => i \in net.answered
    /\ c' = [c EXCEPT !.out[i].fin = TRUE]
    /\ net' = [net EXCEPT !.asked = @ \cup {i}]
    /\ UNCHANGED scope

\* take_stream_data: the data, then the FIN, which ends the session; then
\* consume_stream_data, which removes the stream of an ended session.
TakeStreamData(i) ==
    LET out == c.out[i]
        x == [c EXCEPT !.out[i] = [data |-> FALSE, fin |-> out.fin /\ out.data]]
    IN  /\ c.conn[i] \in {"open", "parked"}
        /\ out.data \/ out.fin
        /\ c' = Settle(IF out.data THEN x ELSE Terminate(x, i), i)
        /\ net' = IF out.data THEN net ELSE [net EXCEPT !.finned = @ \cup {i}]
        /\ UNCHANGED scope

-----------------------------------------------------------------------------
(* The control stream.                                                     *)

\* One CONNECT of process_deferred_wt_connects.
DeferredOne(acc, i) ==
    IF acc.failed \/ ServerRefuses(acc.x, i, net.what[i]) THEN [acc EXCEPT !.failed = TRUE]
    ELSE [acc EXCEPT !.x = Register(@, i)]

\* One stream of process_pending_wt_bidi_pre_negotiation.
PreOne(x, s) ==
    LET e == x.pre[s]
        head == IF e.bytes < HeaderLen THEN e.bytes ELSE HeaderLen
        y == [x EXCEPT !.pre[s] = Absent]
    IN  IF x.err # "none" THEN x
        ELSE IF Negotiated(x) THEN BidiHeader(y, s, head, e.bytes - head, e.fin, net.to[s])
        ELSE RejectPre(x, s)

\* Mutant: the streams that were held back are forgotten when CONNECTs were too.
SettingsEither(kind, connects, held) ==
    LET r == FoldLeft(DeferredOne,
                      [x |-> [c EXCEPT !.settings = kind, !.deferred = {}], failed |-> FALSE],
                      connects)
    IN  /\ Ready
        /\ c.settings = "none"
        /\ connects \in SetToSeqs(c.deferred)
        /\ held \in SetToSeqs({s \in Streams : c.pre[s].here})
        /\ c' = IF connects # <<>> THEN r.x ELSE FoldLeft(PreOne, r.x, held)
        /\ UNCHANGED <<scope, net>>

\* The peer's SETTINGS (process_control_stream): deferred CONNECTs, in the order
\* of a HashMap; if none fails, the streams that were held back, likewise.
Settings(kind, connects, held) ==
    LET r == FoldLeft(DeferredOne,
                      [x |-> [c EXCEPT !.settings = kind, !.deferred = {}], failed |-> FALSE],
                      connects)
    IN  /\ Ready
        /\ c.settings = "none"
        /\ connects \in SetToSeqs(c.deferred)
        /\ held \in SetToSeqs({s \in Streams : c.pre[s].here})
        /\ c' = IF r.failed THEN r.x ELSE FoldLeft(PreOne, r.x, held)
        /\ UNCHANGED <<scope, net>>

\* GOAWAY: a server sends it (send_goaway), a client receives it
\* (process_control_stream) and drains the sessions behind it.
Goaway(id) ==
    /\ Ready
    /\ id # c.goaway
    /\ c' = IF c.goaway # NoGoaway /\ id > c.goaway THEN Fail(c, "H3_ID_ERROR")
            ELSE [c EXCEPT
                    !.goaway = id,
                    !.ses = [i \in Sessions |->
                        IF role = "Client" /\ i >= id /\ @[i].state \in {"Pending", "Established"}
                        THEN [@[i] EXCEPT !.state = "Draining"] ELSE @[i]]]
    /\ UNCHANGED <<scope, net>>

StreamStep ==
    \/ \E s \in scope.streams, more \in {0} \cup scope.chunks, n \in 0 .. scope.payload,
          fin \in BOOLEAN, i \in scope.sessions \cup {NoSession, BadId} :
          FeedStream(s, more, n, fin, i)
    \/ \E s \in scope.streams \cap Peers : \E outcome \in {"none"} \cup StrayErrors(s) :
          FeedForgotten(s, outcome)
    \/ \E s \in scope.streams, extra \in 0 .. 1 : StreamReset(s, extra)
    \/ \E s \in scope.streams \cap Locals, i \in scope.sessions : RegisterLocal(s, i)
    \/ \E i \in scope.sessions : FeedDatagram(i)
    \/ \E i \in scope.sessions, n \in 1 .. scope.payload : DataConsumed(i, n)

ConnectStep ==
    \E i \in scope.sessions :
       \/ \E what \in scope.sections, parks \in scope.parking : ConnectHeaders(i, what, parks)
       \/ Retry(i) \/ ConnectFin(i) \/ ConnectReset(i) \/ ConnectStop(i)
       \/ SendConnect(i) \/ SendFin(i) \/ TakeStreamData(i)
       \/ \E q \in scope.capsules : ConnectData(i, q)
       \/ \E success, fin \in BOOLEAN : SendResponse(i, success, fin)

ControlStep ==
    \/ \E kind \in {"wt", "plain"}, connects \in SetToSeqs(c.deferred),
          held \in SetToSeqs({s \in Streams : c.pre[s].here}) : Settings(kind, connects, held)
    \/ \E id \in scope.goaways : Goaway(id)

Next == StreamStep \/ ConnectStep \/ ControlStep

Spec == Init /\ [][Next]_vars

-----------------------------------------------------------------------------
(* Properties.                                                             *)

Entries == {Absent} \cup [here : {TRUE}, bytes : 0 .. MaxBufferedBytes, fin : BOOLEAN]

SessionRecords ==
    [state : {"None", "Pending", "Established", "Draining"}, assoc : SUBSET Streams,
     order : Seq(Streams), entry : [Streams -> Entries], grams : 0 .. MaxDatagrams,
     caps : Seq(CapsuleKinds), on : BOOLEAN, uni : FlowControl, bidi : FlowControl,
     data : FlowControl, tracked : [Streams -> Nat]]

\* Every piece of the state has its type, and no buffer of a peer's early
\* streams, bytes, datagrams, sessions or CONNECTs is over its limit.
TypeOK ==
    /\ scope \in Scopes
    /\ c.settings \in {"none", "wt", "plain"}
    /\ c.ses \in [Sessions -> SessionRecords]
    /\ \A i \in Sessions : Len(c.ses[i].order) <= MaxBuffered
    /\ CountPending(c) <= MaxPending + Cardinality({i \in Sessions : net.what[i] # "none"
                                                       \/ role = "Client"})
    /\ c.closed \subseteq Sessions /\ c.deferred \subseteq Sessions /\ c.index \subseteq Sessions
    /\ Cardinality(c.deferred) <= MaxDeferred
    /\ c.reg \in [Streams -> Sessions \cup {NoSession}]
    /\ c.wait \in [Streams -> 0 .. HeaderLen]
    /\ c.pre \in [Streams -> Entries]
    /\ Cardinality({s \in Streams : c.pre[s].here}) <= MaxBuffered
    /\ c.conn \in [Sessions -> {"none", "open", "parked", "gone"}]
    /\ c.goaway \in GoawayIds \cup {NoGoaway}

Shown(i) == {s \in Streams : c.ev[s].open = i}
Live(i) == c.ses[i].state \in {"Established", "Draining"}
Over(s) == c.ev[s].end \/ c.ev[s].reset

\* Once SessionClosed was reported, or a pending session was refused, the id is
\* dead (closed_wt_sessions): no late stream, datagram, capsule, retried section
\* or response revives the session, and its streams report nothing more.
QuietAfterClose ==
    [][\A i \in c.closed :
          /\ i \in c'.closed
          /\ c'.ses[i] = NoSes
          /\ c'.est[i] = c.est[i] /\ c'.gone[i] = c.gone[i] /\ c'.grams[i] = c.grams[i]
          /\ \A s \in Shown(i) : c'.ev[s] = c.ev[s]]_vars

\* A session is established at most once and, if it is, reported closed exactly
\* once when it goes, whichever of capsule, FIN, RESET_STREAM, STOP_SENDING, our
\* own FIN and flow control violation comes first (terminate_wt_session_with).
ClosedOnce ==
    \A i \in Sessions :
       /\ c.est[i] <= 1 /\ c.gone[i] <= 1
       /\ c.est[i] = 1 => (Live(i) <=> c.gone[i] = 0)

\* When a session closes, the application is told to reset every stream it was
\* shown and has not seen the end of (reset_streams).
StreamsReset ==
    \A i \in c.closed : \A s \in Shown(i) : ~Over(s) => c.ev[s].listed > 0

\* The end of a session is told once and completely: TypeOK, ClosedOnce and
\* StreamsReset (terminate_wt_session_with).
SessionsInv == TypeOK /\ ClosedOnce /\ StreamsReset

\* No byte and no FIN of a live session's stream is lost or passed on twice,
\* however early it came: what arrived is what the application was given and
\* what is held until the session, or SETTINGS, is there.
DeliveredExactly ==
    \A s \in Streams \ (net.reset \cup net.refused) :
       /\ c.pre[s].here => /\ c.pre[s].bytes = net.head[s] + net.fed[s]
                           /\ s \in net.fin => c.pre[s].fin
       /\ c.reg[s] # NoSession /\ c.reg[s] \notin c.closed
            => LET held == c.ses[c.reg[s]].entry[s]
               IN  /\ c.ev[s].bytes + held.bytes = net.fed[s]
                   /\ s \in net.fin => c.ev[s].end \/ held.fin

\* The session's data account counts each payload byte once: those passed on and,
\* of a stream that was reset, those up to its final size
\* (stream_received_data, account_wt_stream_reset).
BytesAccounted ==
    \A i \in Sessions :
       Live(i) /\ c.ses[i].on =>
          c.ses[i].data.received =
             MapThenSumSet(LAMBDA s : c.ev[s].bytes + IF c.ev[s].reset THEN net.lost[s] ELSE 0,
                           Shown(i))

\* Every byte is delivered once and counted once: DeliveredExactly and
\* BytesAccounted (deliver_buffered_streams, account_wt_stream_reset).
BytesExact == DeliveredExactly /\ BytesAccounted

\* The peer never has more streams open, nor more bytes unread, than the limits
\* announced to it allow, over any number of MAX capsules.
CreditBounded ==
    \A i \in Sessions :
       Live(i) /\ c.ses[i].on =>
          /\ Cardinality({s \in Shown(i) \cap PeerUni : ~Over(s)}) <= UniLimit
          /\ Cardinality({s \in Shown(i) \cap PeerBidi : ~Over(s)}) <= BidiLimit
          /\ MapThenSumSet(LAMBDA s : c.ev[s].bytes, Shown(i)) <= net.eaten[i] + DataWindow

\* The credit of every bidirectional stream the peer is done with has been
\* returned, once (on_remote_stream_closed).
BidiCreditReturned ==
    \A i \in Sessions :
       Live(i) /\ c.ses[i].on =>
          c.ses[i].bidi.returned = Cardinality({s \in Shown(i) \cap PeerBidi : Over(s)})

\* The peer has the credit it is entitled to, no more and no less: CreditBounded
\* and BidiCreditReturned (on_remote_stream_closed, on_data_consumed).
CreditExact == CreditBounded /\ BidiCreditReturned

\* Without flow control one session at a time is in use, although early streams
\* and deferred CONNECTs create sessions before the check can be made
\* (validate_wt_connect_request_server, count_active_wt_sessions).
OneSessionWithoutFlowControl ==
    ~fc => Cardinality({i \in Sessions : Live(i)}) <= 1

\* terminate_wt_session_with: the tombstone is used to "refuse and discard DATA,
\* FIN, RESET, new streams and datagrams that arrive after the end".
LateDataDiscarded == net.stray # {} => c.err = "none"

\* No stream is held back any longer once SETTINGS are there: each of them, its
\* bytes and its FIN included, is dispatched by the call that reads SETTINGS, unless
\* that call refuses a deferred CONNECT first (process_deferred_wt_connects), and
\* none is held back later (process_pending_wt_bidi_pre_negotiation).
HeldStreamsDispatched ==
    [][\A s \in Streams :
          c'.settings # "none" /\ c'.pre[s].here =>
             \/ c.settings # "none" /\ c.pre[s].here
             \/ c'.err # "none"
             \/ \E i \in c.deferred : c'.ses[i].state = "None"]_vars
=============================================================================
