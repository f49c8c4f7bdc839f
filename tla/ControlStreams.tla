--------------------------- MODULE ControlStreams ---------------------------
(***************************************************************************)
(* The unidirectional streams of HTTP/3 between a client and a server      *)
(* (connection/mod.rs, stream/control.rs): stream types, the control       *)
(* stream with SETTINGS, GOAWAY and MAX_PUSH_ID, the QPACK streams, and    *)
(* what GOAWAY means for requests.                                         *)
(*                                                                         *)
(* An end is a Connection of this library or, where scope says so, an      *)
(* arbitrary peer whose streams hold a script.  A stream is a sequence of  *)
(* items, a type and then frames or instructions, that arrives in chunks;  *)
(* half an item is less than its header.  WebTransport streams are in      *)
(* WtSessions.                                                             *)
(***************************************************************************)
EXTENDS H3Settings, FiniteSets

CONSTANTS
    Scopes,     \* what a behaviour explores
    MaxChunk,   \* half items in a chunk
    GoawayIds,  \* ids the applications pass to send_goaway
    Requests    \* ids of the requests: 0, 4, ...

Ends == {"client", "server"}
Peer(e) == IF e = "client" THEN "server" ELSE "client"
Critical == {"control", "encoder", "decoder"}
StreamIds == 1 .. 3         \* the unidirectional streams an end opens
None == 0
NoGoaway == -1

\* The items of a stream: its type, then frames or instructions.
FrameKinds == {"settings", "goaway", "maxpush", "data", "headers", "push", "http2", "wtstream",
               "malformed", "unknown"}
ItemKinds == FrameKinds \cup Critical \cup {"capacity", "cancel", "ack", "x"}
Items == [k : ItemKinds, n : Nat, s : Payloads]
Scripts == {w \in Seq(Items) :
              \A i \in 2 .. Len(w) : w[1].k = "control" => w[i].k \in FrameKinds}
AnySettings == [wt : BOOLEAN, v : [Range(Ids) -> Nat \cup {Absent}]]

\* What an application configures: flags are Booleans, the VarInt fields of
\* WebTransport settings are there, a client has called
\* enable_webtransport_client, and a server says whether, not how often,
\* WebTransport is enabled.
Configured(e, s) ==
    /\ s \in AnySettings
    /\ \A id \in BoolIds : s.v[id] <= 1
    /\ s.wt => \A id \in Range(WtVarIntIds) : s.v[id] # Absent
    /\ e = "client" /\ s.wt => s.v["H3_DATAGRAM"] = 1
    /\ e = "server" => s.v["WT_ENABLED"] <= 1 /\ s.v["WT_ENABLED_DRAFT17"] <= 1

ASSUME ControlAssumption ==
    /\ MaxChunk \in Nat \ {0} /\ Requests \subseteq Nat /\ GoawayIds \subseteq Nat
    /\ \A s \in Scopes :
          /\ \A e \in Ends : Configured(e, s.local[e]) /\ s.limit[e] \in Nat
          /\ s.previous \in AnySettings /\ (s.scripted = {} => s.previous = NoSettings)
          /\ s.scripted \subseteq Ends /\ s.opens \subseteq Critical
          /\ \A e \in s.scripted, i \in StreamIds : s.script[e][i] \in Scripts

VARIABLES
    scope,      \* local settings, cached settings, scripts, streams opened
    con,        \* the Connection of each end
    pos,        \* half items of its streams that have arrived at the peer
    over,       \* streams whose end (FIN or RESET_STREAM) has arrived
    reqs        \* requests under way

vars == <<scope, con, pos, over, reqs>>

Item(k, n, s) == [k |-> k, n |-> n, s |-> s]
Type(t) == Item(t, 0, <<>>)
SettingsFrame(payload) == Item("settings", 0, payload)
Goaway(id) == Item("goaway", id, <<>>)
MaxPushId(id) == Item("maxpush", id, <<>>)
SetCapacity(n) == Item("capacity", n, <<>>)

Capacity(s) == IF s.v["QPACK_MAX_TABLE_CAPACITY"] = Absent THEN 0
               ELSE s.v["QPACK_MAX_TABLE_CAPACITY"]

\* Connection::new: SETTINGS are queued behind the stream type at once.
NewConnection(local) ==
    [own |-> [t \in Critical |-> None],     \* our stream ids
     out |-> [t \in Critical |-> IF t = "control"
                                 THEN <<Type("control"), SettingsFrame(FromSettings(local))>>
                                 ELSE <<>>],
     deferred |-> 0,                        \* deferred_encoder_set_capacity
     peer |-> [t \in Critical |-> None],    \* the peer's stream ids
     ready |-> FALSE,                       \* ControlRecvState::Ready
     pending |-> {}, ignored |-> {},        \* pending_uni_streams, ignored_uni_streams
     known |-> FALSE, settings |-> NoSettings,      \* peer_settings
     goaway |-> NoGoaway, sent |-> NoGoaway,        \* peer_goaway_last_id, last_sent_goaway_id
     push |-> -1,                           \* max_push_id
     error |-> "none",
     events |-> <<>>,
     accepted |-> {},                       \* streams created for requests
     misused |-> FALSE]                     \* (history) send_goaway was refused

Init ==
    /\ scope \in Scopes
    /\ con = [e \in Ends |-> NewConnection(scope.local[e])]
    /\ pos = [e \in Ends |-> [s \in StreamIds |-> 0]]
    /\ over = [e \in Ends |-> {}]
    /\ reqs = {}

Scripted(e) == e \in scope.scripted

\* What end e has written to its stream s.
Written(e, s) ==
    IF Scripted(e) THEN scope.script[e][s]
    ELSE IF \E t \in Critical : con[e].own[t] = s
         THEN con[e].out[CHOOSE t \in Critical : con[e].own[t] = s]
         ELSE <<>>

Fail(x, code) == [x EXCEPT !.error = code]
Event(x, f) == [x EXCEPT !.events = Append(@, f)]

-----------------------------------------------------------------------------
(* Our own streams.                                                        *)

\* Mutant: the capacity that waited stays where it is.
ReleasedLater(x) == x

\* set_encoder_stream_id: the capacity that waited for the stream.
Released(x) ==
    IF x.deferred = 0 THEN x
    ELSE [x EXCEPT !.out["encoder"] = Append(@, SetCapacity(x.deferred)), !.deferred = 0]

\* set_control_stream_id, set_encoder_stream_id, set_decoder_stream_id.
SetStreamId(e, t, s) ==
    LET x == [con[e] EXCEPT !.own[t] = s,
                            !.out[t] = IF t = "control" THEN @ ELSE Append(@, Type(t))]
    IN  /\ ~Scripted(e)
        /\ con[e].own[t] = None
        /\ s = Cardinality({u \in Critical : con[e].own[u] # None}) + 1     \* QUIC's next id
        /\ con' = [con EXCEPT ![e] = IF t = "encoder" THEN Released(x) ELSE x]
        /\ UNCHANGED <<scope, pos, over, reqs>>

\* send_goaway: a server names a request stream and must not raise the id, a
\* client can only name push id 0.  A refusal is a connection error.
SendGoaway(e, id) ==
    LET x == con[e]
        bad == \/ (IF e = "server" THEN id % 4 # 0 ELSE id # 0)
               \/ x.sent # NoGoaway /\ id > x.sent
    IN  /\ ~Scripted(e) /\ x.error = "none"
        /\ id # x.sent
        /\ e = "server" => \A r \in x.accepted : r < id    \* the caller's duty
        /\ con' = [con EXCEPT
                     ![e] = IF bad THEN [Fail(x, "H3_ID_ERROR") EXCEPT !.misused = TRUE]
                            ELSE [x EXCEPT !.sent = id,
                                           !.out["control"] = Append(@, Goaway(id))]]
        /\ UNCHANGED <<scope, pos, over, reqs>>

-----------------------------------------------------------------------------
(* The peer's streams.                                                     *)

\* SETTINGS configure the encoder: the capacity goes out, now or when the
\* encoder stream is there.
ApplyCapacity(x, e, s) ==
    LET limit == scope.limit[e]
        use == IF Capacity(s) < limit THEN Capacity(s) ELSE limit
    IN  IF use = 0 THEN x
        ELSE IF x.own["encoder"] = None THEN [x EXCEPT !.deferred = use]
        ELSE [x EXCEPT !.out["encoder"] = Append(@, SetCapacity(use))]

ReceiveSettings(x, e, s) ==
    LET y == ApplyCapacity(x, e, s)
        local == scope.local[e]
    IN  IF /\ e = "client"
           /\ \/ s.wt /\ (s.v["WT_ENABLED"] > 1 \/ s.v["WT_ENABLED_DRAFT17"] > 1)
              \/ /\ scope.previous # NoSettings
                 /\ ComparesPrevious(local, s) /\ Decreases(local, s, scope.previous)
        THEN Fail(y, "H3_SETTINGS_ERROR")
        ELSE Event([y EXCEPT !.known = TRUE, !.settings = s], Type("settings"))

ReceiveGoaway(x, e, id) ==
    IF (e = "client" /\ id % 4 # 0) \/ (x.goaway # NoGoaway /\ id > x.goaway)
    THEN Fail(x, "H3_ID_ERROR")
    ELSE Event([x EXCEPT !.goaway = id], Goaway(id))

ReceiveMaxPushId(x, e, id) ==
    IF e = "client" THEN Fail(x, "H3_FRAME_UNEXPECTED")
    ELSE IF id < x.push THEN Fail(x, "H3_ID_ERROR")
    ELSE [x EXCEPT !.push = id]

\* A frame on the control stream: ControlStreamRecv::process, then
\* process_control_stream.
ControlFrame(x, e, f) ==
    CASE f.k = "wtstream" ->
           Fail(x, IF x.ready THEN "H3_FRAME_UNEXPECTED" ELSE "H3_MISSING_SETTINGS")
      [] f.k \in {"http2", "push"} -> Fail(x, "H3_FRAME_UNEXPECTED")
      [] f.k = "malformed" -> Fail(x, "H3_FRAME_ERROR")
      [] f.k = "settings" ->
           IF InvalidSetting(f.s) THEN Fail(x, "H3_SETTINGS_ERROR")
           ELSE IF x.ready THEN Fail(x, "H3_FRAME_UNEXPECTED")
           ELSE ReceiveSettings([x EXCEPT !.ready = TRUE], e, FromPayload(f.s))
      [] ~x.ready /\ f.k \in {"goaway", "maxpush", "data", "headers", "unknown"} ->
           Fail(x, "H3_MISSING_SETTINGS")
      [] x.ready /\ f.k \in {"data", "headers"} -> Fail(x, "H3_FRAME_UNEXPECTED")
      [] x.ready /\ f.k = "goaway" -> ReceiveGoaway(x, e, f.n)
      [] x.ready /\ f.k = "maxpush" -> ReceiveMaxPushId(x, e, f.n)
      [] x.ready /\ f.k = "unknown" -> x

\* An instruction on a QPACK stream (process_encoder_stream,
\* process_decoder_stream); the tables are in QpackSync.
EncoderInstruction(x, e, f) ==
    IF f.k = "capacity" /\ f.n <= Capacity(scope.local[e]) THEN x
    ELSE Fail(x, "QPACK_ENCODER_STREAM_ERROR")
DecoderInstruction(x, e, f) ==
    IF f.k = "cancel" THEN x ELSE Fail(x, "QPACK_DECODER_STREAM_ERROR")

\* Mutant: the second stream of a type takes over.
NewStreamAgain(x, e, s, type) ==
    CASE type \in Critical -> [x EXCEPT !.peer[type] = s]
      [] type = "push" -> Fail(x, IF e = "server" THEN "H3_STREAM_CREATION_ERROR"
                                  ELSE "H3_ID_ERROR")
      [] OTHER -> [x EXCEPT !.ignored = @ \cup {s}]

\* handle_new_unidirectional_stream, once the type is complete.
NewStream(x, e, s, type) ==
    CASE type \in Critical ->
           IF x.peer[type] # None THEN Fail(x, "H3_STREAM_CREATION_ERROR")
           ELSE [x EXCEPT !.peer[type] = s]
      [] type = "push" -> Fail(x, IF e = "server" THEN "H3_STREAM_CREATION_ERROR"
                                  ELSE "H3_ID_ERROR")
      [] OTHER -> [x EXCEPT !.ignored = @ \cup {s}]

\* The type is complete: the stream leaves pending_uni_streams.
Resolved(x, s) == [x EXCEPT !.pending = @ \ {s}]

\* handle_unidirectional_stream: the next complete item of stream s.
Receive(x, e, s, f) ==
    IF x.error # "none" \/ s \in x.ignored THEN x
    ELSE CASE x.peer["control"] = s -> ControlFrame(x, e, f)
           [] x.peer["encoder"] = s -> EncoderInstruction(x, e, f)
           [] x.peer["decoder"] = s -> DecoderInstruction(x, e, f)
           [] OTHER -> NewStream(Resolved(x, s), e, s, f.k)

\* And the items that are complete, one after the other.
ReceiveAll(x, e, s, items) ==
    LET after[i \in 0 .. Len(items)] ==
            IF i = 0 THEN x ELSE Receive(after[i - 1], e, s, items[i])
    IN  after[Len(items)]

\* Half an item is left over: the type stays in pending_uni_streams.
Unresolved(x, s) == s \notin x.ignored /\ \A t \in Critical : x.peer[t] # s
Left(x, s, half) == IF half /\ Unresolved(x, s) THEN [x EXCEPT !.pending = @ \cup {s}] ELSE x

\* FIN, when the data that came with it has been processed.
Finish(x, s, half) ==
    IF x.error # "none" THEN x
    ELSE IF x.peer["control"] = s /\ half THEN Fail(x, "H3_FRAME_ERROR")
    ELSE IF \E t \in Critical : x.peer[t] = s THEN Fail(x, "H3_CLOSED_CRITICAL_STREAM")
    ELSE Resolved(x, s)

\* feed_stream of a unidirectional stream: n half items more, and perhaps FIN.
FeedStream(e, s, n, fin) ==
    LET p == Peer(e)
        w == Written(p, s)
        from == pos[p][s]
        got == SubSeq(w, (from \div 2) + 1, (from + n) \div 2)
        half == (from + n) % 2 = 1
        read == ReceiveAll(con[e], e, s, got)
        y == IF read.error # "none" THEN read ELSE Left(read, s, half)
    IN  /\ ~Scripted(e) /\ con[e].error = "none"
        /\ s \notin over[p] /\ from + n <= 2 * Len(w)
        /\ n > 0 \/ fin
        /\ fin => Scripted(p)
        /\ con' = [con EXCEPT ![e] = IF fin THEN Finish(y, s, half) ELSE y]
        /\ pos' = [pos EXCEPT ![p][s] = from + n]
        /\ over' = IF fin THEN [over EXCEPT ![p] = @ \cup {s}] ELSE over
        /\ UNCHANGED <<scope, reqs>>

\* stream_reset of a unidirectional stream: a critical one is an error, and
\* nothing is forgotten.
StreamReset(e, s) ==
    LET p == Peer(e)
    IN  /\ ~Scripted(e) /\ Scripted(p) /\ con[e].error = "none"
        /\ s \notin over[p]
        /\ con' = IF \E t \in Critical : con[e].peer[t] = s
                  THEN [con EXCEPT ![e] = Fail(@, "H3_CLOSED_CRITICAL_STREAM")] ELSE con
        /\ over' = [over EXCEPT ![p] = @ \cup {s}]
        /\ UNCHANGED <<scope, pos, reqs>>

\* stop_sending of one of our own.
StopSending(e, s) ==
    /\ ~Scripted(e) /\ Scripted(Peer(e)) /\ con[e].error = "none"
    /\ \E t \in Critical : con[e].own[t] = s
    /\ con' = [con EXCEPT ![e] = [Fail(@, "H3_CLOSED_CRITICAL_STREAM") EXCEPT !.misused = TRUE]]
    /\ UNCHANGED <<scope, pos, over, reqs>>

-----------------------------------------------------------------------------
(* Requests and GOAWAY.                                                    *)

\* send_request: the stream ids in turn, below the id of a GOAWAY.
SendRequest(r) ==
    LET x == con["client"]
    IN  /\ ~Scripted("client") /\ x.error = "none"
        /\ x.own["control"] # None
        /\ r \in Requests \ reqs /\ \A q \in Requests : q < r => q \in reqs
        /\ x.goaway = NoGoaway \/ r < x.goaway
        /\ reqs' = reqs \cup {r}
        /\ UNCHANGED <<scope, con, pos, over>>

\* Mutant: a GOAWAY does not bind the server.
AcceptsAll(x, r) == TRUE

\* handle_bidirectional_stream: a new stream at or above the GOAWAY is refused.
Accepts(x, r) == x.sent = NoGoaway \/ r < x.sent

\* The request arrives.
FeedRequest(r) ==
    LET x == con["server"]
    IN  /\ ~Scripted("server") /\ x.error = "none"
        /\ r \in reqs \ x.accepted
        /\ Accepts(x, r)
        /\ con' = [con EXCEPT !["server"].accepted = @ \cup {r}]
        /\ UNCHANGED <<scope, pos, over, reqs>>

-----------------------------------------------------------------------------
Next ==
    \/ \E e \in Ends :
          \/ \E t \in scope.opens, s \in StreamIds : SetStreamId(e, t, s)
          \/ \E id \in GoawayIds : scope.goaways /\ SendGoaway(e, id)
          \/ \E s \in StreamIds, n \in 0 .. MaxChunk, fin \in BOOLEAN : FeedStream(e, s, n, fin)
          \/ \E s \in StreamIds : StreamReset(e, s) \/ StopSending(e, s)
    \/ \E r \in Requests : scope.goaways /\ (SendRequest(r) \/ FeedRequest(r))

Spec == Init /\ [][Next]_vars

\* Two ends of this library: the callers open their streams and QUIC delivers
\* what is written.
Opens == /\ scope.scripted = {}
         /\ \E e \in Ends, t \in scope.opens, s \in StreamIds : SetStreamId(e, t, s)
Delivers == /\ scope.scripted = {}
            /\ \E e \in Ends, s \in StreamIds, n \in 1 .. MaxChunk : FeedStream(e, s, n, FALSE)

FairSpec == Spec /\ WF_vars(Opens) /\ WF_vars(Delivers)

-----------------------------------------------------------------------------
(* Properties.                                                             *)

ErrorCodes == {"none", "H3_STREAM_CREATION_ERROR", "H3_ID_ERROR", "H3_FRAME_UNEXPECTED",
               "H3_MISSING_SETTINGS", "H3_SETTINGS_ERROR", "H3_FRAME_ERROR",
               "H3_CLOSED_CRITICAL_STREAM", "QPACK_ENCODER_STREAM_ERROR",
               "QPACK_DECODER_STREAM_ERROR"}

\* Every piece of the state has its type; a type that is still incomplete is
\* that of a stream nothing else is known about.
TypeOK ==
    /\ reqs \subseteq Requests
    /\ pos \in [Ends -> [StreamIds -> Nat]] /\ over \in [Ends -> SUBSET StreamIds]
    /\ \A e \in Ends :
          LET x == con[e]
          IN  /\ {x.own, x.peer} \subseteq [Critical -> StreamIds \cup {None}]
              /\ x.error \in ErrorCodes
              /\ x.pending \subseteq {s \in StreamIds : Unresolved(x, s)}
              /\ x.ignored \subseteq StreamIds

\* What has arrived of stream s of end p, the type included.
Arrived(p, s) == SubSeq(Written(p, s), 1, pos[p][s] \div 2)
TypeOf(items) == IF items = <<>> THEN "?" ELSE items[1].k

\* What RFC 9114 and 9204 hold against frame i of a control stream at end e.
FrameFaults(e, f, i) ==
    LET ids(k, last) == {f[j].n : j \in {j \in 1 .. last : f[j].k = k}}
        k == f[i].k
        s == FromPayload(f[i].s)
    IN  {c \in ErrorCodes :
           \/ c = "H3_MISSING_SETTINGS" /\ i = 1 /\ k # "settings"
           \/ /\ c = "H3_FRAME_UNEXPECTED"
              /\ \/ k \in {"http2", "push", "data", "headers", "wtstream"}
                 \/ k = "settings" /\ i > 1
                 \/ k = "maxpush" /\ e = "client"
           \/ c = "H3_FRAME_ERROR" /\ k = "malformed"
           \/ /\ c = "H3_ID_ERROR"
              /\ \/ k = "goaway" /\ \E n \in ids("goaway", i - 1) : n < f[i].n
                 \/ k = "goaway" /\ e = "client" /\ f[i].n % 4 # 0
                 \/ k = "maxpush" /\ \E n \in ids("maxpush", i - 1) : n > f[i].n
           \/ /\ c = "H3_SETTINGS_ERROR" /\ k = "settings"
              /\ \/ InvalidSetting(f[i].s)
                 \/ /\ e = "client"
                    /\ \/ s.v["WT_ENABLED"] > 1 \/ s.v["WT_ENABLED_DRAFT17"] > 1
                       \/ /\ scope.previous # NoSettings
                          /\ ComparesPrevious(scope.local[e], s)
                          /\ Decreases(scope.local[e], s, scope.previous)}

\* And against all streams, of which a has arrived; those in ended have ended,
\* those in cut within an item.
FaultsIn(e, a, ended, cut) ==
    LET of(t) == {s \in StreamIds : TypeOf(a[s]) = t}
        frames(t) == UNION {Range(Tail(a[s])) : s \in of(t)}
    IN  (UNION {UNION {FrameFaults(e, Tail(a[s]), i) : i \in DOMAIN Tail(a[s])} : s \in of("control")})
        \cup
        {c \in ErrorCodes :
           \/ /\ c = "H3_STREAM_CREATION_ERROR"
              /\ \/ \E t \in Critical : \E r, s \in of(t) : r # s
                 \/ e = "server" /\ of("push") # {}
           \/ c = "H3_ID_ERROR" /\ e = "client" /\ of("push") # {}
           \/ c = "H3_CLOSED_CRITICAL_STREAM" /\ \E t \in Critical : of(t) \cap ended # {}
           \/ c = "H3_FRAME_ERROR" /\ of("control") \cap ended \cap cut # {}
           \/ /\ c = "QPACK_ENCODER_STREAM_ERROR"
              /\ \E f \in frames("encoder") : f.k # "capacity" \/ f.n > Capacity(scope.local[e])
           \/ c = "QPACK_DECODER_STREAM_ERROR" /\ \E f \in frames("decoder") : f.k # "cancel"}

\* And against everything that has arrived at end e.
Faults(e) ==
    LET p == Peer(e)
    IN  FaultsIn(e, [s \in StreamIds |-> Arrived(p, s)], over[p],
                 {s \in StreamIds : pos[p][s] % 2 = 1})

\* A peer is disconnected exactly if something it sent is wrong, and for that
\* reason, however its streams are cut into chunks and in whatever order they
\* arrive (feed_stream; types and frames are decoded incrementally).
ErrorsExact ==
    \A e \in Ends \ scope.scripted :
       ~con[e].misused =>
          IF Faults(e) = {} THEN con[e].error = "none" ELSE con[e].error \in Faults(e)

\* Two ends of this library never disconnect one another: stream types come
\* first, the capacity of the encoder stream is never written ahead of its type
\* nor beyond what the peer allows, and GOAWAY ids never rise.
PeersAccepted ==
    scope.scripted = {} => \A e \in Ends : con[e].error # "none" => con[e].misused

\* The events of the frames of a control stream.
EventsOf(frames) ==
    LET shown == {i \in DOMAIN frames : frames[i].k \in {"settings", "goaway"}}
        plain == [i \in DOMAIN frames |->
                    IF frames[i].k = "settings" THEN Type("settings") ELSE Goaway(frames[i].n)]
    IN  Picked(plain, shown)

\* The application sees the frames of the control stream once each, in order
\* (Event::SettingsReceived, Event::GoawayReceived).
ControlDelivered ==
    \A e \in Ends \ scope.scripted :
       LET s == con[e].peer["control"]
           all == EventsOf(Tail(Arrived(Peer(e), s)))
       IN  s # None => IF con[e].error = "none" THEN con[e].events = all
                       ELSE IsPrefix(con[e].events, all)

\* What arrives on unidirectional streams is taken for what it is: TypeOK,
\* ErrorsExact, PeersAccepted and ControlDelivered (feed_stream,
\* process_control_stream).
StreamsReadExactly == TypeOK /\ ErrorsExact /\ PeersAccepted /\ ControlDelivered

\* A request the client has been told will not be processed, and may send again
\* elsewhere, never was (RFC 9114 Section 5.2), although the GOAWAY and the
\* request pass each other on the way.
GoawayHonoured ==
    \A r \in reqs :
       con["client"].goaway # NoGoaway /\ r >= con["client"].goaway =>
          r \notin con["server"].accepted

Transport == [verified |-> TRUE, resetAt |-> scope.resetAt]
Negotiated(e) == FullyNegotiated(e, scope.local[e], con[e].settings, Transport)

\* When both ends know each other's SETTINGS, the draft a client goes by is the
\* one the server goes by, a client that may start a session finds a server that
\* takes it, and both agree on flow control (select_wt_draft_version,
\* is_wt_fully_negotiated, is_wt_flow_control_enabled).
NegotiationAgrees ==
    scope.scripted = {} /\ con["client"].known /\ con["server"].known =>
       LET draft(e) == SelectDraft(e, scope.local[e], con[e].settings)
           fc(e) == FlowControlEnabled(scope.local[e], con[e].settings)
       IN  /\ draft("client") # NoDraft => draft("server") = draft("client")
           /\ Negotiated("client") => Negotiated("server")
           /\ fc("client") = fc("server")

\* In whatever order the streams are opened and arrive, both ends learn the
\* other's SETTINGS, recognise its encoder stream and send the capacity that
\* waited, unless an end fails.
SettingsExchanged ==
    scope.scripted = {} ~>
       \/ \E e \in Ends : con[e].error # "none"
       \/ \A e \in Ends :
             /\ con[e].known
             /\ "encoder" \in scope.opens => con[e].deferred = 0 /\ con[e].peer["encoder"] # None
=============================================================================
