--------------------------- MODULE RequestStreams ---------------------------
(***************************************************************************)
(* The request streams of one Connection (connection/mod.rs) with their    *)
(* RequestStream (stream/request.rs) and buffers (stream/mod.rs): reading  *)
(* frames, parking a stream whose section waits for QPACK insertions and   *)
(* retrying it, sending a message, resets, STOP_SENDING, GOAWAY and the    *)
(* removal of finished streams.  WebTransport is off: no stream is a WT    *)
(* CONNECT stream and every handle_wt_ helper answers "not mine".          *)
(*                                                                         *)
(* A frame is a record: kind; ric, the Required Insert Count of a section; *)
(* what, the verdict of the validation of its headers; len, the bytes of a *)
(* DATA frame or the content-length a section announces.  Frames arrive    *)
(* whole; one cut off by FIN is of kind "cut".                             *)
(*                                                                         *)
(* A call that runs the frame loop takes several steps, one per frame.     *)
(* While call is not Idle nothing else happens: the code holds &mut self.  *)
(*                                                                         *)
(* The event queue hands events over in order, so only the history of what *)
(* was pushed is kept (got, ended).                                        *)
(***************************************************************************)
EXTENDS Integers, Sequences, FiniteSets

CONSTANTS
    Streams,        \* ids of client-initiated bidirectional streams
    StopStreams,    \* those on which the peer may send STOP_SENDING
    Scopes          \* role; streams: those in use; frames: what the peer sends;
                    \* goaways: ids a GOAWAY frame may carry; blocked, body:
                    \* limits.qpack_blocked_streams and max_received_body_size;
                    \* inserts, arrivals, sends: bounds on insertions, on frames
                    \* per stream, and on send_response and send_body per stream

NoLength == -1      \* no content-length, or one that is not to be checked
NoGoaway == -1

Kinds == {"headers", "data", "unknown", "control", "garbled", "cut"}
\* "connect" is a CONNECT request, or at a client a 2xx response.
Verdicts == {"message", "informational", "connect", "trailers", "malformed",
             "undecodable", "none"}

ASSUME StreamsAssumption ==
    /\ IsFiniteSet(Streams) /\ StopStreams \subseteq Streams
    /\ \A s \in Streams : s \in Nat /\ s % 4 = 0
    /\ \A sc \in Scopes :
          /\ sc.role \in {"Client", "Server"} /\ sc.streams \subseteq Streams
          /\ sc.frames \subseteq [kind : Kinds, ric : Nat, what : Verdicts,
                                  len : Nat \cup {NoLength}]
          /\ \A f \in sc.frames : /\ f.kind # "headers" => f.ric = 0 /\ f.what = "none"
                                  /\ f.kind = "data" => f.len \in Nat
          /\ \A id \in sc.goaways : id \in Nat /\ id % 4 = 0
          /\ {sc.blocked, sc.body, sc.inserts, sc.arrivals, sc.sends} \subseteq Nat

VARIABLES
    scope,      \* the instance under check
    live,       \* keys of Connection::streams
    str,        \* the RequestStream of each of them
    index,      \* blocked_by_ricnt: pairs <<ricnt, stream>>
    inserts,    \* insert_count of the decoder's table
    decOpen,    \* decoder_stream_id is set
    deferred,   \* deferred_section_acks, deferred_stream_cancellations
    goaway,     \* server: last_sent_goaway_id; client: peer_goaway_last_id
    err,        \* Connection::error
    call,       \* the call in progress
    decOut,     \* (history) decoder instructions written, per stream
    net,        \* (history) what QUIC and the caller did
    fed, finned, got, ended,    \* (history) arrivals and events
    wire        \* (history) what was taken to be sent, per stream

vars == <<scope, live, str, index, inserts, decOpen, deferred, goaway, err, call, decOut,
          net, fed, finned, got, ended, wire>>

Role == scope.role

NewStream ==
    [buf |-> <<>>, fin |-> FALSE, recv |-> "WaitingHeaders", state |-> "Open",
     blocked |-> FALSE, ricnt |-> 0, held |-> <<>>,
     length |-> NoLength, body |-> 0, connect |-> FALSE, connectReq |-> FALSE,
     send |-> "Initial", out |-> <<>>, outFin |-> FALSE, finSent |-> FALSE]

Idle == [op |-> "idle", stream |-> 0, rest |-> {}]
\* process_stream_frames is running on s, for a call to op.
Reading(op, s, rest) == [op |-> op, stream |-> s, rest |-> rest]
\* retry_blocked_streams is about to take the next stream of rest.
Retrying(rest) == [op |-> "retry", stream |-> 0, rest |-> rest]

Init ==
    /\ scope \in Scopes
    /\ live = {}
    /\ str = [s \in Streams |-> NewStream]
    /\ index = {}
    /\ inserts = 0
    /\ decOpen = FALSE
    /\ deferred = [acks |-> [s \in Streams |-> 0], cancels |-> [s \in Streams |-> 0]]
    /\ goaway = NoGoaway
    /\ err = "none"
    /\ call = Idle
    /\ decOut = [s \in Streams |-> <<>>]
    /\ net = [used |-> {},                         \* ids send_request consumed
              opened |-> {},                       \* and answered with
              reset |-> {}, stopped |-> {},        \* RESET_STREAM, STOP_SENDING
              refused |-> {},                      \* a feed_stream failed: given up
              failed |-> {},                       \* a poll_event failed here
              stranded |-> FALSE,                  \* with streams left to retry
              arrived |-> [s \in Streams |-> 0],
              decoded |-> [s \in Streams |-> 0],   \* sections with ric > 0
              sends |-> [s \in Streams |-> 0]]
    /\ fed = [s \in Streams |-> <<>>]
    /\ finned = {}
    /\ got = [s \in Streams |-> <<>>]
    /\ ended = {}
    /\ wire = [s \in Streams |-> <<>>]

-----------------------------------------------------------------------------
(* StreamState and SendBuffer.                                             *)

CloseLocal(state) ==
    CASE state = "Open" -> "LocalClosed"
      [] state = "RemoteClosed" -> "Closed"
      [] OTHER -> state

CloseRemote(state) ==
    CASE state = "Open" -> "RemoteClosed"
      [] state = "LocalClosed" -> "Closed"
      [] OTHER -> state

CanSend(st) == st.state \in {"Open", "RemoteClosed"}

IsSendComplete(st) == IF st.outFin THEN st.finSent ELSE st.out = <<>>

\* Mutant: FIN is handed out again.
HasFinPendingAgain(st) == st.outFin /\ st.out = <<>>

HasFinPending(st) == st.outFin /\ st.out = <<>> /\ ~st.finSent

\* remove_stream_if_done: when a stream is forgotten.
Done(st) == st.state = "Reset" \/ (st.state = "Closed" /\ IsSendComplete(st))

\* Stream s is st from now on, or gone if it is done.
Settle(s, st) ==
    IF Done(st)
    THEN live' = live \ {s} /\ str' = [str EXCEPT ![s] = NewStream]
    ELSE UNCHANGED live /\ str' = [str EXCEPT ![s] = st]

-----------------------------------------------------------------------------
(* The frame loop: process_stream_frames, one iteration per step.          *)

S == call.stream
St == str[S]
Reads(kind) == call.op \in {"feed", "poll"} /\ St.buf # <<>> /\ Head(St.buf).kind = kind

\* The stream without the frame being read.
Consumed(st) == [st EXCEPT !.buf = Tail(@)]

\* Err(ConnectionError): remembered, and every later call refuses.
ConnectionError(code) ==
    /\ err' = code
    /\ call' = Idle
    /\ UNCHANGED <<scope, live, str, index, inserts, decOpen, deferred, goaway, decOut,
                   net, fed, finned, got, ended, wire>>

\* (history) A section that is to be acknowledged counts.
Counted(f) == IF f.ric > 0 THEN 1 ELSE 0

\* The call returns an error that is not remembered, leaving stream s as st.
\* feed_stream tells its caller which stream it is and removes it if done;
\* poll_event does neither, and drops the streams it has not retried.
CallFails(s, st, rest, decoded) ==
    /\ call' = Idle
    /\ IF call.op = "feed"
       THEN /\ Settle(s, st)
            /\ net' = [net EXCEPT !.refused = @ \cup {s}, !.decoded[s] = @ + decoded]
       ELSE /\ str' = [str EXCEPT ![s] = st]
            /\ UNCHANGED live
            /\ net' = [net EXCEPT !.failed = @ \cup {s}, !.decoded[s] = @ + decoded,
                                  !.stranded = @ \/ rest # {}]
    /\ UNCHANGED <<scope, index, inserts, decOpen, deferred, goaway, err, decOut, fed,
                   finned, got, ended, wire>>

\* Mutant: a stream that poll_event took up is not removed.
LeaveKept(st) ==
    /\ IF call.op = "feed" THEN Settle(S, st)
       ELSE str' = [str EXCEPT ![S] = st] /\ UNCHANGED live
    /\ call' = IF call.rest = {} THEN Idle ELSE Retrying(call.rest)

\* The loop is over for this stream.
Leave(st) ==
    /\ Settle(S, st)
    /\ call' = IF call.rest = {} THEN Idle ELSE Retrying(call.rest)

\* The next frame is of a type a request stream must not carry (SETTINGS,
\* GOAWAY, MAX_PUSH_ID, PUSH_PROMISE, HTTP/2 types, a late WT_STREAM), or FIN
\* cut it off.
ReadForbidden == Reads("control") /\ ConnectionError("H3_FRAME_UNEXPECTED")
ReadCut == Reads("cut") /\ ConnectionError("H3_FRAME_ERROR")

\* A GOAWAY frame whose payload decode_frame refuses, with an error that is not
\* a connection error; it stays in the buffer.
ReadGarbled == Reads("garbled") /\ CallFails(S, St, call.rest, 0)

ReadUnknown ==
    /\ Reads("unknown")
    /\ str' = [str EXCEPT ![S] = Consumed(@)]
    /\ UNCHANGED <<scope, live, index, inserts, decOpen, deferred, goaway, err, call, decOut,
                   net, fed, finned, got, ended, wire>>

\* The body would exceed max_received_body_size.
TooLarge(st, f) == st.body + f.len > scope.body

ReadData ==
    LET f == Head(St.buf)
    IN  /\ Reads("data")
        /\ IF St.recv \in {"WaitingHeaders", "TrailersReceived"}
           THEN ConnectionError("H3_FRAME_UNEXPECTED")
           ELSE IF TooLarge(St, f)
           THEN ConnectionError("H3_EXCESSIVE_LOAD")
           ELSE /\ str' = [str EXCEPT ![S] = [Consumed(St) EXCEPT !.body = @ + f.len]]
                /\ got' = [got EXCEPT ![S] = Append(@, f)]
                /\ UNCHANGED <<scope, live, index, inserts, decOpen, deferred, goaway, err,
                               call, decOut, net, fed, finned, ended, wire>>

\* validate_headers, validate_trailer_headers.
Valid(f, trailer) ==
    IF trailer THEN f.what = "trailers"
    ELSE f.what \in {"message", "connect"}
                    \cup (IF Role = "Client" THEN {"informational"} ELSE {})

\* emit_header_events on the stream: CONNECT, 1xx, the headers received.
WithHeaders(st, f, trailer) ==
    IF trailer THEN st
    ELSE [st EXCEPT
            !.connect = @ \/ (f.what = "connect" /\ (Role = "Server" \/ st.connectReq)),
            !.recv = IF f.what = "informational" THEN "WaitingHeaders" ELSE @,
            !.length = f.len]

\* A decoder instruction, deferred while there is no decoder stream.
Acknowledge(s, f) ==
    IF f.ric = 0 THEN UNCHANGED <<decOut, deferred>>
    ELSE IF decOpen
    THEN decOut' = [decOut EXCEPT ![s] = Append(@, "ack")] /\ UNCHANGED deferred
    ELSE deferred' = [deferred EXCEPT !.acks[s] = @ + 1] /\ UNCHANGED decOut

Cancel(s) ==
    IF decOpen
    THEN decOut' = [decOut EXCEPT ![s] = Append(@, "cancel")] /\ UNCHANGED deferred
    ELSE deferred' = [deferred EXCEPT !.cancels[s] = @ + 1] /\ UNCHANGED decOut

\* The section f of stream s has been decoded: its events, its acknowledgment;
\* then the loop reads on.
EmitHeaders(s, st, f, trailer, rest) ==
    IF Valid(f, trailer)
    THEN /\ str' = [str EXCEPT ![s] = WithHeaders(st, f, trailer)]
         /\ got' = [got EXCEPT ![s] = Append(@, f)]
         /\ Acknowledge(s, f)
         /\ call' = Reading(IF call.op = "feed" THEN "feed" ELSE "poll", s, rest)
         /\ net' = [net EXCEPT !.decoded[s] = @ + Counted(f)]
         /\ UNCHANGED <<scope, live, index, inserts, decOpen, goaway, err, fed, finned, ended,
                        wire>>
    ELSE CallFails(s, st, rest, Counted(f))

\* A HEADERS frame: where it may come, and decode, which blocks before it fails.
ReadHeaders ==
    LET f == Head(St.buf)
        trailer == St.recv = "ReceivingBody"
        st == [Consumed(St) EXCEPT !.recv = IF trailer THEN "TrailersReceived"
                                            ELSE "ReceivingBody"]
    IN  /\ Reads("headers")
        /\ IF St.recv = "TrailersReceived" \/ (trailer /\ St.connect)
           THEN ConnectionError("H3_FRAME_UNEXPECTED")
           ELSE IF f.ric > inserts
           THEN IF Cardinality(index) >= scope.blocked
                THEN ConnectionError("QPACK_DECOMPRESSION_FAILED")
                ELSE /\ index' = index \cup {<<f.ric, S>>}
                     /\ Leave([st EXCEPT !.blocked = TRUE, !.ricnt = f.ric,
                                         !.held = <<[frame |-> f, trailer |-> trailer]>>])
                     /\ UNCHANGED <<scope, inserts, decOpen, deferred, goaway, err, decOut, net,
                                    fed, finned, got, ended, wire>>
           ELSE IF f.what = "undecodable" THEN CallFails(S, st, call.rest, 0)
           ELSE EmitHeaders(S, st, f, trailer, call.rest)

\* validate_content_length
LengthOK(st) == st.length = NoLength \/ st.length = st.body

\* No frame is left: the end of the stream, a FIN without a message, or the end
\* of what has arrived.
ReadEnd ==
    LET st == [St EXCEPT !.state = CloseRemote(@), !.recv = "Complete"]
    IN  /\ call.op \in {"feed", "poll"} /\ St.buf = <<>>
        /\ IF ~St.fin \/ St.recv = "Complete"
           THEN /\ Leave(St)
                /\ UNCHANGED <<scope, index, inserts, decOpen, deferred, goaway, err, decOut,
                               net, fed, finned, got, ended, wire>>
           ELSE IF St.recv = "WaitingHeaders" THEN CallFails(S, St, call.rest, 0)
           ELSE IF ~LengthOK(St) THEN CallFails(S, st, call.rest, 0)
           ELSE /\ str' = [str EXCEPT ![S] = st]
                /\ ended' = ended \cup {S}
                /\ UNCHANGED <<scope, live, index, inserts, decOpen, deferred, goaway, err,
                               call, decOut, net, fed, finned, got, wire>>

-----------------------------------------------------------------------------
(* The calls.                                                              *)

Ready == call = Idle /\ err = "none"

\* QUIC delivers a frame, or the FIN with or without one, on a stream it may
\* still deliver to.
MayArrive(s) ==
    /\ s \notin finned \cup net.reset \cup net.refused
    /\ Role = "Client" => s \in net.opened

\* handle_bidirectional_stream refuses a request beyond GOAWAY.
Rejected(s) == Role = "Server" /\ s \notin live /\ goaway # NoGoaway /\ s >= goaway

\* Mutant: frames behind a parked section are read.
ParseAlways(s, st) == Reading("feed", s, {})

\* handle_bidirectional_stream reads frames unless the stream is parked.
Parse(s, st) == IF st.blocked THEN Idle ELSE Reading("feed", s, {})

\* feed_stream on a request stream, up to the frame loop.
FeedStream(s, chunk, fin) ==
    LET st == IF s \in live THEN str[s] ELSE NewStream
        more == [st EXCEPT !.buf = @ \o chunk, !.fin = @ \/ fin]
        shown == IF chunk # <<>> /\ chunk[1].kind = "unknown" THEN <<>> ELSE chunk
    IN  /\ Ready
        /\ MayArrive(s)
        /\ chunk # <<>> \/ fin
        /\ chunk # <<>> /\ chunk[1].kind = "cut" => fin
        /\ net.arrived[s] + Len(chunk) <= scope.arrivals
        /\ fed' = [fed EXCEPT ![s] = @ \o shown]
        /\ finned' = IF fin THEN finned \cup {s} ELSE finned
        /\ IF Rejected(s)
           THEN /\ net' = [net EXCEPT !.refused = @ \cup {s}]
                /\ UNCHANGED <<live, str, call>>
           ELSE /\ net' = [net EXCEPT !.arrived[s] = @ + Len(chunk)]
                /\ live' = live \cup {s}
                /\ str' = [str EXCEPT ![s] = more]
                /\ call' = Parse(s, st)
        /\ UNCHANGED <<scope, index, inserts, decOpen, deferred, goaway, err, decOut, got,
                       ended, wire>>

\* process_encoder_stream applies an insertion.
EncoderStream ==
    /\ Ready
    /\ inserts < scope.inserts
    /\ inserts' = inserts + 1
    /\ UNCHANGED <<scope, live, str, index, decOpen, deferred, goaway, err, call, decOut, net,
                   fed, finned, got, ended, wire>>

\* Mutant: a stream waits for one insertion more.
UnblockableLater == {p \in index : p[1] < inserts}

\* The pairs of blocked_by_ricnt that insert_count has reached.
Unblockable == {p \in index : p[1] <= inserts}

\* The first of a set of pairs in the order of a BTreeSet.
First(pairs) ==
    CHOOSE p \in pairs : \A q \in pairs :
        p[1] < q[1] \/ (p[1] = q[1] /\ p[2] <= q[2])

\* poll_event, drain_events: retry_blocked_streams collects the streams to
\* retry and takes all of them out of the index.
PollEvent ==
    /\ Ready
    /\ Unblockable # {}
    /\ index' = index \ Unblockable
    /\ call' = Retrying(Unblockable)
    /\ UNCHANGED <<scope, live, str, inserts, decOpen, deferred, goaway, err, decOut, net, fed,
                   finned, got, ended, wire>>

\* The next of them: its section is taken and decodes, its insertions being there.
RetryNext ==
    LET s == First(call.rest)[2]
        rest == call.rest \ {First(call.rest)}
        f == str[s].held[1].frame
        trailer == str[s].held[1].trailer
        taken == [str[s] EXCEPT !.held = <<>>]
        free == [taken EXCEPT !.blocked = FALSE, !.ricnt = 0]
    IN  /\ call.op = "retry"
        /\ IF s \notin live \/ str[s].held = <<>>
           THEN /\ call' = IF rest = {} THEN Idle ELSE Retrying(rest)
                /\ UNCHANGED <<scope, live, str, index, inserts, decOpen, deferred, goaway, err,
                               decOut, net, fed, finned, got, ended, wire>>
           ELSE IF f.what = "undecodable" THEN CallFails(s, taken, rest, 0)
           ELSE IF /\ ~trailer /\ free.state \in {"RemoteClosed", "Closed"}
                   /\ ~LengthOK([free EXCEPT !.length = f.len])
           THEN CallFails(s, free, rest, Counted(f))
           ELSE EmitHeaders(s, free, f, trailer, rest)

\* Mutant: the pair stays.
IndexKept(s) == index

\* clear_qpack_blocked on blocked_by_ricnt.
IndexWithout(s) == index \ {<<str[s].ricnt, s>>}

\* RESET_STREAM from the peer: stream_reset.
StreamReset(s) ==
    /\ Ready
    /\ s \notin finned \cup net.reset
    /\ Role = "Client" => s \in net.opened
    /\ net' = [net EXCEPT !.reset = @ \cup {s}]
    /\ index' = IndexWithout(s)
    /\ Cancel(s)
    /\ live' = live \ {s}
    /\ str' = [str EXCEPT ![s] = NewStream]
    /\ UNCHANGED <<scope, inserts, decOpen, goaway, err, call, fed, finned, got, ended, wire>>

\* STOP_SENDING from the peer: stop_sending.
StopSending(s) ==
    LET st == [str[s] EXCEPT !.state = CloseLocal(@), !.out = <<>>, !.outFin = FALSE,
                             !.finSent = FALSE,
                             !.blocked = FALSE, !.ricnt = 0, !.held = <<>>]
    IN  /\ Ready
        /\ s \in StopStreams \ net.stopped
        /\ Role = "Client" => s \in net.opened
        /\ net' = [net EXCEPT !.stopped = @ \cup {s}]
        /\ index' = IndexWithout(s)
        /\ Cancel(s)
        /\ IF s \in live THEN Settle(s, st) ELSE UNCHANGED <<live, str>>
        /\ UNCHANGED <<scope, inserts, decOpen, goaway, err, call, fed, finned, got, ended, wire>>

Times(n, op) == [i \in 1 .. n |-> op]

\* Mutant: the cancellations come first.
DeferredSwapped(s) ==
    Times(deferred.cancels[s], "cancel") \o Times(deferred.acks[s], "ack")

\* What set_decoder_stream_id writes for a stream.
DeferredFor(s) ==
    Times(deferred.acks[s], "ack") \o Times(deferred.cancels[s], "cancel")

\* set_decoder_stream_id, which a caller has no use for after an error.
OpenDecoderStream ==
    /\ Ready
    /\ ~decOpen
    /\ decOpen' = TRUE
    /\ decOut' = [s \in Streams |-> DeferredFor(s)]
    /\ deferred' = [acks |-> [s \in Streams |-> 0], cancels |-> [s \in Streams |-> 0]]
    /\ UNCHANGED <<scope, live, str, index, inserts, goaway, err, call, net, fed, finned, got,
                   ended, wire>>

\* GOAWAY: the server sends one (send_goaway), the client receives one
\* (process_control_stream); an increasing id is a connection error.
Goaway(id) ==
    /\ Ready
    /\ id # goaway
    /\ IF goaway # NoGoaway /\ id > goaway
       THEN err' = "H3_ID_ERROR" /\ UNCHANGED goaway
       ELSE goaway' = id /\ UNCHANGED err
    /\ UNCHANGED <<scope, live, str, index, inserts, decOpen, deferred, call, decOut, net, fed,
                   finned, got, ended, wire>>

-----------------------------------------------------------------------------
(* Sending.                                                                *)

\* Stream st with a frame queued and, with fin, its sending side closed.
Queue(st, kind, next, fin) ==
    [st EXCEPT !.out = Append(@, kind),
               !.outFin = @ \/ fin,
               !.state = IF fin THEN CloseLocal(@) ELSE @,
               !.send = IF fin THEN "Complete" ELSE next]

\* send_request_inner: the next id, unless GOAWAY forbids it.  CONNECT must keep
\* its stream open: with FIN it is refused, when the id is already consumed.
SendRequest(s, connect, fin) ==
    /\ Ready
    /\ Role = "Client"
    /\ s \notin net.used /\ \A t \in Streams : t < s => t \in net.used
    /\ goaway = NoGoaway \/ s < goaway
    /\ IF connect /\ fin
       THEN /\ net' = [net EXCEPT !.used = @ \cup {s}]
            /\ UNCHANGED <<live, str>>
       ELSE /\ net' = [net EXCEPT !.used = @ \cup {s}, !.opened = @ \cup {s}]
            /\ live' = live \cup {s}
            /\ str' = [str EXCEPT ![s] = Queue([NewStream EXCEPT !.connectReq = connect],
                                               "final", "HeadersSent", fin)]
    /\ UNCHANGED <<scope, index, inserts, decOpen, deferred, goaway, err, call, decOut, fed,
                   finned, got, ended, wire>>

\* send_response_inner, send_encoded_headers: an interim response, the final
\* one, or a section in the place of trailers.  All of them have passed
\* validate_response_headers, so all of them carry :status.
SendResponse(s, interim, fin) ==
    LET st == str[s]
        first == st.send \in {"Initial", "InterimResponseSent"}
    IN  /\ Ready
        /\ Role = "Server"
        /\ s \in live
        /\ net.sends[s] < scope.sends
        /\ CanSend(st)
        /\ \/ first
           \/ st.send \in {"HeadersSent", "SendingBody"} /\ ~st.connect /\ ~interim
        /\ ~(interim /\ fin)
        /\ net' = [net EXCEPT !.sends[s] = @ + 1]
        /\ str' = [str EXCEPT ![s] =
                     IF ~first THEN Queue(st, "status trailers", "TrailersSent", fin)
                     ELSE IF interim THEN Queue(st, "interim", "InterimResponseSent", fin)
                     ELSE Queue(st, "final", "HeadersSent", fin)]
        /\ UNCHANGED <<scope, live, index, inserts, decOpen, deferred, goaway, err, call, decOut,
                       fed, finned, got, ended, wire>>

\* send_body: a DATA frame unless it is empty, and FIN.
SendBody(s, empty, fin) ==
    LET st == str[s]
    IN  /\ Ready
        /\ s \in live
        /\ net.sends[s] < scope.sends
        /\ CanSend(st)
        /\ st.send \in {"HeadersSent", "SendingBody"}
        /\ ~empty \/ fin
        /\ net' = [net EXCEPT !.sends[s] = @ + 1]
        /\ str' = [str EXCEPT ![s] =
                     IF empty
                     THEN [st EXCEPT !.outFin = TRUE, !.state = CloseLocal(@),
                                     !.send = "Complete"]
                     ELSE Queue(st, "data", "SendingBody", fin)]
        /\ UNCHANGED <<scope, live, index, inserts, decOpen, deferred, goaway, err, call, decOut,
                       fed, finned, got, ended, wire>>

\* take_stream_data: all the data, or the FIN once no data is left; then
\* consume_stream_data removes the stream if it is done.
TakeStreamData(s) ==
    LET st == str[s]
    IN  /\ call = Idle
        /\ s \in live
        /\ \/ /\ HasFinPending(st)
              /\ Settle(s, [st EXCEPT !.finSent = TRUE])
              /\ wire' = [wire EXCEPT ![s] = Append(@, "fin")]
           \/ /\ st.out # <<>>
              /\ Settle(s, [st EXCEPT !.out = <<>>])
              /\ wire' = [wire EXCEPT ![s] = @ \o st.out]
        /\ UNCHANGED <<scope, index, inserts, decOpen, deferred, goaway, err, call, decOut, net,
                       fed, finned, got, ended>>

LoopStep ==
    \/ ReadForbidden \/ ReadCut \/ ReadGarbled \/ ReadUnknown
    \/ ReadData \/ ReadHeaders \/ ReadEnd
    \/ RetryNext

Next ==
    \/ LoopStep
    \/ \E s \in scope.streams, fin \in BOOLEAN, chunk \in {<<>>} \cup {<<f>> : f \in scope.frames} :
          FeedStream(s, chunk, fin)
    \/ EncoderStream
    \/ PollEvent
    \/ \E s \in scope.streams : StreamReset(s)
    \/ \E s \in scope.streams : StopSending(s)
    \/ OpenDecoderStream
    \/ \E id \in scope.goaways : Goaway(id)
    \/ \E s \in scope.streams, connect, fin \in BOOLEAN : SendRequest(s, connect, fin)
    \/ \E s \in scope.streams, interim, fin \in BOOLEAN : SendResponse(s, interim, fin)
    \/ \E s \in scope.streams, empty, fin \in BOOLEAN : SendBody(s, empty, fin)
    \/ \E s \in scope.streams : TakeStreamData(s)

Spec == Init /\ [][Next]_vars

\* A call that has begun ends; the peer's insertions arrive; the caller polls.
Fairness == WF_vars(LoopStep) /\ WF_vars(EncoderStream) /\ WF_vars(PollEvent)

FairSpec == Spec /\ Fairness
-----------------------------------------------------------------------------
(* Properties.                                                             *)

\* What is queued to be sent.
Pieces == {"interim", "final", "data", "status trailers"}

\* What RequestStream keeps, for the frames a peer sends and a limit on bodies.
Records(frames, body) ==
    [buf : Seq(frames), fin : BOOLEAN,
     recv : {"WaitingHeaders", "ReceivingBody", "TrailersReceived", "Complete"},
     state : {"Open", "LocalClosed", "RemoteClosed", "Closed", "Reset"},
     blocked : BOOLEAN, ricnt : Nat,
     held : Seq([frame : frames, trailer : BOOLEAN]),
     length : Nat \cup {NoLength}, body : 0 .. body,
     connect : BOOLEAN, connectReq : BOOLEAN,
     send : {"Initial", "InterimResponseSent", "HeadersSent", "SendingBody",
             "TrailersSent", "Complete"},
     out : Seq(Pieces), outFin : BOOLEAN, finSent : BOOLEAN]

\* The types of the state.
TypeOK ==
    /\ live \subseteq Streams
    /\ str \in [Streams -> Records(scope.frames, scope.body)]
    /\ index \subseteq Nat \X Streams
    /\ inserts \in 0 .. scope.inserts
    /\ decOpen \in BOOLEAN
    /\ goaway \in scope.goaways \cup {NoGoaway}
    /\ call.op \in {"idle", "feed", "poll", "retry"}
    /\ call.op # "idle" => err = "none"

\* A stream parked on a section can be found again: the section is kept and the
\* stream is in blocked_by_ricnt under the count it was parked with, or among
\* those the running poll_event is about to retry.
Findable(s) ==
    str[s].blocked => /\ str[s].held # <<>>
                      /\ <<str[s].ricnt, s>> \in index \cup call.rest

\* blocked_by_ricnt holds the parked streams, all of them and no others, so that
\* none is forgotten and none that is gone counts against the limit, whatever
\* resets, retries and second blockings on trailers happen; as long as no
\* poll_event has failed with streams left to retry.
BlockedStreamsIndexed ==
    err = "none" =>
        /\ ~net.stranded => \A s \in live \ net.failed : Findable(s)
        /\ \A p \in index : /\ p[2] \in live
                              /\ str[p[2]].blocked /\ str[p[2]].ricnt = p[1]

\* The state of the streams and the index over it stay well formed: TypeOK and
\* BlockedStreamsIndexed (blocked_by_ricnt, set_qpack_blocked).
StreamsInv == TypeOK /\ BlockedStreamsIndexed

\* What the application of StreamDelivery sees of this connection.
Unstopped == Streams \ StopStreams
AllFrames == UNION {sc.frames : sc \in Scopes}
SeenFed == [s \in Unstopped |-> fed[s]]
SeenFinned == finned \cap Unstopped
SeenGot == [s \in Unstopped |-> got[s]]
SeenEnded == ended \cap Unstopped
SeenBroken == (net.refused \cup net.failed) \cap Unstopped
Delivery == INSTANCE StreamDelivery WITH
    Streams <- Unstopped, Frames <- AllFrames, fed <- SeenFed, finned <- SeenFinned,
    got <- SeenGot, ended <- SeenEnded, broken <- SeenBroken

\* The connection implements StreamDelivery on the streams the peer does not
\* stop: every event is the next frame of its stream, sections wait for their
\* insertions, the end comes last, and an error on one stream leaves the events
\* of the others in order.
ImplementsDelivery == Delivery!AbsSpec

\* The decoder instructions for a stream, written and deferred.
InstructionsOf(s) ==
    decOut[s] \o Times(deferred.acks[s], "ack") \o Times(deferred.cancels[s], "cancel")

\* They are one acknowledgment for each section that was decoded with
\* insertions, and a cancellation after them if the stream was reset, whether
\* the decoder stream was open at the time or not.
Answered(s) ==
    InstructionsOf(s) = Times(net.decoded[s], "ack")
                        \o (IF s \in net.reset THEN <<"cancel">> ELSE <<>>)

\* Every section of a stream no call failed on is answered.
SectionsAnswered ==
    \A s \in Unstopped \ (net.refused \cup net.failed) : Answered(s)

\* Between calls no stream is kept that remove_stream_if_done would remove,
\* whichever of receiving, sending, FIN and STOP_SENDING came last; a stream
\* poll_event failed on is exempt.
FinishedStreamsRemoved ==
    call = Idle => \A s \in live \ net.failed : ~Done(str[s])

\* The pieces of a message that may come before x.
Before(x) ==
    CASE x \in {"interim", "final"} -> {"interim"}
      [] x \in {"data", "status trailers"} -> {"interim", "final", "data"}
      [] OTHER -> Pieces

\* Interim sections, the final one, data, at most one section behind it, FIN.
InOrder(q) ==
    /\ \A i, j \in 1 .. Len(q) : i < j => q[i] \in Before(q[j])
    /\ \A j \in 1 .. Len(q) :
          q[j] \notin {"interim", "final"} => \E i \in 1 .. j - 1 : q[i] = "final"

\* Whatever sequence of send calls is made, and whenever their data is taken,
\* what goes to the wire is in the order of a message, each piece in its place.
SentMessageWellFormed == \A s \in Streams : InOrder(wire[s])

\* A parked stream is taken up again, once its insertions arrive and the caller
\* polls, unless the connection fails or a poll_event fails (which may strand it).
BlockedStreamsResume ==
    \A s \in Streams :
        str[s].blocked ~> (~str[s].blocked \/ err # "none" \/ net.failed # {})
=============================================================================
