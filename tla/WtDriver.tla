------------------------------ MODULE WtDriver ------------------------------
(***************************************************************************)
(* The tasks of crates/tokio-s2n-quic around one WebTransport session:     *)
(* WtClient::connect or WtSessionRequest, then WtSession.                  *)
(*                                                                         *)
(* The call of the application waits for the peer's SETTINGS, which        *)
(* another task feeds to the connection behind the mutex, and exchanges    *)
(* CONNECT and its response.  From then on a receiving task owns the       *)
(* receiving end of the CONNECT stream, a sending task owns the other end  *)
(* and takes commands from a channel, and both share the limits of the     *)
(* sending side (fc) with the application.  A critical section is one      *)
(* step.                                                                   *)
(*                                                                         *)
(* The session is one of one per connection.  The bytes of the CONNECT     *)
(* stream are items: header sections and capsules; receive() returns any   *)
(* number of them at once.  Every resource (streams of each direction,     *)
(* data) is counted alike, so scope.resource names the one under check.    *)
(***************************************************************************)
EXTENDS Integers, Sequences, FiniteSets, SequencesExt

CONSTANTS
    MaxLimit,       \* bound on the maxima the peer advertises
    UniCapacity,    \* capacity of the channel of unidirectional streams
    Scopes          \* role; headers, capsules: what the peer may put on the CONNECT
                    \* stream; len: bound on capsules; limit: its initial maximum;
                    \* enabled: both ends use flow control; calls: what the
                    \* application does with the session; fails: what may go
                    \* wrong; data: the stream the peer opens, if any

NoStream == [kind |-> "none", names |-> "own", payload |-> 0]

Item(k, v) == [k |-> k, v |-> v]

\* What the header sections of the peer may come to, a response or a request.
HeaderKinds ==
    [client |-> {"ok", "interim", "no", "malformed", "badproto", "late"},
     server |-> {"ok", "late", "malformed", "get"}]

ASSUME WtDriverAssumption ==
    /\ MaxLimit \in Nat /\ UniCapacity \in Nat \ {0}
    /\ \A sc \in Scopes :
          /\ sc.role \in {"client", "server"}
          /\ sc.headers \subseteq HeaderKinds[sc.role]
          /\ sc.capsules \subseteq [k : {"max", "drain", "close", "half"}, v : 0 .. MaxLimit]
          /\ sc.len \in Nat /\ sc.limit \in 0 .. MaxLimit /\ sc.enabled \in BOOLEAN
          /\ sc.fails \subseteq {"fin", "lost", "critical", "goaway", "reset"}
          /\ sc.calls \subseteq {"use", "close", "drop"}
          /\ sc.data \in [kind : {"none", "uni", "bidi"},
                          names : {"own", "foreign", "malformed", "http"}, payload : Nat]

VARIABLES
    scope,      \* the instance under check
    conn,       \* the QUIC connection: "up", "lost", or "closed" by this end
    inbox,      \* what QUIC holds for the CONNECT stream
    ctl,        \* what QUIC holds for the peer's control and encoder streams
    h3,         \* the sans-I/O state behind the mutex
    pc,         \* program counters
    permit,     \* unblock_notify, uni_closed_notify
    call,       \* locals of the application's call
    task,       \* locals of the receiving task
    fc,         \* WtSendFlowControl
    events,     \* what the receiving task has sent to event_rx
    cmds,       \* the channel of the sending task
    wire,       \* what went out on the CONNECT stream
    data,       \* the data stream of the peer and what has been read of it
    sent        \* (history) what the peer has put on the CONNECT stream

vars == <<scope, conn, inbox, ctl, h3, pc, permit, call, task, fc, events, cmds, wire,
          data, sent>>

Init ==
    /\ scope \in Scopes
    /\ conn = "up"
    /\ inbox = <<>> /\ ctl = <<>>
    /\ h3 = [settings |-> FALSE, inserted |-> FALSE, goaway |-> FALSE, error |-> FALSE,
             ses |-> "none", ended |-> "none", parked |-> <<>>, caps |-> <<>>, half |-> FALSE,
             events |-> <<>>]
    /\ pc = [app |-> IF scope.role = "client" THEN "wait" ELSE "accept", ctl |-> "receive",
             acceptor |-> "accept", recv |-> "none", route |-> "header"]
    /\ permit = [unblock |-> FALSE, closed |-> FALSE]
    /\ call = [events |-> <<>>, caps |-> <<>>, result |-> "none", closing |-> "none"]
    /\ task = [delivered |-> FALSE, saw |-> "none"]
    /\ fc = [enabled |-> FALSE, limit |-> 0, used |-> 0]
    /\ events = <<>> /\ cmds = <<>> /\ wire = <<>>
    /\ data = [total |-> 0, arrived |-> <<>>, fin |-> FALSE, buf |-> <<>>, pending |-> <<>>,
               read |-> <<>>, chan |-> 0, held |-> FALSE]
    /\ sent = <<>>

-----------------------------------------------------------------------------
(* The sans-I/O connection, as far as the tasks can tell.                  *)

Event(k, v) == Item(k, v)
Emit(h, k, v) == [h EXCEPT !.events = Append(@, Event(k, v))]

\* terminate_wt_session
Terminate(h, code) == Emit([h EXCEPT !.ses = "closed", !.ended = code], "closed", code)

\* A capsule on an established session; after its end, Err(MessageError).
Capsule(acc, item) ==
    LET h == acc.h
    IN  IF acc.failed THEN acc
        ELSE IF h.ses = "closed" THEN [acc EXCEPT !.failed = TRUE]
        ELSE CASE item.k = "max" -> [acc EXCEPT !.h = Emit(h, "max", item.v)]
               [] item.k = "drain" ->
                    [acc EXCEPT !.h = IF h.ses = "established"
                                      THEN Emit([h EXCEPT !.ses = "draining"], "drain", 0) ELSE h]
               [] item.k = "close" -> [acc EXCEPT !.h = Terminate(h, "peer")]
               [] item.k = "half" -> [acc EXCEPT !.h.half = TRUE]

\* emit_header_events.  A response to a session that is no longer Pending does
\* not establish it.
Headers(acc, item) ==
    LET h == acc.h
    IN  CASE item.k = "malformed" -> [acc EXCEPT !.failed = TRUE]
          [] item.k = "badproto" -> [acc EXCEPT !.h = Emit(Terminate(h, "alpn"), "headers", "ok")]
          [] item.k \in {"ok", "late"} /\ scope.role = "client" ->
               [acc EXCEPT !.h = Emit(IF h.ses = "pending"
                                      THEN Emit([h EXCEPT !.ses = "established"], "established", 0)
                                      ELSE h, "headers", "ok")]
          [] item.k \in {"ok", "late"} /\ scope.role = "server" ->
               [acc EXCEPT !.h = Emit([h EXCEPT !.ses = "pending"], "headers", "ok")]
          [] OTHER -> [acc EXCEPT !.h = Emit(h, "headers", item.k)]

IsHeaders(item) == item.k \notin {"max", "drain", "close", "half", "fin"}

\* One item of the CONNECT stream.  A late section waits for an insertion; what
\* comes behind it waits too.  Without a session a stream has no capsules.
ReadItem(acc, item) ==
    LET h == acc.h
    IN  IF acc.failed THEN acc
        ELSE IF h.parked # <<>> \/ (item.k = "late" /\ ~h.inserted)
        THEN [acc EXCEPT !.h.parked = Append(@, item)]
        ELSE IF IsHeaders(item) THEN Headers(acc, item)
        ELSE IF h.ses = "none" THEN acc
        ELSE IF item.k = "fin"
        THEN IF h.ses = "closed" THEN acc
             ELSE IF h.ses = "pending" THEN [acc EXCEPT !.h.ses = "closed"]
             ELSE IF h.half THEN [acc EXCEPT !.failed = TRUE]
             ELSE [acc EXCEPT !.h = Terminate(h, "clean")]
        ELSE IF h.ses = "pending" /\ scope.role = "server"
        THEN [acc EXCEPT !.h.caps = Append(@, item)]
        ELSE Capsule(acc, item)

\* One item after the other.
ReadItems(h, items) ==
    LET after[i \in 0 .. Len(items)] ==
            IF i = 0 THEN [h |-> h, failed |-> FALSE] ELSE ReadItem(after[i - 1], items[i])
    IN  after[Len(items)]

\* feed_stream
Feed(h, items) == IF h.error THEN [h |-> h, failed |-> TRUE] ELSE ReadItems(h, items)

\* retry_blocked_streams
Retried(h) ==
    IF h.parked = <<>> \/ ~h.inserted THEN [h |-> h, failed |-> FALSE]
    ELSE Feed([h EXCEPT !.parked = <<>>], h.parked)

Drained(h) == [h EXCEPT !.events = <<>>]

\* drain_events, and process_stream_data, which feeds and drains: the state, the
\* events, and whether it is an error.
Drain(h) ==
    LET r == Retried(h)
    IN  IF h.error THEN [h |-> h, events |-> <<>>, failed |-> TRUE]
        ELSE IF r.failed THEN [h |-> r.h, events |-> <<>>, failed |-> TRUE]
        ELSE [h |-> Drained(r.h), events |-> r.h.events, failed |-> FALSE]

ProcessStreamData(h, items) ==
    LET r == Feed(h, items)
    IN  IF r.failed THEN [h |-> r.h, events |-> <<>>, failed |-> TRUE] ELSE Drain(r.h)

\* stream_reset of the CONNECT stream, then drain_events.
ConnectStreamReset(h) ==
    IF h.error THEN Drain(h)
    ELSE Drain(IF h.ses \in {"pending", "established", "draining"} THEN Terminate(h, "gone") ELSE h)

\* apply_uni_recv_action: SETTINGS, an insertion, GOAWAY, the end of the stream.
UniApply(h, k) ==
    IF h.error THEN h
    ELSE CASE k = "settings" -> [h EXCEPT !.settings = TRUE]
           [] k = "insert" -> [h EXCEPT !.inserted = TRUE]
           [] k = "goaway" -> LET g == [h EXCEPT !.goaway = TRUE]
                              IN  IF scope.role = "client" /\ h.ses \in {"pending", "established"}
                                  THEN Emit([g EXCEPT !.ses = "draining"], "drain", 0) ELSE g
           [] k = "critical" -> [h EXCEPT !.error = TRUE]

-----------------------------------------------------------------------------
(* The tasks that feed the peer's control and encoder streams.             *)

Goto(t, l) == pc' = [pc EXCEPT ![t] = l]

\* route_uni_stream of an HTTP/3 stream: data is applied, then the waiter notified.
UniReceive ==
    /\ pc.ctl = "receive"
    /\ \/ /\ conn = "up" /\ ctl # <<>>
          /\ h3' = UniApply(h3, Head(ctl))
          /\ ctl' = Tail(ctl)
          /\ Goto("ctl", IF h3'.error THEN "notify last" ELSE "notify")
       \/ /\ conn # "up"
          /\ Goto("ctl", "notify last")
          /\ UNCHANGED <<h3, ctl>>
    /\ UNCHANGED <<scope, conn, inbox, permit, call, task, fc, events, cmds, wire, data, sent>>

UniNotify ==
    /\ pc.ctl \in {"notify", "notify last"}
    /\ permit' = [permit EXCEPT !.unblock = TRUE]
    /\ Goto("ctl", IF pc.ctl = "notify" THEN "receive" ELSE "done")
    /\ UNCHANGED <<scope, conn, inbox, ctl, h3, call, task, fc, events, cmds, wire, data, sent>>

\* Mutant: the loop that accepts streams ends without a word.
AcceptorEndsSilent ==
    /\ pc.acceptor = "accept" /\ conn # "up"
    /\ Goto("acceptor", "done")
    /\ UNCHANGED <<scope, conn, inbox, ctl, h3, permit, call, task, fc, events, cmds, wire,
                   data, sent>>

\* accept_receive_stream fails: no SETTINGS will come any more.
AcceptorEnds ==
    /\ pc.acceptor = "accept" /\ conn # "up"
    /\ permit' = [permit EXCEPT !.closed = TRUE]
    /\ Goto("acceptor", "done")
    /\ UNCHANGED <<scope, conn, inbox, ctl, h3, call, task, fc, events, cmds, wire, data, sent>>

-----------------------------------------------------------------------------
(* The handshake.                                                          *)

\* The ends of the stream are dropped, which finishes the sending one.
Abandon(how) ==
    /\ wire' = Append(wire, how)
    /\ call' = [call EXCEPT !.result = "error"]
    /\ Goto("app", "failed")

Fail == Abandon("fin")

\* WtServer: accept_bidirectional_stream.
AcceptConnect ==
    /\ pc.app = "accept"
    /\ \/ conn = "up" /\ sent # <<>> /\ Goto("app", "wait") /\ UNCHANGED <<wire, call>>
       \/ conn # "up" /\ Fail
    /\ UNCHANGED <<scope, conn, inbox, ctl, h3, permit, task, fc, events, cmds, data, sent>>

\* The loop is left: the permit that Notified::enable took is lost, one that came
\* after it is passed on.
LeaveWait ==
    /\ Goto("app", IF scope.role = "client" THEN "request" ELSE "drain")
    /\ \E kept \in BOOLEAN : permit' = [permit EXCEPT !.unblock = @ /\ kept]

\* The head of the loop that waits for SETTINGS: Notified::enable, then the check.
CheckSettings ==
    /\ pc.app = "wait"
    /\ IF h3.settings THEN LeaveWait ELSE Goto("app", "sleep") /\ UNCHANGED permit
    /\ UNCHANGED <<scope, conn, inbox, ctl, h3, call, task, fc, events, cmds, wire, data, sent>>

\* Its select!.
SettingsNotified ==
    /\ pc.app = "sleep" /\ permit.unblock
    /\ permit' = [permit EXCEPT !.unblock = FALSE]
    /\ Goto("app", "wait")
    /\ UNCHANGED <<scope, conn, inbox, ctl, h3, call, task, fc, events, cmds, wire, data, sent>>

\* The notification of uni_closed_notify has no use after it.
SettingsClosed ==
    /\ pc.app = "sleep" /\ permit.closed
    /\ IF h3.settings THEN LeaveWait /\ UNCHANGED <<wire, call>> ELSE Fail /\ UNCHANGED permit
    /\ UNCHANGED <<scope, conn, inbox, ctl, h3, task, fc, events, cmds, data, sent>>

\* The client's CONNECT: send_request under the lock, then send.
SendConnect ==
    /\ pc.app = "request"
    /\ IF h3.error \/ conn # "up" THEN Fail /\ UNCHANGED h3
       ELSE /\ h3' = [h3 EXCEPT !.ses = "pending"]
            /\ wire' = Append(wire, "connect")
            /\ Goto("app", "drain")
            /\ UNCHANGED call
    /\ UNCHANGED <<scope, conn, inbox, ctl, permit, task, fc, events, cmds, data, sent>>

\* The events of some kinds, in order.
Filter(evs, kinds) ==
    LET f[i \in 0 .. Len(evs)] ==
            IF i = 0 THEN <<>>
            ELSE IF evs[i].k \in kinds THEN Append(f[i - 1], evs[i]) ELSE f[i - 1]
    IN  f[Len(evs)]

\* is_forwardable_wt_event
Forwardable(evs) == Filter(evs, {"closed", "drain"})

MaximaOf(evs) == LET q == Filter(evs, {"max"}) IN [i \in DOMAIN q |-> q[i].v]

Of(evs, kinds) == {i \in DOMAIN evs : evs[i].k \in kinds}

\* process_handshake_events of a client: the session is refused, or ends before
\* it is established.
Refused(evs) ==
    /\ scope.role = "client"
    /\ \/ Event("headers", "no") \in Range(evs)
       \/ \E i \in Of(evs, {"closed", "drain"}) : \A j \in Of(evs, {"established"}) : i < j

\* The response, or for collect_request_events the request, is complete.
Complete(evs) == Of(evs, {IF scope.role = "client" THEN "established" ELSE "headers"}) # {}

\* What a round of the loop comes to, given the result of a call: an error, the
\* response or request is complete, or the loop goes on at next.
Round(r, next) ==
    /\ h3' = r.h
    /\ IF r.failed THEN Abandon(IF h3.error THEN "fin" ELSE "reset")
       ELSE IF Refused(r.events) THEN Fail
       ELSE /\ call' = [call EXCEPT
                          !.events = @ \o Forwardable(r.events),
                          !.caps = IF scope.role = "client" THEN @ \o MaximaOf(r.events) ELSE @]
            /\ Goto("app", IF ~Complete(r.events) THEN next
                           ELSE IF scope.role = "client" THEN "start"
                           ELSE IF Event("headers", "get") \in Range(r.events) THEN "reject"
                           ELSE "decide")
            /\ UNCHANGED wire

\* drain_events at the head of the loop.  Its error does not reset the stream.
HandshakeDrain ==
    LET r == Drain(h3)
    IN  /\ pc.app = "drain"
        /\ IF r.failed THEN h3' = r.h /\ Fail ELSE Round(r, "select")
        /\ UNCHANGED <<scope, conn, inbox, ctl, permit, task, fc, events, cmds, data, sent>>

\* The items receive() returns: some that have arrived; FIN comes alone.
Chunks ==
    {k \in 1 .. Len(inbox) : \A i \in 1 .. k : inbox[i].k \in {"fin", "reset"} => k = 1}

\* What is left of the inbox behind k items.  Behind FIN every call returns FIN.
Behind(k) == IF inbox[k].k = "fin" THEN inbox ELSE SubSeq(inbox, k + 1, Len(inbox))

\* The receiving branch of select!.  FIN before the handshake is complete ends it.
HandshakeReceive ==
    /\ pc.app = "select" /\ conn = "up"
    /\ \E k \in Chunks :
          LET items == SubSeq(inbox, 1, k)
          IN  /\ inbox' = Behind(k)
              /\ IF items[1].k = "reset" THEN Fail /\ UNCHANGED h3
                 ELSE LET r == ProcessStreamData(h3, items)
                      IN  IF items[1].k = "fin" /\ ~r.failed /\ ~Complete(r.events)
                          THEN h3' = r.h /\ Fail
                          ELSE Round(r, "drain")
    /\ UNCHANGED <<scope, conn, ctl, permit, task, fc, events, cmds, data, sent>>

HandshakeLost ==
    /\ pc.app = "select" /\ conn # "up"
    /\ Fail
    /\ UNCHANGED <<scope, conn, inbox, ctl, h3, permit, task, fc, events, cmds, data, sent>>

HandshakeNotified ==
    /\ pc.app = "select" /\ permit.unblock
    /\ permit' = [permit EXCEPT !.unblock = FALSE]
    /\ Goto("app", "drain")
    /\ UNCHANGED <<scope, conn, inbox, ctl, h3, call, task, fc, events, cmds, wire, data, sent>>

\* send_reject_response: 405 for a request that is no WebTransport CONNECT, or
\* WtSessionRequest::reject.  FIN that was parked with the section ended the
\* session, and with it the stream to answer on.
Reject ==
    /\ pc.app \in {"reject", "decide"}
    /\ wire' = IF h3.error \/ conn # "up" \/ h3.ses = "closed" THEN Append(wire, "fin")
               ELSE wire \o <<"4xx", "fin">>
    /\ h3' = IF h3.ses = "pending" /\ ~h3.error THEN [h3 EXCEPT !.ses = "closed"] ELSE h3
    /\ call' = [call EXCEPT !.result = "rejected"]
    /\ Goto("app", "failed")
    /\ UNCHANGED <<scope, conn, inbox, ctl, permit, task, fc, events, cmds, data, sent>>

\* WtSessionRequest::accept: send_response establishes the session and runs the
\* capsules that came early; if they are malformed there is no response.
Accept ==
    LET r == ReadItems(Emit([h3 EXCEPT !.ses = "established", !.caps = <<>>], "established", 0),
                       h3.caps)
    IN  /\ pc.app = "decide"
        /\ IF h3.error \/ h3.ses = "closed" THEN Fail /\ UNCHANGED h3
           ELSE /\ h3' = r.h
                /\ IF r.failed THEN Abandon("reset")
                   ELSE IF conn # "up" THEN Fail
                   ELSE wire' = Append(wire, "2xx") /\ Goto("app", "collect") /\ UNCHANGED call
        /\ UNCHANGED <<scope, conn, inbox, ctl, permit, task, fc, events, cmds, data, sent>>

\* After the response is sent: the events it produced.
Collect ==
    LET r == Drain(h3)
    IN  /\ pc.app = "collect"
        /\ h3' = r.h
        /\ IF r.failed THEN Fail
           ELSE /\ call' = [call EXCEPT !.events = @ \o Forwardable(r.events),
                                        !.caps = @ \o MaximaOf(r.events)]
                /\ Goto("app", "start")
                /\ UNCHANGED wire
        /\ UNCHANGED <<scope, conn, inbox, ctl, permit, task, fc, events, cmds, data, sent>>

\* WtSendFlowControl::new, and the two tasks.  A session that has ended since is
\* without flow control.
Start ==
    /\ pc.app = "start"
    /\ fc' = [enabled |-> scope.enabled /\ h3.ses \in {"established", "draining"},
              limit |-> scope.limit, used |-> 0]
    /\ pc' = [pc EXCEPT !.app = "open", !.recv = "pending"]
    /\ call' = [call EXCEPT !.result = "ok"]
    /\ UNCHANGED <<scope, conn, inbox, ctl, h3, permit, task, events, cmds, wire, data, sent>>

-----------------------------------------------------------------------------
(* The receiving task.                                                     *)

\* process_capsule, of one maximum after the other: one that is not larger than
\* the limit then is a violation.
Violates(q, i) ==
    fc.enabled /\ \E m \in {fc.limit} \cup {q[j] : j \in 1 .. i - 1} : q[i] <= m
Violated(q) == \E i \in DOMAIN q : Violates(q, i)
Raised(q) == [fc EXCEPT !.limit = IF fc.enabled THEN Max({@} \cup Range(q)) ELSE @]

\* Those that came with the handshake are read up to the first violation.
UpToViolation(q) ==
    SubSeq(q, 1, Max({k \in 0 .. Len(q) : \A i \in 1 .. k : ~Violates(q, i)}))

HasClosed(evs) == Of(evs, {"closed"}) # {}
Dropped == pc.app = "dropped"

\* What came with the handshake.
RecvPending ==
    /\ pc.recv = "pending"
    /\ fc' = Raised(UpToViolation(call.caps))
    /\ IF Violated(call.caps)
       THEN /\ cmds' = Append(cmds, Item("capsule", "flow control"))
            /\ events' = Append(events, Event("closed", "flow control"))
            /\ task' = [task EXCEPT !.saw = "violation"]
            /\ Goto("recv", "finish")
       ELSE /\ events' = events \o call.events
            /\ task' = [task EXCEPT !.delivered = HasClosed(call.events)]
            /\ Goto("recv", IF Dropped /\ call.events # <<>> THEN "finish" ELSE "receive")
            /\ UNCHANGED cmds
    /\ UNCHANGED <<scope, conn, inbox, ctl, h3, permit, call, wire, data, sent>>

\* Mutant: the answer to a malformed capsule comes after the FIN.
RefuseLate == cmds' = cmds \o <<Item("finish", "none"), Item("reset", "none")>>

\* What WT_CLOSE_SESSION was followed by is answered with RESET_STREAM.
Refuse == cmds' = Append(cmds, Item("reset", "none"))

\* The branches after process_stream_data: an error; events, of which a violation
\* of flow control ends the session; the end of the stream.
Received(r, terminated) ==
    LET bad == Violated(MaximaOf(r.events))
        fw == Forwardable(r.events)
        over == task.delivered \/ HasClosed(fw)
    IN  /\ h3' = r.h
        /\ IF r.failed
           THEN /\ IF h3.error THEN UNCHANGED <<cmds, task>>
                   ELSE Refuse /\ task' = [task EXCEPT !.saw = "malformed"]
                /\ Goto("recv", "residual")
                /\ UNCHANGED <<fc, events>>
           ELSE IF Dropped /\ fw # <<>>
           THEN Goto("recv", "finish") /\ UNCHANGED <<cmds, task, fc, events>>
           ELSE /\ fc' = Raised(MaximaOf(r.events))
                /\ task' = [task EXCEPT !.delivered = over,
                                        !.saw = IF bad THEN "violation" ELSE @]
                /\ events' = events \o fw
                             \o (IF bad /\ ~over THEN <<Event("closed", "flow control")>> ELSE <<>>)
                /\ cmds' = IF bad THEN Append(cmds, Item("capsule", "flow control")) ELSE cmds
                /\ Goto("recv", IF bad \/ terminated THEN "finish" ELSE "receive")

RecvReceive ==
    /\ pc.recv = "receive" /\ conn = "up"
    /\ \E k \in Chunks :
          LET items == SubSeq(inbox, 1, k)
          IN  /\ inbox' = Behind(k)
              /\ IF items[1].k = "reset" THEN Received(ConnectStreamReset(h3), TRUE)
                 ELSE Received(ProcessStreamData(h3, items), items[1].k = "fin")
    /\ UNCHANGED <<scope, conn, ctl, permit, call, wire, data, sent>>

\* receive() fails with the connection: connect_stream_reset as well.
RecvLost ==
    /\ pc.recv = "receive" /\ conn # "up"
    /\ Received(ConnectStreamReset(h3), TRUE)
    /\ UNCHANGED <<scope, conn, inbox, ctl, permit, call, wire, data, sent>>

\* Mutant: the end is synthesized without a look at what is queued.
EndingSynthesized(evs) == IF task.delivered THEN <<>> ELSE <<Event("closed", "gone")>>

\* The events still queued, up to SessionClosed; without one, and if none was
\* delivered before, a synthesized one.
Ending(evs) ==
    IF HasClosed(evs) THEN SubSeq(evs, 1, Min(Of(evs, {"closed"})))
    ELSE evs \o (IF task.delivered THEN <<>> ELSE <<Event("closed", "gone")>>)

\* After an error the lock is taken again for what is still queued.
RecvResidual ==
    LET r == Drain(h3)
    IN  /\ pc.recv = "residual"
        /\ h3' = r.h
        /\ events' = IF Dropped THEN events ELSE events \o Ending(Forwardable(r.events))
        /\ task' = [task EXCEPT !.delivered = TRUE]
        /\ Goto("recv", "finish")
        /\ UNCHANGED <<scope, conn, inbox, ctl, permit, call, fc, cmds, wire, data, sent>>

\* Mutant: the task ends and leaves the sending end open.
RecvFinishOpen ==
    /\ pc.recv = "finish"
    /\ Goto("recv", "done")
    /\ UNCHANGED <<scope, conn, inbox, ctl, h3, permit, call, task, fc, events, cmds, wire,
                   data, sent>>

\* run_client_connect_recv_task, its last line.
RecvFinish ==
    /\ pc.recv = "finish"
    /\ cmds' = Append(cmds, Item("finish", "none"))
    /\ Goto("recv", "done")
    /\ UNCHANGED <<scope, conn, inbox, ctl, h3, permit, call, task, fc, events, wire, data, sent>>

\* abort() takes effect at an await.
RecvAborted ==
    /\ Dropped /\ pc.recv \in {"pending", "receive", "residual"}
    /\ Goto("recv", "aborted")
    /\ UNCHANGED <<scope, conn, inbox, ctl, h3, permit, call, task, fc, events, cmds, wire,
                   data, sent>>

-----------------------------------------------------------------------------
(* The sending task.                                                       *)

Ended == \E i \in DOMAIN wire : wire[i] \in {"fin", "reset"}

Answered(ok) ==
    call' = IF Head(cmds).v = "application"
            THEN [call EXCEPT !.closing = IF ok THEN "ok" ELSE "error"] ELSE call

\* run_connect_send_task: QUIC sends nothing after FIN, except that RESET_STREAM
\* may still overtake it.
SendCommand ==
    LET cmd == Head(cmds)
        open == conn = "up" /\ ~Ended
    IN  /\ cmds # <<>>
        /\ cmds' = Tail(cmds)
        /\ \/ /\ open
              /\ wire' = CASE cmd.k = "capsule" -> wire \o <<cmd.v, "fin">>
                           [] cmd.k = "finish" -> Append(wire, "fin")
                           [] cmd.k = "reset" -> Append(wire, "reset")
           \/ ~open /\ UNCHANGED wire
           \/ /\ ~open /\ conn = "up" /\ cmd.k = "reset"
              /\ wire' = Append(wire, "reset")
        /\ Answered(open)
        /\ UNCHANGED <<scope, conn, inbox, ctl, h3, pc, permit, task, fc, events, data, sent>>

-----------------------------------------------------------------------------
(* WtSession.                                                              *)

Open == pc.app = "open"

\* Mutant: the limit is checked before what is asked for is added.
TryUseLate(n) ==
    /\ ~fc.enabled \/ fc.used <= fc.limit
    /\ fc' = [fc EXCEPT !.used = @ + n]

\* try_open_stream, try_send_data: counted before QUIC is asked.  Without flow
\* control there is no limit.
TryUse(n) ==
    /\ ~fc.enabled \/ fc.limit - fc.used >= n
    /\ fc' = [fc EXCEPT !.used = @ + n]

\* open_bi_stream, open_uni_stream, send.  FlowControlBlocked changes nothing.
Use(n) ==
    /\ Open /\ "use" \in scope.calls /\ fc.used + n <= MaxLimit + 1
    /\ TryUse(n)
    /\ UNCHANGED <<scope, conn, inbox, ctl, h3, pc, permit, call, task, events, cmds, wire,
                   data, sent>>

\* WtSession::close, which awaits the answer of the sending task.
Close ==
    /\ Open /\ "close" \in scope.calls /\ call.closing = "none"
    /\ cmds' = Append(cmds, Item("capsule", "application"))
    /\ call' = [call EXCEPT !.closing = "asked"]
    /\ UNCHANGED <<scope, conn, inbox, ctl, h3, pc, permit, task, fc, events, wire, data, sent>>

\* Drop.
DropSession ==
    /\ Open /\ "drop" \in scope.calls /\ call.closing # "asked"
    /\ cmds' = Append(cmds, Item("finish", "none"))
    /\ Goto("app", "dropped")
    /\ UNCHANGED <<scope, conn, inbox, ctl, h3, permit, call, task, fc, events, wire, data, sent>>

-----------------------------------------------------------------------------
(* A data stream of the peer: two bytes of header, then the payload.  The  *)
(* bytes are numbered.                                                     *)

HeaderLen == 2

\* What of the buffer is payload.
Payload(buf) == SubSeq(buf, HeaderLen + 1, Len(buf))

\* classify_uni_stream_header, classify_bi_stream_header.  A server does not
\* compare the session of a unidirectional stream.
Verdict(kind, buf) ==
    IF scope.data.names = "http" THEN "http"
    ELSE IF Len(buf) < HeaderLen THEN "more"
    ELSE IF scope.data.names = "malformed" THEN "malformed"
    ELSE IF scope.data.names = "foreign" /\ (kind = "bidi" \/ scope.role = "client")
    THEN "foreign" ELSE "accept"

\* What receive() returns: n bytes.
Taken(n) == SubSeq(data.arrived, 1, n)
Rest(n) == SubSeq(data.arrived, n + 1, Len(data.arrived))

\* The header loop took n bytes: close_connection_with_id_error unless the stream
\* is one of this session or not WebTransport's at all.
TakeHeader(n, v, held) ==
    /\ data' = [data EXCEPT !.arrived = Rest(n), !.buf = @ \o Taken(n),
                            !.pending = IF v = "accept" THEN Payload(data.buf \o Taken(n)) ELSE @,
                            !.held = held]
    /\ conn' = IF v \in {"malformed", "foreign"} THEN "closed" ELSE conn

\* route_uni_stream.  A malformed session id is also an error of the connection
\* once SETTINGS are there; before that, feed_stream_only only refuses the stream.
\* The end of the stream before the header is fed alone.
RouteUni ==
    /\ scope.data.kind = "uni" /\ pc.route = "header"
    /\ \/ /\ conn = "up"
          /\ \E n \in DOMAIN data.arrived :
               LET v == Verdict("uni", data.buf \o Taken(n))
               IN  /\ TakeHeader(n, v, FALSE)
                   /\ Goto("route", CASE v = "more" -> "header" [] v = "accept" -> "hand over"
                                      [] OTHER -> "done")
                   /\ h3' = [h3 EXCEPT !.error = @ \/ (v = "malformed" /\ h3.settings)]
                   /\ permit' = [permit EXCEPT !.unblock = @ \/ v \in {"malformed", "http"}]
       \/ /\ (data.fin /\ data.arrived = <<>>) \/ conn # "up"
          /\ Goto("route", "done")
          /\ permit' = [permit EXCEPT !.unblock = @ \/ conn = "up"]
          /\ UNCHANGED <<data, conn, h3>>
    /\ UNCHANGED <<scope, inbox, ctl, call, task, fc, events, cmds, wire, sent>>

\* uni_tx.send, which waits while the channel is full and fails when it is closed.
HandOver ==
    /\ pc.route = "hand over"
    /\ IF pc.app \in {"failed", "dropped"} THEN UNCHANGED data
       ELSE data.chan < UniCapacity /\ data' = [data EXCEPT !.chan = @ + 1]
    /\ Goto("route", "done")
    /\ UNCHANGED <<scope, conn, inbox, ctl, h3, permit, call, task, fc, events, cmds, wire, sent>>

\* accept_uni_stream
AcceptUni ==
    /\ Open /\ data.chan > 0
    /\ data' = [data EXCEPT !.chan = @ - 1, !.held = TRUE]
    /\ UNCHANGED <<scope, conn, inbox, ctl, h3, pc, permit, call, task, fc, events, cmds, wire,
                   sent>>

\* accept_bi_stream, one turn of its loop.
AcceptBi ==
    /\ scope.data.kind = "bidi" /\ Open /\ pc.route = "header" /\ conn = "up"
    /\ \E n \in DOMAIN data.arrived :
          LET v == Verdict("bidi", data.buf \o Taken(n))
          IN  /\ TakeHeader(n, v, v = "accept")
              /\ Goto("route", IF v = "more" THEN "header" ELSE "done")
    /\ UNCHANGED <<scope, inbox, ctl, h3, permit, call, task, fc, events, cmds, wire, sent>>

\* WtBiStream::recv, WtRecvStream::recv: what came with the header first.
ReadData ==
    /\ Open /\ data.held
    /\ IF data.pending # <<>>
       THEN data' = [data EXCEPT !.read = @ \o data.pending, !.pending = <<>>]
       ELSE /\ conn = "up"
            /\ \E n \in DOMAIN data.arrived :
                  data' = [data EXCEPT !.arrived = Rest(n), !.read = @ \o Taken(n)]
    /\ UNCHANGED <<scope, conn, inbox, ctl, h3, pc, permit, call, task, fc, events, cmds, wire,
                   sent>>

-----------------------------------------------------------------------------
(* The peer and QUIC.                                                      *)

HasSent(S) == \E i \in DOMAIN sent : sent[i].k \in S
Responded == HasSent({"ok", "late", "no", "malformed", "badproto", "get"})
Over == HasSent({"fin", "reset"})

\* RESET_STREAM discards what has not been read.
Arrive(item) ==
    /\ inbox' = IF item.k = "reset" THEN <<item>> ELSE Append(inbox, item)
    /\ sent' = Append(sent, item)
    /\ UNCHANGED <<scope, conn, ctl, h3, pc, permit, call, task, fc, events, cmds, wire, data>>

PeerHeaders ==
    /\ conn = "up" /\ ~Over /\ ~Responded
    /\ scope.role = "client" => "connect" \in Range(wire)
    /\ \E k \in scope.headers :
          /\ k = "interim" => ~HasSent({"interim"})
          /\ Arrive(Item(k, 0))

PeerCapsule ==
    /\ conn = "up" /\ ~Over /\ HasSent({"ok", "late"}) /\ ~HasSent({"half"})
    /\ Cardinality({i \in DOMAIN sent : ~IsHeaders(sent[i])}) < scope.len
    /\ \E x \in scope.capsules : Arrive(x)

PeerEnds ==
    /\ conn = "up" /\ ~Over /\ sent # <<>>
    /\ \E k \in scope.fails \cap {"fin", "reset"} : Arrive(Item(k, 0))

\* Each arrives at most once.
Told(k) ==
    \/ k = "settings" /\ h3.settings
    \/ k = "insert" /\ h3.inserted
    \/ k = "goaway" /\ h3.goaway

ControlArrives(k) ==
    /\ conn = "up"
    /\ k \in {"settings", "insert"} \cup (scope.fails \ {"fin", "lost", "reset"})
    /\ k \notin Range(ctl) /\ ~Told(k) /\ "critical" \notin Range(ctl) /\ ~h3.error
    /\ k = "insert" => "late" \in scope.headers
    /\ k \in {"goaway", "insert"} => "settings" \in Range(ctl) \/ h3.settings
    /\ ctl' = Append(ctl, k)
    /\ UNCHANGED <<scope, conn, inbox, h3, pc, permit, call, task, fc, events, cmds, wire, data,
                   sent>>

DataArrives ==
    /\ conn = "up" /\ scope.data.kind # "none" /\ ~data.fin
    /\ \/ /\ data.total < HeaderLen + scope.data.payload
          /\ data' = [data EXCEPT !.total = @ + 1, !.arrived = Append(@, data.total + 1)]
       \/ data' = [data EXCEPT !.fin = TRUE]
    /\ UNCHANGED <<scope, conn, inbox, ctl, h3, pc, permit, call, task, fc, events, cmds, wire,
                   sent>>

ConnectionLost ==
    /\ "lost" \in scope.fails /\ conn = "up"
    /\ conn' = "lost"
    /\ UNCHANGED <<scope, inbox, ctl, h3, pc, permit, call, task, fc, events, cmds, wire, data, sent>>

-----------------------------------------------------------------------------
\* The steps of the call that establishes the session.
Connecting ==
    \/ AcceptConnect \/ CheckSettings \/ SettingsNotified \/ SettingsClosed
    \/ SendConnect \/ HandshakeDrain \/ HandshakeReceive \/ HandshakeLost
    \/ HandshakeNotified \/ Reject \/ Accept \/ Collect \/ Start

Receiving == RecvPending \/ RecvReceive \/ RecvLost \/ RecvResidual \/ RecvFinish

Next ==
    \/ Connecting
    \/ Receiving
    \/ RecvAborted
    \/ SendCommand
    \/ UniReceive \/ UniNotify \/ AcceptorEnds
    \/ \E n \in 1 .. 2 : Use(n)
    \/ Close
    \/ DropSession
    \/ RouteUni \/ HandOver \/ AcceptUni \/ AcceptBi \/ ReadData
    \/ PeerHeaders \/ PeerCapsule \/ PeerEnds
    \/ \E k \in {"settings", "insert", "goaway", "critical"} : ControlArrives(k)
    \/ DataArrives
    \/ ConnectionLost

Spec == Init /\ [][Next]_vars

\* tokio runs every task that can run.  The peer sends its SETTINGS, its header
\* section and the insertions that one needs, unless the connection is lost.
Fairness ==
    /\ WF_vars(Connecting) /\ WF_vars(Receiving) /\ WF_vars(SendCommand)
    /\ WF_vars(UniReceive \/ UniNotify) /\ WF_vars(AcceptorEnds)
    /\ WF_vars(PeerHeaders)
    /\ WF_vars(ControlArrives("settings")) /\ WF_vars(ControlArrives("insert"))

FairSpec == Spec /\ Fairness

-----------------------------------------------------------------------------
(* Properties.                                                             *)

\* The types of the state.
TypeOK ==
    /\ conn \in {"up", "lost", "closed"}
    /\ h3.ses \in {"none", "pending", "established", "draining", "closed"}
    /\ pc.app \in {"accept", "wait", "sleep", "request", "drain", "select", "reject", "decide",
                   "collect", "start", "open", "dropped", "failed"}
    /\ pc.recv \in {"none", "pending", "receive", "residual", "finish", "done", "aborted"}
    /\ fc.limit \in 0 .. MaxLimit /\ fc.used \in 0 .. MaxLimit + 1
    /\ Len(wire) <= 5 /\ data.chan \in 0 .. UniCapacity

Closings == Of(events, {"closed"})

\* The application is told of the end of the session once and last: by the time
\* the receiving task has ended, whatever ended it and wherever in the handshake
\* the end arrived, exactly one SessionClosed was delivered.
SessionClosedOnce ==
    /\ Cardinality(Closings) <= 1
    /\ pc.recv = "done" /\ ~Dropped => Cardinality(Closings) = 1

\* The end that is delivered is the one the connection recorded, with the code of
\* the peer's WT_CLOSE_SESSION if it was one: also when bytes that may not follow
\* it came with it, when it came with the response or ahead of it, and when the
\* stream was reset after it.  Not if a violation of flow control came first or the
\* connection failed meanwhile.
CloseCodeKept ==
    h3.ended # "none" /\ ~h3.error /\ task.saw # "violation"
    => \A i \in Closings : events[i].v = h3.ended

\* The application learns of the end of the session, and which: TypeOK,
\* SessionClosedOnce and CloseCodeKept (run_client_connect_recv_task).
EndReported == TypeOK /\ SessionClosedOnce /\ CloseCodeKept

\* What the peer did wrong is answered by what the draft asks for, not by the FIN
\* that the receiving task sends at its end: a violation of flow control by
\* WT_CLOSE_SESSION, bytes after WT_CLOSE_SESSION or a capsule that is cut off by
\* RESET_STREAM; unless the application ended the session first.
MisuseAnswered ==
    /\ pc.recv = "done" /\ cmds = <<>> /\ conn = "up"
    /\ ~Dropped /\ call.closing = "none"
    => LET first == wire[Min({i \in DOMAIN wire : wire[i] \notin {"connect", "2xx"}})]
       IN  /\ task.saw = "violation" => first = "flow control"
           /\ task.saw = "malformed" => first = "reset"

\* close() answers Ok if and only if the capsule went out, with FIN right behind
\* it, although the receiving task may end the stream at the same time.
CloseReported ==
    LET at == {i \in DOMAIN wire : wire[i] = "application"}
    IN  /\ call.closing = "ok" <=> at # {}
        /\ \A i \in at : i < Len(wire) /\ wire[i + 1] = "fin"

\* The last that goes out on the CONNECT stream is what it must be: MisuseAnswered
\* and CloseReported (send_capsule_and_finish, run_connect_send_task).
LastWords == MisuseAnswered /\ CloseReported

\* The maxima the peer has advertised.
Granted == {scope.limit} \cup {sent[i].v : i \in Of(sent, {"max"})}

\* With flow control no more is used than the peer has granted, whenever the
\* receiving task gets to see its capsules.
CreditRespected == fc.enabled => \E m \in Granted : fc.used <= m

\* A data stream is read without its header, in order and without a gap, however
\* its first bytes were cut into chunks.
PayloadIntact ==
    data.held => data.read \o data.pending \o data.arrived
                 = [i \in 1 .. data.total - HeaderLen |-> i + HeaderLen]

\* The application's use of data streams: CreditRespected and PayloadIntact
\* (try_open_stream, try_send_data, classify_uni_stream_header).
DataStreamsSound == CreditRespected /\ PayloadIntact

Busy == pc.app \notin {"accept", "open", "dropped", "failed"}

\* connect() and accept() return, also when the connection is lost while they
\* wait for SETTINGS; the one exception is a control stream that fails first.
ConnectReturns == Busy ~> (~Busy \/ (h3.error /\ ~h3.settings))

\* The CONNECT stream does not stay open: once the receiving task has ended or
\* the session is dropped, FIN or RESET_STREAM goes out.
SendSideEnds == (pc.recv = "done" \/ Dropped) ~> (Ended \/ conn # "up")

=============================================================================
