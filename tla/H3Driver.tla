------------------------------ MODULE H3Driver ------------------------------
(***************************************************************************)
(* The tasks of crates/tokio-s2n-quic around one HTTP/3 connection.        *)
(*                                                                         *)
(* The sans-I/O connection sits behind a mutex (h3).  One task per stream  *)
(* the peer opens for control or QPACK data feeds it and notifies; one     *)
(* task writes the QPACK instructions that arrive on a channel; and the    *)
(* application's call, H3Client::send_request or                           *)
(* H3ServerConnection::accept_request, feeds its own request stream and    *)
(* collects the events.  A critical section is one step; everything        *)
(* between two critical sections can be interleaved (multi-thread runtime). *)
(*                                                                         *)
(* As the methods demand (&mut self, and the doc of accept_request), one   *)
(* request is open at a time.  Request streams are numbered 1, 2, ...      *)
(* A section that refers to the dynamic table carries the insert count it  *)
(* requires; one with ok = FALSE fails validation.  Notify keeps at most   *)
(* one permit, so a Boolean is all there is of it.                         *)
(***************************************************************************)
EXTENDS Integers, Sequences, FiniteSets

CONSTANTS
    MaxRequests,    \* bound on request streams
    MaxInserts,     \* insertions of the peer's encoder
    Scopes          \* role: which end this is; sections: what the peer sends;
                    \* requests, data: bounds on request streams and on DATA
                    \* per message; refuses: the caller may
                    \* pass headers that are refused; fails: what may go wrong,
                    \* "lost" the connection, "closed" a critical stream

Requests == 1 .. MaxRequests
\* The streams of the peer that have a task each, and the task of the caller.
Control == -1
Encoder == -2
Uni == {Control, Encoder}
App == 0
Tasks == Uni \cup {App}

\* QPACK instructions: Set Dynamic Table Capacity; acknowledging and cancelling.
Instructions == {[k |-> "capacity", n |-> 0]} \cup [k : {"ack", "cancel"}, n : Requests]

Count(seq, x) == Cardinality({i \in DOMAIN seq : seq[i] = x})

Item(k) == [k |-> k, ric |-> 0, ok |-> TRUE]

ASSUME DriverAssumption ==
    /\ MaxRequests \in Nat /\ MaxInserts \in Nat
    /\ \A sc \in Scopes :
          /\ sc.role \in {"client", "server"}
          /\ sc.sections \subseteq [k : {"section"}, ric : 0 .. MaxInserts, ok : BOOLEAN]
          /\ sc.requests \in 0 .. MaxRequests /\ sc.data \in Nat
          /\ sc.refuses \in BOOLEAN /\ sc.fails \in {"none", "lost", "closed"}

VARIABLES
    scope,      \* the instance under check
    conn,       \* the QUIC connection: "up" or "lost"
    inbox,      \* what QUIC holds for each stream the peer writes on
    opened,     \* request streams opened on the QUIC connection
    sent,       \* messages whose bytes and FIN were handed to QUIC
    h3,         \* the sans-I/O state behind the mutex
    task,       \* program counters, and what flush_qpack has drained
    permit,     \* qpack_unblock_notify
    chan,       \* qpack_tx / qpack_rx
    call,       \* the locals of the application's call
    results,    \* (history) what each call returned
    msg,        \* (history) what the peer sent on each request stream
    made, out   \* (history) how many of each QPACK instruction were produced, written

vars == <<scope, conn, inbox, opened, sent, h3, task, permit, chan, call, results, msg,
          made, out>>

NewCall(n) == [n |-> n, got |-> <<>>, fin |-> FALSE, result |-> "none"]

Init ==
    /\ scope \in Scopes
    /\ conn = "up"
    /\ inbox = [s \in Uni \cup Requests |-> <<>>]
    /\ opened = 0
    /\ sent = {}
    /\ h3 = [inserts |-> 0, next |-> 1, parked |-> [n \in Requests |-> <<>>],
             events |-> <<>>, pend |-> <<>>, error |-> FALSE, poisoned |-> FALSE]
    /\ task = [t \in Tasks |-> [pc |-> IF t = App THEN "idle" ELSE "receive",
                                items |-> <<>>, then |-> "none"]]
    /\ permit = FALSE
    /\ chan = <<>>
    /\ call = NewCall(0)
    /\ results = [n \in Requests |-> NewCall(n)]
    /\ msg = [n \in Requests |-> <<>>]
    /\ made = [x \in Instructions |-> 0]
    /\ out = [x \in Instructions |-> 0]

-----------------------------------------------------------------------------
(* The sans-I/O connection, as far as the tasks can tell.                  *)

IsParked(h, n) == h.parked[n] # <<>>

\* Events for the items read from stream n, and the Section Acknowledgments.
Read(h, n, items) ==
    [h EXCEPT !.events = @ \o [i \in DOMAIN items |-> [n |-> n, k |-> items[i].k]],
              !.pend = @ \o [i \in 1 .. Cardinality({j \in DOMAIN items : items[j].ric > 0})
                               |-> [k |-> "ack", n |-> n]]]

\* Mutant: what follows a parked section is read at once.
FeedPastParked(h, n, item) ==
    IF item.ric > h.inserts THEN [h EXCEPT !.parked[n] = Append(@, item)]
    ELSE Read(h, n, <<item>>)

\* feed_stream on request stream n: a section that must wait parks the stream.
Feed(h, n, item) ==
    IF IsParked(h, n) \/ item.ric > h.inserts
    THEN [h EXCEPT !.parked[n] = Append(@, item)]
    ELSE Read(h, n, <<item>>)

\* It is refused: a latched connection error, or a malformed section.
FeedFails(h, n, item) ==
    h.error \/ (~IsParked(h, n) /\ item.ric <= h.inserts /\ ~item.ok)

\* Parked streams that retry_blocked_streams takes up: at most the open one.
Readable(h) == {n \in Requests : IsParked(h, n) /\ h.parked[n][1].ric <= h.inserts}

\* retry_blocked_streams, at the start of drain_events.
Retry(h) ==
    IF Readable(h) = {} THEN h
    ELSE LET n == CHOOSE n \in Readable(h) : TRUE
             items == h.parked[n]
             free == [h EXCEPT !.parked[n] = <<>>]
         IN  IF items[1].ok THEN Read(free, n, items) ELSE free

\* drain_events answers with an error.
DrainFails(h) == h.error \/ \E n \in Readable(h) : ~h.parked[n][1].ok

\* stream_reset: a Stream Cancellation, and the stream is gone.
Reset(h, n) ==
    [h EXCEPT !.parked[n] = <<>>, !.pend = Append(@, [k |-> "cancel", n |-> n])]

\* apply_uni_recv_action on data, FIN or RESET of a critical stream.  SETTINGS
\* makes the encoder write Set Dynamic Table Capacity.
UniApply(h, item) ==
    IF h.error THEN h
    ELSE CASE item.k = "insert" -> [h EXCEPT !.inserts = @ + 1]
           [] item.k = "settings" -> [h EXCEPT !.pend = Append(@, [k |-> "capacity", n |-> 0])]
           [] item.k = "close" -> [h EXCEPT !.error = TRUE]

\* The mutex holds h from now on.
Store(h) ==
    /\ h3' = h
    /\ made' = [x \in Instructions |-> made[x] + Count(h.pend, x) - Count(h3.pend, x)]

-----------------------------------------------------------------------------
(* flush_qpack: drain under the lock, send after it is released.           *)

Pc == task[App].pc
Goto(t, pc) == task' = [task EXCEPT ![t].pc = pc]
GoFlush(t, then) == task' = [task EXCEPT ![t].pc = "flush", ![t].then = then]
\* lock().expect(..) on a poisoned mutex ends the task.
Poisoned(t) == h3.poisoned /\ Goto(t, "dead") /\ UNCHANGED <<h3, made>>

\* drain_qpack_data: the encoder's and the decoder's stream are emptied.
DrainQpackData(h) == [h EXCEPT !.pend = <<>>]

\* With nothing to drain there is nothing to send.
FlushDrain(t) ==
    /\ task[t].pc = "flush"
    /\ \/ Poisoned(t)
       \/ /\ ~h3.poisoned
          /\ task' = [task EXCEPT ![t] = IF h3.pend = <<>>
                                          THEN [pc |-> @.then, items |-> <<>>, then |-> "none"]
                                          ELSE [@ EXCEPT !.pc = "send", !.items = h3.pend]]
          /\ h3' = DrainQpackData(h3)
          /\ UNCHANGED made
    /\ UNCHANGED <<scope, conn, inbox, opened, sent, permit, chan, call, results, msg, out>>

FlushSend(t) ==
    /\ task[t].pc = "send"
    /\ task' = [task EXCEPT ![t].pc = task[t].then, ![t].items = <<>>, ![t].then = "none"]
    /\ chan' = chan \o task[t].items
    /\ UNCHANGED <<scope, conn, inbox, opened, sent, h3, permit, call, results, msg, made, out>>

\* The task that owns both QPACK streams; it gives up when QUIC refuses to send.
QpackWrite ==
    /\ chan # <<>> /\ conn = "up"
    /\ out' = [out EXCEPT ![Head(chan)] = @ + 1]
    /\ chan' = Tail(chan)
    /\ UNCHANGED <<scope, conn, inbox, opened, sent, h3, task, permit, call, results, msg, made>>

-----------------------------------------------------------------------------
(* The task of a stream of the peer.                                       *)

\* receive().await, classify_uni_recv and apply_uni_recv_action.  A lost
\* connection is Ignore: nothing is applied and the task ends after this round.
UniReceive(u) ==
    /\ task[u].pc = "receive"
    /\ \/ /\ inbox[u] # <<>> /\ conn = "up"
          /\ inbox' = [inbox EXCEPT ![u] = Tail(@)]
          /\ \/ Poisoned(u)
             \/ /\ ~h3.poisoned
                /\ Store(UniApply(h3, Head(inbox[u])))
                /\ task' = [task EXCEPT ![u].pc = "flush",
                                        ![u].then = IF h3'.error THEN "notify last" ELSE "notify"]
       \/ /\ conn = "lost"
          /\ task' = [task EXCEPT ![u].pc = "flush", ![u].then = "notify last"]
          /\ UNCHANGED <<inbox, h3, made>>
    /\ UNCHANGED <<scope, conn, opened, sent, permit, chan, call, results, msg, out>>

\* Mutant: notify_waiters, which stores no permit for a waiter that is not there yet.
UniNotifyWaiters(u) ==
    /\ task[u].pc \in {"notify", "notify last"}
    /\ permit' = (permit \/ Pc = "select")
    /\ Goto(u, IF task[u].pc = "notify" THEN "receive" ELSE "done")
    /\ UNCHANGED <<scope, conn, inbox, opened, sent, h3, chan, call, results, msg, made, out>>

\* notify_one.
UniNotify(u) ==
    /\ task[u].pc \in {"notify", "notify last"}
    /\ permit' = TRUE
    /\ Goto(u, IF task[u].pc = "notify" THEN "receive" ELSE "done")
    /\ UNCHANGED <<scope, conn, inbox, opened, sent, h3, chan, call, results, msg, made, out>>

-----------------------------------------------------------------------------
(* The application's call.                                                 *)

\* send_request: open_bidirectional_stream.  On a lost connection it fails.
OpenStream ==
    /\ scope.role = "client" /\ Pc = "idle" /\ conn = "up"
    /\ opened < scope.requests
    /\ opened' = opened + 1
    /\ call' = NewCall(opened')
    /\ Goto(App, "encode")
    /\ UNCHANGED <<scope, conn, inbox, sent, h3, permit, chan, results, msg, made, out>>

Fail == call' = [call EXCEPT !.result = "error"] /\ Goto(App, "return")

\* The critical section of send_request: build the headers, take the next id of
\* the sans-I/O layer, compare it with the QUIC stream.  Headers that are
\* refused leave that id where it was.  The assertion fails with the lock held.
Encode ==
    /\ Pc = "encode"
    /\ IF h3.poisoned THEN Goto(App, "dead") /\ UNCHANGED <<h3, call>>
       ELSE \/ (scope.refuses \/ h3.error) /\ Fail /\ UNCHANGED h3
            \/ /\ ~h3.error
               /\ h3' = [h3 EXCEPT !.next = @ + 1, !.poisoned = h3.next # call.n]
               /\ IF h3'.poisoned THEN Goto(App, "dead") ELSE GoFlush(App, "transmit")
               /\ UNCHANGED call
    /\ UNCHANGED <<scope, conn, inbox, opened, sent, permit, chan, results, msg, made, out>>

\* send_stream.send, finish.
Transmit ==
    /\ Pc = "transmit"
    /\ IF conn = "lost" THEN Fail /\ UNCHANGED sent
       ELSE sent' = sent \cup {call.n} /\ Goto(App, "drain") /\ UNCHANGED call
    /\ UNCHANGED <<scope, conn, inbox, opened, h3, permit, chan, results, msg, made, out>>

\* accept_request: the next stream of the client, announced to the connection.
AcceptStream ==
    /\ scope.role = "server" /\ Pc = "idle" /\ conn = "up"
    /\ call.n < opened
    /\ call' = NewCall(call.n + 1)
    /\ Goto(App, "drain")
    /\ UNCHANGED <<scope, conn, inbox, opened, sent, h3, permit, chan, results, msg, made, out>>

\* The events of stream n, in order; those of other streams are dropped.
EventsOf(h, n) ==
    LET mine == {i \in DOMAIN h.events : h.events[i].n = n}
        At(i) == CHOOSE j \in mine : Cardinality({m \in mine : m <= j}) = i
    IN  [i \in 1 .. Cardinality(mine) |-> h.events[At(i)].k]

\* finished of the client; headers_complete /\ stream_ended of the server.
IsDone(got) ==
    /\ \E i \in DOMAIN got : got[i] = "fin"
    /\ scope.role = "server" => \E i \in DOMAIN got : got[i] = "section"

\* The head of the loop: drain_events, the events of this stream, flush_qpack.
DrainEvents ==
    /\ Pc = "drain"
    /\ \/ Poisoned(App) /\ UNCHANGED call
       \/ /\ ~h3.poisoned /\ DrainFails(h3)
          /\ Store(Retry(h3))
          /\ Fail
       \/ /\ ~h3.poisoned /\ ~DrainFails(h3)
          /\ LET h == Retry(h3)
                 got == call.got \o EventsOf(h, call.n)
             IN  /\ Store([h EXCEPT !.events = <<>>])
                 /\ call' = [call EXCEPT !.got = got,
                                         !.result = IF IsDone(got) THEN "ok" ELSE @]
                 /\ GoFlush(App, IF IsDone(got) THEN "return" ELSE "select")
    /\ UNCHANGED <<scope, conn, inbox, opened, sent, permit, chan, results, msg, out>>

\* Mutant: process_stream_data in the branch, its events dropped.
FeedAndForget(h, n, item) == [Feed(h, n, item) EXCEPT !.events = <<>>]

\* feed_stream_only.
FeedStreamOnly(h, n, item) == Feed(h, n, item)

\* The receive branch of select!: data, FIN, a stream error, RESET_STREAM.
SelectReceive ==
    LET n == call.n
        item == Head(inbox[n])
    IN  /\ Pc = "select" /\ conn = "up"
        /\ ~call.fin /\ inbox[n] # <<>>
        /\ inbox' = [inbox EXCEPT ![n] = Tail(@)]
        /\ IF h3.poisoned THEN Poisoned(App) /\ UNCHANGED call
           ELSE IF item.k = "reset"
           THEN /\ Store([Reset(h3, n) EXCEPT !.events = IF h3.error THEN @ ELSE <<>>])
                /\ call' = [call EXCEPT !.result = "error"]
                /\ GoFlush(App, "return")
           ELSE IF FeedFails(h3, n, item)
           THEN Fail /\ UNCHANGED <<h3, made>>
           ELSE /\ Store(FeedStreamOnly(h3, n, item))
                /\ call' = [call EXCEPT !.fin = item.k = "fin"]
                /\ GoFlush(App, "drain")
        /\ UNCHANGED <<scope, conn, opened, sent, permit, chan, results, msg, out>>

\* The same branch when the connection is gone.
SelectLost ==
    /\ Pc = "select" /\ conn = "lost" /\ ~call.fin
    /\ Fail
    /\ UNCHANGED <<scope, conn, inbox, opened, sent, h3, permit, chan, results, msg, made, out>>

\* The branch of the notification.
SelectNotified ==
    /\ Pc = "select" /\ permit
    /\ permit' = FALSE
    /\ Goto(App, "drain")
    /\ UNCHANGED <<scope, conn, inbox, opened, sent, h3, chan, call, results, msg, made, out>>

\* The call returns; a server answers the request it accepted.
Return ==
    /\ Pc = "return"
    /\ results' = [results EXCEPT ![call.n] = call]
    /\ Goto(App, IF scope.role = "server" /\ call.result = "ok" THEN "respond" ELSE "idle")
    /\ UNCHANGED <<scope, conn, inbox, opened, sent, h3, permit, chan, call, msg, made, out>>

\* H3Request::send_response: prepare_response under the lock, flush, send, finish.
Respond ==
    /\ Pc = "respond"
    /\ IF h3.error THEN Goto(App, "idle") ELSE GoFlush(App, "reply")
    /\ UNCHANGED <<scope, conn, inbox, opened, sent, h3, permit, chan, call, results, msg,
                   made, out>>

Reply ==
    /\ Pc = "reply"
    /\ sent' = IF conn = "up" THEN sent \cup {call.n} ELSE sent
    /\ Goto(App, "idle")
    /\ UNCHANGED <<scope, conn, inbox, opened, h3, permit, chan, call, results, msg, made, out>>

-----------------------------------------------------------------------------
(* The peer and QUIC.                                                      *)

Arrive(s, item) ==
    /\ inbox' = [inbox EXCEPT ![s] = Append(@, item)]
    /\ UNCHANGED <<scope, conn, sent, h3, task, permit, chan, call, results, made, out>>

Ended(n) == msg[n] # <<>> /\ msg[n][Len(msg[n])].k \in {"fin", "reset"}
Open(n) == n <= opened /\ ~Ended(n) /\ conn = "up" /\ (scope.role = "client" => n \in sent)

\* A client opens its next stream when the last one is over.
PeerOpens ==
    /\ scope.role = "server" /\ conn = "up"
    /\ opened < scope.requests
    /\ opened > 0 => results[opened].result # "none" /\ Pc = "idle"
    /\ opened' = opened + 1
    /\ UNCHANGED <<scope, conn, inbox, sent, h3, task, permit, chan, call, results, msg,
                   made, out>>

\* A section, then DATA, then FIN.
PeerSends(n) ==
    /\ Open(n)
    /\ \E item \in IF msg[n] = <<>> THEN scope.sections
                   ELSE {Item("fin")} \cup (IF Len(msg[n]) <= scope.data THEN {Item("data")} ELSE {}) :
          /\ msg' = [msg EXCEPT ![n] = Append(@, item)]
          /\ Arrive(n, item)
    /\ UNCHANGED opened

PeerResets(n) ==
    /\ Open(n)
    /\ msg' = [msg EXCEPT ![n] = Append(@, Item("reset"))]
    /\ Arrive(n, Item("reset"))
    /\ UNCHANGED opened

Inserted == h3.inserts + Cardinality({i \in DOMAIN inbox[Encoder] : inbox[Encoder][i].k = "insert"})
Closing(u) == \E i \in DOMAIN inbox[u] : inbox[u][i].k = "close"

\* An instruction of the peer's encoder arrives, however late.
InsertArrives ==
    /\ conn = "up" /\ Inserted < MaxInserts /\ ~Closing(Encoder)
    /\ Arrive(Encoder, Item("insert"))
    /\ UNCHANGED <<opened, msg>>

SettingsArrive ==
    /\ conn = "up" /\ inbox[Control] = <<>> /\ task[Control].pc = "receive"
    /\ made[[k |-> "capacity", n |-> 0]] = 0
    /\ Arrive(Control, Item("settings"))
    /\ UNCHANGED <<opened, msg>>

\* FIN or RESET_STREAM on a critical stream.
CriticalCloses(u) ==
    /\ scope.fails = "closed" /\ ~Closing(Control) /\ ~Closing(Encoder) /\ ~h3.error
    /\ Arrive(u, Item("close"))
    /\ UNCHANGED <<opened, msg>>

\* Nothing more is read from any stream.
ConnectionLost ==
    /\ scope.fails = "lost" /\ conn = "up"
    /\ conn' = "lost"
    /\ inbox' = [s \in Uni \cup Requests |-> <<>>]
    /\ UNCHANGED <<scope, opened, sent, h3, task, permit, chan, call, results, msg,
                   made, out>>

-----------------------------------------------------------------------------
AppStep ==
    \/ OpenStream \/ Encode \/ Transmit \/ AcceptStream
    \/ DrainEvents \/ SelectReceive \/ SelectLost \/ SelectNotified
    \/ Return \/ Respond \/ Reply
    \/ FlushDrain(App) \/ FlushSend(App)

UniStep(u) == UniReceive(u) \/ UniNotify(u) \/ FlushDrain(u) \/ FlushSend(u)

Next ==
    \/ AppStep
    \/ \E u \in Uni : UniStep(u)
    \/ QpackWrite
    \/ PeerOpens
    \/ \E n \in Requests : PeerSends(n)
    \/ \E n \in Requests : PeerResets(n)
    \/ InsertArrives
    \/ SettingsArrive
    \/ \E u \in Uni : CriticalCloses(u)
    \/ ConnectionLost

Spec == Init /\ [][Next]_vars

\* tokio runs every task that can run; the peer ends the messages it began and
\* its insertions arrive as long as the connection is up.
Fairness ==
    /\ WF_vars(AppStep)
    /\ WF_vars(UniStep(Control)) /\ WF_vars(UniStep(Encoder))
    /\ WF_vars(QpackWrite)
    /\ WF_vars(\E n \in Requests : PeerSends(n))
    /\ WF_vars(InsertArrives)

FairSpec == Spec /\ Fairness

-----------------------------------------------------------------------------
(* Properties.                                                             *)

\* The types of the state.
TypeOK ==
    /\ conn \in {"up", "lost"}
    /\ opened \in 0 .. MaxRequests /\ sent \subseteq Requests
    /\ h3.inserts \in 0 .. MaxInserts /\ h3.next \in Nat
    /\ Cardinality(Readable(h3)) <= 1
    /\ \A t \in Tasks :
          task[t].pc \in {"idle", "encode", "transmit", "drain", "select", "return", "respond",
                          "reply", "flush", "send", "receive", "notify", "notify last",
                          "done", "dead"}
    /\ call.n \in 0 .. opened /\ call.result \in {"none", "ok", "error"}

\* A call that returns Ok returns the whole message and nothing else: the
\* section, every DATA and the end, in the order the peer sent them, whichever
\* task's feed made the events appear and whichever step drained them.
ResponsesExact ==
    \A n \in Requests :
        results[n].result = "ok" =>
            /\ Len(results[n].got) = Len(msg[n])
            /\ \A i \in DOMAIN msg[n] : results[n].got[i] = msg[n][i].k

\* No wakeup is lost: when the call sleeps in select! with no permit stored and
\* every other task has finished its round, there is nothing to wake up for:
\* no section that has become readable, no event, no latched error.
WakeupNotLost ==
    /\ Pc = "select" /\ ~permit
    /\ \A u \in Uni : task[u].pc \in {"receive", "done"}
    => Readable(h3) = {} /\ h3.events = <<>> /\ ~h3.error

\* Every QPACK instruction the connection produced is in exactly one place: in
\* its buffers, drained by one task, in the channel or written.
InstructionsConserved ==
    LET held == chan \o task[App].items \o task[Control].items \o task[Encoder].items \o h3.pend
    IN  \A x \in Instructions : made[x] = out[x] + Count(held, x)

\* The two stream counters agree, so that the assertion of send_request holds
\* and the mutex is never poisoned, until a call has failed.
AssertedIdsAgree ==
    h3.poisoned => \E n \in Requests : results[n].result = "error"

\* What the tasks take out of the connection, they neither lose nor duplicate nor
\* mix up: TypeOK, ResponsesExact, InstructionsConserved and AssertedIdsAgree
\* (drain_events, flush_qpack, send_request).
NothingLost == TypeOK /\ ResponsesExact /\ InstructionsConserved /\ AssertedIdsAgree

\* s2n-quic's id and the id of the sans-I/O layer always match
\* (assert_eq! in send_request), so no task ever finds the mutex poisoned.
MutexNotPoisoned == ~h3.poisoned

Busy == Pc \notin {"idle", "dead"}

\* A call returns, also when the insertions its section waits for arrive after
\* FIN and also when a critical stream closes meanwhile; the one exception is a
\* connection lost after FIN.
CallsReturn == Busy ~> (~Busy \/ (conn = "lost" /\ call.fin))

=============================================================================
