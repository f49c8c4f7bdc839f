---------------------------- MODULE SessionCredit ----------------------------
(***************************************************************************)
(* Two ends of a WebTransport session, each a Session                      *)
(* (webtransport/session/mod.rs), with the capsules, streams and data      *)
(* between them: CONNECT progress, opening streams and sending data on     *)
(* credit, WT_MAX_* and WT_*_BLOCKED capsules, draining and closing.       *)
(*                                                                         *)
(* Capsules travel in order on the CONNECT stream; streams and data        *)
(* overtake them and one another.  The callers are those the API asks for: *)
(* local limits are set before the session is established, the peer learns *)
(* them from SETTINGS (initialize_remote_limits) or from capsules          *)
(* (queue_initial_flow_control_capsules), and what arrives is checked and  *)
(* then counted.                                                           *)
(***************************************************************************)
EXTENDS WtFlowControl, Sequences, FiniteSets

CONSTANTS
    Windows,        \* local limits: kind -> Nat
    Sizes,          \* amounts of data one call sends
    MaxBuffered,    \* MAX_BUFFERED_STREAMS
    Scopes          \* bounds: what a behaviour explores

Ends == {"client", "server"}
Kinds == {"uni", "bidi", "data"}
Peer(e) == IF e = "client" THEN "server" ELSE "client"
None == -1          \* no BLOCKED capsule is out
Unlimited == -2

Amounts(k) == IF k = "data" THEN Sizes ELSE {1}

Pipes == Ends \X Kinds

\* How the peer's limits become known, whether flow control is on
\* (flow_control_enabled), who sends what and how much of it, the capsules the application queues
\* itself, and the ends whose application closes, drains or sees GOAWAY.
Scope == [style : {"settings", "capsules"}, fc : BOOLEAN, pipes : SUBSET Pipes, use : Nat,
          queued : Nat, closers : SUBSET Ends]

ASSUME SessionAssumption ==
    /\ Windows \in [Kinds -> Nat]
    /\ Windows["uni"] <= MaxStreamsLimit /\ Windows["bidi"] <= MaxStreamsLimit
    /\ Scopes \subseteq Scope /\ Sizes \subseteq Nat \ {0}
    /\ MaxBuffered \in Nat

VARIABLES
    scope,  \* what this behaviour explores
    ses,    \* the Session of each end
    caps,   \* capsules on the way to an end
    net     \* what is under way, and (history) what happened

vars == <<scope, ses, caps, net>>

fc == scope.fc

Max(k, n) == [type |-> "max", kind |-> k, maximum |-> n]
Blocked(k, n) == [type |-> "blocked", kind |-> k, maximum |-> n]
Plain(type) == [type |-> type, kind |-> "data", maximum |-> 0]

\* queue_initial_flow_control_capsules
InitialCapsules ==
    LET one(k) == IF Windows[k] > 0 THEN <<Max(k, Windows[k])>> ELSE <<>>
    IN  one("bidi") \o one("uni") \o one("data")

\* Mutant: the initial capsules are queued although SETTINGS carried the limits.
NewSessionTwice(style) ==
    [state |-> "Pending",
     remote |-> [k \in Kinds |-> IF style = "settings" THEN Windows[k] ELSE 0],
     sent |-> [k \in Kinds |-> 0], blocked |-> [k \in Kinds |-> None],
     recv |-> [k \in Kinds |-> NewFlowControl(Windows[k])], pend |-> InitialCapsules,
     streams |-> 0, resets |-> 0, held |-> [k \in Kinds |-> 0],
     goaway |-> FALSE, closeSent |-> FALSE, closeReceived |-> FALSE]

\* Session::new, initialize_local_limits, initialize_remote_limits
NewSession(style) ==
    [state |-> "Pending",
     remote |-> [k \in Kinds |-> IF style = "settings" THEN Windows[k] ELSE 0],
     sent |-> [k \in Kinds |-> 0],                      \* flow_state
     blocked |-> [k \in Kinds |-> None],                \* send_blocked
     recv |-> [k \in Kinds |-> NewFlowControl(Windows[k])],
     pend |-> IF style = "settings" THEN <<>> ELSE InitialCapsules,
     streams |-> 0, resets |-> 0,                       \* pending_stream_resets
     held |-> [k \in Kinds |-> 0],                      \* buffered_streams
     goaway |-> FALSE, closeSent |-> FALSE, closeReceived |-> FALSE]

Init ==
    /\ scope \in Scopes
    /\ ses = [e \in Ends |-> NewSession(scope.style)]
    /\ caps = [e \in Ends |-> <<>>]
    /\ net = [way |-> [e \in Ends |-> [k \in Kinds |-> 0]],     \* arriving at e
              lost |-> [e \in Ends |-> [k \in Kinds |-> 0]],    \* streams e rejected
              done |-> [e \in Ends |-> [k \in Kinds |-> 0]],    \* e is done with
              fault |-> [e \in Ends |-> FALSE],                 \* flow control error at e
              due |-> [e \in Ends |-> 0],                       \* streams open when e closed
              taken |-> [e \in Ends |-> 0],                     \* stream resets handed out
              queued |-> 0]

CanSend(s) == s.state \in {"Established", "Draining"}      \* can_create_stream, can_send
Closed(s) == s.state = "Closed"
Update(e, s) == ses' = [ses EXCEPT ![e] = s]

-----------------------------------------------------------------------------
(* The life of a session.                                                  *)

\* set_connecting: the client sends the CONNECT.
SetConnecting(e) ==
    /\ e = "client" /\ ses[e].state = "Pending"
    /\ Update(e, [ses[e] EXCEPT !.state = "Connecting"])
    /\ UNCHANGED <<scope, caps, net>>

\* set_established: the server answers, then the client reads the answer.
SetEstablished(e) ==
    /\ ses[e].state \in {"Pending", "Connecting"}
    /\ ses["client"].state # "Pending"
    /\ e = "client" => ses["server"].state # "Pending"
    /\ Update(e, [ses[e] EXCEPT !.state = "Established"])
    /\ UNCHANGED <<scope, caps, net>>

SetDraining(s) == IF s.state = "Established" THEN [s EXCEPT !.state = "Draining"] ELSE s

\* Mutant: closing again lists the streams again.
CloseAgain(s) == [s EXCEPT !.state = "Closed", !.resets = s.streams]

\* close
Close(s) == [s EXCEPT !.state = "Closed", !.resets = IF Closed(s) THEN @ ELSE s.streams]

\* (history) the streams that are to be reset
Due(e, s) == IF Closed(s) /\ ~Closed(ses[e]) THEN [net EXCEPT !.due[e] = s.resets] ELSE net

Queue(s, capsule) == IF Closed(s) THEN s ELSE [s EXCEPT !.pend = Append(@, capsule)]

\* close_with_error
CloseWithError(e) ==
    LET s == Close([Queue(ses[e], Plain("close")) EXCEPT !.closeSent = TRUE])
    IN  /\ e \in scope.closers /\ ~Closed(ses[e])
        /\ ses[e].state # "Pending"
        /\ Update(e, s)
        /\ net' = Due(e, s)
        /\ UNCHANGED <<scope, caps>>

\* drain
Drain(e) ==
    /\ e \in scope.closers /\ ses[e].state = "Established"
    /\ Update(e, SetDraining(Queue(ses[e], Plain("drain"))))
    /\ UNCHANGED <<scope, caps, net>>

\* handle_goaway
HandleGoaway(e) ==
    /\ e \in scope.closers /\ ~ses[e].goaway
    /\ Update(e, SetDraining([ses[e] EXCEPT !.goaway = TRUE]))
    /\ UNCHANGED <<scope, caps, net>>

\* on_connect_stream_closed: FIN, behind everything the peer sent.
OnConnectStreamClosed(e) ==
    LET s == IF ses[e].closeReceived THEN ses[e]
             ELSE Close([ses[e] EXCEPT !.closeReceived = TRUE])
    IN  /\ Closed(ses[Peer(e)]) /\ ses[Peer(e)].pend = <<>> /\ caps[e] = <<>>
        /\ ses[e] # s
        /\ Update(e, s)
        /\ net' = Due(e, s)
        /\ UNCHANGED <<scope, caps>>

\* take_pending_stream_resets
TakeResets(e) ==
    /\ ses[e].resets > 0
    /\ Update(e, [ses[e] EXCEPT !.resets = 0])
    /\ net' = [net EXCEPT !.taken[e] = @ + ses[e].resets]
    /\ UNCHANGED <<scope, caps>>

\* queue_capsule: the application sends one of its own.
QueueCapsule(e) ==
    /\ net.queued < scope.queued /\ ~Closed(ses[e])
    /\ Update(e, Queue(ses[e], Plain("unknown")))
    /\ net' = [net EXCEPT !.queued = @ + 1]
    /\ UNCHANGED <<scope, caps>>

-----------------------------------------------------------------------------
(* Sending.                                                                *)

\* can_create_*_stream, can_send_data
Within(s, k, n) == ~fc \/ Minus(s.remote[k], s.sent[k]) >= n

\* One BLOCKED capsule per maximum.
Block(s, k) ==
    IF s.blocked[k] = s.remote[k] THEN s
    ELSE [s EXCEPT !.blocked[k] = s.remote[k], !.pend = Append(@, Blocked(k, s.remote[k]))]

\* try_open_stream, try_send_data
TryUse(e, k, n) ==
    LET s == ses[e]
        ok == Within(s, k, n)
    IN  /\ <<e, k>> \in scope.pipes /\ CanSend(s)
        /\ s.sent[k] + n <= scope.use
        /\ Update(e, IF ~ok THEN Block(s, k)
                     ELSE [s EXCEPT !.sent[k] = @ + n,
                                    !.streams = @ + IF k = "data" THEN 0 ELSE 1])
        /\ ok \/ s.blocked[k] # s.remote[k]
        /\ net' = IF ok THEN [net EXCEPT !.way[Peer(e)][k] = @ + n] ELSE net
        /\ UNCHANGED <<scope, caps>>

\* take_pending_capsules: the caller writes them to the CONNECT stream.
TakePendingCapsules(e) ==
    /\ ses[e].pend # <<>> /\ ses[e].state # "Pending"
    /\ Update(e, [ses[e] EXCEPT !.pend = <<>>])
    /\ caps' = [caps EXCEPT ![Peer(e)] = @ \o ses[e].pend]
    /\ UNCHANGED <<scope, net>>

-----------------------------------------------------------------------------
(* Receiving.                                                              *)

\* add_received_stream, add_received_data, add_stream
Counted(s, k, n) ==
    [s EXCEPT !.recv[k] = OnReceived(@, n), !.streams = @ + IF k = "data" THEN 0 ELSE 1]

\* What arrives is checked (check_received_stream, check_received_data), then
\* counted; a violation is a flow control error.
Arrive(e, k, n) ==
    LET ok == ~fc \/ CheckReceived(ses[e].recv[k], n)
    IN  /\ CanSend(ses[e]) /\ n <= net.way[e][k]
        /\ Update(e, IF ok THEN Counted(ses[e], k, n) ELSE ses[e])
        /\ net' = [net EXCEPT !.way[e][k] = @ - n, !.fault[e] = @ \/ ~ok]
        /\ UNCHANGED <<scope, caps>>

\* buffer_incoming_stream: a stream is there before the session; what does not
\* fit is rejected.
BufferStream(e, k) ==
    LET room == ses[e].held["uni"] + ses[e].held["bidi"] < MaxBuffered
    IN  /\ k # "data" /\ net.way[e][k] > 0
        /\ ses[e].state \in {"Pending", "Connecting"}
        /\ Update(e, IF room THEN [ses[e] EXCEPT !.held[k] = @ + 1] ELSE ses[e])
        /\ net' = [net EXCEPT !.way[e][k] = @ - 1, !.lost[e][k] = @ + IF room THEN 0 ELSE 1]
        /\ UNCHANGED <<scope, caps>>

\* take_buffered_streams, when the session is established.
TakeBufferedStreams(e) ==
    /\ CanSend(ses[e]) /\ \E k \in Kinds : ses[e].held[k] > 0
    /\ Update(e, [ses[e] EXCEPT !.held = [k \in Kinds |-> 0]])
    /\ net' = [net EXCEPT !.way[e] = [k \in Kinds |-> @[k] + ses[e].held[k]]]
    /\ UNCHANGED <<scope, caps>>

\* on_remote_stream_closed, on_data_consumed
Released(s, k, n) ==
    LET f == IF k = "data" THEN OnDataConsumed(s.recv[k], n) ELSE OnStreamClosed(s.recv[k])
        r == [s EXCEPT !.recv[k] = f]
    IN  IF ~fc \/ Closed(s) THEN s
        ELSE IF f.advertised = s.recv[k].advertised THEN r
        ELSE [r EXCEPT !.pend = Append(@, Max(k, f.advertised))]

\* The application is done with a stream, which is removed, or with n bytes.
Release(e, k, n) ==
    /\ net.done[e][k] + n <= ses[e].recv[k].received
    /\ Update(e, [Released(ses[e], k, n) EXCEPT !.streams = @ - IF k = "data" THEN 0 ELSE 1])
    /\ net' = [net EXCEPT !.done[e][k] = @ + n]
    /\ UNCHANGED <<scope, caps>>

\* process_capsule returns an error.
Refuses(s, c) ==
    \/ c.type = "prohibited"
    \/ /\ fc /\ c.type = "max"
       /\ \/ c.kind # "data" /\ c.maximum > MaxStreamsLimit
          \/ c.maximum <= s.remote[c.kind]
    \/ fc /\ c.type = "blocked" /\ c.kind # "data" /\ c.maximum > MaxStreamsLimit

\* process_capsule
Processed(s, c) ==
    CASE c.type = "close" -> Close([s EXCEPT !.closeReceived = TRUE])
      [] c.type = "drain" -> SetDraining(s)
      [] c.type = "max" /\ fc -> [s EXCEPT !.remote[c.kind] = c.maximum,
                                           !.blocked[c.kind] = None]
      [] OTHER -> s

ProcessCapsule(e) ==
    LET c == Head(caps[e])
        s == IF Refuses(ses[e], c) THEN ses[e] ELSE Processed(ses[e], c)
    IN  /\ caps[e] # <<>> /\ ses[e].state # "Pending"
        /\ e = "client" => ses[e].state # "Connecting"
        /\ Update(e, s)
        /\ caps' = [caps EXCEPT ![e] = Tail(@)]
        /\ net' = [Due(e, s) EXCEPT !.fault[e] = @ \/ Refuses(ses[e], c)]
        /\ UNCHANGED scope

-----------------------------------------------------------------------------
Next ==
    \E e \in Ends :
       \/ SetConnecting(e) \/ SetEstablished(e)
       \/ CloseWithError(e) \/ Drain(e) \/ HandleGoaway(e)
       \/ OnConnectStreamClosed(e) \/ TakeResets(e) \/ QueueCapsule(e)
       \/ TakePendingCapsules(e) \/ TakeBufferedStreams(e) \/ ProcessCapsule(e)
       \/ \E k \in Kinds : \/ BufferStream(e, k)
                           \/ \E n \in Amounts(k) : TryUse(e, k, n) \/ Arrive(e, k, n)
                           \/ Release(e, k, 1)

Spec == Init /\ [][Next]_vars

\* The callers establish the session, the transport delivers, what was received
\* is consumed, and capsules are written and processed.
Fairness ==
    \A e \in Ends :
       /\ WF_vars(SetConnecting(e)) /\ WF_vars(SetEstablished(e))
       /\ WF_vars(TakePendingCapsules(e)) /\ WF_vars(ProcessCapsule(e))
       /\ WF_vars(TakeBufferedStreams(e))
       /\ \A k \in Kinds : /\ WF_vars(BufferStream(e, k))
                           /\ WF_vars(\E n \in Amounts(k) : Arrive(e, k, n))
                           /\ WF_vars(Release(e, k, 1))

FairSpec == Spec /\ Fairness

-----------------------------------------------------------------------------
(* Properties.                                                             *)

Capsules == [type : {"max", "blocked", "drain", "close", "unknown", "prohibited"},
             kind : Kinds, maximum : Nat]

\* The fields of a Session.
Sessions == [state : {"Pending", "Connecting", "Established", "Draining", "Closed"},
             remote : [Kinds -> Nat], sent : [Kinds -> Nat],
             blocked : [Kinds -> Nat \cup {None}],
             recv : [Kinds -> FlowControl], pend : Seq(Capsules),
             streams : Nat, resets : Nat, held : [Kinds -> Nat],
             goaway : BOOLEAN, closeSent : BOOLEAN, closeReceived : BOOLEAN]

\* Every piece of the state has its type; a maximum never exceeds 2^60.
TypeOK ==
    /\ scope \in Scopes
    /\ ses \in [Ends -> Sessions]
    /\ caps \in [Ends -> Seq(Capsules)]
    /\ \A e \in Ends, k \in {"uni", "bidi"} : ses[e].recv[k].advertised <= MaxStreamsLimit

\* Two ends of this library never find one another in breach of flow control,
\* in whatever order capsules, streams, data and closing interleave: no check
\* of what arrives fails, and no WT_MAX capsule fails to raise the maximum.
NoFalseFlowControlError == \A e \in Ends : ~net.fault[e]

\* TypeOK and NoFalseFlowControlError: the accounts of two Sessions never
\* contradict one another (check_received_stream, check_received_data,
\* process_capsule).
AccountsAgree == TypeOK /\ NoFalseFlowControlError

\* The window of each pipe, and the credit in use on it.
CreditWindow == [p \in Pipes |-> IF fc THEN Windows[p[2]] ELSE Unlimited]
CreditOut == [p \in Pipes |-> ses[p[1]].sent[p[2]] - ses[Peer(p[1])].recv[p[2]].returned]

Credit == INSTANCE WtCredit WITH window <- CreditWindow, out <- CreditOut

\* Each pipe implements WtCredit: what the sender has used and the receiver not
\* given back stays within the receiver's window, although the sender sees the
\* window grow only through capsules that are still under way.
ImplementsCredit == Credit!CreditSpec

\* Nothing is queued behind a WT_CLOSE_SESSION.
CloseIsLast ==
    \A e \in Ends :
       LET q == caps[Peer(e)] \o ses[e].pend
       IN  \A i \in 1 .. Len(q) - 1 : q[i].type # "close"

\* Every stream that was open when the session closed is handed out for reset,
\* once, although the session may be closed by both ends and by FIN as well
\* (pending_stream_resets).
StreamsResetOnce ==
    \A e \in Ends : Closed(ses[e]) => ses[e].resets + net.taken[e] = net.due[e]

\* However often and from whichever side a session is closed, it ends once:
\* CloseIsLast and StreamsResetOnce (close_with_error, on_connect_stream_closed).
ClosesOnce == CloseIsLast /\ StreamsResetOnce

\* A sender that was told no is told yes later, unless an end has closed, no
\* further stream can ever be opened, or a rejected stream kept its credit.
BlockedSendersResume ==
    \A e \in Ends, k \in Kinds :
       ses[e].blocked[k] # None ~>
          \/ ses[e].blocked[k] = None
          \/ \E f \in Ends : Closed(ses[f])
          \/ k # "data" /\ ses[e].remote[k] = MaxStreamsLimit
          \/ net.lost[Peer(e)][k] > 0
          \/ Windows[k] = 0
=============================================================================
