---------------------------- MODULE WtFlowControl ----------------------------
(***************************************************************************)
(* The receiving side of WebTransport flow control                         *)
(* (webtransport/session/flow_control.rs): how many streams of one         *)
(* direction, and how many bytes, a peer may send, and when a larger       *)
(* maximum is advertised.  WtSession (connection/wt_types.rs) and Session  *)
(* (webtransport/session/mod.rs) both keep these counters.                 *)
(*                                                                         *)
(* The u64 counters saturate; the maxima are varints, so they stay below   *)
(* 2^62 and the additions below are exact.                                 *)
(***************************************************************************)
EXTENDS Integers

CONSTANT MaxStreamsLimit    \* capsule::MAX_STREAMS_LIMIT, 2^60

ASSUME MaxStreamsLimitAssumption == MaxStreamsLimit \in Nat

\* DirectionalStreamFlowControl and DataFlowControl differ in the names of
\* their fields and in the cap on the maximum only: window is concurrent_limit
\* or initial_window, returned is total_closed or total_consumed.
FlowControl == [window : Nat, advertised : Nat, returned : Nat, received : Nat]

NewFlowControl(window) ==
    [window |-> window, advertised |-> window, returned |-> 0, received |-> 0]

\* saturating_sub
Minus(a, b) == IF a >= b THEN a - b ELSE 0

Remaining(fc) == Minus(fc.advertised, fc.received)

\* check_received: n more fit under the advertised maximum.
CheckReceived(fc, n) == Remaining(fc) >= n

\* on_stream_received, on_data_received
OnReceived(fc, n) == [fc EXCEPT !.received = @ + n]

NoCap == -1         \* WT_MAX_DATA has no cap of its own

Capped(n, cap) == IF cap # NoCap /\ n > cap THEN cap ELSE n

\* Mutant: the window is added to what was received.
NewMaximumReceived(fc, cap) == Capped(fc.received + fc.window, cap)

\* What the maximum would be now.
NewMaximum(fc, cap) == Capped(fc.returned + fc.window, cap)

\* Mutant: a maximum is advertised when the window is used up.
UpdatesLate(fc, cap) ==
    fc.window # 0 /\ Remaining(fc) = 0 /\ NewMaximum(fc, cap) > fc.advertised

\* A maximum is advertised when half of the window is used up, and only one
\* larger than the last.
Updates(fc, cap) ==
    /\ fc.window # 0
    /\ Remaining(fc) <= fc.window \div 2
    /\ NewMaximum(fc, cap) > fc.advertised

Returned(fc, n, cap) ==
    LET back == [fc EXCEPT !.returned = @ + n]
    IN  IF Updates(back, cap) THEN [back EXCEPT !.advertised = NewMaximum(back, cap)]
        ELSE back

\* on_stream_closed
OnStreamClosed(fc) == Returned(fc, 1, MaxStreamsLimit)
\* on_data_consumed
OnDataConsumed(fc, n) == Returned(fc, n, NoCap)
=============================================================================
