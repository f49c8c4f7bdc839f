--------------------------- MODULE StreamDelivery ---------------------------
(***************************************************************************)
(* What a Connection promises about the request streams it reads: on every *)
(* stream the application sees the frames in the order they were sent,     *)
(* each once; a header or trailer section when the insertions it needs     *)
(* have arrived, and nothing behind it before; the end of the stream last. *)
(* Streams do not wait for one another, and one the connection has failed  *)
(* on, about which nothing is promised any more, does not harm the others. *)
(***************************************************************************)
EXTENDS Integers, Sequences

CONSTANTS
    Streams,    \* the request streams
    Frames      \* the frames a peer sends: kind, ric, what, len

VARIABLES
    inserts,    \* insertions the decoder's table has seen
    fed,        \* frames arrived on each stream
    finned,     \* streams whose FIN has arrived
    got,        \* frames handed to the application
    ended,      \* streams reported as ended
    broken      \* streams a call failed on

absVars == <<inserts, fed, finned, got, ended, broken>>

AbsInit ==
    /\ inserts = 0
    /\ fed = [s \in Streams |-> <<>>]
    /\ finned = {}
    /\ got = [s \in Streams |-> <<>>]
    /\ ended = {}
    /\ broken = {}

\* Frames of unknown types are arrivals that leave no trace.
Arrive(s) ==
    /\ s \notin finned
    /\ \/ \E f \in Frames : fed' = [fed EXCEPT ![s] = Append(@, f)]
       \/ UNCHANGED fed
    /\ finned' \in {finned, finned \cup {s}}
    /\ broken' \in {broken, broken \cup {s}}
    /\ UNCHANGED <<inserts, got, ended>>

Insertion ==
    /\ inserts' = inserts + 1
    /\ UNCHANGED <<fed, finned, got, ended, broken>>

\* The next frame of a stream, once it can be decoded.
Deliver(s) ==
    /\ Len(got[s]) < Len(fed[s])
    /\ LET f == fed[s][Len(got[s]) + 1]
       IN  /\ f.ric <= inserts
           /\ got' = [got EXCEPT ![s] = Append(@, f)]
    /\ UNCHANGED <<inserts, fed, finned, ended, broken>>

\* The end, when everything before it has been delivered.
End(s) ==
    /\ s \in finned /\ s \notin ended
    /\ got[s] = fed[s]
    /\ ended' = ended \cup {s}
    /\ UNCHANGED <<inserts, fed, finned, got, broken>>

Fail(s) ==
    /\ broken' = broken \cup {s}
    /\ UNCHANGED <<inserts, fed, finned, got, ended>>

\* A broken stream may still produce events, in any order.
Stray(s) ==
    /\ s \in broken
    /\ \/ \E f \in Frames : got' = [got EXCEPT ![s] = Append(@, f)] /\ UNCHANGED ended
       \/ ended' = ended \cup {s} /\ UNCHANGED got
    /\ UNCHANGED <<inserts, fed, finned, broken>>

AbsNext ==
    \/ Insertion
    \/ \E s \in Streams : Arrive(s) \/ Deliver(s) \/ End(s) \/ Fail(s) \/ Stray(s)

AbsSpec == AbsInit /\ [][AbsNext]_absVars
=============================================================================
