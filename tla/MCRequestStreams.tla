-------------------------- MODULE MCRequestStreams --------------------------
(* Instances of RequestStreams for TLC.                                    *)
EXTENDS RequestStreams

Headers(ric, what, len) == [kind |-> "headers", ric |-> ric, what |-> what, len |-> len]
Other(kind) == [kind |-> kind, ric |-> 0, what |-> "none", len |-> NoLength]
Data(n) == [kind |-> "data", ric |-> 0, what |-> "none", len |-> n]

Message(ric) == Headers(ric, "message", NoLength)
Trailers(ric) == Headers(ric, "trailers", NoLength)

\* A server whose messages have header or trailer sections that may have to wait,
\* two of them at a time.
MCRead ==
    [role |-> "Server", streams |-> {0, 4}, frames |-> {Message(1), Trailers(2), Data(1)},
     goaways |-> {}, blocked |-> 2, body |-> 1, inserts |-> 2, arrivals |-> 3, sends |-> 0]

\* A server that is sent every kind of frame, sections that change a stream's
\* protocol and STOP_SENDING, and that answers and says goodbye.
MCFrames ==
    [role |-> "Server", streams |-> {8},
     frames |-> {Message(0), Headers(0, "informational", NoLength),
                 Headers(0, "connect", NoLength), Headers(1, "message", 1),
                 Data(1), Other("unknown"), Other("control"), Other("garbled"), Other("cut")},
     goaways |-> {8, 12}, blocked |-> 1, body |-> 1, inserts |-> 1, arrivals |-> 2, sends |-> 2]

\* A server that makes every sequence of calls to send.
MCSends ==
    [role |-> "Server", streams |-> {8},
     frames |-> {Message(0), Headers(0, "connect", NoLength)},
     goaways |-> {}, blocked |-> 0, body |-> 0, inserts |-> 0, arrivals |-> 1, sends |-> 5]

\* Clients: 1xx, and a 2xx that waits and announces a body.
MCClient ==
    [role |-> "Client", streams |-> {0},
     frames |-> {Headers(0, "informational", NoLength), Headers(1, "connect", 1), Data(1)},
     goaways |-> {4}, blocked |-> 1, body |-> 1, inserts |-> 1, arrivals |-> 3, sends |-> 1]

MCClients ==
    [role |-> "Client", streams |-> {0, 4}, frames |-> {Headers(1, "connect", 1)},
     goaways |-> {4}, blocked |-> 1, body |-> 1, inserts |-> 1, arrivals |-> 1, sends |-> 0]

\* Sections that are refused after they waited, among others that wait.
MCRefused ==
    [role |-> "Server", streams |-> {0, 4},
     frames |-> {Message(1), Headers(1, "malformed", NoLength)},
     goaways |-> {}, blocked |-> 2, body |-> 1, inserts |-> 1, arrivals |-> 1, sends |-> 0]

MCScopes == {MCRead, MCFrames, MCSends, MCClient, MCClients, MCRefused}
=============================================================================
