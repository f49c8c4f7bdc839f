---------------------------- MODULE MCWtSessions ----------------------------
(* Instances of WtSessions for TLC.                                        *)
EXTENDS WtSessions

CONSTANTS u1, b1, b2, l1, l2    \* streams

Ends == {"Client", "Server"}

\* One session, one stream in chunks of any size, everything that happens to a
\* CONNECT stream.
MCLife ==
    {[role |-> r, fc |-> TRUE, sessions |-> {0}, streams |-> {b1},
      sections |-> {"ok", "forbidden", "mismatched", "2xx", "badproto", "refusal"},
      parking |-> BOOLEAN,
      capsules |-> {<<"close">>, <<"drain", "half">>, <<"fc", "prohibited">>,
                    <<"close", "unknown">>, <<"bad">>},
      chunks |-> 1 .. 3, frames |-> 2, payload |-> 1, grams |-> 1, goaways |-> {0, 4}]
        : r \in Ends}

\* Two sessions that compete while flow control is off.
MCTwo ==
    {[role |-> r, fc |-> FALSE, sessions |-> {0, 4}, streams |-> {b1},
      sections |-> {"ok", "2xx"}, parking |-> {FALSE}, capsules |-> {}, chunks |-> {3},
      frames |-> 0, payload |-> 1, grams |-> 0, goaways |-> {4}] : r \in Ends}

\* Streams that follow each other under limits of one stream and three bytes.
MCCredit ==
    {[role |-> r, fc |-> TRUE, sessions |-> {0}, streams |-> x,
      sections |-> {"ok", "2xx"}, parking |-> {FALSE}, capsules |-> {}, chunks |-> {3},
      frames |-> 0, payload |-> 2, grams |-> 0, goaways |-> {}]
        : r \in Ends, x \in {{b1, b2}, {u1, l1}, {u1, l2}}}

\* One stream whose bytes fill the buffer of a session that is not there yet.
MCBuffers ==
    {[role |-> r, fc |-> FALSE, sessions |-> {0}, streams |-> {u1},
      sections |-> {"ok", "2xx"}, parking |-> {FALSE}, capsules |-> {}, chunks |-> 1 .. 3,
      frames |-> 0, payload |-> 5, grams |-> 0, goaways |-> {}] : r \in Ends}

MCScopes == MCLife \cup MCTwo \cup MCCredit \cup MCBuffers
=============================================================================
