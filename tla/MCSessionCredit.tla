--------------------------- MODULE MCSessionCredit ---------------------------
(* Instances of SessionCredit for TLC.                                     *)
EXTENDS SessionCredit

MCWindows == [k \in Kinds |-> IF k = "data" THEN 3 ELSE 1]

MCScope(style, on, pipes, use, queued, closers) ==
    [style |-> style, fc |-> on, pipes |-> pipes, use |-> use, queued |-> queued,
     closers |-> closers]

\* Data and streams under either way of learning the limits, both ends opening
\* streams at once, and closing by one end, by both, and without flow control.
MCScopes ==
    {MCScope("settings", TRUE, {<<"client", "data">>}, 6, 0, {}),
     MCScope("capsules", TRUE, {<<"server", "data">>}, 4, 0, {}),
     MCScope("capsules", TRUE, {<<"server", "uni">>}, 4, 0, {}),
     MCScope("settings", TRUE, {<<"client", "uni">>}, 2, 0, Ends),
     MCScope("settings", TRUE, {<<"server", "data">>}, 2, 0, {"client"}),
     MCScope("settings", TRUE, Ends \X {"bidi"}, 2, 1, {}),
     MCScope("settings", FALSE, {<<"client", "uni">>}, 3, 0, {"server"})}
=============================================================================
