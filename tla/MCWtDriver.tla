----------------------------- MODULE MCWtDriver -----------------------------
(* Instances of WtDriver for TLC.                                          *)
EXTENDS WtDriver

Instance(roles, headers, capsules, len, calls, fails, stream) ==
    [role : roles, headers : {headers}, capsules : {capsules}, len : {len}, limit : {1},
     enabled : {TRUE}, calls : {calls}, fails : {fails}, data : {stream}]

Both == {"client", "server"}
Stream(kind, names) == [kind |-> kind, names |-> names, payload |-> 2]
Ends == {Item("close", 0), Item("drain", 0), Item("half", 0)}

MCScopes ==
    \* Every way a handshake can end.
    UNION {Instance({"client"}, {"ok", "interim", "no", "malformed", "badproto", "late"}, {}, 0,
                    {}, f, NoStream) \cup
           Instance({"server"}, {"ok", "late", "malformed", "get"}, {}, 0, {}, f, NoStream) :
             f \in {{"lost"}, {"critical"}, {"fin", "reset"}}}
    \* Every way a session can end.
    \cup UNION {Instance(Both, {"ok"}, Ends, 2, {"close", "drop"}, {f}, NoStream) :
                  f \in {"lost", "fin", "reset", "critical", "goaway"}}
    \* Flow control, and none.
    \cup Instance(Both, {"ok"}, {Item("max", 1), Item("max", 2), Item("close", 0)}, 2, {"use"},
                  {"fin"}, NoStream)
    \cup {[sc EXCEPT !.enabled = FALSE] :
             sc \in Instance(Both, {"ok"}, {Item("max", 1)}, 1, {"use"}, {}, NoStream)}
    \* Data streams.
    \cup UNION {Instance(Both, {"ok"}, {}, 0, {"drop"}, {}, Stream(k, n)) :
                  k \in {"uni", "bidi"}, n \in {"own", "foreign", "malformed", "http"}}
=============================================================================
