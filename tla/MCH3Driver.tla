----------------------------- MODULE MCH3Driver -----------------------------
(* Instances of H3Driver for TLC.                                          *)
EXTENDS H3Driver

Section(ric, ok) == [k |-> "section", ric |-> ric, ok |-> ok]

Instance(roles, requests, data, sections, refuses, fails) ==
    [role : roles, requests : {requests}, data : {data},
     sections : {sections}, refuses : {refuses}, fails : fails]

Both == {"client", "server"}
Waits == Section(1, TRUE)

\* One request with DATA, whose section waits or not and is malformed or not; one
\* that waits on a connection that fails; two, where the caller's first may be
\* refused.
MCScopes ==
    Instance(Both, 1, 1, {Section(r, ok) : r \in {0, 1}, ok \in BOOLEAN}, FALSE, {"none"})
    \cup Instance(Both, 1, 0, {Waits}, FALSE, {"lost"})
    \cup Instance({"client"}, 1, 0, {Waits}, FALSE, {"closed"})
    \cup Instance({"client"}, 2, 0, {Waits}, TRUE, {"none"})
    \cup Instance({"server"}, 2, 0, {Waits}, FALSE, {"none"})
=============================================================================
