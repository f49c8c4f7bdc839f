----------------------------- MODULE MCQpackSync -----------------------------
(* Instances of QpackSync for TLC.                                         *)
EXTENDS QpackSyncInv

H(n, v) == [name |-> n, value |-> v]

\* Two names; one name with two values; the entry of "b" fills a table alone.
MCHeaders == {H("a", 0), H("a", 1), H("b", 0)}
MCEntrySize == [h \in MCHeaders |-> IF h.name = "b" THEN 70 ELSE 34]

\* An exact match, a name match only, and two references in one section.
MCHeaderLists == {<<H("a", 0)>>, <<H("a", 1), H("b", 0)>>}
MCStatic == {H("a", 1)}

\* Entries of one size, so that two fit: with MaxCap = 80 the count on the wire
\* is taken modulo 4, and six insertions wrap it.
MCSmallHeaders == {H("a", 0), H("a", 1)}
MCSmallSize == [h \in MCSmallHeaders |-> 34]
MCSmallLists == {<<H("a", 0)>>}
=============================================================================
