----------------------------- MODULE QpackTable -----------------------------
(***************************************************************************)
(* The QPACK dynamic table (src/src/qpack/dynamic_table.rs) and the        *)
(* arithmetic of the Required Insert Count (encoder.rs, decoder.rs) as     *)
(* operators on table values.                                              *)
(*                                                                         *)
(* A table value is a record                                               *)
(*   log    every entry ever inserted, oldest first: log[i + 1] is the     *)
(*          entry with absolute index i, so insert_count is Len(log);      *)
(*   drop   dropped_count: the entries below it have been popped;          *)
(*   bytes  the bytes of all entries ever inserted;                        *)
(*   cap    max_capacity;                                                  *)
(*   lim    eviction_limit.                                                *)
(* The code pops an evicted entry; here it stays in log below drop and no  *)
(* operator reads it.  Each entry records in its field at the bytes        *)
(* inserted before it, so the current_size the code maintains is a         *)
(* difference: CurrentSize(t) = t.bytes - (at of the oldest live entry).   *)
(***************************************************************************)
EXTENDS Integers, Sequences

CONSTANTS
    Headers,    \* the header fields [name, value] in play
    EntrySize   \* bytes of a header's table entry, the 32 of overhead included

\* DynamicEntry::size adds ENTRY_OVERHEAD = 32 to the lengths of name and value.
ENTRY_OVERHEAD == 32

ASSUME EntrySizeAssumption ==
    /\ EntrySize \in [Headers -> {n \in Nat : n >= ENTRY_OVERHEAD}]
    /\ \A h \in Headers : h = [name |-> h.name, value |-> h.value]

\* DynamicTable::new
NewTable == [log |-> <<>>, drop |-> 0, bytes |-> 0, cap |-> 0, lim |-> 0]

InsertCount(t) == Len(t.log)

\* The absolute indices get_by_absolute_index answers.
Live(t) == t.drop .. InsertCount(t) - 1

\* get_by_absolute_index, for an index of Live(t).
Entry(t, i) == t.log[i + 1].hdr

\* The bytes of the entries from absolute index d on: current_size once the
\* entries below d have been popped.
SizeFrom(t, d) == IF d < InsertCount(t) THEN t.bytes - t.log[d + 1].at ELSE 0

CurrentSize(t) == SizeFrom(t, t.drop)

\* The loop of evict_to_fit ends, d being the oldest entry left: the rest fits,
\* the table is empty, or the oldest entry is below the eviction limit.
EvictionStops(t, need, d) ==
    \/ SizeFrom(t, d) + need <= t.cap
    \/ d = InsertCount(t)
    \/ d < t.lim

\* evict_to_fit: pop the oldest entry until the loop ends.
EvictToFit(t, need) ==
    [t EXCEPT !.drop =
        CHOOSE d \in t.drop .. InsertCount(t) :
            /\ EvictionStops(t, need, d)
            /\ \A e \in t.drop .. d - 1 : ~EvictionStops(t, need, e)]

SetCapacity(t, c) == EvictToFit([t EXCEPT !.cap = c], 0)

\* insert returns Some: the entry fits the capacity and, after eviction, the
\* room that is left.
CanInsert(t, h) ==
    /\ EntrySize[h] <= t.cap
    /\ CurrentSize(EvictToFit(t, EntrySize[h])) + EntrySize[h] <= t.cap

Push(t, h) ==
    [t EXCEPT !.log = Append(@, [hdr |-> h, at |-> t.bytes]),
              !.bytes = @ + EntrySize[h]]

\* insert: what the call leaves behind, whether it returns Some or None.
Insert(t, h) ==
    IF EntrySize[h] > t.cap THEN t
    ELSE LET u == EvictToFit(t, EntrySize[h])
         IN  IF CanInsert(t, h) THEN Push(u, h) ELSE u

\* The entry an encoder instruction names: relative index 0 is the newest
\* (get_by_relative_index_encoder).
HasRelative(t, rel) == rel < InsertCount(t) - t.drop
RelativeEntry(t, rel) == Entry(t, InsertCount(t) - 1 - rel)

\* find_entry: the newest exact match, and the newest entry of that name.
ExactMatches(t, h) == {i \in Live(t) : Entry(t, i) = h}
NameMatches(t, h) == {i \in Live(t) : Entry(t, i).name = h.name}
Newest(S) == CHOOSE i \in S : \A j \in S : j <= i

-----------------------------------------------------------------------------
(* The Required Insert Count on the wire (RFC 9204 Section 4.5.1.1).       *)

\* Either side divides the maximum capacity by the smallest entry.
MaxEntries(max) == max \div ENTRY_OVERHEAD

\* encode_required_insert_count
EncodeRIC(max, ric) ==
    IF ric = 0 \/ MaxEntries(max) = 0 THEN 0
    ELSE (ric % (2 * MaxEntries(max))) + 1

BadRIC == -1

\* Mutant: the candidate equal to the maximum is taken for a wrapped one.
DecodeRICOffByOne(max, inserts, wire) ==
    LET full == 2 * MaxEntries(max)
        maxValue == inserts + MaxEntries(max)
        cand == (maxValue \div full) * full + wire - 1
        ric == IF cand >= maxValue /\ cand > full THEN cand - full ELSE cand
    IN  IF wire = 0 THEN 0
        ELSE IF MaxEntries(max) = 0 \/ wire > full \/ ric = 0 THEN BadRIC
        ELSE ric

\* decode_required_insert_count: BadRIC is Err(DecodeFailed).
DecodeRIC(max, inserts, wire) ==
    LET full == 2 * MaxEntries(max)
        maxValue == inserts + MaxEntries(max)
        cand == (maxValue \div full) * full + wire - 1
        ric == IF cand > maxValue
               THEN IF cand <= full THEN BadRIC ELSE cand - full
               ELSE cand
    IN  IF wire = 0 THEN 0
        ELSE IF MaxEntries(max) = 0 \/ wire > full \/ ric = 0 THEN BadRIC
        ELSE ric

-----------------------------------------------------------------------------
(* Table values, for the properties.                                       *)

Table == [log : Seq([hdr : Headers, at : Nat]), drop : Nat, bytes : Nat,
          cap : Nat, lim : Nat]

\* A table whose bookkeeping is right: every entry accounts for its overhead.
Sound(t) ==
    /\ t.drop <= Len(t.log)
    /\ \A i \in 1 .. Len(t.log) :
          ENTRY_OVERHEAD * (Len(t.log) - i + 1) <= t.bytes - t.log[i].at

\* Table a is an earlier state of table b.
Earlier(a, b) ==
    /\ a.drop <= b.drop
    /\ Len(a.log) <= Len(b.log)
    /\ \A i \in 1 .. Len(a.log) : a.log[i] = b.log[i]

\* What two tables that see the same instructions have in common: the eviction
\* limit is the encoder's own affair.
Shared(t) == [t EXCEPT !.lim = 0]
=============================================================================
