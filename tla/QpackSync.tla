------------------------------ MODULE QpackSync ------------------------------
(***************************************************************************)
(* One direction of QPACK compression between two endpoints: the encoder   *)
(* (DynamicEncoder, EncoderStream, DecoderStreamReceiver), the decoder     *)
(* (DynamicDecoder, EncoderStreamReceiver, DecoderStream), the two QUIC    *)
(* streams of instructions between them, each in order, and the request    *)
(* streams that carry field sections, each in order but not in order with  *)
(* one another or with the instructions.                                   *)
(*                                                                         *)
(* Instructions and sections are delivered whole: the receivers keep a     *)
(* partial one in recv_buffer and answer Ok(None), which changes nothing.  *)
(* Who inserts, changes the capacity and sends Insert Count Increments is  *)
(* the caller of the public API; AckedEvictionOnly and FittingCapacityOnly *)
(* say whether that caller keeps RFC 9204 Section 2.1.1 itself.            *)
(*                                                                         *)
(* Marked (history) below: values no step of either endpoint reads.        *)
(***************************************************************************)
EXTENDS QpackTable, FiniteSets

CONSTANTS
    Streams,              \* request streams
    HeaderLists,          \* header lists a caller encodes
    Capacities,           \* capacities a caller asks for
    MaxCap,               \* the decoder's SETTINGS_QPACK_MAX_TABLE_CAPACITY
    LocalCap,             \* the encoder's limits.qpack_max_table_capacity
    MaxBlocked,           \* the decoder's SETTINGS_QPACK_BLOCKED_STREAMS
    StaticHeaders,        \* headers the static table holds exactly
    AckedEvictionOnly,    \* the caller inserts only over acknowledged entries
    FittingCapacityOnly,  \* the caller shrinks only to what evictable entries allow
    MaxInserts,           \* bound on insertions
    MaxSections,          \* bound on field sections per stream
    MaxCapChanges         \* bound on capacity changes by the caller

ASSUME SyncAssumption ==
    /\ IsFiniteSet(Streams)
    /\ HeaderLists \subseteq Seq(Headers)
    /\ MaxCap \in Nat /\ LocalCap \in Nat /\ MaxBlocked \in Nat
    /\ Capacities \subseteq Nat
    /\ StaticHeaders \subseteq Headers
    /\ AckedEvictionOnly \in BOOLEAN /\ FittingCapacityOnly \in BOOLEAN
    /\ MaxInserts \in Nat /\ MaxSections \in Nat /\ MaxCapChanges \in Nat

VARIABLES
    enc,        \* DynamicEncoder: tab, max, blocked, krc, unacked
    rcvd,       \* DecoderStreamReceiver::known_received_count
    encStream,  \* encoder instructions in flight
    reqs,       \* field sections in flight on each request stream
    dec,        \* the decoder's table
    told,       \* the Known Received Count the decoder's caller tracks
    decStream,  \* decoder instructions in flight
    cancelled,  \* streams the decoder has abandoned
    err,        \* the QPACK connection error, or "none"
    hist        \* (history) sections per stream, and increments, so far

vars == <<enc, rcvd, encStream, reqs, dec, told, decStream, cancelled, err, hist>>

\* Mutant: the counter is raised by the new value, not to it.
LargerSum(a, b) == a + b

Larger(a, b) == IF a >= b THEN a ELSE b
Smaller(a, b) == IF a <= b THEN a ELSE b

Init ==
    /\ enc = [tab |-> NewTable, max |-> 0, blocked |-> 0, krc |-> 0,
              unacked |-> [s \in Streams |-> <<>>]]
    /\ rcvd = 0
    /\ encStream = <<>>
    /\ reqs = [s \in Streams |-> <<>>]
    /\ dec = NewTable
    /\ told = 0
    /\ decStream = <<>>
    /\ cancelled = {}
    /\ err = "none"
    /\ hist = [all |-> [s \in Streams |-> 0],       \* sections encoded
               sent |-> [s \in Streams |-> 0],      \* of those, tracked
               decoded |-> [s \in Streams |-> 0],   \* of those, acknowledged
               released |-> {},                     \* cancellations processed
               incs |-> 0,                          \* sum of increments sent
               caps |-> 0]                          \* capacity changes

-----------------------------------------------------------------------------
(* The encoder's table and the encoder stream.                             *)

\* An instruction on its way, with (history) the table it leaves behind.
Instruct(i, t) == encStream' = Append(encStream, [instr |-> i, after |-> Shared(t)])

\* Mutant: announces the peer's maximum, not the capacity in use.
CapInstrMax(c) == [op |-> "capacity", cap |-> MaxCap]

CapInstr(c) == [op |-> "capacity", cap |-> c]
InsertInstr(h) == [op |-> "insert", hdr |-> h]
NameRefInstr(rel, v) == [op |-> "nameref", rel |-> rel, value |-> v]
DupInstr(rel) == [op |-> "duplicate", rel |-> rel]

\* process_control_stream on SETTINGS: the limits the peer announced, the table
\* capacity actually used, and the instruction that announces it.
RecvSettings ==
    LET use == Smaller(MaxCap, LocalCap)
        tab == SetCapacity(enc.tab, use)
    IN  /\ err = "none"
        /\ enc.max = 0 /\ enc.blocked = 0
        /\ MaxCap > 0 \/ MaxBlocked > 0
        /\ enc' = [enc EXCEPT !.max = MaxCap, !.blocked = MaxBlocked, !.tab = tab]
        /\ IF use > 0 THEN Instruct(CapInstr(use), tab) ELSE UNCHANGED encStream
        /\ UNCHANGED <<rcvd, reqs, dec, told, decStream, cancelled, err, hist>>

\* set_table_capacity, then encode_set_capacity: both refuse a capacity above
\* the peer's maximum, the second a peer without a dynamic table.
EncSetCapacity(c) ==
    LET tab == SetCapacity(enc.tab, c)
    IN  /\ err = "none"
        /\ hist.caps < MaxCapChanges
        /\ enc.max # 0 /\ c <= enc.max
        /\ FittingCapacityOnly => CurrentSize(tab) <= c /\ tab.drop <= enc.krc
        /\ enc' = [enc EXCEPT !.tab = tab]
        /\ Instruct(CapInstr(c), tab)
        /\ hist' = [hist EXCEPT !.caps = @ + 1]
        /\ UNCHANGED <<rcvd, reqs, dec, told, decStream, cancelled, err>>

\* DynamicEncoder::insert, then the instruction i when it returned Some.
EncInsertAs(h, i) ==
    LET tab == Insert(enc.tab, h)
    IN  /\ err = "none"
        /\ enc.max # 0
        /\ InsertCount(enc.tab) < MaxInserts
        /\ AckedEvictionOnly => tab.drop <= enc.krc
        /\ enc' = [enc EXCEPT !.tab = tab]
        /\ IF CanInsert(enc.tab, h) THEN Instruct(i, tab) ELSE UNCHANGED encStream
        /\ UNCHANGED <<rcvd, reqs, dec, told, decStream, cancelled, err, hist>>

\* encode_insert_with_literal_name, and encode_insert_with_name_ref with a name
\* of the static table: the instruction carries all the decoder needs.
EncInsert(h) == EncInsertAs(h, InsertInstr(h))

\* encode_insert_with_name_ref with the name of a dynamic entry.
EncInsertNameRef(rel, h) ==
    /\ HasRelative(enc.tab, rel)
    /\ RelativeEntry(enc.tab, rel).name = h.name
    /\ EncInsertAs(h, NameRefInstr(rel, h.value))

\* DynamicTable::duplicate with encode_duplicate.
EncDuplicate(rel) ==
    /\ HasRelative(enc.tab, rel)
    /\ EncInsertAs(RelativeEntry(enc.tab, rel), DupInstr(rel))

-----------------------------------------------------------------------------
(* Encoding a field section.                                               *)

BlockedStreamsCount == Cardinality({s \in Streams : enc.unacked[s] # <<>>})

\* Mutant: one blocked stream too many.
UsesDynamicOneMore ==
    /\ Live(enc.tab) # {}
    /\ enc.max # 0
    /\ BlockedStreamsCount <= enc.blocked

\* encode: the conditions under which the dynamic table is used at all.
UsesDynamic ==
    /\ Live(enc.tab) # {}
    /\ enc.max # 0
    /\ BlockedStreamsCount < enc.blocked

\* encode_with_dynamic, first pass: the newest exact match, else the newest
\* entry of the name, raises the Required Insert Count.
Match(h) ==
    IF ExactMatches(enc.tab, h) # {} THEN Newest(ExactMatches(enc.tab, h)) + 1
    ELSE IF NameMatches(enc.tab, h) # {} THEN Newest(NameMatches(enc.tab, h)) + 1
    ELSE 0

RequiredInsertCount(hs) ==
    IF UsesDynamic /\ hs # <<>>
    THEN Newest({Match(hs[i]) : i \in DOMAIN hs})
    ELSE 0

\* encode_header_with_dynamic, in its order of preference; base is the Required
\* Insert Count.  Static references and literals are self-contained.
EncodeLine(h, base) ==
    IF UsesDynamic /\ ExactMatches(enc.tab, h) # {}
    THEN [kind |-> "indexed", rel |-> base - Newest(ExactMatches(enc.tab, h)) - 1]
    ELSE IF UsesDynamic /\ h \notin StaticHeaders /\ NameMatches(enc.tab, h) # {}
    THEN [kind |-> "nameref", value |-> h.value,
          rel |-> base - Newest(NameMatches(enc.tab, h)) - 1]
    ELSE [kind |-> "literal", hdr |-> h]

\* update_eviction_limit: the largest Required Insert Count not acknowledged.
EvictionLimit(unacked) ==
    LET rics == UNION {{unacked[s][i].ric : i \in DOMAIN unacked[s]} : s \in Streams}
    IN  IF rics = {} THEN 0 ELSE Newest(rics)

\* Mutant: the eviction limit is not brought up to date.
WithUnackedOldLimit(e, u) == [e EXCEPT !.unacked = u]

WithUnacked(e, u) ==
    [e EXCEPT !.unacked = u, !.tab.lim = EvictionLimit(u)]

\* send_request_inner, send_response_inner: encode with the current count of
\* blocked streams, then track_section.
EncSection(s, hs) ==
    LET ric == RequiredInsertCount(hs)
        no == hist.sent[s] + (IF ric > 0 THEN 1 ELSE 0)
        sec == [wire |-> EncodeRIC(enc.max, ric),
                lines |-> [i \in DOMAIN hs |-> EncodeLine(hs[i], ric)],
                ric |-> ric, hdrs |-> hs, no |-> no]             \* (history)
    IN  /\ err = "none"
        /\ hist.all[s] < MaxSections
        /\ enc' = IF ric > 0
                  THEN WithUnacked(enc, [enc.unacked EXCEPT
                                 ![s] = Append(@, [ric |-> ric, no |-> no])])
                  ELSE enc
        /\ reqs' = IF s \in cancelled THEN reqs
                   ELSE [reqs EXCEPT ![s] = Append(@, sec)]
        /\ hist' = [hist EXCEPT !.all[s] = @ + 1, !.sent[s] = no]
        /\ UNCHANGED <<rcvd, encStream, dec, told, decStream, cancelled, err>>

-----------------------------------------------------------------------------
(* The decoder.                                                            *)

\* EncoderStreamReceiver::process: the entry the instruction inserts.
Names(t, i) ==
    CASE i.op = "insert" -> TRUE
      [] i.op \in {"nameref", "duplicate"} -> HasRelative(t, i.rel)
      [] OTHER -> FALSE

Inserted(t, i) ==
    CASE i.op = "insert" -> i.hdr
      [] i.op = "nameref" -> [name |-> RelativeEntry(t, i.rel).name, value |-> i.value]
      [] i.op = "duplicate" -> RelativeEntry(t, i.rel)

Accepts(t, i) ==
    IF i.op = "capacity" THEN i.cap <= MaxCap
    ELSE Names(t, i) /\ CanInsert(t, Inserted(t, i))

Apply(t, i) ==
    IF i.op = "capacity" THEN SetCapacity(t, i.cap) ELSE Insert(t, Inserted(t, i))

\* process_encoder_stream: one instruction; a refused one is
\* QPACK_ENCODER_STREAM_ERROR.
DecInstruction ==
    LET i == Head(encStream).instr
    IN  /\ err = "none"
        /\ encStream # <<>>
        /\ encStream' = Tail(encStream)
        /\ IF Accepts(dec, i)
           THEN dec' = Apply(dec, i) /\ UNCHANGED err
           ELSE err' = "QPACK_ENCODER_STREAM_ERROR" /\ UNCHANGED dec
        /\ UNCHANGED <<enc, rcvd, reqs, told, decStream, cancelled, hist>>

\* Mutant: waits for one insertion more than the section needs.
IsBlockedOneMore(t, sec) ==
    sec.wire # 0 /\ InsertCount(t) <= DecodeRIC(MaxCap, InsertCount(t), sec.wire)

\* decode: the section is blocked on insertions still to come.
IsBlocked(t, sec) == InsertCount(t) < DecodeRIC(MaxCap, InsertCount(t), sec.wire)

\* Mutant: refuses the entry with absolute index 0.
ResolvesTooStrict(t, ric, line) ==
    \/ line.kind = "literal"
    \/ line.rel < ric - 1 /\ ric - line.rel - 1 \in Live(t)

\* decode_header: the dynamic entry a line refers to is below the Required
\* Insert Count and in the table.
Resolves(t, ric, line) ==
    \/ line.kind = "literal"
    \/ line.rel < ric /\ ric - line.rel - 1 \in Live(t)

DecodeLine(t, ric, line) ==
    CASE line.kind = "indexed" -> Entry(t, ric - line.rel - 1)
      [] line.kind = "nameref" ->
            [name |-> Entry(t, ric - line.rel - 1).name, value |-> line.value]
      [] line.kind = "literal" -> line.hdr

\* decode of a section that is not blocked returns Decoded, with these headers.
Decodes(t, sec) ==
    LET ric == DecodeRIC(MaxCap, InsertCount(t), sec.wire)
    IN  ric # BadRIC /\ \A i \in DOMAIN sec.lines : Resolves(t, ric, sec.lines[i])

Decode(t, sec) ==
    LET ric == DecodeRIC(MaxCap, InsertCount(t), sec.wire)
    IN  [i \in DOMAIN sec.lines |-> DecodeLine(t, ric, sec.lines[i])]

\* The decoder side decodes the next section of a stream, at once or when
\* retry_blocked_streams finds it unblocked, and acknowledges it if it had a
\* Required Insert Count; a section that does not decode is
\* QPACK_DECOMPRESSION_FAILED.
DecSection(s) ==
    LET sec == Head(reqs[s])
        ric == DecodeRIC(MaxCap, InsertCount(dec), sec.wire)
    IN  /\ err = "none"
        /\ reqs[s] # <<>>
        /\ ~IsBlocked(dec, sec)
        /\ reqs' = [reqs EXCEPT ![s] = Tail(@)]
        /\ err' = IF Decodes(dec, sec) THEN err ELSE "QPACK_DECOMPRESSION_FAILED"
        /\ IF Decodes(dec, sec) /\ ric > 0
           THEN /\ decStream' = Append(decStream,
                        [op |-> "ack", stream |-> s, ric |-> ric, no |-> sec.no])
                /\ told' = Larger(told, ric)
                /\ hist' = [hist EXCEPT !.decoded[s] = sec.no]
           ELSE UNCHANGED <<told, decStream, hist>>
        /\ UNCHANGED <<enc, rcvd, encStream, dec, cancelled>>

\* stream_reset and its like: the decoder abandons a stream, with what is in
\* flight on it, and sends a Stream Cancellation.
DecCancel(s) ==
    /\ err = "none"
    /\ s \notin cancelled
    /\ cancelled' = cancelled \cup {s}
    /\ reqs' = [reqs EXCEPT ![s] = <<>>]
    /\ decStream' = Append(decStream, [op |-> "cancel", stream |-> s])
    /\ UNCHANGED <<enc, rcvd, encStream, dec, told, err, hist>>

\* encode_insert_count_increment by a caller that follows RFC 9204 Section
\* 2.1.4: it reports the insertions neither an earlier increment nor a Section
\* Acknowledgment has reported.
DecIncrement ==
    LET n == InsertCount(dec) - told
    IN  /\ err = "none"
        /\ n > 0
        /\ told' = InsertCount(dec)
        /\ hist' = [hist EXCEPT !.incs = @ + n]
        /\ decStream' = Append(decStream,
                            [op |-> "increment", n |-> n, sum |-> hist.incs + n])
        /\ UNCHANGED <<enc, rcvd, encStream, reqs, dec, cancelled, err>>

-----------------------------------------------------------------------------
(* The encoder reads the decoder stream (process_decoder_stream).          *)

\* SectionAcknowledgment: ack_section.
EncAck ==
    LET m == Head(decStream)
        u == enc.unacked[m.stream]
    IN  /\ err = "none"
        /\ decStream # <<>> /\ m.op = "ack"
        /\ decStream' = Tail(decStream)
        /\ IF u = <<>>
           THEN err' = "QPACK_DECODER_STREAM_ERROR" /\ UNCHANGED enc
           ELSE /\ enc' = [WithUnacked(enc, [enc.unacked EXCEPT ![m.stream] = Tail(@)])
                              EXCEPT !.krc = Larger(@, Head(u).ric)]
                /\ UNCHANGED err
        /\ UNCHANGED <<rcvd, encStream, reqs, dec, told, cancelled, hist>>

\* StreamCancellation: cancel_stream.
EncCancel ==
    LET m == Head(decStream)
    IN  /\ err = "none"
        /\ decStream # <<>> /\ m.op = "cancel"
        /\ decStream' = Tail(decStream)
        /\ enc' = WithUnacked(enc, [enc.unacked EXCEPT ![m.stream] = <<>>])
        /\ hist' = [hist EXCEPT !.released = @ \cup {m.stream}]
        /\ UNCHANGED <<rcvd, encStream, reqs, dec, told, cancelled, err>>

\* InsertCountIncrement: decode_insert_count_increment, then acknowledge.
EncIncrement ==
    LET m == Head(decStream)
    IN  /\ err = "none"
        /\ decStream # <<>> /\ m.op = "increment"
        /\ decStream' = Tail(decStream)
        /\ IF m.n = 0 \/ rcvd + m.n > InsertCount(enc.tab)
           THEN err' = "QPACK_DECODER_STREAM_ERROR" /\ UNCHANGED <<enc, rcvd>>
           ELSE /\ rcvd' = rcvd + m.n
                /\ enc' = [enc EXCEPT !.krc = Larger(@, rcvd'),
                                      !.tab.lim = EvictionLimit(enc.unacked)]
                /\ UNCHANGED err
        /\ UNCHANGED <<encStream, reqs, dec, told, cancelled, hist>>

Next ==
    \/ RecvSettings
    \/ \E c \in Capacities : EncSetCapacity(c)
    \/ \E h \in Headers : EncInsert(h)
    \/ \E rel \in 0 .. MaxInserts, h \in Headers : EncInsertNameRef(rel, h)
    \/ \E rel \in 0 .. MaxInserts : EncDuplicate(rel)
    \/ \E s \in Streams, hs \in HeaderLists : EncSection(s, hs)
    \/ DecInstruction
    \/ \E s \in Streams : DecSection(s)
    \/ \E s \in Streams : DecCancel(s)
    \/ DecIncrement
    \/ EncAck
    \/ EncCancel
    \/ EncIncrement

Spec == Init /\ [][Next]_vars

\* QUIC delivers what is in flight, and both endpoints process what arrives.
Fairness ==
    /\ WF_vars(DecInstruction)
    /\ \A s \in Streams : WF_vars(DecSection(s))
    /\ WF_vars(EncAck)
    /\ WF_vars(EncCancel)
    /\ WF_vars(EncIncrement)

FairSpec == Spec /\ Fairness

-----------------------------------------------------------------------------
(* Properties.                                                             *)

\* Every field section on its way decodes, the moment its insertions have
\* arrived and not before, to the very header list that was encoded, however
\* many entries were inserted, evicted or duplicated since: the entries it
\* refers to are still in the decoder's table under the indices the decoder
\* reconstructs from the truncated Required Insert Count.
DecodesExactly ==
    \A s \in Streams : \A i \in DOMAIN reqs[s] :
        LET sec == reqs[s][i]
        IN  IF InsertCount(dec) < sec.ric
            THEN IsBlocked(dec, sec)
            ELSE /\ ~IsBlocked(dec, sec)
                 /\ Decodes(dec, sec)
                 /\ Decode(dec, sec) = sec.hdrs

\* No exchange between these two endpoints ends the connection: every encoder
\* instruction is one the decoder's table can carry out, every section decodes,
\* every Section Acknowledgment finds the section it acknowledges and no Insert
\* Count Increment exceeds what was inserted.
NoConnectionError == err = "none"

\* Once the decoder has read the whole encoder stream the two tables hold the
\* same entries under the same indices with the same capacity, though the
\* encoder evicts under a limit the decoder does not know and refused
\* insertions send nothing.
TablesAgree == encStream = <<>> => Shared(enc.tab) = dec

\* The streams that wait for insertions are never more than the decoder's
\* SETTINGS_QPACK_BLOCKED_STREAMS, whatever the order of deliveries.
BlockedStreamsBounded ==
    Cardinality({s \in Streams : \E i \in DOMAIN reqs[s] :
                    IsBlocked(dec, reqs[s][i])}) <= MaxBlocked

\* The encoder never believes an insertion received that the decoder has not
\* applied: known_received_count is a lower bound of the decoder's Insert Count.
KnownReceivedIsReceived == enc.krc <= InsertCount(dec)

\* A stream the decoder has not abandoned is eventually acknowledged in full:
\* its sections stop pinning table entries and counting as blocked.
SectionsReleased ==
    \A s \in Streams :
        enc.unacked[s] # <<>> ~> enc.unacked[s] = <<>> \/ s \in cancelled
=============================================================================
