---------------------------- MODULE QpackSyncInv ----------------------------
(***************************************************************************)
(* The inductive invariant of QpackSync for a caller that keeps RFC 9204   *)
(* Section 2.1.1, as a conjunction of named parts.  QpackSync_proofs       *)
(* proves that it is inductive; the run qpack_core checks it with TLC.     *)
(***************************************************************************)
EXTENDS QpackSync

Values == {h.value : h \in Headers}

Instruction ==
    [op : {"capacity"}, cap : Nat]
    \cup [op : {"insert"}, hdr : Headers]
    \cup [op : {"nameref"}, rel : Nat, value : Values]
    \cup [op : {"duplicate"}, rel : Nat]

Line ==
    [kind : {"indexed"}, rel : Nat]
    \cup [kind : {"nameref"}, rel : Nat, value : Values]
    \cup [kind : {"literal"}, hdr : Headers]

Section == [wire : Nat, lines : Seq(Line), ric : Nat, hdrs : Seq(Headers), no : Nat]

Tracked == [ric : Nat \ {0}, no : Nat]

DecMessage ==
    [op : {"ack"}, stream : Streams, ric : Nat \ {0}, no : Nat]
    \cup [op : {"cancel"}, stream : Streams]
    \cup [op : {"increment"}, n : Nat \ {0}, sum : Nat]

\* The types of the variables of QpackSync: what DynamicEncoder, DynamicDecoder,
\* the two receivers and the streams between them hold.
TypeOK ==
    /\ enc \in [tab : Table, max : {0, MaxCap}, blocked : {0, MaxBlocked}, krc : Nat,
                unacked : [Streams -> Seq(Tracked)]]
    /\ rcvd \in Nat
    /\ encStream \in Seq([instr : Instruction, after : Table])
    /\ reqs \in [Streams -> Seq(Section)]
    /\ dec \in Table
    /\ told \in Nat
    /\ decStream \in Seq(DecMessage)
    /\ cancelled \subseteq Streams
    /\ err \in {"none", "QPACK_ENCODER_STREAM_ERROR", "QPACK_DECODER_STREAM_ERROR",
                "QPACK_DECOMPRESSION_FAILED"}
    /\ hist \in [all : [Streams -> Nat], sent : [Streams -> Nat],
                 decoded : [Streams -> Nat], released : SUBSET Streams,
                 incs : Nat, caps : Nat]

\* The decoder's table before it reads instruction i.
Before(i) == IF i = 1 THEN dec ELSE encStream[i - 1].after

\* Replaying the encoder stream on the decoder's table is possible and ends in
\* the encoder's table.
ReplayInv ==
    /\ \A i \in 1 .. Len(encStream) :
          /\ Accepts(Before(i), encStream[i].instr)
          /\ encStream[i].after = Apply(Before(i), encStream[i].instr)
          /\ Sound(encStream[i].after) /\ encStream[i].after.lim = 0
          /\ Earlier(Before(i), encStream[i].after)
          /\ Earlier(encStream[i].after, enc.tab)
    /\ Before(Len(encStream) + 1) = Shared(enc.tab)
    /\ Sound(enc.tab) /\ Sound(dec) /\ Earlier(dec, enc.tab)
    /\ dec.lim = 0

\* The encoder's table is within a capacity the peer allows and only entries
\* known to be received have been evicted.
EvictionInv ==
    /\ enc.max = 0 => enc.tab.cap = 0 /\ enc.tab.log = <<>>
    /\ enc.tab.cap <= MaxCap
    /\ CurrentSize(enc.tab) <= enc.tab.cap
    /\ enc.tab.drop <= enc.krc
    /\ enc.krc <= InsertCount(dec)
    /\ enc.tab.lim = EvictionLimit(enc.unacked)
    /\ \A s \in Streams : \A i \in 1 .. Len(enc.unacked[s]) :
          enc.unacked[s][i].ric <= InsertCount(enc.tab)

\* What a line of a section with Required Insert Count ric stands for, in the
\* encoder's table as it is now.
LineOK(line, ric, h) ==
    \/ line.kind = "literal" /\ line.hdr = h
    \/ /\ line.kind = "indexed"
       /\ line.rel < ric /\ ric - line.rel - 1 \in Live(enc.tab)
       /\ Entry(enc.tab, ric - line.rel - 1) = h
    \/ /\ line.kind = "nameref"
       /\ line.rel < ric /\ ric - line.rel - 1 \in Live(enc.tab)
       /\ Entry(enc.tab, ric - line.rel - 1).name = h.name
       /\ line.value = h.value

SectionInv ==
    \A s \in Streams : \A i \in 1 .. Len(reqs[s]) :
        LET sec == reqs[s][i]
        IN  /\ sec.wire = EncodeRIC(MaxCap, sec.ric)
            /\ sec.ric > 0 => sec.ric - 1 \in Live(enc.tab)
            /\ DOMAIN sec.lines = DOMAIN sec.hdrs
            /\ \A j \in DOMAIN sec.hdrs : LineOK(sec.lines[j], sec.ric, sec.hdrs[j])

\* Sections of a stream the encoder has seen acknowledged.
Acked(s) == hist.sent[s] - Len(enc.unacked[s])

\* The k-th tracked section of stream s is still tracked, with this count.
Tracks(s, no, ric) ==
    /\ no - Acked(s) \in 1 .. Len(enc.unacked[s])
    /\ enc.unacked[s][no - Acked(s)].ric = ric

\* The sections in flight on a stream are, in order, exactly those sent and not
\* yet decoded, and each of them is tracked.
FlightInv ==
    \A s \in Streams :
        /\ s \in cancelled => reqs[s] = <<>>
        /\ Len(enc.unacked[s]) <= hist.sent[s]
        /\ hist.decoded[s] <= hist.sent[s]
        /\ \A i \in 1 .. Len(reqs[s]) : reqs[s][i].ric > 0 =>
              /\ reqs[s][i].no \in hist.decoded[s] + 1 .. hist.sent[s]
              /\ Tracks(s, reqs[s][i].no, reqs[s][i].ric)
        /\ \A i, j \in 1 .. Len(reqs[s]) :
              i < j /\ reqs[s][i].ric > 0 /\ reqs[s][j].ric > 0
                => reqs[s][i].no < reqs[s][j].no
        /\ s \notin cancelled =>
              \A m \in hist.decoded[s] + 1 .. hist.sent[s] :
                 \E i \in 1 .. Len(reqs[s]) : reqs[s][i].ric > 0 /\ reqs[s][i].no = m

IsAck(i, s) == decStream[i].op = "ack" /\ decStream[i].stream = s
IsCancel(i, s) == decStream[i].op = "cancel" /\ decStream[i].stream = s

\* The acknowledgments in flight for a stream are, in order, exactly those of
\* the sections decoded and not yet seen acknowledged.
AckInv ==
    \A s \in Streams :
        /\ \A i \in 1 .. Len(decStream) : IsAck(i, s) =>
              /\ s \notin hist.released
              /\ decStream[i].no \in Acked(s) + 1 .. hist.decoded[s]
              /\ Tracks(s, decStream[i].no, decStream[i].ric)
              /\ decStream[i].ric <= InsertCount(dec)
        /\ \A i, j \in 1 .. Len(decStream) :
              i < j /\ IsAck(i, s) /\ IsAck(j, s) => decStream[i].no < decStream[j].no
        /\ s \notin hist.released =>
              \A m \in Acked(s) + 1 .. hist.decoded[s] :
                 \E i \in 1 .. Len(decStream) : IsAck(i, s) /\ decStream[i].no = m

\* A Stream Cancellation is the last instruction of its stream.
CancelInv ==
    \A s \in Streams :
        /\ s \in hist.released => s \in cancelled
        /\ \A i \in 1 .. Len(decStream) : IsCancel(i, s) =>
              /\ s \in cancelled \ hist.released
              /\ \A j \in i + 1 .. Len(decStream) : ~IsAck(j, s) /\ ~IsCancel(j, s)

\* Increments in flight never count an insertion twice.
IncrementInv ==
    /\ rcvd <= hist.incs
    /\ hist.incs <= told
    /\ told <= InsertCount(dec)
    /\ \A i \in 1 .. Len(decStream) : decStream[i].op = "increment" =>
          /\ rcvd + decStream[i].n <= decStream[i].sum
          /\ decStream[i].sum <= hist.incs
    /\ \A i, j \in 1 .. Len(decStream) :
          i < j /\ decStream[i].op = "increment" /\ decStream[j].op = "increment"
             => decStream[i].sum + decStream[j].n <= decStream[j].sum

\* Streams that may be blocked, as the encoder counts them.
BlockedInv == BlockedStreamsCount <= enc.blocked

\* The inductive invariant: replaying the encoder stream takes the decoder's
\* table to the encoder's, nothing referenced or unreported is evicted, and each
\* acknowledgment in flight is matched to the section the encoder tracks.
IInv ==
    /\ TypeOK
    /\ NoConnectionError
    /\ ReplayInv
    /\ EvictionInv
    /\ SectionInv
    /\ FlightInv
    /\ AckInv
    /\ CancelInv
    /\ IncrementInv
    /\ BlockedInv
=============================================================================
