-------------------------- MODULE QpackSync_proofs --------------------------
(***************************************************************************)
(* For every number of streams, every set of headers and every capacity: a *)
(* caller that keeps RFC 9204 Section 2.1.1 never sees a field section     *)
(* decoded to other headers, a QPACK connection error, diverging tables or *)
(* more blocked streams than allowed.                                      *)
(***************************************************************************)
EXTENDS QpackSyncInv, QpackTable_proofs, FiniteSetTheorems

(* Order on naturals, for leaves whose other facts slow the provers down.  *)
LEMMA NatTransitive ==
  ASSUME NEW a \in Nat, NEW b \in Nat, NEW c \in Nat, a <= b, b <= c
  PROVE  a <= c
OBVIOUS

(* The types of the parts of the state.                                    *)
LEMMA StateTypes ==
  ASSUME TypeOK
  PROVE  /\ enc.tab \in Table /\ enc.krc \in Nat
         /\ enc.max \in {0, MaxCap} /\ enc.blocked \in {0, MaxBlocked}
         /\ enc.unacked \in [Streams -> Seq(Tracked)]
         /\ hist.all \in [Streams -> Nat] /\ hist.sent \in [Streams -> Nat]
         /\ hist.decoded \in [Streams -> Nat] /\ hist.released \in SUBSET Streams
         /\ hist.incs \in Nat /\ hist.caps \in Nat
         /\ \A s \in Streams : /\ enc.unacked[s] \in Seq(Tracked)
                               /\ reqs[s] \in Seq(Section)
                               /\ Len(enc.unacked[s]) \in Nat /\ Len(reqs[s]) \in Nat
                               /\ hist.sent[s] \in Nat /\ hist.decoded[s] \in Nat
BY DEF TypeOK

LEMMA SectionTypes ==
  ASSUME TypeOK, NEW s \in Streams, NEW i \in 1 .. Len(reqs[s])
  PROVE  /\ reqs[s][i] \in Section
         /\ reqs[s][i].ric \in Nat /\ reqs[s][i].no \in Nat /\ reqs[s][i].wire \in Nat
         /\ reqs[s][i].hdrs \in Seq(Headers) /\ reqs[s][i].lines \in Seq(Line)
<1>1. reqs[s] \in Seq(Section) BY StateTypes
<1>2. reqs[s][i] \in Section BY <1>1, SeqElement
<1> QED BY <1>2 DEF Section

LEMMA TrackedTypes ==
  ASSUME TypeOK, NEW s \in Streams, NEW i \in 1 .. Len(enc.unacked[s])
  PROVE  /\ enc.unacked[s][i] \in Tracked
         /\ enc.unacked[s][i].ric \in Nat \ {0} /\ enc.unacked[s][i].no \in Nat
<1>1. enc.unacked[s] \in Seq(Tracked) BY StateTypes
<1>2. enc.unacked[s][i] \in Tracked BY <1>1, SeqElement
<1> QED BY <1>2 DEF Tracked

(* The eviction limit is above every entry a tracked section may refer to. *)
LEMMA LimitPins ==
  ASSUME NEW u \in [Streams -> Seq(Tracked)], NEW n \in Nat,
         \A s \in Streams : \A i \in 1 .. Len(u[s]) : u[s][i].ric <= n
  PROVE  /\ EvictionLimit(u) \in 0 .. n
         /\ \A s \in Streams : \A i \in 1 .. Len(u[s]) : u[s][i].ric <= EvictionLimit(u)
<1> DEFINE rics == UNION {{u[s][i].ric : i \in DOMAIN u[s]} : s \in Streams}
<1>1. ASSUME NEW s \in Streams, NEW i \in DOMAIN u[s]
      PROVE  u[s][i].ric \in 0 .. n /\ u[s][i].ric \in rics
  <2>1. u[s] \in Seq(Tracked) OBVIOUS
  <2>2. i \in 1 .. Len(u[s]) BY <2>1
  <2>3. u[s][i] \in Tracked BY <2>1, <2>2, SeqElement
  <2>4. u[s][i].ric \in Nat BY <2>3 DEF Tracked
  <2> QED BY <2>2, <2>4
<1>2. rics \subseteq 0 .. n BY <1>1
<1>3. \A s \in Streams : DOMAIN u[s] = 1 .. Len(u[s]) OBVIOUS
<1>4. EvictionLimit(u) = IF rics = {} THEN 0 ELSE Newest(rics) BY DEF EvictionLimit
<1> HIDE DEF rics
<1>5. CASE rics = {} BY <1>1, <1>3, <1>4, <1>5
<1>6. CASE rics # {}
  <2>1. Newest(rics) \in rics /\ \A j \in rics : j <= Newest(rics)
    BY <1>2, <1>6, NewestMax
  <2> QED BY <2>1, <1>1, <1>2, <1>3, <1>4, <1>6
<1> QED BY <1>5, <1>6

(* The Required Insert Count of a section in flight survives its wire form. *)
LEMMA SectionRIC ==
  ASSUME IInv, NEW s \in Streams, NEW i \in 1 .. Len(reqs[s])
  PROVE  DecodeRIC(MaxCap, InsertCount(dec), reqs[s][i].wire) = reqs[s][i].ric
<1> DEFINE sec == reqs[s][i]
           M == MaxEntries(MaxCap)
<1>1. TypeOK BY DEF IInv
<1>2. sec.ric \in Nat BY <1>1, SectionTypes
<1>3. sec.wire = EncodeRIC(MaxCap, sec.ric) /\ (sec.ric > 0 => sec.ric - 1 \in Live(enc.tab))
  BY DEF IInv, SectionInv
<1>4. CASE sec.ric = 0 BY <1>3, <1>4 DEF EncodeRIC, DecodeRIC
<1>5. CASE sec.ric > 0
  <2>1. enc.tab \in Table /\ dec \in Table /\ enc.krc \in Nat BY <1>1, StateTypes DEF TypeOK
  <2>2. /\ enc.tab.drop \in Nat /\ Len(enc.tab.log) \in Nat /\ Len(dec.log) \in Nat
        /\ enc.tab.cap \in Nat
    BY <2>1, TableFields
  <2>3. MaxCap \in Nat /\ M \in Nat BY SyncAssumption DEF MaxEntries, ENTRY_OVERHEAD
  <2>4. /\ CurrentSize(enc.tab) <= enc.tab.cap /\ enc.tab.cap <= MaxCap
        /\ enc.tab.drop <= enc.krc /\ enc.krc <= Len(dec.log)
    BY DEF IInv, EvictionInv, InsertCount
  <2>5. Sound(enc.tab) /\ Len(dec.log) <= Len(enc.tab.log)
    BY DEF IInv, ReplayInv, Earlier
  <2>6. Len(enc.tab.log) <= enc.tab.drop + MaxEntries(enc.tab.cap)
    BY <2>1, <2>2, <2>4, <2>5, LiveBound
  <2>7. MaxEntries(enc.tab.cap) \in Nat /\ MaxEntries(enc.tab.cap) <= M
    BY <2>2, <2>3, <2>4 DEF MaxEntries, ENTRY_OVERHEAD
  <2>8. enc.tab.drop <= sec.ric - 1 /\ sec.ric - 1 <= Len(enc.tab.log) - 1
    BY <1>3, <1>5, <1>2, <2>2 DEF Live, InsertCount
  <2> DEFINE r == sec.ric
             E == Len(enc.tab.log)
             D == Len(dec.log)
             d == enc.tab.drop
             m == MaxEntries(enc.tab.cap)
             k == enc.krc
  <2>11. /\ r \in Nat /\ r > 0 /\ E \in Nat /\ D \in Nat /\ d \in Nat /\ m \in Nat
         /\ k \in Nat /\ d <= k /\ k <= D /\ D <= E /\ E <= d + m /\ m <= M
         /\ d <= r - 1 /\ r - 1 <= E - 1
    BY <1>2, <1>5, <2>1, <2>2, <2>4, <2>5, <2>6, <2>7, <2>8
  <2> HIDE DEF M, r, E, D, d, m, k
  <2>12. M > 0 /\ r <= D + M /\ D < r + M BY <2>3, <2>11
  <2>9. /\ M > 0 /\ sec.ric <= Len(dec.log) + M /\ Len(dec.log) < sec.ric + M
    BY <2>12 DEF r, D
  <2> HIDE DEF sec
  <2>10. DecodeRIC(MaxCap, Len(dec.log), EncodeRIC(MaxCap, sec.ric)) = sec.ric
    BY <1>2, <1>5, <2>2, <2>3, <2>9, RICRoundTrip DEF M
  <2> QED BY <2>10, <1>3 DEF InsertCount, sec
<1> QED BY <1>2, <1>4, <1>5

(* A section in flight whose insertions have arrived decodes to its headers. *)
LEMMA SectionDecodes ==
  ASSUME IInv, NEW s \in Streams, NEW i \in 1 .. Len(reqs[s]),
         reqs[s][i].ric <= InsertCount(dec)
  PROVE  Decodes(dec, reqs[s][i]) /\ Decode(dec, reqs[s][i]) = reqs[s][i].hdrs
<1> DEFINE sec == reqs[s][i]
           ric == sec.ric
<1>1. TypeOK BY DEF IInv
<1>2. /\ ric \in Nat /\ sec.hdrs \in Seq(Headers) /\ sec.lines \in Seq(Line)
  BY <1>1, SectionTypes
<1>3. DecodeRIC(MaxCap, InsertCount(dec), sec.wire) = ric BY SectionRIC
<1>4. ric # BadRIC BY <1>2 DEF BadRIC
<1>5. /\ DOMAIN sec.lines = DOMAIN sec.hdrs
      /\ \A j \in DOMAIN sec.hdrs : LineOK(sec.lines[j], ric, sec.hdrs[j])
  BY DEF IInv, SectionInv
<1>6. enc.tab \in Table /\ dec \in Table BY <1>1, StateTypes DEF TypeOK
<1>7. /\ enc.tab.drop \in Nat /\ Len(enc.tab.log) \in Nat /\ Len(dec.log) \in Nat
      /\ dec.drop \in Nat
  BY <1>6, TableFields
<1>8. Earlier(dec, enc.tab) BY DEF IInv, ReplayInv
<1>13. ric <= Len(dec.log) /\ dec.drop <= enc.tab.drop BY <1>8 DEF InsertCount, Earlier
<1> HIDE DEF ric, sec
<1>9. ASSUME NEW j \in DOMAIN sec.hdrs
      PROVE  /\ Resolves(dec, ric, sec.lines[j])
             /\ DecodeLine(dec, ric, sec.lines[j]) = sec.hdrs[j]
  <2> DEFINE line == sec.lines[j]
             h == sec.hdrs[j]
             a == ric - line.rel - 1
  <2>1. LineOK(line, ric, h) BY <1>5
  <2>2. j \in 1 .. Len(sec.lines) /\ j \in 1 .. Len(sec.hdrs) BY <1>2, <1>5
  <2>3. line \in Line /\ h \in Headers BY <1>2, <2>2, SeqElement
  <2>4. CASE line.kind = "literal"
    BY <2>1, <2>4 DEF LineOK, Resolves, DecodeLine
  <2>5. CASE line.kind # "literal"
    <3>1. line.rel < ric /\ a \in Live(enc.tab) BY <2>1, <2>5 DEF LineOK
    <3>2. line.rel \in Nat BY <2>3, <2>5 DEF Line
    <3>3. a \in Nat /\ a < ric BY SMTT(30), <3>1, <3>2, <1>2
    <3> HIDE DEF a
    <3>4. a \in Live(dec)
      <4>1. enc.tab.drop <= a BY <3>1, <3>3, <1>7 DEF Live, InsertCount
      <4>2. PICK l \in Nat, d \in Nat, e \in Nat :
              l = Len(dec.log) /\ d = dec.drop /\ e = enc.tab.drop BY <1>7
      <4>3. d <= a /\ a <= l - 1 BY <4>1, <4>2, <3>3, <1>2, <1>13
      <4> QED BY <4>2, <4>3, <3>3 DEF Live, InsertCount
    <3>5. a + 1 \in 1 .. Len(dec.log) BY <3>4, <3>3, <1>7 DEF Live, InsertCount
    <3>6. Entry(dec, a) = Entry(enc.tab, a) BY <3>5, <1>8 DEF Entry, Earlier
    <3>7. Resolves(dec, ric, line) BY <3>1, <3>4 DEF Resolves, a
    <3>8. CASE line.kind = "indexed"
      <4>1. Entry(enc.tab, a) = h BY <2>1, <3>8 DEF LineOK, a
      <4> QED BY <4>1, <3>6, <3>7, <3>8 DEF DecodeLine, a
    <3>9. CASE line.kind = "nameref"
      <4>1. Entry(enc.tab, a).name = h.name /\ line.value = h.value
        BY <2>1, <3>9 DEF LineOK, a
      <4>2. h = [name |-> h.name, value |-> h.value] BY <2>3, EntrySizeAssumption
      <4>3. DecodeLine(dec, ric, line) = [name |-> Entry(dec, a).name, value |-> line.value]
        BY <3>9 DEF DecodeLine, a
      <4> QED BY <4>1, <4>2, <4>3, <3>6, <3>7
    <3> QED BY <3>8, <3>9, <2>3, <2>5 DEF Line
  <2> QED BY <2>4, <2>5
<1>10. Decodes(dec, sec) BY <1>3, <1>4, <1>5, <1>9 DEF Decodes, sec
<1>11. Decode(dec, sec) = [j \in DOMAIN sec.hdrs |-> sec.hdrs[j]]
  BY <1>3, <1>5, <1>9 DEF Decode, sec
<1>12. sec.hdrs = [j \in DOMAIN sec.hdrs |-> sec.hdrs[j]] BY <1>2
<1> QED BY <1>10, <1>11, <1>12 DEF sec
-----------------------------------------------------------------------------
(* Parts of the invariant a step leaves alone.                             *)

LEMMA FlightFrame ==
  ASSUME FlightInv, enc'.unacked = enc.unacked, hist'.sent = hist.sent,
         hist'.decoded = hist.decoded, reqs' = reqs, cancelled' = cancelled
  PROVE  FlightInv'
BY DEF FlightInv, Tracks, Acked

LEMMA AckFrame ==
  ASSUME AckInv, enc'.unacked = enc.unacked, hist'.sent = hist.sent,
         hist'.decoded = hist.decoded, hist'.released = hist.released,
         decStream' = decStream, dec' = dec
  PROVE  AckInv'
BY DEF AckInv, Tracks, Acked, IsAck

LEMMA CancelFrame ==
  ASSUME CancelInv, hist'.released = hist.released, decStream' = decStream,
         cancelled' = cancelled
  PROVE  CancelInv'
BY DEF CancelInv, IsAck, IsCancel

LEMMA IncrementFrame ==
  ASSUME IncrementInv, rcvd' = rcvd, hist'.incs = hist.incs, told' = told,
         decStream' = decStream, dec' = dec
  PROVE  IncrementInv'
BY DEF IncrementInv

LEMMA BlockedFrame ==
  ASSUME BlockedInv, enc'.unacked = enc.unacked, enc'.blocked = enc.blocked
  PROVE  BlockedInv'
BY DEF BlockedInv, BlockedStreamsCount

LEMMA ReplayFrame ==
  ASSUME ReplayInv, TypeOK, enc'.tab \in Table,
         enc'.tab.log = enc.tab.log, enc'.tab.drop = enc.tab.drop,
         enc'.tab.cap = enc.tab.cap, enc'.tab.bytes = enc.tab.bytes,
         encStream' = encStream, dec' = dec
  PROVE  ReplayInv'
<1>1. Shared(enc'.tab) = Shared(enc.tab) BY StateTypes DEF Shared, Table
<1>2. Sound(enc'.tab) BY DEF ReplayInv, Sound
<1>3. \A a : Earlier(a, enc.tab) => Earlier(a, enc'.tab) BY DEF Earlier
<1> QED BY <1>1, <1>2, <1>3 DEF ReplayInv, Before

LEMMA SectionFrame ==
  ASSUME SectionInv, enc'.tab.log = enc.tab.log, enc'.tab.drop = enc.tab.drop,
         reqs' = reqs
  PROVE  SectionInv'
<1>1. Live(enc'.tab) = Live(enc.tab) /\ \A a : Entry(enc'.tab, a) = Entry(enc.tab, a)
  BY DEF Live, Entry, InsertCount
<1>2. SUFFICES ASSUME NEW s \in Streams, NEW i \in 1 .. Len(reqs[s])
               PROVE  LET sec == reqs[s][i]
                      IN  /\ sec.wire = EncodeRIC(MaxCap, sec.ric)
                          /\ sec.ric > 0 => sec.ric - 1 \in Live(enc'.tab)
                          /\ DOMAIN sec.lines = DOMAIN sec.hdrs
                          /\ \A j \in DOMAIN sec.hdrs :
                                LineOK(sec.lines[j], sec.ric, sec.hdrs[j])'
  BY DEF SectionInv
<1> DEFINE sec == reqs[s][i]
<1>3. /\ sec.wire = EncodeRIC(MaxCap, sec.ric)
      /\ sec.ric > 0 => sec.ric - 1 \in Live(enc.tab)
      /\ DOMAIN sec.lines = DOMAIN sec.hdrs
      /\ \A j \in DOMAIN sec.hdrs : LineOK(sec.lines[j], sec.ric, sec.hdrs[j])
  BY DEF SectionInv
<1>4. ASSUME NEW j \in DOMAIN sec.hdrs
      PROVE  LineOK(sec.lines[j], sec.ric, sec.hdrs[j])'
  BY <1>1, <1>3 DEF LineOK
<1> QED BY <1>1, <1>3, <1>4

(* While a section with a Required Insert Count is in flight, the oldest    *)
(* entry of the encoder's table is below the eviction limit.               *)
LEMMA FlightPins ==
  ASSUME IInv, NEW s \in Streams, NEW i \in 1 .. Len(reqs[s]), reqs[s][i].ric > 0
  PROVE  enc.tab.drop < enc.tab.lim
<1> DEFINE sec == reqs[s][i]
           k == sec.no - Acked(s)
<1>1. TypeOK BY DEF IInv
<1>2. sec.ric \in Nat BY <1>1, SectionTypes
<1>3. k \in 1 .. Len(enc.unacked[s]) /\ enc.unacked[s][k].ric = sec.ric
  BY DEF IInv, FlightInv, Tracks
<1>4. enc.tab \in Table /\ enc.unacked \in [Streams -> Seq(Tracked)] BY <1>1, StateTypes
<1>5. enc.tab.drop \in Nat /\ Len(enc.tab.log) \in Nat /\ enc.tab.lim \in Nat BY <1>4, TableFields
<1> HIDE DEF k
<1>6. sec.ric <= enc.tab.lim
  <2>1. \A s1 \in Streams : \A i1 \in 1 .. Len(enc.unacked[s1]) :
            enc.unacked[s1][i1].ric <= Len(enc.tab.log)
    BY DEF IInv, EvictionInv, InsertCount
  <2>2. enc.unacked[s][k].ric <= EvictionLimit(enc.unacked)
    BY <2>1, <1>3, <1>4, <1>5, LimitPins
  <2> QED BY <2>2, <1>3 DEF IInv, EvictionInv
<1>7. sec.ric - 1 \in Live(enc.tab) BY DEF IInv, SectionInv
<1>8. enc.tab.drop <= sec.ric - 1 BY <1>7, <1>5, <1>2 DEF Live, InsertCount
<1> QED BY <1>2, <1>5, <1>6, <1>8

(* Sections stay decodable when the encoder's table grows, provided nothing *)
(* is evicted while one with a Required Insert Count is in flight.         *)
LEMMA SectionGrow ==
  ASSUME IInv, enc'.tab \in Table, Earlier(enc.tab, enc'.tab), reqs' = reqs,
         enc.tab.drop < enc.tab.lim => enc'.tab.drop = enc.tab.drop
  PROVE  SectionInv'
<1>1. TypeOK BY DEF IInv
<1>2. enc.tab \in Table BY <1>1, StateTypes
<1>3. /\ enc.tab.drop \in Nat /\ Len(enc.tab.log) \in Nat
      /\ enc'.tab.drop \in Nat /\ Len(enc'.tab.log) \in Nat
  BY <1>2, TableFields
<1>4. SUFFICES ASSUME NEW s \in Streams, NEW i \in 1 .. Len(reqs[s])
               PROVE  LET sec == reqs[s][i]
                      IN  /\ sec.wire = EncodeRIC(MaxCap, sec.ric)
                          /\ sec.ric > 0 => sec.ric - 1 \in Live(enc'.tab)
                          /\ DOMAIN sec.lines = DOMAIN sec.hdrs
                          /\ \A j \in DOMAIN sec.hdrs :
                                LineOK(sec.lines[j], sec.ric, sec.hdrs[j])'
  BY DEF SectionInv
<1> DEFINE sec == reqs[s][i]
<1>5. /\ sec.wire = EncodeRIC(MaxCap, sec.ric)
      /\ sec.ric > 0 => sec.ric - 1 \in Live(enc.tab)
      /\ DOMAIN sec.lines = DOMAIN sec.hdrs
      /\ \A j \in DOMAIN sec.hdrs : LineOK(sec.lines[j], sec.ric, sec.hdrs[j])
  BY DEF IInv, SectionInv
<1>6. /\ sec.ric \in Nat /\ sec.hdrs \in Seq(Headers) /\ sec.lines \in Seq(Line)
  BY <1>1, SectionTypes
<1>7. ASSUME sec.ric > 0, NEW a \in Live(enc.tab)
      PROVE  a \in Live(enc'.tab) /\ Entry(enc'.tab, a) = Entry(enc.tab, a)
  <2>1. enc'.tab.drop = enc.tab.drop BY <1>7, FlightPins
  <2>2. a + 1 \in 1 .. Len(enc.tab.log) BY <1>3 DEF Live, InsertCount
  <2> QED BY <2>1, <2>2, <1>3 DEF Live, InsertCount, Entry, Earlier
<1>8. ASSUME NEW j \in DOMAIN sec.hdrs
      PROVE  LineOK(sec.lines[j], sec.ric, sec.hdrs[j])'
  <2> DEFINE line == sec.lines[j]
  <2>1. j \in 1 .. Len(sec.lines) BY <1>5, <1>6
  <2>2. line \in Line BY <1>6, <2>1, SeqElement
  <2>3. LineOK(line, sec.ric, sec.hdrs[j]) BY <1>5
  <2>4. CASE line.kind = "literal" BY <2>3, <2>4 DEF LineOK
  <2>5. CASE line.kind # "literal"
    <3>1. line.rel < sec.ric /\ line.rel \in Nat BY <2>2, <2>3, <2>5 DEF LineOK, Line
    <3>2. sec.ric > 0 BY <3>1, <1>6
    <3> QED BY <2>3, <2>5, <3>2, <1>4, <1>7 DEF LineOK
  <2> QED BY <2>4, <2>5
<1> QED BY <1>5, <1>7, <1>8
-----------------------------------------------------------------------------
(* Steps of the encoder's table.                                           *)

LEMMA EarlierTrans ==
  ASSUME NEW a \in Table, NEW b \in Table, NEW c \in Table, Earlier(a, b), Earlier(b, c)
  PROVE  Earlier(a, c)
<1>1. /\ a.drop \in Nat /\ b.drop \in Nat /\ c.drop \in Nat
      /\ Len(a.log) \in Nat /\ Len(b.log) \in Nat /\ Len(c.log) \in Nat
  BY TableFields
<1> QED BY <1>1 DEF Earlier

LEMMA SharedFacts ==
  ASSUME NEW t \in Table
  PROVE  /\ Shared(t) \in Table /\ Shared(t).log = t.log /\ Shared(t).drop = t.drop
         /\ Shared(t).bytes = t.bytes /\ Shared(t).cap = t.cap /\ Shared(t).lim = 0
         /\ Sound(t) => Sound(Shared(t)) /\ Earlier(Shared(t), t)
<1>1. /\ Shared(t) \in Table /\ Shared(t).log = t.log /\ Shared(t).drop = t.drop
      /\ Shared(t).bytes = t.bytes /\ Shared(t).cap = t.cap /\ Shared(t).lim = 0
  BY DEF Shared, Table
<1>2. t.drop \in Nat /\ Len(t.log) \in Nat BY TableFields
<1>3. Sound(t) => Sound(Shared(t)) BY <1>1 DEF Sound
<1>4. Earlier(Shared(t), t) BY <1>1, <1>2 DEF Earlier
<1> QED BY <1>1, <1>3, <1>4

(* The decoder can replay one more instruction once the encoder has issued  *)
(* it after the same change to its own table.                              *)
LEMMA ReplayAppend ==
  ASSUME ReplayInv, TypeOK, NEW v \in Table, NEW i \in Instruction,
         Sound(v), Earlier(enc.tab, v), enc'.tab = v,
         Accepts(Shared(enc.tab), i), Apply(Shared(enc.tab), i) = Shared(v),
         Instruct(i, v), dec' = dec
  PROVE  ReplayInv'
<1>0. PICK n \in Nat : n = Len(encStream) BY DEF TypeOK
<1> DEFINE m == [instr |-> i, after |-> Shared(v)]
           EncMessage == [instr : Instruction, after : Table]
<1>1. encStream \in Seq(EncMessage) BY DEF TypeOK
<1>2. m \in EncMessage BY SharedFacts
<1>3. encStream' = Append(encStream, m) BY DEF Instruct
<1>4. /\ Len(encStream') = n + 1 /\ encStream'[n + 1] = m
      /\ \A k \in 1 .. n : encStream'[k] = encStream[k]
  <2> HIDE DEF m, EncMessage
  <2> QED BY <1>0, <1>1, <1>2, <1>3
<1>5. \A k \in 1 .. n + 1 : Before(k)' = Before(k)
  <2> TAKE k \in 1 .. n + 1
  <2>1. CASE k = 1 BY <2>1 DEF Before
  <2>2. CASE k # 1
    <3>1. k - 1 \in 1 .. n BY <2>2
    <3> QED BY <2>2, <3>1, <1>4 DEF Before
  <2> QED BY <2>1, <2>2
<1>6. Before(n + 2)' = Shared(v)
  <2>1. n + 2 # 1 /\ (n + 2) - 1 = n + 1 OBVIOUS
  <2> QED BY <2>1, <1>4 DEF Before
<1>7. Before(n + 1) = Shared(enc.tab) BY <1>0 DEF ReplayInv
<1>8. enc.tab \in Table BY StateTypes
<1>9. /\ Sound(Shared(v)) /\ Earlier(Shared(v), v) /\ Shared(v).lim = 0
      /\ Earlier(Shared(enc.tab), Shared(v))
  <2>1. /\ Shared(v).log = v.log /\ Shared(v).drop = v.drop
        /\ Shared(enc.tab).log = enc.tab.log /\ Shared(enc.tab).drop = enc.tab.drop
    BY <1>8, SharedFacts
  <2>2. Earlier(Shared(enc.tab), Shared(v)) BY <2>1 DEF Earlier
  <2> QED BY <2>2, SharedFacts
<1>10. ASSUME NEW k \in 1 .. n + 1
       PROVE  /\ Accepts(Before(k)', encStream'[k].instr)
              /\ encStream'[k].after = Apply(Before(k)', encStream'[k].instr)
              /\ Sound(encStream'[k].after) /\ encStream'[k].after.lim = 0
              /\ Earlier(Before(k)', encStream'[k].after)
              /\ Earlier(encStream'[k].after, enc'.tab)
  <2>1. CASE k \in 1 .. n
    <3>1. encStream[k] \in EncMessage BY <2>1, <1>0, <1>1, SeqElement
    <3>2. /\ Accepts(Before(k), encStream[k].instr)
          /\ encStream[k].after = Apply(Before(k), encStream[k].instr)
          /\ Sound(encStream[k].after) /\ encStream[k].after.lim = 0
          /\ Earlier(Before(k), encStream[k].after)
          /\ Earlier(encStream[k].after, enc.tab)
      BY <2>1, <1>0 DEF ReplayInv
    <3>3. encStream[k].after \in Table BY <3>1
    <3>4. Earlier(encStream[k].after, v) BY <3>2, <3>3, <1>8, EarlierTrans
    <3> QED BY <2>1, <3>2, <3>4, <1>4, <1>5
  <2>2. CASE k = n + 1
    <3>1. Before(k)' = Shared(enc.tab) BY <2>2, <1>5, <1>7
    <3>2. encStream'[k].instr = i /\ encStream'[k].after = Shared(v) BY <2>2, <1>4
    <3> QED BY <3>1, <3>2, <1>9
  <2> QED BY <2>1, <2>2
<1>11. Earlier(dec, v)
  <2>1. dec \in Table /\ Earlier(dec, enc.tab) BY DEF TypeOK, ReplayInv
  <2> QED BY <2>1, <1>8, EarlierTrans
<1>12. Before(Len(encStream) + 1)' = Shared(enc.tab')
  <2>1. Len(encStream') + 1 = n + 2 BY <1>4
  <2> QED BY <2>1, <1>6 DEF Before
<1> QED BY <1>4, <1>10, <1>11, <1>12 DEF ReplayInv

(* A step that changes the encoder's table as an instruction says, evicting *)
(* only what is known to be received and nothing that is referenced.       *)
LEMMA TableStep ==
  ASSUME IInv, NEW v \in Table, NEW i \in Instruction,
         Sound(v), Earlier(enc.tab, v), v.lim = enc.tab.lim,
         enc.tab.drop < enc.tab.lim => v.drop = enc.tab.drop,
         CurrentSize(v) <= v.cap, v.cap <= MaxCap, v.drop <= enc.krc,
         Accepts(Shared(enc.tab), i), Apply(Shared(enc.tab), i) = Shared(v),
         Instruct(i, v),
         enc' \in [tab : Table, max : {0, MaxCap}, blocked : {0, MaxBlocked}, krc : Nat,
                   unacked : [Streams -> Seq(Tracked)]],
         enc'.tab = v, enc'.krc = enc.krc, enc'.unacked = enc.unacked,
         enc'.max # 0, BlockedInv',
         hist' \in [all : [Streams -> Nat], sent : [Streams -> Nat],
                 decoded : [Streams -> Nat], released : SUBSET Streams,
                 incs : Nat, caps : Nat],
         hist'.sent = hist.sent, hist'.decoded = hist.decoded,
         hist'.released = hist.released, hist'.incs = hist.incs,
         UNCHANGED <<rcvd, reqs, dec, told, decStream, cancelled, err>>
  PROVE  IInv'
<1>1. TypeOK BY DEF IInv
<1>2. TypeOK'
  <2>1. [instr |-> i, after |-> Shared(v)] \in [instr : Instruction, after : Table]
    BY SharedFacts
  <2>2. encStream' \in Seq([instr : Instruction, after : Table])
    BY <2>1, <1>1 DEF TypeOK, Instruct
  <2> QED BY <2>2, <1>1 DEF TypeOK
<1>3. NoConnectionError' BY DEF IInv, NoConnectionError
<1>4. ReplayInv' BY <1>1, ReplayAppend DEF IInv
<1>5. EvictionInv'
  <2>1. enc.tab \in Table BY <1>1, StateTypes
  <2>2. Len(enc.tab.log) \in Nat /\ Len(v.log) \in Nat BY <2>1, TableFields
  <2>3. Len(enc.tab.log) <= Len(v.log) BY DEF Earlier
  <2>4. ASSUME NEW s \in Streams, NEW k \in 1 .. Len(enc.unacked[s])
        PROVE  enc.unacked[s][k].ric <= Len(v.log)
    <3>1. enc.unacked[s][k].ric <= Len(enc.tab.log) BY DEF IInv, EvictionInv, InsertCount
    <3>2. enc.unacked[s][k].ric \in Nat BY <1>1, TrackedTypes
    <3>3. PICK r \in Nat, a \in Nat, b \in Nat :
            r = enc.unacked[s][k].ric /\ a = Len(enc.tab.log) /\ b = Len(v.log)
      BY <3>2, <2>2
    <3>4. r <= a /\ a <= b BY <3>1, <3>3, <2>3
    <3>5. r <= b BY <3>4, NatTransitive
    <3> QED BY <3>5, <3>3
  <2> QED BY <2>4 DEF IInv, EvictionInv, InsertCount
<1>6. SectionInv' BY SectionGrow
<1>7. FlightInv' BY FlightFrame DEF IInv
<1>8. AckInv' BY AckFrame DEF IInv
<1>9. CancelInv' BY CancelFrame DEF IInv
<1>10. IncrementInv' BY IncrementFrame DEF IInv
<1> QED BY <1>2, <1>3, <1>4, <1>5, <1>6, <1>7, <1>8, <1>9, <1>10 DEF IInv
LEMMA Stutter ==
  ASSUME IInv, UNCHANGED vars
  PROVE  IInv'
<1> USE DEF vars
<1>1. TypeOK' BY DEF IInv, TypeOK
<1>2. NoConnectionError' BY DEF IInv, NoConnectionError
<1>3. ReplayInv' BY StateTypes, ReplayFrame DEF IInv
<1>4. EvictionInv' BY DEF IInv, EvictionInv
<1>5. SectionInv' BY SectionFrame DEF IInv
<1>6. FlightInv' BY FlightFrame DEF IInv
<1>7. AckInv' BY AckFrame DEF IInv
<1>8. CancelInv' BY CancelFrame DEF IInv
<1>9. IncrementInv' BY IncrementFrame DEF IInv
<1>10. BlockedInv' BY BlockedFrame DEF IInv
<1> QED BY <1>1, <1>2, <1>3, <1>4, <1>5, <1>6, <1>7, <1>8, <1>9, <1>10 DEF IInv

LEMMA InsertStep ==
  ASSUME IInv, AckedEvictionOnly, NEW h \in Headers, NEW i \in Instruction,
         i.op # "capacity", Names(Shared(enc.tab), i),
         Inserted(Shared(enc.tab), i) = h, EncInsertAs(h, i)
  PROVE  IInv'
<1> DEFINE v == Insert(enc.tab, h)
<1>1. TypeOK BY DEF IInv
<1>2. enc.tab \in Table /\ Sound(enc.tab) BY <1>1, StateTypes DEF IInv, ReplayInv
<1>3. /\ enc.max # 0 /\ v.drop <= enc.krc
      /\ enc' = [enc EXCEPT !.tab = v]
      /\ IF CanInsert(enc.tab, h) THEN Instruct(i, v) ELSE UNCHANGED encStream
      /\ UNCHANGED <<rcvd, reqs, dec, told, decStream, cancelled, err, hist>>
  BY DEF EncInsertAs
<1>4. CASE ~CanInsert(enc.tab, h)
  <2>1. v = enc.tab BY <1>2, <1>4, InsertRefused
  <2>2. enc' = enc BY <2>1, <1>1, <1>3 DEF TypeOK
  <2> QED BY <2>2, <1>3, <1>4, Stutter DEF vars
<1>5. CASE CanInsert(enc.tab, h)
  <2>1. /\ v \in Table /\ Sound(v) /\ Earlier(enc.tab, v)
        /\ v.cap = enc.tab.cap /\ v.lim = enc.tab.lim
        /\ CurrentSize(v) <= v.cap
        /\ enc.tab.drop < enc.tab.lim => v.drop = enc.tab.drop
        /\ CanInsert(Shared(enc.tab), h)
        /\ Insert(Shared(enc.tab), h) = Shared(v)
    BY <1>2, <1>5, InsertAccepted
  <2> HIDE DEF v
  <2>2. Accepts(Shared(enc.tab), i) BY <2>1 DEF Accepts
  <2>3. Apply(Shared(enc.tab), i) = Shared(v) BY <2>1 DEF Apply
  <2>4. /\ enc' \in [tab : Table, max : {0, MaxCap}, blocked : {0, MaxBlocked}, krc : Nat,
                     unacked : [Streams -> Seq(Tracked)]]
        /\ enc'.tab = v /\ enc'.krc = enc.krc /\ enc'.unacked = enc.unacked
        /\ enc'.max = enc.max /\ enc'.blocked = enc.blocked
    BY <1>1, <1>3, <2>1 DEF TypeOK
  <2>5. BlockedInv' BY <2>4, BlockedFrame DEF IInv
  <2>6. v.cap <= MaxCap BY <2>1 DEF IInv, EvictionInv
  <2>7. hist' \in [all : [Streams -> Nat], sent : [Streams -> Nat],
                   decoded : [Streams -> Nat], released : SUBSET Streams,
                   incs : Nat, caps : Nat]
    BY <1>1, <1>3 DEF TypeOK
  <2>8. Instruct(i, v) BY <1>3, <1>5
  <2> QED BY <1>3, <2>1, <2>2, <2>3, <2>4, <2>5, <2>6, <2>7, <2>8, TableStep
<1> QED BY <1>4, <1>5

LEMMA EncInsertInv ==
  ASSUME IInv, AckedEvictionOnly, NEW h \in Headers, EncInsert(h)
  PROVE  IInv'
<1>1. InsertInstr(h) \in Instruction /\ InsertInstr(h).op = "insert"
      /\ InsertInstr(h).hdr = h
  BY DEF InsertInstr, Instruction
<1>2. Names(Shared(enc.tab), InsertInstr(h)) BY <1>1 DEF Names
<1>3. Inserted(Shared(enc.tab), InsertInstr(h)) = h BY <1>1 DEF Inserted
<1> QED BY <1>1, <1>2, <1>3, InsertStep DEF EncInsert

(* Both ends resolve a relative index to the same entry.                   *)
LEMMA RelativeShared ==
  ASSUME NEW t \in Table, Sound(t), NEW rel \in Nat, HasRelative(t, rel)
  PROVE  /\ HasRelative(Shared(t), rel)
         /\ RelativeEntry(Shared(t), rel) = RelativeEntry(t, rel)
         /\ RelativeEntry(t, rel) \in Headers
<1>1. /\ t.drop \in Nat /\ Len(t.log) \in Nat
      /\ \A i \in 1 .. Len(t.log) : t.log[i].hdr \in Headers
  BY TableFields
<1>2. Shared(t).log = t.log /\ Shared(t).drop = t.drop BY SharedFacts
<1>3. rel < Len(t.log) - t.drop BY DEF HasRelative, InsertCount
<1>4. (Len(t.log) - 1 - rel) + 1 \in 1 .. Len(t.log) BY SMTT(30), <1>1, <1>3
<1> QED BY <1>1, <1>2, <1>4 DEF HasRelative, RelativeEntry, Entry, InsertCount

LEMMA EncInsertNameRefInv ==
  ASSUME IInv, AckedEvictionOnly, NEW rel \in Nat, NEW h \in Headers,
         EncInsertNameRef(rel, h)
  PROVE  IInv'
<1> DEFINE i == NameRefInstr(rel, h.value)
<1>1. i \in Instruction /\ i.op = "nameref" /\ i.rel = rel /\ i.value = h.value
  BY DEF NameRefInstr, Instruction, Values
<1>2. HasRelative(enc.tab, rel) /\ RelativeEntry(enc.tab, rel).name = h.name
  BY DEF EncInsertNameRef
<1>3. enc.tab \in Table /\ Sound(enc.tab) BY StateTypes DEF IInv, ReplayInv
<1>4. HasRelative(Shared(enc.tab), rel)
      /\ RelativeEntry(Shared(enc.tab), rel) = RelativeEntry(enc.tab, rel)
  BY <1>2, <1>3, RelativeShared
<1> HIDE DEF i
<1>5. Names(Shared(enc.tab), i) BY <1>1, <1>4 DEF Names
<1>6. Inserted(Shared(enc.tab), i) = [name |-> h.name, value |-> h.value]
  BY <1>1, <1>2, <1>4 DEF Inserted
<1>7. h = [name |-> h.name, value |-> h.value] BY EntrySizeAssumption
<1>8. EncInsertAs(h, i) BY DEF EncInsertNameRef, i
<1>9. Inserted(Shared(enc.tab), i) = h BY <1>6, <1>7
<1>10. i.op # "capacity" BY <1>1
<1> QED BY <1>1, <1>5, <1>8, <1>9, <1>10, InsertStep

LEMMA EncDuplicateInv ==
  ASSUME IInv, AckedEvictionOnly, NEW rel \in Nat, EncDuplicate(rel)
  PROVE  IInv'
<1> DEFINE i == DupInstr(rel)
           h == RelativeEntry(enc.tab, rel)
<1>1. i \in Instruction /\ i.op = "duplicate" /\ i.rel = rel
  BY DEF DupInstr, Instruction
<1>2. HasRelative(enc.tab, rel) /\ EncInsertAs(h, i) BY DEF EncDuplicate
<1>3. enc.tab \in Table /\ Sound(enc.tab) BY StateTypes DEF IInv, ReplayInv
<1>4. /\ HasRelative(Shared(enc.tab), rel) /\ h \in Headers
      /\ RelativeEntry(Shared(enc.tab), rel) = h
  BY <1>2, <1>3, RelativeShared
<1> HIDE DEF i, h
<1>5. Names(Shared(enc.tab), i) BY <1>1, <1>4 DEF Names
<1>6. Inserted(Shared(enc.tab), i) = h BY <1>1, <1>4 DEF Inserted
<1>7. i.op # "capacity" BY <1>1
<1> QED BY <1>1, <1>2, <1>4, <1>5, <1>6, <1>7, InsertStep

LEMMA EncSetCapacityInv ==
  ASSUME IInv, FittingCapacityOnly, NEW c \in Capacities, EncSetCapacity(c)
  PROVE  IInv'
<1> DEFINE v == SetCapacity(enc.tab, c)
           i == CapInstr(c)
<1>1. TypeOK /\ c \in Nat BY SyncAssumption DEF IInv
<1>2. enc.tab \in Table /\ Sound(enc.tab) BY <1>1, StateTypes DEF IInv, ReplayInv
<1>3. /\ enc.max # 0 /\ c <= enc.max /\ CurrentSize(v) <= c /\ v.drop <= enc.krc
      /\ enc' = [enc EXCEPT !.tab = v]
      /\ Instruct(i, v)
      /\ hist' = [hist EXCEPT !.caps = @ + 1]
      /\ UNCHANGED <<rcvd, reqs, dec, told, decStream, cancelled, err>>
  BY DEF EncSetCapacity
<1>4. /\ v \in Table /\ Sound(v) /\ Earlier(enc.tab, v)
      /\ v.cap = c /\ v.lim = enc.tab.lim
      /\ enc.tab.drop < enc.tab.lim => v.drop = enc.tab.drop
      /\ SetCapacity(Shared(enc.tab), c) = Shared(v)
  BY <1>1, <1>2, <1>3, SetCapacityShared
<1> HIDE DEF v
<1>5. i \in Instruction /\ i.op = "capacity" /\ i.cap = c
  BY <1>1 DEF CapInstr, Instruction
<1> HIDE DEF i
<1>6. c <= MaxCap BY <1>1, <1>3, StateTypes
<1>7. Accepts(Shared(enc.tab), i) BY <1>5, <1>6 DEF Accepts
<1>8. Apply(Shared(enc.tab), i) = Shared(v) BY <1>4, <1>5 DEF Apply
<1>9. /\ enc' \in [tab : Table, max : {0, MaxCap}, blocked : {0, MaxBlocked}, krc : Nat,
                   unacked : [Streams -> Seq(Tracked)]]
      /\ enc'.tab = v /\ enc'.krc = enc.krc /\ enc'.unacked = enc.unacked
      /\ enc'.max = enc.max /\ enc'.blocked = enc.blocked
  BY <1>1, <1>3, <1>4 DEF TypeOK
<1>10. BlockedInv' BY <1>9, BlockedFrame DEF IInv
<1>11. /\ hist' \in [all : [Streams -> Nat], sent : [Streams -> Nat],
                     decoded : [Streams -> Nat], released : SUBSET Streams,
                     incs : Nat, caps : Nat]
       /\ hist'.sent = hist.sent /\ hist'.decoded = hist.decoded
       /\ hist'.released = hist.released /\ hist'.incs = hist.incs
  <2>1. hist.caps \in Nat BY <1>1, StateTypes
  <2>2. hist.caps + 1 \in Nat BY <2>1
  <2> QED BY <2>2, <1>1, <1>3 DEF TypeOK
<1> QED BY <1>3, <1>4, <1>5, <1>6, <1>7, <1>8, <1>9, <1>10, <1>11, TableStep

LEMMA RecvSettingsInv ==
  ASSUME IInv, RecvSettings
  PROVE  IInv'
<1> DEFINE use == Smaller(MaxCap, LocalCap)
           v == SetCapacity(enc.tab, use)
           i == CapInstr(use)
<1>1. TypeOK /\ use \in Nat /\ use <= MaxCap /\ MaxCap \in Nat /\ MaxBlocked \in Nat
  BY SyncAssumption DEF IInv, Smaller
<1>2. enc.tab \in Table /\ Sound(enc.tab) BY <1>1, StateTypes DEF IInv, ReplayInv
<1>3. /\ enc.max = 0 /\ enc.blocked = 0
      /\ enc' = [enc EXCEPT !.max = MaxCap, !.blocked = MaxBlocked, !.tab = v]
      /\ IF use > 0 THEN Instruct(i, v) ELSE UNCHANGED encStream
      /\ UNCHANGED <<rcvd, reqs, dec, told, decStream, cancelled, err, hist>>
  BY DEF RecvSettings
<1> HIDE DEF use
<1>4. enc.tab.cap = 0 /\ enc.tab.log = <<>> /\ Len(enc.tab.log) = 0 /\ enc.tab.drop = 0
  <2>1. enc.tab.cap = 0 /\ enc.tab.log = <<>> BY <1>3 DEF IInv, EvictionInv
  <2>2. enc.tab.drop \in Nat /\ enc.tab.drop <= Len(enc.tab.log)
    BY <1>2, TableFields DEF Sound
  <2>3. Len(enc.tab.log) = 0 BY <2>1
  <2> QED BY <2>1, <2>2, <2>3
<1>5. v.log = enc.tab.log /\ v.drop = 0 /\ v.bytes = enc.tab.bytes /\ v.cap = use
      /\ v.lim = enc.tab.lim /\ v \in Table
  <2> DEFINE w == [enc.tab EXCEPT !.cap = use]
  <2>1. w \in Table /\ w.log = enc.tab.log /\ w.drop = 0 /\ w.lim = enc.tab.lim
        /\ w.cap = use /\ w.bytes = enc.tab.bytes
    BY <1>1, <1>2, <1>4 DEF Table
  <2>2. Sound(w) BY <2>1, <1>2, <1>4 DEF Sound
  <2>3. v = EvictToFit(w, 0) BY DEF SetCapacity
  <2> HIDE DEF w, v
  <2>4. /\ v \in Table /\ v.log = w.log /\ v.cap = w.cap /\ v.lim = w.lim
        /\ v.bytes = w.bytes /\ v.drop \in w.drop .. Len(w.log)
    <3>1. w \in Table /\ 0 \in Nat BY <2>1
    <3> QED BY <3>1, <2>2, <2>3, EvictBasics
  <2> QED BY <2>1, <2>4, <1>4
<1>6. CurrentSize(v) = 0 BY <1>4, <1>5 DEF CurrentSize, SizeFrom, InsertCount
<1>7. /\ v \in Table /\ Sound(v) /\ Earlier(enc.tab, v)
      /\ v.cap = use /\ v.lim = enc.tab.lim
      /\ SetCapacity(Shared(enc.tab), use) = Shared(v)
  BY <1>1, <1>2, <1>6, SetCapacityShared
<1>8. /\ enc' \in [tab : Table, max : {0, MaxCap}, blocked : {0, MaxBlocked}, krc : Nat,
                   unacked : [Streams -> Seq(Tracked)]]
      /\ enc'.tab = v /\ enc'.krc = enc.krc /\ enc'.unacked = enc.unacked
      /\ enc'.max = MaxCap /\ enc'.blocked = MaxBlocked
  BY <1>1, <1>3, <1>5 DEF TypeOK
<1>9. BlockedInv'
  <2>1. BlockedStreamsCount' = BlockedStreamsCount BY <1>8 DEF BlockedStreamsCount
  <2>2. BlockedStreamsCount <= 0 BY <1>3 DEF IInv, BlockedInv
  <2>3. BlockedStreamsCount \in Nat
    <3>1. IsFiniteSet({s \in Streams : enc.unacked[s] # <<>>})
      BY SyncAssumption, FS_Subset
    <3> QED BY <3>1, FS_CardinalityType DEF BlockedStreamsCount
  <2> QED BY <2>1, <2>2, <2>3, <1>1, <1>8 DEF BlockedInv
<1> HIDE DEF v
<1>10. CASE use > 0
  <2>1. i \in Instruction /\ i.op = "capacity" /\ i.cap = use
    BY <1>1 DEF CapInstr, Instruction
  <2> HIDE DEF i
  <2>2. Accepts(Shared(enc.tab), i) BY <2>1, <1>1 DEF Accepts
  <2>3. Apply(Shared(enc.tab), i) = Shared(v) BY <1>7, <2>1 DEF Apply
  <2>4. Instruct(i, v) BY <1>3, <1>10
  <2>5. enc'.max # 0 BY <1>1, <1>8, <1>10
  <2>6. CurrentSize(v) <= v.cap /\ v.cap <= MaxCap BY <1>1, <1>5, <1>6
  <2>7. v.drop <= enc.krc /\ enc.tab.drop = v.drop BY <1>1, <1>4, <1>5, StateTypes
  <2>8. hist' \in [all : [Streams -> Nat], sent : [Streams -> Nat],
                   decoded : [Streams -> Nat], released : SUBSET Streams,
                   incs : Nat, caps : Nat]
    BY <1>1, <1>3 DEF TypeOK
  <2> QED BY <1>3, <1>7, <1>8, <1>9, <2>1, <2>2, <2>3, <2>4, <2>5, <2>6, <2>7, <2>8, TableStep
<1>11. CASE ~(use > 0)
  <2>1. use = 0 BY <1>1, <1>11
  <2>2. UNCHANGED encStream BY <1>3, <1>11
  <2>3. TypeOK' BY <1>1, <1>3, <1>8, <2>2 DEF TypeOK
  <2>4. NoConnectionError' BY <1>3 DEF IInv, NoConnectionError
  <2>5. ReplayInv' BY <1>1, <1>3, <1>4, <1>5, <1>8, <2>1, <2>2, ReplayFrame DEF IInv
  <2>6. EvictionInv'
    <3>1. CurrentSize(v) <= v.cap /\ v.cap <= MaxCap BY <1>1, <1>5, <1>6
    <3>2. v.drop <= enc.krc BY <1>1, <1>5, StateTypes
    <3> QED BY <1>3, <1>4, <1>5, <1>8, <2>1, <3>1, <3>2 DEF IInv, EvictionInv, InsertCount
  <2>7. SectionInv' BY <1>3, <1>4, <1>5, <1>8, SectionFrame DEF IInv
  <2>8. FlightInv' BY <1>3, <1>8, FlightFrame DEF IInv
  <2>9. AckInv' BY <1>3, <1>8, AckFrame DEF IInv
  <2>10. CancelInv' BY <1>3, CancelFrame DEF IInv
  <2>11. IncrementInv' BY <1>3, IncrementFrame DEF IInv
  <2> QED BY <1>9, <2>3, <2>4, <2>5, <2>6, <2>7, <2>8, <2>9, <2>10, <2>11 DEF IInv
<1> QED BY <1>10, <1>11
-----------------------------------------------------------------------------
(* Sequences.                                                              *)

LEMMA AppendFacts ==
  ASSUME NEW S, NEW q \in Seq(S), NEW x \in S
  PROVE  /\ Append(q, x) \in Seq(S) /\ Len(Append(q, x)) = Len(q) + 1
         /\ Append(q, x)[Len(q) + 1] = x
         /\ \A k \in 1 .. Len(q) : Append(q, x)[k] = q[k]
OBVIOUS

LEMMA TailFacts ==
  ASSUME NEW S, NEW q \in Seq(S), q # <<>>
  PROVE  /\ Tail(q) \in Seq(S) /\ Len(q) \in Nat \ {0} /\ Len(Tail(q)) = Len(q) - 1
         /\ Head(q) = q[1] /\ q[1] \in S
         /\ \A k \in 1 .. Len(q) - 1 : Tail(q)[k] = q[k + 1]
OBVIOUS

-----------------------------------------------------------------------------
(* Steps of the decoder.                                                   *)

LEMMA DecInstructionInv ==
  ASSUME IInv, DecInstruction
  PROVE  IInv'
<1> DEFINE EncMessage == [instr : Instruction, after : Table]
           i == encStream[1].instr
<1>1. TypeOK /\ encStream # <<>> /\ encStream \in Seq(EncMessage)
  BY DEF IInv, DecInstruction, TypeOK
<1>2. PICK n \in Nat \ {0} : n = Len(encStream) BY <1>1, TailFacts
<1> HIDE DEF EncMessage
<1>3. /\ Tail(encStream) \in Seq(EncMessage) /\ Len(Tail(encStream)) = n - 1
      /\ Head(encStream) = encStream[1] /\ encStream[1] \in EncMessage
      /\ \A k \in 1 .. n - 1 : Tail(encStream)[k] = encStream[k + 1]
  BY <1>1, <1>2, TailFacts
<1>4. ASSUME NEW k \in 1 .. n
      PROVE  /\ Accepts(Before(k), encStream[k].instr)
             /\ encStream[k].after = Apply(Before(k), encStream[k].instr)
             /\ Sound(encStream[k].after) /\ encStream[k].after.lim = 0
             /\ Earlier(Before(k), encStream[k].after)
             /\ Earlier(encStream[k].after, enc.tab)
  BY <1>2 DEF IInv, ReplayInv
<1>5. Before(1) = dec BY DEF Before
<1>6. 1 \in 1 .. n OBVIOUS
<1>7. /\ encStream' = Tail(encStream) /\ dec' = encStream[1].after
      /\ UNCHANGED <<enc, rcvd, reqs, told, decStream, cancelled, err, hist>>
  BY <1>3, <1>4, <1>5, <1>6 DEF DecInstruction
<1>8. dec' \in Table BY <1>3, <1>7 DEF EncMessage
<1>9. Len(dec.log) <= Len(dec'.log) /\ Len(dec.log) \in Nat /\ Len(dec'.log) \in Nat
  <2>1. Earlier(dec, dec') BY <1>4, <1>5, <1>6, <1>7
  <2> QED BY <2>1, <1>1, <1>8, TableFields DEF Earlier, TypeOK
<1>10. TypeOK' BY <1>1, <1>3, <1>7, <1>8 DEF TypeOK, EncMessage
<1>11. NoConnectionError' BY <1>7 DEF IInv, NoConnectionError
<1>12. ReplayInv'
  <2>1. \A k \in 1 .. n : Before(k)' = Before(k + 1)
    <3> TAKE k \in 1 .. n
    <3>1. CASE k = 1
      <4>1. Before(2) = encStream[1].after BY DEF Before
      <4> QED BY <3>1, <4>1, <1>7 DEF Before
    <3>2. CASE k # 1
      <4>1. k - 1 \in 1 .. n - 1 /\ (k - 1) + 1 = k /\ (k + 1) - 1 = k /\ k + 1 # 1 BY <3>2
      <4>2. Tail(encStream)[k - 1] = encStream[k] BY <4>1, <1>3
      <4> QED BY <3>2, <4>1, <4>2, <1>7 DEF Before
    <3> QED BY <3>1, <3>2
  <2>2. ASSUME NEW k \in 1 .. n - 1
        PROVE  /\ Accepts(Before(k)', encStream'[k].instr)
               /\ encStream'[k].after = Apply(Before(k)', encStream'[k].instr)
               /\ Sound(encStream'[k].after) /\ encStream'[k].after.lim = 0
               /\ Earlier(Before(k)', encStream'[k].after)
               /\ Earlier(encStream'[k].after, enc.tab)
    <3>1. k \in 1 .. n /\ k + 1 \in 1 .. n OBVIOUS
    <3>2. encStream'[k] = encStream[k + 1] BY <1>3, <1>7
    <3> QED BY <3>1, <3>2, <2>1, <1>4
  <2>3. Before(Len(encStream) + 1)' = Shared(enc.tab)
    <3>1. Len(encStream') + 1 = n BY <1>3, <1>7
    <3>2. n \in 1 .. n OBVIOUS
    <3>3. Before(n)' = Before(n + 1) BY <2>1, <3>2
    <3>4. Before(n + 1) = Shared(enc.tab) BY <1>2 DEF IInv, ReplayInv
    <3> QED BY <3>1, <3>3, <3>4 DEF Before
  <2>4. Sound(dec') /\ Earlier(dec', enc.tab) /\ dec'.lim = 0 BY <1>4, <1>6, <1>7
  <2>5. Sound(enc.tab) BY DEF IInv, ReplayInv
  <2>6. Len(encStream') = n - 1 BY <1>3, <1>7
  <2> QED BY <2>2, <2>3, <2>4, <2>5, <2>6, <1>7 DEF ReplayInv
<1>13. EvictionInv'
  <2>1. enc.krc \in Nat BY <1>1, StateTypes
  <2> QED BY <2>1, <1>7, <1>9 DEF IInv, EvictionInv, InsertCount
<1>14. SectionInv' BY <1>7, SectionFrame DEF IInv
<1>15. FlightInv' BY <1>7, FlightFrame DEF IInv
<1>16. AckInv'
  <2>1. \A k \in 1 .. Len(decStream) : decStream[k].op = "ack" => decStream[k].ric \in Nat
    <3> TAKE k \in 1 .. Len(decStream)
    <3>1. decStream[k] \in DecMessage BY <1>1, SeqElement DEF TypeOK
    <3> QED BY <3>1 DEF DecMessage
  <2>2. ASSUME NEW s \in Streams, NEW k \in 1 .. Len(decStream), IsAck(k, s)
        PROVE  decStream[k].ric <= Len(dec'.log)
    <3>1. decStream[k].ric <= Len(dec.log) BY <2>2 DEF IInv, AckInv, InsertCount
    <3>2. decStream[k].ric \in Nat BY <2>1, <2>2 DEF IsAck
    <3> QED BY <3>1, <3>2, <1>9
  <2> QED BY <2>2, <1>7 DEF IInv, AckInv, Tracks, Acked, IsAck, InsertCount
<1>17. CancelInv' BY <1>7, CancelFrame DEF IInv
<1>18. IncrementInv'
  <2>1. told \in Nat BY <1>1 DEF TypeOK
  <2> QED BY <2>1, <1>7, <1>9 DEF IInv, IncrementInv, InsertCount
<1>19. BlockedInv' BY <1>7, BlockedFrame DEF IInv
<1> QED BY <1>10, <1>11, <1>12, <1>13, <1>14, <1>15, <1>16, <1>17, <1>18, <1>19 DEF IInv

LEMMA DecCancelInv ==
  ASSUME IInv, NEW s \in Streams, DecCancel(s)
  PROVE  IInv'
<1> DEFINE m == [op |-> "cancel", stream |-> s]
<1>1. TypeOK BY DEF IInv
<1>2. /\ s \notin cancelled /\ cancelled' = cancelled \cup {s}
      /\ reqs' = [reqs EXCEPT ![s] = <<>>] /\ decStream' = Append(decStream, m)
      /\ UNCHANGED <<enc, rcvd, encStream, dec, told, err, hist>>
  BY DEF DecCancel
<1>3. m \in DecMessage BY DEF DecMessage
<1>4. m.op = "cancel" /\ m.stream = s OBVIOUS
<1> HIDE DEF m
<1>5. PICK n \in Nat : n = Len(decStream) BY <1>1 DEF TypeOK
<1>6. /\ decStream' \in Seq(DecMessage) /\ Len(decStream') = n + 1
      /\ decStream'[n + 1] = m /\ \A k \in 1 .. n : decStream'[k] = decStream[k]
  BY <1>1, <1>2, <1>3, <1>5, AppendFacts DEF TypeOK
<1>7. reqs' \in [Streams -> Seq(Section)] BY <1>1, <1>2 DEF TypeOK
<1>8. reqs'[s] = <<>> /\ Len(reqs'[s]) = 0
      /\ \A t \in Streams : t # s => reqs'[t] = reqs[t]
  BY <1>1, <1>2 DEF TypeOK
<1>9. TypeOK' BY <1>1, <1>2, <1>6, <1>7 DEF TypeOK
<1>10. NoConnectionError' BY <1>2 DEF IInv, NoConnectionError
<1>11. ReplayInv' BY <1>1, <1>2, StateTypes, ReplayFrame DEF IInv
<1>12. EvictionInv' BY <1>2 DEF IInv, EvictionInv
<1>13. SectionInv'
  <2>1. ASSUME NEW t \in Streams, NEW i \in 1 .. Len(reqs'[t])
        PROVE  t # s /\ reqs'[t] = reqs[t] /\ i \in 1 .. Len(reqs[t])
    BY <1>8
  <2>2. \A line, ric, h : LineOK(line, ric, h)' = LineOK(line, ric, h) BY <1>2 DEF LineOK
  <2> QED BY <2>1, <2>2, <1>2 DEF IInv, SectionInv
<1>14. FlightInv'
  <2> SUFFICES ASSUME NEW t \in Streams PROVE FlightInv!(t)'
    BY DEF FlightInv
  <2>1. FlightInv!(t) BY DEF IInv, FlightInv
  <2>2. \A i, r : Tracks(t, i, r)' <=> Tracks(t, i, r) BY <1>2 DEF Tracks, Acked
  <2>3. hist' = hist /\ enc' = enc BY <1>2
  <2>4. CASE t = s
    <3>1. reqs'[t] = <<>> /\ Len(reqs'[t]) = 0 /\ t \in cancelled' BY <1>2, <1>8, <2>4
    <3> QED BY <3>1, <2>1, <2>3
  <2>5. CASE t # s
    <3>1. reqs'[t] = reqs[t] /\ (t \in cancelled' <=> t \in cancelled) BY <1>2, <1>8, <2>5
    <3> QED BY <3>1, <2>1, <2>2, <2>3
  <2> QED BY <2>4, <2>5
<1>20. ASSUME NEW k \in 1 .. n + 1, NEW t \in Streams
       PROVE  /\ IsAck(k, t)' => k \in 1 .. n /\ IsAck(k, t) /\ decStream'[k] = decStream[k]
              /\ k \in 1 .. n => IsAck(k, t)' = IsAck(k, t) /\ IsCancel(k, t)' = IsCancel(k, t)
              /\ k = n + 1 => (IsCancel(k, t)' <=> t = s)
              /\ IsCancel(k, t)' => k = n + 1 \/ (k \in 1 .. n /\ IsCancel(k, t))
  BY <1>4, <1>6 DEF IsAck, IsCancel
<1>15. AckInv'
  <2>1. \A t : Acked(t)' = Acked(t) BY <1>2 DEF Acked
  <2>2. \A t, no, ric : Tracks(t, no, ric)' = Tracks(t, no, ric) BY <1>2 DEF Tracks, Acked
  <2>3. ASSUME NEW t \in Streams PROVE AckInv!(t)'
    <3>1. ASSUME NEW k \in 1 .. n + 1, IsAck(k, t)'
          PROVE  /\ t \notin hist.released
                 /\ decStream'[k].no \in Acked(t) + 1 .. hist.decoded[t]
                 /\ Tracks(t, decStream'[k].no, decStream'[k].ric)
                 /\ decStream'[k].ric <= InsertCount(dec)
      BY <1>5, <1>20, <3>1 DEF IInv, AckInv
    <3>2. ASSUME NEW k \in 1 .. n + 1, NEW l \in 1 .. n + 1, k < l, IsAck(k, t)', IsAck(l, t)'
          PROVE  decStream'[k].no < decStream'[l].no
      BY <1>5, <1>20, <3>2 DEF IInv, AckInv
    <3>3. ASSUME t \notin hist.released, NEW x \in Acked(t) + 1 .. hist.decoded[t]
          PROVE  \E k \in 1 .. n + 1 : IsAck(k, t)' /\ decStream'[k].no = x
      <4>1. PICK k \in 1 .. n : IsAck(k, t) /\ decStream[k].no = x
        BY <1>5, <3>3 DEF IInv, AckInv
      <4> QED BY <4>1, <1>6, <1>20
    <3> QED BY <1>2, <1>6, <2>1, <2>2, <3>1, <3>2, <3>3
  <2> QED BY <2>3 DEF AckInv
<1>16. CancelInv'
  <2>1. ASSUME NEW t \in Streams, NEW k \in 1 .. n + 1, IsCancel(k, t)'
        PROVE  /\ t \in cancelled' \ hist.released
               /\ \A j \in k + 1 .. n + 1 : ~IsAck(j, t)' /\ ~IsCancel(j, t)'
    <3>1. CASE k = n + 1
      BY <3>1, <2>1, <1>2, <1>20 DEF IInv, CancelInv
    <3>2. CASE k \in 1 .. n
      <4>1. IsCancel(k, t) BY <3>2, <2>1, <1>20
      <4>2. /\ t \in cancelled \ hist.released
            /\ \A j \in k + 1 .. n : ~IsAck(j, t) /\ ~IsCancel(j, t)
        BY <3>2, <4>1, <1>5 DEF IInv, CancelInv
      <4>3. t # s BY <4>2, <1>2
      <4>4. ASSUME NEW j \in k + 1 .. n + 1 PROVE ~IsAck(j, t)' /\ ~IsCancel(j, t)'
        <5>1. j \in 1 .. n + 1 BY <3>2
        <5> QED BY <5>1, <4>2, <4>3, <3>2, <1>20
      <4> QED BY <4>2, <4>4, <1>2
    <3> QED BY <3>1, <3>2
  <2> QED BY <2>1, <1>2, <1>6 DEF IInv, CancelInv
<1>17. IncrementInv'
  <2>1. ASSUME NEW k \in 1 .. n + 1, decStream'[k].op = "increment"
        PROVE  k \in 1 .. n /\ decStream'[k] = decStream[k]
    BY <2>1, <1>4, <1>6
  <2> QED BY SMTT(30), <2>1, <1>2, <1>5, <1>6 DEF IInv, IncrementInv
<1>18. BlockedInv' BY <1>2, BlockedFrame DEF IInv
<1> QED BY <1>9, <1>10, <1>11, <1>12, <1>13, <1>14, <1>15, <1>16, <1>17, <1>18 DEF IInv

LEMMA DecIncrementInv ==
  ASSUME IInv, DecIncrement
  PROVE  IInv'
<1> DEFINE D == Len(dec.log)
           c == D - told
           m == [op |-> "increment", n |-> c, sum |-> hist.incs + c]
<1>1. TypeOK BY DEF IInv
<1>2. /\ c > 0 /\ told' = D /\ hist' = [hist EXCEPT !.incs = @ + c]
      /\ decStream' = Append(decStream, m)
      /\ UNCHANGED <<enc, rcvd, encStream, reqs, dec, cancelled, err>>
  BY DEF DecIncrement, InsertCount
<1>3. D \in Nat /\ told \in Nat /\ hist.incs \in Nat /\ rcvd \in Nat
  BY <1>1, StateTypes, TableFields DEF TypeOK
<1>4. c \in Nat \ {0} /\ hist.incs + c \in Nat BY <1>2, <1>3
<1>5. m \in DecMessage BY <1>4 DEF DecMessage
<1>6. m.op = "increment" /\ m.n = c /\ m.sum = hist.incs + c OBVIOUS
<1>7. told' = told + c BY <1>2, <1>3
<1> HIDE DEF m
<1>8. PICK n \in Nat : n = Len(decStream) BY <1>1 DEF TypeOK
<1>9. /\ decStream' \in Seq(DecMessage) /\ Len(decStream') = n + 1
      /\ decStream'[n + 1] = m /\ \A k \in 1 .. n : decStream'[k] = decStream[k]
  BY <1>1, <1>2, <1>5, <1>8, AppendFacts DEF TypeOK
<1> HIDE DEF c
<1>10. /\ hist' \in [all : [Streams -> Nat], sent : [Streams -> Nat],
                     decoded : [Streams -> Nat], released : SUBSET Streams,
                     incs : Nat, caps : Nat]
       /\ hist'.sent = hist.sent /\ hist'.decoded = hist.decoded
       /\ hist'.released = hist.released /\ hist'.incs = hist.incs + c
  BY <1>1, <1>2, <1>4 DEF TypeOK
<1>11. TypeOK' BY <1>1, <1>2, <1>3, <1>9, <1>10 DEF TypeOK
<1>12. NoConnectionError' BY <1>2 DEF IInv, NoConnectionError
<1>13. ReplayInv' BY <1>1, <1>2, StateTypes, ReplayFrame DEF IInv
<1>14. EvictionInv' BY <1>2 DEF IInv, EvictionInv
<1>15. SectionInv' BY <1>2, SectionFrame DEF IInv
<1>16. FlightInv' BY <1>2, <1>10, FlightFrame DEF IInv
<1>17. ASSUME NEW k \in 1 .. n + 1, NEW t \in Streams
       PROVE  /\ IsAck(k, t)' <=> k \in 1 .. n /\ IsAck(k, t)
              /\ IsCancel(k, t)' <=> k \in 1 .. n /\ IsCancel(k, t)
  BY <1>6, <1>9 DEF IsAck, IsCancel
<1>18. AckInv'
  <2>1. \A t : Acked(t)' = Acked(t) BY <1>2, <1>10 DEF Acked
  <2>2. \A t, no, ric : Tracks(t, no, ric)' = Tracks(t, no, ric)
    BY <1>2, <1>10 DEF Tracks, Acked
  <2>3. ASSUME NEW t \in Streams PROVE AckInv!(t)'
    <3>1. ASSUME NEW k \in 1 .. n + 1, IsAck(k, t)'
          PROVE  /\ t \notin hist.released
                 /\ decStream'[k].no \in Acked(t) + 1 .. hist.decoded[t]
                 /\ Tracks(t, decStream'[k].no, decStream'[k].ric)
                 /\ decStream'[k].ric <= InsertCount(dec)
      BY <1>8, <1>9, <1>17, <3>1 DEF IInv, AckInv
    <3>2. ASSUME NEW k \in 1 .. n + 1, NEW l \in 1 .. n + 1, k < l, IsAck(k, t)', IsAck(l, t)'
          PROVE  decStream'[k].no < decStream'[l].no
      BY <1>8, <1>9, <1>17, <3>2 DEF IInv, AckInv
    <3>3. ASSUME t \notin hist.released, NEW x \in Acked(t) + 1 .. hist.decoded[t]
          PROVE  \E k \in 1 .. n + 1 : IsAck(k, t)' /\ decStream'[k].no = x
      <4>1. PICK k \in 1 .. n : IsAck(k, t) /\ decStream[k].no = x
        BY <1>8, <3>3 DEF IInv, AckInv
      <4> QED BY <4>1, <1>9, <1>17
    <3> QED BY <1>2, <1>9, <1>10, <2>1, <2>2, <3>1, <3>2, <3>3
  <2> QED BY <2>3 DEF AckInv
<1>19. CancelInv'
  <2>1. ASSUME NEW t \in Streams, NEW k \in 1 .. n + 1, IsCancel(k, t)'
        PROVE  /\ t \in cancelled \ hist.released
               /\ \A j \in k + 1 .. n + 1 : ~IsAck(j, t)' /\ ~IsCancel(j, t)'
    <3>1. k \in 1 .. n /\ IsCancel(k, t) BY <2>1, <1>17
    <3>2. /\ t \in cancelled \ hist.released
          /\ \A j \in k + 1 .. n : ~IsAck(j, t) /\ ~IsCancel(j, t)
      BY <3>1, <1>8 DEF IInv, CancelInv
    <3>3. ASSUME NEW j \in k + 1 .. n + 1 PROVE ~IsAck(j, t)' /\ ~IsCancel(j, t)'
      <4>1. j \in 1 .. n + 1 BY <3>1
      <4> QED BY <4>1, <3>1, <3>2, <1>17
    <3> QED BY <3>2, <3>3
  <2> QED BY <2>1, <1>2, <1>9, <1>10 DEF IInv, CancelInv
<1>20. IncrementInv'
  <2>1. rcvd <= hist.incs /\ hist.incs <= told BY DEF IInv, IncrementInv
  <2>2. ASSUME NEW k \in 1 .. n, decStream[k].op = "increment"
        PROVE  /\ decStream[k].n \in Nat /\ decStream[k].sum \in Nat
               /\ rcvd + decStream[k].n <= decStream[k].sum
               /\ decStream[k].sum <= hist.incs
    <3>1. decStream[k] \in DecMessage BY <1>1, <1>8, SeqElement DEF TypeOK
    <3>2. decStream[k].n \in Nat /\ decStream[k].sum \in Nat BY <3>1, <2>2 DEF DecMessage
    <3> QED BY <3>2, <2>2, <1>8 DEF IInv, IncrementInv
  <2>3. ASSUME NEW k \in 1 .. n + 1, decStream'[k].op = "increment"
        PROVE  /\ rcvd + decStream'[k].n <= decStream'[k].sum
               /\ decStream'[k].sum <= hist.incs + c
    <3>1. CASE k \in 1 .. n BY SMTT(30), <3>1, <2>2, <2>3, <1>3, <1>4, <1>9
    <3>2. CASE k = n + 1 BY <3>2, <2>1, <1>3, <1>4, <1>6, <1>9
    <3> QED BY <3>1, <3>2
  <2>4. ASSUME NEW k \in 1 .. n + 1, NEW l \in 1 .. n + 1, k < l,
               decStream'[k].op = "increment", decStream'[l].op = "increment"
        PROVE  decStream'[k].sum + decStream'[l].n <= decStream'[l].sum
    <3>1. k \in 1 .. n /\ decStream'[k] = decStream[k] BY <2>4, <1>9
    <3>2. CASE l \in 1 .. n BY <3>1, <3>2, <2>4, <1>8, <1>9 DEF IInv, IncrementInv
    <3>3. CASE l = n + 1
      <4>1. decStream[k].sum \in Nat /\ decStream[k].sum <= hist.incs BY <3>1, <2>2, <2>4
      <4> QED BY <3>1, <3>3, <4>1, <1>3, <1>4, <1>6, <1>9
    <3> QED BY <3>2, <3>3
  <2>5. told' <= InsertCount(dec) BY <1>2, <1>3 DEF InsertCount
  <2>6. rcvd <= hist.incs + c /\ hist.incs + c <= told' BY <2>1, <1>3, <1>4, <1>7
  <2> QED BY <2>3, <2>4, <2>5, <2>6, <1>2, <1>9, <1>10 DEF IncrementInv
<1>21. BlockedInv' BY <1>2, BlockedFrame DEF IInv
<1> QED BY <1>11, <1>12, <1>13, <1>14, <1>15, <1>16, <1>18, <1>19, <1>20, <1>21 DEF IInv

-----------------------------------------------------------------------------
(* Steps of the encoder on the decoder stream.                             *)

(* What ack_section, cancel_stream and acknowledge leave of the encoder.    *)
LEMMA LimitStep ==
  ASSUME IInv, NEW u \in [Streams -> Seq(Tracked)], NEW k \in Nat,
         \A s \in Streams : \A i \in 1 .. Len(u[s]) : u[s][i].ric <= Len(enc.tab.log),
         enc.krc <= k, k <= InsertCount(dec),
         enc' = [WithUnacked(enc, u) EXCEPT !.krc = k],
         dec' = dec, encStream' = encStream
  PROVE  /\ enc' \in [tab : Table, max : {0, MaxCap}, blocked : {0, MaxBlocked}, krc : Nat,
                      unacked : [Streams -> Seq(Tracked)]]
         /\ enc'.unacked = u /\ enc'.blocked = enc.blocked /\ enc'.max = enc.max
         /\ enc'.tab.log = enc.tab.log /\ enc'.tab.drop = enc.tab.drop
         /\ ReplayInv' /\ EvictionInv'
<1>1. TypeOK BY DEF IInv
<1>2. enc.tab \in Table BY <1>1, StateTypes
<1>3. /\ Len(enc.tab.log) \in Nat /\ enc.tab.drop \in Nat /\ enc.tab.cap \in Nat
      /\ enc.tab.bytes \in Nat
  BY <1>2, TableFields
<1>4. EvictionLimit(u) \in Nat
  <2>1. EvictionLimit(u) \in 0 .. Len(enc.tab.log) BY <1>3, LimitPins
  <2> QED BY <2>1, <1>3
<1> DEFINE L == EvictionLimit(u)
           v == [enc.tab EXCEPT !.lim = L]
<1> HIDE DEF L
<1>5. v \in Table /\ v.log = enc.tab.log /\ v.drop = enc.tab.drop /\ v.cap = enc.tab.cap
      /\ v.bytes = enc.tab.bytes /\ v.lim = L
  BY <1>2, <1>4 DEF Table, L
<1>6. WithUnacked(enc, u) = [enc EXCEPT !.unacked = u, !.tab.lim = L]
  BY DEF WithUnacked, L
<1>7. /\ enc'.tab = v /\ enc'.unacked = u /\ enc'.krc = k /\ enc'.max = enc.max
      /\ enc'.blocked = enc.blocked
      /\ enc' \in [tab : Table, max : {0, MaxCap}, blocked : {0, MaxBlocked}, krc : Nat,
                   unacked : [Streams -> Seq(Tracked)]]
  BY <1>1, <1>5, <1>6 DEF TypeOK
<1> HIDE DEF v
<1>8. ReplayInv' BY <1>1, <1>5, <1>7, ReplayFrame DEF IInv
<1>9. EvictionInv'
  <2>1. CurrentSize(v) = CurrentSize(enc.tab) BY <1>5 DEF CurrentSize, SizeFrom, InsertCount
  <2>2. enc.tab.drop <= enc.krc /\ enc.krc \in Nat /\ enc.tab.drop <= k
    BY <1>1, <1>3, StateTypes DEF IInv, EvictionInv
  <2> QED BY <2>1, <2>2, <1>5, <1>7 DEF IInv, EvictionInv, InsertCount, L
<1> QED BY <1>5, <1>7, <1>8, <1>9

(* The decoder stream, of length n, once its first instruction has been read. *)
TailRead(n) ==
  /\ n = Len(decStream) /\ Len(decStream') = n - 1
  /\ Head(decStream) = decStream[1] /\ decStream[1] \in DecMessage
  /\ decStream' \in Seq(DecMessage)
  /\ \A k \in 1 .. n - 1 : /\ decStream'[k] = decStream[k + 1]
                           /\ k + 1 \in 2 .. n
                           /\ \A t : /\ IsAck(k, t)' = IsAck(k + 1, t)
                                     /\ IsCancel(k, t)' = IsCancel(k + 1, t)
  /\ \A k \in 2 .. n : k - 1 \in 1 .. n - 1 /\ (k - 1) + 1 = k

LEMMA DecStreamTail ==
  ASSUME TypeOK, decStream # <<>>, decStream' = Tail(decStream)
  PROVE  \E n \in Nat \ {0} : TailRead(n)
<1>1. decStream \in Seq(DecMessage) BY DEF TypeOK
<1>2. PICK n \in Nat \ {0} : n = Len(decStream) BY <1>1, TailFacts
<1>3. /\ Len(Tail(decStream)) = n - 1 /\ Tail(decStream) \in Seq(DecMessage)
      /\ Head(decStream) = decStream[1] /\ decStream[1] \in DecMessage
      /\ \A k \in 1 .. n - 1 : Tail(decStream)[k] = decStream[k + 1]
  BY <1>1, <1>2, TailFacts
<1>4. ASSUME NEW k \in 1 .. n - 1, NEW t
      PROVE  IsAck(k, t)' = IsAck(k + 1, t) /\ IsCancel(k, t)' = IsCancel(k + 1, t)
  BY <1>3 DEF IsAck, IsCancel
<1>5. \A k \in 2 .. n : k - 1 \in 1 .. n - 1 /\ (k - 1) + 1 = k OBVIOUS
<1>6. \A k \in 1 .. n - 1 : k + 1 \in 2 .. n OBVIOUS
<1>7. /\ Len(decStream') = n - 1 /\ decStream' \in Seq(DecMessage)
      /\ \A k \in 1 .. n - 1 : decStream'[k] = decStream[k + 1]
  BY <1>3
<1>8. TailRead(n) BY <1>2, <1>3, <1>4, <1>5, <1>6, <1>7, Zenon DEF TailRead
<1> QED BY <1>8

(* Reading an instruction keeps the order of the increments behind it.      *)
LEMMA IncrementTail ==
  ASSUME TypeOK, IncrementInv, decStream # <<>>, decStream' = Tail(decStream),
         UNCHANGED <<rcvd, dec, told>>, hist'.incs = hist.incs
  PROVE  IncrementInv'
<1>0. PICK n \in Nat \ {0} : TailRead(n) BY DecStreamTail
<1>1. /\ n = Len(decStream) /\ Len(decStream') = n - 1
      /\ \A k \in 1 .. n - 1 : decStream'[k] = decStream[k + 1] /\ k + 1 \in 2 .. n
  BY <1>0 DEF TailRead
<1>2. \A k \in 1 .. n - 1 : k + 1 \in 1 .. n BY <1>1
<1>3. ASSUME NEW k \in 1 .. n - 1, decStream'[k].op = "increment"
      PROVE  /\ rcvd + decStream'[k].n <= decStream'[k].sum
             /\ decStream'[k].sum <= hist.incs
  BY <1>1, <1>2, <1>3 DEF IncrementInv
<1>4. ASSUME NEW k \in 1 .. n - 1, NEW l \in 1 .. n - 1, k < l,
             decStream'[k].op = "increment", decStream'[l].op = "increment"
      PROVE  decStream'[k].sum + decStream'[l].n <= decStream'[l].sum
  <2>1. k + 1 \in 1 .. n /\ l + 1 \in 1 .. n /\ k + 1 < l + 1 BY <1>2, <1>4
  <2> QED BY <1>1, <1>4, <2>1 DEF IncrementInv
<1> QED BY <1>1, <1>3, <1>4 DEF IncrementInv

(* Reading an instruction that is no acknowledgment of stream t leaves what *)
(* is known of the acknowledgments of t.                                   *)
LEMMA AckTail ==
  ASSUME AckInv, NEW n \in Nat \ {0}, TailRead(n), NEW t \in Streams, ~IsAck(1, t),
         dec' = dec, enc'.unacked[t] = enc.unacked[t], hist'.sent = hist.sent,
         hist'.decoded = hist.decoded, t \in hist'.released <=> t \in hist.released
  PROVE  AckInv!(t)'
<1>1. Acked(t)' = Acked(t) BY DEF Acked
<1>2. \A no, ric : Tracks(t, no, ric)' = Tracks(t, no, ric) BY <1>1 DEF Tracks
<1>3. /\ n = Len(decStream) /\ Len(decStream') = n - 1
      /\ \A k \in 1 .. n - 1 : /\ decStream'[k] = decStream[k + 1] /\ k + 1 \in 1 .. n
                               /\ IsAck(k, t)' = IsAck(k + 1, t)
      /\ \A k \in 2 .. n : k - 1 \in 1 .. n - 1 /\ (k - 1) + 1 = k
  BY DEF TailRead
<1>4. ASSUME NEW k \in 1 .. n - 1, IsAck(k, t)'
      PROVE  /\ t \notin hist.released
             /\ decStream'[k].no \in Acked(t) + 1 .. hist.decoded[t]
             /\ Tracks(t, decStream'[k].no, decStream'[k].ric)
             /\ decStream'[k].ric <= InsertCount(dec)
  BY <1>3, <1>4 DEF AckInv
<1>5. ASSUME NEW k \in 1 .. n - 1, NEW l \in 1 .. n - 1, k < l, IsAck(k, t)', IsAck(l, t)'
      PROVE  decStream'[k].no < decStream'[l].no
  <2>1. k + 1 < l + 1 BY <1>5
  <2> QED BY SMTT(30), <2>1, <1>3, <1>5 DEF AckInv
<1>6. ASSUME t \notin hist.released, NEW x \in Acked(t) + 1 .. hist.decoded[t]
      PROVE  \E k \in 1 .. n - 1 : IsAck(k, t)' /\ decStream'[k].no = x
  <2>1. PICK k \in 1 .. n : IsAck(k, t) /\ decStream[k].no = x BY <1>3, <1>6 DEF AckInv
  <2>2. k \in 2 .. n BY <2>1
  <2> QED BY <2>1, <2>2, <1>3
<1> QED BY <1>1, <1>2, <1>3, <1>4, <1>5, <1>6

LEMMA CancelTail ==
  ASSUME CancelInv, NEW n \in Nat \ {0}, TailRead(n), NEW t \in Streams,
         cancelled' = cancelled, t \in hist'.released <=> t \in hist.released
  PROVE  CancelInv!(t)'
<1>1. /\ n = Len(decStream) /\ Len(decStream') = n - 1
      /\ \A k \in 1 .. n - 1 : /\ k + 1 \in 1 .. n
                               /\ IsAck(k, t)' = IsAck(k + 1, t)
                               /\ IsCancel(k, t)' = IsCancel(k + 1, t)
  BY DEF TailRead
<1>2. ASSUME NEW k \in 1 .. n - 1, IsCancel(k, t)'
      PROVE  /\ t \in cancelled \ hist.released
             /\ \A j \in k + 1 .. n - 1 : ~IsAck(j, t)' /\ ~IsCancel(j, t)'
  <2>1. /\ t \in cancelled \ hist.released
        /\ \A j \in (k + 1) + 1 .. n : ~IsAck(j, t) /\ ~IsCancel(j, t)
    BY <1>1, <1>2 DEF CancelInv
  <2>2. ASSUME NEW j \in k + 1 .. n - 1 PROVE ~IsAck(j, t)' /\ ~IsCancel(j, t)'
    <3>1. j \in 1 .. n - 1 /\ j + 1 \in (k + 1) + 1 .. n OBVIOUS
    <3> QED BY <3>1, <2>1, <1>1
  <2> QED BY <2>1, <2>2
<1> QED BY <1>1, <1>2 DEF CancelInv

LEMMA EncIncrementInv ==
  ASSUME IInv, EncIncrement
  PROVE  IInv'
<1> DEFINE m == decStream[1]
           r == rcvd + m.n
           k == Larger(enc.krc, r)
<1>1. TypeOK /\ decStream # <<>> /\ decStream' = Tail(decStream) BY DEF IInv, EncIncrement
<1>2. PICK n \in Nat \ {0} : TailRead(n) BY <1>1, DecStreamTail
<1>3. Head(decStream) = m /\ m \in DecMessage /\ n = Len(decStream) BY <1>2 DEF TailRead
<1>4. m.op = "increment" BY <1>3 DEF EncIncrement
<1>5. m.n \in Nat \ {0} /\ m.sum \in Nat BY <1>3, <1>4 DEF DecMessage
<1>6. /\ enc.tab \in Table /\ dec \in Table /\ enc.krc \in Nat /\ rcvd \in Nat
      /\ told \in Nat /\ hist.incs \in Nat /\ enc.unacked \in [Streams -> Seq(Tracked)]
  BY <1>1, StateTypes DEF TypeOK
<1>7. Len(enc.tab.log) \in Nat /\ Len(dec.log) \in Nat BY <1>6, TableFields
<1>8. /\ r <= m.sum /\ m.sum <= hist.incs /\ hist.incs <= told /\ told <= Len(dec.log)
      /\ Len(dec.log) <= Len(enc.tab.log) /\ enc.krc <= Len(dec.log)
  <2>1. 1 \in 1 .. Len(decStream) BY <1>3
  <2> QED BY <2>1, <1>4 DEF IInv, IncrementInv, ReplayInv, EvictionInv, Earlier, InsertCount
<1> HIDE DEF m
<1>9. r \in Nat /\ r <= Len(dec.log) /\ r <= Len(enc.tab.log)
  <2>1. r \in Nat BY <1>5, <1>6
  <2> HIDE DEF r
  <2> QED BY <2>1, <1>5, <1>6, <1>7, <1>8
<1>10. k \in Nat /\ enc.krc <= k /\ k <= Len(dec.log) BY <1>6, <1>7, <1>8, <1>9 DEF Larger
<1>11. ~(m.n = 0 \/ r > InsertCount(enc.tab)) BY <1>5, <1>7, <1>9 DEF InsertCount
<1>12. /\ rcvd' = r
       /\ enc' = [enc EXCEPT !.krc = k, !.tab.lim = EvictionLimit(enc.unacked)]
       /\ UNCHANGED <<encStream, reqs, dec, told, cancelled, err, hist>>
  BY <1>3, <1>11 DEF EncIncrement
<1> HIDE DEF k, r
<1>13. enc' = [WithUnacked(enc, enc.unacked) EXCEPT !.krc = k]
  <2>1. enc \in [tab : Table, max : {0, MaxCap}, blocked : {0, MaxBlocked}, krc : Nat,
                 unacked : [Streams -> Seq(Tracked)]]
    BY <1>1 DEF TypeOK
  <2> QED BY <2>1, <1>6, <1>12 DEF WithUnacked
<1>14. \A s \in Streams : \A i \in 1 .. Len(enc.unacked[s]) :
          enc.unacked[s][i].ric <= Len(enc.tab.log)
  BY DEF IInv, EvictionInv, InsertCount
<1>15. /\ enc' \in [tab : Table, max : {0, MaxCap}, blocked : {0, MaxBlocked}, krc : Nat,
                    unacked : [Streams -> Seq(Tracked)]]
       /\ enc'.unacked = enc.unacked /\ enc'.blocked = enc.blocked
       /\ enc'.tab.log = enc.tab.log /\ enc'.tab.drop = enc.tab.drop
       /\ ReplayInv' /\ EvictionInv'
  BY <1>6, <1>10, <1>12, <1>13, <1>14, LimitStep DEF InsertCount
<1>16. decStream' \in Seq(DecMessage) BY <1>2 DEF TailRead
<1>17. TypeOK' BY <1>1, <1>9, <1>12, <1>15, <1>16 DEF TypeOK
<1>18. NoConnectionError' BY <1>12 DEF IInv, NoConnectionError
<1>19. SectionInv' BY <1>12, <1>15, SectionFrame DEF IInv
<1>20. FlightInv' BY <1>12, <1>15, FlightFrame DEF IInv
<1>21. AckInv'
  <2>1. ASSUME NEW t \in Streams PROVE AckInv!(t)'
    <3>1. ~IsAck(1, t) BY <1>4 DEF IsAck, m
    <3> QED BY <3>1, <1>2, <1>12, <1>15, AckTail DEF IInv
  <2> QED BY <2>1 DEF AckInv
<1>22. CancelInv'
  <2>1. ASSUME NEW t \in Streams PROVE CancelInv!(t)'
    BY <1>2, <1>12, CancelTail DEF IInv
  <2> QED BY <2>1 DEF CancelInv
<1>23. IncrementInv'
  <2>1. /\ Len(decStream') = n - 1
        /\ \A i \in 1 .. n - 1 : decStream'[i] = decStream[i + 1] /\ i + 1 \in 2 .. n
    BY <1>2 DEF TailRead
  <2>2. ASSUME NEW i \in 1 .. n - 1, decStream'[i].op = "increment"
        PROVE  /\ r + decStream'[i].n <= decStream'[i].sum
               /\ decStream'[i].sum <= hist.incs
    <3>1. i + 1 \in 1 .. n /\ 1 \in 1 .. n /\ 1 < i + 1 BY <2>1
    <3>2. decStream[i + 1] \in DecMessage BY <1>1, <1>3, <3>1, SeqElement DEF TypeOK
    <3>3. decStream[i + 1].n \in Nat /\ decStream[i + 1].sum \in Nat
      BY <2>1, <2>2, <3>2 DEF DecMessage
    <3>4. /\ m.sum + decStream[i + 1].n <= decStream[i + 1].sum
          /\ decStream[i + 1].sum <= hist.incs
      BY <1>3, <1>4, <2>1, <2>2, <3>1 DEF IInv, IncrementInv, m
    <3>5. PICK x, y : x = decStream[i + 1].n /\ y = decStream[i + 1].sum OBVIOUS
    <3>6. x \in Nat /\ y \in Nat /\ m.sum + x <= y BY <3>3, <3>4, <3>5
    <3>7. r + x <= y BY <3>6, <1>5, <1>8, <1>9
    <3> QED BY <2>1, <3>4, <3>5, <3>7
  <2>3. ASSUME NEW i \in 1 .. n - 1, NEW j \in 1 .. n - 1, i < j,
               decStream'[i].op = "increment", decStream'[j].op = "increment"
        PROVE  decStream'[i].sum + decStream'[j].n <= decStream'[j].sum
    <3>1. i + 1 \in 1 .. n /\ j + 1 \in 1 .. n /\ i + 1 < j + 1 BY <2>1, <2>3
    <3> QED BY <2>1, <2>3, <3>1, <1>3 DEF IInv, IncrementInv
  <2>4. r <= hist.incs BY <1>5, <1>6, <1>8, <1>9
  <2> QED BY <2>1, <2>2, <2>3, <2>4, <1>8, <1>12 DEF IncrementInv, InsertCount
<1>24. BlockedInv' BY <1>15, BlockedFrame DEF IInv
<1> QED BY <1>15, <1>17, <1>18, <1>19, <1>20, <1>21, <1>22, <1>23, <1>24 DEF IInv

(* Releasing sections leaves fewer streams that may be blocked.            *)
LEMMA BlockedShrinks ==
  ASSUME BlockedInv, TypeOK, enc'.blocked = enc.blocked,
         \A t \in Streams : enc'.unacked[t] # <<>> => enc.unacked[t] # <<>>
  PROVE  BlockedInv'
<1> DEFINE A == {s \in Streams : enc.unacked[s] # <<>>}
           B == {s \in Streams : enc'.unacked[s] # <<>>}
<1>1. B \subseteq A OBVIOUS
<1>2. IsFiniteSet(A) BY SyncAssumption, FS_Subset
<1>3. /\ Cardinality(B) <= Cardinality(A)
      /\ Cardinality(A) \in Nat /\ Cardinality(B) \in Nat
  BY <1>1, <1>2, FS_Subset, FS_CardinalityType
<1>4. enc.blocked \in Nat BY StateTypes, SyncAssumption
<1>5. BlockedStreamsCount = Cardinality(A) /\ BlockedStreamsCount' = Cardinality(B)
  BY DEF BlockedStreamsCount
<1> QED BY <1>3, <1>4, <1>5 DEF BlockedInv

LEMMA EncCancelInv ==
  ASSUME IInv, EncCancel
  PROVE  IInv'
<1> DEFINE m == decStream[1]
<1>1. TypeOK /\ decStream # <<>> /\ decStream' = Tail(decStream) BY DEF IInv, EncCancel
<1>2. PICK n \in Nat \ {0} : TailRead(n) BY <1>1, DecStreamTail
<1>3. Head(decStream) = m /\ m \in DecMessage /\ n = Len(decStream) BY <1>2 DEF TailRead
<1>4. m.op = "cancel" BY <1>3 DEF EncCancel
<1>5. PICK s \in Streams : s = m.stream BY <1>3, <1>4 DEF DecMessage
<1> DEFINE u == [enc.unacked EXCEPT ![s] = <<>>]
<1>6. /\ enc' = WithUnacked(enc, u)
      /\ hist' = [hist EXCEPT !.released = @ \cup {s}]
      /\ UNCHANGED <<rcvd, encStream, reqs, dec, told, cancelled, err>>
  BY <1>3, <1>5 DEF EncCancel
<1>7. IsCancel(1, s) BY <1>4, <1>5 DEF IsCancel
<1> HIDE DEF m
<1>8. /\ s \in cancelled \ hist.released
      /\ \A j \in 2 .. n : ~IsAck(j, s) /\ ~IsCancel(j, s)
  <2>1. 1 \in 1 .. Len(decStream) /\ 1 + 1 = 2 BY <1>3
  <2> QED BY <2>1, <1>3, <1>5, <1>7 DEF IInv, CancelInv
<1>9. /\ enc.tab \in Table /\ enc.krc \in Nat
      /\ enc.unacked \in [Streams -> Seq(Tracked)] /\ dec \in Table
  BY <1>1, StateTypes DEF TypeOK
<1>10. /\ u \in [Streams -> Seq(Tracked)] /\ u[s] = <<>> /\ Len(u[s]) = 0
       /\ \A t \in Streams : t # s => u[t] = enc.unacked[t]
  BY <1>5, <1>9
<1> HIDE DEF u
<1>11. enc' = [WithUnacked(enc, u) EXCEPT !.krc = enc.krc]
  <2>1. enc \in [tab : Table, max : {0, MaxCap}, blocked : {0, MaxBlocked}, krc : Nat,
                 unacked : [Streams -> Seq(Tracked)]]
    BY <1>1 DEF TypeOK
  <2> QED BY <2>1, <1>6 DEF WithUnacked
<1>12. \A t \in Streams : \A i \in 1 .. Len(u[t]) : u[t][i].ric <= Len(enc.tab.log)
  <2>1. \A t \in Streams : \A i \in 1 .. Len(enc.unacked[t]) :
           enc.unacked[t][i].ric <= Len(enc.tab.log)
    BY Zenon DEF IInv, EvictionInv, InsertCount
  <2> SUFFICES ASSUME NEW t \in Streams, NEW i \in 1 .. Len(u[t])
               PROVE  u[t][i].ric <= Len(enc.tab.log)
    OBVIOUS
  <2>2. t # s BY <1>10
  <2>3. u[t] = enc.unacked[t] BY <1>10, <2>2
  <2> QED BY <2>1, <2>3
<1>13. enc.krc <= enc.krc /\ enc.krc <= InsertCount(dec) BY <1>9 DEF IInv, EvictionInv
<1>14. /\ enc' \in [tab : Table, max : {0, MaxCap}, blocked : {0, MaxBlocked}, krc : Nat,
                    unacked : [Streams -> Seq(Tracked)]]
       /\ enc'.unacked = u /\ enc'.blocked = enc.blocked
       /\ enc'.tab.log = enc.tab.log /\ enc'.tab.drop = enc.tab.drop
       /\ ReplayInv' /\ EvictionInv'
  BY <1>6, <1>9, <1>10, <1>11, <1>12, <1>13, LimitStep
<1>15. /\ hist' \in [all : [Streams -> Nat], sent : [Streams -> Nat],
                     decoded : [Streams -> Nat], released : SUBSET Streams,
                     incs : Nat, caps : Nat]
       /\ hist'.sent = hist.sent /\ hist'.decoded = hist.decoded
       /\ hist'.released = hist.released \cup {s} /\ hist'.incs = hist.incs
  BY <1>1, <1>5, <1>6 DEF TypeOK
<1>16. decStream' \in Seq(DecMessage) BY <1>2 DEF TailRead
<1>17. TypeOK' BY <1>1, <1>6, <1>14, <1>15, <1>16 DEF TypeOK
<1>18. NoConnectionError' BY <1>6 DEF IInv, NoConnectionError
<1>19. SectionInv' BY <1>6, <1>14, SectionFrame DEF IInv
<1>20. FlightInv'
  <2>1. ASSUME NEW t \in Streams PROVE FlightInv!(t)'
    <3>1. CASE t # s
      <4>1. Acked(t)' = Acked(t) BY <3>1, <1>10, <1>14, <1>15 DEF Acked
      <4>2. \A no, ric : Tracks(t, no, ric)' = Tracks(t, no, ric)
        BY <4>1, <3>1, <1>10, <1>14 DEF Tracks
      <4>3. FlightInv!(t) BY DEF IInv, FlightInv
      <4> QED BY <4>2, <4>3, <3>1, <1>6, <1>10, <1>14, <1>15
    <3>2. CASE t = s
      <4>1. reqs[s] = <<>> /\ Len(reqs[s]) = 0 BY <1>5, <1>8 DEF IInv, FlightInv
      <4>2. hist.decoded[s] <= hist.sent[s] /\ 0 <= hist.sent[s]
        BY <1>1, <1>5, StateTypes DEF IInv, FlightInv
      <4> QED BY <4>1, <4>2, <3>2, <1>6, <1>8, <1>10, <1>14, <1>15
    <3> QED BY <3>1, <3>2
  <2> QED BY <2>1 DEF FlightInv
<1>21. AckInv'
  <2>1. ASSUME NEW t \in Streams PROVE AckInv!(t)'
    <3>1. CASE t # s
      <4>1. ~IsAck(1, t) BY <1>4 DEF IsAck, m
      <4> QED BY SMTT(30), <4>1, <3>1, <1>2, <1>6, <1>10, <1>14, <1>15, AckTail DEF IInv
    <3>2. CASE t = s
      <4>1. \A k \in 1 .. n - 1 : ~IsAck(k, s)' BY <1>2, <1>8 DEF TailRead
      <4>2. Len(decStream') = n - 1 BY <1>2 DEF TailRead
      <4> QED BY <3>2, <4>1, <4>2, <1>15
    <3> QED BY <3>1, <3>2
  <2> QED BY <2>1 DEF AckInv
<1>22. CancelInv'
  <2>1. ASSUME NEW t \in Streams PROVE CancelInv!(t)'
    <3>1. CASE t # s BY <3>1, <1>2, <1>6, <1>15, CancelTail DEF IInv
    <3>2. CASE t = s
      <4>1. \A k \in 1 .. n - 1 : ~IsCancel(k, s)' BY <1>2, <1>8 DEF TailRead
      <4>2. Len(decStream') = n - 1 BY <1>2 DEF TailRead
      <4> QED BY <3>2, <4>1, <4>2, <1>6, <1>8
    <3> QED BY <3>1, <3>2
  <2> QED BY <2>1 DEF CancelInv
<1>23. IncrementInv' BY <1>1, <1>6, <1>15, IncrementTail DEF IInv
<1>24. BlockedInv' BY <1>1, <1>10, <1>14, BlockedShrinks DEF IInv
<1> QED BY <1>14, <1>17, <1>18, <1>19, <1>20, <1>21, <1>22, <1>23, <1>24 DEF IInv

LEMMA EncAckInv ==
  ASSUME IInv, EncAck
  PROVE  IInv'
<1> DEFINE m == decStream[1]
<1>1. TypeOK /\ decStream # <<>> /\ decStream' = Tail(decStream) BY DEF IInv, EncAck
<1>2. PICK n \in Nat \ {0} : TailRead(n) BY <1>1, DecStreamTail
<1>3. Head(decStream) = m /\ m \in DecMessage /\ n = Len(decStream) BY <1>2 DEF TailRead
<1>4. m.op = "ack" BY <1>3 DEF EncAck
<1>5. PICK s \in Streams : s = m.stream BY <1>3, <1>4 DEF DecMessage
<1>6. m.ric \in Nat \ {0} /\ m.no \in Nat BY <1>3, <1>4 DEF DecMessage
<1>7. IsAck(1, s) BY <1>4, <1>5 DEF IsAck
<1>8. /\ enc.tab \in Table /\ enc.krc \in Nat
      /\ enc.unacked \in [Streams -> Seq(Tracked)] /\ dec \in Table
      /\ hist.sent[s] \in Nat /\ hist.decoded[s] \in Nat
  BY <1>1, StateTypes DEF TypeOK
<1>9. Len(enc.tab.log) \in Nat /\ Len(dec.log) \in Nat BY <1>8, TableFields
<1>10. PICK a : a = Acked(s) OBVIOUS
<1>11. /\ Len(enc.unacked[s]) \in Nat /\ Len(enc.unacked[s]) <= hist.sent[s]
       /\ a = hist.sent[s] - Len(enc.unacked[s])
  BY <1>8, <1>10 DEF IInv, FlightInv, Acked
<1>12. a \in Nat BY <1>8, <1>11
<1>13. /\ m.no \in a + 1 .. hist.decoded[s]
       /\ m.no - a \in 1 .. Len(enc.unacked[s]) /\ enc.unacked[s][m.no - a].ric = m.ric
       /\ m.ric <= Len(dec.log) /\ s \notin hist.released
  <2>1. 1 \in 1 .. Len(decStream) BY <1>3
  <2> QED BY <2>1, <1>7, <1>10 DEF IInv, AckInv, Tracks, InsertCount
<1>14. m.no = a + 1
  <2>1. a + 1 \in a + 1 .. hist.decoded[s] BY <1>8, <1>12, <1>13
  <2>2. PICK i \in 1 .. n : IsAck(i, s) /\ decStream[i].no = a + 1
    BY <2>1, <1>3, <1>10, <1>13 DEF IInv, AckInv
  <2>3. CASE i = 1 BY <2>2, <2>3
  <2>4. CASE i # 1
    <3>1. 1 < i /\ 1 \in 1 .. n BY <2>4
    <3>2. m.no < decStream[i].no BY <3>1, <2>2, <1>3, <1>7 DEF IInv, AckInv
    <3> QED BY <3>2, <2>2, <1>6, <1>12, <1>13
  <2> QED BY <2>3, <2>4
<1>15. Len(enc.unacked[s]) >= 1 /\ enc.unacked[s][1].ric = m.ric
  <2>1. m.no - a = 1 BY <1>12, <1>14
  <2> QED BY <2>1, <1>13
<1>16. enc.unacked[s] # <<>> BY <1>15
<1> HIDE DEF m
<1> DEFINE u == [enc.unacked EXCEPT ![s] = Tail(@)]
           k == Larger(enc.krc, m.ric)
<1>17. Head(enc.unacked[s]).ric = m.ric BY <1>8, <1>15, <1>16
<1>18. /\ enc' = [WithUnacked(enc, u) EXCEPT !.krc = k]
       /\ UNCHANGED <<rcvd, encStream, reqs, dec, told, cancelled, err, hist>>
  <2>1. WithUnacked(enc, u).krc = enc.krc BY <1>1 DEF WithUnacked, TypeOK
  <2> QED BY <2>1, <1>3, <1>5, <1>16, <1>17 DEF EncAck
<1>19. k \in Nat /\ enc.krc <= k /\ k <= InsertCount(dec)
  BY <1>6, <1>8, <1>9, <1>13 DEF Larger, InsertCount, IInv, EvictionInv
<1>20. enc.unacked[s] \in Seq(Tracked) BY <1>8
<1>21. PICK q \in Nat \ {0} : q = Len(enc.unacked[s]) BY <1>16, <1>20, TailFacts
<1>22. /\ u \in [Streams -> Seq(Tracked)] /\ u[s] = Tail(enc.unacked[s])
       /\ \A t \in Streams : t # s => u[t] = enc.unacked[t]
       /\ Len(u[s]) = q - 1 /\ \A i \in 1 .. q - 1 : u[s][i] = enc.unacked[s][i + 1]
  <2>1. /\ Tail(enc.unacked[s]) \in Seq(Tracked) /\ Len(Tail(enc.unacked[s])) = q - 1
        /\ \A i \in 1 .. q - 1 : Tail(enc.unacked[s])[i] = enc.unacked[s][i + 1]
    BY <1>16, <1>20, <1>21, TailFacts
  <2>2. u \in [Streams -> Seq(Tracked)] /\ u[s] = Tail(enc.unacked[s])
    BY <1>8, <2>1
  <2>3. \A t \in Streams : t # s => u[t] = enc.unacked[t] BY <1>8
  <2> HIDE DEF u
  <2> QED BY <2>1, <2>2, <2>3
<1> HIDE DEF u, k
<1>23. ASSUME NEW t \in Streams, NEW i \in 1 .. Len(u[t])
       PROVE  u[t][i].ric <= Len(enc.tab.log)
  <2>1. CASE t # s BY <2>1, <1>22 DEF IInv, EvictionInv, InsertCount
  <2>2. CASE t = s
    <3>1. i \in 1 .. q - 1 /\ i + 1 \in 1 .. Len(enc.unacked[s]) BY <2>2, <1>21, <1>22
    <3> QED BY <2>2, <3>1, <1>22 DEF IInv, EvictionInv, InsertCount
  <2> QED BY <2>1, <2>2
<1>24. /\ enc' \in [tab : Table, max : {0, MaxCap}, blocked : {0, MaxBlocked}, krc : Nat,
                    unacked : [Streams -> Seq(Tracked)]]
       /\ enc'.unacked = u /\ enc'.blocked = enc.blocked
       /\ enc'.tab.log = enc.tab.log /\ enc'.tab.drop = enc.tab.drop
       /\ ReplayInv' /\ EvictionInv'
  BY <1>18, <1>19, <1>22, <1>23, LimitStep
<1>25. decStream' \in Seq(DecMessage) BY <1>2 DEF TailRead
<1>26. TypeOK' BY <1>1, <1>18, <1>24, <1>25 DEF TypeOK
<1>27. NoConnectionError' BY <1>18 DEF IInv, NoConnectionError
<1>28. SectionInv' BY <1>18, <1>24, SectionFrame DEF IInv
<1>29. Acked(s)' = a + 1
  <2>1. Acked(s)' = hist.sent[s] - (q - 1) BY <1>18, <1>22, <1>24 DEF Acked
  <2> QED BY <2>1, <1>8, <1>11, <1>21
<1>30. ASSUME NEW no \in Nat, NEW ric, no > a + 1, Tracks(s, no, ric)
       PROVE  Tracks(s, no, ric)'
  <2>1. no - a \in 1 .. q /\ enc.unacked[s][no - a].ric = ric
    BY <1>10, <1>21, <1>30 DEF Tracks
  <2>2. no - (a + 1) \in 1 .. q - 1 /\ (no - (a + 1)) + 1 = no - a
    BY <2>1, <1>12, <1>30
  <2>3. u[s][no - (a + 1)].ric = ric BY <2>1, <2>2, <1>22
  <2>4. enc'.unacked[s] = u[s] BY <1>24
  <2> QED BY <2>2, <2>3, <2>4, <1>22, <1>29 DEF Tracks
<1>31. FlightInv'
  <2>1. ASSUME NEW t \in Streams PROVE FlightInv!(t)'
    <3>0. FlightInv!(t) BY DEF IInv, FlightInv
    <3>1. CASE t # s
      <4>1. Acked(t)' = Acked(t) BY <3>1, <1>18, <1>22, <1>24 DEF Acked
      <4>2. \A no, ric : Tracks(t, no, ric)' = Tracks(t, no, ric)
        BY <4>1, <3>1, <1>22, <1>24 DEF Tracks
      <4> QED BY <4>2, <3>0, <3>1, <1>18, <1>22, <1>24
    <3>2. CASE t = s
      <4>1. q - 1 <= hist.sent[s] BY <1>8, <1>11, <1>21
      <4>2. ASSUME NEW i \in 1 .. Len(reqs[s]), reqs[s][i].ric > 0
            PROVE  Tracks(s, reqs[s][i].no, reqs[s][i].ric)'
        <5>1. /\ reqs[s][i].no \in hist.decoded[s] + 1 .. hist.sent[s]
              /\ Tracks(s, reqs[s][i].no, reqs[s][i].ric)
          BY <3>0, <3>2, <4>2
        <5>2. PICK no, ric : no = reqs[s][i].no /\ ric = reqs[s][i].ric OBVIOUS
        <5>3. PICK d \in Nat : d = hist.decoded[s] BY <1>8
        <5>4. no \in Nat /\ no > a + 1
          <6>1. a + 1 <= d /\ no >= d + 1 /\ no \in Int
            BY <5>1, <5>2, <5>3, <1>8, <1>12, <1>13
          <6> QED BY <6>1, <5>3, <1>12
        <5>5. Tracks(s, no, ric)' BY <5>1, <5>2, <5>4, <1>30
        <5>6. reqs' = reqs BY <1>18
        <5> QED BY <5>2, <5>5, <5>6 DEF Tracks
      <4>3. Len(enc'.unacked[s]) <= hist.sent[s] BY <4>1, <1>22, <1>24
      <4>4. UNCHANGED <<hist, reqs, cancelled>> BY <1>18
      <4>5. \A i \in 1 .. Len(reqs'[s]) : reqs'[s][i].ric > 0 =>
              Tracks(s, reqs[s][i].no, reqs[s][i].ric)'
        BY <4>2, <4>4
      <4> QED BY <3>0, <3>2, <4>3, <4>4, <4>5
    <3> QED BY <3>1, <3>2
  <2> QED BY <2>1 DEF FlightInv
<1>32. AckInv'
  <2>1. ASSUME NEW t \in Streams PROVE AckInv!(t)'
    <3>1. CASE t # s
      <4>1. ~IsAck(1, t) BY <3>1, <1>5 DEF IsAck, m
      <4>2. enc'.unacked[t] = enc.unacked[t] BY <3>1, <1>22, <1>24
      <4> QED BY <4>1, <4>2, <1>2, <1>18, AckTail DEF IInv
    <3>2. CASE t = s
      <4>1. /\ Len(decStream') = n - 1
            /\ \A i \in 1 .. n - 1 : /\ decStream'[i] = decStream[i + 1] /\ i + 1 \in 2 .. n
                                     /\ IsAck(i, s)' = IsAck(i + 1, s)
            /\ \A i \in 2 .. n : i - 1 \in 1 .. n - 1 /\ (i - 1) + 1 = i
        BY <1>2 DEF TailRead
      <4>2. ASSUME NEW i \in 1 .. n - 1, IsAck(i, s)'
            PROVE  /\ decStream'[i].no \in (a + 1) + 1 .. hist.decoded[s]
                   /\ Tracks(s, decStream[i].no, decStream[i].ric)'
                   /\ decStream'[i].ric <= InsertCount(dec)
        <5>1. /\ i + 1 \in 1 .. n /\ 1 \in 1 .. n /\ 1 < i + 1 /\ IsAck(i + 1, s)
              /\ decStream'[i] = decStream[i + 1]
          BY <4>1, <4>2
        <5> DEFINE w == decStream[i + 1]
        <5>2. /\ w.no \in a + 1 .. hist.decoded[s] /\ Tracks(s, w.no, w.ric)
              /\ w.ric <= InsertCount(dec) /\ m.no < w.no
          BY <5>1, <1>3, <1>7, <1>10 DEF IInv, AckInv, m
        <5> HIDE DEF w
        <5>3. w.no \in Nat /\ w.no > a + 1 BY <5>2, <1>8, <1>12, <1>14
        <5>4. w.no \in (a + 1) + 1 .. hist.decoded[s] BY <5>2, <5>3, <1>8, <1>12
        <5>5. Tracks(s, w.no, w.ric)
          BY <5>2
        <5>6. Tracks(s, decStream[i].no, decStream[i].ric)'
          <6>1. PICK no, ric : no \in Nat /\ no = w.no /\ ric = w.ric BY <5>3
          <6>2. Tracks(s, no, ric)' BY <6>1, <5>3, <5>5, <1>30
          <6>3. decStream'[i].no = no /\ decStream'[i].ric = ric BY <5>1, <6>1 DEF w
          <6> QED BY <6>2, <6>3 DEF Tracks
        <5> QED BY <5>1, <5>2, <5>4, <5>6 DEF w
      <4>3. ASSUME NEW i \in 1 .. n - 1, NEW j \in 1 .. n - 1, i < j,
                   IsAck(i, s)', IsAck(j, s)'
            PROVE  decStream'[i].no < decStream'[j].no
        <5>1. i + 1 \in 1 .. n /\ j + 1 \in 1 .. n /\ i + 1 < j + 1 BY <4>1, <4>3
        <5> QED BY SMTT(30), <5>1, <4>1, <4>3, <1>3 DEF IInv, AckInv
      <4>4. ASSUME NEW x \in (a + 1) + 1 .. hist.decoded[s]
            PROVE  \E i \in 1 .. n - 1 : IsAck(i, s)' /\ decStream'[i].no = x
        <5>1. x \in a + 1 .. hist.decoded[s] /\ x # a + 1 BY <1>8, <1>12
        <5>2. PICK i \in 1 .. n : IsAck(i, s) /\ decStream[i].no = x
          BY <5>1, <1>3, <1>10, <1>13 DEF IInv, AckInv
        <5>3. i # 1 BY <5>1, <5>2, <1>14 DEF m
        <5>4. i \in 2 .. n BY <5>3
        <5> QED BY <5>2, <5>4, <4>1
      <4> QED BY <3>2, <4>1, <4>2, <4>3, <4>4, <1>13, <1>18, <1>29
    <3> QED BY <3>1, <3>2
  <2> QED BY <2>1 DEF AckInv
<1>33. CancelInv'
  <2>1. ASSUME NEW t \in Streams PROVE CancelInv!(t)'
    BY <1>2, <1>18, CancelTail DEF IInv
  <2> QED BY <2>1 DEF CancelInv
<1>34. IncrementInv' BY <1>1, <1>18, IncrementTail DEF IInv
<1>35. BlockedInv'
  <2>1. \A t \in Streams : enc'.unacked[t] # <<>> => enc.unacked[t] # <<>>
    BY <1>16, <1>22, <1>24
  <2> QED BY <2>1, <1>1, <1>24, BlockedShrinks DEF IInv
<1> QED BY <1>24, <1>26, <1>27, <1>28, <1>31, <1>32, <1>33, <1>34, <1>35 DEF IInv

-----------------------------------------------------------------------------
(* Decoding a section.                                                     *)

(* The request streams once the first section of stream s, of q, is gone.   *)
TailDecoded(s, q) ==
  /\ q = Len(reqs[s]) /\ Len(reqs'[s]) = q - 1
  /\ reqs' \in [Streams -> Seq(Section)]
  /\ \A t \in Streams : t # s => reqs'[t] = reqs[t]
  /\ \A i \in 1 .. q - 1 : reqs'[s][i] = reqs[s][i + 1] /\ i + 1 \in 2 .. q
  /\ \A i \in 2 .. q : i - 1 \in 1 .. q - 1 /\ (i - 1) + 1 = i

LEMMA RequestTail ==
  ASSUME TypeOK, NEW s \in Streams, reqs[s] # <<>>,
         reqs' = [reqs EXCEPT ![s] = Tail(@)]
  PROVE  Head(reqs[s]) = reqs[s][1] /\ \E q \in Nat \ {0} : TailDecoded(s, q)
<1>1. reqs \in [Streams -> Seq(Section)] /\ reqs[s] \in Seq(Section) BY DEF TypeOK
<1>2. PICK q \in Nat \ {0} : q = Len(reqs[s]) BY <1>1, TailFacts
<1>3. /\ Tail(reqs[s]) \in Seq(Section) /\ Len(Tail(reqs[s])) = q - 1
      /\ Head(reqs[s]) = reqs[s][1]
      /\ \A i \in 1 .. q - 1 : Tail(reqs[s])[i] = reqs[s][i + 1]
  BY <1>1, <1>2, TailFacts
<1>4. /\ reqs'[s] = Tail(reqs[s]) /\ reqs' \in [Streams -> Seq(Section)]
      /\ \A t \in Streams : t # s => reqs'[t] = reqs[t]
  BY <1>1, <1>3
<1>5. /\ \A i \in 1 .. q - 1 : i + 1 \in 2 .. q
      /\ \A i \in 2 .. q : i - 1 \in 1 .. q - 1 /\ (i - 1) + 1 = i
  OBVIOUS
<1> QED BY <1>2, <1>3, <1>4, <1>5 DEF TailDecoded

LEMMA SectionTail ==
  ASSUME SectionInv, NEW s \in Streams, NEW q \in Nat \ {0}, TailDecoded(s, q), enc' = enc
  PROVE  SectionInv'
<1>1. \A line, ric, h : LineOK(line, ric, h)' = LineOK(line, ric, h) BY DEF LineOK
<1>2. ASSUME NEW t \in Streams, NEW i \in 1 .. Len(reqs'[t])
      PROVE  \E j \in 1 .. Len(reqs[t]) : reqs'[t][i] = reqs[t][j]
  <2>1. CASE t # s BY <2>1 DEF TailDecoded
  <2>2. CASE t = s
    <3>1. i \in 1 .. q - 1 BY <2>2 DEF TailDecoded
    <3>2. i + 1 \in 1 .. Len(reqs[s]) /\ reqs'[s][i] = reqs[s][i + 1]
      BY <3>1 DEF TailDecoded
    <3> QED BY <2>2, <3>2
  <2> QED BY <2>1, <2>2
<1>3. ASSUME NEW t \in Streams, NEW i \in 1 .. Len(reqs'[t])
      PROVE  SectionInv!(t)!(i)'
  <2>1. PICK j \in 1 .. Len(reqs[t]) : reqs'[t][i] = reqs[t][j] BY <1>2
  <2> DEFINE sec == reqs[t][j]
  <2>2. /\ sec.wire = EncodeRIC(MaxCap, sec.ric)
        /\ sec.ric > 0 => sec.ric - 1 \in Live(enc.tab)
        /\ DOMAIN sec.lines = DOMAIN sec.hdrs
        /\ \A l \in DOMAIN sec.hdrs : LineOK(sec.lines[l], sec.ric, sec.hdrs[l])
    BY DEF SectionInv
  <2> QED BY <2>1, <2>2, <1>1
<1> QED BY <1>3 DEF SectionInv

(* The sections left on stream s keep their order and their tracking, and   *)
(* so do those of every other stream.                                      *)
LEMMA FlightTail ==
  ASSUME TypeOK, FlightInv, NEW s \in Streams, NEW q \in Nat \ {0}, TailDecoded(s, q),
         UNCHANGED <<enc, cancelled>>, hist'.sent = hist.sent,
         \A t \in Streams : t # s => hist'.decoded[t] = hist.decoded[t],
         \/ reqs[s][1].ric = 0 /\ hist'.decoded[s] = hist.decoded[s]
         \/ reqs[s][1].ric > 0 /\ hist'.decoded[s] = reqs[s][1].no
  PROVE  /\ FlightInv' /\ s \notin cancelled
         /\ reqs[s][1].ric > 0 => reqs[s][1].no = hist.decoded[s] + 1
<1>1. \A t \in Streams : Acked(t)' = Acked(t) BY DEF Acked
<1>2. \A t \in Streams : \A no, ric : Tracks(t, no, ric)' = Tracks(t, no, ric)
  BY <1>1 DEF Tracks
<1>3. /\ q = Len(reqs[s]) /\ Len(reqs'[s]) = q - 1
      /\ \A t \in Streams : t # s => reqs'[t] = reqs[t]
      /\ \A i \in 1 .. q - 1 : reqs'[s][i] = reqs[s][i + 1] /\ i + 1 \in 2 .. q
      /\ \A i \in 2 .. q : i - 1 \in 1 .. q - 1 /\ (i - 1) + 1 = i
  BY DEF TailDecoded
<1>15. \A i \in 1 .. q - 1 : reqs'[s][i] = reqs[s][i + 1] BY <1>3
<1>16. \A i \in 1 .. q - 1 : i + 1 \in 1 .. q /\ 1 < i + 1 OBVIOUS
<1>17. q = Len(reqs[s]) /\ Len(reqs'[s]) = q - 1 BY <1>3
<1>18. \A t \in Streams : t # s => reqs'[t] = reqs[t] BY <1>3
<1>4. s \notin cancelled
  <2>1. reqs[s] # <<>> BY <1>3
  <2> QED BY <2>1 DEF FlightInv
<1>5. hist.decoded[s] \in Nat /\ hist.sent[s] \in Nat BY StateTypes
<1>6. \A i \in 1 .. q : reqs[s][i].ric \in Nat /\ reqs[s][i].no \in Nat
  BY <1>3, SectionTypes
<1>7. 1 \in 1 .. q OBVIOUS
<1>8. ASSUME reqs[s][1].ric > 0 PROVE reqs[s][1].no = hist.decoded[s] + 1
  <2>1. reqs[s][1].no \in hist.decoded[s] + 1 .. hist.sent[s]
    BY <1>3, <1>7, <1>8 DEF FlightInv
  <2>2. hist.decoded[s] + 1 \in hist.decoded[s] + 1 .. hist.sent[s] BY <2>1, <1>5
  <2>3. PICK i \in 1 .. q : reqs[s][i].ric > 0 /\ reqs[s][i].no = hist.decoded[s] + 1
    BY SMTT(30), <2>2, <1>3, <1>4 DEF FlightInv
  <2>4. CASE i = 1 BY <2>3, <2>4
  <2>5. CASE i # 1
    <3>1. 1 < i BY <2>5
    <3>2. reqs[s][1].no < reqs[s][i].no BY <3>1, <2>3, <1>3, <1>7, <1>8 DEF FlightInv
    <3> QED BY <3>2, <2>1, <2>3, <1>5
  <2> QED BY <2>4, <2>5
<1>9. PICK d \in Nat : d = hist'.decoded[s] BY <1>5, <1>6, <1>7
<1>10. /\ hist.decoded[s] <= d /\ d <= hist.sent[s]
       /\ reqs[s][1].ric > 0 => d = reqs[s][1].no
       /\ reqs[s][1].ric = 0 => d = hist.decoded[s]
  <2>1. hist.decoded[s] <= hist.sent[s] BY DEF FlightInv
  <2>2. CASE reqs[s][1].ric > 0
    <3>1. reqs[s][1].no \in hist.decoded[s] + 1 .. hist.sent[s]
      BY <2>2, <1>3, <1>7 DEF FlightInv
    <3> QED BY <2>2, <3>1, <1>5, <1>6, <1>7, <1>9
  <2>3. CASE reqs[s][1].ric = 0 BY <2>1, <2>3, <1>5, <1>9
  <2> QED BY <2>2, <2>3, <1>6, <1>7
<1>11. ASSUME NEW i \in 1 .. q - 1, reqs'[s][i].ric > 0
       PROVE  /\ reqs'[s][i].no \in d + 1 .. hist.sent[s]
              /\ Tracks(s, reqs'[s][i].no, reqs'[s][i].ric)
  <2>1. reqs'[s][i] = reqs[s][i + 1] /\ i + 1 \in 1 .. q /\ 1 < i + 1 BY <1>15, <1>16
  <2> DEFINE w == reqs[s][i + 1]
  <2>2. w.no \in hist.decoded[s] + 1 .. hist.sent[s] /\ Tracks(s, w.no, w.ric)
    BY <2>1, <1>3, <1>11 DEF FlightInv
  <2>3. reqs[s][1].ric > 0 => reqs[s][1].no < w.no
    BY <2>1, <1>3, <1>7, <1>11 DEF FlightInv
  <2> HIDE DEF w
  <2>4. w.no \in d + 1 .. hist.sent[s] BY <2>2, <2>3, <1>5, <1>6, <1>7, <1>10
  <2> QED BY <2>1, <2>2, <2>4 DEF w
<1>12. ASSUME NEW i \in 1 .. q - 1, NEW j \in 1 .. q - 1, i < j,
              reqs'[s][i].ric > 0, reqs'[s][j].ric > 0
       PROVE  reqs'[s][i].no < reqs'[s][j].no
  <2>1. i + 1 \in 1 .. q /\ j + 1 \in 1 .. q /\ i + 1 < j + 1 BY <1>12, <1>16
  <2>2. reqs'[s][i] = reqs[s][i + 1] /\ reqs'[s][j] = reqs[s][j + 1] BY <1>15
  <2>3. reqs[s][i + 1].no < reqs[s][j + 1].no BY <2>1, <2>2, <1>12, <1>17 DEF FlightInv
  <2> QED BY <2>2, <2>3
<1>13. ASSUME NEW x \in d + 1 .. hist.sent[s]
       PROVE  \E i \in 1 .. q - 1 : reqs'[s][i].ric > 0 /\ reqs'[s][i].no = x
  <2>1. x \in hist.decoded[s] + 1 .. hist.sent[s] /\ x > d BY <1>5, <1>10
  <2>2. PICK i \in 1 .. q : reqs[s][i].ric > 0 /\ reqs[s][i].no = x
    BY <2>1, <1>3, <1>4 DEF FlightInv
  <2>3. i # 1
    <3>1. ASSUME i = 1 PROVE FALSE
      <4>1. reqs[s][1].ric > 0 /\ reqs[s][1].no = x /\ d = x BY <3>1, <2>2, <1>10
      <4> QED BY <4>1, <2>1, <1>9
    <3> QED BY <3>1
  <2>4. i - 1 \in 1 .. q - 1 /\ (i - 1) + 1 = i BY <2>3
  <2>5. reqs'[s][i - 1] = reqs[s][i] BY <2>4, <1>15
  <2> QED BY <2>2, <2>4, <2>5
<1>14. ASSUME NEW t \in Streams PROVE FlightInv!(t)'
  <2>1. FlightInv!(t) BY DEF FlightInv
  <2>2. CASE t # s
    <3>1. reqs'[t] = reqs[t] /\ hist'.decoded[t] = hist.decoded[t] BY <2>2, <1>18
    <3>2. \A i \in 1 .. Len(reqs[t]) : reqs[t][i].ric > 0 =>
              Tracks(t, reqs[t][i].no, reqs[t][i].ric)'
      BY <2>1, <3>1, <1>2
    <3> QED BY <2>1, <3>1, <3>2
  <2>3. CASE t = s
    <3>1. Len(enc.unacked[s]) <= hist.sent[s] BY <2>1, <2>3
    <3>2. \A i \in 1 .. Len(reqs'[s]) : reqs'[s][i].ric > 0 =>
              Tracks(s, reqs[s][i].no, reqs[s][i].ric)'
      BY <1>2, <1>17, <1>11
    <3> QED BY <2>3, <3>1, <3>2, <1>17, <1>4, <1>9, <1>10, <1>11, <1>12, <1>13
  <2> QED BY <2>2, <2>3
<1> QED BY <1>4, <1>8, <1>14 DEF FlightInv

LEMMA DecSectionInv ==
  ASSUME IInv, NEW s \in Streams, DecSection(s)
  PROVE  IInv'
<1> DEFINE sec == reqs[s][1]
<1>1. TypeOK /\ reqs[s] # <<>> /\ reqs' = [reqs EXCEPT ![s] = Tail(@)]
  BY DEF IInv, DecSection
<1>2. Head(reqs[s]) = sec /\ \E q \in Nat \ {0} : TailDecoded(s, q) BY <1>1, RequestTail
<1>3. PICK q \in Nat \ {0} : TailDecoded(s, q) BY <1>2
<1>4. 1 \in 1 .. Len(reqs[s]) BY <1>3 DEF TailDecoded
<1>5. sec.ric \in Nat /\ sec.no \in Nat BY <1>1, <1>4, SectionTypes
<1>6. DecodeRIC(MaxCap, InsertCount(dec), sec.wire) = sec.ric BY <1>4, SectionRIC
<1>7. dec \in Table /\ Len(dec.log) \in Nat /\ told \in Nat /\ hist.incs \in Nat
  BY <1>1, StateTypes, TableFields DEF TypeOK
<1>8. sec.ric <= Len(dec.log)
  <2>1. ~IsBlocked(dec, sec) BY <1>2 DEF DecSection
  <2> QED BY <2>1, <1>5, <1>6, <1>7 DEF IsBlocked, InsertCount
<1>9. Decodes(dec, sec) BY <1>4, <1>8, SectionDecodes DEF InsertCount
<1>10. /\ err' = err
       /\ IF sec.ric > 0
          THEN /\ decStream' = Append(decStream,
                      [op |-> "ack", stream |-> s, ric |-> sec.ric, no |-> sec.no])
               /\ told' = Larger(told, sec.ric)
               /\ hist' = [hist EXCEPT !.decoded[s] = sec.no]
          ELSE UNCHANGED <<told, decStream, hist>>
       /\ UNCHANGED <<enc, rcvd, encStream, dec, cancelled>>
  BY <1>2, <1>6, <1>9 DEF DecSection
<1>11. NoConnectionError' BY <1>10 DEF IInv, NoConnectionError
<1>12. ReplayInv' BY <1>1, <1>10, StateTypes, ReplayFrame DEF IInv
<1>13. EvictionInv' BY <1>10 DEF IInv, EvictionInv
<1>14. SectionInv' BY <1>3, <1>10, SectionTail DEF IInv
<1>15. BlockedInv' BY <1>10, BlockedFrame DEF IInv
<1>16. reqs' \in [Streams -> Seq(Section)] BY <1>3 DEF TailDecoded
<1>17. CASE sec.ric = 0
  <2>1. UNCHANGED <<told, decStream, hist>> BY <1>10, <1>17
  <2>2. TypeOK' BY <1>1, <1>10, <1>16, <2>1 DEF TypeOK
  <2>3. FlightInv' BY <1>1, <1>3, <1>10, <1>17, <2>1, FlightTail DEF IInv
  <2>4. AckInv' BY <1>10, <2>1, AckFrame DEF IInv
  <2>5. CancelInv' BY <1>10, <2>1, CancelFrame DEF IInv
  <2>6. IncrementInv' BY <1>10, <2>1, IncrementFrame DEF IInv
  <2> QED BY <1>11, <1>12, <1>13, <1>14, <1>15, <2>2, <2>3, <2>4, <2>5, <2>6 DEF IInv
<1>18. CASE sec.ric > 0
  <2>1. PICK r \in Nat \ {0}, no \in Nat : r = sec.ric /\ no = sec.no BY <1>5, <1>18
  <2> DEFINE m == [op |-> "ack", stream |-> s, ric |-> r, no |-> no]
  <2>2. /\ decStream' = Append(decStream, m) /\ told' = Larger(told, r)
        /\ hist' = [hist EXCEPT !.decoded[s] = no]
    BY <1>10, <1>18, <2>1
  <2>3. m \in DecMessage BY DEF DecMessage
  <2>4. m.op = "ack" /\ m.stream = s /\ m.ric = r /\ m.no = no OBVIOUS
  <2> HIDE DEF m
  <2>5. PICK n \in Nat : n = Len(decStream) BY <1>1 DEF TypeOK
  <2>6. /\ decStream' \in Seq(DecMessage) /\ Len(decStream') = n + 1
        /\ decStream'[n + 1] = m /\ \A k \in 1 .. n : decStream'[k] = decStream[k]
    BY <1>1, <2>2, <2>3, <2>5, AppendFacts DEF TypeOK
  <2>7. /\ hist' \in [all : [Streams -> Nat], sent : [Streams -> Nat],
                      decoded : [Streams -> Nat], released : SUBSET Streams,
                      incs : Nat, caps : Nat]
        /\ hist'.sent = hist.sent /\ hist'.released = hist.released
        /\ hist'.incs = hist.incs /\ hist'.decoded[s] = no
        /\ \A t \in Streams : t # s => hist'.decoded[t] = hist.decoded[t]
    BY <1>1, <2>2 DEF TypeOK
  <2>8. told' \in Nat /\ told <= told' /\ told' <= Len(dec.log)
    <3>1. told <= Len(dec.log) /\ r <= Len(dec.log)
      BY <1>8, <2>1 DEF IInv, IncrementInv, InsertCount
    <3> QED BY <3>1, <2>2, <1>7 DEF Larger
  <2>9. TypeOK' BY <1>1, <1>10, <1>16, <2>6, <2>7, <2>8 DEF TypeOK
  <2>10. FlightInv' /\ s \notin cancelled /\ no = hist.decoded[s] + 1
    BY <1>1, <1>3, <1>10, <1>18, <2>1, <2>7, FlightTail DEF IInv
  <2>11. ASSUME NEW k \in 1 .. n + 1, NEW t \in Streams
         PROVE  /\ k \in 1 .. n => /\ IsAck(k, t)' = IsAck(k, t)
                                   /\ IsCancel(k, t)' = IsCancel(k, t)
                /\ k = n + 1 => ~IsCancel(k, t)' /\ (IsAck(k, t)' <=> t = s)
    BY <2>4, <2>6 DEF IsAck, IsCancel
  <2>12. \A t \in Streams : Acked(t)' = Acked(t) BY <1>10, <2>7 DEF Acked
  <2>13. \A t \in Streams : \A no1, ric : Tracks(t, no1, ric)' = Tracks(t, no1, ric)
    BY <1>10, <2>12 DEF Tracks
  <2>14. s \notin hist.released BY <2>10 DEF IInv, CancelInv
  <2>15. hist.decoded[s] \in Nat /\ hist.sent[s] \in Nat /\ Len(enc.unacked[s]) \in Nat
    BY <1>1, StateTypes
  <2>16. Tracks(s, no, r) BY <1>4, <1>18, <2>1 DEF IInv, FlightInv
  <2>17. PICK a \in Int : a = Acked(s) BY <2>15 DEF Acked
  <2>18. no >= a + 1
    <3>1. no - a \in 1 .. Len(enc.unacked[s]) BY <2>16, <2>17 DEF Tracks
    <3> QED BY <3>1, <2>15
  <2>19. AckInv'
    <3>1. ASSUME NEW t \in Streams PROVE AckInv!(t)'
      <4>0. AckInv!(t) BY DEF IInv, AckInv
      <4>1. CASE t # s
        <5>1. \A k \in 1 .. n + 1 : IsAck(k, t)' <=> k \in 1 .. n /\ IsAck(k, t)
          BY <4>1, <2>11
        <5>2. ASSUME NEW k \in 1 .. n + 1, IsAck(k, t)'
              PROVE  /\ t \notin hist.released
                     /\ decStream'[k].no \in Acked(t) + 1 .. hist.decoded[t]
                     /\ Tracks(t, decStream'[k].no, decStream'[k].ric)
                     /\ decStream'[k].ric <= InsertCount(dec)
          BY <4>0, <5>1, <5>2, <2>5, <2>6
        <5>3. ASSUME NEW k \in 1 .. n + 1, NEW l \in 1 .. n + 1, k < l,
                     IsAck(k, t)', IsAck(l, t)'
              PROVE  decStream'[k].no < decStream'[l].no
          BY <4>0, <5>1, <5>3, <2>5, <2>6
        <5>4. ASSUME t \notin hist.released, NEW x \in Acked(t) + 1 .. hist.decoded[t]
              PROVE  \E k \in 1 .. n + 1 : IsAck(k, t)' /\ decStream'[k].no = x
          <6>1. PICK k \in 1 .. n : IsAck(k, t) /\ decStream[k].no = x
            BY <4>0, <5>4, <2>5
          <6> QED BY <6>1, <5>1, <2>6
        <5>5. hist'.decoded[t] = hist.decoded[t] BY <4>1, <2>7
        <5> QED BY SMTT(30), <5>2, <5>3, <5>4, <5>5, <1>10, <2>6, <2>7, <2>12, <2>13
      <4>2. CASE t = s
        <5>0. /\ \A k \in 1 .. n : IsAck(k, s)' = IsAck(k, s) /\ decStream'[k] = decStream[k]
              /\ IsAck(n + 1, s)' /\ decStream'[n + 1].no = no /\ decStream'[n + 1].ric = r
          <6>1. n + 1 \in 1 .. n + 1 /\ \A k \in 1 .. n : k \in 1 .. n + 1 OBVIOUS
          <6>2. \A k \in 1 .. n : IsAck(k, s)' = IsAck(k, s) BY <6>1, <2>11
          <6>3. IsAck(n + 1, s)' BY <6>1, <2>11
          <6> QED BY <6>2, <6>3, <2>4, <2>6
        <5>1. ASSUME NEW k \in 1 .. n, IsAck(k, s)
              PROVE  /\ decStream[k].no \in a + 1 .. hist.decoded[s]
                     /\ Tracks(s, decStream[k].no, decStream[k].ric)
                     /\ decStream[k].ric <= InsertCount(dec)
          BY <4>0, <4>2, <5>1, <2>5, <2>17
        <5>2. ASSUME NEW k \in 1 .. n + 1, IsAck(k, s)'
              PROVE  /\ decStream'[k].no \in a + 1 .. no
                     /\ Tracks(s, decStream'[k].no, decStream'[k].ric)
                     /\ decStream'[k].ric <= InsertCount(dec)
          <6>1. CASE k \in 1 .. n
            <7>1. /\ decStream'[k].no \in a + 1 .. hist.decoded[s]
                  /\ Tracks(s, decStream'[k].no, decStream'[k].ric)
                  /\ decStream'[k].ric <= InsertCount(dec)
              BY <5>0, <5>1, <5>2, <6>1
            <7> QED BY <7>1, <2>10, <2>15
          <6>2. CASE k = n + 1
            <7>1. no \in a + 1 .. no BY <2>18
            <7> QED BY <7>1, <6>2, <5>0, <2>1, <2>16, <1>8 DEF InsertCount
          <6> QED BY <6>1, <6>2
        <5>3. ASSUME NEW k \in 1 .. n + 1, NEW l \in 1 .. n + 1, k < l,
                     IsAck(k, s)', IsAck(l, s)'
              PROVE  decStream'[k].no < decStream'[l].no
          <6>0. k \in 1 .. n BY <5>3
          <6>1. CASE l \in 1 .. n
            BY <4>0, <4>2, <5>0, <5>3, <6>0, <6>1, <2>5
          <6>2. CASE l = n + 1
            <7>1. decStream'[k].no \in a + 1 .. hist.decoded[s] BY <5>0, <5>1, <5>3, <6>0
            <7> QED BY <7>1, <5>0, <6>2, <2>10, <2>15
          <6> QED BY <6>1, <6>2
        <5>4. ASSUME NEW x \in a + 1 .. no
              PROVE  \E k \in 1 .. n + 1 : IsAck(k, s)' /\ decStream'[k].no = x
          <6>1. CASE x = no
            <7>1. n + 1 \in 1 .. n + 1 OBVIOUS
            <7> QED BY <6>1, <7>1, <5>0
          <6>2. CASE x # no
            <7>1. x \in a + 1 .. hist.decoded[s] BY <6>2, <2>10, <2>15
            <7>2. PICK k \in 1 .. n : IsAck(k, s) /\ decStream[k].no = x
              BY <4>0, <4>2, <7>1, <2>5, <2>14, <2>17
            <7> QED BY <7>2, <5>0
          <6> QED BY <6>1, <6>2
        <5>5. \A k \in 1 .. n + 1 : IsAck(k, s)' => Tracks(s, decStream[k].no, decStream[k].ric)'
          BY <5>2, <2>13
        <5>6. Acked(s)' = a BY <2>12, <2>17
        <5>7. hist'.decoded[s] = no /\ hist'.released = hist.released BY <2>7
        <5>8. Len(decStream') = n + 1 /\ dec' = dec BY <2>6, <1>10
        <5> QED BY <4>2, <5>2, <5>3, <5>4, <5>5, <5>6, <5>7, <5>8, <2>14
      <4> QED BY <4>1, <4>2
    <3> QED BY <3>1 DEF AckInv
  <2>20. CancelInv'
    <3>1. ASSUME NEW t \in Streams, NEW k \in 1 .. n + 1, IsCancel(k, t)'
          PROVE  /\ t \in cancelled \ hist.released
                 /\ \A j \in k + 1 .. n + 1 : ~IsAck(j, t)' /\ ~IsCancel(j, t)'
      <4>1. k \in 1 .. n /\ IsCancel(k, t) BY <3>1, <2>11
      <4>2. /\ t \in cancelled \ hist.released
            /\ \A j \in k + 1 .. n : ~IsAck(j, t) /\ ~IsCancel(j, t)
        BY <4>1, <2>5 DEF IInv, CancelInv
      <4>3. t # s BY <4>2, <2>10
      <4>4. ASSUME NEW j \in k + 1 .. n + 1 PROVE ~IsAck(j, t)' /\ ~IsCancel(j, t)'
        <5>1. j \in 1 .. n + 1 BY <4>1
        <5> QED BY <5>1, <4>1, <4>2, <4>3, <2>11
      <4> QED BY <4>2, <4>4
    <3> QED BY <3>1, <1>10, <2>6, <2>7 DEF IInv, CancelInv
  <2>21. IncrementInv'
    <3>1. ASSUME NEW k \in 1 .. n + 1, decStream'[k].op = "increment"
          PROVE  k \in 1 .. n /\ decStream'[k] = decStream[k]
      BY <3>1, <2>4, <2>6
    <3>2. hist.incs <= told' BY <2>8, <1>7 DEF IInv, IncrementInv
    <3> QED BY <3>1, <3>2, <1>10, <2>5, <2>6, <2>7, <2>8 DEF IInv, IncrementInv, InsertCount
  <2> QED BY <1>11, <1>12, <1>13, <1>14, <1>15, <2>9, <2>10, <2>19, <2>20, <2>21 DEF IInv
<1> QED BY <1>5, <1>17, <1>18

-----------------------------------------------------------------------------
(* Encoding a section.                                                     *)

(* What find_entry answers is a live entry of that header or that name.     *)
LEMMA MatchFacts ==
  ASSUME TypeOK, NEW h \in Headers
  PROVE  /\ Match(h) = 0 \/ Match(h) - 1 \in Live(enc.tab)
         /\ Match(h) \in Nat
         /\ ExactMatches(enc.tab, h) # {} =>
               LET x == Newest(ExactMatches(enc.tab, h))
               IN  x \in Live(enc.tab) /\ Entry(enc.tab, x) = h /\ Match(h) = x + 1
         /\ ExactMatches(enc.tab, h) = {} /\ NameMatches(enc.tab, h) # {} =>
               LET x == Newest(NameMatches(enc.tab, h))
               IN  x \in Live(enc.tab) /\ Entry(enc.tab, x).name = h.name /\ Match(h) = x + 1
<1> DEFINE X == ExactMatches(enc.tab, h)
           N == NameMatches(enc.tab, h)
<1>1. enc.tab \in Table BY StateTypes
<1>2. enc.tab.drop \in Nat /\ Len(enc.tab.log) \in Nat BY <1>1, TableFields
<1>3. Live(enc.tab) \subseteq 0 .. Len(enc.tab.log) BY <1>2 DEF Live, InsertCount
<1>4. /\ X \subseteq Live(enc.tab) /\ \A i \in X : Entry(enc.tab, i) = h
      /\ N \subseteq Live(enc.tab) /\ \A i \in N : Entry(enc.tab, i).name = h.name
  BY DEF ExactMatches, NameMatches
<1>5. Match(h) = IF X # {} THEN Newest(X) + 1 ELSE IF N # {} THEN Newest(N) + 1 ELSE 0
  BY DEF Match
<1> HIDE DEF X, N
<1>6. X # {} => Newest(X) \in X BY <1>2, <1>3, <1>4, NewestMax
<1>7. N # {} => Newest(N) \in N BY <1>2, <1>3, <1>4, NewestMax
<1>8. \A x \in Live(enc.tab) : x \in Nat /\ (x + 1) - 1 = x BY <1>2, <1>3
<1>9. X # {} => /\ Newest(X) \in Live(enc.tab) /\ Entry(enc.tab, Newest(X)) = h
                /\ Match(h) = Newest(X) + 1 /\ Match(h) - 1 = Newest(X) /\ Match(h) \in Nat
  BY <1>4, <1>5, <1>6, <1>8
<1>10. X = {} /\ N # {} =>
          /\ Newest(N) \in Live(enc.tab) /\ Entry(enc.tab, Newest(N)).name = h.name
          /\ Match(h) = Newest(N) + 1 /\ Match(h) - 1 = Newest(N) /\ Match(h) \in Nat
  BY <1>4, <1>5, <1>7, <1>8
<1>11. X = {} /\ N = {} => Match(h) = 0 BY <1>5
<1> QED BY <1>9, <1>10, <1>11 DEF X, N

(* A section encoded now refers to live entries only, below its Required    *)
(* Insert Count, and stands for its headers.                               *)
LEMMA SectionEncoding ==
  ASSUME IInv, NEW hs \in Seq(Headers), NEW ric, ric = RequiredInsertCount(hs)
  PROVE  /\ ric \in Nat /\ ric <= Len(enc.tab.log)
         /\ ric > 0 => UsesDynamic /\ ric - 1 \in Live(enc.tab)
         /\ EncodeRIC(enc.max, ric) = EncodeRIC(MaxCap, ric)
         /\ EncodeRIC(enc.max, ric) \in Nat
         /\ \A i \in DOMAIN hs : /\ EncodeLine(hs[i], ric) \in Line
                                 /\ LineOK(EncodeLine(hs[i], ric), ric, hs[i])
<1>1. TypeOK BY DEF IInv
<1>2. enc.tab \in Table /\ enc.max \in {0, MaxCap} BY <1>1, StateTypes
<1>3. enc.tab.drop \in Nat /\ Len(enc.tab.log) \in Nat BY <1>2, TableFields
<1>4. \A i \in DOMAIN hs : hs[i] \in Headers OBVIOUS
<1> DEFINE M == {Match(hs[i]) : i \in DOMAIN hs}
<1>5. M \subseteq 0 .. Len(enc.tab.log)
  <2>1. ASSUME NEW i \in DOMAIN hs PROVE Match(hs[i]) \in 0 .. Len(enc.tab.log)
    <3>1. Match(hs[i]) \in Nat /\ (Match(hs[i]) = 0 \/ Match(hs[i]) - 1 \in Live(enc.tab))
      BY <1>1, <1>4, MatchFacts
    <3> QED BY <3>1, <1>3 DEF Live, InsertCount
  <2> QED BY <2>1
<1>6. CASE ~(UsesDynamic /\ hs # <<>>)
  <2>1. ric = 0 BY <1>6 DEF RequiredInsertCount
  <2>2. EncodeRIC(enc.max, ric) = 0 /\ EncodeRIC(MaxCap, ric) = 0 BY <2>1 DEF EncodeRIC
  <2>3. ASSUME NEW i \in DOMAIN hs
        PROVE  EncodeLine(hs[i], ric) = [kind |-> "literal", hdr |-> hs[i]]
    <3>1. hs # <<>> OBVIOUS
    <3> QED BY <3>1, <1>6 DEF EncodeLine
  <2>4. ASSUME NEW i \in DOMAIN hs
        PROVE  /\ EncodeLine(hs[i], ric) \in Line
               /\ LineOK(EncodeLine(hs[i], ric), ric, hs[i])
    BY <2>3, <1>4 DEF Line, LineOK
  <2> QED BY <2>1, <2>2, <2>4, <1>3
<1>7. CASE UsesDynamic /\ hs # <<>>
  <2>1. M # {}
    <3>1. 1 \in DOMAIN hs BY <1>7
    <3> QED BY <3>1
  <2>2. ric = Newest(M) BY <1>7 DEF RequiredInsertCount
  <2>3. ric \in M /\ \A i \in DOMAIN hs : Match(hs[i]) <= ric
    <3>1. Newest(M) \in M /\ \A j \in M : j <= Newest(M) BY <1>3, <1>5, <2>1, NewestMax
    <3> QED BY <3>1, <2>2
  <2>4. ric \in Nat /\ ric <= Len(enc.tab.log) BY <1>3, <1>5, <2>3
  <2>5. ric > 0 => ric - 1 \in Live(enc.tab)
    <3>1. PICK i \in DOMAIN hs : ric = Match(hs[i]) BY <2>3
    <3>2. Match(hs[i]) = 0 \/ Match(hs[i]) - 1 \in Live(enc.tab) BY <1>1, <1>4, MatchFacts
    <3> QED BY <3>1, <3>2
  <2>6. enc.max = MaxCap BY <1>2, <1>7 DEF UsesDynamic
  <2>7. EncodeRIC(MaxCap, ric) \in Nat
    <3>1. MaxCap \in Nat /\ MaxEntries(MaxCap) \in Nat
      BY SyncAssumption DEF MaxEntries, ENTRY_OVERHEAD
    <3>2. CASE MaxEntries(MaxCap) = 0 BY <3>2 DEF EncodeRIC
    <3>3. CASE MaxEntries(MaxCap) # 0
      <4>1. PICK f \in Nat \ {0} : f = 2 * MaxEntries(MaxCap) BY <3>1, <3>3
      <4>2. ric % f \in Nat BY <4>1, <2>4
      <4>3. (ric % f) + 1 \in Nat BY <4>2
      <4> QED BY <4>1, <4>3 DEF EncodeRIC
    <3> QED BY <3>2, <3>3
  <2>8. ASSUME NEW i \in DOMAIN hs
        PROVE  /\ EncodeLine(hs[i], ric) \in Line
               /\ LineOK(EncodeLine(hs[i], ric), ric, hs[i])
    <3> DEFINE h == hs[i]
               X == ExactMatches(enc.tab, h)
               N == NameMatches(enc.tab, h)
               line == EncodeLine(h, ric)
    <3>1. h \in Headers /\ h.value \in Values BY <1>4 DEF Values
    <3>2. Match(h) <= ric BY <2>3
    <3>3. ASSUME NEW x \in Live(enc.tab), Match(h) = x + 1
          PROVE  ric - x - 1 \in Nat /\ ric - x - 1 < ric /\ ric - (ric - x - 1) - 1 = x
      <4>1. x \in Nat BY <1>3 DEF Live
      <4> QED BY <4>1, <3>2, <3>3, <2>4
    <3> HIDE DEF h
    <3>4. CASE X # {}
      <4>1. PICK x : x = Newest(X) OBVIOUS
      <4>2. x \in Live(enc.tab) /\ Entry(enc.tab, x) = h /\ Match(h) = x + 1
        BY <4>1, <3>1, <3>4, <1>1, MatchFacts
      <4>3. line = [kind |-> "indexed", rel |-> ric - x - 1]
        BY <4>1, <3>4, <1>7 DEF EncodeLine
      <4>4. PICK rel \in Nat : rel = ric - x - 1 /\ rel < ric /\ ric - rel - 1 = x
        BY <4>2, <3>3
      <4>5. line \in Line BY <4>3, <4>4 DEF Line
      <4>6. LineOK(line, ric, h) BY <4>2, <4>3, <4>4 DEF LineOK
      <4> QED BY <4>5, <4>6 DEF h
    <3>5. CASE X = {} /\ h \notin StaticHeaders /\ N # {}
      <4>1. PICK x : x = Newest(N) OBVIOUS
      <4>2. x \in Live(enc.tab) /\ Entry(enc.tab, x).name = h.name /\ Match(h) = x + 1
        BY <4>1, <3>1, <3>5, <1>1, MatchFacts
      <4>3. line = [kind |-> "nameref", value |-> h.value, rel |-> ric - x - 1]
        BY <4>1, <3>5, <1>7 DEF EncodeLine
      <4>4. PICK rel \in Nat : rel = ric - x - 1 /\ rel < ric /\ ric - rel - 1 = x
        BY <4>2, <3>3
      <4>5. line \in Line BY <4>3, <4>4, <3>1 DEF Line
      <4>6. LineOK(line, ric, h) BY <4>2, <4>3, <4>4 DEF LineOK
      <4> QED BY <4>5, <4>6 DEF h
    <3>6. CASE X = {} /\ ~(h \notin StaticHeaders /\ N # {})
      <4>1. line = [kind |-> "literal", hdr |-> h] BY <3>6 DEF EncodeLine
      <4>2. line \in Line /\ LineOK(line, ric, h) BY <4>1, <3>1 DEF Line, LineOK
      <4> QED BY <4>2 DEF h
    <3> QED BY <3>4, <3>5, <3>6
  <2> QED BY <2>4, <2>5, <2>6, <2>7, <2>8, <1>7
<1> QED BY <1>6, <1>7

(* The request streams once section sec has been sent on stream s: it       *)
(* arrives unless the peer has abandoned the stream.                       *)
Sent(s, sec) ==
  /\ reqs' \in [Streams -> Seq(Section)]
  /\ \A t \in Streams : t # s => reqs'[t] = reqs[t]
  /\ s \in cancelled => reqs'[s] = reqs[s]
  /\ s \notin cancelled => /\ Len(reqs'[s]) = Len(reqs[s]) + 1
                           /\ reqs'[s][Len(reqs[s]) + 1] = sec
                           /\ \A i \in 1 .. Len(reqs[s]) : reqs'[s][i] = reqs[s][i]

LEMMA SendSection ==
  ASSUME TypeOK, NEW s \in Streams, NEW sec \in Section,
         reqs' = IF s \in cancelled THEN reqs ELSE [reqs EXCEPT ![s] = Append(@, sec)]
  PROVE  Sent(s, sec)
<1>1. reqs \in [Streams -> Seq(Section)] /\ reqs[s] \in Seq(Section) BY DEF TypeOK
<1>2. /\ Append(reqs[s], sec) \in Seq(Section)
      /\ Len(Append(reqs[s], sec)) = Len(reqs[s]) + 1
      /\ Append(reqs[s], sec)[Len(reqs[s]) + 1] = sec
      /\ \A k \in 1 .. Len(reqs[s]) : Append(reqs[s], sec)[k] = reqs[s][k]
  BY <1>1, AppendFacts
<1>3. CASE s \in cancelled BY <1>1, <1>3 DEF Sent
<1>4. CASE s \notin cancelled
  <2>1. /\ reqs' \in [Streams -> Seq(Section)] /\ reqs'[s] = Append(reqs[s], sec)
        /\ \A t \in Streams : t # s => reqs'[t] = reqs[t]
    BY <1>1, <1>2, <1>4
  <2> QED BY <2>1, <1>2, <1>4 DEF Sent
<1> QED BY <1>3, <1>4

LEMMA SectionSent ==
  ASSUME TypeOK, SectionInv, NEW s \in Streams, NEW sec \in Section, Sent(s, sec),
         enc'.tab.log = enc.tab.log, enc'.tab.drop = enc.tab.drop,
         sec.wire = EncodeRIC(MaxCap, sec.ric),
         sec.ric > 0 => sec.ric - 1 \in Live(enc.tab),
         DOMAIN sec.lines = DOMAIN sec.hdrs,
         \A j \in DOMAIN sec.hdrs : LineOK(sec.lines[j], sec.ric, sec.hdrs[j])
  PROVE  SectionInv'
<1>1. Live(enc'.tab) = Live(enc.tab) /\ \A a : Entry(enc'.tab, a) = Entry(enc.tab, a)
  BY DEF Live, Entry, InsertCount
<1>2. \A line, ric, h : LineOK(line, ric, h)' = LineOK(line, ric, h) BY <1>1 DEF LineOK
<1>3. ASSUME NEW t \in Streams, NEW i \in 1 .. Len(reqs'[t])
      PROVE  reqs'[t][i] = sec \/ \E j \in 1 .. Len(reqs[t]) : reqs'[t][i] = reqs[t][j]
  <2>1. Len(reqs[s]) \in Nat BY StateTypes
  <2>2. CASE t # s \/ s \in cancelled BY <2>2 DEF Sent
  <2>3. CASE t = s /\ s \notin cancelled
    <3>1. i \in 1 .. Len(reqs[s]) + 1 BY <2>3 DEF Sent
    <3> QED BY <2>1, <2>3, <3>1 DEF Sent
  <2> QED BY <2>2, <2>3
<1>4. ASSUME NEW t \in Streams, NEW i \in 1 .. Len(reqs'[t]) PROVE SectionInv!(t)!(i)'
  <2>1. CASE reqs'[t][i] = sec BY <2>1, <1>1, <1>2
  <2>2. CASE \E j \in 1 .. Len(reqs[t]) : reqs'[t][i] = reqs[t][j]
    <3>1. PICK j \in 1 .. Len(reqs[t]) : reqs'[t][i] = reqs[t][j] BY <2>2
    <3> DEFINE w == reqs[t][j]
    <3>2. /\ w.wire = EncodeRIC(MaxCap, w.ric)
          /\ w.ric > 0 => w.ric - 1 \in Live(enc.tab)
          /\ DOMAIN w.lines = DOMAIN w.hdrs
          /\ \A l \in DOMAIN w.hdrs : LineOK(w.lines[l], w.ric, w.hdrs[l])
      BY DEF SectionInv
    <3> QED BY <3>1, <3>2, <1>1, <1>2
  <2> QED BY <2>1, <2>2, <1>3
<1> QED BY <1>4 DEF SectionInv

LEMMA FlightSent ==
  ASSUME TypeOK, FlightInv, NEW s \in Streams, NEW sec \in Section, Sent(s, sec),
         cancelled' = cancelled, hist'.decoded = hist.decoded,
         \A t \in Streams : Len(enc'.unacked[t]) <= hist'.sent[t],
         \A t \in Streams : t # s => hist'.sent[t] = hist.sent[t],
         \A t \in Streams : \A no, ric : Tracks(t, no, ric) => Tracks(t, no, ric)',
         \/ sec.ric = 0 /\ hist'.sent[s] = hist.sent[s]
         \/ /\ sec.ric > 0 /\ hist'.sent[s] = hist.sent[s] + 1
            /\ sec.no = hist.sent[s] + 1 /\ Tracks(s, sec.no, sec.ric)'
  PROVE  FlightInv'
<1>1. ASSUME NEW t \in Streams, t # s PROVE FlightInv!(t)'
  <2>1. FlightInv!(t) BY DEF FlightInv
  <2>2. reqs'[t] = reqs[t] /\ hist'.sent[t] = hist.sent[t] BY <1>1 DEF Sent
  <2>3. \A i \in 1 .. Len(reqs[t]) : reqs[t][i].ric > 0 =>
            Tracks(t, reqs[t][i].no, reqs[t][i].ric)'
    <3>1. ASSUME NEW i \in 1 .. Len(reqs[t]), reqs[t][i].ric > 0
          PROVE  Tracks(t, reqs[t][i].no, reqs[t][i].ric)'
      <4>1. PICK no, ric : no = reqs[t][i].no /\ ric = reqs[t][i].ric OBVIOUS
      <4>2. Tracks(t, no, ric)' BY <2>1, <3>1, <4>1
      <4> QED BY <2>2, <4>1, <4>2 DEF Tracks
    <3> QED BY <3>1
  <2> QED BY <2>1, <2>2, <2>3
<1>2. FlightInv!(s)'
  <2>1. FlightInv!(s) BY DEF FlightInv
  <2>2. hist.decoded[s] \in Nat /\ hist.sent[s] \in Nat /\ hist'.sent[s] \in Nat
    BY StateTypes
  <2>3. hist.decoded[s] <= hist'.sent[s] /\ hist.sent[s] <= hist'.sent[s] BY <2>1, <2>2
  <2>4. PICK n \in Nat : n = Len(reqs[s]) BY StateTypes
  <2>5. sec.ric \in Nat /\ sec.no \in Nat BY DEF Section
  <2>6. ASSUME NEW i \in 1 .. n, reqs'[s][i] = reqs[s][i], reqs[s][i].ric > 0
        PROVE  /\ reqs[s][i].no \in hist.decoded[s] + 1 .. hist'.sent[s]
               /\ Tracks(s, reqs[s][i].no, reqs[s][i].ric)'
               /\ reqs[s][i].no <= hist.sent[s]
    <3>1. PICK no, ric : no = reqs[s][i].no /\ ric = reqs[s][i].ric OBVIOUS
    <3>2. no \in hist.decoded[s] + 1 .. hist.sent[s] /\ Tracks(s, no, ric)
      BY <2>1, <2>4, <2>6, <3>1
    <3>3. no \in hist.decoded[s] + 1 .. hist'.sent[s] /\ no <= hist.sent[s]
      BY <3>2, <2>2, <2>3
    <3>4. Tracks(s, no, ric)' BY <3>2
    <3> QED BY <2>6, <3>1, <3>3, <3>4 DEF Tracks
  <2>7. CASE s \in cancelled
    <3>1. reqs'[s] = reqs[s] /\ reqs[s] = <<>> /\ Len(reqs[s]) = 0
      BY <2>1, <2>7 DEF Sent
    <3> QED BY <2>3, <2>7, <3>1
  <2>8. CASE s \notin cancelled
    <3>1. /\ Len(reqs'[s]) = n + 1 /\ reqs'[s][n + 1] = sec
          /\ \A i \in 1 .. n : reqs'[s][i] = reqs[s][i]
      BY <2>4, <2>8 DEF Sent
    <3>2. ASSUME NEW i \in 1 .. n + 1, reqs'[s][i].ric > 0
          PROVE  /\ reqs'[s][i].no \in hist.decoded[s] + 1 .. hist'.sent[s]
                 /\ Tracks(s, reqs[s][i].no, reqs[s][i].ric)'
                 /\ i \in 1 .. n => reqs'[s][i].no <= hist.sent[s]
      <4>1. CASE i \in 1 .. n BY <2>6, <3>1, <3>2, <4>1
      <4>2. CASE i = n + 1
        <5>1. sec.ric > 0 /\ hist'.sent[s] = hist.sent[s] + 1
              /\ sec.no = hist.sent[s] + 1 /\ Tracks(s, sec.no, sec.ric)'
          BY <3>1, <3>2, <4>2, <2>5
        <5>2. sec.no \in hist.decoded[s] + 1 .. hist'.sent[s] BY <5>1, <2>1, <2>2
        <5>3. Tracks(s, reqs[s][i].no, reqs[s][i].ric)' BY <5>1, <3>1, <4>2 DEF Tracks
        <5> QED BY <5>2, <5>3, <3>1, <4>2
      <4> QED BY <4>1, <4>2
    <3>3. ASSUME NEW i \in 1 .. n + 1, NEW j \in 1 .. n + 1, i < j,
                 reqs'[s][i].ric > 0, reqs'[s][j].ric > 0
          PROVE  reqs'[s][i].no < reqs'[s][j].no
      <4>0. i \in 1 .. n BY <3>3
      <4>1. CASE j \in 1 .. n BY <2>1, <2>4, <3>1, <3>3, <4>0, <4>1
      <4>2. CASE j = n + 1
        <5>1. reqs'[s][j].no = hist.sent[s] + 1 BY <3>1, <3>3, <4>2, <2>5
        <5>2. /\ reqs'[s][i].no \in hist.decoded[s] + 1 .. hist'.sent[s]
              /\ reqs'[s][i].no <= hist.sent[s]
          BY <3>2, <3>3, <4>0
        <5> QED BY <5>1, <5>2, <2>2
      <4> QED BY <4>1, <4>2
    <3>4. ASSUME NEW x \in hist.decoded[s] + 1 .. hist'.sent[s]
          PROVE  \E i \in 1 .. n + 1 : reqs'[s][i].ric > 0 /\ reqs'[s][i].no = x
      <4>1. CASE x <= hist.sent[s]
        <5>1. x \in hist.decoded[s] + 1 .. hist.sent[s] BY <4>1, <2>2
        <5>2. PICK i \in 1 .. n : reqs[s][i].ric > 0 /\ reqs[s][i].no = x
          BY <5>1, <2>1, <2>4, <2>8
        <5>3. i \in 1 .. n + 1 /\ reqs'[s][i] = reqs[s][i] BY <3>1
        <5> QED BY <5>2, <5>3
      <4>2. CASE ~(x <= hist.sent[s])
        <5>1. sec.ric > 0 /\ sec.no = x BY <4>2, <2>2, <2>5
        <5>2. n + 1 \in 1 .. n + 1 OBVIOUS
        <5> QED BY <5>1, <5>2, <3>1
      <4> QED BY <4>1, <4>2
    <3> QED BY <2>3, <2>8, <3>1, <3>2, <3>3, <3>4
  <2> QED BY <2>7, <2>8
<1>3. ASSUME NEW t \in Streams PROVE FlightInv!(t)' BY SMTT(30), <1>1, <1>2
<1> QED BY <1>3 DEF FlightInv

LEMMA AckSent ==
  ASSUME AckInv, UNCHANGED <<dec, decStream>>, hist'.decoded = hist.decoded,
         hist'.released = hist.released,
         \A t \in Streams : Acked(t)' = Acked(t),
         \A t \in Streams : \A no, ric : Tracks(t, no, ric) => Tracks(t, no, ric)'
  PROVE  AckInv'
<1>1. \A i, t : IsAck(i, t)' = IsAck(i, t) BY DEF IsAck
<1>2. ASSUME NEW t \in Streams PROVE AckInv!(t)'
  <2>1. AckInv!(t) BY DEF AckInv
  <2>2. ASSUME NEW i \in 1 .. Len(decStream), IsAck(i, t)
        PROVE  Tracks(t, decStream[i].no, decStream[i].ric)'
    <3>1. PICK no, ric : no = decStream[i].no /\ ric = decStream[i].ric OBVIOUS
    <3>2. Tracks(t, no, ric)' BY <2>1, <2>2, <3>1
    <3> QED BY <3>1, <3>2 DEF Tracks
  <2> QED BY <1>1, <2>1, <2>2
<1> QED BY <1>2 DEF AckInv

LEMMA EncSectionInv ==
  ASSUME IInv, NEW s \in Streams, NEW hs \in HeaderLists, EncSection(s, hs)
  PROVE  IInv'
<1>1. TypeOK /\ hs \in Seq(Headers) BY SyncAssumption DEF IInv
<1>2. PICK ric : ric = RequiredInsertCount(hs) OBVIOUS
<1>3. /\ ric \in Nat /\ ric <= Len(enc.tab.log)
      /\ ric > 0 => UsesDynamic /\ ric - 1 \in Live(enc.tab)
      /\ EncodeRIC(enc.max, ric) = EncodeRIC(MaxCap, ric)
      /\ EncodeRIC(enc.max, ric) \in Nat
      /\ \A i \in DOMAIN hs : /\ EncodeLine(hs[i], ric) \in Line
                              /\ LineOK(EncodeLine(hs[i], ric), ric, hs[i])
  BY <1>1, <1>2, SectionEncoding
<1>4. hist.sent[s] \in Nat /\ hist.all[s] \in Nat /\ Len(enc.unacked[s]) \in Nat
      /\ enc.unacked \in [Streams -> Seq(Tracked)] /\ enc.unacked[s] \in Seq(Tracked)
  BY <1>1, StateTypes
<1>5. PICK no \in Nat : no = hist.sent[s] + (IF ric > 0 THEN 1 ELSE 0)
  <2>1. hist.sent[s] + (IF ric > 0 THEN 1 ELSE 0) \in Nat BY <1>4
  <2> QED BY <2>1
<1>6. PICK sec : sec = [wire |-> EncodeRIC(enc.max, ric),
                        lines |-> [i \in DOMAIN hs |-> EncodeLine(hs[i], ric)],
                        ric |-> ric, hdrs |-> hs, no |-> no]
  OBVIOUS
<1>7. /\ enc' = IF ric > 0
                THEN WithUnacked(enc, [enc.unacked EXCEPT
                               ![s] = Append(@, [ric |-> ric, no |-> no])])
                ELSE enc
      /\ reqs' = IF s \in cancelled THEN reqs ELSE [reqs EXCEPT ![s] = Append(@, sec)]
      /\ hist' = [hist EXCEPT !.all[s] = @ + 1, !.sent[s] = no]
      /\ UNCHANGED <<rcvd, encStream, dec, told, decStream, cancelled, err>>
  BY <1>2, <1>5, <1>6 DEF EncSection
<1>8. /\ sec.wire = EncodeRIC(MaxCap, ric) /\ sec.ric = ric /\ sec.hdrs = hs /\ sec.no = no
      /\ DOMAIN sec.lines = DOMAIN hs
      /\ \A j \in DOMAIN hs : LineOK(sec.lines[j], ric, hs[j])
  BY <1>3, <1>6
<1>9. sec \in Section
  <2>1. [i \in DOMAIN hs |-> EncodeLine(hs[i], ric)] \in Seq(Line)
    <3>1. DOMAIN hs = 1 .. Len(hs) /\ Len(hs) \in Nat BY <1>1
    <3>2. [i \in 1 .. Len(hs) |-> EncodeLine(hs[i], ric)] \in [1 .. Len(hs) -> Line]
      BY <1>3, <3>1
    <3> QED BY <3>1, <3>2
  <2> QED BY <2>1, <1>1, <1>3, <1>6 DEF Section
<1>10. Sent(s, sec) BY <1>1, <1>7, <1>9, SendSection
<1>11. /\ hist' \in [all : [Streams -> Nat], sent : [Streams -> Nat],
                     decoded : [Streams -> Nat], released : SUBSET Streams,
                     incs : Nat, caps : Nat]
       /\ hist'.decoded = hist.decoded /\ hist'.released = hist.released
       /\ hist'.incs = hist.incs /\ hist'.sent[s] = no
       /\ \A t \in Streams : t # s => hist'.sent[t] = hist.sent[t]
  <2>1. hist.all[s] + 1 \in Nat BY <1>4
  <2> QED BY <2>1, <1>1, <1>7 DEF TypeOK
<1>12. reqs' \in [Streams -> Seq(Section)] BY <1>10 DEF Sent
<1>13. NoConnectionError' BY <1>7 DEF IInv, NoConnectionError
<1>14. CancelInv' BY <1>7, <1>11, CancelFrame DEF IInv
<1>15. IncrementInv' BY <1>7, <1>11, IncrementFrame DEF IInv
<1>16. \A t \in Streams : Len(enc.unacked[t]) <= hist.sent[t] BY DEF IInv, FlightInv
<1>17. CASE ric = 0
  <2>1. enc' = enc /\ no = hist.sent[s] BY <1>4, <1>5, <1>7, <1>17
  <2>2. \A t \in Streams : hist'.sent[t] = hist.sent[t] BY <1>11, <2>1
  <2>3. TypeOK' BY <1>1, <1>7, <1>11, <1>12, <2>1 DEF TypeOK
  <2>4. ReplayInv' BY <1>1, <1>7, <2>1, StateTypes, ReplayFrame DEF IInv
  <2>5. EvictionInv' BY <1>7, <2>1 DEF IInv, EvictionInv
  <2>6. SectionInv' BY <1>1, <1>3, <1>8, <1>9, <1>10, <2>1, SectionSent DEF IInv
  <2>7. \A t \in Streams : Acked(t)' = Acked(t) BY <2>1, <2>2 DEF Acked
  <2>8. \A t \in Streams : \A no1, ric1 : Tracks(t, no1, ric1) => Tracks(t, no1, ric1)'
    BY <2>1, <2>7 DEF Tracks
  <2>9. FlightInv'
    <3>1. \A t \in Streams : Len(enc'.unacked[t]) <= hist'.sent[t] BY <1>16, <2>1, <2>2
    <3> QED BY ZenonT(30), <1>1, <1>7, <1>8, <1>9, <1>10, <1>11, <1>17, <2>2, <2>8, <3>1, FlightSent DEF IInv
  <2>10. AckInv' BY <1>7, <1>11, <2>7, <2>8, AckSent DEF IInv
  <2>11. BlockedInv' BY <2>1, BlockedFrame DEF IInv
  <2> QED BY <1>13, <1>14, <1>15, <2>3, <2>4, <2>5, <2>6, <2>9, <2>10, <2>11 DEF IInv
<1>18. CASE ric > 0
  <2>1. no = hist.sent[s] + 1 BY <1>5, <1>18
  <2>2. PICK e : e = [ric |-> ric, no |-> no] OBVIOUS
  <2>3. e \in Tracked /\ e.ric = ric BY <1>3, <1>18, <2>2 DEF Tracked
  <2>4. PICK q \in Nat : q = Len(enc.unacked[s]) BY <1>4
  <2>5. PICK u : u = [enc.unacked EXCEPT ![s] = Append(@, e)] OBVIOUS
  <2>6. /\ u \in [Streams -> Seq(Tracked)] /\ Len(u[s]) = q + 1 /\ u[s][q + 1] = e
        /\ \A i \in 1 .. q : u[s][i] = enc.unacked[s][i]
        /\ \A t \in Streams : t # s => u[t] = enc.unacked[t]
    <3>1. /\ Append(enc.unacked[s], e) \in Seq(Tracked)
          /\ Len(Append(enc.unacked[s], e)) = q + 1
          /\ Append(enc.unacked[s], e)[q + 1] = e
          /\ \A i \in 1 .. q : Append(enc.unacked[s], e)[i] = enc.unacked[s][i]
      BY <1>4, <2>3, <2>4, AppendFacts
    <3>2. /\ u \in [Streams -> Seq(Tracked)] /\ u[s] = Append(enc.unacked[s], e)
          /\ \A t \in Streams : t # s => u[t] = enc.unacked[t]
      BY <1>4, <2>5, <3>1
    <3> QED BY <3>1, <3>2
  <2>7. enc' = WithUnacked(enc, u) BY <1>7, <1>18, <2>2, <2>5
  <2>8. enc' = [WithUnacked(enc, u) EXCEPT !.krc = enc.krc]
    <3>1. enc \in [tab : Table, max : {0, MaxCap}, blocked : {0, MaxBlocked}, krc : Nat,
                   unacked : [Streams -> Seq(Tracked)]]
      BY <1>1 DEF TypeOK
    <3> QED BY <2>7, <3>1 DEF WithUnacked
  <2>9. ASSUME NEW t \in Streams, NEW i \in 1 .. Len(u[t])
        PROVE  u[t][i].ric <= Len(enc.tab.log)
    <3>1. CASE t # s BY <2>6, <3>1 DEF IInv, EvictionInv, InsertCount
    <3>2. CASE t = s /\ i \in 1 .. q
      BY <2>4, <2>6, <3>2 DEF IInv, EvictionInv, InsertCount
    <3>3. CASE t = s /\ i = q + 1 BY <1>3, <2>3, <2>6, <3>3
    <3> QED BY <2>6, <3>1, <3>2, <3>3
  <2>10. enc.krc \in Nat /\ enc.krc <= enc.krc /\ enc.krc <= InsertCount(dec)
    BY <1>1, StateTypes DEF IInv, EvictionInv
  <2>11. /\ enc' \in [tab : Table, max : {0, MaxCap}, blocked : {0, MaxBlocked}, krc : Nat,
                      unacked : [Streams -> Seq(Tracked)]]
         /\ enc'.unacked = u /\ enc'.blocked = enc.blocked
         /\ enc'.tab.log = enc.tab.log /\ enc'.tab.drop = enc.tab.drop
         /\ ReplayInv' /\ EvictionInv'
    BY <1>7, <2>6, <2>8, <2>9, <2>10, LimitStep
  <2>12. TypeOK' BY <1>1, <1>7, <1>11, <1>12, <2>11 DEF TypeOK
  <2>13. SectionInv' BY <1>1, <1>3, <1>8, <1>9, <1>10, <2>11, SectionSent DEF IInv
  <2>14. ASSUME NEW t \in Streams PROVE Acked(t)' = Acked(t)
    <3>1. CASE t # s BY <1>11, <2>6, <2>11, <3>1 DEF Acked
    <3>2. CASE t = s
      <4>1. Acked(s)' = (hist.sent[s] + 1) - (q + 1) BY <1>11, <2>1, <2>6, <2>11 DEF Acked
      <4>2. Acked(s) = hist.sent[s] - q BY <2>4 DEF Acked
      <4>3. PICK x \in Nat : x = hist.sent[s] BY <1>4
      <4>4. (x + 1) - (q + 1) = x - q OBVIOUS
      <4>5. Acked(s)' = Acked(s) BY <4>1, <4>2, <4>3, <4>4
      <4> QED BY <3>2, <4>5
    <3> QED BY <3>1, <3>2
  <2>15. ASSUME NEW t \in Streams, NEW no1, NEW ric1, Tracks(t, no1, ric1)
         PROVE  Tracks(t, no1, ric1)'
    <3>1. PICK x : x = no1 - Acked(t) OBVIOUS
    <3>2. x \in 1 .. Len(enc.unacked[t]) /\ enc.unacked[t][x].ric = ric1
      BY <2>15, <3>1 DEF Tracks
    <3>3. x \in 1 .. Len(u[t]) /\ u[t][x].ric = ric1
      <4>1. CASE t # s BY <2>6, <3>2, <4>1
      <4>2. CASE t = s BY <2>4, <2>6, <3>2, <4>2
      <4> QED BY <4>1, <4>2
    <3>4. no1 - Acked(t)' = x BY <2>14, <3>1
    <3> QED BY <2>11, <3>3, <3>4 DEF Tracks
  <2>16. Tracks(s, no, ric)'
    <3>1. Acked(s)' = hist.sent[s] - q BY <2>4, <2>14 DEF Acked
    <3>2. no - Acked(s)' = q + 1 BY <1>4, <2>1, <3>1
    <3>3. q + 1 \in 1 .. q + 1 OBVIOUS
    <3> QED BY <2>3, <2>6, <2>11, <3>2, <3>3 DEF Tracks
  <2>17. FlightInv'
    <3>1. ASSUME NEW t \in Streams PROVE Len(enc'.unacked[t]) <= hist'.sent[t]
      <4>1. CASE t # s BY <1>11, <1>16, <2>6, <2>11, <4>1
      <4>2. CASE t = s
        <5>1. q <= hist.sent[s] BY <1>16, <2>4
        <5>2. q + 1 <= no BY <5>1, <1>4, <2>1
        <5> QED BY <4>2, <5>2, <1>11, <2>6, <2>11
      <4> QED BY <4>1, <4>2
    <3>2. Tracks(s, sec.no, sec.ric)' BY <1>8, <2>16
    <3>3. sec.ric > 0 /\ hist'.sent[s] = hist.sent[s] + 1 /\ sec.no = hist.sent[s] + 1
      BY <1>8, <1>11, <1>18, <2>1
    <3> QED BY <1>1, <1>7, <1>9, <1>10, <1>11, <2>15, <3>1, <3>2, <3>3, FlightSent DEF IInv
  <2>18. AckInv' BY <1>7, <1>11, <2>14, <2>15, AckSent DEF IInv
  <2>19. BlockedInv'
    <3> DEFINE A == {t \in Streams : enc.unacked[t] # <<>>}
               B == {t \in Streams : enc'.unacked[t] # <<>>}
    <3>1. B \subseteq A \cup {s} BY <2>6, <2>11
    <3>2. IsFiniteSet(A) BY SyncAssumption, FS_Subset
    <3>3. /\ IsFiniteSet(A \cup {s}) /\ Cardinality(A) \in Nat
          /\ Cardinality(A \cup {s}) = IF s \in A THEN Cardinality(A) ELSE Cardinality(A) + 1
      BY <3>2, FS_AddElement, FS_CardinalityType
    <3>4. Cardinality(B) <= Cardinality(A \cup {s}) /\ Cardinality(B) \in Nat
      BY <3>1, <3>3, FS_Subset, FS_CardinalityType
    <3>5. Cardinality(A) < enc.blocked
      BY <1>3, <1>18 DEF UsesDynamic, BlockedStreamsCount
    <3>6. enc.blocked \in Nat BY SMTT(30), <1>1, StateTypes, SyncAssumption
    <3>7. BlockedStreamsCount' = Cardinality(B) BY DEF BlockedStreamsCount
    <3> HIDE DEF A, B
    <3>8. Cardinality(B) <= enc.blocked BY <3>3, <3>4, <3>5, <3>6
    <3> QED BY <3>7, <3>8, <2>11 DEF BlockedInv
  <2> QED BY <1>13, <1>14, <1>15, <2>11, <2>12, <2>13, <2>17, <2>18, <2>19 DEF IInv
<1> QED BY <1>3, <1>17, <1>18

-----------------------------------------------------------------------------
(* The theorems.                                                           *)

LEMMA InitInv ==
  ASSUME Init
  PROVE  IInv
<1> USE DEF Init
<1>1. NewTable \in Table BY DEF NewTable, Table
<1>2. /\ NewTable.log = <<>> /\ NewTable.drop = 0 /\ NewTable.bytes = 0
      /\ NewTable.cap = 0 /\ NewTable.lim = 0 /\ Len(NewTable.log) = 0
  BY DEF NewTable
<1>3. /\ enc.tab = NewTable /\ enc.max = 0 /\ enc.blocked = 0 /\ enc.krc = 0
      /\ enc.unacked = [s \in Streams |-> <<>>] /\ dec = NewTable
      /\ encStream = <<>> /\ decStream = <<>> /\ Len(encStream) = 0 /\ Len(decStream) = 0
      /\ rcvd = 0 /\ told = 0 /\ cancelled = {} /\ err = "none"
      /\ reqs = [s \in Streams |-> <<>>]
      /\ hist.sent = [s \in Streams |-> 0] /\ hist.decoded = [s \in Streams |-> 0]
      /\ hist.released = {} /\ hist.incs = 0
  OBVIOUS
<1>4. \A s \in Streams : Len(enc.unacked[s]) = 0 /\ Len(reqs[s]) = 0 BY <1>3
<1>5. TypeOK BY <1>1, SyncAssumption DEF TypeOK
<1>6. NoConnectionError BY DEF NoConnectionError
<1>7. ReplayInv
  <2>1. Sound(NewTable) BY <1>2 DEF Sound
  <2>2. Earlier(NewTable, NewTable) BY <1>2 DEF Earlier
  <2>3. Shared(NewTable) = NewTable BY <1>2 DEF Shared, NewTable
  <2>4. Before(Len(encStream) + 1) = dec BY <1>3 DEF Before
  <2> QED BY <2>1, <2>2, <2>3, <2>4, <1>2, <1>3 DEF ReplayInv
<1>8. EvictionInv
  <2>1. EvictionLimit(enc.unacked) = 0
    <3> DEFINE u == enc.unacked
    <3>1. \A s \in Streams : DOMAIN u[s] = {} BY <1>3
    <3>2. UNION {{u[s][i].ric : i \in DOMAIN u[s]} : s \in Streams} = {} BY <3>1
    <3> QED BY <3>2 DEF EvictionLimit
  <2>2. CurrentSize(NewTable) = 0 BY <1>2 DEF CurrentSize, SizeFrom, InsertCount
  <2> QED BY <2>1, <2>2, <1>2, <1>3, <1>4, SyncAssumption DEF EvictionInv, InsertCount
<1>9. SectionInv BY <1>4 DEF SectionInv
<1>10. FlightInv BY <1>3, <1>4 DEF FlightInv
<1>11. AckInv BY <1>3, <1>4 DEF AckInv, Acked
<1>12. CancelInv BY <1>3 DEF CancelInv
<1>13. IncrementInv BY <1>2, <1>3 DEF IncrementInv, InsertCount
<1>14. BlockedInv
  <2>1. {s \in Streams : enc.unacked[s] # <<>>} = {} BY <1>3
  <2>2. Cardinality({}) = 0 BY FS_EmptySet
  <2>3. BlockedStreamsCount = 0 BY <2>1, <2>2 DEF BlockedStreamsCount
  <2> HIDE DEF Init
  <2> QED BY <2>3, <1>3 DEF BlockedInv
<1> QED BY <1>5, <1>6, <1>7, <1>8, <1>9, <1>10, <1>11, <1>12, <1>13, <1>14 DEF IInv

(* One step per action of Next.                                            *)
LEMMA NextInv ==
  ASSUME AckedEvictionOnly, FittingCapacityOnly, IInv, [Next]_vars
  PROVE  IInv'
<1>1. MaxInserts \in Nat BY SyncAssumption
<1>2. CASE RecvSettings BY <1>2, RecvSettingsInv
<1>3. ASSUME NEW c \in Capacities, EncSetCapacity(c) PROVE IInv' BY <1>3, EncSetCapacityInv
<1>4. ASSUME NEW h \in Headers, EncInsert(h) PROVE IInv' BY <1>4, EncInsertInv
<1>5. ASSUME NEW rel \in 0 .. MaxInserts, NEW h \in Headers, EncInsertNameRef(rel, h)
      PROVE  IInv'
  BY <1>1, <1>5, EncInsertNameRefInv
<1>6. ASSUME NEW rel \in 0 .. MaxInserts, EncDuplicate(rel) PROVE IInv'
  BY <1>1, <1>6, EncDuplicateInv
<1>7. ASSUME NEW s \in Streams, NEW hs \in HeaderLists, EncSection(s, hs) PROVE IInv'
  BY <1>7, EncSectionInv
<1>8. CASE DecInstruction BY <1>8, DecInstructionInv
<1>9. ASSUME NEW s \in Streams, DecSection(s) PROVE IInv' BY <1>9, DecSectionInv
<1>10. ASSUME NEW s \in Streams, DecCancel(s) PROVE IInv' BY <1>10, DecCancelInv
<1>11. CASE DecIncrement BY <1>11, DecIncrementInv
<1>12. CASE EncAck BY <1>12, EncAckInv
<1>13. CASE EncCancel BY <1>13, EncCancelInv
<1>14. CASE EncIncrement BY <1>14, EncIncrementInv
<1>15. CASE UNCHANGED vars BY <1>15, Stutter
<1> QED BY <1>2, <1>3, <1>4, <1>5, <1>6, <1>7, <1>8, <1>9, <1>10, <1>11, <1>12, <1>13,
           <1>14, <1>15 DEF Next

(* For a caller that inserts only over acknowledged entries and shrinks the *)
(* table only to what its evictable entries allow, the invariant of the two *)
(* endpoints holds in every reachable state, whatever the streams, header   *)
(* lists, capacities and limits are.                                       *)
THEOREM InvariantHolds ==
  ASSUME AckedEvictionOnly, FittingCapacityOnly
  PROVE  Spec => []IInv
<1>1. Init => IInv BY InitInv
<1>2. IInv /\ [Next]_vars => IInv' BY NextInv
<1> QED BY <1>1, <1>2, PTL DEF Spec

(* Under that caller, a section whose insertions have arrived decodes to    *)
(* the header list that was encoded, and one whose insertions have not is   *)
(* reported as blocked.                                                    *)
THEOREM DecodingIsExact ==
  ASSUME AckedEvictionOnly, FittingCapacityOnly
  PROVE  Spec => []DecodesExactly
<1>1. ASSUME IInv, NEW s \in Streams, NEW i \in DOMAIN reqs[s]
      PROVE  IF InsertCount(dec) < reqs[s][i].ric
             THEN IsBlocked(dec, reqs[s][i])
             ELSE /\ ~IsBlocked(dec, reqs[s][i])
                  /\ Decodes(dec, reqs[s][i])
                  /\ Decode(dec, reqs[s][i]) = reqs[s][i].hdrs
  <2>1. TypeOK /\ reqs[s] \in Seq(Section) BY <1>1, StateTypes DEF IInv
  <2>2. i \in 1 .. Len(reqs[s]) BY <2>1
  <2>3. DecodeRIC(MaxCap, InsertCount(dec), reqs[s][i].wire) = reqs[s][i].ric
    BY <1>1, <2>2, SectionRIC
  <2>4. reqs[s][i].ric \in Nat /\ InsertCount(dec) \in Nat
    BY <2>1, <2>2, SectionTypes, TableFields DEF TypeOK, InsertCount
  <2>5. CASE InsertCount(dec) < reqs[s][i].ric BY <2>3, <2>5 DEF IsBlocked
  <2>6. CASE ~(InsertCount(dec) < reqs[s][i].ric)
    <3>1. reqs[s][i].ric <= InsertCount(dec) BY <2>4, <2>6
    <3> QED BY <1>1, <2>2, <2>3, <2>6, <3>1, SectionDecodes DEF IsBlocked
  <2> QED BY <2>5, <2>6
<1>2. IInv => DecodesExactly BY <1>1 DEF DecodesExactly
<1> QED BY <1>2, InvariantHolds, PTL

(* Under that caller, no instruction is refused, no section fails and no    *)
(* acknowledgment or increment is out of place.                            *)
THEOREM NoErrorHolds ==
  ASSUME AckedEvictionOnly, FittingCapacityOnly
  PROVE  Spec => []NoConnectionError
<1>1. IInv => NoConnectionError BY DEF IInv
<1> QED BY <1>1, InvariantHolds, PTL

(* Under that caller, the two tables agree whenever the encoder stream has  *)
(* been read to its end.                                                   *)
THEOREM TablesAgreeHolds ==
  ASSUME AckedEvictionOnly, FittingCapacityOnly
  PROVE  Spec => []TablesAgree
<1>1. ASSUME IInv, encStream = <<>> PROVE Shared(enc.tab) = dec
  <2>1. Before(1) = dec BY DEF Before
  <2>2. Len(encStream) + 1 = 1 BY <1>1
  <2> QED BY <1>1, <2>1, <2>2 DEF IInv, ReplayInv
<1>2. IInv => TablesAgree BY <1>1 DEF TablesAgree
<1> QED BY <1>2, InvariantHolds, PTL

(* Under that caller, the streams that wait for insertions are never more   *)
(* than SETTINGS_QPACK_BLOCKED_STREAMS.                                    *)
THEOREM BlockedBoundHolds ==
  ASSUME AckedEvictionOnly, FittingCapacityOnly
  PROVE  Spec => []BlockedStreamsBounded
<1>1. ASSUME IInv PROVE BlockedStreamsBounded
  <2> DEFINE A == {s \in Streams : enc.unacked[s] # <<>>}
             B == {s \in Streams : \E i \in DOMAIN reqs[s] : IsBlocked(dec, reqs[s][i])}
  <2>1. TypeOK BY <1>1 DEF IInv
  <2>2. ASSUME NEW s \in B PROVE s \in A
    <3>1. PICK i \in DOMAIN reqs[s] : IsBlocked(dec, reqs[s][i]) BY <2>2
    <3>2. s \in Streams /\ reqs[s] \in Seq(Section) BY <2>1, <2>2, StateTypes
    <3>3. i \in 1 .. Len(reqs[s]) BY <3>1, <3>2
    <3>4. InsertCount(dec) < reqs[s][i].ric
      <4>1. DecodeRIC(MaxCap, InsertCount(dec), reqs[s][i].wire) = reqs[s][i].ric
        BY <1>1, <3>2, <3>3, SectionRIC
      <4> QED BY <3>1, <4>1 DEF IsBlocked
    <3>5. reqs[s][i].ric > 0
      <4>1. reqs[s][i].ric \in Nat /\ InsertCount(dec) \in Nat
        BY <2>1, <3>2, <3>3, SectionTypes, TableFields DEF TypeOK, InsertCount
      <4> QED BY <3>4, <4>1
    <3>6. PICK x : x \in 1 .. Len(enc.unacked[s])
      BY <1>1, <3>2, <3>3, <3>5 DEF IInv, FlightInv, Tracks
    <3>7. enc.unacked[s] # <<>> BY <3>6
    <3> QED BY <3>2, <3>7
  <2>3. B \subseteq A BY <2>2
  <2>4. IsFiniteSet(A) BY SyncAssumption, FS_Subset
  <2>5. /\ Cardinality(B) <= Cardinality(A)
        /\ Cardinality(A) \in Nat /\ Cardinality(B) \in Nat
    BY <2>3, <2>4, FS_Subset, FS_CardinalityType
  <2>6. Cardinality(A) <= enc.blocked BY <1>1 DEF IInv, BlockedInv, BlockedStreamsCount
  <2>7. enc.blocked \in {0, MaxBlocked} /\ MaxBlocked \in Nat
    BY <2>1, StateTypes, SyncAssumption
  <2> HIDE DEF A, B
  <2>8. Cardinality(B) <= MaxBlocked BY <2>5, <2>6, <2>7
  <2> QED BY <2>8 DEF BlockedStreamsBounded, B
<1>2. IInv => BlockedStreamsBounded BY <1>1
<1> QED BY <1>2, InvariantHolds, PTL

(* Under that caller, known_received_count counts only insertions the       *)
(* decoder has applied.                                                    *)
THEOREM KnownReceivedHolds ==
  ASSUME AckedEvictionOnly, FittingCapacityOnly
  PROVE  Spec => []KnownReceivedIsReceived
<1>1. IInv => KnownReceivedIsReceived BY DEF IInv, EvictionInv, KnownReceivedIsReceived
<1> QED BY <1>1, InvariantHolds, PTL
====
