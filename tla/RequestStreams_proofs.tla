----------------------- MODULE RequestStreams_proofs -----------------------
(***************************************************************************)
(* For any number of streams and any frames, insertions and calls: the     *)
(* index of parked streams is exact, finished streams are removed, every   *)
(* section is answered, what is sent is in the order of a message, and the *)
(* connection implements StreamDelivery.                                   *)
(***************************************************************************)
EXTENDS RequestStreams, SequenceTheorems, NaturalsInduction, WellFoundedInduction, TLAPS

-----------------------------------------------------------------------------
(* The inductive invariant.                                                *)

Tally == [Streams -> Nat]
Sets == SUBSET Streams
Nets == [used : Sets, opened : Sets, reset : Sets, stopped : Sets, refused : Sets,
         failed : Sets, stranded : BOOLEAN, arrived : Tally, decoded : Tally, sends : Tally]
Pairs == Nat \X Streams
Calls == [op : {"idle", "feed", "poll", "retry"}, stream : Streams \cup {0},
          rest : SUBSET Pairs]
Answers == [Streams -> Seq({"ack", "cancel"})]
Debts == [acks : Tally, cancels : Tally]

Types ==
    /\ TypeOK
    /\ scope \in Scopes
    /\ call \in Calls
    /\ net \in Nets /\ decOut \in Answers /\ deferred \in Debts
    /\ fed \in [Streams -> Seq(scope.frames)] /\ got \in [Streams -> Seq(scope.frames)]
    /\ finned \subseteq Streams /\ ended \subseteq Streams
    /\ wire \in [Streams -> Seq(Pieces \cup {"fin"})]

\* How the fields of a RequestStream hang together: the end is read behind
\* everything else, a parked section is kept until it is taken up, FIN is
\* queued once and last, and what STOP_SENDING threw away stays away.
Coherent(st) ==
    /\ st.state # "Reset"
    /\ st.recv = "Complete" <=> st.state \in {"RemoteClosed", "Closed"}
    /\ st.recv = "Complete" => st.fin /\ st.buf = <<>>
    /\ st.blocked => st.recv \in {"ReceivingBody", "TrailersReceived"}
    /\ st.held # <<>> => st.blocked /\ Len(st.held) = 1 /\ st.held[1].frame.ric = st.ricnt
    /\ st.finSent => st.outFin /\ st.out = <<>>
    /\ st.outFin => st.send = "Complete" /\ st.state \in {"LocalClosed", "Closed"}
    /\ ~CanSend(st) /\ ~st.outFin => st.out = <<>>

Running == call.op \in {"feed", "poll"}

\* The call in progress works on a stream that is there and not parked.
CallSound ==
    /\ Running => call.stream \in live /\ ~str[call.stream].blocked
    /\ call.op = "retry" => call.rest # {}
    /\ call.op \in {"idle", "feed"} => call.rest = {}

\* The pairs of stream s, in blocked_by_ricnt or left to retry, are the one it
\* is parked under; and none is missing.
ParkedAt(s) ==
    /\ \A n \in Nat : <<n, s>> \in index \cup call.rest =>
          s \in live /\ str[s].blocked /\ str[s].ricnt = n /\ str[s].held # <<>>
    /\ \A n \in Nat : <<n, s>> \in call.rest => n <= inserts /\ <<n, s>> \notin index
    /\ err = "none" /\ ~net.stranded /\ s \in live /\ s \notin net.failed /\ str[s].blocked
          => <<str[s].ricnt, s>> \in index \cup call.rest

Untouched(s) == fed[s] = <<>> /\ got[s] = <<>> /\ wire[s] = <<>> /\ s \notin ended

\* A stream that is removed does not come back: nothing arrives on it any more.
LifeAt(s) ==
    /\ s \notin live => str[s] = NewStream
    /\ s \notin live /\ s \notin finned /\ s \notin net.reset /\ s \notin net.refused
          => Untouched(s)
    /\ Role = "Client" => /\ s \in net.reset \/ s \in live => s \in net.opened
                          /\ s \in net.opened => s \in net.used
                          /\ s \notin net.opened => Untouched(s)
    /\ s \in live => s \notin net.reset
    /\ str[s].fin => s \in finned

\* Only the stream being read can be finished and still there.
DoneAt(s) ==
    s \in live /\ s \notin net.failed /\ Done(str[s]) => Running /\ s = call.stream

\* The answers to n sections and c resets.
Owed(n, c) == Times(n, "ack") \o Times(c, "cancel")
Resets(s) == IF s \in net.reset THEN 1 ELSE 0

\* Before there is a decoder stream every answer is deferred; afterwards none is.
AnsweredAt(s) ==
    /\ s \in net.stopped => s \in StopStreams
    /\ decOpen => deferred.acks[s] = 0 /\ deferred.cancels[s] = 0
    /\ ~decOpen => decOut[s] = <<>>
    /\ s \notin StopStreams /\ s \notin net.refused /\ s \notin net.failed =>
          /\ decOpen => decOut[s] = Owed(net.decoded[s], Resets(s))
          /\ ~decOpen => /\ deferred.acks[s] = net.decoded[s]
                         /\ deferred.cancels[s] = Resets(s)

\* What the state of sending allows to be on its way.
Allowed(send) ==
    CASE send = "Initial" -> {}
      [] send = "InterimResponseSent" -> {"interim"}
      [] send = "HeadersSent" -> {"interim", "final"}
      [] send = "SendingBody" -> {"interim", "final", "data"}
      [] OTHER -> Pieces

\* The pieces q of a stream, sent and queued, fit the state of sending.
Within(q, send) == \A i \in 1 .. Len(q) : q[i] \in Allowed(send)
Begun(q, send) ==
    send \notin {"Initial", "InterimResponseSent"} => \E i \in 1 .. Len(q) : q[i] = "final"

SendingAt(s) ==
    /\ InOrder(wire[s] \o str[s].out)
    /\ s \in live /\ (CanSend(str[s]) \/ str[s].outFin) =>
          /\ ~str[s].finSent => Within(wire[s] \o str[s].out, str[s].send)
          /\ Begun(wire[s] \o str[s].out, str[s].send)

\* The frames of q from n on are those of buf, without the ones of unknown types.
Shows(buf, q, n) ==
    \E pos \in [1 .. Len(q) - n -> 1 .. Len(buf)] :
       /\ \A k, m \in 1 .. Len(q) - n : k < m => pos[k] < pos[m]
       /\ \A k \in 1 .. Len(q) - n : q[n + k] = buf[pos[k]]
       /\ \A i \in 1 .. Len(buf) :
             (buf[i].kind # "unknown") <=> (\E k \in 1 .. Len(q) - n : pos[k] = i)

\* What arrived, f, is what was handed over, g, the parked section, and the
\* frames still in the buffer.
Faithful(st, f, g) ==
    /\ Len(g) + Len(st.held) <= Len(f)
    /\ \A i \in 1 .. Len(g) : g[i] = f[i]
    /\ st.held # <<>> => f[Len(g) + 1] = st.held[1].frame
    /\ Shows(st.buf, f, Len(g) + Len(st.held))

DeliveredAt(s) ==
    /\ s \in live /\ s \notin net.stopped /\ s \notin net.refused /\ s \notin net.failed =>
          Faithful(str[s], fed[s], got[s])
    /\ s \in live /\ s \in ended => str[s].recv = "Complete"

SoundAt(s) ==
    /\ Coherent(str[s]) /\ ParkedAt(s) /\ LifeAt(s) /\ DoneAt(s)
    /\ AnsweredAt(s) /\ SendingAt(s) /\ DeliveredAt(s)

StreamsIInv == Types /\ CallSound /\ \A s \in Streams : SoundAt(s)

-----------------------------------------------------------------------------
(* Updates of a RequestStream: the fields they change, and that it stays    *)
(* coherent.                                                               *)

SameSend(a, b) ==
    a.send = b.send /\ a.out = b.out /\ a.outFin = b.outFin /\ a.finSent = b.finSent
SamePark(a, b) == a.blocked = b.blocked /\ a.ricnt = b.ricnt /\ a.held = b.held
SameRead(a, b) == a.buf = b.buf /\ a.fin = b.fin /\ a.recv = b.recv

HeldSections(F) == [frame : F, trailer : BOOLEAN]

LEMMA RecordTypes ==
  ASSUME NEW F, NEW b \in Nat, NEW st \in Records(F, b)
  PROVE  /\ st.buf \in Seq(F) /\ st.fin \in BOOLEAN
         /\ st.recv \in {"WaitingHeaders", "ReceivingBody", "TrailersReceived", "Complete"}
         /\ st.state \in {"Open", "LocalClosed", "RemoteClosed", "Closed", "Reset"}
         /\ st.blocked \in BOOLEAN /\ st.ricnt \in Nat /\ st.held \in Seq(HeldSections(F))
         /\ st.length \in Nat \cup {NoLength} /\ st.body \in 0 .. b
         /\ st.connect \in BOOLEAN /\ st.connectReq \in BOOLEAN
         /\ st.send \in {"Initial", "InterimResponseSent", "HeadersSent", "SendingBody",
                         "TrailersSent", "Complete"}
         /\ st.out \in Seq(Pieces) /\ st.outFin \in BOOLEAN /\ st.finSent \in BOOLEAN
BY DEF Records, HeldSections

LEMMA NewRecord ==
  ASSUME NEW F, NEW b \in Nat
  PROVE  /\ NewStream \in Records(F, b) /\ Coherent(NewStream)
         /\ NewStream.buf = <<>> /\ NewStream.held = <<>> /\ NewStream.out = <<>>
         /\ ~NewStream.fin /\ ~NewStream.blocked /\ ~NewStream.outFin /\ ~NewStream.finSent
         /\ NewStream.state = "Open" /\ NewStream.recv = "WaitingHeaders"
         /\ NewStream.send = "Initial"
<1>1. PICK none \in Seq(F) : none = <<>> BY EmptySeq
<1>2. PICK nothing \in Seq(HeldSections(F)) : nothing = <<>> BY EmptySeq
<1>3. PICK empty \in Seq(Pieces) : empty = <<>> BY EmptySeq
<1>4. NewStream = [buf |-> none, fin |-> FALSE, recv |-> "WaitingHeaders", state |-> "Open",
                   blocked |-> FALSE, ricnt |-> 0, held |-> nothing,
                   length |-> NoLength, body |-> 0, connect |-> FALSE, connectReq |-> FALSE,
                   send |-> "Initial", out |-> empty, outFin |-> FALSE, finSent |-> FALSE]
  BY <1>1, <1>2, <1>3 DEF NewStream
<1>5. NewStream \in Records(F, b) BY <1>4 DEF Records, HeldSections
<1>6. /\ NewStream.buf = <<>> /\ NewStream.held = <<>> /\ NewStream.out = <<>>
      /\ ~NewStream.fin /\ ~NewStream.blocked /\ ~NewStream.outFin /\ ~NewStream.finSent
      /\ NewStream.state = "Open" /\ NewStream.recv = "WaitingHeaders"
      /\ NewStream.send = "Initial" BY DEF NewStream
<1> HIDE DEF NewStream
<1>7. Coherent(NewStream) BY <1>6 DEF Coherent, CanSend
<1> QED BY <1>5, <1>6, <1>7

LEMMA ConsumedRecord ==
  ASSUME NEW F, NEW b \in Nat, NEW st \in Records(F, b), st.buf # <<>>,
         NEW new, new = Consumed(st)
  PROVE  /\ new \in Records(F, b) /\ new.buf = Tail(st.buf)
         /\ new.fin = st.fin /\ new.recv = st.recv /\ new.state = st.state /\ new.body = st.body
         /\ new.length = st.length /\ new.connect = st.connect
         /\ SamePark(new, st) /\ SameSend(new, st)
         /\ Coherent(st) => Coherent(new) /\ st.recv # "Complete"
<1>1. st.buf \in Seq(F) BY DEF Records
<1>2. Tail(st.buf) \in Seq(F) BY <1>1
<1>3. PICK tail \in Seq(F) : tail = Tail(st.buf) BY <1>2
<1>4. new = [st EXCEPT !.buf = tail] BY <1>3 DEF Consumed
<1>5. /\ new \in Records(F, b) /\ new.buf = tail
      /\ new.fin = st.fin /\ new.recv = st.recv /\ new.state = st.state /\ new.body = st.body
      /\ new.length = st.length /\ new.connect = st.connect
      /\ SamePark(new, st) /\ SameSend(new, st) BY <1>4 DEF Records, SamePark, SameSend
<1>6. Coherent(st) => Coherent(new) /\ st.recv # "Complete"
  BY <1>5 DEF Coherent, SamePark, SameSend, CanSend
<1> QED BY <1>3, <1>5, <1>6

LEMMA DataRecord ==
  ASSUME NEW F, NEW b \in Nat, NEW st \in Records(F, b), NEW n \in Nat, st.body + n <= b,
         NEW new, new = [st EXCEPT !.body = @ + n]
  PROVE  /\ new \in Records(F, b) /\ SameRead(new, st) /\ new.state = st.state
         /\ SamePark(new, st) /\ SameSend(new, st)
         /\ Coherent(st) => Coherent(new)
<1>1. st.body \in 0 .. b BY DEF Records
<1>2. PICK m \in 0 .. b : m = st.body + n BY <1>1
<1>3. new = [st EXCEPT !.body = m] BY <1>2
<1>4. /\ new \in Records(F, b) /\ SameRead(new, st) /\ new.state = st.state
      /\ SamePark(new, st) /\ SameSend(new, st)
  BY <1>3 DEF Records, SamePark, SameSend, SameRead
<1> QED BY <1>4 DEF Coherent, SamePark, SameSend, SameRead, CanSend

LEMMA HeaderRecord ==
  ASSUME NEW F, NEW b \in Nat, NEW st \in Records(F, b),
         NEW r \in {"ReceivingBody", "TrailersReceived"}, NEW new, new = [st EXCEPT !.recv = r]
  PROVE  /\ new \in Records(F, b) /\ new.buf = st.buf /\ new.fin = st.fin /\ new.recv = r
         /\ new.state = st.state /\ SamePark(new, st) /\ SameSend(new, st)
         /\ Coherent(st) /\ st.recv # "Complete" => Coherent(new)
<1>1. /\ new \in Records(F, b) /\ new.buf = st.buf /\ new.fin = st.fin /\ new.recv = r
      /\ new.state = st.state /\ SamePark(new, st) /\ SameSend(new, st)
  BY DEF Records, SamePark, SameSend
<1> QED BY <1>1 DEF Coherent, SamePark, SameSend, CanSend

RicOf(held) == held[1].frame.ric
ParkedOn(st, n, kept) == [st EXCEPT !.blocked = TRUE, !.ricnt = n, !.held = kept]
IsParked(new, st, n, kept) ==
    /\ SameRead(new, st) /\ SameSend(new, st) /\ new.state = st.state
    /\ new.blocked /\ new.ricnt = n /\ new.held = kept

LEMMA ParkRecord ==
  ASSUME NEW F, NEW b \in Nat, NEW st \in Records(F, b),
         NEW kept \in Seq(HeldSections(F)), Len(kept) = 1, NEW n \in Nat, n = RicOf(kept),
         NEW new, new = ParkedOn(st, n, kept),
         Coherent(st), st.recv \in {"ReceivingBody", "TrailersReceived"}
  PROVE  new \in Records(F, b) /\ IsParked(new, st, n, kept) /\ Coherent(new)
<1>1. /\ new \in Records(F, b) /\ SameRead(new, st) /\ new.state = st.state
      /\ new.blocked = TRUE /\ new.ricnt = n /\ new.held = kept /\ SameSend(new, st)
  BY DEF Records, SameRead, SameSend, HeldSections, ParkedOn
<1>2. Coherent(new)
  BY <1>1 DEF Coherent, SameRead, SameSend, CanSend, RicOf
<1>3. IsParked(new, st, n, kept) BY <1>1 DEF IsParked
<1> QED BY <1>1, <1>2, <1>3

LEMMA WithHeadersRecord ==
  ASSUME NEW F, NEW b \in Nat, NEW st \in Records(F, b), NEW f, f.len \in Nat \cup {NoLength},
         NEW trailer \in BOOLEAN, NEW new, new = WithHeaders(st, f, trailer)
  PROVE  /\ new \in Records(F, b) /\ new.buf = st.buf /\ new.fin = st.fin
         /\ new.recv \in {st.recv, "WaitingHeaders"}
         /\ new.state = st.state /\ SamePark(new, st) /\ SameSend(new, st)
         /\ Coherent(st) /\ st.recv # "Complete" /\ ~st.blocked => Coherent(new)
<1>1. CASE trailer
  <2>1. new = st BY <1>1 DEF WithHeaders
  <2> QED BY <2>1 DEF SamePark, SameSend
<1>2. CASE ~trailer
  <2>1. PICK c \in BOOLEAN : c = (st.connect \/ (f.what = "connect" /\ (Role = "Server" \/ st.connectReq)))
    BY Zenon DEF Records
  <2>2. PICK r \in {st.recv, "WaitingHeaders"} :
          r = IF f.what = "informational" THEN "WaitingHeaders" ELSE st.recv
    OBVIOUS
  <2>3. new = [st EXCEPT !.connect = c, !.recv = r, !.length = f.len]
    BY <1>2, <2>1, <2>2 DEF WithHeaders
  <2>4. /\ new \in Records(F, b) /\ new.buf = st.buf /\ new.fin = st.fin /\ new.recv = r
        /\ new.state = st.state /\ SamePark(new, st) /\ SameSend(new, st)
    BY <2>3, <2>2 DEF Records, SamePark, SameSend
  <2> QED BY <2>2, <2>4 DEF Coherent, SamePark, SameSend, CanSend
<1> QED BY <1>1, <1>2

Ending(st) == [st EXCEPT !.state = CloseRemote(@), !.recv = "Complete"]

LEMMA EndRecord ==
  ASSUME NEW F, NEW b \in Nat, NEW st \in Records(F, b), NEW new, new = Ending(st)
  PROVE  /\ new \in Records(F, b) /\ new.buf = st.buf /\ new.fin = st.fin
         /\ new.recv = "Complete" /\ new.state = CloseRemote(st.state)
         /\ SamePark(new, st) /\ SameSend(new, st)
         /\ Coherent(st) /\ st.recv # "Complete" /\ st.fin /\ st.buf = <<>> /\ ~st.blocked
               => Coherent(new)
         /\ CanSend(new) => CanSend(st)
<1>1. PICK x \in {"Open", "LocalClosed", "RemoteClosed", "Closed", "Reset"} : x = CloseRemote(st.state)
  BY DEF CloseRemote, Records
<1>2. new = [st EXCEPT !.state = x, !.recv = "Complete"] BY <1>1 DEF Ending
<1>3. /\ new \in Records(F, b) /\ new.buf = st.buf /\ new.fin = st.fin
      /\ new.recv = "Complete" /\ new.state = x
      /\ SamePark(new, st) /\ SameSend(new, st)
  BY <1>2 DEF Records, SamePark, SameSend
<1>4. st.state \in {"Open", "LocalClosed", "RemoteClosed", "Closed", "Reset"} BY DEF Records
<1>5. CanSend(new) => CanSend(st) BY <1>1, <1>3, <1>4 DEF CanSend, CloseRemote
<1>6. Coherent(st) /\ st.recv # "Complete" /\ st.fin /\ st.buf = <<>> /\ ~st.blocked
               => Coherent(new)
  BY <1>1, <1>3, <1>4 DEF Coherent, SamePark, SameSend, CanSend, CloseRemote
<1> QED BY <1>1, <1>3, <1>5, <1>6

LEMMA TakenRecord ==
  ASSUME NEW F, NEW b \in Nat, NEW st \in Records(F, b), NEW new, new = [st EXCEPT !.held = <<>>]
  PROVE  /\ new \in Records(F, b) /\ SameRead(new, st) /\ new.state = st.state
         /\ new.blocked = st.blocked /\ new.ricnt = st.ricnt /\ new.held = <<>>
         /\ SameSend(new, st) /\ (Coherent(st) => Coherent(new))
<1>1. PICK none \in Seq(HeldSections(F)) : none = <<>> BY EmptySeq
<1>2. new = [st EXCEPT !.held = none] BY <1>1
<1>3. /\ new \in Records(F, b) /\ SameRead(new, st) /\ new.state = st.state
      /\ new.blocked = st.blocked /\ new.ricnt = st.ricnt /\ new.held = none
      /\ SameSend(new, st)
  BY <1>2 DEF Records, HeldSections, SameRead, SameSend
<1>4. Coherent(st) => Coherent(new) BY <1>1, <1>3 DEF Coherent, SameRead, SameSend, CanSend
<1> QED BY <1>1, <1>3, <1>4

Freed(st) == [st EXCEPT !.blocked = FALSE, !.ricnt = 0]

LEMMA FreeRecord ==
  ASSUME NEW F, NEW b \in Nat, NEW st \in Records(F, b), NEW new, new = Freed(st)
  PROVE  /\ new \in Records(F, b) /\ SameRead(new, st) /\ new.state = st.state
         /\ ~new.blocked /\ new.ricnt = 0 /\ new.held = st.held /\ SameSend(new, st)
         /\ Coherent(st) /\ st.held = <<>> => Coherent(new)
<1>1. /\ new \in Records(F, b) /\ SameRead(new, st) /\ new.state = st.state
      /\ new.blocked = FALSE /\ new.ricnt = 0 /\ new.held = st.held /\ SameSend(new, st)
  BY DEF Records, SameRead, SameSend, Freed
<1> QED BY <1>1 DEF Coherent, SameRead, SameSend, CanSend

Longer(st, chunk) == [st EXCEPT !.buf = @ \o chunk]

LEMMA MoreRecord ==
  ASSUME NEW F, NEW b \in Nat, NEW st \in Records(F, b), NEW chunk \in Seq(F),
         NEW new, new = Longer(st, chunk)
  PROVE  /\ new \in Records(F, b) /\ new.buf = st.buf \o chunk /\ new.fin = st.fin
         /\ new.recv = st.recv /\ new.state = st.state /\ SamePark(new, st) /\ SameSend(new, st)
         /\ Coherent(st) /\ ~st.fin => Coherent(new)
<1>1. st.buf \in Seq(F) BY DEF Records
<1>2. st.buf \o chunk \in Seq(F) BY <1>1, ConcatProperties
<1>3. PICK longer \in Seq(F) : longer = st.buf \o chunk BY <1>2
<1>4. new = [st EXCEPT !.buf = longer] BY <1>3 DEF Longer
<1>5. /\ new \in Records(F, b) /\ new.buf = longer /\ new.fin = st.fin
      /\ new.recv = st.recv /\ new.state = st.state /\ SamePark(new, st) /\ SameSend(new, st)
  BY <1>4 DEF Records, SamePark, SameSend
<1>6. Coherent(st) /\ ~st.fin => Coherent(new) BY <1>5 DEF Coherent, SamePark, SameSend, CanSend
<1> QED BY <1>3, <1>5, <1>6

Finned(st) == [st EXCEPT !.fin = TRUE]

LEMMA FinnedRecord ==
  ASSUME NEW F, NEW b \in Nat, NEW st \in Records(F, b), NEW new, new = Finned(st)
  PROVE  /\ new \in Records(F, b) /\ new.buf = st.buf
         /\ new.recv = st.recv /\ new.state = st.state /\ SamePark(new, st) /\ SameSend(new, st)
         /\ Coherent(st) => Coherent(new)
<1>1. /\ new \in Records(F, b) /\ new.buf = st.buf /\ new.fin = TRUE
      /\ new.recv = st.recv /\ new.state = st.state /\ SamePark(new, st) /\ SameSend(new, st)
  BY DEF Finned, Records, SamePark, SameSend
<1> QED BY <1>1 DEF Coherent, SamePark, SameSend, CanSend

Stopping(st) ==
    [st EXCEPT !.state = CloseLocal(@), !.out = <<>>, !.outFin = FALSE, !.finSent = FALSE,
               !.blocked = FALSE, !.ricnt = 0, !.held = <<>>]

LEMMA StopRecord ==
  ASSUME NEW F, NEW b \in Nat, NEW st \in Records(F, b), NEW new, new = Stopping(st)
  PROVE  /\ new \in Records(F, b) /\ SameRead(new, st) /\ new.state = CloseLocal(st.state)
         /\ ~new.blocked /\ new.ricnt = 0 /\ new.held = <<>> /\ new.out = <<>> /\ ~new.outFin
         /\ Coherent(st) => Coherent(new) /\ ~CanSend(new)
<1>1. PICK none \in Seq(HeldSections(F)) : none = <<>> BY EmptySeq
<1>2. PICK empty \in Seq(Pieces) : empty = <<>> BY EmptySeq
<1>3. PICK x \in {"Open", "LocalClosed", "RemoteClosed", "Closed", "Reset"} : x = CloseLocal(st.state)
  BY DEF CloseLocal, Records
<1>4. new = [st EXCEPT !.state = x, !.out = empty, !.outFin = FALSE, !.finSent = FALSE,
                       !.blocked = FALSE, !.ricnt = 0, !.held = none]
  BY <1>1, <1>2, <1>3 DEF Stopping
<1>a. new \in Records(F, b)
  <2>1. PICK mid \in Records(F, b) :
          mid = [st EXCEPT !.state = x, !.out = empty, !.outFin = FALSE, !.finSent = FALSE]
    BY DEF Records
  <2>2. new = [mid EXCEPT !.blocked = FALSE, !.ricnt = 0, !.held = none]
    BY <1>4, <2>1 DEF Records
  <2>3. [mid EXCEPT !.blocked = FALSE, !.ricnt = 0, !.held = none] \in Records(F, b)
    BY DEF Records, HeldSections
  <2> QED BY <2>2, <2>3
<1>b. /\ SameRead(new, st) /\ new.state = x
      /\ new.blocked = FALSE /\ new.ricnt = 0 /\ new.held = none /\ new.out = empty
      /\ new.outFin = FALSE /\ new.finSent = FALSE
  BY <1>4 DEF Records, SameRead
<1>5. /\ new \in Records(F, b) /\ SameRead(new, st) /\ new.state = x
      /\ new.blocked = FALSE /\ new.ricnt = 0 /\ new.held = none /\ new.out = empty
      /\ new.outFin = FALSE /\ new.finSent = FALSE
  BY <1>a, <1>b
<1>6. st.state \in {"Open", "LocalClosed", "RemoteClosed", "Closed", "Reset"} BY DEF Records
<1>7. Coherent(st) => Coherent(new) /\ ~CanSend(new)
  BY <1>1, <1>2, <1>3, <1>5, <1>6 DEF Coherent, SameRead, CanSend, CloseLocal
<1> QED BY <1>1, <1>2, <1>3, <1>5, <1>7

LEMMA QueueRecord ==
  ASSUME NEW F, NEW b \in Nat, NEW st \in Records(F, b), NEW kind \in Pieces,
         NEW next \in {"InterimResponseSent", "HeadersSent", "SendingBody", "TrailersSent"},
         NEW fin \in BOOLEAN, NEW new, new = Queue(st, kind, next, fin)
  PROVE  /\ new \in Records(F, b) /\ SameRead(new, st) /\ SamePark(new, st)
         /\ new.out = Append(st.out, kind) /\ new.finSent = st.finSent
         /\ new.send = IF fin THEN "Complete" ELSE next
         /\ new.state = IF fin THEN CloseLocal(st.state) ELSE st.state
         /\ (new.outFin <=> st.outFin \/ fin)
         /\ Coherent(st) /\ CanSend(st) => Coherent(new) /\ ~Done(new) /\ ~st.outFin /\ ~st.finSent
<1>1. /\ st.out \in Seq(Pieces) /\ st.outFin \in BOOLEAN /\ st.finSent \in BOOLEAN
      /\ st.state \in {"Open", "LocalClosed", "RemoteClosed", "Closed", "Reset"} BY DEF Records
<1>2. PICK out \in Seq(Pieces) : out = Append(st.out, kind) BY <1>1, AppendProperties
<1>3. PICK x \in {"Open", "LocalClosed", "RemoteClosed", "Closed", "Reset"} :
        x = IF fin THEN CloseLocal(st.state) ELSE st.state
  BY <1>1 DEF CloseLocal
<1>4. PICK y \in BOOLEAN : y = (st.outFin \/ fin) BY <1>1
<1>5. PICK z \in {"InterimResponseSent", "HeadersSent", "SendingBody", "TrailersSent", "Complete"} :
        z = IF fin THEN "Complete" ELSE next
  OBVIOUS
<1>6. new = [st EXCEPT !.out = out, !.outFin = y, !.state = x, !.send = z]
  BY <1>2, <1>3, <1>4, <1>5 DEF Queue
<1>7. /\ new \in Records(F, b) /\ SameRead(new, st) /\ SamePark(new, st)
      /\ new.out = out /\ new.finSent = st.finSent /\ new.send = z /\ new.state = x
      /\ new.outFin = y
  BY ZenonT(60), <1>6 DEF Records, SameRead, SamePark
<1>8. Coherent(st) /\ CanSend(st) => Coherent(new) /\ ~Done(new) /\ ~st.outFin /\ ~st.finSent
  BY <1>1, <1>3, <1>4, <1>5, <1>7
  DEF Coherent, SameRead, SamePark, CanSend, CloseLocal, Done, IsSendComplete
<1> QED BY <1>2, <1>3, <1>4, <1>5, <1>7, <1>8

LEMMA RequestRecord ==
  ASSUME NEW F, NEW b \in Nat, NEW connect \in BOOLEAN, NEW new,
         new = [NewStream EXCEPT !.connectReq = connect]
  PROVE  /\ new \in Records(F, b) /\ SameRead(new, NewStream) /\ SamePark(new, NewStream)
         /\ SameSend(new, NewStream) /\ new.state = "Open" /\ Coherent(new)
<1>1. NewStream \in Records(F, b) /\ Coherent(NewStream) /\ NewStream.state = "Open"
  BY NewRecord
<1>2. /\ new \in Records(F, b) /\ SameRead(new, NewStream) /\ SamePark(new, NewStream)
      /\ SameSend(new, NewStream) /\ new.state = NewStream.state
  BY <1>1 DEF Records, SameRead, SamePark, SameSend
<1> QED BY <1>1, <1>2 DEF Coherent, SameRead, SamePark, SameSend, CanSend

Finishing(st) == [st EXCEPT !.outFin = TRUE, !.state = CloseLocal(@), !.send = "Complete"]

LEMMA LastRecord ==
  ASSUME NEW F, NEW b \in Nat, NEW st \in Records(F, b), NEW new, new = Finishing(st)
  PROVE  /\ new \in Records(F, b) /\ SameRead(new, st) /\ SamePark(new, st)
         /\ new.out = st.out /\ new.finSent = st.finSent /\ new.send = "Complete" /\ new.outFin
         /\ new.state = CloseLocal(st.state)
         /\ Coherent(st) /\ CanSend(st) => Coherent(new) /\ ~Done(new) /\ ~st.outFin /\ ~st.finSent
<1>1. PICK x \in {"Open", "LocalClosed", "RemoteClosed", "Closed", "Reset"} : x = CloseLocal(st.state)
  BY DEF CloseLocal, Records
<1>2. new = [st EXCEPT !.outFin = TRUE, !.state = x, !.send = "Complete"] BY <1>1 DEF Finishing
<1>3. /\ new \in Records(F, b) /\ SameRead(new, st) /\ SamePark(new, st)
      /\ new.out = st.out /\ new.finSent = st.finSent /\ new.send = "Complete" /\ new.outFin = TRUE
      /\ new.state = x
  BY ZenonT(60), <1>2 DEF Records, SameRead, SamePark
<1>4. st.state \in {"Open", "LocalClosed", "RemoteClosed", "Closed", "Reset"}
      /\ st.outFin \in BOOLEAN /\ st.finSent \in BOOLEAN BY DEF Records
<1>5. Coherent(st) /\ CanSend(st) => Coherent(new) /\ ~Done(new) /\ ~st.outFin /\ ~st.finSent
  BY <1>1, <1>3, <1>4
  DEF Coherent, SameRead, SamePark, CanSend, CloseLocal, Done, IsSendComplete
<1> QED BY <1>1, <1>3, <1>5

LEMMA FinRecord ==
  ASSUME NEW F, NEW b \in Nat, NEW st \in Records(F, b), NEW new, new = [st EXCEPT !.finSent = TRUE]
  PROVE  /\ new \in Records(F, b) /\ SameRead(new, st) /\ SamePark(new, st)
         /\ new.out = st.out /\ new.finSent /\ new.send = st.send /\ new.outFin = st.outFin
         /\ new.state = st.state
         /\ Coherent(st) /\ HasFinPending(st) => Coherent(new)
<1>1. /\ new \in Records(F, b) /\ SameRead(new, st) /\ SamePark(new, st)
      /\ new.out = st.out /\ new.finSent = TRUE /\ new.send = st.send /\ new.outFin = st.outFin
      /\ new.state = st.state
  BY DEF Records, SameRead, SamePark
<1> QED BY <1>1 DEF Coherent, SameRead, SamePark, CanSend, HasFinPending

LEMMA SentRecord ==
  ASSUME NEW F, NEW b \in Nat, NEW st \in Records(F, b), NEW new, new = [st EXCEPT !.out = <<>>]
  PROVE  /\ new \in Records(F, b) /\ SameRead(new, st) /\ SamePark(new, st)
         /\ new.out = <<>> /\ new.finSent = st.finSent /\ new.send = st.send
         /\ new.outFin = st.outFin /\ new.state = st.state
         /\ Coherent(st) => Coherent(new)
<1>1. PICK empty \in Seq(Pieces) : empty = <<>> BY EmptySeq
<1>2. new = [st EXCEPT !.out = empty] BY <1>1
<1>3. /\ new \in Records(F, b) /\ SameRead(new, st) /\ SamePark(new, st)
      /\ new.out = empty /\ new.finSent = st.finSent /\ new.send = st.send
      /\ new.outFin = st.outFin /\ new.state = st.state
  BY <1>2 DEF Records, SameRead, SamePark
<1>4. Coherent(st) => Coherent(new) BY <1>1, <1>3 DEF Coherent, SameRead, SamePark, CanSend
<1> QED BY <1>1, <1>3, <1>4

-----------------------------------------------------------------------------
(* Pieces of a message.                                                    *)

AnyPiece == Pieces \cup {"fin"}

LEMMA OrderEmpty == InOrder(<<>>)
BY DEF InOrder

LEMMA OrderAppend ==
  ASSUME NEW q \in Seq(AnyPiece), NEW x \in AnyPiece, InOrder(q),
         \A i \in 1 .. Len(q) : q[i] \in Before(x),
         x \notin {"interim", "final"} => \E i \in 1 .. Len(q) : q[i] = "final"
  PROVE  InOrder(Append(q, x))
<1> DEFINE r == Append(q, x)
<1>1. /\ Len(r) = Len(q) + 1 /\ r[Len(q) + 1] = x /\ \A i \in 1 .. Len(q) : r[i] = q[i]
  BY AppendProperties
<1>2. Len(q) \in Nat OBVIOUS
<1> HIDE DEF r
<1>3. ASSUME NEW i \in 1 .. Len(r), NEW j \in 1 .. Len(r), i < j
      PROVE  r[i] \in Before(r[j])
  <2>1. i \in 1 .. Len(q) /\ r[i] = q[i] BY <1>1, <1>2, <1>3
  <2>2. CASE j \in 1 .. Len(q) BY <2>1, <2>2, <1>1, <1>3 DEF InOrder
  <2>3. CASE j = Len(q) + 1 BY <2>1, <2>3, <1>1
  <2> QED BY <2>2, <2>3, <1>1, <1>2
<1>4. ASSUME NEW j \in 1 .. Len(r), r[j] \notin {"interim", "final"}
      PROVE  \E i \in 1 .. j - 1 : r[i] = "final"
  <2>1. CASE j \in 1 .. Len(q)
    <3>1. PICK i \in 1 .. j - 1 : q[i] = "final" BY <2>1, <1>1, <1>4 DEF InOrder
    <3>2. i \in 1 .. Len(q) BY <3>1, <2>1, <1>2
    <3> QED BY <3>1, <3>2, <1>1
  <2>2. CASE j = Len(q) + 1
    <3>1. PICK i \in 1 .. Len(q) : q[i] = "final" BY <2>2, <1>1, <1>4
    <3> QED BY <3>1, <2>2, <1>1, <1>2
  <2> QED BY <2>1, <2>2, <1>1, <1>2
<1> QED BY <1>3, <1>4 DEF InOrder, r

LEMMA OrderPrefix ==
  ASSUME NEW q \in Seq(AnyPiece), NEW r \in Seq(AnyPiece), InOrder(q \o r)
  PROVE  InOrder(q)
<1> DEFINE s == q \o r
<1>1. /\ Len(s) = Len(q) + Len(r) /\ \A i \in 1 .. Len(q) : s[i] = q[i]
  BY ConcatProperties
<1>2. Len(q) \in Nat /\ Len(r) \in Nat OBVIOUS
<1>3. InOrder(s) OBVIOUS
<1> HIDE DEF s
<1>4. \A i \in 1 .. Len(q) : i \in 1 .. Len(s) /\ s[i] = q[i] BY <1>1, <1>2
<1>5. ASSUME NEW i \in 1 .. Len(q), NEW j \in 1 .. Len(q), i < j
      PROVE  q[i] \in Before(q[j])
  BY <1>3, <1>4, <1>5 DEF InOrder
<1>6. ASSUME NEW j \in 1 .. Len(q), q[j] \notin {"interim", "final"}
      PROVE  \E i \in 1 .. j - 1 : q[i] = "final"
  <2>1. PICK i \in 1 .. j - 1 : s[i] = "final" BY <1>3, <1>4, <1>6 DEF InOrder
  <2> QED BY <2>1, <1>2, <1>4
<1> QED BY <1>5, <1>6 DEF InOrder

(* A piece that a stream may send next, and the state it is in afterwards. *)
MayQueue(kind, send, next) ==
    \/ kind = "interim" /\ send \in {"Initial", "InterimResponseSent"}
          /\ next = "InterimResponseSent"
    \/ kind = "final" /\ send \in {"Initial", "InterimResponseSent"}
          /\ next \in {"HeadersSent", "Complete"}
    \/ kind = "data" /\ send \in {"HeadersSent", "SendingBody"}
          /\ next \in {"SendingBody", "Complete"}
    \/ kind = "status trailers" /\ send \in {"HeadersSent", "SendingBody"}
          /\ next \in {"TrailersSent", "Complete"}

LEMMA NextPiece ==
  ASSUME NEW kind, NEW send, NEW next, MayQueue(kind, send, next)
  PROVE  /\ \A x \in Allowed(send) : x \in Before(kind) /\ x \in Allowed(next)
         /\ kind \notin {"interim", "final"} => send \in {"HeadersSent", "SendingBody"}
         /\ kind \in Allowed(next)
         /\ kind # "final" /\ next \notin {"Initial", "InterimResponseSent"}
               => send \in {"HeadersSent", "SendingBody"}
<1>1. /\ Allowed("Initial") = {} /\ Allowed("InterimResponseSent") = {"interim"}
      /\ Allowed("HeadersSent") = {"interim", "final"}
      /\ Allowed("SendingBody") = {"interim", "final", "data"}
      /\ Allowed("TrailersSent") = {"interim", "final", "data", "status trailers"}
      /\ Allowed("Complete") = {"interim", "final", "data", "status trailers"}
  BY DEF Allowed, Pieces
<1>2. /\ Before("interim") = {"interim"} /\ Before("final") = {"interim"}
      /\ Before("data") = {"interim", "final", "data"}
      /\ Before("status trailers") = {"interim", "final", "data"}
  BY DEF Before
<1> QED BY <1>1, <1>2 DEF MayQueue

(* A piece queued behind those of a stream that may send it.               *)
LEMMA OrderQueue ==
  ASSUME NEW q \in Seq(AnyPiece), NEW send, NEW next, NEW kind \in Pieces,
         NEW r, r = Append(q, kind), InOrder(q), Within(q, send), Begun(q, send),
         MayQueue(kind, send, next)
  PROVE  InOrder(r) /\ Within(r, next) /\ Begun(r, next)
<1>1. /\ Len(r) = Len(q) + 1 /\ r[Len(q) + 1] = kind /\ \A i \in 1 .. Len(q) : r[i] = q[i]
  <2> kind \in AnyPiece BY Zenon DEF AnyPiece
  <2> QED BY AppendProperties
<1>2. Len(q) \in Nat OBVIOUS
<1>3. \A i \in 1 .. Len(q) : q[i] \in Allowed(send) BY DEF Within
<1>4. send \in {"HeadersSent", "SendingBody"} => \E i \in 1 .. Len(q) : q[i] = "final"
  BY DEF Begun
<1>5. kind \in AnyPiece BY Zenon DEF AnyPiece
<1>6. \A i \in 1 .. Len(q) : q[i] \in Before(kind)
  BY <1>3, NextPiece
<1>7. kind \notin {"interim", "final"} => \E i \in 1 .. Len(q) : q[i] = "final" BY <1>4, NextPiece
<1>8. InOrder(r) BY <1>5, <1>6, <1>7, OrderAppend
<1>9. \A i \in 1 .. Len(r) : r[i] \in Allowed(next)
  <2>1. kind \in Allowed(next) BY NextPiece
  <2>2. \A i \in 1 .. Len(q) : q[i] \in Allowed(next) BY <1>3, NextPiece
  <2> QED BY <2>1, <2>2, <1>1, <1>2
<1>10. next \notin {"Initial", "InterimResponseSent"} => \E i \in 1 .. Len(r) : r[i] = "final"
  <2>1. CASE kind = "final" BY <2>1, <1>1, <1>2
  <2>2. CASE kind # "final" BY <2>2, <1>1, <1>2, <1>4, NextPiece
  <2> QED BY <2>1, <2>2
<1> QED BY <1>8, <1>9, <1>10 DEF Within, Begun

-----------------------------------------------------------------------------
(* Frames that arrived and frames in the buffer.                           *)

LEMMA ShowsNothing ==
  ASSUME NEW F, NEW q \in Seq(F), NEW n \in Nat, n <= Len(q), Shows(<<>>, q, n)
  PROVE  Len(q) = n
<1>1. Len(q) \in Nat /\ Len(<<>>) = 0 OBVIOUS
<1>2. PICK pos \in [1 .. Len(q) - n -> 1 .. Len(<<>>)] : TRUE BY DEF Shows
<1>3. \A i \in 1 .. Len(q) - n : pos[i] \in 1 .. 0 BY <1>1, <1>2
<1>4. 1 .. 0 = {} OBVIOUS
<1>5. 1 \notin 1 .. Len(q) - n BY <1>3, <1>4
<1> QED BY <1>1, <1>5

LEMMA ShowsEmpty ==
  ASSUME NEW F, NEW q \in Seq(F), NEW b, b = <<>>
  PROVE  Shows(b, q, Len(q))
<1>1. Len(q) \in Nat /\ 1 .. Len(q) - Len(q) = {} OBVIOUS
<1>2. [i \in {} |-> i] \in [1 .. Len(q) - Len(q) -> 1 .. Len(b)] BY <1>1
<1>3. 1 .. Len(b) = {} OBVIOUS
<1> QED BY <1>1, <1>2, <1>3 DEF Shows

(* pos places the frames of q from n on in buf.                            *)
Placed(pos, buf, q, n) ==
    /\ pos \in [1 .. Len(q) - n -> 1 .. Len(buf)]
    /\ \A k, m \in 1 .. Len(q) - n : k < m => pos[k] < pos[m]
    /\ \A k \in 1 .. Len(q) - n : q[n + k] = buf[pos[k]]
    /\ \A i \in 1 .. Len(buf) :
          (buf[i].kind # "unknown") <=> (\E k \in 1 .. Len(q) - n : pos[k] = i)

LEMMA ShowsPlaced ==
  ASSUME NEW buf, NEW q, NEW n
  PROVE  Shows(buf, q, n) <=> \E pos : Placed(pos, buf, q, n)
BY DEF Shows, Placed

LEMMA ShowsMoreUnknown ==
  ASSUME NEW F, NEW buf \in Seq(F), NEW q \in Seq(F), NEW n \in Nat, n <= Len(q), NEW f \in F,
         Shows(buf, q, n), f.kind = "unknown", NEW b, b = Append(buf, f)
  PROVE  Shows(b, q, n)
<1>1. PICK pos : Placed(pos, buf, q, n) BY ShowsPlaced
<1>2. /\ Len(b) = Len(buf) + 1 /\ b[Len(buf) + 1] = f /\ \A i \in 1 .. Len(buf) : b[i] = buf[i]
      /\ Len(buf) \in Nat /\ Len(q) \in Nat BY AppendProperties
<1>3. \A k \in 1 .. Len(q) - n : pos[k] \in 1 .. Len(buf) BY <1>1 DEF Placed
<1>4. pos \in [1 .. Len(q) - n -> 1 .. Len(b)] BY <1>1, <1>2 DEF Placed
<1>5. \A k \in 1 .. Len(q) - n : q[n + k] = b[pos[k]] BY <1>1, <1>2, <1>3 DEF Placed
<1>6. ASSUME NEW i \in 1 .. Len(b)
      PROVE  (b[i].kind # "unknown") <=> (\E k \in 1 .. Len(q) - n : pos[k] = i)
  <2>1. CASE i \in 1 .. Len(buf) BY <2>1, <1>1, <1>2 DEF Placed
  <2>2. CASE i = Len(buf) + 1
    <3>1. \A k \in 1 .. Len(q) - n : pos[k] # i BY <2>2, <1>2, <1>3
    <3> QED BY <2>2, <3>1, <1>2
  <2> QED BY <2>1, <2>2, <1>2
<1>7. Placed(pos, b, q, n) BY <1>1, <1>4, <1>5, <1>6 DEF Placed
<1> QED BY <1>7, ShowsPlaced

LEMMA ShowsMore ==
  ASSUME NEW F, NEW buf \in Seq(F), NEW q \in Seq(F), NEW n \in Nat, n <= Len(q), NEW f \in F,
         Shows(buf, q, n), f.kind # "unknown", NEW b, b = Append(buf, f), NEW r, r = Append(q, f)
  PROVE  Shows(b, r, n)
<1>1. PICK pos : Placed(pos, buf, q, n) BY ShowsPlaced
<1>2. /\ Len(b) = Len(buf) + 1 /\ b[Len(buf) + 1] = f /\ \A i \in 1 .. Len(buf) : b[i] = buf[i]
      /\ Len(r) = Len(q) + 1 /\ r[Len(q) + 1] = f /\ \A i \in 1 .. Len(q) : r[i] = q[i]
      /\ Len(buf) \in Nat /\ Len(q) \in Nat BY AppendProperties
<1>3. \A k \in 1 .. Len(q) - n : pos[k] \in 1 .. Len(buf) BY <1>1 DEF Placed
<1> DEFINE m == Len(q) - n
           new == [k \in 1 .. Len(r) - n |-> IF k <= m THEN pos[k] ELSE Len(buf) + 1]
<1>4. m \in Nat /\ Len(r) - n = m + 1 BY <1>2
<1>5. /\ \A k \in 1 .. m : new[k] = pos[k] /\ new[k] \in 1 .. Len(buf)
      /\ new[m + 1] = Len(buf) + 1
  BY <1>3, <1>4
<1>6. new \in [1 .. Len(r) - n -> 1 .. Len(b)] BY <1>2, <1>3, <1>4
<1>a. \A k, l \in 1 .. m : k < l => pos[k] < pos[l] BY <1>1 DEF Placed
<1>b. \A k \in 1 .. m : q[n + k] = buf[pos[k]] BY <1>1 DEF Placed
<1>c. \A i \in 1 .. Len(buf) : (buf[i].kind # "unknown") <=> (\E k \in 1 .. m : pos[k] = i)
  BY <1>1 DEF Placed
<1> HIDE DEF new
<1>7. ASSUME NEW k \in 1 .. Len(r) - n, NEW l \in 1 .. Len(r) - n, k < l PROVE new[k] < new[l]
  <2> HIDE DEF m
  <2>1. k \in 1 .. m BY <1>4, <1>7
  <2>2. CASE l \in 1 .. m BY <2>1, <2>2, <1>5, <1>7, <1>a
  <2>3. CASE l = m + 1 BY <2>1, <2>3, <1>2, <1>5
  <2> QED BY <2>2, <2>3, <1>4
<1>8. ASSUME NEW k \in 1 .. Len(r) - n PROVE r[n + k] = b[new[k]]
  <2>1. CASE k \in 1 .. m
    <3>1. n + k \in 1 .. Len(q) BY <2>1, <1>2
    <3> HIDE DEF m
    <3> QED BY SMTT(30), <2>1, <3>1, <1>2, <1>5, <1>b
  <2>2. CASE k = m + 1
    <3>1. n + k = Len(q) + 1 BY <2>2, <1>2
    <3> HIDE DEF m
    <3> QED BY <2>2, <3>1, <1>2, <1>5
  <2>3. k \in 1 .. m \/ k = m + 1
    <3> HIDE DEF m
    <3> QED BY <1>4
  <2> QED BY <2>1, <2>2, <2>3
<1>9. ASSUME NEW i \in 1 .. Len(b)
      PROVE  (b[i].kind # "unknown") <=> (\E k \in 1 .. Len(r) - n : new[k] = i)
  <2> HIDE DEF m
  <2>1. CASE i \in 1 .. Len(buf)
    <3>1. b[i] = buf[i] BY <2>1, <1>2
    <3>2. ASSUME NEW k \in 1 .. m, pos[k] = i PROVE \E l \in 1 .. Len(r) - n : new[l] = i
      <4>1. k \in 1 .. Len(r) - n BY <1>4
      <4>2. new[k] = i BY <3>2, <1>5
      <4> QED BY <4>1, <4>2
    <3>3. ASSUME NEW k \in 1 .. Len(r) - n, new[k] = i PROVE \E l \in 1 .. m : pos[l] = i
      <4>1. k # m + 1 BY <3>3, <2>1, <1>2, <1>5
      <4>2. k \in 1 .. m BY <4>1, <1>4
      <4> QED BY <4>2, <3>3, <1>5
    <3>4. (buf[i].kind # "unknown") <=> (\E k \in 1 .. m : pos[k] = i) BY <2>1, <1>c
    <3> QED BY <3>1, <3>2, <3>3, <3>4
  <2>2. CASE i = Len(buf) + 1
    <3>1. b[i].kind # "unknown" BY <2>2, <1>2
    <3>2. m + 1 \in 1 .. Len(r) - n BY <1>4
    <3> QED BY <2>2, <3>1, <3>2, <1>5
  <2> QED BY <2>1, <2>2, <1>2
<1>10. Placed(new, b, r, n) BY <1>6, <1>7, <1>8, <1>9 DEF Placed
<1> QED BY <1>10, ShowsPlaced

LEMMA ShowsTailUnknown ==
  ASSUME NEW F, NEW buf \in Seq(F), buf # <<>>, NEW q \in Seq(F), NEW n \in Nat, n <= Len(q),
         Shows(buf, q, n), Head(buf).kind = "unknown", NEW b, b = Tail(buf)
  PROVE  Shows(b, q, n)
<1>1. PICK pos : Placed(pos, buf, q, n) BY ShowsPlaced
<1>2. /\ Len(buf) \in Nat /\ Len(buf) >= 1 /\ Len(b) = Len(buf) - 1 /\ Len(q) \in Nat
      /\ \A i \in 1 .. Len(b) : b[i] = buf[i + 1] BY HeadTailProperties
<1>3. buf[1].kind = "unknown" OBVIOUS
<1> DEFINE m == Len(q) - n
           new == [k \in 1 .. m |-> pos[k] - 1]
<1>4. m \in Nat BY <1>2
<1>a. \A k \in 1 .. m : pos[k] \in 1 .. Len(buf) BY <1>1 DEF Placed
<1>b. \A k, l \in 1 .. m : k < l => pos[k] < pos[l] BY <1>1 DEF Placed
<1>c. \A k \in 1 .. m : q[n + k] = buf[pos[k]] BY <1>1 DEF Placed
<1>d. \A i \in 1 .. Len(buf) : (buf[i].kind # "unknown") <=> (\E k \in 1 .. m : pos[k] = i)
  BY <1>1 DEF Placed
<1>5. \A k \in 1 .. m : pos[k] # 1 BY <1>2, <1>3, <1>d
<1>6. \A k \in 1 .. m : new[k] = pos[k] - 1 /\ new[k] \in 1 .. Len(b) BY <1>2, <1>a, <1>5
<1>7. new \in [1 .. m -> 1 .. Len(b)] BY <1>6
<1> HIDE DEF new
<1>8. \A k, l \in 1 .. m : k < l => new[k] < new[l]
  <2> TAKE k, l \in 1 .. m
  <2>1. /\ new[k] = pos[k] - 1 /\ new[l] = pos[l] - 1 /\ pos[k] \in Nat /\ pos[l] \in Nat
        /\ (k < l => pos[k] < pos[l])
    BY <1>6, <1>a, <1>b
  <2> QED BY <2>1
<1>9. \A k \in 1 .. m : q[n + k] = b[new[k]]
  <2> TAKE k \in 1 .. m
  <2>1. new[k] \in 1 .. Len(b) /\ new[k] + 1 = pos[k] BY <1>6, <1>a
  <2>2. b[new[k]] = buf[pos[k]] BY <2>1, <1>2
  <2> QED BY <2>2, <1>c
<1>10. ASSUME NEW i \in 1 .. Len(b)
       PROVE  (b[i].kind # "unknown") <=> (\E k \in 1 .. m : new[k] = i)
  <2>1. i + 1 \in 1 .. Len(buf) /\ b[i] = buf[i + 1] BY <1>2
  <2>2. (buf[i + 1].kind # "unknown") <=> (\E k \in 1 .. m : pos[k] = i + 1) BY <2>1, <1>d
  <2>3. \A k \in 1 .. m : new[k] = i <=> pos[k] = i + 1 BY <1>6, <1>a
  <2> HIDE DEF m
  <2> QED BY <2>1, <2>2, <2>3
<1>11. Placed(new, b, q, n) BY <1>7, <1>8, <1>9, <1>10 DEF Placed
<1> QED BY <1>11, ShowsPlaced

LEMMA ShowsTail ==
  ASSUME NEW F, NEW buf \in Seq(F), buf # <<>>, NEW q \in Seq(F), NEW n \in Nat, n <= Len(q),
         Shows(buf, q, n), Head(buf).kind # "unknown", NEW b, b = Tail(buf)
  PROVE  n + 1 <= Len(q) /\ q[n + 1] = Head(buf) /\ Shows(b, q, n + 1)
<1>1. PICK pos : Placed(pos, buf, q, n) BY ShowsPlaced
<1>2. /\ Len(buf) \in Nat /\ Len(buf) >= 1 /\ Len(b) = Len(buf) - 1 /\ Len(q) \in Nat
      /\ \A i \in 1 .. Len(b) : b[i] = buf[i + 1] BY HeadTailProperties
<1>3. buf[1].kind # "unknown" OBVIOUS
<1> DEFINE m == Len(q) - n
           new == [k \in 1 .. Len(q) - (n + 1) |-> pos[k + 1] - 1]
<1>4. m \in Nat BY <1>2
<1>a. \A k \in 1 .. m : pos[k] \in 1 .. Len(buf) BY <1>1 DEF Placed
<1>b. \A k, l \in 1 .. m : k < l => pos[k] < pos[l] BY <1>1 DEF Placed
<1>c. \A k \in 1 .. m : q[n + k] = buf[pos[k]] BY <1>1 DEF Placed
<1>d. \A i \in 1 .. Len(buf) : (buf[i].kind # "unknown") <=> (\E k \in 1 .. m : pos[k] = i)
  BY <1>1 DEF Placed
<1>5. PICK j \in 1 .. m : pos[j] = 1 BY <1>2, <1>3, <1>d
<1>6. j = 1
  <2>1. SUFFICES ASSUME j # 1 PROVE FALSE OBVIOUS
  <2>2. 1 \in 1 .. m /\ 1 < j BY <2>1, <1>4, <1>5
  <2>3. pos[1] < pos[j] /\ pos[1] \in 1 .. Len(buf) BY <2>2, <1>a, <1>b
  <2> QED BY <2>3, <1>5
<1>7. 1 \in 1 .. m /\ pos[1] = 1 BY <1>5, <1>6
<1>8. n + 1 <= Len(q) /\ Len(q) - (n + 1) = m - 1 /\ m >= 1 BY <1>2, <1>4, <1>7
<1>9. q[n + 1] = Head(buf) BY <1>7, <1>c
<1>10. \A k \in 1 .. m - 1 : k + 1 \in 1 .. m /\ 1 < k + 1 BY <1>8
<1>11. \A k \in 1 .. m - 1 : pos[k + 1] \in 1 .. Len(buf) /\ pos[k + 1] > 1
  <2> TAKE k \in 1 .. m - 1
  <2>1. pos[k + 1] \in 1 .. Len(buf) BY <1>10, <1>a
  <2>2. pos[1] < pos[k + 1] BY <1>7, <1>10, <1>b
  <2> QED BY <2>1, <2>2, <1>7
<1>12. \A k \in 1 .. m - 1 : new[k] = pos[k + 1] - 1 BY <1>8
<1>13. \A k \in 1 .. m - 1 : new[k] \in 1 .. Len(b) BY <1>12, <1>11, <1>2
<1>14. new \in [1 .. m - 1 -> 1 .. Len(b)] BY <1>8, <1>13
<1> HIDE DEF new
<1>15. \A k, l \in 1 .. m - 1 : k < l => new[k] < new[l]
  <2> TAKE k, l \in 1 .. m - 1
  <2> HAVE k < l
  <2>1. k + 1 < l + 1 /\ k + 1 \in 1 .. m /\ l + 1 \in 1 .. m BY <1>10
  <2>2. pos[k + 1] < pos[l + 1] BY <2>1, <1>b
  <2>3. pos[k + 1] \in Nat /\ pos[l + 1] \in Nat BY <1>11
  <2> QED BY SMTT(30), <2>2, <2>3, <1>12
<1>16. \A k \in 1 .. m - 1 : q[n + 1 + k] = b[new[k]]
  <2> TAKE k \in 1 .. m - 1
  <2>1. new[k] \in 1 .. Len(b) /\ new[k] + 1 = pos[k + 1] BY <1>11, <1>12, <1>13
  <2>2. b[new[k]] = buf[pos[k + 1]] BY <2>1, <1>2
  <2>3. q[n + (k + 1)] = buf[pos[k + 1]] BY <1>c, <1>10
  <2>4. n + (k + 1) = n + 1 + k OBVIOUS
  <2> QED BY <2>2, <2>3, <2>4
<1>17. ASSUME NEW i \in 1 .. Len(b)
       PROVE  (b[i].kind # "unknown") <=> (\E k \in 1 .. m - 1 : new[k] = i)
  <2>1. i + 1 \in 1 .. Len(buf) /\ b[i] = buf[i + 1] /\ i + 1 # 1 BY <1>2
  <2>2. (buf[i + 1].kind # "unknown") <=> (\E k \in 1 .. m : pos[k] = i + 1) BY <2>1, <1>d
  <2>3. ASSUME NEW k \in 1 .. m - 1, new[k] = i PROVE \E l \in 1 .. m : pos[l] = i + 1
    <3>1. k + 1 \in 1 .. m /\ pos[k + 1] = i + 1 BY <2>3, <1>10, <1>11, <1>12
    <3> HIDE DEF m
    <3> QED BY <3>1
  <2>4. ASSUME NEW l \in 1 .. m, pos[l] = i + 1 PROVE \E k \in 1 .. m - 1 : new[k] = i
    <3>1. l # 1 BY <2>1, <2>4, <1>7
    <3>2. l - 1 \in 1 .. m - 1 /\ (l - 1) + 1 = l BY <3>1, <1>4
    <3>3. new[l - 1] = pos[(l - 1) + 1] - 1 BY <3>2, <1>12
    <3>4. new[l - 1] = i BY <3>2, <3>3, <2>4
    <3> HIDE DEF m
    <3> QED BY <3>2, <3>4
  <2> HIDE DEF m
  <2> QED BY <2>1, <2>2, <2>3, <2>4
<1>18. Placed(new, b, q, n + 1)
  <2>1. 1 .. Len(q) - (n + 1) = 1 .. m - 1 BY <1>8
  <2> HIDE DEF m
  <2> QED BY <2>1, <1>14, <1>15, <1>16, <1>17 DEF Placed
<1> QED BY <1>8, <1>9, <1>18, ShowsPlaced

-----------------------------------------------------------------------------
(* Answers, and the order of retries.                                      *)

Both == {"ack", "cancel"}

LEMMA TimesSeq ==
  ASSUME NEW n \in Nat, NEW x \in Both
  PROVE  /\ Times(n, x) \in Seq(Both) /\ Len(Times(n, x)) = n
         /\ \A i \in 1 .. n : Times(n, x)[i] = x
<1>1. Times(n, x) \in [1 .. n -> Both] BY DEF Times
<1>2. Times(n, x) \in Seq(Both) /\ Len(Times(n, x)) = n BY <1>1
<1> QED BY <1>2 DEF Times

LEMMA NoTimes == ASSUME NEW x PROVE Times(0, x) = <<>>
BY DEF Times

LEMMA OneMore ==
  ASSUME NEW n \in Nat, NEW x \in Both
  PROVE  Append(Times(n, x), x) = Times(n + 1, x)
<1> DEFINE s == Append(Times(n, x), x)
           t == Times(n + 1, x)
<1>1. /\ Times(n, x) \in Seq(Both) /\ Len(Times(n, x)) = n
      /\ \A i \in 1 .. n : Times(n, x)[i] = x BY TimesSeq
<1>2. s \in Seq(Both) /\ Len(s) = n + 1 /\ s[n + 1] = x /\ \A i \in 1 .. n : s[i] = x
  BY <1>1, AppendProperties
<1>3. t \in Seq(Both) /\ Len(t) = n + 1 /\ \A i \in 1 .. n + 1 : t[i] = x BY TimesSeq
<1> HIDE DEF s, t
<1>4. \A i \in 1 .. Len(s) : s[i] = t[i] BY <1>2, <1>3
<1>5. s = t BY <1>2, <1>3, <1>4, SeqEqual
<1> QED BY <1>5 DEF s, t

LEMMA OwedAck ==
  ASSUME NEW n \in Nat
  PROVE  /\ Owed(n, 0) = Times(n, "ack")
         /\ Append(Owed(n, 0), "ack") = Owed(n + 1, 0)
         /\ Append(Owed(n, 0), "cancel") = Owed(n, 1)
<1>1. Times(n, "ack") \in Seq(Both) /\ Times(n + 1, "ack") \in Seq(Both) BY TimesSeq DEF Both
<1>2. Times(0, "cancel") = <<>> BY NoTimes
<1>3. Owed(n, 0) = Times(n, "ack") /\ Owed(n + 1, 0) = Times(n + 1, "ack")
  BY <1>1, <1>2, ConcatEmptySeq DEF Owed
<1>4. Append(Times(n, "ack"), "ack") = Times(n + 1, "ack") BY OneMore DEF Both
<1>5. Times(1, "cancel") = <<"cancel">>
  <2>1. Append(Times(0, "cancel"), "cancel") = Times(0 + 1, "cancel") BY OneMore DEF Both
  <2>2. Append(<<>>, "cancel") = <<"cancel">> /\ 0 + 1 = 1 OBVIOUS
  <2> QED BY <2>1, <2>2, <1>2, Zenon
<1>6. Append(Times(n, "ack"), "cancel") = Times(n, "ack") \o <<"cancel">>
  BY <1>1, AppendIsConcat DEF Both
<1> QED BY <1>3, <1>4, <1>5, <1>6 DEF Owed

(* A nonempty set of naturals has a least element.                         *)
LEMMA LeastNat ==
  ASSUME NEW T \in SUBSET Nat, T # {}
  PROVE  \E n \in T : \A m \in T : n <= m
<1> DEFINE R == OpToRel(<, Nat)
<1>1. IsWellFoundedOn(R, Nat) BY NatLessThanWellFounded
<1>2. PICK n \in T : \A m \in T : <<m, n>> \notin R
  <2> HIDE DEF R
  <2> QED BY <1>1, WFMin
<1>3. \A m \in T : ~(m < n) BY <1>2 DEF OpToRel
<1> QED BY <1>3

(* The order of a BTreeSet has a first pair in every nonempty set.         *)
LEMMA FirstIn ==
  ASSUME NEW P \in SUBSET Pairs, P # {}
  PROVE  First(P) \in P
<1>1. Streams \subseteq Nat BY StreamsAssumption
<1>2. \A p \in P : p[1] \in Nat /\ p[2] \in Nat BY <1>1 DEF Pairs
<1> DEFINE A == {p[1] : p \in P}
<1>3. A \in SUBSET Nat /\ A # {} BY <1>2
<1>4. PICK a \in A : \A m \in A : a <= m
  <2> HIDE DEF A
  <2> QED BY <1>3, LeastNat
<1> DEFINE B == {p[2] : p \in {q \in P : q[1] = a}}
<1>5. B \in SUBSET Nat /\ B # {} BY <1>2, <1>4
<1>6. PICK b \in B : \A m \in B : b <= m
  <2> HIDE DEF A, B
  <2> QED BY <1>5, LeastNat
<1>7. PICK p \in P : p[1] = a /\ p[2] = b BY <1>6
<1>8. ASSUME NEW q \in P PROVE p[1] < q[1] \/ (p[1] = q[1] /\ p[2] <= q[2])
  <2>1. q[1] \in A /\ a <= q[1] BY <1>4
  <2>2. CASE q[1] = a
    <3>1. q[2] \in B BY <2>2
    <3> QED BY <3>1, <2>2, <1>6, <1>7
  <2>3. CASE q[1] # a BY <2>1, <2>3, <1>2, <1>3, <1>7
  <2> QED BY <2>2, <2>3
<1> HIDE DEF A, B
<1>9. \E x \in P : \A q \in P : x[1] < q[1] \/ (x[1] = q[1] /\ x[2] <= q[2]) BY <1>8
<1> QED BY <1>9 DEF First

-----------------------------------------------------------------------------
(* A step on one stream leaves the others as they are.                     *)

SameStream(t) == (t \in live' <=> t \in live) /\ str'[t] = str[t]
SameNet(t) ==
    /\ (t \in net'.reset <=> t \in net.reset) /\ (t \in net'.stopped <=> t \in net.stopped)
    /\ (t \in net'.refused <=> t \in net.refused) /\ (t \in net'.failed <=> t \in net.failed)
    /\ (t \in net'.opened <=> t \in net.opened) /\ (t \in net'.used <=> t \in net.used)
    /\ net'.decoded[t] = net.decoded[t]
SameTrace(t) ==
    /\ fed'[t] = fed[t] /\ got'[t] = got[t] /\ wire'[t] = wire[t]
    /\ (t \in finned' <=> t \in finned) /\ (t \in ended' <=> t \in ended)
SameAnswers(t) ==
    /\ decOut'[t] = decOut[t] /\ deferred'.acks[t] = deferred.acks[t]
    /\ deferred'.cancels[t] = deferred.cancels[t]
SamePairs(t) ==
    \A n \in Nat : /\ (<<n, t>> \in index' <=> <<n, t>> \in index)
                   /\ (<<n, t>> \in call'.rest <=> <<n, t>> \in call.rest)
\* A call that fails forgets the streams it has not retried.
LostPairs(t) ==
    /\ err' # "none" \/ net'.stranded
    /\ \A n \in Nat : /\ (<<n, t>> \in index' <=> <<n, t>> \in index)
                      /\ <<n, t>> \notin call'.rest
Same(t) ==
    /\ SameStream(t) /\ SameNet(t) /\ SameTrace(t) /\ SameAnswers(t)
    /\ SamePairs(t) \/ LostPairs(t)
\* The rest of the state does not disturb a stream either.
Calm == /\ scope' = scope /\ decOpen' = decOpen /\ inserts <= inserts'
        /\ (err' = "none" /\ ~net'.stranded => err = "none" /\ ~net.stranded)

LEMMA LifeFrame ==
  ASSUME NEW t \in Streams, LifeAt(t), Role' = Role, SameStream(t), SameNet(t), SameTrace(t)
  PROVE  LifeAt(t)'
BY DEF LifeAt, SameStream, SameNet, SameTrace, Untouched

LEMMA SendingFrame ==
  ASSUME NEW t \in Streams, SendingAt(t), SameStream(t), wire'[t] = wire[t]
  PROVE  SendingAt(t)'
BY DEF SendingAt, SameStream

LEMMA DeliveredFrame ==
  ASSUME NEW t \in Streams, DeliveredAt(t), SameStream(t), SameNet(t), SameTrace(t)
  PROVE  DeliveredAt(t)'
BY DEF DeliveredAt, SameStream, SameNet, SameTrace

LEMMA AnsweredFrame ==
  ASSUME NEW t \in Streams, AnsweredAt(t), decOpen' = decOpen, SameNet(t), SameAnswers(t)
  PROVE  AnsweredAt(t)'
<1>1. Resets(t)' = Resets(t) BY DEF Resets, SameNet
<1> QED BY <1>1 DEF AnsweredAt, SameNet, SameAnswers

LEMMA DoneFrame ==
  ASSUME NEW t \in Streams, DoneAt(t), SameStream(t), SameNet(t),
         call' = call \/ ~Running \/ t # call.stream
  PROVE  DoneAt(t)'
BY DEF DoneAt, SameStream, SameNet, Running

LEMMA ParkedFrame ==
  ASSUME NEW t \in Streams, ParkedAt(t), SameStream(t), SameNet(t), SamePairs(t) \/ LostPairs(t),
         Calm, inserts \in Nat, inserts' \in Nat, str[t].ricnt \in Nat
  PROVE  ParkedAt(t)'
<1>1. CASE SamePairs(t) BY <1>1 DEF ParkedAt, SameStream, SameNet, SamePairs, Calm
<1>2. CASE LostPairs(t) BY <1>2 DEF ParkedAt, SameStream, SameNet, LostPairs, Calm
<1> QED BY <1>1, <1>2

LEMMA SoundFrame ==
  ASSUME NEW t \in Streams, SoundAt(t), Same(t), Calm, inserts \in Nat, inserts' \in Nat,
         str[t].ricnt \in Nat, call' = call \/ ~Running \/ t # call.stream
  PROVE  SoundAt(t)'
<1>1. Role' = Role BY DEF Role, Calm
<1>2. SameStream(t) /\ SameNet(t) /\ SameTrace(t) /\ SameAnswers(t)
      /\ (SamePairs(t) \/ LostPairs(t)) /\ wire'[t] = wire[t] /\ decOpen' = decOpen
  BY DEF Same, Calm, SameTrace
<1>3. Coherent(str[t])' BY <1>2 DEF SoundAt, SameStream
<1>4. LifeAt(t)' BY <1>1, <1>2, LifeFrame DEF SoundAt
<1>5. SendingAt(t)' BY <1>2, SendingFrame DEF SoundAt
<1>6. DeliveredAt(t)' BY <1>2, DeliveredFrame DEF SoundAt
<1>7. AnsweredAt(t)' BY <1>2, AnsweredFrame DEF SoundAt
<1>8. DoneAt(t)' BY <1>2, DoneFrame DEF SoundAt
<1>9. ParkedAt(t)' BY <1>2, ParkedFrame DEF SoundAt
<1> QED BY <1>3, <1>4, <1>5, <1>6, <1>7, <1>8, <1>9 DEF SoundAt

-----------------------------------------------------------------------------
(* What the invariant says of a stream, of its first frame, of a call.     *)

LEMMA ScopeFacts ==
  ASSUME Types
  PROVE  /\ scope \in Scopes /\ scope.body \in Nat /\ scope.inserts \in Nat
         /\ scope.streams \subseteq Streams /\ inserts \in Nat
         /\ \A f \in scope.frames : f.ric \in Nat /\ f.len \in Nat \cup {NoLength}
         /\ \A f \in scope.frames : f.kind = "data" => f.len \in Nat /\ f.ric = 0
         /\ Role \in {"Client", "Server"}
<1>1. scope \in Scopes BY DEF Types
<1>2. /\ scope.role \in {"Client", "Server"} /\ scope.streams \subseteq Streams
      /\ scope.frames \subseteq [kind : Kinds, ric : Nat, what : Verdicts, len : Nat \cup {NoLength}]
      /\ \A f \in scope.frames : /\ f.kind # "headers" => f.ric = 0 /\ f.what = "none"
                                 /\ f.kind = "data" => f.len \in Nat
      /\ {scope.blocked, scope.body, scope.inserts, scope.arrivals, scope.sends} \subseteq Nat
  BY <1>1, StreamsAssumption
<1>3. scope.body \in Nat /\ scope.inserts \in Nat BY <1>2
<1>4. \A f \in scope.frames : f.ric \in Nat /\ f.len \in Nat \cup {NoLength} BY <1>2
<1>5. inserts \in Nat BY <1>3 DEF Types, TypeOK
<1>6. \A f \in scope.frames : f.kind = "data" => f.len \in Nat /\ f.ric = 0 BY <1>2
<1> QED BY <1>1, <1>2, <1>3, <1>4, <1>5, <1>6 DEF Role

LEMMA StreamFacts ==
  ASSUME StreamsIInv, NEW s \in Streams
  PROVE  /\ str \in [Streams -> Records(scope.frames, scope.body)]
         /\ str[s] \in Records(scope.frames, scope.body)
         /\ str[s].ricnt \in Nat /\ SoundAt(s) /\ Coherent(str[s])
<1>1. str \in [Streams -> Records(scope.frames, scope.body)] BY DEF StreamsIInv, Types, TypeOK
<1>2. str[s] \in Records(scope.frames, scope.body) BY <1>1
<1>3. scope.body \in Nat BY ScopeFacts DEF StreamsIInv
<1>4. str[s].ricnt \in Nat BY <1>2, <1>3, RecordTypes
<1> QED BY <1>1, <1>2, <1>4 DEF StreamsIInv, SoundAt

LEMMA PutStream ==
  ASSUME StreamsIInv, NEW s \in Streams, NEW new \in Records(scope.frames, scope.body),
         str' = [str EXCEPT ![s] = new], scope' = scope
  PROVE  /\ str' \in [Streams -> Records(scope.frames, scope.body)]' /\ str'[s] = new
         /\ \A t \in Streams : t # s => str'[t] = str[t]
<1>1. str \in [Streams -> Records(scope.frames, scope.body)] BY StreamFacts
<1>2. PICK R : R = Records(scope.frames, scope.body) OBVIOUS
<1>3. [Streams -> Records(scope.frames, scope.body)]' = [Streams -> R] BY <1>2 DEF Records
<1> QED BY <1>1, <1>2, <1>3

LEMMA SettleStream ==
  ASSUME StreamsIInv, NEW s \in Streams, s \in live,
         NEW new \in Records(scope.frames, scope.body), Settle(s, new), scope' = scope
  PROVE  /\ str' \in [Streams -> Records(scope.frames, scope.body)]' /\ live' \subseteq Streams
         /\ \A t \in Streams : t # s => SameStream(t)
         /\ \/ s \in live' /\ str'[s] = new /\ ~Done(new)
            \/ s \notin live' /\ str'[s] = NewStream /\ Done(new)
<1>1. live \subseteq Streams BY DEF StreamsIInv, Types, TypeOK
<1>2. CASE Done(new)
  <2>1. live' = live \ {s} /\ str' = [str EXCEPT ![s] = NewStream] BY <1>2 DEF Settle
  <2>2. NewStream \in Records(scope.frames, scope.body)
    BY NewRecord, ScopeFacts DEF StreamsIInv
  <2>3. /\ str' \in [Streams -> Records(scope.frames, scope.body)]' /\ str'[s] = NewStream
        /\ \A t \in Streams : t # s => str'[t] = str[t]
    BY <2>1, <2>2, PutStream
  <2> QED BY <2>1, <2>3, <1>1, <1>2 DEF SameStream
<1>3. CASE ~Done(new)
  <2>1. live' = live /\ str' = [str EXCEPT ![s] = new] BY <1>3 DEF Settle
  <2>2. /\ str' \in [Streams -> Records(scope.frames, scope.body)]' /\ str'[s] = new
        /\ \A t \in Streams : t # s => str'[t] = str[t]
    BY <2>1, PutStream
  <2> QED BY <2>1, <2>2, <1>1, <1>3 DEF SameStream
<1> QED BY <1>2, <1>3

(* The records of what QUIC and the caller did.                            *)
LEMMA NetTypes ==
  ASSUME NEW n \in Nets, NEW s \in Streams
  PROVE  /\ n.decoded[s] \in Nat /\ n.arrived[s] \in Nat /\ n.sends[s] \in Nat
         /\ n.decoded \in Tally /\ n.arrived \in Tally /\ n.sends \in Tally
BY DEF Nets, Tally

LEMMA TallyStep ==
  ASSUME NEW f \in Tally, NEW s \in Streams, NEW n \in Nat, NEW g, g = [f EXCEPT ![s] = n]
  PROVE  /\ g \in Tally /\ g[s] = n
         /\ \A t \in Streams : t # s => g[t] = f[t]
BY DEF Tally

SameRest(n) ==
    /\ n.used = net.used /\ n.opened = net.opened /\ n.reset = net.reset
    /\ n.stopped = net.stopped

WithDecoded(n, s, d) == [n EXCEPT !.decoded[s] = @ + d]

LEMMA NetDecoded ==
  ASSUME net \in Nets, NEW s \in Streams, NEW d \in Nat, NEW n,
         n = WithDecoded(net, s, d)
  PROVE  /\ n \in Nets /\ n.decoded[s] = net.decoded[s] + d /\ SameRest(n)
         /\ n.refused = net.refused /\ n.failed = net.failed /\ n.stranded = net.stranded
         /\ \A t \in Streams : t # s => n.decoded[t] = net.decoded[t]
<1>1. net.decoded \in Tally /\ net.decoded[s] + d \in Nat BY NetTypes
<1>0. PICK sum : sum = [net.decoded EXCEPT ![s] = net.decoded[s] + d] OBVIOUS
<1>2. /\ sum \in Tally /\ sum[s] = net.decoded[s] + d
      /\ \A t \in Streams : t # s => sum[t] = net.decoded[t] BY <1>0, <1>1, TallyStep
<1>3. n = [net EXCEPT !.decoded = sum] BY <1>0 DEF Nets, WithDecoded
<1>4. n \in Nets /\ n.decoded = sum /\ SameRest(n)
      /\ n.refused = net.refused /\ n.failed = net.failed /\ n.stranded = net.stranded
  BY <1>2, <1>3 DEF Nets, SameRest
<1> QED BY <1>2, <1>4

WithRefused(n, s, d) == [n EXCEPT !.refused = @ \cup {s}, !.decoded[s] = @ + d]

LEMMA NetRefused ==
  ASSUME net \in Nets, NEW s \in Streams, NEW d \in Nat, NEW n,
         n = WithRefused(net, s, d)
  PROVE  /\ n \in Nets /\ n.decoded[s] = net.decoded[s] + d /\ SameRest(n)
         /\ n.refused = net.refused \cup {s} /\ n.failed = net.failed
         /\ n.stranded = net.stranded
         /\ \A t \in Streams : t # s => n.decoded[t] = net.decoded[t]
<1>1. PICK m : m = WithDecoded(net, s, d) OBVIOUS
<1>2. /\ m \in Nets /\ m.decoded[s] = net.decoded[s] + d /\ SameRest(m)
      /\ m.refused = net.refused /\ m.failed = net.failed /\ m.stranded = net.stranded
      /\ \A t \in Streams : t # s => m.decoded[t] = net.decoded[t]
  BY <1>1, NetDecoded
<1>3. n = [m EXCEPT !.refused = net.refused \cup {s}] BY <1>1 DEF Nets, WithDecoded, WithRefused
<1>4. net.refused \cup {s} \in Sets BY DEF Nets, Sets
<1>5. n \in Nets /\ n.decoded = m.decoded /\ SameRest(n)
      /\ n.refused = net.refused \cup {s} /\ n.failed = m.failed /\ n.stranded = m.stranded
  BY <1>2, <1>3, <1>4 DEF Nets, SameRest
<1> QED BY <1>2, <1>5

WithFailed(n, s, d, rest) ==
    [n EXCEPT !.failed = @ \cup {s}, !.decoded[s] = @ + d, !.stranded = @ \/ rest # {}]

LEMMA NetFailed ==
  ASSUME net \in Nets, NEW s \in Streams, NEW d \in Nat, NEW rest, NEW n,
         n = WithFailed(net, s, d, rest)
  PROVE  /\ n \in Nets /\ n.decoded[s] = net.decoded[s] + d /\ SameRest(n)
         /\ n.refused = net.refused /\ n.failed = net.failed \cup {s}
         /\ (n.stranded <=> net.stranded \/ rest # {})
         /\ \A t \in Streams : t # s => n.decoded[t] = net.decoded[t]
<1>1. PICK m : m = WithDecoded(net, s, d) OBVIOUS
<1>2. /\ m \in Nets /\ m.decoded[s] = net.decoded[s] + d /\ SameRest(m)
      /\ m.refused = net.refused /\ m.failed = net.failed /\ m.stranded = net.stranded
      /\ \A t \in Streams : t # s => m.decoded[t] = net.decoded[t]
  BY <1>1, NetDecoded
<1>3. PICK x \in BOOLEAN : x = (net.stranded \/ rest # {}) BY Zenon DEF Nets
<1>4. n = [m EXCEPT !.failed = net.failed \cup {s}, !.stranded = x] BY <1>1, <1>3 DEF Nets, WithDecoded, WithFailed
<1>5. net.failed \cup {s} \in Sets BY DEF Nets, Sets
<1>6. n \in Nets /\ n.decoded = m.decoded /\ SameRest(n)
      /\ n.refused = m.refused /\ n.failed = net.failed \cup {s} /\ n.stranded = x
  BY <1>2, <1>4, <1>5 DEF Nets, SameRest
<1>7. n.stranded <=> net.stranded \/ rest # {} BY <1>3, <1>6
<1> QED BY <1>2, <1>6, <1>7

-----------------------------------------------------------------------------
(* The frame loop.                                                         *)

LEMMA ReadFacts ==
  ASSUME StreamsIInv, Running
  PROVE  /\ S \in Streams /\ S \in live /\ err = "none" /\ call.rest \in SUBSET Pairs
         /\ ~str[S].blocked /\ str[S].held = <<>> /\ S \notin net.reset
         /\ \A n \in Nat : <<n, S>> \notin index \cup call.rest
         /\ call.op = "feed" => call.rest = {}
         /\ call \in Calls /\ call.op # "idle" /\ call.op # "retry"
<1>1. /\ S \in live /\ ~str[S].blocked /\ live \subseteq Streams /\ err = "none" /\ call \in Calls
  BY DEF StreamsIInv, CallSound, Types, TypeOK, S, Running
<1>2. S \in Streams BY <1>1
<1>3. Coherent(str[S]) /\ ParkedAt(S) /\ LifeAt(S) BY <1>2 DEF StreamsIInv, SoundAt
<1>4. str[S].held = <<>> BY <1>1, <1>3 DEF Coherent
<1>5. S \notin net.reset BY <1>1, <1>3 DEF LifeAt
<1>6. \A n \in Nat : <<n, S>> \notin index \cup call.rest BY <1>1, <1>3 DEF ParkedAt
<1>7. call.op = "feed" => call.rest = {} BY DEF StreamsIInv, CallSound
<1>8. call.rest \in SUBSET Pairs BY <1>1 DEF Calls
<1> QED BY <1>1, <1>2, <1>4, <1>5, <1>6, <1>7, <1>8 DEF Running

LEMMA IdleCall == Idle \in Calls /\ Idle.op = "idle" /\ Idle.rest = {}
BY DEF Idle, Calls

(* The types of the next state, of the parts that may have changed.        *)
LEMMA TypesStep ==
  ASSUME Types, scope' = scope, live' \subseteq Streams,
         str' \in [Streams -> Records(scope.frames, scope.body)]', index' \subseteq Pairs,
         inserts' = inserts, decOpen' = decOpen, goaway' = goaway,
         call' \in Calls, call'.op # "idle" => err' = "none",
         net' \in Nets, decOut' \in Answers, deferred' \in Debts,
         fed' = fed, finned' = finned, ended' \subseteq Streams,
         got' \in [Streams -> Seq(scope.frames)], wire' = wire
  PROVE  Types'
<1>1. str' \in [Streams -> Records(scope'.frames, scope'.body)] OBVIOUS
<1>2. call'.op \in {"idle", "feed", "poll", "retry"} BY DEF Calls
<1>3. TypeOK' BY <1>1, <1>2 DEF Types, TypeOK, Pairs
<1> QED BY <1>3 DEF Types

LEMMA CallFailsStep ==
  ASSUME StreamsIInv, NEW s \in Streams, s \in live, call.op # "idle",
         NEW new \in Records(scope.frames, scope.body), Coherent(new),
         NEW rest \in SUBSET Pairs, NEW d \in Nat, CallFails(s, new, rest, d),
         \A n \in Nat : <<n, s>> \notin index,
         \A n \in Nat, t \in Streams : <<n, t>> \in call.rest /\ t # s => rest # {},
         ~Running \/ s = call.stream, call.op = "feed" => ~new.blocked,
         new.fin = str[s].fin, SameSend(new, str[s]), CanSend(new) => CanSend(str[s]),
         str[s].recv = "Complete" => new.recv = "Complete"
  PROVE  StreamsIInv'
<1>1. Types /\ CallSound /\ net \in Nets /\ scope.body \in Nat /\ inserts \in Nat
  BY ScopeFacts DEF StreamsIInv, Types
<1>2. /\ scope' = scope /\ index' = index /\ inserts' = inserts /\ decOpen' = decOpen
      /\ deferred' = deferred /\ goaway' = goaway /\ err' = err /\ decOut' = decOut
      /\ fed' = fed /\ finned' = finned /\ got' = got /\ ended' = ended /\ wire' = wire
      /\ call' = Idle
  BY DEF CallFails
<1>3. /\ net' \in Nets /\ SameRest(net') /\ net.refused \subseteq net'.refused
      /\ net.failed \subseteq net'.failed /\ s \in net'.refused \cup net'.failed
      /\ \A t \in Streams : t # s => /\ net'.decoded[t] = net.decoded[t]
                                     /\ (t \in net'.refused <=> t \in net.refused)
                                     /\ (t \in net'.failed <=> t \in net.failed)
      /\ (net.stranded => net'.stranded)
      /\ (call.op = "feed" => s \in net'.refused)
      /\ (call.op # "feed" => s \in net'.failed /\ (rest # {} => net'.stranded))
  <2>1. CASE call.op = "feed"
    <3>1. net' = WithRefused(net, s, d) BY <2>1 DEF CallFails, WithRefused
    <3>2. /\ net' \in Nets /\ net'.decoded[s] = net.decoded[s] + d /\ SameRest(net')
          /\ net'.refused = net.refused \cup {s} /\ net'.failed = net.failed
          /\ net'.stranded = net.stranded
          /\ \A t \in Streams : t # s => net'.decoded[t] = net.decoded[t]
      BY <3>1, <1>1, NetRefused
    <3> QED BY <2>1, <3>2
  <2>2. CASE call.op # "feed"
    <3>1. net' = WithFailed(net, s, d, rest) BY <2>2 DEF CallFails, WithFailed
    <3>2. /\ net' \in Nets /\ SameRest(net')
          /\ net'.refused = net.refused /\ net'.failed = net.failed \cup {s}
          /\ (net'.stranded <=> net.stranded \/ rest # {})
          /\ \A t \in Streams : t # s => net'.decoded[t] = net.decoded[t]
      BY <3>1, <1>1, NetFailed
    <3> QED BY <2>2, <3>2
  <2> QED BY <2>1, <2>2
<1>4. /\ str' \in [Streams -> Records(scope.frames, scope.body)]' /\ live' \subseteq Streams
      /\ \A t \in Streams : t # s => SameStream(t)
      /\ \/ s \in live' /\ str'[s] = new /\ (call.op = "feed" => ~Done(new))
         \/ s \notin live' /\ str'[s] = NewStream /\ Done(new) /\ call.op = "feed"
  <2>1. CASE call.op = "feed"
    <3>1. Settle(s, new) BY <2>1 DEF CallFails
    <3> QED BY <3>1, <2>1, <1>2, SettleStream
  <2>2. CASE call.op # "feed"
    <3>1. str' = [str EXCEPT ![s] = new] /\ live' = live BY <2>2 DEF CallFails
    <3>2. live \subseteq Streams BY <1>1 DEF Types, TypeOK
    <3> QED BY <3>1, <3>2, <2>2, <1>2, PutStream DEF SameStream
  <2> QED BY <2>1, <2>2
<1>5. Types' BY <1>1, <1>2, <1>3, <1>4, IdleCall, TypesStep DEF Types, TypeOK, Pairs
<1>6. CallSound' BY <1>2, IdleCall DEF CallSound, Running
<1>7. ASSUME NEW t \in Streams, t # s PROVE SoundAt(t)'
  <2>1. SameNet(t) BY <1>3, <1>7 DEF SameNet, SameRest
  <2>2. SameTrace(t) /\ SameAnswers(t) BY <1>2 DEF SameTrace, SameAnswers
  <2>3. SamePairs(t) \/ LostPairs(t)
    <3>1. CASE \A n \in Nat : <<n, t>> \notin call.rest BY <3>1, <1>2, IdleCall DEF SamePairs
    <3>2. CASE \E n \in Nat : <<n, t>> \in call.rest
      <4>1. rest # {} BY <3>2, <1>7
      <4>2. call.op # "feed" BY <3>2, <1>1 DEF CallSound
      <4> QED BY <4>1, <4>2, <1>2, <1>3, IdleCall DEF LostPairs
    <3> QED BY <3>1, <3>2
  <2>4. Same(t) BY <2>1, <2>2, <2>3, <1>4, <1>7 DEF Same
  <2>5. Calm BY <1>1, <1>2, <1>3 DEF Calm
  <2> QED BY <2>4, <2>5, <1>1, <1>2, <1>7, SoundFrame, StreamFacts
<1>8. SoundAt(s)'
  <2>1. SoundAt(s) /\ Coherent(str[s]) /\ str[s] \in Records(scope.frames, scope.body)
    BY StreamFacts
  <2>2. Coherent(str'[s]) BY <1>4, <1>1, NewRecord
  <2>3. ParkedAt(s)'
    <3>1. \A n \in Nat : <<n, s>> \notin index' \cup call'.rest BY <1>2, IdleCall
    <3>2. ~(s \in live' /\ s \notin net'.failed /\ str'[s].blocked)
      BY <1>3, <1>4
    <3> QED BY <3>1, <3>2 DEF ParkedAt
  <2>4. LifeAt(s)'
    <3>1. Role' = Role BY <1>2 DEF Role
    <3>2. str'[s].fin => s \in finned BY <2>1, <1>4, NewRecord, <1>1 DEF SoundAt, LifeAt
    <3> QED BY <2>1, <3>1, <3>2, <1>2, <1>3, <1>4 DEF SoundAt, LifeAt, SameRest, Untouched
  <2>5. DoneAt(s)' BY <1>3, <1>4 DEF DoneAt
  <2>6. AnsweredAt(s)' BY <2>1, <1>2, <1>3 DEF SoundAt, AnsweredAt, SameRest
  <2>7. SendingAt(s)'
    <3>1. CASE str'[s] = new
      BY <3>1, <2>1, <1>2 DEF SoundAt, SendingAt, SameSend
    <3>2. CASE s \notin live' /\ str'[s] = NewStream
      <4>1. InOrder(wire[s] \o str[s].out) BY <2>1 DEF SoundAt, SendingAt
      <4>2. wire[s] \in Seq(AnyPiece) BY <1>1 DEF Types, AnyPiece
      <4>3. str[s].out \in Seq(Pieces) BY <2>1, <1>1, RecordTypes
      <4>4. str[s].out \in Seq(AnyPiece) BY <4>3, SeqMonotonic DEF AnyPiece
      <4>5. InOrder(wire[s]) BY <4>1, <4>2, <4>4, OrderPrefix
      <4>6. wire[s] \o NewStream.out = wire[s] BY <4>2, <1>1, NewRecord, ConcatEmptySeq
      <4> QED BY <3>2, <4>5, <4>6, <1>2 DEF SendingAt
    <3> QED BY <3>1, <3>2, <1>4
  <2>8. DeliveredAt(s)' BY <2>1, <1>2, <1>3, <1>4 DEF SoundAt, DeliveredAt
  <2> QED BY <2>2, <2>3, <2>4, <2>5, <2>6, <2>7, <2>8 DEF SoundAt
<1> QED BY <1>5, <1>6, <1>7, <1>8 DEF StreamsIInv

LEMMA CallTypes ==
  ASSUME NEW s \in Streams, NEW rest \in SUBSET Pairs
  PROVE  /\ Retrying(rest) \in Calls /\ Retrying(rest).op = "retry" /\ Retrying(rest).rest = rest
         /\ \A op \in {"feed", "poll"} :
               /\ Reading(op, s, rest) \in Calls /\ Reading(op, s, rest).op = op
               /\ Reading(op, s, rest).stream = s /\ Reading(op, s, rest).rest = rest
BY DEF Retrying, Reading, Calls

LEMMA OutFacts ==
  ASSUME StreamsIInv, NEW s \in Streams
  PROVE  /\ wire[s] \in Seq(AnyPiece) /\ str[s].out \in Seq(AnyPiece)
         /\ wire[s] \o str[s].out \in Seq(AnyPiece) /\ InOrder(wire[s] \o str[s].out)
         /\ InOrder(wire[s]) /\ wire[s] \o NewStream.out = wire[s]
<1>1. SoundAt(s) /\ str[s] \in Records(scope.frames, scope.body) /\ scope.body \in Nat
  BY StreamFacts, ScopeFacts DEF StreamsIInv
<1>2. InOrder(wire[s] \o str[s].out) BY <1>1 DEF SoundAt, SendingAt
<1>3. wire[s] \in Seq(AnyPiece) BY DEF StreamsIInv, Types, AnyPiece
<1>4. str[s].out \in Seq(Pieces) BY <1>1, RecordTypes
<1>5. str[s].out \in Seq(AnyPiece) BY <1>4, SeqMonotonic DEF AnyPiece
<1>6. InOrder(wire[s]) BY <1>2, <1>3, <1>5, OrderPrefix
<1>7. wire[s] \o NewStream.out = wire[s] BY <1>1, <1>3, NewRecord, ConcatEmptySeq
<1> QED BY <1>2, <1>3, <1>5, <1>6, <1>7, ConcatProperties

LEMMA ConnectionErrorStep ==
  ASSUME StreamsIInv, Running, St.buf # <<>>, NEW code, code # "none", ConnectionError(code)
  PROVE  StreamsIInv'
<1>1. /\ scope' = scope /\ live' = live /\ str' = str /\ index' = index /\ inserts' = inserts
      /\ decOpen' = decOpen /\ deferred' = deferred /\ goaway' = goaway /\ decOut' = decOut
      /\ net' = net /\ fed' = fed /\ finned' = finned /\ got' = got /\ ended' = ended
      /\ wire' = wire /\ call' = Idle /\ err' = code
  BY DEF ConnectionError
<1>2. Types' BY <1>1, IdleCall DEF StreamsIInv, Types, TypeOK
<1>3. CallSound' BY <1>1, IdleCall DEF CallSound, Running
<1>4. ASSUME NEW t \in Streams PROVE SoundAt(t)'
  <2>1. Same(t)
    BY <1>1, IdleCall DEF Same, SameStream, SameNet, SameTrace, SameAnswers, LostPairs
  <2>2. Calm BY <1>1, ScopeFacts DEF Calm, StreamsIInv
  <2>3. CASE t # S BY <2>1, <2>2, <2>3, <1>1, SoundFrame, StreamFacts, ScopeFacts DEF S, StreamsIInv
  <2>4. CASE t = S
    <3>1. SoundAt(t) /\ str[t].ricnt \in Nat /\ Coherent(str[t]) BY StreamFacts
    <3>2. ~Done(str[t]) BY <3>1, <2>4 DEF Coherent, Done, St
    <3>3. DoneAt(t)' BY <3>2, <1>1 DEF DoneAt
    <3>4. SameStream(t) /\ SameNet(t) /\ SameTrace(t) /\ SameAnswers(t) /\ Role' = Role
          /\ (SamePairs(t) \/ LostPairs(t)) /\ wire'[t] = wire[t] /\ decOpen' = decOpen
      BY <2>1, <1>1 DEF Same, SameTrace, Role
    <3>5. ParkedAt(t)' BY <3>1, <3>4, <2>2, <1>1, ParkedFrame, ScopeFacts DEF SoundAt, StreamsIInv
    <3> QED BY <3>1, <3>3, <3>4, <3>5, <1>1, LifeFrame, SendingFrame, DeliveredFrame, AnsweredFrame
            DEF SoundAt
  <2> QED BY <2>3, <2>4
<1> QED BY <1>2, <1>3, <1>4 DEF StreamsIInv

(* A frame of stream s has been read, and the loop goes on.                *)
LEMMA ReadStep ==
  ASSUME StreamsIInv, NEW s \in Streams, s \in live, err = "none",
         NEW new \in Records(scope.frames, scope.body), Coherent(new), ~new.blocked,
         SameSend(new, str[s]), CanSend(new) => CanSend(str[s]), new.fin = str[s].fin,
         str' = [str EXCEPT ![s] = new], scope' = scope, live' = live, index' = index,
         inserts' = inserts, decOpen' = decOpen, goaway' = goaway, err' = err, fed' = fed,
         finned' = finned, wire' = wire,
         call' \in Calls, call'.op \in {"feed", "poll"}, call'.stream = s,
         call'.op = "feed" => call'.rest = {},
         \A n \in Nat : <<n, s>> \notin index \cup call'.rest,
         \A n \in Nat, t \in Streams : t # s => (<<n, t>> \in call'.rest <=> <<n, t>> \in call.rest),
         ~Running \/ s = call.stream,
         net' \in Nets, SameRest(net'), net'.refused = net.refused, net'.failed = net.failed,
         net'.stranded = net.stranded,
         \A t \in Streams : t # s => net'.decoded[t] = net.decoded[t],
         decOut' \in Answers, deferred' \in Debts,
         \A t \in Streams : t # s => SameAnswers(t), AnsweredAt(s)',
         got' \in [Streams -> Seq(scope.frames)], \A t \in Streams : t # s => got'[t] = got[t],
         ended' \subseteq Streams, \A t \in Streams : t # s => (t \in ended' <=> t \in ended),
         DeliveredAt(s)'
  PROVE  StreamsIInv'
<1>1. Types /\ scope.body \in Nat /\ inserts \in Nat BY ScopeFacts DEF StreamsIInv
<1>2. /\ str' \in [Streams -> Records(scope.frames, scope.body)]' /\ str'[s] = new
      /\ \A t \in Streams : t # s => str'[t] = str[t]
  BY PutStream
<1>3. Types'
  <2>1. live' \subseteq Streams /\ index' \subseteq Pairs BY <1>1 DEF Types, TypeOK, Pairs
  <2> QED BY <2>1, <1>1, <1>2, TypesStep
<1>4. CallSound' BY <1>2 DEF CallSound, Running
<1>5. ASSUME NEW t \in Streams, t # s PROVE SoundAt(t)'
  <2>1. SameStream(t) BY <1>2, <1>5 DEF SameStream
  <2>2. SameNet(t) BY <1>5 DEF SameNet, SameRest
  <2>3. SameTrace(t) BY <1>5 DEF SameTrace
  <2>4. SamePairs(t) BY <1>5 DEF SamePairs
  <2>5. Same(t) BY <2>1, <2>2, <2>3, <2>4, <1>5 DEF Same
  <2>6. Calm BY <1>1 DEF Calm
  <2> QED BY <2>5, <2>6, <1>1, <1>5, SoundFrame, StreamFacts
<1>6. SoundAt(s)'
  <2>1. SoundAt(s) BY StreamFacts
  <2>2. Coherent(str'[s]) BY <1>2
  <2>3. ParkedAt(s)' BY <1>2 DEF ParkedAt
  <2>4. LifeAt(s)'
    <3>1. Role' = Role BY DEF Role
    <3> QED BY <2>1, <3>1, <1>2 DEF SoundAt, LifeAt, SameRest, Untouched
  <2>5. DoneAt(s)' BY DEF DoneAt, Running
  <2>6. SendingAt(s)' BY <2>1, <1>2 DEF SoundAt, SendingAt, SameSend
  <2> QED BY <2>2, <2>3, <2>4, <2>5, <2>6 DEF SoundAt
<1> QED BY <1>3, <1>4, <1>5, <1>6 DEF StreamsIInv


(* The loop is over for the stream being read: it stays, parked or not, or  *)
(* it is done and goes.                                                    *)
LEMMA LeaveStep ==
  ASSUME StreamsIInv, Running, NEW new \in Records(scope.frames, scope.body), Coherent(new),
         Leave(new), SameSend(new, St), CanSend(new) => CanSend(St), new.fin = St.fin,
         scope' = scope, inserts' = inserts, decOpen' = decOpen, deferred' = deferred,
         goaway' = goaway, err' = err, decOut' = decOut, net' = net, fed' = fed,
         finned' = finned, got' = got, ended' = ended, wire' = wire,
         new.blocked => index' = index \cup {<<new.ricnt, S>>} /\ new.held # <<>>,
         ~new.blocked => index' = index,
         S \notin net.stopped /\ S \notin net.refused /\ S \notin net.failed
            => Faithful(new, fed[S], got[S]),
         S \in ended => new.recv = "Complete"
  PROVE  StreamsIInv'
<1>1. /\ Types /\ CallSound /\ scope.body \in Nat /\ inserts \in Nat
      /\ S \in Streams /\ S \in live /\ err = "none" /\ call.rest \in SUBSET Pairs
      /\ \A n \in Nat : <<n, S>> \notin index \cup call.rest
  BY ScopeFacts, ReadFacts DEF StreamsIInv
<1>2. /\ str' \in [Streams -> Records(scope.frames, scope.body)]' /\ live' \subseteq Streams
      /\ \A t \in Streams : t # S => SameStream(t)
      /\ \/ S \in live' /\ str'[S] = new /\ ~Done(new)
         \/ S \notin live' /\ str'[S] = NewStream /\ Done(new)
  BY <1>1, SettleStream DEF Leave
<1>3. call' \in Calls /\ call'.rest = call.rest /\ call'.op \in {"idle", "retry"}
      /\ (call'.op = "retry" => call.rest # {}) /\ (call'.op = "idle" => call.rest = {})
  <2>1. CASE call.rest = {} BY <2>1, IdleCall DEF Leave
  <2>2. CASE call.rest # {} BY <2>2, <1>1, CallTypes DEF Leave
  <2> QED BY <2>1, <2>2
<1>4. new.ricnt \in Nat BY <1>1, RecordTypes
<1>5. index' \subseteq Pairs
  <2>1. index \subseteq Pairs BY <1>1 DEF Types, TypeOK, Pairs
  <2> QED BY <2>1, <1>1, <1>4 DEF Pairs
<1>6. Types' BY <1>1, <1>2, <1>3, <1>5, TypesStep DEF Types
<1>7. CallSound' BY <1>3 DEF CallSound, Running
<1>8. ASSUME NEW t \in Streams, t # S PROVE SoundAt(t)'
  <2>1. SameNet(t) /\ SameTrace(t) /\ SameAnswers(t) BY DEF SameNet, SameTrace, SameAnswers
  <2>2. SamePairs(t) BY <1>3, <1>8 DEF SamePairs
  <2>3. Same(t) BY <2>1, <2>2, <1>2, <1>8 DEF Same
  <2>4. Calm BY <1>1 DEF Calm
  <2> QED BY <2>3, <2>4, <1>1, <1>8, SoundFrame, StreamFacts DEF S
<1>9. ASSUME NEW s \in Streams, s = S PROVE SoundAt(s)'
  <2>0. SoundAt(S) /\ Coherent(str[S]) /\ St = str[S] BY <1>1, StreamFacts DEF St
  <2>1. Coherent(str'[s]) BY <1>1, <1>2, <1>9, NewRecord
  <2>2. new.blocked => s \in live' /\ str'[s] = new
    <3>1. new.blocked => ~Done(new) BY DEF Coherent, Done
    <3> QED BY <3>1, <1>2, <1>9
  <2>3. ~new.blocked => ~str'[s].blocked BY <1>1, <1>2, <1>9, NewRecord
  <2>4. ParkedAt(s)'
    <3>1. CASE new.blocked BY <3>1, <2>2, <1>1, <1>3, <1>9 DEF ParkedAt
    <3>2. CASE ~new.blocked BY <3>2, <2>3, <1>1, <1>3, <1>9 DEF ParkedAt
    <3> QED BY <3>1, <3>2
  <2>5. LifeAt(s)'
    <3>1. Role' = Role BY DEF Role
    <3>2. Done(new) => s \in finned
      <4>1. Done(new) => new.fin BY DEF Done, Coherent
      <4> QED BY <4>1, <2>0, <1>9 DEF SoundAt, LifeAt
    <3>3. str'[s].fin => s \in finned
      BY <1>1, <1>2, <2>0, <1>9, NewRecord DEF SoundAt, LifeAt
    <3> QED BY <3>1, <3>2, <3>3, <1>1, <1>2, <2>0, <1>9 DEF SoundAt, LifeAt, Untouched
  <2>6. DoneAt(s)' BY <1>2, <1>9 DEF DoneAt
  <2>7. AnsweredAt(s)' BY <2>0, <1>9, AnsweredFrame DEF SoundAt, SameNet, SameAnswers
  <2>8. SendingAt(s)'
    <3>1. CASE str'[s] = new BY <3>1, <1>1, <2>0, <1>9 DEF SoundAt, SendingAt, SameSend
    <3>2. CASE s \notin live' /\ str'[s] = NewStream
      BY <3>2, OutFacts DEF SendingAt
    <3>3. str'[s] = new \/ (s \notin live' /\ str'[s] = NewStream) BY <1>2, <1>9
    <3> QED BY <3>1, <3>2, <3>3
  <2>9. DeliveredAt(s)'
    <3>1. s \notin net.stopped /\ s \notin net.refused /\ s \notin net.failed
            => Faithful(new, fed[s], got[s])
      BY <1>9
    <3>2. s \in ended => new.recv = "Complete" BY <1>9
    <3>3. s \in live' => str'[s] = new BY <1>2, <1>9
    <3> QED BY <3>1, <3>2, <3>3 DEF DeliveredAt
  <2> QED BY <2>1, <2>4, <2>5, <2>6, <2>7, <2>8, <2>9 DEF SoundAt
<1> QED BY <1>6, <1>7, <1>8, <1>9 DEF StreamsIInv


-----------------------------------------------------------------------------
(* What the frame loop does with the frames of a stream.                   *)

LEMMA SkippedUnknown ==
  ASSUME NEW F, NEW f \in Seq(F), NEW g \in Seq(F), NEW st, NEW new, st.buf \in Seq(F),
         st.buf # <<>>, Head(st.buf).kind = "unknown", new.buf = Tail(st.buf),
         st.held = <<>>, new.held = <<>>, Faithful(st, f, g)
  PROVE  Faithful(new, f, g)
<1>1. Len(st.held) = 0 /\ Len(new.held) = 0 /\ Len(f) \in Nat /\ Len(g) \in Nat OBVIOUS
<1>2. Len(g) <= Len(f) /\ Shows(st.buf, f, Len(g)) BY <1>1 DEF Faithful
<1>3. Shows(new.buf, f, Len(g)) BY <1>1, <1>2, ShowsTailUnknown
<1> QED BY <1>1, <1>2, <1>3 DEF Faithful

LEMMA HandedOver ==
  ASSUME NEW F, NEW f \in Seq(F), NEW g \in Seq(F), NEW st, NEW new, st.buf \in Seq(F),
         st.buf # <<>>, Head(st.buf).kind # "unknown", new.buf = Tail(st.buf),
         st.held = <<>>, new.held = <<>>, Faithful(st, f, g), NEW h, h = Append(g, Head(st.buf))
  PROVE  Faithful(new, f, h)
<1>1. Len(st.held) = 0 /\ Len(new.held) = 0 /\ Len(f) \in Nat /\ Len(g) \in Nat OBVIOUS
<1>2. Len(g) <= Len(f) /\ Shows(st.buf, f, Len(g)) BY <1>1 DEF Faithful
<1>3. Len(g) + 1 <= Len(f) /\ f[Len(g) + 1] = Head(st.buf) /\ Shows(new.buf, f, Len(g) + 1)
  BY <1>1, <1>2, ShowsTail
<1>4. Head(st.buf) \in F OBVIOUS
<1>5. Len(h) = Len(g) + 1 /\ h[Len(g) + 1] = Head(st.buf) /\ \A i \in 1 .. Len(g) : h[i] = g[i]
  BY <1>4, AppendProperties
<1>6. \A i \in 1 .. Len(h) : h[i] = f[i] BY <1>1, <1>3, <1>5 DEF Faithful
<1> QED BY <1>1, <1>3, <1>5, <1>6 DEF Faithful

LEMMA SetAside ==
  ASSUME NEW F, NEW f \in Seq(F), NEW g \in Seq(F), NEW st, NEW new, st.buf \in Seq(F),
         st.buf # <<>>, Head(st.buf).kind # "unknown", new.buf = Tail(st.buf),
         st.held = <<>>, Len(new.held) = 1, new.held[1].frame = Head(st.buf), Faithful(st, f, g)
  PROVE  Faithful(new, f, g)
<1>1. Len(st.held) = 0 /\ Len(f) \in Nat /\ Len(g) \in Nat OBVIOUS
<1>2. Len(g) <= Len(f) /\ Shows(st.buf, f, Len(g)) BY <1>1 DEF Faithful
<1>3. Len(g) + 1 <= Len(f) /\ f[Len(g) + 1] = Head(st.buf) /\ Shows(new.buf, f, Len(g) + 1)
  BY <1>1, <1>2, ShowsTail
<1> QED BY <1>1, <1>3 DEF Faithful

LEMMA TakenUp ==
  ASSUME NEW F, NEW f \in Seq(F), NEW g \in Seq(F), NEW st, NEW new,
         st.held # <<>>, Len(st.held) = 1, st.held[1].frame \in F, new.buf = st.buf,
         new.held = <<>>, Faithful(st, f, g), NEW h, h = Append(g, st.held[1].frame)
  PROVE  Faithful(new, f, h)
<1>1. Len(new.held) = 0 /\ Len(f) \in Nat /\ Len(g) \in Nat OBVIOUS
<1>2. /\ Len(g) + 1 <= Len(f) /\ f[Len(g) + 1] = st.held[1].frame
      /\ Shows(st.buf, f, Len(g) + 1)
  BY <1>1 DEF Faithful
<1>3. Len(h) = Len(g) + 1 /\ h[Len(g) + 1] = st.held[1].frame
      /\ \A i \in 1 .. Len(g) : h[i] = g[i]
  BY AppendProperties
<1>4. \A i \in 1 .. Len(h) : h[i] = f[i] BY <1>1, <1>2, <1>3 DEF Faithful
<1> QED BY <1>1, <1>2, <1>3, <1>4 DEF Faithful

(* The stream being read, and its first frame.                             *)
LEMMA HeadFacts ==
  ASSUME StreamsIInv, Running, St.buf # <<>>
  PROVE  /\ St = str[S] /\ St \in Records(scope.frames, scope.body) /\ scope.body \in Nat
         /\ St.buf \in Seq(scope.frames) /\ Head(St.buf) \in scope.frames
         /\ Coherent(St) /\ St.recv # "Complete"
         /\ fed[S] \in Seq(scope.frames) /\ got[S] \in Seq(scope.frames)
         /\ (S \notin net.stopped /\ S \notin net.refused /\ S \notin net.failed
               => Faithful(St, fed[S], got[S]))
         /\ S \notin ended
<1>1. S \in Streams /\ S \in live BY ReadFacts
<1>2. St = str[S] /\ St \in Records(scope.frames, scope.body) /\ SoundAt(S) /\ Coherent(St)
  BY <1>1, StreamFacts DEF St
<1>3. scope.body \in Nat BY ScopeFacts DEF StreamsIInv
<1>4. St.buf \in Seq(scope.frames) BY <1>2, <1>3, RecordTypes
<1>5. Head(St.buf) \in scope.frames BY <1>4
<1>6. St.recv # "Complete" BY <1>2 DEF Coherent
<1>7. fed[S] \in Seq(scope.frames) /\ got[S] \in Seq(scope.frames)
  BY <1>1 DEF StreamsIInv, Types
<1>8. /\ (S \notin net.stopped /\ S \notin net.refused /\ S \notin net.failed
            => Faithful(St, fed[S], got[S]))
      /\ S \in ended => St.recv = "Complete"
  BY <1>1, <1>2 DEF SoundAt, DeliveredAt
<1> QED BY <1>2, <1>3, <1>4, <1>5, <1>6, <1>7, <1>8

LEMMA ForbiddenStep ==
  ASSUME StreamsIInv, ReadForbidden \/ ReadCut \/ ReadGarbled
  PROVE  StreamsIInv'
<1>1. CASE ReadForbidden
  BY <1>1, ConnectionErrorStep DEF ReadForbidden, Reads, Running
<1>2. CASE ReadCut
  BY <1>2, ConnectionErrorStep DEF ReadCut, Reads, Running
<1>3. CASE ReadGarbled
  <2>1. Running /\ St.buf # <<>> /\ CallFails(S, St, call.rest, 0)
    BY <1>3 DEF ReadGarbled, Reads, Running
  <2>2. /\ St = str[S] /\ St \in Records(scope.frames, scope.body) /\ Coherent(St)
        /\ S \in Streams /\ S \in live /\ ~St.blocked /\ call.op # "idle"
        /\ call.rest \in SUBSET Pairs /\ \A n \in Nat : <<n, S>> \notin index
    BY <2>1, HeadFacts, ReadFacts DEF St
  <2>3. \A n \in Nat, t \in Streams : <<n, t>> \in call.rest /\ t # S => call.rest # {}
    OBVIOUS
  <2> QED BY <2>1, <2>2, <2>3, CallFailsStep DEF SameSend, S
<1> QED BY <1>1, <1>2, <1>3

LEMMA UnknownStep ==
  ASSUME StreamsIInv, ReadUnknown
  PROVE  StreamsIInv'
<1>1. /\ Running /\ St.buf # <<>> /\ Head(St.buf).kind = "unknown"
      /\ str' = [str EXCEPT ![S] = Consumed(str[S])]
      /\ scope' = scope /\ live' = live /\ index' = index /\ inserts' = inserts
      /\ decOpen' = decOpen /\ deferred' = deferred /\ goaway' = goaway /\ err' = err
      /\ call' = call /\ decOut' = decOut /\ net' = net /\ fed' = fed /\ finned' = finned
      /\ got' = got /\ ended' = ended /\ wire' = wire
  BY DEF ReadUnknown, Reads, Running
<1>2. /\ St = str[S] /\ St \in Records(scope.frames, scope.body) /\ scope.body \in Nat
      /\ St.buf \in Seq(scope.frames) /\ Coherent(St)
      /\ fed[S] \in Seq(scope.frames) /\ got[S] \in Seq(scope.frames)
      /\ (S \notin net.stopped /\ S \notin net.refused /\ S \notin net.failed
            => Faithful(St, fed[S], got[S]))
      /\ S \notin ended
  BY <1>1, HeadFacts
<1>3. PICK s \in Streams : s = S BY <1>1, ReadFacts
<1>4. /\ s \in live /\ err = "none" /\ ~St.blocked /\ St.held = <<>>
      /\ \A n \in Nat : <<n, s>> \notin index \cup call.rest
      /\ call \in Calls /\ (call.op = "feed" => call.rest = {})
  BY <1>1, <1>3, ReadFacts DEF St
<1>5. PICK new : new = Consumed(St) OBVIOUS
<1>6. /\ new \in Records(scope.frames, scope.body) /\ new.buf = Tail(St.buf)
      /\ new.fin = St.fin /\ new.state = St.state
      /\ SamePark(new, St) /\ SameSend(new, St) /\ Coherent(new)
  BY <1>1, <1>2, <1>5, ConsumedRecord
<1>7. str' = [str EXCEPT ![s] = new] /\ str'[s] = new
  BY <1>1, <1>2, <1>3, <1>5, <1>6, PutStream
<1>8. DeliveredAt(s)'
  <2>1. s \notin net.stopped /\ s \notin net.refused /\ s \notin net.failed
          => Faithful(new, fed[s], got[s])
    BY ZenonT(60), <1>1, <1>2, <1>3, <1>4, <1>6, SkippedUnknown DEF SamePark
  <2> QED BY <2>1, <1>1, <1>2, <1>3, <1>7 DEF DeliveredAt
<1>9. AnsweredAt(s)'
  BY <1>1, AnsweredFrame, StreamFacts DEF SoundAt, SameNet, SameAnswers
<1>10. \A t \in Streams : t # s => SameAnswers(t) BY <1>1 DEF SameAnswers
<1>11. net' \in Nets /\ SameRest(net') /\ decOut' \in Answers /\ deferred' \in Debts
       /\ got' \in [Streams -> Seq(scope.frames)] /\ ended' \subseteq Streams
  BY <1>1 DEF StreamsIInv, Types, SameRest
<1>12. /\ ~new.blocked /\ SameSend(new, str[s]) /\ new.fin = str[s].fin
       /\ (CanSend(new) => CanSend(str[s]))
       /\ call'.stream = s /\ call'.op \in {"feed", "poll"} /\ s = call.stream
  BY <1>1, <1>2, <1>3, <1>4, <1>6 DEF SamePark, CanSend, Running, S
<1> QED BY <1>1, <1>4, <1>6, <1>7, <1>8, <1>9, <1>10, <1>11, <1>12, ReadStep


LEMMA DataStep ==
  ASSUME StreamsIInv, ReadData
  PROVE  StreamsIInv'
<1>1. Running /\ St.buf # <<>> /\ Head(St.buf).kind = "data"
  BY DEF ReadData, Reads, Running
<1>2. CASE \E code \in {"H3_FRAME_UNEXPECTED", "H3_EXCESSIVE_LOAD"} : ConnectionError(code)
  BY <1>1, <1>2, ConnectionErrorStep
<1>3. CASE ~ \E code \in {"H3_FRAME_UNEXPECTED", "H3_EXCESSIVE_LOAD"} : ConnectionError(code)
  <2> DEFINE f == Head(St.buf)
  <2>1. f \in scope.frames /\ f = Head(St.buf) BY <1>1, HeadFacts
  <2>2. /\ ~TooLarge(St, f)
        /\ str' = [str EXCEPT ![S] = [Consumed(St) EXCEPT !.body = @ + f.len]]
        /\ got' = [got EXCEPT ![S] = Append(@, f)]
        /\ scope' = scope /\ live' = live /\ index' = index /\ inserts' = inserts
        /\ decOpen' = decOpen /\ deferred' = deferred /\ goaway' = goaway /\ err' = err
        /\ call' = call /\ decOut' = decOut /\ net' = net /\ fed' = fed /\ finned' = finned
        /\ ended' = ended /\ wire' = wire
    <3>1. ~ConnectionError("H3_FRAME_UNEXPECTED") /\ ~ConnectionError("H3_EXCESSIVE_LOAD")
      BY <1>3
    <3>2. /\ ~TooLarge(St, f)
          /\ str' = [str EXCEPT ![S] = [Consumed(St) EXCEPT !.body = @ + f.len]]
          /\ got' = [got EXCEPT ![S] = Append(@, f)]
          /\ UNCHANGED <<scope, live, index, inserts, decOpen, deferred, goaway, err,
                         call, decOut, net, fed, finned, ended, wire>>
      BY <3>1, Zenon DEF ReadData
    <3> HIDE DEF f
    <3> QED BY <3>2
  <2> HIDE DEF f
  <2>3. /\ St = str[S] /\ St \in Records(scope.frames, scope.body) /\ scope.body \in Nat
        /\ St.buf \in Seq(scope.frames) /\ Coherent(St)
        /\ fed[S] \in Seq(scope.frames) /\ got[S] \in Seq(scope.frames)
        /\ (S \notin net.stopped /\ S \notin net.refused /\ S \notin net.failed
              => Faithful(St, fed[S], got[S]))
        /\ S \notin ended /\ f.len \in Nat
    BY <1>1, <2>1, HeadFacts, ScopeFacts DEF StreamsIInv
  <2>4. PICK s \in Streams : s = S BY <1>1, ReadFacts
  <2>5. /\ s \in live /\ err = "none" /\ ~St.blocked /\ St.held = <<>>
        /\ \A n \in Nat : <<n, s>> \notin index \cup call.rest
        /\ call \in Calls /\ (call.op = "feed" => call.rest = {})
    BY <1>1, <2>4, ReadFacts DEF St
  <2>6. PICK mid : mid = Consumed(St) OBVIOUS
  <2>7. /\ mid \in Records(scope.frames, scope.body) /\ mid.buf = Tail(St.buf)
        /\ mid.fin = St.fin /\ mid.state = St.state /\ mid.body = St.body
        /\ SamePark(mid, St) /\ SameSend(mid, St) /\ Coherent(mid)
    BY <1>1, <2>3, <2>6, ConsumedRecord
  <2>8. mid.body + f.len <= scope.body
    <3>1. St.body \in Nat BY <2>3, RecordTypes
    <3> QED BY <3>1, <2>2, <2>3, <2>7 DEF TooLarge
  <2>9. PICK new : new = [mid EXCEPT !.body = @ + f.len] OBVIOUS
  <2>10. /\ new \in Records(scope.frames, scope.body) /\ SameRead(new, mid)
         /\ new.state = mid.state /\ SamePark(new, mid) /\ SameSend(new, mid) /\ Coherent(new)
    BY <2>3, <2>7, <2>8, <2>9, DataRecord
  <2>11. str' = [str EXCEPT ![s] = new] /\ str'[s] = new
    <3>1. str' = [str EXCEPT ![s] = new] BY <2>2, <2>4, <2>6, <2>9
    <3> QED BY <3>1, <2>2, <2>10, PutStream
  <2>12. PICK h : h = Append(got[s], f) OBVIOUS
  <2>a. got \in [Streams -> Seq(scope.frames)] BY DEF StreamsIInv, Types
  <2>b. h \in Seq(scope.frames) BY <2>1, <2>3, <2>4, <2>12, AppendProperties
  <2>13. /\ got' \in [Streams -> Seq(scope.frames)] /\ got'[s] = h
         /\ \A t \in Streams : t # s => got'[t] = got[t]
    BY <2>2, <2>4, <2>12, <2>a, <2>b
  <2>14. DeliveredAt(s)'
    <3>1. new.buf = Tail(St.buf) /\ new.held = <<>>
      BY <2>5, <2>7, <2>10 DEF SamePark, SameRead
    <3>2. Head(St.buf).kind # "unknown" BY <1>1
    <3>3. s \notin net.stopped /\ s \notin net.refused /\ s \notin net.failed
            => Faithful(new, fed[s], h)
      BY <1>1, <2>1, <2>3, <2>4, <2>5, <2>12, <3>1, <3>2, HandedOver
    <3> QED BY <3>3, <2>2, <2>3, <2>4, <2>11, <2>13 DEF DeliveredAt
  <2>15. AnsweredAt(s)'
    BY <2>2, AnsweredFrame, StreamFacts DEF SoundAt, SameNet, SameAnswers
  <2>16. \A t \in Streams : t # s => SameAnswers(t) BY <2>2 DEF SameAnswers
  <2>17. net' \in Nets /\ SameRest(net') /\ decOut' \in Answers /\ deferred' \in Debts
         /\ ended' \subseteq Streams
    BY <2>2 DEF StreamsIInv, Types, SameRest
  <2>18. /\ ~new.blocked /\ SameSend(new, str[s]) /\ new.fin = str[s].fin
         /\ (CanSend(new) => CanSend(str[s]))
         /\ call'.stream = s /\ call'.op \in {"feed", "poll"} /\ s = call.stream
    BY <1>1, <2>2, <2>3, <2>4, <2>5, <2>7, <2>10
    DEF SamePark, SameSend, SameRead, CanSend, Running, S
  <2> QED BY <2>2, <2>5, <2>10, <2>11, <2>13, <2>14, <2>15, <2>16, <2>17, <2>18, ReadStep
<1> QED BY <1>2, <1>3

(* The acknowledgment of a section, written or deferred.                   *)
LEMMA AcknowledgeStep ==
  ASSUME StreamsIInv, NEW s \in Streams, s \in live, NEW f \in scope.frames, Acknowledge(s, f),
         decOpen' = decOpen, net' = WithDecoded(net, s, Counted(f))
  PROVE  /\ AnsweredAt(s)' /\ decOut' \in Answers /\ deferred' \in Debts
         /\ \A t \in Streams : t # s => SameAnswers(t)
<1>1. /\ Types /\ decOut \in Answers /\ deferred \in Debts /\ net \in Nets /\ SoundAt(s)
      /\ f.ric \in Nat /\ net.decoded[s] \in Nat
  BY StreamFacts, ScopeFacts, NetTypes DEF StreamsIInv, Types
<1>2. Counted(f) \in Nat /\ (f.ric = 0 => Counted(f) = 0) /\ (f.ric # 0 => Counted(f) = 1)
  BY <1>1 DEF Counted
<1>3. /\ net'.decoded[s] = net.decoded[s] + Counted(f) /\ SameRest(net')
      /\ net'.refused = net.refused /\ net'.failed = net.failed
  BY <1>1, <1>2, NetDecoded
<1>4. AnsweredAt(s) /\ s \notin net.reset BY <1>1 DEF SoundAt, LifeAt
<1>5. Resets(s) = 0 /\ Resets(s)' = 0 BY <1>3, <1>4 DEF Resets, SameRest
<1>6. CASE f.ric = 0
  <2>1. decOut' = decOut /\ deferred' = deferred /\ net'.decoded[s] = net.decoded[s]
    BY <1>1, <1>2, <1>3, <1>6 DEF Acknowledge
  <2>2. AnsweredAt(s)' BY <2>1, <1>3, <1>4, <1>5 DEF AnsweredAt, SameRest
  <2> QED BY <2>1, <2>2, <1>1 DEF SameAnswers
<1>7. CASE f.ric # 0 /\ decOpen
  <2>1. /\ decOut' = [decOut EXCEPT ![s] = Append(@, "ack")] /\ deferred' = deferred
        /\ net'.decoded[s] = net.decoded[s] + 1
    BY <1>1, <1>2, <1>3, <1>7 DEF Acknowledge
  <2>2. decOut[s] \in Seq({"ack", "cancel"}) BY <1>1 DEF Answers
  <2>3. Append(decOut[s], "ack") \in Seq({"ack", "cancel"}) BY <2>2, AppendProperties
  <2>4. /\ decOut' \in Answers /\ decOut'[s] = Append(decOut[s], "ack")
        /\ \A t \in Streams : t # s => decOut'[t] = decOut[t]
    BY <2>1, <2>3, <1>1 DEF Answers
  <2>5. Append(Owed(net.decoded[s], 0), "ack") = Owed(net.decoded[s] + 1, 0)
    BY <1>1, OwedAck
  <2>6. AnsweredAt(s)'
    <3>1. s \notin StopStreams /\ s \notin net.refused /\ s \notin net.failed
            => decOut[s] = Owed(net.decoded[s], 0)
      BY <1>4, <1>5, <1>7 DEF AnsweredAt
    <3>2. s \notin StopStreams /\ s \notin net.refused /\ s \notin net.failed
            => decOut'[s] = Owed(net'.decoded[s], Resets(s)')
      BY <3>1, <2>1, <2>4, <2>5, <1>5
    <3> QED BY <3>2, <2>1, <1>3, <1>4, <1>7 DEF AnsweredAt, SameRest
  <2>7. deferred' \in Debts /\ \A t \in Streams : t # s => SameAnswers(t)
    BY <2>1, <2>4, <1>1 DEF SameAnswers
  <2> QED BY <2>4, <2>6, <2>7
<1>8. CASE f.ric # 0 /\ ~decOpen
  <2>1. /\ deferred' = [deferred EXCEPT !.acks[s] = @ + 1] /\ decOut' = decOut
        /\ net'.decoded[s] = net.decoded[s] + 1
    BY <1>1, <1>2, <1>3, <1>8 DEF Acknowledge
  <2>2. deferred.acks \in Tally /\ deferred.cancels \in Tally /\ deferred.acks[s] + 1 \in Nat
    BY <1>1 DEF Debts, Tally
  <2>3. PICK g : g = [deferred.acks EXCEPT ![s] = deferred.acks[s] + 1] OBVIOUS
  <2>4. g \in Tally /\ g[s] = deferred.acks[s] + 1 /\ \A t \in Streams : t # s => g[t] = deferred.acks[t]
    BY <2>2, <2>3, TallyStep
  <2>5. deferred' = [deferred EXCEPT !.acks = g] BY <2>1, <2>3, <1>1 DEF Debts
  <2>6. deferred' \in Debts /\ deferred'.acks = g /\ deferred'.cancels = deferred.cancels
    BY <2>4, <2>5, <1>1 DEF Debts
  <2>7. AnsweredAt(s)' BY <2>1, <2>4, <2>6, <1>3, <1>4, <1>5, <1>8 DEF AnsweredAt, SameRest
  <2>8. decOut' \in Answers /\ \A t \in Streams : t # s => SameAnswers(t)
    BY <2>1, <2>4, <2>6, <1>1 DEF SameAnswers
  <2> QED BY <2>6, <2>7, <2>8
<1> QED BY <1>6, <1>7, <1>8


(* The section f of stream s decoded: its events, or its refusal.          *)
LEMMA EmitStep ==
  ASSUME StreamsIInv, NEW s \in Streams, s \in live, err = "none",
         NEW st \in Records(scope.frames, scope.body), Coherent(st), ~st.blocked,
         st.held = <<>>, st.recv # "Complete", SameSend(st, str[s]), st.state = str[s].state,
         st.fin = str[s].fin, NEW f \in scope.frames, NEW trailer \in BOOLEAN,
         NEW rest \in SUBSET Pairs, EmitHeaders(s, st, f, trailer, rest),
         call.op \in {"feed", "poll", "retry"}, call.op = "feed" => rest = {},
         \A n \in Nat : <<n, s>> \notin index \cup rest,
         \A n \in Nat, t \in Streams : t # s => (<<n, t>> \in rest <=> <<n, t>> \in call.rest),
         ~Running \/ s = call.stream, s \notin ended,
         s \notin net.stopped /\ s \notin net.refused /\ s \notin net.failed
            => Faithful(st, fed[s], Append(got[s], f))
  PROVE  StreamsIInv'
<1>1. /\ scope.body \in Nat /\ f.len \in Nat \cup {NoLength} /\ f.ric \in Nat /\ net \in Nets
      /\ Coherent(str[s]) /\ Counted(f) \in Nat
  BY ScopeFacts, StreamFacts DEF StreamsIInv, Types, Counted
<1>2. CanSend(st) => CanSend(str[s]) BY DEF CanSend
<1>3. CASE ~Valid(f, trailer)
  <2>1. CallFails(s, st, rest, Counted(f)) BY <1>3 DEF EmitHeaders
  <2>2. str[s].recv # "Complete" BY <1>1 DEF Coherent
  <2>3. \A n \in Nat, t \in Streams : <<n, t>> \in call.rest /\ t # s => rest # {} OBVIOUS
  <2>4. \A n \in Nat : <<n, s>> \notin index OBVIOUS
  <2> QED BY <1>1, <1>2, <2>1, <2>2, <2>3, <2>4, CallFailsStep
<1>4. CASE Valid(f, trailer)
  <2>1. PICK new : new = WithHeaders(st, f, trailer) OBVIOUS
  <2>2. /\ str' = [str EXCEPT ![s] = new]
        /\ got' = [got EXCEPT ![s] = Append(got[s], f)]
        /\ Acknowledge(s, f)
        /\ call' = Reading(IF call.op = "feed" THEN "feed" ELSE "poll", s, rest)
        /\ net' = WithDecoded(net, s, Counted(f))
        /\ scope' = scope /\ live' = live /\ index' = index /\ inserts' = inserts
        /\ decOpen' = decOpen /\ goaway' = goaway /\ err' = err /\ fed' = fed
        /\ finned' = finned /\ ended' = ended /\ wire' = wire
    BY <1>4, <2>1 DEF EmitHeaders, WithDecoded
  <2>3. /\ new \in Records(scope.frames, scope.body) /\ new.buf = st.buf /\ new.fin = st.fin
        /\ new.state = st.state /\ SamePark(new, st) /\ SameSend(new, st) /\ Coherent(new)
    BY <1>1, <2>1, WithHeadersRecord
  <2>4. str'[s] = new BY <2>2, <2>3, PutStream
  <2>5. /\ net' \in Nets /\ SameRest(net') /\ net'.refused = net.refused
        /\ net'.failed = net.failed /\ net'.stranded = net.stranded
        /\ \A t \in Streams : t # s => net'.decoded[t] = net.decoded[t]
    BY <1>1, <2>2, NetDecoded
  <2>6. /\ AnsweredAt(s)' /\ decOut' \in Answers /\ deferred' \in Debts
        /\ \A t \in Streams : t # s => SameAnswers(t)
    BY <2>2, AcknowledgeStep
  <2>7. PICK h : h = Append(got[s], f) OBVIOUS
  <2>8. got \in [Streams -> Seq(scope.frames)] /\ got[s] \in Seq(scope.frames)
    BY DEF StreamsIInv, Types
  <2>9. h \in Seq(scope.frames) BY <2>7, <2>8, AppendProperties
  <2>10. /\ got' \in [Streams -> Seq(scope.frames)] /\ got'[s] = h
         /\ \A t \in Streams : t # s => got'[t] = got[t]
    BY <2>2, <2>7, <2>8, <2>9
  <2>11. DeliveredAt(s)'
    <3>1. s \notin net.stopped /\ s \notin net.refused /\ s \notin net.failed
            => Faithful(st, fed[s], h)
      BY <2>7
    <3>2. Faithful(st, fed[s], h) => Faithful(new, fed[s], h)
      BY <2>3 DEF Faithful, SamePark
    <3> QED BY <3>1, <3>2, <2>2, <2>4, <2>5, <2>10 DEF DeliveredAt, SameRest
  <2>12. /\ call' \in Calls /\ call'.op \in {"feed", "poll"} /\ call'.stream = s
         /\ call'.rest = rest /\ (call'.op = "feed" <=> call.op = "feed")
    <3>1. CASE call.op = "feed" BY <3>1, <2>2, CallTypes
    <3>2. CASE call.op # "feed" BY <3>2, <2>2, CallTypes
    <3> QED BY <3>1, <3>2
  <2>13. /\ ~new.blocked /\ SameSend(new, str[s]) /\ new.fin = str[s].fin
         /\ (CanSend(new) => CanSend(str[s]))
    BY <2>3 DEF SamePark, SameSend, CanSend
  <2>14. ended' \subseteq Streams BY <2>2 DEF StreamsIInv, Types
  <2>15. /\ (call'.op = "feed" => call'.rest = {})
         /\ \A n \in Nat : <<n, s>> \notin index \cup call'.rest
         /\ \A n \in Nat, t \in Streams : t # s => (<<n, t>> \in call'.rest <=> <<n, t>> \in call.rest)
    BY <2>12
  <2> QED BY <2>2, <2>3, <2>5, <2>6, <2>10, <2>11, <2>12, <2>13, <2>14, <2>15, ReadStep
<1> QED BY <1>3, <1>4

LEMMA HeadersStep ==
  ASSUME StreamsIInv, ReadHeaders
  PROVE  StreamsIInv'
<1> DEFINE f == Head(St.buf)
           trailer == St.recv = "ReceivingBody"
           r == IF trailer THEN "TrailersReceived" ELSE "ReceivingBody"
           st == [Consumed(St) EXCEPT !.recv = r]
           parked == [st EXCEPT !.blocked = TRUE, !.ricnt = f.ric,
                                !.held = <<[frame |-> f, trailer |-> trailer]>>]
<1>1. Running /\ St.buf # <<>> /\ f.kind = "headers"
  BY DEF ReadHeaders, Reads, Running
<1>2. /\ St = str[S] /\ St \in Records(scope.frames, scope.body) /\ scope.body \in Nat
      /\ St.buf \in Seq(scope.frames) /\ f \in scope.frames
      /\ Coherent(St) /\ St.recv # "Complete"
      /\ fed[S] \in Seq(scope.frames) /\ got[S] \in Seq(scope.frames)
      /\ (S \notin net.stopped /\ S \notin net.refused /\ S \notin net.failed
            => Faithful(St, fed[S], got[S]))
      /\ S \notin ended
  BY <1>1, HeadFacts
<1>3. /\ S \in Streams /\ S \in live /\ err = "none" /\ call.rest \in SUBSET Pairs
      /\ ~St.blocked /\ St.held = <<>> /\ \A n \in Nat : <<n, S>> \notin index \cup call.rest
      /\ (call.op = "feed" => call.rest = {}) /\ call.op \in {"feed", "poll"}
  BY <1>1, <1>2, ReadFacts DEF Running
<1>4. f.ric \in Nat BY <1>2, ScopeFacts DEF StreamsIInv
<1>5. \/ ConnectionError("H3_FRAME_UNEXPECTED")
      \/ ConnectionError("QPACK_DECOMPRESSION_FAILED")
      \/ /\ index' = index \cup {<<f.ric, S>>}
         /\ Leave(parked)
         /\ UNCHANGED <<scope, inserts, decOpen, deferred, goaway, err, decOut, net, fed,
                        finned, got, ended, wire>>
      \/ CallFails(S, st, call.rest, 0)
      \/ EmitHeaders(S, st, f, trailer, call.rest)
  BY Zenon DEF ReadHeaders
<1>6. PICK mid : mid = Consumed(St) OBVIOUS
<1>7. /\ mid \in Records(scope.frames, scope.body) /\ mid.buf = Tail(St.buf)
      /\ mid.fin = St.fin /\ mid.state = St.state /\ mid.recv = St.recv
      /\ SamePark(mid, St) /\ SameSend(mid, St) /\ Coherent(mid)
  BY <1>1, <1>2, <1>6, ConsumedRecord
<1>8. r \in {"ReceivingBody", "TrailersReceived"} /\ trailer \in BOOLEAN OBVIOUS
<1>9. st = [mid EXCEPT !.recv = r] BY <1>6
<1> HIDE DEF f, trailer, r, st
<1>10. /\ st \in Records(scope.frames, scope.body) /\ st.buf = mid.buf /\ st.fin = mid.fin
       /\ st.recv = r /\ st.state = mid.state /\ SamePark(st, mid) /\ SameSend(st, mid)
       /\ Coherent(st)
  BY <1>2, <1>7, <1>8, <1>9, HeaderRecord
<1>11. /\ st.buf = Tail(St.buf) /\ st.fin = St.fin /\ st.state = St.state
       /\ ~st.blocked /\ st.held = <<>> /\ SameSend(st, St)
       /\ st.recv # "Complete" /\ (CanSend(st) => CanSend(St))
  BY <1>3, <1>7, <1>8, <1>10 DEF SamePark, SameSend, CanSend
<1>12. \A n \in Nat, t \in Streams : <<n, t>> \in call.rest /\ t # S => call.rest # {}
  OBVIOUS
<1>13. CASE \E code \in {"H3_FRAME_UNEXPECTED", "QPACK_DECOMPRESSION_FAILED"} :
              ConnectionError(code)
  BY <1>1, <1>13, ConnectionErrorStep
<1>14. CASE /\ index' = index \cup {<<f.ric, S>>}
            /\ Leave(parked)
            /\ UNCHANGED <<scope, inserts, decOpen, deferred, goaway, err, decOut, net, fed,
                           finned, got, ended, wire>>
  <2>1. PICK new : new = parked OBVIOUS
  <2>2. /\ new \in Records(scope.frames, scope.body) /\ SameRead(new, st)
        /\ new.state = st.state /\ new.blocked /\ new.ricnt = f.ric /\ new.held # <<>>
        /\ Len(new.held) = 1 /\ new.held[1].frame = f /\ SameSend(new, st) /\ Coherent(new)
    <3>1. PICK sec \in HeldSections(scope.frames) : sec = [frame |-> f, trailer |-> trailer]
      BY <1>2, <1>8 DEF HeldSections
    <3>2. PICK kept : kept = <<sec>> OBVIOUS
    <3>3. kept \in Seq(HeldSections(scope.frames)) /\ Len(kept) = 1 BY <3>2
    <3>a. kept[1].frame = f /\ kept # <<>> BY <3>1, <3>2
    <3>4. PICK n \in Nat : n = f.ric BY <1>4
    <3>5. PICK x \in Records(scope.frames, scope.body) : x = st BY <1>10
    <3>6. new = ParkedOn(x, n, kept)
      BY <2>1, <3>1, <3>2, <3>4, <3>5, Zenon DEF parked, ParkedOn
    <3>7. /\ x.recv \in {"ReceivingBody", "TrailersReceived"} /\ Coherent(x)
          /\ scope.body \in Nat
      BY <1>2, <1>8, <1>10, <3>5
    <3>8. n = RicOf(kept) BY <3>a, <3>4 DEF RicOf
    <3> HIDE DEF parked
    <3>9. new \in Records(scope.frames, scope.body) /\ IsParked(new, x, n, kept) /\ Coherent(new)
      BY <3>3, <3>6, <3>7, <3>8, ParkRecord
    <3> QED BY <3>3, <3>a, <3>4, <3>5, <3>9 DEF IsParked
  <2> HIDE DEF parked
  <2>3. /\ SameSend(new, St) /\ (CanSend(new) => CanSend(St)) /\ new.fin = St.fin
        /\ new.buf = Tail(St.buf)
    BY <2>2, <1>11 DEF SameRead, SameSend, CanSend
  <2>4. S \notin net.stopped /\ S \notin net.refused /\ S \notin net.failed
          => Faithful(new, fed[S], got[S])
    <3>1. Head(St.buf).kind # "unknown" /\ new.held[1].frame = Head(St.buf)
      BY <1>1, <2>2 DEF f
    <3> QED BY <3>1, <1>1, <1>2, <1>3, <2>2, <2>3, SetAside
  <2> QED BY <1>1, <1>2, <1>14, <2>1, <2>2, <2>3, <2>4, LeaveStep
<1>15. CASE CallFails(S, st, call.rest, 0)
  BY <1>1, <1>2, <1>3, <1>10, <1>11, <1>12, <1>15, CallFailsStep DEF S
<1>16. CASE EmitHeaders(S, st, f, trailer, call.rest)
  <2>1. Head(St.buf).kind # "unknown" /\ Head(St.buf) = f BY <1>1 DEF f
  <2>2. S \notin net.stopped /\ S \notin net.refused /\ S \notin net.failed
          => Faithful(st, fed[S], Append(got[S], f))
    BY <2>1, <1>1, <1>2, <1>3, <1>11, HandedOver
  <2> QED BY SMTT(30), <2>2, <1>1, <1>2, <1>3, <1>8, <1>10, <1>11, <1>16, EmitStep DEF S
<1> QED BY <1>5, <1>13, <1>14, <1>15, <1>16


LEMMA EndStep ==
  ASSUME StreamsIInv, ReadEnd
  PROVE  StreamsIInv'
<1> DEFINE st == [St EXCEPT !.state = CloseRemote(@), !.recv = "Complete"]
<1>1. Running /\ St.buf = <<>> BY DEF ReadEnd, Running
<1>2. PICK s \in Streams : s = S BY <1>1, ReadFacts
<1>3. /\ s \in live /\ err = "none" /\ call.rest \in SUBSET Pairs /\ call \in Calls
      /\ ~St.blocked /\ St.held = <<>> /\ \A n \in Nat : <<n, s>> \notin index \cup call.rest
      /\ (call.op = "feed" => call.rest = {}) /\ call.op \in {"feed", "poll"}
  BY <1>1, <1>2, ReadFacts DEF Running, St
<1>4. /\ St = str[s] /\ St \in Records(scope.frames, scope.body) /\ SoundAt(s) /\ Coherent(St)
      /\ scope.body \in Nat
  BY <1>2, StreamFacts, ScopeFacts DEF St, StreamsIInv
<1>5. /\ (s \notin net.stopped /\ s \notin net.refused /\ s \notin net.failed
            => Faithful(St, fed[s], got[s]))
      /\ (s \in ended => St.recv = "Complete")
  BY <1>3, <1>4 DEF SoundAt, DeliveredAt
<1>6. \/ /\ Leave(St)
         /\ UNCHANGED <<scope, index, inserts, decOpen, deferred, goaway, err, decOut,
                        net, fed, finned, got, ended, wire>>
      \/ CallFails(S, St, call.rest, 0)
      \/ St.fin /\ St.recv # "Complete" /\ CallFails(S, st, call.rest, 0)
      \/ /\ St.fin /\ St.recv # "Complete"
         /\ str' = [str EXCEPT ![S] = st] /\ ended' = ended \cup {S}
         /\ UNCHANGED <<scope, live, index, inserts, decOpen, deferred, goaway, err,
                        call, decOut, net, fed, finned, got, wire>>
  BY Zenon DEF ReadEnd
<1>7. \A n \in Nat, t \in Streams : <<n, t>> \in call.rest /\ t # s => call.rest # {}
  OBVIOUS
<1>8. CASE /\ Leave(St)
           /\ UNCHANGED <<scope, index, inserts, decOpen, deferred, goaway, err, decOut,
                          net, fed, finned, got, ended, wire>>
  <2>1. SameSend(St, St) BY DEF SameSend
  <2>2. S \notin net.stopped /\ S \notin net.refused /\ S \notin net.failed
          => Faithful(St, fed[S], got[S])
    BY <1>2, <1>5
  <2>3. S \in ended => St.recv = "Complete" BY <1>2, <1>5
  <2> QED BY <1>1, <1>3, <1>4, <1>8, <2>1, <2>2, <2>3, LeaveStep
<1>9. CASE CallFails(S, St, call.rest, 0)
  <2>1. CallFails(s, St, call.rest, 0) BY <1>2, <1>9
  <2>2. SameSend(St, str[s]) /\ s = call.stream BY <1>2, <1>4 DEF SameSend, S
  <2> QED BY <2>1, <2>2, <1>3, <1>4, <1>7, CallFailsStep
<1>10. PICK new : new = st OBVIOUS
<1>11. /\ new \in Records(scope.frames, scope.body) /\ new.buf = St.buf /\ new.fin = St.fin
       /\ new.recv = "Complete" /\ SamePark(new, St) /\ SameSend(new, St)
       /\ (St.recv # "Complete" /\ St.fin => Coherent(new)) /\ (CanSend(new) => CanSend(St))
  <2>1. new = Ending(St) BY <1>10 DEF Ending
  <2> QED BY <2>1, <1>1, <1>3, <1>4, EndRecord
<1> HIDE DEF st
<1>12. ~new.blocked /\ SameSend(new, str[s]) /\ new.fin = str[s].fin /\ s = call.stream
       /\ new.held = <<>> /\ new.buf = St.buf /\ (CanSend(new) => CanSend(str[s]))
  BY <1>2, <1>3, <1>4, <1>11 DEF SamePark, S
<1>13. CASE St.fin /\ St.recv # "Complete" /\ CallFails(S, st, call.rest, 0)
  <2>1. CallFails(s, new, call.rest, 0) BY <1>2, <1>10, <1>13
  <2> QED BY <2>1, <1>3, <1>4, <1>7, <1>11, <1>12, <1>13, CallFailsStep
<1>14. CASE /\ St.fin /\ St.recv # "Complete"
            /\ str' = [str EXCEPT ![S] = st] /\ ended' = ended \cup {S}
            /\ UNCHANGED <<scope, live, index, inserts, decOpen, deferred, goaway, err,
                           call, decOut, net, fed, finned, got, wire>>
  <2>1. str' = [str EXCEPT ![s] = new] /\ str'[s] = new
    BY <1>2, <1>10, <1>11, <1>14, PutStream
  <2>2. ended' \subseteq Streams /\ \A t \in Streams : t # s => (t \in ended' <=> t \in ended)
    BY <1>2, <1>14 DEF StreamsIInv, Types
  <2>3. DeliveredAt(s)'
    <3>1. Faithful(St, fed[s], got[s]) => Faithful(new, fed[s], got[s])
      BY <1>3, <1>12 DEF Faithful
    <3> QED BY <3>1, <2>1, <1>5, <1>11, <1>14 DEF DeliveredAt
  <2>4. AnsweredAt(s)'
    BY <1>4, <1>14, AnsweredFrame DEF SoundAt, SameNet, SameAnswers
  <2>5. \A t \in Streams : t # s => SameAnswers(t) BY <1>14 DEF SameAnswers
  <2>6. /\ net' \in Nets /\ SameRest(net') /\ decOut' \in Answers /\ deferred' \in Debts
        /\ got' \in [Streams -> Seq(scope.frames)]
        /\ net'.refused = net.refused /\ net'.failed = net.failed
        /\ net'.stranded = net.stranded /\ net'.decoded = net.decoded
    BY <1>14 DEF StreamsIInv, Types, SameRest
  <2>7. Coherent(new) BY <1>11, <1>14
  <2>8. /\ call' = call /\ scope' = scope /\ live' = live /\ index' = index
        /\ inserts' = inserts /\ decOpen' = decOpen /\ goaway' = goaway /\ err' = err
        /\ fed' = fed /\ finned' = finned /\ wire' = wire /\ got' = got
    BY <1>14
  <2> QED BY <2>1, <2>2, <2>3, <2>4, <2>5, <2>6, <2>7, <2>8, <1>3, <1>4, <1>11, <1>12, ReadStep
<1> QED BY <1>6, <1>8, <1>9, <1>13, <1>14

(* The stream whose turn it is to be retried, and its section.             *)
LEMMA RetryFacts ==
  ASSUME StreamsIInv, call.op = "retry", NEW p, p = First(call.rest),
         NEW s, s = p[2], NEW rest, rest = call.rest \ {p},
         NEW f, f = str[s].held[1].frame, NEW trailer, trailer = str[s].held[1].trailer
  PROVE  /\ s \in Streams /\ s \in live /\ err = "none" /\ rest \in SUBSET Pairs
         /\ str[s].blocked /\ str[s].held # <<>> /\ Len(str[s].held) = 1
         /\ f \in scope.frames /\ trailer \in BOOLEAN /\ f.ric <= inserts
         /\ \A n \in Nat : <<n, s>> \notin index \cup rest
         /\ \A n \in Nat, t \in Streams : t # s => (<<n, t>> \in rest <=> <<n, t>> \in call.rest)
         /\ str[s].recv \in {"ReceivingBody", "TrailersReceived"} /\ s \notin ended
<1>1. call.rest \in SUBSET Pairs /\ call.rest # {} /\ err = "none" /\ inserts \in Nat
  BY ScopeFacts DEF StreamsIInv, Types, TypeOK, CallSound, Calls
<1>2. p \in call.rest BY <1>1, FirstIn
<1>3. p \in Nat \X Streams BY <1>1, <1>2 DEF Pairs
<1>4. s \in Streams /\ p[1] \in Nat /\ p = <<p[1], s>> BY <1>3
<1>5. SoundAt(s) /\ Coherent(str[s]) /\ str[s] \in Records(scope.frames, scope.body)
  BY <1>4, StreamFacts
<1>6. /\ s \in live /\ str[s].blocked /\ str[s].ricnt = p[1] /\ str[s].held # <<>>
      /\ p[1] <= inserts /\ p \notin index
      /\ \A n \in Nat : <<n, s>> \in index \cup call.rest => n = p[1]
  BY <1>2, <1>4, <1>5 DEF SoundAt, ParkedAt
<1>7. /\ Len(str[s].held) = 1 /\ str[s].held[1].frame.ric = p[1]
      /\ str[s].recv \in {"ReceivingBody", "TrailersReceived"}
  BY <1>5, <1>6 DEF Coherent
<1>8. str[s].held[1] \in HeldSections(scope.frames)
  <2>1. scope.body \in Nat BY ScopeFacts DEF StreamsIInv
  <2>2. str[s].held \in Seq(HeldSections(scope.frames)) BY <1>5, <2>1, RecordTypes
  <2> QED BY <2>2, <1>7
<1>9. f \in scope.frames /\ trailer \in BOOLEAN /\ f.ric <= inserts
  BY <1>6, <1>7, <1>8 DEF HeldSections
<1>10. \A n \in Nat : <<n, s>> \notin index \cup rest
  <2> SUFFICES ASSUME NEW n \in Nat, <<n, s>> \in index \cup rest PROVE FALSE OBVIOUS
  <2>1. n = p[1] BY <1>6
  <2>2. <<n, s>> = p BY <2>1, <1>4
  <2> QED BY <2>2, <1>6
<1>11. \A n \in Nat, t \in Streams : t # s => (<<n, t>> \in rest <=> <<n, t>> \in call.rest)
  BY <1>4
<1>12. s \notin ended BY <1>5, <1>6, <1>7 DEF SoundAt, DeliveredAt
<1> QED BY <1>1, <1>4, <1>6, <1>7, <1>8, <1>9, <1>10, <1>11, <1>12


LEMMA RetryStep ==
  ASSUME StreamsIInv, RetryNext
  PROVE  StreamsIInv'
<1> DEFINE p == First(call.rest)
           s == p[2]
           rest == call.rest \ {p}
           f == str[s].held[1].frame
           trailer == str[s].held[1].trailer
           taken == [str[s] EXCEPT !.held = <<>>]
           free == [taken EXCEPT !.blocked = FALSE, !.ricnt = 0]
<1>1. call.op = "retry" BY DEF RetryNext
<1>2. /\ s \in Streams /\ s \in live /\ err = "none" /\ rest \in SUBSET Pairs
      /\ str[s].blocked /\ str[s].held # <<>> /\ Len(str[s].held) = 1
      /\ f \in scope.frames /\ trailer \in BOOLEAN
      /\ \A n \in Nat : <<n, s>> \notin index \cup rest
      /\ \A n \in Nat, t \in Streams : t # s => (<<n, t>> \in rest <=> <<n, t>> \in call.rest)
      /\ str[s].recv \in {"ReceivingBody", "TrailersReceived"} /\ s \notin ended
  <2> HIDE DEF p
  <2>1. p = First(call.rest) BY DEF p
  <2>2. /\ s = p[2] /\ rest = call.rest \ {p}
        /\ f = str[s].held[1].frame /\ trailer = str[s].held[1].trailer
    OBVIOUS
  <2> HIDE DEF s, rest, f, trailer
  <2> QED BY <1>1, <2>1, <2>2, RetryFacts
<1>3. \/ CallFails(s, taken, rest, 0)
      \/ CallFails(s, free, rest, Counted(f))
      \/ EmitHeaders(s, free, f, trailer, rest)
  <2>1. ~(s \notin live \/ str[s].held = <<>>) BY <1>2
  <2> HIDE DEF StreamsIInv
  <2> QED BY <2>1, Zenon DEF RetryNext
<1>a. str[s] \in Records(scope.frames, scope.body) /\ Coherent(str[s]) /\ SoundAt(s)
      /\ scope.body \in Nat
  BY <1>2, StreamFacts, ScopeFacts DEF StreamsIInv
<1>4. PICK old \in Records(scope.frames, scope.body) : old = str[s] BY <1>a
<1>5. PICK mid : mid = [old EXCEPT !.held = <<>>] OBVIOUS
<1>6. /\ mid \in Records(scope.frames, scope.body) /\ SameRead(mid, old)
      /\ mid.state = old.state /\ mid.blocked = old.blocked /\ mid.held = <<>>
      /\ SameSend(mid, old) /\ Coherent(mid)
  BY <1>4, <1>5, <1>a, TakenRecord
<1>7. PICK new : new = Freed(mid) OBVIOUS
<1>8. /\ new \in Records(scope.frames, scope.body) /\ SameRead(new, mid)
      /\ new.state = mid.state /\ ~new.blocked /\ new.held = mid.held
      /\ SameSend(new, mid) /\ Coherent(new)
  BY <1>6, <1>7, <1>a, FreeRecord
<1>9. taken = mid BY <1>4, <1>5
<1> HIDE DEF taken
<1>10. free = new BY <1>7, <1>9 DEF Freed
<1> HIDE DEF p, s, rest, f, trailer, free
<1>11. ~Running BY <1>1 DEF Running
<1>12. /\ SameSend(mid, str[s]) /\ mid.fin = str[s].fin /\ mid.buf = str[s].buf
       /\ (CanSend(mid) => CanSend(str[s])) /\ str[s].recv # "Complete"
  BY <1>2, <1>4, <1>6 DEF SameRead, CanSend
<1>13. /\ SameSend(new, str[s]) /\ new.fin = str[s].fin /\ new.buf = str[s].buf
       /\ (CanSend(new) => CanSend(str[s])) /\ new.state = str[s].state
       /\ new.recv # "Complete" /\ new.held = <<>>
  <2>1. new.fin = old.fin /\ new.buf = old.buf /\ new.recv = old.recv /\ new.state = old.state
    BY <1>6, <1>8 DEF SameRead
  <2>2. SameSend(new, old) BY <1>6, <1>8 DEF SameSend
  <2> QED BY <2>1, <2>2, <1>2, <1>4, <1>6, <1>8 DEF CanSend
<1>14. /\ call.op # "idle" /\ call.op # "feed" /\ \A n \in Nat : <<n, s>> \notin index
       /\ \A n \in Nat, t \in Streams : <<n, t>> \in call.rest /\ t # s => rest # {}
  BY <1>1, <1>2
<1>15. f.ric \in Nat /\ Counted(f) \in Nat
  BY <1>2, ScopeFacts DEF StreamsIInv, Counted
<1>16. CASE CallFails(s, taken, rest, 0)
  <2>1. CallFails(s, mid, rest, 0) BY <1>9, <1>16
  <2> QED BY <2>1, <1>2, <1>6, <1>11, <1>12, <1>14, CallFailsStep
<1>17. CASE CallFails(s, free, rest, Counted(f))
  <2>1. CallFails(s, new, rest, Counted(f)) BY <1>10, <1>17
  <2> QED BY <2>1, <1>2, <1>8, <1>11, <1>12, <1>13, <1>14, <1>15, CallFailsStep
<1>18. CASE EmitHeaders(s, free, f, trailer, rest)
  <2>1. EmitHeaders(s, new, f, trailer, rest) BY <1>10, <1>18
  <2>2. s \notin net.stopped /\ s \notin net.refused /\ s \notin net.failed
          => Faithful(new, fed[s], Append(got[s], f))
    <3>1. fed[s] \in Seq(scope.frames) /\ got[s] \in Seq(scope.frames)
      BY <1>2 DEF StreamsIInv, Types
    <3>2. s \notin net.stopped /\ s \notin net.refused /\ s \notin net.failed
            => Faithful(str[s], fed[s], got[s])
      BY <1>2, <1>a DEF SoundAt, DeliveredAt
    <3>3. str[s].held[1].frame = f BY DEF f
    <3> QED BY <3>1, <3>2, <3>3, <1>2, <1>13, TakenUp
  <2> QED BY <2>1, <2>2, <1>1, <1>2, <1>8, <1>11, <1>13, EmitStep
<1> QED BY <1>3, <1>16, <1>17, <1>18

(* Every step of a call in progress.                                       *)
LEMMA LoopKeeps ==
  ASSUME StreamsIInv, LoopStep
  PROVE  StreamsIInv'
BY ForbiddenStep, UnknownStep, DataStep, HeadersStep, EndStep, RetryStep DEF LoopStep


-----------------------------------------------------------------------------
(* Calls that start when none is in progress.                              *)

LEMMA ReadyFacts ==
  ASSUME StreamsIInv, call = Idle
  PROVE  /\ call.op = "idle" /\ call.rest = {} /\ ~Running /\ call \in Calls
         /\ \A s \in Streams : s \in live /\ s \notin net.failed => ~Done(str[s])
         /\ inserts \in Nat /\ net \in Nets /\ scope.body \in Nat
<1>1. call.op = "idle" /\ call.rest = {} /\ call \in Calls BY IdleCall
<1>2. ~Running BY <1>1 DEF Running
<1>3. \A s \in Streams : DoneAt(s) BY DEF StreamsIInv, SoundAt
<1> QED BY <1>1, <1>2, <1>3, ScopeFacts DEF DoneAt, StreamsIInv, Types

(* A call on stream s that leaves the others as they are.                  *)
LEMMA OneStreamStep ==
  ASSUME StreamsIInv, call = Idle, Types', CallSound', NEW s \in Streams, Calm,
         \A t \in Streams : t # s => Same(t), SoundAt(s)'
  PROVE  StreamsIInv'
<1>1. inserts \in Nat /\ inserts' \in Nat
  <2>1. scope.inserts \in Nat /\ inserts \in Nat /\ scope' = scope BY ReadyFacts, ScopeFacts DEF StreamsIInv, Calm
  <2> QED BY <2>1 DEF Types, TypeOK
<1>2. ASSUME NEW t \in Streams, t # s PROVE SoundAt(t)'
  BY <1>1, <1>2, ReadyFacts, StreamFacts, SoundFrame
<1> QED BY <1>2 DEF StreamsIInv

LEMMA InsertionStep ==
  ASSUME StreamsIInv, EncoderStream
  PROVE  StreamsIInv'
<1>1. /\ call = Idle /\ inserts' = inserts + 1 /\ inserts < scope.inserts
      /\ scope' = scope /\ live' = live /\ str' = str /\ index' = index
      /\ decOpen' = decOpen /\ deferred' = deferred /\ goaway' = goaway /\ err' = err
      /\ call' = call /\ decOut' = decOut /\ net' = net /\ fed' = fed /\ finned' = finned
      /\ got' = got /\ ended' = ended /\ wire' = wire
  BY DEF EncoderStream, Ready
<1>2. inserts \in Nat /\ scope.inserts \in Nat BY ScopeFacts DEF StreamsIInv
<1>3. Types' BY <1>1, <1>2 DEF StreamsIInv, Types, TypeOK
<1>4. CallSound' BY <1>1 DEF StreamsIInv, CallSound, Running
<1>5. ASSUME NEW t \in Streams PROVE SoundAt(t)'
  <2>1. Same(t)
    BY <1>1 DEF Same, SameStream, SameNet, SameTrace, SameAnswers, SamePairs
  <2>2. Calm BY <1>1, <1>2 DEF Calm
  <2> QED BY <2>1, <2>2, <1>1, <1>2, StreamFacts, SoundFrame
<1> QED BY <1>3, <1>4, <1>5 DEF StreamsIInv

LEMMA GoawayStep ==
  ASSUME StreamsIInv, NEW id \in scope.goaways, Goaway(id)
  PROVE  StreamsIInv'
<1>1. /\ call = Idle /\ err = "none" /\ inserts' = inserts
      /\ scope' = scope /\ live' = live /\ str' = str /\ index' = index
      /\ decOpen' = decOpen /\ deferred' = deferred
      /\ call' = call /\ decOut' = decOut /\ net' = net /\ fed' = fed /\ finned' = finned
      /\ got' = got /\ ended' = ended /\ wire' = wire
      /\ goaway' \in {goaway, id}
  BY DEF Goaway, Ready
<1>2. Types' BY <1>1, ReadyFacts DEF StreamsIInv, Types, TypeOK
<1>3. CallSound' BY <1>1 DEF StreamsIInv, CallSound, Running
<1>4. ASSUME NEW t \in Streams PROVE SoundAt(t)'
  <2>1. Same(t)
    BY <1>1 DEF Same, SameStream, SameNet, SameTrace, SameAnswers, SamePairs
  <2>2. Calm BY <1>1, ReadyFacts DEF Calm
  <2> QED BY <2>1, <2>2, <1>1, ReadyFacts, StreamFacts, SoundFrame
<1> QED BY <1>2, <1>3, <1>4 DEF StreamsIInv

LEMMA PollStep ==
  ASSUME StreamsIInv, PollEvent
  PROVE  StreamsIInv'
<1>1. /\ call = Idle /\ err = "none" /\ inserts' = inserts /\ Unblockable # {}
      /\ scope' = scope /\ live' = live /\ str' = str
      /\ index' = index \ Unblockable /\ call' = Retrying(Unblockable)
      /\ decOpen' = decOpen /\ deferred' = deferred /\ goaway' = goaway /\ err' = err
      /\ decOut' = decOut /\ net' = net /\ fed' = fed /\ finned' = finned
      /\ got' = got /\ ended' = ended /\ wire' = wire
  BY DEF PollEvent, Ready
<1>2. index \subseteq Pairs /\ Unblockable \subseteq index
      /\ \A n \in Nat, t \in Streams : <<n, t>> \in Unblockable => n <= inserts
  BY DEF StreamsIInv, Types, TypeOK, Pairs, Unblockable
<1>3. /\ call' \in Calls /\ call'.op = "retry" /\ call'.rest = Unblockable
      /\ call.rest = {} /\ ~Running
  BY <1>1, <1>2, CallTypes, ReadyFacts DEF Retrying, Calls
<1>4. Types' BY <1>1, <1>2, <1>3 DEF StreamsIInv, Types, TypeOK, Pairs
<1>5. CallSound' BY <1>1, <1>3 DEF CallSound, Running
<1>6. ASSUME NEW t \in Streams PROVE SoundAt(t)'
  <2>1. /\ SameStream(t) /\ SameNet(t) /\ SameTrace(t) /\ SameAnswers(t)
        /\ Role' = Role /\ wire'[t] = wire[t]
    BY <1>1 DEF SameStream, SameNet, SameTrace, SameAnswers, Role
  <2>2. SoundAt(t) BY StreamFacts
  <2>3. ParkedAt(t)' BY <1>1, <1>2, <1>3, <2>2 DEF SoundAt, ParkedAt
  <2>4. DoneAt(t)' BY <1>3, <2>1, <2>2, DoneFrame DEF SoundAt
  <2> QED BY <1>1, <2>1, <2>2, <2>3, <2>4, LifeFrame, SendingFrame, DeliveredFrame, AnsweredFrame
          DEF SoundAt
<1> QED BY <1>4, <1>5, <1>6 DEF StreamsIInv

LEMMA DecoderStep ==
  ASSUME StreamsIInv, OpenDecoderStream
  PROVE  StreamsIInv'
<1>1. /\ call = Idle /\ err = "none" /\ ~decOpen /\ decOpen' = TRUE
      /\ decOut' = [s \in Streams |-> DeferredFor(s)]
      /\ deferred' = [acks |-> [s \in Streams |-> 0], cancels |-> [s \in Streams |-> 0]]
      /\ inserts' = inserts /\ scope' = scope /\ live' = live /\ str' = str /\ index' = index
      /\ goaway' = goaway /\ err' = err /\ call' = call /\ net' = net
      /\ fed' = fed /\ finned' = finned /\ got' = got /\ ended' = ended /\ wire' = wire
  BY DEF OpenDecoderStream, Ready
<1>2. deferred.acks \in Tally /\ deferred.cancels \in Tally
  BY DEF StreamsIInv, Types, Debts
<1>3. \A t \in Streams : DeferredFor(t) \in Seq({"ack", "cancel"})
  <2> TAKE t \in Streams
  <2>1. deferred.acks[t] \in Nat /\ deferred.cancels[t] \in Nat BY <1>2 DEF Tally
  <2>2. Times(deferred.acks[t], "ack") \in Seq(Both) /\ Times(deferred.cancels[t], "cancel") \in Seq(Both)
    BY <2>1, TimesSeq DEF Both
  <2> QED BY <2>2, ConcatProperties DEF DeferredFor, Both
<1>4. decOut' \in Answers BY <1>1, <1>3 DEF Answers
<1>5. PICK zero \in Tally : zero = [s \in Streams |-> 0] BY DEF Tally
<1>6. deferred' \in Debts BY <1>1, <1>5 DEF Debts
<1>7. Types' BY <1>1, <1>4, <1>6 DEF StreamsIInv, Types, TypeOK
<1>8. CallSound' BY <1>1 DEF StreamsIInv, CallSound, Running
<1>9. ASSUME NEW t \in Streams PROVE SoundAt(t)'
  <2>1. /\ SameStream(t) /\ SameNet(t) /\ SameTrace(t)
        /\ Role' = Role /\ wire'[t] = wire[t]
    BY <1>1 DEF SameStream, SameNet, SameTrace, Role
  <2>2. SoundAt(t) BY StreamFacts
  <2>3. ParkedAt(t)' BY <1>1, <2>2 DEF SoundAt, ParkedAt
  <2>4. DoneAt(t)' BY <1>1, <2>1, <2>2, DoneFrame DEF SoundAt
  <2>5. /\ deferred'.acks[t] = 0 /\ deferred'.cancels[t] = 0
        /\ decOut'[t] = Owed(deferred.acks[t], deferred.cancels[t])
    BY <1>1 DEF DeferredFor, Owed
  <2>6. AnsweredAt(t)'
    <3>1. Resets(t)' = Resets(t) BY <1>1 DEF Resets
    <3>2. AnsweredAt(t) BY <2>2 DEF SoundAt
    <3>3. t \notin StopStreams /\ t \notin net.refused /\ t \notin net.failed =>
            decOut'[t] = Owed(net.decoded[t], Resets(t))
      BY <1>1, <2>5, <3>2 DEF AnsweredAt
    <3> QED BY <1>1, <2>5, <3>1, <3>2, <3>3 DEF AnsweredAt
  <2> QED BY <1>1, <2>1, <2>2, <2>3, <2>4, <2>6, LifeFrame, SendingFrame, DeliveredFrame
          DEF SoundAt
<1> QED BY <1>7, <1>8, <1>9 DEF StreamsIInv


(* Marks on a stream in the record of what QUIC and the caller did.        *)
SameOpening(n) == n.used = net.used /\ n.opened = net.opened
SameFates(n) ==
    /\ n.refused = net.refused /\ n.failed = net.failed /\ n.stranded = net.stranded
    /\ n.decoded = net.decoded

WithReset(n, s) == [n EXCEPT !.reset = @ \cup {s}]
WithStopped(n, s) == [n EXCEPT !.stopped = @ \cup {s}]
WithUsed(n, s) == [n EXCEPT !.used = @ \cup {s}]
WithOpened(n, s) == [n EXCEPT !.used = @ \cup {s}, !.opened = @ \cup {s}]
WithRejected(n, s) == [n EXCEPT !.refused = @ \cup {s}]
WithArrived(n, s, k) == [n EXCEPT !.arrived[s] = @ + k]
WithSend(n, s) == [n EXCEPT !.sends[s] = @ + 1]

LEMMA NetReset ==
  ASSUME net \in Nets, NEW s \in Streams, NEW n, n = WithReset(net, s)
  PROVE  /\ n \in Nets /\ n.reset = net.reset \cup {s} /\ n.stopped = net.stopped
         /\ SameOpening(n) /\ SameFates(n)
<1>1. PICK x \in Sets : x = net.reset \cup {s} BY DEF Nets, Sets
<1>2. n = [net EXCEPT !.reset = x] BY <1>1 DEF WithReset
<1> QED BY <1>1, <1>2 DEF Nets, SameOpening, SameFates

LEMMA NetStopped ==
  ASSUME net \in Nets, NEW s \in Streams, NEW n, n = WithStopped(net, s)
  PROVE  /\ n \in Nets /\ n.stopped = net.stopped \cup {s} /\ n.reset = net.reset
         /\ SameOpening(n) /\ SameFates(n)
<1>1. PICK x \in Sets : x = net.stopped \cup {s} BY DEF Nets, Sets
<1>2. n = [net EXCEPT !.stopped = x] BY <1>1 DEF WithStopped
<1> QED BY <1>1, <1>2 DEF Nets, SameOpening, SameFates

LEMMA NetUsed ==
  ASSUME net \in Nets, NEW s \in Streams, NEW n, n = WithUsed(net, s)
  PROVE  /\ n \in Nets /\ n.used = net.used \cup {s} /\ n.opened = net.opened
         /\ n.reset = net.reset /\ n.stopped = net.stopped /\ SameFates(n)
<1>1. PICK x \in Sets : x = net.used \cup {s} BY DEF Nets, Sets
<1>2. n = [net EXCEPT !.used = x] BY <1>1 DEF WithUsed
<1> QED BY <1>1, <1>2 DEF Nets, SameFates

LEMMA NetOpened ==
  ASSUME net \in Nets, NEW s \in Streams, NEW n, n = WithOpened(net, s)
  PROVE  /\ n \in Nets /\ n.used = net.used \cup {s} /\ n.opened = net.opened \cup {s}
         /\ n.reset = net.reset /\ n.stopped = net.stopped /\ SameFates(n)
<1>1. PICK x \in Sets : x = net.used \cup {s} BY DEF Nets, Sets
<1>2. PICK y \in Sets : y = net.opened \cup {s} BY DEF Nets, Sets
<1>3. n = [net EXCEPT !.used = x, !.opened = y] BY <1>1, <1>2 DEF WithOpened
<1> QED BY <1>1, <1>2, <1>3 DEF Nets, SameFates

LEMMA NetRejected ==
  ASSUME net \in Nets, NEW s \in Streams, NEW n, n = WithRejected(net, s)
  PROVE  /\ n \in Nets /\ SameRest(n) /\ n.refused = net.refused \cup {s}
         /\ n.failed = net.failed /\ n.stranded = net.stranded /\ n.decoded = net.decoded
<1>1. PICK x \in Sets : x = net.refused \cup {s} BY DEF Nets, Sets
<1>2. n = [net EXCEPT !.refused = x] BY <1>1 DEF WithRejected
<1> QED BY <1>1, <1>2 DEF Nets, SameRest

LEMMA NetArrived ==
  ASSUME net \in Nets, NEW s \in Streams, NEW k \in Nat, NEW n, n = WithArrived(net, s, k)
  PROVE  n \in Nets /\ SameRest(n) /\ SameFates(n)
<1>1. net.arrived \in Tally /\ net.arrived[s] + k \in Nat BY NetTypes
<1>2. PICK x : x = [net.arrived EXCEPT ![s] = net.arrived[s] + k] OBVIOUS
<1>3. x \in Tally BY <1>1, <1>2, TallyStep
<1>4. n = [net EXCEPT !.arrived = x] BY <1>2 DEF Nets, WithArrived
<1> QED BY <1>3, <1>4 DEF Nets, SameRest, SameFates

LEMMA NetSend ==
  ASSUME net \in Nets, NEW s \in Streams, NEW n, n = WithSend(net, s)
  PROVE  n \in Nets /\ SameRest(n) /\ SameFates(n)
<1>1. net.sends \in Tally /\ net.sends[s] + 1 \in Nat BY NetTypes
<1>2. PICK x : x = [net.sends EXCEPT ![s] = net.sends[s] + 1] OBVIOUS
<1>3. x \in Tally BY <1>1, <1>2, TallyStep
<1>4. n = [net EXCEPT !.sends = x] BY <1>2 DEF Nets, WithSend
<1> QED BY <1>3, <1>4 DEF Nets, SameRest, SameFates

(* The cancellation of a stream, written or deferred.                      *)
LEMMA CancelStep ==
  ASSUME StreamsIInv, NEW s \in Streams, Cancel(s), decOpen' = decOpen
  PROVE  /\ decOut' \in Answers /\ deferred' \in Debts
         /\ \A t \in Streams : t # s => SameAnswers(t)
         /\ decOpen => /\ decOut'[s] = Append(decOut[s], "cancel") /\ deferred' = deferred
         /\ ~decOpen => /\ decOut' = decOut /\ deferred'.acks[s] = deferred.acks[s]
                        /\ deferred'.cancels[s] = deferred.cancels[s] + 1
<1>1. decOut \in Answers /\ deferred \in Debts BY DEF StreamsIInv, Types
<1>2. CASE decOpen
  <2>1. decOut' = [decOut EXCEPT ![s] = Append(@, "cancel")] /\ deferred' = deferred
    BY <1>2 DEF Cancel
  <2>2. decOut[s] \in Seq({"ack", "cancel"}) BY <1>1 DEF Answers
  <2>3. Append(decOut[s], "cancel") \in Seq({"ack", "cancel"}) BY <2>2, AppendProperties
  <2>4. /\ decOut' \in Answers /\ decOut'[s] = Append(decOut[s], "cancel")
        /\ \A t \in Streams : t # s => decOut'[t] = decOut[t]
    BY <2>1, <2>3, <1>1 DEF Answers
  <2>5. deferred' \in Debts /\ \A t \in Streams : t # s => SameAnswers(t)
    BY <2>1, <2>4, <1>1 DEF SameAnswers
  <2> QED BY <1>2, <2>1, <2>4, <2>5
<1>3. CASE ~decOpen
  <2>1. /\ deferred' = [deferred EXCEPT !.cancels[s] = @ + 1] /\ decOut' = decOut
    BY <1>3 DEF Cancel
  <2>2. deferred.cancels \in Tally /\ deferred.acks \in Tally /\ deferred.cancels[s] + 1 \in Nat
    BY <1>1 DEF Debts, Tally
  <2>3. PICK g : g = [deferred.cancels EXCEPT ![s] = deferred.cancels[s] + 1] OBVIOUS
  <2>4. g \in Tally /\ g[s] = deferred.cancels[s] + 1
        /\ \A t \in Streams : t # s => g[t] = deferred.cancels[t]
    BY <2>2, <2>3, TallyStep
  <2>5. deferred' = [deferred EXCEPT !.cancels = g] BY <2>1, <2>3, <1>1 DEF Debts
  <2>6. deferred' \in Debts /\ deferred'.cancels = g /\ deferred'.acks = deferred.acks
    BY <2>4, <2>5, <1>1 DEF Debts
  <2>7. decOut' \in Answers /\ \A t \in Streams : t # s => SameAnswers(t)
    BY <2>1, <2>4, <2>6, <1>1 DEF SameAnswers
  <2> QED BY <1>3, <2>1, <2>4, <2>6, <2>7
<1> QED BY <1>2, <1>3


(* What is left of the index when stream s is taken out of it.             *)
LEMMA Unparked ==
  ASSUME StreamsIInv, call = Idle, NEW s \in Streams
  PROVE  /\ IndexWithout(s) \subseteq Pairs
         /\ \A n \in Nat : <<n, s>> \notin IndexWithout(s)
         /\ \A n \in Nat, t \in Streams :
               t # s => (<<n, t>> \in IndexWithout(s) <=> <<n, t>> \in index)
<1>1. index \subseteq Pairs BY DEF StreamsIInv, Types, TypeOK, Pairs
<1>2. ParkedAt(s) BY DEF StreamsIInv, SoundAt
<1>3. \A n \in Nat : <<n, s>> \in index => str[s].ricnt = n BY <1>2 DEF ParkedAt
<1> QED BY <1>1, <1>3 DEF IndexWithout

LEMMA ResetStep ==
  ASSUME StreamsIInv, NEW s \in Streams, StreamReset(s)
  PROVE  StreamsIInv'
<1>1. /\ call = Idle /\ err = "none" /\ s \notin finned \cup net.reset
      /\ (Role = "Client" => s \in net.opened)
      /\ net' = WithReset(net, s) /\ index' = IndexWithout(s) /\ Cancel(s)
      /\ live' = live \ {s} /\ str' = [str EXCEPT ![s] = NewStream]
      /\ scope' = scope /\ inserts' = inserts /\ decOpen' = decOpen /\ goaway' = goaway
      /\ err' = err /\ call' = call /\ fed' = fed /\ finned' = finned /\ got' = got
      /\ ended' = ended /\ wire' = wire
  BY DEF StreamReset, Ready, WithReset
<1>2. /\ call.op = "idle" /\ call.rest = {} /\ call \in Calls /\ inserts \in Nat
      /\ net \in Nets /\ scope.body \in Nat
  BY <1>1, ReadyFacts
<1>3. /\ net' \in Nets /\ net'.reset = net.reset \cup {s} /\ net'.stopped = net.stopped
      /\ SameOpening(net') /\ SameFates(net')
  BY <1>1, <1>2, NetReset
<1>4. /\ index' \subseteq Pairs /\ \A n \in Nat : <<n, s>> \notin index'
      /\ \A n \in Nat, t \in Streams : t # s => (<<n, t>> \in index' <=> <<n, t>> \in index)
  BY <1>1, Unparked
<1>5. /\ decOut' \in Answers /\ deferred' \in Debts
      /\ \A t \in Streams : t # s => SameAnswers(t)
      /\ (decOpen => decOut'[s] = Append(decOut[s], "cancel") /\ deferred' = deferred)
      /\ (~decOpen => /\ decOut' = decOut /\ deferred'.acks[s] = deferred.acks[s]
                      /\ deferred'.cancels[s] = deferred.cancels[s] + 1)
  BY <1>1, CancelStep
<1>6. /\ NewStream \in Records(scope.frames, scope.body) /\ Coherent(NewStream)
      /\ ~NewStream.fin /\ ~NewStream.blocked
  BY <1>2, NewRecord
<1>7. /\ str' \in [Streams -> Records(scope.frames, scope.body)]' /\ str'[s] = NewStream
      /\ \A t \in Streams : t # s => str'[t] = str[t]
  BY <1>1, <1>6, PutStream
<1>8. Types'
  <2>1. live' \subseteq Streams /\ Types BY <1>1 DEF StreamsIInv, Types, TypeOK
  <2>2. ended' \subseteq Streams /\ got' \in [Streams -> Seq(scope.frames)]
    BY <1>1, <2>1 DEF Types
  <2> QED BY <2>1, <2>2, <1>1, <1>2, <1>3, <1>4, <1>5, <1>7, TypesStep
<1>9. CallSound' BY <1>1, <1>2 DEF CallSound, Running
<1>10. ASSUME NEW t \in Streams, t # s PROVE Same(t)
  <2>1. SameStream(t) BY <1>1, <1>7, <1>10 DEF SameStream
  <2>2. SameNet(t) BY <1>3, <1>10 DEF SameNet, SameOpening, SameFates
  <2>3. SameTrace(t) BY <1>1 DEF SameTrace
  <2>4. SamePairs(t) BY <1>1, <1>4, <1>10 DEF SamePairs
  <2> QED BY <2>1, <2>2, <2>3, <2>4, <1>5, <1>10 DEF Same
<1>11. Calm BY <1>1, <1>2, <1>3 DEF Calm, SameFates
<1>12. SoundAt(s)'
  <2>1. SoundAt(s) /\ s \notin net.reset BY <1>1, StreamFacts
  <2>2. Coherent(str'[s]) BY <1>6, <1>7
  <2>3. ParkedAt(s)' BY <1>1, <1>2, <1>4, <1>6, <1>7 DEF ParkedAt
  <2>4. LifeAt(s)'
    <3>1. Role' = Role BY <1>1 DEF Role
    <3> QED BY <2>1, <3>1, <1>1, <1>3, <1>6, <1>7 DEF SoundAt, LifeAt, SameOpening
  <2>5. DoneAt(s)' BY <1>1 DEF DoneAt
  <2>6. AnsweredAt(s)'
    <3>1. AnsweredAt(s) /\ Resets(s) = 0 /\ Resets(s)' = 1
      BY <2>1, <1>3 DEF SoundAt, Resets
    <3>2. net.decoded[s] \in Nat /\ deferred.cancels[s] \in Nat
      BY <1>2, NetTypes DEF StreamsIInv, Types, Debts, Tally
    <3>3. Append(Owed(net.decoded[s], 0), "cancel") = Owed(net.decoded[s], 1)
      BY <3>2, OwedAck
    <3>4. CASE decOpen
      <4>1. s \notin StopStreams /\ s \notin net.refused /\ s \notin net.failed =>
              decOut'[s] = Owed(net.decoded[s], Resets(s)')
        BY <3>1, <3>3, <3>4, <1>5 DEF AnsweredAt
      <4> QED BY <3>1, <3>4, <4>1, <1>1, <1>3, <1>5 DEF AnsweredAt, SameFates
    <3>5. CASE ~decOpen
      BY <3>1, <3>2, <3>5, <1>1, <1>3, <1>5 DEF AnsweredAt, SameFates
    <3> QED BY <3>4, <3>5
  <2>7. SendingAt(s)' BY <1>1, <1>7, OutFacts DEF SendingAt
  <2>8. DeliveredAt(s)' BY <1>1 DEF DeliveredAt
  <2> QED BY <2>2, <2>3, <2>4, <2>5, <2>6, <2>7, <2>8 DEF SoundAt
<1> QED BY <1>1, <1>8, <1>9, <1>10, <1>11, <1>12, OneStreamStep


LEMMA StopStep ==
  ASSUME StreamsIInv, NEW s \in Streams, StopSending(s)
  PROVE  StreamsIInv'
<1>1. /\ call = Idle /\ err = "none" /\ s \in StopStreams
      /\ (Role = "Client" => s \in net.opened)
      /\ net' = WithStopped(net, s) /\ index' = IndexWithout(s) /\ Cancel(s)
      /\ scope' = scope /\ inserts' = inserts /\ decOpen' = decOpen /\ goaway' = goaway
      /\ err' = err /\ call' = call /\ fed' = fed /\ finned' = finned /\ got' = got
      /\ ended' = ended /\ wire' = wire
      /\ (s \in live => Settle(s, Stopping(str[s])))
      /\ (s \notin live => live' = live /\ str' = str)
  BY DEF StopSending, Ready, WithStopped, Stopping
<1>2. /\ call.op = "idle" /\ call.rest = {} /\ call \in Calls /\ inserts \in Nat
      /\ net \in Nets /\ scope.body \in Nat
  BY <1>1, ReadyFacts
<1>3. /\ net' \in Nets /\ net'.stopped = net.stopped \cup {s} /\ net'.reset = net.reset
      /\ SameOpening(net') /\ SameFates(net')
  BY <1>1, <1>2, NetStopped
<1>4. /\ index' \subseteq Pairs /\ \A n \in Nat : <<n, s>> \notin index'
      /\ \A n \in Nat, t \in Streams : t # s => (<<n, t>> \in index' <=> <<n, t>> \in index)
  BY <1>1, Unparked
<1>5. /\ decOut' \in Answers /\ deferred' \in Debts
      /\ \A t \in Streams : t # s => SameAnswers(t)
      /\ (decOpen => deferred' = deferred)
      /\ (~decOpen => decOut' = decOut)
  BY <1>1, CancelStep
<1>6. /\ Types /\ SoundAt(s) /\ Coherent(str[s]) /\ str[s] \in Records(scope.frames, scope.body)
      /\ str \in [Streams -> Records(scope.frames, scope.body)] /\ live \subseteq Streams
  BY StreamFacts DEF StreamsIInv, Types, TypeOK
<1>7. PICK new : new = Stopping(str[s]) OBVIOUS
<1>8. /\ new \in Records(scope.frames, scope.body) /\ SameRead(new, str[s])
      /\ ~new.blocked /\ new.out = <<>> /\ ~new.outFin /\ Coherent(new) /\ ~CanSend(new)
  BY <1>2, <1>6, <1>7, StopRecord
<1>9. /\ NewStream \in Records(scope.frames, scope.body) /\ Coherent(NewStream)
      /\ ~NewStream.fin /\ ~NewStream.blocked
  BY <1>2, NewRecord
<1>10. /\ str' \in [Streams -> Records(scope.frames, scope.body)]' /\ live' \subseteq Streams
       /\ \A t \in Streams : t # s => SameStream(t)
       /\ \/ s \in live /\ s \in live' /\ str'[s] = new /\ ~Done(new)
          \/ s \in live /\ s \notin live' /\ str'[s] = NewStream /\ Done(new)
          \/ s \notin live /\ s \notin live' /\ str'[s] = NewStream
  <2>1. CASE s \in live BY <2>1, <1>1, <1>7, <1>8, SettleStream
  <2>2. CASE s \notin live
    <3>1. str[s] = NewStream BY <2>2, <1>6 DEF SoundAt, LifeAt
    <3>2. [Streams -> Records(scope.frames, scope.body)]' = [Streams -> Records(scope.frames, scope.body)]
      BY <1>1 DEF Records
    <3> QED BY <2>2, <3>1, <3>2, <1>1, <1>6 DEF SameStream
  <2> QED BY <2>1, <2>2
<1>11. Types'
  <2>1. ended' \subseteq Streams /\ got' \in [Streams -> Seq(scope.frames)]
    BY <1>1, <1>6 DEF Types
  <2> QED BY <2>1, <1>1, <1>2, <1>3, <1>4, <1>5, <1>6, <1>10, TypesStep
<1>12. CallSound' BY <1>1, <1>2 DEF CallSound, Running
<1>13. ASSUME NEW t \in Streams, t # s PROVE Same(t)
  <2>1. SameNet(t) BY <1>3, <1>13 DEF SameNet, SameOpening, SameFates
  <2>2. SameTrace(t) BY <1>1 DEF SameTrace
  <2>3. SamePairs(t) BY <1>1, <1>4, <1>13 DEF SamePairs
  <2> QED BY <2>1, <2>2, <2>3, <1>5, <1>10, <1>13 DEF Same
<1>14. Calm BY <1>1, <1>2, <1>3 DEF Calm, SameFates
<1>15. SoundAt(s)'
  <2>1. Coherent(str'[s]) /\ ~str'[s].blocked BY <1>8, <1>9, <1>10
  <2>2. ParkedAt(s)' BY <1>1, <1>2, <1>4, <2>1 DEF ParkedAt
  <2>3. LifeAt(s)'
    <3>1. Role' = Role BY <1>1 DEF Role
    <3>2. Done(new) => new.fin BY <1>8 DEF Done, Coherent
    <3>3. s \in live /\ Done(new) => s \in finned
      BY <3>2, <1>6, <1>8 DEF SoundAt, LifeAt, SameRead
    <3>4. str'[s].fin => s \in finned
      BY <1>6, <1>8, <1>9, <1>10 DEF SoundAt, LifeAt, SameRead
    <3> QED BY <3>1, <3>3, <3>4, <1>1, <1>3, <1>6, <1>10
            DEF SoundAt, LifeAt, SameOpening, SameFates, Untouched
  <2>4. DoneAt(s)' BY <1>10 DEF DoneAt
  <2>5. AnsweredAt(s)' BY <1>1, <1>3, <1>5, <1>6 DEF SoundAt, AnsweredAt, SameFates
  <2>6. SendingAt(s)'
    <3>1. InOrder(wire[s]) /\ wire[s] \in Seq(AnyPiece) /\ wire[s] \o NewStream.out = wire[s]
      BY OutFacts
    <3>2. wire[s] \o new.out = wire[s] BY <3>1, <1>8, ConcatEmptySeq
    <3>3. CASE str'[s] = new BY <3>1, <3>2, <3>3, <1>1, <1>8 DEF SendingAt
    <3>4. CASE s \notin live' /\ str'[s] = NewStream BY <3>1, <3>4, <1>1 DEF SendingAt
    <3> QED BY <3>3, <3>4, <1>10
  <2>7. DeliveredAt(s)'
    <3>1. s \in net'.stopped BY <1>3
    <3>2. s \in live /\ s \in ended => new.recv = "Complete"
      BY <1>6, <1>8 DEF SoundAt, DeliveredAt, SameRead
    <3> QED BY <3>1, <3>2, <1>1, <1>10 DEF DeliveredAt
  <2> QED BY <2>1, <2>2, <2>3, <2>4, <2>5, <2>6, <2>7 DEF SoundAt
<1> QED BY <1>1, <1>11, <1>12, <1>13, <1>14, <1>15, OneStreamStep


LEMMA AppendBehind ==
  ASSUME NEW T, NEW q \in Seq(T), NEW r \in Seq(T), NEW x \in T
  PROVE  q \o Append(r, x) = Append(q \o r, x)
<1> DEFINE a == q \o Append(r, x)
           b == Append(q \o r, x)
<1>1. /\ Append(r, x) \in Seq(T) /\ Len(Append(r, x)) = Len(r) + 1
      /\ Append(r, x)[Len(r) + 1] = x /\ \A i \in 1 .. Len(r) : Append(r, x)[i] = r[i]
  BY AppendProperties
<1>2. /\ q \o r \in Seq(T) /\ Len(q \o r) = Len(q) + Len(r)
      /\ \A i \in 1 .. Len(q) : (q \o r)[i] = q[i]
      /\ \A i \in Len(q) + 1 .. Len(q) + Len(r) : (q \o r)[i] = r[i - Len(q)]
      /\ Len(q) \in Nat /\ Len(r) \in Nat
  BY ConcatProperties
<1>3. /\ a \in Seq(T) /\ Len(a) = Len(q) + (Len(r) + 1)
      /\ \A i \in 1 .. Len(q) : a[i] = q[i]
      /\ \A i \in Len(q) + 1 .. Len(q) + (Len(r) + 1) : a[i] = Append(r, x)[i - Len(q)]
  <2>1. PICK w \in Seq(T) : w = Append(r, x) BY <1>1
  <2>2. Len(w) = Len(r) + 1 BY <1>1, <2>1
  <2>3. /\ q \o w \in Seq(T) /\ Len(q \o w) = Len(q) + Len(w)
        /\ \A i \in 1 .. Len(q) : (q \o w)[i] = q[i]
        /\ \A i \in Len(q) + 1 .. Len(q) + Len(w) : (q \o w)[i] = w[i - Len(q)]
    BY ConcatProperties
  <2> QED BY <2>1, <2>2, <2>3
<1>4. /\ b \in Seq(T) /\ Len(b) = Len(q) + Len(r) + 1 /\ b[Len(q) + Len(r) + 1] = x
      /\ \A i \in 1 .. Len(q) + Len(r) : b[i] = (q \o r)[i]
  BY <1>2, AppendProperties
<1> HIDE DEF a, b
<1>5. \A i \in 1 .. Len(a) : a[i] = b[i]
  <2> TAKE i \in 1 .. Len(a)
  <2>1. CASE i \in 1 .. Len(q)
    <3>1. i \in 1 .. Len(q) + Len(r) BY <2>1, <1>2
    <3>2. a[i] = q[i] BY <2>1, <1>3
    <3>3. b[i] = q[i] BY <2>1, <3>1, <1>2, <1>4
    <3> QED BY <3>2, <3>3
  <2>2. CASE i \in Len(q) + 1 .. Len(q) + Len(r)
    <3>1. i - Len(q) \in 1 .. Len(r) BY <2>2, <1>2
    <3>2. a[i] = r[i - Len(q)] BY <2>2, <3>1, <1>1, <1>2, <1>3
    <3>3. b[i] = r[i - Len(q)] BY <2>2, <1>2, <1>4
    <3> QED BY <3>2, <3>3
  <2>3. CASE i = Len(q) + Len(r) + 1
    <3>1. i - Len(q) = Len(r) + 1 BY <2>3, <1>2
    <3>2. a[i] = x BY <2>3, <3>1, <1>1, <1>2, <1>3
    <3>3. b[i] = x BY <2>3, <1>4
    <3> QED BY <3>2, <3>3
  <2>4. Len(a) = Len(q) + (Len(r) + 1) /\ Len(q) \in Nat /\ Len(r) \in Nat BY <1>2, <1>3
  <2>5. \/ i \in 1 .. Len(q) \/ i \in Len(q) + 1 .. Len(q) + Len(r)
        \/ i = Len(q) + Len(r) + 1
    BY <2>4
  <2> QED BY <2>1, <2>2, <2>3, <2>5
<1>6. Len(a) = Len(b) BY <1>2, <1>3, <1>4
<1>7. a = b BY <1>3, <1>4, <1>5, <1>6, SeqEqual
<1> QED BY <1>7 DEF a, b

-----------------------------------------------------------------------------
(* Sending.                                                                *)

(* What a stream that may still send has sent fits its state.              *)
LEMMA SendFacts ==
  ASSUME StreamsIInv, NEW s \in Streams, s \in live, CanSend(str[s])
  PROVE  /\ ~str[s].finSent /\ ~str[s].outFin
         /\ Within(wire[s] \o str[s].out, str[s].send)
         /\ Begun(wire[s] \o str[s].out, str[s].send)
         /\ str[s] \in Records(scope.frames, scope.body) /\ Coherent(str[s])
         /\ scope.body \in Nat
<1>1. SoundAt(s) /\ Coherent(str[s]) /\ str[s] \in Records(scope.frames, scope.body)
  BY StreamFacts
<1>2. scope.body \in Nat BY ScopeFacts DEF StreamsIInv
<1>3. str[s].outFin \in BOOLEAN /\ str[s].finSent \in BOOLEAN BY <1>1, <1>2, RecordTypes
<1>4. ~str[s].outFin /\ ~str[s].finSent BY <1>1, <1>3 DEF Coherent, CanSend
<1> QED BY <1>1, <1>2, <1>4 DEF SoundAt, SendingAt

(* A piece is queued, or FIN, on a stream that is there.                   *)
LEMMA PutSendStep ==
  ASSUME StreamsIInv, call = Idle, err = "none", NEW s \in Streams, s \in live,
         NEW new \in Records(scope.frames, scope.body), SameRead(new, str[s]),
         SamePark(new, str[s]), Coherent(new), ~Done(new),
         str' = [str EXCEPT ![s] = new], net' = WithSend(net, s),
         scope' = scope, live' = live, index' = index, inserts' = inserts,
         decOpen' = decOpen, deferred' = deferred, goaway' = goaway, err' = err, call' = call,
         decOut' = decOut, fed' = fed, finned' = finned, got' = got, ended' = ended,
         wire' = wire, InOrder(wire[s] \o new.out),
         ~new.finSent => Within(wire[s] \o new.out, new.send), Begun(wire[s] \o new.out, new.send)
  PROVE  StreamsIInv'
<1>1. /\ call.op = "idle" /\ call.rest = {} /\ call \in Calls /\ inserts \in Nat
      /\ net \in Nets /\ scope.body \in Nat
  BY ReadyFacts
<1>2. net' \in Nets /\ SameRest(net') /\ SameFates(net') BY <1>1, NetSend
<1>3. /\ str' \in [Streams -> Records(scope.frames, scope.body)]' /\ str'[s] = new
      /\ \A t \in Streams : t # s => str'[t] = str[t]
  BY PutStream
<1>4. Types'
  <2>1. Types /\ live' \subseteq Streams /\ index' \subseteq Pairs
    BY DEF StreamsIInv, Types, TypeOK, Pairs
  <2>2. /\ decOut' \in Answers /\ deferred' \in Debts /\ ended' \subseteq Streams
        /\ got' \in [Streams -> Seq(scope.frames)]
    BY <2>1 DEF Types
  <2> QED BY <2>1, <2>2, <1>1, <1>2, <1>3, TypesStep
<1>5. CallSound' BY <1>1 DEF CallSound, Running
<1>6. ASSUME NEW t \in Streams PROVE /\ SameNet(t) /\ SameTrace(t) /\ SameAnswers(t) /\ SamePairs(t)
                                     /\ (t # s => SameStream(t))
  BY <1>2, <1>3 DEF SameNet, SameRest, SameFates, SameTrace, SameAnswers, SamePairs, SameStream
<1>7. Calm BY <1>1, <1>2 DEF Calm, SameFates
<1>8. SoundAt(s)'
  <2>1. SoundAt(s) BY StreamFacts
  <2>2. ParkedAt(s)' BY <2>1, <1>2, <1>3 DEF SoundAt, ParkedAt, SamePark, SameFates
  <2>3. LifeAt(s)'
    <3>1. Role' = Role BY DEF Role
    <3> QED BY <2>1, <3>1, <1>2, <1>3
            DEF SoundAt, LifeAt, SameRest, SameFates, Untouched, SameRead
  <2>4. DoneAt(s)' BY <1>3 DEF DoneAt
  <2>5. AnsweredAt(s)' BY <2>1, <1>6, AnsweredFrame DEF SoundAt
  <2>6. SendingAt(s)' BY <1>3 DEF SendingAt
  <2>7. DeliveredAt(s)'
    <3>1. Faithful(str[s], fed[s], got[s]) => Faithful(new, fed[s], got[s])
      BY DEF Faithful, SamePark, SameRead
    <3> QED BY <2>1, <3>1, <1>2, <1>3 DEF SoundAt, DeliveredAt, SameRest, SameFates, SameRead
  <2> QED BY <2>2, <2>3, <2>4, <2>5, <2>6, <2>7, <1>3 DEF SoundAt
<1> QED BY <1>4, <1>5, <1>6, <1>7, <1>8, OneStreamStep DEF Same



LEMMA QueueStep ==
  ASSUME StreamsIInv, call = Idle, err = "none", NEW s \in Streams, s \in live, CanSend(str[s]),
         NEW kind \in Pieces,
         NEW next \in {"InterimResponseSent", "HeadersSent", "SendingBody", "TrailersSent"},
         NEW fin \in BOOLEAN, MayQueue(kind, str[s].send, next), fin => kind # "interim",
         NEW new, new = Queue(str[s], kind, next, fin), str' = [str EXCEPT ![s] = new],
         net' = WithSend(net, s),
         scope' = scope, live' = live, index' = index, inserts' = inserts,
         decOpen' = decOpen, deferred' = deferred, goaway' = goaway, err' = err, call' = call,
         decOut' = decOut, fed' = fed, finned' = finned, got' = got, ended' = ended,
         wire' = wire
  PROVE  StreamsIInv'
<1>1. /\ ~str[s].finSent /\ ~str[s].outFin
      /\ Within(wire[s] \o str[s].out, str[s].send)
      /\ Begun(wire[s] \o str[s].out, str[s].send)
      /\ str[s] \in Records(scope.frames, scope.body) /\ Coherent(str[s])
      /\ scope.body \in Nat
  BY SendFacts
<1>2. /\ new \in Records(scope.frames, scope.body) /\ SameRead(new, str[s])
      /\ SamePark(new, str[s]) /\ new.out = Append(str[s].out, kind)
      /\ new.send = IF fin THEN "Complete" ELSE next
      /\ Coherent(new) /\ ~Done(new)
  <2>1. PICK st \in Records(scope.frames, scope.body) : st = str[s] BY <1>1
  <2>2. new = Queue(st, kind, next, fin) BY <2>1, Zenon
  <2>3. Coherent(st) /\ CanSend(st) BY <2>1, <1>1
  <2>4. PICK F, b : F = scope.frames /\ b = scope.body OBVIOUS
  <2>5. b \in Nat /\ st \in Records(F, b) BY <2>4, <1>1
  <2>6. /\ new \in Records(F, b) /\ SameRead(new, st) /\ SamePark(new, st)
        /\ new.out = Append(st.out, kind) /\ new.send = IF fin THEN "Complete" ELSE next
        /\ Coherent(st) /\ CanSend(st) => Coherent(new) /\ ~Done(new)
    BY <2>2, <2>5, QueueRecord
  <2> QED BY <2>1, <2>3, <2>4, <2>6
<1>3. InOrder(wire[s] \o str[s].out) /\ wire[s] \in Seq(AnyPiece) /\ str[s].out \in Seq(AnyPiece)
  BY OutFacts
<1>4. PICK q \in Seq(AnyPiece) : q = wire[s] \o str[s].out BY <1>3, ConcatProperties
<1>5. kind \in AnyPiece BY Zenon DEF AnyPiece
<1>6. wire[s] \o new.out = Append(q, kind)
  <2>1. PICK w \in Seq(AnyPiece), r \in Seq(AnyPiece) : w = wire[s] /\ r = str[s].out BY <1>3
  <2>2. w \o Append(r, kind) = Append(w \o r, kind) BY <1>5, AppendBehind
  <2> QED BY <2>1, <2>2, <1>2, <1>4
<1>7. MayQueue(kind, str[s].send, new.send)
  <2>1. CASE fin
    <3>1. new.send = "Complete" /\ kind # "interim" BY <2>1, <1>2
    <3> QED BY <3>1 DEF MayQueue
  <2>2. CASE ~fin BY <2>2, <1>2
  <2> QED BY <2>1, <2>2
<1>8. InOrder(q) /\ Within(q, str[s].send) /\ Begun(q, str[s].send) BY <1>1, <1>3, <1>4
<1>9. PICK r : r = Append(q, kind) OBVIOUS
<1>10. InOrder(r) /\ Within(r, new.send) /\ Begun(r, new.send) BY <1>7, <1>8, <1>9, OrderQueue
<1>11. r = wire[s] \o new.out BY <1>6, <1>9
<1> QED BY <1>2, <1>10, <1>11, PutSendStep

LEMMA ResponseStep ==
  ASSUME StreamsIInv, NEW s \in Streams, NEW interim \in BOOLEAN, NEW fin \in BOOLEAN,
         SendResponse(s, interim, fin)
  PROVE  StreamsIInv'
<1> DEFINE st == str[s]
           first == st.send \in {"Initial", "InterimResponseSent"}
<1>1. /\ call = Idle /\ err = "none" /\ s \in live /\ CanSend(st)
      /\ first \/ (st.send \in {"HeadersSent", "SendingBody"} /\ ~interim)
      /\ ~(interim /\ fin)
      /\ net' = WithSend(net, s)
      /\ str' = [str EXCEPT ![s] =
                   IF ~first THEN Queue(st, "status trailers", "TrailersSent", fin)
                   ELSE IF interim THEN Queue(st, "interim", "InterimResponseSent", fin)
                   ELSE Queue(st, "final", "HeadersSent", fin)]
      /\ scope' = scope /\ live' = live /\ index' = index /\ inserts' = inserts
      /\ decOpen' = decOpen /\ deferred' = deferred /\ goaway' = goaway /\ err' = err
      /\ call' = call /\ decOut' = decOut /\ fed' = fed /\ finned' = finned
      /\ got' = got /\ ended' = ended /\ wire' = wire
  BY Zenon DEF SendResponse, Ready, WithSend
<1>2. CASE ~first
  <2>1. PICK new : new = Queue(st, "status trailers", "TrailersSent", fin) OBVIOUS
  <2>2. str' = [str EXCEPT ![s] = new] BY <1>1, <1>2, <2>1, Zenon
  <2>3. MayQueue("status trailers", str[s].send, "TrailersSent") BY <1>1, <1>2 DEF MayQueue
  <2>4. "status trailers" \in Pieces BY DEF Pieces
  <2> HIDE DEF first
  <2> QED BY <2>1, <2>2, <2>3, <2>4, <1>1, QueueStep
<1>3. CASE first /\ interim
  <2>1. PICK new : new = Queue(st, "interim", "InterimResponseSent", fin) OBVIOUS
  <2>2. str' = [str EXCEPT ![s] = new] BY <1>1, <1>3, <2>1, Zenon
  <2>3. MayQueue("interim", str[s].send, "InterimResponseSent") BY <1>3 DEF MayQueue
  <2>4. "interim" \in Pieces BY DEF Pieces
  <2> HIDE DEF first
  <2> QED BY <2>1, <2>2, <2>3, <2>4, <1>1, <1>3, QueueStep
<1>4. CASE first /\ ~interim
  <2>1. PICK new : new = Queue(st, "final", "HeadersSent", fin) OBVIOUS
  <2>2. str' = [str EXCEPT ![s] = new] BY <1>1, <1>4, <2>1, Zenon
  <2>3. MayQueue("final", str[s].send, "HeadersSent") BY <1>4 DEF MayQueue
  <2>4. "final" \in Pieces BY DEF Pieces
  <2> HIDE DEF first
  <2> QED BY <2>1, <2>2, <2>3, <2>4, <1>1, QueueStep
<1> QED BY <1>2, <1>3, <1>4

LEMMA BodyStep ==
  ASSUME StreamsIInv, NEW s \in Streams, NEW empty \in BOOLEAN, NEW fin \in BOOLEAN,
         SendBody(s, empty, fin)
  PROVE  StreamsIInv'
<1> DEFINE st == str[s]
<1>1. /\ call = Idle /\ err = "none" /\ s \in live /\ CanSend(st)
      /\ st.send \in {"HeadersSent", "SendingBody"}
      /\ net' = WithSend(net, s)
      /\ str' = [str EXCEPT ![s] =
                   IF empty THEN Finishing(st) ELSE Queue(st, "data", "SendingBody", fin)]
      /\ scope' = scope /\ live' = live /\ index' = index /\ inserts' = inserts
      /\ decOpen' = decOpen /\ deferred' = deferred /\ goaway' = goaway /\ err' = err
      /\ call' = call /\ decOut' = decOut /\ fed' = fed /\ finned' = finned
      /\ got' = got /\ ended' = ended /\ wire' = wire
  BY Zenon DEF SendBody, Ready, WithSend, Finishing
<1>2. CASE ~empty
  <2>1. PICK new : new = Queue(st, "data", "SendingBody", fin) OBVIOUS
  <2>2. str' = [str EXCEPT ![s] = new] BY <1>1, <1>2, <2>1, Zenon
  <2>3. MayQueue("data", str[s].send, "SendingBody") BY <1>1 DEF MayQueue
  <2>4. "data" \in Pieces BY DEF Pieces
  <2> QED BY <2>1, <2>2, <2>3, <2>4, <1>1, QueueStep
<1>3. CASE empty
  <2>1. PICK new : new = Finishing(st) OBVIOUS
  <2>2. str' = [str EXCEPT ![s] = new] BY <1>1, <1>3, <2>1, Zenon
  <2>3. /\ ~str[s].finSent /\ ~str[s].outFin
        /\ Within(wire[s] \o str[s].out, str[s].send)
        /\ Begun(wire[s] \o str[s].out, str[s].send)
        /\ str[s] \in Records(scope.frames, scope.body) /\ Coherent(str[s])
        /\ scope.body \in Nat
    BY <1>1, SendFacts
  <2>4. /\ new \in Records(scope.frames, scope.body) /\ SameRead(new, str[s])
        /\ SamePark(new, str[s]) /\ new.out = str[s].out /\ new.send = "Complete"
        /\ Coherent(new) /\ ~Done(new)
    BY <1>1, <2>1, <2>3, LastRecord
  <2>5. InOrder(wire[s] \o str[s].out) BY <1>1, OutFacts
  <2>6. Allowed(st.send) \subseteq Allowed("Complete") BY <1>1 DEF Allowed, Pieces
  <2>7. PICK q : q = wire[s] \o str[s].out OBVIOUS
  <2>8. Within(q, "Complete") BY <2>3, <2>6, <2>7 DEF Within
  <2>9. Begun(q, "Complete") BY <1>1, <2>3, <2>7 DEF Begun
  <2>10. InOrder(wire[s] \o new.out) /\ Within(wire[s] \o new.out, new.send)
         /\ Begun(wire[s] \o new.out, new.send)
    BY <2>4, <2>5, <2>7, <2>8, <2>9
  <2> QED BY <1>1, <2>2, <2>4, <2>10, PutSendStep
<1> QED BY <1>2, <1>3


(* A request opens a stream that has not been used.                        *)
LEMMA OpenStep ==
  ASSUME StreamsIInv, call = Idle, err = "none", Role = "Client",
         NEW s \in Streams, s \notin net.used,
         NEW st \in Records(scope.frames, scope.body), SameRead(st, NewStream),
         SamePark(st, NewStream), SameSend(st, NewStream), st.state = "Open", Coherent(st),
         NEW kind \in Pieces, kind = "final",
         NEW next \in {"InterimResponseSent", "HeadersSent", "SendingBody", "TrailersSent"},
         next = "HeadersSent",
         NEW fin \in BOOLEAN, NEW new, new = Queue(st, kind, next, fin),
         net' = WithOpened(net, s), live' = live \cup {s}, str' = [str EXCEPT ![s] = new],
         scope' = scope, index' = index, inserts' = inserts,
         decOpen' = decOpen, deferred' = deferred, goaway' = goaway, err' = err, call' = call,
         decOut' = decOut, fed' = fed, finned' = finned, got' = got, ended' = ended,
         wire' = wire
  PROVE  StreamsIInv'
<1>1. /\ call.op = "idle" /\ call.rest = {} /\ call \in Calls /\ inserts \in Nat
      /\ net \in Nets /\ scope.body \in Nat
  BY ReadyFacts
<1>2. /\ Types /\ live \subseteq Streams /\ index \subseteq Pairs
      /\ str \in [Streams -> Records(scope.frames, scope.body)]
  BY DEF StreamsIInv, Types, TypeOK, Pairs
<1>3. SoundAt(s) /\ str[s] \in Records(scope.frames, scope.body) /\ Role' = Role
  BY StreamFacts DEF Role
<1>4. s \notin net.opened /\ s \notin net.reset /\ s \notin live /\ Untouched(s)
  BY <1>3 DEF SoundAt, LifeAt
<1>5. /\ net' \in Nets /\ net'.used = net.used \cup {s} /\ net'.opened = net.opened \cup {s}
      /\ net'.reset = net.reset /\ net'.stopped = net.stopped /\ SameFates(net')
  BY <1>1, NetOpened
<1>6. /\ st \in Records(scope.frames, scope.body) /\ SameRead(st, NewStream)
      /\ SamePark(st, NewStream) /\ SameSend(st, NewStream) /\ st.state = "Open"
      /\ Coherent(st)
  OBVIOUS
<1>7. /\ NewStream.buf = <<>> /\ NewStream.held = <<>> /\ NewStream.out = <<>>
      /\ ~NewStream.fin /\ ~NewStream.blocked /\ ~NewStream.outFin /\ ~NewStream.finSent
      /\ NewStream.recv = "WaitingHeaders" /\ NewStream.send = "Initial"
  BY <1>1, NewRecord
<1>8. CanSend(st) BY <1>6 DEF CanSend
<1>9. /\ new \in Records(scope.frames, scope.body) /\ SameRead(new, st) /\ SamePark(new, st)
      /\ new.out = Append(st.out, "final")
      /\ new.send = IF fin THEN "Complete" ELSE "HeadersSent"
      /\ Coherent(new) /\ ~Done(new)
  <2>1. PICK F, b : F = scope.frames /\ b = scope.body OBVIOUS
  <2>2. b \in Nat /\ st \in Records(F, b) BY <2>1, <1>1, <1>6
  <2>3. /\ new \in Records(F, b) /\ SameRead(new, st) /\ SamePark(new, st)
        /\ new.out = Append(st.out, kind) /\ new.send = IF fin THEN "Complete" ELSE next
        /\ Coherent(st) /\ CanSend(st) => Coherent(new) /\ ~Done(new)
    BY <2>2, QueueRecord
  <2> QED BY <2>1, <2>3, <1>6, <1>8
<1>10. /\ new.buf = <<>> /\ new.held = <<>> /\ ~new.fin /\ ~new.blocked
      /\ new.recv = "WaitingHeaders"
  BY <1>6, <1>7, <1>9 DEF SameRead, SamePark
<1>11. /\ str' \in [Streams -> Records(scope.frames, scope.body)]' /\ str'[s] = new
       /\ \A t \in Streams : t # s => str'[t] = str[t]
  BY <1>9, PutStream
<1>12. Types'
  <2>1. live' \subseteq Streams /\ index' \subseteq Pairs BY <1>2
  <2>2. /\ decOut' \in Answers /\ deferred' \in Debts /\ ended' \subseteq Streams
        /\ got' \in [Streams -> Seq(scope.frames)]
    BY <1>2 DEF Types
  <2> QED BY <2>1, <2>2, <1>1, <1>2, <1>5, <1>11, TypesStep
<1>13. CallSound' BY <1>1 DEF CallSound, Running
<1>14. ASSUME NEW t \in Streams, t # s PROVE Same(t)
  <2>1. SameStream(t) BY <1>11, <1>14 DEF SameStream
  <2>2. SameNet(t) BY <1>5, <1>14 DEF SameNet, SameFates
  <2>3. SameTrace(t) /\ SameAnswers(t) /\ SamePairs(t)
    BY DEF SameTrace, SameAnswers, SamePairs
  <2> QED BY <2>1, <2>2, <2>3 DEF Same
<1>15. Calm BY <1>1, <1>5 DEF Calm, SameFates
<1>16. SoundAt(s)'
  <2>1. ParkedAt(s)' BY <1>3, <1>4, <1>10, <1>11 DEF SoundAt, ParkedAt
  <2>2. LifeAt(s)' BY <1>3, <1>4, <1>5, <1>10, <1>11 DEF LifeAt
  <2>3. DoneAt(s)' BY <1>9, <1>11 DEF DoneAt
  <2>4. AnsweredAt(s)'
    <3>1. Resets(s)' = Resets(s) BY <1>5 DEF Resets
    <3> QED BY <3>1, <1>3, <1>5 DEF SoundAt, AnsweredAt, SameFates
  <2>5. SendingAt(s)'
    <3>1. wire[s] = <<>> /\ st.out = <<>> BY <1>4, <1>6, <1>7 DEF Untouched, SameSend
    <3>2. PICK q \in Seq(AnyPiece) : q = <<>> BY EmptySeq
    <3>4. PICK r : r = Append(q, kind) OBVIOUS
    <3>5. InOrder(q) /\ Within(q, "Initial") /\ Begun(q, "Initial")
      BY <3>2, OrderEmpty DEF Within, Begun
    <3>6. MayQueue(kind, "Initial", new.send)
      <4>1. new.send \in {"HeadersSent", "Complete"} BY <1>9
      <4> QED BY <4>1 DEF MayQueue
    <3>7. InOrder(r) /\ Within(r, new.send) /\ Begun(r, new.send)
      BY <3>4, <3>5, <3>6, OrderQueue
    <3>8. kind \in AnyPiece BY Zenon DEF AnyPiece
    <3>9. r \in Seq(AnyPiece) BY <3>4, <3>8, AppendProperties
    <3>10. q \o r = r BY <3>2, <3>9, ConcatEmptySeq
    <3>11. wire'[s] \o str'[s].out = r BY <3>1, <3>2, <3>4, <3>10, <1>9, <1>11
    <3> QED BY <3>7, <3>11, <1>11 DEF SendingAt
  <2>6. DeliveredAt(s)'
    <3>1. fed'[s] = <<>> /\ got'[s] = <<>> /\ s \notin ended' BY <1>4 DEF Untouched
    <3>2. Faithful(new, <<>>, <<>>)
      <4>1. PICK none \in Seq(scope.frames) : none = <<>> BY EmptySeq
      <4>2. Shows(none, none, Len(none)) BY <4>1, ShowsEmpty
      <4> QED BY <4>1, <4>2, <1>10 DEF Faithful
    <3> QED BY <3>1, <3>2, <1>11 DEF DeliveredAt
  <2> QED BY <2>1, <2>2, <2>3, <2>4, <2>5, <2>6, <1>9, <1>11 DEF SoundAt
<1> QED BY <1>12, <1>13, <1>14, <1>15, <1>16, OneStreamStep

(* A request is sent on a stream that has not been used.                   *)
LEMMA RequestStep ==
  ASSUME StreamsIInv, NEW s \in Streams, NEW connect \in BOOLEAN, NEW fin \in BOOLEAN,
         SendRequest(s, connect, fin)
  PROVE  StreamsIInv'
<1> DEFINE first == [NewStream EXCEPT !.connectReq = connect]
<1>1. /\ call = Idle /\ err = "none" /\ Role = "Client" /\ s \notin net.used
      /\ \/ net' = WithUsed(net, s) /\ live' = live /\ str' = str
         \/ /\ net' = WithOpened(net, s) /\ live' = live \cup {s}
            /\ str' = [str EXCEPT ![s] = Queue(first, "final", "HeadersSent", fin)]
      /\ scope' = scope /\ index' = index /\ inserts' = inserts
      /\ decOpen' = decOpen /\ deferred' = deferred /\ goaway' = goaway /\ err' = err
      /\ call' = call /\ decOut' = decOut /\ fed' = fed /\ finned' = finned
      /\ got' = got /\ ended' = ended /\ wire' = wire
  BY Zenon DEF SendRequest, Ready, WithUsed, WithOpened
<1>2. /\ call.op = "idle" /\ call.rest = {} /\ call \in Calls /\ inserts \in Nat
      /\ net \in Nets /\ scope.body \in Nat
  BY <1>1, ReadyFacts
<1>3. /\ Types /\ live \subseteq Streams /\ index \subseteq Pairs
      /\ str \in [Streams -> Records(scope.frames, scope.body)]
  BY DEF StreamsIInv, Types, TypeOK, Pairs
<1>4. SoundAt(s) /\ str[s] \in Records(scope.frames, scope.body) /\ Role' = Role
  BY <1>1, StreamFacts DEF Role
<1>5. s \notin net.opened /\ s \notin net.reset /\ s \notin live /\ Untouched(s)
  BY <1>1, <1>4 DEF SoundAt, LifeAt
<1>6. CASE net' = WithUsed(net, s) /\ live' = live /\ str' = str
  <2>1. /\ net' \in Nets /\ net'.used = net.used \cup {s} /\ net'.opened = net.opened
        /\ net'.reset = net.reset /\ net'.stopped = net.stopped /\ SameFates(net')
    BY <1>2, <1>6, NetUsed
  <2>2. Types'
    BY <1>1, <1>6, <2>1 DEF StreamsIInv, Types, TypeOK
  <2>3. CallSound' BY <1>1, <1>2 DEF CallSound, Running
  <2>4. ASSUME NEW t \in Streams
        PROVE  /\ SameStream(t) /\ SameTrace(t) /\ SameAnswers(t) /\ SamePairs(t)
               /\ (t # s => SameNet(t))
    BY <1>1, <1>6, <2>1
       DEF SameStream, SameTrace, SameAnswers, SamePairs, SameNet, SameFates
  <2>5. Calm BY <1>1, <1>2, <2>1 DEF Calm, SameFates
  <2>6. SoundAt(s)'
    <3>1. Coherent(str[s])' BY <1>4, <1>6 DEF SoundAt
    <3>2. ParkedAt(s)' BY <1>1, <1>4, <1>6, <2>1 DEF SoundAt, ParkedAt, SameFates
    <3>3. LifeAt(s)'
      <4>1. Untouched(s)' BY <1>1, <1>5 DEF Untouched
      <4> QED BY <4>1, <1>1, <1>4, <1>5, <1>6, <2>1 DEF SoundAt, LifeAt
    <3>4. DoneAt(s)' BY <1>5, <1>6 DEF DoneAt
    <3>5. AnsweredAt(s)'
      <4>1. Resets(s)' = Resets(s) BY <2>1 DEF Resets
      <4> QED BY <4>1, <1>1, <1>4, <2>1 DEF SoundAt, AnsweredAt, SameFates
    <3>6. SendingAt(s)' BY <1>1, <1>4, <1>6 DEF SoundAt, SendingAt
    <3>7. DeliveredAt(s)' BY <1>5, <1>6 DEF DeliveredAt
    <3> QED BY <3>1, <3>2, <3>3, <3>4, <3>5, <3>6, <3>7 DEF SoundAt
  <2> QED BY <1>1, <2>2, <2>3, <2>4, <2>5, <2>6, OneStreamStep DEF Same
<1>7. CASE /\ net' = WithOpened(net, s) /\ live' = live \cup {s}
           /\ str' = [str EXCEPT ![s] = Queue(first, "final", "HeadersSent", fin)]
  <2>1. PICK st : st = first OBVIOUS
  <2>a. /\ st \in Records(scope.frames, scope.body) /\ SameRead(st, NewStream)
        /\ SamePark(st, NewStream) /\ SameSend(st, NewStream) /\ st.state = "Open"
        /\ Coherent(st)
    BY <1>2, <2>1, RequestRecord
  <2>2. PICK kind \in Pieces : kind = "final" BY DEF Pieces
  <2>3. PICK next \in {"InterimResponseSent", "HeadersSent", "SendingBody", "TrailersSent"} :
          next = "HeadersSent"
    OBVIOUS
  <2>4. PICK new : new = Queue(st, kind, next, fin) OBVIOUS
  <2>5. str' = [str EXCEPT ![s] = new] BY <1>7, <2>1, <2>2, <2>3, <2>4, Zenon
  <2>6. net' = WithOpened(net, s) /\ live' = live \cup {s} BY <1>7
  <2> HIDE DEF first
  <2> QED BY <1>1, <2>2, <2>3, <2>4, <2>5, <2>6, <2>a, OpenStep
<1> QED BY <1>1, <1>6, <1>7


(* What is queued on a stream, or its FIN, has been taken to be sent.      *)
LEMMA TakenStep ==
  ASSUME StreamsIInv, call = Idle, NEW s \in Streams, s \in live,
         NEW new \in Records(scope.frames, scope.body), SameRead(new, str[s]),
         SamePark(new, str[s]), Coherent(new), new.out = <<>>, Settle(s, new),
         NEW w \in Seq(AnyPiece), wire' = [wire EXCEPT ![s] = w], InOrder(w),
         CanSend(new) \/ new.outFin =>
            (~new.finSent => Within(w, new.send)) /\ Begun(w, new.send),
         scope' = scope, index' = index, inserts' = inserts, decOpen' = decOpen,
         deferred' = deferred, goaway' = goaway, err' = err, call' = call, decOut' = decOut,
         net' = net, fed' = fed, finned' = finned, got' = got, ended' = ended
  PROVE  StreamsIInv'
<1>1. /\ call.op = "idle" /\ call.rest = {} /\ call \in Calls /\ inserts \in Nat
      /\ net \in Nets /\ scope.body \in Nat
  BY ReadyFacts
<1>2. /\ str' \in [Streams -> Records(scope.frames, scope.body)]' /\ live' \subseteq Streams
      /\ \A t \in Streams : t # s => SameStream(t)
      /\ \/ s \in live' /\ str'[s] = new /\ ~Done(new)
         \/ s \notin live' /\ str'[s] = NewStream /\ Done(new)
  BY SettleStream
<1>3. /\ NewStream \in Records(scope.frames, scope.body) /\ Coherent(NewStream)
      /\ ~NewStream.fin /\ ~NewStream.blocked /\ NewStream.out = <<>>
  BY <1>1, NewRecord
<1>4. Types /\ SoundAt(s) /\ wire \in [Streams -> Seq(AnyPiece)]
  BY StreamFacts DEF StreamsIInv, Types, AnyPiece
<1>5. /\ wire'[s] = w /\ \A t \in Streams : t # s => wire'[t] = wire[t]
      /\ wire' \in [Streams -> Seq(AnyPiece)]
  BY <1>4
<1>6. Types'
  <2>1. str' \in [Streams -> Records(scope'.frames, scope'.body)] BY <1>2
  <2>2. TypeOK' BY <1>2, <1>4, <2>1 DEF Types, TypeOK
  <2> QED BY <1>4, <1>5, <2>2 DEF Types, AnyPiece
<1>7. CallSound' BY <1>1 DEF CallSound, Running
<1>8. ASSUME NEW t \in Streams
      PROVE  /\ SameNet(t) /\ SameAnswers(t) /\ SamePairs(t)
             /\ (t # s => SameStream(t) /\ SameTrace(t))
  BY <1>2, <1>5 DEF SameNet, SameAnswers, SamePairs, SameTrace
<1>9. Calm BY <1>1 DEF Calm
<1>10. Done(new) => new.fin /\ ~new.blocked BY DEF Done, Coherent
<1>11. SoundAt(s)'
  <2>1. Coherent(str[s])' BY <1>2, <1>3
  <2>2. ParkedAt(s)'
    <3>1. CASE s \in live' /\ str'[s] = new
      BY <3>1, <1>4 DEF SoundAt, ParkedAt, SamePark
    <3>2. CASE s \notin live' /\ str'[s] = NewStream /\ Done(new)
      BY <3>2, <1>3, <1>4, <1>10 DEF SoundAt, ParkedAt, SamePark
    <3> QED BY <3>1, <3>2, <1>2
  <2>3. LifeAt(s)'
    <3>1. Role' = Role BY DEF Role
    <3>2. new.fin => s \in finned BY <1>4 DEF SoundAt, LifeAt, SameRead
    <3> QED BY <3>1, <3>2, <1>2, <1>3, <1>4, <1>10 DEF SoundAt, LifeAt
  <2>4. DoneAt(s)' BY <1>2 DEF DoneAt
  <2>5. AnsweredAt(s)' BY <1>4, <1>8, AnsweredFrame DEF SoundAt
  <2>6. SendingAt(s)'
    <3>1. str'[s].out = <<>> BY <1>2, <1>3
    <3>2. wire'[s] \o str'[s].out = w BY <3>1, <1>5, ConcatEmptySeq
    <3> QED BY <3>2, <1>2 DEF SendingAt
  <2>7. DeliveredAt(s)'
    <3>1. Faithful(str[s], fed[s], got[s]) => Faithful(new, fed[s], got[s])
      BY DEF Faithful, SamePark, SameRead
    <3> QED BY <3>1, <1>2, <1>4 DEF SoundAt, DeliveredAt, SameRead
  <2> QED BY <2>1, <2>2, <2>3, <2>4, <2>5, <2>6, <2>7 DEF SoundAt
<1> QED BY <1>6, <1>7, <1>8, <1>9, <1>11, OneStreamStep DEF Same

LEMMA TakeStep ==
  ASSUME StreamsIInv, NEW s \in Streams, TakeStreamData(s)
  PROVE  StreamsIInv'
<1> DEFINE st == str[s]
<1>1. /\ call = Idle /\ s \in live
      /\ \/ /\ HasFinPending(st) /\ Settle(s, [st EXCEPT !.finSent = TRUE])
            /\ wire' = [wire EXCEPT ![s] = Append(wire[s], "fin")]
         \/ /\ Settle(s, [st EXCEPT !.out = <<>>])
            /\ wire' = [wire EXCEPT ![s] = wire[s] \o st.out]
      /\ scope' = scope /\ index' = index /\ inserts' = inserts /\ decOpen' = decOpen
      /\ deferred' = deferred /\ goaway' = goaway /\ err' = err /\ call' = call
      /\ decOut' = decOut /\ net' = net /\ fed' = fed /\ finned' = finned
      /\ got' = got /\ ended' = ended
  BY DEF TakeStreamData
<1>2. SoundAt(s) /\ st \in Records(scope.frames, scope.body) /\ Coherent(st) /\ scope.body \in Nat
  BY <1>1, StreamFacts, ReadyFacts
<1>3. /\ wire[s] \in Seq(AnyPiece) /\ st.out \in Seq(AnyPiece)
      /\ wire[s] \o st.out \in Seq(AnyPiece) /\ InOrder(wire[s] \o st.out) /\ InOrder(wire[s])
  BY OutFacts
<1>4. CanSend(st) \/ st.outFin =>
        /\ ~st.finSent => Within(wire[s] \o st.out, st.send)
        /\ Begun(wire[s] \o st.out, st.send)
  BY <1>1, <1>2 DEF SoundAt, SendingAt
<1>5. CASE /\ HasFinPending(st) /\ Settle(s, [st EXCEPT !.finSent = TRUE])
           /\ wire' = [wire EXCEPT ![s] = Append(wire[s], "fin")]
  <2>1. PICK new : new = [st EXCEPT !.finSent = TRUE] OBVIOUS
  <2>2. /\ new \in Records(scope.frames, scope.body) /\ SameRead(new, st) /\ SamePark(new, st)
        /\ new.out = st.out /\ new.finSent /\ new.send = st.send /\ Coherent(new)
    BY <1>2, <1>5, <2>1, FinRecord
  <2>3. st.outFin /\ ~st.finSent /\ st.out = <<>> /\ st.send = "Complete"
    BY <1>2, <1>5 DEF HasFinPending, Coherent
  <2>4. PICK q \in Seq(AnyPiece) : q = wire[s] BY <1>3
  <2>5. wire[s] \o st.out = q BY <2>3, <2>4, ConcatEmptySeq
  <2>6. InOrder(q) /\ Within(q, "Complete") /\ Begun(q, "Complete")
    BY <1>3, <1>4, <2>3, <2>4, <2>5
  <2>7. PICK x \in AnyPiece : x = "fin" BY DEF AnyPiece
  <2>8. Before(x) = Pieces /\ Allowed("Complete") = Pieces BY <2>7 DEF Before, Allowed
  <2>9. \A i \in 1 .. Len(q) : q[i] \in Before(x) BY <2>6, <2>8 DEF Within
  <2>10. \E i \in 1 .. Len(q) : q[i] = "final" BY <2>6 DEF Begun
  <2>11. PICK w : w = Append(q, x) OBVIOUS
  <2>12. /\ w \in Seq(AnyPiece) /\ Len(w) = Len(q) + 1
         /\ \A i \in 1 .. Len(q) : w[i] = q[i]
    BY <2>11, AppendProperties
  <2>13. InOrder(w) BY <2>6, <2>9, <2>10, <2>11, OrderAppend
  <2>14. Begun(w, new.send) BY <2>10, <2>12 DEF Begun
  <2>15. wire' = [wire EXCEPT ![s] = w] BY <1>5, <2>4, <2>7, <2>11
  <2>16. Settle(s, new) BY <1>5, <2>1
  <2> QED BY <1>1, <2>2, <2>3, <2>12, <2>13, <2>14, <2>15, <2>16, TakenStep
<1>6. CASE /\ Settle(s, [st EXCEPT !.out = <<>>])
           /\ wire' = [wire EXCEPT ![s] = wire[s] \o st.out]
  <2>1. PICK new : new = [st EXCEPT !.out = <<>>] OBVIOUS
  <2>2. /\ new \in Records(scope.frames, scope.body) /\ SameRead(new, st) /\ SamePark(new, st)
        /\ new.out = <<>> /\ new.finSent = st.finSent /\ new.send = st.send
        /\ new.outFin = st.outFin /\ new.state = st.state /\ Coherent(new)
    BY <1>2, <2>1, SentRecord
  <2>3. PICK w \in Seq(AnyPiece) : w = wire[s] \o st.out BY <1>3
  <2>4. CanSend(new) \/ new.outFin =>
          (~new.finSent => Within(w, new.send)) /\ Begun(w, new.send)
    BY <1>4, <2>2, <2>3 DEF CanSend
  <2>5. wire' = [wire EXCEPT ![s] = w] /\ InOrder(w) BY <1>3, <1>6, <2>3
  <2>6. Settle(s, new) BY <1>6, <2>1
  <2> QED BY <1>1, <2>2, <2>4, <2>5, <2>6, TakenStep
<1> QED BY <1>1, <1>5, <1>6


-----------------------------------------------------------------------------
(* Arrivals.                                                               *)

(* A frame that arrives comes behind those in the buffer.                  *)
LEMMA FaithfulMore ==
  ASSUME NEW F, NEW b \in Nat, NEW st \in Records(F, b), NEW q \in Seq(F), NEW g \in Seq(F),
         Faithful(st, q, g), NEW f \in F, NEW new, SamePark(new, st),
         new.buf = Append(st.buf, f),
         NEW r, r = IF f.kind = "unknown" THEN q ELSE Append(q, f)
  PROVE  Faithful(new, r, g)
<1>1. st.buf \in Seq(F) /\ st.held \in Seq(HeldSections(F)) BY RecordTypes
<1>2. /\ Len(g) \in Nat /\ Len(st.held) \in Nat /\ Len(q) \in Nat
      /\ st.held # <<>> => Len(st.held) >= 1
  BY <1>1, EmptySeq
<1>3. PICK n \in Nat : n = Len(g) + Len(st.held) BY <1>2
<1>4. /\ n <= Len(q) /\ \A i \in 1 .. Len(g) : g[i] = q[i]
      /\ st.held # <<>> => q[Len(g) + 1] = st.held[1].frame
      /\ Shows(st.buf, q, n)
  BY <1>3 DEF Faithful
<1>5. new.held = st.held BY DEF SamePark
<1>6. Shows(new.buf, r, n)
  <2>1. CASE f.kind = "unknown" BY <2>1, <1>1, <1>4, ShowsMoreUnknown
  <2>2. CASE f.kind # "unknown" BY <2>2, <1>1, <1>4, ShowsMore
  <2> QED BY <2>1, <2>2
<1>7. Len(r) \in Nat /\ Len(r) >= Len(q) /\ \A i \in 1 .. Len(q) : r[i] = q[i]
  <2>1. CASE f.kind = "unknown" BY <2>1, <1>2
  <2>2. CASE f.kind # "unknown" BY <2>2, <1>2, AppendProperties
  <2> QED BY <2>1, <2>2
<1>8. \A i \in 1 .. Len(g) : i \in 1 .. Len(q) BY <1>2, <1>3, <1>4
<1>9. st.held # <<>> => Len(g) + 1 \in 1 .. Len(q) BY <1>2, <1>3, <1>4
<1> QED BY <1>2, <1>3, <1>4, <1>5, <1>6, <1>7, <1>8, <1>9 DEF Faithful

(* A request beyond GOAWAY is refused.                                     *)
LEMMA RefuseStep ==
  ASSUME StreamsIInv, call = Idle, err = "none", Role = "Server",
         NEW s \in Streams, s \notin live,
         NEW r \in Seq(scope.frames), fed' = [fed EXCEPT ![s] = r],
         finned' \in {finned, finned \cup {s}}, net' = WithRejected(net, s),
         scope' = scope, live' = live, str' = str, index' = index, inserts' = inserts,
         decOpen' = decOpen, deferred' = deferred, goaway' = goaway, err' = err, call' = call,
         decOut' = decOut, got' = got, ended' = ended, wire' = wire
  PROVE  StreamsIInv'
<1>1. /\ call.op = "idle" /\ call.rest = {} /\ call \in Calls /\ inserts \in Nat
      /\ net \in Nets
  BY ReadyFacts
<1>2. /\ net' \in Nets /\ SameRest(net') /\ net'.refused = net.refused \cup {s}
      /\ net'.failed = net.failed /\ net'.stranded = net.stranded /\ net'.decoded = net.decoded
  BY <1>1, NetRejected
<1>3. Types /\ SoundAt(s) /\ Role' = Role BY StreamFacts DEF StreamsIInv, Role
<1>4. /\ fed' \in [Streams -> Seq(scope.frames)]
      /\ \A t \in Streams : t # s => fed'[t] = fed[t]
  BY <1>3 DEF Types
<1>5. Types' BY <1>2, <1>3, <1>4 DEF Types, TypeOK
<1>6. CallSound' BY <1>1 DEF CallSound, Running
<1>7. ASSUME NEW t \in Streams, t # s PROVE Same(t)
  <2>1. SameNet(t) BY <1>2, <1>7 DEF SameNet, SameRest
  <2>2. SameTrace(t) BY <1>4, <1>7 DEF SameTrace
  <2> QED BY <2>1, <2>2 DEF Same, SameStream, SameAnswers, SamePairs
<1>8. Calm BY <1>1, <1>2 DEF Calm
<1>9. SoundAt(s)'
  <2>1. Coherent(str[s])' BY <1>3 DEF SoundAt
  <2>2. ParkedAt(s)' BY <1>2, <1>3 DEF SoundAt, ParkedAt
  <2>3. LifeAt(s)' BY <1>2, <1>3 DEF SoundAt, LifeAt, SameRest
  <2>4. DoneAt(s)' BY DEF DoneAt
  <2>5. AnsweredAt(s)' BY <1>2, <1>3 DEF SoundAt, AnsweredAt, SameRest
  <2>6. SendingAt(s)' BY <1>3 DEF SoundAt, SendingAt
  <2>7. DeliveredAt(s)' BY DEF DeliveredAt
  <2> QED BY <2>1, <2>2, <2>3, <2>4, <2>5, <2>6, <2>7 DEF SoundAt
<1> QED BY <1>5, <1>6, <1>7, <1>8, <1>9, OneStreamStep

(* A stream that something may arrive on and that is not there is new.     *)
LEMMA ArrivalFacts ==
  ASSUME StreamsIInv, NEW s \in Streams, MayArrive(s)
  PROVE  /\ ~str[s].fin /\ s \notin net.reset /\ s \notin net.refused
         /\ (Role = "Client" => s \in net.opened)
         /\ s \notin live => str[s] = NewStream /\ Untouched(s)
         /\ ~Done(str[s])
<1>1. /\ s \notin finned /\ s \notin net.reset /\ s \notin net.refused
      /\ (Role = "Client" => s \in net.opened)
  BY DEF MayArrive
<1>2. SoundAt(s) /\ Coherent(str[s]) BY StreamFacts
<1>3. ~str[s].fin BY <1>1, <1>2 DEF SoundAt, LifeAt
<1>4. ~Done(str[s]) BY <1>2, <1>3 DEF Done, Coherent
<1> QED BY <1>1, <1>2, <1>3, <1>4 DEF SoundAt, LifeAt

(* Something arrives on a stream that is there, or opens it.               *)
LEMMA ArriveStep ==
  ASSUME StreamsIInv, call = Idle, err = "none", NEW s \in Streams, MayArrive(s),
         NEW new \in Records(scope.frames, scope.body), Coherent(new),
         SamePark(new, str[s]), SameSend(new, str[s]), new.recv = str[s].recv,
         new.state = str[s].state, NEW fin \in BOOLEAN, new.fin => fin,
         NEW r \in Seq(scope.frames), Faithful(str[s], fed[s], got[s]) => Faithful(new, r, got[s]),
         fed' = [fed EXCEPT ![s] = r],
         finned' = IF fin THEN finned \cup {s} ELSE finned,
         NEW k \in Nat, net' = WithArrived(net, s, k),
         live' = live \cup {s}, str' = [str EXCEPT ![s] = new], call' = Parse(s, str[s]),
         scope' = scope, index' = index, inserts' = inserts, decOpen' = decOpen,
         deferred' = deferred, goaway' = goaway, err' = err,
         decOut' = decOut, got' = got, ended' = ended, wire' = wire
  PROVE  StreamsIInv'
<1>1. /\ call.op = "idle" /\ call.rest = {} /\ call \in Calls /\ inserts \in Nat
      /\ net \in Nets /\ scope.body \in Nat
  BY ReadyFacts
<1>2. net' \in Nets /\ SameRest(net') /\ SameFates(net') BY <1>1, NetArrived
<1>3. Types /\ SoundAt(s) /\ Role' = Role /\ str[s] \in Records(scope.frames, scope.body)
  BY StreamFacts DEF StreamsIInv, Role
<1>4. /\ ~str[s].fin /\ s \notin net.reset /\ s \notin net.refused
      /\ (Role = "Client" => s \in net.opened)
      /\ s \notin live => str[s] = NewStream /\ Untouched(s)
      /\ ~Done(str[s])
  BY ArrivalFacts
<1>5. /\ str' \in [Streams -> Records(scope.frames, scope.body)]' /\ str'[s] = new
      /\ \A t \in Streams : t # s => str'[t] = str[t]
  BY PutStream
<1>6. /\ fed' \in [Streams -> Seq(scope.frames)] /\ fed'[s] = r
      /\ \A t \in Streams : t # s => fed'[t] = fed[t]
  BY <1>3 DEF Types
<1>7. /\ call' \in Calls /\ call'.rest = {} /\ call'.op \in {"idle", "feed"}
      /\ call'.op # "idle" => call'.stream = s /\ ~str[s].blocked
  BY IdleCall DEF Parse, Reading, Calls
<1>8. Types'
  <2>1. str' \in [Streams -> Records(scope'.frames, scope'.body)] /\ live' \subseteq Streams
    BY <1>3, <1>5 DEF Types, TypeOK
  <2>2. TypeOK' BY <1>3, <1>7, <2>1 DEF Types, TypeOK
  <2>3. finned' \subseteq Streams BY <1>3 DEF Types
  <2> QED BY <1>2, <1>3, <1>6, <1>7, <2>2, <2>3 DEF Types
<1>9. CallSound' BY <1>5, <1>7 DEF CallSound, Running, SamePark
<1>10. ASSUME NEW t \in Streams, t # s PROVE Same(t)
  <2>1. SameNet(t) BY <1>2, <1>10 DEF SameNet, SameRest, SameFates
  <2>2. SameTrace(t) BY <1>6, <1>10 DEF SameTrace
  <2>3. SameStream(t) BY <1>5, <1>10 DEF SameStream
  <2>4. SamePairs(t) BY <1>1, <1>7 DEF SamePairs
  <2> QED BY <2>1, <2>2, <2>3, <2>4 DEF Same, SameAnswers
<1>11. Calm BY <1>1, <1>2 DEF Calm, SameFates
<1>12. /\ ~NewStream.blocked /\ NewStream.out = <<>> /\ NewStream.send = "Initial"
       /\ NewStream.buf = <<>> /\ NewStream.held = <<>>
  BY <1>1, NewRecord
<1>13. SoundAt(s)'
  <2>1. ParkedAt(s)'
    BY <1>1, <1>2, <1>3, <1>4, <1>5, <1>7, <1>12 DEF SoundAt, ParkedAt, SamePark, SameFates
  <2>2. LifeAt(s)'
    BY <1>2, <1>3, <1>4, <1>5 DEF SoundAt, LifeAt, SameRest, SameFates
  <2>3. DoneAt(s)'
    <3>1. ~Done(new) BY <1>4 DEF Done, IsSendComplete, SameSend
    <3> QED BY <3>1, <1>5 DEF DoneAt
  <2>4. AnsweredAt(s)'
    <3>1. Resets(s)' = Resets(s) BY <1>2 DEF Resets, SameRest
    <3> QED BY <3>1, <1>2, <1>3 DEF SoundAt, AnsweredAt, SameRest, SameFates
  <2>5. SendingAt(s)'
    <3>1. InOrder(wire[s] \o str[s].out) BY <1>3 DEF SoundAt, SendingAt
    <3>2. CASE s \in live
      BY <3>1, <3>2, <1>3, <1>5 DEF SoundAt, SendingAt, SameSend, CanSend
    <3>3. CASE s \notin live
      <4>1. PICK none \in Seq(AnyPiece) : none = <<>> BY EmptySeq
      <4>2. wire[s] = none /\ str[s].out = none BY <3>3, <4>1, <1>4, <1>12 DEF Untouched
      <4>3. wire[s] \o str[s].out = none BY <4>1, <4>2, ConcatEmptySeq
      <4>4. str[s].send = "Initial" BY <3>3, <1>4, <1>12
      <4>5. Within(none, "Initial") /\ Begun(none, "Initial")
        BY <4>1 DEF Within, Begun
      <4> QED BY <3>1, <4>3, <4>4, <4>5, <1>5 DEF SendingAt, SameSend
    <3> QED BY <3>2, <3>3
  <2>6. DeliveredAt(s)'
    <3>1. CASE s \in live
      BY <3>1, <1>2, <1>3, <1>5, <1>6 DEF SoundAt, DeliveredAt, SameRest, SameFates
    <3>2. CASE s \notin live
      <4>1. fed[s] = <<>> /\ got[s] = <<>> /\ s \notin ended BY <3>2, <1>4 DEF Untouched
      <4>2. Faithful(NewStream, <<>>, <<>>)
        <5>1. PICK none \in Seq(scope.frames) : none = <<>> BY EmptySeq
        <5>2. Shows(none, none, Len(none)) BY <5>1, ShowsEmpty
        <5> QED BY <5>1, <5>2, <1>12 DEF Faithful
      <4> QED BY <3>2, <4>1, <4>2, <1>4, <1>5, <1>6 DEF DeliveredAt
    <3> QED BY <3>1, <3>2
  <2> QED BY <2>1, <2>2, <2>3, <2>4, <2>5, <2>6, <1>5 DEF SoundAt
<1> QED BY <1>8, <1>9, <1>10, <1>11, <1>13, OneStreamStep


LEMMA OneFrame ==
  ASSUME NEW F, NEW f \in F
  PROVE  /\ <<f>> \in Seq(F) /\ <<f>>[1] = f /\ <<f>> # <<>>
         /\ \A q \in Seq(F) : q \o <<f>> = Append(q, f)
OBVIOUS

\* x is what a reader may see of the chunk.
ShownOf(x, chunk, F) ==
    \/ chunk = <<>> /\ x = <<>>
    \/ \E f \in F : chunk = <<f>> /\ x = IF f.kind = "unknown" THEN <<>> ELSE <<f>>

(* A chunk holds one frame at most; a frame of unknown type is not shown.  *)
LEMMA AcceptStep ==
  ASSUME StreamsIInv, call = Idle, err = "none", NEW s \in Streams, MayArrive(s),
         NEW F, F = scope.frames, NEW chunk \in Seq(F), NEW k \in Nat,
         NEW fin \in BOOLEAN, NEW more,
         \/ ~fin /\ more = Longer(str[s], chunk)
         \/ fin /\ more = Finned(Longer(str[s], chunk)),
         NEW shown \in Seq(F), ShownOf(shown, chunk, F),
         fed' = [fed EXCEPT ![s] = fed[s] \o shown],
         finned' = IF fin THEN finned \cup {s} ELSE finned,
         net' = WithArrived(net, s, k),
         live' = live \cup {s}, str' = [str EXCEPT ![s] = more], call' = Parse(s, str[s]),
         scope' = scope, index' = index, inserts' = inserts, decOpen' = decOpen,
         deferred' = deferred, goaway' = goaway, err' = err,
         decOut' = decOut, got' = got, ended' = ended, wire' = wire
  PROVE  StreamsIInv'
<1>1. /\ str[s] \in Records(F, scope.body) /\ scope.body \in Nat
      /\ Coherent(str[s]) /\ ~str[s].fin /\ fed[s] \in Seq(F) /\ got[s] \in Seq(F)
  BY StreamFacts, ReadyFacts, ArrivalFacts DEF StreamsIInv, Types
<1>2. PICK q \in Seq(F), g \in Seq(F), b \in Nat : q = fed[s] /\ g = got[s] /\ b = scope.body
  BY <1>1
<1>3. PICK st \in Records(F, b) : st = str[s] BY <1>1, <1>2
<1>4. PICK r \in Seq(F) : r = q \o shown BY ConcatProperties
<1>5. PICK long : long = Longer(str[s], chunk) OBVIOUS
<1>a. /\ long \in Records(F, b) /\ long.buf = st.buf \o chunk /\ long.fin = st.fin
      /\ long.recv = st.recv /\ long.state = st.state /\ SamePark(long, st) /\ SameSend(long, st)
      /\ Coherent(st) /\ ~st.fin => Coherent(long)
  <2>1. b \in Nat /\ chunk \in Seq(F) /\ long = Longer(st, chunk) BY <1>1, <1>2, <1>3, <1>5
  <2>2. /\ long.buf = st.buf \o chunk /\ long.fin = st.fin
        /\ long.recv = st.recv /\ long.state = st.state
    BY <2>1 DEF Longer, Records
  <2>3. long \in Records(F, b) /\ SamePark(long, st) /\ SameSend(long, st)
    BY <2>1, MoreRecord
  <2>4. Coherent(st) /\ ~st.fin => Coherent(long) BY <2>1, MoreRecord
  <2> QED BY <2>2, <2>3, <2>4
<1>6. /\ more \in Records(F, b) /\ more.buf = st.buf \o chunk /\ (more.fin => fin)
      /\ more.recv = st.recv /\ more.state = st.state /\ SamePark(more, st) /\ SameSend(more, st)
      /\ Coherent(more)
  <2>1. Coherent(st) /\ ~st.fin BY <1>1, <1>3
  <2>2. CASE ~fin BY <2>1, <2>2, <1>3, <1>5, <1>a
  <2>3. CASE fin
    <3>1. more = Finned(long) BY <2>3, <1>3, <1>5
    <3>2. /\ more \in Records(F, b) /\ more.buf = long.buf
          /\ more.recv = long.recv /\ more.state = long.state
          /\ SamePark(more, long) /\ SameSend(more, long)
          /\ Coherent(long) => Coherent(more)
      BY <3>1, <1>a, FinnedRecord, SMTT(60)
    <3> QED BY <3>2, <2>1, <2>3, <1>a DEF SamePark, SameSend
  <2> QED BY <2>2, <2>3
<1>7. Faithful(st, q, g) => Faithful(more, r, g)
  <2>1. st.buf \in Seq(F) BY RecordTypes
  <2>2. CASE chunk = <<>> /\ shown = <<>>
    <3>1. more.buf = st.buf /\ r = q BY <2>1, <2>2, <1>4, <1>6, ConcatEmptySeq
    <3> QED BY <3>1, <1>6 DEF Faithful, SamePark
  <2>3. ASSUME NEW f \in F, chunk = <<f>>, shown = IF f.kind = "unknown" THEN <<>> ELSE <<f>>
        PROVE  Faithful(st, q, g) => Faithful(more, r, g)
    <3>1. more.buf = Append(st.buf, f) BY <2>1, <2>3, <1>6, OneFrame
    <3>2. r = IF f.kind = "unknown" THEN q ELSE Append(q, f)
      <4>1. CASE f.kind = "unknown" BY <4>1, <2>3, <1>4, ConcatEmptySeq
      <4>2. CASE f.kind # "unknown"
        <5>1. r = q \o <<f>> BY <4>2, <2>3, <1>4
        <5>2. q \o <<f>> = Append(q, f) BY OneFrame
        <5> QED BY <5>1, <5>2, <4>2
      <4> QED BY <4>1, <4>2
    <3> QED BY <3>1, <3>2, <1>6, FaithfulMore
  <2> QED BY <2>2, <2>3 DEF ShownOf
<1>8. PICK new \in Records(scope.frames, scope.body) : new = more BY <1>2, <1>6
<1>9. /\ Coherent(new) /\ SamePark(new, str[s]) /\ SameSend(new, str[s])
      /\ new.recv = str[s].recv /\ new.state = str[s].state /\ (new.fin => fin)
      /\ Faithful(str[s], fed[s], got[s]) => Faithful(new, r, got[s])
      /\ str' = [str EXCEPT ![s] = new] /\ fed' = [fed EXCEPT ![s] = r]
      /\ r \in Seq(scope.frames)
  BY <1>1, <1>2, <1>3, <1>4, <1>6, <1>7, <1>8
<1> QED BY <1>9, ArriveStep

LEMMA FeedStep ==
  ASSUME StreamsIInv, NEW s \in Streams, NEW fin \in BOOLEAN,
         NEW chunk \in {<<>>} \cup {<<f>> : f \in scope.frames}, FeedStream(s, chunk, fin)
  PROVE  StreamsIInv'
<1> DEFINE st == IF s \in live THEN str[s] ELSE NewStream
           more == [st EXCEPT !.buf = @ \o chunk, !.fin = @ \/ fin]
           shown == IF chunk # <<>> /\ chunk[1].kind = "unknown" THEN <<>> ELSE chunk
<1>1. /\ call = Idle /\ err = "none" /\ MayArrive(s)
      /\ fed' = [fed EXCEPT ![s] = fed[s] \o shown]
      /\ finned' = IF fin THEN finned \cup {s} ELSE finned
      /\ \/ /\ Rejected(s) /\ net' = WithRejected(net, s)
            /\ live' = live /\ str' = str /\ call' = call
         \/ /\ net' = WithArrived(net, s, Len(chunk))
            /\ live' = live \cup {s} /\ str' = [str EXCEPT ![s] = more] /\ call' = Parse(s, st)
      /\ scope' = scope /\ index' = index /\ inserts' = inserts
      /\ decOpen' = decOpen /\ deferred' = deferred /\ goaway' = goaway /\ err' = err
      /\ decOut' = decOut /\ got' = got /\ ended' = ended /\ wire' = wire
  BY Zenon DEF FeedStream, Ready, WithRejected, WithArrived
<1>2. st = str[s] BY <1>1, ArrivalFacts
<1>3. PICK F : F = scope.frames OBVIOUS
<1>4. PICK frames \in Seq(F) : frames = chunk
  <2>1. CASE chunk = <<>> BY <2>1, EmptySeq
  <2>2. CASE chunk # <<>>
    <3>1. PICK f \in F : chunk = <<f>> BY <2>2, <1>3
    <3>2. chunk \in Seq(F) BY <3>1, OneFrame, Zenon
    <3> QED BY <3>2, Zenon
  <2> QED BY <2>1, <2>2
<1>5. PICK x \in Seq(F) : x = shown BY <1>4, EmptySeq
<1>6. ShownOf(x, frames, F)
  <2>1. CASE chunk = <<>> BY <2>1, <1>4, <1>5 DEF ShownOf
  <2>2. CASE chunk # <<>>
    <3>1. PICK f \in F : chunk = <<f>> BY <2>2, <1>3
    <3>2. chunk[1] = f BY <3>1, OneFrame, Zenon
    <3> QED BY <3>1, <3>2, <2>2, <1>4, <1>5 DEF ShownOf
  <2> QED BY <2>1, <2>2
<1>7. fed' = [fed EXCEPT ![s] = fed[s] \o x] BY <1>1, <1>5
<1> HIDE DEF shown
<1>8. CASE /\ Rejected(s) /\ net' = WithRejected(net, s)
           /\ live' = live /\ str' = str /\ call' = call
  <2>1. finned' \in {finned, finned \cup {s}} BY <1>1
  <2>2. Role = "Server" /\ s \notin live BY <1>8 DEF Rejected
  <2>3. fed[s] \in Seq(F) BY <1>3 DEF StreamsIInv, Types
  <2>4. PICK r \in Seq(scope.frames) : r = fed[s] \o x BY <2>3, <1>3, ConcatProperties
  <2>5. fed' = [fed EXCEPT ![s] = r] BY <1>7, <2>4
  <2> HIDE DEF st, more
  <2> QED BY <1>1, <1>8, <2>1, <2>2, <2>5, RefuseStep
<1>9. CASE /\ net' = WithArrived(net, s, Len(chunk))
           /\ live' = live \cup {s} /\ str' = [str EXCEPT ![s] = more] /\ call' = Parse(s, st)
  <2>1. PICK new : new = more OBVIOUS
  <2>2. \/ ~fin /\ new = Longer(str[s], frames)
        \/ fin /\ new = Finned(Longer(str[s], frames))
    <3>1. str[s] \in Records(scope.frames, scope.body) BY StreamFacts
    <3>2. CASE ~fin
      <4>1. str[s].fin \in BOOLEAN BY <3>1 DEF Records
      <4>2. PICK b \in BOOLEAN : b = str[s].fin BY <4>1
      <4>3. new = [str[s] EXCEPT !.buf = @ \o frames, !.fin = b]
        BY <1>2, <1>4, <2>1, <3>2, <4>2
      <4>4. [str[s] EXCEPT !.buf = @ \o frames, !.fin = b] = Longer(str[s], frames)
        BY <3>1, <4>2 DEF Longer, Records
      <4> QED BY <3>2, <4>3, <4>4
    <3>3. CASE fin
      <4>1. new = [str[s] EXCEPT !.buf = @ \o frames, !.fin = TRUE]
        BY <1>2, <1>4, <2>1, <3>3
      <4>2. [str[s] EXCEPT !.buf = @ \o frames, !.fin = TRUE] = Finned(Longer(str[s], frames))
        BY <3>1 DEF Longer, Finned, Records
      <4> QED BY <3>3, <4>1, <4>2
    <3> QED BY <3>2, <3>3
  <2>3. PICK k \in Nat : k = Len(chunk) BY <1>4
  <2>4. /\ net' = WithArrived(net, s, k) /\ live' = live \cup {s}
        /\ str' = [str EXCEPT ![s] = new] /\ call' = Parse(s, str[s])
    BY <1>2, <1>9, <2>1, <2>3, Zenon
  <2> HIDE DEF st, more
  <2> QED BY <1>1, <1>3, <1>6, <1>7, <2>2, <2>4, AcceptStep, Zenon
<1> QED BY <1>1, <1>8, <1>9

-----------------------------------------------------------------------------
(* The specification keeps the invariant.                                  *)

LEMMA InitSound ==
  ASSUME Init
  PROVE  StreamsIInv
<1>1. /\ scope \in Scopes /\ live = {} /\ str = [s \in Streams |-> NewStream] /\ index = {}
      /\ inserts = 0 /\ decOpen = FALSE /\ goaway = NoGoaway /\ err = "none" /\ call = Idle
      /\ finned = {} /\ ended = {}
      /\ deferred.acks = [s \in Streams |-> 0] /\ deferred.cancels = [s \in Streams |-> 0]
      /\ net.used = {} /\ net.opened = {} /\ net.reset = {} /\ net.stopped = {}
      /\ net.refused = {} /\ net.failed = {} /\ net.stranded = FALSE
      /\ net.decoded = [s \in Streams |-> 0]
      /\ decOut = [s \in Streams |-> <<>>] /\ fed = [s \in Streams |-> <<>>]
      /\ got = [s \in Streams |-> <<>>] /\ wire = [s \in Streams |-> <<>>]
  BY DEF Init
<1>2. scope.body \in Nat /\ scope.inserts \in Nat
  <2>1. {scope.blocked, scope.body, scope.inserts, scope.arrivals, scope.sends} \subseteq Nat
    BY <1>1, StreamsAssumption
  <2> QED BY <2>1
<1>3. /\ NewStream \in Records(scope.frames, scope.body) /\ Coherent(NewStream)
      /\ NewStream.buf = <<>> /\ NewStream.held = <<>> /\ NewStream.out = <<>>
      /\ ~NewStream.fin /\ ~NewStream.blocked /\ NewStream.state = "Open"
  BY <1>2, NewRecord
<1>4. PICK zero \in Tally : zero = [s \in Streams |-> 0] BY DEF Tally
<1>5. deferred \in Debts BY <1>4 DEF Init, Debts
<1>6. net \in Nets BY <1>4 DEF Init, Nets, Sets
<1>7. /\ decOut \in Answers /\ fed \in [Streams -> Seq(scope.frames)]
      /\ got \in [Streams -> Seq(scope.frames)] /\ wire \in [Streams -> Seq(AnyPiece)]
  BY <1>1, EmptySeq DEF Answers
<1>8. TypeOK
  <2>1. str \in [Streams -> Records(scope.frames, scope.body)] BY <1>1, <1>3
  <2>2. call.op = "idle" BY <1>1, IdleCall
  <2>3. inserts \in 0 .. scope.inserts /\ index \subseteq Nat \X Streams BY <1>1, <1>2
  <2>4. decOpen \in BOOLEAN /\ live \subseteq Streams BY <1>1
  <2> QED BY <1>1, <2>1, <2>2, <2>3, <2>4 DEF TypeOK
<1>9. Types BY <1>1, <1>5, <1>6, <1>7, <1>8, IdleCall DEF Types, AnyPiece
<1>10. CallSound BY <1>1, IdleCall DEF CallSound, Running
<1>11. ASSUME NEW s \in Streams PROVE SoundAt(s)
  <2>1. /\ str[s] = NewStream /\ fed[s] = <<>> /\ got[s] = <<>> /\ wire[s] = <<>>
        /\ decOut[s] = <<>> /\ deferred.acks[s] = 0 /\ deferred.cancels[s] = 0
        /\ net.decoded[s] = 0
    BY <1>1
  <2>2. ParkedAt(s) BY <1>1, IdleCall DEF ParkedAt
  <2>3. LifeAt(s) BY <1>1, <1>3, <2>1 DEF LifeAt, Untouched
  <2>4. DoneAt(s) BY <1>1 DEF DoneAt
  <2>5. AnsweredAt(s) BY <1>1, <2>1 DEF AnsweredAt, Resets
  <2>6. SendingAt(s)
    <3>1. PICK none \in Seq(AnyPiece) : none = <<>> BY EmptySeq
    <3>2. wire[s] = none /\ str[s].out = none BY <3>1, <1>3, <2>1
    <3>3. none \o none = none BY ConcatEmptySeq, <3>1
    <3>4. InOrder(none) BY <3>1, OrderEmpty
    <3> QED BY <3>2, <3>3, <3>4, <1>1 DEF SendingAt
  <2>7. DeliveredAt(s) BY <1>1 DEF DeliveredAt
  <2> QED BY <1>3, <2>1, <2>2, <2>3, <2>4, <2>5, <2>6, <2>7 DEF SoundAt
<1> QED BY <1>9, <1>10, <1>11 DEF StreamsIInv

LEMMA NextSound ==
  ASSUME StreamsIInv, [Next]_vars
  PROVE  StreamsIInv'
<1>1. scope.streams \subseteq Streams BY ScopeFacts DEF StreamsIInv
<1>2. CASE LoopStep BY <1>2, LoopKeeps
<1>3. CASE \E s \in scope.streams, fin \in BOOLEAN,
              chunk \in {<<>>} \cup {<<f>> : f \in scope.frames} : FeedStream(s, chunk, fin)
  BY <1>1, <1>3, FeedStep
<1>4. CASE EncoderStream BY <1>4, InsertionStep
<1>5. CASE PollEvent BY <1>5, PollStep
<1>6. CASE \E s \in scope.streams : StreamReset(s) BY <1>1, <1>6, ResetStep
<1>7. CASE \E s \in scope.streams : StopSending(s) BY <1>1, <1>7, StopStep
<1>8. CASE OpenDecoderStream BY <1>8, DecoderStep
<1>9. CASE \E id \in scope.goaways : Goaway(id) BY <1>9, GoawayStep
<1>10. CASE \E s \in scope.streams, connect, fin \in BOOLEAN : SendRequest(s, connect, fin)
  BY <1>1, <1>10, RequestStep, Zenon
<1>11. CASE \E s \in scope.streams, interim, fin \in BOOLEAN : SendResponse(s, interim, fin)
  BY <1>1, <1>11, ResponseStep, Zenon
<1>12. CASE \E s \in scope.streams, empty, fin \in BOOLEAN : SendBody(s, empty, fin)
  BY <1>1, <1>12, BodyStep, Zenon
<1>13. CASE \E s \in scope.streams : TakeStreamData(s) BY <1>1, <1>13, TakeStep
<1>14. CASE UNCHANGED vars
  <2>1. Types' /\ CallSound'
    BY <1>14 DEF vars, StreamsIInv, Types, TypeOK, CallSound, Running
  <2>2. ASSUME NEW t \in Streams PROVE SoundAt(t)'
    <3>1. /\ scope' = scope /\ live' = live /\ str' = str /\ index' = index /\ inserts' = inserts
          /\ decOpen' = decOpen /\ deferred' = deferred /\ err' = err /\ call' = call
          /\ decOut' = decOut /\ net' = net /\ fed' = fed /\ finned' = finned /\ got' = got
          /\ ended' = ended /\ wire' = wire
      BY <1>14, Zenon DEF vars
    <3>2. Same(t)
      BY <3>1 DEF Same, SameStream, SameNet, SameTrace, SameAnswers, SamePairs
    <3>3. Calm BY <3>1, ScopeFacts DEF Calm, StreamsIInv
    <3> QED BY <3>1, <3>2, <3>3, StreamFacts, ScopeFacts, SoundFrame DEF StreamsIInv
  <2> QED BY <2>1, <2>2 DEF StreamsIInv
<1> QED BY <1>2, <1>3, <1>4, <1>5, <1>6, <1>7, <1>8, <1>9, <1>10, <1>11, <1>12, <1>13, <1>14
        DEF Next


(* The inductive invariant.                                                *)
THEOREM StreamsInvariant == Spec => []StreamsIInv
BY InitSound, NextSound, PTL DEF Spec

(* blocked_by_ricnt holds the parked streams and no others, whatever       *)
(* resets, STOP_SENDING, retries and second blockings on trailers happen:  *)
(* no parked stream is forgotten, and none that is gone counts against     *)
(* qpack_blocked_streams (blocked_by_ricnt, set_qpack_blocked).            *)
THEOREM StreamsStayIndexed == Spec => []StreamsInv
<1>1. StreamsIInv => StreamsInv
  <2> SUFFICES ASSUME StreamsIInv PROVE StreamsInv OBVIOUS
  <2>1. TypeOK BY DEF StreamsIInv, Types
  <2>2. ASSUME NEW s \in Streams PROVE ParkedAt(s) /\ str[s].ricnt \in Nat
    BY StreamFacts DEF SoundAt
  <2>3. ASSUME err = "none", ~net.stranded, NEW s \in live \ net.failed PROVE Findable(s)
    <3>1. s \in Streams BY <2>1 DEF TypeOK
    <3> QED BY <2>2, <2>3, <3>1 DEF ParkedAt, Findable
  <2>4. ASSUME NEW p \in index
        PROVE  p[2] \in live /\ str[p[2]].blocked /\ str[p[2]].ricnt = p[1]
    <3>1. p \in Nat \X Streams BY <2>1 DEF TypeOK
    <3>2. p[1] \in Nat /\ p[2] \in Streams /\ p = <<p[1], p[2]>> BY <3>1
    <3>3. <<p[1], p[2]>> \in index \cup call.rest BY <3>2
    <3> QED BY <2>2, <3>2, <3>3 DEF ParkedAt
  <2>5. BlockedStreamsIndexed BY <2>3, <2>4 DEF BlockedStreamsIndexed
  <2> QED BY <2>1, <2>5 DEF StreamsInv
<1> QED BY <1>1, StreamsInvariant, PTL

(* Every section decoded with insertions is acknowledged once, and a reset *)
(* stream is cancelled behind that, written or still deferred              *)
(* (deferred_section_acks, deferred_stream_cancellations).                 *)
THEOREM SectionsAlwaysAnswered == Spec => []SectionsAnswered
<1>1. StreamsIInv => SectionsAnswered
  <2> SUFFICES ASSUME StreamsIInv, NEW s \in Unstopped \ (net.refused \cup net.failed)
               PROVE  Answered(s)
    BY DEF SectionsAnswered
  <2>1. s \in Streams /\ s \notin StopStreams BY DEF Unstopped
  <2>2. AnsweredAt(s) /\ net.decoded[s] \in Nat /\ decOpen \in BOOLEAN
    BY <2>1, StreamFacts, NetTypes DEF SoundAt, StreamsIInv, Types, TypeOK
  <2>3. PICK acks \in Seq(Both) : acks = Times(net.decoded[s], "ack")
    BY <2>2, TimesSeq DEF Both
  <2>4. PICK cancels \in Seq(Both) : cancels = Times(Resets(s), "cancel")
    BY TimesSeq DEF Both, Resets
  <2>5. cancels = IF s \in net.reset THEN <<"cancel">> ELSE <<>>
    BY <2>4 DEF Resets, Times
  <2>6. PICK all \in Seq(Both) : all = acks \o cancels BY <2>3, <2>4, ConcatProperties
  <2>7. PICK none \in Seq(Both) : none = <<>> BY EmptySeq
  <2>8. all \o none = all /\ none \o all = all /\ none \o acks = acks
    BY <2>3, <2>6, <2>7, ConcatEmptySeq
  <2>9. InstructionsOf(s) = all
    <3>1. CASE decOpen
      <4>1. decOut[s] = all BY <2>1, <2>2, <2>3, <2>4, <2>6, <3>1 DEF AnsweredAt, Owed
      <4>2. /\ Times(deferred.acks[s], "ack") = none
            /\ Times(deferred.cancels[s], "cancel") = none
        BY <2>2, <2>7, <3>1, NoTimes DEF AnsweredAt
      <4> QED BY <4>1, <4>2, <2>8 DEF InstructionsOf
    <3>2. CASE ~decOpen
      <4>1. /\ decOut[s] = none /\ Times(deferred.acks[s], "ack") = acks
            /\ Times(deferred.cancels[s], "cancel") = cancels
        BY <2>1, <2>2, <2>3, <2>4, <2>7, <3>2 DEF AnsweredAt
      <4> QED BY <4>1, <2>6, <2>8 DEF InstructionsOf
    <3> QED BY <2>2, <3>1, <3>2
  <2> QED BY <2>3, <2>5, <2>6, <2>9 DEF Answered
<1> QED BY <1>1, StreamsInvariant, PTL

(* Between calls no stream is kept that remove_stream_if_done would        *)
(* remove, whichever of receiving, sending, FIN and STOP_SENDING came last *)
(* (remove_stream_if_done).                                                *)
THEOREM FinishedAlwaysRemoved == Spec => []FinishedStreamsRemoved
<1>1. StreamsIInv => FinishedStreamsRemoved
  <2> SUFFICES ASSUME StreamsIInv, call = Idle, NEW s \in live \ net.failed
               PROVE  ~Done(str[s])
    BY DEF FinishedStreamsRemoved
  <2>1. s \in Streams BY DEF StreamsIInv, Types, TypeOK
  <2> QED BY <2>1, ReadyFacts
<1> QED BY <1>1, StreamsInvariant, PTL

(* What goes to the wire is in the order of a message, whatever sequence   *)
(* of send calls is made and whenever its data is taken (send_response,    *)
(* send_body, take_stream_data, stop_sending).                             *)
THEOREM SentInOrder == Spec => []SentMessageWellFormed
<1>1. StreamsIInv => SentMessageWellFormed
  BY OutFacts DEF SentMessageWellFormed
<1> QED BY <1>1, StreamsInvariant, PTL


-----------------------------------------------------------------------------
(* The connection implements StreamDelivery.                               *)

Seen == <<inserts, SeenFed, SeenFinned, SeenGot, SeenEnded, SeenBroken>>
Broken == net.refused \cup net.failed

\* StreamDelivery sees no change on stream t.
Alike(t) ==
    /\ fed'[t] = fed[t] /\ got'[t] = got[t]
    /\ (t \in finned' <=> t \in finned) /\ (t \in ended' <=> t \in ended)
    /\ (t \in Broken' <=> t \in Broken)

LEMMA SeenAlike ==
  ASSUME inserts' = inserts, \A t \in Unstopped : Alike(t)
  PROVE  UNCHANGED Seen
<1>1. SeenFed' = SeenFed BY DEF SeenFed, Alike, Unstopped
<1>2. SeenGot' = SeenGot BY DEF SeenGot, Alike, Unstopped
<1>3. SeenFinned' = SeenFinned BY DEF SeenFinned, Alike, Unstopped
<1>4. SeenEnded' = SeenEnded BY DEF SeenEnded, Alike, Unstopped
<1>5. SeenBroken' = SeenBroken BY DEF SeenBroken, Alike, Unstopped, Broken
<1> QED BY <1>1, <1>2, <1>3, <1>4, <1>5 DEF Seen

(* A step that hands over nothing and on which no call fails.              *)
LEMMA QuietOut ==
  ASSUME inserts' = inserts, fed' = fed, finned' = finned, got' = got, ended' = ended,
         net'.refused = net.refused, net'.failed = net.failed
  PROVE  UNCHANGED Seen
<1>1. \A t \in Unstopped : Alike(t) BY DEF Alike, Broken
<1> QED BY <1>1, SeenAlike

(* A step on one stream that the peer stops shows nothing.                 *)
LEMMA StoppedOut ==
  ASSUME inserts' = inserts, NEW s \in StopStreams, \A t \in Streams : t # s => Alike(t)
  PROVE  UNCHANGED Seen
<1>1. \A t \in Unstopped : Alike(t) BY DEF Unstopped
<1> QED BY <1>1, SeenAlike

LEMMA FailOut ==
  ASSUME inserts' = inserts, NEW s \in Streams, fed' = fed, finned' = finned, got' = got,
         ended' = ended, Broken' = Broken \cup {s}
  PROVE  [Delivery!AbsNext]_Seen
<1>1. \A t \in Streams : t # s => Alike(t) BY DEF Alike
<1>2. CASE s \in StopStreams BY <1>1, <1>2, StoppedOut
<1>3. CASE s \notin StopStreams
  <2>1. s \in Unstopped BY <1>3 DEF Unstopped
  <2>2. SeenFed' = SeenFed /\ SeenGot' = SeenGot /\ SeenFinned' = SeenFinned
        /\ SeenEnded' = SeenEnded
    BY DEF SeenFed, SeenGot, SeenFinned, SeenEnded, Unstopped
  <2>3. SeenBroken' = SeenBroken \cup {s} BY <2>1 DEF SeenBroken, Broken, Unstopped
  <2>4. Delivery!Fail(s) BY <2>2, <2>3 DEF Delivery!Fail
  <2> QED BY <2>1, <2>4 DEF Delivery!AbsNext
<1> QED BY <1>2, <1>3

(* The next frame of a stream is handed over, or any frame of a stream on  *)
(* which a call has failed.                                                *)
LEMMA DeliverOut ==
  ASSUME inserts' = inserts, NEW s \in Streams, fed' = fed, finned' = finned, ended' = ended,
         Broken' = Broken, NEW f \in AllFrames, NEW F, got \in [Streams -> Seq(F)],
         got' = [got EXCEPT ![s] = Append(@, f)],
         s \notin StopStreams /\ s \notin Broken =>
            /\ Len(got[s]) < Len(fed[s])
            /\ fed[s][Len(got[s]) + 1] = f /\ f.ric <= inserts
  PROVE  [Delivery!AbsNext]_Seen
<1>1. \A t \in Streams : t # s => Alike(t) BY DEF Alike
<1>2. CASE s \in StopStreams BY <1>1, <1>2, StoppedOut
<1>3. CASE s \notin StopStreams
  <2>1. s \in Unstopped BY <1>3 DEF Unstopped
  <2>2. /\ SeenFed' = SeenFed /\ SeenFinned' = SeenFinned /\ SeenEnded' = SeenEnded
        /\ SeenBroken' = SeenBroken
    BY DEF SeenFed, SeenFinned, SeenEnded, SeenBroken, Broken, Unstopped
  <2>3. SeenGot' = [SeenGot EXCEPT ![s] = Append(@, f)]
    <3>1. got'[s] = Append(got[s], f) OBVIOUS
    <3>2. \A t \in Unstopped : t # s => got'[t] = got[t] BY DEF Unstopped
    <3> QED BY <2>1, <3>1, <3>2 DEF SeenGot
  <2>4. SeenGot[s] = got[s] /\ SeenFed[s] = fed[s] BY <2>1 DEF SeenGot, SeenFed
  <2>5. s \in Broken => s \in SeenBroken BY <2>1 DEF SeenBroken, Broken
  <2>6. CASE s \in Broken
    <3>1. Delivery!Stray(s) BY <2>2, <2>3, <2>5, <2>6 DEF Delivery!Stray
    <3> QED BY <2>1, <3>1 DEF Delivery!AbsNext
  <2>7. CASE s \notin Broken
    <3>1. Delivery!Deliver(s) BY <1>3, <2>2, <2>3, <2>4, <2>7 DEF Delivery!Deliver
    <3> QED BY <2>1, <3>1 DEF Delivery!AbsNext
  <2> QED BY <2>6, <2>7
<1> QED BY <1>2, <1>3

LEMMA EndOut ==
  ASSUME inserts' = inserts, NEW s \in Streams, fed' = fed, finned' = finned, got' = got,
         Broken' = Broken, ended' = ended \cup {s},
         s \notin StopStreams /\ s \notin Broken =>
            s \in finned /\ s \notin ended /\ got[s] = fed[s]
  PROVE  [Delivery!AbsNext]_Seen
<1>1. \A t \in Streams : t # s => Alike(t) BY DEF Alike
<1>2. CASE s \in StopStreams BY <1>1, <1>2, StoppedOut
<1>3. CASE s \notin StopStreams
  <2>1. s \in Unstopped BY <1>3 DEF Unstopped
  <2>2. /\ SeenFed' = SeenFed /\ SeenFinned' = SeenFinned /\ SeenGot' = SeenGot
        /\ SeenBroken' = SeenBroken
    BY DEF SeenFed, SeenFinned, SeenGot, SeenBroken, Broken, Unstopped
  <2>3. SeenEnded' = SeenEnded \cup {s} BY <2>1 DEF SeenEnded, Unstopped
  <2>4. SeenGot[s] = got[s] /\ SeenFed[s] = fed[s] BY <2>1 DEF SeenGot, SeenFed
  <2>5. CASE s \in Broken
    <3>1. s \in SeenBroken BY <2>1, <2>5 DEF SeenBroken, Broken
    <3>2. Delivery!Stray(s) BY <2>2, <2>3, <3>1 DEF Delivery!Stray
    <3> QED BY <2>1, <3>2 DEF Delivery!AbsNext
  <2>6. CASE s \notin Broken
    <3>1. s \in SeenFinned /\ s \notin SeenEnded BY <1>3, <2>1, <2>6 DEF SeenFinned, SeenEnded
    <3>2. Delivery!End(s) BY <1>3, <2>2, <2>3, <2>4, <2>6, <3>1 DEF Delivery!End
    <3> QED BY <2>1, <3>2 DEF Delivery!AbsNext
  <2> QED BY <2>5, <2>6
<1> QED BY <1>2, <1>3

(* A frame, a frame that leaves no trace, or the FIN, arrives; the         *)
(* connection may refuse the stream.                                       *)
LEMMA ArriveOut ==
  ASSUME inserts' = inserts, NEW s \in Streams, s \notin finned, got' = got, ended' = ended,
         NEW F, fed \in [Streams -> Seq(F)],
         \/ fed' = fed \/ \E f \in AllFrames : fed' = [fed EXCEPT ![s] = Append(@, f)],
         finned' \in {finned, finned \cup {s}}, Broken' \in {Broken, Broken \cup {s}}
  PROVE  [Delivery!AbsNext]_Seen
<1>1. \A t \in Streams : t # s => Alike(t) BY DEF Alike
<1>2. CASE s \in StopStreams BY <1>1, <1>2, StoppedOut
<1>3. CASE s \notin StopStreams
  <2>1. s \in Unstopped BY <1>3 DEF Unstopped
  <2>2. SeenGot' = SeenGot /\ SeenEnded' = SeenEnded
    BY DEF SeenGot, SeenEnded, Unstopped
  <2>3. SeenFinned' \in {SeenFinned, SeenFinned \cup {s}} /\ s \notin SeenFinned
    BY <2>1 DEF SeenFinned, Unstopped
  <2>4. SeenBroken' \in {SeenBroken, SeenBroken \cup {s}}
    BY <2>1 DEF SeenBroken, Broken, Unstopped
  <2>5. \/ \E f \in AllFrames : SeenFed' = [SeenFed EXCEPT ![s] = Append(@, f)]
        \/ SeenFed' = SeenFed
    <3>1. CASE fed' = fed BY <3>1 DEF SeenFed, Unstopped
    <3>2. CASE \E f \in AllFrames : fed' = [fed EXCEPT ![s] = Append(@, f)]
      <4>1. PICK f \in AllFrames : fed' = [fed EXCEPT ![s] = Append(@, f)] BY <3>2
      <4>2. fed'[s] = Append(fed[s], f) BY <4>1
      <4>3. \A t \in Unstopped : t # s => fed'[t] = fed[t] BY <4>1 DEF Unstopped
      <4>4. SeenFed' = [SeenFed EXCEPT ![s] = Append(@, f)]
        BY <2>1, <4>2, <4>3 DEF SeenFed
      <4> QED BY <4>4
    <3> QED BY <3>1, <3>2
  <2>6. Delivery!Arrive(s) BY <2>2, <2>3, <2>4, <2>5 DEF Delivery!Arrive
  <2> QED BY <2>1, <2>6 DEF Delivery!AbsNext
<1> QED BY <1>2, <1>3


(* A frame the peer sends is one StreamDelivery knows.                     *)
LEMMA KnownFrames ==
  ASSUME StreamsIInv
  PROVE  scope.frames \subseteq AllFrames
BY DEF StreamsIInv, Types, AllFrames

LEMMA CallFailsOut ==
  ASSUME StreamsIInv, NEW s \in Streams, NEW new, NEW rest \in SUBSET Pairs, NEW d \in Nat,
         CallFails(s, new, rest, d)
  PROVE  [Delivery!AbsNext]_Seen
<1>1. /\ inserts' = inserts /\ fed' = fed /\ finned' = finned /\ got' = got /\ ended' = ended
      /\ net' = WithRefused(net, s, d) \/ net' = WithFailed(net, s, d, rest)
  BY Zenon DEF CallFails, WithRefused, WithFailed
<1>2. net \in Nets BY DEF StreamsIInv, Types
<1>3. Broken' = Broken \cup {s}
  <2>1. PICK n : n = net' OBVIOUS
  <2>2. CASE n = WithRefused(net, s, d)
    <3>1. n.refused = net.refused \cup {s} /\ n.failed = net.failed BY <1>2, <2>2, NetRefused
    <3> QED BY <2>1, <3>1 DEF Broken
  <2>3. CASE n = WithFailed(net, s, d, rest)
    <3>1. n.refused = net.refused /\ n.failed = net.failed \cup {s} BY <1>2, <2>3, NetFailed
    <3> QED BY <2>1, <3>1 DEF Broken
  <2> QED BY <1>1, <2>1, <2>2, <2>3
<1> QED BY <1>1, <1>3, FailOut

LEMMA EmitOut ==
  ASSUME StreamsIInv, NEW s \in Streams, NEW st, NEW f \in scope.frames,
         NEW trailer \in BOOLEAN, NEW rest \in SUBSET Pairs,
         EmitHeaders(s, st, f, trailer, rest),
         s \notin StopStreams /\ s \notin Broken =>
            /\ Len(got[s]) < Len(fed[s])
            /\ fed[s][Len(got[s]) + 1] = f /\ f.ric <= inserts
  PROVE  [Delivery!AbsNext]_Seen
<1>1. Counted(f) \in Nat BY DEF Counted
<1>2. CASE Valid(f, trailer)
  <2>1. /\ inserts' = inserts /\ fed' = fed /\ finned' = finned /\ ended' = ended
        /\ got' = [got EXCEPT ![s] = Append(@, f)]
        /\ net' = WithDecoded(net, s, Counted(f))
    BY <1>2, Zenon DEF EmitHeaders, WithDecoded
  <2>2. net \in Nets /\ got \in [Streams -> Seq(scope.frames)] BY DEF StreamsIInv, Types
  <2>3. PICK n : n = net' OBVIOUS
  <2>4. n.refused = net.refused /\ n.failed = net.failed BY <1>1, <2>1, <2>2, <2>3, NetDecoded
  <2>5. Broken' = Broken BY <2>3, <2>4 DEF Broken
  <2> QED BY <2>1, <2>2, <2>5, KnownFrames, DeliverOut
<1>3. CASE ~Valid(f, trailer)
  <2>1. CallFails(s, st, rest, Counted(f)) BY <1>3, Zenon DEF EmitHeaders
  <2> QED BY <1>1, <2>1, CallFailsOut
<1> QED BY <1>2, <1>3

(* The first frame in the buffer is the next to be handed over.            *)
LEMMA HeadNext ==
  ASSUME StreamsIInv, Running, St.buf # <<>>, Head(St.buf).kind # "unknown",
         S \notin StopStreams, S \notin Broken
  PROVE  Len(got[S]) < Len(fed[S]) /\ fed[S][Len(got[S]) + 1] = Head(St.buf)
<1>1. PICK s \in Streams : s = S BY ReadFacts
<1>2. s \notin net.stopped BY <1>1, StreamFacts DEF SoundAt, AnsweredAt
<1>3. PICK q \in Seq(scope.frames) : q = fed[s] BY <1>1, HeadFacts
<1>4. PICK g \in Seq(scope.frames) : g = got[s] BY <1>1, HeadFacts
<1>5. Faithful(St, q, g) BY <1>1, <1>2, <1>3, <1>4, HeadFacts DEF Broken
<1>6. St.held = <<>> BY <1>1, ReadFacts DEF St
<1>7. Len(St.held) = 0 BY <1>6
<1>8. Len(g) \in Nat /\ Len(q) \in Nat BY LenProperties
<1>9. Len(g) <= Len(q) /\ Shows(St.buf, q, Len(g)) BY <1>5, <1>7, <1>8 DEF Faithful
<1>10. Len(g) + 1 <= Len(q) /\ q[Len(g) + 1] = Head(St.buf)
  BY <1>8, <1>9, HeadFacts, ShowsTail
<1> QED BY <1>1, <1>3, <1>4, <1>8, <1>10

LEMMA DataOut ==
  ASSUME StreamsIInv, ReadData
  PROVE  [Delivery!AbsNext]_Seen
<1>1. Running /\ St.buf # <<>> /\ Head(St.buf).kind = "data"
  BY DEF ReadData, Reads, Running
<1>2. CASE \E code \in {"H3_FRAME_UNEXPECTED", "H3_EXCESSIVE_LOAD"} : ConnectionError(code)
  <2>1. inserts' = inserts /\ fed' = fed /\ finned' = finned /\ got' = got /\ ended' = ended
        /\ net' = net
    BY <1>2, Zenon DEF ConnectionError
  <2> QED BY <2>1, QuietOut
<1>3. CASE ~ \E code \in {"H3_FRAME_UNEXPECTED", "H3_EXCESSIVE_LOAD"} : ConnectionError(code)
  <2>1. ~ConnectionError("H3_FRAME_UNEXPECTED") /\ ~ConnectionError("H3_EXCESSIVE_LOAD")
    BY <1>3
  <2>2. PICK f : f = Head(St.buf) OBVIOUS
  <2>3. /\ got' = [got EXCEPT ![S] = Append(@, Head(St.buf))]
        /\ inserts' = inserts /\ fed' = fed /\ finned' = finned /\ ended' = ended /\ net' = net
    BY <2>1, Zenon DEF ReadData
  <2>4. PICK s \in Streams : s = S BY <1>1, ReadFacts
  <2>5. f \in scope.frames /\ f \in AllFrames /\ f.ric = 0 /\ inserts \in Nat
    BY <1>1, <2>2, HeadFacts, KnownFrames, ScopeFacts DEF StreamsIInv
  <2>6. got' = [got EXCEPT ![s] = Append(@, f)] BY <2>2, <2>3, <2>4
  <2>7. got \in [Streams -> Seq(scope.frames)] BY DEF StreamsIInv, Types
  <2>8. s \notin StopStreams /\ s \notin Broken =>
            /\ Len(got[s]) < Len(fed[s])
            /\ fed[s][Len(got[s]) + 1] = f /\ f.ric <= inserts
    BY <1>1, <2>2, <2>4, <2>5, HeadNext
  <2>9. inserts' = inserts /\ Broken' = Broken BY <2>3 DEF Broken
  <2> QED BY <2>3, <2>5, <2>6, <2>7, <2>8, <2>9, DeliverOut
<1> QED BY <1>2, <1>3

LEMMA HeadersOut ==
  ASSUME StreamsIInv, ReadHeaders
  PROVE  [Delivery!AbsNext]_Seen
<1> DEFINE f == Head(St.buf)
           trailer == St.recv = "ReceivingBody"
           st == [Consumed(St) EXCEPT !.recv = IF trailer THEN "TrailersReceived"
                                               ELSE "ReceivingBody"]
<1>1. Running /\ St.buf # <<>> /\ f.kind = "headers"
  BY DEF ReadHeaders, Reads, Running
<1>2. \/ /\ inserts' = inserts /\ fed' = fed /\ finned' = finned /\ got' = got
         /\ ended' = ended /\ net' = net
      \/ CallFails(S, st, call.rest, 0)
      \/ ~(f.ric > inserts) /\ EmitHeaders(S, st, f, trailer, call.rest)
  BY Zenon DEF ReadHeaders, ConnectionError
<1>3. PICK s \in Streams : s = S BY <1>1, ReadFacts
<1>4. f \in scope.frames /\ f.ric \in Nat /\ inserts \in Nat /\ call.rest \in SUBSET Pairs
      /\ trailer \in BOOLEAN
  BY <1>1, HeadFacts, ReadFacts, ScopeFacts DEF StreamsIInv
<1>5. s \notin StopStreams /\ s \notin Broken =>
         Len(got[s]) < Len(fed[s]) /\ fed[s][Len(got[s]) + 1] = f
  BY <1>1, <1>3, HeadNext
<1> HIDE DEF f, trailer, st
<1>6. CASE /\ inserts' = inserts /\ fed' = fed /\ finned' = finned /\ got' = got
           /\ ended' = ended /\ net' = net
  BY <1>6, QuietOut
<1>7. CASE CallFails(S, st, call.rest, 0)
  BY <1>3, <1>4, <1>7, CallFailsOut
<1>8. CASE ~(f.ric > inserts) /\ EmitHeaders(S, st, f, trailer, call.rest)
  <2>1. f.ric <= inserts BY <1>4, <1>8
  <2> QED BY <1>3, <1>4, <1>5, <1>8, <2>1, EmitOut
<1> QED BY <1>2, <1>6, <1>7, <1>8

LEMMA EndingOut ==
  ASSUME StreamsIInv, ReadEnd
  PROVE  [Delivery!AbsNext]_Seen
<1> DEFINE st == [St EXCEPT !.state = CloseRemote(@), !.recv = "Complete"]
<1>1. Running /\ St.buf = <<>> BY DEF ReadEnd, Running
<1>2. \/ /\ inserts' = inserts /\ fed' = fed /\ finned' = finned /\ got' = got
         /\ ended' = ended /\ net' = net
      \/ CallFails(S, St, call.rest, 0)
      \/ CallFails(S, st, call.rest, 0)
      \/ /\ St.fin /\ St.recv # "Complete" /\ ended' = ended \cup {S}
         /\ inserts' = inserts /\ fed' = fed /\ finned' = finned /\ got' = got /\ net' = net
  BY Zenon DEF ReadEnd
<1> HIDE DEF st
<1>3. PICK s \in Streams : s = S BY <1>1, ReadFacts
<1>4. s \in live /\ St = str[s] /\ SoundAt(s) /\ call.rest \in SUBSET Pairs
      /\ str[s].held = <<>>
  BY <1>1, <1>3, ReadFacts, StreamFacts DEF St
<1>5. CASE /\ inserts' = inserts /\ fed' = fed /\ finned' = finned /\ got' = got
           /\ ended' = ended /\ net' = net
  BY <1>5, QuietOut
<1>6. CASE CallFails(S, St, call.rest, 0) BY <1>3, <1>4, <1>6, CallFailsOut
<1>7. CASE CallFails(S, st, call.rest, 0) BY <1>3, <1>4, <1>7, CallFailsOut
<1>8. CASE /\ St.fin /\ St.recv # "Complete" /\ ended' = ended \cup {S}
           /\ inserts' = inserts /\ fed' = fed /\ finned' = finned /\ got' = got /\ net' = net
  <2>1. s \in finned BY <1>4, <1>8 DEF SoundAt, LifeAt
  <2>2. s \notin ended BY <1>4, <1>8 DEF SoundAt, DeliveredAt
  <2>3. s \notin StopStreams /\ s \notin Broken => got[s] = fed[s]
    <3> SUFFICES ASSUME s \notin StopStreams, s \notin Broken PROVE got[s] = fed[s]
      OBVIOUS
    <3>1. s \notin net.stopped BY <1>4 DEF SoundAt, AnsweredAt
    <3>2. PICK q \in Seq(scope.frames) : q = fed[s] BY DEF StreamsIInv, Types
    <3>3. PICK g \in Seq(scope.frames) : g = got[s] BY DEF StreamsIInv, Types
    <3>4. Faithful(str[s], q, g) BY <1>4, <3>1, <3>2, <3>3 DEF SoundAt, DeliveredAt, Broken
    <3>5. Len(str[s].held) = 0 /\ str[s].buf = <<>> BY <1>1, <1>4
    <3>6. Len(g) \in Nat /\ Len(q) \in Nat BY LenProperties
    <3>7. Len(g) <= Len(q) /\ Shows(<<>>, q, Len(g)) /\ \A i \in 1 .. Len(g) : g[i] = q[i]
      BY <3>4, <3>5, <3>6 DEF Faithful
    <3>8. Len(q) = Len(g) BY <3>6, <3>7, ShowsNothing
    <3>9. g = q BY <3>7, <3>8, SeqEqual
    <3> QED BY <3>2, <3>3, <3>9
  <2>4. Broken' = Broken BY <1>8 DEF Broken
  <2>5. ended' = ended \cup {s} BY <1>3, <1>8
  <2> QED BY <1>8, <2>1, <2>2, <2>3, <2>4, <2>5, EndOut
<1> QED BY <1>2, <1>5, <1>6, <1>7, <1>8


LEMMA RetryOut ==
  ASSUME StreamsIInv, RetryNext
  PROVE  [Delivery!AbsNext]_Seen
<1> DEFINE p == First(call.rest)
           s == p[2]
           rest == call.rest \ {p}
           f == str[s].held[1].frame
           trailer == str[s].held[1].trailer
           taken == [str[s] EXCEPT !.held = <<>>]
           free == [taken EXCEPT !.blocked = FALSE, !.ricnt = 0]
<1>1. call.op = "retry" BY DEF RetryNext
<1>2. /\ s \in Streams /\ s \in live /\ rest \in SUBSET Pairs /\ str[s].held # <<>>
      /\ Len(str[s].held) = 1 /\ f \in scope.frames /\ trailer \in BOOLEAN
      /\ f.ric <= inserts
  <2> HIDE DEF p
  <2>1. p = First(call.rest) BY DEF p
  <2>2. /\ s = p[2] /\ rest = call.rest \ {p}
        /\ f = str[s].held[1].frame /\ trailer = str[s].held[1].trailer
    OBVIOUS
  <2> HIDE DEF s, rest, f, trailer
  <2> QED BY <1>1, <2>1, <2>2, RetryFacts
<1>3. \/ CallFails(s, taken, rest, 0)
      \/ CallFails(s, free, rest, Counted(f))
      \/ EmitHeaders(s, free, f, trailer, rest)
  <2>1. ~(s \notin live \/ str[s].held = <<>>) BY <1>2
  <2> HIDE DEF StreamsIInv
  <2> QED BY <2>1, Zenon DEF RetryNext
<1>4. str[s].held[1].frame = f OBVIOUS
<1> HIDE DEF p, s, rest, f, trailer, taken, free
<1>5. s \notin StopStreams /\ s \notin Broken =>
         Len(got[s]) < Len(fed[s]) /\ fed[s][Len(got[s]) + 1] = f
  <2> SUFFICES ASSUME s \notin StopStreams, s \notin Broken
               PROVE  Len(got[s]) < Len(fed[s]) /\ fed[s][Len(got[s]) + 1] = f
    OBVIOUS
  <2>1. SoundAt(s) BY <1>2, StreamFacts
  <2>2. s \notin net.stopped BY <2>1 DEF SoundAt, AnsweredAt
  <2>3. PICK q \in Seq(scope.frames) : q = fed[s] BY <1>2 DEF StreamsIInv, Types
  <2>4. PICK g \in Seq(scope.frames) : g = got[s] BY <1>2 DEF StreamsIInv, Types
  <2>5. Faithful(str[s], q, g) BY <1>2, <2>1, <2>2, <2>3, <2>4 DEF SoundAt, DeliveredAt, Broken
  <2>6. Len(g) \in Nat /\ Len(q) \in Nat BY LenProperties
  <2>7. Len(g) + 1 <= Len(q) /\ q[Len(g) + 1] = f BY <1>2, <1>4, <2>5, <2>6 DEF Faithful
  <2> QED BY <2>3, <2>4, <2>6, <2>7
<1>6. CASE CallFails(s, taken, rest, 0) BY <1>2, <1>6, CallFailsOut
<1>7. CASE CallFails(s, free, rest, Counted(f))
  <2>1. Counted(f) \in Nat BY DEF Counted
  <2> QED BY <1>2, <1>7, <2>1, CallFailsOut
<1>8. CASE EmitHeaders(s, free, f, trailer, rest)
  BY <1>2, <1>5, <1>8, EmitOut
<1> QED BY <1>3, <1>6, <1>7, <1>8

LEMMA LoopOut ==
  ASSUME StreamsIInv, LoopStep
  PROVE  [Delivery!AbsNext]_Seen
<1>1. CASE ReadForbidden \/ ReadCut \/ ReadUnknown
  <2>1. inserts' = inserts /\ fed' = fed /\ finned' = finned /\ got' = got /\ ended' = ended
        /\ net' = net
    BY <1>1, Zenon DEF ReadForbidden, ReadCut, ReadUnknown, ConnectionError
  <2> QED BY <2>1, QuietOut
<1>2. CASE ReadGarbled
  <2>1. Running /\ CallFails(S, St, call.rest, 0) BY <1>2 DEF ReadGarbled, Reads, Running
  <2>2. PICK s \in Streams : s = S BY <2>1, ReadFacts
  <2> QED BY <2>1, <2>2, ReadFacts, CallFailsOut
<1> QED BY <1>1, <1>2, DataOut, HeadersOut, EndingOut, RetryOut DEF LoopStep

LEMMA FeedOut ==
  ASSUME StreamsIInv, NEW s \in Streams, NEW fin \in BOOLEAN,
         NEW chunk \in {<<>>} \cup {<<f>> : f \in scope.frames}, FeedStream(s, chunk, fin)
  PROVE  [Delivery!AbsNext]_Seen
<1> DEFINE shown == IF chunk # <<>> /\ chunk[1].kind = "unknown" THEN <<>> ELSE chunk
<1>1. /\ s \notin finned
      /\ fed' = [fed EXCEPT ![s] = fed[s] \o shown]
      /\ finned' = IF fin THEN finned \cup {s} ELSE finned
      /\ net' = WithRejected(net, s) \/ net' = WithArrived(net, s, Len(chunk))
      /\ inserts' = inserts /\ got' = got /\ ended' = ended
  BY Zenon DEF FeedStream, MayArrive, WithRejected, WithArrived
<1>2. PICK F : F = scope.frames OBVIOUS
<1>3. fed \in [Streams -> Seq(F)] /\ net \in Nets BY <1>2 DEF StreamsIInv, Types
<1>4. \/ shown = <<>> /\ Len(chunk) \in Nat
      \/ \E f \in F : shown = <<f>> /\ Len(chunk) \in Nat
  BY <1>2
<1> HIDE DEF shown
<1>5. Len(chunk) \in Nat BY <1>4
<1>6. fed' = fed \/ \E f \in AllFrames : fed' = [fed EXCEPT ![s] = Append(@, f)]
  <2>1. CASE shown = <<>>
    <3>1. PICK none \in Seq(F) : none = <<>> BY EmptySeq
    <3>2. fed[s] \o shown = fed[s] BY <1>3, <2>1, <3>1, ConcatEmptySeq
    <3> QED BY <1>1, <1>3, <3>2
  <2>2. CASE \E f \in F : shown = <<f>>
    <3>1. PICK f \in F : shown = <<f>> BY <2>2
    <3>2. fed[s] \o shown = Append(fed[s], f) BY <1>3, <3>1, OneFrame
    <3>3. f \in AllFrames BY <1>2, KnownFrames
    <3> QED BY <1>1, <3>2, <3>3
  <2> QED BY <1>4, <2>1, <2>2
<1>7. Broken' \in {Broken, Broken \cup {s}}
  <2>1. PICK n : n = net' OBVIOUS
  <2>2. CASE n = WithRejected(net, s)
    <3>1. n.refused = net.refused \cup {s} /\ n.failed = net.failed BY <1>3, <2>2, NetRejected
    <3> QED BY <2>1, <3>1 DEF Broken
  <2>3. CASE n = WithArrived(net, s, Len(chunk))
    <3>1. PICK k \in Nat : k = Len(chunk) BY <1>5
    <3>2. SameFates(n) BY <1>3, <2>3, <3>1, NetArrived
    <3> QED BY <2>1, <3>2 DEF Broken, SameFates
  <2> QED BY <1>1, <2>1, <2>2, <2>3
<1>8. finned' \in {finned, finned \cup {s}} BY <1>1
<1> QED BY <1>1, <1>3, <1>6, <1>7, <1>8, ArriveOut

LEMMA InsertionOut ==
  ASSUME StreamsIInv, EncoderStream
  PROVE  [Delivery!AbsNext]_Seen
<1>1. inserts' = inserts + 1 /\ fed' = fed /\ finned' = finned /\ got' = got /\ ended' = ended
      /\ net' = net
  BY Zenon DEF EncoderStream
<1>2. /\ SeenFed' = SeenFed /\ SeenGot' = SeenGot /\ SeenFinned' = SeenFinned
      /\ SeenEnded' = SeenEnded /\ SeenBroken' = SeenBroken
  BY <1>1 DEF SeenFed, SeenGot, SeenFinned, SeenEnded, SeenBroken
<1>3. Delivery!Insertion BY <1>1, <1>2 DEF Delivery!Insertion
<1> QED BY <1>3 DEF Delivery!AbsNext

(* Resets, STOP_SENDING, GOAWAY, the decoder stream and everything that is *)
(* sent: nothing is handed over.                                           *)
LEMMA OtherOut ==
  ASSUME StreamsIInv,
         \/ PollEvent \/ OpenDecoderStream
         \/ \E id \in scope.goaways : Goaway(id)
         \/ \E s \in Streams : StreamReset(s) \/ StopSending(s) \/ TakeStreamData(s)
         \/ \E s \in Streams, connect, fin \in BOOLEAN : SendRequest(s, connect, fin)
         \/ \E s \in Streams, interim, fin \in BOOLEAN : SendResponse(s, interim, fin)
         \/ \E s \in Streams, empty, fin \in BOOLEAN : SendBody(s, empty, fin)
  PROVE  [Delivery!AbsNext]_Seen
<1>1. net \in Nets BY DEF StreamsIInv, Types
<1>2. CASE PollEvent \/ OpenDecoderStream \/ \E id \in scope.goaways : Goaway(id)
  <2>1. inserts' = inserts /\ fed' = fed /\ finned' = finned /\ got' = got /\ ended' = ended
        /\ net' = net
    BY <1>2, Zenon DEF PollEvent, OpenDecoderStream, Goaway
  <2> QED BY <2>1, QuietOut
<1>3. ASSUME NEW s \in Streams, StreamReset(s) PROVE [Delivery!AbsNext]_Seen
  <2>1. inserts' = inserts /\ fed' = fed /\ finned' = finned /\ got' = got /\ ended' = ended
        /\ net' = WithReset(net, s)
    BY <1>3, Zenon DEF StreamReset, WithReset
  <2>2. PICK n : n = net' OBVIOUS
  <2>3. SameFates(n) BY <1>1, <2>1, <2>2, NetReset
  <2> QED BY <2>1, <2>2, <2>3, QuietOut DEF SameFates
<1>4. ASSUME NEW s \in Streams, StopSending(s) PROVE [Delivery!AbsNext]_Seen
  <2>1. inserts' = inserts /\ fed' = fed /\ finned' = finned /\ got' = got /\ ended' = ended
        /\ net' = WithStopped(net, s)
    BY <1>4, Zenon DEF StopSending, WithStopped
  <2>2. PICK n : n = net' OBVIOUS
  <2>3. SameFates(n) BY <1>1, <2>1, <2>2, NetStopped
  <2> QED BY <2>1, <2>2, <2>3, QuietOut DEF SameFates
<1>5. ASSUME NEW s \in Streams, TakeStreamData(s) PROVE [Delivery!AbsNext]_Seen
  <2>1. inserts' = inserts /\ fed' = fed /\ finned' = finned /\ got' = got /\ ended' = ended
        /\ net' = net
    BY <1>5, Zenon DEF TakeStreamData
  <2> QED BY <2>1, QuietOut
<1>6. ASSUME NEW s \in Streams, NEW connect \in BOOLEAN, NEW fin \in BOOLEAN,
             SendRequest(s, connect, fin)
      PROVE  [Delivery!AbsNext]_Seen
  <2>1. /\ inserts' = inserts /\ fed' = fed /\ finned' = finned /\ got' = got /\ ended' = ended
        /\ net' = WithUsed(net, s) \/ net' = WithOpened(net, s)
    BY <1>6, Zenon DEF SendRequest, WithUsed, WithOpened
  <2>2. PICK n : n = net' OBVIOUS
  <2>3. SameFates(n) BY <1>1, <2>1, <2>2, NetUsed, NetOpened
  <2> QED BY <2>1, <2>2, <2>3, QuietOut DEF SameFates
<1>7. ASSUME NEW s \in Streams, net' = WithSend(net, s), inserts' = inserts, fed' = fed,
             finned' = finned, got' = got, ended' = ended
      PROVE  [Delivery!AbsNext]_Seen
  <2>1. PICK n : n = net' OBVIOUS
  <2>2. SameFates(n) BY <1>1, <1>7, <2>1, NetSend
  <2> QED BY <1>7, <2>1, <2>2, QuietOut DEF SameFates
<1>8. ASSUME NEW s \in Streams, NEW interim \in BOOLEAN, NEW fin \in BOOLEAN,
             SendResponse(s, interim, fin)
      PROVE  [Delivery!AbsNext]_Seen
  <2>1. inserts' = inserts /\ fed' = fed /\ finned' = finned /\ got' = got /\ ended' = ended
        /\ net' = WithSend(net, s)
    BY <1>8, Zenon DEF SendResponse, WithSend
  <2> QED BY <1>7, <2>1
<1>9. ASSUME NEW s \in Streams, NEW empty \in BOOLEAN, NEW fin \in BOOLEAN,
             SendBody(s, empty, fin)
      PROVE  [Delivery!AbsNext]_Seen
  <2>1. inserts' = inserts /\ fed' = fed /\ finned' = finned /\ got' = got /\ ended' = ended
        /\ net' = WithSend(net, s)
    BY <1>9, Zenon DEF SendBody, WithSend
  <2> QED BY <1>7, <2>1
<1> QED BY <1>2, <1>3, <1>4, <1>5, <1>6, <1>8, <1>9, Zenon

LEMMA InitOut == Init => Delivery!AbsInit
<1> SUFFICES ASSUME Init PROVE Delivery!AbsInit OBVIOUS
<1>1. /\ inserts = 0 /\ fed = [s \in Streams |-> <<>>] /\ got = [s \in Streams |-> <<>>]
      /\ finned = {} /\ ended = {} /\ net.refused = {} /\ net.failed = {}
  BY DEF Init
<1>2. /\ SeenFed = [s \in Unstopped |-> <<>>] /\ SeenGot = [s \in Unstopped |-> <<>>]
      /\ SeenFinned = {} /\ SeenEnded = {} /\ SeenBroken = {}
  BY <1>1 DEF SeenFed, SeenGot, SeenFinned, SeenEnded, SeenBroken, Unstopped
<1> QED BY <1>1, <1>2 DEF Delivery!AbsInit

(* On every stream the peer does not stop, the application sees the frames *)
(* in the order they arrived, each once, a section when its insertions are *)
(* there, the end last; a call that fails on one stream does not disturb   *)
(* the others (process_stream_frames, retry_blocked_streams, poll_event).  *)
THEOREM RefinesDelivery == Spec => ImplementsDelivery
<1>1. StreamsIInv /\ [Next]_vars => [Delivery!AbsNext]_Seen
  <2> SUFFICES ASSUME StreamsIInv, [Next]_vars
               PROVE  [Delivery!AbsNext]_Seen
    OBVIOUS
  <2>1. scope.streams \subseteq Streams BY ScopeFacts DEF StreamsIInv
  <2>2. CASE LoopStep BY <2>2, LoopOut
  <2>3. CASE \E s \in scope.streams, fin \in BOOLEAN,
                chunk \in {<<>>} \cup {<<f>> : f \in scope.frames} : FeedStream(s, chunk, fin)
    BY <2>1, <2>3, FeedOut
  <2>4. CASE EncoderStream BY <2>4, InsertionOut
  <2>5. CASE UNCHANGED vars
    <3>1. inserts' = inserts /\ fed' = fed /\ finned' = finned /\ got' = got /\ ended' = ended
          /\ net' = net
      BY <2>5, Zenon DEF vars
    <3> QED BY <3>1, QuietOut
  <2>6. CASE \/ PollEvent \/ OpenDecoderStream
             \/ \E id \in scope.goaways : Goaway(id)
             \/ \E s \in scope.streams : StreamReset(s) \/ StopSending(s) \/ TakeStreamData(s)
             \/ \E s \in scope.streams, connect, fin \in BOOLEAN : SendRequest(s, connect, fin)
             \/ \E s \in scope.streams, interim, fin \in BOOLEAN : SendResponse(s, interim, fin)
             \/ \E s \in scope.streams, empty, fin \in BOOLEAN : SendBody(s, empty, fin)
    BY <2>1, <2>6, OtherOut, Zenon
  <2> QED BY <2>2, <2>3, <2>4, <2>5, <2>6 DEF Next
<1> QED BY <1>1, InitOut, StreamsInvariant, PTL DEF Spec, ImplementsDelivery, Delivery!AbsSpec,
        Delivery!absVars, Seen
=============================================================================
