-------------------------- MODULE WtDriver_proofs --------------------------
(***************************************************************************)
(* For any scopes, limits and channel, and for any number of items on the  *)
(* CONNECT stream, however they are cut into chunks: the application       *)
(* learns of the end of the session once, and of the right one; the last   *)
(* words on the CONNECT stream are what they must be; and no credit and no *)
(* byte of a data stream is made up.                                       *)
(*                                                                         *)
(* The invariant has a part for each concern.  That of the session says    *)
(* where its end is: recorded in the connection, queued there, taken by    *)
(* the application's call, or delivered, and nowhere twice.                *)
(***************************************************************************)
EXTENDS WtDriver, SequenceTheorems, FiniteSetTheorems, NaturalsInduction,
        WellFoundedInduction, TLAPS

-----------------------------------------------------------------------------
(* The types of the state.  What is read, waits or is told comes from what *)
(* the peer has sent, so the maxima among it are granted.                  *)

Kinds == HeaderKinds[scope.role] \cup {"max", "drain", "close", "half", "fin", "reset"}
Items == [k : Kinds, v : 0 .. MaxLimit]
Capsules == {x \in Range(sent) : x.k \in {"max", "drain", "close", "half"}}
Codes == {"alpn", "peer", "clean", "gone", "flow control"}
Events ==
    [k : {"max"}, v : Granted] \cup [k : {"closed"}, v : Codes]
    \cup [k : {"drain", "established"}, v : {0}] \cup [k : {"headers"}, v : Kinds]

Connections ==
    [settings : BOOLEAN, inserted : BOOLEAN, goaway : BOOLEAN, error : BOOLEAN,
     ses : {"none", "pending", "established", "draining", "closed"},
     ended : {"none"} \cup Codes, parked : Seq(Range(sent)), caps : Seq(Capsules),
     half : BOOLEAN, events : Seq(Events)]

AppPlaces == {"accept", "wait", "sleep", "request", "drain", "select", "reject", "decide",
              "collect", "start", "open", "dropped", "failed"}
RecvPlaces == {"none", "pending", "receive", "residual", "finish", "done", "aborted"}
Places ==
    [app : AppPlaces, ctl : {"receive", "notify", "notify last", "done"},
     acceptor : {"accept", "done"}, recv : RecvPlaces, route : {"header", "hand over", "done"}]
Calls ==
    [events : Seq(Events), caps : Seq(Granted), result : {"none", "error", "rejected", "ok"},
     closing : {"none", "asked", "ok", "error"}]
Commands ==
    [k : {"capsule"}, v : {"application", "flow control"}] \cup [k : {"finish", "reset"}, v : {"none"}]
Greetings == {"connect", "2xx"}
Words == Greetings \cup {"4xx", "fin", "reset", "application", "flow control"}
DataStreams ==
    [total : Nat, arrived : Seq(Nat), fin : BOOLEAN, buf : Seq(Nat), pending : Seq(Nat),
     read : Seq(Nat), chan : 0 .. UniCapacity, held : BOOLEAN]

Types ==
    /\ scope \in Scopes
    /\ conn \in {"up", "lost", "closed"}
    /\ sent \in Seq(Items) /\ inbox \in Seq(Range(sent))
    /\ ctl \in Seq({"settings", "insert", "goaway", "critical"})
    /\ h3 \in Connections /\ pc \in Places /\ call \in Calls
    /\ task \in [delivered : BOOLEAN, saw : {"none", "violation", "malformed"}]
    /\ fc \in [enabled : BOOLEAN, limit : 0 .. MaxLimit, used : 0 .. MaxLimit + 1]
    /\ events \in Seq(Events) /\ cmds \in Seq(Commands) /\ wire \in Seq(Words)
    /\ data \in DataStreams

-----------------------------------------------------------------------------
(* The data stream: until the header is read, what has arrived is all of   *)
(* the stream; then, what is read and what will be is its payload.         *)

Numbers(from, to) == [i \in 1 .. to - from |-> i + from]
DataInv ==
    /\ pc.route = "header" =>
          /\ data.buf \o data.arrived = Numbers(0, data.total)
          /\ data.pending = <<>> /\ data.read = <<>> /\ data.chan = 0 /\ ~data.held
    /\ pc.route = "hand over" \/ data.chan > 0 \/ data.held =>
          /\ data.total >= HeaderLen
          /\ data.read \o data.pending \o data.arrived = Numbers(HeaderLen, data.total)

(* The credit: the limit has been granted.                                 *)
CreditInv == fc.enabled => fc.limit \in Granted /\ fc.used <= fc.limit

-----------------------------------------------------------------------------
(* The session in the connection.                                          *)

Closed(q) == Of(q, {"closed"})
Once(q) == \A i, j \in Closed(q) : i = j
Some(q, kind) == Of(q, {kind}) # {}
Tells(q, code) == \A i \in Closed(q) : q[i].v = code

\* The session has been established, and if it is over its end is recorded.
Began(h) == h.ses \in {"established", "draining"} \/ (h.ses = "closed" /\ h.ended # "none")

\* The end that is recorded is told once: in the queue of the connection, or it
\* has been taken out of it before.
EndSound(h, told) ==
    /\ h.ended # "none" => h.ses = "closed"
    /\ h.ended # "none" <=> told \/ HasClosed(h.events)
    /\ ~(told /\ HasClosed(h.events))
    /\ Once(h.events) /\ Tells(h.events, h.ended)

\* A response, or a request, of which there is one; only interim ones precede it.
Response(x) == x.k \in {"ok", "late", "no", "malformed", "badproto", "get"}
HasResponse(q) == \E i \in DOMAIN q : Response(q[i])
Ordered(q) == \A j \in DOMAIN q : Response(q[j]) => \A i \in 1 .. j - 1 : q[i].k = "interim"

\* What waits begins with the section that does; more: one is still to come.
ParkedSound(h, more) ==
    h.parked # <<>> =>
       /\ h.parked[1].k = "late" /\ ~more
       /\ \A i \in 2 .. Len(h.parked) : ~Response(h.parked[i])

\* Until the response is read nothing has come of the session.
HandshakeSound(h, told, more) ==
    /\ h \in Connections /\ EndSound(h, told) /\ ParkedSound(h, more)
    /\ more \/ h.parked # <<>> => h.ended = "none" /\ ~Complete(h.events)
    /\ scope.role = "client" /\ Complete(h.events) => Began(h)

\* With q in the inbox: a response is still to come.
Awaits(q) == HasResponse(q) \/ (~Responded /\ ~Over)
Coming == Awaits(inbox)
Early == {"accept", "wait", "sleep", "request", "drain", "select"}
CapsulesFollow ==
    \A i \in DOMAIN sent : sent[i].k \in {"max", "drain", "close", "half"} => HasSent({"ok", "late"})

\* Before the receiving task runs; q has been taken from the connection.
EstablishingWith(app, h, q, more) ==
    /\ HandshakeSound(h, HasClosed(q), more)
    /\ Once(q) /\ Tells(q, h.ended)
    /\ app \in Early =>
          /\ h.ended = "none" /\ ~Complete(h.events)
          /\ scope.role = "server" => ~Began(h)
    /\ app \notin Early => ~more /\ h.parked = <<>>
    /\ app \in {"reject", "decide"} => scope.role = "server" /\ ~Began(h)
    /\ app = "collect" => scope.role = "server"
    /\ app \in {"collect", "start"} => Began(h)
Establishing ==
    /\ pc.recv = "none" /\ events = <<>> /\ ~task.delivered
    /\ EstablishingWith(pc.app, h3, call.events, Coming)

\* While it reads, the end is told by the connection or has been, in q.
ReadingWith(h, q, more) ==
    /\ ~more /\ h.parked = <<>> /\ Began(h)
    /\ EndSound(h, HasClosed(q)) /\ Once(q) /\ Tells(q, h.ended)
Reading ==
    IF pc.recv = "pending"
    THEN events = <<>> /\ ~task.delivered /\ ReadingWith(h3, call.events, Coming)
    ELSE task.delivered = HasClosed(events) /\ ReadingWith(h3, events, Coming)

\* Afterwards it is told, unless the session was dropped.
EndTold ==
    /\ Once(events)
    /\ pc.recv \in {"finish", "done"} => HasClosed(events) \/ Dropped
    /\ h3.ended = "none" \/ h3.error \/ task.saw = "violation" \/ Tells(events, h3.ended)

SessionInv ==
    /\ Ordered(inbox) /\ CapsulesFollow
    /\ pc.app \notin {"open", "dropped", "failed"} => Establishing
    /\ pc.app = "failed" => pc.recv = "none" /\ events = <<>>
    /\ pc.app \in {"open", "dropped"} =>
          /\ pc.recv # "none"
          /\ pc.recv \in {"pending", "receive", "residual"} => Reading
          /\ pc.recv \in {"finish", "done", "aborted"} => EndTold

-----------------------------------------------------------------------------
(* The sending end of the CONNECT stream.                                  *)

\* A request that waits to be sent: QUIC's answer, or the words themselves.
Asked(cmd) == cmds # <<>> /\ Head(cmds) = cmd /\ Len(wire) = 1
Said(word) == Len(wire) >= 2 /\ wire[2] = word

Unopened ==
    /\ cmds = <<>> /\ task.saw = "none" /\ call.closing = "none"
    /\ pc.app \in {"accept", "wait", "sleep", "request", "reject", "decide"} => wire = <<>>
    /\ pc.app \in {"drain", "select"} =>
          wire = IF scope.role = "client" THEN <<"connect">> ELSE <<>>
    /\ pc.app = "request" => scope.role = "client"
    /\ pc.app = "decide" => scope.role = "server"
    /\ pc.app = "collect" => wire = <<"2xx">>
    /\ pc.app = "start" => wire \in {<<"connect">>, <<"2xx">>}
    /\ pc.app = "failed" => Len(wire) <= 3 /\ "application" \notin Range(wire)

\* The application's WT_CLOSE_SESSION is asked for once.
CloseSound ==
    LET capsule == Item("capsule", "application")
    IN  /\ call.closing = "asked" <=> capsule \in Range(cmds)
        /\ \A i, j \in DOMAIN cmds : cmds[i] = capsule /\ cmds[j] = capsule => i = j
        /\ call.closing = "ok" <=> "application" \in Range(wire)
        /\ \A i \in DOMAIN wire : wire[i] = "application" => i < Len(wire) /\ wire[i + 1] = "fin"

\* The receiving task sends RESET_STREAM at most once.
ResetSound ==
    LET reset == Item("reset", "none")
    IN  /\ \A i, j \in DOMAIN cmds : cmds[i] = reset /\ cmds[j] = reset => i = j
        /\ reset \in Range(cmds) \/ pc.recv \in {"pending", "receive"} => Len(wire) <= 3
        /\ pc.recv \in {"pending", "receive"} => reset \notin Range(cmds)
        /\ Len(wire) <= 4 /\ (~Ended => Len(wire) = 1)

\* Left alone by the application, it first says what it has to.
AnswerSound ==
    ~Dropped /\ call.closing = "none" /\ conn = "up" =>
       /\ task.saw = "none" /\ pc.recv # "done" => cmds = <<>> /\ Len(wire) = 1
       /\ task.saw = "violation" => Asked(Item("capsule", "flow control")) \/ Said("flow control")
       /\ task.saw = "malformed" => Asked(Item("reset", "none")) \/ Said("reset")

Opened ==
    /\ wire # <<>> /\ wire[1] \in Greetings
    /\ \A i \in 2 .. Len(wire) : wire[i] \notin Greetings
    /\ pc.recv \in {"pending", "receive"} => task.saw = "none"
    /\ CloseSound /\ ResetSound /\ AnswerSound

WireInv == IF pc.app \in {"open", "dropped"} THEN Opened ELSE Unopened

-----------------------------------------------------------------------------
\* The inductive invariant.
DriverInv == Types /\ DataInv /\ CreditInv /\ SessionInv /\ WireInv

-----------------------------------------------------------------------------
(* Every nonempty set of numbers has a least one.                          *)
LEMMA LeastNat ==
  ASSUME NEW T \in SUBSET Nat, T # {}
  PROVE  \E n \in T : \A m \in T : n <= m
<1> DEFINE R == OpToRel(<, Nat)
<1>1. IsWellFoundedOn(R, Nat) BY NatLessThanWellFounded
<1>2. PICK n \in T : \A m \in T : <<m, n>> \notin R
  <2> HIDE DEF R
  <2> QED BY <1>1, WFMin
<1>3. \A m \in T : ~(m < n) BY <1>2 DEF OpToRel
<1> QED BY <1>3

(* Of numbers that have a bound there is a largest one.                    *)
LEMMA MaxIs ==
  ASSUME NEW n \in Nat, NEW T, T \subseteq 0 .. n, T # {}
  PROVE  Max(T) \in T /\ \A m \in T : m <= Max(T)
<1> DEFINE D == {d \in Nat : n - d \in T}
<1>1. PICK t : t \in T OBVIOUS
<1>2. n - t \in D BY <1>1
<1>3. D # {} BY <1>2
<1>4. D \in SUBSET Nat OBVIOUS
<1> HIDE DEF D
<1>5. PICK d \in D : \A m \in D : d <= m BY <1>3, <1>4, LeastNat
<1> USE DEF D
<1>6. n - d \in T BY <1>5
<1>7. \A m \in T : m <= n - d
  <2> TAKE m \in T
  <2>1. m \in 0 .. n /\ n - m \in Nat /\ n - (n - m) = m OBVIOUS
  <2>2. n - m \in D BY <2>1
  <2>3. d <= n - m /\ d \in Nat BY <1>5, <2>2
  <2> QED BY <2>1, <2>3
<1>8. \E x \in T : \A m \in T : x >= m BY <1>6, <1>7
<1>9. Max(T) \in T /\ \A m \in T : Max(T) >= m
  <2> HIDE DEF D
  <2> QED BY <1>8, Zenon DEF Max
<1> QED BY <1>9

(* A set of numbers that is not empty has a least one, and Min is it.      *)
LEMMA MinIs ==
  ASSUME NEW T, T \subseteq Nat, T # {}
  PROVE  Min(T) \in T /\ \A m \in T : Min(T) <= m
<1>1. T \in SUBSET Nat OBVIOUS
<1>2. \E x \in T : \A m \in T : x <= m BY <1>1, LeastNat
<1> QED BY <1>2, Zenon DEF Min

-----------------------------------------------------------------------------
(***************************************************************************)
(* ReadItems takes one item after the other: a[i] is what i items come to. *)
(***************************************************************************)
IsRun(a, n, h, items) ==
    a = [i \in 0 .. n |-> IF i = 0 THEN [h |-> h, failed |-> FALSE]
                          ELSE ReadItem(a[i - 1], items[i])]

(* The recursive function of ReadItems, unfolded.                          *)
LEMMA ReadItemsIsRun ==
  ASSUME NEW h, NEW items
  PROVE  ReadItems(h, items) = (CHOOSE a : IsRun(a, Len(items), h, items))[Len(items)]
BY Zenon DEF ReadItems, IsRun

(* Each item is read in what the ones before it have come to.              *)
LEMMA RunFacts ==
  ASSUME NEW h, NEW items, NEW a, NEW n \in Nat, IsRun(a, n, h, items)
  PROVE  /\ a[0] = [h |-> h, failed |-> FALSE]
         /\ \A i \in 1 .. n : a[i] = ReadItem(a[i - 1], items[i])
<1> DEFINE x == [h |-> h, failed |-> FALSE]
           r(i) == ReadItem(a[i - 1], items[i])
<1>1. a = [i \in 0 .. n |-> IF i = 0 THEN x ELSE r(i)] BY Zenon DEF IsRun
<1> HIDE DEF r, x
<1>2. a[0] = x /\ \A i \in 1 .. n : a[i] = r(i) BY <1>1
<1> QED BY <1>2 DEF r, x

(* Such a run exists for any number of items.                              *)
LEMMA RunExists ==
  ASSUME NEW h, NEW items, NEW k \in Nat
  PROVE  \E a : IsRun(a, k, h, items)
<1> DEFINE x == [h |-> h, failed |-> FALSE]
           T == {n \in Nat : ~ \E a : IsRun(a, n, h, items)}
<1> SUFFICES ASSUME T # {} PROVE FALSE OBVIOUS
<1>1. PICK n \in T : \A m \in T : n <= m
  <2>1. T \in SUBSET Nat OBVIOUS
  <2> HIDE DEF T
  <2> QED BY <2>1, LeastNat
<1>2. n \in Nat /\ ~ \E a : IsRun(a, n, h, items) OBVIOUS
<1>3. n # 0
  <2> SUFFICES ASSUME n = 0 PROVE FALSE OBVIOUS
  <2> DEFINE a == [i \in 0 .. 0 |-> x]
             r(i) == ReadItem(a[i - 1], items[i])
             b == [i \in 0 .. 0 |-> IF i = 0 THEN x ELSE r(i)]
  <2>1. \A i \in 0 .. 0 : i = 0 OBVIOUS
  <2>2. a = b
    <3> HIDE DEF r, x
    <3> QED BY <2>1
  <2>3. IsRun(a, 0, h, items) BY <2>2, Zenon DEF IsRun
  <2> QED BY <2>3, <1>2
<1>4. n - 1 \in Nat /\ ~(n <= n - 1) BY <1>2, <1>3
<1>5. n - 1 \notin T BY <1>1, <1>4
<1>6. PICK a : IsRun(a, n - 1, h, items) BY <1>4, <1>5
<1>7. a[0] = x /\ \A i \in 1 .. n - 1 : a[i] = ReadItem(a[i - 1], items[i])
  BY <1>4, <1>6, RunFacts
<1> DEFINE last == ReadItem(a[n - 1], items[n])
           b == [i \in 0 .. n |-> IF i = n THEN last ELSE a[i]]
           r(i) == ReadItem(b[i - 1], items[i])
           c == [i \in 0 .. n |-> IF i = 0 THEN x ELSE r(i)]
<1>8. \A i \in 1 .. n : b[i - 1] = a[i - 1] BY <1>2, <1>3
<1>9. \A i \in 1 .. n : r(i) = ReadItem(a[i - 1], items[i]) BY <1>8, Zenon
<1>10. \A i \in 1 .. n - 1 : r(i) = a[i] BY <1>2, <1>7, <1>9
<1>11. r(n) = last BY <1>2, <1>3, <1>9
<1> HIDE DEF x
<1>12. b[0] = x BY <1>2, <1>3, <1>7
<1> HIDE DEF r, last
<1>13. \A i \in 0 .. n : b[i] = c[i]
  <2>1. \A i \in 0 .. n : i = 0 \/ i = n \/ i \in 1 .. n - 1 BY <1>2
  <2>2. b[n] = last /\ c[n] = r(n) BY <1>2, <1>3
  <2>3. \A i \in 1 .. n - 1 : b[i] = a[i] /\ c[i] = r(i) BY <1>2
  <2>4. c[0] = x BY <1>2
  <2> HIDE DEF b, c
  <2> QED BY <2>1, <2>2, <2>3, <2>4, <1>10, <1>11, <1>12
<1>14. b = c
  <2>1. \A i \in 0 .. n : (IF i = n THEN last ELSE a[i]) = IF i = 0 THEN x ELSE r(i)
    BY <1>13
  <2> QED BY <2>1, Zenon
<1>15. IsRun(b, n, h, items)
  <2> HIDE DEF b
  <2> QED BY <1>14, Zenon DEF IsRun, r, x
<1> QED BY <1>2, <1>15

(* What ReadItems returns is the end of a run.                             *)
LEMMA ReadItemsRun ==
  ASSUME NEW h, NEW items, Len(items) \in Nat
  PROVE  \E a : /\ a[0] = [h |-> h, failed |-> FALSE]
                /\ \A i \in 1 .. Len(items) : a[i] = ReadItem(a[i - 1], items[i])
                /\ ReadItems(h, items) = a[Len(items)]
<1> DEFINE n == Len(items)
           a == CHOOSE a : IsRun(a, n, h, items)
<1>1. ReadItems(h, items) = a[n] BY ReadItemsIsRun
<1>2. n \in Nat OBVIOUS
<1>3. \E b : IsRun(b, n, h, items) BY <1>2, RunExists, Zenon
<1>4. IsRun(a, n, h, items) BY <1>3, Zenon
<1> HIDE DEF a
<1> QED BY <1>1, <1>2, <1>4, RunFacts

-----------------------------------------------------------------------------
(***************************************************************************)
(* Filter.                                                                 *)
(***************************************************************************)
Kept(s, e, K) == IF e.k \in K THEN Append(s, e) ELSE s

IsPass(a, n, q, K) == a = [i \in 0 .. n |-> IF i = 0 THEN <<>> ELSE Kept(a[i - 1], q[i], K)]

(* The recursive function of Filter, unfolded.                             *)
LEMMA FilterIsPass ==
  ASSUME NEW q, NEW K
  PROVE  Filter(q, K) = (CHOOSE a : IsPass(a, Len(q), q, K))[Len(q)]
BY Zenon DEF Filter, IsPass, Kept

(* Each event is kept or left out of what the ones before it have come to. *)
LEMMA PassFacts ==
  ASSUME NEW q, NEW K, NEW a, NEW n \in Nat, IsPass(a, n, q, K)
  PROVE  /\ a[0] = <<>>
         /\ \A i \in 1 .. n : a[i] = Kept(a[i - 1], q[i], K)
<1> DEFINE x == <<>>
           r(i) == Kept(a[i - 1], q[i], K)
<1>1. a = [i \in 0 .. n |-> IF i = 0 THEN x ELSE r(i)] BY Zenon DEF IsPass
<1> HIDE DEF r, x
<1>2. a[0] = x /\ \A i \in 1 .. n : a[i] = r(i) BY <1>1
<1> QED BY <1>2 DEF r, x

(* Such a pass exists for any number of events.                            *)
LEMMA PassExists ==
  ASSUME NEW q, NEW K, NEW k \in Nat
  PROVE  \E a : IsPass(a, k, q, K)
<1> DEFINE x == <<>>
           T == {n \in Nat : ~ \E a : IsPass(a, n, q, K)}
<1> SUFFICES ASSUME T # {} PROVE FALSE OBVIOUS
<1>1. PICK n \in T : \A m \in T : n <= m
  <2>1. T \in SUBSET Nat OBVIOUS
  <2> HIDE DEF T
  <2> QED BY <2>1, LeastNat
<1>2. n \in Nat /\ ~ \E a : IsPass(a, n, q, K) OBVIOUS
<1>3. n # 0
  <2> SUFFICES ASSUME n = 0 PROVE FALSE OBVIOUS
  <2> DEFINE a == [i \in 0 .. 0 |-> x]
             r(i) == Kept(a[i - 1], q[i], K)
             b == [i \in 0 .. 0 |-> IF i = 0 THEN x ELSE r(i)]
  <2>1. \A i \in 0 .. 0 : i = 0 OBVIOUS
  <2>2. a = b
    <3> HIDE DEF r, x
    <3> QED BY <2>1
  <2>3. IsPass(a, 0, q, K) BY <2>2, Zenon DEF IsPass
  <2> QED BY <2>3, <1>2
<1>4. n - 1 \in Nat /\ ~(n <= n - 1) BY <1>2, <1>3
<1>5. n - 1 \notin T BY <1>1, <1>4
<1>6. PICK a : IsPass(a, n - 1, q, K) BY <1>4, <1>5
<1>7. a[0] = x /\ \A i \in 1 .. n - 1 : a[i] = Kept(a[i - 1], q[i], K)
  BY <1>4, <1>6, PassFacts
<1> DEFINE last == Kept(a[n - 1], q[n], K)
           b == [i \in 0 .. n |-> IF i = n THEN last ELSE a[i]]
           r(i) == Kept(b[i - 1], q[i], K)
           c == [i \in 0 .. n |-> IF i = 0 THEN x ELSE r(i)]
<1>8. \A i \in 1 .. n : b[i - 1] = a[i - 1] BY <1>2, <1>3
<1>9. \A i \in 1 .. n : r(i) = Kept(a[i - 1], q[i], K) BY <1>8, Zenon
<1>10. \A i \in 1 .. n - 1 : r(i) = a[i] BY <1>2, <1>7, <1>9
<1>11. r(n) = last BY <1>2, <1>3, <1>9
<1> HIDE DEF x
<1>12. b[0] = x BY <1>2, <1>3, <1>7
<1> HIDE DEF r, last
<1>13. \A i \in 0 .. n : b[i] = c[i]
  <2>1. \A i \in 0 .. n : i = 0 \/ i = n \/ i \in 1 .. n - 1 BY <1>2
  <2>2. b[n] = last /\ c[n] = r(n) BY <1>2, <1>3
  <2>3. \A i \in 1 .. n - 1 : b[i] = a[i] /\ c[i] = r(i) BY <1>2
  <2>4. c[0] = x BY <1>2
  <2> HIDE DEF b, c
  <2> QED BY <2>1, <2>2, <2>3, <2>4, <1>10, <1>11, <1>12
<1>14. b = c
  <2>1. \A i \in 0 .. n : (IF i = n THEN last ELSE a[i]) = IF i = 0 THEN x ELSE r(i)
    BY <1>13
  <2> QED BY <2>1, Zenon
<1>15. IsPass(b, n, q, K)
  <2> HIDE DEF b
  <2> QED BY <1>14, Zenon DEF IsPass, r, x
<1> QED BY <1>2, <1>15

(* What Filter returns: the events of these kinds and no others, each as   *)
(* often as before (stated of what the sequence holds at most once).       *)
LEMMA FilterFacts ==
  ASSUME NEW S, NEW q \in Seq(S), NEW K
  PROVE  LET f == Filter(q, K)
         IN  /\ f \in Seq(S)
             /\ \A i \in DOMAIN f : f[i].k \in K /\ \E j \in DOMAIN q : q[j] = f[i]
             /\ \A j \in DOMAIN q : q[j].k \in K => \E i \in DOMAIN f : f[i] = q[j]
             /\ Once(q) => Once(f)
<1> DEFINE n == Len(q)
           a == CHOOSE a : IsPass(a, n, q, K)
<1>1. Filter(q, K) = a[n] BY FilterIsPass
<1>2. n \in Nat /\ DOMAIN q = 1 .. n BY LenProperties
<1>3. \E b : IsPass(b, n, q, K) BY <1>2, PassExists, Zenon
<1>4. IsPass(a, n, q, K) BY <1>3, Zenon
<1> HIDE DEF a, n
<1>5. /\ a[0] = <<>>
      /\ \A i \in 1 .. n : a[i] = IF q[i].k \in K THEN Append(a[i - 1], q[i]) ELSE a[i - 1]
  <2>1. a[0] = <<>> /\ \A i \in 1 .. n : a[i] = Kept(a[i - 1], q[i], K)
    BY <1>2, <1>4, PassFacts
  <2> QED BY <2>1, Zenon DEF Kept
<1> DEFINE Good(m) ==
             /\ a[m] \in Seq(S)
             /\ \A i \in DOMAIN a[m] : a[m][i].k \in K /\ \E j \in 1 .. m : q[j] = a[m][i]
             /\ \A j \in 1 .. m : q[j].k \in K => \E i \in DOMAIN a[m] : a[m][i] = q[j]
             /\ Once(q) => \A i, j \in DOMAIN a[m] :
                              a[m][i].k = "closed" /\ a[m][j].k = "closed" => i = j
           T == {m \in 0 .. n : ~Good(m)}
<1>6. Good(0)
  <2>1. DOMAIN <<>> = {} OBVIOUS
  <2>2. 1 .. 0 = {} OBVIOUS
  <2> QED BY <1>5, <2>1, <2>2
<1>7. ASSUME NEW m \in 1 .. n, Good(m - 1) PROVE Good(m)
  <2> DEFINE b == a[m - 1]
             e == q[m]
  <2>1. m - 1 \in Nat /\ m \in DOMAIN q /\ m \in Nat BY <1>2
  <2>2. e \in S BY <2>1, ElementOfSeq, <1>2
  <2>3. CASE q[m].k \notin K
    <3>1. a[m] = a[m - 1] BY <1>5, <2>3
    <3>2. \A j \in 1 .. m : q[j].k \in K => j \in 1 .. m - 1 BY <2>1, <2>3
    <3>3. \A j \in 1 .. m - 1 : j \in 1 .. m BY <2>1
    <3> QED BY <1>7, <3>1, <3>2, <3>3
  <2>4. CASE q[m].k \in K
    <3>1. a[m] = Append(b, e) BY <1>5, <2>4
    <3> DEFINE c == Append(b, e)
               l == Len(b)
    <3>2. /\ c \in Seq(S) /\ Len(c) = l + 1 /\ c[l + 1] = e
          /\ \A i \in 1 .. l : c[i] = b[i]
          /\ l \in Nat /\ DOMAIN b = 1 .. l
      BY <1>7, <2>2, AppendProperties, LenProperties
    <3>3. DOMAIN c = 1 .. l + 1 BY <3>2, LenProperties
    <3> HIDE DEF c, l
    <3>4. \A i \in DOMAIN c : i \in DOMAIN b \/ i = l + 1 BY <3>2, <3>3
    <3>5. \A j \in 1 .. m - 1 : j \in 1 .. m BY <2>1
    <3>6. \A i \in DOMAIN c : c[i].k \in K /\ \E j \in 1 .. m : q[j] = c[i]
      <4> TAKE i \in DOMAIN c
      <4>1. CASE i = l + 1
        <5>1. m \in 1 .. m BY <2>1
        <5> QED BY <4>1, <3>2, <2>4, <5>1
      <4>2. CASE i \in DOMAIN b
        <5>1. c[i] = b[i] BY <4>2, <3>2
        <5> QED BY <5>1, <4>2, <1>7, <3>5
      <4> QED BY <4>1, <4>2, <3>4
    <3>7. \A j \in 1 .. m : q[j].k \in K => \E i \in DOMAIN c : c[i] = q[j]
      <4> TAKE j \in 1 .. m
      <4> HAVE q[j].k \in K
      <4>1. CASE j = m BY <4>1, <3>2, <3>3
      <4>2. CASE j \in 1 .. m - 1
        <5>1. PICK i \in DOMAIN b : b[i] = q[j] BY <4>2, <1>7
        <5>2. i \in DOMAIN c /\ c[i] = b[i] BY <3>2, <3>3
        <5> QED BY <5>1, <5>2
      <4>3. j = m \/ j \in 1 .. m - 1 BY <2>1
      <4> QED BY <4>1, <4>2, <4>3
    <3>8. ASSUME Once(q), NEW i \in DOMAIN c, NEW j \in DOMAIN c,
                 c[i].k = "closed", c[j].k = "closed"
          PROVE  i = j
      <4>1. ASSUME NEW x \in DOMAIN b, b[x].k = "closed", e.k = "closed" PROVE FALSE
        <5>1. PICK y \in 1 .. m - 1 : q[y] = b[x] BY <1>7
        <5>2. y \in DOMAIN q /\ y # m BY <1>2, <2>1
        <5>3. y \in Closed(q) /\ m \in Closed(q) BY <5>1, <5>2, <4>1, <2>1 DEF Closed, Of
        <5> QED BY <5>2, <5>3, <3>8 DEF Once
      <4>2. CASE i \in DOMAIN b /\ j \in DOMAIN b
        <5>1. c[i] = b[i] /\ c[j] = b[j] BY <4>2, <3>2
        <5> QED BY <5>1, <4>2, <3>8, <1>7
      <4>3. CASE i = l + 1 /\ j = l + 1 BY <4>3
      <4>4. CASE i = l + 1 /\ j \in DOMAIN b
        <5>1. c[i] = e /\ c[j] = b[j] BY <4>4, <3>2
        <5> QED BY <5>1, <4>4, <3>8, <4>1
      <4>5. CASE j = l + 1 /\ i \in DOMAIN b
        <5>1. c[j] = e /\ c[i] = b[i] BY <4>5, <3>2
        <5> QED BY <5>1, <4>5, <3>8, <4>1
      <4> QED BY <4>2, <4>3, <4>4, <4>5, <3>4
    <3>9. a[m] = c BY <3>1 DEF c
    <3> HIDE DEF b, e
    <3> QED BY <3>2, <3>6, <3>7, <3>8, <3>9
  <2> QED BY <2>3, <2>4
<1>8. T = {}
  <2> SUFFICES ASSUME T # {} PROVE FALSE OBVIOUS
  <2>1. T \in SUBSET Nat BY <1>2
  <2>2. PICK m \in T : \A x \in T : m <= x
    <3> HIDE DEF T
    <3> QED BY <2>1, LeastNat
  <2>3. m \in 0 .. n /\ ~Good(m) OBVIOUS
  <2>4. m # 0 BY <1>6, <2>3
  <2>5. m \in 1 .. n /\ m - 1 \in 0 .. n /\ ~(m <= m - 1) BY <1>2, <2>3, <2>4
  <2>6. Good(m - 1)
    <3> HIDE DEF Good
    <3> QED BY <2>2, <2>5
  <2> HIDE DEF Good
  <2> QED BY <1>7, <2>3, <2>5, <2>6
<1>9. Good(n)
  <2>1. n \in 0 .. n BY <1>2
  <2> HIDE DEF Good
  <2> QED BY <1>8, <2>1
<1>10. Once(q) => Once(a[n])
  <2> QED BY <1>9 DEF Once, Closed, Of
<1>11. /\ a[n] \in Seq(S)
       /\ \A i \in DOMAIN a[n] : a[n][i].k \in K /\ \E j \in DOMAIN q : q[j] = a[n][i]
       /\ \A j \in DOMAIN q : q[j].k \in K => \E i \in DOMAIN a[n] : a[n][i] = q[j]
  BY <1>9, <1>2
<1> HIDE DEF Good
<1> QED BY <1>1, <1>10, <1>11

-----------------------------------------------------------------------------
(***************************************************************************)
(* Items and events.                                                       *)
(***************************************************************************)
LEMMA RangeIs == ASSUME NEW S, NEW q \in Seq(S) PROVE Range(q) = {q[i] : i \in 1 .. Len(q)}
BY DEF Range

(* What the peer has sent has a kind and a value.                          *)
LEMMA SentFacts ==
  ASSUME sent \in Seq(Items), NEW x \in Range(sent)
  PROVE  x \in Items /\ x.k \in Kinds /\ x.v \in 0 .. MaxLimit
<1>1. PICK i \in 1 .. Len(sent) : x = sent[i] BY RangeIs
<1>2. x \in Items BY <1>1
<1> QED BY <1>2 DEF Items

(* What the assumption says of the instance under check.                   *)
LEMMA RoleFacts ==
  ASSUME scope \in Scopes
  PROVE  /\ scope.role \in {"client", "server"} /\ scope.limit \in 0 .. MaxLimit
         /\ scope.headers \subseteq HeaderKinds[scope.role]
         /\ scope.capsules \subseteq [k : {"max", "drain", "close", "half"}, v : 0 .. MaxLimit]
         /\ scope.fails \subseteq {"fin", "lost", "critical", "goaway", "reset"}
         /\ scope.enabled \in BOOLEAN
         /\ MaxLimit \in Nat /\ UniCapacity \in Nat \ {0}
BY WtDriverAssumption

(* The kinds of items, by role.                                            *)
LEMMA KindFacts ==
  ASSUME scope \in Scopes, NEW k \in Kinds
  PROVE  /\ k \in {"ok", "interim", "no", "malformed", "badproto", "late", "get",
                   "max", "drain", "close", "half", "fin", "reset"}
         /\ scope.role = "server" => k \notin {"interim", "no", "badproto"}
         /\ scope.role = "client" => k # "get"
<1>1. scope.role \in {"client", "server"} BY RoleFacts
<1>2. HeaderKinds["client"] = {"ok", "interim", "no", "malformed", "badproto", "late"}
  BY DEF HeaderKinds
<1>3. HeaderKinds["server"] = {"ok", "late", "malformed", "get"} BY DEF HeaderKinds
<1> QED BY <1>1, <1>2, <1>3 DEF Kinds

(* The maxima the peer has advertised are bounded.                         *)
LEMMA GrantedFacts ==
  ASSUME Types
  PROVE  /\ Granted \subseteq 0 .. MaxLimit
         /\ \A x \in Range(sent) : x.k = "max" => x.v \in Granted
         /\ scope.limit \in Granted
<1>1. sent \in Seq(Items) /\ scope.limit \in 0 .. MaxLimit BY RoleFacts DEF Types
<1>2. DOMAIN sent = 1 .. Len(sent) BY <1>1
<1>3. ASSUME NEW i \in Of(sent, {"max"}) PROVE sent[i].v \in 0 .. MaxLimit
  <2>1. i \in 1 .. Len(sent) BY <1>2 DEF Of
  <2>2. sent[i] \in Items BY <1>1, <2>1
  <2> QED BY <2>2 DEF Items
<1>4. \A x \in Range(sent) : x.k = "max" => x.v \in Granted
  BY DEF Range, Granted, Of
<1> QED BY <1>1, <1>3, <1>4 DEF Granted

(* One more event.                                                         *)
LEMMA AppendEvent ==
  ASSUME NEW S, NEW q \in Seq(S), NEW e \in S
  PROVE  /\ Append(q, e) \in Seq(S)
         /\ HasClosed(Append(q, e)) <=> HasClosed(q) \/ e.k = "closed"
         /\ e.k # "closed" /\ Once(q) => Once(Append(q, e))
         /\ ~HasClosed(q) => Once(Append(q, e))
         /\ \A c : Tells(Append(q, e), c) <=> Tells(q, c) /\ (e.k = "closed" => e.v = c)
         /\ \A K : Of(Append(q, e), K) # {} <=> Of(q, K) # {} \/ e.k \in K
<1> DEFINE r == Append(q, e)
           n == Len(q)
<1>1. /\ r \in Seq(S) /\ Len(r) = n + 1 /\ r[n + 1] = e /\ \A i \in 1 .. n : r[i] = q[i]
      /\ n \in Nat /\ DOMAIN q = 1 .. n
  BY AppendProperties, LenProperties
<1>2. DOMAIN r = 1 .. n + 1 BY <1>1, LenProperties
<1> HIDE DEF r, n
<1>3. /\ \A i \in DOMAIN r : i \in DOMAIN q \/ i = n + 1
      /\ \A i \in DOMAIN q : i \in DOMAIN r /\ r[i] = q[i] /\ i # n + 1
      /\ n + 1 \in DOMAIN r
  BY <1>1, <1>2
<1>4. \A K : Of(r, K) # {} <=> Of(q, K) # {} \/ e.k \in K
  BY <1>1, <1>3 DEF Of
<1>5. HasClosed(r) <=> HasClosed(q) \/ e.k = "closed" BY <1>4 DEF HasClosed
<1>6. /\ \A i \in Closed(r) : i \in Closed(q) \/ (i = n + 1 /\ e.k = "closed")
      /\ \A i \in Closed(q) : i \in Closed(r)
      /\ e.k = "closed" => n + 1 \in Closed(r)
  BY <1>1, <1>3 DEF Closed, Of
<1>7. e.k # "closed" /\ Once(q) => Once(r) BY <1>6 DEF Once
<1>8. ~HasClosed(q) => Closed(q) = {} BY DEF HasClosed, Closed
<1>9. ~HasClosed(q) => Once(r) BY <1>6, <1>8 DEF Once
<1>10. \A i \in Closed(q) : i \in DOMAIN q BY DEF Closed, Of
<1>11. ASSUME NEW c PROVE Tells(r, c) <=> Tells(q, c) /\ (e.k = "closed" => e.v = c)
  BY <1>1, <1>3, <1>6, <1>10 DEF Tells
<1> QED BY <1>1, <1>4, <1>5, <1>7, <1>9, <1>11 DEF r

(* Two sequences of events, of which one tells of an end.                  *)
LEMMA ConcatEvents ==
  ASSUME NEW S, NEW q \in Seq(S), NEW f \in Seq(S), NEW c
  PROVE  /\ q \o f \in Seq(S)
         /\ HasClosed(q \o f) <=> HasClosed(q) \/ HasClosed(f)
         /\ Once(q) /\ Once(f) /\ ~(HasClosed(q) /\ HasClosed(f)) => Once(q \o f)
         /\ Tells(q, c) /\ Tells(f, c) => Tells(q \o f, c)
<1> DEFINE r == q \o f
           n == Len(q)
           m == Len(f)
<1>1. /\ r \in Seq(S) /\ Len(r) = n + m
      /\ \A i \in 1 .. n + m : r[i] = IF i <= n THEN q[i] ELSE f[i - n]
      /\ n \in Nat /\ m \in Nat /\ DOMAIN q = 1 .. n /\ DOMAIN f = 1 .. m
  BY ConcatProperties, LenProperties
<1>2. DOMAIN r = 1 .. n + m BY <1>1, LenProperties
<1> HIDE DEF r, n, m
<1>3. \A i \in DOMAIN q : i \in DOMAIN r /\ r[i] = q[i] /\ i <= n BY <1>1, <1>2
<1>4. \A i \in DOMAIN f : i + n \in DOMAIN r /\ r[i + n] = f[i]
  <2> TAKE i \in DOMAIN f
  <2>1. i \in Nat /\ i + n \in 1 .. n + m /\ ~(i + n <= n) /\ (i + n) - n = i BY <1>1
  <2> QED BY <2>1, <1>1, <1>2
<1>5. \A i \in DOMAIN r : i \in DOMAIN q \/ (i - n \in DOMAIN f /\ r[i] = f[i - n] /\ i \in Nat)
  BY <1>1, <1>2
<1>6. HasClosed(r) <=> HasClosed(q) \/ HasClosed(f)
  <2>1. ASSUME HasClosed(q) PROVE HasClosed(r)
    <3>1. PICK i \in DOMAIN q : q[i].k = "closed" BY <2>1 DEF HasClosed, Of
    <3> QED BY <3>1, <1>3 DEF HasClosed, Of
  <2>2. ASSUME HasClosed(f) PROVE HasClosed(r)
    <3>1. PICK i \in DOMAIN f : f[i].k = "closed" BY <2>2 DEF HasClosed, Of
    <3>2. i + n \in DOMAIN r /\ r[i + n].k = "closed" BY <3>1, <1>4
    <3> QED BY <3>2 DEF HasClosed, Of
  <2>3. ASSUME HasClosed(r) PROVE HasClosed(q) \/ HasClosed(f)
    <3>1. PICK i \in DOMAIN r : r[i].k = "closed" BY <2>3 DEF HasClosed, Of
    <3>2. CASE i \in DOMAIN q BY <3>1, <3>2, <1>3 DEF HasClosed, Of
    <3>3. CASE i - n \in DOMAIN f /\ r[i] = f[i - n]
      BY <3>1, <3>3 DEF HasClosed, Of
    <3> QED BY <3>2, <3>3, <1>5
  <2> QED BY <2>1, <2>2, <2>3
<1>7. ASSUME Once(q), Once(f), ~(HasClosed(q) /\ HasClosed(f)) PROVE Once(r)
  <2> SUFFICES ASSUME NEW i \in Closed(r), NEW j \in Closed(r) PROVE i = j BY DEF Once
  <2>1. i \in DOMAIN r /\ r[i].k = "closed" /\ j \in DOMAIN r /\ r[j].k = "closed"
    BY DEF Closed, Of
  <2>2. ASSUME NEW x \in DOMAIN q, q[x].k = "closed" PROVE x \in Closed(q) /\ HasClosed(q)
    BY <2>2 DEF Closed, Of, HasClosed
  <2>3. ASSUME NEW x \in DOMAIN f, f[x].k = "closed" PROVE x \in Closed(f) /\ HasClosed(f)
    BY <2>3 DEF Closed, Of, HasClosed
  <2>4. CASE i \in DOMAIN q /\ j \in DOMAIN q
    BY <2>1, <2>2, <2>4, <1>3, <1>7 DEF Once
  <2>5. ASSUME i \in DOMAIN q, j - n \in DOMAIN f, r[j] = f[j - n] PROVE FALSE
    <3>1. HasClosed(q) BY <2>1, <2>2, <2>5, <1>3
    <3>2. HasClosed(f) BY <2>1, <2>3, <2>5
    <3> QED BY <3>1, <3>2, <1>7
  <2>6. ASSUME j \in DOMAIN q, i - n \in DOMAIN f, r[i] = f[i - n] PROVE FALSE
    <3>1. HasClosed(q) BY <2>1, <2>2, <2>6, <1>3
    <3>2. HasClosed(f) BY <2>1, <2>3, <2>6
    <3> QED BY <3>1, <3>2, <1>7
  <2>7. ASSUME i - n \in DOMAIN f, r[i] = f[i - n], j - n \in DOMAIN f, r[j] = f[j - n],
               i \in Nat, j \in Nat
        PROVE  i = j
    <3>1. i - n \in Closed(f) /\ j - n \in Closed(f) BY <2>1, <2>3, <2>7
    <3>2. i - n = j - n BY <3>1, <1>7 DEF Once
    <3> QED BY <3>2, <2>7, <1>1
  <2> QED BY <2>1, <2>4, <2>5, <2>6, <2>7, <1>5
<1>8. ASSUME Tells(q, c), Tells(f, c) PROVE Tells(r, c)
  <2> SUFFICES ASSUME NEW i \in Closed(r) PROVE r[i].v = c BY DEF Tells
  <2>1. i \in DOMAIN r /\ r[i].k = "closed" BY DEF Closed, Of
  <2>2. CASE i \in DOMAIN q BY <2>1, <2>2, <1>3, <1>8 DEF Tells, Closed, Of
  <2>3. CASE i - n \in DOMAIN f /\ r[i] = f[i - n]
    BY <2>1, <2>3, <1>8 DEF Tells, Closed, Of
  <2> QED BY <2>1, <2>2, <2>3, <1>5
<1> QED BY <1>1, <1>6, <1>7, <1>8 DEF r

(* What is forwarded of the events, and the maxima among them.             *)
LEMMA ForwardFacts ==
  ASSUME NEW q \in Seq(Events)
  PROVE  /\ Forwardable(q) \in Seq(Events)
         /\ HasClosed(Forwardable(q)) <=> HasClosed(q)
         /\ Once(q) => Once(Forwardable(q))
         /\ \A c : Tells(q, c) => Tells(Forwardable(q), c)
<1> DEFINE K == {"closed", "drain"}
           f == Filter(q, K)
<1>1. /\ f \in Seq(Events)
      /\ \A i \in DOMAIN f : f[i].k \in K /\ \E j \in DOMAIN q : q[j] = f[i]
      /\ \A j \in DOMAIN q : q[j].k \in K => \E i \in DOMAIN f : f[i] = q[j]
      /\ Once(q) => Once(f)
  <2> HIDE DEF K
  <2> QED BY FilterFacts, Zenon
<1>2. f = Forwardable(q) BY DEF Forwardable
<1> HIDE DEF f
<1>3. HasClosed(f) <=> HasClosed(q)
  BY <1>1 DEF HasClosed, Of
<1>4. ASSUME NEW c, Tells(q, c) PROVE Tells(f, c)
  <2> SUFFICES ASSUME NEW i \in Closed(f) PROVE f[i].v = c BY DEF Tells
  <2>1. i \in DOMAIN f /\ f[i].k = "closed" BY DEF Closed, Of
  <2>2. PICK j \in DOMAIN q : q[j] = f[i] BY <2>1, <1>1
  <2>3. j \in Closed(q) BY <2>1, <2>2 DEF Closed, Of
  <2> QED BY <2>2, <2>3, <1>4 DEF Tells
<1> QED BY <1>1, <1>2, <1>3, <1>4

(* The maxima among the events have all been granted.                      *)
LEMMA MaximaFacts ==
  ASSUME NEW q \in Seq(Events)
  PROVE  MaximaOf(q) \in Seq(Granted)
<1> DEFINE f == Filter(q, {"max"})
<1>1. /\ f \in Seq(Events) /\ \A i \in DOMAIN f : f[i].k \in {"max"}
  BY FilterFacts, Zenon
<1>2. MaximaOf(q) = [i \in DOMAIN f |-> f[i].v] BY DEF MaximaOf
<1> HIDE DEF f
<1>3. DOMAIN f = 1 .. Len(f) /\ Len(f) \in Nat BY <1>1, LenProperties
<1>4. ASSUME NEW i \in 1 .. Len(f) PROVE f[i].v \in Granted
  <2>1. f[i] \in Events /\ f[i].k = "max" BY <1>1, <1>3
  <2> QED BY <2>1 DEF Events
<1> QED BY <1>2, <1>3, <1>4

-----------------------------------------------------------------------------
(***************************************************************************)
(* One item of the CONNECT stream.                                         *)
(***************************************************************************)
ConnectionFields(h) ==
    /\ h.settings \in BOOLEAN /\ h.inserted \in BOOLEAN /\ h.goaway \in BOOLEAN
    /\ h.error \in BOOLEAN /\ h.half \in BOOLEAN
    /\ h.ses \in {"none", "pending", "established", "draining", "closed"}
    /\ h.ended \in {"none"} \cup Codes /\ h.parked \in Seq(Range(sent))
    /\ h.caps \in Seq(Capsules) /\ h.events \in Seq(Events)

(* The fields of a connection and their types.                             *)
LEMMA ConnectionFacts == ASSUME NEW h \in Connections PROVE ConnectionFields(h)
BY DEF Connections, ConnectionFields

(* A connection whose session has come to another state.                   *)
LEMMA SesRecord ==
  ASSUME NEW h \in Connections,
         NEW s \in {"none", "pending", "established", "draining", "closed"}
  PROVE  /\ [h EXCEPT !.ses = s] \in Connections
         /\ [h EXCEPT !.ses = s].ses = s
         /\ [h EXCEPT !.ses = s].ended = h.ended
         /\ [h EXCEPT !.ses = s].events = h.events
         /\ [h EXCEPT !.ses = s].parked = h.parked
         /\ [h EXCEPT !.ses = s].error = h.error
         /\ [h EXCEPT !.ses = s].inserted = h.inserted
BY ConnectionFacts DEF Connections, ConnectionFields

(* A connection with something else parked.                                *)
LEMMA ParkedRecord ==
  ASSUME NEW h \in Connections, NEW p \in Seq(Range(sent))
  PROVE  /\ [h EXCEPT !.parked = p] \in Connections
         /\ [h EXCEPT !.parked = p].ses = h.ses
         /\ [h EXCEPT !.parked = p].ended = h.ended
         /\ [h EXCEPT !.parked = p].events = h.events
         /\ [h EXCEPT !.parked = p].parked = p
         /\ [h EXCEPT !.parked = p].error = h.error
         /\ [h EXCEPT !.parked = p].inserted = h.inserted
BY ConnectionFacts DEF Connections, ConnectionFields

(* A connection with other capsules kept for later.                        *)
LEMMA CapsRecord ==
  ASSUME NEW h \in Connections, NEW p \in Seq(Capsules)
  PROVE  /\ [h EXCEPT !.caps = p] \in Connections
         /\ [h EXCEPT !.caps = p].ses = h.ses
         /\ [h EXCEPT !.caps = p].ended = h.ended
         /\ [h EXCEPT !.caps = p].events = h.events
         /\ [h EXCEPT !.caps = p].parked = h.parked
         /\ [h EXCEPT !.caps = p].error = h.error
         /\ [h EXCEPT !.caps = p].inserted = h.inserted
BY ConnectionFacts DEF Connections, ConnectionFields

(* A connection that holds half a capsule.                                 *)
LEMMA HalfRecord ==
  ASSUME NEW h \in Connections
  PROVE  /\ [h EXCEPT !.half = TRUE] \in Connections
         /\ [h EXCEPT !.half = TRUE].ses = h.ses
         /\ [h EXCEPT !.half = TRUE].ended = h.ended
         /\ [h EXCEPT !.half = TRUE].events = h.events
         /\ [h EXCEPT !.half = TRUE].parked = h.parked
         /\ [h EXCEPT !.half = TRUE].error = h.error
         /\ [h EXCEPT !.half = TRUE].inserted = h.inserted
BY ConnectionFacts DEF Connections, ConnectionFields

(* A connection with other events queued.                                  *)
LEMMA EventsRecord ==
  ASSUME NEW h \in Connections, NEW q \in Seq(Events)
  PROVE  /\ [h EXCEPT !.events = q] \in Connections
         /\ [h EXCEPT !.events = q].ses = h.ses
         /\ [h EXCEPT !.events = q].ended = h.ended
         /\ [h EXCEPT !.events = q].events = q
         /\ [h EXCEPT !.events = q].parked = h.parked
         /\ [h EXCEPT !.events = q].error = h.error
         /\ [h EXCEPT !.events = q].inserted = h.inserted
BY ConnectionFacts DEF Connections, ConnectionFields

(* A connection whose session has ended.                                   *)
LEMMA EndRecord ==
  ASSUME NEW h \in Connections, NEW c \in Codes
  PROVE  /\ [h EXCEPT !.ses = "closed", !.ended = c] \in Connections
         /\ [h EXCEPT !.ses = "closed", !.ended = c].ses = "closed"
         /\ [h EXCEPT !.ses = "closed", !.ended = c].ended = c
         /\ [h EXCEPT !.ses = "closed", !.ended = c].events = h.events
         /\ [h EXCEPT !.ses = "closed", !.ended = c].parked = h.parked
         /\ [h EXCEPT !.ses = "closed", !.ended = c].error = h.error
         /\ [h EXCEPT !.ses = "closed", !.ended = c].inserted = h.inserted
BY ConnectionFacts DEF Connections, ConnectionFields

(* An event other than the end.                                            *)
LEMMA EmitStep ==
  ASSUME NEW h \in Connections, NEW k, NEW v, Item(k, v) \in Events, NEW told \in BOOLEAN
  PROVE  /\ Emit(h, k, v) \in Connections
         /\ Emit(h, k, v).ses = h.ses /\ Emit(h, k, v).ended = h.ended
         /\ Emit(h, k, v).parked = h.parked /\ Emit(h, k, v).error = h.error
         /\ Emit(h, k, v).events = Append(h.events, Item(k, v))
         /\ Some(Emit(h, k, v).events, "established")
               <=> Some(h.events, "established") \/ k = "established"
         /\ Some(Emit(h, k, v).events, "headers")
               <=> Some(h.events, "headers") \/ k = "headers"
         /\ Began(Emit(h, k, v)) <=> Began(h)
         /\ k # "closed" /\ EndSound(h, told) => EndSound(Emit(h, k, v), told)
<1> DEFINE e == Item(k, v)
           q == Append(h.events, e)
           g == Emit(h, k, v)
<1>1. h.events \in Seq(Events) BY ConnectionFacts DEF ConnectionFields
<1>2. e.k = k /\ e.v = v BY DEF Item
<1>3. /\ q \in Seq(Events)
      /\ HasClosed(q) <=> HasClosed(h.events) \/ e.k = "closed"
      /\ e.k # "closed" /\ Once(h.events) => Once(q)
      /\ \A c : Tells(q, c) <=> Tells(h.events, c) /\ (e.k = "closed" => e.v = c)
      /\ \A K : Of(q, K) # {} <=> Of(h.events, K) # {} \/ e.k \in K
  <2>1. e \in Events OBVIOUS
  <2> HIDE DEF e
  <2> QED BY <1>1, <2>1, AppendEvent
<1>4. g = [h EXCEPT !.events = q] BY DEF Emit, Event
<1> HIDE DEF q, g, e
<1>5. /\ g \in Connections /\ g.ses = h.ses /\ g.ended = h.ended /\ g.events = q
      /\ g.parked = h.parked /\ g.error = h.error
  BY <1>3, <1>4, EventsRecord
<1>6. Began(g) <=> Began(h) BY <1>5 DEF Began
<1>7. ASSUME k # "closed", EndSound(h, told) PROVE EndSound(g, told)
  BY <1>2, <1>3, <1>5, <1>7 DEF EndSound
<1>8. \A K : Of(g.events, K) # {} <=> Of(h.events, K) # {} \/ k \in K
  BY <1>2, <1>3, <1>5
<1>9. /\ Some(g.events, "established")
            <=> Some(h.events, "established") \/ k = "established"
      /\ Some(g.events, "headers") <=> Some(h.events, "headers") \/ k = "headers"
  BY <1>8 DEF Some
<1> QED BY <1>5, <1>6, <1>7, <1>9 DEF q, g, e

(* The end.                                                                *)
LEMMA TerminateStep ==
  ASSUME NEW h \in Connections, NEW c \in Codes, NEW told \in BOOLEAN,
         EndSound(h, told), h.ended = "none"
  PROVE  /\ Terminate(h, c) \in Connections
         /\ EndSound(Terminate(h, c), told) /\ Began(Terminate(h, c))
         /\ Terminate(h, c).ses = "closed" /\ Terminate(h, c).ended = c
         /\ Terminate(h, c).parked = h.parked /\ Terminate(h, c).error = h.error
         /\ Some(Terminate(h, c).events, "established")
               <=> Some(h.events, "established")
         /\ Some(Terminate(h, c).events, "headers") <=> Some(h.events, "headers")
<1> DEFINE g == [h EXCEPT !.ses = "closed", !.ended = c]
           r == Terminate(h, c)
           e == Item("closed", c)
           q == Append(h.events, e)
<1>1. /\ g \in Connections /\ g.ses = "closed" /\ g.ended = c /\ g.events = h.events
      /\ g.parked = h.parked /\ g.error = h.error
  BY EndRecord
<1>2. h.events \in Seq(Events) BY ConnectionFacts DEF ConnectionFields
<1>3. e \in Events /\ e.k = "closed" /\ e.v = c BY DEF Item, Events
<1>4. /\ q \in Seq(Events)
      /\ HasClosed(q) <=> HasClosed(h.events) \/ e.k = "closed"
      /\ ~HasClosed(h.events) => Once(q)
      /\ \A x : Tells(q, x) <=> Tells(h.events, x) /\ (e.k = "closed" => e.v = x)
      /\ \A K : Of(q, K) # {} <=> Of(h.events, K) # {} \/ e.k \in K
  <2> HIDE DEF e
  <2> QED BY <1>2, <1>3, AppendEvent
<1>5. r = Emit(g, "closed", c) BY DEF Terminate
<1>6. /\ r \in Connections /\ r.ses = g.ses /\ r.ended = g.ended /\ r.parked = g.parked
      /\ r.error = g.error
      /\ r.events = Append(g.events, Item("closed", c))
  <2> HIDE DEF g, r
  <2> QED BY <1>1, <1>3, <1>5, EmitStep DEF e
<1> HIDE DEF g, r
<1>7. r.events = q BY <1>1, <1>6
<1> HIDE DEF q, e
<1>8. ~told /\ ~HasClosed(h.events) BY DEF EndSound
<1>9. c # "none" BY DEF Codes
<1>10. \A x : Tells(h.events, x) BY <1>8 DEF Tells, HasClosed, Closed
<1>11. EndSound(r, told)
  BY <1>1, <1>3, <1>4, <1>6, <1>7, <1>8, <1>9, <1>10 DEF EndSound
<1>12. Began(r) BY <1>1, <1>6, <1>9 DEF Began
<1>13. /\ Some(r.events, "established") <=> Some(h.events, "established")
       /\ Some(r.events, "headers") <=> Some(h.events, "headers")
  <2>1. /\ Some(r.events, "established")
              <=> Some(h.events, "established") \/ "closed" = "established"
        /\ Some(r.events, "headers")
              <=> Some(h.events, "headers") \/ "closed" = "headers"
    BY <1>3, <1>4, <1>7 DEF Some
  <2> QED BY <2>1
<1> QED BY <1>1, <1>6, <1>11, <1>12, <1>13 DEF r

(* Changes of the session that tell the application nothing.               *)
LEMMA SameEnd ==
  ASSUME NEW h, NEW g, NEW told \in BOOLEAN, EndSound(h, told),
         g.ended = h.ended, g.events = h.events, h.ended # "none" => g.ses = "closed"
  PROVE  EndSound(g, told)
BY DEF EndSound

(* While the items of the stream are read: what HandshakeSound says, and   *)
(* after an error only what the application may still be told.             *)
Outcomes == [h : Connections, failed : BOOLEAN]
FeedSound(acc, told, more) ==
    /\ acc \in Outcomes /\ EndSound(acc.h, told) /\ ParkedSound(acc.h, more)
    /\ ~acc.failed /\ (more \/ acc.h.parked # <<>>) =>
          acc.h.ended = "none" /\ ~Complete(acc.h.events)
    /\ scope.role = "client" /\ Complete(acc.h.events) => Began(acc.h)

\* What reading does not change: a server does not establish the session, and
\* once there is no response to come a session that has begun stays so.
Preserved(h, g, more) ==
    /\ g.error = h.error
    /\ scope.role = "server" /\ ~Began(h) => ~Began(g)
    /\ ~more /\ h.parked = <<>> =>
          /\ g.parked = <<>>
          /\ Began(h) => Began(g) /\ (h.ended # "none" => g.ended = h.ended)

\* An item that may come while a response is still to come (more), and whether one
\* is still to come after it.
Fits(item, more, after) ==
    /\ after => more
    /\ Response(item) => more /\ ~after
    /\ more => item.k = "interim" \/ Response(item)

(* An outcome that fails keeps its connection.                             *)
LEMMA OutcomeFacts ==
  ASSUME NEW acc \in Outcomes
  PROVE  /\ acc.h \in Connections /\ acc.failed \in BOOLEAN
         /\ [acc EXCEPT !.failed = TRUE] \in Outcomes
         /\ [acc EXCEPT !.failed = TRUE].h = acc.h
         /\ [acc EXCEPT !.failed = TRUE].failed = TRUE
BY DEF Outcomes

(* An outcome with another connection.                                     *)
LEMMA OutcomeWith ==
  ASSUME NEW acc \in Outcomes, NEW g \in Connections
  PROVE  /\ [acc EXCEPT !.h = g] \in Outcomes
         /\ [acc EXCEPT !.h = g].h = g /\ [acc EXCEPT !.h = g].failed = acc.failed
BY DEF Outcomes

(* What two steps preserve, both together preserve.                        *)
LEMMA PreservedTrans ==
  ASSUME NEW h, NEW g, NEW f, NEW more \in BOOLEAN, NEW after \in BOOLEAN, after => more,
         Preserved(h, g, more), Preserved(g, f, after)
  PROVE  Preserved(h, f, more)
BY DEF Preserved

(* What does not change is preserved.                                      *)
LEMMA PreservedSame == ASSUME NEW h, NEW more \in BOOLEAN PROVE Preserved(h, h, more)
BY DEF Preserved

(* An error leaves the state as it is.                                     *)
LEMMA FailStep ==
  ASSUME NEW acc, NEW told \in BOOLEAN, NEW more \in BOOLEAN, NEW after \in BOOLEAN, NEW r,
         FeedSound(acc, told, more), after => more,
         r = [acc EXCEPT !.failed = TRUE] \/ (r = acc /\ acc.failed)
  PROVE  FeedSound(r, told, after) /\ Preserved(acc.h, r.h, more)
<1>1. r \in Outcomes /\ r.h = acc.h /\ r.failed
  <2>1. acc \in Outcomes BY DEF FeedSound
  <2>2. CASE r = acc /\ acc.failed BY <2>1, <2>2
  <2>3. CASE r = [acc EXCEPT !.failed = TRUE] BY <2>1, <2>3, OutcomeFacts
  <2> QED BY <2>2, <2>3
<1>2. ParkedSound(r.h, after) BY <1>1 DEF FeedSound, ParkedSound
<1>3. Preserved(acc.h, r.h, more) BY <1>1, PreservedSame
<1> QED BY <1>1, <1>2, <1>3 DEF FeedSound

(* A failure is as sound as what it happened to.                           *)
LEMMA FailedSound ==
  ASSUME NEW acc, NEW told \in BOOLEAN, NEW more \in BOOLEAN, NEW after \in BOOLEAN,
         NEW r \in Outcomes, FeedSound(acc, told, more), after => more,
         r.h = acc.h, r.failed = TRUE
  PROVE  FeedSound(r, told, after) /\ Preserved(acc.h, r.h, more)
<1>1. ParkedSound(r.h, after) BY DEF FeedSound, ParkedSound
<1>2. Preserved(acc.h, r.h, more) BY PreservedSame
<1> QED BY <1>1, <1>2 DEF FeedSound

(* A header section.                                                       *)
LEMMA HeadersStep ==
  ASSUME Types, NEW acc, NEW told \in BOOLEAN, NEW more \in BOOLEAN, NEW after \in BOOLEAN,
         NEW item \in Range(sent), FeedSound(acc, told, more), Fits(item, more, after),
         ~acc.failed, IsHeaders(item), acc.h.parked = <<>>
  PROVE  /\ FeedSound(Headers(acc, item), told, after)
         /\ Preserved(acc.h, Headers(acc, item).h, more)
<1> DEFINE h == acc.h
           r == Headers(acc, item)
<1>1. acc \in Outcomes /\ h \in Connections /\ EndSound(h, told) BY OutcomeFacts DEF FeedSound
<1>2. scope \in Scopes /\ sent \in Seq(Items) BY DEF Types
<1>3. scope.role \in {"client", "server"} BY <1>2, RoleFacts
<1>4. item.k \in Kinds BY <1>2, SentFacts
<1>5. /\ item.k \in {"ok", "interim", "no", "malformed", "badproto", "late", "get", "reset"}
      /\ scope.role = "server" => item.k \notin {"interim", "no", "badproto"}
      /\ scope.role = "client" => item.k # "get"
  BY <1>2, <1>4, KindFacts DEF IsHeaders
<1>6. more => h.ended = "none" /\ ~Complete(h.events) BY DEF FeedSound
<1>7. Item("headers", "ok") \in Events /\ Item("headers", item.k) \in Events
      /\ Item("established", 0) \in Events
  <2>1. "ok" \in Kinds BY <1>3 DEF Kinds, HeaderKinds
  <2> QED BY <2>1, <1>4 DEF Events, Item
<1>8. ASSUME NEW q PROVE
        Complete(q) <=> IF scope.role = "client" THEN Some(q, "established")
                        ELSE Some(q, "headers")
  BY DEF Complete, Some
<1>8a. ASSUME NEW x \in Connections, NEW k \in {"ok", item.k}
       PROVE  LET g == Emit(x, "headers", k)
              IN  /\ g \in Connections /\ g.ended = x.ended
                  /\ EndSound(x, told) => EndSound(g, told)
                  /\ g.parked = x.parked /\ g.error = x.error /\ (Began(g) <=> Began(x))
                  /\ Some(g.events, "established") <=> Some(x.events, "established")
  <2>1. Item("headers", k) \in Events BY <1>7
  <2> DEFINE g == Emit(x, "headers", k)
  <2>2. g \in Connections /\ g.ended = x.ended /\ g.parked = x.parked /\ g.error = x.error
    BY <2>1, EmitStep
  <2>3. Began(g) <=> Began(x) BY <2>1, EmitStep
  <2>4. EndSound(x, told) => EndSound(g, told) BY <2>1, EmitStep
  <2>5. Some(g.events, "established") <=> Some(x.events, "established")
    BY <2>1, EmitStep
  <2> HIDE DEF g
  <2>6. QED BY <2>2, <2>3, <2>4, <2>5 DEF g
<1> DEFINE Sound(g) ==
             /\ EndSound(g, told) /\ g.parked = <<>> /\ g.error = h.error
             /\ scope.role = "server" /\ ~Began(h) => ~Began(g)
             /\ \/ Response(item) \/ ~more
                \/ (Complete(g.events) <=> Complete(h.events)) /\ g.ended = h.ended
             /\ scope.role = "client" /\ Complete(g.events) => Began(g)
             /\ more \/ ((Began(h) => Began(g)) /\ g.ended = h.ended)
<1>9. ASSUME NEW g \in Connections, Sound(g), r = [acc EXCEPT !.h = g]
      PROVE  FeedSound(r, told, after) /\ Preserved(h, r.h, more)
  <2>1. r \in Outcomes /\ r.h = g /\ r.failed = FALSE BY <1>1, <1>9, OutcomeWith
  <2> HIDE DEF r, h
  <2>2. ParkedSound(g, after) BY <1>9 DEF ParkedSound
  <2>3. after \/ g.parked # <<>> => g.ended = "none" /\ ~Complete(g.events)
    BY <1>6, <1>9 DEF Fits
  <2>4. FeedSound(r, told, after) BY <1>9, <2>1, <2>2, <2>3 DEF FeedSound
  <2>5. Preserved(h, g, more) BY <1>9 DEF Preserved
  <2> QED BY <2>1, <2>4, <2>5
<1>10. CASE item.k = "malformed"
  <2>1. r = [acc EXCEPT !.failed = TRUE] BY <1>10 DEF Headers
  <2>2. after => more BY DEF Fits
  <2>0. r = [acc EXCEPT !.failed = TRUE] \/ (r = acc /\ acc.failed) BY <2>1
  <2> HIDE DEF r
  <2>3. FeedSound(r, told, after) /\ Preserved(acc.h, r.h, more) BY <2>2, <2>0, FailStep
  <2> QED BY <2>3 DEF r
<1>11. CASE item.k = "badproto"
  <2> DEFINE t == Terminate(h, "alpn")
             g == Emit(t, "headers", "ok")
  <2>1. r = [acc EXCEPT !.h = g] BY <1>11 DEF Headers
  <2>2. more /\ ~after /\ Response(item) BY <1>11 DEF Fits, Response
  <2>3. /\ t \in Connections /\ EndSound(t, told) /\ Began(t) /\ t.parked = h.parked
        /\ t.error = h.error
    <3>1. "alpn" \in Codes BY DEF Codes
    <3> QED BY <3>1, <1>1, <1>6, <2>2, TerminateStep
  <2> HIDE DEF t
  <2>4. /\ g \in Connections /\ EndSound(g, told) /\ Began(g) /\ g.parked = t.parked
        /\ g.error = t.error
    BY <2>3, <1>7, EmitStep
  <2>5. scope.role = "client" BY <1>3, <1>5, <1>11
  <2> HIDE DEF g, r
  <2>6. Sound(g) BY <2>2, <2>3, <2>4, <2>5
  <2> HIDE DEF Sound
  <2>7. FeedSound(r, told, after) /\ Preserved(h, r.h, more) BY <1>9, <2>1, <2>4, <2>6
  <2> QED BY <2>7 DEF r
<1>12. CASE item.k \in {"ok", "late"} /\ scope.role = "client"
  <2> DEFINE s == [h EXCEPT !.ses = "established"]
             b == Emit(s, "established", 0)
             t == IF h.ses = "pending" THEN b ELSE h
             g == Emit(t, "headers", "ok")
  <2>1. r = [acc EXCEPT !.h = g] BY <1>12, Zenon DEF Headers
  <2>2. more /\ ~after /\ Response(item) BY <1>12 DEF Fits, Response
  <2>3. /\ s \in Connections /\ s.ses = "established" /\ s.ended = h.ended
        /\ s.events = h.events /\ s.parked = h.parked /\ s.error = h.error
    BY <1>1, SesRecord
  <2> HIDE DEF s
  <2>4. EndSound(s, told)
    <3>1. s.ended = h.ended /\ s.events = h.events /\ (h.ended # "none" => s.ses = "closed")
      BY <1>6, <2>2, <2>3
    <3> QED BY <1>1, <3>1, SameEnd
  <2>5. Began(s) BY <2>3 DEF Began
  <2>6. /\ b \in Connections /\ EndSound(b, told) /\ Began(b) /\ b.parked = h.parked
        /\ b.error = h.error /\ Some(b.events, "established")
    BY <2>3, <2>4, <2>5, <1>7, EmitStep
  <2> HIDE DEF b
  <2>7. /\ t \in Connections /\ EndSound(t, told) /\ t.parked = h.parked /\ t.error = h.error
        /\ h.ses = "pending" => Began(t)
        /\ h.ses # "pending" => t = h
    BY <1>1, <2>6
  <2> HIDE DEF t
  <2>8. /\ g \in Connections /\ EndSound(g, told) /\ g.parked = t.parked /\ g.error = t.error
        /\ Began(g) <=> Began(t)
        /\ Some(g.events, "established") <=> Some(t.events, "established")
    BY <2>7, <1>8a
  <2>9. Complete(g.events) => Began(g)
    <3>1. ~Complete(h.events) BY <1>6, <2>2
    <3> QED BY <3>1, <2>7, <2>8, <1>8, <1>12
  <2> HIDE DEF g, r
  <2>10. Sound(g) BY <1>12, <2>2, <2>7, <2>8, <2>9
  <2> HIDE DEF Sound
  <2>11. FeedSound(r, told, after) /\ Preserved(h, r.h, more) BY <1>9, <2>1, <2>8, <2>10
  <2> QED BY <2>11 DEF r
<1>13. CASE item.k \in {"ok", "late"} /\ scope.role = "server"
  <2> DEFINE s == [h EXCEPT !.ses = "pending"]
             g == Emit(s, "headers", "ok")
  <2>1. r = [acc EXCEPT !.h = g] BY <1>13, Zenon DEF Headers
  <2>2. more /\ ~after /\ Response(item) BY <1>13 DEF Fits, Response
  <2>3. /\ s \in Connections /\ s.ses = "pending" /\ s.ended = h.ended
        /\ s.events = h.events /\ s.parked = h.parked /\ s.error = h.error
    BY <1>1, SesRecord
  <2> HIDE DEF s
  <2>4. EndSound(s, told)
    <3>1. s.ended = h.ended /\ s.events = h.events /\ (h.ended # "none" => s.ses = "closed")
      BY <1>6, <2>2, <2>3
    <3> QED BY <1>1, <3>1, SameEnd
  <2>5. ~Began(s) BY <2>3 DEF Began
  <2>6. /\ g \in Connections /\ EndSound(g, told) /\ ~Began(g) /\ g.parked = h.parked
        /\ g.error = h.error
    BY <2>3, <2>4, <2>5, <1>7, EmitStep
  <2> HIDE DEF g, r
  <2>7. Sound(g) BY <1>13, <2>2, <2>6
  <2> HIDE DEF Sound
  <2>8. FeedSound(r, told, after) /\ Preserved(h, r.h, more) BY <1>9, <2>1, <2>6, <2>7
  <2> QED BY <2>8 DEF r
<1>14. CASE item.k \in {"interim", "no", "get", "reset"}
  <2> DEFINE g == Emit(h, "headers", item.k)
  <2>1. r = [acc EXCEPT !.h = g] BY <1>14, Zenon DEF Headers
  <2>2. /\ g \in Connections /\ EndSound(g, told) /\ g.parked = h.parked /\ g.error = h.error
        /\ Began(g) <=> Began(h)
        /\ g.ended = h.ended
        /\ Some(g.events, "established") <=> Some(h.events, "established")
    BY <1>1, <1>8a
  <2>3. scope.role = "client" => (Complete(g.events) <=> Complete(h.events))
    <3> HIDE DEF g
    <3> QED BY <2>2, <1>8
  <2>4. scope.role = "client" /\ Complete(h.events) => Began(h) BY DEF FeedSound
  <2>5. Response(item) \/ ~more \/ scope.role = "client"
    BY <1>3, <1>5, <1>14 DEF Fits, Response
  <2> HIDE DEF g, r
  <2>6. Sound(g) BY <1>3, <2>2, <2>3, <2>4, <2>5
  <2> HIDE DEF Sound
  <2>7. FeedSound(r, told, after) /\ Preserved(h, r.h, more) BY <1>9, <2>1, <2>2, <2>6
  <2> QED BY <2>7 DEF r
<1> QED BY <1>3, <1>5, <1>10, <1>11, <1>12, <1>13, <1>14

(* What the session does with an item that is no header section.           *)
LEMMA CapsuleStep ==
  ASSUME Types, NEW acc, NEW told \in BOOLEAN, NEW item \in Range(sent),
         FeedSound(acc, told, FALSE), ~acc.failed, acc.h.parked = <<>>,
         item.k \in {"max", "drain", "close", "half"},
         acc.h.ses \in {"pending", "established", "draining", "closed"},
         acc.h.ses = "pending" => scope.role = "client"
  PROVE  /\ FeedSound(Capsule(acc, item), told, FALSE)
         /\ Preserved(acc.h, Capsule(acc, item).h, FALSE)
<1> DEFINE h == acc.h
           r == Capsule(acc, item)
<1>1. acc \in Outcomes /\ h \in Connections /\ EndSound(h, told)
  <2>1. acc \in Outcomes BY DEF FeedSound
  <2> QED BY <2>1, OutcomeFacts DEF FeedSound
<1> DEFINE Sound(g) ==
             /\ EndSound(g, told) /\ g.parked = <<>> /\ g.error = h.error
             /\ scope.role = "server" /\ ~Began(h) => ~Began(g)
             /\ scope.role = "client" /\ Complete(g.events) => Began(g)
             /\ Began(h) => Began(g) /\ (h.ended # "none" => g.ended = h.ended)
<1>2. ASSUME NEW g \in Connections, Sound(g), r = [acc EXCEPT !.h = g]
      PROVE  FeedSound(r, told, FALSE) /\ Preserved(h, r.h, FALSE)
  <2>1. r \in Outcomes /\ r.h = g /\ r.failed = FALSE BY <1>1, <1>2, OutcomeWith
  <2> HIDE DEF r, h
  <2>2. ParkedSound(g, FALSE) BY <1>2 DEF ParkedSound
  <2>3. FeedSound(r, told, FALSE) BY <1>2, <2>1, <2>2 DEF FeedSound
  <2>4. Preserved(h, g, FALSE) BY <1>2 DEF Preserved
  <2> QED BY <2>1, <2>3, <2>4
<1>3. CASE h.ses = "closed"
  <2>1. r = [acc EXCEPT !.failed = TRUE] BY <1>3, Zenon DEF Capsule
  <2>2. r = [acc EXCEPT !.failed = TRUE] \/ (r = acc /\ acc.failed) BY <2>1
  <2> HIDE DEF r
  <2>3. FeedSound(r, told, FALSE) /\ Preserved(acc.h, r.h, FALSE) BY <2>2, FailStep
  <2> QED BY <2>3 DEF r
<1>4. CASE h.ses # "closed"
  <2>1. h.ended = "none" BY <1>1, <1>4 DEF EndSound
  <2>2. h.ses \in {"established", "draining"} => Began(h) BY DEF Began
  <2>3. scope.role = "server" => Began(h) BY <1>4, <2>2
  <2>4. scope.role = "client" /\ Complete(h.events) => Began(h) BY DEF FeedSound
  <2>5. scope \in Scopes /\ sent \in Seq(Items) BY DEF Types
  <2>6. CASE item.k = "max"
    <3> DEFINE g == Emit(h, "max", item.v)
    <3>1. r = [acc EXCEPT !.h = g] BY <1>4, <2>6, Zenon DEF Capsule
    <3>2. Item("max", item.v) \in Events
      <4>1. item.v \in Granted BY <2>6, GrantedFacts
      <4> QED BY <4>1 DEF Item, Events
    <3>3. /\ g \in Connections /\ EndSound(g, told) /\ g.parked = h.parked /\ g.error = h.error
          /\ g.ended = h.ended /\ (Began(g) <=> Began(h))
          /\ Some(g.events, "established") <=> Some(h.events, "established")
      BY <1>1, <3>2, EmitStep
    <3> HIDE DEF g, r
    <3>4. scope.role = "client" => (Complete(g.events) <=> Complete(h.events))
      BY <3>3 DEF Complete, Some
    <3>5. Sound(g) BY <3>3, <3>4, <2>3, <2>4
    <3> HIDE DEF Sound
    <3>6. FeedSound(r, told, FALSE) /\ Preserved(h, r.h, FALSE) BY <1>2, <3>1, <3>3, <3>5
    <3> QED BY <3>6 DEF r
  <2>7. CASE item.k = "drain" /\ h.ses = "established"
    <3> DEFINE s == [h EXCEPT !.ses = "draining"]
               g == Emit(s, "drain", 0)
    <3>1. r = [acc EXCEPT !.h = g] BY <1>4, <2>7, Zenon DEF Capsule
    <3>2. /\ s \in Connections /\ s.ses = "draining" /\ s.ended = h.ended
          /\ s.events = h.events /\ s.parked = h.parked /\ s.error = h.error
      BY <1>1, SesRecord
    <3> HIDE DEF s
    <3>3. EndSound(s, told)
      <4>1. s.ended = h.ended /\ s.events = h.events /\ (h.ended # "none" => s.ses = "closed")
        BY <2>1, <3>2
      <4> QED BY <1>1, <4>1, SameEnd
    <3>4. Began(s) BY <3>2 DEF Began
    <3>5. Item("drain", 0) \in Events BY DEF Item, Events
    <3>6. /\ g \in Connections /\ EndSound(g, told) /\ g.parked = s.parked /\ g.error = s.error
          /\ g.ended = s.ended /\ (Began(g) <=> Began(s))
      BY <3>2, <3>3, <3>5, EmitStep
    <3> HIDE DEF g, r
    <3>7. Sound(g) BY <3>2, <3>4, <3>6, <2>3
    <3> HIDE DEF Sound
    <3>8. FeedSound(r, told, FALSE) /\ Preserved(h, r.h, FALSE) BY <1>2, <3>1, <3>6, <3>7
    <3> QED BY <3>8 DEF r
  <2>8. CASE item.k = "drain" /\ h.ses # "established"
    <3>1. r = [acc EXCEPT !.h = h] BY <1>4, <2>8, Zenon DEF Capsule
    <3>2. Sound(h) BY <1>1, <2>4
    <3> HIDE DEF Sound, r
    <3>3. FeedSound(r, told, FALSE) /\ Preserved(h, r.h, FALSE) BY <1>1, <1>2, <3>1, <3>2
    <3> QED BY <3>3 DEF r
  <2>9. CASE item.k = "close"
    <3> DEFINE g == Terminate(h, "peer")
    <3>1. r = [acc EXCEPT !.h = g] BY <1>4, <2>9, Zenon DEF Capsule
    <3>2. /\ g \in Connections /\ EndSound(g, told) /\ Began(g) /\ g.parked = h.parked
          /\ g.error = h.error
      <4>1. "peer" \in Codes BY DEF Codes
      <4> QED BY <1>1, <2>1, <4>1, TerminateStep
    <3> HIDE DEF g, r
    <3>3. Sound(g) BY <3>2, <2>1, <2>3
    <3> HIDE DEF Sound
    <3>4. FeedSound(r, told, FALSE) /\ Preserved(h, r.h, FALSE) BY <1>2, <3>1, <3>2, <3>3
    <3> QED BY <3>4 DEF r
  <2>10. CASE item.k = "half"
    <3> DEFINE g == [h EXCEPT !.half = TRUE]
    <3>1. r = [acc EXCEPT !.h = g]
      <4>1. r = [acc EXCEPT !.h.half = TRUE] BY <1>4, <2>10, Zenon DEF Capsule
      <4> HIDE DEF r
      <4> QED BY <4>1
    <3>2. /\ g \in Connections /\ g.ses = h.ses /\ g.ended = h.ended
          /\ g.events = h.events /\ g.parked = h.parked /\ g.error = h.error
      BY <1>1, HalfRecord
    <3> HIDE DEF g, r
    <3>3. EndSound(g, told) /\ (Began(g) <=> Began(h))
      <4>1. g.ended = h.ended /\ g.events = h.events /\ (h.ended # "none" => g.ses = "closed")
        BY <2>1, <3>2
      <4>2. EndSound(g, told) BY <1>1, <4>1, SameEnd
      <4> QED BY <3>2, <4>2 DEF Began
    <3>4. Sound(g) BY <3>2, <3>3, <2>3, <2>4
    <3> HIDE DEF Sound
    <3>5. FeedSound(r, told, FALSE) /\ Preserved(h, r.h, FALSE) BY <1>2, <3>1, <3>2, <3>4
    <3> QED BY <3>5 DEF r
  <2> QED BY <2>6, <2>7, <2>8, <2>9, <2>10
<1> QED BY <1>3, <1>4

(* Reading one item keeps the session sound.                               *)
LEMMA ReadItemStep ==
  ASSUME Types, NEW acc, NEW told \in BOOLEAN, NEW more \in BOOLEAN, NEW after \in BOOLEAN,
         NEW item \in Range(sent), FeedSound(acc, told, more), Fits(item, more, after)
  PROVE  /\ FeedSound(ReadItem(acc, item), told, after)
         /\ Preserved(acc.h, ReadItem(acc, item).h, more)
<1> DEFINE h == acc.h
           r == ReadItem(acc, item)
<1>1. acc \in Outcomes /\ h \in Connections /\ EndSound(h, told) /\ ConnectionFields(h)
  <2>1. acc \in Outcomes BY DEF FeedSound
  <2>2. h \in Connections BY <2>1, OutcomeFacts
  <2> QED BY <2>1, <2>2, ConnectionFacts DEF FeedSound
<1>2. after => more BY DEF Fits
<1>3. scope \in Scopes /\ sent \in Seq(Items) BY DEF Types
<1>4. scope.role \in {"client", "server"} BY <1>3, RoleFacts
<1>5. CASE acc.failed
  <2>1. r = acc BY <1>5, Zenon DEF ReadItem
  <2> HIDE DEF r
  <2>2. FeedSound(r, told, after) /\ Preserved(acc.h, r.h, more) BY <1>2, <1>5, <2>1, FailStep
  <2> QED BY <2>2 DEF r
<1>6. CASE ~acc.failed /\ (h.parked # <<>> \/ (item.k = "late" /\ ~h.inserted))
  <2> DEFINE p == Append(h.parked, item)
             g == [h EXCEPT !.parked = p]
  <2>1. r = [acc EXCEPT !.h = g]
    <3>1. r = [acc EXCEPT !.h.parked = Append(@, item)] BY <1>6, Zenon DEF ReadItem
    <3> HIDE DEF r
    <3> QED BY <3>1
  <2>2. /\ h.parked \in Seq(Range(sent)) /\ p \in Seq(Range(sent))
        /\ Len(p) = Len(h.parked) + 1 /\ p[Len(p)] = item
        /\ \A i \in 1 .. Len(h.parked) : p[i] = h.parked[i]
        /\ Len(h.parked) \in Nat
    BY <1>1, AppendProperties, LenProperties DEF ConnectionFields
  <2> HIDE DEF p
  <2>3. /\ g \in Connections /\ g.ses = h.ses /\ g.ended = h.ended
        /\ g.events = h.events /\ g.parked = p /\ g.error = h.error
    BY <1>1, <2>2, ParkedRecord
  <2>4. r \in Outcomes /\ r.h = g /\ r.failed = FALSE
    <3> HIDE DEF g, r
    <3> QED BY <1>1, <1>6, <2>1, <2>3, OutcomeWith
  <2> HIDE DEF g, r
  <2>5. EndSound(g, told)
    <3>1. h.ended # "none" => h.ses = "closed" BY <1>1 DEF EndSound
    <3> QED BY <1>1, <2>3, <3>1, SameEnd
  <2>6. ParkedSound(g, after) /\ h.ended = "none" /\ ~Complete(h.events)
    <3>1. CASE h.parked # <<>>
      <4>1. ~more /\ h.parked[1].k = "late" /\ \A i \in 2 .. Len(h.parked) : ~Response(h.parked[i])
        BY <3>1 DEF FeedSound, ParkedSound
      <4>2. h.ended = "none" /\ ~Complete(h.events) BY <1>6, <3>1 DEF FeedSound
      <4>3. Len(h.parked) >= 1 BY <2>2, <3>1, EmptySeq
      <4>4. ~Response(item) /\ ~after BY <4>1, <1>2 DEF Fits
      <4>5. p[1] = h.parked[1] BY <2>2, <4>3
      <4>6. \A i \in 2 .. Len(p) : ~Response(p[i])
        <5> TAKE i \in 2 .. Len(p)
        <5>1. CASE i = Len(p) BY <5>1, <2>2, <4>4
        <5>2. CASE i # Len(p)
          <6>1. i \in 2 .. Len(h.parked) /\ i \in 1 .. Len(h.parked) BY <5>2, <2>2
          <6> QED BY <6>1, <2>2, <4>1
        <5> QED BY <5>1, <5>2
      <4> QED BY <2>3, <4>1, <4>2, <4>4, <4>5, <4>6 DEF ParkedSound
    <3>2. CASE h.parked = <<>>
      <4>1. item.k = "late" BY <1>6, <3>2
      <4>2. Response(item) BY <4>1 DEF Response
      <4>3. more /\ ~after BY <4>2 DEF Fits
      <4>4. h.ended = "none" /\ ~Complete(h.events) BY <1>6, <4>3 DEF FeedSound
      <4>5. Len(p) = 1 BY <2>2, <3>2
      <4>6. p[1] = item BY <2>2, <4>5
      <4>7. \A i \in 2 .. Len(p) : FALSE BY <4>5
      <4> QED BY <2>3, <4>1, <4>3, <4>4, <4>6, <4>7 DEF ParkedSound
    <3> QED BY <3>1, <3>2
  <2>7. Complete(g.events) <=> Complete(h.events) BY <2>3
  <2>8. FeedSound(r, told, after) BY <2>3, <2>4, <2>5, <2>6, <2>7 DEF FeedSound
  <2>9. Preserved(h, g, more)
    <3>1. Began(g) <=> Began(h) BY <2>3 DEF Began
    <3>2. ~more /\ h.parked = <<>> => FALSE BY <1>6 DEF Fits, Response
    <3> QED BY <2>3, <3>1, <3>2 DEF Preserved
  <2> QED BY <2>4, <2>8, <2>9 DEF r
<1>7. CASE ~acc.failed /\ h.parked = <<>> /\ ~(item.k = "late" /\ ~h.inserted) /\ IsHeaders(item)
  <2>1. r = Headers(acc, item) BY <1>7, Zenon DEF ReadItem
  <2>2. /\ FeedSound(Headers(acc, item), told, after)
        /\ Preserved(acc.h, Headers(acc, item).h, more)
    BY <1>7, HeadersStep
  <2> QED BY <2>1, <2>2, Zenon
<1>8. CASE ~acc.failed /\ h.parked = <<>> /\ ~IsHeaders(item)
  <2>1. item.k \in {"max", "drain", "close", "half", "fin"} /\ item.k # "late"
    BY <1>8 DEF IsHeaders
  <2>2. ~Response(item) /\ ~more /\ ~after
    <3>1. ~Response(item) /\ item.k # "interim" BY <2>1 DEF Response
    <3> QED BY <3>1, <1>2 DEF Fits
  <2>3. more = FALSE /\ after = FALSE BY <2>2
  <2>4. FeedSound(acc, told, FALSE) BY <2>3
  <2> SUFFICES FeedSound(r, told, FALSE) /\ Preserved(h, r.h, FALSE) BY <2>3
  <2>5. scope.role = "client" /\ Complete(h.events) => Began(h) BY DEF FeedSound
  <2> DEFINE Sound(g) ==
               /\ EndSound(g, told) /\ g.parked = <<>> /\ g.error = h.error
               /\ scope.role = "server" /\ ~Began(h) => ~Began(g)
               /\ scope.role = "client" /\ Complete(g.events) => Began(g)
               /\ Began(h) => Began(g) /\ (h.ended # "none" => g.ended = h.ended)
  <2>6. ASSUME NEW g \in Connections, Sound(g), r = [acc EXCEPT !.h = g]
        PROVE  FeedSound(r, told, FALSE) /\ Preserved(h, r.h, FALSE)
    <3>1. r \in Outcomes /\ r.h = g /\ r.failed = FALSE BY <1>1, <1>8, <2>6, OutcomeWith
    <3> HIDE DEF r, h
    <3>2. ParkedSound(g, FALSE) BY <2>6 DEF ParkedSound
    <3>3. FeedSound(r, told, FALSE) BY <2>6, <3>1, <3>2 DEF FeedSound
    <3>4. Preserved(h, g, FALSE) BY <2>6 DEF Preserved
    <3> QED BY <3>1, <3>3, <3>4
  <2>7. CASE h.ses = "none" \/ (item.k = "fin" /\ h.ses = "closed")
    <3>1. r = acc BY <1>8, <2>1, <2>7, Zenon DEF ReadItem
    <3>2. Preserved(h, h, FALSE) BY PreservedSame
    <3> HIDE DEF r
    <3>3. FeedSound(r, told, FALSE) /\ Preserved(h, r.h, FALSE) BY <2>4, <3>1, <3>2
    <3> QED BY <3>3
  <2>8. CASE item.k = "fin" /\ h.ses = "pending"
    <3> DEFINE g == [h EXCEPT !.ses = "closed"]
    <3>1. r = [acc EXCEPT !.h = g]
      <4>1. r = [acc EXCEPT !.h.ses = "closed"] BY <1>8, <2>1, <2>8, Zenon DEF ReadItem
      <4> HIDE DEF r
      <4> QED BY <4>1
    <3>2. /\ g \in Connections /\ g.ses = "closed" /\ g.ended = h.ended
          /\ g.events = h.events /\ g.parked = h.parked /\ g.error = h.error
      BY <1>1, SesRecord
    <3> HIDE DEF g, r
    <3>3. h.ended = "none" BY <1>1, <2>8 DEF EndSound
    <3>4. EndSound(g, told) BY <1>1, <3>2, SameEnd
    <3>5. ~Began(g) /\ ~Began(h) BY <3>2, <3>3, <2>8 DEF Began
    <3>6. Sound(g) BY <1>8, <2>5, <3>2, <3>4, <3>5
    <3> HIDE DEF Sound
    <3>7. FeedSound(r, told, FALSE) /\ Preserved(h, r.h, FALSE) BY <2>6, <3>1, <3>2, <3>6
    <3> QED BY <3>7
  <2>9. CASE item.k = "fin" /\ h.ses \in {"established", "draining"} /\ h.half
    <3>1. r = [acc EXCEPT !.failed = TRUE] BY <1>8, <2>1, <2>9, Zenon DEF ReadItem
    <3>2. r = [acc EXCEPT !.failed = TRUE] \/ (r = acc /\ acc.failed) BY <3>1
    <3> HIDE DEF r
    <3>3. FeedSound(r, told, FALSE) /\ Preserved(acc.h, r.h, FALSE) BY <2>4, <3>2, FailStep
    <3> QED BY <3>3
  <2>10. CASE item.k = "fin" /\ h.ses \in {"established", "draining"} /\ ~h.half
    <3> DEFINE g == Terminate(h, "clean")
    <3>1. r = [acc EXCEPT !.h = g] BY <1>8, <2>1, <2>10, Zenon DEF ReadItem
    <3>2. h.ended = "none" /\ Began(h) BY <1>1, <2>10 DEF EndSound, Began
    <3>3. /\ g \in Connections /\ EndSound(g, told) /\ Began(g) /\ g.parked = h.parked
          /\ g.error = h.error
      <4>1. "clean" \in Codes BY DEF Codes
      <4> QED BY <1>1, <3>2, <4>1, TerminateStep
    <3> HIDE DEF g, r
    <3>4. Sound(g) BY <1>8, <3>2, <3>3
    <3> HIDE DEF Sound
    <3>5. FeedSound(r, told, FALSE) /\ Preserved(h, r.h, FALSE) BY <2>6, <3>1, <3>3, <3>4
    <3> QED BY <3>5
  <2>11. CASE item.k # "fin" /\ h.ses = "pending" /\ scope.role = "server"
    <3> DEFINE p == Append(h.caps, item)
               g == [h EXCEPT !.caps = p]
    <3>1. r = [acc EXCEPT !.h = g]
      <4>1. r = [acc EXCEPT !.h.caps = Append(@, item)] BY <1>8, <2>1, <2>11, Zenon DEF ReadItem
      <4> HIDE DEF r
      <4> QED BY <4>1
    <3>2. item \in Capsules BY <2>1, <2>11 DEF Capsules
    <3>3. p \in Seq(Capsules) BY <1>1, <3>2, AppendProperties DEF ConnectionFields
    <3> HIDE DEF p
    <3>4. /\ g \in Connections /\ g.ses = h.ses /\ g.ended = h.ended
          /\ g.events = h.events /\ g.parked = h.parked /\ g.error = h.error
      BY <1>1, <3>3, CapsRecord
    <3> HIDE DEF g, r
    <3>5. h.ended # "none" => h.ses = "closed" BY <1>1 DEF EndSound
    <3>6. EndSound(g, told) BY <1>1, <3>4, <3>5, SameEnd
    <3>7. Began(g) <=> Began(h) BY <3>4 DEF Began
    <3>8. Sound(g) BY <1>8, <2>5, <3>4, <3>6, <3>7
    <3> HIDE DEF Sound
    <3>9. FeedSound(r, told, FALSE) /\ Preserved(h, r.h, FALSE) BY <2>6, <3>1, <3>4, <3>8
    <3> QED BY <3>9
  <2>12. CASE item.k # "fin" /\ h.ses # "none" /\ ~(h.ses = "pending" /\ scope.role = "server")
    <3>1. r = Capsule(acc, item) BY <1>8, <2>1, <2>12, Zenon DEF ReadItem
    <3>2. h.ses \in {"pending", "established", "draining", "closed"}
      BY <1>1, <2>12 DEF ConnectionFields
    <3>3. h.ses = "pending" => scope.role = "client" BY <2>12, <1>4
    <3>4. item.k \in {"max", "drain", "close", "half"} BY <2>1, <2>12
    <3>5. /\ FeedSound(Capsule(acc, item), told, FALSE)
          /\ Preserved(acc.h, Capsule(acc, item).h, FALSE)
      BY <1>8, <2>4, <3>2, <3>3, <3>4, CapsuleStep
    <3> QED BY <3>1, <3>5, Zenon
  <2>13. h.ses \in {"none", "pending", "established", "draining", "closed"} /\ h.half \in BOOLEAN
    BY <1>1 DEF ConnectionFields
  <2> HIDE DEF r, Sound
  <2> QED BY <2>7, <2>8, <2>9, <2>10, <2>11, <2>12, <2>13
<1> QED BY <1>5, <1>6, <1>7, <1>8

-----------------------------------------------------------------------------
(***************************************************************************)
(* A chunk of items: m[i] says whether a response is still to come when i  *)
(* of them are read.                                                       *)
(***************************************************************************)
LEMMA ReadItemsStep ==
  ASSUME Types, NEW h \in Connections, NEW told \in BOOLEAN, NEW items \in Seq(Range(sent)),
         NEW m \in [0 .. Len(items) -> BOOLEAN],
         FeedSound([h |-> h, failed |-> FALSE], told, m[0]),
         \A i \in 1 .. Len(items) : Fits(items[i], m[i - 1], m[i])
  PROVE  /\ FeedSound(ReadItems(h, items), told, m[Len(items)])
         /\ Preserved(h, ReadItems(h, items).h, m[0])
<1> DEFINE n == Len(items)
           x == [h |-> h, failed |-> FALSE]
<1>1. n \in Nat BY LenProperties
<1>2. PICK a : /\ a[0] = x /\ \A i \in 1 .. n : a[i] = ReadItem(a[i - 1], items[i])
               /\ ReadItems(h, items) = a[n]
  BY <1>1, ReadItemsRun, Zenon
<1> DEFINE Good(i) == FeedSound(a[i], told, m[i]) /\ Preserved(h, a[i].h, m[0]) /\ (m[i] => m[0])
           T == {i \in 0 .. n : ~Good(i)}
<1>3. Good(0)
  <2>1. x.h = h /\ FeedSound(x, told, m[0]) OBVIOUS
  <2>2. m[0] \in BOOLEAN BY <1>1
  <2> HIDE DEF x
  <2> QED BY <1>2, <2>1, <2>2, PreservedSame
<1> HIDE DEF x
<1>4. ASSUME NEW i \in 1 .. n, Good(i - 1) PROVE Good(i)
  <2>1. i \in DOMAIN items /\ i - 1 \in 0 .. n /\ i \in 0 .. n BY <1>1, LenProperties
  <2>2. items[i] \in Range(sent) BY <2>1, ElementOfSeq, LenProperties
  <2>3. m[i - 1] \in BOOLEAN /\ m[i] \in BOOLEAN /\ m[0] \in BOOLEAN BY <1>1, <2>1
  <2> DEFINE e == items[i]
             b == a[i - 1]
             p == m[i - 1]
             q == m[i]
             r == ReadItem(b, e)
  <2>4. a[i] = r BY <1>2
  <2>5. FeedSound(b, told, p) /\ Fits(e, p, q) /\ Preserved(h, b.h, m[0]) /\ (p => m[0])
    BY <1>4
  <2>6. FeedSound(r, told, q) /\ Preserved(b.h, r.h, p)
    <3> HIDE DEF e, b, p, q
    <3>1. e \in Range(sent) /\ p \in BOOLEAN /\ q \in BOOLEAN BY <2>2, <2>3 DEF e, p, q
    <3>2. FeedSound(ReadItem(b, e), told, q) /\ Preserved(b.h, ReadItem(b, e).h, p)
      BY <2>5, <3>1, ReadItemStep, Zenon
    <3> QED BY <3>2 DEF r
  <2>7. q => p BY <2>5 DEF Fits
  <2> HIDE DEF r, b, p, e, q
  <2>8. q \in BOOLEAN /\ p \in BOOLEAN BY <2>3 DEF p, q
  <2>9. Preserved(h, r.h, m[0]) BY <2>3, <2>5, <2>6, <2>8, PreservedTrans
  <2>10. q = m[i] BY DEF q
  <2> QED BY <2>4, <2>5, <2>6, <2>7, <2>9, <2>10
<1>5. T = {}
  <2> SUFFICES ASSUME T # {} PROVE FALSE OBVIOUS
  <2>1. T \in SUBSET Nat BY <1>1
  <2>2. PICK i \in T : \A j \in T : i <= j
    <3> HIDE DEF T
    <3> QED BY <2>1, LeastNat
  <2>3. i \in 0 .. n /\ ~Good(i) OBVIOUS
  <2> HIDE DEF Good
  <2>4. i # 0 BY <1>3, <2>3
  <2>5. i \in 1 .. n /\ i - 1 \in 0 .. n /\ ~(i <= i - 1) BY <1>1, <2>3, <2>4
  <2>6. Good(i - 1) BY <2>2, <2>5
  <2> QED BY <1>4, <2>3, <2>5, <2>6
<1>6. Good(n)
  <2>1. n \in 0 .. n BY <1>1
  <2> HIDE DEF Good
  <2> QED BY <1>5, <2>1
<1> QED BY <1>2, <1>6

(* The state of a connection by itself.                                    *)
LEMMA HandshakeFeed ==
  ASSUME NEW h, NEW told, NEW more
  PROVE  HandshakeSound(h, told, more) <=> FeedSound([h |-> h, failed |-> FALSE], told, more)
<1>1. [h |-> h, failed |-> FALSE].h = h /\ [h |-> h, failed |-> FALSE].failed = FALSE OBVIOUS
<1>2. [h |-> h, failed |-> FALSE] \in Outcomes <=> h \in Connections BY DEF Outcomes
<1> QED BY <1>1, <1>2 DEF HandshakeSound, FeedSound

(* feed_stream keeps the session sound, for any number of items.           *)
LEMMA FeedStep ==
  ASSUME Types, NEW h, NEW told \in BOOLEAN, NEW items \in Seq(Range(sent)),
         NEW m \in [0 .. Len(items) -> BOOLEAN],
         HandshakeSound(h, told, m[0]), m[Len(items)] => m[0],
         \A i \in 1 .. Len(items) : Fits(items[i], m[i - 1], m[i])
  PROVE  /\ FeedSound(Feed(h, items), told, m[Len(items)])
         /\ Preserved(h, Feed(h, items).h, m[0])
         /\ ~Feed(h, items).failed => ~h.error /\ Feed(h, items) = ReadItems(h, items)
<1>1. h \in Connections /\ FeedSound([h |-> h, failed |-> FALSE], told, m[0])
  BY HandshakeFeed DEF HandshakeSound
<1>2. m[0] \in BOOLEAN /\ m[Len(items)] \in BOOLEAN BY LenProperties
<1>3. CASE h.error
  <2> DEFINE r == [h |-> h, failed |-> TRUE]
             x == [h |-> h, failed |-> FALSE]
  <2>1. Feed(h, items) = r BY <1>3 DEF Feed
  <2>2. r \in Outcomes BY <1>1 DEF Outcomes
  <2>3. x.h = h /\ r.h = h /\ r.failed = TRUE BY DEF x, r
  <2> HIDE DEF r, x
  <2>4. FeedSound(x, told, m[0]) BY <1>1 DEF x
  <2> DEFINE p == m[0]
             q == m[Len(items)]
  <2>5. p \in BOOLEAN /\ q \in BOOLEAN /\ (q => p) /\ r.h = x.h BY <1>2, <2>3
  <2>6. FeedSound(x, told, p) BY <2>4
  <2>7. FeedSound(r, told, q)
    <3> HIDE DEF p, q
    <3> QED BY <2>2, <2>3, <2>5, <2>6, FailedSound
  <2>8. Preserved(h, r.h, p) BY <2>3, <2>5, PreservedSame
  <2> QED BY <1>3, <2>1, <2>3, <2>7, <2>8
<1>4. CASE ~h.error
  <2>1. Feed(h, items) = ReadItems(h, items) BY <1>4 DEF Feed
  <2>2. /\ FeedSound(ReadItems(h, items), told, m[Len(items)])
        /\ Preserved(h, ReadItems(h, items).h, m[0])
    BY <1>1, ReadItemsStep
  <2> QED BY <1>4, <2>1, <2>2
<1> QED BY <1>3, <1>4

(* drain_events.                                                           *)
DrainSound(h, r, told, more) ==
    \E g \in Connections :
       /\ FeedSound([h |-> g, failed |-> r.failed], told, more) /\ Preserved(h, g, more)
       /\ r.failed \in BOOLEAN
       /\ r.failed => r.h = g /\ r.events = <<>>
       /\ ~r.failed => r.h = Drained(g) /\ r.events = g.events /\ ~h.error
       /\ h.parked = <<>> => g = h /\ (r.failed => h.error)

(* drain_events takes the end of the session out of the queue.             *)
LEMMA DrainStep ==
  ASSUME Types, NEW h, NEW told \in BOOLEAN, NEW more \in BOOLEAN, HandshakeSound(h, told, more)
  PROVE  DrainSound(h, Drain(h), told, more)
<1> DEFINE x == [h |-> h, failed |-> FALSE]
           d == Drain(h)
           r == Retried(h)
<1>1. h \in Connections /\ FeedSound(x, told, more) /\ ConnectionFields(h)
  BY HandshakeFeed, ConnectionFacts DEF HandshakeSound
<1>2. x.h = h /\ x.failed = FALSE OBVIOUS
<1>3. CASE h.error
  <2> DEFINE y == [h |-> h, failed |-> TRUE]
  <2>1. d = [h |-> h, events |-> <<>>, failed |-> TRUE] BY <1>3 DEF Drain
  <2>2. y \in Outcomes /\ y.h = x.h /\ y.failed = TRUE BY <1>1 DEF Outcomes
  <2>3. d.h = h /\ d.events = <<>> /\ d.failed = TRUE
    <3> HIDE DEF d
    <3> QED BY <2>1
  <2> HIDE DEF x, y, d
  <2>4a. FeedSound(x, told, more) BY <1>1 DEF x
  <2>4b. FeedSound(y, told, more) BY <2>2, <2>4a DEF FeedSound
  <2>4. FeedSound(y, told, more) /\ Preserved(h, h, more) BY <2>4b, PreservedSame
  <2>5. FeedSound([h |-> h, failed |-> d.failed], told, more) BY <2>3, <2>4 DEF y
  <2>6. DrainSound(h, d, told, more) BY <1>1, <1>3, <2>3, <2>4, <2>5 DEF DrainSound
  <2> QED BY <2>6 DEF d
<1>4. CASE ~h.error /\ (h.parked = <<>> \/ ~h.inserted)
  <2>1. r = x BY <1>4 DEF Retried
  <2>2. d = [h |-> Drained(h), events |-> h.events, failed |-> FALSE]
    <3>1. Retried(h) = x BY <2>1
    <3>2. Retried(h).h = h /\ ~Retried(h).failed
      <4> HIDE DEF x
      <4> QED BY <3>1, <1>2
    <3>3. d = IF h.error THEN [h |-> h, events |-> <<>>, failed |-> TRUE]
              ELSE IF Retried(h).failed
              THEN [h |-> Retried(h).h, events |-> <<>>, failed |-> TRUE]
              ELSE [h |-> Drained(Retried(h).h), events |-> Retried(h).h.events, failed |-> FALSE]
      BY Zenon DEF Drain
    <3> HIDE DEF d
    <3> QED BY <3>2, <3>3, <1>4, Zenon
  <2>3. d.h = Drained(h) /\ d.events = h.events /\ d.failed = FALSE
    <3> HIDE DEF d
    <3> QED BY <2>2
  <2> HIDE DEF d
  <2>4. FeedSound([h |-> h, failed |-> d.failed], told, more) BY <1>1, <2>3
  <2>5. Preserved(h, h, more) BY PreservedSame
  <2>6. DrainSound(h, d, told, more) BY <1>1, <1>4, <2>3, <2>4, <2>5 DEF DrainSound
  <2> QED BY <2>6 DEF d
<1>5. CASE ~h.error /\ h.parked # <<>> /\ h.inserted
  <2> DEFINE p == h.parked
             n == Len(p)
             h1 == [h EXCEPT !.parked = <<>>]
             m == [i \in 0 .. n |-> IF i = 0 THEN TRUE ELSE FALSE]
             f == Feed(h1, p)
  <2>1. r = f BY <1>5 DEF Retried
  <2>2. p \in Seq(Range(sent)) /\ n \in Nat /\ n >= 1 /\ <<>> \in Seq(Range(sent))
    <3>1. p \in Seq(Range(sent)) BY <1>1 DEF ConnectionFields
    <3> HIDE DEF p
    <3>2. p # <<>> BY <1>5 DEF p
    <3> QED BY <3>1, <3>2, LenProperties, EmptySeq
  <2>3. /\ h1 \in Connections /\ h1.ses = h.ses /\ h1.ended = h.ended
        /\ h1.events = h.events /\ h1.parked = <<>> /\ h1.error = h.error
    BY <1>1, <2>2, ParkedRecord
  <2>4. /\ h.ended = "none" /\ ~Complete(h.events) /\ ~more
        /\ p[1].k = "late" /\ \A i \in 2 .. n : ~Response(p[i])
    <3>1. ParkedSound(h, more) BY DEF HandshakeSound
    <3>2. h.ended = "none" /\ ~Complete(h.events) BY <1>5 DEF HandshakeSound
    <3> QED BY <1>5, <3>1, <3>2 DEF ParkedSound
  <2> HIDE DEF h1
  <2>5. HandshakeSound(h1, told, TRUE)
    <3>1. EndSound(h, told) BY DEF HandshakeSound
    <3>2. EndSound(h1, told) BY <2>3, <2>4, <3>1, SameEnd
    <3>3. ~Complete(h1.events) BY <2>3, <2>4
    <3> QED BY <2>3, <2>4, <3>2, <3>3 DEF HandshakeSound, ParkedSound
  <2>6. /\ m \in [0 .. n -> BOOLEAN] /\ m[0] = TRUE /\ m[n] = FALSE
        /\ m[1] = FALSE /\ \A i \in 2 .. n : m[i - 1] = FALSE /\ m[i] = FALSE
    BY <2>2
  <2> HIDE DEF m
  <2>7. ASSUME NEW i \in 1 .. n PROVE Fits(p[i], m[i - 1], m[i])
    <3>1. CASE i = 1
      <4>1. Response(p[1]) BY <2>4 DEF Response
      <4> QED BY <3>1, <4>1, <2>6 DEF Fits
    <3>2. CASE i # 1
      <4>1. i \in 2 .. n BY <3>2, <2>2
      <4> QED BY <4>1, <2>4, <2>6 DEF Fits
    <3> QED BY <3>1, <3>2
  <2> HIDE DEF p
  <2>8. /\ FeedSound(f, told, m[n]) /\ Preserved(h1, f.h, m[0])
        /\ m[n] => m[0]
    BY <2>2, <2>5, <2>6, <2>7, FeedStep
  <2> DEFINE g == f.h
  <2> HIDE DEF f, n
  <2>9. f \in Outcomes /\ f.h \in Connections /\ f.failed \in BOOLEAN
    <3>1. f \in Outcomes BY <2>8 DEF FeedSound
    <3> QED BY <3>1, OutcomeFacts
  <2>10. f = [h |-> f.h, failed |-> f.failed] BY <2>9 DEF Outcomes
  <2>11. more = FALSE BY <2>4
  <2>12. Preserved(h, g, more)
    <3>1. Began(h1) <=> Began(h) BY <2>3 DEF Began
    <3> QED BY <1>5, <2>3, <2>6, <2>8, <3>1 DEF Preserved
  <2>13. d = IF f.failed THEN [h |-> f.h, events |-> <<>>, failed |-> TRUE]
             ELSE [h |-> Drained(f.h), events |-> f.h.events, failed |-> FALSE]
    BY <1>5, <2>1, Zenon DEF Drain
  <2> HIDE DEF d, r
  <2>14. /\ d.failed = f.failed
         /\ f.failed => d.h = f.h /\ d.events = <<>>
         /\ ~f.failed => d.h = Drained(f.h) /\ d.events = f.h.events
    <3>1. CASE f.failed BY <3>1, <2>9, <2>13
    <3>2. CASE ~f.failed BY <3>2, <2>9, <2>13
    <3> QED BY <3>1, <3>2
  <2>15. FeedSound([h |-> f.h, failed |-> d.failed], told, more)
    BY <2>6, <2>8, <2>10, <2>11, <2>14
  <2>16. DrainSound(h, d, told, more)
    BY <1>5, <2>9, <2>12, <2>14, <2>15 DEF DrainSound
  <2> QED BY <2>16 DEF d
<1> QED BY <1>1, <1>3, <1>4, <1>5 DEF ConnectionFields

-----------------------------------------------------------------------------
(***************************************************************************)
(* The calls of the tasks: process_stream_data and stream_reset, each with *)
(* what drain_events hands out.                                            *)
(***************************************************************************)
Processed(h, r, told, more, after) ==
    \E g \in Connections :
       /\ FeedSound([h |-> g, failed |-> r.failed], told, after) /\ Preserved(h, g, more)
       /\ r.failed \in BOOLEAN
       /\ r.failed => r.h = g /\ r.events = <<>>
       /\ ~r.failed => r.h = Drained(g) /\ r.events = g.events

(* What drain_events does is a case of what process_stream_data does.      *)
LEMMA DrainProcessed ==
  ASSUME NEW h, NEW r, NEW told, NEW more, DrainSound(h, r, told, more)
  PROVE  Processed(h, r, told, more, more)
BY DEF DrainSound, Processed

(* A connection whose queue has been taken.                                *)
LEMMA DrainedFacts ==
  ASSUME NEW g \in Connections
  PROVE  /\ Drained(g) \in Connections /\ Drained(g).ses = g.ses /\ Drained(g).ended = g.ended
         /\ Drained(g).events = <<>> /\ Drained(g).parked = g.parked
         /\ Drained(g).error = g.error /\ (Began(Drained(g)) <=> Began(g))
<1>1. <<>> \in Seq(Events) OBVIOUS
<1> DEFINE d == Drained(g)
<1>2. d = [g EXCEPT !.events = <<>>] BY DEF Drained
<1> HIDE DEF d
<1>3. /\ d \in Connections /\ d.ses = g.ses /\ d.ended = g.ended
      /\ d.events = <<>> /\ d.parked = g.parked /\ d.error = g.error
  BY <1>1, <1>2, EventsRecord
<1>4. Began(d) <=> Began(g) BY <1>3 DEF Began
<1> QED BY <1>3, <1>4 DEF d

(* process_stream_data: what it returns and leaves tells the end once.     *)
LEMMA ProcessStep ==
  ASSUME Types, NEW h, NEW told \in BOOLEAN, NEW items \in Seq(Range(sent)),
         NEW m \in [0 .. Len(items) -> BOOLEAN],
         HandshakeSound(h, told, m[0]), m[Len(items)] => m[0],
         \A i \in 1 .. Len(items) : Fits(items[i], m[i - 1], m[i])
  PROVE  Processed(h, ProcessStreamData(h, items), told, m[0], m[Len(items)])
<1> DEFINE f == Feed(h, items)
           r == ProcessStreamData(h, items)
           p == m[0]
           q == m[Len(items)]
<1>1. FeedSound(f, told, q) /\ Preserved(h, f.h, p) BY FeedStep
<1>2. p \in BOOLEAN /\ q \in BOOLEAN /\ (q => p) BY LenProperties
<1>3. f \in Outcomes /\ f.h \in Connections /\ f.failed \in BOOLEAN
  <2>1. f \in Outcomes BY <1>1 DEF FeedSound
  <2> HIDE DEF f
  <2> QED BY <2>1, OutcomeFacts
<1>4. r = IF f.failed THEN [h |-> f.h, events |-> <<>>, failed |-> TRUE] ELSE Drain(f.h)
  BY Zenon DEF ProcessStreamData
<1> HIDE DEF f, r, p, q
<1>5. f = [h |-> f.h, failed |-> f.failed] BY <1>3 DEF Outcomes
<1>6. CASE f.failed
  <2>1. r.h = f.h /\ r.events = <<>> /\ r.failed = TRUE BY <1>4, <1>6
  <2>2. f.failed = r.failed BY <1>3, <1>6, <2>1
  <2>3. FeedSound([h |-> f.h, failed |-> r.failed], told, q) BY <1>1, <1>5, <2>2
  <2>4. Processed(h, r, told, p, q) BY <1>1, <1>3, <2>1, <2>3 DEF Processed
  <2> QED BY <2>4 DEF r, p, q
<1>7. CASE ~f.failed
  <2>1. r = Drain(f.h) BY <1>4, <1>7
  <2>2. f.failed = FALSE BY <1>3, <1>7
  <2>3. f = [h |-> f.h, failed |-> FALSE] BY <1>5, <2>2
  <2>4. HandshakeSound(f.h, told, q) BY <1>1, <2>3, HandshakeFeed
  <2>5. DrainSound(f.h, r, told, q) BY <1>2, <2>1, <2>4, DrainStep
  <2>6. PICK g \in Connections :
          /\ FeedSound([h |-> g, failed |-> r.failed], told, q) /\ Preserved(f.h, g, q)
          /\ r.failed \in BOOLEAN
          /\ r.failed => r.h = g /\ r.events = <<>>
          /\ ~r.failed => r.h = Drained(g) /\ r.events = g.events
    BY <2>5 DEF DrainSound
  <2>7. Preserved(h, g, p) BY <1>1, <1>2, <2>6, PreservedTrans
  <2>8. Processed(h, r, told, p, q) BY <2>6, <2>7 DEF Processed
  <2> QED BY <2>8 DEF r, p, q
<1> QED BY <1>6, <1>7

(* FIN ends a session that has begun.                                      *)
LEMMA FinStep ==
  ASSUME Types, NEW h, NEW told \in BOOLEAN, NEW items \in Seq(Range(sent)),
         Len(items) = 1, items[1].k = "fin",
         HandshakeSound(h, told, FALSE), Began(h), h.parked = <<>>,
         ~ProcessStreamData(h, items).failed
  PROVE  ProcessStreamData(h, items).h.ended # "none"
<1> DEFINE f == Feed(h, items)
           r == ProcessStreamData(h, items)
           x == [h |-> h, failed |-> FALSE]
           e == items[1]
           b == ReadItem(x, e)
<1>1. h \in Connections /\ EndSound(h, told) BY DEF HandshakeSound
<1>2. r = IF f.failed THEN [h |-> f.h, events |-> <<>>, failed |-> TRUE] ELSE Drain(f.h)
  BY Zenon DEF ProcessStreamData
<1>3. ~f.failed
  <2> HIDE DEF f, r
  <2>1. ~r.failed BY DEF r
  <2> QED BY <1>2, <2>1
<1>4. ~h.error /\ f = ReadItems(h, items)
  <2>1. CASE h.error
    <3>1. f = [h |-> h, failed |-> TRUE] BY <2>1 DEF Feed
    <3> HIDE DEF f
    <3> QED BY <3>1, <1>3
  <2>2. CASE ~h.error BY <2>2 DEF Feed
  <2> QED BY <2>1, <2>2
<1>5. f = b
  <2>0. Len(items) \in Nat OBVIOUS
  <2>1. PICK a : /\ a[0] = x /\ \A i \in 1 .. Len(items) : a[i] = ReadItem(a[i - 1], items[i])
                 /\ ReadItems(h, items) = a[Len(items)]
    BY <2>0, ReadItemsRun, Zenon
  <2> HIDE DEF x, f
  <2>2. a[1] = ReadItem(a[0], items[1]) BY <2>1
  <2> QED BY <1>4, <2>1, <2>2 DEF e
<1>6. x.h = h /\ x.failed = FALSE OBVIOUS
<1> DEFINE c == Terminate(h, "clean")
<1>7. h.ses \in {"established", "draining"} \/ (h.ses = "closed" /\ h.ended # "none")
  BY DEF Began
<1>8. e.k = "fin" /\ ~IsHeaders(e) BY DEF IsHeaders
<1>9. b = IF h.ses = "closed" THEN x
          ELSE IF h.half THEN [x EXCEPT !.failed = TRUE] ELSE [x EXCEPT !.h = c]
  <2> HIDE DEF x, c, e
  <2> QED BY <1>6, <1>7, <1>8, Zenon DEF ReadItem, c
<1>10. x \in Outcomes BY <1>1 DEF Outcomes
<1>11. f.h \in Connections /\ f.h.parked = <<>> /\ Began(f.h) /\ f.h.ended # "none"
       /\ HandshakeSound(f.h, told, FALSE)
  <2>1. CASE h.ses = "closed"
    <3>1. f = x BY <1>5, <1>9, <2>1
    <3>2. f.h = h BY <1>6, <3>1
    <3> QED BY <1>1, <1>7, <2>1, <3>2
  <2>2. CASE h.ses # "closed" /\ h.half
    <3>1. f = [x EXCEPT !.failed = TRUE] BY <1>5, <1>9, <2>2
    <3> HIDE DEF f, x
    <3>2. f.failed = TRUE BY <3>1, <1>10, OutcomeFacts
    <3> QED BY <1>3, <3>2
  <2>3. CASE h.ses # "closed" /\ ~h.half
    <3>1. f = [x EXCEPT !.h = c] BY <1>5, <1>9, <2>3
    <3>2. h.ended = "none" BY <1>1, <2>3 DEF EndSound
    <3>3. "clean" \in Codes /\ "clean" # "none" BY DEF Codes
    <3>4. /\ c \in Connections /\ EndSound(c, told) /\ Began(c) /\ c.ended = "clean"
          /\ c.parked = h.parked
      BY <1>1, <3>2, <3>3, TerminateStep
    <3> HIDE DEF f, x, c
    <3>5. f.h = c BY <3>1, <3>4, <1>10, OutcomeWith
    <3>6. HandshakeSound(c, told, FALSE) BY <3>4 DEF HandshakeSound, ParkedSound
    <3> QED BY <3>3, <3>4, <3>5, <3>6
  <2> QED BY <2>1, <2>2, <2>3
<1>12. r = Drain(f.h) BY <1>2, <1>3
<1> HIDE DEF f, r, x, b, c
<1>13. DrainSound(f.h, r, told, FALSE) BY <1>11, <1>12, DrainStep
<1>14. PICK g \in Connections : ~r.failed => r.h = Drained(g) /\ g = f.h
  BY <1>11, <1>13 DEF DrainSound
<1>15. ~r.failed BY DEF r
<1>16. r.h.ended = f.h.ended BY <1>14, <1>15, DrainedFacts
<1> QED BY <1>11, <1>16 DEF r

(* The reset of the stream ends it as well.                                *)
LEMMA ResetStep ==
  ASSUME Types, NEW h, NEW told \in BOOLEAN,
         HandshakeSound(h, told, FALSE), Began(h), h.parked = <<>>
  PROVE  /\ Processed(h, ConnectStreamReset(h), told, FALSE, FALSE)
         /\ ~ConnectStreamReset(h).failed => ConnectStreamReset(h).h.ended # "none"
<1> DEFINE r == ConnectStreamReset(h)
           c == Terminate(h, "gone")
<1>1. h \in Connections /\ EndSound(h, told) BY DEF HandshakeSound
<1>2. h.ses \in {"established", "draining"} \/ (h.ses = "closed" /\ h.ended # "none")
  BY DEF Began
<1>3. ASSUME NEW f, r = Drain(f), HandshakeSound(f, told, FALSE), Preserved(h, f, FALSE),
             f.parked = <<>>, h.error \/ f.ended # "none"
      PROVE  Processed(h, r, told, FALSE, FALSE) /\ (~r.failed => r.h.ended # "none")
  <2> HIDE DEF r
  <2>1. DrainSound(f, r, told, FALSE) BY <1>3, DrainStep
  <2>2. PICK g \in Connections :
          /\ FeedSound([h |-> g, failed |-> r.failed], told, FALSE)
          /\ r.failed \in BOOLEAN
          /\ r.failed => r.h = g /\ r.events = <<>>
          /\ ~r.failed => r.h = Drained(g) /\ r.events = g.events /\ ~f.error
          /\ g = f
    BY <1>3, <2>1 DEF DrainSound
  <2>3. Processed(h, r, told, FALSE, FALSE) BY <1>3, <2>2 DEF Processed
  <2>4. ~r.failed => r.h.ended = f.ended BY <2>2, DrainedFacts
  <2>5. f.error = h.error BY <1>3 DEF Preserved
  <2> QED BY <1>3, <2>2, <2>3, <2>4, <2>5
<1>4. Preserved(h, h, FALSE) BY PreservedSame
<1>5. CASE h.error
  <2>1. r = Drain(h) BY <1>5, Zenon DEF ConnectStreamReset
  <2> HIDE DEF r
  <2>2. Processed(h, r, told, FALSE, FALSE) /\ (~r.failed => r.h.ended # "none")
    BY <1>3, <1>4, <1>5, <2>1
  <2> QED BY <2>2 DEF r
<1>6. CASE ~h.error /\ h.ses = "closed"
  <2>1. r = Drain(h) BY <1>6, Zenon DEF ConnectStreamReset
  <2> HIDE DEF r
  <2>2. Processed(h, r, told, FALSE, FALSE) /\ (~r.failed => r.h.ended # "none")
    BY <1>2, <1>3, <1>4, <1>6, <2>1
  <2> QED BY <2>2 DEF r
<1>7. CASE ~h.error /\ h.ses # "closed"
  <2>1. h.ses \in {"pending", "established", "draining"} BY <1>2, <1>7
  <2>2. r = Drain(c) BY <1>7, <2>1, Zenon DEF ConnectStreamReset
  <2>3. h.ended = "none" BY <1>1, <1>7 DEF EndSound
  <2>4. "gone" \in Codes /\ "gone" # "none" BY DEF Codes
  <2>5. /\ c \in Connections /\ EndSound(c, told) /\ Began(c) /\ c.ended = "gone"
        /\ c.parked = h.parked /\ c.error = h.error
    BY <1>1, <2>3, <2>4, TerminateStep
  <2> HIDE DEF r, c
  <2>6. HandshakeSound(c, told, FALSE) BY <2>5 DEF HandshakeSound, ParkedSound
  <2>7. Preserved(h, c, FALSE) BY <2>3, <2>5 DEF Preserved
  <2>8. c.parked = <<>> /\ c.ended # "none" BY <2>4, <2>5
  <2>9. Processed(h, r, told, FALSE, FALSE) /\ (~r.failed => r.h.ended # "none")
    BY <1>3, <2>2, <2>6, <2>7, <2>8
  <2> QED BY <2>9 DEF r
<1> QED BY <1>5, <1>6, <1>7

-----------------------------------------------------------------------------
(***************************************************************************)
(* The items of the inbox that one call of receive() returns.              *)
(***************************************************************************)
LEMMA InboxFacts ==
  ASSUME Types, NEW x \in Range(sent)
  PROVE  /\ x.k \in {"fin", "reset"} => Over
         /\ Response(x) => Responded
         /\ x.k \in {"max", "drain", "close", "half"} /\ CapsulesFollow => Responded
         /\ \/ x.k = "interim" \/ Response(x)
            \/ x.k \in {"max", "drain", "close", "half", "fin", "reset"}
<1>1. PICK i \in DOMAIN sent : sent[i] = x BY DEF Range
<1>2. x.k \in {"fin", "reset"} => Over BY <1>1 DEF Over, HasSent
<1>3. Response(x) => Responded BY <1>1 DEF Response, Responded, HasSent
<1>4. x.k \in {"max", "drain", "close", "half"} /\ CapsulesFollow => Responded
  BY <1>1 DEF CapsulesFollow, Responded, HasSent
<1>5. scope \in Scopes /\ sent \in Seq(Items) BY DEF Types
<1>6. x.k \in Kinds BY <1>5, SentFacts
<1>7. x.k \in {"ok", "interim", "no", "malformed", "badproto", "late", "get",
               "max", "drain", "close", "half", "fin", "reset"}
  BY <1>5, <1>6, KindFacts
<1> QED BY <1>2, <1>3, <1>4, <1>7 DEF Response

(* A sequence is cut in two.                                               *)
LEMMA CutFacts ==
  ASSUME NEW S, NEW q \in Seq(S), NEW k \in 0 .. Len(q)
  PROVE  /\ SubSeq(q, 1, k) \in Seq(S) /\ Len(SubSeq(q, 1, k)) = k
         /\ \A i \in 1 .. k : SubSeq(q, 1, k)[i] = q[i]
         /\ SubSeq(q, k + 1, Len(q)) \in Seq(S)
         /\ Len(SubSeq(q, k + 1, Len(q))) = Len(q) - k
         /\ \A i \in 1 .. Len(q) - k : SubSeq(q, k + 1, Len(q))[i] = q[k + i]
<1> DEFINE n == Len(q)
           p == SubSeq(q, 1, k)
           r == SubSeq(q, k + 1, n)
<1>1. n \in Nat /\ \A i \in 1 .. n : q[i] \in S BY LenProperties, ElementOfSeq
<1> HIDE DEF n
<1>2. k \in Nat /\ k <= n BY <1>1 DEF n
<1>3. \A i \in 1 .. k : q[i] \in S BY <1>1, <1>2
<1>4. \A i \in k + 1 .. n : q[i] \in S BY <1>1, <1>2
<1>5. /\ p \in Seq(S) /\ Len(p) = IF 1 <= k THEN k - 1 + 1 ELSE 0
      /\ \A i \in 1 .. k - 1 + 1 : p[i] = q[1 + i - 1]
  BY <1>2, <1>3, SubSeqProperties
<1>6. /\ r \in Seq(S) /\ Len(r) = IF k + 1 <= n THEN n - (k + 1) + 1 ELSE 0
      /\ \A i \in 1 .. n - (k + 1) + 1 : r[i] = q[(k + 1) + i - 1]
  BY <1>1, <1>2, <1>4, SubSeqProperties
<1> HIDE DEF p, r
<1>7. Len(p) = k /\ Len(r) = n - k BY <1>1, <1>2, <1>5, <1>6
<1>8. ASSUME NEW i \in 1 .. k PROVE p[i] = q[i]
  <2>1. i \in 1 .. k - 1 + 1 /\ 1 + i - 1 = i BY <1>2
  <2> QED BY <1>5, <2>1
<1>9. ASSUME NEW i \in 1 .. n - k PROVE r[i] = q[k + i]
  <2>1. i \in 1 .. n - (k + 1) + 1 /\ (k + 1) + i - 1 = k + i BY <1>1, <1>2
  <2>2. r[i] = q[(k + 1) + i - 1] BY <1>6, <2>1
  <2> QED BY <2>1, <2>2
<1> QED BY <1>5, <1>6, <1>7, <1>8, <1>9 DEF p, r, n

(* What receive() returns, and what is left behind it.                     *)
LEMMA ChunkTypes ==
  ASSUME Types, NEW k \in Chunks
  PROVE  /\ k \in 1 .. Len(inbox) /\ Len(inbox) \in Nat /\ DOMAIN inbox = 1 .. Len(inbox)
         /\ SubSeq(inbox, 1, k) \in Seq(Range(sent)) /\ Len(SubSeq(inbox, 1, k)) = k
         /\ \A i \in 1 .. k : SubSeq(inbox, 1, k)[i] = inbox[i]
         /\ \A i \in 1 .. Len(inbox) : inbox[i] \in Range(sent)
         /\ Behind(k) \in Seq(Range(sent))
         /\ \/ Behind(k) = inbox /\ inbox[k].k = "fin" /\ k = 1
            \/ /\ inbox[k].k # "fin" /\ Len(Behind(k)) = Len(inbox) - k
               /\ \A i \in 1 .. Len(inbox) - k : Behind(k)[i] = inbox[k + i]
<1> DEFINE n == Len(inbox)
           p == SubSeq(inbox, 1, k)
           q == SubSeq(inbox, k + 1, n)
           b == Behind(k)
<1>1. inbox \in Seq(Range(sent)) BY DEF Types
<1>2. n \in Nat /\ DOMAIN inbox = 1 .. n BY <1>1, LenProperties
<1>3. k \in 1 .. n /\ \A i \in 1 .. k : inbox[i].k \in {"fin", "reset"} => k = 1
  BY DEF Chunks
<1>4. \A i \in 1 .. n : inbox[i] \in Range(sent) BY <1>1, ElementOfSeq
<1>5. k \in 0 .. n BY <1>2, <1>3
<1>6. /\ p \in Seq(Range(sent)) /\ Len(p) = k /\ \A i \in 1 .. k : p[i] = inbox[i]
      /\ q \in Seq(Range(sent)) /\ Len(q) = n - k /\ \A i \in 1 .. n - k : q[i] = inbox[k + i]
  BY <1>1, <1>5, CutFacts
<1>7. b = IF inbox[k].k = "fin" THEN inbox ELSE q BY DEF Behind
<1>8. inbox[k].k = "fin" => k = 1 BY <1>2, <1>3
<1> HIDE DEF p, q, b, n
<1>9. CASE inbox[k].k = "fin" BY <1>1, <1>2, <1>3, <1>4, <1>6, <1>7, <1>8, <1>9 DEF p, b, n
<1>10. CASE inbox[k].k # "fin"
  <2>1. b = q BY <1>7, <1>10
  <2> QED BY <1>1, <1>2, <1>3, <1>4, <1>6, <1>10, <2>1 DEF p, b, n
<1> QED BY <1>9, <1>10

(* A chunk fits what the connection still awaits, item by item.            *)
LEMMA ChunkFacts ==
  ASSUME Types, Ordered(inbox), CapsulesFollow, NEW k \in Chunks
  PROVE  LET items == SubSeq(inbox, 1, k)
         IN  /\ Ordered(Behind(k))
             /\ Awaits(Behind(k)) => Coming
             /\ items[1].k = "fin" => Len(items) = 1
             /\ items[1].k # "reset" =>
                   \E m \in [0 .. Len(items) -> BOOLEAN] :
                      /\ m[0] = Coming /\ m[Len(items)] = Awaits(Behind(k))
                      /\ \A i \in 1 .. Len(items) : Fits(items[i], m[i - 1], m[i])
<1> DEFINE n == Len(inbox)
           items == SubSeq(inbox, 1, k)
           b == Behind(k)
           later == Awaits(b)
<1>1. /\ k \in 1 .. n /\ n \in Nat /\ DOMAIN inbox = 1 .. n
      /\ items \in Seq(Range(sent)) /\ Len(items) = k /\ \A i \in 1 .. k : items[i] = inbox[i]
      /\ \A i \in 1 .. n : inbox[i] \in Range(sent)
      /\ b \in Seq(Range(sent))
      /\ \/ b = inbox /\ inbox[k].k = "fin" /\ k = 1
         \/ /\ inbox[k].k # "fin" /\ Len(b) = n - k
            /\ \A i \in 1 .. n - k : b[i] = inbox[k + i]
  BY ChunkTypes
<1>2. \A j \in 1 .. n : Response(inbox[j]) => \A i \in 1 .. j - 1 : inbox[i].k = "interim"
  BY <1>1 DEF Ordered
<1>2a. DOMAIN b = 1 .. Len(b) /\ Len(b) \in Nat BY <1>1, LenProperties
<1>3. HasResponse(b) <=> \E j \in 1 .. Len(b) : Response(b[j]) BY <1>2a DEF HasResponse
<1>4. HasResponse(inbox) <=> \E j \in 1 .. n : Response(inbox[j]) BY <1>1 DEF HasResponse
<1> HIDE DEF items, b, n
<1>5. Ordered(b)
  <2>1. CASE b = inbox BY <2>1
  <2>2. CASE Len(b) = n - k /\ \A i \in 1 .. n - k : b[i] = inbox[k + i]
    <3> SUFFICES ASSUME NEW j \in 1 .. Len(b), Response(b[j]), NEW i \in 1 .. j - 1
                 PROVE  b[i].k = "interim"
      BY <1>2a DEF Ordered
    <3>1. i \in 1 .. n - k /\ j \in 1 .. n - k /\ k + j \in 1 .. n /\ k + i \in 1 .. (k + j) - 1
      BY <1>1, <2>2
    <3> QED BY <1>2, <2>2, <3>1
  <2> QED BY <1>1, <2>1, <2>2
<1>6. HasResponse(inbox) <=> (\E j \in 1 .. k : Response(items[j])) \/ HasResponse(b)
  <2>1. CASE b = inbox /\ inbox[k].k = "fin" /\ k = 1
    <3>1. ~Response(items[1]) BY <1>1, <2>1 DEF Response
    <3> QED BY <2>1, <3>1
  <2>2. CASE Len(b) = n - k /\ \A i \in 1 .. n - k : b[i] = inbox[k + i]
    <3>1. ASSUME NEW j \in 1 .. n, Response(inbox[j])
          PROVE  (\E i \in 1 .. k : Response(items[i])) \/ HasResponse(b)
      <4>1. CASE j <= k
        <5>1. j \in 1 .. k BY <4>1, <1>1
        <5> QED BY <1>1, <3>1, <5>1
      <4>2. CASE ~(j <= k)
        <5>1. j - k \in 1 .. n - k /\ k + (j - k) = j BY <4>2, <1>1
        <5>2. b[j - k] = inbox[j] BY <2>2, <5>1
        <5> QED BY <1>3, <2>2, <3>1, <5>1, <5>2
      <4> QED BY <4>1, <4>2
    <3>2. ASSUME NEW i \in 1 .. k, Response(items[i]) PROVE HasResponse(inbox)
      <4>1. i \in 1 .. n BY <1>1
      <4> QED BY <1>1, <1>4, <3>2, <4>1
    <3>3. ASSUME NEW i \in 1 .. Len(b), Response(b[i]) PROVE HasResponse(inbox)
      <4>1. k + i \in 1 .. n /\ i \in 1 .. n - k BY <1>1, <2>2
      <4> QED BY <1>4, <2>2, <3>3, <4>1
    <3> QED BY <1>3, <1>4, <3>1, <3>2, <3>3
  <2> QED BY <1>1, <2>1, <2>2
<1>7. Coming <=> (\E j \in 1 .. k : Response(items[j])) \/ later
  BY <1>6 DEF Coming, Awaits
<1>8. items[1].k = "fin" => k = 1
  <2>1. 1 \in 1 .. k BY <1>1
  <2>2. items[1] = inbox[1] BY <1>1, <2>1
  <2> QED BY <2>1, <2>2 DEF Chunks
<1>9. ASSUME items[1].k # "reset"
      PROVE  \E m \in [0 .. k -> BOOLEAN] :
                /\ m[0] = Coming /\ m[k] = later
                /\ \A i \in 1 .. k : Fits(items[i], m[i - 1], m[i])
  <2> DEFINE rest(i) == (\E j \in i + 1 .. k : Response(items[j])) \/ later
             m == [i \in 0 .. k |-> rest(i)]
  <2>1. ASSUME NEW i \in 1 .. k PROVE items[i].k # "reset" /\ items[i] \in Range(sent)
    <3>1. items[i] = inbox[i] /\ i \in 1 .. n BY <1>1
    <3>2. items[i].k = "reset" => k = 1 BY <3>1 DEF Chunks
    <3>3. k = 1 => i = 1 OBVIOUS
    <3> QED BY <1>1, <1>9, <3>1, <3>2, <3>3
  <2>2. \A i \in 0 .. k : rest(i) \in BOOLEAN BY DEF Awaits, HasResponse, Responded, Over
  <2>3. rest(0) <=> Coming BY <1>7
  <2>4. rest(k) <=> later
    <3>1. \A j \in k + 1 .. k : FALSE BY <1>1
    <3> QED BY <3>1
  <2>5. ASSUME NEW i \in 1 .. k PROVE Fits(items[i], rest(i - 1), rest(i))
    <3> DEFINE x == items[i]
    <3>1. rest(i - 1) <=> Response(x) \/ rest(i)
      <4>1. \A j \in (i - 1) + 1 .. k : j = i \/ j \in i + 1 .. k BY <1>1
      <4>2. i \in (i - 1) + 1 .. k /\ \A j \in i + 1 .. k : j \in (i - 1) + 1 .. k BY <1>1
      <4> QED BY <4>1, <4>2
    <3>2. x \in Range(sent) /\ x.k # "reset" BY <2>1
    <3>3. ASSUME HasResponse(inbox), ~Response(x), rest(i) PROVE x.k = "interim"
      <4>1. PICK j \in 1 .. n : Response(inbox[j]) BY <1>4, <3>3
      <4>2. i < j \/ j <= i BY <1>1
      <4>3. CASE i < j
        <5>1. i \in 1 .. j - 1 /\ items[i] = inbox[i] BY <1>1, <4>3
        <5> QED BY <1>2, <4>1, <5>1
      <4>4. CASE j <= i
        <5>1. j # i BY <1>1, <3>3, <4>1
        <5>2. ASSUME NEW l \in 1 .. n, Response(inbox[l]), j < l PROVE FALSE
          <6>1. j \in 1 .. l - 1 BY <1>1, <5>2
          <6>2. inbox[j].k = "interim" BY <1>2, <5>2, <6>1
          <6> QED BY <4>1, <6>2 DEF Response
        <5>3. ASSUME NEW l \in i + 1 .. k, Response(items[l]) PROVE FALSE
          <6>1. l \in 1 .. n /\ j < l /\ items[l] = inbox[l] BY <1>1, <4>4, <5>3
          <6> QED BY <5>2, <5>3, <6>1
        <5>4. ASSUME HasResponse(b) PROVE FALSE
          <6>1. PICK l \in 1 .. Len(b) : Response(b[l]) BY <1>3, <5>4
          <6>2. CASE Len(b) = n - k /\ \A z \in 1 .. n - k : b[z] = inbox[k + z]
            <7>1. k + l \in 1 .. n /\ j < k + l /\ b[l] = inbox[k + l] BY <1>1, <4>4, <6>2
            <7> QED BY <5>2, <6>1, <7>1
          <6>3. CASE b = inbox /\ inbox[k].k = "fin" /\ k = 1
            <7>1. j = i BY <1>1, <4>4, <6>3
            <7> QED BY <5>1, <7>1
          <6> QED BY <1>1, <6>2, <6>3
        <5>5. later /\ ~Responded BY <3>3, <5>3, <5>4 DEF Awaits
        <5>6. inbox[j] \in Range(sent) BY <1>1
        <5> QED BY <4>1, <5>5, <5>6, InboxFacts
      <4> QED BY <4>2, <4>3, <4>4
    <3>4. ASSUME ~HasResponse(inbox), rest(i) PROVE x.k = "interim"
      <4>1. ~Responded /\ ~Over BY <1>6, <3>4 DEF Awaits
      <4> QED BY <3>2, <4>1, InboxFacts
    <3>5. ASSUME Response(x) PROVE ~rest(i)
      <4>1. ASSUME NEW l \in 1 .. n, Response(inbox[l]), i < l PROVE FALSE
        <5>1. i \in 1 .. l - 1 /\ x = inbox[i] BY <1>1, <4>1
        <5>2. x.k = "interim" BY <1>2, <4>1, <5>1
        <5> QED BY <3>5, <5>2 DEF Response
      <4>2. ASSUME NEW l \in i + 1 .. k, Response(items[l]) PROVE FALSE
        <5>1. l \in 1 .. n /\ i < l /\ items[l] = inbox[l] BY <1>1, <4>2
        <5> QED BY <4>1, <4>2, <5>1
      <4>3. ASSUME HasResponse(b) PROVE FALSE
        <5>1. PICK l \in 1 .. Len(b) : Response(b[l]) BY <1>3, <4>3
        <5>2. CASE Len(b) = n - k /\ \A z \in 1 .. n - k : b[z] = inbox[k + z]
          <6>1. k + l \in 1 .. n /\ i < k + l /\ b[l] = inbox[k + l] BY <1>1, <5>2
          <6> QED BY <4>1, <5>1, <6>1
        <5>3. CASE b = inbox /\ inbox[k].k = "fin" /\ k = 1
          <6>1. x.k = "fin" BY <1>1, <5>3
          <6> QED BY <3>5, <6>1 DEF Response
        <5> QED BY <1>1, <5>2, <5>3
      <4>4. Responded BY <3>2, <3>5, InboxFacts
      <4> QED BY <4>2, <4>3, <4>4 DEF Awaits
    <3> HIDE DEF rest
    <3> QED BY <3>1, <3>3, <3>4, <3>5 DEF Fits
  <2>6. m \in [0 .. k -> BOOLEAN] /\ \A i \in 0 .. k : m[i] = rest(i)
    <3> HIDE DEF rest
    <3> QED BY <2>2
  <2> HIDE DEF m
  <2>7. ASSUME NEW i \in 1 .. k PROVE Fits(items[i], m[i - 1], m[i])
    <3>0. i \in 0 .. k /\ i - 1 \in 0 .. k BY <1>1
    <3>1. m[i] = rest(i) /\ m[i - 1] = rest(i - 1)
      <4> HIDE DEF rest
      <4> QED BY <2>6, <3>0
    <3> HIDE DEF rest
    <3> QED BY <2>5, <3>1
  <2>8. m[0] = Coming /\ m[k] = later
    <3>1. m[0] = rest(0) /\ m[k] = rest(k) BY <1>1, <2>6
    <3>2. Coming \in BOOLEAN /\ later \in BOOLEAN
      BY DEF Coming, Awaits, HasResponse, Responded, Over
    <3>3. rest(0) \in BOOLEAN /\ rest(k) \in BOOLEAN BY <1>1, <2>2
    <3> HIDE DEF rest, later
    <3> QED BY <2>3, <2>4, <3>1, <3>2, <3>3
  <2> QED BY <2>6, <2>7, <2>8
<1> QED BY <1>1, <1>5, <1>7, <1>8, <1>9 DEF items, b

-----------------------------------------------------------------------------
(***************************************************************************)
(* What an action leaves alone.                                            *)
(***************************************************************************)
LEMMA ScopeSame ==
  ASSUME scope' = scope, sent' = sent
  PROVE  /\ Kinds' = Kinds /\ Items' = Items /\ Capsules' = Capsules /\ Granted' = Granted
         /\ Events' = Events /\ Connections' = Connections /\ Calls' = Calls
         /\ (Responded' <=> Responded) /\ (Over' <=> Over)
<1>1. Kinds' = Kinds BY DEF Kinds, HeaderKinds
<1>2. Items' = Items BY <1>1 DEF Items
<1>3. Capsules' = Capsules BY DEF Capsules
<1>4. Granted' = Granted BY DEF Granted
<1>5. Events' = Events BY <1>1, <1>4 DEF Events
<1>6. Connections' = Connections BY <1>3, <1>5 DEF Connections
<1>7. Calls' = Calls BY <1>4, <1>5 DEF Calls
<1>8. (Responded' <=> Responded) /\ (Over' <=> Over) BY DEF Responded, Over, HasSent
<1> QED BY <1>1, <1>2, <1>3, <1>4, <1>5, <1>6, <1>7, <1>8

(* The types are kept when every variable keeps its own.                   *)
LEMMA TypesKept ==
  ASSUME Types, scope' = scope, sent' = sent, conn' \in {"up", "lost", "closed"},
         inbox' \in Seq(Range(sent)), ctl' \in Seq({"settings", "insert", "goaway", "critical"}),
         h3' \in Connections, pc' \in Places, call' \in Calls,
         task' \in [delivered : BOOLEAN, saw : {"none", "violation", "malformed"}],
         fc' \in [enabled : BOOLEAN, limit : 0 .. MaxLimit, used : 0 .. MaxLimit + 1],
         events' \in Seq(Events), cmds' \in Seq(Commands), wire' \in Seq(Words),
         data' \in DataStreams
  PROVE  Types'
BY ScopeSame DEF Types

(* A step that leaves the data stream alone.                               *)
LEMMA DataSame ==
  ASSUME DataInv, data' = data, pc'.route = pc.route
  PROVE  DataInv'
BY DEF DataInv

(* A step that leaves the credit alone.                                    *)
LEMMA CreditSame ==
  ASSUME CreditInv, scope' = scope, sent' = sent, fc' = fc
  PROVE  CreditInv'
BY ScopeSame DEF CreditInv

(* Establishing, of the next state.                                        *)
LEMMA EstablishingIs ==
  ASSUME scope' = scope, sent' = sent
  PROVE  Establishing' <=>
           /\ pc'.recv = "none" /\ events' = <<>> /\ ~task'.delivered
           /\ EstablishingWith(pc'.app, h3', call'.events, Awaits(inbox'))
<1>1. Connections' = Connections BY ScopeSame
<1>2. Coming' <=> Awaits(inbox') BY ScopeSame DEF Coming, Awaits
<1>3. Complete(h3.events)' <=> Complete(h3'.events) BY DEF Complete
<1>4. HandshakeSound(h3, HasClosed(call.events), Coming)'
         <=> HandshakeSound(h3', HasClosed(call'.events), Awaits(inbox'))
  BY <1>1, <1>2, <1>3 DEF HandshakeSound, ParkedSound
<1>5. EstablishingWith(pc.app, h3, call.events, Coming)'
         <=> EstablishingWith(pc'.app, h3', call'.events, Awaits(inbox'))
  BY <1>2, <1>3, <1>4 DEF EstablishingWith, Early
<1> QED BY <1>5 DEF Establishing

(* Reading, of the next state.                                             *)
LEMMA ReadingIs ==
  ASSUME scope' = scope, sent' = sent
  PROVE  Reading' <=>
           IF pc'.recv = "pending"
           THEN events' = <<>> /\ ~task'.delivered
                /\ ReadingWith(h3', call'.events, Awaits(inbox'))
           ELSE task'.delivered = HasClosed(events')
                /\ ReadingWith(h3', events', Awaits(inbox'))
<1>1. Coming' <=> Awaits(inbox') BY ScopeSame DEF Coming, Awaits
<1> QED BY <1>1 DEF Reading, ReadingWith

(* CapsulesFollow is about what has been sent only.                        *)
LEMMA FollowSame ==
  ASSUME CapsulesFollow, sent' = sent
  PROVE  CapsulesFollow'
BY DEF CapsulesFollow, HasSent

(* A step that leaves the session alone.                                   *)
LEMMA SessionSame ==
  ASSUME SessionInv, scope' = scope, sent' = sent, inbox' = inbox, h3' = h3,
         pc'.app = pc.app, pc'.recv = pc.recv, call'.events = call.events,
         events' = events, task' = task
  PROVE  SessionInv'
<1>1. Awaits(inbox') <=> Coming BY DEF Coming
<1>2. Establishing => Establishing'
  BY <1>1, EstablishingIs DEF Establishing, EstablishingWith, HandshakeSound, ParkedSound
<1>3. Reading => Reading' BY <1>1, ReadingIs DEF Reading, ReadingWith
<1>4. EndTold => EndTold' BY DEF EndTold, Dropped
<1>5. Ordered(inbox)' /\ CapsulesFollow' BY FollowSame DEF SessionInv, Ordered
<1> QED BY <1>2, <1>3, <1>4, <1>5 DEF SessionInv

(* A step that leaves the sending end alone.                               *)
LEMMA WireSame ==
  ASSUME WireInv, scope' = scope, pc'.app = pc.app, pc'.recv = pc.recv,
         call'.closing = call.closing, task'.saw = task.saw, cmds' = cmds, wire' = wire,
         conn' = "up" => conn = "up"
  PROVE  WireInv'
<1>1. Unopened => Unopened' BY DEF Unopened
<1>2. Opened => Opened'
  <2>1. CloseSound => CloseSound' BY DEF CloseSound
  <2>2. ResetSound => ResetSound' BY DEF ResetSound, Ended
  <2>3. AnswerSound => AnswerSound' BY DEF AnswerSound, Asked, Said, Dropped
  <2> QED BY <2>1, <2>2, <2>3 DEF Opened
<1> QED BY <1>1, <1>2 DEF WireInv

(* The program counters after a step of the application's call.            *)
LEMMA GotoApp ==
  ASSUME pc \in Places, NEW l \in AppPlaces, Goto("app", l)
  PROVE  /\ pc' \in Places /\ pc'.app = l
         /\ pc'.recv = pc.recv /\ pc'.route = pc.route
BY DEF Places, Goto

(* The program counters after a step of the receiving task.                *)
LEMMA GotoRecv ==
  ASSUME pc \in Places, NEW l \in RecvPlaces, Goto("recv", l)
  PROVE  /\ pc' \in Places /\ pc'.recv = l
         /\ pc'.app = pc.app /\ pc'.route = pc.route
BY DEF Places, Goto

(* The program counters after a step of the task of the data stream.       *)
LEMMA GotoRoute ==
  ASSUME pc \in Places, NEW l \in {"header", "hand over", "done"}, Goto("route", l)
  PROVE  /\ pc' \in Places /\ pc'.route = l
         /\ pc'.app = pc.app /\ pc'.recv = pc.recv
BY DEF Places, Goto

(* The program counters after a step of another task.                      *)
LEMMA GotoOther ==
  ASSUME pc \in Places,
         \/ \E l \in {"receive", "notify", "notify last", "done"} : Goto("ctl", l)
         \/ \E l \in {"accept", "done"} : Goto("acceptor", l)
  PROVE  /\ pc' \in Places /\ pc'.app = pc.app
         /\ pc'.recv = pc.recv /\ pc'.route = pc.route
BY DEF Places, Goto

-----------------------------------------------------------------------------
(***************************************************************************)
(* The handshake.                                                          *)
(***************************************************************************)
LEMMA AppendFacts ==
  ASSUME NEW S, NEW q \in Seq(S), NEW e \in S
  PROVE  /\ Append(q, e) \in Seq(S) /\ Len(Append(q, e)) = Len(q) + 1 /\ Len(q) \in Nat
         /\ \A i \in 1 .. Len(q) : Append(q, e)[i] = q[i]
         /\ Append(q, e)[Len(q) + 1] = e
         /\ Range(Append(q, e)) = Range(q) \cup {e}
         /\ DOMAIN q = 1 .. Len(q) /\ DOMAIN Append(q, e) = 1 .. Len(q) + 1
         /\ q = <<>> => Append(q, e) = <<e>>
<1> DEFINE n == Len(q)
           r == Append(q, e)
<1>1. r \in Seq(S) /\ Len(r) = n + 1 /\ r[n + 1] = e /\ \A i \in 1 .. n : r[i] = q[i]
  BY AppendProperties
<1>2. n \in Nat /\ DOMAIN q = 1 .. n /\ DOMAIN r = 1 .. n + 1 BY <1>1, LenProperties
<1>3. q = <<>> => r = <<e>> OBVIOUS
<1> HIDE DEF r, n
<1>4. Range(r) = {r[i] : i \in 1 .. n + 1} BY <1>2 DEF Range
<1>5. Range(q) = {q[i] : i \in 1 .. n} BY <1>2 DEF Range
<1>6. ASSUME NEW x PROVE x \in Range(r) <=> x \in Range(q) \/ x = e
  <2>1. ASSUME NEW i \in 1 .. n + 1, x = r[i] PROVE x \in Range(q) \/ x = e
    <3>1. i \in 1 .. n \/ i = n + 1 BY <1>2
    <3> QED BY <1>1, <1>5, <2>1, <3>1
  <2>2. ASSUME NEW i \in 1 .. n, x = q[i] PROVE x \in Range(r)
    <3>1. i \in 1 .. n + 1 BY <1>2
    <3> QED BY <1>1, <1>4, <2>2, <3>1
  <2>3. n + 1 \in 1 .. n + 1 BY <1>2
  <2> QED BY <1>1, <1>4, <1>5, <2>1, <2>2, <2>3
<1> QED BY <1>1, <1>2, <1>3, <1>6 DEF r, n

\* What the invariant says of the words before the session is open.
LEMMA UnopenedFacts ==
  ASSUME DriverInv, pc.app \notin {"open", "dropped", "failed"}
  PROVE  /\ Unopened /\ Establishing /\ pc.recv = "none" /\ events = <<>>
         /\ wire \in {<<>>, <<"connect">>, <<"2xx">>}
<1>1. Unopened /\ Establishing BY DEF DriverInv, WireInv, SessionInv
<1>2. pc \in Places BY DEF DriverInv, Types
<1>3. pc.app \in AppPlaces BY <1>2 DEF Places
<1>4. wire \in {<<>>, <<"connect">>, <<"2xx">>} BY <1>1, <1>3 DEF Unopened, AppPlaces
<1> QED BY <1>1, <1>4 DEF Establishing

(* The handshake fails: nothing has been told or asked for.                *)
LEMMA AbandonStep ==
  ASSUME DriverInv, NEW how \in {"fin", "reset"}, Abandon(how),
         pc.app \notin {"open", "dropped", "failed"},
         scope' = scope, sent' = sent, conn' = conn, ctl' = ctl,
         inbox' \in Seq(Range(sent)), Ordered(inbox'), h3' \in Connections,
         task' = task, fc' = fc, events' = events, cmds' = cmds, data' = data
  PROVE  DriverInv'
<1>1. Types BY DEF DriverInv
<1>2. /\ Unopened /\ Establishing /\ pc.recv = "none" /\ events = <<>>
      /\ wire \in {<<>>, <<"connect">>, <<"2xx">>}
  BY UnopenedFacts
<1>3. /\ pc' \in Places /\ pc'.app = "failed" /\ pc'.recv = pc.recv /\ pc'.route = pc.route
  BY <1>1, GotoApp DEF Abandon, Types, AppPlaces
<1>4. call' = [call EXCEPT !.result = "error"] /\ wire' = Append(wire, how) BY DEF Abandon
<1>5. call' \in Calls /\ call'.closing = call.closing BY <1>1, <1>4 DEF Types, Calls
<1>6. wire' \in Seq(Words) /\ Len(wire') <= 3 /\ "application" \notin Range(wire')
  <2>1. wire \in Seq(Words) /\ how \in Words /\ how # "application" BY <1>1 DEF Types, Words
  <2>2. Len(wire) <= 1 /\ "application" \notin Range(wire)
    <3>1. CASE wire = <<>> BY <3>1 DEF Range
    <3>2. CASE wire = <<"connect">> BY <3>2 DEF Range
    <3>3. CASE wire = <<"2xx">> BY <3>3 DEF Range
    <3> QED BY <1>2, <3>1, <3>2, <3>3
  <2>3. Len(wire') = Len(wire) + 1 /\ Len(wire) \in Nat /\ wire' \in Seq(Words)
    BY <1>4, <2>1, AppendFacts
  <2>4. Range(wire') = Range(wire) \cup {how} BY <1>4, <2>1, AppendFacts
  <2> QED BY <2>1, <2>2, <2>3, <2>4
<1>7. Types'
  <2>1. conn \in {"up", "lost", "closed"} BY <1>1 DEF Types
  <2> QED BY <1>1, <1>3, <1>5, <1>6, <2>1, TypesKept DEF Types
<1>8. DataInv' BY <1>3, DataSame DEF DriverInv
<1>9. CreditInv' BY CreditSame DEF DriverInv
<1>10. SessionInv' BY <1>2, <1>3, FollowSame DEF DriverInv, SessionInv, Ordered
<1>11. WireInv' BY <1>2, <1>3, <1>5, <1>6 DEF WireInv, Unopened
<1> QED BY <1>7, <1>8, <1>9, <1>10, <1>11 DEF DriverInv

\* A step within the handshake that changes neither the session nor the words.
LEMMA EarlyStep ==
  ASSUME DriverInv, NEW l \in Early, Goto("app", l), pc.app \in Early, wire' = wire,
         l \in {"accept", "wait", "sleep", "request"} => wire = <<>>,
         l \in {"drain", "select"} => wire = IF scope.role = "client" THEN <<"connect">> ELSE <<>>,
         l = "request" => scope.role = "client",
         scope' = scope, sent' = sent, conn' = conn, ctl' = ctl, inbox' = inbox, h3' = h3,
         call' = call, task' = task, fc' = fc, events' = events, cmds' = cmds, data' = data
  PROVE  DriverInv'
<1>1. Types BY DEF DriverInv
<1>2. pc.app \notin {"open", "dropped", "failed"} /\ l \in AppPlaces BY DEF Early, AppPlaces
<1>3. Unopened /\ Establishing /\ pc.recv = "none" /\ events = <<>> BY <1>2, UnopenedFacts
<1>4. pc' \in Places /\ pc'.app = l /\ pc'.recv = pc.recv /\ pc'.route = pc.route
  BY <1>1, <1>2, GotoApp DEF Types
<1>5. Types' BY <1>1, <1>4, TypesKept DEF Types
<1>6. DataInv' BY <1>4, DataSame DEF DriverInv
<1>7. CreditInv' BY CreditSame DEF DriverInv
<1>8. Establishing'
  <2>1. Awaits(inbox') <=> Coming BY DEF Coming
  <2>2. EstablishingWith(pc'.app, h3', call'.events, Awaits(inbox'))
    BY <1>3, <1>4, <2>1 DEF Establishing, EstablishingWith, HandshakeSound, ParkedSound, Early
  <2> QED BY <1>3, <1>4, <2>2, EstablishingIs DEF Establishing
<1>9. SessionInv'
  <2>1. pc'.app \notin {"open", "dropped", "failed"} BY <1>4 DEF Early
  <2> QED BY <1>8, <2>1, FollowSame DEF DriverInv, SessionInv, Ordered
<1>10. WireInv' BY <1>3, <1>4 DEF WireInv, Unopened, Early
<1> QED BY <1>5, <1>6, <1>7, <1>9, <1>10 DEF DriverInv

(* WtServer accepts the CONNECT stream.                                    *)
LEMMA AcceptConnectStep == ASSUME DriverInv, AcceptConnect PROVE DriverInv'
<1>1. Types /\ pc.app = "accept" /\ Unopened BY UnopenedFacts DEF DriverInv, AcceptConnect
<1>2. CASE Goto("app", "wait") /\ UNCHANGED <<wire, call>>
  BY <1>1, <1>2, EarlyStep DEF AcceptConnect, Early, Unopened
<1>3. CASE Fail
  BY <1>1, <1>3, AbandonStep DEF AcceptConnect, Fail, Types, DriverInv, SessionInv
<1> QED BY <1>2, <1>3 DEF AcceptConnect

(* The loop that waits for SETTINGS is left.                               *)
LEMMA LeaveWaitStep ==
  ASSUME DriverInv, LeaveWait, pc.app \in {"wait", "sleep"},
         UNCHANGED <<scope, conn, inbox, ctl, h3, call, task, fc, events, cmds, wire, data, sent>>
  PROVE  DriverInv'
<1>1. Types /\ Unopened BY UnopenedFacts DEF DriverInv
<1>2. scope.role \in {"client", "server"} BY <1>1, RoleFacts DEF Types
<1>3. CASE scope.role = "client"
  <2>1. Goto("app", "request") BY <1>3 DEF LeaveWait
  <2> QED BY <1>1, <1>3, <2>1, EarlyStep DEF Early, Unopened
<1>4. CASE scope.role = "server"
  <2>1. Goto("app", "drain") BY <1>4 DEF LeaveWait
  <2> QED BY <1>1, <1>4, <2>1, EarlyStep DEF Early, Unopened
<1> QED BY <1>2, <1>3, <1>4

(* The head of that loop.                                                  *)
LEMMA CheckSettingsStep == ASSUME DriverInv, CheckSettings PROVE DriverInv'
<1>1. Types /\ pc.app = "wait" /\ Unopened BY UnopenedFacts DEF DriverInv, CheckSettings
<1>2. CASE h3.settings BY <1>1, <1>2, LeaveWaitStep DEF CheckSettings
<1>3. CASE ~h3.settings
  BY <1>1, <1>3, EarlyStep DEF CheckSettings, Early, Unopened
<1> QED BY <1>2, <1>3

(* Its select! is notified.                                                *)
LEMMA SettingsNotifiedStep == ASSUME DriverInv, SettingsNotified PROVE DriverInv'
<1>1. Types /\ pc.app = "sleep" /\ Unopened BY UnopenedFacts DEF DriverInv, SettingsNotified
<1> QED BY <1>1, EarlyStep DEF SettingsNotified, Early, Unopened

(* Its select! learns that no SETTINGS will come.                          *)
LEMMA SettingsClosedStep == ASSUME DriverInv, SettingsClosed PROVE DriverInv'
<1>1. Types /\ pc.app = "sleep" /\ Unopened BY UnopenedFacts DEF DriverInv, SettingsClosed
<1>2. CASE h3.settings BY <1>1, <1>2, LeaveWaitStep DEF SettingsClosed
<1>3. CASE ~h3.settings
  BY <1>1, <1>3, AbandonStep DEF SettingsClosed, Fail, Types, DriverInv, SessionInv
<1> QED BY <1>2, <1>3

(* receive() of the handshake fails with the connection.                   *)
LEMMA HandshakeLostStep == ASSUME DriverInv, HandshakeLost PROVE DriverInv'
<1>1. Types /\ pc.app = "select" BY DEF DriverInv, HandshakeLost
<1> QED BY <1>1, AbandonStep DEF HandshakeLost, Fail, Types, DriverInv, SessionInv

(* The select! of the handshake is notified.                               *)
LEMMA HandshakeNotifiedStep == ASSUME DriverInv, HandshakeNotified PROVE DriverInv'
<1>1. Types /\ pc.app = "select" /\ Unopened BY UnopenedFacts DEF DriverInv, HandshakeNotified
<1> QED BY <1>1, EarlyStep DEF HandshakeNotified, Early, Unopened

(* The client sends its CONNECT.                                           *)
LEMMA SendConnectStep == ASSUME DriverInv, SendConnect PROVE DriverInv'
<1>1. Types /\ pc.app = "request" BY DEF DriverInv, SendConnect
<1>2. CASE h3.error \/ conn # "up"
  BY <1>1, <1>2, AbandonStep DEF SendConnect, Fail, Types, DriverInv, SessionInv
<1>3. CASE ~(h3.error \/ conn # "up")
  <2>1. /\ Unopened /\ Establishing /\ pc.recv = "none" /\ events = <<>>
    BY <1>1, UnopenedFacts
  <2>2. /\ h3' = [h3 EXCEPT !.ses = "pending"] /\ wire' = Append(wire, "connect")
        /\ Goto("app", "drain")
        /\ UNCHANGED <<scope, conn, inbox, ctl, permit, call, task, fc, events, cmds, data, sent>>
    BY <1>3 DEF SendConnect
  <2>3. pc' \in Places /\ pc'.app = "drain" /\ pc'.recv = pc.recv /\ pc'.route = pc.route
    BY <1>1, <2>2, GotoApp DEF Types, AppPlaces
  <2>4. wire = <<>> /\ scope.role = "client" BY <1>1, <2>1 DEF Unopened
  <2>5. wire' = <<"connect">> BY <2>2, <2>4
  <2>6. wire' \in Seq(Words) BY <2>5 DEF Words, Greetings
  <2>7. h3 \in Connections BY <1>1 DEF Types
  <2>8. /\ h3' \in Connections /\ h3'.ses = "pending" /\ h3'.ended = h3.ended
        /\ h3'.events = h3.events /\ h3'.parked = h3.parked
    BY <2>2, <2>7, SesRecord
  <2>9. Types' BY <1>1, <2>2, <2>3, <2>6, <2>8, TypesKept DEF Types
  <2>10. DataInv' BY <2>2, <2>3, DataSame DEF DriverInv
  <2>11. CreditInv' BY <2>2, CreditSame DEF DriverInv
  <2>12. Establishing'
    <3>1. EstablishingWith(pc.app, h3, call.events, Coming) BY <2>1 DEF Establishing
    <3>2. h3.ended = "none" /\ ~Complete(h3.events) BY <1>1, <3>1 DEF EstablishingWith, Early
    <3>3. EndSound(h3', HasClosed(call.events))
      <4>1. EndSound(h3, HasClosed(call.events)) BY <3>1 DEF EstablishingWith, HandshakeSound
      <4>2. HasClosed(call.events) \in BOOLEAN BY DEF HasClosed
      <4> QED BY <2>8, <3>2, <4>1, <4>2, SameEnd
    <3>4. ~Complete(h3'.events) BY <2>8, <3>2
    <3>5. Awaits(inbox') <=> Coming BY <2>2 DEF Coming
    <3>6. EstablishingWith("drain", h3', call'.events, Awaits(inbox'))
      BY <2>2, <2>4, <2>8, <3>1, <3>2, <3>3, <3>4, <3>5
      DEF EstablishingWith, HandshakeSound, ParkedSound, Early
    <3> QED BY <2>1, <2>2, <2>3, <3>6, EstablishingIs DEF Establishing
  <2>13. SessionInv' BY <2>2, <2>3, <2>12, FollowSame DEF DriverInv, SessionInv, Ordered
  <2>14. WireInv' BY <2>1, <2>2, <2>3, <2>4, <2>5 DEF WireInv, Unopened
  <2> QED BY <2>9, <2>10, <2>11, <2>13, <2>14 DEF DriverInv
<1> QED BY <1>2, <1>3

(* One round of the loop.                                                  *)
LEMMA RoundStep ==
  ASSUME DriverInv, NEW r, NEW next \in {"drain", "select"}, Round(r, next),
         pc.app \in {"drain", "select"},
         scope' = scope, sent' = sent, conn' = conn, ctl' = ctl, task' = task, fc' = fc,
         events' = events, cmds' = cmds, data' = data,
         inbox' \in Seq(Range(sent)), Ordered(inbox'),
         Processed(h3, r, HasClosed(call.events), Coming, Awaits(inbox'))
  PROVE  DriverInv'
<1> DEFINE told == HasClosed(call.events)
           after == Awaits(inbox')
<1>1. Types BY DEF DriverInv
<1>2. /\ Unopened /\ Establishing /\ pc.recv = "none" /\ events = <<>>
  BY UnopenedFacts
<1>3. PICK g \in Connections :
        /\ FeedSound([h |-> g, failed |-> r.failed], told, after) /\ Preserved(h3, g, Coming)
        /\ r.failed \in BOOLEAN
        /\ r.failed => r.h = g /\ r.events = <<>>
        /\ ~r.failed => r.h = Drained(g) /\ r.events = g.events
  BY DEF Processed
<1>4. h3' = r.h BY DEF Round
<1>5. CASE r.failed
  <2>1. Abandon(IF h3.error THEN "fin" ELSE "reset") BY <1>5 DEF Round
  <2> DEFINE how == IF h3.error THEN "fin" ELSE "reset"
  <2>2. how \in {"fin", "reset"} OBVIOUS
  <2>3. h3' \in Connections BY <1>3, <1>4, <1>5
  <2> HIDE DEF how
  <2>4. Abandon(how) BY <2>1 DEF how
  <2> QED BY <2>2, <2>3, <2>4, AbandonStep
<1>6. CASE ~r.failed
  <2>1. r.h = Drained(g) /\ r.events = g.events BY <1>3, <1>6
  <2>2. /\ h3' \in Connections /\ h3'.ses = g.ses /\ h3'.ended = g.ended
        /\ h3'.events = <<>> /\ h3'.parked = g.parked
        /\ Began(h3') <=> Began(g)
    BY <1>4, <2>1, DrainedFacts
  <2>3. CASE Refused(r.events)
    <3>1. Abandon("fin") BY <1>6, <2>3 DEF Round, Fail
    <3> QED BY <2>2, <3>1, AbandonStep
  <2>4. CASE ~Refused(r.events)
    <3> DEFINE q == g.events
               done == Complete(q)
               fw == Forwardable(q)
               l == IF ~done THEN next ELSE IF scope.role = "client" THEN "start"
                    ELSE IF Event("headers", "get") \in Range(q) THEN "reject" ELSE "decide"
    <3>1. /\ call' = [call EXCEPT
                        !.events = @ \o fw,
                        !.caps = IF scope.role = "client" THEN @ \o MaximaOf(q) ELSE @]
          /\ Goto("app", l) /\ wire' = wire
      BY <1>6, <2>1, <2>4 DEF Round
    <3>2. scope.role \in {"client", "server"} BY <1>1, RoleFacts DEF Types
    <3>3. l \in AppPlaces BY DEF AppPlaces
    <3>4. /\ q \in Seq(Events) /\ Once(q) /\ Tells(q, g.ended)
          /\ g.ended # "none" <=> told \/ HasClosed(q)
          /\ g.ended # "none" => g.ses = "closed"
          /\ ~(told /\ HasClosed(q))
      <4>1. EndSound(g, told)
        <5>1. [h |-> g, failed |-> r.failed].h = g OBVIOUS
        <5> QED BY <1>3, <5>1 DEF FeedSound
      <4>2. q \in Seq(Events) BY ConnectionFacts DEF ConnectionFields
      <4> QED BY <4>1, <4>2 DEF EndSound
    <3>5. /\ ParkedSound(g, after)
          /\ after \/ g.parked # <<>> => g.ended = "none" /\ ~done
          /\ scope.role = "client" /\ done => Began(g)
      <4> DEFINE x == [h |-> g, failed |-> r.failed]
      <4>1. x.h = g /\ ~x.failed BY <1>6
      <4> HIDE DEF x
      <4>2. FeedSound(x, told, after) BY <1>3 DEF x
      <4> QED BY <4>1, <4>2 DEF FeedSound
    <3>6. /\ h3.ended = "none" /\ (scope.role = "server" => ~Began(h3))
          /\ ~told /\ Once(call.events)
      <4>1. EstablishingWith(pc.app, h3, call.events, Coming) BY <1>2 DEF Establishing
      <4>2. h3.ended = "none" /\ (scope.role = "server" => ~Began(h3)) /\ Once(call.events)
        BY <4>1 DEF EstablishingWith, Early
      <4>3. EndSound(h3, told) BY <4>1 DEF EstablishingWith, HandshakeSound
      <4> QED BY <4>2, <4>3 DEF EndSound
    <3>7. ~done => g.ended = "none"
      <4>1. CASE scope.role = "client"
        <5>1. done <=> Of(q, {"established"}) # {} BY <4>1 DEF Complete
        <5>2. ~\E i \in Of(q, {"closed", "drain"}) : \A j \in Of(q, {"established"}) : i < j
          BY <2>1, <2>4, <4>1 DEF Refused
        <5>3. ~done => ~HasClosed(q)
          <6> SUFFICES ASSUME ~done, HasClosed(q) PROVE FALSE OBVIOUS
          <6>1. PICK i \in DOMAIN q : q[i].k = "closed" BY DEF HasClosed, Of
          <6>2. i \in Of(q, {"closed", "drain"}) BY <6>1 DEF Of
          <6>3. Of(q, {"established"}) = {} BY <5>1
          <6> QED BY <5>2, <6>2, <6>3
        <5> QED BY <3>4, <3>6, <5>3
      <4>2. CASE scope.role = "server"
        <5>1. ~Began(g) BY <1>3, <3>6, <4>2 DEF Preserved
        <5> QED BY <3>4, <5>1 DEF Began
      <4> QED BY <3>2, <4>1, <4>2
    <3>8. pc' \in Places /\ pc'.app = l /\ pc'.recv = pc.recv /\ pc'.route = pc.route
      <4> HIDE DEF l
      <4> QED BY <1>1, <3>1, <3>3, GotoApp DEF Types
    <3>9. /\ fw \in Seq(Events) /\ (HasClosed(fw) <=> HasClosed(q)) /\ Once(fw)
          /\ Tells(fw, g.ended) /\ MaximaOf(q) \in Seq(Granted)
      BY <3>4, ForwardFacts, MaximaFacts
    <3>10. call.events \in Seq(Events) /\ call.caps \in Seq(Granted)
      BY <1>1 DEF Types, Calls
    <3> DEFINE evs == call.events \o fw
    <3>11. /\ evs \in Seq(Events) /\ (HasClosed(evs) <=> told \/ HasClosed(q))
           /\ Once(evs) /\ Tells(evs, g.ended)
      <4>1. Tells(call.events, g.ended) BY <3>6 DEF Tells, HasClosed, Closed
      <4> HIDE DEF fw
      <4> QED BY <3>4, <3>6, <3>9, <3>10, <4>1, ConcatEvents
    <3>12. call'.events = evs /\ call' \in Calls /\ call'.closing = call.closing
      <4> DEFINE caps == IF scope.role = "client" THEN call.caps \o MaximaOf(q) ELSE call.caps
      <4>1. caps \in Seq(Granted) BY <3>9, <3>10, ConcatProperties
      <4>2. call' = [call EXCEPT !.events = evs, !.caps = caps] BY <3>1
      <4> HIDE DEF evs, caps
      <4>3. call \in Calls BY <1>1 DEF Types
      <4> QED BY <3>11, <4>1, <4>2, <4>3 DEF Calls
    <3> HIDE DEF evs, fw
    <3>13. Types' BY <1>1, <2>2, <3>1, <3>8, <3>12, TypesKept DEF Types
    <3>14. DataInv' BY <3>8, DataSame DEF DriverInv
    <3>15. CreditInv' BY CreditSame DEF DriverInv
    <3>16. EndSound(h3', HasClosed(call'.events))
      <4>1. DOMAIN h3'.events = {} BY <2>2
      <4>2. ~HasClosed(h3'.events) /\ Once(h3'.events) /\ Tells(h3'.events, h3'.ended)
        BY <4>1 DEF HasClosed, Once, Tells, Closed, Of
      <4> QED BY <2>2, <3>4, <3>11, <3>12, <4>2 DEF EndSound
    <3>17. ~Complete(h3'.events)
      <4>1. DOMAIN h3'.events = {} BY <2>2
      <4> QED BY <4>1 DEF Complete, Of
    <3>18. HandshakeSound(h3', HasClosed(call'.events), after)
      BY <2>2, <3>5, <3>16, <3>17 DEF HandshakeSound, ParkedSound
    <3>19. /\ l \in Early => ~done /\ l = next
           /\ l \in {"reject", "decide"} => scope.role = "server"
           /\ l = "start" => scope.role = "client" /\ done
           /\ l # "collect" /\ l \notin {"open", "dropped", "failed"}
      BY <3>2 DEF Early
    <3>20. l \notin Early => done BY DEF Early
    <3> HIDE DEF l, done, after, q
    <3>21. scope.role = "server" => ~Began(h3') BY <1>3, <2>2, <3>6 DEF Preserved
    <3>22. EstablishingWith(l, h3', call'.events, after)
      BY <2>2, <3>5, <3>7, <3>11, <3>12, <3>17, <3>18, <3>19, <3>20, <3>21 DEF EstablishingWith
    <3>23. Establishing' BY <1>2, <3>8, <3>22, EstablishingIs DEF Establishing, after
    <3>24. SessionInv' BY <3>8, <3>19, <3>23, FollowSame DEF DriverInv, SessionInv, Ordered
    <3>25. wire = IF scope.role = "client" THEN <<"connect">> ELSE <<>>
      BY <1>2 DEF Unopened
    <3>26. WireInv'
      <4>1. l \in {"drain", "select", "start", "reject", "decide"} BY DEF l
      <4> QED BY <1>2, <3>1, <3>8, <3>12, <3>19, <3>25, <4>1 DEF WireInv, Unopened
    <3> QED BY <3>13, <3>14, <3>15, <3>24, <3>26 DEF DriverInv
  <2> QED BY <2>3, <2>4
<1> QED BY <1>3, <1>5, <1>6

(* The connection while the handshake goes on.                             *)
LEMMA HandshakeState ==
  ASSUME DriverInv, pc.app \notin {"open", "dropped", "failed"}
  PROVE  /\ HandshakeSound(h3, HasClosed(call.events), Coming)
         /\ HasClosed(call.events) \in BOOLEAN /\ Coming \in BOOLEAN
<1>1. Establishing BY UnopenedFacts
<1>2. HasClosed(call.events) \in BOOLEAN BY DEF HasClosed
<1>3. Coming \in BOOLEAN BY DEF Coming, Awaits, HasResponse, Responded, Over
<1> QED BY <1>1, <1>2, <1>3 DEF Establishing, EstablishingWith

(* drain_events at the head of the handshake loop.                         *)
LEMMA HandshakeDrainStep == ASSUME DriverInv, HandshakeDrain PROVE DriverInv'
<1> DEFINE r == Drain(h3)
<1>1. Types /\ pc.app = "drain" BY DEF DriverInv, HandshakeDrain
<1>2. /\ UNCHANGED <<scope, conn, inbox, ctl, permit, task, fc, events, cmds, data, sent>>
      /\ IF r.failed THEN h3' = r.h /\ Fail ELSE Round(r, "select")
  BY DEF HandshakeDrain
<1>3. /\ HandshakeSound(h3, HasClosed(call.events), Coming)
      /\ HasClosed(call.events) \in BOOLEAN /\ Coming \in BOOLEAN
  BY <1>1, HandshakeState
<1>4. DrainSound(h3, r, HasClosed(call.events), Coming) BY <1>1, <1>3, DrainStep
<1> HIDE DEF r
<1>5. Processed(h3, r, HasClosed(call.events), Coming, Coming) BY <1>4, DrainProcessed
<1>6. inbox' \in Seq(Range(sent)) /\ Ordered(inbox')
  BY <1>1, <1>2 DEF Types, DriverInv, SessionInv
<1>7. CASE r.failed
  <2>1. h3' \in Connections BY <1>2, <1>5, <1>7 DEF Processed
  <2> QED BY <1>1, <1>2, <1>6, <1>7, <2>1, AbandonStep DEF Fail
<1>8. CASE ~r.failed
  <2>1. Awaits(inbox') = Coming BY <1>2 DEF Coming
  <2>2. Processed(h3, r, HasClosed(call.events), Coming, Awaits(inbox')) BY <1>5, <2>1
  <2> QED BY <1>1, <1>2, <1>6, <1>8, <2>2, RoundStep
<1> QED BY <1>7, <1>8

(* A chunk is received and processed during the handshake.                 *)
LEMMA HandshakeReceiveStep == ASSUME DriverInv, HandshakeReceive PROVE DriverInv'
<1>1. /\ Types /\ pc.app = "select" /\ Ordered(inbox) /\ CapsulesFollow
      /\ UNCHANGED <<scope, conn, ctl, permit, task, fc, events, cmds, data, sent>>
  BY DEF DriverInv, SessionInv, HandshakeReceive
<1>2. PICK k \in Chunks :
        LET items == SubSeq(inbox, 1, k)
        IN  /\ inbox' = Behind(k)
            /\ IF items[1].k = "reset" THEN Fail /\ UNCHANGED h3
               ELSE LET r == ProcessStreamData(h3, items)
                    IN  IF items[1].k = "fin" /\ ~r.failed /\ ~Complete(r.events)
                        THEN h3' = r.h /\ Fail
                        ELSE Round(r, "drain")
  BY Zenon DEF HandshakeReceive
<1> DEFINE items == SubSeq(inbox, 1, k)
           r == ProcessStreamData(h3, items)
           told == HasClosed(call.events)
<1>3. inbox' \in Seq(Range(sent)) /\ Ordered(inbox')
  BY <1>1, <1>2, ChunkTypes, ChunkFacts
<1>4. CASE items[1].k = "reset"
  <2>1. Fail /\ h3' = h3 BY <1>2, <1>4
  <2> QED BY <1>1, <1>3, <2>1, AbandonStep DEF Fail, Types
<1>5. CASE items[1].k # "reset"
  <2>1. PICK m \in [0 .. Len(items) -> BOOLEAN] :
          /\ m[0] = Coming /\ m[Len(items)] = Awaits(inbox')
          /\ \A i \in 1 .. Len(items) : Fits(items[i], m[i - 1], m[i])
    BY <1>1, <1>2, <1>5, ChunkFacts
  <2>2. Awaits(inbox') => Coming BY <1>1, <1>2, ChunkFacts
  <2>3. items \in Seq(Range(sent)) BY <1>1, ChunkTypes
  <2>4. HandshakeSound(h3, told, m[0]) /\ told \in BOOLEAN BY <1>1, <2>1, HandshakeState
  <2>5. Processed(h3, r, told, m[0], m[Len(items)])
    <3> HIDE DEF items
    <3> QED BY <1>1, <2>1, <2>2, <2>3, <2>4, ProcessStep
  <2>6. Processed(h3, r, told, Coming, Awaits(inbox')) BY <2>1, <2>5
  <2>7. IF items[1].k = "fin" /\ ~r.failed /\ ~Complete(r.events)
        THEN h3' = r.h /\ Fail ELSE Round(r, "drain")
    BY <1>2, <1>5
  <2> HIDE DEF items, r
  <2>8. CASE items[1].k = "fin" /\ ~r.failed /\ ~Complete(r.events)
    <3>1. PICK g \in Connections : ~r.failed => r.h = Drained(g) BY <2>6 DEF Processed
    <3>2. h3' \in Connections BY <2>7, <2>8, <3>1, DrainedFacts
    <3>3. Abandon("fin") BY <2>7, <2>8 DEF Fail
    <3> QED BY <1>1, <1>3, <3>2, <3>3, AbandonStep
  <2>9. CASE ~(items[1].k = "fin" /\ ~r.failed /\ ~Complete(r.events))
    <3>1. Round(r, "drain") BY <2>7, <2>9
    <3> QED BY <1>1, <1>3, <2>6, <3>1, RoundStep
  <2> QED BY <2>8, <2>9
<1> QED BY <1>4, <1>5

(* The request is refused.                                                 *)
LEMMA RejectStep == ASSUME DriverInv, Reject PROVE DriverInv'
<1>1. /\ Types /\ pc.app \in {"reject", "decide"}
      /\ UNCHANGED <<scope, conn, inbox, ctl, permit, task, fc, events, cmds, data, sent>>
      /\ call' = [call EXCEPT !.result = "rejected"] /\ Goto("app", "failed")
  BY DEF DriverInv, Reject
<1>2. Unopened /\ Establishing /\ pc.recv = "none" /\ events = <<>> BY <1>1, UnopenedFacts
<1>3. wire = <<>> BY <1>1, <1>2 DEF Unopened
<1>4. wire' \in {<<"fin">>, <<"4xx", "fin">>}
  <2>1. Append(wire, "fin") = <<"fin">> /\ wire \o <<"4xx", "fin">> = <<"4xx", "fin">>
    BY <1>3
  <2> QED BY <2>1 DEF Reject
<1>5. wire' \in Seq(Words) /\ Len(wire') <= 3 /\ "application" \notin Range(wire')
  <2>1. CASE wire' = <<"fin">> BY <2>1 DEF Words, Range
  <2>2. CASE wire' = <<"4xx", "fin">> BY <2>2 DEF Words, Range
  <2> QED BY <1>4, <2>1, <2>2
<1>6. h3' \in Connections
  <2>1. h3 \in Connections BY <1>1 DEF Types
  <2>2. [h3 EXCEPT !.ses = "closed"] \in Connections BY <2>1, SesRecord
  <2> QED BY <2>1, <2>2 DEF Reject
<1>7. pc' \in Places /\ pc'.app = "failed" /\ pc'.recv = pc.recv /\ pc'.route = pc.route
  BY <1>1, GotoApp DEF Types, AppPlaces
<1>8. call' \in Calls /\ call'.closing = call.closing BY <1>1 DEF Types, Calls
<1>9. Types' BY <1>1, <1>5, <1>6, <1>7, <1>8, TypesKept DEF Types
<1>10. DataInv' BY <1>1, <1>7, DataSame DEF DriverInv
<1>11. CreditInv' BY <1>1, CreditSame DEF DriverInv
<1>12. SessionInv' BY <1>1, <1>2, <1>7, FollowSame DEF DriverInv, SessionInv, Ordered
<1>13. WireInv' BY <1>1, <1>2, <1>5, <1>7, <1>8 DEF WireInv, Unopened
<1> QED BY <1>9, <1>10, <1>11, <1>12, <1>13 DEF DriverInv

(* The handshake is done, and the two tasks start.                         *)
LEMMA StartStep == ASSUME DriverInv, Start PROVE DriverInv'
<1>1. /\ Types /\ pc.app = "start"
      /\ UNCHANGED <<scope, conn, inbox, ctl, h3, permit, task, events, cmds, wire, data, sent>>
      /\ call' = [call EXCEPT !.result = "ok"]
      /\ pc' = [pc EXCEPT !.app = "open", !.recv = "pending"]
      /\ fc' = [enabled |-> scope.enabled /\ h3.ses \in {"established", "draining"},
                limit |-> scope.limit, used |-> 0]
  BY DEF DriverInv, Start
<1>2. Unopened /\ Establishing /\ pc.recv = "none" /\ events = <<>> BY <1>1, UnopenedFacts
<1>3. pc' \in Places /\ pc'.app = "open" /\ pc'.recv = "pending" /\ pc'.route = pc.route
  <2>1. pc \in Places BY <1>1 DEF Types
  <2> QED BY <1>1, <2>1 DEF Places, AppPlaces, RecvPlaces
<1>4. call' \in Calls /\ call'.closing = call.closing /\ call'.events = call.events
  BY <1>1 DEF Types, Calls
<1>5. /\ fc' \in [enabled : BOOLEAN, limit : 0 .. MaxLimit, used : 0 .. MaxLimit + 1]
      /\ fc'.limit = scope.limit /\ fc'.used = 0
  <2>1. scope.limit \in 0 .. MaxLimit /\ scope.enabled \in BOOLEAN /\ MaxLimit \in Nat
    BY <1>1, RoleFacts DEF Types
  <2> QED BY <1>1, <2>1
<1>6. Types' BY <1>1, <1>3, <1>4, <1>5, TypesKept DEF Types
<1>7. DataInv' BY <1>1, <1>3, DataSame DEF DriverInv
<1>8. CreditInv'
  <2>1. scope.limit \in Granted /\ 0 <= scope.limit
    <3>1. scope.limit \in 0 .. MaxLimit BY <1>1, RoleFacts DEF Types
    <3> QED BY <1>1, <3>1, GrantedFacts
  <2>2. Granted' = Granted BY <1>1, ScopeSame
  <2> QED BY <1>5, <2>1, <2>2 DEF CreditInv
<1>9. ReadingWith(h3', call'.events, Awaits(inbox'))
  <2>1. EstablishingWith("start", h3, call.events, Coming) BY <1>1, <1>2 DEF Establishing
  <2>2. Awaits(inbox') <=> Coming BY <1>1 DEF Coming
  <2> QED BY <1>1, <1>4, <2>1, <2>2 DEF EstablishingWith, HandshakeSound, ReadingWith, Early
<1>10. Reading' BY <1>1, <1>2, <1>3, <1>9, ReadingIs DEF Establishing
<1>11. SessionInv' BY <1>1, <1>3, <1>10, FollowSame DEF DriverInv, SessionInv, Ordered
<1>12. wire \in {<<"connect">>, <<"2xx">>} /\ cmds = <<>> /\ task.saw = "none"
       /\ call.closing = "none"
  BY <1>1, <1>2 DEF Unopened
<1>13. WireInv'
  <2>1. wire' \in {<<"connect">>, <<"2xx">>} /\ cmds' = <<>> /\ task'.saw = "none"
        /\ call'.closing = "none"
    BY <1>1, <1>4, <1>12
  <2>2. /\ Len(wire') = 1 /\ DOMAIN wire' = {1} /\ wire'[1] \in Greetings /\ wire' # <<>>
        /\ "application" \notin Range(wire')
    <3>1. CASE wire' = <<"connect">> BY <3>1 DEF Greetings, Range
    <3>2. CASE wire' = <<"2xx">> BY <3>2 DEF Greetings, Range
    <3> QED BY <2>1, <3>1, <3>2
  <2>3. Range(cmds') = {} /\ DOMAIN cmds' = {} BY <2>1 DEF Range
  <2>4. wire'[1] # "application" BY <2>2 DEF Greetings
  <2>5. CloseSound' BY <2>1, <2>2, <2>3, <2>4 DEF CloseSound
  <2>6. ResetSound' BY <2>2, <2>3 DEF ResetSound
  <2>7. AnswerSound' BY <2>1, <2>2 DEF AnswerSound
  <2> QED BY <1>3, <2>1, <2>2, <2>5, <2>6, <2>7 DEF WireInv, Opened
<1> QED BY <1>6, <1>7, <1>8, <1>11, <1>13 DEF DriverInv

(* The capsules that came early are read when the session is established.  *)
LEMMA EarlyCapsules ==
  ASSUME DriverInv, pc.app = "decide", ~h3.error, h3.ses # "closed"
  PROVE  LET e == Emit([h3 EXCEPT !.ses = "established", !.caps = <<>>], "established", 0)
             r == ReadItems(e, h3.caps)
         IN  /\ FeedSound(r, HasClosed(call.events), FALSE)
             /\ r.h.parked = <<>> /\ Began(r.h) /\ ~HasClosed(call.events)
<1> DEFINE s == [h3 EXCEPT !.ses = "established", !.caps = <<>>]
           e == Emit(s, "established", 0)
           items == h3.caps
           told == HasClosed(call.events)
           m == [i \in 0 .. Len(items) |-> FALSE]
           x == [h |-> e, failed |-> FALSE]
<1>1. Types BY DEF DriverInv
<1>2. Establishing BY UnopenedFacts
<1>3. EstablishingWith("decide", h3, call.events, Coming) BY <1>2 DEF Establishing
<1>4. /\ h3 \in Connections /\ EndSound(h3, told) /\ h3.parked = <<>> /\ ~Began(h3)
      /\ scope.role = "server"
  BY <1>3 DEF EstablishingWith, HandshakeSound, Early
<1>5. h3.ended = "none" BY <1>4 DEF EndSound, Began
<1>6. told \in BOOLEAN BY DEF HasClosed
<1>7. <<>> \in Seq(Capsules) OBVIOUS
<1>8. /\ s \in Connections /\ s.ses = "established" /\ s.ended = h3.ended
      /\ s.events = h3.events /\ s.parked = h3.parked
  <2> DEFINE c == [h3 EXCEPT !.ses = "established"]
             d == [c EXCEPT !.caps = <<>>]
  <2>1. s = d OBVIOUS
  <2>2. /\ c \in Connections /\ c.ses = "established" /\ c.ended = h3.ended
        /\ c.events = h3.events /\ c.parked = h3.parked
    BY <1>4, SesRecord
  <2> HIDE DEF c, s
  <2>3. /\ d \in Connections /\ d.ses = c.ses /\ d.ended = c.ended
        /\ d.events = c.events /\ d.parked = c.parked
    BY <1>7, <2>2, CapsRecord
  <2> QED BY <2>1, <2>2, <2>3
<1> HIDE DEF s
<1>9. EndSound(s, told) BY <1>4, <1>5, <1>6, <1>8, SameEnd
<1>10. Began(s) BY <1>8 DEF Began
<1>11. /\ e \in Connections /\ EndSound(e, told) /\ e.parked = <<>> /\ Began(e)
  <2>1. Item("established", 0) \in Events BY DEF Events, Item
  <2> QED BY <1>4, <1>6, <1>8, <1>9, <1>10, <2>1, EmitStep
<1> HIDE DEF e
<1>12. HandshakeSound(e, told, FALSE) BY <1>11 DEF HandshakeSound, ParkedSound
<1>13. FeedSound(x, told, FALSE) BY <1>12, HandshakeFeed
<1>14. items \in Seq(Capsules) /\ Len(items) \in Nat
  <2>1. items \in Seq(Capsules) BY <1>4, ConnectionFacts DEF ConnectionFields
  <2> HIDE DEF items
  <2> QED BY <2>1, LenProperties
<1> HIDE DEF items
<1>15. \A i \in 1 .. Len(items) : items[i] \in Capsules BY <1>14, ElementOfSeq
<1>16. Capsules \subseteq Range(sent) BY DEF Capsules
<1>17. items \in Seq(Range(sent)) BY <1>14, <1>16
<1>18. /\ m \in [0 .. Len(items) -> BOOLEAN] /\ m[0] = FALSE /\ m[Len(items)] = FALSE
       /\ \A i \in 1 .. Len(items) : m[i - 1] = FALSE /\ m[i] = FALSE
  BY <1>14
<1> HIDE DEF m
<1>19. \A i \in 1 .. Len(items) : Fits(items[i], m[i - 1], m[i])
  BY <1>15, <1>18 DEF Fits, Capsules, Response
<1>20. FeedSound([h |-> e, failed |-> FALSE], told, m[0]) BY <1>13, <1>18
<1>21. /\ FeedSound(ReadItems(e, items), told, m[Len(items)])
       /\ Preserved(e, ReadItems(e, items).h, m[0])
  BY <1>1, <1>6, <1>11, <1>17, <1>18, <1>19, <1>20, ReadItemsStep
<1> DEFINE r == ReadItems(e, items)
<1> HIDE DEF r
<1>22. FeedSound(r, told, FALSE) /\ Preserved(e, r.h, FALSE) BY <1>18, <1>21 DEF r
<1>23. r.h.parked = <<>> /\ Began(r.h) BY <1>11, <1>22 DEF Preserved
<1>24. ~told BY <1>4, <1>5 DEF EndSound
<1> QED BY <1>22, <1>23, <1>24 DEF r, e, s, items

(* The request is accepted, and the capsules that came early are run.      *)
LEMMA AcceptStep == ASSUME DriverInv, Accept PROVE DriverInv'
<1> DEFINE e == Emit([h3 EXCEPT !.ses = "established", !.caps = <<>>], "established", 0)
           r == ReadItems(e, h3.caps)
           told == HasClosed(call.events)
<1>1. /\ Types /\ pc.app = "decide"
      /\ UNCHANGED <<scope, conn, inbox, ctl, permit, task, fc, events, cmds, data, sent>>
      /\ IF h3.error \/ h3.ses = "closed" THEN Fail /\ UNCHANGED h3
         ELSE /\ h3' = r.h
              /\ IF r.failed THEN Abandon("reset")
                 ELSE IF conn # "up" THEN Fail
                 ELSE wire' = Append(wire, "2xx") /\ Goto("app", "collect") /\ UNCHANGED call
  BY Zenon DEF DriverInv, Accept
<1>2. inbox' \in Seq(Range(sent)) /\ Ordered(inbox')
  BY <1>1 DEF Types, DriverInv, SessionInv
<1>3. CASE h3.error \/ h3.ses = "closed"
  <2>1. Fail /\ h3' = h3 BY <1>1, <1>3
  <2> QED BY <1>1, <1>2, <2>1, AbandonStep DEF Fail, Types
<1>4. CASE ~(h3.error \/ h3.ses = "closed")
  <2>1. FeedSound(r, told, FALSE) /\ r.h.parked = <<>> /\ Began(r.h) /\ ~told
    BY <1>1, <1>4, EarlyCapsules
  <2>2. /\ h3' = r.h
        /\ IF r.failed THEN Abandon("reset")
           ELSE IF conn # "up" THEN Fail
           ELSE wire' = Append(wire, "2xx") /\ Goto("app", "collect") /\ UNCHANGED call
    BY <1>1, <1>4
  <2> HIDE DEF r, e
  <2>3. r \in Outcomes /\ r.h \in Connections /\ r.failed \in BOOLEAN
    <3>1. r \in Outcomes BY <2>1 DEF FeedSound
    <3> QED BY <3>1, OutcomeFacts
  <2>4. CASE r.failed
    <3>1. Abandon("reset") /\ h3' \in Connections BY <2>2, <2>3, <2>4
    <3> QED BY <1>1, <1>2, <3>1, AbandonStep
  <2>5. CASE ~r.failed /\ conn # "up"
    <3>1. Abandon("fin") /\ h3' \in Connections BY <2>2, <2>3, <2>5 DEF Fail
    <3> QED BY <1>1, <1>2, <3>1, AbandonStep
  <2>6. CASE ~r.failed /\ conn = "up"
    <3>1. h3' = r.h /\ wire' = Append(wire, "2xx") /\ Goto("app", "collect") /\ call' = call
      BY <2>2, <2>6
    <3>2. Unopened /\ Establishing /\ pc.recv = "none" /\ events = <<>> BY <1>1, UnopenedFacts
    <3>3. wire' = <<"2xx">>
      <4>1. wire = <<>> BY <1>1, <3>2 DEF Unopened
      <4> QED BY <3>1, <4>1
    <3>4. wire' \in Seq(Words) BY <3>3 DEF Words, Greetings
    <3>5. pc' \in Places /\ pc'.app = "collect" /\ pc'.recv = pc.recv /\ pc'.route = pc.route
      BY <1>1, <3>1, GotoApp DEF Types, AppPlaces
    <3>6. Types' BY <1>1, <2>3, <3>1, <3>4, <3>5, TypesKept DEF Types
    <3>7. DataInv' BY <1>1, <3>5, DataSame DEF DriverInv
    <3>8. CreditInv' BY <1>1, CreditSame DEF DriverInv
    <3>9. EstablishingWith("decide", h3, call.events, Coming) BY <1>1, <3>2 DEF Establishing
    <3>10. Awaits(inbox') <=> Coming BY <1>1 DEF Coming
    <3>11. /\ ~Coming /\ scope.role = "server" /\ Once(call.events)
      BY <3>9 DEF EstablishingWith, Early
    <3>12. Tells(call.events, r.h.ended) BY <2>1 DEF Tells, Closed, HasClosed
    <3>13. HandshakeSound(r.h, told, FALSE)
      <4>1. r = [h |-> r.h, failed |-> FALSE] BY <2>3, <2>6 DEF Outcomes
      <4> QED BY <2>1, <4>1, HandshakeFeed
    <3>14. Awaits(inbox') = FALSE
      <4>1. Awaits(inbox') \in BOOLEAN BY DEF Awaits, HasResponse, Responded, Over
      <4> QED BY <3>10, <3>11, <4>1
    <3>15. EstablishingWith("collect", h3', call'.events, Awaits(inbox'))
      BY <2>1, <3>1, <3>11, <3>12, <3>13, <3>14 DEF EstablishingWith, Early
    <3>16. Establishing' BY <1>1, <3>2, <3>5, <3>15, EstablishingIs DEF Establishing
    <3>17. SessionInv' BY <1>1, <3>5, <3>16, FollowSame DEF DriverInv, SessionInv, Ordered
    <3>18. WireInv' BY <1>1, <3>1, <3>2, <3>3, <3>5 DEF WireInv, Unopened
    <3> QED BY <3>6, <3>7, <3>8, <3>17, <3>18 DEF DriverInv
  <2> QED BY <2>4, <2>5, <2>6
<1> QED BY <1>3, <1>4

(* The events of the response are collected.                               *)
LEMMA CollectStep == ASSUME DriverInv, Collect PROVE DriverInv'
<1> DEFINE r == Drain(h3)
           told == HasClosed(call.events)
<1>1. /\ Types /\ pc.app = "collect" /\ h3' = r.h
      /\ UNCHANGED <<scope, conn, inbox, ctl, permit, task, fc, events, cmds, data, sent>>
      /\ IF r.failed THEN Fail
         ELSE /\ call' = [call EXCEPT !.events = @ \o Forwardable(r.events),
                                      !.caps = @ \o MaximaOf(r.events)]
              /\ Goto("app", "start")
              /\ UNCHANGED wire
  BY Zenon DEF DriverInv, Collect
<1>2. /\ HandshakeSound(h3, told, Coming) /\ told \in BOOLEAN /\ Coming \in BOOLEAN
  BY <1>1, HandshakeState
<1>3. DrainSound(h3, r, told, Coming) BY <1>1, <1>2, DrainStep
<1> HIDE DEF r
<1>4. Unopened /\ Establishing /\ pc.recv = "none" /\ events = <<>> BY <1>1, UnopenedFacts
<1>5. EstablishingWith("collect", h3, call.events, Coming) BY <1>1, <1>4 DEF Establishing
<1>6. /\ ~Coming /\ h3.parked = <<>> /\ scope.role = "server" /\ Began(h3)
      /\ Once(call.events) /\ Tells(call.events, h3.ended)
      /\ h3 \in Connections /\ EndSound(h3, told)
  BY <1>5 DEF EstablishingWith, HandshakeSound, Early
<1>7. /\ r.failed \in BOOLEAN
      /\ r.failed => r.h = h3
      /\ ~r.failed => r.h = Drained(h3) /\ r.events = h3.events
  BY <1>3, <1>6 DEF DrainSound
<1>8. inbox' \in Seq(Range(sent)) /\ Ordered(inbox')
  BY <1>1 DEF Types, DriverInv, SessionInv
<1>9. CASE r.failed
  <2>1. Abandon("fin") /\ h3' \in Connections BY <1>1, <1>6, <1>7, <1>9 DEF Fail
  <2> QED BY <1>1, <1>8, <2>1, AbandonStep
<1>10. CASE ~r.failed
  <2> DEFINE q == h3.events
             fw == Forwardable(q)
             evs == call.events \o fw
             caps == call.caps \o MaximaOf(q)
  <2>1. /\ call' = [call EXCEPT !.events = evs, !.caps = caps]
        /\ Goto("app", "start") /\ wire' = wire /\ h3' = Drained(h3)
    BY <1>1, <1>7, <1>10
  <2>2. /\ h3' \in Connections /\ h3'.ses = h3.ses /\ h3'.ended = h3.ended
        /\ h3'.events = <<>> /\ h3'.parked = <<>> /\ Began(h3')
    BY <1>6, <2>1, DrainedFacts
  <2>3. /\ q \in Seq(Events) /\ Once(q) /\ Tells(q, h3.ended)
        /\ h3.ended # "none" <=> told \/ HasClosed(q)
        /\ h3.ended # "none" => h3.ses = "closed"
        /\ ~(told /\ HasClosed(q))
    BY <1>6, ConnectionFacts DEF ConnectionFields, EndSound
  <2>4. /\ fw \in Seq(Events) /\ (HasClosed(fw) <=> HasClosed(q)) /\ Once(fw)
        /\ Tells(fw, h3.ended) /\ MaximaOf(q) \in Seq(Granted)
    BY <2>3, ForwardFacts, MaximaFacts
  <2>5. call.events \in Seq(Events) /\ call.caps \in Seq(Granted)
    BY <1>1 DEF Types, Calls
  <2>6. /\ evs \in Seq(Events) /\ (HasClosed(evs) <=> told \/ HasClosed(q))
        /\ Once(evs) /\ Tells(evs, h3.ended)
    <3> HIDE DEF fw
    <3> QED BY <1>6, <2>3, <2>4, <2>5, ConcatEvents
  <2>7. caps \in Seq(Granted) BY <2>4, <2>5, ConcatProperties
  <2> HIDE DEF evs, caps, fw
  <2>8. call'.events = evs /\ call' \in Calls /\ call'.closing = call.closing
    <3>1. call \in Calls BY <1>1 DEF Types
    <3> QED BY <2>1, <2>6, <2>7, <3>1 DEF Calls
  <2>9. pc' \in Places /\ pc'.app = "start" /\ pc'.recv = pc.recv /\ pc'.route = pc.route
    BY <1>1, <2>1, GotoApp DEF Types, AppPlaces
  <2>10. Types' BY <1>1, <2>1, <2>2, <2>8, <2>9, TypesKept DEF Types
  <2>11. DataInv' BY <1>1, <2>9, DataSame DEF DriverInv
  <2>12. CreditInv' BY <1>1, CreditSame DEF DriverInv
  <2>13. DOMAIN h3'.events = {} BY <2>2
  <2>14. EndSound(h3', HasClosed(call'.events))
    <3>1. ~HasClosed(h3'.events) /\ Once(h3'.events) /\ Tells(h3'.events, h3'.ended)
      BY <2>13 DEF HasClosed, Once, Tells, Closed, Of
    <3> QED BY <2>2, <2>3, <2>6, <2>8, <3>1 DEF EndSound
  <2>15. ~Complete(h3'.events) BY <2>13 DEF Complete, Of
  <2>16. ~Awaits(inbox') BY <1>1, <1>6 DEF Coming
  <2>17. HandshakeSound(h3', HasClosed(call'.events), Awaits(inbox'))
    BY <2>2, <2>14, <2>15, <2>16 DEF HandshakeSound, ParkedSound
  <2>18. EstablishingWith("start", h3', call'.events, Awaits(inbox'))
    BY <2>2, <2>6, <2>8, <2>16, <2>17 DEF EstablishingWith, Early
  <2>19. Establishing' BY <1>1, <1>4, <2>9, <2>18, EstablishingIs DEF Establishing
  <2>20. SessionInv' BY <1>1, <2>9, <2>19, FollowSame DEF DriverInv, SessionInv, Ordered
  <2>21. WireInv' BY <1>1, <1>4, <2>1, <2>8, <2>9 DEF WireInv, Unopened
  <2> QED BY <2>10, <2>11, <2>12, <2>20, <2>21 DEF DriverInv
<1> QED BY <1>7, <1>9, <1>10

-----------------------------------------------------------------------------
(***************************************************************************)
(* The sending end of the stream: what is asked of the sending task.       *)
(***************************************************************************)
LEMMA OpenedFacts ==
  ASSUME DriverInv, pc.recv # "none"
  PROVE  Opened /\ pc.app \in {"open", "dropped"}
<1>1. pc.app \in {"open", "dropped"}
  <2>1. SessionInv BY DEF DriverInv
  <2>2. CASE pc.app \notin {"open", "dropped", "failed"}
    BY <2>1, <2>2 DEF SessionInv, Establishing
  <2>3. CASE pc.app = "failed" BY <2>1, <2>3 DEF SessionInv
  <2> QED BY <2>2, <2>3
<1> QED BY <1>1 DEF DriverInv, WireInv

(* An open session has a receiving task.                                   *)
LEMMA OpenRecv ==
  ASSUME DriverInv, pc.app \in {"open", "dropped"}
  PROVE  Opened /\ pc.recv # "none"
BY DEF DriverInv, WireInv, SessionInv

(* One more command of the receiving task.                                 *)
LEMMA MoreCommands ==
  ASSUME Types, CloseSound, ResetSound, NEW c \in Commands, cmds' = Append(cmds, c),
         wire' = wire, call'.closing = call.closing,
         c # Item("capsule", "application"),
         c = Item("reset", "none") => c \notin Range(cmds) /\ Len(wire) <= 3,
         pc'.recv \in {"pending", "receive"} =>
            pc.recv \in {"pending", "receive"} /\ c # Item("reset", "none")
  PROVE  CloseSound' /\ ResetSound'
<1> DEFINE n == Len(cmds)
           reset == Item("reset", "none")
           capsule == Item("capsule", "application")
<1>1. cmds \in Seq(Commands) BY DEF Types
<1>2. /\ n \in Nat /\ \A i \in 1 .. n : cmds'[i] = cmds[i]
      /\ cmds'[n + 1] = c /\ Range(cmds') = Range(cmds) \cup {c}
      /\ DOMAIN cmds = 1 .. n /\ DOMAIN cmds' = 1 .. n + 1
  BY <1>1, AppendFacts
<1> HIDE DEF n, reset, capsule
<1>3. \A i \in 1 .. n : cmds[i] \in Range(cmds) BY <1>2 DEF Range
<1>4. \A i \in 1 .. n + 1 : i \in 1 .. n \/ i = n + 1 BY <1>2
<1>5. CloseSound'
  <2>1. c # capsule BY DEF capsule
  <2>2. \A i, j \in DOMAIN cmds' : cmds'[i] = capsule /\ cmds'[j] = capsule => i = j
    <3>1. \A i \in DOMAIN cmds' : cmds'[i] = capsule => i \in DOMAIN cmds /\ cmds[i] = capsule
      BY <1>2, <1>4, <2>1
    <3>2. \A i, j \in DOMAIN cmds : cmds[i] = capsule /\ cmds[j] = capsule => i = j
      BY DEF CloseSound, capsule
    <3> QED BY <3>1, <3>2
  <2>3. capsule \in Range(cmds') <=> capsule \in Range(cmds) BY <1>2, <2>1
  <2> QED BY <2>2, <2>3 DEF CloseSound, capsule
<1>6. ResetSound'
  <2>1. \A i, j \in DOMAIN cmds' : cmds'[i] = reset /\ cmds'[j] = reset => i = j
    <3>1. CASE c = reset
      <4>1. \A i \in 1 .. n : cmds'[i] # reset BY <1>2, <1>3, <3>1 DEF reset
      <4> QED BY <1>2, <1>4, <4>1
    <3>2. CASE c # reset
      <4>1. \A i \in DOMAIN cmds' : cmds'[i] = reset => i \in DOMAIN cmds /\ cmds[i] = reset
        BY <1>2, <1>4, <3>2
      <4>2. \A i, j \in DOMAIN cmds : cmds[i] = reset /\ cmds[j] = reset => i = j
        BY DEF ResetSound, reset
      <4> QED BY <4>1, <4>2
    <3> QED BY <3>1, <3>2
  <2>2. reset \in Range(cmds') <=> reset \in Range(cmds) \/ c = reset BY <1>2
  <2> QED BY <2>1, <2>2 DEF ResetSound, reset, Ended
<1> QED BY <1>5, <1>6

\* A request behind others, or the first.
LEMMA HeadCommand ==
  ASSUME Types, NEW c \in Commands, cmds' = Append(cmds, c), wire' = wire
  PROVE  /\ cmds' \in Seq(Commands)
         /\ \A x : Asked(x) => Asked(x)'
         /\ cmds = <<>> /\ Len(wire) = 1 => Asked(c)'
<1>1. cmds \in Seq(Commands) BY DEF Types
<1>2. cmds' \in Seq(Commands) /\ cmds' # <<>> BY <1>1
<1>3. cmds # <<>> => Head(cmds') = Head(cmds) BY <1>1
<1>4. cmds = <<>> => Head(cmds') = c BY <1>1
<1> QED BY <1>2, <1>3, <1>4 DEF Asked

\* The receiving task moves on and asks for nothing.
LEMMA RecvQuiet ==
  ASSUME Opened, pc.app \in {"open", "dropped"}, pc'.app = pc.app,
         pc.recv \notin {"none", "done"},
         pc'.recv \in {"pending", "receive"} => pc.recv \in {"pending", "receive"},
         cmds' = cmds, wire' = wire, conn' = conn, call'.closing = call.closing,
         task'.saw = task.saw
  PROVE  WireInv'
<1>1. CloseSound' BY DEF Opened, CloseSound
<1>2. ResetSound' BY DEF Opened, ResetSound, Ended
<1>3. AnswerSound' BY DEF Opened, AnswerSound, Asked, Said, Dropped
<1> QED BY <1>1, <1>2, <1>3 DEF WireInv, Opened

\* It answers what the peer did wrong.
LEMMA RecvAnswers ==
  ASSUME Types, Opened, pc.app \in {"open", "dropped"}, pc'.app = pc.app,
         pc.recv \in {"pending", "receive"}, pc'.recv \in {"residual", "finish"},
         \/ cmds' = Append(cmds, Item("capsule", "flow control")) /\ task'.saw = "violation"
         \/ cmds' = Append(cmds, Item("reset", "none")) /\ task'.saw = "malformed",
         wire' = wire, conn' = conn, call'.closing = call.closing
  PROVE  WireInv' /\ cmds' \in Seq(Commands)
<1>1. task.saw = "none" /\ CloseSound /\ ResetSound /\ AnswerSound BY DEF Opened
<1>2. PICK c \in {Item("capsule", "flow control"), Item("reset", "none")} :
        /\ cmds' = Append(cmds, c)
        /\ task'.saw = IF c = Item("reset", "none") THEN "malformed" ELSE "violation"
  BY DEF Item
<1>3. c \in Commands /\ c # Item("capsule", "application")
  <2>1. CASE c = Item("capsule", "flow control") BY <2>1 DEF Commands, Item
  <2>2. CASE c = Item("reset", "none") BY <2>2 DEF Commands, Item
  <2> QED BY <2>1, <2>2
<1>4. Item("reset", "none") \notin Range(cmds) /\ Len(wire) <= 3
  BY <1>1 DEF ResetSound
<1>5. CloseSound' /\ ResetSound' BY <1>1, <1>2, <1>3, <1>4, MoreCommands
<1>6. AnswerSound'
  <2>1. cmds = <<>> /\ Len(wire) = 1 => Asked(c)' BY <1>2, <1>3, HeadCommand
  <2>2. ~Dropped /\ call.closing = "none" /\ conn = "up" => cmds = <<>> /\ Len(wire) = 1
    BY <1>1 DEF AnswerSound
  <2>3. Dropped' <=> Dropped BY DEF Dropped
  <2>4. task'.saw # "none" BY <1>2
  <2>5. task'.saw = "violation" => c = Item("capsule", "flow control") BY <1>2
  <2>6. task'.saw = "malformed" => c = Item("reset", "none") BY <1>2
  <2>7. ~Dropped' /\ call'.closing = "none" /\ conn' = "up" => Asked(c)' BY <2>1, <2>2, <2>3
  <2>8. task'.saw = "violation" /\ Asked(c)' => Asked(Item("capsule", "flow control"))'
    BY <2>5 DEF Asked
  <2>9. task'.saw = "malformed" /\ Asked(c)' => Asked(Item("reset", "none"))'
    BY <2>6 DEF Asked
  <2> QED BY <2>4, <2>7, <2>8, <2>9 DEF AnswerSound
<1>7. cmds' \in Seq(Commands) BY <1>2, <1>3, HeadCommand
<1> QED BY <1>5, <1>6, <1>7 DEF WireInv, Opened

\* The application drops the session, or the receiving task ends.
LEMMA FinishAsked ==
  ASSUME Types, Opened, cmds' = Append(cmds, Item("finish", "none")),
         pc.app \in {"open", "dropped"},
         \/ pc'.app = pc.app /\ pc.recv = "finish" /\ pc'.recv = "done"
         \/ pc'.app = "dropped" /\ pc'.recv = pc.recv,
         wire' = wire, conn' = conn, call' = call, task' = task
  PROVE  WireInv' /\ cmds' \in Seq(Commands)
<1>1. CloseSound /\ ResetSound /\ AnswerSound BY DEF Opened
<1>2. Item("finish", "none") \in Commands
      /\ Item("finish", "none") # Item("capsule", "application")
      /\ Item("finish", "none") # Item("reset", "none")
  BY DEF Commands, Item
<1>3. CloseSound' /\ ResetSound' BY <1>1, <1>2, MoreCommands
<1>4. AnswerSound'
  <2>1. CASE pc'.app = "dropped" BY <2>1 DEF AnswerSound, Dropped
  <2>2. CASE pc'.app = pc.app /\ pc.recv = "finish" /\ pc'.recv = "done"
    <3>1. \A x : Asked(x) => Asked(x)' BY <1>2, HeadCommand
    <3>2. \A x : Said(x) => Said(x)' BY DEF Said
    <3> QED BY <1>1, <2>2, <3>1, <3>2 DEF AnswerSound, Dropped
  <2> QED BY <2>1, <2>2
<1>5. cmds' \in Seq(Commands) BY <1>2, HeadCommand
<1> QED BY <1>3, <1>4, <1>5 DEF WireInv, Opened

-----------------------------------------------------------------------------
(***************************************************************************)
(* The receiving task.                                                     *)
(***************************************************************************)
\* A new limit has been granted and is not smaller.
LEMMA RaisedFacts ==
  ASSUME Types, CreditInv, NEW q \in Seq(Granted), fc' = Raised(q),
         scope' = scope, sent' = sent
  PROVE  /\ fc' \in [enabled : BOOLEAN, limit : 0 .. MaxLimit, used : 0 .. MaxLimit + 1]
         /\ CreditInv'
<1>1. fc \in [enabled : BOOLEAN, limit : 0 .. MaxLimit, used : 0 .. MaxLimit + 1]
      /\ MaxLimit \in Nat
  BY RoleFacts DEF Types
<1>2. Granted \subseteq 0 .. MaxLimit /\ Granted' = Granted BY GrantedFacts, ScopeSame
<1>3. CASE fc.enabled
  <2> DEFINE T == {fc.limit} \cup Range(q)
  <2>1. fc' = [fc EXCEPT !.limit = Max(T)] BY <1>3 DEF Raised
  <2>2. Range(q) \subseteq Granted
    <3>1. Range(q) = {q[i] : i \in 1 .. Len(q)} BY RangeIs
    <3>2. \A i \in 1 .. Len(q) : q[i] \in Granted BY ElementOfSeq
    <3> QED BY <3>1, <3>2
  <2>3. fc.limit \in Granted /\ fc.used <= fc.limit BY <1>3 DEF CreditInv
  <2>4. T \subseteq 0 .. MaxLimit /\ T # {} /\ T \subseteq Granted BY <1>2, <2>2, <2>3
  <2>5. Max(T) \in T /\ \A m \in T : m <= Max(T)
    <3> HIDE DEF T
    <3> QED BY <1>1, <2>4, MaxIs
  <2>6. fc.limit \in T OBVIOUS
  <2> DEFINE top == Max(T)
  <2>7. top \in Granted /\ top \in 0 .. MaxLimit /\ fc.limit <= top BY <2>4, <2>5, <2>6
  <2>8. fc' = [fc EXCEPT !.limit = top] BY <2>1
  <2> HIDE DEF top, T
  <2>9. fc'.limit = top /\ fc'.used = fc.used BY <1>1, <2>8
  <2>10. fc' \in [enabled : BOOLEAN, limit : 0 .. MaxLimit, used : 0 .. MaxLimit + 1]
    BY <1>1, <2>7, <2>8
  <2>11. fc.used <= top BY <1>1, <2>3, <2>7
  <2> QED BY <1>2, <2>7, <2>9, <2>10, <2>11 DEF CreditInv
<1>4. CASE ~fc.enabled
  <2>1. fc' = fc BY <1>1, <1>4 DEF Raised
  <2> QED BY <1>1, <1>4, <2>1 DEF CreditInv
<1> QED BY <1>3, <1>4

(* The maxima up to the first violation are maxima.                        *)
LEMMA UpToFacts ==
  ASSUME NEW S, NEW q \in Seq(S)
  PROVE  UpToViolation(q) \in Seq(S)
<1> DEFINE T == {k \in 0 .. Len(q) : \A i \in 1 .. k : ~Violates(q, i)}
<1>1. Len(q) \in Nat BY LenProperties
<1>2. 0 \in T BY <1>1
<1>3. T \subseteq 0 .. Len(q) /\ T # {} BY <1>2
<1>4. UpToViolation(q) = SubSeq(q, 1, Max(T)) BY DEF UpToViolation
<1>5. Max(T) \in 0 .. Len(q)
  <2> HIDE DEF T
  <2> QED BY <1>1, <1>3, MaxIs
<1> HIDE DEF T
<1> QED BY <1>4, <1>5, CutFacts

(* A single SessionClosed.                                                 *)
LEMMA OneEvent ==
  ASSUME NEW c \in Codes
  PROVE  LET q == <<Event("closed", c)>>
         IN  q \in Seq(Events) /\ HasClosed(q) /\ Once(q) /\ Tells(q, c)
<1> DEFINE e == Event("closed", c)
           q == <<e>>
<1>1. e \in Events /\ e.k = "closed" /\ e.v = c BY DEF Events, Event, Item
<1> HIDE DEF e
<1>2. DOMAIN q = {1} /\ q[1] = e /\ q \in Seq(Events) BY <1>1
<1> HIDE DEF q
<1>3. Closed(q) = {1} BY <1>1, <1>2 DEF Closed, Of
<1>4. HasClosed(q) BY <1>3 DEF Closed, HasClosed
<1>5. Once(q) /\ Tells(q, c) BY <1>1, <1>2, <1>3 DEF Once, Tells
<1> QED BY <1>2, <1>4, <1>5 DEF q, e

(* No events tell of no end.                                               *)
LEMMA NoEvents == HasClosed(<<>>) = FALSE /\ Once(<<>>) /\ (\A c : Tells(<<>>, c))
BY DEF HasClosed, Once, Tells, Closed, Of

\* What the invariant says of the session while the task reads.
LEMMA ReadingFacts ==
  ASSUME DriverInv, pc.recv \in {"pending", "receive", "residual"}
  PROVE  /\ Opened /\ pc.app \in {"open", "dropped"} /\ Reading
         /\ Ordered(inbox) /\ CapsulesFollow
         /\ pc.recv = "pending" =>
               /\ events = <<>> /\ ~task.delivered
               /\ ReadingWith(h3, call.events, Coming)
         /\ pc.recv # "pending" =>
               task.delivered = HasClosed(events) /\ ReadingWith(h3, events, Coming)
<1>1. Opened /\ pc.app \in {"open", "dropped"} BY OpenedFacts
<1>2. Reading BY <1>1 DEF DriverInv, SessionInv
<1> QED BY <1>1, <1>2 DEF DriverInv, SessionInv, Reading

(* What came with the handshake is delivered.                              *)
LEMMA RecvPendingStep == ASSUME DriverInv, RecvPending PROVE DriverInv'
<1> DEFINE c == Item("capsule", "flow control")
           q == UpToViolation(call.caps)
<1>1. /\ Types /\ CreditInv /\ pc.recv = "pending" /\ fc' = Raised(q)
      /\ UNCHANGED <<scope, conn, inbox, ctl, h3, permit, call, wire, data, sent>>
  BY DEF DriverInv, RecvPending
<1>2. /\ Opened /\ pc.app \in {"open", "dropped"} /\ events = <<>> /\ ~task.delivered
      /\ ReadingWith(h3, call.events, Coming)
      /\ Ordered(inbox) /\ CapsulesFollow
  BY <1>1, ReadingFacts
<1>3. call.events \in Seq(Events) /\ call.caps \in Seq(Granted) BY <1>1 DEF Types, Calls
<1>4. /\ fc' \in [enabled : BOOLEAN, limit : 0 .. MaxLimit, used : 0 .. MaxLimit + 1]
      /\ CreditInv'
  BY <1>1, <1>3, UpToFacts, RaisedFacts
<1> HIDE DEF q
<1>5. Ordered(inbox)' /\ CapsulesFollow' BY <1>1, <1>2, FollowSame DEF Ordered
<1>6. task \in [delivered : BOOLEAN, saw : {"none", "violation", "malformed"}] /\ pc \in Places
  BY <1>1 DEF Types
<1>7. CASE Violated(call.caps)
  <2>1. /\ cmds' = Append(cmds, c)
        /\ events' = Append(events, Event("closed", "flow control"))
        /\ task' = [task EXCEPT !.saw = "violation"] /\ Goto("recv", "finish")
    BY <1>7 DEF RecvPending
  <2>2. pc' \in Places /\ pc'.recv = "finish" /\ pc'.app = pc.app /\ pc'.route = pc.route
    BY <1>6, <2>1, GotoRecv DEF RecvPlaces
  <2>3. /\ task' \in [delivered : BOOLEAN, saw : {"none", "violation", "malformed"}]
        /\ task'.saw = "violation"
    BY <1>6, <2>1
  <2>4. events' = <<Event("closed", "flow control")>>
    <3> DEFINE e == Event("closed", "flow control")
    <3>1. events' = Append(<<>>, e) BY <1>2, <2>1
    <3> HIDE DEF e
    <3>2. Append(<<>>, e) = <<e>> OBVIOUS
    <3> QED BY <3>1, <3>2 DEF e
  <2>5. events' \in Seq(Events) /\ HasClosed(events') /\ Once(events')
    <3>1. "flow control" \in Codes BY DEF Codes
    <3> QED BY <2>4, <3>1, OneEvent
  <2>6. WireInv' /\ cmds' \in Seq(Commands)
    BY <1>1, <1>2, <2>1, <2>2, <2>3, RecvAnswers
  <2>7. Types' BY <1>1, <1>4, <2>2, <2>3, <2>5, <2>6, TypesKept DEF Types
  <2>8. DataInv' BY <1>1, <2>2, DataSame DEF DriverInv
  <2>9. EndTold' BY <2>2, <2>3, <2>5 DEF EndTold
  <2>10. SessionInv' BY <1>2, <1>5, <2>2, <2>9 DEF SessionInv
  <2> QED BY <1>4, <2>6, <2>7, <2>8, <2>10 DEF DriverInv
<1>8. CASE ~Violated(call.caps)
  <2> DEFINE l == IF Dropped /\ call.events # <<>> THEN "finish" ELSE "receive"
  <2>1. /\ cmds' = cmds /\ events' = events \o call.events
        /\ task' = [task EXCEPT !.delivered = HasClosed(call.events)] /\ Goto("recv", l)
    BY <1>8 DEF RecvPending
  <2>2. l \in {"finish", "receive"} /\ (l = "finish" => Dropped) OBVIOUS
  <2> HIDE DEF l
  <2>3. pc' \in Places /\ pc'.recv = l /\ pc'.app = pc.app /\ pc'.route = pc.route
    BY <1>6, <2>1, <2>2, GotoRecv DEF RecvPlaces
  <2>4. /\ task' \in [delivered : BOOLEAN, saw : {"none", "violation", "malformed"}]
        /\ task'.saw = task.saw /\ task'.delivered = HasClosed(call.events)
    <3>1. HasClosed(call.events) \in BOOLEAN BY DEF HasClosed
    <3> QED BY <1>6, <2>1, <3>1
  <2>5. events' = call.events BY <1>2, <1>3, <2>1, ConcatEmptySeq
  <2>6. WireInv' BY <1>1, <1>2, <2>1, <2>2, <2>3, <2>4, RecvQuiet
  <2>7. Types' BY <1>1, <1>3, <1>4, <2>1, <2>3, <2>4, <2>5, TypesKept DEF Types
  <2>8. DataInv' BY <1>1, <2>3, DataSame DEF DriverInv
  <2>9. ReadingWith(h3', events', Awaits(inbox'))
    <3>1. Awaits(inbox') = Coming BY <1>1 DEF Coming
    <3> QED BY <1>1, <1>2, <2>5, <3>1
  <2>10. l = "receive" => Reading' BY <1>1, <2>3, <2>4, <2>5, <2>9, ReadingIs
  <2>11. l = "finish" => EndTold' BY <2>2, <2>3, <2>9 DEF EndTold, ReadingWith, Dropped
  <2>12. SessionInv' BY <1>2, <1>5, <2>2, <2>3, <2>10, <2>11 DEF SessionInv
  <2> QED BY <1>4, <2>6, <2>7, <2>8, <2>12 DEF DriverInv
<1> QED BY <1>7, <1>8

(* The events of a call are handed on.                                     *)
LEMMA ReceivedStep ==
  ASSUME DriverInv, pc.recv = "receive", NEW r, NEW terminated \in BOOLEAN,
         Received(r, terminated),
         scope' = scope, sent' = sent, conn' = conn, ctl' = ctl, call' = call, wire' = wire,
         data' = data, inbox' \in Seq(Range(sent)), Ordered(inbox'), ~Awaits(inbox'),
         Processed(h3, r, HasClosed(events), FALSE, FALSE),
         terminated /\ ~r.failed => r.h.ended # "none"
  PROVE  DriverInv'
<1> DEFINE told == HasClosed(events)
<1>1. /\ Types /\ CreditInv /\ h3' = r.h BY DEF DriverInv, Received
<1>2. /\ Opened /\ pc.app \in {"open", "dropped"} /\ task.delivered = told
      /\ ReadingWith(h3, events, Coming) /\ CapsulesFollow
  BY ReadingFacts
<1>3. PICK g \in Connections :
        /\ FeedSound([h |-> g, failed |-> r.failed], told, FALSE) /\ Preserved(h3, g, FALSE)
        /\ r.failed \in BOOLEAN
        /\ r.failed => r.h = g /\ r.events = <<>>
        /\ ~r.failed => r.h = Drained(g) /\ r.events = g.events
  BY DEF Processed
<1>4. EndSound(g, told)
  <2> DEFINE x == [h |-> g, failed |-> r.failed]
  <2>1. x.h = g OBVIOUS
  <2> HIDE DEF x
  <2>2. FeedSound(x, told, FALSE) BY <1>3 DEF x
  <2> QED BY <2>1, <2>2 DEF FeedSound
<1>5. /\ g.parked = <<>> /\ Began(g) /\ (h3.ended # "none" => g.ended = h3.ended)
      /\ Once(events)
  BY <1>2, <1>3 DEF Preserved, ReadingWith
<1>6. Tells(events, g.ended)
  <2>1. CASE told
    <3>1. h3.ended # "none" /\ Tells(events, h3.ended) BY <1>2, <2>1 DEF ReadingWith, EndSound
    <3> QED BY <1>5, <3>1
  <2>2. CASE ~told BY <2>2 DEF Tells, HasClosed, Closed
  <2> QED BY <2>1, <2>2
<1>7. /\ h3' \in Connections /\ h3'.ended = g.ended /\ h3'.parked = <<>> /\ Began(h3')
      /\ h3'.ses = g.ses
  BY <1>1, <1>3, <1>5, DrainedFacts
<1>8. Ordered(inbox)' BY DEF Ordered
<1>9. CapsulesFollow' BY <1>2, FollowSame
<1>10. /\ task \in [delivered : BOOLEAN, saw : {"none", "violation", "malformed"}]
       /\ pc \in Places /\ cmds \in Seq(Commands) /\ events \in Seq(Events)
       /\ fc \in [enabled : BOOLEAN, limit : 0 .. MaxLimit, used : 0 .. MaxLimit + 1]
  BY <1>1 DEF Types
<1>11. CASE r.failed
  <2>1. /\ Goto("recv", "residual") /\ fc' = fc /\ events' = events
        /\ \/ cmds' = cmds /\ task' = task
           \/ /\ cmds' = Append(cmds, Item("reset", "none"))
              /\ task' = [task EXCEPT !.saw = "malformed"]
    BY <1>11 DEF Received, Refuse
  <2>2. pc' \in Places /\ pc'.recv = "residual" /\ pc'.app = pc.app /\ pc'.route = pc.route
    BY <1>10, <2>1, GotoRecv DEF RecvPlaces
  <2>3. /\ task' \in [delivered : BOOLEAN, saw : {"none", "violation", "malformed"}]
        /\ task'.delivered = task.delivered
    BY <1>10, <2>1
  <2>4. WireInv' /\ cmds' \in Seq(Commands)
    <3>1. CASE cmds' = cmds /\ task' = task BY <1>2, <1>10, <2>2, <3>1, RecvQuiet
    <3>2. CASE /\ cmds' = Append(cmds, Item("reset", "none"))
               /\ task' = [task EXCEPT !.saw = "malformed"]
      <4>1. task'.saw = "malformed" BY <1>10, <3>2
      <4> QED BY <1>1, <1>2, <2>2, <3>2, <4>1, RecvAnswers
    <3> QED BY <2>1, <3>1, <3>2
  <2>5. Types' BY <1>1, <1>7, <2>1, <2>2, <2>3, <2>4, TypesKept DEF Types
  <2>6. DataInv' BY <2>2, DataSame DEF DriverInv
  <2>7. CreditInv' BY <1>1, <2>1, CreditSame
  <2>8. ReadingWith(h3', events', Awaits(inbox'))
    <3>1. h3' = g BY <1>1, <1>3, <1>11
    <3> QED BY <1>4, <1>5, <1>6, <2>1, <3>1 DEF ReadingWith
  <2>9. Reading' BY <1>2, <2>1, <2>2, <2>3, <2>8, ReadingIs
  <2>10. SessionInv' BY <1>2, <1>8, <1>9, <2>2, <2>9 DEF SessionInv
  <2> QED BY <2>4, <2>5, <2>6, <2>7, <2>10 DEF DriverInv
<1>12. CASE ~r.failed
  <2> DEFINE q == g.events
             fw == Forwardable(q)
             maxima == MaximaOf(q)
  <2>1. r.events = q /\ r.h = Drained(g) BY <1>3, <1>12
  <2>2. /\ q \in Seq(Events) /\ Once(q) /\ Tells(q, g.ended)
        /\ g.ended # "none" <=> told \/ HasClosed(q)
        /\ g.ended # "none" => g.ses = "closed"
        /\ ~(told /\ HasClosed(q))
    BY <1>4, ConnectionFacts DEF ConnectionFields, EndSound
  <2>3. /\ fw \in Seq(Events) /\ (HasClosed(fw) <=> HasClosed(q)) /\ Once(fw)
        /\ Tells(fw, g.ended) /\ maxima \in Seq(Granted)
    BY <2>2, ForwardFacts, MaximaFacts
  <2>4. h3'.events = <<>> BY <1>1, <2>1, DrainedFacts
  <2>5. CASE Dropped /\ fw # <<>>
    <3>1. Goto("recv", "finish") /\ cmds' = cmds /\ task' = task /\ fc' = fc /\ events' = events
      BY <1>12, <2>1, <2>5 DEF Received
    <3>2. pc' \in Places /\ pc'.recv = "finish" /\ pc'.app = pc.app /\ pc'.route = pc.route
      BY <1>10, <3>1, GotoRecv DEF RecvPlaces
    <3>3. WireInv' BY <1>2, <3>1, <3>2, RecvQuiet
    <3>4. Types' BY <1>1, <1>7, <3>1, <3>2, TypesKept DEF Types
    <3>5. DataInv' BY <3>2, DataSame DEF DriverInv
    <3>6. CreditInv' BY <1>1, <3>1, CreditSame
    <3>7. EndTold' BY <1>5, <1>6, <1>7, <2>5, <3>1, <3>2 DEF EndTold, Dropped
    <3>8. SessionInv' BY <1>2, <1>8, <1>9, <3>2, <3>7 DEF SessionInv
    <3> QED BY <3>3, <3>4, <3>5, <3>6, <3>8 DEF DriverInv
  <2>6. CASE ~(Dropped /\ fw # <<>>)
    <3> DEFINE bad == Violated(maxima)
               over == task.delivered \/ HasClosed(fw)
               last == <<Event("closed", "flow control")>>
               tail == IF bad /\ ~over THEN last ELSE <<>>
               l == IF bad \/ terminated THEN "finish" ELSE "receive"
               evs == events \o fw
    <3>1. /\ fc' = Raised(maxima)
          /\ task' = [task EXCEPT !.delivered = over,
                                  !.saw = IF bad THEN "violation" ELSE @]
          /\ events' = evs \o tail
          /\ cmds' = IF bad THEN Append(cmds, Item("capsule", "flow control")) ELSE cmds
          /\ Goto("recv", l)
      BY <1>12, <2>1, <2>6, Zenon DEF Received
    <3>2. /\ fc' \in [enabled : BOOLEAN, limit : 0 .. MaxLimit, used : 0 .. MaxLimit + 1]
          /\ CreditInv'
      BY <1>1, <2>3, <3>1, RaisedFacts
    <3>3. /\ evs \in Seq(Events) /\ (HasClosed(evs) <=> told \/ HasClosed(fw))
          /\ Once(evs) /\ Tells(evs, g.ended)
      <4> HIDE DEF fw
      <4> QED BY <1>5, <1>6, <1>10, <2>2, <2>3, ConcatEvents
    <3> HIDE DEF fw, maxima
    <3>4. /\ last \in Seq(Events) /\ HasClosed(last) /\ Once(last)
      <4>1. "flow control" \in Codes BY DEF Codes
      <4> QED BY <4>1, OneEvent
    <3>5. over <=> HasClosed(evs) BY <1>2, <3>3
    <3>6. bad \in BOOLEAN /\ over \in BOOLEAN
      <4>1. HasClosed(fw) \in BOOLEAN /\ told \in BOOLEAN BY DEF HasClosed
      <4> QED BY <1>2, <4>1 DEF Violated
    <3> HIDE DEF evs, last
    <3>7. /\ events' \in Seq(Events) /\ Once(events')
          /\ bad => HasClosed(events')
          /\ ~bad => events' = evs
      <4>1. CASE bad /\ ~over
        <5>1. events' = evs \o last BY <3>1, <4>1
        <5> QED BY <3>3, <3>4, <3>5, <4>1, <5>1, ConcatEvents
      <4>2. CASE ~(bad /\ ~over)
        <5>1. events' = evs \o <<>> BY <3>1, <4>2
        <5>2. events' = evs BY <3>3, <5>1, ConcatEmptySeq
        <5> QED BY <3>3, <3>5, <4>2, <5>2
      <4> QED BY <4>1, <4>2
    <3>8. l \in {"finish", "receive"} /\ (l = "receive" <=> ~bad /\ ~terminated) OBVIOUS
    <3> HIDE DEF l, tail
    <3>9. pc' \in Places /\ pc'.recv = l /\ pc'.app = pc.app /\ pc'.route = pc.route
      BY <1>10, <3>1, <3>8, GotoRecv DEF RecvPlaces
    <3> HIDE DEF bad, over
    <3>10. /\ task' \in [delivered : BOOLEAN, saw : {"none", "violation", "malformed"}]
           /\ task'.delivered = over
           /\ task'.saw = IF bad THEN "violation" ELSE task.saw
      <4> DEFINE saw == IF bad THEN "violation" ELSE task.saw
      <4>1. saw \in {"none", "violation", "malformed"} BY <1>10
      <4>2. task' = [task EXCEPT !.delivered = over, !.saw = saw] BY <3>1
      <4> HIDE DEF saw
      <4>3. /\ task' \in [delivered : BOOLEAN, saw : {"none", "violation", "malformed"}]
            /\ task'.delivered = over /\ task'.saw = saw
        BY <1>10, <3>6, <4>1, <4>2
      <4> QED BY <4>3 DEF saw
    <3>11. WireInv' /\ cmds' \in Seq(Commands)
      <4>1. CASE bad
        <5>1. l = "finish" /\ task'.saw = "violation"
              /\ cmds' = Append(cmds, Item("capsule", "flow control"))
          BY <3>1, <3>8, <3>10, <4>1
        <5> QED BY <1>1, <1>2, <3>9, <5>1, RecvAnswers
      <4>2. CASE ~bad
        <5>1. task'.saw = task.saw /\ cmds' = cmds BY <3>1, <3>10, <4>2
        <5> QED BY <1>2, <1>10, <3>8, <3>9, <5>1, RecvQuiet
      <4> QED BY <4>1, <4>2
    <3>12. Types' BY <1>1, <1>7, <3>2, <3>7, <3>9, <3>10, <3>11, TypesKept DEF Types
    <3>13. DataInv' BY <3>9, DataSame DEF DriverInv
    <3>14. HasClosed(evs) <=> g.ended # "none" BY <2>2, <2>3, <3>3
    <3>15. l = "receive" => Reading'
      <4> SUFFICES ASSUME l = "receive" PROVE Reading' OBVIOUS
      <4>1. ~bad /\ events' = evs BY <3>7, <3>8
      <4>2. EndSound(h3', HasClosed(events'))
        <5>1. ~HasClosed(h3'.events) /\ Once(h3'.events) /\ Tells(h3'.events, h3'.ended)
          BY <2>4, NoEvents
        <5> QED BY <1>7, <2>2, <3>14, <4>1, <5>1 DEF EndSound
      <4>3. ReadingWith(h3', events', Awaits(inbox'))
        BY <1>7, <3>3, <3>7, <4>1, <4>2 DEF ReadingWith
      <4>4. task'.delivered = HasClosed(events')
        <5>1. HasClosed(events') \in BOOLEAN BY DEF HasClosed
        <5> QED BY <3>5, <3>6, <3>10, <4>1, <5>1
      <4> QED BY <3>9, <4>3, <4>4, ReadingIs
    <3>16. l = "finish" => EndTold'
      <4> SUFFICES ASSUME l = "finish" PROVE EndTold' OBVIOUS
      <4>1. CASE bad BY <3>7, <3>10, <4>1 DEF EndTold
      <4>2. CASE ~bad
        <5>1. terminated BY <3>8, <4>2
        <5>2. r.h.ended # "none" BY <1>12, <5>1
        <5>3. g.ended # "none" BY <1>1, <1>7, <5>2
        <5>4. HasClosed(events') BY <3>7, <3>14, <4>2, <5>3
        <5>5. Tells(events', h3'.ended) BY <1>7, <3>3, <3>7, <4>2
        <5> QED BY <3>7, <5>4, <5>5 DEF EndTold
      <4> QED BY <4>1, <4>2
    <3>17. SessionInv' BY <1>2, <1>8, <1>9, <3>8, <3>9, <3>15, <3>16 DEF SessionInv
    <3> QED BY <3>2, <3>11, <3>12, <3>13, <3>17 DEF DriverInv
  <2> QED BY <2>5, <2>6
<1> QED BY <1>3, <1>11, <1>12

(* The connection while the receiving task reads.                          *)
LEMMA ReadingSound ==
  ASSUME DriverInv, pc.recv \in {"receive", "residual"}
  PROVE  /\ HandshakeSound(h3, HasClosed(events), FALSE)
         /\ HasClosed(events) \in BOOLEAN /\ Began(h3) /\ h3.parked = <<>>
         /\ Coming = FALSE
<1>1. ReadingWith(h3, events, Coming) BY ReadingFacts
<1>2. h3 \in Connections BY DEF DriverInv, Types
<1>3. HasClosed(events) \in BOOLEAN BY DEF HasClosed
<1>4. Coming \in BOOLEAN BY DEF Coming, Awaits, HasResponse, Responded, Over
<1> QED BY <1>1, <1>2, <1>3, <1>4 DEF ReadingWith, HandshakeSound, ParkedSound

(* A chunk is received and processed by the receiving task.                *)
LEMMA RecvReceiveStep == ASSUME DriverInv, RecvReceive PROVE DriverInv'
<1>1. /\ Types /\ pc.recv = "receive" /\ Ordered(inbox) /\ CapsulesFollow
      /\ UNCHANGED <<scope, conn, ctl, permit, call, wire, data, sent>>
  BY DEF DriverInv, SessionInv, RecvReceive
<1>2. PICK k \in Chunks :
        LET items == SubSeq(inbox, 1, k)
        IN  /\ inbox' = Behind(k)
            /\ IF items[1].k = "reset" THEN Received(ConnectStreamReset(h3), TRUE)
               ELSE Received(ProcessStreamData(h3, items), items[1].k = "fin")
  BY Zenon DEF RecvReceive
<1> DEFINE items == SubSeq(inbox, 1, k)
           told == HasClosed(events)
<1>3. inbox' \in Seq(Range(sent)) /\ Ordered(inbox') /\ (Awaits(inbox') => Coming)
  BY <1>1, <1>2, ChunkTypes, ChunkFacts
<1>4. /\ HandshakeSound(h3, told, FALSE) /\ told \in BOOLEAN
      /\ Began(h3) /\ h3.parked = <<>> /\ Coming = FALSE
  BY <1>1, ReadingSound
<1>5. Awaits(inbox') = FALSE
  <2>1. Awaits(inbox') \in BOOLEAN BY DEF Awaits, HasResponse, Responded, Over
  <2> QED BY <1>3, <1>4, <2>1
<1>6. CASE items[1].k = "reset"
  <2> DEFINE r == ConnectStreamReset(h3)
  <2>1. Received(r, TRUE) BY <1>2, <1>6
  <2>2. Processed(h3, r, told, FALSE, FALSE) /\ (~r.failed => r.h.ended # "none")
    BY <1>1, <1>4, ResetStep
  <2> HIDE DEF r
  <2> QED BY <1>1, <1>3, <1>5, <2>1, <2>2, ReceivedStep
<1>7. CASE items[1].k # "reset"
  <2> DEFINE r == ProcessStreamData(h3, items)
             fin == items[1].k = "fin"
  <2>1. Received(r, fin) BY <1>2, <1>7
  <2>2. PICK m \in [0 .. Len(items) -> BOOLEAN] :
          /\ m[0] = Coming /\ m[Len(items)] = Awaits(inbox')
          /\ \A i \in 1 .. Len(items) : Fits(items[i], m[i - 1], m[i])
    BY <1>1, <1>2, <1>7, ChunkFacts
  <2>3. items \in Seq(Range(sent)) /\ (fin => Len(items) = 1)
    BY <1>1, ChunkTypes, ChunkFacts
  <2>4. m[0] = FALSE /\ m[Len(items)] = FALSE BY <1>4, <1>5, <2>2
  <2>5. Processed(h3, r, told, m[0], m[Len(items)])
    <3> HIDE DEF items
    <3>1. HandshakeSound(h3, told, m[0]) /\ (m[Len(items)] => m[0]) BY <1>4, <2>4
    <3> QED BY <1>1, <1>4, <2>2, <2>3, <3>1, ProcessStep
  <2>6. Processed(h3, r, told, FALSE, FALSE) BY <2>4, <2>5
  <2>7. fin /\ ~r.failed => r.h.ended # "none"
    <3> HIDE DEF items
    <3>1. fin <=> items[1].k = "fin" OBVIOUS
    <3> HIDE DEF fin
    <3> QED BY <1>1, <1>4, <2>3, <3>1, FinStep
  <2>8. fin \in BOOLEAN OBVIOUS
  <2> HIDE DEF r, items, fin
  <2> QED BY <1>1, <1>3, <1>5, <2>1, <2>6, <2>7, <2>8, ReceivedStep
<1> QED BY <1>6, <1>7

(* receive() of the receiving task fails with the connection.              *)
LEMMA RecvLostStep == ASSUME DriverInv, RecvLost PROVE DriverInv'
<1> DEFINE r == ConnectStreamReset(h3)
           told == HasClosed(events)
<1>1. /\ Types /\ pc.recv = "receive" /\ Ordered(inbox)
      /\ UNCHANGED <<scope, conn, inbox, ctl, permit, call, wire, data, sent>>
      /\ Received(r, TRUE)
  BY DEF DriverInv, SessionInv, RecvLost
<1>2. /\ HandshakeSound(h3, told, FALSE) /\ told \in BOOLEAN
      /\ Began(h3) /\ h3.parked = <<>> /\ Coming = FALSE
  BY <1>1, ReadingSound
<1>3. Processed(h3, r, told, FALSE, FALSE) /\ (~r.failed => r.h.ended # "none")
  BY <1>1, <1>2, ResetStep
<1>4. inbox' \in Seq(Range(sent)) /\ Ordered(inbox') /\ ~Awaits(inbox')
  BY <1>1, <1>2 DEF Types, Coming
<1> HIDE DEF r
<1> QED BY <1>1, <1>3, <1>4, ReceivedStep

\* The events up to the end, which is among them.
LEMMA UpToEnd ==
  ASSUME NEW q \in Seq(Events), HasClosed(q), Once(q), NEW c, Tells(q, c)
  PROVE  LET p == SubSeq(q, 1, Min(Of(q, {"closed"})))
         IN  p \in Seq(Events) /\ HasClosed(p) /\ Once(p) /\ Tells(p, c)
<1> DEFINE T == Of(q, {"closed"})
           n == Min(T)
           p == SubSeq(q, 1, n)
<1>1. DOMAIN q = 1 .. Len(q) /\ Len(q) \in Nat BY LenProperties
<1>2. T \subseteq 1 .. Len(q) /\ T # {} BY <1>1 DEF HasClosed, Of
<1>3. T \subseteq Nat BY <1>1, <1>2
<1>4. n \in T
  <2> HIDE DEF T
  <2> QED BY <1>2, <1>3, MinIs
<1>5. n \in 1 .. Len(q) /\ n \in 0 .. Len(q) BY <1>1, <1>2, <1>4
<1>6. q[n].k = "closed" BY <1>4 DEF Of
<1> HIDE DEF n
<1>7. p \in Seq(Events) /\ Len(p) = n /\ \A i \in 1 .. n : p[i] = q[i] BY <1>5, CutFacts
<1>8. DOMAIN p = 1 .. n BY <1>7
<1> HIDE DEF p, T
<1>9. \A i \in DOMAIN p : i \in DOMAIN q /\ p[i] = q[i] BY <1>1, <1>5, <1>7, <1>8
<1>10. n \in DOMAIN p BY <1>5, <1>8
<1>11. \A i \in Closed(p) : i \in Closed(q) /\ p[i] = q[i] BY <1>9 DEF Closed, Of
<1>12. HasClosed(p) BY <1>6, <1>9, <1>10 DEF HasClosed, Of
<1>13. Once(p) /\ Tells(p, c) BY <1>11 DEF Once, Tells
<1> QED BY <1>7, <1>12, <1>13 DEF p, n, T

(* What is queued after an error is delivered, or an end synthesized.      *)
LEMMA RecvResidualStep == ASSUME DriverInv, RecvResidual PROVE DriverInv'
<1> DEFINE r == Drain(h3)
           told == HasClosed(events)
           fw == Forwardable(r.events)
<1>1. /\ Types /\ pc.recv = "residual" /\ h3' = r.h
      /\ UNCHANGED <<scope, conn, inbox, ctl, permit, call, fc, cmds, wire, data, sent>>
      /\ events' = IF Dropped THEN events ELSE events \o Ending(fw)
      /\ task' = [task EXCEPT !.delivered = TRUE] /\ Goto("recv", "finish")
  BY Zenon DEF DriverInv, RecvResidual
<1>2. /\ HandshakeSound(h3, told, FALSE) /\ told \in BOOLEAN
      /\ Began(h3) /\ h3.parked = <<>>
  BY <1>1, ReadingSound
<1>3. DrainSound(h3, r, told, FALSE) BY <1>1, <1>2, DrainStep
<1>4. /\ Opened /\ pc.app \in {"open", "dropped"} /\ task.delivered = told
      /\ ReadingWith(h3, events, Coming) /\ Ordered(inbox) /\ CapsulesFollow
  BY <1>1, ReadingFacts
<1> HIDE DEF r
<1>5. /\ h3 \in Connections /\ EndSound(h3, told) /\ Once(events) /\ Tells(events, h3.ended)
      /\ h3.events \in Seq(Events)
  <2>1. h3 \in Connections BY <1>1 DEF Types
  <2> QED BY <1>4, <2>1, ConnectionFacts DEF ReadingWith, ConnectionFields
<1>6. /\ r.failed \in BOOLEAN
      /\ r.failed => r.h = h3 /\ r.events = <<>> /\ h3.error
      /\ ~r.failed => r.h = Drained(h3) /\ r.events = h3.events
  BY <1>2, <1>3 DEF DrainSound
<1>7. h3' \in Connections /\ h3'.ended = h3.ended /\ h3'.error = h3.error
  BY <1>1, <1>5, <1>6, DrainedFacts
<1>8. /\ task \in [delivered : BOOLEAN, saw : {"none", "violation", "malformed"}]
      /\ pc \in Places /\ events \in Seq(Events)
  BY <1>1 DEF Types
<1>9. pc' \in Places /\ pc'.recv = "finish" /\ pc'.app = pc.app /\ pc'.route = pc.route
  BY <1>1, <1>8, GotoRecv DEF RecvPlaces
<1>10. /\ task' \in [delivered : BOOLEAN, saw : {"none", "violation", "malformed"}]
       /\ task'.saw = task.saw
  BY <1>1, <1>8
<1>11. /\ events' \in Seq(Events) /\ Once(events')
       /\ HasClosed(events') \/ Dropped
       /\ h3.ended = "none" \/ h3.error \/ Tells(events', h3.ended)
  <2>1. CASE Dropped BY <1>1, <1>5, <1>8, <2>1
  <2>2. CASE ~Dropped
    <3> DEFINE q == r.events
    <3>1. q \in Seq(Events) /\ Once(q) /\ Tells(q, h3.ended) /\ ~(told /\ HasClosed(q))
      <4>1. CASE r.failed
        <5>1. q = <<>> BY <1>6, <4>1
        <5> QED BY <5>1, NoEvents
      <4>2. CASE ~r.failed
        <5>1. q = h3.events BY <1>6, <4>2
        <5> QED BY <1>5, <5>1 DEF EndSound
      <4> QED BY <1>6, <4>1, <4>2
    <3>2. /\ fw \in Seq(Events) /\ (HasClosed(fw) <=> HasClosed(q)) /\ Once(fw)
          /\ Tells(fw, h3.ended)
      BY <3>1, ForwardFacts
    <3> HIDE DEF fw, q
    <3>3. events' = events \o Ending(fw) BY <1>1, <2>2
    <3>4. CASE HasClosed(fw)
      <4> DEFINE p == SubSeq(fw, 1, Min(Of(fw, {"closed"})))
      <4>1. Ending(fw) = p BY <3>4 DEF Ending
      <4>2. p \in Seq(Events) /\ HasClosed(p) /\ Once(p) /\ Tells(p, h3.ended)
        BY <3>2, <3>4, UpToEnd
      <4> HIDE DEF p
      <4>3. ~told BY <3>1, <3>2, <3>4
      <4> QED BY <1>5, <1>8, <3>3, <4>1, <4>2, <4>3, ConcatEvents
    <3>5. CASE ~HasClosed(fw) /\ told
      <4>1. Ending(fw) = fw \o <<>> BY <1>4, <3>5 DEF Ending
      <4>2. Ending(fw) = fw BY <3>2, <4>1, ConcatEmptySeq
      <4> QED BY <1>5, <1>8, <3>2, <3>3, <3>5, <4>2, ConcatEvents
    <3>6. CASE ~HasClosed(fw) /\ ~told
      <4> DEFINE last == <<Event("closed", "gone")>>
      <4>1. Ending(fw) = fw \o last BY <1>4, <3>6 DEF Ending
      <4>2. last \in Seq(Events) /\ HasClosed(last) /\ Once(last)
        <5>1. "gone" \in Codes BY DEF Codes
        <5> QED BY <5>1, OneEvent
      <4> HIDE DEF last
      <4>3. /\ Ending(fw) \in Seq(Events) /\ HasClosed(Ending(fw)) /\ Once(Ending(fw))
        BY <3>2, <3>6, <4>1, <4>2, ConcatEvents
      <4>4. events' \in Seq(Events) /\ Once(events') /\ HasClosed(events')
        BY <1>5, <1>8, <3>3, <3>6, <4>3, ConcatEvents
      <4>5. h3.ended = "none" \/ h3.error
        <5>1. CASE r.failed BY <1>6, <5>1
        <5>2. CASE ~r.failed
          <6>1. ~HasClosed(h3.events) BY <1>6, <3>2, <3>6, <5>2 DEF q
          <6> QED BY <1>5, <3>6, <6>1 DEF EndSound
        <5> QED BY <1>6, <5>1, <5>2
      <4> QED BY <4>4, <4>5
    <3> QED BY <3>4, <3>5, <3>6
  <2> QED BY <2>1, <2>2
<1>12. WireInv' BY <1>1, <1>4, <1>9, <1>10, RecvQuiet
<1>13. Types' BY <1>1, <1>7, <1>9, <1>10, <1>11, TypesKept DEF Types
<1>14. DataInv' BY <1>1, <1>9, DataSame DEF DriverInv
<1>15. CreditInv' BY <1>1, CreditSame DEF DriverInv
<1>16. EndTold' BY <1>7, <1>9, <1>11 DEF EndTold, Dropped
<1>17. Ordered(inbox)' /\ CapsulesFollow' BY <1>1, <1>4, FollowSame DEF Ordered
<1>18. SessionInv' BY <1>4, <1>9, <1>16, <1>17 DEF SessionInv
<1> QED BY <1>12, <1>13, <1>14, <1>15, <1>18 DEF DriverInv

(* The last command of the receiving task.                                 *)
LEMMA RecvFinishStep == ASSUME DriverInv, RecvFinish PROVE DriverInv'
<1>1. /\ Types /\ pc.recv = "finish" /\ cmds' = Append(cmds, Item("finish", "none"))
      /\ Goto("recv", "done")
      /\ UNCHANGED <<scope, conn, inbox, ctl, h3, permit, call, task, fc, events, wire, data, sent>>
  BY DEF DriverInv, RecvFinish
<1>2. Opened /\ pc.app \in {"open", "dropped"} BY <1>1, OpenedFacts
<1>3. EndTold /\ Ordered(inbox) /\ CapsulesFollow BY <1>1, <1>2 DEF DriverInv, SessionInv
<1>4. pc' \in Places /\ pc'.recv = "done" /\ pc'.app = pc.app /\ pc'.route = pc.route
  BY <1>1, GotoRecv DEF RecvPlaces, Types
<1>5. WireInv' /\ cmds' \in Seq(Commands) BY <1>1, <1>2, <1>4, FinishAsked
<1>6. Types' BY <1>1, <1>4, <1>5, TypesKept DEF Types
<1>7. DataInv' BY <1>1, <1>4, DataSame DEF DriverInv
<1>8. CreditInv' BY <1>1, CreditSame DEF DriverInv
<1>9. EndTold' BY <1>1, <1>3, <1>4 DEF EndTold, Dropped
<1>10. Ordered(inbox)' /\ CapsulesFollow' BY <1>1, <1>3, FollowSame DEF Ordered
<1>11. SessionInv' BY <1>2, <1>4, <1>9, <1>10 DEF SessionInv
<1> QED BY <1>5, <1>6, <1>7, <1>8, <1>11 DEF DriverInv

(* The receiving task is aborted.                                          *)
LEMMA RecvAbortedStep == ASSUME DriverInv, RecvAborted PROVE DriverInv'
<1>1. /\ Types /\ pc.recv \in {"pending", "receive", "residual"} /\ Goto("recv", "aborted")
      /\ UNCHANGED <<scope, conn, inbox, ctl, h3, permit, call, task, fc, events, cmds, wire,
                     data, sent>>
  BY DEF DriverInv, RecvAborted
<1>2. /\ Opened /\ pc.app \in {"open", "dropped"} /\ Ordered(inbox) /\ CapsulesFollow
      /\ pc.recv = "pending" => events = <<>>
      /\ pc.recv # "pending" => ReadingWith(h3, events, Coming)
  BY <1>1, ReadingFacts
<1>3. Once(events) /\ Tells(events, h3.ended) BY <1>2, NoEvents DEF ReadingWith
<1>4. pc' \in Places /\ pc'.recv = "aborted" /\ pc'.app = pc.app /\ pc'.route = pc.route
  BY <1>1, GotoRecv DEF RecvPlaces, Types
<1>5. WireInv' BY <1>1, <1>2, <1>4, RecvQuiet
<1>6. Types' BY <1>1, <1>4, TypesKept DEF Types
<1>7. DataInv' BY <1>1, <1>4, DataSame DEF DriverInv
<1>8. CreditInv' BY <1>1, CreditSame DEF DriverInv
<1>9. EndTold' BY <1>1, <1>3, <1>4 DEF EndTold
<1>10. Ordered(inbox)' /\ CapsulesFollow' BY <1>1, <1>2, FollowSame DEF Ordered
<1>11. SessionInv' BY <1>2, <1>4, <1>9, <1>10 DEF SessionInv
<1> QED BY <1>5, <1>6, <1>7, <1>8, <1>11 DEF DriverInv

-----------------------------------------------------------------------------
(***************************************************************************)
(* What the other tasks and the peer do.                                   *)
(***************************************************************************)
\* A step that leaves alone all that the parts of the invariant speak of.
LEMMA OtherStep ==
  ASSUME DriverInv, scope' = scope, sent' = sent, inbox' = inbox, h3' = h3, call' = call,
         task' = task, fc' = fc, events' = events, cmds' = cmds, wire' = wire, data' = data,
         conn' \in {"up", "lost", "closed"}, conn' = "up" => conn = "up",
         ctl' \in Seq({"settings", "insert", "goaway", "critical"}),
         pc' \in Places, pc'.app = pc.app, pc'.recv = pc.recv, pc'.route = pc.route
  PROVE  DriverInv'
<1>1. Types' BY TypesKept DEF DriverInv, Types
<1>2. DataInv' BY DataSame DEF DriverInv
<1>3. CreditInv' BY CreditSame DEF DriverInv
<1>4. SessionInv' BY SessionSame DEF DriverInv
<1>5. WireInv' BY WireSame DEF DriverInv
<1> QED BY <1>1, <1>2, <1>3, <1>4, <1>5 DEF DriverInv

(* The task of a control stream notifies the waiter.                       *)
LEMMA UniNotifyStep == ASSUME DriverInv, UniNotify PROVE DriverInv'
<1>1. Types BY DEF DriverInv
<1>2. \E l \in {"receive", "notify", "notify last", "done"} : Goto("ctl", l)
  BY DEF UniNotify
<1>3. /\ pc' \in Places /\ pc'.app = pc.app /\ pc'.recv = pc.recv /\ pc'.route = pc.route
  BY <1>1, <1>2, GotoOther DEF Types
<1> QED BY <1>1, <1>3, OtherStep DEF UniNotify, Types

(* The loop that accepts streams ends.                                     *)
LEMMA AcceptorEndsStep == ASSUME DriverInv, AcceptorEnds PROVE DriverInv'
<1>1. Types BY DEF DriverInv
<1>2. \E l \in {"accept", "done"} : Goto("acceptor", l) BY DEF AcceptorEnds
<1>3. /\ pc' \in Places /\ pc'.app = pc.app /\ pc'.recv = pc.recv /\ pc'.route = pc.route
  BY <1>1, <1>2, GotoOther DEF Types
<1> QED BY <1>1, <1>3, OtherStep DEF AcceptorEnds, Types

(* Something arrives on a control stream.                                  *)
LEMMA ControlArrivesStep ==
  ASSUME DriverInv, NEW k \in {"settings", "insert", "goaway", "critical"}, ControlArrives(k)
  PROVE  DriverInv'
<1>1. Types BY DEF DriverInv
<1>2. ctl' = Append(ctl, k) BY DEF ControlArrives
<1>3. ctl' \in Seq({"settings", "insert", "goaway", "critical"}) BY <1>1, <1>2 DEF Types
<1> QED BY <1>1, <1>3, OtherStep DEF ControlArrives, Types

(* The connection is lost.                                                 *)
LEMMA ConnectionLostStep == ASSUME DriverInv, ConnectionLost PROVE DriverInv'
<1>1. Types BY DEF DriverInv
<1> QED BY <1>1, OtherStep DEF ConnectionLost, Types

(* The application uses some of its credit.                                *)
LEMMA UseStep == ASSUME DriverInv, NEW n \in 1 .. 2, Use(n) PROVE DriverInv'
<1>1. /\ Types /\ fc.used + n <= MaxLimit + 1 /\ TryUse(n)
      /\ UNCHANGED <<scope, conn, inbox, ctl, h3, pc, permit, call, task, events, cmds, wire,
                     data, sent>>
  BY DEF DriverInv, Use
<1>2. fc \in [enabled : BOOLEAN, limit : 0 .. MaxLimit, used : 0 .. MaxLimit + 1]
      /\ MaxLimit \in Nat
  BY <1>1, RoleFacts DEF Types
<1>3. /\ fc' \in [enabled : BOOLEAN, limit : 0 .. MaxLimit, used : 0 .. MaxLimit + 1]
      /\ fc'.enabled = fc.enabled /\ fc'.limit = fc.limit /\ fc'.used = fc.used + n
      /\ fc.enabled => fc.limit - fc.used >= n
  BY <1>1, <1>2 DEF TryUse
<1>4. Types' BY <1>1, <1>3, TypesKept DEF Types
<1>5. DataInv' BY <1>1, DataSame DEF DriverInv
<1>6. CreditInv'
  <2>1. Granted' = Granted BY <1>1, ScopeSame
  <2>2. CreditInv BY DEF DriverInv
  <2>3. fc.enabled => fc'.used <= fc'.limit BY <1>2, <1>3
  <2> QED BY <1>3, <2>1, <2>2, <2>3 DEF CreditInv
<1>7. SessionInv' BY <1>1, SessionSame DEF DriverInv
<1>8. WireInv' BY <1>1, WireSame DEF DriverInv
<1> QED BY <1>4, <1>5, <1>6, <1>7, <1>8 DEF DriverInv

(* The application drops the session.                                      *)
LEMMA DropSessionStep == ASSUME DriverInv, DropSession PROVE DriverInv'
<1>1. /\ Types /\ pc.app = "open" /\ cmds' = Append(cmds, Item("finish", "none"))
      /\ Goto("app", "dropped")
      /\ UNCHANGED <<scope, conn, inbox, ctl, h3, permit, call, task, fc, events, wire, data, sent>>
  BY DEF DriverInv, DropSession, Open
<1>2. Opened /\ pc.recv # "none" BY <1>1, OpenRecv
<1>3. pc' \in Places /\ pc'.app = "dropped" /\ pc'.recv = pc.recv /\ pc'.route = pc.route
  BY <1>1, GotoApp DEF AppPlaces, Types
<1>4. WireInv' /\ cmds' \in Seq(Commands) BY <1>1, <1>2, <1>3, FinishAsked
<1>5. Types' BY <1>1, <1>3, <1>4, TypesKept DEF Types
<1>6. DataInv' BY <1>1, <1>3, DataSame DEF DriverInv
<1>7. CreditInv' BY <1>1, CreditSame DEF DriverInv
<1>8. Awaits(inbox') <=> Coming BY <1>1 DEF Coming
<1>9. Reading => Reading' BY <1>1, <1>3, <1>8, ReadingIs DEF Reading, ReadingWith
<1>10. EndTold => EndTold' BY <1>1, <1>3 DEF EndTold, Dropped
<1>11. Ordered(inbox)' /\ CapsulesFollow'
  BY <1>1, FollowSame DEF DriverInv, SessionInv, Ordered
<1>12. SessionInv' BY <1>1, <1>2, <1>3, <1>9, <1>10, <1>11 DEF DriverInv, SessionInv
<1> QED BY <1>4, <1>5, <1>6, <1>7, <1>12 DEF DriverInv

(* The application closes the session.                                     *)
LEMMA CloseStep == ASSUME DriverInv, Close PROVE DriverInv'
<1> DEFINE c == Item("capsule", "application")
           reset == Item("reset", "none")
           n == Len(cmds)
<1>1. /\ Types /\ pc.app = "open" /\ call.closing = "none" /\ cmds' = Append(cmds, c)
      /\ call' = [call EXCEPT !.closing = "asked"]
      /\ UNCHANGED <<scope, conn, inbox, ctl, h3, pc, permit, task, fc, events, wire, data, sent>>
  BY DEF DriverInv, Close, Open
<1>2. Opened BY <1>1, OpenRecv
<1>3. c \in Commands /\ c # reset BY DEF Commands, Item
<1>4. call' \in Calls /\ call'.closing = "asked" /\ call'.events = call.events
  BY <1>1 DEF Types, Calls
<1>5. cmds \in Seq(Commands) BY <1>1 DEF Types
<1> HIDE DEF c, reset, n
<1>6. /\ cmds' \in Seq(Commands) /\ n \in Nat /\ \A i \in 1 .. n : cmds'[i] = cmds[i]
      /\ cmds'[n + 1] = c /\ Range(cmds') = Range(cmds) \cup {c}
      /\ DOMAIN cmds = 1 .. n /\ DOMAIN cmds' = 1 .. n + 1
  BY <1>1, <1>3, <1>5, AppendFacts DEF n
<1>7. \A i \in 1 .. n : cmds[i] \in Range(cmds) BY <1>6 DEF Range
<1>8. \A i \in 1 .. n + 1 : i \in 1 .. n \/ i = n + 1 BY <1>6
<1>9. CloseSound'
  <2>1. CloseSound BY <1>2 DEF Opened
  <2>2. c \notin Range(cmds) /\ "application" \notin Range(wire)
    BY <1>1, <2>1 DEF CloseSound, c
  <2>3. \A i \in DOMAIN cmds' : cmds'[i] = c => i = n + 1 BY <1>6, <1>7, <1>8, <2>2
  <2>4. \A i, j \in DOMAIN cmds' : cmds'[i] = c /\ cmds'[j] = c => i = j BY <2>3
  <2>5. c \in Range(cmds') BY <1>6
  <2> QED BY <1>1, <1>4, <2>1, <2>2, <2>4, <2>5 DEF CloseSound, c
<1>10. ResetSound'
  <2>1. ResetSound BY <1>2 DEF Opened
  <2>2. \A i \in DOMAIN cmds' : cmds'[i] = reset => i \in DOMAIN cmds /\ cmds[i] = reset
    BY <1>3, <1>6, <1>8
  <2>3. \A i, j \in DOMAIN cmds : cmds[i] = reset /\ cmds[j] = reset => i = j
    BY <2>1 DEF ResetSound, reset
  <2>4. \A i, j \in DOMAIN cmds' : cmds'[i] = reset /\ cmds'[j] = reset => i = j
    BY <2>2, <2>3
  <2>5. reset \in Range(cmds') <=> reset \in Range(cmds) BY <1>3, <1>6
  <2> QED BY <1>1, <2>1, <2>4, <2>5 DEF ResetSound, reset, Ended
<1>11. AnswerSound' BY <1>4 DEF AnswerSound
<1>12. WireInv' BY <1>1, <1>2, <1>9, <1>10, <1>11 DEF WireInv, Opened
<1>13. Types' BY <1>1, <1>4, <1>6, TypesKept DEF Types
<1>14. DataInv' BY <1>1, DataSame DEF DriverInv
<1>15. CreditInv' BY <1>1, CreditSame DEF DriverInv
<1>16. SessionInv' BY <1>1, <1>4, SessionSame DEF DriverInv
<1> QED BY <1>12, <1>13, <1>14, <1>15, <1>16 DEF DriverInv

\* A change of the connection that concerns neither the end of the session nor a
\* response; GOAWAY asks a client to drain.
Steady(h, g) ==
    /\ g \in Connections /\ g.ended = h.ended /\ g.parked = h.parked
    /\ Complete(g.events) <=> Complete(h.events)
    /\ Began(h) => Began(g)
    /\ scope.role = "server" /\ Began(g) => Began(h)
    /\ h.error => g.error
    /\ \A told \in BOOLEAN : EndSound(h, told) => EndSound(g, told)

(* A step that changes the session to one as sound.                        *)
LEMMA SteadySession ==
  ASSUME SessionInv, Steady(h3, h3'), scope' = scope, sent' = sent, inbox' = inbox,
         pc'.app = pc.app, pc'.recv = pc.recv, call' = call, events' = events, task' = task
  PROVE  SessionInv'
<1>1. Awaits(inbox') = Coming BY DEF Coming
<1>2. HasClosed(call.events) \in BOOLEAN /\ HasClosed(events) \in BOOLEAN BY DEF HasClosed
<1>3. ASSUME Establishing PROVE Establishing'
  <2>1. EstablishingWith(pc.app, h3, call.events, Coming) BY <1>3 DEF Establishing
  <2>2. HandshakeSound(h3, HasClosed(call.events), Coming) BY <2>1 DEF EstablishingWith
  <2>3. HandshakeSound(h3', HasClosed(call.events), Coming)
    BY <1>2, <2>2 DEF HandshakeSound, ParkedSound, Steady
  <2>4. EstablishingWith(pc.app, h3', call.events, Coming)
    BY <2>1, <2>3 DEF EstablishingWith, Steady
  <2>5. pc.recv = "none" /\ events = <<>> /\ ~task.delivered BY <1>3 DEF Establishing
  <2>6. EstablishingWith(pc'.app, h3', call'.events, Awaits(inbox')) BY <1>1, <2>4
  <2> QED BY <2>5, <2>6, EstablishingIs
<1>4. ASSUME Reading PROVE Reading'
  <2>1. ReadingWith(h3, call.events, Coming) => ReadingWith(h3', call.events, Coming)
    BY <1>2 DEF ReadingWith, Steady
  <2>2. ReadingWith(h3, events, Coming) => ReadingWith(h3', events, Coming)
    BY <1>2 DEF ReadingWith, Steady
  <2>3. IF pc.recv = "pending"
        THEN events = <<>> /\ ~task.delivered /\ ReadingWith(h3', call.events, Coming)
        ELSE task.delivered = HasClosed(events) /\ ReadingWith(h3', events, Coming)
    BY <1>4, <2>1, <2>2 DEF Reading
  <2>4. /\ ReadingWith(h3', call.events, Coming) => ReadingWith(h3', call'.events, Awaits(inbox'))
        /\ ReadingWith(h3', events, Coming) => ReadingWith(h3', events', Awaits(inbox'))
    BY <1>1
  <2> QED BY <2>3, <2>4, ReadingIs
<1>5. EndTold => EndTold' BY DEF EndTold, Dropped, Steady
<1>6. Ordered(inbox)' /\ CapsulesFollow' BY FollowSame DEF SessionInv, Ordered
<1> QED BY <1>3, <1>4, <1>5, <1>6 DEF SessionInv

\* A step of the control streams or of the data stream.
LEMMA SteadyStep ==
  ASSUME DriverInv, Steady(h3, h3'), DataInv', data' \in DataStreams,
         scope' = scope, sent' = sent, inbox' = inbox, call' = call, task' = task, fc' = fc,
         events' = events, cmds' = cmds, wire' = wire,
         conn' \in {"up", "lost", "closed"}, conn' = "up" => conn = "up",
         ctl' \in Seq({"settings", "insert", "goaway", "critical"}),
         pc' \in Places, pc'.app = pc.app, pc'.recv = pc.recv
  PROVE  DriverInv'
<1>1. Types' BY TypesKept DEF DriverInv, Types, Steady
<1>2. CreditInv' BY CreditSame DEF DriverInv
<1>3. SessionInv' BY SteadySession DEF DriverInv
<1>4. WireInv' BY WireSame DEF DriverInv
<1> QED BY <1>1, <1>2, <1>3, <1>4 DEF DriverInv

(* A connection that has heard of a control stream is as sound.            *)
LEMMA FlagRecord ==
  ASSUME NEW h \in Connections
  PROVE  /\ Steady(h, h)
         /\ Steady(h, [h EXCEPT !.settings = TRUE])
         /\ Steady(h, [h EXCEPT !.inserted = TRUE])
         /\ Steady(h, [h EXCEPT !.goaway = TRUE])
         /\ [h EXCEPT !.goaway = TRUE].ses = h.ses
         /\ Steady(h, [h EXCEPT !.error = TRUE])
<1>1. ASSUME NEW g \in Connections, g.ended = h.ended, g.parked = h.parked,
             g.events = h.events, g.ses = h.ses, h.error => g.error
      PROVE  Steady(h, g)
  BY <1>1 DEF Steady, Began, EndSound, Complete
<1>2. Steady(h, h) BY <1>1
<1>3. Steady(h, [h EXCEPT !.settings = TRUE])
  <2> DEFINE g == [h EXCEPT !.settings = TRUE]
  <2>1. /\ g \in Connections /\ g.ended = h.ended /\ g.parked = h.parked
        /\ g.events = h.events /\ g.ses = h.ses /\ g.error = h.error
    BY ConnectionFacts DEF Connections, ConnectionFields
  <2> HIDE DEF g
  <2>2. Steady(h, g) BY <1>1, <2>1
  <2> QED BY <2>2 DEF g
<1>4. Steady(h, [h EXCEPT !.inserted = TRUE])
  <2> DEFINE g == [h EXCEPT !.inserted = TRUE]
  <2>1. /\ g \in Connections /\ g.ended = h.ended /\ g.parked = h.parked
        /\ g.events = h.events /\ g.ses = h.ses /\ g.error = h.error
    BY ConnectionFacts DEF Connections, ConnectionFields
  <2> HIDE DEF g
  <2>2. Steady(h, g) BY <1>1, <2>1
  <2> QED BY <2>2 DEF g
<1>5. Steady(h, [h EXCEPT !.goaway = TRUE]) /\ [h EXCEPT !.goaway = TRUE].ses = h.ses
  <2> DEFINE g == [h EXCEPT !.goaway = TRUE]
  <2>1. /\ g \in Connections /\ g.ended = h.ended /\ g.parked = h.parked
        /\ g.events = h.events /\ g.ses = h.ses /\ g.error = h.error
    BY ConnectionFacts DEF Connections, ConnectionFields
  <2> HIDE DEF g
  <2>2. Steady(h, g) BY <1>1, <2>1
  <2> QED BY <2>1, <2>2 DEF g
<1>6. Steady(h, [h EXCEPT !.error = TRUE])
  <2> DEFINE g == [h EXCEPT !.error = TRUE]
  <2>1. /\ g \in Connections /\ g.ended = h.ended /\ g.parked = h.parked
        /\ g.events = h.events /\ g.ses = h.ses /\ g.error = TRUE
    BY ConnectionFacts DEF Connections, ConnectionFields
  <2> HIDE DEF g
  <2>2. Steady(h, g) BY <1>1, <2>1
  <2> QED BY <2>2 DEF g
<1> QED BY <1>2, <1>3, <1>4, <1>5, <1>6

(* GOAWAY drains the session and tells of no end.                          *)
LEMMA SteadyDrain ==
  ASSUME Types, NEW h \in Connections, scope.role = "client",
         h.ses \in {"pending", "established"}
  PROVE  Steady(h, Emit([h EXCEPT !.ses = "draining"], "drain", 0))
<1> DEFINE g == [h EXCEPT !.ses = "draining"]
           r == Emit(g, "drain", 0)
<1>1. /\ g \in Connections /\ g.ses = "draining" /\ g.ended = h.ended
      /\ g.events = h.events /\ g.parked = h.parked /\ g.error = h.error
  BY SesRecord
<1>2. Item("drain", 0) \in Events BY DEF Events, Item
<1> HIDE DEF g
<1>3. ASSUME NEW told \in BOOLEAN
      PROVE  /\ r \in Connections /\ r.ses = g.ses /\ r.ended = g.ended
             /\ r.parked = g.parked /\ r.error = g.error
             /\ Some(r.events, "established") <=> Some(g.events, "established")
             /\ EndSound(g, told) => EndSound(r, told)
  BY <1>1, <1>2, EmitStep
<1> HIDE DEF r
<1>4. ASSUME NEW told \in BOOLEAN, EndSound(h, told) PROVE EndSound(r, told)
  <2>1. h.ended = "none" BY <1>4 DEF EndSound
  <2>2. EndSound(g, told) BY <1>1, <1>4, <2>1, SameEnd
  <2> QED BY <1>3, <2>2
<1>5. Complete(r.events) <=> Complete(h.events) BY <1>1, <1>3 DEF Complete, Some
<1>6. Began(r) BY <1>1, <1>3 DEF Began
<1>7. Steady(h, r) BY <1>1, <1>3, <1>4, <1>5, <1>6 DEF Steady
<1> QED BY <1>7 DEF r, g

(* What a control stream brings keeps the session as sound.                *)
LEMMA UniApplySteady ==
  ASSUME Types, NEW k \in {"settings", "insert", "goaway", "critical"}
  PROVE  Steady(h3, UniApply(h3, k))
<1>1. h3 \in Connections BY DEF Types
<1>2. CASE h3.error BY <1>1, <1>2, FlagRecord DEF UniApply
<1>3. CASE ~h3.error
  <2>1. CASE k = "settings" BY <1>1, <1>3, <2>1, FlagRecord DEF UniApply
  <2>2. CASE k = "insert" BY <1>1, <1>3, <2>2, FlagRecord DEF UniApply
  <2>3. CASE k = "critical" BY <1>1, <1>3, <2>3, FlagRecord DEF UniApply
  <2>4. CASE k = "goaway"
    <3> DEFINE g == [h3 EXCEPT !.goaway = TRUE]
               r == Emit([g EXCEPT !.ses = "draining"], "drain", 0)
    <3>1. Steady(h3, g) /\ g.ses = h3.ses BY <1>1, FlagRecord
    <3>2. UniApply(h3, k) = IF scope.role = "client" /\ h3.ses \in {"pending", "established"}
                            THEN r ELSE g
      BY <1>3, <2>4 DEF UniApply
    <3> HIDE DEF g
    <3>3. CASE scope.role = "client" /\ h3.ses \in {"pending", "established"}
      <4>1. g \in Connections BY <3>1 DEF Steady
      <4>2. Steady(g, r) BY <3>1, <3>3, <4>1, SteadyDrain
      <4> HIDE DEF r
      <4>3. Steady(h3, r) BY <3>1, <4>2 DEF Steady
      <4> QED BY <3>2, <3>3, <4>3
    <3>4. CASE ~(scope.role = "client" /\ h3.ses \in {"pending", "established"})
      BY <3>1, <3>2, <3>4
    <3> QED BY <3>3, <3>4
  <2> QED BY <2>1, <2>2, <2>3, <2>4
<1> QED BY <1>2, <1>3

(* What a control stream brings is applied.                                *)
LEMMA UniReceiveStep == ASSUME DriverInv, UniReceive PROVE DriverInv'
<1>1. /\ Types
      /\ UNCHANGED <<scope, conn, inbox, permit, call, task, fc, events, cmds, wire, data, sent>>
  BY DEF DriverInv, UniReceive
<1>2. \E l \in {"receive", "notify", "notify last", "done"} : Goto("ctl", l)
  BY DEF UniReceive
<1>3. /\ pc' \in Places /\ pc'.app = pc.app /\ pc'.recv = pc.recv /\ pc'.route = pc.route
  BY <1>1, <1>2, GotoOther DEF Types
<1>4. DataInv' BY <1>1, <1>3, DataSame DEF DriverInv
<1>5. /\ Steady(h3, h3')
      /\ ctl' \in Seq({"settings", "insert", "goaway", "critical"})
  <2>1. CASE ctl # <<>> /\ h3' = UniApply(h3, Head(ctl)) /\ ctl' = Tail(ctl)
    <3>1. ctl \in Seq({"settings", "insert", "goaway", "critical"}) BY <1>1 DEF Types
    <3>2. /\ Head(ctl) \in {"settings", "insert", "goaway", "critical"}
          /\ Tail(ctl) \in Seq({"settings", "insert", "goaway", "critical"})
      BY <2>1, <3>1
    <3> QED BY <1>1, <2>1, <3>2, UniApplySteady
  <2>2. CASE UNCHANGED <<h3, ctl>> BY <1>1, <2>2, FlagRecord DEF Types
  <2> QED BY <2>1, <2>2 DEF UniReceive
<1> QED BY <1>1, <1>3, <1>4, <1>5, SteadyStep DEF Types

-----------------------------------------------------------------------------
(***************************************************************************)
(* The data stream.                                                        *)
(***************************************************************************)
\* Facts of sequences, for use with sets of numbers.
LEMMA JoinFacts ==
  ASSUME NEW S, NEW p \in Seq(S), NEW q \in Seq(S), NEW r \in Seq(S)
  PROVE  (p \o q) \o r = p \o (q \o r) /\ p \o q \in Seq(S)
BY ConcatAssociative, ConcatProperties

(* A number is appended to two sequences of numbers in a row.              *)
LEMMA LastNat ==
  ASSUME NEW q \in Seq(Nat), NEW r \in Seq(Nat), NEW u \in Nat
  PROVE  q \o Append(r, u) = Append(q \o r, u)
OBVIOUS

(* The bytes of a stream from one place to another.                        *)
LEMMA NumbersFacts ==
  ASSUME NEW f \in Nat, NEW t \in Nat, f <= t
  PROVE  /\ Numbers(f, t) \in Seq(Nat) /\ Len(Numbers(f, t)) = t - f
         /\ \A i \in 1 .. t - f : Numbers(f, t)[i] = i + f
<1>1. t - f \in Nat OBVIOUS
<1>2. \A i \in 1 .. t - f : i + f \in Nat OBVIOUS
<1> QED BY <1>1, <1>2 DEF Numbers

\* The next byte arrives.
LEMMA NumbersNext ==
  ASSUME NEW f \in Nat, NEW t \in Nat, f <= t, NEW q \in Seq(Nat), NEW r \in Seq(Nat),
         q \o r = Numbers(f, t)
  PROVE  q \o Append(r, t + 1) = Numbers(f, t + 1)
<1> DEFINE u == t + 1
           p == Numbers(f, t)
           s == Numbers(f, u)
           e == Append(p, u)
<1>1. /\ p \in Seq(Nat) /\ Len(p) = t - f /\ \A i \in 1 .. t - f : p[i] = i + f
  BY NumbersFacts
<1>2. u \in Nat /\ f <= u /\ u = t + 1 OBVIOUS
<1> HIDE DEF u
<1>3. /\ s \in Seq(Nat) /\ Len(s) = u - f /\ \A i \in 1 .. u - f : s[i] = i + f
  BY <1>2, NumbersFacts
<1> HIDE DEF p, s
<1>4. /\ e \in Seq(Nat) /\ Len(e) = Len(p) + 1 /\ e[Len(p) + 1] = u
      /\ \A i \in 1 .. Len(p) : e[i] = p[i]
  <2> DEFINE N == Nat
  <2>1. p \in Seq(N) /\ u \in N BY <1>1, <1>2
  <2> HIDE DEF N
  <2>2. /\ e \in Seq(N) /\ Len(e) = Len(p) + 1 /\ e[Len(p) + 1] = u
        /\ \A i \in 1 .. Len(p) : e[i] = p[i]
    BY <2>1, AppendFacts
  <2> QED BY <2>2 DEF N
<1> HIDE DEF e
<1>5. Len(e) = Len(s) BY <1>1, <1>2, <1>3, <1>4
<1>6. ASSUME NEW i \in 1 .. Len(e) PROVE e[i] = s[i]
  <2>1. i \in 1 .. Len(p) \/ i = Len(p) + 1 BY <1>1, <1>4
  <2>2. s[i] = i + f BY <1>3, <1>5
  <2>3. CASE i \in 1 .. Len(p) BY <1>1, <1>4, <2>2, <2>3
  <2>4. CASE i = Len(p) + 1
    <3>1. i + f = u BY <1>1, <1>2, <2>4
    <3> QED BY <1>4, <2>2, <2>4, <3>1
  <2> QED BY <2>1, <2>3, <2>4
<1>7. e = s BY <1>3, <1>4, <1>5, <1>6, SeqEqual
<1>8. q \o Append(r, u) = Append(q \o r, u) BY <1>2, LastNat
<1>9. q \o Append(r, u) = Numbers(f, u) BY <1>7, <1>8 DEF e, p, s
<1> QED BY <1>9 DEF u

\* What receive() returns and what it leaves.
LEMMA TakenFacts ==
  ASSUME Types, NEW n \in DOMAIN data.arrived
  PROVE  /\ Taken(n) \in Seq(Nat) /\ Rest(n) \in Seq(Nat)
         /\ \A q \in Seq(Nat) : (q \o Taken(n)) \o Rest(n) = q \o data.arrived
<1> DEFINE a == data.arrived
           p == Taken(n)
           r == Rest(n)
<1>1. a \in Seq(Nat) BY DEF Types, DataStreams
<1>2. DOMAIN a = 1 .. Len(a) /\ Len(a) \in Nat BY <1>1, LenProperties
<1>3. n \in 0 .. Len(a) BY <1>2
<1> HIDE DEF a
<1>4. p = SubSeq(a, 1, n) /\ r = SubSeq(a, n + 1, Len(a)) BY DEF Taken, Rest, a
<1>5. /\ p \in Seq(Nat) /\ Len(p) = n /\ \A i \in 1 .. n : p[i] = a[i]
      /\ r \in Seq(Nat) /\ Len(r) = Len(a) - n /\ \A i \in 1 .. Len(a) - n : r[i] = a[n + i]
  <2> HIDE DEF p, r
  <2> QED BY ZenonT(30), <1>1, <1>3, <1>4, CutFacts
<1> HIDE DEF p, r
<1>6. p \o r = a
  <2> DEFINE c == p \o r
  <2>1. /\ c \in Seq(Nat) /\ Len(c) = Len(p) + Len(r)
        /\ \A i \in 1 .. Len(p) + Len(r) : c[i] = IF i <= Len(p) THEN p[i] ELSE r[i - Len(p)]
    BY <1>5, ConcatProperties
  <2> HIDE DEF c
  <2>2. Len(c) = Len(a) BY <1>2, <1>3, <1>5, <2>1
  <2>3. ASSUME NEW i \in 1 .. Len(c) PROVE c[i] = a[i]
    <3>1. CASE i <= n
      <4>1. i \in 1 .. n BY <1>3, <3>1
      <4> QED BY <1>2, <1>5, <2>1, <2>2, <3>1, <4>1
    <3>2. CASE ~(i <= n)
      <4>1. i - n \in 1 .. Len(a) - n /\ n + (i - n) = i BY <1>2, <1>3, <2>2, <3>2
      <4>2. c[i] = r[i - n] BY <1>2, <1>3, <1>5, <2>1, <2>2, <3>2
      <4> QED BY <1>5, <4>1, <4>2
    <3> QED BY <3>1, <3>2
  <2>4. c = a BY <1>1, <2>1, <2>2, <2>3, SeqEqual
  <2> QED BY <2>4 DEF c
<1>7. ASSUME NEW q \in Seq(Nat) PROVE (q \o p) \o r = q \o a
  <2> DEFINE N == Nat
  <2>1. q \in Seq(N) /\ p \in Seq(N) /\ r \in Seq(N) BY <1>5
  <2> HIDE DEF N
  <2>2. (q \o p) \o r = q \o (p \o r) BY <2>1, JoinFacts
  <2> QED BY <1>6, <2>2
<1> QED BY <1>5, <1>7 DEF p, r, a

\* The payload is what follows the header.
LEMMA PayloadFacts ==
  ASSUME NEW t \in Nat, NEW b \in Seq(Nat), NEW r \in Seq(Nat), Len(b) >= HeaderLen,
         b \o r = Numbers(0, t)
  PROVE  /\ Payload(b) \in Seq(Nat) /\ t >= HeaderLen
         /\ Payload(b) \o r = Numbers(HeaderLen, t)
<1> DEFINE h == HeaderLen
           n == Len(b)
           p == Payload(b)
           m == Numbers(0, t)
           c == p \o r
           s == Numbers(h, t)
<1>1. h \in Nat BY DEF HeaderLen
<1>2. n \in Nat /\ Len(r) \in Nat BY LenProperties
<1>3. h \in 0 .. n BY <1>1, <1>2
<1>4. p = SubSeq(b, h + 1, n) BY DEF Payload
<1> HIDE DEF p, h
<1>5. p \in Seq(Nat) /\ Len(p) = n - h /\ \A i \in 1 .. n - h : p[i] = b[h + i]
  BY <1>3, <1>4, CutFacts
<1>6. Len(m) = t /\ \A i \in 1 .. t : m[i] = i
  <2>1. 0 \in Nat /\ 0 <= t /\ t - 0 = t OBVIOUS
  <2>2. Len(m) = t - 0 /\ \A i \in 1 .. t - 0 : m[i] = i + 0 BY <2>1, NumbersFacts
  <2>3. \A i \in 1 .. t : i + 0 = i OBVIOUS
  <2> HIDE DEF m
  <2> QED BY <2>1, <2>2, <2>3
<1>7. /\ Len(b \o r) = n + Len(r)
      /\ \A i \in 1 .. n + Len(r) : (b \o r)[i] = IF i <= n THEN b[i] ELSE r[i - n]
  BY ConcatProperties
<1> HIDE DEF m, n
<1>8. /\ m = b \o r /\ t = n + Len(r)
      /\ \A i \in 1 .. t : m[i] = IF i <= n THEN b[i] ELSE r[i - n]
  BY <1>6, <1>7 DEF m
<1>9. h <= t BY <1>1, <1>2, <1>3, <1>8
<1>10. s \in Seq(Nat) /\ Len(s) = t - h /\ \A i \in 1 .. t - h : s[i] = i + h
  BY <1>1, <1>9, NumbersFacts
<1>11. /\ c \in Seq(Nat) /\ Len(c) = Len(p) + Len(r)
       /\ \A i \in 1 .. Len(p) + Len(r) : c[i] = IF i <= Len(p) THEN p[i] ELSE r[i - Len(p)]
  BY <1>5, ConcatProperties
<1> HIDE DEF c, s
<1>12. Len(c) = Len(s) BY <1>1, <1>2, <1>5, <1>8, <1>10, <1>11
<1>13. ASSUME NEW i \in 1 .. Len(c) PROVE c[i] = s[i]
  <2>1. i \in 1 .. t - h /\ h + i \in 1 .. t /\ i + h = h + i
    BY <1>1, <1>9, <1>10, <1>12
  <2>2. s[i] = h + i /\ m[h + i] = h + i BY <1>6, <1>10, <2>1
  <2>3. CASE i <= n - h
    <3>1. i \in 1 .. n - h /\ h + i <= n BY <1>1, <1>2, <2>1, <2>3
    <3>2. p[i] = b[h + i] BY <1>5, <3>1
    <3>3. c[i] = p[i] BY <1>5, <1>11, <2>3
    <3>4. m[h + i] = b[h + i] BY <1>8, <2>1, <3>1
    <3> QED BY <2>2, <3>2, <3>3, <3>4
  <2>4. CASE ~(i <= n - h)
    <3>1. ~(h + i <= n) /\ h + i - n = i - (n - h) BY <1>1, <1>2, <2>1, <2>4
    <3>2. c[i] = r[i - (n - h)] BY <1>5, <1>11, <2>4
    <3> DEFINE j == h + i
    <3>3. j \in 1 .. t /\ ~(j <= n) /\ j - n = i - (n - h) BY <1>1, <1>2, <2>1, <3>1
    <3> HIDE DEF j
    <3>4. m[j] = r[j - n] BY <1>8, <3>3
    <3>5. m[j] = r[i - (n - h)] BY <3>3, <3>4
    <3>6. s[i] = j /\ m[j] = j BY <2>2 DEF j
    <3> QED BY <3>2, <3>5, <3>6
  <2> QED BY <2>3, <2>4
<1>14. c = s BY <1>10, <1>11, <1>12, <1>13, SeqEqual
<1>15. t >= h BY <1>1, <1>9
<1> QED BY <1>5, <1>14, <1>15 DEF c, s, p, h

\* The header loop takes some bytes.
LEMMA TakeHeaderStep ==
  ASSUME Types, DataInv, pc.route = "header", NEW n \in DOMAIN data.arrived,
         NEW kind, NEW v, v = Verdict(kind, data.buf \o Taken(n)),
         NEW held \in BOOLEAN, TakeHeader(n, v, held)
  PROVE  /\ data' \in DataStreams /\ data'.held = held /\ data'.chan = 0
         /\ conn' \in {"up", "lost", "closed"} /\ (conn' = "up" => conn = "up")
         /\ data'.read = <<>> /\ data'.buf \o data'.arrived = Numbers(0, data'.total)
         /\ v # "accept" => data'.pending = <<>>
         /\ v = "accept" =>
               /\ data'.total >= HeaderLen
               /\ data'.read \o data'.pending \o data'.arrived = Numbers(HeaderLen, data'.total)
<1> DEFINE b == data.buf \o Taken(n)
           r == Rest(n)
           p == IF v = "accept" THEN Payload(b) ELSE data.pending
<1>1. /\ data \in DataStreams /\ data.total \in Nat /\ data.buf \in Seq(Nat)
      /\ data.pending \in Seq(Nat) /\ data.arrived \in Seq(Nat)
  BY DEF Types, DataStreams
<1>2. /\ data.buf \o data.arrived = Numbers(0, data.total)
      /\ data.pending = <<>> /\ data.read = <<>> /\ data.chan = 0
  BY DEF DataInv
<1>3. /\ Taken(n) \in Seq(Nat) /\ r \in Seq(Nat) /\ b \o r = data.buf \o data.arrived
  BY <1>1, TakenFacts
<1>4. b \in Seq(Nat) BY <1>1, <1>3, ConcatProperties
<1>5. v = "accept" => ~(Len(b) < HeaderLen)
  <2> SUFFICES ASSUME v = "accept", Len(b) < HeaderLen PROVE FALSE OBVIOUS
  <2> HIDE DEF b
  <2>1. v = Verdict(kind, b) BY DEF b
  <2> QED BY <2>1 DEF Verdict
<1>6. data' = [data EXCEPT !.arrived = r, !.buf = b, !.pending = p, !.held = held]
  BY DEF TakeHeader
<1>7. conn' = IF v \in {"malformed", "foreign"} THEN "closed" ELSE conn BY DEF TakeHeader
<1>8. Len(b) \in Nat /\ HeaderLen \in Nat BY <1>4, LenProperties DEF HeaderLen
<1> HIDE DEF b, r
<1>9. b \o r = Numbers(0, data.total) BY <1>2, <1>3
<1>10. v = "accept" =>
         /\ Payload(b) \in Seq(Nat) /\ data.total >= HeaderLen
         /\ Payload(b) \o r = Numbers(HeaderLen, data.total)
  <2> SUFFICES ASSUME v = "accept"
               PROVE  /\ Payload(b) \in Seq(Nat) /\ data.total >= HeaderLen
                      /\ Payload(b) \o r = Numbers(HeaderLen, data.total)
    OBVIOUS
  <2>1. Len(b) >= HeaderLen BY <1>5, <1>8
  <2> QED BY <1>1, <1>3, <1>4, <1>9, <2>1, PayloadFacts
<1>11. p \in Seq(Nat) BY <1>1, <1>10
<1>12. v # "accept" => p = <<>> BY <1>2
<1>13. v = "accept" => p = Payload(b) OBVIOUS
<1> HIDE DEF p
<1>14. /\ data'.arrived = r /\ data'.buf = b /\ data'.pending = p /\ data'.held = held
       /\ data'.total = data.total /\ data'.chan = data.chan /\ data'.read = data.read
       /\ data' \in DataStreams
  BY <1>1, <1>3, <1>4, <1>6, <1>11 DEF DataStreams
<1>15. v = "accept" => data'.read \o data'.pending \o data'.arrived
                       = Numbers(HeaderLen, data'.total)
  <2> SUFFICES ASSUME v = "accept"
               PROVE  (<<>> \o p) \o r = Numbers(HeaderLen, data.total)
    BY <1>2, <1>14
  <2>1. <<>> \o p = p BY <1>11, ConcatEmptySeq
  <2> QED BY <1>10, <1>13, <2>1
<1>16. conn' \in {"up", "lost", "closed"} /\ (conn' = "up" => conn = "up")
  BY <1>7 DEF Types
<1> QED BY <1>2, <1>9, <1>10, <1>12, <1>14, <1>15, <1>16

(* A chunk of a unidirectional stream is classified.                       *)
LEMMA RouteUniStep == ASSUME DriverInv, RouteUni PROVE DriverInv'
<1>1. /\ Types /\ DataInv /\ pc.route = "header"
      /\ UNCHANGED <<scope, inbox, ctl, call, task, fc, events, cmds, wire, sent>>
  BY DEF DriverInv, RouteUni
<1>2. h3 \in Connections /\ pc \in Places BY <1>1 DEF Types
<1>3. CASE \E n \in DOMAIN data.arrived :
              LET v == Verdict("uni", data.buf \o Taken(n))
              IN  /\ TakeHeader(n, v, FALSE)
                  /\ Goto("route", CASE v = "more" -> "header" [] v = "accept" -> "hand over"
                                     [] OTHER -> "done")
                  /\ h3' = [h3 EXCEPT !.error = @ \/ (v = "malformed" /\ h3.settings)]
  <2>1. PICK n \in DOMAIN data.arrived :
              LET v == Verdict("uni", data.buf \o Taken(n))
              IN  /\ TakeHeader(n, v, FALSE)
                  /\ Goto("route", CASE v = "more" -> "header" [] v = "accept" -> "hand over"
                                     [] OTHER -> "done")
                  /\ h3' = [h3 EXCEPT !.error = @ \/ (v = "malformed" /\ h3.settings)]
    BY <1>3
  <2> DEFINE v == Verdict("uni", data.buf \o Taken(n))
             l == CASE v = "more" -> "header" [] v = "accept" -> "hand over" [] OTHER -> "done"
  <2>2. /\ TakeHeader(n, v, FALSE) /\ Goto("route", l)
        /\ h3' = [h3 EXCEPT !.error = @ \/ (v = "malformed" /\ h3.settings)]
    BY <2>1
  <2>3. /\ l \in {"header", "hand over", "done"}
        /\ l = "header" => v # "accept"
        /\ l = "hand over" => v = "accept"
    OBVIOUS
  <2> HIDE DEF l
  <2>4. /\ data' \in DataStreams /\ data'.held = FALSE /\ data'.chan = 0
        /\ conn' \in {"up", "lost", "closed"} /\ (conn' = "up" => conn = "up")
        /\ data'.read = <<>> /\ data'.buf \o data'.arrived = Numbers(0, data'.total)
        /\ v # "accept" => data'.pending = <<>>
        /\ v = "accept" =>
              /\ data'.total >= HeaderLen
              /\ data'.read \o data'.pending \o data'.arrived = Numbers(HeaderLen, data'.total)
    <3>1. v = Verdict("uni", data.buf \o Taken(n)) OBVIOUS
    <3> HIDE DEF v
    <3> QED BY <1>1, <2>2, <3>1, TakeHeaderStep
  <2> HIDE DEF v
  <2>5. pc' \in Places /\ pc'.route = l /\ pc'.app = pc.app /\ pc'.recv = pc.recv
    BY <1>2, <2>2, <2>3, GotoRoute
  <2>6. DataInv'
    <3>1. ~(data'.chan > 0) /\ ~data'.held BY <2>4
    <3>2. ASSUME pc'.route = "header" PROVE v # "accept" BY <2>3, <2>5, <3>2
    <3>3. ASSUME pc'.route = "hand over" PROVE v = "accept" BY <2>3, <2>5, <3>3
    <3> QED BY <2>4, <3>1, <3>2, <3>3, Zenon DEF DataInv
  <2>7. Steady(h3, h3')
    <3>1. CASE v = "malformed" /\ h3.settings
      <4>1. h3' = [h3 EXCEPT !.error = TRUE] BY <1>2, <2>2, <3>1
      <4> QED BY <1>2, <4>1, FlagRecord
    <3>2. CASE ~(v = "malformed" /\ h3.settings)
      <4>1. h3' = h3 BY <1>2, <2>2, <3>2, ConnectionFacts DEF ConnectionFields, Connections
      <4> QED BY <1>2, <4>1, FlagRecord
    <3> QED BY <3>1, <3>2
  <2> QED BY <1>1, <2>4, <2>5, <2>6, <2>7, SteadyStep DEF Types
<1>4. CASE Goto("route", "done") /\ UNCHANGED <<data, conn, h3>>
  <2>1. pc' \in Places /\ pc'.route = "done" /\ pc'.app = pc.app /\ pc'.recv = pc.recv
    BY <1>2, <1>4, GotoRoute
  <2>2. DataInv'
    <3>1. data.chan = 0 /\ ~data.held BY <1>1 DEF DataInv
    <3>2. ~(data'.chan > 0) /\ ~data'.held BY <1>4, <3>1
    <3> QED BY <2>1, <3>2 DEF DataInv
  <2>3. Steady(h3, h3') BY <1>2, <1>4, FlagRecord
  <2> QED BY <1>1, <1>4, <2>1, <2>2, <2>3, SteadyStep DEF Types
<1> QED BY <1>3, <1>4, Zenon DEF RouteUni

(* The stream is handed to the application's channel.                      *)
LEMMA HandOverStep == ASSUME DriverInv, HandOver PROVE DriverInv'
<1>1. /\ Types /\ DataInv /\ pc.route = "hand over" /\ Goto("route", "done")
      /\ UNCHANGED <<scope, conn, inbox, ctl, h3, permit, call, task, fc, events, cmds, wire, sent>>
  BY DEF DriverInv, HandOver
<1>2. data \in DataStreams /\ h3 \in Connections /\ pc \in Places BY <1>1 DEF Types
<1>3. pc' \in Places /\ pc'.route = "done" /\ pc'.app = pc.app /\ pc'.recv = pc.recv
  BY <1>1, <1>2, GotoRoute
<1>4. /\ data.total >= HeaderLen
      /\ data.read \o data.pending \o data.arrived = Numbers(HeaderLen, data.total)
  BY <1>1 DEF DataInv
<1>5. /\ data' \in DataStreams
      /\ data'.total = data.total /\ data'.read = data.read
      /\ data'.pending = data.pending /\ data'.arrived = data.arrived
  <2>1. CASE data' = data BY <1>2, <2>1
  <2>2. CASE data.chan < UniCapacity /\ data' = [data EXCEPT !.chan = @ + 1]
    <3>1. data.chan \in 0 .. UniCapacity /\ UniCapacity \in Nat
      BY <1>1, <1>2, RoleFacts DEF DataStreams, Types
    <3>2. data.chan + 1 \in 0 .. UniCapacity BY <2>2, <3>1
    <3> DEFINE m == data.chan + 1
    <3>3. data' = [data EXCEPT !.chan = m] BY <2>2
    <3> HIDE DEF m
    <3>4. m \in 0 .. UniCapacity BY <3>2 DEF m
    <3> QED BY <1>2, <3>3, <3>4 DEF DataStreams
  <2> QED BY <2>1, <2>2 DEF HandOver
<1>6. DataInv' BY <1>3, <1>4, <1>5 DEF DataInv
<1>7. Steady(h3, h3') BY <1>1, <1>2, FlagRecord
<1> QED BY <1>1, <1>3, <1>5, <1>6, <1>7, SteadyStep DEF Types

(* The application takes it out of the channel.                            *)
LEMMA AcceptUniStep == ASSUME DriverInv, AcceptUni PROVE DriverInv'
<1>1. /\ Types /\ DataInv /\ data.chan > 0
      /\ data' = [data EXCEPT !.chan = @ - 1, !.held = TRUE]
      /\ UNCHANGED <<scope, conn, inbox, ctl, h3, pc, permit, call, task, fc, events, cmds, wire,
                     sent>>
  BY DEF DriverInv, AcceptUni
<1>2. data \in DataStreams /\ h3 \in Connections BY <1>1 DEF Types
<1>3. /\ data.total >= HeaderLen
      /\ data.read \o data.pending \o data.arrived = Numbers(HeaderLen, data.total)
  BY <1>1, Zenon DEF DataInv
<1>4. /\ data' \in DataStreams
      /\ data'.total = data.total /\ data'.read = data.read
      /\ data'.pending = data.pending /\ data'.arrived = data.arrived
  <2>1. data.chan \in 0 .. UniCapacity /\ UniCapacity \in Nat
    BY <1>1, <1>2, RoleFacts DEF DataStreams, Types
  <2> DEFINE m == data.chan - 1
  <2>2. m \in 0 .. UniCapacity BY <1>1, <2>1
  <2>3. data' = [data EXCEPT !.chan = m, !.held = TRUE] BY <1>1
  <2> HIDE DEF m
  <2> QED BY <1>2, <2>2, <2>3 DEF DataStreams
<1>5. pc.route # "header"
  <2>1. pc.route = "header" => data.chan = 0 BY <1>1 DEF DataInv
  <2> QED BY <1>1, <2>1
<1>6. DataInv' BY <1>1, <1>3, <1>4, <1>5 DEF DataInv
<1>7. Steady(h3, h3') BY <1>1, <1>2, FlagRecord
<1> QED BY <1>1, <1>4, <1>6, <1>7, SteadyStep DEF Types

(* A chunk of a bidirectional stream is classified.                        *)
LEMMA AcceptBiStep == ASSUME DriverInv, AcceptBi PROVE DriverInv'
<1>1. /\ Types /\ DataInv /\ pc.route = "header"
      /\ UNCHANGED <<scope, inbox, ctl, h3, permit, call, task, fc, events, cmds, wire, sent>>
  BY DEF DriverInv, AcceptBi
<1>2. h3 \in Connections /\ pc \in Places BY <1>1 DEF Types
<1>3. PICK n \in DOMAIN data.arrived :
              LET v == Verdict("bidi", data.buf \o Taken(n))
              IN  /\ TakeHeader(n, v, v = "accept")
                  /\ Goto("route", IF v = "more" THEN "header" ELSE "done")
  BY DEF AcceptBi
<1> DEFINE v == Verdict("bidi", data.buf \o Taken(n))
           l == IF v = "more" THEN "header" ELSE "done"
           held == v = "accept"
<1>4. TakeHeader(n, v, held) /\ Goto("route", l) BY <1>3
<1>5. /\ l \in {"header", "done"} /\ (l = "header" => v # "accept")
      /\ held \in BOOLEAN
  OBVIOUS
<1>6. v = Verdict("bidi", data.buf \o Taken(n)) /\ (held <=> v = "accept") OBVIOUS
<1> HIDE DEF l, v, held
<1>7. /\ data' \in DataStreams /\ data'.held = held /\ data'.chan = 0
      /\ conn' \in {"up", "lost", "closed"} /\ (conn' = "up" => conn = "up")
      /\ data'.read = <<>> /\ data'.buf \o data'.arrived = Numbers(0, data'.total)
      /\ v # "accept" => data'.pending = <<>>
      /\ v = "accept" =>
            /\ data'.total >= HeaderLen
            /\ data'.read \o data'.pending \o data'.arrived = Numbers(HeaderLen, data'.total)
  BY <1>1, <1>4, <1>5, <1>6, TakeHeaderStep
<1>8. pc' \in Places /\ pc'.route = l /\ pc'.app = pc.app /\ pc'.recv = pc.recv
  BY <1>2, <1>4, <1>5, GotoRoute
<1>9. DataInv'
  <2>1. ~(data'.chan > 0) /\ (data'.held => v = "accept") BY <1>6, <1>7
  <2>2. pc'.route = "header" => v # "accept" BY <1>5, <1>8
  <2>3. pc'.route # "hand over" BY <1>5, <1>8
  <2> QED BY <1>7, <2>1, <2>2, <2>3, Zenon DEF DataInv
<1>10. Steady(h3, h3') BY <1>1, <1>2, FlagRecord
<1> QED BY <1>1, <1>7, <1>8, <1>9, <1>10, SteadyStep DEF Types

(* The application reads the data stream.                                  *)
LEMMA ReadDataStep == ASSUME DriverInv, ReadData PROVE DriverInv'
<1>1. /\ Types /\ DataInv /\ data.held
      /\ UNCHANGED <<scope, conn, inbox, ctl, h3, pc, permit, call, task, fc, events, cmds, wire,
                     sent>>
  BY DEF DriverInv, ReadData
<1>2. /\ data \in DataStreams /\ h3 \in Connections
      /\ data.read \in Seq(Nat) /\ data.pending \in Seq(Nat) /\ data.arrived \in Seq(Nat)
  BY <1>1 DEF Types, DataStreams
<1>3. /\ data.total >= HeaderLen /\ pc.route # "header"
      /\ data.read \o data.pending \o data.arrived = Numbers(HeaderLen, data.total)
  BY <1>1, Zenon DEF DataInv
<1>4. ASSUME NEW read \in Seq(Nat), NEW pending \in Seq(Nat), NEW arrived \in Seq(Nat),
             data' = [data EXCEPT !.read = read, !.pending = pending, !.arrived = arrived],
             read \o pending \o arrived = data.read \o data.pending \o data.arrived
      PROVE  DriverInv'
  <2>1. /\ data' \in DataStreams
        /\ data'.total = data.total /\ data'.read = read
        /\ data'.pending = pending /\ data'.arrived = arrived
    BY <1>2, <1>4 DEF DataStreams
  <2>2. data'.read \o data'.pending \o data'.arrived = Numbers(HeaderLen, data'.total)
    BY <1>3, <1>4, <2>1
  <2>3. DataInv' BY <1>1, <1>3, <2>1, <2>2 DEF DataInv
  <2>4. Steady(h3, h3') BY <1>1, <1>2, FlagRecord
  <2> QED BY <1>1, <2>1, <2>3, <2>4, SteadyStep DEF Types
<1>5. <<>> \in Seq(Nat) OBVIOUS
<1>6. CASE data.pending # <<>>
  <2> DEFINE read == data.read \o data.pending
  <2>1. data' = [data EXCEPT !.read = read, !.pending = <<>>, !.arrived = data.arrived]
    <3>1. data' = [data EXCEPT !.read = read, !.pending = <<>>] BY <1>6 DEF ReadData
    <3> HIDE DEF read
    <3> QED BY <1>2, <3>1 DEF DataStreams
  <2>2. read \in Seq(Nat) BY <1>2, ConcatProperties
  <2>3. read \o <<>> \o data.arrived = data.read \o data.pending \o data.arrived
    <3>1. read \o <<>> = read
      <4> HIDE DEF read
      <4> QED BY <2>2, ConcatEmptySeq
    <3> QED BY <3>1
  <2> HIDE DEF read
  <2> QED BY <1>2, <1>4, <1>5, <2>1, <2>2, <2>3
<1>7. CASE data.pending = <<>>
  <2>1. PICK n \in DOMAIN data.arrived :
          data' = [data EXCEPT !.arrived = Rest(n), !.read = @ \o Taken(n)]
    BY <1>7 DEF ReadData
  <2> DEFINE read == data.read \o Taken(n)
             rest == Rest(n)
  <2>2. Taken(n) \in Seq(Nat) /\ rest \in Seq(Nat) /\ read \o rest = data.read \o data.arrived
    BY <1>1, <1>2, TakenFacts
  <2>3. read \in Seq(Nat) BY <1>2, <2>2, ConcatProperties
  <2>4. data' = [data EXCEPT !.read = read, !.arrived = rest] BY <2>1
  <2> HIDE DEF read, rest
  <2>5. data' = [data EXCEPT !.read = read, !.pending = <<>>, !.arrived = rest]
    BY <1>2, <1>7, <2>4 DEF DataStreams
  <2>6. read \o <<>> = read /\ data.read \o <<>> = data.read
    BY <1>2, <2>3, ConcatEmptySeq
  <2>7. read \o <<>> \o rest = data.read \o data.pending \o data.arrived
    BY <1>7, <2>2, <2>6
  <2> QED BY <1>4, <1>5, <2>2, <2>3, <2>5, <2>7
<1> QED BY <1>6, <1>7

(* More of the data stream arrives, or its end.                            *)
LEMMA DataArrivesStep == ASSUME DriverInv, DataArrives PROVE DriverInv'
<1>1. /\ Types /\ DataInv
      /\ UNCHANGED <<scope, conn, inbox, ctl, h3, pc, permit, call, task, fc, events, cmds, wire,
                     sent>>
  BY DEF DriverInv, DataArrives
<1>2. /\ data \in DataStreams /\ h3 \in Connections /\ data.total \in Nat
      /\ data.read \in Seq(Nat) /\ data.pending \in Seq(Nat) /\ data.arrived \in Seq(Nat)
      /\ data.buf \in Seq(Nat)
  BY <1>1 DEF Types, DataStreams
<1>3. Steady(h3, h3') BY <1>1, <1>2, FlagRecord
<1>4. CASE data' = [data EXCEPT !.fin = TRUE]
  <2>1. /\ data' \in DataStreams /\ data'.total = data.total /\ data'.read = data.read
        /\ data'.pending = data.pending /\ data'.arrived = data.arrived
        /\ data'.buf = data.buf /\ data'.chan = data.chan /\ data'.held = data.held
    BY <1>2, <1>4 DEF DataStreams
  <2>2. DataInv' BY <1>1, <2>1, Zenon DEF DataInv
  <2> QED BY <1>1, <1>3, <2>1, <2>2, SteadyStep DEF Types
<1>5. CASE data' = [data EXCEPT !.total = @ + 1, !.arrived = Append(@, data.total + 1)]
  <2> DEFINE next == data.total + 1
             more == Append(data.arrived, next)
  <2>1. data' = [data EXCEPT !.total = next, !.arrived = more] BY <1>5
  <2>2. next \in Nat /\ next = data.total + 1 BY <1>2
  <2> HIDE DEF next
  <2>3. more \in Seq(Nat) BY <1>2, <2>2
  <2> HIDE DEF more
  <2>4. /\ data' \in DataStreams /\ data'.total = next /\ data'.read = data.read
        /\ data'.pending = data.pending /\ data'.arrived = more
        /\ data'.buf = data.buf /\ data'.chan = data.chan /\ data'.held = data.held
    BY <1>2, <2>1, <2>2, <2>3 DEF DataStreams
  <2>5. ASSUME NEW q \in Seq(Nat), NEW f \in Nat, f <= data.total,
               q \o data.arrived = Numbers(f, data.total)
        PROVE  q \o more = Numbers(f, next)
    <3>1. q \o Append(data.arrived, data.total + 1) = Numbers(f, data.total + 1)
      BY <1>2, <2>5, NumbersNext
    <3> QED BY <3>1 DEF next, more
  <2>6. ASSUME data.buf \o data.arrived = Numbers(0, data.total)
        PROVE  data.buf \o more = Numbers(0, next)
    <3>1. 0 \in Nat /\ 0 <= data.total BY <1>2
    <3> QED BY <1>2, <2>5, <2>6, <3>1
  <2>7. ASSUME data.total >= HeaderLen,
               data.read \o data.pending \o data.arrived = Numbers(HeaderLen, data.total)
        PROVE  next >= HeaderLen /\ data.read \o data.pending \o more = Numbers(HeaderLen, next)
    <3>1. HeaderLen \in Nat BY DEF HeaderLen
    <3>2. HeaderLen <= data.total /\ next >= HeaderLen BY <1>2, <2>2, <2>7, <3>1
    <3> DEFINE q == data.read \o data.pending
    <3>3. q \in Seq(Nat) BY <1>2, ConcatProperties
    <3>4. q \o data.arrived = Numbers(HeaderLen, data.total) BY <2>7
    <3> HIDE DEF q
    <3>5. q \o more = Numbers(HeaderLen, next) BY <2>5, <3>1, <3>2, <3>3, <3>4
    <3> QED BY <3>2, <3>5 DEF q
  <2>8. DataInv' BY <1>1, <2>4, <2>6, <2>7, Zenon DEF DataInv
  <2> QED BY <1>1, <1>3, <2>4, <2>8, SteadyStep DEF Types
<1> QED BY <1>4, <1>5 DEF DataArrives

-----------------------------------------------------------------------------
(***************************************************************************)
(* The sending task.                                                       *)
(***************************************************************************)
LEMMA TailFacts ==
  ASSUME NEW S, NEW q \in Seq(S), q # <<>>
  PROVE  /\ Head(q) \in S /\ Tail(q) \in Seq(S) /\ Len(q) \in Nat /\ Len(q) >= 1
         /\ Head(q) = q[1] /\ DOMAIN q = 1 .. Len(q) /\ DOMAIN Tail(q) = 1 .. Len(q) - 1
         /\ \A i \in 1 .. Len(q) - 1 : Tail(q)[i] = q[i + 1]
         /\ \A x : x \in Range(q) <=> x = Head(q) \/ x \in Range(Tail(q))
<1> DEFINE n == Len(q)
           h == Head(q)
           t == Tail(q)
<1>1. /\ h \in S /\ t \in Seq(S) /\ n \in Nat /\ n >= 1 /\ h = q[1] /\ Len(t) = n - 1
      /\ DOMAIN q = 1 .. n /\ \A i \in 1 .. n - 1 : t[i] = q[i + 1]
  OBVIOUS
<1>2. DOMAIN t = 1 .. n - 1 BY <1>1
<1> HIDE DEF n, h, t
<1>3. ASSUME NEW x PROVE x \in Range(q) <=> x = h \/ x \in Range(t)
  <2>1. ASSUME NEW i \in 1 .. n, x = q[i] PROVE x = h \/ x \in Range(t)
    <3>1. i = 1 \/ i - 1 \in 1 .. n - 1 BY <1>1
    <3>2. CASE i - 1 \in 1 .. n - 1
      <4>1. t[i - 1] = q[(i - 1) + 1] /\ (i - 1) + 1 = i BY <1>1, <3>2
      <4> QED BY <1>2, <2>1, <3>2, <4>1 DEF Range
    <3> QED BY <1>1, <2>1, <3>1, <3>2
  <2>2. ASSUME NEW i \in 1 .. n - 1, x = t[i] PROVE x \in Range(q)
    <3>1. i + 1 \in 1 .. n BY <1>1
    <3> QED BY <1>1, <2>2, <3>1 DEF Range
  <2>3. 1 \in 1 .. n BY <1>1
  <2>4. h \in Range(q) BY <1>1, <2>3 DEF Range
  <2> QED BY <1>1, <1>2, <2>1, <2>2, <2>4 DEF Range
<1> QED BY <1>1, <1>2, <1>3 DEF n, h, t

\* What a command puts on the wire.
Answers == {<<>>, <<"fin">>, <<"reset">>, <<"application", "fin">>, <<"flow control", "fin">>}

(* What goes out on the CONNECT stream for one command.                    *)
LEMMA AnswerWords ==
  ASSUME NEW q \in Answers, wire \in Seq(Words), wire' = wire \o q
  PROVE  /\ wire' \in Seq(Words) /\ Len(wire) \in Nat /\ Len(q) \in Nat
         /\ Len(wire') = Len(wire) + Len(q)
         /\ DOMAIN wire = 1 .. Len(wire) /\ DOMAIN wire' = 1 .. Len(wire')
         /\ \A i \in 1 .. Len(wire) : wire'[i] = wire[i]
         /\ \A i \in 1 .. Len(wire') : i \in 1 .. Len(wire) \/ wire'[i] \notin Greetings
         /\ q = <<>> => wire' = wire
         /\ q # <<>> => Ended'
         /\ \A i \in 1 .. Len(wire') :
               wire'[i] = "application" =>
                  i \in 1 .. Len(wire) \/ (q = <<"application", "fin">> /\ i = Len(wire) + 1)
         /\ Len(q) = 2 => wire'[Len(wire) + 1] = q[1] /\ wire'[Len(wire) + 2] = "fin"
         /\ Len(q) = 1 => wire'[Len(wire) + 1] = q[1]
<1> DEFINE n == Len(wire)
           m == Len(q)
           w == wire \o q
<1>1. /\ q \in Seq(Words) /\ m \in 0 .. 2 /\ DOMAIN q = 1 .. m
      /\ \A i \in 1 .. m : q[i] \notin Greetings
      /\ \A i \in 1 .. m : q[i] = "application" => i = 1 /\ q = <<"application", "fin">>
      /\ m = 0 => q = <<>>
      /\ m = 1 => q[1] \in {"fin", "reset"}
      /\ m = 2 => q[2] = "fin"
      /\ q = <<>> => m = 0
  <2> DEFINE one == \A i \in 1 .. 1 : i = 1
             two == \A i \in 1 .. 2 : i = 1 \/ i = 2
  <2>0. one /\ two OBVIOUS
  <2>1. CASE q = <<>> BY <2>1
  <2>2. CASE q = <<"fin">>
    <3>1. m = 1 /\ q[1] = "fin" /\ q # <<>> /\ DOMAIN q = 1 .. 1 BY <2>2
    <3>2. "fin" \in Words /\ "fin" \notin Greetings BY DEF Words, Greetings
    <3>3. q \in Seq(Words) BY <2>2, <3>2
    <3> QED BY <2>0, <3>1, <3>2, <3>3
  <2>3. CASE q = <<"reset">>
    <3>1. m = 1 /\ q[1] = "reset" /\ q # <<>> /\ DOMAIN q = 1 .. 1 BY <2>3
    <3>2. "reset" \in Words /\ "reset" \notin Greetings BY DEF Words, Greetings
    <3>3. q \in Seq(Words) BY <2>3, <3>2
    <3> QED BY <2>0, <3>1, <3>2, <3>3
  <2>4. CASE q = <<"application", "fin">>
    <3>1. m = 2 /\ q[1] = "application" /\ q[2] = "fin" /\ q # <<>> /\ DOMAIN q = 1 .. 2 BY <2>4
    <3>2. /\ {"application", "fin"} \subseteq Words
          /\ "application" \notin Greetings /\ "fin" \notin Greetings
      BY DEF Words, Greetings
    <3>3. q \in Seq(Words) BY <2>4, <3>2
    <3> QED BY <2>0, <2>4, <3>1, <3>2, <3>3
  <2>5. CASE q = <<"flow control", "fin">>
    <3> DEFINE v == "flow control"
    <3>1. v \in Words /\ v \notin Greetings /\ v # "application" BY DEF Words, Greetings
    <3>2. q = <<v, "fin">> BY <2>5
    <3> HIDE DEF v
    <3>3. m = 2 /\ q[1] = v /\ q[2] = "fin" /\ q # <<>> /\ DOMAIN q = 1 .. 2 BY <3>2
    <3>4. "fin" \in Words /\ "fin" \notin Greetings BY DEF Words, Greetings
    <3>5. q \in Seq(Words) BY <3>1, <3>2, <3>4
    <3> QED BY <2>0, <3>1, <3>3, <3>4, <3>5
  <2> QED BY <2>1, <2>2, <2>3, <2>4, <2>5 DEF Answers
<1>2. /\ w \in Seq(Words) /\ Len(w) = n + m /\ n \in Nat
      /\ \A i \in 1 .. n + m : w[i] = IF i <= n THEN wire[i] ELSE q[i - n]
  BY <1>1, ConcatProperties, LenProperties
<1> HIDE DEF n, m, w
<1>5. DOMAIN wire = 1 .. n /\ DOMAIN w = 1 .. n + m BY <1>2, LenProperties DEF n
<1>6. \A i \in 1 .. n : w[i] = wire[i] BY <1>1, <1>2
<1>7. \A i \in 1 .. n + m : i \in 1 .. n \/ (i - n \in 1 .. m /\ w[i] = q[i - n]) BY <1>1, <1>2
<1>8. ASSUME NEW i \in 1 .. n + m
      PROVE  /\ i \in 1 .. n \/ w[i] \notin Greetings
             /\ w[i] = "application" => i \in 1 .. n \/ (q = <<"application", "fin">> /\ i = n + 1)
  <2>1. CASE i \in 1 .. n BY <2>1
  <2>2. CASE i - n \in 1 .. m /\ w[i] = q[i - n]
    <3>1. i - n = 1 => i = n + 1 BY <1>2
    <3> QED BY <1>1, <2>2, <3>1
  <2> QED BY <1>7, <2>1, <2>2
<1>9. q = <<>> => w = wire
  <2> SUFFICES ASSUME q = <<>> PROVE w = wire OBVIOUS
  <2> QED BY ConcatEmptySeq DEF w
<1>10. m = 2 => w[n + 1] = q[1] /\ w[n + 2] = "fin"
  <2> SUFFICES ASSUME m = 2 PROVE w[n + 1] = q[1] /\ w[n + 2] = "fin" OBVIOUS
  <2>1. n + 1 \in 1 .. n + m /\ n + 2 \in 1 .. n + m /\ (n + 1) - n = 1 /\ (n + 2) - n = 2
        /\ ~(n + 1 <= n) /\ ~(n + 2 <= n)
    BY <1>2
  <2>2. w[n + 1] = q[(n + 1) - n] /\ w[n + 2] = q[(n + 2) - n] BY <1>2, <2>1
  <2> QED BY <1>1, <2>1, <2>2
<1>11. m = 1 => w[n + 1] = q[1]
  <2> SUFFICES ASSUME m = 1 PROVE w[n + 1] = q[1] OBVIOUS
  <2>1. n + 1 \in 1 .. n + m /\ (n + 1) - n = 1 /\ ~(n + 1 <= n) BY <1>2
  <2>2. w[n + 1] = q[(n + 1) - n] BY <1>2, <2>1
  <2> QED BY <2>1, <2>2
<1>12. q # <<>> => \E i \in 1 .. n + m : w[i] \in {"fin", "reset"}
  <2>1. n + 1 \in 1 .. n + 1 /\ n + 2 \in 1 .. n + 2 BY <1>2
  <2>2. CASE m = 1 BY <1>1, <1>11, <2>1, <2>2
  <2>3. CASE m = 2 BY <1>10, <2>1, <2>3
  <2> QED BY <1>1, <2>2, <2>3
<1>13. wire' = w BY DEF w
<1>14. q # <<>> => Ended' BY <1>5, <1>12, <1>13 DEF Ended
<1> QED BY <1>1, <1>2, <1>5, <1>6, <1>8, <1>9, <1>10, <1>11, <1>13, <1>14 DEF n, m

\* What the command at the head puts on the wire, and what is answered.
Writable == conn = "up" /\ ~Ended
FlowControl == "flow control"
Sends(q, cmd) ==
    /\ wire' = wire \o q
    /\ ~Writable /\ q # <<>> => cmd.k = "reset"
    /\ Writable => Len(wire) = 1 /\ q # <<>>
    /\ q = <<"application", "fin">> <=> Writable /\ cmd.v = "application"
    /\ Writable /\ cmd.v = FlowControl => q = <<FlowControl, "fin">>
    /\ Writable /\ cmd.k = "reset" => q = <<"reset">>
    /\ Len(q) <= IF Writable THEN 2 ELSE 1

(* What the sending task does with the first command.                      *)
LEMMA SendCommandFacts ==
  ASSUME Types, Opened, SendCommand
  PROVE  LET cmd == Head(cmds)
         IN  /\ cmds # <<>> /\ cmds' = Tail(cmds)
             /\ call'.closing = IF cmd.v = "application"
                                THEN IF Writable THEN "ok" ELSE "error" ELSE call.closing
             /\ call' \in Calls /\ call'.events = call.events
             /\ \E q \in Answers : Sends(q, cmd)
<1> DEFINE cmd == Head(cmds)
<1>1. /\ cmds # <<>> /\ cmds' = Tail(cmds) /\ cmds \in Seq(Commands) /\ wire \in Seq(Words)
      /\ call \in Calls
  BY DEF SendCommand, Types
<1>2. cmd \in Commands BY <1>1, TailFacts
<1>3. Writable => Len(wire) = 1 BY DEF Opened, ResetSound, Writable
<1>4. call' = IF cmd.v = "application"
              THEN [call EXCEPT !.closing = IF Writable THEN "ok" ELSE "error"] ELSE call
  BY DEF SendCommand, Answered, Writable
<1>5. \/ /\ Writable
         /\ wire' = CASE cmd.k = "capsule" -> wire \o <<cmd.v, "fin">>
                      [] cmd.k = "finish" -> Append(wire, "fin")
                      [] cmd.k = "reset" -> Append(wire, "reset")
      \/ ~Writable /\ wire' = wire
      \/ ~Writable /\ cmd.k = "reset" /\ wire' = Append(wire, "reset")
  BY DEF SendCommand, Writable
<1> HIDE DEF cmd
<1>6. /\ call' \in Calls /\ call'.events = call.events
      /\ call'.closing = IF cmd.v = "application"
                         THEN IF Writable THEN "ok" ELSE "error" ELSE call.closing
  BY <1>1, <1>4 DEF Calls
<1>7. /\ Append(wire, "fin") = wire \o <<"fin">>
      /\ Append(wire, "reset") = wire \o <<"reset">>
      /\ wire = wire \o <<>>
  <2>1. "fin" \in Words /\ "reset" \in Words BY DEF Words
  <2> QED BY <1>1, <2>1, AppendIsConcat, ConcatEmptySeq
<1>8. \/ cmd.k = "capsule" /\ cmd.v \in {"application", FlowControl}
      \/ cmd.k \in {"finish", "reset"} /\ cmd.v = "none"
  BY <1>2 DEF Commands, FlowControl
<1>9. FlowControl # "application" /\ FlowControl # "none" BY DEF FlowControl
<1>10. {<<>>, <<"fin">>, <<"reset">>, <<"application", "fin">>, <<FlowControl, "fin">>} = Answers
  BY Zenon DEF Answers, FlowControl
<1>11. \E q \in Answers : Sends(q, cmd)
  <2>1. CASE ~Writable /\ wire' = wire
    <3>1. <<>> # <<"application", "fin">> /\ Len(<<>>) = 0 OBVIOUS
    <3>2. <<>> \in Answers BY <1>10
    <3>3. Sends(<<>>, cmd) BY <1>7, <2>1, <3>1 DEF Sends
    <3> QED BY <3>2, <3>3
  <2>2. CASE ~Writable /\ cmd.k = "reset" /\ wire' = Append(wire, "reset")
    <3>1. <<"reset">> # <<"application", "fin">> /\ Len(<<"reset">>) = 1 OBVIOUS
    <3>2. <<"reset">> \in Answers BY <1>10
    <3>3. Sends(<<"reset">>, cmd) BY <1>7, <2>2, <3>1 DEF Sends
    <3> QED BY <3>2, <3>3
  <2>3. CASE Writable /\ cmd.k = "finish"
    <3>1. <<"fin">> # <<"application", "fin">> /\ Len(<<"fin">>) = 1 /\ <<"fin">> # <<>> OBVIOUS
    <3>2. <<"fin">> \in Answers BY <1>10
    <3>3. wire' = wire \o <<"fin">> BY <1>5, <1>7, <2>3
    <3>4. cmd.v = "none" BY <1>8, <2>3
    <3>5. Sends(<<"fin">>, cmd) BY <1>3, <1>9, <2>3, <3>1, <3>3, <3>4 DEF Sends
    <3> QED BY <3>2, <3>5
  <2>4. CASE Writable /\ cmd.k = "reset"
    <3>1. <<"reset">> # <<"application", "fin">> /\ Len(<<"reset">>) = 1 /\ <<"reset">> # <<>>
      OBVIOUS
    <3>2. <<"reset">> \in Answers BY <1>10
    <3>3. wire' = wire \o <<"reset">> BY <1>5, <1>7, <2>4
    <3>4. cmd.v = "none" BY <1>8, <2>4
    <3>5. Sends(<<"reset">>, cmd) BY <1>3, <1>9, <2>4, <3>1, <3>3, <3>4 DEF Sends
    <3> QED BY <3>2, <3>5
  <2>5. CASE Writable /\ cmd.k = "capsule"
    <3> DEFINE q == <<cmd.v, "fin">>
    <3>1. Len(q) = 2 /\ q # <<>> OBVIOUS
    <3>2. wire' = wire \o q BY <1>5, <2>5
    <3>3. cmd.v \in {"application", FlowControl} /\ cmd.k # "reset" BY <1>8, <2>5
    <3>4. q \in Answers BY <1>10, <3>3
    <3>5. q = <<"application", "fin">> <=> cmd.v = "application" OBVIOUS
    <3>6. cmd.v = FlowControl => q = <<FlowControl, "fin">> OBVIOUS
    <3> HIDE DEF q
    <3>7. Sends(q, cmd) BY <1>3, <2>5, <3>1, <3>2, <3>3, <3>5, <3>6 DEF Sends
    <3> QED BY <3>4, <3>7
  <2> QED BY <1>5, <1>8, <2>1, <2>2, <2>3, <2>4, <2>5
<1> QED BY <1>1, <1>6, <1>11 DEF cmd

(* The two commands that the invariant counts.                             *)
LEMMA CommandFacts ==
  ASSUME NEW cmd \in Commands
  PROVE  /\ cmd = Item("capsule", "application") <=> cmd.v = "application"
         /\ cmd = Item("reset", "none") <=> cmd.k = "reset"
<1> DEFINE capsule == Item("capsule", "application")
           reset == Item("reset", "none")
<1>1. /\ capsule = [k |-> "capsule", v |-> "application"] /\ capsule.v = "application"
      /\ capsule.k # "reset"
      /\ reset = [k |-> "reset", v |-> "none"] /\ reset.k = "reset" /\ reset.v # "application"
  BY DEF Item
<1> HIDE DEF capsule, reset
<1>2. CASE cmd \in [k : {"capsule"}, v : {"application", "flow control"}]
  <2>1. cmd = [k |-> cmd.k, v |-> cmd.v] /\ cmd.k = "capsule" BY <1>2
  <2>2. cmd.v = "application" => cmd = capsule BY <1>1, <2>1
  <2>3. cmd # reset BY <1>1, <2>1
  <2> QED BY <1>1, <2>1, <2>2, <2>3 DEF capsule, reset
<1>3. CASE cmd \in [k : {"finish", "reset"}, v : {"none"}]
  <2>1. cmd = [k |-> cmd.k, v |-> cmd.v] /\ cmd.v = "none" BY <1>3
  <2>2. cmd.k = "reset" => cmd = reset BY <1>1, <2>1
  <2>3. cmd # capsule BY <1>1, <2>1
  <2> QED BY <1>1, <2>1, <2>2, <2>3 DEF capsule, reset
<1> QED BY <1>2, <1>3 DEF Commands

(* The sending task takes a command.                                       *)
LEMMA SendCommandStep == ASSUME DriverInv, SendCommand PROVE DriverInv'
<1> DEFINE cmd == Head(cmds)
           n == Len(wire)
           capsule == Item("capsule", "application")
           reset == Item("reset", "none")
<1>1. /\ Types /\ cmds # <<>>
      /\ UNCHANGED <<scope, conn, inbox, ctl, h3, pc, permit, task, fc, events, data, sent>>
  BY DEF DriverInv, SendCommand
<1>2. Opened /\ pc.app \in {"open", "dropped"}
  <2>1. pc.app \in {"open", "dropped"} BY <1>1 DEF DriverInv, WireInv, Unopened
  <2> QED BY <2>1, OpenRecv
<1>3. /\ cmds' = Tail(cmds)
      /\ call'.closing = IF cmd.v = "application"
                         THEN IF Writable THEN "ok" ELSE "error" ELSE call.closing
      /\ call' \in Calls /\ call'.events = call.events
  BY <1>1, <1>2, SendCommandFacts
<1>4. PICK q \in Answers : Sends(q, cmd) BY <1>1, <1>2, SendCommandFacts
<1>5. cmds \in Seq(Commands) /\ wire \in Seq(Words) BY <1>1 DEF Types
<1>6. /\ cmd \in Commands /\ cmds' \in Seq(Commands) /\ Len(cmds) \in Nat /\ Len(cmds) >= 1
      /\ cmd = cmds[1] /\ DOMAIN cmds = 1 .. Len(cmds) /\ DOMAIN cmds' = 1 .. Len(cmds) - 1
      /\ \A i \in 1 .. Len(cmds) - 1 : cmds'[i] = cmds[i + 1]
      /\ \A x : x \in Range(cmds) <=> x = cmd \/ x \in Range(cmds')
  BY <1>1, <1>3, <1>5, TailFacts
<1> HIDE DEF cmd
<1>7. /\ wire' \in Seq(Words) /\ n \in Nat /\ Len(q) \in Nat
      /\ Len(wire') = n + Len(q)
      /\ DOMAIN wire = 1 .. n /\ DOMAIN wire' = 1 .. Len(wire')
      /\ \A i \in 1 .. n : wire'[i] = wire[i]
      /\ \A i \in 1 .. Len(wire') : i \in 1 .. n \/ wire'[i] \notin Greetings
      /\ q = <<>> => wire' = wire
      /\ q # <<>> => Ended'
      /\ \A i \in 1 .. Len(wire') :
            wire'[i] = "application" =>
               i \in 1 .. n \/ (q = <<"application", "fin">> /\ i = n + 1)
      /\ Len(q) = 2 => wire'[n + 1] = q[1] /\ wire'[n + 2] = "fin"
      /\ Len(q) = 1 => wire'[n + 1] = q[1]
  BY <1>4, <1>5, AnswerWords DEF Sends
<1>8. /\ wire # <<>> /\ wire[1] \in Greetings /\ CloseSound /\ ResetSound /\ AnswerSound
      /\ \A i \in 2 .. n : wire[i] \notin Greetings
  BY <1>2 DEF Opened
<1>9. n >= 1 /\ n <= 4 BY <1>5, <1>7, <1>8 DEF ResetSound
<1>10. cmd = capsule <=> cmd.v = "application" BY <1>6, CommandFacts
<1>11. cmd.k = "reset" <=> cmd = reset BY <1>6, CommandFacts
<1> HIDE DEF n
<1>12. \A x : (\A i, j \in DOMAIN cmds : cmds[i] = x /\ cmds[j] = x => i = j) =>
         /\ \A i, j \in DOMAIN cmds' : cmds'[i] = x /\ cmds'[j] = x => i = j
         /\ cmd = x => x \notin Range(cmds')
  <2> TAKE x
  <2> SUFFICES ASSUME \A i, j \in DOMAIN cmds : cmds[i] = x /\ cmds[j] = x => i = j
               PROVE  /\ \A i, j \in DOMAIN cmds' : cmds'[i] = x /\ cmds'[j] = x => i = j
                      /\ cmd = x => x \notin Range(cmds')
    OBVIOUS
  <2>1. \A i \in DOMAIN cmds' : i + 1 \in DOMAIN cmds /\ cmds'[i] = cmds[i + 1] /\ i \in Nat
    BY <1>6
  <2>2. ASSUME NEW i \in DOMAIN cmds', NEW j \in DOMAIN cmds', cmds'[i] = x, cmds'[j] = x
        PROVE  i = j
    <3>1. i + 1 = j + 1 BY <2>1, <2>2
    <3> QED BY <2>1, <3>1
  <2>3. ASSUME cmd = x, x \in Range(cmds') PROVE FALSE
    <3>1. PICK i \in DOMAIN cmds' : cmds'[i] = x BY <2>3 DEF Range
    <3>2. 1 \in DOMAIN cmds /\ cmds[1] = x BY <1>6, <2>3
    <3>3. i + 1 = 1 BY <2>1, <3>1, <3>2
    <3> QED BY <2>1, <3>3, <1>6
  <2> QED BY <2>2, <2>3
<1>13. CloseSound'
  <2>1. /\ call.closing = "asked" <=> capsule \in Range(cmds)
        /\ \A i, j \in DOMAIN cmds : cmds[i] = capsule /\ cmds[j] = capsule => i = j
        /\ call.closing = "ok" <=> "application" \in Range(wire)
        /\ \A i \in DOMAIN wire : wire[i] = "application" => i < Len(wire) /\ wire[i + 1] = "fin"
    BY <1>8 DEF CloseSound
  <2>2. /\ \A i, j \in DOMAIN cmds' : cmds'[i] = capsule /\ cmds'[j] = capsule => i = j
        /\ cmd = capsule => capsule \notin Range(cmds')
    BY <1>12, <2>1
  <2>3. call'.closing = "asked" <=> capsule \in Range(cmds')
    BY <1>3, <1>6, <1>10, <2>1, <2>2
  <2>4. "application" \in Range(wire')
           <=> "application" \in Range(wire) \/ q = <<"application", "fin">>
    <3>1. ASSUME "application" \in Range(wire) PROVE "application" \in Range(wire')
      <4>1. PICK i \in 1 .. n : wire[i] = "application" BY <1>7, <3>1 DEF Range
      <4>2. i \in 1 .. Len(wire') /\ wire'[i] = "application" BY <1>7, <4>1
      <4> QED BY <1>7, <4>2 DEF Range
    <3>2. ASSUME q = <<"application", "fin">> PROVE "application" \in Range(wire')
      <4>1. Len(q) = 2 /\ q[1] = "application" BY <3>2
      <4>2. n + 1 \in 1 .. Len(wire') BY <1>7, <4>1
      <4> QED BY <1>7, <4>1, <4>2 DEF Range
    <3>3. ASSUME "application" \in Range(wire'), q # <<"application", "fin">>
          PROVE  "application" \in Range(wire)
      <4>1. PICK i \in 1 .. Len(wire') : wire'[i] = "application" BY <1>7, <3>3 DEF Range
      <4>2. i \in 1 .. n BY <1>7, <3>3, <4>1
      <4> QED BY <1>7, <4>1, <4>2 DEF Range
    <3> QED BY <3>1, <3>2, <3>3
  <2>5. q = <<"application", "fin">> <=> Writable /\ cmd.v = "application" BY <1>4 DEF Sends
  <2>6. call'.closing = "ok" <=> "application" \in Range(wire')
    <3>1. cmd.v = "application" => call.closing = "asked" BY <1>6, <1>10, <2>1
    <3>2. cmd.v = "application" => ~("application" \in Range(wire)) BY <2>1, <3>1
    <3> QED BY <1>3, <2>1, <2>4, <2>5, <3>2
  <2>7. ASSUME NEW i \in DOMAIN wire', wire'[i] = "application"
        PROVE  i < Len(wire') /\ wire'[i + 1] = "fin"
    <3>1. CASE i \in 1 .. n
      <4>1. i < n /\ wire[i + 1] = "fin" BY <1>7, <2>1, <2>7, <3>1 DEF n
      <4>2. i + 1 \in 1 .. n BY <1>7, <3>1, <4>1
      <4> QED BY <1>7, <4>1, <4>2
    <3>2. CASE q = <<"application", "fin">> /\ i = n + 1
      <4>1. Len(q) = 2 BY <3>2
      <4>2. Len(wire') = n + 2 /\ wire'[n + 2] = "fin" BY <1>7, <4>1
      <4>3. i + 1 = n + 2 /\ i < n + 2 BY <1>7, <3>2
      <4> QED BY <4>2, <4>3
    <3> QED BY <1>7, <2>7, <3>1, <3>2
  <2> QED BY <2>2, <2>3, <2>6, <2>7 DEF CloseSound, capsule
<1>14. ResetSound'
  <2>1. /\ \A i, j \in DOMAIN cmds : cmds[i] = reset /\ cmds[j] = reset => i = j
        /\ reset \in Range(cmds) \/ pc.recv \in {"pending", "receive"} => n <= 3
        /\ pc.recv \in {"pending", "receive"} => reset \notin Range(cmds)
        /\ n <= 4 /\ (~Ended => n = 1)
    BY <1>8 DEF ResetSound, n, reset
  <2>2. /\ \A i, j \in DOMAIN cmds' : cmds'[i] = reset /\ cmds'[j] = reset => i = j
        /\ cmd = reset => reset \notin Range(cmds')
    BY <1>12, <2>1
  <2>3. reset \in Range(cmds') => reset \in Range(cmds) BY <1>6
  <2>4. /\ Len(q) <= IF Writable THEN 2 ELSE 1
        /\ ~Writable /\ q # <<>> => cmd.k = "reset"
        /\ Writable => Len(wire) = 1 /\ q # <<>>
    BY <1>4 DEF Sends
  <2>5. CASE Writable
    <3>1. n = 1 /\ Len(q) <= 2 /\ Ended' BY <1>7, <2>4, <2>5 DEF n
    <3>2. Len(wire') <= 3 BY <1>7, <3>1
    <3>3. Len(wire') <= 4 BY <1>7, <3>2
    <3> QED BY <1>1, <2>1, <2>2, <2>3, <3>1, <3>2, <3>3 DEF ResetSound, reset
  <2>6. CASE q = <<>>
    <3>1. wire' = wire BY <1>7, <2>6
    <3>2. Ended' <=> Ended BY <3>1 DEF Ended
    <3> QED BY <1>1, <2>1, <2>2, <2>3, <3>1, <3>2 DEF ResetSound, reset, n
  <2>7. CASE ~Writable /\ q # <<>>
    <3>1. cmd = reset /\ Len(q) <= 1 /\ Ended' BY <1>7, <1>11, <2>4, <2>7
    <3>2. reset \in Range(cmds) /\ reset \notin Range(cmds') BY <1>6, <2>2, <3>1
    <3>3. n <= 3 /\ pc.recv \notin {"pending", "receive"} BY <2>1, <3>2
    <3>4. Len(wire') <= 4 BY <1>7, <3>1, <3>3
    <3> QED BY <1>1, <2>2, <3>1, <3>2, <3>3, <3>4 DEF ResetSound, reset
  <2> QED BY <2>5, <2>6, <2>7
<1>15. AnswerSound'
  <2> SUFFICES ASSUME ~Dropped, call'.closing = "none", conn = "up"
               PROVE  /\ task.saw = "none" /\ pc.recv # "done" => FALSE
                      /\ task.saw = "violation" => Said("flow control")'
                      /\ task.saw = "malformed" => Said("reset")'
    BY <1>1 DEF AnswerSound, Dropped
  <2>1. call.closing = "none" BY <1>3
  <2>2. /\ task.saw = "none" /\ pc.recv # "done" => cmds = <<>> /\ n = 1
        /\ task.saw = "violation" => Asked(Item("capsule", "flow control")) \/ Said("flow control")
        /\ task.saw = "malformed" => Asked(reset) \/ Said("reset")
    BY <1>8, <2>1 DEF AnswerSound, n, reset
  <2>3. ASSUME NEW x, Said(x) PROVE Said(x)'
    <3>1. n >= 2 /\ wire[2] = x BY <2>3 DEF Said, n
    <3>2. 2 \in 1 .. n /\ Len(wire') >= 2 BY <1>7, <3>1
    <3> QED BY <1>7, <3>1, <3>2 DEF Said
  <2>4. ASSUME NEW x, n = 1, q # <<>>, q[1] = x, Len(q) = 1 \/ Len(q) = 2 PROVE Said(x)'
    <3>1. wire'[n + 1] = x /\ Len(wire') >= 2 /\ n + 1 = 2 BY <1>7, <2>4
    <3> QED BY <3>1 DEF Said
  <2>5. ASSUME n = 1 PROVE Writable
    <3>1. \A i \in DOMAIN wire : i = 1 BY <1>7, <2>5
    <3>2. ~Ended BY <1>8, <3>1 DEF Ended, Greetings
    <3> QED BY <3>2 DEF Writable
  <2>6. ASSUME Asked(reset) PROVE Said("reset")'
    <3>1. cmd = reset /\ n = 1 BY <2>6 DEF Asked, cmd, n
    <3>2. q = <<"reset">> BY <1>4, <1>11, <2>5, <3>1 DEF Sends
    <3>3. q[1] = "reset" /\ Len(q) = 1 /\ q # <<>> BY <3>2
    <3> QED BY <2>4, <3>1, <3>3
  <2>7. ASSUME Asked(Item("capsule", "flow control")) PROVE Said("flow control")'
    <3>1. cmd = Item("capsule", FlowControl) /\ n = 1 BY <2>7 DEF Asked, cmd, n, FlowControl
    <3>2. cmd.v = FlowControl BY <3>1 DEF Item
    <3>3. q = <<FlowControl, "fin">> BY <1>4, <2>5, <3>1, <3>2 DEF Sends
    <3>4. q[1] = FlowControl /\ Len(q) = 2 /\ q # <<>> BY <3>3
    <3>5. Said(FlowControl)' BY <2>4, <3>1, <3>4
    <3> QED BY <3>5 DEF FlowControl
  <2> QED BY <1>1, <2>2, <2>3, <2>6, <2>7
<1>16. WireInv'
  <2>1. 1 \in 1 .. n /\ Len(wire') >= 1 BY <1>7, <1>9
  <2>2. wire' # <<>> /\ wire'[1] \in Greetings BY <1>7, <1>8, <2>1
  <2>3. ASSUME NEW i \in 2 .. Len(wire') PROVE wire'[i] \notin Greetings
    <3>1. i \in 1 .. Len(wire') BY <1>7
    <3>2. CASE i \in 1 .. n
      <4>1. i \in 2 .. n BY <1>7, <3>2
      <4> QED BY <1>7, <1>8, <3>2, <4>1
    <3> QED BY <1>7, <3>1, <3>2
  <2>4. pc.recv \in {"pending", "receive"} => task.saw = "none" BY <1>2 DEF Opened
  <2> QED BY <1>1, <1>2, <1>13, <1>14, <1>15, <2>2, <2>3, <2>4 DEF WireInv, Opened
<1>17. Types' BY <1>1, <1>3, <1>6, <1>7, TypesKept DEF Types
<1>18. DataInv' BY <1>1, DataSame DEF DriverInv
<1>19. CreditInv' BY <1>1, CreditSame DEF DriverInv
<1>20. SessionInv' BY <1>1, <1>3, SessionSame DEF DriverInv
<1> QED BY <1>16, <1>17, <1>18, <1>19, <1>20 DEF DriverInv

-----------------------------------------------------------------------------
(***************************************************************************)
(* The peer puts one more item on the CONNECT stream.                      *)
(***************************************************************************)
LEMMA ArriveTypes ==
  ASSUME Types, NEW item \in Items, Arrive(item)
  PROVE  /\ Types' /\ Range(sent) \subseteq Range(sent)' /\ Granted \subseteq Granted'
         /\ \A S : HasSent(S)' <=> HasSent(S) \/ item.k \in S
         /\ inbox' = IF item.k = "reset" THEN <<item>> ELSE Append(inbox, item)
         /\ sent \in Seq(Items) /\ inbox \in Seq(Range(sent)')
<1>1. /\ sent \in Seq(Items) /\ inbox \in Seq(Range(sent)) /\ sent' = Append(sent, item)
      /\ inbox' = IF item.k = "reset" THEN <<item>> ELSE Append(inbox, item)
      /\ UNCHANGED <<scope, conn, ctl, h3, pc, permit, call, task, fc, events, cmds, wire, data>>
  BY DEF Types, Arrive
<1> DEFINE n == Len(sent)
<1>2. /\ sent' \in Seq(Items) /\ Len(sent') = n + 1 /\ n \in Nat
      /\ \A i \in 1 .. n : sent'[i] = sent[i]
      /\ sent'[n + 1] = item /\ Range(sent') = Range(sent) \cup {item}
      /\ DOMAIN sent = 1 .. n /\ DOMAIN sent' = 1 .. n + 1
  BY <1>1, AppendFacts
<1> HIDE DEF n
<1>3. 1 .. n \subseteq 1 .. n + 1 /\ n + 1 \in 1 .. n + 1
      /\ (\A i \in 1 .. n + 1 : i \in 1 .. n \/ i = n + 1)
  BY <1>2
<1>4. ASSUME NEW S PROVE HasSent(S)' <=> HasSent(S) \/ item.k \in S
  BY <1>2, <1>3 DEF HasSent
<1>5. Granted \subseteq Granted'
  <2> SUFFICES ASSUME NEW m \in Granted PROVE m \in Granted' OBVIOUS
  <2>1. CASE m = scope.limit BY <1>1, <2>1 DEF Granted
  <2>2. CASE m \in {sent[i].v : i \in Of(sent, {"max"})}
    <3>1. PICK i \in Of(sent, {"max"}) : m = sent[i].v BY <2>2
    <3>2. i \in 1 .. n /\ sent[i].k \in {"max"} BY <1>2, <3>1 DEF Of
    <3>3. sent'[i] = sent[i] /\ i \in 1 .. n + 1 BY <1>2, <1>3, <3>2
    <3>4. i \in Of(sent', {"max"}) BY <1>2, <3>2, <3>3 DEF Of
    <3> QED BY <3>1, <3>3, <3>4 DEF Granted
  <2> QED BY <2>1, <2>2 DEF Granted
<1>6. Kinds' = Kinds /\ Items' = Items
  <2>1. Kinds' = Kinds BY <1>1 DEF Kinds, HeaderKinds
  <2> QED BY <2>1 DEF Items
<1>7. Capsules \subseteq Capsules' BY <1>2 DEF Capsules
<1>8. Events \subseteq Events' BY <1>5, <1>6 DEF Events
<1>9. Range(sent) \subseteq Range(sent)' BY <1>2
<1>10. \A q \in Seq(Events) : q \in Seq(Events') BY <1>8, SeqMonotonic
<1>11. \A q \in Seq(Capsules) : q \in Seq(Capsules') BY <1>7, SeqMonotonic
<1>12. \A q \in Seq(Granted) : q \in Seq(Granted') BY <1>5, SeqMonotonic
<1>13. \A q \in Seq(Range(sent)) : q \in Seq(Range(sent)') BY <1>9, SeqMonotonic
<1>14. h3' \in Connections'
  <2>1. h3 \in Connections BY DEF Types
  <2>2. h3.parked \in Seq(Range(sent)) /\ h3.caps \in Seq(Capsules) /\ h3.events \in Seq(Events)
    BY <2>1 DEF Connections
  <2>3. h3.parked \in Seq(Range(sent)') /\ h3.caps \in Seq(Capsules') /\ h3.events \in Seq(Events')
    BY <1>10, <1>11, <1>13, <2>2
  <2> QED BY <1>1, <2>1, <2>3 DEF Connections
<1>15. call' \in Calls'
  <2>1. call \in Calls BY DEF Types
  <2>2. call.events \in Seq(Events') /\ call.caps \in Seq(Granted')
    BY <1>10, <1>12, <2>1 DEF Calls
  <2> QED BY <1>1, <2>1, <2>2 DEF Calls
<1>16. events' \in Seq(Events') BY <1>1, <1>10 DEF Types
<1>17. inbox \in Seq(Range(sent)') BY <1>1, <1>13
<1>18. inbox' \in Seq(Range(sent)')
  <2>1. item \in Range(sent)' BY <1>2
  <2>2. <<item>> \in Seq(Range(sent)') BY <2>1
  <2>3. Append(inbox, item) \in Seq(Range(sent)') BY <1>17, <2>1, AppendProperties
  <2> QED BY <1>1, <2>2, <2>3
<1>19. Types' BY <1>1, <1>2, <1>6, <1>14, <1>15, <1>16, <1>18 DEF Types
<1> QED BY <1>1, <1>4, <1>5, <1>9, <1>17, <1>19

(* One more item keeps the invariant if it may follow what was sent.       *)
LEMMA ArriveStep ==
  ASSUME DriverInv, NEW item \in Items, Arrive(item), ~Over,
         item.k = "interim" \/ Response(item) => ~Responded,
         item.k \in {"max", "drain", "close", "half"} => HasSent({"ok", "late"})
  PROVE  DriverInv'
<1>1. /\ Types /\ SessionInv /\ Ordered(inbox) /\ CapsulesFollow
      /\ sent' = Append(sent, item)
      /\ UNCHANGED <<scope, conn, ctl, h3, pc, permit, call, task, fc, events, cmds, wire, data>>
  BY DEF DriverInv, SessionInv, Arrive
<1>2. /\ Types' /\ Granted \subseteq Granted'
      /\ \A S : HasSent(S)' <=> HasSent(S) \/ item.k \in S
      /\ inbox' = IF item.k = "reset" THEN <<item>> ELSE Append(inbox, item)
      /\ sent \in Seq(Items) /\ inbox \in Seq(Range(sent)) /\ inbox \in Seq(Range(sent)')
  BY <1>1, ArriveTypes DEF Types
<1> DEFINE n == Len(inbox)
<1>3. item \in Range(sent)'
  BY <1>1, <1>2, AppendFacts
<1>4. /\ n \in Nat /\ DOMAIN inbox = 1 .. n /\ \A i \in 1 .. n : inbox[i] \in Range(sent)
      /\ item.k = "reset" => /\ DOMAIN inbox' = 1 .. 1 /\ inbox'[1] = item
      /\ item.k # "reset" => /\ DOMAIN inbox' = 1 .. n + 1 /\ inbox'[n + 1] = item
                             /\ \A i \in 1 .. n : inbox'[i] = inbox[i]
  <2>1. Append(inbox, item)[n + 1] = item /\ DOMAIN Append(inbox, item) = 1 .. n + 1
        /\ (\A i \in 1 .. n : Append(inbox, item)[i] = inbox[i]) /\ n \in Nat
        /\ DOMAIN inbox = 1 .. n
    BY <1>2, <1>3, AppendFacts
  <2>2. \A i \in 1 .. n : inbox[i] \in Range(sent) BY <1>2
  <2>3. DOMAIN <<item>> = 1 .. 1 /\ <<item>>[1] = item OBVIOUS
  <2> QED BY <1>2, <2>1, <2>2, <2>3
<1> HIDE DEF n
<1>5. ASSUME NEW x \in Range(sent), ~Responded PROVE x.k = "interim"
  BY <1>1, <1>5, InboxFacts
<1>6. item.k = "reset" => ~Response(item) BY DEF Response
<1>7. Ordered(inbox')
  <2> SUFFICES ASSUME NEW j \in DOMAIN inbox', Response(inbox'[j]), NEW i \in 1 .. j - 1
               PROVE  inbox'[i].k = "interim"
    BY DEF Ordered
  <2>1. item.k # "reset"
    <3> SUFFICES ASSUME item.k = "reset" PROVE FALSE OBVIOUS
    <3>1. j = 1 BY <1>4
    <3> QED BY <1>4, <1>6, <3>1
  <2>2. CASE j \in 1 .. n
    <3>1. i \in 1 .. n BY <1>4, <2>2
    <3>2. Response(inbox[j]) BY <1>4, <2>1, <2>2
    <3>3. inbox[i].k = "interim" BY <1>1, <1>4, <2>2, <3>2 DEF Ordered
    <3> QED BY <1>4, <2>1, <3>1, <3>3
  <2>3. CASE j = n + 1
    <3>1. i \in 1 .. n BY <1>4, <2>3
    <3>2. ~Responded BY <1>4, <2>1, <2>3
    <3>3. inbox[i].k = "interim" BY <1>4, <1>5, <3>1, <3>2
    <3> QED BY <1>4, <2>1, <3>1, <3>3
  <2> QED BY <1>4, <2>1, <2>2, <2>3
<1>8. HasResponse(inbox') => HasResponse(inbox) \/ Response(item)
  <2> SUFFICES ASSUME NEW j \in DOMAIN inbox', Response(inbox'[j]), ~Response(item)
               PROVE  HasResponse(inbox)
    BY DEF HasResponse
  <2>1. item.k # "reset" /\ j \in 1 .. n
    <3>1. CASE item.k = "reset" BY <1>4, <3>1
    <3>2. CASE item.k # "reset" BY <1>4, <3>2
    <3> QED BY <3>1, <3>2
  <2> QED BY <1>4, <2>1 DEF HasResponse
<1>9. Response(item) => ~HasResponse(inbox) \/ ~Over OBVIOUS
<1>10. Coming' => Coming
  <2>1. /\ Responded' <=> Responded \/ Response(item)
        /\ Over' <=> Over \/ item.k \in {"fin", "reset"}
    <3>1. Responded' <=> Responded \/ item.k \in {"ok", "late", "no", "malformed", "badproto", "get"}
      BY <1>2 DEF Responded
    <3>2. Over' <=> Over \/ item.k \in {"fin", "reset"} BY <1>2 DEF Over
    <3> QED BY <3>1, <3>2 DEF Response
  <2>2. Coming' <=> HasResponse(inbox') \/ (~Responded' /\ ~Over') BY DEF Coming, Awaits, HasResponse, Response
  <2>3. Coming <=> HasResponse(inbox) \/ (~Responded /\ ~Over) BY DEF Coming, Awaits
  <2> QED BY <1>8, <2>1, <2>2, <2>3
<1>11. h3' \in Connections' /\ h3' = h3 BY <1>1, <1>2 DEF Types
<1>12. Establishing => Establishing'
  <2>1. Complete(h3.events)' <=> Complete(h3.events) BY <1>1 DEF Complete
  <2>2. HandshakeSound(h3, HasClosed(call.events), Coming)
           => HandshakeSound(h3, HasClosed(call.events), Coming)'
    BY <1>1, <1>10, <1>11, <2>1 DEF HandshakeSound, ParkedSound
  <2>3. EstablishingWith(pc.app, h3, call.events, Coming)
           => EstablishingWith(pc.app, h3, call.events, Coming)'
    BY <1>1, <1>10, <2>1, <2>2 DEF EstablishingWith, Early
  <2> QED BY <1>1, <2>3 DEF Establishing
<1>13. Reading => Reading' BY <1>1, <1>10 DEF Reading, ReadingWith
<1>14. EndTold => EndTold' BY <1>1 DEF EndTold, Dropped
<1>15. CapsulesFollow'
  <2> SUFFICES ASSUME NEW i \in DOMAIN sent', sent'[i].k \in {"max", "drain", "close", "half"}
               PROVE  HasSent({"ok", "late"})'
    BY DEF CapsulesFollow
  <2>1. CASE i \in DOMAIN sent /\ sent'[i] = sent[i]
    <3>1. HasSent({"ok", "late"}) BY <1>1, <2>1 DEF CapsulesFollow
    <3> QED BY <1>2, <3>1
  <2>2. CASE sent'[i] = item BY <1>2, <2>2
  <2>3. (i \in DOMAIN sent /\ sent'[i] = sent[i]) \/ sent'[i] = item
    <3> DEFINE m == Len(sent)
    <3>1. /\ m \in Nat /\ DOMAIN sent = 1 .. m /\ DOMAIN sent' = 1 .. m + 1
          /\ sent'[m + 1] = item /\ \A k \in 1 .. m : sent'[k] = sent[k]
      BY <1>1, <1>2, AppendFacts
    <3> HIDE DEF m
    <3> QED BY <3>1
  <2> QED BY <2>1, <2>2, <2>3
<1>16. Ordered(inbox)' BY <1>7 DEF Ordered, Response
<1>17. SessionInv' BY <1>1, <1>12, <1>13, <1>14, <1>15, <1>16 DEF SessionInv
<1>18. DataInv' BY <1>1, DataSame DEF DriverInv
<1>19. CreditInv' BY <1>1, <1>2 DEF DriverInv, CreditInv
<1>20. WireInv' BY <1>1, WireSame DEF DriverInv
<1> QED BY <1>2, <1>17, <1>18, <1>19, <1>20 DEF DriverInv

(* The peer sends a header section.                                        *)
LEMMA PeerHeadersStep == ASSUME DriverInv, PeerHeaders PROVE DriverInv'
<1>1. Types /\ scope \in Scopes /\ ~Over /\ ~Responded BY DEF DriverInv, PeerHeaders, Types
<1>2. PICK k \in scope.headers : Arrive(Item(k, 0)) BY DEF PeerHeaders
<1> DEFINE item == Item(k, 0)
<1>3. /\ k \in Kinds /\ 0 \in 0 .. MaxLimit
      /\ k \in {"ok", "interim", "no", "malformed", "badproto", "late", "get"}
  <2>1. k \in HeaderKinds[scope.role] /\ scope.role \in {"client", "server"} /\ MaxLimit \in Nat
    BY <1>1, <1>2, RoleFacts
  <2>2. k \in Kinds BY <2>1 DEF Kinds
  <2> QED BY <2>1, <2>2 DEF HeaderKinds
<1>4. item \in Items /\ item.k = k BY <1>3 DEF Items, Item
<1>5. item.k \notin {"max", "drain", "close", "half"} BY <1>3, <1>4
<1> HIDE DEF item
<1>6. Arrive(item) BY <1>2 DEF item
<1> QED BY <1>1, <1>4, <1>5, <1>6, ArriveStep

(* The peer sends a capsule.                                               *)
LEMMA PeerCapsuleStep == ASSUME DriverInv, PeerCapsule PROVE DriverInv'
<1>1. Types /\ scope \in Scopes /\ ~Over /\ HasSent({"ok", "late"})
  BY DEF DriverInv, PeerCapsule, Types
<1>2. PICK x \in scope.capsules : Arrive(x) BY DEF PeerCapsule
<1>3. x \in Items /\ x.k \in {"max", "drain", "close", "half"}
  <2>1. x \in [k : {"max", "drain", "close", "half"}, v : 0 .. MaxLimit]
    BY <1>1, <1>2, RoleFacts
  <2>2. x.k \in Kinds BY <2>1 DEF Kinds
  <2> QED BY <2>1, <2>2 DEF Items
<1>4. x.k # "interim" /\ ~Response(x) BY <1>3 DEF Response
<1> QED BY <1>1, <1>2, <1>3, <1>4, ArriveStep

(* The peer ends the stream, or resets it.                                 *)
LEMMA PeerEndsStep == ASSUME DriverInv, PeerEnds PROVE DriverInv'
<1>1. Types /\ scope \in Scopes /\ ~Over BY DEF DriverInv, PeerEnds, Types
<1>2. PICK k \in {"fin", "reset"} : Arrive(Item(k, 0)) BY DEF PeerEnds
<1> DEFINE item == Item(k, 0)
<1>3. k \in Kinds /\ 0 \in 0 .. MaxLimit BY <1>1, RoleFacts DEF Kinds
<1>4. item \in Items /\ item.k = k BY <1>3 DEF Items, Item
<1>5. item.k # "interim" /\ ~Response(item) /\ item.k \notin {"max", "drain", "close", "half"}
  BY <1>4 DEF Response
<1> HIDE DEF item
<1>6. Arrive(item) BY <1>2 DEF item
<1> QED BY <1>1, <1>4, <1>5, <1>6, ArriveStep

-----------------------------------------------------------------------------
(***************************************************************************)
(* The invariant holds at the start, and every step keeps it.              *)
(***************************************************************************)
LEMMA InitStep == ASSUME Init PROVE DriverInv
<1>1. /\ scope \in Scopes /\ conn = "up" /\ inbox = <<>> /\ ctl = <<>> /\ events = <<>>
      /\ cmds = <<>> /\ wire = <<>> /\ sent = <<>>
      /\ h3 = [settings |-> FALSE, inserted |-> FALSE, goaway |-> FALSE, error |-> FALSE,
               ses |-> "none", ended |-> "none", parked |-> <<>>, caps |-> <<>>, half |-> FALSE,
               events |-> <<>>]
      /\ pc = [app |-> IF scope.role = "client" THEN "wait" ELSE "accept", ctl |-> "receive",
               acceptor |-> "accept", recv |-> "none", route |-> "header"]
      /\ call = [events |-> <<>>, caps |-> <<>>, result |-> "none", closing |-> "none"]
      /\ task = [delivered |-> FALSE, saw |-> "none"]
      /\ fc = [enabled |-> FALSE, limit |-> 0, used |-> 0]
      /\ data = [total |-> 0, arrived |-> <<>>, fin |-> FALSE, buf |-> <<>>, pending |-> <<>>,
                 read |-> <<>>, chan |-> 0, held |-> FALSE]
  BY DEF Init
<1>2. MaxLimit \in Nat /\ UniCapacity \in Nat BY <1>1, RoleFacts
<1>3. \A S : <<>> \in Seq(S) OBVIOUS
<1>4. h3 \in Connections BY <1>1, <1>3 DEF Connections
<1>5. pc \in Places /\ pc.app \in {"wait", "accept"} /\ pc.recv = "none" /\ pc.route = "header"
  <2> DEFINE a == IF scope.role = "client" THEN "wait" ELSE "accept"
  <2>1. a \in {"wait", "accept"} OBVIOUS
  <2>2. pc = [app |-> a, ctl |-> "receive", acceptor |-> "accept", recv |-> "none",
              route |-> "header"]
    BY <1>1
  <2> HIDE DEF a
  <2> QED BY <2>1, <2>2 DEF Places, AppPlaces, RecvPlaces
<1>6. call \in Calls BY <1>1, <1>3 DEF Calls
<1>7. data \in DataStreams BY <1>1, <1>2, <1>3 DEF DataStreams
<1>8. /\ task \in [delivered : BOOLEAN, saw : {"none", "violation", "malformed"}]
      /\ fc \in [enabled : BOOLEAN, limit : 0 .. MaxLimit, used : 0 .. MaxLimit + 1]
  BY <1>1, <1>2
<1>9. Types BY <1>1, <1>3, <1>4, <1>5, <1>6, <1>7, <1>8 DEF Types
<1>10. DataInv
  <2>1. Numbers(0, 0) = <<>> BY DEF Numbers
  <2> QED BY <1>1, <1>5, <2>1 DEF DataInv
<1>11. CreditInv BY <1>1 DEF CreditInv
<1>12. SessionInv
  <2>1. Ordered(inbox) /\ CapsulesFollow BY <1>1 DEF Ordered, CapsulesFollow
  <2>2. ~HasClosed(<<>>) /\ Once(<<>>) /\ \A c : Tells(<<>>, c) BY NoEvents
  <2>3. ~Complete(h3.events) BY <1>1 DEF Complete, Of
  <2>4. EndSound(h3, HasClosed(call.events)) BY <1>1, <2>2 DEF EndSound
  <2>5. HandshakeSound(h3, HasClosed(call.events), Coming)
    BY <1>1, <1>4, <2>3, <2>4 DEF HandshakeSound, ParkedSound
  <2>6. ~Began(h3) BY <1>1 DEF Began
  <2>7. EstablishingWith(pc.app, h3, call.events, Coming)
    BY <1>1, <1>5, <2>2, <2>3, <2>5, <2>6 DEF EstablishingWith, Early
  <2>8. Establishing BY <1>1, <1>5, <2>7 DEF Establishing
  <2> QED BY <1>5, <2>1, <2>8 DEF SessionInv
<1>13. WireInv BY <1>1, <1>5 DEF WireInv, Unopened
<1> QED BY <1>9, <1>10, <1>11, <1>12, <1>13 DEF DriverInv

(* Nothing changes.                                                        *)
LEMMA SameStep == ASSUME DriverInv, UNCHANGED vars PROVE DriverInv'
<1>1. /\ Types /\ h3 \in Connections
      /\ UNCHANGED <<scope, conn, inbox, ctl, h3, pc, call, task, fc, events, cmds, wire, data,
                     sent>>
  BY DEF DriverInv, Types, vars
<1>2. Types' BY <1>1, TypesKept DEF Types
<1>3. DataInv' BY <1>1, DataSame DEF DriverInv
<1>4. CreditInv' BY <1>1, CreditSame DEF DriverInv
<1>5. SessionInv' BY <1>1, SessionSame DEF DriverInv
<1>6. WireInv' BY <1>1, WireSame DEF DriverInv
<1> QED BY <1>2, <1>3, <1>4, <1>5, <1>6 DEF DriverInv

(* Every step keeps the invariant.                                         *)
LEMMA NextStep == ASSUME DriverInv, [Next]_vars PROVE DriverInv'
<1>1. ASSUME Connecting PROVE DriverInv'
  BY <1>1, AcceptConnectStep, CheckSettingsStep, SettingsNotifiedStep, SettingsClosedStep,
     SendConnectStep, HandshakeDrainStep, HandshakeReceiveStep, HandshakeLostStep,
     HandshakeNotifiedStep, RejectStep, AcceptStep, CollectStep, StartStep DEF Connecting
<1>2. ASSUME Receiving PROVE DriverInv'
  BY <1>2, RecvPendingStep, RecvReceiveStep, RecvLostStep, RecvResidualStep, RecvFinishStep
  DEF Receiving
<1>3. CASE RecvAborted BY <1>3, RecvAbortedStep
<1>4. CASE SendCommand BY <1>4, SendCommandStep
<1>5. CASE UniReceive \/ UniNotify \/ AcceptorEnds
  BY <1>5, UniReceiveStep, UniNotifyStep, AcceptorEndsStep
<1>6. ASSUME NEW n \in 1 .. 2, Use(n) PROVE DriverInv' BY <1>6, UseStep
<1>7. CASE Close \/ DropSession BY <1>7, CloseStep, DropSessionStep
<1>8. CASE RouteUni \/ HandOver \/ AcceptUni \/ AcceptBi \/ ReadData
  BY <1>8, RouteUniStep, HandOverStep, AcceptUniStep, AcceptBiStep, ReadDataStep
<1>9. CASE PeerHeaders \/ PeerCapsule \/ PeerEnds
  BY <1>9, PeerHeadersStep, PeerCapsuleStep, PeerEndsStep
<1>10. ASSUME NEW k \in {"settings", "insert", "goaway", "critical"}, ControlArrives(k)
       PROVE  DriverInv'
  BY <1>10, ControlArrivesStep
<1>11. CASE DataArrives \/ ConnectionLost BY <1>11, DataArrivesStep, ConnectionLostStep
<1>12. CASE UNCHANGED vars BY <1>12, SameStep
<1> QED
  BY <1>1, <1>2, <1>3, <1>4, <1>5, <1>6, <1>7, <1>8, <1>9, <1>10, <1>11, <1>12 DEF Next

\* What the tasks, the stream and the connection keep to holds in every state
\* that can be reached, for all scopes.
THEOREM SessionInvariant == Spec => []DriverInv
<1>1. Init => DriverInv BY InitStep
<1>2. DriverInv /\ [Next]_vars => DriverInv' BY NextStep
<1> QED BY <1>1, <1>2, PTL DEF Spec

-----------------------------------------------------------------------------
(***************************************************************************)
(* What the invariant comes to.                                            *)
(***************************************************************************)

(* What has been delivered tells of one end at most, and of the right one. *)
LEMMA DeliveredFacts ==
  ASSUME DriverInv
  PROVE  /\ Once(events)
         /\ h3.ended = "none" \/ h3.error \/ task.saw = "violation" \/ Tells(events, h3.ended)
         /\ pc.recv \in {"finish", "done"} => HasClosed(events) \/ Dropped
<1>1. Types /\ SessionInv BY DEF DriverInv
<1>2. CASE events = <<>> /\ pc.recv \in {"none", "pending"} BY <1>2, NoEvents
<1>3. CASE pc.recv \in {"receive", "residual"}
  <2>1. pc.app \in {"open", "dropped"} BY <1>1, <1>3, UnopenedFacts DEF SessionInv
  <2>2. Reading BY <1>1, <1>3, <2>1 DEF SessionInv
  <2>3. ReadingWith(h3, events, Coming) BY <1>3, <2>2 DEF Reading
  <2> QED BY <1>3, <2>3 DEF ReadingWith
<1>4. CASE pc.recv \in {"finish", "done", "aborted"}
  <2>1. pc.app \in {"open", "dropped"} BY <1>1, <1>4, UnopenedFacts DEF SessionInv
  <2>2. EndTold BY <1>1, <1>4, <2>1 DEF SessionInv
  <2> QED BY <2>2 DEF EndTold
<1>5. \/ events = <<>> /\ pc.recv \in {"none", "pending"}
      \/ pc.recv \in {"receive", "residual"}
      \/ pc.recv \in {"finish", "done", "aborted"}
  <2>1. pc \in Places BY <1>1 DEF Types
  <2>2. pc.recv \in RecvPlaces BY <2>1 DEF Places
  <2>3. CASE pc.recv = "none"
    <3>1. pc.app = "failed" => events = <<>> BY <1>1 DEF SessionInv
    <3>2. pc.app \in {"open", "dropped"} => pc.recv # "none" BY <1>1 DEF SessionInv
    <3>3. pc.app \notin {"open", "dropped", "failed"} => events = <<>> BY UnopenedFacts
    <3> QED BY <2>3, <3>1, <3>2, <3>3
  <2>4. CASE pc.recv = "pending"
    <3>1. pc.app \in {"open", "dropped"} BY <1>1, <2>4, UnopenedFacts DEF SessionInv
    <3>2. Reading BY <1>1, <2>4, <3>1 DEF SessionInv
    <3> QED BY <2>4, <3>2 DEF Reading
  <2> QED BY <2>2, <2>3, <2>4 DEF RecvPlaces
<1> QED BY <1>2, <1>3, <1>4, <1>5

(* The types the runs check.                                               *)
LEMMA ImpliesTypeOK == ASSUME DriverInv PROVE TypeOK
<1>1. Types BY DEF DriverInv
<1>2. /\ conn \in {"up", "lost", "closed"} /\ h3 \in Connections /\ pc \in Places
      /\ fc \in [enabled : BOOLEAN, limit : 0 .. MaxLimit, used : 0 .. MaxLimit + 1]
      /\ data \in DataStreams
  BY <1>1 DEF Types
<1>3. h3.ses \in {"none", "pending", "established", "draining", "closed"} BY <1>2 DEF Connections
<1>4. pc.app \in AppPlaces /\ pc.recv \in RecvPlaces BY <1>2 DEF Places
<1>5. fc.limit \in 0 .. MaxLimit /\ fc.used \in 0 .. MaxLimit + 1 BY <1>2
<1>6. data.chan \in 0 .. UniCapacity BY <1>2 DEF DataStreams
<1>7. Len(wire) <= 5
  <2>1. CASE pc.app \in {"open", "dropped"}
    <3>1. Len(wire) <= 4 BY <2>1 DEF DriverInv, WireInv, Opened, ResetSound
    <3>2. Len(wire) \in Nat BY <1>1 DEF Types
    <3> QED BY <3>1, <3>2
  <2>2. CASE pc.app = "failed"
    <3>1. Len(wire) <= 3 BY <2>2 DEF DriverInv, WireInv, Unopened
    <3>2. Len(wire) \in Nat BY <1>1 DEF Types
    <3> QED BY <3>1, <3>2
  <2>3. CASE pc.app \notin {"open", "dropped", "failed"}
    <3>1. wire \in {<<>>, <<"connect">>, <<"2xx">>} BY <2>3, UnopenedFacts
    <3>2. Len(<<>>) = 0 /\ Len(<<"connect">>) = 1 /\ Len(<<"2xx">>) = 1 OBVIOUS
    <3>3. Len(wire) = 0 \/ Len(wire) = 1 BY <3>1, <3>2, Zenon
    <3> QED BY <3>3
  <2> QED BY <2>1, <2>2, <2>3
<1> QED BY <1>2, <1>3, <1>4, <1>5, <1>6, <1>7, Zenon DEF TypeOK, AppPlaces, RecvPlaces

(* The end is delivered once, and it is the right one.                     *)
LEMMA ImpliesEndReported == ASSUME DriverInv PROVE EndReported
<1>1. /\ Once(events)
      /\ h3.ended = "none" \/ h3.error \/ task.saw = "violation" \/ Tells(events, h3.ended)
      /\ pc.recv \in {"finish", "done"} => HasClosed(events) \/ Dropped
  BY DeliveredFacts
<1>2. \A i, j \in Closings : i = j BY <1>1 DEF Once, Closed, Closings
<1>3. ASSUME Closings # {} PROVE SessionClosedOnce
  <2>1. PICK i : i \in Closings BY <1>3
  <2>2. Closings = {i} BY <1>2, <2>1
  <2>3. Cardinality(Closings) = 1 BY <2>2, FS_Singleton
  <2> QED BY <2>3 DEF SessionClosedOnce
<1>4. SessionClosedOnce
  <2>1. CASE Closings = {}
    <3>1. Cardinality(Closings) = 0 BY <2>1, FS_EmptySet
    <3>2. ~HasClosed(events) BY <2>1 DEF HasClosed, Closings
    <3> QED BY <1>1, <3>1, <3>2 DEF SessionClosedOnce
  <2> QED BY <1>3, <2>1
<1>5. CloseCodeKept BY <1>1 DEF CloseCodeKept, Tells, Closed, Closings
<1> QED BY <1>4, <1>5, ImpliesTypeOK DEF EndReported

(* The second word on the CONNECT stream is the answer.                    *)
LEMMA ImpliesLastWords == ASSUME DriverInv PROVE LastWords
<1>1. Types /\ wire \in Seq(Words) BY DEF DriverInv, Types
<1>2. MisuseAnswered
  <2> DEFINE T == {i \in DOMAIN wire : wire[i] \notin {"connect", "2xx"}}
             first == wire[Min(T)]
  <2> SUFFICES ASSUME pc.recv = "done", cmds = <<>>, conn = "up", ~Dropped, call.closing = "none"
               PROVE  /\ task.saw = "violation" => first = "flow control"
                      /\ task.saw = "malformed" => first = "reset"
    BY DEF MisuseAnswered
  <2>1. Opened BY OpenedFacts
  <2>2. /\ task.saw = "violation" => Said("flow control")
        /\ task.saw = "malformed" => Said("reset")
    BY <2>1 DEF Opened, AnswerSound, Asked
  <2>3. ASSUME NEW x, Said(x), x \notin Greetings PROVE first = x
    <3>1. Len(wire) >= 2 /\ wire[2] = x BY <2>3 DEF Said
    <3>2. wire[1] \in Greetings BY <2>1 DEF Opened
    <3>3. Len(wire) \in Nat /\ DOMAIN wire = 1 .. Len(wire) BY <1>1
    <3>4. T \subseteq Nat /\ 1 \notin T /\ 2 \in T BY <2>3, <3>1, <3>2, <3>3 DEF Greetings
    <3>5. 0 \notin T BY <3>3
    <3> HIDE DEF T
    <3>6. Min(T) \in T /\ Min(T) <= 2 BY <3>4, MinIs
    <3>7. Min(T) \in Nat /\ Min(T) # 0 /\ Min(T) # 1
      <4>1. Min(T) \in Nat BY <3>4, <3>6
      <4>2. \A m \in T : m # 0 /\ m # 1 BY <3>4, <3>5
      <4> QED BY <3>6, <4>1, <4>2
    <3>8. Min(T) = 2 BY <3>6, <3>7
    <3> QED BY <3>1, <3>8
  <2>4. "reset" \notin Greetings /\ "flow control" \notin Greetings BY DEF Greetings
  <2> QED BY <2>2, <2>3, <2>4
<1>3. CloseReported
  <2> DEFINE at == {i \in DOMAIN wire : wire[i] = "application"}
  <2>1. "application" \in Range(wire) <=> at # {} BY DEF Range
  <2>2. CASE pc.app \in {"open", "dropped"}
    <3>1. CloseSound BY <2>2 DEF DriverInv, WireInv, Opened
    <3>2. /\ call.closing = "ok" <=> "application" \in Range(wire)
          /\ \A i \in DOMAIN wire : wire[i] = "application" => i < Len(wire) /\ wire[i + 1] = "fin"
      BY <3>1 DEF CloseSound
    <3> QED BY <2>1, <3>2, Zenon DEF CloseReported
  <2>3. CASE pc.app \notin {"open", "dropped"}
    <3>1. call.closing # "ok" BY <2>3 DEF DriverInv, WireInv, Unopened
    <3>2. "application" \notin Range(wire)
      <4>1. CASE pc.app = "failed" BY <4>1 DEF DriverInv, WireInv, Unopened
      <4>2. CASE pc.app # "failed"
        <5>1. wire \in {<<>>, <<"connect">>, <<"2xx">>} BY <2>3, <4>2, UnopenedFacts
        <5> QED BY <5>1 DEF Range
      <4> QED BY <4>1, <4>2
    <3>3. at = {} BY <2>1, <3>2
    <3> QED BY <3>1, <3>3, Zenon DEF CloseReported
  <2> QED BY <2>2, <2>3
<1> QED BY <1>2, <1>3 DEF LastWords

(* The limit is granted, and what is read is the payload.                  *)
LEMMA ImpliesDataStreamsSound == ASSUME DriverInv PROVE DataStreamsSound
<1>1. CreditRespected BY DEF DriverInv, CreditInv, CreditRespected
<1>2. PayloadIntact BY DEF DriverInv, DataInv, PayloadIntact, Numbers
<1> QED BY <1>1, <1>2 DEF DataStreamsSound

-----------------------------------------------------------------------------
(* The theorems.                                                           *)

\* The application learns of the end of the session once, and with the code that
\* the connection recorded, wherever in the handshake the end arrived
\* (run_client_connect_recv_task).
THEOREM EndAlwaysReported == Spec => []EndReported
<1>1. DriverInv => EndReported BY ImpliesEndReported
<1> QED BY <1>1, SessionInvariant, PTL

\* What the peer did wrong is answered by what the draft asks for, and close()
\* reports what went out (send_capsule_and_finish, run_connect_send_task).
THEOREM LastWordsAlwaysKept == Spec => []LastWords
<1>1. DriverInv => LastWords BY ImpliesLastWords
<1> QED BY <1>1, SessionInvariant, PTL

\* No more is used than the peer has granted, and a data stream is read without
\* its header and without a gap (try_send_data, classify_uni_stream_header).
THEOREM DataStreamsAlwaysSound == Spec => []DataStreamsSound
<1>1. DriverInv => DataStreamsSound BY ImpliesDataStreamsSound
<1> QED BY <1>1, SessionInvariant, PTL
=============================================================================
