-------------------------- MODULE H3Driver_proofs --------------------------
(***************************************************************************)
(* For any number of requests, insertions and messages of any length: no   *)
(* task loses, duplicates or mixes up what it takes out of the connection, *)
(* and no wakeup of the application's call is lost.                        *)
(***************************************************************************)
EXTENDS H3Driver, SequenceTheorems, FiniteSetTheorems, TLAPS

-----------------------------------------------------------------------------
(* The inductive invariant.                                                *)

SectionItems == [k : {"section"}, ric : 0 .. MaxInserts, ok : BOOLEAN]
Plain(kinds) == [k : kinds, ric : {0}, ok : {TRUE}]
Items == SectionItems \cup Plain({"data", "fin", "reset"})
Kept == SectionItems \cup Plain({"data", "fin"})
UniItems == Plain({"insert", "settings", "close"})
Kinds == {"section", "data", "fin", "reset"}
Events == [n : Requests, k : Kinds]
Places == {"idle", "encode", "transmit", "drain", "select", "return", "respond", "reply",
           "receive", "notify", "notify last", "done", "dead"}
Calls == [n : 0 .. MaxRequests, got : Seq(Kinds), fin : BOOLEAN,
          result : {"none", "ok", "error"}]
Ticks == [Instructions -> Nat]
States == [inserts : Nat, next : Nat, parked : [Requests -> Seq(Kept)], events : Seq(Events),
           pend : Seq(Instructions), error : BOOLEAN, poisoned : BOOLEAN]
Rounds == [pc : Places \cup {"flush", "send"}, items : Seq(Instructions),
           then : Places \cup {"none"}]

Types ==
    /\ scope \in Scopes
    /\ conn \in {"up", "lost"}
    /\ inbox \in [Uni \cup Requests -> Seq(Items \cup UniItems)]
    /\ opened \in 0 .. MaxRequests /\ sent \subseteq Requests
    /\ h3 \in States
    /\ task \in [Tasks -> Rounds]
    /\ permit \in BOOLEAN
    /\ chan \in Seq(Instructions)
    /\ call \in Calls /\ results \in [Requests -> Calls]
    /\ msg \in [Requests -> Seq(Items)]
    /\ made \in Ticks /\ out \in Ticks

\* Where a task is, or goes when it has flushed.
Place(t) == IF task[t].pc \in {"flush", "send"} THEN task[t].then ELSE task[t].pc

AppPlaces == {"idle", "encode", "transmit", "drain", "select", "return", "respond", "reply",
              "dead"}

\* What a task has drained it is about to send; the tasks of the peer's streams
\* notify after every round; a poisoned mutex stops the caller.
RoundsSound ==
    /\ \A t \in Tasks : task[t].pc # "send" => task[t].items = <<>>
    /\ \A u \in Uni : /\ task[u].pc \in {"receive", "flush", "send", "notify", "notify last",
                                         "done", "dead"}
                      /\ task[u].pc \in {"flush", "send"}
                            => task[u].then \in {"notify", "notify last"}
    /\ Place(App) \in AppPlaces
    /\ h3.poisoned => Place(App) = "dead"

Before == {"encode", "transmit"}
Waiting == {"drain", "select"}

\* The call in progress: its number, and that it has no result before it is over.
CallSound ==
    /\ call.n <= opened
    /\ call.n = 0 => call.result = "none"
    /\ scope.role = "client" => call.n = opened
    /\ Place(App) \in Before => scope.role = "client"
    /\ Place(App) \in Before \cup Waiting => call.n > 0 /\ call.result = "none"
    /\ Place(App) \in {"return", "respond", "reply"} => call.n > 0 /\ call.result # "none"
    /\ Place(App) = "idle" /\ call.n > 0 => call.result # "none"
    /\ Place(App) \in Before \cup Waiting \cup {"return"} => results[call.n].result = "none"
    /\ Place(App) \in {"respond", "reply", "idle"} /\ call.n > 0 =>
          results[call.n].result = call.result
    /\ \A n \in Requests : n > call.n => results[n].result = "none"

\* Only the stream of the call is parked, and not when the call is over, unless
\* a latched error or the loss of the connection ended it.
ParkedSound ==
    /\ \A m, n \in Requests : h3.parked[m] # <<>> /\ h3.parked[n] # <<>> => m = n
    /\ \A n \in Requests : h3.parked[n] # <<>> =>
          /\ n <= call.n
          /\ ~h3.error => n = call.n
          /\ conn = "up" /\ ~h3.error => call.result = "none"
          /\ n = call.n => Place(App) \notin Before

\* The events are those of the call, or were left by earlier ones.
EventsSound ==
    /\ Place(App) = "select" => h3.events = <<>>
    /\ ~h3.error =>
          \/ \A i \in 1 .. Len(h3.events) : h3.events[i].n = call.n
          \/ /\ \A i \in 1 .. Len(h3.events) : h3.events[i].n < call.n
             /\ call.n \in Requests => h3.parked[call.n] = <<>>
    /\ \A i \in 1 .. Len(h3.events) : h3.events[i].n <= call.n

KindsOf(q) == [i \in 1 .. Len(q) |-> q[i].k]

\* FIN and RESET_STREAM are the last of a message.
Shaped(n) ==
    \A i \in 1 .. Len(msg[n]) : i < Len(msg[n]) => msg[n][i].k \notin {"fin", "reset"}

\* What the connection has read of the message to the call.
Seen == call.got \o EventsOf(h3, call.n) \o KindsOf(h3.parked[call.n])

\* What the call has got, the connection and QUIC hold is the message; a stream
\* that no call has taken up waits in QUIC.
FlowSound ==
    /\ ~h3.error /\ call.n > 0 /\ call.result = "none" =>
          \E rest \in Seq(Kinds) :
             /\ KindsOf(msg[call.n]) = Seen \o rest
             /\ conn = "up" => rest = KindsOf(inbox[call.n])
    /\ Place(App) \in Before => call.got = <<>>
    /\ \A n \in Requests : n > call.n /\ conn = "up" => inbox[n] = msg[n]
    /\ \A n \in Requests : n > opened => msg[n] = <<>>
    /\ \A n \in Requests : Shaped(n) /\ inbox[n] \in Seq(Items)
    /\ call.result = "ok" => KindsOf(msg[call.n]) = call.got /\ Ended(call.n)
    /\ \A n \in Requests :
          results[n].result = "ok" => KindsOf(msg[n]) = results[n].got /\ Ended(n)

InsertsIn(q) == Cardinality({i \in DOMAIN q : q[i].k = "insert"})

InsertsSound ==
    /\ h3.inserts + InsertsIn(inbox[Encoder]) <= MaxInserts
    /\ \A u \in Uni : inbox[u] \in Seq(UniItems)
    /\ \A i \in 1 .. Len(inbox[Control]) : inbox[Control][i].k # "insert"

\* The places an instruction can be.
Held(x) ==
    Count(chan, x) + Count(task[App].items, x) + Count(task[Control].items, x)
      + Count(task[Encoder].items, x) + Count(h3.pend, x)

Conserved == \A x \in Instructions : made[x] = out[x] + Held(x)

NoCallFailed == \A n \in Requests : results[n].result # "error"

\* The counters agree as long as no call has failed, and the mutex is poisoned
\* only afterwards.
IdsSound ==
    /\ scope.role = "client" /\ NoCallFailed /\ call.result # "error" =>
          h3.next = IF Place(App) = "encode" THEN opened ELSE opened + 1
    /\ h3.poisoned => ~NoCallFailed

\* Whoever makes something to wake up for notifies later.
Awake ==
    Place(App) = "select" /\ (Readable(h3) # {} \/ h3.error) =>
        permit \/ \E u \in Uni : task[u].pc \notin {"receive", "done"}

DriverIInv ==
    /\ Types /\ RoundsSound /\ CallSound /\ ParkedSound /\ EventsSound /\ FlowSound
    /\ InsertsSound /\ Conserved /\ IdsSound /\ Awake

-----------------------------------------------------------------------------
(* Counting in sequences, and the kinds of a sequence of items.            *)

Where(q, x) == {i \in DOMAIN q : q[i] = x}

LEMMA CountFinite ==
  ASSUME NEW T, NEW q \in Seq(T), NEW x
  PROVE  IsFiniteSet(Where(q, x)) /\ Count(q, x) = Cardinality(Where(q, x)) /\ Count(q, x) \in Nat
<1>1. Len(q) \in Int /\ 1 \in Int /\ DOMAIN q = 1 .. Len(q) BY LenProperties
<1>2. IsFiniteSet(1 .. Len(q)) BY <1>1, FS_Interval
<1>3. Where(q, x) \in SUBSET (1 .. Len(q)) BY <1>1 DEF Where
<1>4. IsFiniteSet(Where(q, x)) BY <1>2, <1>3, FS_Subset
<1>5. Count(q, x) = Cardinality(Where(q, x)) BY DEF Count, Where
<1> QED BY <1>4, <1>5, FS_CardinalityType

LEMMA CountNone ==
  ASSUME NEW q, q = <<>>, NEW x
  PROVE  Count(q, x) = 0
<1>1. {i \in DOMAIN q : q[i] = x} = {} OBVIOUS
<1> QED BY <1>1, FS_EmptySet DEF Count

LEMMA CountAppend ==
  ASSUME NEW T, NEW q \in Seq(T), NEW y \in T, NEW x
  PROVE  Count(Append(q, y), x) = IF y = x THEN Count(q, x) + 1 ELSE Count(q, x)
<1>0. PICK r : r = Append(q, y) OBVIOUS
<1>1. /\ r \in Seq(T) /\ Len(r) = Len(q) + 1 /\ r[Len(q) + 1] = y
      /\ \A i \in 1 .. Len(q) : r[i] = q[i]
  BY <1>0, AppendProperties
<1>2. DOMAIN r = 1 .. Len(q) + 1 /\ DOMAIN q = 1 .. Len(q) /\ Len(q) \in Nat
  BY <1>1, LenProperties
<1>3. /\ y = x => Where(r, x) = Where(q, x) \cup {Len(q) + 1}
      /\ y # x => Where(r, x) = Where(q, x)
  BY <1>1, <1>2 DEF Where
<1>4. Len(q) + 1 \notin Where(q, x) BY <1>2 DEF Where
<1>5. IsFiniteSet(Where(q, x)) /\ Count(q, x) = Cardinality(Where(q, x))
  BY CountFinite
<1>6. Count(r, x) = Cardinality(Where(r, x)) BY <1>1, CountFinite
<1>7. Cardinality(Where(q, x) \cup {Len(q) + 1}) = Cardinality(Where(q, x)) + 1
  BY <1>4, <1>5, FS_AddElement
<1>8. CASE y = x BY <1>0, <1>3, <1>5, <1>6, <1>7, <1>8
<1>9. CASE y # x BY <1>0, <1>3, <1>5, <1>6, <1>9
<1> QED BY <1>8, <1>9

(* The positions of x in two sequences one behind the other.               *)
LEMMA CountConcat ==
  ASSUME NEW T, NEW q \in Seq(T), NEW r \in Seq(T), NEW x
  PROVE  Count(q \o r, x) = Count(q, x) + Count(r, x)
<1> DEFINE m == Len(q)
           A == Where(q, x)
           B == Where(r, x)
           C == {i \in m + 1 .. m + Len(r) : r[i - m] = x}
<1>1. PICK s \in Seq(T) : s = q \o r BY ConcatProperties
<1>2. /\ Len(s) = m + Len(r) /\ m \in Nat /\ Len(r) \in Nat
      /\ \A i \in 1 .. m + Len(r) : s[i] = IF i <= m THEN q[i] ELSE r[i - m]
      /\ DOMAIN s = 1 .. m + Len(r) /\ DOMAIN q = 1 .. m /\ DOMAIN r = 1 .. Len(r)
  BY <1>1, ConcatProperties, LenProperties
<1>3. Where(s, x) = A \cup C BY <1>2 DEF Where
<1>4. A \cap C = {} BY <1>2 DEF Where
<1>5. /\ IsFiniteSet(A) /\ IsFiniteSet(B) /\ Count(q, x) = Cardinality(A)
      /\ Count(r, x) = Cardinality(B) /\ Count(s, x) = Cardinality(Where(s, x))
  BY <1>1, CountFinite
<1>6. ExistsBijection(B, C)
  <2> DEFINE f == [j \in B |-> m + j]
  <2>1. f \in [B -> C] BY <1>2 DEF Where
  <2>2. \A i, j \in B : f[i] = f[j] => i = j BY <1>2 DEF Where
  <2>3. ASSUME NEW i \in C PROVE \E j \in B : f[j] = i
    <3>1. i - m \in B BY <1>2, <2>3 DEF Where
    <3> QED BY <1>2, <3>1
  <2>4. f \in Bijection(B, C)
    BY <2>1, <2>2, <2>3, Zenon DEF Bijection, Injection, Surjection, IsInjective
  <2> QED BY <2>4 DEF ExistsBijection
<1>7. IsFiniteSet(C) /\ Cardinality(C) = Cardinality(B) BY <1>5, <1>6, FS_Bijection
<1>8. Cardinality(A \cup C) = Cardinality(A) + Cardinality(C) - Cardinality(A \cap C)
  BY <1>5, <1>7, FS_Union
<1>9. Cardinality(A) \in Nat /\ Cardinality(C) \in Nat /\ Cardinality({}) = 0
  BY <1>5, <1>7, FS_CardinalityType, FS_EmptySet
<1> HIDE DEF A, B, C
<1>10. PICK a \in Nat, c \in Nat : a = Cardinality(A) /\ c = Cardinality(C) BY <1>9
<1>11. Count(s, x) = a + c
  <2>1. Cardinality(A \cap C) = 0 BY <1>4, <1>9
  <2>2. Cardinality(A \cup C) = a + c BY <1>8, <1>10, <2>1
  <2>3. Count(s, x) = Cardinality(A \cup C) BY <1>3, <1>5
  <2> QED BY <2>2, <2>3
<1>12. Count(q, x) = a /\ Count(r, x) = c BY <1>5, <1>7, <1>10
<1> QED BY <1>1, <1>11, <1>12

(* A sequence is its first element and the rest.                           *)
LEMMA FirstAndRest ==
  ASSUME NEW T, NEW q \in Seq(T), q # <<>>, NEW none \in Seq(T), none = <<>>
  PROVE  /\ Head(q) \in T /\ Tail(q) \in Seq(T) /\ Append(none, Head(q)) \in Seq(T)
         /\ q = Append(none, Head(q)) \o Tail(q)
<1>1. PICK h \in T : h = Head(q) BY HeadTailProperties
<1>2. PICK t \in Seq(T) : t = Tail(q) BY HeadTailProperties
<1>3. PICK one \in Seq(T) : one = Append(none, h) BY <1>1, AppendProperties
<1>4. Len(none) = 0 BY EmptySeq
<1>5. Len(one) = 1 /\ one[1] = h BY <1>1, <1>3, <1>4, AppendProperties
<1>6. PICK both \in Seq(T) : both = one \o t BY <1>2, <1>3, ConcatProperties
<1>7. /\ Len(both) = Len(one) + Len(t)
      /\ \A i \in 1 .. Len(one) + Len(t) : both[i] = IF i <= Len(one) THEN one[i] ELSE t[i - Len(one)]
  BY <1>2, <1>3, <1>6, ConcatProperties
<1>8. /\ Len(t) = Len(q) - 1 /\ Len(q) \in Nat /\ Len(t) \in Nat /\ h = q[1]
      /\ \A i \in 1 .. Len(t) : t[i] = q[i + 1]
  BY <1>1, <1>2, HeadTailProperties, LenProperties
<1>9. \A i \in 1 .. Len(both) : both[i] = q[i] BY <1>5, <1>7, <1>8
<1>10. both = q BY <1>5, <1>6, <1>7, <1>8, <1>9, SeqEqual
<1> QED BY <1>1, <1>2, <1>3, <1>6, <1>10

LEMMA CountTail ==
  ASSUME NEW T, NEW q \in Seq(T), q # <<>>, NEW x
  PROVE  Count(q, x) = IF Head(q) = x THEN Count(Tail(q), x) + 1 ELSE Count(Tail(q), x)
<1>1. PICK none \in Seq(T) : none = <<>> BY EmptySeq
<1>2. /\ Head(q) \in T /\ Tail(q) \in Seq(T) /\ Append(none, Head(q)) \in Seq(T)
      /\ q = Append(none, Head(q)) \o Tail(q)
  BY <1>1, FirstAndRest
<1>3. PICK h \in T, t \in Seq(T) : h = Head(q) /\ t = Tail(q) BY <1>2
<1>4. PICK one \in Seq(T) : one = Append(none, h) BY <1>2, <1>3
<1>5. Count(none, x) = 0 BY <1>1, CountNone
<1>6. Count(one, x) = IF h = x THEN Count(none, x) + 1 ELSE Count(none, x)
  <2>1. none \in Seq(T) /\ h \in T BY <1>1, <1>3
  <2> QED BY <1>4, <2>1, CountAppend
<1>7. Count(q, x) = Count(one, x) + Count(t, x)
  <2>1. one \in Seq(T) /\ t \in Seq(T) BY <1>3, <1>4
  <2>2. Count(one \o t, x) = Count(one, x) + Count(t, x) BY <2>1, CountConcat
  <2>3. q = one \o t BY <1>2, <1>3, <1>4
  <2> QED BY <2>2, <2>3
<1>8. Count(t, x) \in Nat BY <1>3, CountFinite
<1>9. Count(q, x) = IF h = x THEN Count(t, x) + 1 ELSE Count(t, x) BY <1>5, <1>6, <1>7, <1>8
<1> QED BY <1>3, <1>9

(* What KindsOf returns, for items and for events.                         *)
LEMMA KindsOfAny ==
  ASSUME NEW T, \A x \in T : x.k \in Kinds, NEW q \in Seq(T)
  PROVE  /\ KindsOf(q) \in Seq(Kinds) /\ Len(KindsOf(q)) = Len(q)
         /\ \A i \in 1 .. Len(q) : KindsOf(q)[i] = q[i].k
<1>1. \A i \in 1 .. Len(q) : q[i] \in T /\ q[i].k \in Kinds BY ElementOfSeq
<1>2. Len(q) \in Nat BY LenProperties
<1>3. KindsOf(q) \in Seq(Kinds) BY <1>1, <1>2, IsASeq DEF KindsOf
<1>4. DOMAIN KindsOf(q) = 1 .. Len(q) BY DEF KindsOf
<1>5. Len(KindsOf(q)) = Len(q) BY <1>2, <1>3, <1>4, LenProperties
<1> QED BY <1>3, <1>5 DEF KindsOf

LEMMA KindsAreKinds ==
  /\ \A x \in Items : x.k \in Kinds
  /\ \A x \in Events : x.k \in Kinds
<1>1. \A x \in Items : x.k \in Kinds BY DEF Items, SectionItems, Plain, Kinds
<1>2. \A x \in Events : x.k \in Kinds BY DEF Events
<1> QED BY <1>1, <1>2

LEMMA KindsOfProperties ==
  ASSUME NEW q \in Seq(Items)
  PROVE  /\ KindsOf(q) \in Seq(Kinds) /\ Len(KindsOf(q)) = Len(q)
         /\ \A i \in 1 .. Len(q) : KindsOf(q)[i] = q[i].k
BY KindsAreKinds, KindsOfAny

LEMMA KeptAreItems ==
  /\ Kept \subseteq Items
  /\ \A q : q \in Seq(Kept) => q \in Seq(Items)
  /\ \A x \in Items : x.k # "reset" => x \in Kept
<1>1. Kept \subseteq Items BY DEF Kept, Items, SectionItems, Plain
<1>2. \A x \in Items : x.k # "reset" => x \in Kept BY DEF Kept, Items, SectionItems, Plain
<1> QED BY <1>1, <1>2, SeqMonotonic

LEMMA KindsOfNone ==
  ASSUME NEW q, q = <<>>
  PROVE  KindsOf(q) = <<>>
BY DEF KindsOf

LEMMA KindsOfEmpty ==
  ASSUME NEW q \in Seq(Items)
  PROVE  KindsOf(q) = <<>> <=> q = <<>>
<1>1. KindsOf(q) \in Seq(Kinds) /\ Len(KindsOf(q)) = Len(q) BY KindsOfProperties
<1> QED BY <1>1, EmptySeq

LEMMA KindsOfConcat ==
  ASSUME NEW T, \A x \in T : x.k \in Kinds, NEW q \in Seq(T), NEW r \in Seq(T)
  PROVE  KindsOf(q \o r) = KindsOf(q) \o KindsOf(r)
<1>1. PICK s \in Seq(T) : s = q \o r BY ConcatProperties
<1>2. /\ Len(s) = Len(q) + Len(r) /\ Len(q) \in Nat /\ Len(r) \in Nat
      /\ \A i \in 1 .. Len(q) + Len(r) : s[i] = IF i <= Len(q) THEN q[i] ELSE r[i - Len(q)]
  BY <1>1, ConcatProperties, LenProperties
<1>3. PICK a \in Seq(Kinds) : a = KindsOf(q) BY KindsOfAny
<1>4. PICK b \in Seq(Kinds) : b = KindsOf(r) BY KindsOfAny
<1>5. PICK c \in Seq(Kinds) : c = KindsOf(s) BY <1>1, KindsOfAny
<1>6. PICK d \in Seq(Kinds) : d = a \o b BY <1>3, <1>4, ConcatProperties
<1>7. /\ Len(a) = Len(q) /\ Len(b) = Len(r) /\ Len(c) = Len(s)
      /\ \A i \in 1 .. Len(q) : a[i] = q[i].k
      /\ \A i \in 1 .. Len(r) : b[i] = r[i].k
      /\ \A i \in 1 .. Len(s) : c[i] = s[i].k
  BY <1>1, <1>3, <1>4, <1>5, KindsOfAny
<1>8. /\ Len(d) = Len(a) + Len(b)
      /\ \A i \in 1 .. Len(a) + Len(b) : d[i] = IF i <= Len(a) THEN a[i] ELSE b[i - Len(a)]
  BY <1>3, <1>4, <1>6, ConcatProperties
<1>9. \A i \in 1 .. Len(c) : c[i] = d[i]
  <2> SUFFICES ASSUME NEW i \in 1 .. Len(q) + Len(r) PROVE c[i] = d[i] BY <1>2, <1>7
  <2>1. CASE i <= Len(q)
    <3>1. i \in 1 .. Len(q) /\ i \in 1 .. Len(s) BY <1>2, <2>1
    <3> QED BY <1>2, <1>7, <1>8, <2>1, <3>1
  <2>2. CASE ~(i <= Len(q))
    <3>1. PICK m \in Nat, l \in Nat : m = Len(q) /\ l = Len(r) BY <1>2
    <3>2. i \in 1 .. m + l /\ ~(i <= m) BY <2>2, <3>1
    <3>3. PICK j \in 1 .. l : j = i - m
      <4>1. i \in Int /\ m \in Int /\ l \in Int /\ 1 <= i /\ i <= m + l BY <3>2
      <4>2. i - m \in 1 .. l BY <3>2, <4>1
      <4> QED BY <4>2
    <3>4. c[i] = s[i].k
      <4>1. i \in 1 .. Len(s) BY <1>2, <3>1, <3>2
      <4> QED BY <1>7, <4>1
    <3>5. s[i] = r[j] BY <1>2, <3>1, <3>2, <3>3
    <3>6. b[j] = r[j].k BY <1>7, <3>1, <3>3
    <3>7. d[i] = b[j] BY <1>7, <1>8, <3>1, <3>2, <3>3
    <3> QED BY <3>4, <3>5, <3>6, <3>7, Zenon
  <2> QED BY <2>1, <2>2
<1>10. c = d BY <1>2, <1>5, <1>6, <1>7, <1>8, <1>9, SeqEqual
<1> QED BY <1>1, <1>3, <1>4, <1>5, <1>6, <1>10

(* The events of one stream, when all are of it and when none is.          *)
LEMMA EventsAllMine ==
  ASSUME NEW h \in States, NEW n, \A i \in 1 .. Len(h.events) : h.events[i].n = n
  PROVE  EventsOf(h, n) = KindsOf(h.events)
<1>1. PICK ev \in Seq(Events) : ev = h.events BY DEF States
<1>2. PICK len \in Nat : len = Len(ev) BY <1>1, LenProperties
<1>3. DOMAIN ev = 1 .. len BY <1>1, <1>2, LenProperties
<1> DEFINE mine == {i \in DOMAIN ev : ev[i].n = n}
           At(i) == CHOOSE j \in mine : Cardinality({m \in mine : m <= j}) = i
<1>4. mine = 1 .. len BY <1>1, <1>2, <1>3
<1>5. \A j \in 1 .. len : Cardinality({m \in mine : m <= j}) = j
  <2> SUFFICES ASSUME NEW j \in 1 .. len PROVE Cardinality({m \in mine : m <= j}) = j
    OBVIOUS
  <2>1. {m \in mine : m <= j} = 1 .. j BY <1>4
  <2>2. Cardinality(1 .. j) = j BY FS_Interval
  <2> QED BY <2>1, <2>2
<1>6. Cardinality(mine) = len
  <2>1. len \in Int /\ len \in Nat BY <1>2
  <2>2. Cardinality(1 .. len) = len BY <2>1, FS_Interval
  <2> QED BY <1>4, <2>2
<1> HIDE DEF mine
<1>7. \A i \in 1 .. len : At(i) = i
  <2> SUFFICES ASSUME NEW i \in 1 .. len PROVE At(i) = i OBVIOUS
  <2>1. i \in mine /\ Cardinality({m \in mine : m <= i}) = i BY <1>4, <1>5
  <2>2. At(i) \in mine /\ Cardinality({m \in mine : m <= At(i)}) = i BY <2>1
  <2>3. At(i) \in 1 .. len BY <1>4, <2>2
  <2> QED BY <1>5, <2>2, <2>3
<1> HIDE DEF At
<1>8. EventsOf(h, n) = [i \in 1 .. Cardinality(mine) |-> ev[At(i)].k]
  BY <1>1 DEF EventsOf, mine, At
<1>9. EventsOf(h, n) = [i \in 1 .. len |-> ev[At(i)].k] BY <1>6, <1>8
<1>10. [i \in 1 .. len |-> ev[At(i)].k] = [i \in 1 .. len |-> ev[i].k] BY <1>7
<1> QED BY <1>1, <1>2, <1>9, <1>10 DEF KindsOf

LEMMA EventsNoneMine ==
  ASSUME NEW h \in States, NEW n, \A i \in 1 .. Len(h.events) : h.events[i].n # n
  PROVE  EventsOf(h, n) = <<>>
<1>1. PICK ev \in Seq(Events) : ev = h.events BY DEF States
<1>2. DOMAIN ev = 1 .. Len(ev) BY <1>1, LenProperties
<1> DEFINE mine == {i \in DOMAIN ev : ev[i].n = n}
           At(i) == CHOOSE j \in mine : Cardinality({m \in mine : m <= j}) = i
<1>3. mine = {} BY <1>1, <1>2
<1>4. Cardinality(mine) = 0 BY <1>3, FS_EmptySet
<1> HIDE DEF mine
<1> HIDE DEF At
<1>5. EventsOf(h, n) = [i \in 1 .. Cardinality(mine) |-> ev[At(i)].k]
  BY <1>1 DEF EventsOf, mine, At
<1>6. EventsOf(h, n) = [i \in 1 .. 0 |-> ev[At(i)].k] BY <1>4, <1>5
<1>7. [i \in 1 .. 0 |-> ev[At(i)].k] = <<>> OBVIOUS
<1> QED BY <1>6, <1>7

(* The kinds of the events that Read makes of items are those of the items. *)
LEMMA EventsRead ==
  ASSUME NEW n \in Requests, NEW items \in Seq(Items),
         NEW evs, evs = [i \in DOMAIN items |-> [n |-> n, k |-> items[i].k]]
  PROVE  /\ evs \in Seq(Events) /\ Len(evs) = Len(items)
         /\ \A i \in 1 .. Len(evs) : evs[i].n = n /\ evs[i].k = items[i].k
         /\ KindsOf(evs) = KindsOf(items)
<1>1. PICK len \in Nat : len = Len(items) BY LenProperties
<1>2. DOMAIN items = 1 .. len BY <1>1, LenProperties
<1>3. \A x \in Items : x.k \in Kinds BY DEF Items, SectionItems, Plain, Kinds
<1>4. \A i \in 1 .. len : items[i] \in Items /\ items[i].k \in Kinds
  BY <1>1, <1>3, ElementOfSeq
<1>5. \A i \in 1 .. len : [n |-> n, k |-> items[i].k] \in Events BY <1>4 DEF Events
<1>6. [i \in 1 .. len |-> [n |-> n, k |-> items[i].k]] \in Seq(Events) BY <1>5, IsASeq
<1>7. evs = [i \in 1 .. len |-> [n |-> n, k |-> items[i].k]] BY <1>2
<1>8. evs \in Seq(Events) BY <1>6, <1>7
<1>9. DOMAIN evs = 1 .. len BY <1>7
<1>10. Len(evs) = len BY <1>8, <1>9, <1>1, LenProperties
<1>11. \A i \in 1 .. len : evs[i] = [n |-> n, k |-> items[i].k] BY <1>7
<1>12. \A i \in 1 .. len : evs[i].n = n /\ evs[i].k = items[i].k
  <2> SUFFICES ASSUME NEW i \in 1 .. len PROVE evs[i].n = n /\ evs[i].k = items[i].k
    OBVIOUS
  <2>1. evs[i] = [n |-> n, k |-> items[i].k] BY <1>11
  <2>2. [n |-> n, k |-> items[i].k].n = n /\ [n |-> n, k |-> items[i].k].k = items[i].k
    OBVIOUS
  <2> QED BY <2>1, <2>2, Zenon
<1>13. KindsOf(evs) = [i \in 1 .. len |-> items[i].k] BY <1>10, <1>12 DEF KindsOf
<1> QED BY <1>1, <1>8, <1>10, <1>12, <1>13 DEF KindsOf

-----------------------------------------------------------------------------
(* What the operations of the sans-I/O connection change.                  *)

Rest(g, h) ==
    /\ g.inserts = h.inserts /\ g.next = h.next
    /\ g.error = h.error /\ g.poisoned = h.poisoned

Adds(g, h) == \E more \in Seq(Instructions) : g.pend = h.pend \o more

\* g has the events of h and those of items.
Reads(g, h, n, items) ==
    \E evs \in Seq(Events) :
       /\ g.events = h.events \o evs
       /\ Len(evs) = Len(items)
       /\ \A i \in 1 .. Len(evs) : evs[i].n = n /\ evs[i].k = items[i].k
       /\ KindsOf(evs) = KindsOf(items)

\* Only what stream n has parked is another: q.
Parks(g, h, n, q) ==
    g.parked[n] = q /\ \A m \in Requests : m # n => g.parked[m] = h.parked[m]

LEMMA AddsNothing ==
  ASSUME NEW h \in States, NEW g, g.pend = h.pend
  PROVE  Adds(g, h)
<1>1. PICK none \in Seq(Instructions) : none = <<>> BY EmptySeq
<1>2. h.pend \in Seq(Instructions) BY DEF States
<1>3. h.pend \o none = h.pend BY <1>1, <1>2, ConcatEmptySeq
<1> QED BY <1>1, <1>3 DEF Adds

LEMMA AddsOne ==
  ASSUME NEW h \in States, NEW g, NEW x \in Instructions, g.pend = Append(h.pend, x)
  PROVE  Adds(g, h)
<1>1. PICK none \in Seq(Instructions) : none = <<>> BY EmptySeq
<1>2. PICK one \in Seq(Instructions) : one = Append(none, x) BY <1>1, AppendProperties
<1>3. h.pend \in Seq(Instructions) BY DEF States
<1>4. Append(h.pend, x) = h.pend \o <<x>> BY <1>3, AppendIsConcat
<1>5. one = <<x>> BY <1>1, <1>2
<1> QED BY <1>2, <1>4, <1>5 DEF Adds

WithRead(h, ev, pd) == [h EXCEPT !.events = ev, !.pend = pd]
WithQueue(h, n, q) == [h EXCEPT !.parked[n] = q]

LEMMA WithEvents ==
  ASSUME NEW h \in States, NEW ev \in Seq(Events), NEW pd \in Seq(Instructions),
         NEW g, g = WithRead(h, ev, pd)
  PROVE  /\ g \in States /\ Rest(g, h)
         /\ g.parked = h.parked /\ g.events = ev /\ g.pend = pd
BY DEF States, Rest, WithRead

LEMMA WithParked ==
  ASSUME NEW h \in States, NEW n \in Requests, NEW q \in Seq(Kept),
         NEW g, g = WithQueue(h, n, q)
  PROVE  /\ g \in States /\ Rest(g, h)
         /\ Parks(g, h, n, q) /\ g.events = h.events /\ g.pend = h.pend
BY DEF States, Rest, WithQueue, Parks

LEMMA ReadFacts ==
  ASSUME NEW h \in States, NEW n \in Requests, NEW items \in Seq(Kept),
         NEW g, g = Read(h, n, items)
  PROVE  /\ g \in States /\ Rest(g, h) /\ g.parked = h.parked
         /\ Adds(g, h) /\ Reads(g, h, n, items)
<1>1. items \in Seq(Items) BY KeptAreItems
<1> DEFINE evs == [i \in DOMAIN items |-> [n |-> n, k |-> items[i].k]]
           waited == {j \in DOMAIN items : items[j].ric > 0}
           acks == [i \in 1 .. Cardinality(waited) |-> [k |-> "ack", n |-> n]]
<1>2. /\ evs \in Seq(Events) /\ Len(evs) = Len(items)
      /\ \A i \in 1 .. Len(evs) : evs[i].n = n /\ evs[i].k = items[i].k
      /\ KindsOf(evs) = KindsOf(items)
  BY <1>1, EventsRead
<1>3. acks \in Seq(Instructions)
  <2>1. PICK len \in Nat : len = Len(items) BY <1>1, LenProperties
  <2>2. DOMAIN items = 1 .. len BY <1>1, <2>1, LenProperties
  <2>3. IsFiniteSet(1 .. len) BY <2>1, FS_Interval
  <2>4. waited \in SUBSET (1 .. len) BY <2>2
  <2>5. IsFiniteSet(waited) BY <2>3, <2>4, FS_Subset
  <2>6. PICK c \in Nat : c = Cardinality(waited) BY <2>5, FS_CardinalityType
  <2>7. [k |-> "ack", n |-> n] \in Instructions BY DEF Instructions
  <2>8. [i \in 1 .. c |-> [k |-> "ack", n |-> n]] \in Seq(Instructions) BY <2>6, <2>7, IsASeq
  <2> QED BY <2>6, <2>8
<1> DEFINE ev == h.events \o evs
           pd == h.pend \o acks
<1>4. h.events \in Seq(Events) /\ h.pend \in Seq(Instructions) BY DEF States
<1>5. ev \in Seq(Events) /\ pd \in Seq(Instructions) BY <1>2, <1>3, <1>4, ConcatProperties
<1>6. g = WithRead(h, ev, pd) BY DEF Read, WithRead
<1> HIDE DEF evs, acks, ev, pd
<1>7. g \in States /\ Rest(g, h) /\ g.parked = h.parked /\ g.events = ev /\ g.pend = pd
  BY <1>5, <1>6, WithEvents
<1>8. Adds(g, h) BY <1>3, <1>7 DEF Adds, pd
<1>9. Reads(g, h, n, items) BY <1>2, <1>7 DEF Reads, ev
<1> QED BY <1>7, <1>8, <1>9

LEMMA FeedFacts ==
  ASSUME NEW h \in States, NEW n \in Requests, NEW item \in Kept,
         NEW g, g = Feed(h, n, item)
  PROVE  /\ g \in States /\ Rest(g, h) /\ Adds(g, h)
         /\ \/ /\ Parks(g, h, n, Append(h.parked[n], item))
               /\ g.events = h.events
            \/ ~IsParked(h, n) /\ g.parked = h.parked /\ Reads(g, h, n, <<item>>)
<1>1. CASE IsParked(h, n) \/ item.ric > h.inserts
  <2>1. h.parked[n] \in Seq(Kept) BY DEF States
  <2>2. PICK q \in Seq(Kept) : q = Append(h.parked[n], item) BY <2>1, AppendProperties
  <2>3. g = WithQueue(h, n, q) BY <1>1, <2>2 DEF Feed, WithQueue
  <2>4. /\ g \in States /\ Rest(g, h)
        /\ Parks(g, h, n, q) /\ g.events = h.events /\ g.pend = h.pend
    <3>1. q \in Seq(Kept) BY <2>2
    <3> QED BY <2>3, <3>1, WithParked
  <2>5. Adds(g, h) BY <2>4, AddsNothing
  <2> QED BY <2>2, <2>4, <2>5
<1>2. CASE ~(IsParked(h, n) \/ item.ric > h.inserts)
  <2>0. PICK one : one = <<item>> OBVIOUS
  <2>1. one \in Seq(Kept) BY <2>0
  <2>2. g = Read(h, n, one) BY <1>2, <2>0 DEF Feed
  <2>3. /\ g \in States /\ Rest(g, h) /\ g.parked = h.parked
        /\ Adds(g, h) /\ Reads(g, h, n, one)
    BY <2>1, <2>2, ReadFacts
  <2> QED BY <1>2, <2>0, <2>3
<1> QED BY <1>1, <1>2

LEMMA RetryFacts ==
  ASSUME NEW h \in States, NEW g, g = Retry(h)
  PROVE  /\ g \in States /\ Rest(g, h) /\ Adds(g, h)
         /\ \/ Readable(h) = {} /\ g = h
            \/ \E n \in Readable(h) :
                  /\ Parks(g, h, n, <<>>)
                  /\ h.parked[n][1].ok => Reads(g, h, n, h.parked[n])
                  /\ ~h.parked[n][1].ok => g.events = h.events
<1>1. CASE Readable(h) = {}
  <2>1. g = h BY <1>1 DEF Retry
  <2>2. Adds(g, h) BY <2>1, AddsNothing
  <2> QED BY <1>1, <2>1, <2>2 DEF Rest
<1>2. CASE Readable(h) # {}
  <2>1. PICK n : n = CHOOSE m \in Readable(h) : TRUE OBVIOUS
  <2>2. n \in Readable(h) BY <1>2, <2>1
  <2>3. n \in Requests BY <2>2 DEF Readable
  <2>4. PICK items \in Seq(Kept) : items = h.parked[n] BY <2>3 DEF States
  <2>5. PICK none \in Seq(Kept) : none = <<>> BY EmptySeq
  <2>6. PICK free : free = WithQueue(h, n, none) OBVIOUS
  <2>7. /\ free \in States /\ Rest(free, h)
        /\ Parks(free, h, n, none)
        /\ free.events = h.events /\ free.pend = h.pend
    <3>1. none \in Seq(Kept) BY <2>5
    <3> QED BY <2>3, <2>6, <3>1, WithParked
  <2>8. g = IF items[1].ok THEN Read(free, n, items) ELSE free
    BY <1>2, <2>1, <2>4, <2>5, <2>6 DEF Retry, WithQueue
  <2>9. CASE items[1].ok
    <3>1. g = Read(free, n, items) BY <2>8, <2>9
    <3>2. /\ g \in States /\ Rest(g, free) /\ g.parked = free.parked
          /\ Adds(g, free) /\ Reads(g, free, n, items)
      BY <2>3, <2>4, <2>7, <3>1, ReadFacts
    <3>3. Rest(g, h) BY <2>7, <3>2 DEF Rest
    <3>4. Adds(g, h) BY <2>7, <3>2 DEF Adds
    <3>5. Reads(g, h, n, h.parked[n]) BY <2>4, <2>7, <3>2 DEF Reads
    <3>6. Parks(g, h, n, <<>>) BY <2>5, <2>7, <3>2 DEF Parks
    <3> QED BY <2>2, <2>4, <2>9, <3>2, <3>3, <3>4, <3>5, <3>6
  <2>10. CASE ~items[1].ok
    <3>1. g = free BY <2>8, <2>10
    <3>2. Adds(g, h) BY <2>7, <3>1, AddsNothing
    <3> QED BY <2>2, <2>4, <2>5, <2>7, <2>10, <3>1, <3>2
  <2> QED BY <2>9, <2>10
<1> QED BY <1>1, <1>2

LEMMA ResetFacts ==
  ASSUME NEW h \in States, NEW n \in Requests, NEW ev \in Seq(Events),
         NEW g, g = [Reset(h, n) EXCEPT !.events = ev]
  PROVE  /\ g \in States /\ Rest(g, h) /\ Adds(g, h)
         /\ Parks(g, h, n, <<>>) /\ g.events = ev
<1>1. PICK none \in Seq(Kept) : none = <<>> BY EmptySeq
<1>2. PICK x \in Instructions : x = [k |-> "cancel", n |-> n] BY DEF Instructions
<1>3. h.pend \in Seq(Instructions) BY DEF States
<1>4. PICK pd \in Seq(Instructions) : pd = Append(h.pend, x) BY <1>3, AppendProperties
<1>5. PICK free : free = WithQueue(h, n, none) OBVIOUS
<1>6. /\ free \in States /\ Rest(free, h)
      /\ Parks(free, h, n, none) /\ free.events = h.events /\ free.pend = h.pend
  <2>1. none \in Seq(Kept) BY <1>1
  <2> QED BY <1>5, <2>1, WithParked
<1>7. PICK w : w = WithRead(free, ev, pd) OBVIOUS
<1>8. /\ w \in States /\ Rest(w, free)
      /\ w.parked = free.parked /\ w.events = ev /\ w.pend = pd
  <2>1. pd \in Seq(Instructions) BY <1>4
  <2>2. free \in States BY <1>6
  <2> QED BY <1>7, <2>1, <2>2, WithEvents
<1>9. Adds(w, h)
  <2>1. w.pend = Append(h.pend, x) BY <1>4, <1>8
  <2>2. x \in Instructions BY <1>2
  <2> QED BY <2>1, <2>2, AddsOne
<1>10. Rest(w, h) BY <1>6, <1>8 DEF Rest
<1>11. Parks(w, h, n, <<>>) BY <1>1, <1>6, <1>8 DEF Parks
<1>12. g = w BY <1>1, <1>2, <1>4, <1>5, <1>7 DEF Reset, WithQueue, WithRead, States
<1> QED BY <1>8, <1>9, <1>10, <1>11, <1>12

WithPend(h, pd) == [h EXCEPT !.pend = pd]

LEMMA WithPendFacts ==
  ASSUME NEW h \in States, NEW pd \in Seq(Instructions), NEW g, g = WithPend(h, pd)
  PROVE  /\ g \in States /\ Rest(g, h) /\ g.pend = pd
         /\ g.parked = h.parked /\ g.events = h.events
BY DEF States, Rest, WithPend

LEMMA UniApplyFacts ==
  ASSUME NEW h \in States, NEW item \in UniItems, NEW g, g = UniApply(h, item)
  PROVE  /\ g \in States /\ Adds(g, h)
         /\ g.parked = h.parked /\ g.events = h.events
         /\ g.next = h.next /\ g.poisoned = h.poisoned
         /\ h.error => g.error
         /\ item.k = "insert" => g.inserts \in {h.inserts, h.inserts + 1}
         /\ item.k # "insert" => g.inserts = h.inserts
<1>1. item.k \in {"insert", "settings", "close"} BY DEF UniItems, Plain
<1>2. CASE h.error
  <2>1. g = h BY <1>2 DEF UniApply
  <2> QED BY <2>1, AddsNothing
<1>3. CASE ~h.error /\ item.k = "insert"
  <2>1. g = [h EXCEPT !.inserts = @ + 1] BY <1>3 DEF UniApply
  <2>2. /\ g \in States /\ g.parked = h.parked /\ g.events = h.events /\ g.pend = h.pend
        /\ g.next = h.next /\ g.poisoned = h.poisoned /\ g.error = h.error
        /\ g.inserts = h.inserts + 1
    BY <2>1 DEF States
  <2>3. Adds(g, h) BY <2>2, AddsNothing
  <2> QED BY <1>3, <2>2, <2>3
<1>4. CASE ~h.error /\ item.k = "settings"
  <2>1. PICK x \in Instructions : x = [k |-> "capacity", n |-> 0] BY DEF Instructions
  <2>2. h.pend \in Seq(Instructions) BY DEF States
  <2>3. PICK pd \in Seq(Instructions) : pd = Append(h.pend, x) BY <2>1, <2>2, AppendProperties
  <2>4. g = WithPend(h, pd) BY <1>4, <2>1, <2>3 DEF UniApply, WithPend
  <2>5. pd \in Seq(Instructions) /\ x \in Instructions BY <2>1, <2>3
  <2>6. /\ g \in States /\ Rest(g, h) /\ g.pend = pd
        /\ g.parked = h.parked /\ g.events = h.events
    BY <2>4, <2>5, WithPendFacts
  <2>7. g.pend = Append(h.pend, x) BY <2>3, <2>6
  <2>8. Adds(g, h) BY <2>5, <2>7, AddsOne
  <2> QED BY <1>4, <2>6, <2>8 DEF Rest
<1>5. CASE ~h.error /\ item.k = "close"
  <2>1. g = [h EXCEPT !.error = TRUE] BY <1>5 DEF UniApply
  <2>2. /\ g \in States /\ g.parked = h.parked /\ g.events = h.events /\ g.pend = h.pend
        /\ g.next = h.next /\ g.poisoned = h.poisoned /\ g.error
        /\ g.inserts = h.inserts
    BY <2>1 DEF States
  <2>3. Adds(g, h) BY <2>2, AddsNothing
  <2> QED BY <1>5, <2>2, <2>3
<1> QED BY <1>1, <1>2, <1>3, <1>4, <1>5

-----------------------------------------------------------------------------
(* How the tasks move.                                                     *)

\* Task t is at p, or goes there when it has flushed.
Moved(t, p) ==
    /\ task' \in [Tasks -> Rounds]
    /\ \A s \in Tasks : s # t => task'[s] = task[s]
    /\ task'[t].items = <<>> /\ task'[t].pc # "send"
    /\ task'[t].pc = "flush" => task'[t].then = p
    /\ task'[t].pc # "flush" => task'[t].pc = p

LEMMA GotoMoves ==
  ASSUME Types, RoundsSound, NEW t \in Tasks, task[t].pc # "send", NEW p \in Places, Goto(t, p)
  PROVE  Moved(t, p)
<1>1. task \in [Tasks -> Rounds] BY DEF Types
<1>2. task[t].items = <<>> BY DEF RoundsSound
<1>3. PICK r \in Rounds : r = task[t] BY <1>1
<1>4. PICK new : new = [r EXCEPT !.pc = p] OBVIOUS
<1>5. new \in Rounds /\ new.pc = p /\ new.items = r.items BY <1>3, <1>4 DEF Rounds
<1>6. task' = [task EXCEPT ![t] = new] BY <1>3, <1>4 DEF Goto
<1>7. /\ task' \in [Tasks -> Rounds] /\ task'[t] = new
      /\ \A s \in Tasks : s # t => task'[s] = task[s]
  BY <1>1, <1>5, <1>6
<1>8. p \notin {"flush", "send"} BY DEF Places
<1> QED BY <1>2, <1>3, <1>5, <1>7, <1>8 DEF Moved

LEMMA FlushMoves ==
  ASSUME Types, RoundsSound, NEW t \in Tasks, task[t].pc # "send", NEW p \in Places,
         GoFlush(t, p)
  PROVE  Moved(t, p) /\ task'[t].pc = "flush"
<1>1. task \in [Tasks -> Rounds] BY DEF Types
<1>2. task[t].items = <<>> BY DEF RoundsSound
<1>3. PICK r \in Rounds : r = task[t] BY <1>1
<1>4. PICK new : new = [r EXCEPT !.pc = "flush", !.then = p] OBVIOUS
<1>5. new \in Rounds /\ new.pc = "flush" /\ new.then = p /\ new.items = r.items
  BY <1>3, <1>4 DEF Rounds
<1>6. task' = [task EXCEPT ![t] = new] BY <1>1, <1>3, <1>4 DEF GoFlush, Rounds
<1>7. /\ task' \in [Tasks -> Rounds] /\ task'[t] = new
      /\ \A s \in Tasks : s # t => task'[s] = task[s]
  BY <1>1, <1>5, <1>6
<1> QED BY <1>2, <1>3, <1>5, <1>7 DEF Moved

LEMMA TasksDiffer == App \in Tasks /\ Uni \subseteq Tasks /\ App \notin Uni /\ Control # Encoder
  /\ Uni = {Control, Encoder}
BY DEF App, Tasks, Uni, Control, Encoder

LEMMA AppMoved ==
  ASSUME Types, RoundsSound, NEW p \in AppPlaces, task[App].pc # "send", Moved(App, p),
         h3'.poisoned => p = "dead"
  PROVE  /\ RoundsSound' /\ Place(App)' = p
         /\ \A t \in Tasks : task'[t].items = task[t].items
         /\ \A u \in Uni : task'[u] = task[u]
<1>1. \A u \in Uni : task'[u] = task[u] BY TasksDiffer DEF Moved
<1>2. \A t \in Tasks : task'[t].items = task[t].items BY TasksDiffer DEF Moved, RoundsSound
<1>3. Place(App)' = p BY DEF Moved, Place
<1>4. \A t \in Tasks : task'[t].pc # "send" => task'[t].items = <<>>
  BY <1>1 DEF RoundsSound, Moved
<1> QED BY <1>1, <1>2, <1>3, <1>4 DEF RoundsSound

UniPlaces == {"receive", "notify", "notify last", "done", "dead"}

LEMMA UniMoved ==
  ASSUME Types, RoundsSound, NEW u \in Uni, NEW p \in UniPlaces, task[u].pc # "send", Moved(u, p),
         task'[u].pc = "flush" => p \in {"notify", "notify last"},
         h3'.poisoned => h3.poisoned
  PROVE  /\ RoundsSound' /\ Place(App)' = Place(App)
         /\ \A t \in Tasks : task'[t].items = task[t].items
         /\ \A v \in Uni : v # u => task'[v] = task[v]
<1>1. u \in Tasks /\ u # App BY TasksDiffer
<1>2. task'[App] = task[App] BY <1>1, TasksDiffer DEF Moved
<1>3. \A v \in Uni : v # u => task'[v] = task[v] BY TasksDiffer DEF Moved
<1>4. \A t \in Tasks : task'[t].items = task[t].items BY <1>1 DEF Moved, RoundsSound
<1>5. Place(App)' = Place(App) BY <1>2 DEF Place
<1>6. \A t \in Tasks : task'[t].pc # "send" => task'[t].items = <<>>
  BY <1>4 DEF RoundsSound, Moved
<1>7. ASSUME NEW v \in Uni
      PROVE  /\ task'[v].pc \in {"receive", "flush", "send", "notify", "notify last", "done", "dead"}
             /\ task'[v].pc \in {"flush", "send"} => task'[v].then \in {"notify", "notify last"}
  <2>1. CASE v = u BY <2>1 DEF Moved, UniPlaces
  <2>2. CASE v # u BY <1>3, <2>2 DEF RoundsSound
  <2> QED BY <2>1, <2>2
<1> QED BY <1>3, <1>4, <1>5, <1>6, <1>7 DEF RoundsSound

-----------------------------------------------------------------------------
(* Instructions stay in one place when they are only added to the buffers. *)

LEMMA CountsAreNat ==
  ASSUME Types, NEW x \in Instructions
  PROVE  /\ Count(chan, x) \in Nat /\ Count(h3.pend, x) \in Nat
         /\ \A t \in Tasks : Count(task[t].items, x) \in Nat
         /\ made[x] \in Nat /\ out[x] \in Nat
<1>1. chan \in Seq(Instructions) /\ h3.pend \in Seq(Instructions) BY DEF Types, States
<1>2. \A t \in Tasks : task[t].items \in Seq(Instructions) BY DEF Types, Rounds
<1>3. made[x] \in Nat /\ out[x] \in Nat BY DEF Types, Ticks
<1> QED BY <1>1, <1>2, <1>3, CountFinite

LEMMA StoreConserves ==
  ASSUME Types, Conserved, NEW h \in States, Adds(h, h3), Store(h), chan' = chan, out' = out,
         \A t \in Tasks : task'[t].items = task[t].items
  PROVE  h3' = h /\ made' \in Ticks /\ Conserved'
<1>1. PICK more \in Seq(Instructions) : h.pend = h3.pend \o more BY DEF Adds
<1>2. h3.pend \in Seq(Instructions) BY DEF Types, States
<1>3. ASSUME NEW x \in Instructions
      PROVE  /\ made'[x] \in Nat
             /\ made'[x] = out'[x] + Held(x)'
  <2>1. Count(h3.pend \o more, x) = Count(h3.pend, x) + Count(more, x)
    BY <1>1, <1>2, CountConcat
  <2>2. Count(more, x) \in Nat BY <1>1, CountFinite
  <2>3. PICK c \in Nat : c = Count(more, x) BY <2>2
  <2>4. Count(h.pend, x) = Count(h3.pend, x) + c BY <1>1, <2>1, <2>3
  <2>5. made'[x] = made[x] + Count(h.pend, x) - Count(h3.pend, x) BY DEF Store
  <2>6. /\ Count(chan, x) \in Nat /\ Count(h3.pend, x) \in Nat
        /\ Count(task[App].items, x) \in Nat /\ Count(task[Control].items, x) \in Nat
        /\ Count(task[Encoder].items, x) \in Nat
        /\ made[x] \in Nat /\ out[x] \in Nat
    BY CountsAreNat, TasksDiffer
  <2>7. made'[x] = made[x] + c BY <2>4, <2>5, <2>6
  <2>8. made[x] = out[x] + Held(x) BY DEF Conserved
  <2>9. Held(x)' = Held(x) + c
    <3>1. /\ task'[App].items = task[App].items /\ task'[Control].items = task[Control].items
          /\ task'[Encoder].items = task[Encoder].items
      BY TasksDiffer
    <3>2. h3' = h BY DEF Store
    <3>3. Held(x)' = Count(chan, x) + Count(task[App].items, x) + Count(task[Control].items, x)
                       + Count(task[Encoder].items, x) + Count(h.pend, x)
      BY <3>1, <3>2 DEF Held
    <3> QED BY <2>4, <2>6, <3>3 DEF Held
  <2>10. Held(x) \in Nat BY <2>6 DEF Held
  <2> QED BY <2>6, <2>7, <2>8, <2>9, <2>10, SMTT(60)
<1>4. DOMAIN made' = Instructions /\ made' = [x \in Instructions |-> made'[x]] BY DEF Store
<1>5. made' \in Ticks BY <1>3, <1>4 DEF Ticks
<1>6. Conserved' BY <1>3 DEF Conserved
<1> QED BY <1>5, <1>6 DEF Store

LEMMA SameConserved ==
  ASSUME Conserved, chan' = chan, out' = out, made' = made, h3'.pend = h3.pend,
         \A t \in Tasks : task'[t].items = task[t].items
  PROVE  Conserved'
BY TasksDiffer DEF Conserved, Held

-----------------------------------------------------------------------------
(* Steps that leave the message of the call where it is.                   *)

\* Neither the peer's message, nor what QUIC, the connection or the call have of
\* it changes; at most the call fails.
SameFlow ==
    /\ scope' = scope /\ conn' = conn /\ opened' = opened /\ results' = results /\ msg' = msg
    /\ \A n \in Requests : inbox'[n] = inbox[n]
    /\ h3'.parked = h3.parked /\ h3'.events = h3.events
    /\ h3.error => h3'.error
    /\ call'.n = call.n /\ call'.got = call.got /\ call'.fin = call.fin
    /\ call'.result = call.result \/ call'.result = "error"
    /\ Place(App)' \in Before => Place(App) \in Before

LEMMA NotFinished ==
  ASSUME NEW n
  PROVE  msg' = msg => (Ended(n)' <=> Ended(n)) /\ (Shaped(n)' <=> Shaped(n))
BY DEF Ended, Shaped

LEMMA FlowStays ==
  ASSUME Types, FlowSound, SameFlow
  PROVE  FlowSound'
<1>1. EventsOf(h3, call.n)' = EventsOf(h3, call.n) BY DEF SameFlow, EventsOf
<1>2. call.n \in Requests \/ call.n = 0 BY DEF Types, Calls, Requests, DriverAssumption
<1>3. Seen' = Seen BY <1>1 DEF Seen, SameFlow
<1>4. ASSUME ~h3'.error, call'.n > 0, call'.result = "none"
      PROVE  \E rest \in Seq(Kinds) :
                /\ KindsOf(msg'[call'.n]) = Seen' \o rest
                /\ conn' = "up" => rest = KindsOf(inbox'[call'.n])
  <2>1. ~h3.error /\ call.n > 0 /\ call.result = "none" BY <1>4 DEF SameFlow
  <2>2. PICK rest \in Seq(Kinds) :
           /\ KindsOf(msg[call.n]) = Seen \o rest
           /\ conn = "up" => rest = KindsOf(inbox[call.n])
    BY <2>1 DEF FlowSound
  <2>3. inbox'[call.n] = inbox[call.n] BY <1>2, <2>1 DEF SameFlow
  <2> QED BY <1>3, <2>2, <2>3 DEF SameFlow
<1>5. Place(App)' \in Before => call'.got = <<>> BY DEF FlowSound, SameFlow
<1>6. \A n \in Requests : n > call'.n /\ conn' = "up" => inbox'[n] = msg'[n]
  BY DEF FlowSound, SameFlow
<1>7. \A n \in Requests : n > opened' => msg'[n] = <<>> BY DEF FlowSound, SameFlow
<1>8. \A n \in Requests : Shaped(n)' /\ inbox'[n] \in Seq(Items)
  BY NotFinished DEF FlowSound, SameFlow
<1>9. call'.result = "ok" => KindsOf(msg'[call'.n]) = call'.got /\ Ended(call.n)'
  <2>1. call'.result = "ok" => call.result = "ok" BY DEF SameFlow
  <2> QED BY <2>1, NotFinished DEF FlowSound, SameFlow
<1>10. \A n \in Requests :
          results'[n].result = "ok" => KindsOf(msg'[n]) = results'[n].got /\ Ended(n)'
  BY NotFinished DEF FlowSound, SameFlow
<1> QED BY <1>4, <1>5, <1>6, <1>7, <1>8, <1>9, <1>10 DEF FlowSound

\* Steps of the other tasks, and of QUIC on the streams of the peer: the call and
\* what it waits for are left alone, except that an error may be latched.
Quiet ==
    /\ scope' = scope /\ conn' = conn /\ opened' = opened /\ results' = results /\ msg' = msg
    /\ call' = call /\ Place(App)' = Place(App)
    /\ \A n \in Requests : inbox'[n] = inbox[n]
    /\ h3'.parked = h3.parked /\ h3'.events = h3.events /\ h3'.next = h3.next
    /\ h3.error => h3'.error
    /\ h3'.poisoned => h3.poisoned

LEMMA QuietKeeps ==
  ASSUME Types, CallSound, ParkedSound, EventsSound, FlowSound, IdsSound, Quiet
  PROVE  CallSound' /\ ParkedSound' /\ EventsSound' /\ FlowSound' /\ IdsSound'
<1>1. CallSound' BY DEF CallSound, Quiet
<1>2. ParkedSound' BY DEF ParkedSound, Quiet
<1>3. EventsSound' BY DEF EventsSound, Quiet
<1>4. FlowSound'
  <2>1. SameFlow BY DEF SameFlow, Quiet
  <2> QED BY <2>1, FlowStays
<1>5. IdsSound' BY DEF IdsSound, NoCallFailed, Quiet
<1> QED BY <1>1, <1>2, <1>3, <1>4, <1>5

LEMMA SameInserts ==
  ASSUME InsertsSound, h3'.inserts = h3.inserts, \A u \in Uni : inbox'[u] = inbox[u]
  PROVE  InsertsSound'
BY TasksDiffer DEF InsertsSound

\* A task of the peer's streams is still to notify.
LEMMA StillAwake ==
  ASSUME NEW u \in Uni, task'[u].pc \notin {"receive", "done"}
  PROVE  Awake'
BY DEF Awake

LEMMA FlushDrainKeeps ==
  ASSUME DriverIInv, NEW t \in Tasks, FlushDrain(t)
  PROVE  DriverIInv'
<1>1. /\ Types /\ RoundsSound /\ CallSound /\ ParkedSound /\ EventsSound /\ FlowSound
      /\ InsertsSound /\ Conserved /\ IdsSound /\ Awake
  BY DEF DriverIInv
<1>2. /\ task[t].pc = "flush"
      /\ scope' = scope /\ conn' = conn /\ inbox' = inbox /\ opened' = opened /\ sent' = sent
      /\ permit' = permit /\ chan' = chan /\ call' = call /\ results' = results /\ msg' = msg
      /\ out' = out /\ made' = made
  BY Zenon DEF FlushDrain, Poisoned
<1>3. task[t].items = <<>> BY <1>1, <1>2 DEF RoundsSound
<1>4. h3 \in States /\ task \in [Tasks -> Rounds] BY <1>1 DEF Types
<1>5. CASE h3.poisoned
  <2>1. Goto(t, "dead") /\ h3' = h3 BY <1>2, <1>5, Zenon DEF FlushDrain, Poisoned
  <2>2. Moved(t, "dead") BY <1>1, <1>2, <2>1, GotoMoves DEF Places
  <2>3. Place(App) = "dead" BY <1>1, <1>5 DEF RoundsSound
  <2>4. /\ RoundsSound' /\ Place(App)' = Place(App)
        /\ \A s \in Tasks : task'[s].items = task[s].items
        /\ task'[t].pc = "dead"
    <3>1. CASE t = App
      <4>1. PICK p \in AppPlaces : p = "dead" BY DEF AppPlaces
      <4>2. p \in AppPlaces /\ Moved(App, p) /\ task[App].pc # "send" /\ (h3'.poisoned => p = "dead")
        BY <1>2, <2>2, <3>1, <4>1
      <4>3. /\ RoundsSound' /\ Place(App)' = p /\ \A s \in Tasks : task'[s].items = task[s].items
        BY <1>1, <4>2, AppMoved
      <4>4. task'[t].pc = "dead" BY <1>2, <2>1, <1>4, <3>1 DEF Goto, Rounds
      <4> QED BY <2>3, <4>1, <4>3, <4>4
    <3>2. CASE t # App
      <4>1. t \in Uni BY <3>2 DEF Tasks
      <4>2. PICK p \in UniPlaces : p = "dead" BY DEF UniPlaces
      <4>3. task'[t].pc = "dead" BY <1>2, <2>1, <1>4 DEF Goto, Rounds
      <4>4. /\ p \in UniPlaces /\ Moved(t, p) /\ task[t].pc # "send" /\ task'[t].pc # "flush"
            /\ h3'.poisoned => h3.poisoned
        BY <1>2, <2>1, <2>2, <4>2, <4>3
      <4>5. /\ RoundsSound' /\ Place(App)' = Place(App)
            /\ \A s \in Tasks : task'[s].items = task[s].items
        BY <1>1, <4>1, <4>4, UniMoved
      <4> QED BY <4>3, <4>5
    <3> QED BY <3>1, <3>2
  <2>5. Quiet BY <1>2, <2>1, <2>4 DEF Quiet
  <2>6. Types' BY <1>1, <1>2, <2>1, <2>2 DEF Types, Moved
  <2>7. Conserved' BY <1>1, <1>2, <2>1, <2>4, SameConserved
  <2>8. InsertsSound' BY <1>1, <1>2, <2>1, SameInserts
  <2>9. Awake' BY <2>3, <2>4 DEF Awake
  <2> QED BY <1>1, <2>4, <2>5, <2>6, <2>7, <2>8, <2>9, QuietKeeps DEF DriverIInv
<1>6. CASE ~h3.poisoned
  <2>1. PICK r \in Rounds : r = task[t] BY <1>4
  <2>2. PICK none \in Seq(Instructions) : none = <<>> BY EmptySeq
  <2>3. PICK new : new = IF h3.pend = <<>>
                           THEN [pc |-> r.then, items |-> <<>>, then |-> "none"]
                           ELSE [r EXCEPT !.pc = "send", !.items = h3.pend]
    OBVIOUS
  <2>4. task' = [task EXCEPT ![t] = new] /\ h3' = DrainQpackData(h3)
    BY <1>6, <2>1, <2>3 DEF FlushDrain, Poisoned
  <2>5. r.then \in Places
    <3>1. CASE t = App BY <1>1, <1>2, <2>1, <3>1 DEF RoundsSound, Place, AppPlaces, Places
    <3>2. CASE t # App
      <4>1. t \in Uni BY <3>2 DEF Tasks
      <4> QED BY <1>1, <1>2, <2>1, <4>1 DEF RoundsSound, Places
    <3> QED BY <3>1, <3>2
  <2>6. h3.pend \in Seq(Instructions) BY <1>4 DEF States
  <2>7. /\ new \in Rounds /\ new.items = h3.pend
        /\ \/ new.pc = r.then
           \/ new.pc = "send" /\ new.then = r.then
        /\ new.pc # "send" => new.items = <<>>
    <3>1. r.then # "send" BY <2>5 DEF Places
    <3> QED BY <2>1, <2>2, <2>3, <2>5, <2>6, <3>1 DEF Rounds
  <2>8. /\ task' \in [Tasks -> Rounds] /\ task'[t] = new
        /\ \A s \in Tasks : s # t => task'[s] = task[s]
    BY <1>4, <2>4, <2>7
  <2>9. /\ h3' \in States /\ Rest(h3', h3) /\ h3'.pend = none
        /\ h3'.parked = h3.parked /\ h3'.events = h3.events
    <3>1. h3' = WithPend(h3, none) BY <2>2, <2>4 DEF DrainQpackData, WithPend
    <3>2. none \in Seq(Instructions) BY <2>2
    <3> QED BY <1>4, <3>1, <3>2, WithPendFacts
  <2>10. Place(App)' = Place(App)
    <3>1. CASE t = App
      <4>1. Place(App) = r.then BY <1>2, <2>1, <3>1 DEF Place
      <4>2. Place(App)' = r.then BY <2>5, <2>7, <2>8, <3>1 DEF Place, Places
      <4> QED BY <4>1, <4>2
    <3>2. CASE t # App BY <2>8, <3>2, TasksDiffer DEF Place
    <3> QED BY <3>1, <3>2
  <2>11. Types'
    <3>1. made' \in Ticks /\ out' \in Ticks BY <1>1, <1>2 DEF Types
    <3> QED BY <1>1, <1>2, <2>8, <2>9, <3>1 DEF Types
  <2>12. RoundsSound'
    <3>1. \A s \in Tasks : task'[s].pc # "send" => task'[s].items = <<>>
      BY <1>1, <2>7, <2>8 DEF RoundsSound
    <3>2. ASSUME NEW u \in Uni
          PROVE  /\ task'[u].pc \in {"receive", "flush", "send", "notify", "notify last", "done",
                                     "dead"}
                 /\ task'[u].pc \in {"flush", "send"} => task'[u].then \in {"notify", "notify last"}
      <4>1. u \in Tasks BY TasksDiffer
      <4>2. CASE u = t
        <5>1. r.then \in {"notify", "notify last"} BY <1>1, <1>2, <2>1, <4>2 DEF RoundsSound
        <5> QED BY <2>7, <2>8, <4>2, <5>1
      <4>3. CASE u # t BY <1>1, <2>8, <4>1, <4>3 DEF RoundsSound
      <4> QED BY <4>2, <4>3
    <3>3. h3'.poisoned => Place(App)' = "dead" BY <1>6, <2>9 DEF Rest
    <3>4. Place(App)' \in AppPlaces BY <1>1, <2>10 DEF RoundsSound
    <3> QED BY <3>1, <3>2, <3>3, <3>4 DEF RoundsSound
  <2>13. Quiet BY <1>2, <2>9, <2>10 DEF Quiet, Rest
  <2>14. InsertsSound' BY <1>1, <1>2, <2>9, SameInserts DEF Rest
  <2>15. Conserved'
    <3> SUFFICES ASSUME NEW x \in Instructions PROVE made'[x] = out'[x] + Held(x)'
      BY DEF Conserved
    <3>1. /\ Count(chan, x) \in Nat /\ Count(h3.pend, x) \in Nat
          /\ Count(task[App].items, x) \in Nat /\ Count(task[Control].items, x) \in Nat
          /\ Count(task[Encoder].items, x) \in Nat
      BY <1>1, CountsAreNat, TasksDiffer
    <3>2. Count(task[t].items, x) = 0 BY <1>3, CountNone
    <3>3. Count(h3'.pend, x) = 0 BY <2>2, <2>9, CountNone
    <3>4. task'[t].items = h3.pend BY <2>7, <2>8
    <3>5. Held(x)' = Held(x)
      <4>1. CASE t = App
        <5>1. task'[Control].items = task[Control].items /\ task'[Encoder].items = task[Encoder].items
          BY <2>8, <4>1, TasksDiffer
        <5> QED BY <1>2, <3>1, <3>2, <3>3, <3>4, <4>1, <5>1 DEF Held
      <4>2. CASE t = Control
        <5>1. task'[App].items = task[App].items /\ task'[Encoder].items = task[Encoder].items
          BY <2>8, <4>2, TasksDiffer
        <5> QED BY <1>2, <3>1, <3>2, <3>3, <3>4, <4>2, <5>1 DEF Held
      <4>3. CASE t = Encoder
        <5>1. task'[App].items = task[App].items /\ task'[Control].items = task[Control].items
          BY <2>8, <4>3, TasksDiffer
        <5> QED BY <1>2, <3>1, <3>2, <3>3, <3>4, <4>3, <5>1 DEF Held
      <4> QED BY <4>1, <4>2, <4>3, TasksDiffer DEF Tasks
    <3> QED BY <1>1, <1>2, <3>5 DEF Conserved
  <2>16. Awake'
    <3>1. ASSUME NEW u \in Uni, task[u].pc \notin {"receive", "done"}
          PROVE  task'[u].pc \notin {"receive", "done"}
      <4>1. u \in Tasks BY TasksDiffer
      <4>2. CASE u = t
        <5>1. r.then \in {"notify", "notify last"} BY <1>1, <1>2, <2>1, <4>2 DEF RoundsSound
        <5> QED BY <2>7, <2>8, <4>2, <5>1
      <4>3. CASE u # t BY <2>8, <3>1, <4>1, <4>3
      <4> QED BY <4>2, <4>3
    <3>2. Readable(h3') = Readable(h3) BY <2>9 DEF Readable, IsParked, Rest
    <3>3. h3'.error = h3.error BY <2>9 DEF Rest
    <3> QED BY <1>1, <1>2, <2>10, <3>1, <3>2, <3>3 DEF Awake
  <2> QED BY <1>1, <2>11, <2>12, <2>13, <2>14, <2>15, <2>16, QuietKeeps DEF DriverIInv
<1> QED BY <1>5, <1>6

LEMMA FlushSendKeeps ==
  ASSUME DriverIInv, NEW t \in Tasks, FlushSend(t)
  PROVE  DriverIInv'
<1>1. /\ Types /\ RoundsSound /\ CallSound /\ ParkedSound /\ EventsSound /\ FlowSound
      /\ InsertsSound /\ Conserved /\ IdsSound /\ Awake
  BY DEF DriverIInv
<1>2. /\ task[t].pc = "send"
      /\ scope' = scope /\ conn' = conn /\ inbox' = inbox /\ opened' = opened /\ sent' = sent
      /\ permit' = permit /\ h3' = h3 /\ call' = call /\ results' = results /\ msg' = msg
      /\ out' = out /\ made' = made
  BY Zenon DEF FlushSend
<1>3. h3 \in States /\ task \in [Tasks -> Rounds] /\ chan \in Seq(Instructions)
  BY <1>1 DEF Types
<1>4. PICK r \in Rounds : r = task[t] BY <1>3
<1>5. PICK none \in Seq(Instructions) : none = <<>> BY EmptySeq
<1>6. PICK new : new = [r EXCEPT !.pc = r.then, !.items = none, !.then = "none"] OBVIOUS
<1>7. task' = [task EXCEPT ![t] = new]
  BY <1>3, <1>4, <1>5, <1>6 DEF FlushSend, Rounds
<1>8. chan' = chan \o r.items BY <1>4 DEF FlushSend
<1>9. r.then \in Places
  <2>1. CASE t = App BY <1>1, <1>2, <1>4, <2>1 DEF RoundsSound, Place, AppPlaces, Places
  <2>2. CASE t # App
    <3>1. t \in Uni BY <2>2 DEF Tasks
    <3> QED BY <1>1, <1>2, <1>4, <3>1 DEF RoundsSound, Places
  <2> QED BY <2>1, <2>2
<1>10. new \in Rounds /\ new.pc = r.then /\ new.items = none
  BY <1>4, <1>5, <1>6, <1>9 DEF Rounds
<1>11. /\ task' \in [Tasks -> Rounds] /\ task'[t] = new
       /\ \A s \in Tasks : s # t => task'[s] = task[s]
  BY <1>3, <1>7, <1>10
<1>12. r.items \in Seq(Instructions) BY <1>4 DEF Rounds
<1>13. r.then \notin {"flush", "send"} BY <1>9 DEF Places
<1>14. Place(App)' = Place(App)
  <2>1. CASE t = App
    <3>1. Place(App) = r.then BY <1>2, <1>4, <2>1 DEF Place
    <3>2. Place(App)' = r.then BY <1>10, <1>11, <1>13, <2>1 DEF Place
    <3> QED BY <3>1, <3>2
  <2>2. CASE t # App BY <1>11, <2>2, TasksDiffer DEF Place
  <2> QED BY <2>1, <2>2
<1>15. Types'
  <2>1. chan' \in Seq(Instructions) BY <1>3, <1>8, <1>12, ConcatProperties
  <2> QED BY <1>1, <1>2, <1>11, <2>1 DEF Types
<1>16. RoundsSound'
  <2>1. \A s \in Tasks : task'[s].pc # "send" => task'[s].items = <<>>
    BY <1>1, <1>5, <1>10, <1>11 DEF RoundsSound
  <2>2. ASSUME NEW u \in Uni
        PROVE  /\ task'[u].pc \in {"receive", "flush", "send", "notify", "notify last", "done",
                                   "dead"}
               /\ task'[u].pc \in {"flush", "send"} => task'[u].then \in {"notify", "notify last"}
    <3>1. u \in Tasks BY TasksDiffer
    <3>2. CASE u = t
      <4>1. r.then \in {"notify", "notify last"} BY <1>1, <1>2, <1>4, <3>2 DEF RoundsSound
      <4> QED BY <1>10, <1>11, <3>2, <4>1
    <3>3. CASE u # t BY <1>1, <1>11, <3>1, <3>3 DEF RoundsSound
    <3> QED BY <3>2, <3>3
  <2>3. h3'.poisoned => Place(App)' = "dead" BY <1>1, <1>2, <1>14 DEF RoundsSound
  <2>4. Place(App)' \in AppPlaces BY <1>1, <1>14 DEF RoundsSound
  <2> QED BY <2>1, <2>2, <2>3, <2>4 DEF RoundsSound
<1>17. Quiet BY <1>2, <1>14 DEF Quiet
<1>18. InsertsSound' BY <1>1, <1>2, SameInserts
<1>19. Conserved'
  <2> SUFFICES ASSUME NEW x \in Instructions PROVE made'[x] = out'[x] + Held(x)'
    BY DEF Conserved
  <2>1. /\ Count(chan, x) \in Nat /\ Count(h3.pend, x) \in Nat
        /\ Count(task[App].items, x) \in Nat /\ Count(task[Control].items, x) \in Nat
        /\ Count(task[Encoder].items, x) \in Nat
    BY <1>1, CountsAreNat, TasksDiffer
  <2>2. Count(chan', x) = Count(chan, x) + Count(task[t].items, x)
    BY <1>3, <1>4, <1>8, <1>12, CountConcat
  <2>3. Count(task'[t].items, x) = 0 BY <1>5, <1>10, <1>11, CountNone
  <2>4. Held(x)' = Held(x)
    <3>1. CASE t = App
      <4>1. task'[Control].items = task[Control].items /\ task'[Encoder].items = task[Encoder].items
        BY <1>11, <3>1, TasksDiffer
      <4> QED BY <1>2, <2>1, <2>2, <2>3, <3>1, <4>1 DEF Held
    <3>2. CASE t = Control
      <4>1. task'[App].items = task[App].items /\ task'[Encoder].items = task[Encoder].items
        BY <1>11, <3>2, TasksDiffer
      <4> QED BY <1>2, <2>1, <2>2, <2>3, <3>2, <4>1 DEF Held
    <3>3. CASE t = Encoder
      <4>1. task'[App].items = task[App].items /\ task'[Control].items = task[Control].items
        BY <1>11, <3>3, TasksDiffer
      <4> QED BY <1>2, <2>1, <2>2, <2>3, <3>3, <4>1 DEF Held
    <3> QED BY <3>1, <3>2, <3>3, TasksDiffer DEF Tasks
  <2> QED BY <1>1, <1>2, <2>4 DEF Conserved
<1>20. Awake'
  <2>1. ASSUME NEW u \in Uni, task[u].pc \notin {"receive", "done"}
        PROVE  task'[u].pc \notin {"receive", "done"}
    <3>1. u \in Tasks BY TasksDiffer
    <3>2. CASE u = t
      <4>1. r.then \in {"notify", "notify last"} BY <1>1, <1>2, <1>4, <3>2 DEF RoundsSound
      <4> QED BY <1>10, <1>11, <3>2, <4>1
    <3>3. CASE u # t BY <1>11, <2>1, <3>1, <3>3
    <3> QED BY <3>2, <3>3
  <2> QED BY <1>1, <1>2, <1>14, <2>1 DEF Awake
<1> QED BY <1>1, <1>15, <1>16, <1>17, <1>18, <1>19, <1>20, QuietKeeps DEF DriverIInv

LEMMA QpackWriteKeeps ==
  ASSUME DriverIInv, QpackWrite
  PROVE  DriverIInv'
<1>1. /\ Types /\ RoundsSound /\ CallSound /\ ParkedSound /\ EventsSound /\ FlowSound
      /\ InsertsSound /\ Conserved /\ IdsSound /\ Awake
  BY DEF DriverIInv
<1>2. /\ chan # <<>> /\ chan' = Tail(chan)
      /\ scope' = scope /\ conn' = conn /\ inbox' = inbox /\ opened' = opened /\ sent' = sent
      /\ permit' = permit /\ h3' = h3 /\ call' = call /\ results' = results /\ msg' = msg
      /\ task' = task /\ made' = made
  BY Zenon DEF QpackWrite
<1>3. out \in Ticks /\ chan \in Seq(Instructions) BY <1>1 DEF Types
<1>4. PICK y \in Instructions : y = Head(chan) BY <1>2, <1>3, HeadTailProperties
<1>5. out' = [out EXCEPT ![y] = out[y] + 1] BY <1>4 DEF QpackWrite
<1>6. /\ out' \in Ticks /\ out'[y] = out[y] + 1
      /\ \A x \in Instructions : x # y => out'[x] = out[x]
  BY <1>3, <1>4, <1>5 DEF Ticks
<1>7. chan' \in Seq(Instructions) BY <1>2, <1>3, HeadTailProperties
<1>8. Types' BY <1>1, <1>2, <1>6, <1>7 DEF Types
<1>9. RoundsSound' BY <1>1, <1>2 DEF RoundsSound, Place
<1>10. Quiet BY <1>2 DEF Quiet, Place
<1>11. InsertsSound' BY <1>1, <1>2, SameInserts
<1>12. Conserved'
  <2> SUFFICES ASSUME NEW x \in Instructions PROVE made'[x] = out'[x] + Held(x)'
    BY DEF Conserved
  <2>1. /\ Count(chan, x) \in Nat /\ Count(h3.pend, x) \in Nat
        /\ Count(task[App].items, x) \in Nat /\ Count(task[Control].items, x) \in Nat
        /\ Count(task[Encoder].items, x) \in Nat /\ out[x] \in Nat
    BY <1>1, CountsAreNat, TasksDiffer
  <2>2. Count(chan, x) = IF y = x THEN Count(chan', x) + 1 ELSE Count(chan', x)
    BY <1>2, <1>3, <1>4, CountTail
  <2>3. Count(chan', x) \in Nat BY <1>7, CountFinite
  <2>4. out'[x] + Held(x)' = out[x] + Held(x)
    <3>1. PICK c \in Nat : c = Count(chan', x) BY <2>3
    <3>2. /\ Held(x)' = c + Count(task[App].items, x) + Count(task[Control].items, x)
                          + Count(task[Encoder].items, x) + Count(h3.pend, x)
          /\ Held(x) = Count(chan, x) + Count(task[App].items, x) + Count(task[Control].items, x)
                          + Count(task[Encoder].items, x) + Count(h3.pend, x)
      BY <1>2, <3>1 DEF Held
    <3>3. CASE y = x
      <4>1. Count(chan, x) = c + 1 /\ out'[x] = out[x] + 1 BY <1>6, <2>2, <3>1, <3>3
      <4> QED BY <2>1, <3>1, <3>2, <4>1
    <3>4. CASE y # x
      <4>1. Count(chan, x) = c /\ out'[x] = out[x] BY <1>6, <2>2, <3>1, <3>4
      <4> QED BY <2>1, <3>1, <3>2, <4>1
    <3> QED BY <3>3, <3>4
  <2> QED BY <1>1, <1>2, <2>4 DEF Conserved
<1>13. Awake' BY <1>1, <1>2 DEF Awake, Place, Readable, IsParked
<1> QED BY <1>1, <1>8, <1>9, <1>10, <1>11, <1>12, <1>13, QuietKeeps DEF DriverIInv

LEMMA UniNotifyKeeps ==
  ASSUME DriverIInv, NEW u \in Uni, UniNotify(u)
  PROVE  DriverIInv'
<1>1. /\ Types /\ RoundsSound /\ CallSound /\ ParkedSound /\ EventsSound /\ FlowSound
      /\ InsertsSound /\ Conserved /\ IdsSound /\ Awake
  BY DEF DriverIInv
<1>2. /\ task[u].pc \in {"notify", "notify last"} /\ permit' = TRUE
      /\ scope' = scope /\ conn' = conn /\ inbox' = inbox /\ opened' = opened /\ sent' = sent
      /\ chan' = chan /\ h3' = h3 /\ call' = call /\ results' = results /\ msg' = msg
      /\ out' = out /\ made' = made
  BY Zenon DEF UniNotify
<1>3. PICK p \in UniPlaces : p = IF task[u].pc = "notify" THEN "receive" ELSE "done"
  BY DEF UniPlaces
<1>4. Goto(u, p) BY <1>3 DEF UniNotify
<1>5. u \in Tasks /\ p \in Places /\ p \notin {"notify", "notify last"}
  BY <1>3, TasksDiffer DEF Places
<1>6. Moved(u, p) BY <1>1, <1>2, <1>4, <1>5, GotoMoves
<1>7. task'[u].pc # "flush"
  <2>1. task'[u].pc = p
    <3>1. task \in [Tasks -> Rounds] BY <1>1 DEF Types
    <3> QED BY <1>4, <1>5, <3>1 DEF Goto, Rounds
  <2> QED BY <1>3, <2>1
<1>8. /\ RoundsSound' /\ Place(App)' = Place(App)
      /\ \A t \in Tasks : task'[t].items = task[t].items
  <2>1. p \in UniPlaces BY <1>3
  <2>2. task[u].pc # "send" /\ (h3'.poisoned => h3.poisoned) BY <1>2
  <2> QED BY <1>1, <1>6, <1>7, <2>1, <2>2, UniMoved
<1>9. Types' BY <1>1, <1>2, <1>6 DEF Types, Moved
<1>10. Quiet BY <1>2, <1>8 DEF Quiet
<1>11. InsertsSound' BY <1>1, <1>2, SameInserts
<1>12. Conserved' BY <1>1, <1>2, <1>8, SameConserved
<1>13. Awake' BY <1>2 DEF Awake
<1> QED BY <1>1, <1>8, <1>9, <1>10, <1>11, <1>12, <1>13, QuietKeeps DEF DriverIInv

-----------------------------------------------------------------------------
(* Insertions on their way.                                                *)

LEMMA InsertItem ==
  ASSUME NEW x \in UniItems
  PROVE  x.k = "insert" <=> x = Item("insert")
<1>1. x = [k |-> x.k, ric |-> x.ric, ok |-> x.ok] /\ x.ric = 0 /\ x.ok = TRUE
  BY DEF UniItems, Plain
<1>2. Item("insert") = [k |-> "insert", ric |-> 0, ok |-> TRUE] BY DEF Item
<1>3. Item("insert").k = "insert" BY <1>2
<1>4. x.k = "insert" => x = Item("insert") BY <1>1, <1>2
<1> QED BY <1>3, <1>4

LEMMA InsertsAreCounted ==
  ASSUME NEW q \in Seq(UniItems)
  PROVE  InsertsIn(q) = Count(q, Item("insert")) /\ InsertsIn(q) \in Nat
<1>1. \A x \in UniItems : x.k = "insert" <=> x = Item("insert") BY InsertItem
<1>2. \A i \in DOMAIN q : q[i] \in UniItems BY LenProperties, ElementOfSeq
<1>3. {i \in DOMAIN q : q[i].k = "insert"} = {i \in DOMAIN q : q[i] = Item("insert")}
  BY <1>1, <1>2
<1>4. InsertsIn(q) = Count(q, Item("insert")) BY <1>3 DEF InsertsIn, Count
<1> QED BY <1>4, CountFinite

LEMMA InsertsAppend ==
  ASSUME NEW q \in Seq(UniItems), NEW y \in UniItems
  PROVE  InsertsIn(Append(q, y)) <= InsertsIn(q) + 1
         /\ (y.k # "insert" => InsertsIn(Append(q, y)) = InsertsIn(q))
<1>1. PICK x : x = Item("insert") OBVIOUS
<1>2. PICK r : r = Append(q, y) OBVIOUS
<1>3. r \in Seq(UniItems) BY <1>2, AppendProperties
<1>4. InsertsIn(q) = Count(q, x) /\ InsertsIn(q) \in Nat BY <1>1, InsertsAreCounted
<1>5. InsertsIn(r) = Count(r, x) BY <1>1, <1>3, InsertsAreCounted
<1>6. Count(r, x) = IF y = x THEN Count(q, x) + 1 ELSE Count(q, x) BY <1>2, CountAppend
<1>7. y.k # "insert" => y # x BY <1>1 DEF Item
<1> QED BY <1>2, <1>4, <1>5, <1>6, <1>7

LEMMA InsertsTail ==
  ASSUME NEW q \in Seq(UniItems), q # <<>>
  PROVE  /\ Head(q) \in UniItems /\ Tail(q) \in Seq(UniItems)
         /\ InsertsIn(q) = IF Head(q).k = "insert" THEN InsertsIn(Tail(q)) + 1 ELSE InsertsIn(Tail(q))
<1>1. PICK x : x = Item("insert") OBVIOUS
<1>2. Head(q) \in UniItems /\ Tail(q) \in Seq(UniItems) BY HeadTailProperties
<1>3. InsertsIn(q) = Count(q, x) BY <1>1, InsertsAreCounted
<1>4. InsertsIn(Tail(q)) = Count(Tail(q), x) BY <1>1, <1>2, InsertsAreCounted
<1>5. Count(q, x) = IF Head(q) = x THEN Count(Tail(q), x) + 1 ELSE Count(Tail(q), x)
  BY CountTail
<1>6. Head(q).k = "insert" <=> Head(q) = x BY <1>1, <1>2, InsertItem
<1> QED BY <1>2, <1>3, <1>4, <1>5, <1>6

(* A task has taken the first item of its stream.                          *)
LEMMA ItemTaken ==
  ASSUME Types, InsertsSound, NEW u \in Uni, inbox[u] # <<>>,
         inbox' = [inbox EXCEPT ![u] = Tail(@)]
  PROVE  /\ Head(inbox[u]) \in UniItems
         /\ inbox' \in [Uni \cup Requests -> Seq(Items \cup UniItems)]
         /\ \A n \in Requests : inbox'[n] = inbox[n]
         /\ \A g : /\ g.inserts \in {h3.inserts, h3.inserts + 1}
                   /\ Head(inbox[u]).k # "insert" => g.inserts = h3.inserts
                   /\ h3' = g
                   => InsertsSound'
<1>1. inbox[u] \in Seq(UniItems) BY DEF InsertsSound
<1>2. /\ Head(inbox[u]) \in UniItems /\ Tail(inbox[u]) \in Seq(UniItems)
      /\ InsertsIn(inbox[u]) = IF Head(inbox[u]).k = "insert" THEN InsertsIn(Tail(inbox[u])) + 1
                                                           ELSE InsertsIn(Tail(inbox[u]))
  BY <1>1, InsertsTail
<1>3. inbox \in [Uni \cup Requests -> Seq(Items \cup UniItems)] BY DEF Types
<1>4. UniItems \subseteq Items \cup UniItems OBVIOUS
<1>5. PICK t \in Seq(UniItems) : t = Tail(inbox[u]) BY <1>2
<1>6. t \in Seq(Items \cup UniItems) BY <1>4, <1>5, SeqMonotonic
<1>7. /\ inbox' \in [Uni \cup Requests -> Seq(Items \cup UniItems)] /\ inbox'[u] = t
      /\ \A s \in Uni \cup Requests : s # u => inbox'[s] = inbox[s]
  BY <1>3, <1>5, <1>6
<1>8. u \notin Requests BY DEF Uni, Control, Encoder, Requests
<1>9. ASSUME NEW g, g.inserts \in {h3.inserts, h3.inserts + 1},
             Head(inbox[u]).k # "insert" => g.inserts = h3.inserts,
             h3' = g
      PROVE  InsertsSound'
  <2>1. h3.inserts \in Nat BY DEF Types, States
  <2>2. \A v \in Uni : inbox'[v] \in Seq(UniItems) BY <1>2, <1>5, <1>7 DEF InsertsSound
  <2>3. \A i \in 1 .. Len(inbox'[Control]) : inbox'[Control][i].k # "insert"
    <3>1. CASE u = Control
      <4>1. /\ Len(t) = Len(inbox[u]) - 1 /\ Len(inbox[u]) \in Nat
            /\ \A i \in 1 .. Len(t) : t[i] = inbox[u][i + 1]
        BY <1>1, <1>5, HeadTailProperties, LenProperties
      <4>2. \A i \in 1 .. Len(t) : i + 1 \in 1 .. Len(inbox[u]) BY <4>1
      <4> QED BY <1>7, <3>1, <4>1, <4>2 DEF InsertsSound
    <3>2. CASE u # Control BY <1>7, <3>2, TasksDiffer DEF InsertsSound
    <3> QED BY <3>1, <3>2
  <2>4. g.inserts + InsertsIn(inbox'[Encoder]) <= MaxInserts
    <3>1. CASE u = Encoder
      <4>1. InsertsIn(t) \in Nat BY <1>5, InsertsAreCounted
      <4>2. h3.inserts + InsertsIn(inbox[u]) <= MaxInserts BY <3>1 DEF InsertsSound
      <4>3. MaxInserts \in Nat BY DriverAssumption
      <4>4. CASE Head(inbox[u]).k = "insert"
        <5>1. InsertsIn(inbox[u]) = InsertsIn(t) + 1 BY <1>2, <1>5, <4>4
        <5>2. inbox'[Encoder] = t BY <1>7, <3>1
        <5>3. PICK c \in Nat : c = InsertsIn(t) BY <4>1
        <5>4. h3.inserts + (c + 1) <= MaxInserts BY <4>2, <5>1, <5>3
        <5>5. g.inserts + c <= MaxInserts BY <1>9, <2>1, <4>3, <5>3, <5>4
        <5> QED BY <5>2, <5>3, <5>5
      <4>5. CASE Head(inbox[u]).k # "insert"
        <5>1. InsertsIn(inbox[u]) = InsertsIn(t) BY <1>2, <1>5, <4>5
        <5> QED BY <1>7, <1>9, <2>1, <3>1, <4>2, <4>5, <5>1
      <4> QED BY <4>4, <4>5
    <3>2. CASE u # Encoder
      <4>1. u = Control BY <3>2, TasksDiffer
      <4>2. Head(inbox[u]).k # "insert"
        <5>1. Head(inbox[u]) = inbox[u][1] /\ 1 \in 1 .. Len(inbox[u])
          BY <1>1, HeadTailProperties, LenProperties, EmptySeq
        <5> QED BY <4>1, <5>1 DEF InsertsSound
      <4>3. inbox'[Encoder] = inbox[Encoder] BY <1>7, <3>2, TasksDiffer
      <4> QED BY <1>9, <4>2, <4>3 DEF InsertsSound
    <3> QED BY <3>1, <3>2
  <2> QED BY <1>9, <2>2, <2>3, <2>4 DEF InsertsSound
<1> QED BY <1>2, <1>7, <1>8, <1>9

LEMMA UniReceiveKeeps ==
  ASSUME DriverIInv, NEW u \in Uni, UniReceive(u)
  PROVE  DriverIInv'
<1>1. /\ Types /\ RoundsSound /\ CallSound /\ ParkedSound /\ EventsSound /\ FlowSound
      /\ InsertsSound /\ Conserved /\ IdsSound /\ Awake
  BY DEF DriverIInv
<1>2. /\ task[u].pc = "receive"
      /\ scope' = scope /\ conn' = conn /\ opened' = opened /\ sent' = sent
      /\ permit' = permit /\ chan' = chan /\ call' = call /\ results' = results /\ msg' = msg
      /\ out' = out
  BY Zenon DEF UniReceive
<1>3. u \in Tasks BY TasksDiffer
<1>4. h3 \in States BY <1>1 DEF Types
<1>5. \/ /\ inbox[u] # <<>> /\ inbox' = [inbox EXCEPT ![u] = Tail(@)] /\ Poisoned(u)
      \/ /\ inbox[u] # <<>> /\ inbox' = [inbox EXCEPT ![u] = Tail(@)] /\ ~h3.poisoned
         /\ Store(UniApply(h3, Head(inbox[u])))
         /\ GoFlush(u, IF h3'.error THEN "notify last" ELSE "notify")
      \/ GoFlush(u, "notify last") /\ inbox' = inbox /\ h3' = h3 /\ made' = made
  BY Zenon DEF UniReceive, GoFlush
<1>6. CASE /\ inbox[u] # <<>> /\ inbox' = [inbox EXCEPT ![u] = Tail(@)] /\ Poisoned(u)
  <2>1. h3.poisoned /\ h3' = h3 /\ made' = made /\ Goto(u, "dead")
    BY <1>6, Zenon DEF Poisoned
  <2>2. PICK p \in UniPlaces : p = "dead" BY DEF UniPlaces
  <2>3. p \in Places /\ p \in UniPlaces /\ Goto(u, p) BY <2>1, <2>2 DEF Places
  <2>4. Moved(u, p) BY <1>1, <1>2, <1>3, <2>3, GotoMoves
  <2>5. task'[u].pc = "dead" BY <1>1, <1>3, <2>1 DEF Goto, Types, Rounds
  <2>6. /\ RoundsSound' /\ Place(App)' = Place(App)
        /\ \A t \in Tasks : task'[t].items = task[t].items
    BY <1>1, <1>2, <2>1, <2>3, <2>4, <2>5, UniMoved
  <2>7. /\ inbox' \in [Uni \cup Requests -> Seq(Items \cup UniItems)]
        /\ \A n \in Requests : inbox'[n] = inbox[n]
    BY <1>1, <1>6, ItemTaken
  <2>8. InsertsSound'
    <3>1. h3.inserts \in {h3.inserts, h3.inserts + 1} OBVIOUS
    <3> QED BY <1>1, <1>6, <2>1, <3>1, ItemTaken
  <2>9. Types' BY <1>1, <1>2, <2>1, <2>4, <2>7 DEF Types, Moved
  <2>10. Quiet BY <1>2, <2>1, <2>6, <2>7 DEF Quiet
  <2>11. Conserved' BY <1>1, <1>2, <2>1, <2>6, SameConserved
  <2>12. Awake' BY <2>5, StillAwake
  <2> QED BY <1>1, <2>6, <2>8, <2>9, <2>10, <2>11, <2>12, QuietKeeps DEF DriverIInv
<1>7. CASE /\ inbox[u] # <<>> /\ inbox' = [inbox EXCEPT ![u] = Tail(@)] /\ ~h3.poisoned
           /\ Store(UniApply(h3, Head(inbox[u])))
           /\ GoFlush(u, IF h3'.error THEN "notify last" ELSE "notify")
  <2>1. PICK p \in UniPlaces : p = IF h3'.error THEN "notify last" ELSE "notify"
    BY DEF UniPlaces
  <2>2. p \in {"notify", "notify last"} BY <2>1
  <2>3. p \in Places /\ p \in UniPlaces /\ GoFlush(u, p) BY <1>7, <2>1, <2>2 DEF Places
  <2>4. Moved(u, p) /\ task'[u].pc = "flush" BY <1>1, <1>2, <1>3, <2>3, FlushMoves
  <2>5. Head(inbox[u]) \in UniItems BY <1>1, <1>7, ItemTaken
  <2>6. PICK item \in UniItems : item = Head(inbox[u]) BY <2>5
  <2>7. PICK g : g = UniApply(h3, item) OBVIOUS
  <2>8. item \in UniItems BY <2>6
  <2>9. /\ g \in States /\ Adds(g, h3)
        /\ g.parked = h3.parked /\ g.events = h3.events
        /\ g.next = h3.next /\ g.poisoned = h3.poisoned
        /\ h3.error => g.error
        /\ item.k = "insert" => g.inserts \in {h3.inserts, h3.inserts + 1}
        /\ item.k # "insert" => g.inserts = h3.inserts
    BY <1>4, <2>7, <2>8, UniApplyFacts
  <2>10. Store(g) BY <1>7, <2>6, <2>7
  <2>11. h3' = g BY <2>10 DEF Store
  <2>12. /\ RoundsSound' /\ Place(App)' = Place(App)
         /\ \A t \in Tasks : task'[t].items = task[t].items
    <3>1. h3'.poisoned => h3.poisoned BY <2>9, <2>11
    <3> QED BY <1>1, <1>2, <2>2, <2>3, <2>4, <3>1, UniMoved
  <2>13. /\ inbox' \in [Uni \cup Requests -> Seq(Items \cup UniItems)]
         /\ \A n \in Requests : inbox'[n] = inbox[n]
    BY <1>1, <1>7, ItemTaken
  <2>14. InsertsSound'
    <3>1. g.inserts \in {h3.inserts, h3.inserts + 1} BY <2>9
    <3>2. Head(inbox[u]).k # "insert" => g.inserts = h3.inserts BY <2>6, <2>9
    <3> QED BY <1>1, <1>7, <2>11, <3>1, <3>2, ItemTaken
  <2>15. made' \in Ticks /\ Conserved' BY <1>1, <1>2, <2>9, <2>10, <2>12, StoreConserves
  <2>16. Types' BY <1>1, <1>2, <2>4, <2>9, <2>11, <2>13, <2>15 DEF Types, Moved
  <2>17. Quiet BY <1>2, <2>9, <2>11, <2>12, <2>13 DEF Quiet
  <2>18. Awake' BY <2>4, StillAwake
  <2> QED BY <1>1, <2>12, <2>14, <2>15, <2>16, <2>17, <2>18, QuietKeeps DEF DriverIInv
<1>8. CASE GoFlush(u, "notify last") /\ inbox' = inbox /\ h3' = h3 /\ made' = made
  <2>1. PICK p \in UniPlaces : p = "notify last" BY DEF UniPlaces
  <2>2. p \in Places /\ p \in UniPlaces /\ p \in {"notify", "notify last"} /\ GoFlush(u, p)
    BY <1>8, <2>1 DEF Places
  <2>3. Moved(u, p) /\ task'[u].pc = "flush" BY <1>1, <1>2, <1>3, <2>2, FlushMoves
  <2>4. /\ RoundsSound' /\ Place(App)' = Place(App)
        /\ \A t \in Tasks : task'[t].items = task[t].items
    BY <1>1, <1>2, <1>8, <2>2, <2>3, UniMoved
  <2>5. Types' BY <1>1, <1>2, <1>8, <2>3 DEF Types, Moved
  <2>6. Quiet BY <1>2, <1>8, <2>4 DEF Quiet
  <2>7. InsertsSound' BY <1>1, <1>8, SameInserts
  <2>8. Conserved' BY <1>1, <1>2, <1>8, <2>4, SameConserved
  <2>9. Awake' BY <2>3, StillAwake
  <2> QED BY <1>1, <2>4, <2>5, <2>6, <2>7, <2>8, <2>9, QuietKeeps DEF DriverIInv
<1> QED BY <1>5, <1>6, <1>7, <1>8

LEMMA ItemArrives ==
  ASSUME DriverIInv, NEW u \in Uni, NEW item \in UniItems, Arrive(u, item),
         opened' = opened, msg' = msg,
         item.k = "insert" => u = Encoder /\ Inserted < MaxInserts
  PROVE  DriverIInv'
<1>1. /\ Types /\ RoundsSound /\ CallSound /\ ParkedSound /\ EventsSound /\ FlowSound
      /\ InsertsSound /\ Conserved /\ IdsSound /\ Awake
  BY DEF DriverIInv
<1>2. /\ scope' = scope /\ conn' = conn /\ sent' = sent /\ h3' = h3 /\ task' = task
      /\ permit' = permit /\ chan' = chan /\ call' = call /\ results' = results
      /\ made' = made /\ out' = out
  BY Zenon DEF Arrive
<1>3. inbox[u] \in Seq(UniItems) BY <1>1 DEF InsertsSound
<1>4. PICK q \in Seq(UniItems) : q = Append(inbox[u], item) BY <1>3, AppendProperties
<1>5. inbox \in [Uni \cup Requests -> Seq(Items \cup UniItems)] BY <1>1 DEF Types
<1>6. UniItems \subseteq Items \cup UniItems OBVIOUS
<1>7. q \in Seq(Items \cup UniItems) BY <1>4, <1>6, SeqMonotonic
<1>8. inbox' = [inbox EXCEPT ![u] = q] BY <1>4 DEF Arrive
<1>9. /\ inbox' \in [Uni \cup Requests -> Seq(Items \cup UniItems)] /\ inbox'[u] = q
      /\ \A s \in Uni \cup Requests : s # u => inbox'[s] = inbox[s]
  BY <1>5, <1>7, <1>8
<1>10. u \notin Requests BY DEF Uni, Control, Encoder, Requests
<1>11. Types' BY <1>1, <1>2, <1>9 DEF Types
<1>12. RoundsSound' BY <1>1, <1>2 DEF RoundsSound, Place
<1>13. Quiet BY <1>2, <1>9, <1>10 DEF Quiet, Place
<1>14. InsertsSound'
  <2>1. \A v \in Uni : inbox'[v] \in Seq(UniItems) BY <1>1, <1>4, <1>9 DEF InsertsSound
  <2>2. \A i \in 1 .. Len(inbox'[Control]) : inbox'[Control][i].k # "insert"
    <3>1. CASE u = Control
      <4>1. item.k # "insert" BY <3>1, TasksDiffer
      <4>2. /\ Len(q) = Len(inbox[u]) + 1 /\ Len(inbox[u]) \in Nat /\ q[Len(inbox[u]) + 1] = item
            /\ \A i \in 1 .. Len(inbox[u]) : q[i] = inbox[u][i]
        BY <1>3, <1>4, AppendProperties, LenProperties
      <4>3. \A i \in 1 .. Len(q) : i = Len(inbox[u]) + 1 \/ i \in 1 .. Len(inbox[u]) BY <4>2
      <4>4. \A i \in 1 .. Len(inbox[u]) : inbox[u][i].k # "insert" BY <1>1, <3>1 DEF InsertsSound
      <4> QED BY <1>9, <3>1, <4>1, <4>2, <4>3, <4>4
    <3>2. CASE u # Control BY <1>1, <1>9, <3>2, TasksDiffer DEF InsertsSound
    <3> QED BY <3>1, <3>2
  <2>3. h3'.inserts + InsertsIn(inbox'[Encoder]) <= MaxInserts
    <3>1. CASE u = Encoder
      <4>1. InsertsIn(q) <= InsertsIn(inbox[u]) + 1
            /\ (item.k # "insert" => InsertsIn(q) = InsertsIn(inbox[u]))
        BY <1>3, <1>4, InsertsAppend
      <4>2. PICK a \in Nat : a = InsertsIn(inbox[u]) BY <1>3, InsertsAreCounted
      <4>3. PICK c \in Nat : c = InsertsIn(q) BY <1>4, InsertsAreCounted
      <4>4. h3.inserts \in Nat /\ MaxInserts \in Nat BY <1>1, DriverAssumption DEF Types, States
      <4>5. h3.inserts + a <= MaxInserts BY <1>1, <3>1, <4>2 DEF InsertsSound
      <4>6. item.k = "insert" => h3.inserts + a < MaxInserts
        BY <3>1, <4>2 DEF Inserted, InsertsIn
      <4>7. c <= a + 1 /\ (item.k # "insert" => c = a) BY <4>1, <4>2, <4>3
      <4>8. h3.inserts + c <= MaxInserts BY <4>2, <4>3, <4>4, <4>5, <4>6, <4>7
      <4> QED BY <1>2, <1>9, <3>1, <4>3, <4>8
    <3>2. CASE u # Encoder BY <1>1, <1>2, <1>9, <3>2, TasksDiffer DEF InsertsSound
    <3> QED BY <3>1, <3>2
  <2> QED BY <2>1, <2>2, <2>3 DEF InsertsSound
<1>15. Conserved' BY <1>1, <1>2, SameConserved
<1>16. Awake' BY <1>1, <1>2 DEF Awake, Place, Readable, IsParked
<1> QED BY <1>1, <1>11, <1>12, <1>13, <1>14, <1>15, <1>16, QuietKeeps DEF DriverIInv

LEMMA ArrivalsKeep ==
  ASSUME DriverIInv,
         InsertArrives \/ SettingsArrive \/ \E u \in Uni : CriticalCloses(u)
  PROVE  DriverIInv'
<1>1. \A k \in {"insert", "settings", "close"} : Item(k) \in UniItems /\ Item(k).k = k
  BY DEF UniItems, Plain, Item
<1>2. CASE InsertArrives
  <2>1. PICK item \in UniItems : item = Item("insert") BY <1>1
  <2>2. /\ item \in UniItems /\ Arrive(Encoder, item) /\ opened' = opened /\ msg' = msg
        /\ Inserted < MaxInserts /\ Encoder \in Uni
    BY <1>2, <2>1, TasksDiffer DEF InsertArrives
  <2> QED BY <2>2, ItemArrives
<1>3. CASE SettingsArrive
  <2>1. PICK item \in UniItems : item = Item("settings") BY <1>1
  <2>2. /\ item \in UniItems /\ Arrive(Control, item) /\ opened' = opened /\ msg' = msg
        /\ Control \in Uni
    BY <1>3, <2>1, TasksDiffer DEF SettingsArrive
  <2>3. item.k # "insert" BY <1>1, <2>1
  <2> QED BY <2>2, <2>3, ItemArrives
<1>4. ASSUME NEW u \in Uni, CriticalCloses(u) PROVE DriverIInv'
  <2>1. PICK item \in UniItems : item = Item("close") BY <1>1
  <2>2. item \in UniItems /\ Arrive(u, item) /\ opened' = opened /\ msg' = msg
    BY <1>4, <2>1 DEF CriticalCloses
  <2>3. item.k # "insert" BY <1>1, <2>1
  <2> QED BY <2>2, <2>3, ItemArrives
<1> QED BY <1>2, <1>3, <1>4

-----------------------------------------------------------------------------
(* Steps of the application's call that leave the connection alone.        *)

LEMMA AppGoes ==
  ASSUME Types, RoundsSound, NEW p \in AppPlaces, Pc \notin {"flush", "send"},
         Goto(App, p) \/ GoFlush(App, p), h3'.poisoned => p = "dead"
  PROVE  /\ RoundsSound' /\ Place(App)' = p /\ task' \in [Tasks -> Rounds]
         /\ \A t \in Tasks : task'[t].items = task[t].items
         /\ \A u \in Uni : task'[u] = task[u]
<1>1. p \in Places BY DEF AppPlaces, Places
<1>2. task[App].pc # "send" /\ App \in Tasks BY TasksDiffer DEF Pc
<1>3. Moved(App, p) BY <1>1, <1>2, GotoMoves, FlushMoves
<1> QED BY <1>2, <1>3, AppMoved DEF Moved

LEMMA AppHere ==
  ASSUME RoundsSound, Pc \notin {"flush", "send", "dead"}
  PROVE  Place(App) = Pc /\ ~h3.poisoned
BY DEF Place, Pc, RoundsSound

LEMMA FailedCall ==
  ASSUME NEW c \in Calls, NEW d, d = [c EXCEPT !.result = "error"]
  PROVE  d \in Calls /\ d.n = c.n /\ d.got = c.got /\ d.fin = c.fin /\ d.result = "error"
BY DEF Calls

LEMMA AppQuiet ==
  ASSUME DriverIInv, NEW p \in AppPlaces, p \notin Before \cup {"select", "dead"},
         Pc \notin {"flush", "send", "dead"},
         Goto(App, p) \/ GoFlush(App, p),
         scope' = scope /\ conn' = conn /\ inbox' = inbox /\ opened' = opened /\ h3' = h3
           /\ chan' = chan /\ results' = results /\ msg' = msg /\ made' = made /\ out' = out,
         sent' \subseteq Requests, permit' \in BOOLEAN,
         \/ call' = call /\ Pc # "encode"
         \/ /\ call' = [call EXCEPT !.result = "error"]
            /\ conn = "up" /\ ~h3.error => \A n \in Requests : h3.parked[n] = <<>>,
         CallSound'
  PROVE  DriverIInv'
<1>1. /\ Types /\ RoundsSound /\ CallSound /\ ParkedSound /\ EventsSound /\ FlowSound
      /\ InsertsSound /\ Conserved /\ IdsSound /\ Awake
  BY DEF DriverIInv
<1>2. Place(App) = Pc /\ ~h3.poisoned BY <1>1, AppHere
<1>3. /\ RoundsSound' /\ Place(App)' = p /\ task' \in [Tasks -> Rounds]
      /\ \A t \in Tasks : task'[t].items = task[t].items
  BY <1>1, <1>2, AppGoes
<1>4. call \in Calls BY <1>1 DEF Types
<1>5. /\ call' \in Calls /\ call'.n = call.n /\ call'.got = call.got /\ call'.fin = call.fin
      /\ call'.result = call.result \/ call'.result = "error"
  BY <1>4, FailedCall
<1>6. Types' BY <1>1, <1>3, <1>5 DEF Types
<1>7. SameFlow BY <1>3, <1>5 DEF SameFlow
<1>8. ParkedSound'
  <2>1. \A n \in Requests : h3.parked[n] # <<>> => (conn = "up" /\ ~h3.error => call'.result = "none")
    BY <1>1 DEF ParkedSound
  <2> QED BY <1>1, <1>3, <1>5, <2>1 DEF ParkedSound
<1>9. EventsSound' BY <1>1, <1>3, <1>5 DEF EventsSound
<1>10. IdsSound'
  <2>1. CASE call' = call /\ Pc # "encode" BY <1>1, <1>2, <1>3, <2>1 DEF IdsSound, NoCallFailed, Before
  <2>2. CASE call'.result = "error" BY <1>1, <1>2, <1>3, <2>2 DEF IdsSound, NoCallFailed
  <2> QED BY <1>4, <2>1, <2>2, FailedCall
<1>11. Awake' BY <1>3 DEF Awake
<1> QED BY <1>1, <1>3, <1>6, <1>7, <1>8, <1>9, <1>10, <1>11, FlowStays, SameInserts, SameConserved
        DEF DriverIInv

LEMMA CallNumber ==
  ASSUME Types, call.n > 0
  PROVE  call.n \in Requests
BY DriverAssumption DEF Types, Calls, Requests

LEMMA TransmitKeeps ==
  ASSUME DriverIInv, Transmit
  PROVE  DriverIInv'
<1>1. Types /\ RoundsSound /\ CallSound BY DEF DriverIInv
<1>2. /\ Pc = "transmit" /\ scope' = scope /\ conn' = conn /\ inbox' = inbox /\ opened' = opened
      /\ h3' = h3 /\ permit' = permit /\ chan' = chan /\ results' = results /\ msg' = msg
      /\ made' = made /\ out' = out
  BY Zenon DEF Transmit
<1>3. Place(App) = Pc /\ ~h3.poisoned BY <1>1, <1>2, AppHere
<1>4. call \in Calls /\ sent \subseteq Requests /\ permit' \in BOOLEAN BY <1>1, <1>2 DEF Types
<1>5. call.n \in Requests BY <1>1, <1>2, <1>3, CallNumber DEF CallSound, Before
<1>6. CASE conn = "lost"
  <2>1. call' = [call EXCEPT !.result = "error"] /\ Goto(App, "return") /\ sent' = sent
    BY <1>2, <1>6, Zenon DEF Transmit, Fail
  <2>2. PICK p \in AppPlaces : p = "return" BY DEF AppPlaces
  <2>3. p \in AppPlaces /\ p \notin Before \cup {"select", "dead"} /\ Goto(App, p)
    BY <2>1, <2>2 DEF Before
  <2>4. Place(App)' = p BY <1>1, <1>2, <1>3, <2>3, AppGoes
  <2>5. call'.n = call.n /\ call'.result = "error" BY <1>4, <2>1, FailedCall
  <2>6. CallSound' BY <1>1, <1>2, <1>3, <2>2, <2>4, <2>5 DEF CallSound, Before, Waiting
  <2> QED BY <1>2, <1>4, <1>6, <2>1, <2>3, <2>6, AppQuiet
<1>7. CASE conn # "lost"
  <2>1. sent' = sent \cup {call.n} /\ Goto(App, "drain") /\ call' = call
    BY <1>2, <1>7, Zenon DEF Transmit
  <2>2. PICK p \in AppPlaces : p = "drain" BY DEF AppPlaces
  <2>3. p \in AppPlaces /\ p \notin Before \cup {"select", "dead"} /\ Goto(App, p)
    BY <2>1, <2>2 DEF Before
  <2>4. Place(App)' = p BY <1>1, <1>2, <1>3, <2>3, AppGoes
  <2>5. CallSound' BY <1>1, <1>2, <1>3, <2>1, <2>2, <2>4 DEF CallSound, Before, Waiting
  <2>6. sent' \subseteq Requests BY <1>4, <1>5, <2>1
  <2> QED BY <1>2, <1>4, <2>1, <2>3, <2>5, <2>6, AppQuiet
<1> QED BY <1>6, <1>7

LEMMA SelectLostKeeps ==
  ASSUME DriverIInv, SelectLost
  PROVE  DriverIInv'
<1>1. Types /\ RoundsSound /\ CallSound BY DEF DriverIInv
<1>2. /\ Pc = "select" /\ conn = "lost"
      /\ call' = [call EXCEPT !.result = "error"] /\ Goto(App, "return")
      /\ scope' = scope /\ conn' = conn /\ inbox' = inbox /\ opened' = opened /\ sent' = sent
      /\ h3' = h3 /\ permit' = permit /\ chan' = chan /\ results' = results /\ msg' = msg
      /\ made' = made /\ out' = out
  BY Zenon DEF SelectLost, Fail
<1>3. Place(App) = Pc /\ ~h3.poisoned BY <1>1, <1>2, AppHere
<1>4. call \in Calls /\ sent' \subseteq Requests /\ permit' \in BOOLEAN BY <1>1, <1>2 DEF Types
<1>5. PICK p \in AppPlaces : p = "return" BY DEF AppPlaces
<1>6. p \in AppPlaces /\ p \notin Before \cup {"select", "dead"} /\ Goto(App, p)
  BY <1>2, <1>5 DEF Before
<1>7. Place(App)' = p BY <1>1, <1>2, <1>3, <1>6, AppGoes
<1>8. call'.n = call.n /\ call'.result = "error" BY <1>2, <1>4, FailedCall
<1>9. CallSound' BY <1>1, <1>2, <1>3, <1>5, <1>7, <1>8 DEF CallSound, Before, Waiting
<1> QED BY <1>2, <1>4, <1>6, <1>9, AppQuiet

LEMMA SelectNotifiedKeeps ==
  ASSUME DriverIInv, SelectNotified
  PROVE  DriverIInv'
<1>1. Types /\ RoundsSound /\ CallSound BY DEF DriverIInv
<1>2. /\ Pc = "select" /\ permit' = FALSE /\ Goto(App, "drain") /\ call' = call
      /\ scope' = scope /\ conn' = conn /\ inbox' = inbox /\ opened' = opened /\ sent' = sent
      /\ h3' = h3 /\ chan' = chan /\ results' = results /\ msg' = msg
      /\ made' = made /\ out' = out
  BY Zenon DEF SelectNotified
<1>3. Place(App) = Pc /\ ~h3.poisoned BY <1>1, <1>2, AppHere
<1>4. sent' \subseteq Requests /\ permit' \in BOOLEAN BY <1>1, <1>2 DEF Types
<1>5. PICK p \in AppPlaces : p = "drain" BY DEF AppPlaces
<1>6. p \in AppPlaces /\ p \notin Before \cup {"select", "dead"} /\ Goto(App, p)
  BY <1>2, <1>5 DEF Before
<1>7. Place(App)' = p BY <1>1, <1>2, <1>3, <1>6, AppGoes
<1>8. CallSound' BY <1>1, <1>2, <1>3, <1>5, <1>7 DEF CallSound, Before, Waiting
<1> QED BY <1>2, <1>4, <1>6, <1>8, AppQuiet

LEMMA RespondKeeps ==
  ASSUME DriverIInv, Respond
  PROVE  DriverIInv'
<1>1. Types /\ RoundsSound /\ CallSound BY DEF DriverIInv
<1>2. /\ Pc = "respond" /\ permit' = permit /\ call' = call
      /\ Goto(App, "idle") \/ GoFlush(App, "reply")
      /\ scope' = scope /\ conn' = conn /\ inbox' = inbox /\ opened' = opened /\ sent' = sent
      /\ h3' = h3 /\ chan' = chan /\ results' = results /\ msg' = msg
      /\ made' = made /\ out' = out
  BY Zenon DEF Respond
<1>3. Place(App) = Pc /\ ~h3.poisoned BY <1>1, <1>2, AppHere
<1>4. sent' \subseteq Requests /\ permit' \in BOOLEAN BY <1>1, <1>2 DEF Types
<1>5. PICK p \in AppPlaces : p \in {"idle", "reply"} /\ (Goto(App, p) \/ GoFlush(App, p))
  BY <1>2 DEF AppPlaces
<1>6. p \in AppPlaces /\ p \notin Before \cup {"select", "dead"} BY <1>5 DEF Before
<1>7. Place(App)' = p BY <1>1, <1>2, <1>3, <1>5, <1>6, AppGoes
<1>8. CallSound' BY <1>1, <1>2, <1>3, <1>5, <1>7 DEF CallSound, Before, Waiting
<1> QED BY <1>2, <1>4, <1>5, <1>6, <1>8, AppQuiet

LEMMA ReplyKeeps ==
  ASSUME DriverIInv, Reply
  PROVE  DriverIInv'
<1>1. Types /\ RoundsSound /\ CallSound BY DEF DriverIInv
<1>2. /\ Pc = "reply" /\ permit' = permit /\ call' = call /\ Goto(App, "idle")
      /\ sent' = IF conn = "up" THEN sent \cup {call.n} ELSE sent
      /\ scope' = scope /\ conn' = conn /\ inbox' = inbox /\ opened' = opened
      /\ h3' = h3 /\ chan' = chan /\ results' = results /\ msg' = msg
      /\ made' = made /\ out' = out
  BY Zenon DEF Reply
<1>3. Place(App) = Pc /\ ~h3.poisoned BY <1>1, <1>2, AppHere
<1>4. sent \subseteq Requests /\ permit' \in BOOLEAN BY <1>1, <1>2 DEF Types
<1>5. call.n \in Requests BY <1>1, <1>2, <1>3, CallNumber DEF CallSound
<1>6. sent' \subseteq Requests BY <1>2, <1>4, <1>5
<1>7. PICK p \in AppPlaces : p = "idle" BY DEF AppPlaces
<1>8. p \in AppPlaces /\ p \notin Before \cup {"select", "dead"} /\ Goto(App, p)
  BY <1>2, <1>7 DEF Before
<1>9. Place(App)' = p BY <1>1, <1>2, <1>3, <1>8, AppGoes
<1>10. CallSound' BY <1>1, <1>2, <1>3, <1>7, <1>9 DEF CallSound, Before, Waiting
<1> QED BY <1>2, <1>4, <1>6, <1>8, <1>10, AppQuiet

LEMMA ReturnKeeps ==
  ASSUME DriverIInv, Return
  PROVE  DriverIInv'
<1>1. /\ Types /\ RoundsSound /\ CallSound /\ ParkedSound /\ EventsSound /\ FlowSound
      /\ InsertsSound /\ Conserved /\ IdsSound /\ Awake
  BY DEF DriverIInv
<1>2. /\ Pc = "return" /\ scope' = scope /\ conn' = conn /\ inbox' = inbox /\ opened' = opened
      /\ sent' = sent /\ h3' = h3 /\ permit' = permit /\ chan' = chan /\ call' = call
      /\ msg' = msg /\ made' = made /\ out' = out
      /\ results' = [results EXCEPT ![call.n] = call]
  BY Zenon DEF Return
<1>3. Place(App) = Pc /\ ~h3.poisoned BY <1>1, <1>2, AppHere
<1>4. call \in Calls /\ results \in [Requests -> Calls] BY <1>1 DEF Types
<1>5. call.n > 0 /\ call.result # "none" /\ results[call.n].result = "none"
  BY <1>1, <1>2, <1>3 DEF CallSound
<1>6. call.n \in Requests BY <1>1, <1>5, CallNumber
<1>7. PICK p \in AppPlaces : p \in {"respond", "idle"} /\ Goto(App, p)
  BY DEF Return, AppPlaces
<1>8. /\ RoundsSound' /\ Place(App)' = p /\ task' \in [Tasks -> Rounds]
      /\ \A t \in Tasks : task'[t].items = task[t].items
  <2>1. p \in AppPlaces BY <1>7
  <2> QED BY <1>1, <1>2, <1>3, <1>7, <2>1, AppGoes
<1>9. /\ results' \in [Requests -> Calls] /\ results'[call.n] = call
      /\ \A n \in Requests : n # call.n => results'[n] = results[n]
  BY <1>2, <1>4, <1>6
<1>10. Types' BY <1>1, <1>2, <1>8, <1>9 DEF Types
<1>11. CallSound'
  BY <1>1, <1>2, <1>3, <1>4, <1>5, <1>6, <1>7, <1>8, <1>9 DEF CallSound, Before, Waiting, Calls
<1>12. ParkedSound' BY <1>1, <1>2, <1>7, <1>8 DEF ParkedSound, Before
<1>13. EventsSound' BY <1>1, <1>2, <1>7, <1>8 DEF EventsSound
<1>14. FlowSound'
  <2>1. EventsOf(h3, call.n)' = EventsOf(h3, call.n) BY <1>2 DEF EventsOf
  <2>2. Seen' = Seen BY <1>2, <2>1 DEF Seen
  <2>3. \A n : (Ended(n)' <=> Ended(n)) /\ (Shaped(n)' <=> Shaped(n)) BY <1>2, NotFinished
  <2>4. \A n \in Requests :
           results'[n].result = "ok" => KindsOf(msg[n]) = results'[n].got /\ Ended(n)'
    BY <1>1, <1>9, <2>3 DEF FlowSound
  <2>5. Place(App)' \notin Before BY <1>7, <1>8 DEF Before
  <2> QED BY <1>1, <1>2, <2>2, <2>3, <2>4, <2>5 DEF FlowSound
<1>15. IdsSound'
  <2>1. NoCallFailed' => NoCallFailed
    BY <1>5, <1>9 DEF NoCallFailed
  <2> QED BY <1>1, <1>2, <1>3, <1>7, <1>8, <2>1 DEF IdsSound
<1>16. Awake' BY <1>7, <1>8 DEF Awake
<1> QED BY <1>1, <1>2, <1>8, <1>10, <1>11, <1>12, <1>13, <1>14, <1>15, <1>16, SameInserts,
        SameConserved DEF DriverIInv

LEMMA NothingSeen ==
  ASSUME NEW r \in Seq(Kinds), NEW a, NEW b, NEW c, a = <<>>, b = <<>>, c = <<>>
  PROVE  r = (a \o b \o c) \o r
<1>1. PICK none \in Seq(Kinds) : none = <<>> BY EmptySeq
<1>2. none \o none = none BY <1>1, ConcatEmptySeq
<1>3. none \o r = r BY <1>1, ConcatEmptySeq
<1>4. none \o none \o none = none BY <1>2
<1> QED BY <1>1, <1>3, <1>4

(* A call begins while the last one is over: nothing of the new stream has been read. *)
LEMMA CallBegins ==
  ASSUME DriverIInv, NEW n \in Requests, n > call.n, Pc = "idle", conn = "up",
         NEW p \in AppPlaces, p \in {"encode", "drain"}, Goto(App, p), call' = NewCall(n),
         scope' = scope /\ conn' = conn /\ inbox' = inbox /\ sent' = sent
           /\ h3' = h3 /\ permit' = permit /\ chan' = chan /\ results' = results /\ msg' = msg
           /\ made' = made /\ out' = out,
         opened' \in 0 .. MaxRequests, opened' >= opened, n <= opened',
         scope.role = "client" => n = opened' /\ opened' = opened + 1 /\ p = "encode",
         p = "encode" => scope.role = "client"
  PROVE  DriverIInv'
<1>1. /\ Types /\ RoundsSound /\ CallSound /\ ParkedSound /\ EventsSound /\ FlowSound
      /\ InsertsSound /\ Conserved /\ IdsSound /\ Awake
  BY DEF DriverIInv
<1>2. Place(App) = Pc /\ ~h3.poisoned BY <1>1, AppHere
<1>3. /\ RoundsSound' /\ Place(App)' = p /\ task' \in [Tasks -> Rounds]
      /\ \A t \in Tasks : task'[t].items = task[t].items
  BY <1>1, <1>2, AppGoes
<1>4. h3 \in States /\ call \in Calls BY <1>1 DEF Types
<1>5. PICK none \in Seq(Kinds) : none = <<>> BY EmptySeq
<1>6. call' = [n |-> n, got |-> none, fin |-> FALSE, result |-> "none"]
  BY <1>5 DEF NewCall
<1>7. call' \in Calls /\ call'.n = n /\ call'.got = <<>> /\ call'.result = "none"
  BY <1>5, <1>6, DriverAssumption DEF Calls, Requests
<1>8. n > 0 /\ n \in Nat /\ call.n \in Nat /\ opened \in Nat /\ opened' \in Nat
  <2>1. MaxRequests \in Nat BY DriverAssumption
  <2>2. n > 0 /\ n \in Nat BY <2>1 DEF Requests
  <2>3. call.n \in 0 .. MaxRequests BY <1>4 DEF Calls
  <2>4. opened \in 0 .. MaxRequests BY <1>1 DEF Types
  <2> QED BY <2>1, <2>2, <2>3, <2>4
<1>9. Types' BY <1>1, <1>3, <1>7 DEF Types
<1>10. \A m \in Requests : h3.parked[m] # <<>> => m <= call.n /\ h3.error
  <2> SUFFICES ASSUME NEW m \in Requests, h3.parked[m] # <<>> PROVE m <= call.n /\ h3.error
    OBVIOUS
  <2>1. m <= call.n /\ (~h3.error => call.result = "none") BY <1>1 DEF ParkedSound
  <2>2. m > 0 /\ m \in Nat BY DriverAssumption DEF Requests
  <2>3. call.n > 0 BY <1>8, <2>1, <2>2
  <2>4. call.result # "none" BY <1>1, <1>2, <2>3 DEF CallSound
  <2> QED BY <2>1, <2>4
<1>11. ParkedSound'
  <2>1. ASSUME NEW m \in Requests, h3.parked[m] # <<>>
        PROVE  m <= n /\ m # n /\ h3.error
    <3>1. m \in Nat BY DriverAssumption DEF Requests
    <3> QED BY <1>8, <1>10, <2>1, <3>1
  <2> QED BY <1>1, <1>7, <2>1 DEF ParkedSound
<1>12. h3.parked[n] = <<>> BY <1>8, <1>10
<1>13. \A i \in 1 .. Len(h3.events) : h3.events[i].n < n /\ h3.events[i].n <= n /\ h3.events[i].n # n
  <2> SUFFICES ASSUME NEW i \in 1 .. Len(h3.events)
               PROVE  h3.events[i].n < n /\ h3.events[i].n <= n /\ h3.events[i].n # n
    OBVIOUS
  <2>1. h3.events \in Seq(Events) BY <1>4 DEF States
  <2>2. h3.events[i] \in Events BY <2>1, ElementOfSeq
  <2>3. h3.events[i].n \in Nat BY <2>2, DriverAssumption DEF Events, Requests
  <2>4. h3.events[i].n <= call.n BY <1>1 DEF EventsSound
  <2> QED BY <1>8, <2>3, <2>4
<1>14. EventsSound' BY <1>3, <1>7, <1>12, <1>13 DEF EventsSound
<1>15. EventsOf(h3, n) = <<>> BY <1>4, <1>13, EventsNoneMine
<1>16. FlowSound'
  <2>1. Seen' = <<>> \o <<>> \o <<>>
    <3>1. EventsOf(h3, call.n)' = <<>> BY <1>7, <1>15 DEF EventsOf
    <3>2. KindsOf(h3'.parked[call'.n]) = <<>> BY <1>7, <1>12, KindsOfNone
    <3> QED BY <1>7, <3>1, <3>2 DEF Seen
  <2>2. inbox[n] = msg[n] /\ msg[n] \in Seq(Items) BY <1>1 DEF FlowSound, Types
  <2>3. PICK r \in Seq(Kinds) : r = KindsOf(msg[n]) BY <2>2, KindsOfProperties
  <2>4. r = Seen' \o r BY <2>1, <2>3, NothingSeen
  <2>5. \E rest \in Seq(Kinds) :
           /\ KindsOf(msg'[call'.n]) = Seen' \o rest
           /\ conn' = "up" => rest = KindsOf(inbox'[call'.n])
    BY <1>7, <2>2, <2>3, <2>4
  <2>6. \A m \in Requests : m > n => m > call.n
    BY <1>8, DriverAssumption DEF Requests
  <2>7. \A m \in Requests : m > opened' => m > opened
    BY <1>8, DriverAssumption DEF Requests
  <2>8. \A m : (Ended(m)' <=> Ended(m)) /\ (Shaped(m)' <=> Shaped(m)) BY NotFinished
  <2>9. \A m \in Requests : Shaped(m)' /\ inbox'[m] \in Seq(Items) BY <1>1, <2>8 DEF FlowSound
  <2>10. \A m \in Requests :
            results'[m].result = "ok" => KindsOf(msg'[m]) = results'[m].got /\ Ended(m)'
    BY <1>1, <2>8 DEF FlowSound
  <2>11. \A m \in Requests : m > call'.n /\ conn' = "up" => inbox'[m] = msg'[m]
    BY <1>1, <1>7, <2>6 DEF FlowSound
  <2>12. \A m \in Requests : m > opened' => msg'[m] = <<>> BY <1>1, <2>7 DEF FlowSound
  <2> QED BY <1>7, <2>5, <2>9, <2>10, <2>11, <2>12 DEF FlowSound
<1>17. CallSound'
  <2>1. \A m \in Requests : m > n => results[m].result = "none"
    <3>1. \A m \in Requests : m > n => m > call.n BY <1>8, DriverAssumption DEF Requests
    <3> QED BY <1>1, <3>1 DEF CallSound
  <2>2. results[n].result = "none" BY <1>1 DEF CallSound
  <2> QED BY <1>3, <1>7, <1>8, <2>1, <2>2 DEF CallSound, Before, Waiting
<1>18. IdsSound'
  <2>1. ASSUME scope.role = "client", NoCallFailed
        PROVE  h3.next = opened'
    <3>1. call.result # "error"
      <4>1. CASE call.n = 0 BY <1>1, <4>1 DEF CallSound
      <4>2. CASE call.n > 0
        <5>1. call.n \in Requests BY <1>1, <4>2, CallNumber
        <5> QED BY <1>1, <1>2, <2>1, <4>2, <5>1 DEF CallSound, NoCallFailed
      <4> QED BY <1>8, <4>1, <4>2
    <3> QED BY <1>1, <1>2, <2>1, <3>1 DEF IdsSound
  <2> QED BY <1>2, <1>3, <1>7, <2>1 DEF IdsSound, NoCallFailed
<1>19. Awake' BY <1>3 DEF Awake
<1> QED BY <1>1, <1>3, <1>9, <1>11, <1>14, <1>16, <1>17, <1>18, <1>19, SameInserts, SameConserved
        DEF DriverIInv

LEMMA OpenStreamKeeps ==
  ASSUME DriverIInv, OpenStream
  PROVE  DriverIInv'
<1>1. Types /\ RoundsSound /\ CallSound BY DEF DriverIInv
<1>2. /\ scope.role = "client" /\ Pc = "idle" /\ conn = "up" /\ opened < scope.requests
      /\ opened' = opened + 1 /\ call' = NewCall(opened') /\ Goto(App, "encode")
      /\ scope' = scope /\ conn' = conn /\ inbox' = inbox /\ sent' = sent
      /\ h3' = h3 /\ permit' = permit /\ chan' = chan /\ results' = results /\ msg' = msg
      /\ made' = made /\ out' = out
  BY Zenon DEF OpenStream
<1>3. MaxRequests \in Nat /\ scope.requests \in 0 .. MaxRequests
  BY <1>1, DriverAssumption DEF Types
<1>4. opened \in 0 .. MaxRequests BY <1>1 DEF Types
<1>5. opened' \in 0 .. MaxRequests /\ opened' \in Requests /\ opened' > opened
  BY <1>2, <1>3, <1>4 DEF Requests
<1>6. call.n = opened BY <1>1, <1>2 DEF CallSound
<1>7. PICK p \in AppPlaces : p = "encode" BY DEF AppPlaces
<1>8. PICK n \in Requests : n = opened' BY <1>5
<1>9. /\ n \in Requests /\ n > call.n /\ call' = NewCall(n) /\ n <= opened' /\ opened' >= opened
  BY <1>2, <1>4, <1>5, <1>6, <1>8
<1>10. p \in AppPlaces /\ p \in {"encode", "drain"} /\ Goto(App, p) BY <1>2, <1>7
<1>11. /\ scope.role = "client" => n = opened' /\ opened' = opened + 1 /\ p = "encode"
       /\ p = "encode" => scope.role = "client"
  BY <1>2, <1>7, <1>8
<1> QED BY <1>2, <1>5, <1>9, <1>10, <1>11, CallBegins

LEMMA AcceptStreamKeeps ==
  ASSUME DriverIInv, AcceptStream
  PROVE  DriverIInv'
<1>1. Types /\ RoundsSound /\ CallSound BY DEF DriverIInv
<1>2. /\ scope.role = "server" /\ Pc = "idle" /\ conn = "up" /\ call.n < opened
      /\ opened' = opened /\ call' = NewCall(call.n + 1) /\ Goto(App, "drain")
      /\ scope' = scope /\ conn' = conn /\ inbox' = inbox /\ sent' = sent
      /\ h3' = h3 /\ permit' = permit /\ chan' = chan /\ results' = results /\ msg' = msg
      /\ made' = made /\ out' = out
  BY Zenon DEF AcceptStream
<1>3. MaxRequests \in Nat BY DriverAssumption
<1>4. opened \in 0 .. MaxRequests /\ call.n \in 0 .. MaxRequests BY <1>1 DEF Types, Calls
<1>5. call.n + 1 \in Requests BY <1>2, <1>3, <1>4 DEF Requests
<1>6. PICK n \in Requests : n = call.n + 1 BY <1>5
<1>7. PICK p \in AppPlaces : p = "drain" BY DEF AppPlaces
<1>8. /\ n \in Requests /\ n > call.n /\ call' = NewCall(n) /\ n <= opened' /\ opened' >= opened
      /\ opened' \in 0 .. MaxRequests
  BY <1>2, <1>3, <1>4, <1>6
<1>9. p \in AppPlaces /\ p \in {"encode", "drain"} /\ Goto(App, p) BY <1>2, <1>7
<1>10. /\ scope.role = "client" => n = opened' /\ opened' = opened + 1 /\ p = "encode"
       /\ p = "encode" => scope.role = "client"
  BY <1>2, <1>7
<1> QED BY <1>2, <1>8, <1>9, <1>10, CallBegins

WithId(h, id, poisoned) == [h EXCEPT !.next = id, !.poisoned = poisoned]

LEMMA WithIdFacts ==
  ASSUME NEW h \in States, NEW id \in Nat, NEW b \in BOOLEAN, NEW g, g = WithId(h, id, b)
  PROVE  /\ g \in States /\ g.next = id /\ g.poisoned = b
         /\ g.inserts = h.inserts /\ g.error = h.error
         /\ g.parked = h.parked /\ g.events = h.events /\ g.pend = h.pend
BY DEF States, WithId

LEMMA EncodeKeeps ==
  ASSUME DriverIInv, Encode
  PROVE  DriverIInv'
<1>1. /\ Types /\ RoundsSound /\ CallSound /\ ParkedSound /\ EventsSound /\ FlowSound
      /\ InsertsSound /\ Conserved /\ IdsSound /\ Awake
  BY DEF DriverIInv
<1>2. /\ Pc = "encode" /\ scope' = scope /\ conn' = conn /\ inbox' = inbox /\ opened' = opened
      /\ sent' = sent /\ permit' = permit /\ chan' = chan /\ results' = results /\ msg' = msg
      /\ made' = made /\ out' = out
  BY Zenon DEF Encode
<1>3. Place(App) = Pc /\ ~h3.poisoned BY <1>1, <1>2, AppHere
<1>4. h3 \in States /\ call \in Calls /\ sent' \subseteq Requests /\ permit' \in BOOLEAN
  BY <1>1, <1>2 DEF Types
<1>5. /\ scope.role = "client" /\ call.n = opened /\ call.n > 0 /\ call.result = "none"
      /\ results[call.n].result = "none"
  BY <1>1, <1>2, <1>3 DEF CallSound, Before
<1>6. call.n \in Requests BY <1>1, <1>5, CallNumber
<1>7. CASE Fail /\ h3' = h3
  <2>1. call' = [call EXCEPT !.result = "error"] /\ Goto(App, "return") BY <1>7, Zenon DEF Fail
  <2>2. PICK p \in AppPlaces : p = "return" BY DEF AppPlaces
  <2>3. p \in AppPlaces /\ p \notin Before \cup {"select", "dead"} /\ Goto(App, p)
    BY <2>1, <2>2 DEF Before
  <2>4. Place(App)' = p BY <1>1, <1>2, <1>3, <1>7, <2>3, AppGoes
  <2>5. call'.n = call.n /\ call'.result = "error" BY <1>4, <2>1, FailedCall
  <2>6. CallSound' BY <1>1, <1>2, <1>3, <1>5, <2>2, <2>4, <2>5 DEF CallSound, Before, Waiting
  <2>7. ~h3.error => \A n \in Requests : h3.parked[n] = <<>>
    BY <1>1, <1>2, <1>3 DEF ParkedSound, Before
  <2> QED BY <1>2, <1>4, <1>7, <2>1, <2>3, <2>6, <2>7, AppQuiet
<1>8. CASE /\ ~h3.error /\ call' = call
           /\ h3' = [h3 EXCEPT !.next = @ + 1, !.poisoned = h3.next # call.n]
           /\ IF h3'.poisoned THEN Goto(App, "dead") ELSE GoFlush(App, "transmit")
  <2>1. PICK b \in BOOLEAN : b = (h3.next # call.n) OBVIOUS
  <2>2. PICK id \in Nat : id = h3.next + 1 BY <1>4 DEF States
  <2>3. h3' = WithId(h3, id, b) BY <1>8, <2>1, <2>2 DEF WithId
  <2>4. id \in Nat /\ b \in BOOLEAN BY <2>1, <2>2
  <2>5. /\ h3' \in States /\ h3'.next = id /\ h3'.poisoned = b
        /\ h3'.inserts = h3.inserts /\ h3'.error = h3.error
        /\ h3'.parked = h3.parked /\ h3'.events = h3.events /\ h3'.pend = h3.pend
    BY <1>4, <2>3, <2>4, WithIdFacts
  <2>6. PICK p \in AppPlaces : p = IF h3'.poisoned THEN "dead" ELSE "transmit"
    BY DEF AppPlaces
  <2>7. p \in AppPlaces /\ (Goto(App, p) \/ GoFlush(App, p)) /\ (h3'.poisoned => p = "dead")
        /\ p \in {"dead", "transmit"}
    BY <1>8, <2>6
  <2>8. /\ RoundsSound' /\ Place(App)' = p /\ task' \in [Tasks -> Rounds]
        /\ \A t \in Tasks : task'[t].items = task[t].items
    BY <1>1, <1>2, <2>7, AppGoes
  <2>9. Types' BY <1>1, <1>2, <1>8, <2>5, <2>8 DEF Types
  <2>10. CallSound' BY <1>1, <1>2, <1>3, <1>5, <1>8, <2>7, <2>8 DEF CallSound, Before, Waiting
  <2>11. SameFlow BY <1>2, <1>3, <1>8, <2>5 DEF SameFlow, Before
  <2>12. ParkedSound' BY <1>1, <1>2, <1>3, <1>8, <2>5 DEF ParkedSound, Before
  <2>13. EventsSound' BY <1>1, <1>8, <2>5, <2>7, <2>8 DEF EventsSound
  <2>14. NoCallFailed => h3.next = opened BY <1>1, <1>2, <1>3, <1>5 DEF IdsSound
  <2>15. NoCallFailed => ~b /\ id = opened + 1 BY <1>5, <2>1, <2>2, <2>14
  <2>16. NoCallFailed' <=> NoCallFailed BY <1>2 DEF NoCallFailed
  <2>17. IdsSound' BY <1>2, <2>5, <2>7, <2>8, <2>15, <2>16 DEF IdsSound
  <2>18. Awake' BY <2>7, <2>8 DEF Awake
  <2> QED BY <1>1, <1>2, <2>5, <2>8, <2>9, <2>10, <2>11, <2>12, <2>13, <2>17, <2>18, FlowStays,
          SameInserts, SameConserved DEF DriverIInv
<1>9. \/ Fail /\ h3' = h3
      \/ /\ ~h3.error /\ call' = call
         /\ h3' = [h3 EXCEPT !.next = @ + 1, !.poisoned = h3.next # call.n]
         /\ IF h3'.poisoned THEN Goto(App, "dead") ELSE GoFlush(App, "transmit")
  BY <1>3, Zenon DEF Encode
<1> QED BY <1>7, <1>8, <1>9

-----------------------------------------------------------------------------
(* The peer and QUIC.                                                      *)

LEMMA PeerOpensKeeps ==
  ASSUME DriverIInv, PeerOpens
  PROVE  DriverIInv'
<1>1. /\ Types /\ RoundsSound /\ CallSound /\ ParkedSound /\ EventsSound /\ FlowSound
      /\ InsertsSound /\ Conserved /\ IdsSound /\ Awake
  BY DEF DriverIInv
<1>2. /\ scope.role = "server" /\ opened < scope.requests /\ opened' = opened + 1
      /\ scope' = scope /\ conn' = conn /\ inbox' = inbox /\ sent' = sent /\ h3' = h3
      /\ task' = task /\ permit' = permit /\ chan' = chan /\ call' = call /\ results' = results
      /\ msg' = msg /\ made' = made /\ out' = out
  BY Zenon DEF PeerOpens
<1>3. MaxRequests \in Nat /\ scope.requests \in 0 .. MaxRequests
  BY <1>1, DriverAssumption DEF Types
<1>4. opened \in 0 .. MaxRequests BY <1>1 DEF Types
<1>5. opened' \in 0 .. MaxRequests BY <1>2, <1>3, <1>4
<1>6. call.n \in Nat BY <1>1, <1>3 DEF Types, Calls
<1>7. Types' BY <1>1, <1>2, <1>5 DEF Types
<1>8. RoundsSound' BY <1>1, <1>2 DEF RoundsSound, Place
<1>9. Place(App)' = Place(App) BY <1>2 DEF Place
<1>10. CallSound'
  <2>1. call.n <= opened' BY <1>1, <1>2, <1>4, <1>6 DEF CallSound
  <2>2. scope.role # "client" BY <1>2
  <2> QED BY <1>1, <1>2, <1>9, <2>1, <2>2 DEF CallSound
<1>11. ParkedSound' BY <1>1, <1>2, <1>9 DEF ParkedSound
<1>12. EventsSound' BY <1>1, <1>2, <1>9 DEF EventsSound
<1>13. FlowSound'
  <2>1. EventsOf(h3, call.n)' = EventsOf(h3, call.n) BY <1>2 DEF EventsOf
  <2>2. Seen' = Seen BY <1>2, <2>1 DEF Seen
  <2>3. \A n : (Ended(n)' <=> Ended(n)) /\ (Shaped(n)' <=> Shaped(n)) BY <1>2, NotFinished
  <2>4. \A n \in Requests : n > opened' => n > opened
    BY <1>2, <1>3, <1>4 DEF Requests
  <2>5. \A n \in Requests : n > opened' => msg'[n] = <<>> BY <1>1, <1>2, <2>4 DEF FlowSound
  <2> QED BY <1>1, <1>2, <1>9, <2>2, <2>3, <2>5 DEF FlowSound
<1>14. IdsSound'
  <2>1. scope'.role # "client" BY <1>2
  <2> QED BY <1>1, <1>2, <2>1 DEF IdsSound, NoCallFailed
<1>15. Awake' BY <1>1, <1>2, <1>9 DEF Awake, Readable, IsParked
<1> QED BY <1>1, <1>2, <1>7, <1>8, <1>10, <1>11, <1>12, <1>13, <1>14, <1>15, SameInserts,
        SameConserved DEF DriverIInv

LEMMA ConnectionLostKeeps ==
  ASSUME DriverIInv, ConnectionLost
  PROVE  DriverIInv'
<1>1. /\ Types /\ RoundsSound /\ CallSound /\ ParkedSound /\ EventsSound /\ FlowSound
      /\ InsertsSound /\ Conserved /\ IdsSound /\ Awake
  BY DEF DriverIInv
<1>2. /\ conn' = "lost" /\ inbox' = [s \in Uni \cup Requests |-> <<>>]
      /\ scope' = scope /\ opened' = opened /\ sent' = sent /\ h3' = h3
      /\ task' = task /\ permit' = permit /\ chan' = chan /\ call' = call /\ results' = results
      /\ msg' = msg /\ made' = made /\ out' = out
  BY Zenon DEF ConnectionLost
<1>3. /\ \A s \in Uni \cup Requests : inbox'[s] = <<>>
      /\ inbox' \in [Uni \cup Requests -> Seq(Items \cup UniItems)]
  <2>1. PICK none \in Seq(Items \cup UniItems) : none = <<>> BY EmptySeq
  <2>2. inbox' = [s \in Uni \cup Requests |-> none] BY <1>2, <2>1
  <2> QED BY <2>1, <2>2
<1>4. Types' BY <1>1, <1>2, <1>3 DEF Types
<1>5. RoundsSound' BY <1>1, <1>2 DEF RoundsSound, Place
<1>6. Place(App)' = Place(App) BY <1>2 DEF Place
<1>7. CallSound' BY <1>1, <1>2, <1>6 DEF CallSound
<1>8. ParkedSound' BY <1>1, <1>2, <1>6 DEF ParkedSound
<1>9. EventsSound' BY <1>1, <1>2, <1>6 DEF EventsSound
<1>10. FlowSound'
  <2>1. EventsOf(h3, call.n)' = EventsOf(h3, call.n) BY <1>2 DEF EventsOf
  <2>2. Seen' = Seen BY <1>2, <2>1 DEF Seen
  <2>3. \A n : (Ended(n)' <=> Ended(n)) /\ (Shaped(n)' <=> Shaped(n)) BY <1>2, NotFinished
  <2>4. \A n \in Requests : Shaped(n)' /\ inbox'[n] \in Seq(Items)
    BY <1>1, <1>3, <2>3, EmptySeq DEF FlowSound
  <2>5. conn' # "up" BY <1>2
  <2>6. ASSUME ~h3'.error, call'.n > 0, call'.result = "none"
        PROVE  \E rest \in Seq(Kinds) : KindsOf(msg'[call'.n]) = Seen' \o rest
    BY <1>1, <1>2, <2>2, <2>6 DEF FlowSound
  <2> QED BY <1>1, <1>2, <1>6, <2>3, <2>4, <2>5, <2>6 DEF FlowSound
<1>11. InsertsSound'
  <2>1. \A u \in Uni : inbox'[u] \in Seq(UniItems) BY <1>3, EmptySeq
  <2>2. \A i \in 1 .. Len(inbox'[Control]) : inbox'[Control][i].k # "insert"
    BY <1>3, TasksDiffer, EmptySeq
  <2>3. InsertsIn(inbox'[Encoder]) = 0
    <3>1. PICK none \in Seq(UniItems) : none = inbox'[Encoder] BY <2>1, TasksDiffer
    <3>2. none = <<>> BY <1>3, <3>1, TasksDiffer
    <3>3. {i \in DOMAIN none : none[i].k = "insert"} = {} BY <3>2
    <3> QED BY <3>1, <3>3, FS_EmptySet DEF InsertsIn
  <2>4. h3.inserts + InsertsIn(inbox[Encoder]) <= MaxInserts /\ inbox[Encoder] \in Seq(UniItems)
    BY <1>1, TasksDiffer DEF InsertsSound
  <2>5. InsertsIn(inbox[Encoder]) \in Nat BY <2>4, InsertsAreCounted
  <2>6. h3.inserts \in Nat /\ MaxInserts \in Nat BY <1>1, DriverAssumption DEF Types, States
  <2>7. h3'.inserts + InsertsIn(inbox'[Encoder]) <= MaxInserts BY <1>2, <2>3, <2>4, <2>5, <2>6
  <2> QED BY <2>1, <2>2, <2>7 DEF InsertsSound
<1>12. IdsSound' BY <1>1, <1>2, <1>6 DEF IdsSound, NoCallFailed
<1>13. Awake' BY <1>1, <1>2, <1>6 DEF Awake, Readable, IsParked
<1> QED BY <1>1, <1>2, <1>4, <1>5, <1>7, <1>8, <1>9, <1>10, <1>11, <1>12, <1>13, SameConserved
        DEF DriverIInv

LEMMA AppendRest ==
  ASSUME NEW q \in Seq(Kinds), NEW r \in Seq(Kinds), NEW k \in Kinds
  PROVE  Append(r, k) \in Seq(Kinds) /\ Append(q \o r, k) = q \o Append(r, k)
<1>1. PICK none \in Seq(Kinds) : none = <<>> BY EmptySeq
<1>2. PICK one \in Seq(Kinds) : one = Append(none, k) BY <1>1, AppendProperties
<1>3. one = <<k>> BY <1>1, <1>2
<1>4. PICK qr \in Seq(Kinds) : qr = q \o r BY ConcatProperties
<1>5. qr \in Seq(Kinds) /\ one \in Seq(Kinds) BY <1>2, <1>4
<1>6. Append(qr, k) = qr \o <<k>> /\ Append(r, k) = r \o <<k>> BY <1>5, AppendIsConcat
<1>7. (q \o r) \o one = q \o (r \o one)
  <2>1. one \in Seq(Kinds) BY <1>5
  <2> QED BY <2>1, ConcatAssociative, SMTT(60)
<1>8. Append(r, k) \in Seq(Kinds) BY AppendProperties
<1> QED BY <1>3, <1>4, <1>6, <1>7, <1>8

LEMMA KindsOfAppend ==
  ASSUME NEW q \in Seq(Items), NEW x \in Items
  PROVE  KindsOf(Append(q, x)) = Append(KindsOf(q), x.k)
<1>1. PICK r \in Seq(Items) : r = Append(q, x) BY AppendProperties
<1>2. /\ Len(r) = Len(q) + 1 /\ r[Len(q) + 1] = x /\ Len(q) \in Nat
      /\ \A i \in 1 .. Len(q) : r[i] = q[i]
  BY <1>1, AppendProperties, LenProperties
<1>3. x.k \in Kinds BY DEF Items, SectionItems, Plain, Kinds
<1>4. PICK a \in Seq(Kinds) : a = KindsOf(q) BY KindsOfProperties
<1>5. PICK c \in Seq(Kinds) : c = KindsOf(r) BY <1>1, KindsOfProperties
<1>6. PICK d \in Seq(Kinds) : d = Append(a, x.k) BY <1>3, <1>4, AppendProperties
<1>7. /\ Len(a) = Len(q) /\ Len(c) = Len(r)
      /\ \A i \in 1 .. Len(q) : a[i] = q[i].k
      /\ \A i \in 1 .. Len(r) : c[i] = r[i].k
  BY <1>1, <1>4, <1>5, KindsOfProperties
<1>8. /\ Len(d) = Len(a) + 1 /\ d[Len(a) + 1] = x.k
      /\ \A i \in 1 .. Len(a) : d[i] = a[i]
  BY <1>3, <1>4, <1>6, AppendProperties
<1>9. \A i \in 1 .. Len(c) : c[i] = d[i]
  <2> SUFFICES ASSUME NEW i \in 1 .. Len(q) + 1 PROVE c[i] = d[i] BY <1>2, <1>7
  <2>1. CASE i = Len(q) + 1 BY <1>2, <1>7, <1>8, <2>1
  <2>2. CASE i \in 1 .. Len(q)
    <3>1. i \in 1 .. Len(r) BY <1>2, <2>2
    <3> QED BY <1>2, <1>7, <1>8, <2>2, <3>1
  <2> QED BY <1>2, <2>1, <2>2
<1>10. c = d BY <1>2, <1>5, <1>6, <1>7, <1>8, <1>9, SeqEqual
<1> QED BY <1>1, <1>4, <1>5, <1>6, <1>10

\* What the events of the call in progress are.
LEMMA EventsTyped ==
  ASSUME Types, EventsSound, ~h3.error
  PROVE  /\ EventsOf(h3, call.n) \in Seq(Kinds)
         /\ \/ \A i \in 1 .. Len(h3.events) : h3.events[i].n = call.n
            \/ EventsOf(h3, call.n) = <<>> /\ \A i \in 1 .. Len(h3.events) : h3.events[i].n < call.n
<1>1. h3 \in States /\ call.n \in Nat BY DriverAssumption DEF Types, Calls
<1>2. PICK ev \in Seq(Events) : ev = h3.events BY <1>1 DEF States
<1>a. \A e \in Events : e.k \in Kinds /\ e.n \in Nat BY DriverAssumption DEF Events, Requests
<1>b. \A i \in 1 .. Len(ev) : ev[i] \in Events BY <1>2, ElementOfSeq
<1>c. Len(ev) \in Nat BY <1>2, LenProperties
<1>3. CASE \A i \in 1 .. Len(h3.events) : h3.events[i].n = call.n
  <2>1. EventsOf(h3, call.n) = KindsOf(h3.events) BY <1>1, <1>3, EventsAllMine
  <2>2. \A i \in 1 .. Len(ev) : ev[i].k \in Kinds BY <1>a, <1>b
  <2>3. KindsOf(ev) \in Seq(Kinds) BY <1>c, <2>2, IsASeq DEF KindsOf
  <2> QED BY <1>2, <1>3, <2>1, <2>3
<1>4. CASE \A i \in 1 .. Len(h3.events) : h3.events[i].n < call.n
  <2>1. \A i \in 1 .. Len(h3.events) : h3.events[i].n # call.n
    <3> SUFFICES ASSUME NEW i \in 1 .. Len(h3.events) PROVE h3.events[i].n # call.n OBVIOUS
    <3>1. h3.events[i].n \in Nat BY <1>2, <1>a, <1>b
    <3> QED BY <1>1, <1>4, <3>1
  <2>2. EventsOf(h3, call.n) = <<>> BY <1>1, <2>1, EventsNoneMine
  <2> QED BY <1>4, <2>2, EmptySeq
<1> QED BY <1>3, <1>4 DEF EventsSound

LEMMA MessageGrows ==
  ASSUME DriverIInv, NEW n \in Requests, NEW item \in Items, Open(n), Arrive(n, item),
         msg' = [msg EXCEPT ![n] = Append(@, item)], opened' = opened
  PROVE  DriverIInv'
<1>1. /\ Types /\ RoundsSound /\ CallSound /\ ParkedSound /\ EventsSound /\ FlowSound
      /\ InsertsSound /\ Conserved /\ IdsSound /\ Awake
  BY DEF DriverIInv
<1>2. /\ scope' = scope /\ conn' = conn /\ sent' = sent /\ h3' = h3 /\ task' = task
      /\ permit' = permit /\ chan' = chan /\ call' = call /\ results' = results
      /\ made' = made /\ out' = out
  BY Zenon DEF Arrive
<1>3. n <= opened /\ ~Ended(n) /\ conn = "up" BY DEF Open
<1>4. inbox[n] \in Seq(Items) /\ msg[n] \in Seq(Items) BY <1>1 DEF FlowSound, Types
<1>5. PICK q \in Seq(Items) : q = Append(inbox[n], item) BY <1>4, AppendProperties
<1>6. PICK m \in Seq(Items) : m = Append(msg[n], item) BY <1>4, AppendProperties
<1>7. q \in Seq(Items \cup UniItems)
  <2>1. Items \subseteq Items \cup UniItems OBVIOUS
  <2> QED BY <1>5, <2>1, SeqMonotonic
<1>8. /\ inbox' \in [Uni \cup Requests -> Seq(Items \cup UniItems)] /\ inbox'[n] = q
      /\ \A s \in Uni \cup Requests : s # n => inbox'[s] = inbox[s]
  <2>1. inbox \in [Uni \cup Requests -> Seq(Items \cup UniItems)] BY <1>1 DEF Types
  <2>2. inbox' = [inbox EXCEPT ![n] = q] BY <1>5 DEF Arrive
  <2> QED BY <1>7, <2>1, <2>2
<1>9. /\ msg' \in [Requests -> Seq(Items)] /\ msg'[n] = m
      /\ \A s \in Requests : s # n => msg'[s] = msg[s]
  <2>1. msg \in [Requests -> Seq(Items)] BY <1>1 DEF Types
  <2>2. msg' = [msg EXCEPT ![n] = m] BY <1>6
  <2> QED BY <1>6, <2>1, <2>2
<1>10. n \notin Uni BY DEF Uni, Control, Encoder, Requests
<1>11. Types' BY <1>1, <1>2, <1>8, <1>9 DEF Types
<1>12. RoundsSound' BY <1>1, <1>2 DEF RoundsSound, Place
<1>13. Place(App)' = Place(App) BY <1>2 DEF Place
<1>14. CallSound' BY <1>1, <1>2, <1>13 DEF CallSound
<1>15. ParkedSound' BY <1>1, <1>2, <1>13 DEF ParkedSound
<1>16. EventsSound' BY <1>1, <1>2, <1>13 DEF EventsSound
<1>17. InsertsSound' BY <1>1, <1>2, <1>8, <1>10, SameInserts
<1>18. FlowSound'
  <2>1. EventsOf(h3, call.n)' = EventsOf(h3, call.n) BY <1>2 DEF EventsOf
  <2>2. Seen' = Seen BY <1>2, <2>1 DEF Seen
  <2>3. \A s \in Requests : s # n => (Ended(s)' <=> Ended(s)) /\ (Shaped(s)' <=> Shaped(s))
    BY <1>9 DEF Ended, Shaped
  <2>4. /\ Len(m) = Len(msg[n]) + 1 /\ Len(msg[n]) \in Nat /\ m[Len(msg[n]) + 1] = item
        /\ \A i \in 1 .. Len(msg[n]) : m[i] = msg[n][i]
    BY <1>4, <1>6, AppendProperties, LenProperties
  <2>5. \A i \in 1 .. Len(msg[n]) : msg[n][i].k \notin {"fin", "reset"}
    <3> SUFFICES ASSUME NEW i \in 1 .. Len(msg[n]) PROVE msg[n][i].k \notin {"fin", "reset"}
      OBVIOUS
    <3>1. CASE i < Len(msg[n]) BY <1>1, <3>1 DEF FlowSound, Shaped
    <3>2. CASE i = Len(msg[n])
      <4>1. msg[n] # <<>> BY <2>4, <1>4, EmptySeq
      <4> QED BY <1>3, <3>2, <4>1 DEF Ended
    <3> QED BY <2>4, <3>1, <3>2
  <2>6. Shaped(n)'
    <3>1. \A i \in 1 .. Len(m) : i < Len(m) => i \in 1 .. Len(msg[n]) BY <2>4
    <3>2. \A i \in 1 .. Len(m) : i < Len(m) => m[i].k \notin {"fin", "reset"}
      BY <2>4, <2>5, <3>1
    <3> QED BY <1>9, <3>2 DEF Shaped
  <2>7. \A s \in Requests : Shaped(s)' /\ inbox'[s] \in Seq(Items)
    <3> SUFFICES ASSUME NEW s \in Requests PROVE Shaped(s)' /\ inbox'[s] \in Seq(Items)
      OBVIOUS
    <3>1. CASE s = n BY <1>5, <1>8, <2>6, <3>1
    <3>2. CASE s # n BY <1>1, <1>8, <2>3, <3>2 DEF FlowSound
    <3> QED BY <3>1, <3>2
  <2>8. \A s \in Requests :
           results'[s].result = "ok" => KindsOf(msg'[s]) = results'[s].got /\ Ended(s)'
    <3> SUFFICES ASSUME NEW s \in Requests, results[s].result = "ok"
                 PROVE  KindsOf(msg'[s]) = results[s].got /\ Ended(s)'
      BY <1>2
    <3>1. Ended(s) BY <1>1 DEF FlowSound
    <3>2. s # n BY <1>3, <3>1
    <3> QED BY <1>1, <1>9, <2>3, <3>2 DEF FlowSound
  <2>9. call'.result = "ok" => KindsOf(msg'[call'.n]) = call'.got /\ Ended(call.n)'
    <3> SUFFICES ASSUME call.result = "ok"
                 PROVE  KindsOf(msg'[call.n]) = call.got /\ Ended(call.n)'
      BY <1>2
    <3>1. Ended(call.n) BY <1>1 DEF FlowSound
    <3>2. call.n # n BY <1>3, <3>1
    <3>3. call.n \in Requests
      <4>1. call.n # 0 BY <1>1 DEF CallSound
      <4>2. call.n \in 0 .. MaxRequests /\ MaxRequests \in Nat
        BY <1>1, DriverAssumption DEF Types, Calls
      <4> QED BY <4>1, <4>2 DEF Requests
    <3>4. msg'[call.n] = msg[call.n] BY <1>9, <3>2, <3>3
    <3>5. Ended(call.n)' BY <1>2, <3>1, <3>4 DEF Ended
    <3> QED BY <1>1, <3>4, <3>5 DEF FlowSound
  <2>10. \A s \in Requests : s > call'.n /\ conn' = "up" => inbox'[s] = msg'[s]
    <3> SUFFICES ASSUME NEW s \in Requests, s > call.n PROVE inbox'[s] = msg'[s]
      BY <1>2
    <3>1. inbox[s] = msg[s] BY <1>1, <1>3 DEF FlowSound
    <3>2. CASE s = n BY <1>5, <1>6, <1>8, <1>9, <3>1, <3>2
    <3>3. CASE s # n BY <1>8, <1>9, <3>1, <3>3
    <3> QED BY <3>2, <3>3
  <2>11. \A s \in Requests : s > opened' => msg'[s] = <<>>
    <3> SUFFICES ASSUME NEW s \in Requests, s > opened PROVE msg'[s] = <<>>
      OBVIOUS
    <3>1. s \in Nat /\ n \in Nat /\ opened \in Nat
      BY <1>1, DriverAssumption DEF Requests, Types
    <3>2. s # n BY <1>3, <3>1
    <3> QED BY <1>1, <1>9, <3>2 DEF FlowSound
  <2>12. ASSUME ~h3'.error, call'.n > 0, call'.result = "none"
         PROVE  \E rest \in Seq(Kinds) :
                   /\ KindsOf(msg'[call'.n]) = Seen' \o rest
                   /\ conn' = "up" => rest = KindsOf(inbox'[call'.n])
    <3>1. PICK rest \in Seq(Kinds) :
             /\ KindsOf(msg[call.n]) = Seen \o rest
             /\ conn = "up" => rest = KindsOf(inbox[call.n])
      BY <1>1, <1>2, <2>12 DEF FlowSound
    <3>2. call.n \in Requests BY <1>1, <1>2, <2>12, CallNumber
    <3>3. CASE call.n # n
      <4>1. msg'[call.n] = msg[call.n] /\ inbox'[call.n] = inbox[call.n]
        BY <1>8, <1>9, <3>2, <3>3
      <4> QED BY <1>2, <2>2, <3>1, <4>1
    <3>4. CASE call.n = n
      <4>1. item.k \in Kinds BY DEF Items, SectionItems, Plain, Kinds
      <4>2. Seen \in Seq(Kinds)
        <5>1. h3 \in States /\ call \in Calls BY <1>1 DEF Types
        <5>2. call.got \in Seq(Kinds) BY <5>1 DEF Calls
        <5>3. h3.parked[call.n] \in Seq(Items) BY <3>2, <5>1, KeptAreItems DEF States
        <5>4. KindsOf(h3.parked[call.n]) \in Seq(Kinds) BY <5>3, KindsOfProperties
        <5>5. EventsOf(h3, call.n) \in Seq(Kinds) BY <1>1, <1>2, <2>12, EventsTyped
        <5>6. call.got \o EventsOf(h3, call.n) \in Seq(Kinds) BY <5>2, <5>5, ConcatProperties
        <5> QED BY <5>4, <5>6, ConcatProperties DEF Seen
      <4>3. KindsOf(m) = Append(KindsOf(msg[n]), item.k) BY <1>4, <1>6, KindsOfAppend
      <4>4. KindsOf(q) = Append(KindsOf(inbox[n]), item.k) BY <1>4, <1>5, KindsOfAppend
      <4>5. rest = KindsOf(inbox[n]) BY <1>3, <3>1, <3>4
      <4>6. rest \in Seq(Kinds) BY <3>1
      <4>7. Append(rest, item.k) \in Seq(Kinds)
            /\ Append(Seen \o rest, item.k) = Seen \o Append(rest, item.k)
        BY <4>1, <4>2, <4>6, AppendRest
      <4>8. KindsOf(m) = Seen \o Append(rest, item.k) BY <3>1, <3>4, <4>3, <4>7
      <4>9. KindsOf(q) = Append(rest, item.k) BY <4>4, <4>5
      <4>10. PICK more \in Seq(Kinds) : more = Append(rest, item.k) BY <4>7
      <4>11. KindsOf(msg'[call'.n]) = Seen' \o more /\ more = KindsOf(inbox'[call'.n])
        BY <1>2, <1>8, <1>9, <2>2, <3>4, <4>8, <4>9, <4>10
      <4> QED BY <4>10, <4>11
    <3> QED BY <3>3, <3>4
  <2> QED BY <1>1, <1>2, <1>13, <2>7, <2>8, <2>9, <2>10, <2>11, <2>12 DEF FlowSound
<1>19. IdsSound' BY <1>1, <1>2, <1>13 DEF IdsSound, NoCallFailed
<1>20. Conserved' BY <1>1, <1>2, SameConserved
<1>21. Awake' BY <1>1, <1>2, <1>13 DEF Awake, Readable, IsParked
<1> QED BY <1>1, <1>11, <1>12, <1>14, <1>15, <1>16, <1>17, <1>18, <1>19, <1>20, <1>21
        DEF DriverIInv

LEMMA PeerKeeps ==
  ASSUME DriverIInv, NEW n \in Requests, PeerSends(n) \/ PeerResets(n)
  PROVE  DriverIInv'
<1>1. \A k \in {"data", "fin", "reset"} : Item(k) \in Items BY DEF Items, Plain, Item
<1>2. CASE PeerSends(n)
  <2>1. PICK item \in IF msg[n] = <<>> THEN scope.sections
                      ELSE {Item("fin")} \cup (IF Len(msg[n]) <= scope.data THEN {Item("data")} ELSE {}) :
           msg' = [msg EXCEPT ![n] = Append(@, item)] /\ Arrive(n, item)
    BY <1>2, Zenon DEF PeerSends
  <2>2. Open(n) /\ opened' = opened BY <1>2, Zenon DEF PeerSends
  <2>3. scope.sections \subseteq SectionItems
    BY DriverAssumption DEF DriverIInv, Types, SectionItems
  <2>4. item \in Items
    <3>1. CASE msg[n] = <<>> BY <2>1, <2>3, <3>1 DEF Items
    <3>2. CASE msg[n] # <<>>
      <4>1. item = Item("fin") \/ item = Item("data") BY <2>1, <3>2
      <4> QED BY <1>1, <4>1
    <3> QED BY <3>1, <3>2
  <2>5. msg' = [msg EXCEPT ![n] = Append(@, item)] /\ Arrive(n, item) BY <2>1
  <2> QED BY <2>2, <2>4, <2>5, MessageGrows
<1>3. CASE PeerResets(n)
  <2>1. PICK item \in Items : item = Item("reset") BY <1>1
  <2>2. item \in Items /\ Open(n) /\ opened' = opened
    BY <1>3, <2>1, Zenon DEF PeerResets
  <2>3. msg' = [msg EXCEPT ![n] = Append(@, item)] /\ Arrive(n, item)
    BY <1>3, <2>1 DEF PeerResets
  <2> QED BY <2>2, <2>3, MessageGrows
<1> QED BY <1>2, <1>3

-----------------------------------------------------------------------------
(* The steps of the call that take events or feed the stream.              *)

(* The call fails: what is left of the message is of no interest any more. *)
LEMMA FlowEnds ==
  ASSUME Types, FlowSound, scope' = scope, conn' = conn, opened' = opened, results' = results,
         msg' = msg, call'.n = call.n, call'.result = "error", Place(App)' \notin Before,
         \A n \in Requests : inbox'[n] \in Seq(Items) /\ (n > call.n => inbox'[n] = inbox[n])
  PROVE  FlowSound'
<1>1. \A n : (Ended(n)' <=> Ended(n)) /\ (Shaped(n)' <=> Shaped(n)) BY NotFinished
<1>2. \A n \in Requests : Shaped(n)' /\ inbox'[n] \in Seq(Items) BY <1>1 DEF FlowSound
<1>3. \A n \in Requests : n > call'.n /\ conn' = "up" => inbox'[n] = msg'[n] BY DEF FlowSound
<1>4. \A n \in Requests : n > opened' => msg'[n] = <<>> BY DEF FlowSound
<1>5. \A n \in Requests :
         results'[n].result = "ok" => KindsOf(msg'[n]) = results'[n].got /\ Ended(n)'
  BY <1>1 DEF FlowSound
<1>6. call'.result # "none" /\ call'.result # "ok" OBVIOUS
<1> QED BY <1>2, <1>3, <1>4, <1>5, <1>6 DEF FlowSound

(* Retrying leaves the parts of the message in order, and nothing readable. *)
LEMMA RetryKeepsOrder ==
  ASSUME Types, ParkedSound, EventsSound, call.n \in Requests, ~DrainFails(h3),
         NEW g, g = Retry(h3)
  PROVE  /\ EventsOf(g, call.n) \in Seq(Kinds) /\ KindsOf(g.parked[call.n]) \in Seq(Kinds)
         /\ EventsOf(g, call.n) \o KindsOf(g.parked[call.n])
               = EventsOf(h3, call.n) \o KindsOf(h3.parked[call.n])
         /\ Readable(g) = {}
         /\ \A n \in Requests : h3.parked[n] = <<>> => g.parked[n] = <<>>
<1> DEFINE n == call.n
<1>1. h3 \in States BY DEF Types
<1>2. ~h3.error /\ \A m \in Readable(h3) : h3.parked[m][1].ok BY DEF DrainFails
<1>3. /\ g \in States /\ Rest(g, h3)
      /\ \/ Readable(h3) = {} /\ g = h3
         \/ \E m \in Readable(h3) :
               /\ Parks(g, h3, m, <<>>)
               /\ h3.parked[m][1].ok => Reads(g, h3, m, h3.parked[m])
               /\ ~h3.parked[m][1].ok => g.events = h3.events
  BY <1>1, RetryFacts
<1>4. EventsOf(h3, n) \in Seq(Kinds) BY <1>2, EventsTyped
<1>5. \A m \in Requests : g.parked[m] \in Seq(Items) /\ h3.parked[m] \in Seq(Items)
  BY <1>1, <1>3, KeptAreItems DEF States
<1>6. KindsOf(g.parked[n]) \in Seq(Kinds) BY <1>5, KindsOfProperties
<1>7. CASE Readable(h3) = {} /\ g = h3 BY <1>4, <1>6, <1>7
<1>8. CASE Readable(h3) # {}
  <2>1. PICK m \in Readable(h3) : Parks(g, h3, m, <<>>) /\ Reads(g, h3, m, h3.parked[m])
    BY <1>2, <1>3, <1>8
  <2>2. m \in Requests /\ h3.parked[m] # <<>> BY <2>1 DEF Readable, IsParked
  <2>3. m = n BY <1>2, <2>2 DEF ParkedSound
  <2>4. \A i \in 1 .. Len(h3.events) : h3.events[i].n = n
    BY <1>2, <2>2, <2>3 DEF EventsSound
  <2>5. PICK evs \in Seq(Events) :
           /\ g.events = h3.events \o evs
           /\ \A i \in 1 .. Len(evs) : evs[i].n = n /\ evs[i].k = h3.parked[n][i].k
           /\ KindsOf(evs) = KindsOf(h3.parked[n])
    BY <2>1, <2>3 DEF Reads
  <2>6. h3.events \in Seq(Events) BY <1>1 DEF States
  <2>7. EventsOf(g, n) = KindsOf(g.events)
    <3>1. /\ Len(g.events) = Len(h3.events) + Len(evs) /\ Len(h3.events) \in Nat /\ Len(evs) \in Nat
          /\ \A i \in 1 .. Len(h3.events) + Len(evs) :
                g.events[i] = IF i <= Len(h3.events) THEN h3.events[i] ELSE evs[i - Len(h3.events)]
      BY <2>5, <2>6, ConcatProperties, LenProperties
    <3>2. \A i \in 1 .. Len(g.events) : g.events[i].n = n
      <4> SUFFICES ASSUME NEW i \in 1 .. Len(h3.events) + Len(evs) PROVE g.events[i].n = n
        BY <3>1
      <4>1. CASE i <= Len(h3.events)
        <5>1. i \in 1 .. Len(h3.events) BY <3>1, <4>1
        <5> QED BY <2>4, <3>1, <4>1, <5>1
      <4>2. CASE ~(i <= Len(h3.events))
        <5>1. i - Len(h3.events) \in 1 .. Len(evs) BY <3>1, <4>2
        <5> QED BY <2>5, <3>1, <4>2, <5>1
      <4> QED BY <4>1, <4>2
    <3> QED BY <1>3, <3>2, EventsAllMine
  <2>8. KindsOf(g.events) = KindsOf(h3.events) \o KindsOf(h3.parked[n])
    <3>1. evs \in Seq(Events) BY <2>5
    <3>2. KindsOf(h3.events \o evs) = KindsOf(h3.events) \o KindsOf(evs)
      BY <2>6, <3>1, KindsAreKinds, KindsOfConcat
    <3> QED BY <2>5, <3>2
  <2>9. EventsOf(h3, n) = KindsOf(h3.events) BY <1>1, <2>4, EventsAllMine
  <2>10. EventsOf(g, n) = EventsOf(h3, n) \o KindsOf(h3.parked[n]) BY <2>7, <2>8, <2>9
  <2>11. KindsOf(h3.parked[n]) \in Seq(Kinds) BY <1>5, KindsOfProperties
  <2>12. EventsOf(g, n) \in Seq(Kinds) BY <1>4, <2>10, <2>11, ConcatProperties
  <2>13. g.parked[n] = <<>> BY <2>1, <2>3 DEF Parks
  <2>14. KindsOf(g.parked[n]) = <<>> BY <2>13, KindsOfNone
  <2>15. EventsOf(g, n) \o KindsOf(g.parked[n]) = EventsOf(h3, n) \o KindsOf(h3.parked[n])
    BY <2>10, <2>12, <2>14, ConcatEmptySeq
  <2>16. \A k \in Requests : g.parked[k] = <<>>
    <3> SUFFICES ASSUME NEW k \in Requests PROVE g.parked[k] = <<>> OBVIOUS
    <3>1. CASE k = n BY <2>13, <3>1
    <3>2. CASE k # n
      <4>1. h3.parked[k] = <<>> BY <2>2, <2>3, <3>2 DEF ParkedSound
      <4> QED BY <2>1, <2>3, <3>2, <4>1 DEF Parks
    <3> QED BY <3>1, <3>2
  <2>17. Readable(g) = {} BY <2>16 DEF Readable, IsParked
  <2> QED BY <1>6, <2>12, <2>15, <2>16, <2>17
<1> QED BY <1>3, <1>7, <1>8

(* A call that has the end of the message has all of it.                   *)
LEMMA EndIsAll ==
  ASSUME NEW m \in Seq(Items), NEW a \in Seq(Kinds), NEW b \in Seq(Kinds), NEW c \in Seq(Kinds),
         KindsOf(m) = (a \o b) \o c,
         \A i \in 1 .. Len(m) : i < Len(m) => m[i].k \notin {"fin", "reset"},
         NEW i \in DOMAIN a, a[i] = "fin"
  PROVE  b = <<>> /\ KindsOf(m) = a /\ m # <<>> /\ m[Len(m)].k = "fin"
<1>1. PICK k \in Seq(Kinds) : k = KindsOf(m) BY KindsOfProperties
<1>2. Len(k) = Len(m) /\ \A j \in 1 .. Len(m) : k[j] = m[j].k BY <1>1, KindsOfProperties
<1>3. PICK ab \in Seq(Kinds) : ab = a \o b BY ConcatProperties
<1>4. /\ Len(ab) = Len(a) + Len(b) /\ Len(a) \in Nat /\ Len(b) \in Nat /\ Len(c) \in Nat
      /\ \A j \in 1 .. Len(a) + Len(b) : ab[j] = IF j <= Len(a) THEN a[j] ELSE b[j - Len(a)]
      /\ i \in 1 .. Len(a)
  BY <1>3, ConcatProperties, LenProperties
<1>5. /\ Len(k) = Len(ab) + Len(c)
      /\ \A j \in 1 .. Len(ab) + Len(c) : k[j] = IF j <= Len(ab) THEN ab[j] ELSE c[j - Len(ab)]
  <2>1. ab \in Seq(Kinds) BY <1>3
  <2>2. /\ Len(ab \o c) = Len(ab) + Len(c)
        /\ \A j \in 1 .. Len(ab) + Len(c) : (ab \o c)[j] = IF j <= Len(ab) THEN ab[j] ELSE c[j - Len(ab)]
    BY <2>1, ConcatProperties
  <2> QED BY <1>1, <1>3, <2>2
<1>6. i \in 1 .. Len(ab) /\ i \in 1 .. Len(k) /\ i <= Len(a) /\ i <= Len(ab) BY <1>4, <1>5
<1>7. k[i] = "fin" BY <1>4, <1>5, <1>6
<1>8. i \in 1 .. Len(m) /\ m[i].k = "fin" BY <1>2, <1>6, <1>7
<1>9. ~(i < Len(m)) BY <1>8
<1>10. Len(m) = i /\ Len(b) = 0 /\ Len(c) = 0 /\ Len(a) = i BY <1>2, <1>4, <1>5, <1>6, <1>8, <1>9
<1>11. b = <<>> /\ c = <<>> BY <1>10, EmptySeq
<1>12. ab = a BY <1>3, <1>11, ConcatEmptySeq
<1>13. k = a BY <1>1, <1>3, <1>11, <1>12, ConcatEmptySeq
<1>14. m # <<>> BY <1>8, <1>10, EmptySeq
<1> QED BY <1>1, <1>8, <1>10, <1>11, <1>13, <1>14

(* A round of the call that takes events or feeds its stream: what remains to be
   shown is about the message, the parked sections and the events.         *)
LEMMA RoundKeeps ==
  ASSUME DriverIInv, Pc \in Waiting,
         NEW p \in AppPlaces, p \in Waiting \cup {"return"}, Goto(App, p) \/ GoFlush(App, p),
         NEW h \in States, Rest(h, h3), Adds(h, h3),
         Store(h) \/ (h = h3 /\ h3' = h3 /\ made' = made),
         scope' = scope /\ conn' = conn /\ opened' = opened /\ sent' = sent /\ permit' = permit
           /\ chan' = chan /\ results' = results /\ msg' = msg /\ out' = out,
         inbox' \in [Uni \cup Requests -> Seq(Items \cup UniItems)],
         \A u \in Uni : inbox'[u] = inbox[u],
         call' \in Calls, call'.n = call.n, call'.result = "none" <=> p \in Waiting,
         p = "select" => Readable(h) = {} /\ ~h.error,
         Place(App)' = p => ParkedSound' /\ EventsSound' /\ FlowSound'
  PROVE  DriverIInv'
<1>1. /\ Types /\ RoundsSound /\ CallSound /\ ParkedSound /\ EventsSound /\ FlowSound
      /\ InsertsSound /\ Conserved /\ IdsSound /\ Awake
  BY DEF DriverIInv
<1>2. Pc \notin {"flush", "send", "dead"} BY DEF Waiting
<1>3. Place(App) = Pc /\ ~h3.poisoned BY <1>1, <1>2, AppHere
<1>4. h3' = h BY DEF Store
<1>5. ~h3'.poisoned BY <1>3, <1>4 DEF Rest
<1>6. /\ RoundsSound' /\ Place(App)' = p /\ task' \in [Tasks -> Rounds]
      /\ \A t \in Tasks : task'[t].items = task[t].items
  BY <1>1, <1>2, <1>5, AppGoes
<1>7. made' \in Ticks /\ Conserved'
  <2>1. CASE Store(h) BY <1>1, <1>6, <2>1, StoreConserves
  <2>2. CASE h = h3 /\ h3' = h3 /\ made' = made
    <3>1. Conserved' BY <1>1, <1>6, <2>2, SameConserved
    <3> QED BY <1>1, <2>2, <3>1 DEF Types
  <2> QED BY <2>1, <2>2
<1>8. Types' BY <1>1, <1>4, <1>6, <1>7 DEF Types
<1>9. CallSound' BY <1>1, <1>3, <1>6 DEF CallSound, Waiting, Before
<1>10. InsertsSound' BY <1>1, <1>4, SameInserts DEF Rest
<1>11. IdsSound'
  <2>1. call.result # "error" BY <1>1, <1>3 DEF CallSound
  <2>2. Place(App) # "encode" /\ Place(App)' # "encode" BY <1>3, <1>6 DEF Waiting
  <2> QED BY <1>1, <1>4, <1>5, <2>1, <2>2 DEF IdsSound, NoCallFailed, Rest
<1>12. Awake' BY <1>4, <1>6 DEF Awake, Readable, IsParked
<1> QED BY <1>6, <1>7, <1>8, <1>9, <1>10, <1>11, <1>12 DEF DriverIInv

(* What a retry leaves parked was parked; the events stay those of streams up to the
   call's; a malformed section, the only one parked, makes no event.       *)
LEMMA RetryShrinks ==
  ASSUME Types, ParkedSound, EventsSound, NEW g, g = Retry(h3)
  PROVE  /\ \A n \in Requests : h3.parked[n] = <<>> => g.parked[n] = <<>>
         /\ \A i \in 1 .. Len(g.events) : g.events[i].n <= call.n
         /\ ~h3.error /\ DrainFails(h3) =>
               g.events = h3.events /\ \A n \in Requests : g.parked[n] = <<>>
<1>1. h3 \in States BY DEF Types
<1>2. /\ g \in States /\ Rest(g, h3)
      /\ \/ Readable(h3) = {} /\ g = h3
         \/ \E m \in Readable(h3) :
               /\ Parks(g, h3, m, <<>>)
               /\ h3.parked[m][1].ok => Reads(g, h3, m, h3.parked[m])
               /\ ~h3.parked[m][1].ok => g.events = h3.events
  BY <1>1, RetryFacts
<1>3. \A i \in 1 .. Len(h3.events) : h3.events[i].n <= call.n BY DEF EventsSound
<1>4. CASE Readable(h3) = {} /\ g = h3 BY <1>3, <1>4 DEF DrainFails
<1>5. CASE Readable(h3) # {}
  <2>1. PICK m \in Readable(h3) :
           /\ Parks(g, h3, m, <<>>)
           /\ h3.parked[m][1].ok => Reads(g, h3, m, h3.parked[m])
           /\ ~h3.parked[m][1].ok => g.events = h3.events
    BY <1>2, <1>5
  <2>2. m \in Requests /\ h3.parked[m] # <<>> BY <2>1 DEF Readable, IsParked
  <2>3. m <= call.n BY <2>2 DEF ParkedSound
  <2>4. \A n \in Requests : h3.parked[n] = <<>> => g.parked[n] = <<>>
    BY <2>1, <2>2 DEF Parks
  <2>5. \A n \in Requests : n # m => h3.parked[n] = <<>> BY <2>2 DEF ParkedSound
  <2>6. \A n \in Requests : g.parked[n] = <<>>
    <3> SUFFICES ASSUME NEW n \in Requests PROVE g.parked[n] = <<>> OBVIOUS
    <3>1. CASE n = m BY <2>1, <3>1 DEF Parks
    <3>2. CASE n # m BY <2>4, <2>5, <3>2
    <3> QED BY <3>1, <3>2
  <2>7. CASE h3.parked[m][1].ok
    <3>1. PICK evs \in Seq(Events) :
             g.events = h3.events \o evs /\ \A i \in 1 .. Len(evs) : evs[i].n = m
      BY <2>1, <2>7 DEF Reads
    <3>2. h3.events \in Seq(Events) BY <1>1 DEF States
    <3>3. evs \in Seq(Events) BY <3>1
    <3>4. /\ Len(g.events) = Len(h3.events) + Len(evs) /\ Len(h3.events) \in Nat /\ Len(evs) \in Nat
          /\ \A i \in 1 .. Len(h3.events) + Len(evs) :
                g.events[i] = IF i <= Len(h3.events) THEN h3.events[i] ELSE evs[i - Len(h3.events)]
      BY <3>1, <3>2, <3>3, ConcatProperties, LenProperties
    <3>5. ASSUME NEW i \in 1 .. Len(h3.events) + Len(evs) PROVE g.events[i].n <= call.n
      <4>1. CASE i <= Len(h3.events)
        <5>1. i \in 1 .. Len(h3.events) BY <3>4, <4>1
        <5> QED BY <1>3, <3>4, <4>1, <5>1
      <4>2. CASE ~(i <= Len(h3.events))
        <5>1. i - Len(h3.events) \in 1 .. Len(evs) BY <3>4, <4>2
        <5> QED BY <2>3, <3>1, <3>4, <4>2, <5>1
      <4> QED BY <4>1, <4>2
    <3>6. ~(~h3.error /\ DrainFails(h3))
      <4>1. \A n \in Readable(h3) : n = m BY <2>5 DEF Readable, IsParked
      <4> QED BY <2>7, <4>1 DEF DrainFails
    <3> QED BY <2>4, <3>4, <3>5, <3>6
  <2>8. CASE ~h3.parked[m][1].ok BY <1>3, <2>1, <2>4, <2>6, <2>8
  <2> QED BY <2>7, <2>8
<1> QED BY <1>2, <1>4, <1>5

LEMMA DrainFailsKeeps ==
  ASSUME DriverIInv, Pc = "drain", DrainFails(h3), Store(Retry(h3)), Fail,
         scope' = scope /\ conn' = conn /\ inbox' = inbox /\ opened' = opened /\ sent' = sent
           /\ permit' = permit /\ chan' = chan /\ results' = results /\ msg' = msg /\ out' = out
  PROVE  DriverIInv'
<1>1. Types /\ RoundsSound /\ CallSound /\ ParkedSound /\ EventsSound /\ FlowSound
  BY DEF DriverIInv
<1>2. h3 \in States /\ call \in Calls /\ inbox \in [Uni \cup Requests -> Seq(Items \cup UniItems)]
  BY <1>1 DEF Types
<1>3. PICK g : g = Retry(h3) OBVIOUS
<1>4. g \in States /\ Rest(g, h3) /\ Adds(g, h3) BY <1>2, <1>3, RetryFacts
<1>5. /\ \A n \in Requests : h3.parked[n] = <<>> => g.parked[n] = <<>>
      /\ \A i \in 1 .. Len(g.events) : g.events[i].n <= call.n
      /\ ~h3.error => g.events = h3.events /\ \A n \in Requests : g.parked[n] = <<>>
  BY <1>1, <1>3, RetryShrinks
<1>6. call' = [call EXCEPT !.result = "error"] /\ Goto(App, "return") BY Zenon DEF Fail
<1>7. call' \in Calls /\ call'.n = call.n /\ call'.result = "error" BY <1>2, <1>6, FailedCall
<1>8. PICK p \in AppPlaces : p = "return" BY DEF AppPlaces
<1>9. h3' = g BY <1>3 DEF Store
<1>10. ASSUME Place(App)' = p PROVE ParkedSound' /\ EventsSound' /\ FlowSound'
  <2>1. ParkedSound' BY <1>1, <1>4, <1>5, <1>7, <1>8, <1>9, <1>10 DEF ParkedSound, Rest, Before
  <2>2. EventsSound' BY <1>1, <1>4, <1>5, <1>7, <1>8, <1>9, <1>10 DEF EventsSound, Rest
  <2>3. Place(App)' \notin Before BY <1>8, <1>10 DEF Before
  <2>4. \A n \in Requests : inbox'[n] \in Seq(Items) BY <1>1 DEF FlowSound
  <2>5. FlowSound' BY <1>1, <1>7, <2>3, <2>4, FlowEnds
  <2> QED BY <2>1, <2>2, <2>5
<1>11. Goto(App, p) /\ p \in AppPlaces /\ p \in Waiting \cup {"return"} /\ p \notin Waiting
       /\ p # "select" /\ Pc \in Waiting
  BY <1>6, <1>8 DEF Waiting
<1>12. Store(g) BY <1>3
<1>13. call'.result = "none" <=> p \in Waiting BY <1>7, <1>11
<1>14. inbox' \in [Uni \cup Requests -> Seq(Items \cup UniItems)] /\ \A u \in Uni : inbox'[u] = inbox[u]
  BY <1>2
<1> QED BY <1>4, <1>7, <1>10, <1>11, <1>12, <1>13, <1>14, RoundKeeps

LEMMA KindsJoin ==
  ASSUME NEW a \in Seq(Kinds), NEW b \in Seq(Kinds)
  PROVE  a \o b \in Seq(Kinds)
BY ConcatProperties

LEMMA KindsRegroup ==
  ASSUME NEW a \in Seq(Kinds), NEW b \in Seq(Kinds), NEW c \in Seq(Kinds)
  PROVE  (a \o b) \o c = a \o (b \o c)
BY ConcatAssociative

\* With q goes what QUIC still holds of the message to the call.
Leads(q) ==
    \E rest \in Seq(Kinds) :
       /\ KindsOf(msg[call.n]) = q \o rest
       /\ conn = "up" => rest = KindsOf(inbox[call.n])

(* The events that are drained are what the call gets; nothing is lost between them
   and what stays parked.                                                  *)
LEMMA DrainsInOrder ==
  ASSUME Types, ParkedSound, EventsSound, FlowSound, call.n \in Requests, call.result = "none",
         ~DrainFails(h3), NEW g, g = Retry(h3)
  PROVE  /\ call.got \o EventsOf(g, call.n) \in Seq(Kinds)
         /\ KindsOf(g.parked[call.n]) \in Seq(Kinds)
         /\ Leads((call.got \o EventsOf(g, call.n)) \o KindsOf(g.parked[call.n]))
<1>1. PICK a \in Seq(Kinds) : a = call.got BY DEF Types, Calls
<1>2. /\ EventsOf(g, call.n) \in Seq(Kinds) /\ KindsOf(g.parked[call.n]) \in Seq(Kinds)
      /\ EventsOf(g, call.n) \o KindsOf(g.parked[call.n])
            = EventsOf(h3, call.n) \o KindsOf(h3.parked[call.n])
  BY RetryKeepsOrder
<1>3. ~h3.error /\ call.n > 0 BY DriverAssumption DEF DrainFails, Requests
<1>4. EventsOf(h3, call.n) \in Seq(Kinds) BY <1>3, EventsTyped
<1>5. h3.parked[call.n] \in Seq(Items) BY KeptAreItems DEF Types, States
<1>6. KindsOf(h3.parked[call.n]) \in Seq(Kinds) BY <1>5, KindsOfProperties
<1>7. PICK e \in Seq(Kinds) : e = EventsOf(g, call.n) BY <1>2
<1>8. PICK b \in Seq(Kinds) : b = KindsOf(g.parked[call.n]) BY <1>2
<1>9. PICK e3 \in Seq(Kinds) : e3 = EventsOf(h3, call.n) BY <1>4
<1>10. PICK b3 \in Seq(Kinds) : b3 = KindsOf(h3.parked[call.n]) BY <1>6
<1>11. e \o b = e3 \o b3 BY <1>2, <1>7, <1>8, <1>9, <1>10
<1>12. Leads(Seen) BY <1>3 DEF FlowSound, Leads
<1>13. Seen = (a \o e3) \o b3 BY <1>1, <1>9, <1>10 DEF Seen
<1>14. (a \o e) \o b = (a \o e3) \o b3 /\ a \o e \in Seq(Kinds)
  <2>1. a \in Seq(Kinds) /\ e \in Seq(Kinds) /\ b \in Seq(Kinds) /\ e3 \in Seq(Kinds) /\ b3 \in Seq(Kinds)
    BY <1>1, <1>7, <1>8, <1>9, <1>10
  <2>2. (a \o e) \o b = a \o (e \o b) BY <2>1, KindsRegroup, SMTT(60)
  <2>3. (a \o e3) \o b3 = a \o (e3 \o b3) BY <2>1, KindsRegroup, SMTT(60)
  <2>4. a \o e \in Seq(Kinds) BY <2>1, KindsJoin
  <2> QED BY <1>11, <2>2, <2>3, <2>4
<1>15. Seen = (call.got \o EventsOf(g, call.n)) \o KindsOf(g.parked[call.n])
  BY <1>1, <1>7, <1>8, <1>13, <1>14
<1>16. call.got \o EventsOf(g, call.n) \in Seq(Kinds) BY <1>1, <1>7, <1>14
<1> QED BY <1>2, <1>12, <1>15, <1>16

WithGot(c, got, result) == [c EXCEPT !.got = got, !.result = result]

LEMMA WithGotFacts ==
  ASSUME NEW c \in Calls, NEW got \in Seq(Kinds), NEW result \in {"none", "ok", "error"}
  PROVE  /\ WithGot(c, got, result) \in Calls /\ WithGot(c, got, result).n = c.n
         /\ WithGot(c, got, result).got = got /\ WithGot(c, got, result).result = result
BY DEF Calls, WithGot

LEMMA DrainWorksKeeps ==
  ASSUME DriverIInv, Pc = "drain", ~DrainFails(h3), call.n \in Requests,
         NEW g \in States, Rest(g, h3), Adds(g, h3), Readable(g) = {},
         \A n \in Requests : h3.parked[n] = <<>> => g.parked[n] = <<>>,
         NEW got \in Seq(Kinds), KindsOf(g.parked[call.n]) \in Seq(Kinds),
         Leads(got \o KindsOf(g.parked[call.n])),
         NEW result \in {"none", "ok"}, result = "ok" <=> IsDone(got),
         Store([g EXCEPT !.events = <<>>]),
         call' = WithGot(call, got, result),
         GoFlush(App, IF IsDone(got) THEN "return" ELSE "select"),
         scope' = scope /\ conn' = conn /\ inbox' = inbox /\ opened' = opened /\ sent' = sent
           /\ permit' = permit /\ chan' = chan /\ results' = results /\ msg' = msg /\ out' = out
  PROVE  DriverIInv'
<1>1. Types /\ RoundsSound /\ CallSound /\ ParkedSound /\ EventsSound /\ FlowSound
  BY DEF DriverIInv
<1>2. h3 \in States /\ call \in Calls /\ inbox \in [Uni \cup Requests -> Seq(Items \cup UniItems)]
      /\ msg \in [Requests -> Seq(Items)]
  BY <1>1 DEF Types
<1>3. Place(App) = Pc BY <1>1, AppHere
<1>4. call.n > 0 /\ call.result = "none" /\ ~h3.error
  BY <1>1, <1>3 DEF CallSound, Waiting, DrainFails
<1>5. PICK none \in Seq(Events) : none = <<>> BY EmptySeq
<1>6. PICK h : h = WithRead(g, none, g.pend) OBVIOUS
<1>7. /\ h \in States /\ Rest(h, g) /\ h.parked = g.parked /\ h.events = none /\ h.pend = g.pend
  <2>1. none \in Seq(Events) /\ g.pend \in Seq(Instructions) BY <1>5 DEF States
  <2> QED BY <1>6, <2>1, WithEvents
<1>8. Rest(h, h3) /\ Adds(h, h3) /\ h.inserts = g.inserts
  BY <1>7 DEF Rest, Adds
<1>9. h = [g EXCEPT !.events = <<>>]
  BY <1>5, <1>6 DEF WithRead, States
<1>10. Store(h) BY <1>9
<1>11. h3' = h BY <1>10 DEF Store
<1>12. Readable(h) = {} BY <1>7, <1>8 DEF Readable, IsParked
<1>13. call' \in Calls /\ call'.n = call.n /\ call'.got = got /\ call'.result = result
  <2>1. result \in {"none", "ok", "error"} OBVIOUS
  <2>2. call \in Calls BY <1>2
  <2> QED BY <2>1, <2>2 DEF WithGot, Calls
<1>14. PICK p \in AppPlaces : p = IF IsDone(got) THEN "return" ELSE "select" BY DEF AppPlaces
<1>15. Len(h.events) = 0 BY <1>5, <1>7, EmptySeq
<1>16. EventsOf(h, call.n) = <<>> BY <1>7, <1>15, EventsNoneMine
<1>17. got \o EventsOf(h, call.n) = got BY <1>16, ConcatEmptySeq
<1>18. Seen' = got \o KindsOf(g.parked[call.n])
  <2>1. Seen' = call'.got \o EventsOf(h, call'.n) \o KindsOf(h.parked[call'.n])
    <3>1. EventsOf(h3, call.n)' = EventsOf(h3', call'.n) BY DEF EventsOf
    <3>2. EventsOf(h3', call'.n) = EventsOf(h, call'.n) BY <1>11
    <3> QED BY <1>11, <3>1, <3>2 DEF Seen
  <2> QED BY <1>7, <1>13, <1>17, <2>1
<1>19. IsDone(got) => /\ KindsOf(msg[call.n]) = got /\ Ended(call.n)
                      /\ g.parked[call.n] = <<>>
  <2> SUFFICES ASSUME IsDone(got)
               PROVE  /\ KindsOf(msg[call.n]) = got /\ Ended(call.n)
                      /\ g.parked[call.n] = <<>>
    OBVIOUS
  <2>1. PICK i \in DOMAIN got : got[i] = "fin" BY DEF IsDone
  <2>2. PICK m \in Seq(Items) : m = msg[call.n] BY <1>2
  <2>3. PICK b \in Seq(Kinds) : b = KindsOf(g.parked[call.n]) OBVIOUS
  <2>4. PICK rest \in Seq(Kinds) : KindsOf(msg[call.n]) = (got \o b) \o rest
    BY <2>3 DEF Leads
  <2>5. \A j \in 1 .. Len(m) : j < Len(m) => m[j].k \notin {"fin", "reset"}
    BY <1>1, <2>2 DEF FlowSound, Shaped
  <2>6. KindsOf(m) = (got \o b) \o rest BY <2>2, <2>4
  <2>7. m \in Seq(Items) /\ b \in Seq(Kinds) /\ rest \in Seq(Kinds) BY <2>2, <2>3, <2>4
  <2>8. b = <<>> /\ KindsOf(m) = got /\ m # <<>> /\ m[Len(m)].k = "fin"
    BY <2>1, <2>5, <2>6, <2>7, EndIsAll
  <2>9. g.parked[call.n] \in Seq(Items) BY KeptAreItems DEF States
  <2>10. g.parked[call.n] = <<>> BY <2>3, <2>8, <2>9, KindsOfEmpty
  <2> QED BY <2>2, <2>8, <2>10 DEF Ended
<1>20. ASSUME Place(App)' = p PROVE ParkedSound' /\ EventsSound' /\ FlowSound'
  <2>1. Place(App)' \notin Before BY <1>14, <1>20 DEF Before
  <2>2. ParkedSound'
    <3>1. \A n \in Requests : h3'.parked[n] # <<>> => h3.parked[n] # <<>> BY <1>7, <1>11
    <3>2. \A n \in Requests : h3.parked[n] # <<>> => n = call.n BY <1>1, <1>4 DEF ParkedSound
    <3>3. \A n \in Requests : h3'.parked[n] # <<>> => ~IsDone(got)
      BY <1>7, <1>11, <1>19, <3>1, <3>2
    <3>4. ~IsDone(got) => call'.result = "none" BY <1>4, <1>13
    <3> QED BY <1>13, <2>1, <3>1, <3>2, <3>3, <3>4, DriverAssumption DEF ParkedSound, Requests
  <2>3. EventsSound' BY <1>5, <1>7, <1>11, <1>15 DEF EventsSound
  <2>4. Ended(call.n)' <=> Ended(call.n) BY <1>13 DEF Ended
  <2>5. \A n \in Requests : (Ended(n)' <=> Ended(n)) /\ (Shaped(n)' <=> Shaped(n)) BY NotFinished
  <2>6. call'.result = "none" =>
          \E rest \in Seq(Kinds) :
             /\ KindsOf(msg'[call'.n]) = Seen' \o rest
             /\ conn' = "up" => rest = KindsOf(inbox'[call'.n])
    BY <1>13, <1>18 DEF Leads
  <2>7. call'.result = "ok" => KindsOf(msg'[call'.n]) = call'.got /\ Ended(call.n)'
    BY <1>4, <1>13, <1>19, <2>4
  <2>8. \A n \in Requests :
           /\ n > call'.n /\ conn' = "up" => inbox'[n] = msg'[n]
           /\ n > opened' => msg'[n] = <<>>
           /\ Shaped(n)' /\ inbox'[n] \in Seq(Items)
    BY <1>1, <1>13, <2>5 DEF FlowSound
  <2>9. \A n \in Requests :
           results'[n].result = "ok" => KindsOf(msg'[n]) = results'[n].got /\ Ended(n)'
    BY <1>1, <2>5 DEF FlowSound
  <2>10. FlowSound' BY <1>13, <2>1, <2>6, <2>7, <2>8, <2>9 DEF FlowSound
  <2> QED BY <2>2, <2>3, <2>10
<1>21. /\ GoFlush(App, p) /\ p \in Waiting \cup {"return"} /\ Pc \in Waiting
       /\ p = "select" => ~IsDone(got)
       /\ p \in Waiting <=> ~IsDone(got)
  BY <1>14 DEF Waiting
<1>22. call'.result = "none" <=> p \in Waiting BY <1>4, <1>13, <1>21
<1>23. ~h.error BY <1>4, <1>8 DEF Rest
<1>24. inbox' \in [Uni \cup Requests -> Seq(Items \cup UniItems)] /\ \A u \in Uni : inbox'[u] = inbox[u]
  BY <1>2
<1> QED BY <1>7, <1>8, <1>10, <1>12, <1>13, <1>20, <1>21, <1>22, <1>23, <1>24, RoundKeeps

LEMMA DrainEventsKeeps ==
  ASSUME DriverIInv, DrainEvents
  PROVE  DriverIInv'
<1>1. Types /\ RoundsSound /\ CallSound /\ ParkedSound /\ EventsSound /\ FlowSound
  BY DEF DriverIInv
<1>2. /\ Pc = "drain"
      /\ scope' = scope /\ conn' = conn /\ inbox' = inbox /\ opened' = opened /\ sent' = sent
      /\ permit' = permit /\ chan' = chan /\ results' = results /\ msg' = msg /\ out' = out
  BY Zenon DEF DrainEvents
<1>3. Place(App) = Pc /\ ~h3.poisoned BY <1>1, <1>2, AppHere
<1>4. h3 \in States BY <1>1 DEF Types
<1>5. call.n > 0 /\ call.result = "none" BY <1>1, <1>2, <1>3 DEF CallSound, Waiting
<1>6. call.n \in Requests BY <1>1, <1>5, CallNumber
<1>7. CASE DrainFails(h3)
  <2>1. Store(Retry(h3)) /\ Fail BY <1>3, <1>7, Zenon DEF DrainEvents, Poisoned
  <2> QED BY <1>2, <1>7, <2>1, DrainFailsKeeps
<1>8. CASE ~DrainFails(h3)
  <2>1. PICK g : g = Retry(h3) OBVIOUS
  <2>2. PICK got : got = call.got \o EventsOf(g, call.n) OBVIOUS
  <2>3. PICK result : result = IF IsDone(got) THEN "ok" ELSE call.result OBVIOUS
  <2>4. /\ Store([g EXCEPT !.events = <<>>])
        /\ call' = [call EXCEPT !.got = got,
                                !.result = IF IsDone(got) THEN "ok" ELSE call.result]
        /\ GoFlush(App, IF IsDone(got) THEN "return" ELSE "select")
    BY <1>3, <1>8, <2>1, <2>2, Zenon DEF DrainEvents, Poisoned
  <2>5. call' = WithGot(call, got, result) BY <2>3, <2>4, Zenon DEF WithGot
  <2>6. g \in States /\ Rest(g, h3) /\ Adds(g, h3) BY <1>4, <2>1, RetryFacts
  <2>7. Readable(g) = {} /\ \A n \in Requests : h3.parked[n] = <<>> => g.parked[n] = <<>>
    BY <1>1, <1>6, <1>8, <2>1, RetryKeepsOrder
  <2>8. /\ call.got \o EventsOf(g, call.n) \in Seq(Kinds)
        /\ KindsOf(g.parked[call.n]) \in Seq(Kinds)
        /\ Leads((call.got \o EventsOf(g, call.n)) \o KindsOf(g.parked[call.n]))
    BY <1>1, <1>5, <1>6, <1>8, <2>1, DrainsInOrder
  <2>9. got \in Seq(Kinds) BY <2>2, <2>8
  <2>10. Leads(got \o KindsOf(g.parked[call.n])) BY <2>2, <2>8
  <2>11. result \in {"none", "ok"} /\ (result = "ok" <=> IsDone(got)) BY <1>5, <2>3
  <2>12. Store([g EXCEPT !.events = <<>>]) /\ GoFlush(App, IF IsDone(got) THEN "return" ELSE "select")
    BY <2>4
  <2>13. KindsOf(g.parked[call.n]) \in Seq(Kinds) BY <2>8
  <2> QED BY <1>2, <1>6, <1>8, <2>5, <2>6, <2>7, <2>9, <2>10, <2>11, <2>12, <2>13, DrainWorksKeeps
<1> QED BY <1>7, <1>8

SeenIn(h) == call.got \o EventsOf(h, call.n) \o KindsOf(h.parked[call.n])

(* What is fed to the stream of the call comes after all that it has seen, whether it
   is read or parked.                                                      *)
LEMMA FeedGrows ==
  ASSUME Types, call.n \in Requests, h3.events = <<>>, NEW item \in Kept,
         NEW g, g = Feed(h3, call.n, item)
  PROVE  /\ Seen \in Seq(Kinds) /\ item.k \in Kinds
         /\ SeenIn(g) = Append(Seen, item.k)
         /\ \A i \in 1 .. Len(g.events) : g.events[i].n = call.n
<1> DEFINE n == call.n
<1>1. h3 \in States /\ call.got \in Seq(Kinds) BY DEF Types, Calls
<1>2. PICK a \in Seq(Kinds) : a = call.got BY <1>1
<1>3. Len(h3.events) = 0 BY EmptySeq
<1>4. EventsOf(h3, n) = <<>> BY <1>1, <1>3, EventsNoneMine
<1>5. h3.parked[n] \in Seq(Kept) BY <1>1 DEF States
<1>6. PICK q \in Seq(Items) : q = h3.parked[n] BY <1>5, KeptAreItems
<1>7. PICK b \in Seq(Kinds) : b = KindsOf(q) BY <1>6, KindsOfProperties
<1>8. a \o EventsOf(h3, n) = a BY <1>2, <1>4, ConcatEmptySeq
<1>9. Seen = a \o b BY <1>2, <1>6, <1>7, <1>8 DEF Seen
<1>10. Seen \in Seq(Kinds)
  <2>1. a \in Seq(Kinds) /\ b \in Seq(Kinds) BY <1>2, <1>7
  <2> QED BY <1>9, <2>1, ConcatProperties
<1>11. item \in Items /\ item.k \in Kinds BY KeptAreItems, KindsAreKinds
<1>12. PICK kind \in Kinds : kind = item.k BY <1>11
<1>13. /\ g \in States
       /\ \/ /\ Parks(g, h3, n, Append(h3.parked[n], item))
             /\ g.events = h3.events
          \/ ~IsParked(h3, n) /\ g.parked = h3.parked /\ Reads(g, h3, n, <<item>>)
  BY <1>1, FeedFacts
<1>14. CASE Parks(g, h3, n, Append(h3.parked[n], item)) /\ g.events = h3.events
  <2>1. Len(g.events) = 0 BY <1>3, <1>14
  <2>2. EventsOf(g, n) = <<>> BY <1>13, <2>1, EventsNoneMine
  <2>3. a \o EventsOf(g, n) = a BY <1>2, <2>2, ConcatEmptySeq
  <2>4. g.parked[n] = Append(q, item) BY <1>6, <1>14 DEF Parks
  <2>5. KindsOf(Append(q, item)) = Append(KindsOf(q), item.k) BY <1>6, <1>11, KindsOfAppend
  <2>6. KindsOf(g.parked[n]) = Append(b, kind) BY <1>7, <1>12, <2>4, <2>5
  <2>7. SeenIn(g) = a \o Append(b, kind) BY <1>2, <2>3, <2>6 DEF SeenIn
  <2>8. Append(a \o b, kind) = a \o Append(b, kind)
    <3>1. a \in Seq(Kinds) /\ b \in Seq(Kinds) /\ kind \in Kinds BY <1>2, <1>7, <1>12
    <3> QED BY <3>1, AppendRest
  <2> QED BY <1>9, <1>10, <1>11, <1>12, <2>1, <2>7, <2>8
<1>15. CASE ~IsParked(h3, n) /\ g.parked = h3.parked /\ Reads(g, h3, n, <<item>>)
  <2>1. PICK evs \in Seq(Events) :
           /\ g.events = h3.events \o evs
           /\ \A i \in 1 .. Len(evs) : evs[i].n = n
           /\ KindsOf(evs) = KindsOf(<<item>>)
    BY <1>15, Zenon DEF Reads
  <2>2. g.events = evs
    <3>1. evs \in Seq(Events) BY <2>1
    <3>2. PICK none \in Seq(Events) : none = <<>> BY EmptySeq
    <3>3. none \o evs = evs BY <3>1, <3>2, ConcatEmptySeq
    <3> QED BY <2>1, <3>2, <3>3
  <2>3. \A i \in 1 .. Len(g.events) : g.events[i].n = n BY <2>1, <2>2
  <2>4. EventsOf(g, n) = KindsOf(evs) BY <1>13, <2>2, <2>3, EventsAllMine
  <2>5. PICK none \in Seq(Items) : none = <<>> BY EmptySeq
  <2>6. KindsOf(Append(none, item)) = Append(KindsOf(none), item.k)
    BY <1>11, <2>5, KindsOfAppend
  <2>7. Append(none, item) = <<item>> BY <2>5
  <2>8. PICK empty \in Seq(Kinds) : empty = <<>> BY EmptySeq
  <2>9. KindsOf(none) = empty BY <2>5, <2>8, KindsOfNone
  <2>10. EventsOf(g, n) = Append(empty, kind) BY <1>12, <2>1, <2>4, <2>6, <2>7, <2>9
  <2>11. KindsOf(g.parked[n]) = empty /\ b = empty
    <3>1. h3.parked[n] = <<>> BY <1>15 DEF IsParked
    <3>2. KindsOf(h3.parked[n]) = <<>> BY <3>1, KindsOfNone
    <3> QED BY <1>6, <1>7, <1>15, <2>8, <3>2
  <2>12. a \o empty = a BY <1>2, <2>8, ConcatEmptySeq
  <2>13. a \o Append(empty, kind) = Append(a, kind)
    <3>1. a \in Seq(Kinds) /\ empty \in Seq(Kinds) /\ kind \in Kinds BY <1>2, <1>12, <2>8
    <3>2. Append(a \o empty, kind) = a \o Append(empty, kind) BY <3>1, AppendRest
    <3> QED BY <2>12, <3>2
  <2>14. Append(a, kind) \o empty = Append(a, kind)
    <3>1. Append(a, kind) \in Seq(Kinds) BY <1>2, <1>12, AppendProperties
    <3> QED BY <2>8, <3>1, ConcatEmptySeq
  <2>15. SeenIn(g) = Append(a, kind) BY <1>2, <2>10, <2>11, <2>13, <2>14 DEF SeenIn
  <2>16. Seen = a BY <1>9, <2>11, <2>12
  <2> QED BY <1>10, <1>11, <1>12, <2>3, <2>15, <2>16
<1> QED BY <1>13, <1>14, <1>15

(* QUIC hands the first item of the call's stream over.                    *)
LEMMA OwnItemTaken ==
  ASSUME Types, FlowSound, NEW n \in Requests, inbox[n] # <<>>,
         inbox' = [inbox EXCEPT ![n] = Tail(@)]
  PROVE  /\ Head(inbox[n]) \in Items /\ Tail(inbox[n]) \in Seq(Items)
         /\ KindsOf(inbox[n]) = <<Head(inbox[n]).k>> \o KindsOf(Tail(inbox[n]))
         /\ inbox' \in [Uni \cup Requests -> Seq(Items \cup UniItems)]
         /\ inbox'[n] = Tail(inbox[n])
         /\ \A s \in Uni \cup Requests : s # n => inbox'[s] = inbox[s]
         /\ \A u \in Uni : inbox'[u] = inbox[u]
         /\ \A s \in Requests : inbox'[s] \in Seq(Items)
<1>1. inbox[n] \in Seq(Items) BY DEF FlowSound
<1>2. PICK q \in Seq(Items) : q = inbox[n] BY <1>1
<1>3. PICK none \in Seq(Items) : none = <<>> BY EmptySeq
<1>4. /\ Head(q) \in Items /\ Tail(q) \in Seq(Items) /\ Append(none, Head(q)) \in Seq(Items)
      /\ q = Append(none, Head(q)) \o Tail(q)
  <2>1. q \in Seq(Items) /\ q # <<>> /\ none \in Seq(Items) BY <1>2, <1>3
  <2> QED BY <1>3, <2>1, FirstAndRest
<1>5. PICK one \in Seq(Items) : one = Append(none, Head(q)) BY <1>4
<1>6. PICK t \in Seq(Items) : t = Tail(q) BY <1>4
<1>7. KindsOf(one \o t) = KindsOf(one) \o KindsOf(t)
  <2>1. one \in Seq(Items) /\ t \in Seq(Items) BY <1>5, <1>6
  <2> QED BY <2>1, KindsAreKinds, KindsOfConcat
<1>8. KindsOf(one) = <<Head(q).k>>
  <2>1. PICK x \in Items : x = Head(q) BY <1>4
  <2>2. PICK empty \in Seq(Kinds) : empty = <<>> BY EmptySeq
  <2>3. KindsOf(none) = empty BY <1>3, <2>2, KindsOfNone
  <2>4. none \in Seq(Items) /\ x \in Items BY <1>3, <2>1
  <2>5. KindsOf(Append(none, x)) = Append(KindsOf(none), x.k) BY <2>4, KindsOfAppend
  <2>6. Append(empty, x.k) = <<x.k>> BY <2>2
  <2> QED BY <1>5, <2>1, <2>3, <2>5, <2>6
<1>9. KindsOf(q) = <<Head(q).k>> \o KindsOf(t) BY <1>4, <1>5, <1>6, <1>7, <1>8
<1>10. t \in Seq(Items \cup UniItems)
  <2>1. Items \subseteq Items \cup UniItems OBVIOUS
  <2> QED BY <1>6, <2>1, SeqMonotonic
<1>11. /\ inbox' \in [Uni \cup Requests -> Seq(Items \cup UniItems)] /\ inbox'[n] = t
       /\ \A s \in Uni \cup Requests : s # n => inbox'[s] = inbox[s]
  <2>1. inbox \in [Uni \cup Requests -> Seq(Items \cup UniItems)] BY DEF Types
  <2>2. inbox' = [inbox EXCEPT ![n] = t] BY <1>2, <1>6
  <2> QED BY <1>10, <2>1, <2>2
<1>12. n \notin Uni BY DEF Uni, Control, Encoder, Requests
<1>13. \A u \in Uni : inbox'[u] = inbox[u] BY <1>11, <1>12
<1>14. \A s \in Requests : inbox'[s] \in Seq(Items)
  <2> SUFFICES ASSUME NEW s \in Requests PROVE inbox'[s] \in Seq(Items) OBVIOUS
  <2>1. CASE s = n BY <1>6, <1>11, <2>1
  <2>2. CASE s # n BY <1>11, <2>2 DEF FlowSound
  <2> QED BY <2>1, <2>2
<1> QED BY <1>2, <1>4, <1>6, <1>9, <1>11, <1>13, <1>14

(* RESET_STREAM: the stream is gone, with what it had parked.              *)
LEMMA SelectResetKeeps ==
  ASSUME DriverIInv, Pc = "select", NEW n \in Requests, n = call.n, inbox[n] # <<>>,
         inbox' = [inbox EXCEPT ![n] = Tail(@)],
         Store([Reset(h3, n) EXCEPT !.events = IF h3.error THEN @ ELSE <<>>]),
         call' = [call EXCEPT !.result = "error"], GoFlush(App, "return"),
         scope' = scope /\ conn' = conn /\ opened' = opened /\ sent' = sent
           /\ permit' = permit /\ chan' = chan /\ results' = results /\ msg' = msg /\ out' = out
  PROVE  DriverIInv'
<1>1. Types /\ RoundsSound /\ CallSound /\ ParkedSound /\ EventsSound /\ FlowSound
  BY DEF DriverIInv
<1>2. h3 \in States /\ call \in Calls BY <1>1 DEF Types
<1>3. Place(App) = Pc BY <1>1, AppHere
<1>4. h3.events = <<>> BY <1>1, <1>3 DEF EventsSound
<1>5. PICK none \in Seq(Events) : none = <<>> BY EmptySeq
<1>6. Reset(h3, n).events = h3.events BY <1>2 DEF Reset, States
<1>7. (IF h3.error THEN Reset(h3, n).events ELSE <<>>) = none BY <1>4, <1>5, <1>6
<1>8. PICK g : g = [Reset(h3, n) EXCEPT !.events = none] OBVIOUS
<1>9. Store(g) BY <1>7, <1>8
<1>10. /\ g \in States /\ Rest(g, h3) /\ Adds(g, h3)
       /\ Parks(g, h3, n, <<>>) /\ g.events = none
  <2>1. none \in Seq(Events) BY <1>5
  <2> QED BY <1>2, <1>8, <2>1, ResetFacts
<1>11. h3' = g BY <1>9 DEF Store
<1>12. /\ inbox' \in [Uni \cup Requests -> Seq(Items \cup UniItems)]
       /\ \A s \in Uni \cup Requests : s # n => inbox'[s] = inbox[s]
       /\ \A u \in Uni : inbox'[u] = inbox[u]
       /\ \A s \in Requests : inbox'[s] \in Seq(Items)
  BY <1>1, OwnItemTaken
<1>13. call' \in Calls /\ call'.n = call.n /\ call'.result = "error" BY <1>2, FailedCall
<1>14. PICK p \in AppPlaces : p = "return" BY DEF AppPlaces
<1>15. ASSUME Place(App)' = p PROVE ParkedSound' /\ EventsSound' /\ FlowSound'
  <2>1. \A m \in Requests : g.parked[m] # <<>> => m # n /\ h3.parked[m] # <<>>
    BY <1>10 DEF Parks
  <2>2. \A m \in Requests : g.parked[m] # <<>> => h3.error BY <1>1, <2>1 DEF ParkedSound
  <2>3. ParkedSound'
    BY <1>1, <1>10, <1>11, <1>13, <1>14, <1>15, <2>1, <2>2 DEF ParkedSound, Rest, Before
  <2>4. Len(g.events) = 0 BY <1>5, <1>10, EmptySeq
  <2>5. EventsSound' BY <1>5, <1>10, <1>11, <2>4 DEF EventsSound
  <2>6. Place(App)' \notin Before BY <1>14, <1>15 DEF Before
  <2>7. n \in Nat BY DEF Requests
  <2>8. \A s \in Requests : inbox'[s] \in Seq(Items) /\ (s > call.n => inbox'[s] = inbox[s])
    BY <1>12, <2>7 DEF Requests
  <2>9. FlowSound' BY <1>1, <1>13, <2>6, <2>8, FlowEnds
  <2> QED BY <2>3, <2>5, <2>9
<1>16. GoFlush(App, p) /\ p \in Waiting \cup {"return"} /\ p \notin Waiting /\ p # "select"
       /\ Pc \in Waiting
  BY <1>14 DEF Waiting
<1>17. call'.result = "none" <=> p \in Waiting BY <1>13, <1>16
<1> QED BY <1>9, <1>10, <1>12, <1>13, <1>15, <1>16, <1>17, RoundKeeps

(* The connection refuses the item: the call ends, nothing is parked.      *)
LEMMA SelectRefusedKeeps ==
  ASSUME DriverIInv, Pc = "select", NEW n \in Requests, n = call.n, inbox[n] # <<>>,
         inbox' = [inbox EXCEPT ![n] = Tail(@)],
         h3.error \/ ~IsParked(h3, n), Fail, h3' = h3, made' = made,
         scope' = scope /\ conn' = conn /\ opened' = opened /\ sent' = sent
           /\ permit' = permit /\ chan' = chan /\ results' = results /\ msg' = msg /\ out' = out
  PROVE  DriverIInv'
<1>1. Types /\ RoundsSound /\ CallSound /\ ParkedSound /\ EventsSound /\ FlowSound
  BY DEF DriverIInv
<1>2. h3 \in States /\ call \in Calls BY <1>1 DEF Types
<1>3. Rest(h3, h3) /\ Adds(h3, h3) BY <1>2, AddsNothing DEF Rest
<1>4. /\ inbox' \in [Uni \cup Requests -> Seq(Items \cup UniItems)]
      /\ \A s \in Uni \cup Requests : s # n => inbox'[s] = inbox[s]
      /\ \A u \in Uni : inbox'[u] = inbox[u]
      /\ \A s \in Requests : inbox'[s] \in Seq(Items)
  BY <1>1, OwnItemTaken
<1>5. call' = [call EXCEPT !.result = "error"] /\ Goto(App, "return") BY Zenon DEF Fail
<1>6. call' \in Calls /\ call'.n = call.n /\ call'.result = "error" BY <1>2, <1>5, FailedCall
<1>7. PICK p \in AppPlaces : p = "return" BY DEF AppPlaces
<1>8. ASSUME Place(App)' = p PROVE ParkedSound' /\ EventsSound' /\ FlowSound'
  <2>1. \A m \in Requests : h3.parked[m] # <<>> => h3.error BY <1>1 DEF ParkedSound, IsParked
  <2>2. ParkedSound' BY <1>1, <1>6, <1>7, <1>8, <2>1 DEF ParkedSound, Before
  <2>3. EventsSound' BY <1>1, <1>6, <1>7, <1>8 DEF EventsSound
  <2>4. Place(App)' \notin Before BY <1>7, <1>8 DEF Before
  <2>5. n \in Nat BY DEF Requests
  <2>6. \A s \in Requests : inbox'[s] \in Seq(Items) /\ (s > call.n => inbox'[s] = inbox[s])
    BY <1>4, <2>5 DEF Requests
  <2>7. FlowSound' BY <1>1, <1>6, <2>4, <2>6, FlowEnds
  <2> QED BY <2>2, <2>3, <2>7
<1>9. Goto(App, p) /\ p \in Waiting \cup {"return"} /\ p \notin Waiting /\ p # "select"
       /\ Pc \in Waiting
  BY <1>5, <1>7 DEF Waiting
<1>10. call'.result = "none" <=> p \in Waiting BY <1>6, <1>9
<1> QED BY <1>2, <1>3, <1>4, <1>6, <1>8, <1>9, <1>10, RoundKeeps

WithFin(c, b) == [c EXCEPT !.fin = b]

LEMMA WithFinFacts ==
  ASSUME NEW c \in Calls, NEW b \in BOOLEAN, NEW d, d = WithFin(c, b)
  PROVE  d \in Calls /\ d.n = c.n /\ d.got = c.got /\ d.fin = b /\ d.result = c.result
BY DEF WithFin, Calls

(* The first item of what remains goes to what has been seen.              *)
LEMMA MovesOn ==
  ASSUME NEW all, NEW q \in Seq(Kinds), NEW k \in Kinds, NEW r \in Seq(Kinds),
         all = q \o (<<k>> \o r)
  PROVE  all = Append(q, k) \o r
<1>1. PICK one \in Seq(Kinds) : one = <<k>>
  <2>1. PICK none \in Seq(Kinds) : none = <<>> BY EmptySeq
  <2>2. Append(none, k) \in Seq(Kinds) BY <2>1, AppendProperties
  <2>3. Append(none, k) = <<k>> BY <2>1
  <2> QED BY <2>2, <2>3
<1>2. (q \o one) \o r = q \o (one \o r)
  <2>1. one \in Seq(Kinds) BY <1>1
  <2> QED BY <2>1, KindsRegroup
<1>3. Append(q, k) = q \o <<k>> BY AppendIsConcat
<1> QED BY <1>1, <1>2, <1>3

(* The connection takes the item: it is read or parked behind what is parked. *)
LEMMA SelectFeedKeeps ==
  ASSUME DriverIInv, Pc = "select", conn = "up", NEW n \in Requests, n = call.n,
         inbox[n] # <<>>, inbox' = [inbox EXCEPT ![n] = Tail(@)],
         ~h3.error, NEW item \in Kept, item.k = Head(inbox[n]).k,
         NEW g, g = Feed(h3, n, item), Store(g),
         NEW b \in BOOLEAN, call' = WithFin(call, b), GoFlush(App, "drain"),
         scope' = scope /\ conn' = conn /\ opened' = opened /\ sent' = sent
           /\ permit' = permit /\ chan' = chan /\ results' = results /\ msg' = msg /\ out' = out
  PROVE  DriverIInv'
<1>1. Types /\ RoundsSound /\ CallSound /\ ParkedSound /\ EventsSound /\ FlowSound
  BY DEF DriverIInv
<1>2. h3 \in States /\ call \in Calls BY <1>1 DEF Types
<1>3. Place(App) = Pc BY <1>1, AppHere
<1>4. h3.events = <<>> BY <1>1, <1>3 DEF EventsSound
<1>5. call.n > 0 /\ call.result = "none" BY <1>1, <1>3 DEF CallSound, Waiting
<1>6. /\ g \in States /\ Rest(g, h3) /\ Adds(g, h3)
      /\ \A m \in Requests : m # n => g.parked[m] = h3.parked[m]
  <2>1. h3 \in States BY <1>2
  <2>2. /\ g \in States /\ Rest(g, h3) /\ Adds(g, h3)
        /\ \/ Parks(g, h3, n, Append(h3.parked[n], item))
           \/ g.parked = h3.parked
    BY <2>1, FeedFacts
  <2> QED BY <2>2 DEF Parks
<1>7. h3' = g BY DEF Store
<1>8. /\ Head(inbox[n]) \in Items /\ Tail(inbox[n]) \in Seq(Items)
      /\ KindsOf(inbox[n]) = <<Head(inbox[n]).k>> \o KindsOf(Tail(inbox[n]))
      /\ inbox' \in [Uni \cup Requests -> Seq(Items \cup UniItems)]
      /\ inbox'[n] = Tail(inbox[n])
      /\ \A s \in Uni \cup Requests : s # n => inbox'[s] = inbox[s]
      /\ \A u \in Uni : inbox'[u] = inbox[u]
      /\ \A s \in Requests : inbox'[s] \in Seq(Items)
  BY <1>1, OwnItemTaken
<1>9. /\ call' \in Calls /\ call'.n = call.n /\ call'.got = call.got
      /\ call'.result = call.result
  BY <1>2, WithFinFacts
<1>10. PICK p \in AppPlaces : p = "drain" BY DEF AppPlaces
<1>11. /\ Seen \in Seq(Kinds) /\ item.k \in Kinds
       /\ SeenIn(g) = Append(Seen, item.k)
       /\ \A i \in 1 .. Len(g.events) : g.events[i].n = call.n
  BY <1>1, <1>4, FeedGrows
<1>12. Seen' = SeenIn(g)
  <2>1. EventsOf(h3, call.n)' = EventsOf(h3', call'.n) BY DEF EventsOf
  <2>2. EventsOf(h3', call'.n) = EventsOf(g, call.n) BY <1>7, <1>9
  <2> QED BY <1>7, <1>9, <2>1, <2>2 DEF Seen, SeenIn
<1>13. KindsOf(msg[call.n]) = Append(Seen, item.k) \o KindsOf(inbox'[n])
  <2>1. KindsOf(msg[call.n]) = Seen \o KindsOf(inbox[n]) BY <1>1, <1>5 DEF FlowSound
  <2>2. PICK r \in Seq(Kinds) : r = KindsOf(inbox'[n]) BY <1>8, KindsOfProperties
  <2>3. PICK k \in Kinds : k = item.k BY <1>11
  <2>4. KindsOf(inbox[n]) = <<k>> \o r BY <1>8, <2>2, <2>3
  <2>5. PICK q \in Seq(Kinds) : q = Seen BY <1>11
  <2>6. KindsOf(msg[call.n]) = q \o (<<k>> \o r) BY <2>1, <2>4, <2>5
  <2>7. q \in Seq(Kinds) /\ k \in Kinds /\ r \in Seq(Kinds) BY <2>2, <2>3, <2>5
  <2>8. KindsOf(msg[call.n]) = Append(q, k) \o r BY <2>6, <2>7, MovesOn
  <2> QED BY <2>2, <2>3, <2>5, <2>8
<1>14. KindsOf(inbox'[n]) \in Seq(Kinds) BY <1>8, KindsOfProperties
<1>15. ASSUME Place(App)' = p PROVE ParkedSound' /\ EventsSound' /\ FlowSound'
  <2>1. Place(App)' \notin Before \cup {"select"} BY <1>10, <1>15 DEF Before
  <2>2. \A m \in Requests : m # n => g.parked[m] = <<>> BY <1>1, <1>6 DEF ParkedSound
  <2>3. ParkedSound'
    <3>1. \A m \in Requests : h3'.parked[m] # <<>> => m = call'.n BY <1>7, <1>9, <2>2
    <3>2. call'.result = "none" /\ call'.n \in Nat BY <1>5, <1>9 DEF Requests
    <3> QED BY <2>1, <3>1, <3>2 DEF ParkedSound, Requests
  <2>4. EventsSound'
    <3>1. \A i \in 1 .. Len(h3'.events) : h3'.events[i].n = call'.n BY <1>7, <1>9, <1>11
    <3>2. call'.n \in Nat BY <1>9 DEF Requests
    <3>3. \A i \in 1 .. Len(h3'.events) : h3'.events[i].n <= call'.n BY <3>1, <3>2
    <3> QED BY <2>1, <3>1, <3>3 DEF EventsSound
  <2>5. \A m \in Requests : (Ended(m)' <=> Ended(m)) /\ (Shaped(m)' <=> Shaped(m)) BY NotFinished
  <2>6. \E rest \in Seq(Kinds) :
           /\ KindsOf(msg'[call'.n]) = Seen' \o rest
           /\ conn' = "up" => rest = KindsOf(inbox'[call'.n])
    BY <1>9, <1>11, <1>12, <1>13, <1>14
  <2>7. \A m \in Requests : m > call'.n => m # n BY <1>9 DEF Requests
  <2>8. \A m \in Requests :
           /\ m > call'.n /\ conn' = "up" => inbox'[m] = msg'[m]
           /\ m > opened' => msg'[m] = <<>>
           /\ Shaped(m)' /\ inbox'[m] \in Seq(Items)
    BY <1>1, <1>8, <1>9, <2>5, <2>7 DEF FlowSound
  <2>9. \A m \in Requests :
           results'[m].result = "ok" => KindsOf(msg'[m]) = results'[m].got /\ Ended(m)'
    BY <1>1, <2>5 DEF FlowSound
  <2>10. FlowSound' BY <1>5, <1>9, <2>1, <2>6, <2>8, <2>9 DEF FlowSound
  <2> QED BY <2>3, <2>4, <2>10
<1>16. GoFlush(App, p) /\ p \in Waiting \cup {"return"} /\ p \in Waiting /\ p # "select"
       /\ Pc \in Waiting
  BY <1>10 DEF Waiting
<1>17. call'.result = "none" <=> p \in Waiting BY <1>5, <1>9, <1>16
<1> QED BY <1>6, <1>8, <1>9, <1>15, <1>16, <1>17, RoundKeeps

LEMMA SelectReceiveKeeps ==
  ASSUME DriverIInv, SelectReceive
  PROVE  DriverIInv'
<1>1. Types /\ RoundsSound /\ CallSound /\ ParkedSound /\ EventsSound /\ FlowSound
  BY DEF DriverIInv
<1>2. /\ Pc = "select" /\ conn = "up" /\ inbox[call.n] # <<>>
      /\ inbox' = [inbox EXCEPT ![call.n] = Tail(@)]
      /\ scope' = scope /\ conn' = conn /\ opened' = opened /\ sent' = sent
      /\ permit' = permit /\ chan' = chan /\ results' = results /\ msg' = msg /\ out' = out
  BY Zenon DEF SelectReceive
<1>3. Place(App) = Pc /\ ~h3.poisoned BY <1>1, <1>2, AppHere
<1>4. call.n > 0 BY <1>1, <1>2, <1>3 DEF CallSound, Waiting
<1>5. PICK n \in Requests : n = call.n BY <1>1, <1>4, CallNumber
<1>6. PICK item \in Items : item = Head(inbox[n]) BY <1>1, <1>2, <1>5, OwnItemTaken
<1>7. n = call.n /\ inbox[n] # <<>> /\ inbox' = [inbox EXCEPT ![n] = Tail(@)] BY <1>2, <1>5
<1>8. CASE item.k = "reset"
  <2>1. /\ Store([Reset(h3, n) EXCEPT !.events = IF h3.error THEN @ ELSE <<>>])
        /\ call' = [call EXCEPT !.result = "error"] /\ GoFlush(App, "return")
    BY <1>3, <1>5, <1>6, <1>8, Zenon DEF SelectReceive
  <2> QED BY <1>2, <1>7, <2>1, SelectResetKeeps
<1>9. CASE item.k # "reset" /\ FeedFails(h3, n, item)
  <2>1. Fail /\ h3' = h3 /\ made' = made
    BY <1>3, <1>5, <1>6, <1>9, Zenon DEF SelectReceive
  <2>2. h3.error \/ ~IsParked(h3, n) BY <1>9 DEF FeedFails
  <2> QED BY <1>2, <1>7, <2>1, <2>2, SelectRefusedKeeps
<1>10. CASE item.k # "reset" /\ ~FeedFails(h3, n, item)
  <2>1. item \in Kept BY <1>10, KeptAreItems
  <2>2. PICK b \in BOOLEAN : b = (item.k = "fin") OBVIOUS
  <2>3. /\ Store(FeedStreamOnly(h3, n, item)) /\ call' = [call EXCEPT !.fin = item.k = "fin"]
        /\ GoFlush(App, "drain")
    BY <1>3, <1>5, <1>6, <1>10, Zenon DEF SelectReceive
  <2>4. PICK g : g = Feed(h3, n, item) OBVIOUS
  <2>5. Store(g) BY <2>3, <2>4 DEF FeedStreamOnly
  <2>6. call' = WithFin(call, b) /\ b \in BOOLEAN BY <2>2, <2>3 DEF WithFin
  <2>7. ~h3.error BY <1>10 DEF FeedFails
  <2>8. item.k = Head(inbox[n]).k BY <1>6
  <2>9. GoFlush(App, "drain") BY <2>3
  <2> QED BY <1>2, <1>7, <2>1, <2>4, <2>5, <2>6, <2>7, <2>8, <2>9, SelectFeedKeeps
<1> QED BY <1>8, <1>9, <1>10

-----------------------------------------------------------------------------
(* The invariant, and what follows from it.                                *)

LEMMA InitSound ==
  ASSUME Init
  PROVE  DriverIInv
<1>1. /\ scope \in Scopes /\ conn = "up" /\ inbox = [s \in Uni \cup Requests |-> <<>>]
      /\ opened = 0 /\ sent = {}
      /\ permit = FALSE /\ chan = <<>> /\ call = NewCall(0)
      /\ results = [n \in Requests |-> NewCall(n)]
      /\ msg = [n \in Requests |-> <<>>]
      /\ made = [x \in Instructions |-> 0] /\ out = [x \in Instructions |-> 0]
  BY DEF Init
<1>2. h3 = [inserts |-> 0, next |-> 1, parked |-> [n \in Requests |-> <<>>],
            events |-> <<>>, pend |-> <<>>, error |-> FALSE, poisoned |-> FALSE]
  BY DEF Init
<1>3. task = [t \in Tasks |-> [pc |-> IF t = App THEN "idle" ELSE "receive",
                               items |-> <<>>, then |-> "none"]]
  BY DEF Init
<1>4. MaxRequests \in Nat /\ MaxInserts \in Nat BY DriverAssumption
<1>5. h3 \in States
  <2>1. PICK q : q = [n \in Requests |-> <<>>] OBVIOUS
  <2>2. q \in [Requests -> Seq(Kept)] BY <2>1
  <2> QED BY <1>2, <2>1, <2>2 DEF States
<1>6. /\ h3.inserts = 0 /\ h3.next = 1 /\ h3.events = <<>> /\ h3.pend = <<>>
      /\ h3.error = FALSE /\ h3.poisoned = FALSE
      /\ \A n \in Requests : h3.parked[n] = <<>>
  BY <1>2
<1>7. /\ call \in Calls /\ call.n = 0 /\ call.got = <<>> /\ call.result = "none"
  <2>1. <<>> \in Seq(Kinds) BY EmptySeq
  <2>2. 0 \in 0 .. MaxRequests BY <1>4
  <2> QED BY <1>1, <2>1, <2>2 DEF NewCall, Calls
<1>8. results \in [Requests -> Calls] /\ \A n \in Requests : results[n].result = "none"
  <2>1. <<>> \in Seq(Kinds) BY EmptySeq
  <2>2. \A n \in Requests : NewCall(n) \in Calls /\ NewCall(n).result = "none"
    BY <1>4, <2>1 DEF NewCall, Calls, Requests
  <2> QED BY <1>1, <2>2
<1>9. /\ task \in [Tasks -> Rounds]
      /\ task[App].pc = "idle" /\ \A u \in Uni : task[u].pc = "receive"
      /\ \A t \in Tasks : task[t].items = <<>>
  <2>1. <<>> \in Seq(Instructions) BY EmptySeq
  <2>2. \A t \in Tasks : task[t] = [pc |-> IF t = App THEN "idle" ELSE "receive",
                                    items |-> <<>>, then |-> "none"]
    BY <1>3
  <2>3. \A t \in Tasks : task[t] \in Rounds /\ task[t].items = <<>>
    <3> SUFFICES ASSUME NEW t \in Tasks PROVE task[t] \in Rounds /\ task[t].items = <<>>
      OBVIOUS
    <3>1. PICK p \in {"idle", "receive"} : p = IF t = App THEN "idle" ELSE "receive" OBVIOUS
    <3>2. task[t] = [pc |-> p, items |-> <<>>, then |-> "none"] BY <2>2, <3>1
    <3>3. p \in Places BY DEF Places
    <3> QED BY <2>1, <3>2, <3>3 DEF Rounds
  <2> QED BY <1>3, <2>2, <2>3, TasksDiffer
<1>10. Place(App) = "idle" BY <1>9 DEF Place
<1>11. made \in Ticks /\ out \in Ticks BY <1>1 DEF Ticks
<1>12. Types
  <2>1. inbox \in [Uni \cup Requests -> Seq(Items \cup UniItems)] BY <1>1
  <2>2. msg \in [Requests -> Seq(Items)] BY <1>1
  <2>3. chan \in Seq(Instructions) BY <1>1, EmptySeq
  <2>4. /\ scope \in Scopes /\ conn \in {"up", "lost"} /\ opened \in 0 .. MaxRequests
        /\ sent \subseteq Requests /\ permit \in BOOLEAN
    <3>1. scope \in Scopes /\ conn = "up" /\ opened = 0 /\ sent = {} /\ permit = FALSE
      BY Zenon DEF Init
    <3>2. conn \in {"up", "lost"} BY <3>1, Zenon
    <3>3. 0 \in 0 .. MaxRequests BY <1>4
    <3>4. opened \in 0 .. MaxRequests BY <3>1, <3>3, Zenon
    <3>5. sent \subseteq Requests /\ permit \in BOOLEAN BY <3>1, Zenon
    <3> QED BY <3>1, <3>2, <3>4, <3>5, Zenon
  <2> QED BY <1>5, <1>7, <1>8, <1>9, <1>11, <2>1, <2>2, <2>3, <2>4, Zenon DEF Types
<1>13. RoundsSound BY <1>6, <1>9, <1>10 DEF RoundsSound, AppPlaces
<1>14. CallSound BY <1>1, <1>7, <1>8, <1>10 DEF CallSound, Before, Waiting
<1>15. ParkedSound BY <1>6 DEF ParkedSound
<1>16. EventsSound
  <2>1. Len(h3.events) = 0 BY <1>6, EmptySeq
  <2> QED BY <1>6, <2>1 DEF EventsSound
<1>17. FlowSound
  <2>1. \A n \in Requests : msg[n] = <<>> /\ inbox[n] = <<>> BY <1>1
  <2>2. \A n \in Requests : Len(msg[n]) = 0 /\ inbox[n] \in Seq(Items) BY <2>1, EmptySeq
  <2>3. \A n \in Requests : Shaped(n) BY <2>2 DEF Shaped
  <2> QED BY <1>7, <1>8, <1>10, <2>1, <2>2, <2>3 DEF FlowSound, Before
<1>18. InsertsSound
  <2>1. \A u \in Uni : inbox[u] = <<>> BY <1>1
  <2>2. inbox[Encoder] = <<>> /\ inbox[Control] = <<>> BY <2>1, TasksDiffer
  <2>3. InsertsIn(inbox[Encoder]) = 0
    <3>1. {i \in DOMAIN inbox[Encoder] : inbox[Encoder][i].k = "insert"} = {} BY <2>2
    <3> QED BY <3>1, FS_EmptySet DEF InsertsIn
  <2>4. \A u \in Uni : inbox[u] \in Seq(UniItems) BY <2>1, EmptySeq
  <2>5. Len(inbox[Control]) = 0 BY <2>2, EmptySeq
  <2> QED BY <1>4, <1>6, <2>3, <2>4, <2>5 DEF InsertsSound
<1>19. Conserved
  <2> SUFFICES ASSUME NEW x \in Instructions PROVE made[x] = out[x] + Held(x) BY DEF Conserved
  <2>1. made[x] = 0 /\ out[x] = 0 BY <1>1
  <2>2. Count(chan, x) = 0 /\ Count(h3.pend, x) = 0 BY <1>1, <1>6, CountNone
  <2>3. \A t \in Tasks : Count(task[t].items, x) = 0 BY <1>9, CountNone
  <2> QED BY <2>1, <2>2, <2>3, TasksDiffer DEF Held
<1>20. IdsSound BY <1>1, <1>6, <1>10 DEF IdsSound
<1>21. Awake BY <1>10 DEF Awake
<1> QED BY <1>12, <1>13, <1>14, <1>15, <1>16, <1>17, <1>18, <1>19, <1>20, <1>21 DEF DriverIInv

LEMMA StutterKeeps ==
  ASSUME DriverIInv, UNCHANGED vars
  PROVE  DriverIInv'
<1>1. /\ scope' = scope /\ conn' = conn /\ inbox' = inbox /\ opened' = opened /\ sent' = sent
      /\ h3' = h3 /\ task' = task /\ permit' = permit /\ chan' = chan /\ call' = call
      /\ results' = results /\ msg' = msg /\ made' = made /\ out' = out
  BY Zenon DEF vars
<1>2. /\ Types /\ RoundsSound /\ CallSound /\ ParkedSound /\ EventsSound /\ FlowSound
      /\ InsertsSound /\ Conserved /\ IdsSound /\ Awake
  BY DEF DriverIInv
<1>3. Place(App)' = Place(App) BY <1>1 DEF Place
<1>4. Types' BY <1>1, <1>2 DEF Types
<1>5. RoundsSound' BY <1>1, <1>2, <1>3 DEF RoundsSound
<1>6. Quiet BY <1>1, <1>3 DEF Quiet
<1>7. CallSound' /\ ParkedSound' /\ EventsSound' /\ FlowSound' /\ IdsSound'
  BY <1>2, <1>6, QuietKeeps
<1>8. InsertsSound' BY <1>1, <1>2, SameInserts
<1>9. Conserved' BY <1>1, <1>2, SameConserved
<1>10. Awake' BY <1>1, <1>2, <1>3 DEF Awake, Readable, IsParked
<1> QED BY <1>4, <1>5, <1>7, <1>8, <1>9, <1>10 DEF DriverIInv

LEMMA NextSound ==
  ASSUME DriverIInv, [Next]_vars
  PROVE  DriverIInv'
<1>1. CASE AppStep
  <2>1. CASE OpenStream BY <2>1, OpenStreamKeeps
  <2>2. CASE Encode BY <2>2, EncodeKeeps
  <2>3. CASE Transmit BY <2>3, TransmitKeeps
  <2>4. CASE AcceptStream BY <2>4, AcceptStreamKeeps
  <2>5. CASE DrainEvents BY <2>5, DrainEventsKeeps
  <2>6. CASE SelectReceive BY <2>6, SelectReceiveKeeps
  <2>7. CASE SelectLost BY <2>7, SelectLostKeeps
  <2>8. CASE SelectNotified BY <2>8, SelectNotifiedKeeps
  <2>9. CASE Return BY <2>9, ReturnKeeps
  <2>10. CASE Respond BY <2>10, RespondKeeps
  <2>11. CASE Reply BY <2>11, ReplyKeeps
  <2>12. CASE FlushDrain(App) BY <2>12, TasksDiffer, FlushDrainKeeps
  <2>13. CASE FlushSend(App) BY <2>13, TasksDiffer, FlushSendKeeps
  <2> QED BY <1>1, <2>1, <2>2, <2>3, <2>4, <2>5, <2>6, <2>7, <2>8, <2>9, <2>10, <2>11, <2>12,
          <2>13, Zenon DEF AppStep
<1>2. ASSUME NEW u \in Uni, UniStep(u) PROVE DriverIInv'
  <2>1. u \in Tasks BY TasksDiffer
  <2>2. CASE UniReceive(u) BY <2>2, UniReceiveKeeps
  <2>3. CASE UniNotify(u) BY <2>3, UniNotifyKeeps
  <2>4. CASE FlushDrain(u) BY <2>1, <2>4, FlushDrainKeeps
  <2>5. CASE FlushSend(u) BY <2>1, <2>5, FlushSendKeeps
  <2> QED BY <1>2, <2>2, <2>3, <2>4, <2>5, Zenon DEF UniStep
<1>3. CASE QpackWrite BY <1>3, QpackWriteKeeps
<1>4. CASE PeerOpens BY <1>4, PeerOpensKeeps
<1>5. ASSUME NEW n \in Requests, PeerSends(n) \/ PeerResets(n) PROVE DriverIInv'
  BY <1>5, PeerKeeps
<1>6. CASE InsertArrives \/ SettingsArrive \/ \E u \in Uni : CriticalCloses(u)
  BY <1>6, ArrivalsKeep
<1>7. CASE ConnectionLost BY <1>7, ConnectionLostKeeps
<1>8. CASE UNCHANGED vars BY <1>8, StutterKeeps
<1> QED BY <1>1, <1>2, <1>3, <1>4, <1>5, <1>6, <1>7, <1>8, Zenon DEF Next

(* The invariant contains each of the parts of NothingLost.                *)
LEMMA TypesHold ==
  ASSUME DriverIInv
  PROVE  TypeOK
<1>1. Types /\ RoundsSound /\ CallSound /\ ParkedSound /\ InsertsSound BY DEF DriverIInv
<1>2. MaxRequests \in Nat /\ MaxInserts \in Nat BY DriverAssumption
<1>3. conn \in {"up", "lost"} /\ opened \in 0 .. MaxRequests /\ sent \subseteq Requests
  BY <1>1 DEF Types
<1>4. h3.inserts \in 0 .. MaxInserts /\ h3.next \in Nat
  <2>1. h3.inserts \in Nat /\ h3.next \in Nat BY <1>1 DEF Types, States
  <2>2. inbox[Encoder] \in Seq(UniItems) BY <1>1 DEF InsertsSound, Uni
  <2>3. PICK c \in Nat : c = InsertsIn(inbox[Encoder]) BY <2>2, InsertsAreCounted
  <2>4. h3.inserts + c <= MaxInserts BY <1>1, <2>3 DEF InsertsSound
  <2> QED BY <1>2, <2>1, <2>4
<1>5. Cardinality(Readable(h3)) <= 1
  <2>1. \A m, n \in Readable(h3) : m = n BY <1>1 DEF ParkedSound, Readable, IsParked
  <2>2. CASE Readable(h3) = {} BY <2>2, FS_EmptySet
  <2>3. CASE Readable(h3) # {}
    <3>1. PICK n : n \in Readable(h3) BY <2>3
    <3>2. Readable(h3) = {n} BY <2>1, <3>1
    <3>3. Cardinality({n}) = 1 BY FS_Singleton
    <3> QED BY <3>2, <3>3
  <2> QED BY <2>2, <2>3
<1>6. \A t \in Tasks : task[t].pc \in Places \cup {"flush", "send"} BY <1>1 DEF Types, Rounds
<1>7. call.n \in 0 .. opened /\ call.result \in {"none", "ok", "error"}
  <2>1. call.n \in 0 .. MaxRequests /\ call.result \in {"none", "ok", "error"}
    BY <1>1 DEF Types, Calls
  <2>2. call.n <= opened BY <1>1 DEF CallSound
  <2> QED BY <1>2, <1>3, <2>1, <2>2
<1> QED BY <1>3, <1>4, <1>5, <1>6, <1>7 DEF TypeOK, Places

LEMMA ResponsesHold ==
  ASSUME DriverIInv
  PROVE  ResponsesExact
<1>1. Types /\ FlowSound BY DEF DriverIInv
<1> SUFFICES ASSUME NEW n \in Requests, results[n].result = "ok"
             PROVE  /\ Len(results[n].got) = Len(msg[n])
                    /\ \A i \in DOMAIN msg[n] : results[n].got[i] = msg[n][i].k
  BY Zenon DEF ResponsesExact
<1>2. KindsOf(msg[n]) = results[n].got BY <1>1 DEF FlowSound
<1>3. PICK q \in Seq(Items) : q = msg[n] BY <1>1 DEF Types
<1>4. /\ Len(KindsOf(q)) = Len(q) /\ \A i \in 1 .. Len(q) : KindsOf(q)[i] = q[i].k
      /\ DOMAIN q = 1 .. Len(q)
  BY KindsOfProperties, LenProperties
<1> QED BY <1>2, <1>3, <1>4

LEMMA InstructionsHold ==
  ASSUME DriverIInv
  PROVE  InstructionsConserved
<1>1. Types /\ Conserved BY DEF DriverIInv
<1>2. PICK q \in Seq(Instructions) : q = chan BY <1>1 DEF Types
<1>3. PICK a \in Seq(Instructions) : a = task[App].items BY <1>1, TasksDiffer DEF Types, Rounds
<1>4. PICK c \in Seq(Instructions) : c = task[Control].items BY <1>1 DEF Types, Rounds, Tasks, Uni
<1>5. PICK e \in Seq(Instructions) : e = task[Encoder].items BY <1>1 DEF Types, Rounds, Tasks, Uni
<1>6. PICK p \in Seq(Instructions) : p = h3.pend BY <1>1 DEF Types, States
<1>7. ASSUME NEW x \in Instructions
      PROVE  made[x] = out[x] + Count(q \o a \o c \o e \o p, x)
  <2>1. PICK s \in Seq(Instructions) : s = q \o a BY ConcatProperties
  <2>2. PICK r \in Seq(Instructions) : r = s \o c BY ConcatProperties
  <2>3. PICK v \in Seq(Instructions) : v = r \o e BY ConcatProperties
  <2>4. Count(s, x) = Count(q, x) + Count(a, x) BY <2>1, CountConcat
  <2>5. Count(r, x) = Count(s, x) + Count(c, x)
    <3>1. s \in Seq(Instructions) BY <2>1
    <3> QED BY <2>2, <3>1, CountConcat
  <2>6. Count(v, x) = Count(r, x) + Count(e, x)
    <3>1. r \in Seq(Instructions) BY <2>2
    <3> QED BY <2>3, <3>1, CountConcat
  <2>7. Count(v \o p, x) = Count(v, x) + Count(p, x)
    <3>1. v \in Seq(Instructions) BY <2>3
    <3> QED BY <3>1, CountConcat
  <2>8. Count(v \o p, x) = Count(q, x) + Count(a, x) + Count(c, x) + Count(e, x) + Count(p, x)
    BY <2>4, <2>5, <2>6, <2>7
  <2>9. Held(x) = Count(q, x) + Count(a, x) + Count(c, x) + Count(e, x) + Count(p, x)
    BY <1>2, <1>3, <1>4, <1>5, <1>6 DEF Held
  <2>10. made[x] = out[x] + Held(x) BY <1>1 DEF Conserved
  <2>11. v = q \o a \o c \o e BY <2>1, <2>2, <2>3
  <2> QED BY <2>8, <2>9, <2>10, <2>11
<1> QED BY <1>2, <1>3, <1>4, <1>5, <1>6, <1>7, Zenon DEF InstructionsConserved

LEMMA WakeupsHold ==
  ASSUME DriverIInv
  PROVE  WakeupNotLost
<1>1. Types /\ EventsSound /\ Awake BY DEF DriverIInv
<1> SUFFICES ASSUME Pc = "select", ~permit, \A u \in Uni : task[u].pc \in {"receive", "done"}
             PROVE  Readable(h3) = {} /\ h3.events = <<>> /\ ~h3.error
  BY Zenon DEF WakeupNotLost
<1>2. Place(App) = "select" BY DEF Place, Pc
<1>3. h3.events = <<>> BY <1>1, <1>2 DEF EventsSound
<1>4. ~(Readable(h3) # {} \/ h3.error) BY <1>1, <1>2 DEF Awake
<1> QED BY <1>3, <1>4

(* Every reachable state satisfies the inductive invariant: whatever the   *)
(* order in which the tasks of the s2n-quic crate take the mutex, the call *)
(* in progress, the connection and QUIC hold the peer's message between    *)
(* them, and no more than it.                                              *)
THEOREM DriverInvariant == Spec => []DriverIInv
<1>1. Init => DriverIInv BY InitSound
<1>2. DriverIInv /\ [Next]_vars => DriverIInv' BY NextSound
<1> QED BY <1>1, <1>2, PTL DEF Spec

(* send_request and accept_request return Ok with the peer's whole message *)
(* and nothing else, flush_qpack neither loses nor repeats an instruction  *)
(* between the drain under the lock and the send outside it, and as long   *)
(* as no call has failed the id of the sans-I/O layer is that of QUIC, so  *)
(* the assertion of send_request holds: for any number of requests and any *)
(* interleaving of the tasks.                                              *)
THEOREM NothingEverLost == Spec => []NothingLost
<1>1. DriverIInv => AssertedIdsAgree
  BY Zenon DEF DriverIInv, IdsSound, NoCallFailed, AssertedIdsAgree
<1>2. DriverIInv => NothingLost
  BY <1>1, TypesHold, ResponsesHold, InstructionsHold, Zenon DEF NothingLost
<1> QED BY <1>2, DriverInvariant, PTL

(* A call that sleeps in select! without a permit of qpack_unblock_notify, *)
(* while no task of a stream of the peer has a round to finish, has        *)
(* nothing to wake up for: notify_one is never too early.                  *)
THEOREM WakeupsNeverLost == Spec => []WakeupNotLost
<1>1. DriverIInv => WakeupNotLost BY WakeupsHold
<1> QED BY <1>1, DriverInvariant, PTL
=============================================================================
