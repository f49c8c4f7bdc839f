------------------------ MODULE SessionCredit_proofs ------------------------
(***************************************************************************)
(* For every window, every amount and every limit on the number of         *)
(* streams: two ends of a session never find one another in breach of flow *)
(* control, a session ends once, and each pipe implements WtCredit.        *)
(***************************************************************************)
EXTENDS SessionCredit, SequenceTheorems, TLAPS

-----------------------------------------------------------------------------
(* The inductive invariant.                                                *)

Grid == [Ends -> [Kinds -> Nat]]
Tally == [Ends -> Nat]
Flags == [Ends -> BOOLEAN]
Nets == [way : Grid, lost : Grid, done : Grid, fault : Flags, due : Tally, taken : Tally,
         queued : Nat]

\* The capsules from the other end that e has not processed.
Inflight(e) == caps[e] \o ses[Peer(e)].pend

\* What an end sent was counted by its peer, is under way, buffered or rejected.
Conserved(e, k) ==
    ses[e].sent[k] = ses[Peer(e)].recv[k].received + net.way[Peer(e)][k]
                       + ses[Peer(e)].held[k] + net.lost[Peer(e)][k]

\* The receiver gives back what it is done with, and advertises no more than
\* its window on top of that.
ReceiverSound(e, k) ==
    LET f == ses[e].recv[k]
    IN  /\ f.window = Windows[k]
        /\ f.returned <= net.done[e][k] /\ net.done[e][k] <= f.received
        /\ f.advertised <= f.returned + f.window
        /\ k # "data" => f.advertised <= MaxStreamsLimit

\* The streams of an end: those it opened and those it was sent and is not done with.
StreamsCounted(e) ==
    ses[e].streams = ses[e].sent["uni"] + ses[e].sent["bidi"]
                       + (ses[e].recv["uni"].received - net.done[e]["uni"])
                       + (ses[e].recv["bidi"].received - net.done[e]["bidi"])

\* The sender's maximum is one the receiver has advertised.
SenderWithin(e, k) ==
    fc => /\ ses[e].sent[k] <= ses[e].remote[k]
          /\ ses[e].remote[k] <= ses[Peer(e)].recv[k].advertised

\* Every WT_MAX capsule under way raises the maximum the sender will have by
\* then, to one that the receiver has advertised; no capsule is out of bounds.
MaximaRise(q, remote, recv) ==
    /\ \A i \in 1 .. Len(q) :
          /\ q[i].type = "max" => /\ remote[q[i].kind] < q[i].maximum
                                  /\ q[i].maximum <= recv[q[i].kind].advertised
          /\ q[i].type = "blocked" /\ q[i].kind # "data" => q[i].maximum <= MaxStreamsLimit
    /\ \A i, j \in 1 .. Len(q) :
          i < j /\ q[i].type = "max" /\ q[j].type = "max" /\ q[i].kind = q[j].kind
             => q[i].maximum < q[j].maximum

\* A WT_CLOSE_SESSION is the last capsule of an end that has closed.
CloseEnds(q, closed) ==
    \A i \in 1 .. Len(q) : /\ q[i].type # "prohibited"
                           /\ q[i].type = "close" => i = Len(q) /\ closed

\* The streams of a closed session are to be reset or were handed out.
ResetsCounted(e) ==
    IF Closed(ses[e]) THEN ses[e].resets + net.taken[e] = net.due[e]
    ELSE ses[e].resets = 0 /\ net.taken[e] = 0

Types == AccountsAgree /\ net \in Nets

Accounts ==
    \A e \in Ends :
       /\ \A k \in Kinds : Conserved(e, k) /\ ReceiverSound(e, k) /\ SenderWithin(e, k)
       /\ StreamsCounted(e)

QueueSound(e) ==
    /\ fc => MaximaRise(Inflight(e), ses[e].remote, ses[Peer(e)].recv)
    /\ CloseEnds(Inflight(e), Closed(ses[Peer(e)]))

CreditInv ==
    /\ Types /\ Accounts
    /\ \A e \in Ends : QueueSound(e)
    /\ \A e \in Ends : ResetsCounted(e)

-----------------------------------------------------------------------------
(* The two ends, and the types of what they hold.                          *)

LEMMA TwoEnds ==
  ASSUME NEW e \in Ends
  PROVE  /\ Peer(e) \in Ends /\ Peer(e) # e /\ Peer(Peer(e)) = e
         /\ \A f \in Ends : f = e \/ f = Peer(e)
BY DEF Ends, Peer

LEMMA SessionTypes ==
  ASSUME NEW s \in Sessions
  PROVE  /\ s.remote \in [Kinds -> Nat] /\ s.sent \in [Kinds -> Nat]
         /\ s.blocked \in [Kinds -> Nat \cup {None}] /\ s.recv \in [Kinds -> FlowControl]
         /\ s.pend \in Seq(Capsules) /\ s.streams \in Nat /\ s.resets \in Nat
         /\ s.held \in [Kinds -> Nat]
         /\ \A k \in Kinds : /\ s.remote[k] \in Nat /\ s.sent[k] \in Nat
                              /\ s.recv[k] \in FlowControl /\ s.held[k] \in Nat
                              /\ s.recv[k].window \in Nat /\ s.recv[k].advertised \in Nat
                              /\ s.recv[k].returned \in Nat /\ s.recv[k].received \in Nat
BY DEF Sessions, FlowControl

LEMMA NetTypes ==
  ASSUME NEW n \in Nets, NEW e \in Ends
  PROVE  /\ n.due[e] \in Nat /\ n.taken[e] \in Nat
         /\ \A k \in Kinds : n.way[e][k] \in Nat /\ n.lost[e][k] \in Nat /\ n.done[e][k] \in Nat
BY DEF Nets, Grid, Tally

LEMMA TallyStep ==
  ASSUME NEW f \in Tally, NEW e \in Ends, NEW n \in Nat
  PROVE  /\ [f EXCEPT ![e] = n] \in Tally /\ [f EXCEPT ![e] = n][e] = n
         /\ [f EXCEPT ![e] = n][Peer(e)] = f[Peer(e)]
BY TwoEnds DEF Tally

LEMMA StateTypes ==
  ASSUME Types, NEW e \in Ends
  PROVE  /\ ses[e] \in Sessions /\ caps[e] \in Seq(Capsules)
         /\ ses \in [Ends -> Sessions] /\ caps \in [Ends -> Seq(Capsules)] /\ net \in Nets
BY DEF Types, AccountsAgree, TypeOK

(* The parts of a state type-check one by one.                             *)
LEMMA TypesStep ==
  ASSUME Types, NEW e \in Ends, NEW s \in Sessions, scope' = scope,
         ses' = [ses EXCEPT ![e] = s], caps' \in [Ends -> Seq(Capsules)], net' \in Nets,
         \A k \in {"uni", "bidi"} : s.recv[k].advertised <= MaxStreamsLimit,
         \A f \in Ends : ~net'.fault[f]
  PROVE  /\ Types' /\ ses'[e] = s /\ ses'[Peer(e)] = ses[Peer(e)]
<1>1. ses \in [Ends -> Sessions] /\ Peer(e) \in Ends /\ Peer(e) # e BY StateTypes, TwoEnds
<1>2. /\ ses' \in [Ends -> Sessions] /\ ses'[e] = s
      /\ \A f \in Ends : f # e => ses'[f] = ses[f] BY <1>1
<1>3. TypeOK'
  <2>1. \A f \in Ends, k \in {"uni", "bidi"} : ses[f].recv[k].advertised <= MaxStreamsLimit
    BY DEF Types, AccountsAgree, TypeOK
  <2>2. \A f \in Ends, k \in {"uni", "bidi"} : ses'[f].recv[k].advertised <= MaxStreamsLimit
    BY <2>1, <1>2
  <2> QED BY <1>2, <2>2 DEF Types, AccountsAgree, TypeOK
<1> QED BY <1>1, <1>2, <1>3 DEF Types, AccountsAgree, NoFalseFlowControlError

(* A step that moves no stream and no data leaves the accounts as they are.*)
LEMMA AccountsFrame ==
  ASSUME Accounts, scope' = scope,
         \A f \in Ends : /\ ses'[f].remote = ses[f].remote /\ ses'[f].sent = ses[f].sent
                         /\ ses'[f].recv = ses[f].recv /\ ses'[f].held = ses[f].held
                         /\ ses'[f].streams = ses[f].streams,
         net'.way = net.way, net'.lost = net.lost, net'.done = net.done
  PROVE  Accounts'
<1> SUFFICES ASSUME NEW f \in Ends
    PROVE  /\ \A k \in Kinds : Conserved(f, k)' /\ ReceiverSound(f, k)' /\ SenderWithin(f, k)'
           /\ StreamsCounted(f)'
  BY DEF Accounts
<1>1. Peer(f) \in Ends BY TwoEnds
<1>2. \A k \in Kinds : Conserved(f, k)' BY <1>1 DEF Accounts, Conserved
<1>3. \A k \in Kinds : ReceiverSound(f, k)' BY DEF Accounts, ReceiverSound
<1>4. \A k \in Kinds : SenderWithin(f, k)' BY <1>1 DEF Accounts, SenderWithin, fc
<1>5. StreamsCounted(f)' BY DEF Accounts, StreamsCounted
<1> QED BY <1>2, <1>3, <1>4, <1>5

(* How the queue of capsules to an end moves.                              *)
LEMMA QueueMoves ==
  ASSUME NEW c \in Seq(Capsules), NEW p \in Seq(Capsules)
  PROVE  /\ c \o p \in Seq(Capsules)
         /\ (c \o p) \o <<>> = c \o p
         /\ \A x \in Capsules : c \o Append(p, x) = Append(c \o p, x)
         /\ c # <<>> => /\ Tail(c) \o p = Tail(c \o p) /\ Head(c) = (c \o p)[1]
                        /\ c \o p # <<>> /\ Head(c) \in Capsules /\ Tail(c) \in Seq(Capsules)
<1>1. c \o p \in Seq(Capsules) /\ (c \o p) \o <<>> = c \o p OBVIOUS
<1>2. ASSUME NEW x \in Capsules PROVE c \o Append(p, x) = Append(c \o p, x) OBVIOUS
<1>3. ASSUME c # <<>>
      PROVE  /\ Tail(c) \o p = Tail(c \o p) /\ Head(c) = (c \o p)[1]
             /\ c \o p # <<>> /\ Head(c) \in Capsules /\ Tail(c) \in Seq(Capsules)
  BY <1>3
<1> QED BY <1>1, <1>2, <1>3

(* A capsule is queued behind the others.                                  *)
LEMMA QueueAppends ==
  ASSUME NEW q \in Seq(Capsules), NEW c \in Capsules
  PROVE  /\ Append(q, c) \in Seq(Capsules) /\ Len(Append(q, c)) = Len(q) + 1
         /\ \A i \in 1 .. Len(q) : Append(q, c)[i] = q[i] /\ q[i] \in Capsules
         /\ Append(q, c)[Len(q) + 1] = c /\ Len(q) \in Nat
OBVIOUS

LEMMA QueueTail ==
  ASSUME NEW q \in Seq(Capsules), q # <<>>
  PROVE  /\ Tail(q) \in Seq(Capsules) /\ Len(Tail(q)) = Len(q) - 1 /\ Len(q) \in Nat /\ 1 <= Len(q)
         /\ \A i \in 1 .. Len(Tail(q)) : /\ Tail(q)[i] = q[i + 1] /\ i + 1 \in 1 .. Len(q)
                                         /\ q[i + 1] \in Capsules
         /\ q[1] \in Capsules
OBVIOUS

LEMMA RiseAppend ==
  ASSUME NEW q \in Seq(Capsules), NEW c \in Capsules, NEW remote, NEW recv,
         MaximaRise(q, remote, recv),
         c.type = "max" => /\ remote[c.kind] < c.maximum /\ c.maximum <= recv[c.kind].advertised
                           /\ \A i \in 1 .. Len(q) : q[i].type = "max" /\ q[i].kind = c.kind
                                                       => q[i].maximum < c.maximum,
         c.type = "blocked" /\ c.kind # "data" => c.maximum <= MaxStreamsLimit
  PROVE  MaximaRise(Append(q, c), remote, recv)
<1> DEFINE r == Append(q, c)
<1>1. /\ r \in Seq(Capsules) /\ Len(r) = Len(q) + 1 /\ r[Len(q) + 1] = c /\ Len(q) \in Nat
      /\ \A i \in 1 .. Len(q) : r[i] = q[i] BY QueueAppends
<1>2. \A i \in 1 .. Len(r) : i \in 1 .. Len(q) \/ i = Len(q) + 1 BY <1>1
<1> HIDE DEF r
<1>3. ASSUME NEW i \in 1 .. Len(r)
      PROVE  /\ r[i].type = "max" => /\ remote[r[i].kind] < r[i].maximum
                                     /\ r[i].maximum <= recv[r[i].kind].advertised
             /\ r[i].type = "blocked" /\ r[i].kind # "data" => r[i].maximum <= MaxStreamsLimit
  <2>1. CASE i \in 1 .. Len(q) BY <1>1, <2>1 DEF MaximaRise
  <2>2. CASE i = Len(q) + 1 BY <1>1, <2>2
  <2> QED BY <1>2, <2>1, <2>2
<1>4. ASSUME NEW i \in 1 .. Len(r), NEW j \in 1 .. Len(r), i < j,
             r[i].type = "max", r[j].type = "max", r[i].kind = r[j].kind
      PROVE  r[i].maximum < r[j].maximum
  <2>1. CASE j \in 1 .. Len(q)
    <3>1. i \in 1 .. Len(q) BY <1>4, <2>1, <1>1
    <3> QED BY <1>1, <1>4, <2>1, <3>1 DEF MaximaRise
  <2>2. CASE j = Len(q) + 1
    <3>1. i \in 1 .. Len(q) BY <1>4, <2>2, <1>1
    <3> QED BY <1>1, <1>4, <2>2, <3>1
  <2> QED BY <1>2, <2>1, <2>2
<1> QED BY <1>3, <1>4 DEF MaximaRise, r

LEMMA RiseGrows ==
  ASSUME NEW q \in Seq(Capsules), NEW remote,
         NEW recv \in [Kinds -> FlowControl], NEW more \in [Kinds -> FlowControl],
         MaximaRise(q, remote, recv),
         \A k \in Kinds : recv[k].advertised <= more[k].advertised
  PROVE  MaximaRise(q, remote, more)
<1>1. ASSUME NEW i \in 1 .. Len(q), q[i].type = "max"
      PROVE  q[i].maximum <= more[q[i].kind].advertised
  <2>1. q[i] \in Capsules BY ElementOfSeq
  <2>2. q[i].kind \in Kinds /\ q[i].maximum \in Nat BY <2>1 DEF Capsules
  <2>3. q[i].maximum <= recv[q[i].kind].advertised BY <1>1 DEF MaximaRise
  <2>4. /\ recv[q[i].kind].advertised \in Nat /\ more[q[i].kind].advertised \in Nat
        /\ recv[q[i].kind].advertised <= more[q[i].kind].advertised BY <2>2 DEF FlowControl
  <2> QED BY <2>2, <2>3, <2>4
<1> QED BY <1>1 DEF MaximaRise

LEMMA RiseTail ==
  ASSUME NEW q \in Seq(Capsules), q # <<>>, NEW remote \in [Kinds -> Nat], NEW recv,
         MaximaRise(q, remote, recv), NEW after,
         after = IF q[1].type = "max" THEN [remote EXCEPT ![q[1].kind] = q[1].maximum] ELSE remote
  PROVE  MaximaRise(Tail(q), after, recv)
<1> DEFINE r == Tail(q)
<1>1. /\ Len(r) = Len(q) - 1 /\ Len(q) \in Nat /\ 1 <= Len(q) /\ q[1] \in Capsules
      /\ \A i \in 1 .. Len(r) : r[i] = q[i + 1] /\ i + 1 \in 1 .. Len(q) /\ r[i] \in Capsules
  BY QueueTail
<1>2. 1 \in 1 .. Len(q) BY <1>1
<1> HIDE DEF r
<1>3. ASSUME NEW i \in 1 .. Len(r)
      PROVE  /\ r[i].type = "max" => /\ after[r[i].kind] < r[i].maximum
                                     /\ r[i].maximum <= recv[r[i].kind].advertised
             /\ r[i].type = "blocked" /\ r[i].kind # "data" => r[i].maximum <= MaxStreamsLimit
  <2>1. r[i] = q[i + 1] /\ i + 1 \in 1 .. Len(q) /\ 1 < i + 1 BY <1>1
  <2>2. r[i].kind \in Kinds /\ q[1].kind \in Kinds BY <1>1 DEF Capsules
  <2>3. /\ r[i].type = "max" => /\ remote[r[i].kind] < r[i].maximum
                                /\ r[i].maximum <= recv[r[i].kind].advertised
        /\ r[i].type = "blocked" /\ r[i].kind # "data" => r[i].maximum <= MaxStreamsLimit
    BY <2>1 DEF MaximaRise
  <2>4. q[1].type = "max" /\ r[i].type = "max" /\ q[1].kind = r[i].kind => q[1].maximum < r[i].maximum
    BY <1>2, <2>1 DEF MaximaRise
  <2> QED BY <2>2, <2>3, <2>4
<1>4. ASSUME NEW i \in 1 .. Len(r), NEW j \in 1 .. Len(r), i < j,
             r[i].type = "max", r[j].type = "max", r[i].kind = r[j].kind
      PROVE  r[i].maximum < r[j].maximum
  BY SMTT(30), <1>1, <1>4 DEF MaximaRise
<1> QED BY <1>3, <1>4 DEF MaximaRise, r

LEMMA CloseAppend ==
  ASSUME NEW q \in Seq(Capsules), NEW c \in Capsules, NEW closed \in BOOLEAN,
         CloseEnds(q, FALSE), c.type # "prohibited", c.type = "close" => closed
  PROVE  CloseEnds(Append(q, c), closed)
<1> DEFINE r == Append(q, c)
<1>1. /\ Len(r) = Len(q) + 1 /\ r[Len(q) + 1] = c /\ Len(q) \in Nat
      /\ \A i \in 1 .. Len(q) : r[i] = q[i] BY QueueAppends
<1>2. \A i \in 1 .. Len(r) : i \in 1 .. Len(q) \/ i = Len(q) + 1 BY <1>1
<1> HIDE DEF r
<1>3. ASSUME NEW i \in 1 .. Len(r)
      PROVE  r[i].type # "prohibited" /\ (r[i].type = "close" => i = Len(r) /\ closed)
  <2>1. CASE i \in 1 .. Len(q) BY <1>1, <2>1 DEF CloseEnds
  <2>2. CASE i = Len(q) + 1 BY <1>1, <2>2
  <2> QED BY <1>2, <2>1, <2>2
<1> QED BY <1>3 DEF CloseEnds, r

LEMMA CloseTail ==
  ASSUME NEW q \in Seq(Capsules), q # <<>>, NEW closed \in BOOLEAN, CloseEnds(q, closed)
  PROVE  CloseEnds(Tail(q), closed)
<1> DEFINE r == Tail(q)
<1>1. /\ Len(r) = Len(q) - 1 /\ Len(q) \in Nat /\ 1 <= Len(q)
      /\ \A i \in 1 .. Len(r) : r[i] = q[i + 1] /\ i + 1 \in 1 .. Len(q)
  BY QueueTail
<1> HIDE DEF r
<1>2. ASSUME NEW i \in 1 .. Len(r)
      PROVE  r[i].type # "prohibited" /\ (r[i].type = "close" => i = Len(r) /\ closed)
  BY <1>1 DEF CloseEnds
<1> QED BY <1>2 DEF CloseEnds, r

(* The queues, when nothing is queued, written or processed.               *)
LEMMA QueueFrame ==
  ASSUME Types, Types', scope' = scope, caps' = caps,
         \A f \in Ends : /\ QueueSound(f) /\ ses'[f].pend = ses[f].pend
                         /\ ses'[f].remote = ses[f].remote
                         /\ Closed(ses[f]) => Closed(ses'[f])
                         /\ \A k \in Kinds : ses'[f].recv[k].advertised = ses[f].recv[k].advertised
  PROVE  \A f \in Ends : QueueSound(f)'
<1> SUFFICES ASSUME NEW f \in Ends PROVE QueueSound(f)' OBVIOUS
<1> DEFINE p == Peer(f) q == Inflight(f)
<1>1. p \in Ends BY TwoEnds
<1>2. Inflight(f)' = q BY <1>1 DEF Inflight
<1>3. q \in Seq(Capsules) BY <1>1, StateTypes, SessionTypes, QueueMoves DEF Inflight
<1>4. ses[p].recv \in [Kinds -> FlowControl] BY <1>1, StateTypes, SessionTypes
<1>5. ses'[p].recv \in [Kinds -> FlowControl] BY <1>1 DEF Types, AccountsAgree, TypeOK, Sessions
<1> HIDE DEF q
<1>6. ASSUME fc PROVE MaximaRise(q, ses'[f].remote, ses'[p].recv)
  <2>1. MaximaRise(q, ses[f].remote, ses[p].recv) BY <1>6 DEF QueueSound, q
  <2>2. \A k \in Kinds : ses[p].recv[k].advertised <= ses'[p].recv[k].advertised
    BY <1>1, <1>4 DEF FlowControl
  <2>3. MaximaRise(q, ses[f].remote, ses'[p].recv) BY <1>3, <1>4, <1>5, <2>1, <2>2, RiseGrows
  <2> QED BY <2>3
<1>7. CloseEnds(q, Closed(ses'[p]))
  <2>1. CloseEnds(q, Closed(ses[p])) BY DEF QueueSound, q
  <2> QED BY <1>1, <2>1 DEF CloseEnds, Closed
<1> QED BY <1>2, <1>6, <1>7 DEF QueueSound, fc, Closed

(* A step of the life of a session: it moves no stream and no data, and    *)
(* queues one capsule at most.                                             *)
LEMMA ControlStep ==
  ASSUME CreditInv, NEW e \in Ends, NEW s \in Sessions, scope' = scope, caps' = caps,
         ses' = [ses EXCEPT ![e] = s],
         s.remote = ses[e].remote, s.sent = ses[e].sent, s.recv = ses[e].recv,
         s.held = ses[e].held, s.streams = ses[e].streams,
         Closed(ses[e]) => Closed(s),
         net' \in Nets, net'.way = net.way, net'.lost = net.lost, net'.done = net.done,
         net'.fault = net.fault, net'.due[Peer(e)] = net.due[Peer(e)],
         net'.taken[Peer(e)] = net.taken[Peer(e)],
         IF Closed(s) THEN s.resets + net'.taken[e] = net'.due[e]
                      ELSE s.resets = 0 /\ net'.taken[e] = 0,
         \/ s.pend = ses[e].pend
         \/ \E c \in Capsules :
               /\ s.pend = Append(ses[e].pend, c) /\ ~Closed(ses[e])
               /\ c.type \in {"close", "drain", "unknown", "blocked"}
               /\ c.type = "close" => Closed(s)
               /\ fc /\ c.type = "blocked" /\ c.kind # "data" => c.maximum <= MaxStreamsLimit
  PROVE  CreditInv'
<1>1. Types /\ Accounts /\ (\A f \in Ends : QueueSound(f)) /\ (\A f \in Ends : ResetsCounted(f))
  BY DEF CreditInv
<1>2. PICK p \in Ends : /\ p = Peer(e) /\ p # e /\ Peer(p) = e
                        /\ \A f \in Ends : f = e \/ f = p BY TwoEnds
<1>3. Types' /\ ses'[e] = s /\ ses'[p] = ses[p]
  <2>1. \A k \in {"uni", "bidi"} : s.recv[k].advertised <= MaxStreamsLimit
    BY <1>1 DEF Types, AccountsAgree, TypeOK
  <2>2. \A f \in Ends : ~net'.fault[f] BY <1>1 DEF Types, AccountsAgree, NoFalseFlowControlError
  <2>3. caps' \in [Ends -> Seq(Capsules)] BY <1>1, StateTypes
  <2> QED BY ZenonT(30), <1>1, <1>2, <2>1, <2>2, <2>3, TypesStep
<1>4. Accounts' BY <1>1, <1>2, <1>3, AccountsFrame
<1>5. \A f \in Ends : ResetsCounted(f)'
  <2>1. ResetsCounted(e)' BY <1>3 DEF ResetsCounted
  <2>2. ResetsCounted(p)' BY <1>1, <1>2, <1>3 DEF ResetsCounted
  <2> QED BY <1>2, <2>1, <2>2
<1>6. \A f \in Ends : QueueSound(f)'
  <2>1. CASE s.pend = ses[e].pend BY <1>1, <1>2, <1>3, <2>1, QueueFrame
  <2>2. ASSUME NEW c \in Capsules, s.pend = Append(ses[e].pend, c), ~Closed(ses[e]),
               c.type \in {"close", "drain", "unknown", "blocked"}, c.type = "close" => Closed(s),
               fc /\ c.type = "blocked" /\ c.kind # "data" => c.maximum <= MaxStreamsLimit
        PROVE  QueueSound(e)' /\ QueueSound(p)'
    <3>1. QueueSound(e)'
      <4>1. Inflight(e)' = Inflight(e) BY <1>2, <1>3 DEF Inflight
      <4> QED BY <1>1, <1>2, <1>3, <4>1 DEF QueueSound, fc, Closed
    <3>2. QueueSound(p)'
      <4> DEFINE q == Inflight(p)
      <4>1. caps[p] \in Seq(Capsules) /\ ses[e].pend \in Seq(Capsules)
        BY <1>1, <1>2, StateTypes, SessionTypes
      <4>2. q \in Seq(Capsules) /\ Inflight(p)' = Append(q, c)
        <5>1. q = caps[p] \o ses[e].pend BY <1>2 DEF Inflight
        <5>2. Inflight(p)' = caps[p] \o Append(ses[e].pend, c) BY <1>2, <1>3, <2>2 DEF Inflight
        <5>3. /\ caps[p] \o ses[e].pend \in Seq(Capsules)
              /\ caps[p] \o Append(ses[e].pend, c) = Append(caps[p] \o ses[e].pend, c)
          BY <4>1, QueueMoves
        <5> HIDE DEF q
        <5> QED BY <5>1, <5>2, <5>3
      <4>3. ASSUME fc PROVE MaximaRise(Append(q, c), ses[p].remote, ses[e].recv)
        <5>1. MaximaRise(q, ses[p].remote, ses[e].recv) BY <1>1, <1>2, <4>3 DEF QueueSound
        <5>2. c.type # "max" BY <2>2
        <5> HIDE DEF q
        <5> QED BY <4>2, <4>3, <2>2, <5>1, <5>2, RiseAppend
      <4>4. CloseEnds(q, FALSE) BY <1>1, <1>2, <2>2 DEF QueueSound, Closed
      <4>5. CloseEnds(Append(q, c), Closed(s))
        <5> HIDE DEF q
        <5> QED BY <2>2, <4>2, <4>4, CloseAppend DEF Closed
      <4> QED BY <1>2, <1>3, <4>2, <4>3, <4>5 DEF QueueSound, fc, Closed
    <3> QED BY <3>1, <3>2
  <2> QED BY <1>2, <2>1, <2>2
<1> QED BY <1>3, <1>4, <1>5, <1>6 DEF CreditInv

-----------------------------------------------------------------------------
(* One lemma per action.                                                   *)

LEMMA PlainTypes ==
  ASSUME NEW type \in {"close", "drain", "unknown"}
  PROVE  Plain(type) \in Capsules /\ Plain(type).type = type
BY DEF Plain, Capsules, Kinds

LEMMA SetConnectingInv ==
  ASSUME CreditInv, NEW e \in Ends, SetConnecting(e)
  PROVE  CreditInv'
<1> DEFINE s == [ses[e] EXCEPT !.state = "Connecting"]
<1>1. ses[e] \in Sessions /\ net \in Nets BY StateTypes DEF CreditInv
<1>2. s \in Sessions BY <1>1 DEF Sessions
<1>3. ResetsCounted(e) BY DEF CreditInv
<1>4. /\ ~Closed(ses[e]) /\ ~Closed(s) /\ scope' = scope /\ caps' = caps /\ net' = net
      /\ ses' = [ses EXCEPT ![e] = s]
  BY <1>1 DEF SetConnecting, Update, Closed, Sessions
<1>5. s.remote = ses[e].remote /\ s.sent = ses[e].sent /\ s.recv = ses[e].recv
      /\ s.held = ses[e].held /\ s.streams = ses[e].streams /\ s.pend = ses[e].pend
      /\ s.resets = ses[e].resets
  BY <1>1 DEF Sessions
<1> HIDE DEF s
<1> QED BY <1>1, <1>2, <1>3, <1>4, <1>5, ControlStep DEF ResetsCounted

LEMMA SetEstablishedInv ==
  ASSUME CreditInv, NEW e \in Ends, SetEstablished(e)
  PROVE  CreditInv'
<1> DEFINE s == [ses[e] EXCEPT !.state = "Established"]
<1>1. ses[e] \in Sessions /\ net \in Nets BY StateTypes DEF CreditInv
<1>2. s \in Sessions BY <1>1 DEF Sessions
<1>3. ResetsCounted(e) BY DEF CreditInv
<1>4. /\ ~Closed(ses[e]) /\ ~Closed(s) /\ scope' = scope /\ caps' = caps /\ net' = net
      /\ ses' = [ses EXCEPT ![e] = s]
  BY <1>1 DEF SetEstablished, Update, Closed, Sessions
<1>5. s.remote = ses[e].remote /\ s.sent = ses[e].sent /\ s.recv = ses[e].recv
      /\ s.held = ses[e].held /\ s.streams = ses[e].streams /\ s.pend = ses[e].pend
      /\ s.resets = ses[e].resets
  BY <1>1 DEF Sessions
<1> HIDE DEF s
<1> QED BY <1>1, <1>2, <1>3, <1>4, <1>5, ControlStep DEF ResetsCounted

LEMMA DrainInv ==
  ASSUME CreditInv, NEW e \in Ends, Drain(e)
  PROVE  CreditInv'
<1> DEFINE c == Plain("drain")
           s == [[ses[e] EXCEPT !.pend = Append(@, c)] EXCEPT !.state = "Draining"]
<1>1. ses[e] \in Sessions /\ net \in Nets BY StateTypes DEF CreditInv
<1>2. c \in Capsules /\ c.type = "drain" BY PlainTypes
<1> HIDE DEF c
<1>3. Append(ses[e].pend, c) \in Seq(Capsules) BY <1>1, <1>2 DEF Sessions
<1>4. s \in Sessions BY <1>1, <1>3 DEF Sessions
<1>5. ResetsCounted(e) BY DEF CreditInv
<1>6. /\ ~Closed(ses[e]) /\ ~Closed(s) /\ scope' = scope /\ caps' = caps /\ net' = net
      /\ ses' = [ses EXCEPT ![e] = s]
  BY <1>1 DEF Drain, Update, Closed, Sessions, SetDraining, Queue, c
<1>7. s.remote = ses[e].remote /\ s.sent = ses[e].sent /\ s.recv = ses[e].recv
      /\ s.held = ses[e].held /\ s.streams = ses[e].streams /\ s.pend = Append(ses[e].pend, c)
      /\ s.resets = ses[e].resets
  BY <1>1 DEF Sessions
<1> HIDE DEF s
<1> QED BY <1>1, <1>2, <1>4, <1>5, <1>6, <1>7, ControlStep DEF ResetsCounted

LEMMA HandleGoawayInv ==
  ASSUME CreditInv, NEW e \in Ends, HandleGoaway(e)
  PROVE  CreditInv'
<1> DEFINE s == SetDraining([ses[e] EXCEPT !.goaway = TRUE])
<1>1. ses[e] \in Sessions /\ net \in Nets BY StateTypes DEF CreditInv
<1>2. s \in Sessions BY <1>1 DEF Sessions, SetDraining
<1>3. ResetsCounted(e) BY DEF CreditInv
<1>4. /\ (Closed(ses[e]) <=> Closed(s)) /\ scope' = scope /\ caps' = caps /\ net' = net
      /\ ses' = [ses EXCEPT ![e] = s]
  BY <1>1 DEF HandleGoaway, Update, Closed, Sessions, SetDraining
<1>5. s.remote = ses[e].remote /\ s.sent = ses[e].sent /\ s.recv = ses[e].recv
      /\ s.held = ses[e].held /\ s.streams = ses[e].streams /\ s.pend = ses[e].pend
      /\ s.resets = ses[e].resets
  BY <1>1 DEF Sessions, SetDraining
<1> HIDE DEF s
<1> QED BY <1>1, <1>2, <1>3, <1>4, <1>5, ControlStep DEF ResetsCounted

LEMMA QueueCapsuleInv ==
  ASSUME CreditInv, NEW e \in Ends, QueueCapsule(e)
  PROVE  CreditInv'
<1> DEFINE c == Plain("unknown")
           s == [ses[e] EXCEPT !.pend = Append(@, c)]
<1>1. ses[e] \in Sessions /\ net \in Nets BY StateTypes DEF CreditInv
<1>2. c \in Capsules /\ c.type = "unknown" BY PlainTypes
<1> HIDE DEF c
<1>3. Append(ses[e].pend, c) \in Seq(Capsules) BY <1>1, <1>2 DEF Sessions
<1>4. s \in Sessions BY <1>1, <1>3 DEF Sessions
<1>5. ResetsCounted(e) BY DEF CreditInv
<1>6. /\ ~Closed(ses[e]) /\ ~Closed(s) /\ scope' = scope /\ caps' = caps
      /\ ses' = [ses EXCEPT ![e] = s]
  BY <1>1 DEF QueueCapsule, Update, Closed, Sessions, Queue, c
<1>7. s.remote = ses[e].remote /\ s.sent = ses[e].sent /\ s.recv = ses[e].recv
      /\ s.held = ses[e].held /\ s.streams = ses[e].streams /\ s.pend = Append(ses[e].pend, c)
      /\ s.resets = ses[e].resets
  BY <1>1 DEF Sessions
<1>8. /\ net' \in Nets /\ net'.way = net.way /\ net'.lost = net.lost /\ net'.done = net.done
      /\ net'.fault = net.fault /\ net'.due = net.due /\ net'.taken = net.taken
  BY <1>1 DEF QueueCapsule, Nets
<1> HIDE DEF s
<1> QED BY <1>1, <1>2, <1>4, <1>5, <1>6, <1>7, <1>8, ControlStep DEF ResetsCounted

LEMMA TakeResetsInv ==
  ASSUME CreditInv, NEW e \in Ends, TakeResets(e)
  PROVE  CreditInv'
<1> DEFINE s == [ses[e] EXCEPT !.resets = 0]
<1>1. ses[e] \in Sessions /\ net \in Nets BY StateTypes DEF CreditInv
<1>2. s \in Sessions BY <1>1 DEF Sessions
<1>3. ResetsCounted(e) BY DEF CreditInv
<1>4. ses[e].resets \in Nat /\ net.taken[e] \in Nat /\ ses[e].resets > 0
  BY <1>1, SessionTypes, NetTypes DEF TakeResets
<1>5. /\ Closed(ses[e]) /\ Closed(s) /\ ses[e].resets + net.taken[e] = net.due[e]
      /\ scope' = scope /\ caps' = caps /\ ses' = [ses EXCEPT ![e] = s]
  BY <1>1, <1>3, <1>4 DEF TakeResets, Update, Closed, Sessions, ResetsCounted
<1>6. s.remote = ses[e].remote /\ s.sent = ses[e].sent /\ s.recv = ses[e].recv
      /\ s.held = ses[e].held /\ s.streams = ses[e].streams /\ s.pend = ses[e].pend
      /\ s.resets = 0
  BY <1>1 DEF Sessions
<1>7. /\ net' \in Nets /\ net'.way = net.way /\ net'.lost = net.lost /\ net'.done = net.done
      /\ net'.fault = net.fault /\ net'.due = net.due
      /\ net'.taken[e] = net.taken[e] + ses[e].resets /\ net'.taken[Peer(e)] = net.taken[Peer(e)]
  <2>1. net.taken \in Tally /\ net.taken[e] + ses[e].resets \in Nat BY <1>1, <1>4 DEF Nets
  <2>2. net' = [net EXCEPT !.taken = [net.taken EXCEPT ![e] = net.taken[e] + ses[e].resets]]
    BY <1>1 DEF TakeResets, Nets
  <2> QED BY <1>1, <2>1, <2>2, TallyStep DEF Nets
<1>8. s.resets + net'.taken[e] = net'.due[e] BY <1>4, <1>5, <1>6, <1>7
<1> HIDE DEF s
<1> QED BY <1>2, <1>5, <1>6, <1>7, <1>8, ControlStep

(* A session that closes lists its open streams.                           *)
LEMMA Closing ==
  ASSUME CreditInv, NEW e \in Ends, NEW s \in Sessions, Closed(s),
         s.resets = IF Closed(ses[e]) THEN ses[e].resets ELSE ses[e].streams,
         net' = Due(e, s)
  PROVE  /\ net' \in Nets /\ net'.way = net.way /\ net'.lost = net.lost /\ net'.done = net.done
         /\ net'.fault = net.fault /\ net'.taken = net.taken
         /\ net'.due[Peer(e)] = net.due[Peer(e)]
         /\ s.resets + net'.taken[e] = net'.due[e]
<1>1. ses[e] \in Sessions /\ net \in Nets BY StateTypes DEF CreditInv
<1>2. s.resets \in Nat BY SessionTypes
<1>3. ResetsCounted(e) BY DEF CreditInv
<1>4. CASE Closed(ses[e])
  <2>1. net' = net BY <1>4 DEF Due
  <2> QED BY <1>1, <1>3, <1>4, <2>1 DEF ResetsCounted
<1>5. CASE ~Closed(ses[e])
  <2>1. net' = [net EXCEPT !.due[e] = s.resets] BY <1>5 DEF Due
  <2>2. net.taken[e] = 0 BY <1>3, <1>5 DEF ResetsCounted
  <2>3. /\ net' \in Nets /\ net'.way = net.way /\ net'.lost = net.lost /\ net'.done = net.done
        /\ net'.fault = net.fault /\ net'.taken = net.taken /\ net'.due[e] = s.resets
        /\ net'.due[Peer(e)] = net.due[Peer(e)]
    <3>1. net.due \in Tally BY <1>1 DEF Nets
    <3>2. net' = [net EXCEPT !.due = [net.due EXCEPT ![e] = s.resets]] BY <1>1, <2>1 DEF Nets
    <3> QED BY <1>1, <1>2, <3>1, <3>2, TallyStep DEF Nets
  <2> QED BY <1>2, <2>2, <2>3
<1> QED BY <1>4, <1>5

LEMMA CloseWithErrorInv ==
  ASSUME CreditInv, NEW e \in Ends, CloseWithError(e)
  PROVE  CreditInv'
<1> DEFINE c == Plain("close")
           s == Close([Queue(ses[e], c) EXCEPT !.closeSent = TRUE])
<1>1. ses[e] \in Sessions /\ net \in Nets BY StateTypes DEF CreditInv
<1>2. c \in Capsules /\ c.type = "close" BY PlainTypes
<1>3. /\ ~Closed(ses[e]) /\ scope' = scope /\ caps' = caps
      /\ ses' = [ses EXCEPT ![e] = s] /\ net' = Due(e, s)
  BY DEF CloseWithError, Update
<1> HIDE DEF c
<1>4. Append(ses[e].pend, c) \in Seq(Capsules) BY <1>1, <1>2 DEF Sessions
<1>5. s = [ses[e] EXCEPT !.state = "Closed", !.resets = ses[e].streams,
                         !.pend = Append(ses[e].pend, c), !.closeSent = TRUE]
  BY <1>1, <1>3 DEF Close, Queue, Closed, Sessions
<1> HIDE DEF s
<1>6. /\ s \in Sessions /\ Closed(s) /\ s.resets = ses[e].streams
      /\ s.remote = ses[e].remote /\ s.sent = ses[e].sent /\ s.recv = ses[e].recv
      /\ s.held = ses[e].held /\ s.streams = ses[e].streams /\ s.pend = Append(ses[e].pend, c)
  BY <1>1, <1>4, <1>5 DEF Sessions, Closed
<1>7. /\ net' \in Nets /\ net'.way = net.way /\ net'.lost = net.lost /\ net'.done = net.done
      /\ net'.fault = net.fault /\ net'.taken = net.taken
      /\ net'.due[Peer(e)] = net.due[Peer(e)]
      /\ s.resets + net'.taken[e] = net'.due[e]
  BY <1>3, <1>6, Closing
<1> QED BY <1>2, <1>3, <1>6, <1>7, ControlStep

LEMMA OnConnectStreamClosedInv ==
  ASSUME CreditInv, NEW e \in Ends, OnConnectStreamClosed(e)
  PROVE  CreditInv'
<1> DEFINE s == Close([ses[e] EXCEPT !.closeReceived = TRUE])
<1>1. ses[e] \in Sessions /\ net \in Nets BY StateTypes DEF CreditInv
<1>2. /\ scope' = scope /\ caps' = caps
      /\ ses' = [ses EXCEPT ![e] = s] /\ net' = Due(e, s)
  BY DEF OnConnectStreamClosed, Update
<1>3. /\ s \in Sessions /\ Closed(s)
      /\ s.resets = IF Closed(ses[e]) THEN ses[e].resets ELSE ses[e].streams
      /\ s.remote = ses[e].remote /\ s.sent = ses[e].sent /\ s.recv = ses[e].recv
      /\ s.held = ses[e].held /\ s.streams = ses[e].streams /\ s.pend = ses[e].pend
  BY <1>1 DEF Sessions, Closed, Close
<1> HIDE DEF s
<1>4. /\ net' \in Nets /\ net'.way = net.way /\ net'.lost = net.lost /\ net'.done = net.done
      /\ net'.fault = net.fault /\ net'.taken = net.taken
      /\ net'.due[Peer(e)] = net.due[Peer(e)]
      /\ s.resets + net'.taken[e] = net'.due[e]
  BY <1>2, <1>3, Closing
<1> QED BY <1>2, <1>3, <1>4, ControlStep

(* A step that moves streams or data and leaves the rest alone.            *)
LEMMA DataStep ==
  ASSUME CreditInv, NEW e \in Ends, NEW s \in Sessions, scope' = scope, caps' = caps,
         ses' = [ses EXCEPT ![e] = s],
         s.remote = ses[e].remote, s.pend = ses[e].pend, s.state = ses[e].state,
         s.resets = ses[e].resets,
         \A k \in Kinds : s.recv[k].advertised = ses[e].recv[k].advertised,
         net' \in Nets, net'.fault = net.fault, net'.due = net.due, net'.taken = net.taken,
         ses'[e] = s /\ ses'[Peer(e)] = ses[Peer(e)] => Accounts'
  PROVE  CreditInv'
<1>1. Types /\ Accounts /\ (\A f \in Ends : QueueSound(f)) /\ (\A f \in Ends : ResetsCounted(f))
  BY DEF CreditInv
<1>2. PICK p \in Ends : /\ p = Peer(e) /\ p # e /\ Peer(p) = e
                        /\ \A f \in Ends : f = e \/ f = p BY TwoEnds
<1>3. Types' /\ ses'[e] = s /\ ses'[p] = ses[p]
  <2>1. \A k \in {"uni", "bidi"} : s.recv[k].advertised <= MaxStreamsLimit
    BY <1>1 DEF Types, AccountsAgree, TypeOK, Kinds
  <2>2. \A f \in Ends : ~net'.fault[f] BY <1>1 DEF Types, AccountsAgree, NoFalseFlowControlError
  <2>3. caps' \in [Ends -> Seq(Capsules)] BY <1>1, StateTypes
  <2> QED BY <1>1, <1>2, <2>1, <2>2, <2>3, TypesStep
<1>4. \A f \in Ends : QueueSound(f)' BY <1>1, <1>2, <1>3, QueueFrame DEF Closed
<1>5. \A f \in Ends : ResetsCounted(f)' BY <1>1, <1>2, <1>3 DEF ResetsCounted, Closed
<1> QED BY <1>2, <1>3, <1>4, <1>5 DEF CreditInv

(* What the accounts say of one end.                                       *)
LEMMA AccountFacts ==
  ASSUME CreditInv, NEW e \in Ends
  PROVE  /\ \A k \in Kinds : Conserved(e, k) /\ ReceiverSound(e, k) /\ SenderWithin(e, k)
         /\ StreamsCounted(e)
BY DEF CreditInv, Accounts

(* The accounts of both ends, from those of one pipe at a time.            *)
LEMMA AccountsStep ==
  ASSUME NEW e \in Ends,
         \A f \in Ends : \A k \in Kinds : Conserved(f, k)',
         \A f \in Ends : \A k \in Kinds : ReceiverSound(f, k)',
         \A f \in Ends : \A k \in Kinds : SenderWithin(f, k)',
         \A f \in Ends : StreamsCounted(f)'
  PROVE  Accounts'
BY DEF Accounts

LEMMA TryUseInv ==
  ASSUME CreditInv, NEW e \in Ends, NEW k \in Kinds, NEW n \in Amounts(k), TryUse(e, k, n)
  PROVE  CreditInv'
<1>1. ses[e] \in Sessions /\ net \in Nets BY StateTypes DEF CreditInv
<1>2. PICK p \in Ends : /\ p = Peer(e) /\ p # e /\ Peer(p) = e
                        /\ \A f \in Ends : f = e \/ f = p BY TwoEnds
<1>3. ~Closed(ses[e]) /\ scope' = scope /\ caps' = caps BY DEF TryUse, CanSend, Closed
<1>4. n \in Nat \ {0} /\ (k # "data" => n = 1) BY SessionAssumption DEF Amounts
<1>5. ses[p] \in Sessions BY <1>2, StateTypes DEF CreditInv
<1>6. CASE Within(ses[e], k, n)
  <2> DEFINE sent == [ses[e].sent EXCEPT ![k] = ses[e].sent[k] + n]
             streams == ses[e].streams + IF k = "data" THEN 0 ELSE 1
             way == [net.way EXCEPT ![p][k] = net.way[p][k] + n]
             s == [ses[e] EXCEPT !.sent = sent, !.streams = streams]
  <2>1. /\ sent \in [Kinds -> Nat] /\ streams \in Nat /\ sent[k] = ses[e].sent[k] + n
        /\ \A h \in Kinds : h # k => sent[h] = ses[e].sent[h]
    BY <1>1, <1>4, SessionTypes
  <2>2. /\ way \in Grid /\ way[p][k] = net.way[p][k] + n /\ way[e] = net.way[e]
        /\ \A h \in Kinds : h # k => way[p][h] = net.way[p][h]
    <3>1. net.way \in Grid /\ net.way[p][k] + n \in Nat BY <1>1, <1>4, NetTypes DEF Nets
    <3> QED BY <1>2, <3>1 DEF Grid
  <2>3. ses' = [ses EXCEPT ![e] = s] BY <1>1, <1>6 DEF TryUse, Update, Sessions
  <2>4. net' = [net EXCEPT !.way = way] BY <1>1, <1>2, <1>6 DEF TryUse, Nets
  <2> HIDE DEF sent, streams, way
  <2>5. /\ s \in Sessions /\ s.remote = ses[e].remote /\ s.pend = ses[e].pend
        /\ s.state = ses[e].state /\ s.resets = ses[e].resets /\ s.recv = ses[e].recv
        /\ s.held = ses[e].held /\ s.sent = sent /\ s.streams = streams
    BY <1>1, <2>1 DEF Sessions
  <2>6. /\ net' \in Nets /\ net'.way = way /\ net'.lost = net.lost /\ net'.done = net.done
        /\ net'.fault = net.fault /\ net'.due = net.due /\ net'.taken = net.taken
    BY <1>1, <2>2, <2>4 DEF Nets
  <2> HIDE DEF s
  <2>7. ASSUME ses'[e] = s, ses'[p] = ses[p] PROVE Accounts'
    <3>1. ASSUME NEW h \in Kinds PROVE Conserved(e, h)' /\ Conserved(p, h)'
      <4>1. Conserved(e, h) /\ Conserved(p, h) BY AccountFacts
      <4>2. /\ ses[e].sent[h] \in Nat /\ ses[p].recv[h].received \in Nat /\ ses[p].held[h] \in Nat
            /\ net.way[p][h] \in Nat /\ net.lost[p][h] \in Nat
        BY <1>1, <1>5, SessionTypes, NetTypes
      <4>3. Conserved(p, h)' BY <1>2, <2>2, <2>5, <2>6, <2>7, <4>1 DEF Conserved
      <4>4. CASE h = k BY <1>2, <1>4, <2>1, <2>2, <2>5, <2>6, <2>7, <4>1, <4>2, <4>4 DEF Conserved
      <4>5. CASE h # k BY <1>2, <2>1, <2>2, <2>5, <2>6, <2>7, <4>1, <4>5 DEF Conserved
      <4> QED BY <4>3, <4>4, <4>5
    <3>2. ASSUME NEW h \in Kinds PROVE ReceiverSound(e, h)' /\ ReceiverSound(p, h)'
      BY <2>5, <2>6, <2>7, AccountFacts DEF ReceiverSound
    <3>3. ASSUME NEW h \in Kinds PROVE SenderWithin(e, h)' /\ SenderWithin(p, h)'
      <4>1. SenderWithin(e, h) /\ SenderWithin(p, h) BY AccountFacts
      <4>2. SenderWithin(p, h)' BY <1>2, <1>3, <2>5, <2>7, <4>1 DEF SenderWithin, fc
      <4>3. CASE h # k BY <1>2, <1>3, <2>1, <2>5, <2>7, <4>1, <4>3 DEF SenderWithin, fc
      <4>4. CASE h = k
        <5>1. fc => ses[e].sent[k] + n <= ses[e].remote[k]
          BY <1>1, <1>4, <1>6, SessionTypes DEF Within, Minus
        <5> QED BY <1>2, <1>3, <2>1, <2>5, <2>7, <4>1, <4>4, <5>1 DEF SenderWithin, fc
      <4> QED BY <4>2, <4>3, <4>4
    <3>4. StreamsCounted(p)' BY <1>2, <2>6, <2>7, AccountFacts DEF StreamsCounted
    <3>5. StreamsCounted(e)'
      <4>1. /\ ses[e].streams = ses[e].sent["uni"] + ses[e].sent["bidi"]
                  + (ses[e].recv["uni"].received - net.done[e]["uni"])
                  + (ses[e].recv["bidi"].received - net.done[e]["bidi"])
        BY AccountFacts DEF StreamsCounted
      <4>2. \A h \in Kinds : /\ ses[e].sent[h] \in Nat /\ ses[e].recv[h].received \in Nat
                             /\ net.done[e][h] \in Nat
        BY <1>1, SessionTypes, NetTypes
      <4>3. streams = sent["uni"] + sent["bidi"]
                  + (ses[e].recv["uni"].received - net.done[e]["uni"])
                  + (ses[e].recv["bidi"].received - net.done[e]["bidi"])
        BY <1>4, <2>1, <4>1, <4>2 DEF streams, Kinds
      <4> QED BY <2>5, <2>6, <2>7, <4>3 DEF StreamsCounted
    <3> QED BY <1>2, <3>1, <3>2, <3>3, <3>4, <3>5, AccountsStep
  <2> QED BY <1>2, <1>3, <2>3, <2>5, <2>6, <2>7, DataStep
<1>7. CASE ~Within(ses[e], k, n)
  <2> DEFINE c == Blocked(k, ses[e].remote[k])
             s == [ses[e] EXCEPT !.blocked[k] = ses[e].remote[k], !.pend = Append(@, c)]
  <2>1. ses' = [ses EXCEPT ![e] = s] /\ net' = net
    BY <1>1, <1>7 DEF TryUse, Update, Block
  <2>2. /\ c \in Capsules /\ c.type = "blocked" /\ c.kind = k /\ c.maximum = ses[e].remote[k]
    BY <1>1, SessionTypes DEF Blocked, Capsules
  <2> HIDE DEF c
  <2>3. /\ Append(ses[e].pend, c) \in Seq(Capsules)
        /\ [ses[e].blocked EXCEPT ![k] = ses[e].remote[k]] \in [Kinds -> Nat \cup {None}]
    BY <1>1, <2>2, SessionTypes
  <2>4. s \in Sessions BY <1>1, <2>3 DEF Sessions
  <2>5. /\ s.remote = ses[e].remote /\ s.sent = ses[e].sent /\ s.recv = ses[e].recv
        /\ s.held = ses[e].held /\ s.streams = ses[e].streams /\ s.resets = ses[e].resets
        /\ s.pend = Append(ses[e].pend, c) /\ s.state = ses[e].state
    BY <1>1 DEF Sessions
  <2>6. fc /\ k # "data" => c.maximum <= MaxStreamsLimit
    <3>1. SenderWithin(e, k) /\ ReceiverSound(p, k) BY AccountFacts
    <3>2. ses[e].remote[k] \in Nat /\ ses[p].recv[k].advertised \in Nat BY <1>1, <1>5, SessionTypes
    <3> QED BY <1>2, <2>2, <3>1, <3>2, MaxStreamsLimitAssumption DEF SenderWithin, ReceiverSound
  <2>7. ResetsCounted(e) BY DEF CreditInv
  <2> HIDE DEF s
  <2> QED BY <1>1, <1>3, <2>1, <2>2, <2>4, <2>5, <2>6, <2>7, ControlStep DEF ResetsCounted, Closed
<1> QED BY <1>6, <1>7

(* No fault is noted where there is none.                                  *)
LEMMA NoFault ==
  ASSUME CreditInv, NEW e \in Ends, NEW b, b = FALSE
  PROVE  [net.fault EXCEPT ![e] = net.fault[e] \/ b] = net.fault
<1>1. net.fault \in [Ends -> BOOLEAN] BY StateTypes DEF CreditInv, Nets, Flags
<1>2. (net.fault[e] \/ b) = net.fault[e] BY <1>1
<1> QED BY <1>1, <1>2

LEMMA ArriveInv ==
  ASSUME CreditInv, NEW e \in Ends, NEW k \in Kinds, NEW n \in Amounts(k), Arrive(e, k, n)
  PROVE  CreditInv'
<1>1. ses[e] \in Sessions /\ net \in Nets BY StateTypes DEF CreditInv
<1>2. PICK p \in Ends : /\ p = Peer(e) /\ p # e /\ Peer(p) = e
                        /\ \A f \in Ends : f = e \/ f = p BY TwoEnds
<1>3. /\ scope' = scope /\ caps' = caps /\ n <= net.way[e][k] BY DEF Arrive
<1>4. n \in Nat \ {0} /\ (k # "data" => n = 1) BY SessionAssumption DEF Amounts
<1>5. ses[p] \in Sessions BY <1>2, StateTypes DEF CreditInv
<1>6. \A h \in Kinds : /\ ses[p].sent[h] \in Nat /\ ses[e].recv[h].received \in Nat
                       /\ ses[e].held[h] \in Nat /\ net.way[e][h] \in Nat /\ net.lost[e][h] \in Nat
                       /\ net.done[e][h] \in Nat /\ ses[e].sent[h] \in Nat
                       /\ ses[p].remote[h] \in Nat /\ ses[e].recv[h].advertised \in Nat
  BY <1>1, <1>5, SessionTypes, NetTypes
<1>7. ~fc \/ CheckReceived(ses[e].recv[k], n)
  <2>1. Conserved(p, k) /\ SenderWithin(p, k) BY AccountFacts
  <2>2. fc => ses[e].recv[k].received + n <= ses[e].recv[k].advertised
    BY <1>2, <1>3, <1>4, <1>6, <2>1 DEF Conserved, SenderWithin
  <2> QED BY <1>4, <1>6, <2>2 DEF CheckReceived, Remaining, Minus
<1> DEFINE f == OnReceived(ses[e].recv[k], n)
           recv == [ses[e].recv EXCEPT ![k] = f]
           streams == ses[e].streams + IF k = "data" THEN 0 ELSE 1
           way == [net.way EXCEPT ![e][k] = net.way[e][k] - n]
           s == [ses[e] EXCEPT !.recv = recv, !.streams = streams]
<1>8. /\ f \in FlowControl /\ f.window = ses[e].recv[k].window
      /\ f.advertised = ses[e].recv[k].advertised /\ f.returned = ses[e].recv[k].returned
      /\ f.received = ses[e].recv[k].received + n
  <2>1. ses[e].recv[k] \in FlowControl BY <1>1, SessionTypes
  <2> QED BY <1>4, <2>1 DEF OnReceived, FlowControl
<1>9. ses' = [ses EXCEPT ![e] = s] BY <1>1, <1>7 DEF Arrive, Update, Counted, Sessions
<1>10. net' = [net EXCEPT !.way = way]
  <2>1. net' = [net EXCEPT !.way = way, !.fault = [net.fault EXCEPT ![e] = net.fault[e] \/ FALSE]]
    BY <1>1, <1>7 DEF Arrive, Nets
  <2>2. [net.fault EXCEPT ![e] = net.fault[e] \/ FALSE] = net.fault BY NoFault
  <2> HIDE DEF way
  <2> QED BY <1>1, <2>1, <2>2 DEF Nets
<1>11. /\ way \in Grid /\ way[e][k] = net.way[e][k] - n /\ way[p] = net.way[p]
       /\ \A h \in Kinds : h # k => way[e][h] = net.way[e][h]
  <2>1. net.way \in Grid /\ net.way[e][k] - n \in Nat BY <1>1, <1>3, <1>4, <1>6 DEF Nets
  <2> QED BY <1>2, <2>1 DEF Grid
<1> HIDE DEF f
<1>12. /\ recv \in [Kinds -> FlowControl] /\ recv[k] = f /\ streams \in Nat
       /\ \A h \in Kinds : h # k => recv[h] = ses[e].recv[h]
  BY <1>1, <1>8, SessionTypes
<1> HIDE DEF recv, streams, way
<1>13. /\ s \in Sessions /\ s.remote = ses[e].remote /\ s.pend = ses[e].pend
       /\ s.state = ses[e].state /\ s.resets = ses[e].resets /\ s.recv = recv
       /\ s.held = ses[e].held /\ s.sent = ses[e].sent /\ s.streams = streams
  BY <1>1, <1>12 DEF Sessions
<1>14. /\ net' \in Nets /\ net'.way = way /\ net'.lost = net.lost /\ net'.done = net.done
       /\ net'.fault = net.fault /\ net'.due = net.due /\ net'.taken = net.taken
  BY <1>1, <1>10, <1>11 DEF Nets
<1> HIDE DEF s
<1>15. \A h \in Kinds : recv[h].advertised = ses[e].recv[h].advertised BY <1>8, <1>12
<1>16. ASSUME ses'[e] = s, ses'[p] = ses[p] PROVE Accounts'
  <2>1. ASSUME NEW h \in Kinds PROVE Conserved(e, h)' /\ Conserved(p, h)'
    <3>1. Conserved(e, h) /\ Conserved(p, h) BY AccountFacts
    <3>2. Conserved(e, h)' BY <1>2, <1>11, <1>13, <1>14, <1>16, <3>1 DEF Conserved
    <3>3. CASE h = k
      BY <1>2, <1>4, <1>6, <1>8, <1>11, <1>12, <1>13, <1>14, <1>16, <3>1, <3>3 DEF Conserved
    <3>4. CASE h # k BY <1>2, <1>11, <1>12, <1>13, <1>14, <1>16, <3>1, <3>4 DEF Conserved
    <3> QED BY <3>2, <3>3, <3>4
  <2>2. ASSUME NEW h \in Kinds PROVE ReceiverSound(e, h)' /\ ReceiverSound(p, h)'
    <3>1. ReceiverSound(e, h) /\ ReceiverSound(p, h) BY AccountFacts
    <3>2. ReceiverSound(p, h)' BY <1>14, <1>16, <3>1 DEF ReceiverSound
    <3>3. CASE h = k
      BY <1>4, <1>6, <1>8, <1>12, <1>13, <1>14, <1>16, <3>1, <3>3 DEF ReceiverSound
    <3>4. CASE h # k BY <1>12, <1>13, <1>14, <1>16, <3>1, <3>4 DEF ReceiverSound
    <3> QED BY <3>2, <3>3, <3>4
  <2>3. ASSUME NEW h \in Kinds PROVE SenderWithin(e, h)' /\ SenderWithin(p, h)'
    <3>1. SenderWithin(e, h) /\ SenderWithin(p, h) BY AccountFacts
    <3> QED BY <1>2, <1>3, <1>13, <1>15, <1>16, <3>1 DEF SenderWithin, fc
  <2>4. StreamsCounted(p)' BY <1>2, <1>14, <1>16, AccountFacts DEF StreamsCounted
  <2>5. StreamsCounted(e)'
    <3>1. ses[e].streams = ses[e].sent["uni"] + ses[e].sent["bidi"]
                + (ses[e].recv["uni"].received - net.done[e]["uni"])
                + (ses[e].recv["bidi"].received - net.done[e]["bidi"])
      BY AccountFacts DEF StreamsCounted
    <3>2. streams = ses[e].sent["uni"] + ses[e].sent["bidi"]
                + (recv["uni"].received - net.done[e]["uni"])
                + (recv["bidi"].received - net.done[e]["bidi"])
      BY <1>4, <1>6, <1>8, <1>12, <3>1 DEF streams, Kinds
    <3> QED BY <1>13, <1>14, <1>16, <3>2 DEF StreamsCounted
  <2> QED BY <1>2, <2>1, <2>2, <2>3, <2>4, <2>5, AccountsStep
<1> QED BY ZenonT(30), <1>2, <1>3, <1>9, <1>13, <1>14, <1>15, <1>16, DataStep

LEMMA BufferStreamInv ==
  ASSUME CreditInv, NEW e \in Ends, NEW k \in Kinds, BufferStream(e, k)
  PROVE  CreditInv'
<1>1. ses[e] \in Sessions /\ net \in Nets BY StateTypes DEF CreditInv
<1>2. PICK p \in Ends : /\ p = Peer(e) /\ p # e /\ Peer(p) = e
                        /\ \A f \in Ends : f = e \/ f = p BY TwoEnds
<1>3. /\ scope' = scope /\ caps' = caps /\ net.way[e][k] > 0 BY DEF BufferStream
<1>4. ses[p] \in Sessions BY <1>2, StateTypes DEF CreditInv
<1>5. \A h \in Kinds : /\ ses[p].sent[h] \in Nat /\ ses[e].recv[h].received \in Nat
                       /\ ses[e].held[h] \in Nat /\ net.way[e][h] \in Nat /\ net.lost[e][h] \in Nat
  BY <1>1, <1>4, SessionTypes, NetTypes
<1> DEFINE room == ses[e].held["uni"] + ses[e].held["bidi"] < MaxBuffered
           held == [ses[e].held EXCEPT ![k] = @ + IF room THEN 1 ELSE 0]
           way == [net.way EXCEPT ![e][k] = net.way[e][k] - 1]
           lost == [net.lost EXCEPT ![e][k] = net.lost[e][k] + IF room THEN 0 ELSE 1]
           s == [ses[e] EXCEPT !.held = held]
<1>6. /\ held \in [Kinds -> Nat] /\ held[k] = ses[e].held[k] + (IF room THEN 1 ELSE 0)
      /\ \A h \in Kinds : h # k => held[h] = ses[e].held[h]
  BY <1>1, <1>5, SessionTypes
<1>7. ses' = [ses EXCEPT ![e] = s]
  <2>1. CASE room BY <1>1, <2>1 DEF BufferStream, Update, Sessions
  <2>2. CASE ~room
    <3>1. held = ses[e].held
      <4>1. ses[e].held \in [Kinds -> Nat] BY <1>1, SessionTypes
      <4>2. held[k] = ses[e].held[k] BY <1>5, <1>6, <2>2
      <4> HIDE DEF room
      <4> QED BY <1>6, <4>1, <4>2
    <3> HIDE DEF held
    <3>2. s = ses[e] BY <1>1, <3>1 DEF Sessions
    <3> QED BY <2>2, <3>2 DEF BufferStream, Update
  <2> QED BY <2>1, <2>2
<1>8. net' = [net EXCEPT !.way = way, !.lost = lost] BY <1>1 DEF BufferStream, Nets
<1>9. /\ way \in Grid /\ way[e][k] = net.way[e][k] - 1 /\ way[p] = net.way[p]
      /\ \A h \in Kinds : h # k => way[e][h] = net.way[e][h]
  <2>1. net.way \in Grid /\ net.way[e][k] - 1 \in Nat BY <1>1, <1>3, <1>5 DEF Nets
  <2> QED BY <1>2, <2>1 DEF Grid
<1>10. /\ lost \in Grid /\ lost[e][k] = net.lost[e][k] + (IF room THEN 0 ELSE 1)
       /\ lost[p] = net.lost[p] /\ \A h \in Kinds : h # k => lost[e][h] = net.lost[e][h]
  <2>1. net.lost \in Grid /\ net.lost[e][k] + (IF room THEN 0 ELSE 1) \in Nat BY <1>1, <1>5 DEF Nets
  <2> QED BY <1>2, <2>1 DEF Grid
<1> HIDE DEF room, held, way, lost
<1>11. /\ s \in Sessions /\ s.remote = ses[e].remote /\ s.pend = ses[e].pend
       /\ s.state = ses[e].state /\ s.resets = ses[e].resets /\ s.recv = ses[e].recv
       /\ s.held = held /\ s.sent = ses[e].sent /\ s.streams = ses[e].streams
  BY <1>1, <1>6 DEF Sessions
<1>12. /\ net' \in Nets /\ net'.way = way /\ net'.lost = lost /\ net'.done = net.done
       /\ net'.fault = net.fault /\ net'.due = net.due /\ net'.taken = net.taken
  BY <1>1, <1>8, <1>9, <1>10 DEF Nets
<1> HIDE DEF s
<1>13. ASSUME ses'[e] = s, ses'[p] = ses[p] PROVE Accounts'
  <2>1. ASSUME NEW h \in Kinds PROVE Conserved(e, h)' /\ Conserved(p, h)'
    <3>1. Conserved(e, h) /\ Conserved(p, h) BY AccountFacts
    <3>2. Conserved(e, h)' BY <1>2, <1>9, <1>10, <1>11, <1>12, <1>13, <3>1 DEF Conserved
    <3>3. CASE h = k
      <4>1. held[k] + way[e][k] + lost[e][k] = ses[e].held[k] + net.way[e][k] + net.lost[e][k]
        BY <1>5, <1>6, <1>9, <1>10
      <4>2. held[k] \in Nat /\ way[e][k] \in Nat /\ lost[e][k] \in Nat
        BY <1>6, <1>9, <1>10 DEF Grid
      <4>3. ses[p].sent[k] = ses[e].recv[k].received + way[e][k] + held[k] + lost[e][k]
        BY <1>2, <1>5, <3>1, <3>3, <4>1, <4>2 DEF Conserved
      <4> QED BY <1>2, <1>11, <1>12, <1>13, <3>2, <3>3, <4>3 DEF Conserved
    <3>4. CASE h # k BY <1>2, <1>6, <1>9, <1>10, <1>11, <1>12, <1>13, <3>1, <3>4 DEF Conserved
    <3> QED BY <3>2, <3>3, <3>4
  <2>2. ASSUME NEW h \in Kinds PROVE ReceiverSound(e, h)' /\ ReceiverSound(p, h)'
    BY <1>11, <1>12, <1>13, AccountFacts DEF ReceiverSound
  <2>3. ASSUME NEW h \in Kinds PROVE SenderWithin(e, h)' /\ SenderWithin(p, h)'
    <3>1. SenderWithin(e, h) /\ SenderWithin(p, h) BY AccountFacts
    <3> QED BY <1>2, <1>3, <1>11, <1>13, <3>1 DEF SenderWithin, fc
  <2>4. StreamsCounted(p)' BY <1>2, <1>12, <1>13, AccountFacts DEF StreamsCounted
  <2>5. StreamsCounted(e)' BY <1>11, <1>12, <1>13, AccountFacts DEF StreamsCounted
  <2> QED BY <1>2, <2>1, <2>2, <2>3, <2>4, <2>5, AccountsStep
<1> QED BY <1>2, <1>3, <1>7, <1>11, <1>12, <1>13, DataStep

LEMMA TakeBufferedStreamsInv ==
  ASSUME CreditInv, NEW e \in Ends, TakeBufferedStreams(e)
  PROVE  CreditInv'
<1>1. ses[e] \in Sessions /\ net \in Nets BY StateTypes DEF CreditInv
<1>2. PICK p \in Ends : /\ p = Peer(e) /\ p # e /\ Peer(p) = e
                        /\ \A f \in Ends : f = e \/ f = p BY TwoEnds
<1>3. scope' = scope /\ caps' = caps BY DEF TakeBufferedStreams
<1>4. ses[p] \in Sessions BY <1>2, StateTypes DEF CreditInv
<1>5. \A h \in Kinds : /\ ses[e].recv[h].received \in Nat /\ ses[e].held[h] \in Nat
                       /\ net.way[e][h] \in Nat /\ net.lost[e][h] \in Nat
  BY <1>1, <1>4, SessionTypes, NetTypes
<1> DEFINE held == [h \in Kinds |-> 0]
           row == [h \in Kinds |-> net.way[e][h] + ses[e].held[h]]
           way == [net.way EXCEPT ![e] = row]
           s == [ses[e] EXCEPT !.held = held]
<1>6. row \in [Kinds -> Nat] /\ \A h \in Kinds : row[h] = net.way[e][h] + ses[e].held[h] BY <1>5
<1>7. ses' = [ses EXCEPT ![e] = s] BY DEF TakeBufferedStreams, Update
<1>8. net' = [net EXCEPT !.way = way] BY <1>1 DEF TakeBufferedStreams, Nets
<1> HIDE DEF row
<1>9. way \in Grid /\ way[e] = row /\ way[p] = net.way[p]
  <2>1. net.way \in Grid BY <1>1 DEF Nets
  <2> QED BY <1>2, <1>6, <2>1 DEF Grid
<1>10. held \in [Kinds -> Nat] /\ \A h \in Kinds : held[h] = 0 OBVIOUS
<1> HIDE DEF held, way
<1>11. /\ s \in Sessions /\ s.remote = ses[e].remote /\ s.pend = ses[e].pend
       /\ s.state = ses[e].state /\ s.resets = ses[e].resets /\ s.recv = ses[e].recv
       /\ s.held = held /\ s.sent = ses[e].sent /\ s.streams = ses[e].streams
  BY <1>1, <1>10 DEF Sessions
<1>12. /\ net' \in Nets /\ net'.way = way /\ net'.lost = net.lost /\ net'.done = net.done
       /\ net'.fault = net.fault /\ net'.due = net.due /\ net'.taken = net.taken
  BY <1>1, <1>8, <1>9 DEF Nets
<1> HIDE DEF s
<1>13. ASSUME ses'[e] = s, ses'[p] = ses[p] PROVE Accounts'
  <2>1. ASSUME NEW h \in Kinds PROVE Conserved(e, h)' /\ Conserved(p, h)'
    <3>1. Conserved(e, h) /\ Conserved(p, h) BY AccountFacts
    <3>2. Conserved(e, h)' BY <1>2, <1>9, <1>11, <1>12, <1>13, <3>1 DEF Conserved
    <3>3. ses[p].sent[h] = ses[e].recv[h].received + way[e][h] + held[h] + net.lost[e][h]
      BY <1>2, <1>5, <1>6, <1>9, <1>10, <3>1 DEF Conserved
    <3> QED BY <1>2, <1>11, <1>12, <1>13, <3>2, <3>3 DEF Conserved
  <2>2. ASSUME NEW h \in Kinds PROVE ReceiverSound(e, h)' /\ ReceiverSound(p, h)'
    BY <1>11, <1>12, <1>13, AccountFacts DEF ReceiverSound
  <2>3. ASSUME NEW h \in Kinds PROVE SenderWithin(e, h)' /\ SenderWithin(p, h)'
    <3>1. SenderWithin(e, h) /\ SenderWithin(p, h) BY AccountFacts
    <3> QED BY <1>2, <1>3, <1>11, <1>13, <3>1 DEF SenderWithin, fc
  <2>4. StreamsCounted(p)' BY <1>2, <1>12, <1>13, AccountFacts DEF StreamsCounted
  <2>5. StreamsCounted(e)' BY <1>11, <1>12, <1>13, AccountFacts DEF StreamsCounted
  <2> QED BY <1>2, <2>1, <2>2, <2>3, <2>4, <2>5, AccountsStep
<1> QED BY <1>2, <1>3, <1>7, <1>11, <1>12, <1>13, DataStep

(* Giving credit back never lowers the maximum, and never raises it above  *)
(* the window on top of what was given back, or above the cap.             *)
LEMMA ReturnedFacts ==
  ASSUME NEW f \in FlowControl, NEW cap \in Nat \cup {NoCap}, f.advertised <= f.returned + f.window,
         NEW g, g = Returned(f, 1, cap)
  PROVE  /\ g \in FlowControl /\ g.window = f.window /\ g.received = f.received
         /\ g.returned = f.returned + 1
         /\ f.advertised <= g.advertised /\ g.advertised <= g.returned + g.window
         /\ cap # NoCap /\ f.advertised <= cap => g.advertised <= cap
<1> DEFINE back == [f EXCEPT !.returned = f.returned + 1]
<1>1. /\ f.window \in Nat /\ f.advertised \in Nat /\ f.returned \in Nat /\ f.received \in Nat
  BY DEF FlowControl
<1>2. /\ back \in FlowControl /\ back.window = f.window /\ back.received = f.received
      /\ back.returned = f.returned + 1 /\ back.advertised = f.advertised
  BY <1>1 DEF FlowControl
<1> DEFINE m == NewMaximum(back, cap)
<1>3. /\ m \in Nat /\ m <= back.returned + back.window /\ (cap # NoCap => m <= cap)
  BY <1>1, <1>2 DEF NewMaximum, Capped, NoCap
<1> HIDE DEF m
<1>4. CASE Updates(back, cap)
  <2>1. m > back.advertised BY <1>4 DEF Updates, m
  <2>2. g = [back EXCEPT !.advertised = m] BY <1>4 DEF Returned, m
  <2> HIDE DEF back
  <2>3. /\ g \in FlowControl /\ g.window = back.window /\ g.received = back.received
        /\ g.returned = back.returned /\ g.advertised = m
    BY <1>2, <1>3, <2>2 DEF FlowControl
  <2> QED BY <1>1, <1>2, <1>3, <2>1, <2>3
<1>5. CASE ~Updates(back, cap)
  <2>1. g = back BY <1>5 DEF Returned
  <2> HIDE DEF back
  <2> QED BY <1>1, <1>2, <2>1
<1> QED BY <1>4, <1>5

\* The Session of e once its application is done with one more of kind k.
AfterRelease(e, k) ==
    [Released(ses[e], k, 1) EXCEPT !.streams = @ - IF k = "data" THEN 0 ELSE 1]

(* What Release does to the Session: it may raise the maximum.             *)
LEMMA ReleasedFacts ==
  ASSUME CreditInv, NEW e \in Ends, NEW k \in Kinds, Release(e, k, 1), NEW s,
         s = AfterRelease(e, k)
  PROVE  /\ s \in Sessions /\ s.remote = ses[e].remote /\ s.sent = ses[e].sent
         /\ s.state = ses[e].state /\ s.resets = ses[e].resets /\ s.held = ses[e].held
         /\ s.streams = ses[e].streams - (IF k = "data" THEN 0 ELSE 1)
         /\ \A h \in Kinds : h # k => s.recv[h] = ses[e].recv[h]
         /\ s.recv[k].window = ses[e].recv[k].window
         /\ s.recv[k].received = ses[e].recv[k].received
         /\ s.recv[k].returned = ses[e].recv[k].returned + (IF fc /\ ~Closed(ses[e]) THEN 1 ELSE 0)
         /\ ses[e].recv[k].advertised <= s.recv[k].advertised
         /\ s.recv[k].advertised <= s.recv[k].returned + s.recv[k].window
         /\ k # "data" => s.recv[k].advertised <= MaxStreamsLimit
         /\ IF s.recv[k].advertised = ses[e].recv[k].advertised THEN s.pend = ses[e].pend
            ELSE /\ s.pend = Append(ses[e].pend, Max(k, s.recv[k].advertised))
                 /\ fc /\ ~Closed(ses[e])
<1> DEFINE f == ses[e].recv[k]
           g == IF k = "data" THEN OnDataConsumed(f, 1) ELSE OnStreamClosed(f)
           cap == IF k = "data" THEN NoCap ELSE MaxStreamsLimit
           recv == [ses[e].recv EXCEPT ![k] = g]
           streams == ses[e].streams - IF k = "data" THEN 0 ELSE 1
<1>1. ses[e] \in Sessions /\ net \in Nets BY StateTypes DEF CreditInv
<1>2. ReceiverSound(e, k) BY AccountFacts
<1>3. f \in FlowControl /\ cap \in Nat \cup {NoCap} BY <1>1, SessionTypes, MaxStreamsLimitAssumption
<1>4. f.advertised <= f.returned + f.window /\ (k # "data" => f.advertised <= MaxStreamsLimit)
  BY <1>2 DEF ReceiverSound
<1>5. g = Returned(f, 1, cap) BY DEF OnDataConsumed, OnStreamClosed
<1>6. streams \in Nat
  <2>1. \A h \in Kinds : /\ ses[e].sent[h] \in Nat /\ ses[e].recv[h].received \in Nat
                         /\ net.done[e][h] \in Nat /\ net.done[e][h] <= ses[e].recv[h].received
    BY <1>1, SessionTypes, NetTypes, AccountFacts DEF ReceiverSound
  <2>2. net.done[e][k] + 1 <= ses[e].recv[k].received BY DEF Release
  <2>3. ses[e].streams = ses[e].sent["uni"] + ses[e].sent["bidi"]
              + (ses[e].recv["uni"].received - net.done[e]["uni"])
              + (ses[e].recv["bidi"].received - net.done[e]["bidi"])
    BY AccountFacts DEF StreamsCounted
  <2> QED BY <2>1, <2>2, <2>3 DEF Kinds
<1> HIDE DEF g
<1>7. /\ g \in FlowControl /\ g.window = f.window /\ g.received = f.received
      /\ g.returned = f.returned + 1
      /\ f.advertised <= g.advertised /\ g.advertised <= g.returned + g.window
      /\ k # "data" => g.advertised <= MaxStreamsLimit
  <2>1. /\ g \in FlowControl /\ g.window = f.window /\ g.received = f.received
        /\ g.returned = f.returned + 1
        /\ f.advertised <= g.advertised /\ g.advertised <= g.returned + g.window
        /\ cap # NoCap /\ f.advertised <= cap => g.advertised <= cap
    <3> HIDE DEF f, cap
    <3> QED BY <1>3, <1>4, <1>5, ReturnedFacts
  <2>2. k # "data" => cap # NoCap /\ cap = MaxStreamsLimit BY MaxStreamsLimitAssumption DEF NoCap
  <2> QED BY <1>4, <2>1, <2>2
<1>8. /\ recv \in [Kinds -> FlowControl] /\ recv[k] = g
      /\ \A h \in Kinds : h # k => recv[h] = ses[e].recv[h]
  BY <1>1, <1>7, SessionTypes
<1> HIDE DEF streams
<1>9. CASE ~fc \/ Closed(ses[e])
  <2>1. s = [ses[e] EXCEPT !.streams = streams] BY <1>9 DEF AfterRelease, Released, streams
  <2>2. /\ s \in Sessions /\ s.remote = ses[e].remote /\ s.sent = ses[e].sent
        /\ s.state = ses[e].state /\ s.resets = ses[e].resets /\ s.held = ses[e].held
        /\ s.streams = streams /\ s.recv = ses[e].recv /\ s.pend = ses[e].pend
    BY <1>1, <1>6, <2>1 DEF Sessions
  <2>3. f.returned \in Nat /\ f.advertised \in Nat BY <1>3 DEF FlowControl
  <2> QED BY <1>4, <1>9, <2>2, <2>3 DEF streams
<1>10. CASE fc /\ ~Closed(ses[e]) /\ g.advertised = f.advertised
  <2>1. s = [ses[e] EXCEPT !.recv = recv, !.streams = streams]
    BY <1>1, <1>10 DEF AfterRelease, Released, streams, g, Sessions
  <2> HIDE DEF recv
  <2>2. /\ s \in Sessions /\ s.remote = ses[e].remote /\ s.sent = ses[e].sent
        /\ s.state = ses[e].state /\ s.resets = ses[e].resets /\ s.held = ses[e].held
        /\ s.streams = streams /\ s.recv = recv /\ s.pend = ses[e].pend
    BY <1>1, <1>6, <1>8, <2>1 DEF Sessions
  <2> QED BY <1>7, <1>8, <1>10, <2>2 DEF streams
<1>11. CASE fc /\ ~Closed(ses[e]) /\ g.advertised # f.advertised
  <2> DEFINE c == Max(k, g.advertised)
             pend == Append(ses[e].pend, c)
  <2>1. s = [ses[e] EXCEPT !.recv = recv, !.pend = pend, !.streams = streams]
    BY <1>1, <1>11 DEF AfterRelease, Released, streams, g, Sessions
  <2>2. pend \in Seq(Capsules)
    <3>1. c \in Capsules BY <1>7 DEF Max, Capsules, FlowControl
    <3> HIDE DEF c
    <3> QED BY <1>1, <3>1 DEF Sessions
  <2> HIDE DEF recv, pend
  <2>3. /\ s \in Sessions /\ s.remote = ses[e].remote /\ s.sent = ses[e].sent
        /\ s.state = ses[e].state /\ s.resets = ses[e].resets /\ s.held = ses[e].held
        /\ s.streams = streams /\ s.recv = recv /\ s.pend = pend
    BY <1>1, <1>6, <1>8, <2>1, <2>2 DEF Sessions
  <2> QED BY <1>7, <1>8, <1>11, <2>3 DEF streams, pend
<1> QED BY <1>9, <1>10, <1>11

LEMMA ReleaseInv ==
  ASSUME CreditInv, NEW e \in Ends, NEW k \in Kinds, Release(e, k, 1)
  PROVE  CreditInv'
<1>0. PICK s : s = AfterRelease(e, k) OBVIOUS
<1> DEFINE done == [net.done EXCEPT ![e][k] = net.done[e][k] + 1]
<1>1. ses[e] \in Sessions /\ net \in Nets BY StateTypes DEF CreditInv
<1>2. PICK p \in Ends : /\ p = Peer(e) /\ p # e /\ Peer(p) = e
                        /\ \A f \in Ends : f = e \/ f = p BY TwoEnds
<1>3. /\ scope' = scope /\ caps' = caps /\ net.done[e][k] + 1 <= ses[e].recv[k].received
      /\ ses' = [ses EXCEPT ![e] = s]
  BY <1>0 DEF Release, Update, AfterRelease
<1>4. ses[p] \in Sessions BY <1>2, StateTypes DEF CreditInv
<1>5. \A h \in Kinds : /\ net.done[e][h] \in Nat /\ ses[e].sent[h] \in Nat
                       /\ ses[e].recv[h] \in FlowControl /\ ses[e].recv[h].received \in Nat
                       /\ ses[e].recv[h].advertised \in Nat /\ ses[e].recv[h].returned \in Nat
                       /\ ses[p].remote[h] \in Nat
  BY <1>1, <1>4, SessionTypes, NetTypes
<1>6. net' = [net EXCEPT !.done = done] BY <1>1 DEF Release, Nets
<1>7. /\ done \in Grid /\ done[e][k] = net.done[e][k] + 1 /\ done[p] = net.done[p]
      /\ \A h \in Kinds : h # k => done[e][h] = net.done[e][h]
  <2>1. net.done \in Grid /\ net.done[e][k] + 1 \in Nat BY <1>1, <1>5 DEF Nets
  <2> QED BY <1>2, <2>1 DEF Grid
<1> HIDE DEF done
<1>8. /\ net' \in Nets /\ net'.way = net.way /\ net'.lost = net.lost /\ net'.done = done
      /\ net'.fault = net.fault /\ net'.due = net.due /\ net'.taken = net.taken
  BY <1>1, <1>6, <1>7 DEF Nets
<1>9. /\ s \in Sessions /\ s.remote = ses[e].remote /\ s.sent = ses[e].sent
      /\ s.state = ses[e].state /\ s.resets = ses[e].resets /\ s.held = ses[e].held
      /\ s.streams = ses[e].streams - (IF k = "data" THEN 0 ELSE 1)
  BY <1>0, ReleasedFacts
<1>10. /\ \A h \in Kinds : h # k => s.recv[h] = ses[e].recv[h]
       /\ s.recv[k].window = ses[e].recv[k].window
       /\ s.recv[k].received = ses[e].recv[k].received
       /\ s.recv[k].returned = ses[e].recv[k].returned + (IF fc /\ ~Closed(ses[e]) THEN 1 ELSE 0)
       /\ ses[e].recv[k].advertised <= s.recv[k].advertised
       /\ s.recv[k].advertised <= s.recv[k].returned + s.recv[k].window
       /\ k # "data" => s.recv[k].advertised <= MaxStreamsLimit
  BY <1>0, ReleasedFacts
<1>11. IF s.recv[k].advertised = ses[e].recv[k].advertised THEN s.pend = ses[e].pend
       ELSE /\ s.pend = Append(ses[e].pend, Max(k, s.recv[k].advertised))
            /\ fc /\ ~Closed(ses[e])
  BY <1>0, ReleasedFacts
<1>12. \A h \in Kinds : /\ s.recv[h] \in FlowControl /\ s.recv[h].advertised \in Nat
                        /\ ses[e].recv[h].advertised <= s.recv[h].advertised
  <2>1. \A h \in Kinds : s.recv[h] \in FlowControl /\ s.recv[h].advertised \in Nat
    BY <1>9, SessionTypes
  <2> QED BY <1>5, <1>10, <2>1
<1>13. Types /\ Types' /\ ses'[e] = s /\ ses'[p] = ses[p]
  <2>1. Types BY DEF CreditInv
  <2>2. \A h \in {"uni", "bidi"} : s.recv[h].advertised <= MaxStreamsLimit
    BY <1>10, <2>1 DEF Types, AccountsAgree, TypeOK, Kinds
  <2>3. \A f \in Ends : ~net'.fault[f] BY <1>8, <2>1 DEF Types, AccountsAgree, NoFalseFlowControlError
  <2>4. caps' \in [Ends -> Seq(Capsules)] BY <1>3, <2>1, StateTypes
  <2> QED BY <1>2, <1>3, <1>8, <1>9, <2>1, <2>2, <2>3, <2>4, TypesStep
<1>14. Accounts'
  <2>1. ASSUME NEW h \in Kinds PROVE Conserved(e, h)' /\ Conserved(p, h)'
    <3>1. Conserved(e, h) /\ Conserved(p, h) BY AccountFacts
    <3>2. s.recv[h].received = ses[e].recv[h].received BY <1>10
    <3> QED BY <1>2, <1>8, <1>9, <1>13, <3>1, <3>2 DEF Conserved
  <2>2. ASSUME NEW h \in Kinds PROVE ReceiverSound(e, h)' /\ ReceiverSound(p, h)'
    <3>1. ReceiverSound(e, h) /\ ReceiverSound(p, h) BY AccountFacts
    <3>2. ReceiverSound(p, h)' BY <1>7, <1>8, <1>13, <3>1 DEF ReceiverSound
    <3>3. CASE h # k BY <1>7, <1>8, <1>10, <1>13, <3>1, <3>2, <3>3 DEF ReceiverSound
    <3>4. CASE h = k
      BY <1>3, <1>5, <1>7, <1>8, <1>10, <1>13, <3>1, <3>2, <3>4 DEF ReceiverSound
    <3> QED BY <3>3, <3>4
  <2>3. ASSUME NEW h \in Kinds PROVE SenderWithin(e, h)' /\ SenderWithin(p, h)'
    <3>1. SenderWithin(e, h) /\ SenderWithin(p, h) BY AccountFacts
    <3>2. SenderWithin(e, h)' BY <1>2, <1>3, <1>9, <1>13, <3>1 DEF SenderWithin, fc
    <3>3. SenderWithin(p, h)' BY <1>2, <1>3, <1>5, <1>12, <1>13, <3>1 DEF SenderWithin, fc
    <3> QED BY <3>2, <3>3
  <2>4. StreamsCounted(p)' BY <1>2, <1>7, <1>8, <1>13, AccountFacts DEF StreamsCounted
  <2>5. StreamsCounted(e)'
    <3>1. ses[e].streams = ses[e].sent["uni"] + ses[e].sent["bidi"]
                + (ses[e].recv["uni"].received - net.done[e]["uni"])
                + (ses[e].recv["bidi"].received - net.done[e]["bidi"])
      BY AccountFacts DEF StreamsCounted
    <3>2. \A h \in Kinds : s.recv[h].received = ses[e].recv[h].received BY <1>10
    <3>3. s.streams = s.sent["uni"] + s.sent["bidi"]
                + (s.recv["uni"].received - done[e]["uni"])
                + (s.recv["bidi"].received - done[e]["bidi"])
      BY <1>5, <1>7, <1>9, <3>1, <3>2 DEF Kinds
    <3> QED BY <1>8, <1>13, <3>3 DEF StreamsCounted
  <2> QED BY <1>2, <2>1, <2>2, <2>3, <2>4, <2>5, AccountsStep
<1>15. \A f \in Ends : ResetsCounted(f)' BY <1>2, <1>8, <1>9, <1>13 DEF CreditInv, ResetsCounted, Closed
<1>16. QueueSound(e)'
  <2>1. Inflight(e)' = Inflight(e) BY <1>2, <1>3, <1>13 DEF Inflight
  <2>2. QueueSound(e) BY DEF CreditInv
  <2> QED BY <1>2, <1>3, <1>9, <1>13, <2>1, <2>2 DEF QueueSound, fc, Closed
<1>17. QueueSound(p)'
  <2> DEFINE q == Inflight(p)
  <2>1. QueueSound(p) BY DEF CreditInv
  <2>2. caps[p] \in Seq(Capsules) /\ ses[e].pend \in Seq(Capsules)
    BY <1>1, <1>13, StateTypes, SessionTypes
  <2>3. q = caps[p] \o ses[e].pend BY <1>2 DEF Inflight
  <2> HIDE DEF q
  <2>4. q \in Seq(Capsules) BY <2>2, <2>3, QueueMoves
  <2>5. ses[e].recv \in [Kinds -> FlowControl] /\ s.recv \in [Kinds -> FlowControl]
    BY <1>1, <1>9, SessionTypes
  <2>6. fc => MaximaRise(q, ses[p].remote, ses[e].recv) BY <1>2, <2>1 DEF QueueSound, q
  <2>7. fc => MaximaRise(q, ses[p].remote, s.recv) BY <1>12, <2>4, <2>5, <2>6, RiseGrows
  <2>8. CloseEnds(q, Closed(ses[e])) BY <1>2, <2>1 DEF QueueSound, q
  <2>9. CASE s.recv[k].advertised = ses[e].recv[k].advertised
    <3>1. Inflight(p)' = q BY <1>2, <1>3, <1>11, <1>13, <2>3, <2>9 DEF Inflight
    <3> QED BY <1>2, <1>3, <1>9, <1>13, <2>7, <2>8, <3>1 DEF QueueSound, fc, Closed
  <2>10. CASE s.recv[k].advertised # ses[e].recv[k].advertised
    <3> DEFINE c == Max(k, s.recv[k].advertised)
    <3>1. c \in Capsules /\ c.type = "max" /\ c.kind = k /\ c.maximum = s.recv[k].advertised
      BY <1>12 DEF Max, Capsules
    <3>2. s.pend = Append(ses[e].pend, c) /\ fc /\ ~Closed(ses[e]) BY <1>11, <2>10
    <3> HIDE DEF c
    <3>3. Inflight(p)' = Append(q, c)
      <4>1. Inflight(p)' = caps[p] \o Append(ses[e].pend, c) BY <1>2, <1>3, <1>13, <3>2 DEF Inflight
      <4>2. caps[p] \o Append(ses[e].pend, c) = Append(caps[p] \o ses[e].pend, c)
        BY ZenonT(30), <2>2, <3>1, QueueMoves
      <4> QED BY <2>3, <4>1, <4>2
    <3>4. ses[e].recv[k].advertised < s.recv[k].advertised BY <1>5, <1>12, <2>10
    <3>5. ses[p].remote[k] < c.maximum
      <4>1. SenderWithin(p, k) BY AccountFacts
      <4> QED BY <1>2, <1>5, <1>12, <3>1, <3>2, <3>4, <4>1 DEF SenderWithin
    <3>6. ASSUME NEW i \in 1 .. Len(q), q[i].type = "max", q[i].kind = k
          PROVE  q[i].maximum < c.maximum
      <4>1. q[i].maximum <= ses[e].recv[k].advertised BY <2>6, <3>2, <3>6 DEF MaximaRise
      <4>2. q[i] \in Capsules BY <2>4, ElementOfSeq
      <4>3. q[i].maximum \in Nat BY <4>2 DEF Capsules
      <4> QED BY <1>5, <1>12, <3>1, <3>4, <4>1, <4>3
    <3>7. c.maximum <= s.recv[c.kind].advertised BY <1>12, <3>1
    <3>8. MaximaRise(Append(q, c), ses[p].remote, s.recv)
      BY <2>4, <2>7, <3>1, <3>2, <3>5, <3>6, <3>7, RiseAppend
    <3>9. CloseEnds(Append(q, c), Closed(s))
      <4>1. CloseEnds(q, FALSE) BY <2>8, <3>2 DEF Closed
      <4>2. Closed(s) \in BOOLEAN BY DEF Closed
      <4> QED BY <2>4, <3>1, <4>1, <4>2, CloseAppend
    <3> QED BY <1>2, <1>3, <1>13, <3>3, <3>8, <3>9 DEF QueueSound, fc, Closed
  <2> QED BY <2>9, <2>10
<1> QED BY <1>2, <1>13, <1>14, <1>15, <1>16, <1>17 DEF CreditInv

LEMMA TakePendingCapsulesInv ==
  ASSUME CreditInv, NEW e \in Ends, TakePendingCapsules(e)
  PROVE  CreditInv'
<1>1. /\ ses[e] \in Sessions /\ caps \in [Ends -> Seq(Capsules)] /\ Types /\ Accounts /\ net \in Nets
  BY StateTypes DEF CreditInv
<1>2. PICK p \in Ends : /\ p = Peer(e) /\ p # e /\ Peer(p) = e
                        /\ \A f \in Ends : f = e \/ f = p BY TwoEnds
<1>0. PICK none \in Seq(Capsules) : none = <<>> BY EmptySeq
<1> DEFINE s == [ses[e] EXCEPT !.pend = none]
           q == caps[p] \o ses[e].pend
<1>3. /\ scope' = scope /\ net' = net /\ ses' = [ses EXCEPT ![e] = s]
      /\ caps' = [caps EXCEPT ![p] = q]
  BY <1>0, <1>2 DEF TakePendingCapsules, Update
<1>4. /\ s \in Sessions /\ s.remote = ses[e].remote /\ s.sent = ses[e].sent
      /\ s.state = ses[e].state /\ s.resets = ses[e].resets /\ s.held = ses[e].held
      /\ s.streams = ses[e].streams /\ s.recv = ses[e].recv /\ s.pend = none
  BY <1>1 DEF Sessions
<1>5. caps[p] \in Seq(Capsules) /\ ses[e].pend \in Seq(Capsules) BY <1>1, SessionTypes
<1>6. q \in Seq(Capsules) /\ q \o <<>> = q BY <1>5, QueueMoves
<1>7. q = Inflight(p) BY <1>2 DEF Inflight
<1> HIDE DEF s, q
<1>8. caps' \in [Ends -> Seq(Capsules)] /\ caps'[p] = q /\ caps'[e] = caps[e] BY <1>1, <1>2, <1>3, <1>6
<1>9. Types' /\ ses'[e] = s /\ ses'[p] = ses[p]
  <2>1. \A h \in {"uni", "bidi"} : s.recv[h].advertised <= MaxStreamsLimit
    BY <1>1, <1>4 DEF Types, AccountsAgree, TypeOK
  <2>2. \A f \in Ends : ~net'.fault[f] BY <1>1, <1>3 DEF Types, AccountsAgree, NoFalseFlowControlError
  <2> QED BY ZenonT(30), <1>1, <1>2, <1>3, <1>4, <1>8, <2>1, <2>2, TypesStep
<1>10. Accounts' BY <1>1, <1>2, <1>3, <1>4, <1>9, AccountsFrame
<1>11. \A f \in Ends : ResetsCounted(f)' BY <1>2, <1>3, <1>4, <1>9 DEF CreditInv, ResetsCounted, Closed
<1>12. QueueSound(e) /\ QueueSound(p) BY DEF CreditInv
<1>13. QueueSound(e)'
  <2>1. Inflight(e)' = Inflight(e) BY <1>2, <1>8, <1>9 DEF Inflight
  <2> QED BY <1>2, <1>3, <1>4, <1>9, <1>12, <2>1 DEF QueueSound, fc, Closed
<1>14. QueueSound(p)'
  <2>1. Inflight(p)' = Inflight(p) BY <1>0, <1>2, <1>4, <1>6, <1>7, <1>8, <1>9 DEF Inflight
  <2> QED BY <1>2, <1>3, <1>4, <1>9, <1>12, <2>1 DEF QueueSound, fc, Closed
<1> QED BY <1>2, <1>9, <1>10, <1>11, <1>13, <1>14 DEF CreditInv

(* No capsule of a Session is refused by the other.                        *)
LEMMA Accepted ==
  ASSUME CreditInv, NEW e \in Ends, caps[e] # <<>>
  PROVE  /\ Head(caps[e]) \in Capsules /\ Head(caps[e]) = Inflight(e)[1]
         /\ Inflight(e) \in Seq(Capsules) /\ Inflight(e) # <<>> /\ 1 \in 1 .. Len(Inflight(e))
         /\ Tail(caps[e]) \o ses[Peer(e)].pend = Tail(Inflight(e))
         /\ Tail(caps[e]) \in Seq(Capsules)
         /\ ~Refuses(ses[e], Head(caps[e]))
<1>1. PICK p \in Ends : p = Peer(e) BY TwoEnds
<1>2. caps[e] \in Seq(Capsules) /\ ses[e] \in Sessions /\ ses[p] \in Sessions BY StateTypes DEF CreditInv
<1>3. ses[p].pend \in Seq(Capsules) BY <1>2, SessionTypes
<1> DEFINE q == caps[e] \o ses[p].pend
           c == Head(caps[e])
<1>4. q = Inflight(e) BY <1>1 DEF Inflight
<1>5. /\ q \in Seq(Capsules) /\ Tail(caps[e]) \o ses[p].pend = Tail(q) /\ c = q[1] /\ q # <<>>
      /\ c \in Capsules /\ Tail(caps[e]) \in Seq(Capsules)
  BY <1>2, <1>3, QueueMoves
<1> HIDE DEF q, c
<1>6. 1 \in 1 .. Len(q) BY <1>5
<1>7. ~Refuses(ses[e], c)
  <2>1. /\ fc => MaximaRise(q, ses[e].remote, ses[p].recv)
        /\ CloseEnds(q, Closed(ses[p]))
    BY <1>1, <1>4 DEF CreditInv, QueueSound
  <2>2. c.type # "prohibited" BY <1>5, <1>6, <2>1 DEF CloseEnds
  <2>3. c.kind \in Kinds /\ c.maximum \in Nat BY <1>5 DEF Capsules
  <2>4. /\ ses[e].remote[c.kind] \in Nat /\ ses[p].recv[c.kind].advertised \in Nat
        /\ c.kind # "data" => ses[p].recv[c.kind].advertised <= MaxStreamsLimit
    <3>1. ReceiverSound(p, c.kind) BY <2>3, AccountFacts
    <3> QED BY <1>2, <2>3, <3>1, SessionTypes DEF ReceiverSound
  <2>5. fc => /\ c.type = "max" => /\ ses[e].remote[c.kind] < c.maximum
                                   /\ c.maximum <= ses[p].recv[c.kind].advertised
              /\ c.type = "blocked" /\ c.kind # "data" => c.maximum <= MaxStreamsLimit
    BY <1>5, <1>6, <2>1 DEF MaximaRise
  <2> QED BY <2>2, <2>3, <2>4, <2>5, MaxStreamsLimitAssumption DEF Refuses
<1> QED BY <1>1, <1>4, <1>5, <1>6, <1>7 DEF c

\* The maxima of a Session once it has processed capsule c.
Maxima(s, c) ==
    IF c.type = "max" /\ fc THEN [s.remote EXCEPT ![c.kind] = c.maximum] ELSE s.remote

LEMMA ProcessedFacts ==
  ASSUME CreditInv, NEW e \in Ends, NEW c \in Capsules, NEW s, s = Processed(ses[e], c)
  PROVE  /\ s \in Sessions /\ s.sent = ses[e].sent /\ s.held = ses[e].held
         /\ s.streams = ses[e].streams /\ s.recv = ses[e].recv /\ s.pend = ses[e].pend
         /\ s.remote = Maxima(ses[e], c)
         /\ Closed(ses[e]) => Closed(s)
         /\ s.resets = IF Closed(s) /\ ~Closed(ses[e]) THEN ses[e].streams ELSE ses[e].resets
<1>1. ses[e] \in Sessions BY StateTypes DEF CreditInv
<1>2. c.kind \in Kinds /\ c.maximum \in Nat BY DEF Capsules
<1>3. CASE c.type = "close"
  <2>1. s = Close([ses[e] EXCEPT !.closeReceived = TRUE]) BY <1>3 DEF Processed
  <2> QED BY <1>1, <1>3, <2>1 DEF Close, Closed, Sessions, Maxima
<1>4. CASE c.type = "drain"
  <2>1. s = SetDraining(ses[e]) BY <1>4 DEF Processed
  <2> QED BY ZenonT(30), <1>1, <1>4, <2>1 DEF SetDraining, Closed, Sessions, Maxima
<1>5. CASE c.type = "max" /\ fc
  <2> DEFINE remote == [ses[e].remote EXCEPT ![c.kind] = c.maximum]
             blocked == [ses[e].blocked EXCEPT ![c.kind] = None]
  <2>1. s = [ses[e] EXCEPT !.remote = remote, !.blocked = blocked]
    BY <1>1, <1>5 DEF Processed, Sessions
  <2>2. remote \in [Kinds -> Nat] /\ blocked \in [Kinds -> Nat \cup {None}]
    BY <1>1, <1>2, SessionTypes
  <2>3. c.type # "close" BY <1>5
  <2> HIDE DEF blocked, remote
  <2>4. /\ s \in Sessions /\ s.sent = ses[e].sent /\ s.held = ses[e].held
        /\ s.streams = ses[e].streams /\ s.recv = ses[e].recv /\ s.pend = ses[e].pend
        /\ s.state = ses[e].state /\ s.resets = ses[e].resets /\ s.remote = remote
    BY <1>1, <2>1, <2>2 DEF Sessions
  <2> QED BY <1>5, <2>4 DEF Closed, remote, Maxima
<1>6. CASE c.type \notin {"close", "drain"} /\ ~(c.type = "max" /\ fc)
  <2>1. s = ses[e] BY <1>6 DEF Processed
  <2> QED BY <1>1, <1>6, <2>1 DEF Maxima
<1> QED BY <1>3, <1>4, <1>5, <1>6

LEMMA ProcessCapsuleInv ==
  ASSUME CreditInv, NEW e \in Ends, ProcessCapsule(e)
  PROVE  CreditInv'
<1>1. /\ ses[e] \in Sessions /\ caps \in [Ends -> Seq(Capsules)] /\ Types /\ Accounts /\ net \in Nets
  BY StateTypes DEF CreditInv
<1>2. PICK p \in Ends : /\ p = Peer(e) /\ p # e /\ Peer(p) = e
                        /\ \A f \in Ends : f = e \/ f = p BY TwoEnds
<1>3. PICK c : c = Head(caps[e]) OBVIOUS
<1>4. PICK s : s = Processed(ses[e], c) OBVIOUS
<1>5. PICK q : q = Inflight(e) OBVIOUS
<1>6. caps[e] # <<>> BY DEF ProcessCapsule
<1>7. /\ c \in Capsules /\ c = q[1] /\ q \in Seq(Capsules) /\ q # <<>> /\ 1 \in 1 .. Len(q)
      /\ Tail(caps[e]) \o ses[p].pend = Tail(q) /\ Tail(caps[e]) \in Seq(Capsules)
      /\ ~Refuses(ses[e], c)
  BY <1>2, <1>3, <1>5, <1>6, Accepted
<1>8. /\ scope' = scope /\ ses' = [ses EXCEPT ![e] = s] /\ caps' = [caps EXCEPT ![e] = Tail(caps[e])]
      /\ net' = [Due(e, s) EXCEPT !.fault[e] = @ \/ FALSE]
  BY <1>3, <1>4, <1>7 DEF ProcessCapsule, Update
<1>9. /\ s \in Sessions /\ s.sent = ses[e].sent /\ s.held = ses[e].held
      /\ s.streams = ses[e].streams /\ s.recv = ses[e].recv /\ s.pend = ses[e].pend
      /\ s.remote = Maxima(ses[e], c)
      /\ Closed(ses[e]) => Closed(s)
      /\ s.resets = IF Closed(s) /\ ~Closed(ses[e]) THEN ses[e].streams ELSE ses[e].resets
  BY <1>4, <1>7, ProcessedFacts
<1>10. /\ net' \in Nets /\ net'.way = net.way /\ net'.lost = net.lost /\ net'.done = net.done
       /\ net'.fault = net.fault /\ net'.taken = net.taken /\ net'.due[p] = net.due[p]
       /\ Closed(s) => s.resets + net'.taken[e] = net'.due[e]
  <2>1. [net.fault EXCEPT ![e] = net.fault[e] \/ FALSE] = net.fault BY NoFault
  <2>2. ResetsCounted(e) BY DEF CreditInv
  <2>3. CASE Closed(s) /\ ~Closed(ses[e])
    <3> DEFINE due == [net.due EXCEPT ![e] = s.resets]
    <3>1. s.resets \in Nat /\ net.due \in Tally BY <1>1, <1>9, SessionTypes DEF Nets
    <3>2. due \in Tally /\ due[e] = s.resets /\ due[p] = net.due[p] BY <1>2, <3>1, TallyStep
    <3>3. Due(e, s) = [net EXCEPT !.due = due] BY <1>1, <2>3 DEF Due, Nets
    <3> HIDE DEF due
    <3>4. net' = [net EXCEPT !.due = due, !.fault = [net.fault EXCEPT ![e] = net.fault[e] \/ FALSE]]
      BY <1>1, <1>8, <3>3 DEF Nets
    <3>5. net' = [net EXCEPT !.due = due] BY <1>1, <2>1, <3>4 DEF Nets
    <3>6. net.taken[e] = 0 BY <2>2, <2>3 DEF ResetsCounted
    <3>7. /\ net' \in Nets /\ net'.way = net.way /\ net'.lost = net.lost /\ net'.done = net.done
          /\ net'.fault = net.fault /\ net'.taken = net.taken /\ net'.due = due
      BY <1>1, <3>2, <3>5 DEF Nets
    <3> QED BY <3>1, <3>2, <3>6, <3>7
  <2>4. CASE ~(Closed(s) /\ ~Closed(ses[e]))
    <3>1. net' = [net EXCEPT !.fault = [net.fault EXCEPT ![e] = net.fault[e] \/ FALSE]]
      BY <1>1, <1>8, <2>4 DEF Due, Nets
    <3>2. net' = net BY <1>1, <2>1, <3>1 DEF Nets
    <3> QED BY <1>1, <1>9, <2>2, <2>4, <3>2 DEF ResetsCounted
  <2> QED BY <2>3, <2>4
<1>11. /\ caps' \in [Ends -> Seq(Capsules)] /\ caps'[p] = caps[p] /\ caps'[e] = Tail(caps[e])
  BY <1>1, <1>2, <1>7, <1>8
<1>12. Types' /\ ses'[e] = s /\ ses'[p] = ses[p]
  <2>1. \A h \in {"uni", "bidi"} : s.recv[h].advertised <= MaxStreamsLimit
    BY <1>1, <1>9 DEF Types, AccountsAgree, TypeOK
  <2>2. \A f \in Ends : ~net'.fault[f] BY <1>1, <1>10 DEF Types, AccountsAgree, NoFalseFlowControlError
  <2> QED BY ZenonT(30), <1>1, <1>2, <1>8, <1>9, <1>10, <1>11, <2>1, <2>2, TypesStep
<1>13. QueueSound(e) /\ QueueSound(p) BY DEF CreditInv
<1>14. \A f \in Ends : ResetsCounted(f)'
  <2>1. ResetsCounted(p)' BY <1>2, <1>10, <1>12 DEF CreditInv, ResetsCounted
  <2>2. ResetsCounted(e)' BY <1>9, <1>10, <1>12 DEF CreditInv, ResetsCounted
  <2> QED BY <1>2, <2>1, <2>2
<1>15. Accounts'
  <2>1. ASSUME NEW h \in Kinds PROVE Conserved(e, h)' /\ Conserved(p, h)'
    <3>1. Conserved(e, h) /\ Conserved(p, h) BY AccountFacts
    <3> QED BY <1>2, <1>9, <1>10, <1>12, <3>1 DEF Conserved
  <2>2. ASSUME NEW h \in Kinds PROVE ReceiverSound(e, h)' /\ ReceiverSound(p, h)'
    BY <1>9, <1>10, <1>12, AccountFacts DEF ReceiverSound
  <2>3. ASSUME NEW h \in Kinds PROVE SenderWithin(e, h)' /\ SenderWithin(p, h)'
    <3>1. SenderWithin(e, h) /\ SenderWithin(p, h) BY AccountFacts
    <3>2. SenderWithin(p, h)' BY <1>2, <1>8, <1>9, <1>12, <3>1 DEF SenderWithin, fc
    <3>3. c.kind \in Kinds /\ c.maximum \in Nat BY <1>7 DEF Capsules
    <3>4. CASE fc /\ c.type = "max" /\ h = c.kind
      <4>1. ses[e].remote[h] < c.maximum /\ c.maximum <= ses[p].recv[h].advertised
        BY <1>2, <1>5, <1>7, <1>13, <3>4 DEF QueueSound, MaximaRise
      <4>2. s.remote[h] = c.maximum BY <1>1, <1>9, <3>3, <3>4, SessionTypes DEF Maxima
      <4>3. s.sent[h] \in Nat /\ ses[e].remote[h] \in Nat BY <1>1, <1>9, SessionTypes
      <4> QED BY <1>2, <1>9, <1>12, <3>1, <3>2, <3>3, <3>4, <4>1, <4>2, <4>3 DEF SenderWithin
    <3>5. CASE ~(fc /\ c.type = "max" /\ h = c.kind)
      <4>1. s.remote[h] = ses[e].remote[h] BY <1>1, <1>9, <3>3, <3>5, SessionTypes DEF Maxima
      <4> QED BY <1>2, <1>8, <1>9, <1>12, <3>1, <3>2, <4>1 DEF SenderWithin, fc
    <3> QED BY <3>4, <3>5
  <2>4. StreamsCounted(p)' BY <1>2, <1>10, <1>12, AccountFacts DEF StreamsCounted
  <2>5. StreamsCounted(e)' BY <1>9, <1>10, <1>12, AccountFacts DEF StreamsCounted
  <2> QED BY <1>2, <2>1, <2>2, <2>3, <2>4, <2>5, AccountsStep
<1>16. QueueSound(e)'
  <2>1. Inflight(e)' = Tail(q) BY <1>2, <1>7, <1>11, <1>12 DEF Inflight
  <2>2. CloseEnds(Tail(q), Closed(ses[p]))
    <3>1. CloseEnds(q, Closed(ses[p])) /\ Closed(ses[p]) \in BOOLEAN
      BY <1>2, <1>5, <1>13 DEF QueueSound, Closed
    <3> QED BY <1>7, <3>1, CloseTail
  <2>3. ASSUME fc PROVE MaximaRise(Tail(q), s.remote, ses[p].recv)
    <3>1. MaximaRise(q, ses[e].remote, ses[p].recv) BY <1>2, <1>5, <1>13, <2>3 DEF QueueSound
    <3>2. s.remote = IF q[1].type = "max" THEN [ses[e].remote EXCEPT ![q[1].kind] = q[1].maximum]
                     ELSE ses[e].remote
      BY <1>7, <1>9, <2>3 DEF Maxima
    <3>3. ses[e].remote \in [Kinds -> Nat] BY <1>1, SessionTypes
    <3> QED BY <1>7, <3>1, <3>2, <3>3, RiseTail
  <2> QED BY <1>2, <1>8, <1>12, <2>1, <2>2, <2>3 DEF QueueSound, fc, Closed
<1>17. QueueSound(p)'
  <2>1. Inflight(p)' = Inflight(p) BY <1>2, <1>9, <1>11, <1>12 DEF Inflight
  <2>2. CloseEnds(Inflight(p), Closed(s))
    <3>1. CloseEnds(Inflight(p), Closed(ses[e])) BY <1>2, <1>13 DEF QueueSound
    <3> QED BY <1>9, <3>1 DEF CloseEnds, Closed
  <2> QED BY <1>2, <1>8, <1>9, <1>12, <1>13, <2>1, <2>2 DEF QueueSound, fc, Closed
<1> QED BY <1>2, <1>12, <1>14, <1>15, <1>16, <1>17 DEF CreditInv

-----------------------------------------------------------------------------
(* The initial state.                                                      *)

\* The initial WT_MAX capsule of one kind, if its window is not empty.
One(k) == IF Windows[k] > 0 THEN <<Max(k, Windows[k])>> ELSE <<>>

Lacks(q, k) == \A i \in 1 .. Len(q) : q[i].kind # k

(* queue_initial_flow_control_capsules queues one WT_MAX capsule per kind. *)
LEMMA RiseOne ==
  ASSUME NEW q \in Seq(Capsules), NEW k \in Kinds, NEW remote, NEW recv,
         MaximaRise(q, remote, recv), CloseEnds(q, FALSE), Lacks(q, k),
         remote[k] = 0, recv[k].advertised = Windows[k],
         NEW r, r = q \o One(k)
  PROVE  /\ r \in Seq(Capsules) /\ MaximaRise(r, remote, recv) /\ CloseEnds(r, FALSE)
         /\ \A h \in Kinds : h # k /\ Lacks(q, h) => Lacks(r, h)
<1>1. CASE Windows[k] > 0
  <2>1. PICK c : c = Max(k, Windows[k]) OBVIOUS
  <2>2. Windows[k] \in Nat BY SessionAssumption
  <2>3. c \in Capsules /\ c.type = "max" /\ c.kind = k /\ c.maximum = Windows[k]
    BY <2>1, <2>2 DEF Max, Capsules
  <2>4. r = Append(q, c) BY <1>1, <2>1, <2>3 DEF One
  <2>5. MaximaRise(r, remote, recv)
    <3>1. remote[c.kind] < c.maximum /\ c.maximum <= recv[c.kind].advertised BY <1>1, <2>2, <2>3
    <3>2. \A i \in 1 .. Len(q) : q[i].kind # c.kind BY <2>3 DEF Lacks
    <3> QED BY <2>3, <2>4, <3>1, <3>2, RiseAppend
  <2>6. CloseEnds(r, FALSE) BY <2>3, <2>4, CloseAppend
  <2>7. /\ r \in Seq(Capsules) /\ Len(r) = Len(q) + 1 /\ Len(q) \in Nat /\ r[Len(q) + 1] = c
        /\ \A i \in 1 .. Len(q) : r[i] = q[i]
    BY <2>3, <2>4, QueueAppends
  <2>8. \A i \in 1 .. Len(r) : i \in 1 .. Len(q) \/ i = Len(q) + 1 BY <2>7
  <2> QED BY <2>3, <2>5, <2>6, <2>7, <2>8 DEF Lacks
<1>2. CASE ~(Windows[k] > 0)
  <2>1. r = q BY <1>2 DEF One
  <2> QED BY <2>1
<1> QED BY <1>1, <1>2

LEMMA InitialQueue ==
  ASSUME NEW remote, NEW recv,
         \A k \in Kinds : remote[k] = 0 /\ recv[k].advertised = Windows[k]
  PROVE  /\ InitialCapsules \in Seq(Capsules)
         /\ MaximaRise(InitialCapsules, remote, recv) /\ CloseEnds(InitialCapsules, FALSE)
<1>1. PICK q0 \in Seq(Capsules) : q0 = <<>> BY EmptySeq
<1>2. PICK q1 : q1 = q0 \o One("bidi") OBVIOUS
<1>3. PICK q2 : q2 = q1 \o One("uni") OBVIOUS
<1>4. PICK q3 : q3 = q2 \o One("data") OBVIOUS
<1>5. "bidi" \in Kinds /\ "uni" \in Kinds /\ "data" \in Kinds BY DEF Kinds
<1>6. /\ MaximaRise(q0, remote, recv) /\ CloseEnds(q0, FALSE)
      /\ Lacks(q0, "bidi") /\ Lacks(q0, "uni") /\ Lacks(q0, "data")
  BY <1>1 DEF MaximaRise, CloseEnds, Lacks
<1>7. /\ q1 \in Seq(Capsules) /\ MaximaRise(q1, remote, recv) /\ CloseEnds(q1, FALSE)
      /\ Lacks(q1, "uni") /\ Lacks(q1, "data")
  BY <1>2, <1>5, <1>6, RiseOne
<1>8. /\ q2 \in Seq(Capsules) /\ MaximaRise(q2, remote, recv) /\ CloseEnds(q2, FALSE)
      /\ Lacks(q2, "data")
  BY <1>3, <1>5, <1>7, RiseOne
<1>9. /\ q3 \in Seq(Capsules) /\ MaximaRise(q3, remote, recv) /\ CloseEnds(q3, FALSE)
  BY <1>4, <1>5, <1>8, RiseOne
<1>10. InitialCapsules = q3
  <2>1. /\ One("bidi") \in Seq(Capsules) /\ One("uni") \in Seq(Capsules)
        /\ One("data") \in Seq(Capsules)
    <3>1. ASSUME NEW k \in Kinds PROVE One(k) \in Seq(Capsules)
      <4>1. Max(k, Windows[k]) \in Capsules BY SessionAssumption DEF Max, Capsules
      <4> QED BY <4>1 DEF One
    <3> QED BY <1>5, <3>1
  <2>2. InitialCapsules = One("bidi") \o One("uni") \o One("data") BY DEF InitialCapsules, One
  <2>3. q1 = One("bidi") BY <1>1, <1>2, <2>1
  <2> QED BY <1>3, <1>4, <2>2, <2>3
<1> QED BY <1>9, <1>10

LEMMA InitCredit == Init => CreditInv
<1> SUFFICES ASSUME Init PROVE CreditInv OBVIOUS
<1>1. /\ scope \in Scopes /\ ses = [e \in Ends |-> NewSession(scope.style)]
      /\ caps = [e \in Ends |-> <<>>] BY DEF Init
<1>2. Windows \in [Kinds -> Nat] /\ MaxStreamsLimit \in Nat
  BY SessionAssumption, MaxStreamsLimitAssumption
<1>3. PICK s : s = NewSession(scope.style) OBVIOUS
<1>4. PICK none \in Seq(Capsules) : none = <<>> BY EmptySeq
<1>5. \A e \in Ends : ses[e] = s /\ caps[e] = none BY <1>1, <1>3, <1>4
<1>6. PICK pend : pend = IF scope.style = "settings" THEN none ELSE InitialCapsules OBVIOUS
<1>7. /\ s.state = "Pending" /\ s.pend = pend /\ s.streams = 0 /\ s.resets = 0
      /\ \A k \in Kinds : /\ s.remote[k] = IF scope.style = "settings" THEN Windows[k] ELSE 0
                          /\ s.sent[k] = 0 /\ s.held[k] = 0 /\ s.recv[k] = NewFlowControl(Windows[k])
  BY <1>3, <1>4, <1>6 DEF NewSession
<1>8. \A k \in Kinds : /\ NewFlowControl(Windows[k]) \in FlowControl
                       /\ s.recv[k].window = Windows[k] /\ s.recv[k].advertised = Windows[k]
                       /\ s.recv[k].returned = 0 /\ s.recv[k].received = 0
  <2> SUFFICES ASSUME NEW k \in Kinds
               PROVE  /\ NewFlowControl(Windows[k]) \in FlowControl
                      /\ s.recv[k].window = Windows[k] /\ s.recv[k].advertised = Windows[k]
                      /\ s.recv[k].returned = 0 /\ s.recv[k].received = 0
    OBVIOUS
  <2>1. Windows[k] \in Nat /\ s.recv[k] = NewFlowControl(Windows[k]) BY <1>2, <1>7
  <2> QED BY <2>1 DEF NewFlowControl, FlowControl
<1>9. /\ pend \in Seq(Capsules) /\ MaximaRise(pend, s.remote, s.recv) /\ CloseEnds(pend, FALSE)
  <2>1. CASE scope.style = "settings"
    <3>1. pend = none BY <1>6, <2>1
    <3> QED BY <1>4, <3>1 DEF MaximaRise, CloseEnds
  <2>2. CASE scope.style # "settings"
    <3>1. pend = InitialCapsules BY <1>6, <2>2
    <3>2. \A k \in Kinds : s.remote[k] = 0 /\ s.recv[k].advertised = Windows[k] BY <1>7, <1>8, <2>2
    <3>3. /\ InitialCapsules \in Seq(Capsules)
          /\ MaximaRise(InitialCapsules, s.remote, s.recv) /\ CloseEnds(InitialCapsules, FALSE)
      <4>1. PICK remote, recv : remote = s.remote /\ recv = s.recv OBVIOUS
      <4>2. \A k \in Kinds : remote[k] = 0 /\ recv[k].advertised = Windows[k] BY <3>2, <4>1
      <4>3. /\ InitialCapsules \in Seq(Capsules)
            /\ MaximaRise(InitialCapsules, remote, recv) /\ CloseEnds(InitialCapsules, FALSE)
        BY ZenonT(30), <4>2, InitialQueue
      <4> QED BY <4>1, <4>3
    <3> QED BY <3>1, <3>3
  <2> QED BY <2>1, <2>2
<1>10. s \in Sessions
  <2>1. PICK remote : remote = [k \in Kinds |-> IF scope.style = "settings" THEN Windows[k] ELSE 0]
    OBVIOUS
  <2>2. PICK zero : zero = [k \in Kinds |-> 0] OBVIOUS
  <2>3. PICK blocked : blocked = [k \in Kinds |-> None] OBVIOUS
  <2>4. PICK recv : recv = [k \in Kinds |-> NewFlowControl(Windows[k])] OBVIOUS
  <2>5. s = [state |-> "Pending", remote |-> remote, sent |-> zero, blocked |-> blocked,
             recv |-> recv, pend |-> pend, streams |-> 0, resets |-> 0, held |-> zero,
             goaway |-> FALSE, closeSent |-> FALSE, closeReceived |-> FALSE]
    BY <1>3, <1>4, <1>6, <2>1, <2>2, <2>3, <2>4 DEF NewSession
  <2>6. /\ remote \in [Kinds -> Nat] /\ zero \in [Kinds -> Nat]
        /\ blocked \in [Kinds -> Nat \cup {None}] /\ recv \in [Kinds -> FlowControl]
    BY <1>2, <1>8, <2>1, <2>2, <2>3, <2>4
  <2> QED BY <1>9, <2>5, <2>6 DEF Sessions
<1>11. /\ net \in Nets
       /\ \A e \in Ends : /\ ~net.fault[e] /\ net.taken[e] = 0
                           /\ \A k \in Kinds : /\ net.way[e][k] = 0 /\ net.lost[e][k] = 0
                                                /\ net.done[e][k] = 0
  <2>1. PICK way : way = [e \in Ends |-> [k \in Kinds |-> 0]] OBVIOUS
  <2>2. PICK tally : tally = [e \in Ends |-> 0] OBVIOUS
  <2>3. PICK flags : flags = [e \in Ends |-> FALSE] OBVIOUS
  <2>4. net = [way |-> way, lost |-> way, done |-> way, fault |-> flags, due |-> tally,
               taken |-> tally, queued |-> 0]
    BY <2>1, <2>2, <2>3 DEF Init
  <2>5. way \in Grid /\ tally \in Tally /\ flags \in Flags BY <2>1, <2>2, <2>3 DEF Grid, Tally, Flags
  <2>6. /\ net \in Nets /\ net.way = way /\ net.lost = way /\ net.done = way /\ net.fault = flags
        /\ net.taken = tally
    BY <2>4, <2>5 DEF Nets
  <2> QED BY <2>1, <2>2, <2>3, <2>6
<1>12. Types
  <2>1. ses \in [Ends -> Sessions] /\ caps \in [Ends -> Seq(Capsules)]
    BY <1>1, <1>3, <1>4, <1>10
  <2>2. \A e \in Ends, k \in {"uni", "bidi"} : ses[e].recv[k].advertised <= MaxStreamsLimit
    BY <1>5, <1>8, SessionAssumption DEF Kinds
  <2> QED BY <1>1, <1>11, <2>1, <2>2 DEF Types, AccountsAgree, TypeOK, NoFalseFlowControlError
<1>13. Accounts
  <2> SUFFICES ASSUME NEW e \in Ends
               PROVE  /\ \A k \in Kinds : Conserved(e, k) /\ ReceiverSound(e, k) /\ SenderWithin(e, k)
                      /\ StreamsCounted(e)
    BY DEF Accounts
  <2>1. Peer(e) \in Ends BY TwoEnds
  <2>2. ASSUME NEW k \in Kinds PROVE Conserved(e, k) /\ ReceiverSound(e, k) /\ SenderWithin(e, k)
    <3>1. Conserved(e, k) BY <1>5, <1>7, <1>8, <1>11, <2>1 DEF Conserved
    <3>2. ReceiverSound(e, k)
      <4>1. k # "data" => Windows[k] <= MaxStreamsLimit BY SessionAssumption DEF Kinds
      <4> QED BY <1>2, <1>5, <1>8, <1>11, <4>1 DEF ReceiverSound
    <3>3. SenderWithin(e, k) BY <1>2, <1>5, <1>7, <1>8, <2>1 DEF SenderWithin
    <3> QED BY <3>1, <3>2, <3>3
  <2>3. StreamsCounted(e) BY <1>5, <1>7, <1>8, <1>11 DEF StreamsCounted, Kinds
  <2> QED BY <2>2, <2>3
<1>14. ASSUME NEW e \in Ends PROVE QueueSound(e) /\ ResetsCounted(e)
  <2>1. Peer(e) \in Ends BY TwoEnds
  <2>2. Inflight(e) = pend
    <3>1. <<>> \o pend = pend BY <1>9
    <3> QED BY <1>4, <1>5, <1>7, <2>1, <3>1 DEF Inflight
  <2>3. ~Closed(s) BY <1>7 DEF Closed
  <2>4. QueueSound(e) BY <1>5, <1>9, <2>1, <2>2, <2>3 DEF QueueSound, Closed
  <2>5. ResetsCounted(e) BY <1>5, <1>7, <1>11, <2>3 DEF ResetsCounted
  <2> QED BY <2>4, <2>5
<1> QED BY <1>12, <1>13, <1>14 DEF CreditInv

LEMMA NextCredit == CreditInv /\ [Next]_vars => CreditInv'
<1> SUFFICES ASSUME CreditInv, [Next]_vars PROVE CreditInv' OBVIOUS
<1>1. CASE Next
  <2>1. PICK e \in Ends :
          \/ SetConnecting(e) \/ SetEstablished(e)
          \/ CloseWithError(e) \/ Drain(e) \/ HandleGoaway(e)
          \/ OnConnectStreamClosed(e) \/ TakeResets(e) \/ QueueCapsule(e)
          \/ TakePendingCapsules(e) \/ TakeBufferedStreams(e) \/ ProcessCapsule(e)
          \/ \E k \in Kinds : \/ BufferStream(e, k)
                              \/ \E n \in Amounts(k) : TryUse(e, k, n) \/ Arrive(e, k, n)
                              \/ Release(e, k, 1)
    BY <1>1 DEF Next
  <2>2. CASE SetConnecting(e) BY <2>2, SetConnectingInv
  <2>3. CASE SetEstablished(e) BY <2>3, SetEstablishedInv
  <2>4. CASE CloseWithError(e) BY <2>4, CloseWithErrorInv
  <2>5. CASE Drain(e) BY <2>5, DrainInv
  <2>6. CASE HandleGoaway(e) BY <2>6, HandleGoawayInv
  <2>7. CASE OnConnectStreamClosed(e) BY <2>7, OnConnectStreamClosedInv
  <2>8. CASE TakeResets(e) BY <2>8, TakeResetsInv
  <2>9. CASE QueueCapsule(e) BY <2>9, QueueCapsuleInv
  <2>10. CASE TakePendingCapsules(e) BY <2>10, TakePendingCapsulesInv
  <2>11. CASE TakeBufferedStreams(e) BY <2>11, TakeBufferedStreamsInv
  <2>12. CASE ProcessCapsule(e) BY <2>12, ProcessCapsuleInv
  <2>13. ASSUME NEW k \in Kinds, BufferStream(e, k) PROVE CreditInv' BY <2>13, BufferStreamInv
  <2>14. ASSUME NEW k \in Kinds, NEW n \in Amounts(k), TryUse(e, k, n) PROVE CreditInv'
    BY <2>14, TryUseInv
  <2>15. ASSUME NEW k \in Kinds, NEW n \in Amounts(k), Arrive(e, k, n) PROVE CreditInv'
    BY <2>15, ArriveInv
  <2>16. ASSUME NEW k \in Kinds, Release(e, k, 1) PROVE CreditInv' BY <2>16, ReleaseInv
  <2> QED BY <2>1, <2>2, <2>3, <2>4, <2>5, <2>6, <2>7, <2>8, <2>9, <2>10, <2>11, <2>12, <2>13,
             <2>14, <2>15, <2>16
<1>2. CASE UNCHANGED vars
  <2>1. scope' = scope /\ ses' = ses /\ caps' = caps /\ net' = net BY <1>2 DEF vars
  <2>2. Types' BY <2>1 DEF CreditInv, Types, AccountsAgree, TypeOK, NoFalseFlowControlError
  <2>3. Accounts' BY <2>1, AccountsFrame DEF CreditInv
  <2>4. \A e \in Ends : QueueSound(e)' BY <2>1 DEF CreditInv, QueueSound, Inflight, Closed, fc
  <2>5. \A e \in Ends : ResetsCounted(e)' BY <2>1 DEF CreditInv, ResetsCounted, Closed
  <2> QED BY <2>2, <2>3, <2>4, <2>5 DEF CreditInv
<1> QED BY <1>1, <1>2

(* The inductive invariant holds in every behaviour.                       *)
THEOREM CreditInvariant == Spec => []CreditInv
BY InitCredit, NextCredit, PTL DEF Spec

(* The accounts of two Sessions never contradict one another, whatever the *)
(* windows, the amounts and the order in which capsules, streams and data  *)
(* arrive (check_received_stream, check_received_data, process_capsule).   *)
THEOREM AccountsAlwaysAgree == Spec => []AccountsAgree
<1>1. CreditInv => AccountsAgree BY DEF CreditInv, Types
<1> QED BY <1>1, CreditInvariant, PTL

(* A session ends once: nothing is queued behind WT_CLOSE_SESSION, and each*)
(* stream open at the end is handed out for reset once (close_with_error,  *)
(* on_connect_stream_closed, take_pending_stream_resets).                  *)
THEOREM SessionsCloseOnce == Spec => []ClosesOnce
<1>1. ASSUME CreditInv PROVE ClosesOnce
  <2>1. StreamsResetOnce BY <1>1 DEF CreditInv, ResetsCounted, StreamsResetOnce
  <2>2. ASSUME NEW e \in Ends,
               NEW i \in 1 .. Len(caps[Peer(e)] \o ses[e].pend) - 1
        PROVE  (caps[Peer(e)] \o ses[e].pend)[i].type # "close"
    <3>1. PICK p \in Ends : p = Peer(e) /\ Peer(p) = e BY TwoEnds
    <3>2. PICK q : q = caps[p] \o ses[e].pend OBVIOUS
    <3>3. CloseEnds(q, Closed(ses[e])) BY <1>1, <3>1, <3>2 DEF CreditInv, QueueSound, Inflight
    <3>4. q \in Seq(Capsules)
      <4>1. caps[p] \in Seq(Capsules) /\ ses[e].pend \in Seq(Capsules)
        BY <1>1, StateTypes, SessionTypes DEF CreditInv
      <4> QED BY <3>2, <4>1, QueueMoves
    <3>5. Len(q) \in Nat /\ i \in 1 .. Len(q) - 1
      <4>1. Len(q) \in Nat BY <3>4
      <4> QED BY <3>1, <3>2, <4>1
    <3>6. i \in 1 .. Len(q) /\ i # Len(q) BY <3>5
    <3> QED BY <3>1, <3>2, <3>3, <3>6 DEF CloseEnds
  <2> QED BY <2>1, <2>2 DEF ClosesOnce, CloseIsLast
<1> QED BY <1>1, CreditInvariant, PTL

-----------------------------------------------------------------------------
(* The refinement of WtCredit.                                             *)

(* The credit in use on a pipe, from the state of its two ends.            *)
LEMMA OutOf ==
  ASSUME NEW e \in Ends, NEW k \in Kinds
  PROVE  /\ <<e, k>> \in Pipes
         /\ CreditOut[<<e, k>>] = ses[e].sent[k] - ses[Peer(e)].recv[k].returned
         /\ CreditOut'[<<e, k>>] = ses'[e].sent[k] - ses'[Peer(e)].recv[k].returned
         /\ CreditWindow[<<e, k>>] = IF fc THEN Windows[k] ELSE Unlimited
BY DEF Pipes, CreditOut, CreditWindow

LEMMA PipeEnds ==
  ASSUME NEW x \in Pipes
  PROVE  \E e \in Ends, k \in Kinds : x = <<e, k>>
BY DEF Pipes

(* A step that uses and gives back nothing.                                *)
LEMMA OutSame ==
  ASSUME scope' = scope,
         \A e \in Ends : \A k \in Kinds : /\ ses'[e].sent[k] = ses[e].sent[k]
                                          /\ ses'[e].recv[k].returned = ses[e].recv[k].returned
  PROVE  UNCHANGED <<CreditWindow, CreditOut>>
<1>1. CreditWindow' = CreditWindow BY DEF CreditWindow, fc
<1>2. ASSUME NEW x \in Pipes PROVE CreditOut'[x] = CreditOut[x]
  <2>1. PICK e \in Ends, k \in Kinds : x = <<e, k>> BY PipeEnds
  <2> QED BY <2>1, OutOf, TwoEnds
<1>3. CreditOut' = CreditOut BY <1>2 DEF CreditOut
<1> QED BY <1>1, <1>3

(* A step that changes the credit in use on one pipe.                      *)
LEMMA OutStep ==
  ASSUME scope' = scope, NEW x \in Pipes, NEW d \in Int, CreditOut[x] \in Int,
         CreditOut'[x] = CreditOut[x] + d,
         \A y \in Pipes : y # x => CreditOut'[y] = CreditOut[y],
         d # 0, d > 0 => CreditWindow[x] = Unlimited \/ CreditOut[x] + d <= CreditWindow[x],
         d < 0 => -d <= CreditOut[x]
  PROVE  Credit!CreditNext
<1>1. CreditWindow' = CreditWindow BY DEF CreditWindow, fc
<1>2. CreditOut' = [CreditOut EXCEPT ![x] = CreditOut[x] + d] BY DEF CreditOut
<1>3. CreditOut'[x] - CreditOut[x] = d OBVIOUS
<1>4. CASE d > 0
  <2>1. Credit!Use(x, d) BY <1>1, <1>2, <1>4 DEF Credit!Use
  <2> QED BY <1>3, <1>4, <2>1 DEF Credit!CreditNext
<1>5. CASE d < 0
  <2>1. CreditOut[x] + d = CreditOut[x] - (-d) OBVIOUS
  <2>2. Credit!Release(x, -d) BY <1>1, <1>2, <1>5, <2>1 DEF Credit!Release
  <2> QED BY <1>3, <1>5, <2>2 DEF Credit!CreditNext
<1> QED BY <1>4, <1>5

LEMMA InitOut == Init => Credit!CreditInit
<1> SUFFICES ASSUME Init PROVE Credit!CreditInit OBVIOUS
<1>1. CreditInv BY InitCredit
<1>2. \A e \in Ends : ses[e] = NewSession(scope.style) BY DEF Init
<1>3. ASSUME NEW e \in Ends, NEW k \in Kinds
      PROVE  ses[e].sent[k] = 0 /\ ses[e].recv[k].returned = 0
  <2>1. PICK s : s = NewSession(scope.style) OBVIOUS
  <2>2. s.sent[k] = 0 /\ s.recv[k] = NewFlowControl(Windows[k]) BY <2>1 DEF NewSession
  <2>3. s.recv[k].returned = 0 BY <2>2 DEF NewFlowControl
  <2> QED BY <1>2, <2>1, <2>2, <2>3
<1>4. CreditOut = [x \in Pipes |-> 0]
  <2>1. ASSUME NEW x \in Pipes PROVE CreditOut[x] = 0
    <3>1. PICK e \in Ends, k \in Kinds : x = <<e, k>> BY PipeEnds
    <3> QED BY <1>3, <3>1, OutOf, TwoEnds
  <2> QED BY <2>1 DEF CreditOut
<1>5. CreditWindow \in [Pipes -> Nat \cup {Unlimited}]
  <2>1. ASSUME NEW x \in Pipes PROVE CreditWindow[x] \in Nat \cup {Unlimited}
    <3>1. PICK e \in Ends, k \in Kinds : x = <<e, k>> BY PipeEnds
    <3> QED BY <3>1, OutOf, SessionAssumption
  <2> QED BY <2>1 DEF CreditWindow
<1> QED BY <1>4, <1>5 DEF Credit!CreditInit

LEMMA TryUseOut ==
  ASSUME CreditInv, NEW e \in Ends, NEW k \in Kinds, NEW n \in Amounts(k), TryUse(e, k, n)
  PROVE  [Credit!CreditNext]_<<CreditWindow, CreditOut>>
<1>1. ses[e] \in Sessions /\ ses \in [Ends -> Sessions] BY StateTypes DEF CreditInv
<1>2. PICK p \in Ends : /\ p = Peer(e) /\ p # e /\ Peer(p) = e
                        /\ \A f \in Ends : f = e \/ f = p BY TwoEnds
<1>3. n \in Nat \ {0} BY SessionAssumption DEF Amounts
<1>4. scope' = scope BY DEF TryUse
<1>5. CASE Within(ses[e], k, n)
  <2> DEFINE sent == [ses[e].sent EXCEPT ![k] = ses[e].sent[k] + n]
             x == <<e, k>>
  <2>1. /\ ses'[e].sent = sent /\ ses'[p] = ses[p] /\ ses'[e].recv = ses[e].recv
    BY <1>1, <1>2, <1>5 DEF TryUse, Update, Sessions
  <2>2. sent[k] = ses[e].sent[k] + n /\ \A h \in Kinds : h # k => sent[h] = ses[e].sent[h]
    BY <1>1, SessionTypes
  <2> HIDE DEF sent
  <2>3. /\ ses[e].sent[k] \in Nat /\ ses[e].remote[k] \in Nat /\ ses[p].recv[k].returned \in Nat
        /\ ses[p].recv[k].advertised \in Nat /\ Windows[k] \in Nat
    BY <1>1, SessionTypes, SessionAssumption
  <2>4. /\ CreditOut[x] = ses[e].sent[k] - ses[p].recv[k].returned
        /\ CreditOut'[x] = CreditOut[x] + n /\ CreditOut[x] \in Int /\ x \in Pipes
        /\ CreditWindow[x] = IF fc THEN Windows[k] ELSE Unlimited
    BY <1>2, <1>3, <2>1, <2>2, <2>3, OutOf
  <2>5. ASSUME NEW y \in Pipes, y # x PROVE CreditOut'[y] = CreditOut[y]
    <3>1. PICK f \in Ends, h \in Kinds : y = <<f, h>> BY PipeEnds
    <3>2. f # e \/ h # k BY <2>5, <3>1
    <3>3. CASE f = e BY <1>2, <2>1, <2>2, <3>1, <3>2, <3>3, OutOf
    <3>4. CASE f = p BY <1>2, <2>1, <3>1, <3>4, OutOf
    <3> QED BY <1>2, <3>3, <3>4
  <2>6. CreditWindow[x] = Unlimited \/ CreditOut[x] + n <= CreditWindow[x]
    <3>1. fc => ses[e].sent[k] + n <= ses[e].remote[k]
      BY <1>1, <1>3, <1>5, SessionTypes DEF Within, Minus
    <3>2. SenderWithin(e, k) /\ ReceiverSound(p, k) BY AccountFacts
    <3> QED BY <1>2, <1>3, <2>3, <2>4, <3>1, <3>2 DEF SenderWithin, ReceiverSound
  <2> HIDE DEF x
  <2>7. n \in Int /\ n # 0 /\ n > 0 BY <1>3
  <2> QED BY <1>4, <2>4, <2>5, <2>6, <2>7, OutStep
<1>6. CASE ~Within(ses[e], k, n)
  <2>1. /\ ses'[e].sent = ses[e].sent /\ ses'[p] = ses[p] /\ ses'[e].recv = ses[e].recv
    BY <1>1, <1>2, <1>6 DEF TryUse, Update, Sessions, Block
  <2> QED BY <1>2, <1>4, <2>1, OutSame
<1> QED BY <1>5, <1>6

LEMMA ReleaseOut ==
  ASSUME CreditInv, NEW e \in Ends, NEW k \in Kinds, Release(e, k, 1)
  PROVE  [Credit!CreditNext]_<<CreditWindow, CreditOut>>
<1>1. ses[e] \in Sessions /\ ses \in [Ends -> Sessions] /\ net \in Nets BY StateTypes DEF CreditInv
<1>2. PICK p \in Ends : /\ p = Peer(e) /\ p # e /\ Peer(p) = e
                        /\ \A f \in Ends : f = e \/ f = p BY TwoEnds
<1>3. PICK s : s = AfterRelease(e, k) OBVIOUS
<1>4. scope' = scope /\ ses' = [ses EXCEPT ![e] = s] BY <1>3 DEF Release, Update, AfterRelease
<1>5. ses'[e] = s /\ ses'[p] = ses[p] BY <1>1, <1>2, <1>4
<1>6. /\ s.sent = ses[e].sent
      /\ \A h \in Kinds : h # k => s.recv[h] = ses[e].recv[h]
      /\ s.recv[k].returned = ses[e].recv[k].returned + (IF fc /\ ~Closed(ses[e]) THEN 1 ELSE 0)
  BY <1>3, ReleasedFacts
<1>7. /\ ses[p].sent[k] \in Nat /\ ses[e].recv[k].returned \in Nat
      /\ ses[e].recv[k].received \in Nat /\ net.done[e][k] \in Nat
      /\ ses[e].held[k] \in Nat /\ net.way[e][k] \in Nat /\ net.lost[e][k] \in Nat
  BY <1>1, SessionTypes, NetTypes
<1>8. CASE fc /\ ~Closed(ses[e])
  <2> DEFINE x == <<p, k>>
  <2>1. /\ CreditOut[x] = ses[p].sent[k] - ses[e].recv[k].returned
        /\ CreditOut'[x] = CreditOut[x] + (-1) /\ CreditOut[x] \in Int /\ x \in Pipes
    BY <1>2, <1>5, <1>6, <1>7, <1>8, OutOf
  <2>2. ASSUME NEW y \in Pipes, y # x PROVE CreditOut'[y] = CreditOut[y]
    <3>1. PICK f \in Ends, h \in Kinds : y = <<f, h>> BY PipeEnds
    <3>2. f # p \/ h # k BY <2>2, <3>1
    <3>3. CASE f = p BY <1>2, <1>5, <1>6, <3>1, <3>2, <3>3, OutOf
    <3>4. CASE f = e BY <1>2, <1>5, <1>6, <3>1, <3>4, OutOf
    <3> QED BY <1>2, <3>3, <3>4
  <2>3. 1 <= CreditOut[x]
    <3>1. net.done[e][k] + 1 <= ses[e].recv[k].received BY DEF Release
    <3>2. Conserved(p, k) /\ ReceiverSound(e, k) BY AccountFacts
    <3>3. ses[e].recv[k].received <= ses[p].sent[k] BY <1>2, <1>7, <3>2 DEF Conserved
    <3>4. ses[e].recv[k].returned <= net.done[e][k] BY <3>2 DEF ReceiverSound
    <3> QED BY <1>7, <2>1, <3>1, <3>3, <3>4
  <2> HIDE DEF x
  <2>4. -1 \in Int /\ -1 # 0 /\ ~(-1 > 0) /\ -(-1) <= CreditOut[x] BY <2>1, <2>3
  <2> QED BY <1>4, <2>1, <2>2, <2>4, OutStep
<1>9. CASE ~(fc /\ ~Closed(ses[e]))
  <2>1. s.recv[k].returned = ses[e].recv[k].returned BY <1>6, <1>7, <1>9
  <2> QED BY <1>2, <1>4, <1>5, <1>6, <2>1, OutSame
<1> QED BY <1>8, <1>9

(* Every other step neither uses credit nor gives any back.                *)
LEMMA OtherOut ==
  ASSUME CreditInv, NEW e \in Ends,
         \/ SetConnecting(e) \/ SetEstablished(e)
         \/ CloseWithError(e) \/ Drain(e) \/ HandleGoaway(e)
         \/ OnConnectStreamClosed(e) \/ TakeResets(e) \/ QueueCapsule(e)
         \/ TakePendingCapsules(e) \/ TakeBufferedStreams(e) \/ ProcessCapsule(e)
         \/ \E k \in Kinds : \/ BufferStream(e, k)
                             \/ \E n \in Amounts(k) : Arrive(e, k, n)
  PROVE  [Credit!CreditNext]_<<CreditWindow, CreditOut>>
<1> DEFINE Same(s) == /\ s.sent = ses[e].sent
                      /\ \A k \in Kinds : s.recv[k].returned = ses[e].recv[k].returned
<1>1. ses[e] \in Sessions /\ ses \in [Ends -> Sessions] BY StateTypes DEF CreditInv
<1>2. PICK p \in Ends : /\ p = Peer(e) /\ p # e /\ Peer(p) = e
                        /\ \A f \in Ends : f = e \/ f = p BY TwoEnds
<1>3. ASSUME NEW s, ses' = [ses EXCEPT ![e] = s], scope' = scope, Same(s)
      PROVE  UNCHANGED <<CreditWindow, CreditOut>>
  <2>1. ses'[e] = s /\ ses'[p] = ses[p] BY <1>1, <1>2, <1>3
  <2> QED BY <1>2, <1>3, <2>1, OutSame
<1>4. CASE SetConnecting(e)
  <2>1. Same([ses[e] EXCEPT !.state = "Connecting"]) BY <1>1 DEF Sessions
  <2> QED BY <1>3, <1>4, <2>1 DEF SetConnecting, Update
<1>5. CASE SetEstablished(e)
  <2>1. Same([ses[e] EXCEPT !.state = "Established"]) BY <1>1 DEF Sessions
  <2> QED BY <1>3, <1>5, <2>1 DEF SetEstablished, Update
<1>6. CASE CloseWithError(e)
  <2>1. Same(Close([Queue(ses[e], Plain("close")) EXCEPT !.closeSent = TRUE]))
    BY <1>1 DEF Sessions, Close, Queue
  <2> QED BY <1>3, <1>6, <2>1 DEF CloseWithError, Update
<1>7. CASE Drain(e)
  <2>1. Same(SetDraining(Queue(ses[e], Plain("drain")))) BY <1>1 DEF Sessions, SetDraining, Queue
  <2> QED BY <1>3, <1>7, <2>1 DEF Drain, Update
<1>8. CASE HandleGoaway(e)
  <2>1. Same(SetDraining([ses[e] EXCEPT !.goaway = TRUE])) BY <1>1 DEF Sessions, SetDraining
  <2> QED BY <1>3, <1>8, <2>1 DEF HandleGoaway, Update
<1>9. CASE OnConnectStreamClosed(e)
  <2>1. Same(Close([ses[e] EXCEPT !.closeReceived = TRUE])) BY <1>1 DEF Sessions, Close
  <2> QED BY <1>3, <1>9, <2>1 DEF OnConnectStreamClosed, Update
<1>10. CASE TakeResets(e)
  <2>1. Same([ses[e] EXCEPT !.resets = 0]) BY <1>1 DEF Sessions
  <2> QED BY <1>3, <1>10, <2>1 DEF TakeResets, Update
<1>11. CASE QueueCapsule(e)
  <2>1. Same(Queue(ses[e], Plain("unknown"))) BY <1>1 DEF Sessions, Queue
  <2> QED BY <1>3, <1>11, <2>1 DEF QueueCapsule, Update
<1>12. CASE TakePendingCapsules(e)
  <2>1. Same([ses[e] EXCEPT !.pend = <<>>]) BY <1>1 DEF Sessions
  <2> QED BY <1>3, <1>12, <2>1 DEF TakePendingCapsules, Update
<1>13. CASE TakeBufferedStreams(e)
  <2>1. Same([ses[e] EXCEPT !.held = [k \in Kinds |-> 0]]) BY <1>1 DEF Sessions
  <2> QED BY <1>3, <1>13, <2>1 DEF TakeBufferedStreams, Update
<1>14. CASE ProcessCapsule(e)
  <2>1. PICK c : c = Head(caps[e]) OBVIOUS
  <2>2. PICK s : s = IF Refuses(ses[e], c) THEN ses[e] ELSE Processed(ses[e], c) OBVIOUS
  <2>3. ses' = [ses EXCEPT ![e] = s] /\ scope' = scope
    BY <1>14, <2>1, <2>2 DEF ProcessCapsule, Update
  <2>4. c \in Capsules BY <1>14, <2>1, Accepted DEF ProcessCapsule
  <2>5. PICK t : t = Processed(ses[e], c) OBVIOUS
  <2>6. t.sent = ses[e].sent /\ t.recv = ses[e].recv BY <2>4, <2>5, ProcessedFacts
  <2>7. Same(s) BY <2>2, <2>5, <2>6
  <2> QED BY <1>3, <2>3, <2>7
<1>15. ASSUME NEW k \in Kinds, BufferStream(e, k) PROVE UNCHANGED <<CreditWindow, CreditOut>>
  <2>1. Same(ses[e]) /\ Same([ses[e] EXCEPT !.held[k] = @ + 1]) BY <1>1 DEF Sessions
  <2> QED BY <1>3, <1>15, <2>1 DEF BufferStream, Update
<1>16. ASSUME NEW k \in Kinds, NEW n \in Amounts(k), Arrive(e, k, n)
       PROVE  UNCHANGED <<CreditWindow, CreditOut>>
  <2>1. PICK s : s = Counted(ses[e], k, n) OBVIOUS
  <2>2. /\ s.sent = ses[e].sent
        /\ s.recv = [ses[e].recv EXCEPT ![k] = OnReceived(ses[e].recv[k], n)]
    BY <1>1, <2>1 DEF Counted, Sessions
  <2>3. OnReceived(ses[e].recv[k], n).returned = ses[e].recv[k].returned
    <3>1. ses[e].recv[k] \in FlowControl BY <1>1, SessionTypes
    <3> QED BY <3>1 DEF OnReceived, FlowControl
  <2>4. Same(s) /\ Same(ses[e]) BY <1>1, <2>2, <2>3, SessionTypes
  <2> QED BY ZenonT(30), <1>3, <1>16, <2>1, <2>4 DEF Arrive, Update
<1> QED BY <1>4, <1>5, <1>6, <1>7, <1>8, <1>9, <1>10, <1>11, <1>12, <1>13, <1>14, <1>15, <1>16

(* Each pipe of a session implements WtCredit: the credit in use never     *)
(* exceeds the receiver's window although the sender learns of new credit  *)
(* only from capsules under way (try_open_stream, try_send_data,           *)
(* on_remote_stream_closed, on_data_consumed).                             *)
THEOREM RefinesCredit == Spec => ImplementsCredit
<1>1. CreditInv /\ [Next]_vars => [Credit!CreditNext]_<<CreditWindow, CreditOut>>
  <2> SUFFICES ASSUME CreditInv, [Next]_vars
               PROVE  [Credit!CreditNext]_<<CreditWindow, CreditOut>>
    OBVIOUS
  <2>1. CASE Next
    <3>1. PICK e \in Ends :
            \/ \/ SetConnecting(e) \/ SetEstablished(e)
               \/ CloseWithError(e) \/ Drain(e) \/ HandleGoaway(e)
               \/ OnConnectStreamClosed(e) \/ TakeResets(e) \/ QueueCapsule(e)
               \/ TakePendingCapsules(e) \/ TakeBufferedStreams(e) \/ ProcessCapsule(e)
               \/ \E k \in Kinds : \/ BufferStream(e, k)
                                   \/ \E n \in Amounts(k) : Arrive(e, k, n)
            \/ \E k \in Kinds : \E n \in Amounts(k) : TryUse(e, k, n)
            \/ \E k \in Kinds : Release(e, k, 1)
      BY <2>1 DEF Next
    <3> QED BY <3>1, OtherOut, TryUseOut, ReleaseOut
  <2>2. CASE UNCHANGED vars
    <3>1. scope' = scope /\ ses' = ses BY <2>2 DEF vars
    <3> QED BY <3>1, OutSame
  <2> QED BY <2>1, <2>2
<1> QED BY <1>1, InitOut, CreditInvariant, PTL DEF Spec, ImplementsCredit, Credit!CreditSpec
=============================================================================
