-------------------------- MODULE QpackTable_proofs --------------------------
(* Lemmas about the operators of QpackTable.                               *)
EXTENDS QpackTable, NaturalsInduction, WellFoundedInduction, TLAPS

(* A nonempty set of naturals has a least element.                         *)
LEMMA LeastNat ==
  ASSUME NEW S \in SUBSET Nat, S # {}
  PROVE  \E n \in S : \A m \in S : n <= m
<1> DEFINE R == OpToRel(<, Nat)
<1>1. IsWellFoundedOn(R, Nat) BY NatLessThanWellFounded
<1>2. PICK n \in S : \A m \in S : <<m, n>> \notin R
  <2> HIDE DEF R
  <2> QED BY <1>1, WFMin
<1>3. \A m \in S : ~(m < n) BY <1>2 DEF OpToRel
<1> QED BY <1>3

(* Newest is the maximum of a nonempty set of bounded naturals.            *)
LEMMA NewestMax ==
  ASSUME NEW n \in Nat, NEW S \in SUBSET (0 .. n), S # {}
  PROVE  Newest(S) \in S /\ \A j \in S : j <= Newest(S)
<1> DEFINE T == {k \in 0 .. n : n - k \in S}
<1>1. T \in SUBSET Nat /\ T # {}
  <2>1. PICK j \in S : TRUE OBVIOUS
  <2>2. n - j \in 0 .. n /\ n - (n - j) = j OBVIOUS
  <2>3. n - j \in T BY <2>2
  <2>4. T \subseteq Nat OBVIOUS
  <2> HIDE DEF T
  <2> QED BY <2>3, <2>4
<1>2. PICK k \in T : \A m \in T : k <= m
  <2> HIDE DEF T
  <2> QED BY <1>1, LeastNat
<1>3. PICK i \in S : k = n - i BY <1>2
<1>4. \A j \in S : j <= i
  <2> TAKE j \in S
  <2>1. n - j \in 0 .. n /\ n - (n - j) = j OBVIOUS
  <2>2. n - j \in T BY <2>1
  <2> QED BY <2>2, <1>2, <1>3
<1>5. \E i1 \in S : \A j \in S : j <= i1 BY <1>4
<1> QED BY <1>5 DEF Newest

(* EvictToFit ends at the first entry where the loop of evict_to_fit stops. *)
LEMMA EvictSpec ==
  ASSUME NEW t \in Table, NEW need \in Nat, t.drop <= Len(t.log)
  PROVE  \E d \in t.drop .. Len(t.log) :
           /\ EvictToFit(t, need) = [t EXCEPT !.drop = d]
           /\ EvictionStops(t, need, d)
           /\ \A e \in t.drop .. d - 1 : ~EvictionStops(t, need, e)
<1> DEFINE P(d) == /\ EvictionStops(t, need, d)
                   /\ \A e \in t.drop .. d - 1 : ~EvictionStops(t, need, e)
           S == {d \in t.drop .. Len(t.log) : EvictionStops(t, need, d)}
<1>1. t.drop \in Nat /\ Len(t.log) \in Nat BY DEF Table
<1>2. Len(t.log) \in S BY <1>1 DEF EvictionStops, InsertCount
<1>3. S \in SUBSET Nat BY <1>1
<1>4. PICK k \in S : \A m \in S : k <= m
  <2> HIDE DEF S
  <2> QED BY <1>2, <1>3, LeastNat
<1>5. k \in t.drop .. Len(t.log) /\ P(k) BY <1>1, <1>4
<1>6. \E d \in t.drop .. InsertCount(t) : P(d) BY <1>5 DEF InsertCount
<1> DEFINE c == CHOOSE d \in t.drop .. InsertCount(t) : P(d)
<1>7. c \in t.drop .. InsertCount(t) /\ P(c)
  <2> HIDE DEF P
  <2> QED BY <1>6
<1>8. EvictToFit(t, need) = [t EXCEPT !.drop = c] BY DEF EvictToFit
<1> HIDE DEF c
<1> QED BY <1>7, <1>8 DEF InsertCount

LEMMA DivMod ==
  ASSUME NEW F \in Nat \ {0}, NEW a \in Nat
  PROVE a \div F \in Nat /\ a % F \in 0 .. F-1 /\ a = F * (a \div F) + (a % F)
OBVIOUS

LEMMA LessMult ==
  ASSUME NEW F \in Nat \ {0}, NEW a \in Int, NEW b \in Int, F * a < F * b
  PROVE a < b
<1>1. SUFFICES ASSUME a >= b PROVE FALSE OBVIOUS
<1>2. F * (a - b) >= 0 BY <1>1
<1>3. F * (a - b) = F * a - F * b OBVIOUS
<1> QED BY <1>2, <1>3

LEMMA RICRoundTrip ==
  ASSUME NEW max \in Nat, NEW inserts \in Nat, NEW ric \in Nat \ {0},
         MaxEntries(max) > 0,
         ric <= inserts + MaxEntries(max),
         inserts < ric + MaxEntries(max)
  PROVE  DecodeRIC(max, inserts, EncodeRIC(max, ric)) = ric
<1> DEFINE M == MaxEntries(max)
           F == 2 * M
           m == inserts + M
           q == m \div F
           r == ric \div F
           w == ric % F
<1>1. M \in Nat /\ M > 0 BY DEF MaxEntries, ENTRY_OVERHEAD
<1>2. F \in Nat \ {0} /\ m \in Nat BY <1>1
<1> HIDE DEF M
<1>3. q \in Nat /\ m - F * q \in 0 .. F - 1
  <2> HIDE DEF F, m
  <2> m = F * q + (m % F) /\ q \in Nat /\ m % F \in 0 .. F - 1 BY <1>2, DivMod DEF q
  <2> QED BY <1>2
<1>4. r \in Nat /\ w \in 0 .. F - 1 /\ ric = F * r + w
  <2> HIDE DEF F
  <2> QED BY <1>2, DivMod
<1>5. m - F < ric /\ ric <= m BY <1>1 DEF M
<1> HIDE DEF F, m, q, r, w
<1>6. r < q + 1
  <2>1. F * r < F * q + F BY <1>2, <1>3, <1>4, <1>5
  <2>2. F * (q + 1) = F * q + F BY <1>2, <1>3
  <2> QED BY <2>1, <2>2, <1>2, <1>3, <1>4, LessMult
<1>7. q < r + 2
  <2>1. F * q < F * r + 2 * F BY <1>2, <1>3, <1>4, <1>5
  <2>2. F * (r + 2) = F * r + 2 * F BY <1>2, <1>4
  <2> QED BY <2>1, <2>2, <1>2, <1>3, <1>4, LessMult
<1>8. EncodeRIC(max, ric) = w + 1 BY <1>1 DEF EncodeRIC, M, F, w
<1>9. q * F = F * q BY <1>2, <1>3
<1>10. q * F + (w + 1) - 1 = IF r = q THEN ric ELSE ric + F
  <2>1. CASE r = q BY <2>1, <1>2, <1>3, <1>4, <1>9
  <2>2. CASE q = r + 1
    <3>1. F * q = F * r + F BY <2>2, <1>2, <1>4
    <3> QED BY <3>1, <2>2, <1>2, <1>3, <1>4, <1>9
  <2> QED BY <2>1, <2>2, <1>3, <1>4, <1>6, <1>7
<1> DEFINE cand == q * F + (w + 1) - 1
<1>11. DecodeRIC(max, inserts, w + 1) =
         IF (IF cand > m THEN IF cand <= F THEN BadRIC ELSE cand - F ELSE cand) = 0
         THEN BadRIC
         ELSE IF cand > m THEN IF cand <= F THEN BadRIC ELSE cand - F ELSE cand
  <2>1. w + 1 # 0 /\ ~(w + 1 > F) /\ M # 0 BY <1>1, <1>2, <1>4
  <2> QED BY <2>1 DEF DecodeRIC, M, F, m, q
<1> QED BY <1>2, <1>4, <1>5, <1>8, <1>10, <1>11 DEF BadRIC
(* Eviction changes nothing but drop, which only grows, and stops at once   *)
(* when the oldest entry is below the eviction limit.                      *)
LEMMA EvictBasics ==
  ASSUME NEW t \in Table, NEW need \in Nat, Sound(t)
  PROVE  LET u == EvictToFit(t, need)
         IN  /\ u \in Table /\ Sound(u)
             /\ u.log = t.log /\ u.bytes = t.bytes /\ u.cap = t.cap /\ u.lim = t.lim
             /\ u.drop \in t.drop .. Len(t.log)
             /\ EvictionStops(t, need, u.drop)
             /\ \A e \in t.drop .. u.drop - 1 : ~EvictionStops(t, need, e)
             /\ t.drop < t.lim => u = t
<1> DEFINE u == EvictToFit(t, need)
<1>1. t.drop \in Nat /\ Len(t.log) \in Nat /\ t.lim \in Nat BY DEF Table
<1>2. t.drop <= Len(t.log) BY DEF Sound
<1>3. PICK d \in t.drop .. Len(t.log) :
           /\ u = [t EXCEPT !.drop = d]
           /\ EvictionStops(t, need, d)
           /\ \A e \in t.drop .. d - 1 : ~EvictionStops(t, need, e)
  BY <1>2, EvictSpec
<1> HIDE DEF u
<1>4. d \in Nat BY <1>1
<1>5. /\ u \in Table /\ u.drop = d
      /\ u.log = t.log /\ u.bytes = t.bytes /\ u.cap = t.cap /\ u.lim = t.lim
  BY <1>3, <1>4 DEF Table
<1>6. Sound(u) BY <1>5 DEF Sound
<1>7. ASSUME t.drop < t.lim PROVE u = t
  <2>1. EvictionStops(t, need, t.drop) BY <1>7 DEF EvictionStops
  <2>2. d = t.drop BY <2>1, <1>1, <1>3
  <2>3. t = [t EXCEPT !.drop = t.drop] BY DEF Table
  <2> QED BY <2>2, <2>3, <1>3
<1> QED BY <1>3, <1>5, <1>6, <1>7 DEF u

(* When what is left after eviction fits, a table without an eviction limit *)
(* evicts exactly the same entries.                                        *)
LEMMA EvictShared ==
  ASSUME NEW t \in Table, NEW need \in Nat, Sound(t),
         CurrentSize(EvictToFit(t, need)) + need <= t.cap
  PROVE  EvictToFit(Shared(t), need) = Shared(EvictToFit(t, need))
<1> DEFINE u == EvictToFit(t, need)
           v == EvictToFit(Shared(t), need)
<1>1. Shared(t) \in Table /\ Shared(t).log = t.log /\ Shared(t).drop = t.drop
      /\ Shared(t).bytes = t.bytes /\ Shared(t).cap = t.cap /\ Shared(t).lim = 0
  BY DEF Shared, Table
<1>2. Sound(Shared(t)) BY <1>1 DEF Sound
<1>3. /\ u \in Table
      /\ u.log = t.log /\ u.bytes = t.bytes /\ u.cap = t.cap
      /\ u.drop \in t.drop .. Len(t.log)
      /\ \A e \in t.drop .. u.drop - 1 : ~EvictionStops(t, need, e)
  BY EvictBasics
<1>4. /\ v \in Table
      /\ v.log = t.log /\ v.bytes = t.bytes /\ v.cap = t.cap /\ v.lim = 0
      /\ v.drop \in t.drop .. Len(t.log)
      /\ EvictionStops(Shared(t), need, v.drop)
      /\ \A e \in t.drop .. v.drop - 1 : ~EvictionStops(Shared(t), need, e)
  BY <1>1, <1>2, EvictBasics
<1> HIDE DEF u, v
<1>5. \A e : SizeFrom(Shared(t), e) = SizeFrom(t, e) BY <1>1 DEF SizeFrom, InsertCount
<1>6. t.drop \in Nat /\ t.cap \in Nat /\ Len(t.log) \in Nat BY DEF Table
<1>7. SizeFrom(t, u.drop) + need <= t.cap
  BY <1>3 DEF u, CurrentSize, SizeFrom, InsertCount
<1>8. EvictionStops(Shared(t), need, u.drop) BY <1>1, <1>5, <1>7 DEF EvictionStops
<1>9. ~(u.drop < v.drop) BY <1>8, <1>3, <1>4, <1>6
<1>10. ~(v.drop < u.drop)
  <2> SUFFICES ASSUME v.drop < u.drop PROVE FALSE OBVIOUS
  <2>1. v.drop \in t.drop .. u.drop - 1 BY <1>3, <1>4, <1>6
  <2>2. ~EvictionStops(t, need, v.drop) BY <2>1, <1>3
  <2>3. EvictionStops(t, need, v.drop)
    <3>1. ~(v.drop < 0) BY <1>4, <1>6
    <3> QED BY <3>1, <1>1, <1>4, <1>5 DEF EvictionStops, InsertCount
  <2> QED BY <2>2, <2>3
<1>11. v.drop = u.drop BY <1>3, <1>4, <1>6, <1>9, <1>10
<1>12. v = Shared(u) BY <1>3, <1>4, <1>11 DEF Shared, Table
<1> QED BY <1>12 DEF u, v
LEMMA SeqElement ==
  ASSUME NEW S, NEW q \in Seq(S), NEW i \in 1 .. Len(q)
  PROVE  q[i] \in S
OBVIOUS

(* The fields of a table and of its entries.                               *)
LEMMA TableFields ==
  ASSUME NEW t \in Table
  PROVE  /\ t.drop \in Nat /\ t.bytes \in Nat /\ t.cap \in Nat /\ t.lim \in Nat
         /\ t.log \in Seq([hdr : Headers, at : Nat]) /\ Len(t.log) \in Nat
         /\ \A i \in 1 .. Len(t.log) : t.log[i].hdr \in Headers /\ t.log[i].at \in Nat
<1>1. /\ t.drop \in Nat /\ t.bytes \in Nat /\ t.cap \in Nat /\ t.lim \in Nat
      /\ t.log \in Seq([hdr : Headers, at : Nat])
  BY DEF Table
<1>2. Len(t.log) \in Nat BY <1>1
<1>3. ASSUME NEW i \in 1 .. Len(t.log)
      PROVE  t.log[i].hdr \in Headers /\ t.log[i].at \in Nat
  <2>1. t.log[i] \in [hdr : Headers, at : Nat] BY <1>1, SeqElement
  <2> QED BY <2>1
<1> QED BY <1>1, <1>2, <1>3

(* Division by the size of the smallest entry.                             *)
LEMMA QuotientBound ==
  ASSUME NEW n \in Nat, NEW m \in Nat, 32 * n <= m
  PROVE  n <= m \div 32
OBVIOUS

(* The bytes of the live entries bound their number.                       *)
LEMMA LiveBound ==
  ASSUME NEW t \in Table, Sound(t), NEW max \in Nat, CurrentSize(t) <= max
  PROVE  Len(t.log) <= t.drop + MaxEntries(max)
<1>1. t.drop \in Nat /\ Len(t.log) \in Nat /\ t.drop <= Len(t.log)
  BY TableFields DEF Sound
<1>4. MaxEntries(max) \in Nat BY DEF MaxEntries, ENTRY_OVERHEAD
<1>2. CASE t.drop = Len(t.log) BY <1>1, <1>2, <1>4
<1>3. CASE t.drop < Len(t.log)
  <2>1. t.drop + 1 \in 1 .. Len(t.log) BY <1>1, <1>3
  <2>2. 32 * (Len(t.log) - t.drop) <= t.bytes - t.log[t.drop + 1].at
    BY <1>1, <2>1 DEF Sound, ENTRY_OVERHEAD
  <2>3. t.bytes - t.log[t.drop + 1].at <= max
    BY <1>3 DEF CurrentSize, SizeFrom, InsertCount
  <2>4. t.bytes \in Nat /\ t.log[t.drop + 1].at \in Nat BY <2>1, TableFields
  <2>5. PICK n \in Nat : n = Len(t.log) - t.drop BY <1>1
  <2>6. 32 * n <= max BY <2>2, <2>3, <2>4, <2>5
  <2>7. n <= MaxEntries(max) BY <2>6, QuotientBound DEF MaxEntries, ENTRY_OVERHEAD
  <2> QED BY <1>1, <1>4, <2>5, <2>7
<1> QED BY <1>1, <1>2, <1>3

(* An insertion that is refused leaves the table as it was: nothing has been *)
(* evicted for it.                                                          *)
LEMMA InsertRefused ==
  ASSUME NEW t \in Table, Sound(t), NEW h \in Headers, ~CanInsert(t, h)
  PROVE  Insert(t, h) = t
<1> DEFINE need == EntrySize[h]
           u == EvictToFit(t, need)
<1>1. need \in Nat BY EntrySizeAssumption
<1>2. CASE need > t.cap BY <1>2 DEF Insert
<1>3. CASE need <= t.cap
  <2>1. /\ u.log = t.log /\ u.bytes = t.bytes
        /\ u.drop \in t.drop .. Len(t.log)
        /\ EvictionStops(t, need, u.drop)
        /\ t.drop < t.lim => u = t
    BY <1>1, EvictBasics
  <2>2. CurrentSize(u) = SizeFrom(t, u.drop)
    BY <2>1 DEF CurrentSize, SizeFrom, InsertCount
  <2>3. ~(SizeFrom(t, u.drop) + need <= t.cap) BY <1>3, <2>2 DEF CanInsert
  <2>4. t.drop \in Nat /\ Len(t.log) \in Nat /\ t.cap \in Nat /\ t.lim \in Nat BY DEF Table
  <2>5. u.drop # Len(t.log)
    <3>1. SizeFrom(t, Len(t.log)) = 0 BY <2>4 DEF SizeFrom, InsertCount
    <3> QED BY <3>1, <2>3, <1>1, <1>3, <2>4
  <2>6. u.drop < t.lim BY <2>1, <2>3, <2>5 DEF EvictionStops, InsertCount
  <2>7. u = t BY <2>1, <2>4, <2>6
  <2> QED BY <2>7, <1>1, <1>3, <2>4 DEF Insert
<1> QED BY <1>1, <1>2, <1>3 DEF Table

(* An insertion that succeeds: what it leaves, and that a table with the same *)
(* entries but no eviction limit accepts it and ends with the same entries.  *)
LEMMA InsertAccepted ==
  ASSUME NEW t \in Table, Sound(t), NEW h \in Headers, CanInsert(t, h)
  PROVE  LET v == Insert(t, h)
         IN  /\ v \in Table /\ Sound(v) /\ Earlier(t, v)
             /\ v.cap = t.cap /\ v.lim = t.lim
             /\ v.drop <= Len(t.log)
             /\ CurrentSize(v) <= v.cap
             /\ t.drop < t.lim => v.drop = t.drop
             /\ CanInsert(Shared(t), h)
             /\ Insert(Shared(t), h) = Shared(v)
<1> DEFINE need == EntrySize[h]
           u == EvictToFit(t, need)
           v == Insert(t, h)
           n == Len(t.log)
<1>1. need \in Nat /\ need >= 32 BY EntrySizeAssumption DEF ENTRY_OVERHEAD
<1>2. need <= t.cap /\ CurrentSize(u) + need <= t.cap BY DEF CanInsert
<1>3. /\ u \in Table /\ Sound(u)
      /\ u.log = t.log /\ u.bytes = t.bytes /\ u.cap = t.cap /\ u.lim = t.lim
      /\ u.drop \in t.drop .. n
      /\ t.drop < t.lim => u = t
  BY <1>1, EvictBasics
<1>4. t.drop \in Nat /\ n \in Nat /\ t.cap \in Nat /\ t.lim \in Nat /\ t.bytes \in Nat
      /\ t.log \in Seq([hdr : Headers, at : Nat])
  BY DEF Table
<1>5. v = Push(u, h) BY <1>1, <1>2, <1>4 DEF Insert
<1> DEFINE e == [hdr |-> h, at |-> t.bytes]
<1>6. e \in [hdr : Headers, at : Nat] BY <1>4
<1>7. /\ v.log = Append(t.log, e) /\ v.bytes = t.bytes + need
      /\ v.drop = u.drop /\ v.cap = t.cap /\ v.lim = t.lim
  BY <1>3, <1>5 DEF Push, Table
<1>8. v \in Table
  <2>1. Append(t.log, e) \in Seq([hdr : Headers, at : Nat]) BY <1>4, <1>6
  <2>2. t.bytes + need \in Nat BY <1>1, <1>4
  <2>3. v = [u EXCEPT !.log = Append(u.log, [hdr |-> h, at |-> u.bytes]),
                      !.bytes = u.bytes + need]
    BY <1>5 DEF Push
  <2> QED BY <2>1, <2>2, <2>3, <1>3 DEF Table
<1> HIDE DEF u, v, e
<1>9. /\ Len(v.log) = n + 1
      /\ \A i \in 1 .. n : v.log[i] = t.log[i]
      /\ v.log[n + 1] = e
  BY <1>4, <1>6, <1>7
<1>10. Earlier(t, v) BY <1>3, <1>4, <1>7, <1>9 DEF Earlier
<1>11. Sound(v)
  <2> HIDE DEF need
  <2>1. v.drop <= Len(v.log) BY <1>3, <1>4, <1>7, <1>9
  <2>2. ASSUME NEW i \in 1 .. Len(v.log)
        PROVE  ENTRY_OVERHEAD * (Len(v.log) - i + 1) <= v.bytes - v.log[i].at
    <3>1. CASE i \in 1 .. n
      <4>1. 32 * (n - i + 1) <= t.bytes - t.log[i].at BY <3>1 DEF Sound, ENTRY_OVERHEAD
      <4>2. t.log[i].at \in Nat BY <3>1, TableFields
      <4>3. v.log[i] = t.log[i] BY <3>1, <1>9
      <4> DEFINE a == t.log[i].at
                 b == t.bytes
      <4>4. a \in Nat /\ b \in Nat /\ i \in Nat /\ n \in Nat /\ 32 * ((n - i) + 1) <= b - a
        BY <4>1, <4>2, <3>1, <1>4
      <4> HIDE DEF a, b, n
      <4>5. 32 * (((n + 1) - i) + 1) <= (b + need) - a BY <4>4, <1>1
      <4> QED BY <4>3, <4>5, <1>7, <1>9 DEF ENTRY_OVERHEAD, a, b
    <3>2. CASE i = n + 1
      <4>1. v.log[i].at = t.bytes BY <3>2, <1>9 DEF e
      <4> QED BY <4>1, <3>2, <1>1, <1>4, <1>7, <1>9 DEF ENTRY_OVERHEAD
    <3> QED BY <3>1, <3>2, <1>4, <1>9
  <2> QED BY <2>1, <2>2 DEF Sound
<1>12. CurrentSize(v) <= v.cap
  <2> HIDE DEF need
  <2>1. CASE u.drop < n
    <3>1. CurrentSize(u) = t.bytes - t.log[u.drop + 1].at
      BY <2>1, <1>3 DEF CurrentSize, SizeFrom, InsertCount
    <3>2. u.drop + 1 \in 1 .. n BY <2>1, <1>3, <1>4
    <3>3. v.log[u.drop + 1] = t.log[u.drop + 1] /\ t.log[u.drop + 1].at \in Nat
      BY <3>2, <1>9, TableFields
    <3>4. v.drop < Len(v.log) BY <2>1, <1>3, <1>4, <1>7, <1>9
    <3>5. CurrentSize(v) = (t.bytes + need) - t.log[u.drop + 1].at
      BY <3>3, <3>4, <1>7 DEF CurrentSize, SizeFrom, InsertCount
    <3> DEFINE a == t.log[u.drop + 1].at
    <3>6. a \in Nat /\ t.bytes - a + need <= t.cap BY <3>1, <3>3, <1>2
    <3> HIDE DEF a
    <3>7. (t.bytes + need) - a <= t.cap BY <3>6, <1>1, <1>4
    <3> QED BY <3>5, <3>7, <1>7 DEF a
  <2>2. CASE u.drop = n
    <3>1. v.log[u.drop + 1].at = t.bytes BY <2>2, <1>9 DEF e
    <3>2. v.drop < Len(v.log) BY <2>2, <1>4, <1>7, <1>9
    <3>3. CurrentSize(v) = (t.bytes + need) - t.bytes
      BY <3>1, <3>2, <1>7 DEF CurrentSize, SizeFrom, InsertCount
    <3>4. (t.bytes + need) - t.bytes <= t.cap BY <1>1, <1>2, <1>4
    <3> QED BY <3>3, <3>4, <1>7
  <2> QED BY <2>1, <2>2, <1>3, <1>4
<1>13. t.drop < t.lim => v.drop = t.drop BY <1>3, <1>7
<1>14. EvictToFit(Shared(t), need) = Shared(u) BY <1>1, <1>2, EvictShared DEF u
<1>15. Shared(t).cap = t.cap BY DEF Shared, Table
<1>16. CurrentSize(Shared(u)) = CurrentSize(u)
  BY <1>3 DEF Shared, Table, CurrentSize, SizeFrom, InsertCount
<1>17. CanInsert(Shared(t), h) BY <1>2, <1>14, <1>15, <1>16 DEF CanInsert
<1>18. Insert(Shared(t), h) = Push(Shared(u), h)
  BY <1>1, <1>2, <1>4, <1>14, <1>15, <1>17 DEF Insert
<1>19. Push(Shared(u), h) = Shared(Push(u, h)) BY <1>3 DEF Push, Shared, Table
<1>20. v.drop <= Len(t.log) BY <1>3, <1>4, <1>7
<1> QED BY <1>5, <1>7, <1>8, <1>10, <1>11, <1>12, <1>13, <1>17, <1>18, <1>19, <1>20 DEF u, v

(* A capacity change after which the entries fit does the same to a table   *)
(* with the same entries but no eviction limit.                            *)
LEMMA SetCapacityShared ==
  ASSUME NEW t \in Table, Sound(t), NEW c \in Nat, CurrentSize(SetCapacity(t, c)) <= c
  PROVE  LET v == SetCapacity(t, c)
         IN  /\ v \in Table /\ Sound(v) /\ Earlier(t, v)
             /\ v.cap = c /\ v.lim = t.lim /\ v.log = t.log
             /\ t.drop < t.lim => v.drop = t.drop
             /\ SetCapacity(Shared(t), c) = Shared(v)
<1> DEFINE w == [t EXCEPT !.cap = c]
           v == SetCapacity(t, c)
<1>1. w \in Table /\ w.log = t.log /\ w.drop = t.drop /\ w.lim = t.lim /\ w.cap = c
      /\ w.bytes = t.bytes
  BY DEF Table
<1>2. Sound(w) BY <1>1 DEF Sound
<1>3. v = EvictToFit(w, 0) BY DEF SetCapacity
<1> HIDE DEF w, v
<1>4. /\ v \in Table /\ Sound(v)
      /\ v.log = w.log /\ v.cap = w.cap /\ v.lim = w.lim
      /\ v.drop \in w.drop .. Len(w.log)
      /\ w.drop < w.lim => v = w
  BY <1>1, <1>2, <1>3, EvictBasics
<1>5. t.drop \in Nat /\ Len(t.log) \in Nat BY DEF Table
<1>6. Earlier(t, v) BY <1>1, <1>4, <1>5 DEF Earlier
<1>7. CurrentSize(EvictToFit(w, 0)) + 0 <= w.cap
  <2>1. v.cap \in Nat /\ CurrentSize(v) \in Int
    <3>1. v.drop \in Nat /\ Len(v.log) \in Nat /\ v.bytes \in Nat BY <1>4 DEF Table
    <3>2. v.drop < Len(v.log) => v.log[v.drop + 1].at \in Nat
      <4>1. v.drop < Len(v.log) => v.drop + 1 \in 1 .. Len(v.log) BY <3>1
      <4> QED BY <4>1, <1>4, TableFields
    <3>5. v.cap \in Nat BY <1>4, TableFields
    <3>3. CASE v.drop < Len(v.log)
      <4>1. v.bytes - v.log[v.drop + 1].at \in Int BY <3>1, <3>2, <3>3
      <4> QED BY <4>1, <3>3, <3>5 DEF CurrentSize, SizeFrom, InsertCount
    <3>4. CASE ~(v.drop < Len(v.log))
      BY <3>4, <3>5 DEF CurrentSize, SizeFrom, InsertCount
    <3> QED BY <3>3, <3>4, <3>5
  <2> QED BY <2>1, <1>1, <1>3 DEF v
<1>8. EvictToFit(Shared(w), 0) = Shared(v) BY <1>1, <1>2, <1>3, <1>7, EvictShared
<1>9. Shared(w) = [Shared(t) EXCEPT !.cap = c] BY DEF w, Shared, Table
<1>10. SetCapacity(Shared(t), c) = Shared(v) BY <1>8, <1>9 DEF SetCapacity
<1> QED BY <1>1, <1>4, <1>6, <1>10 DEF v
====
