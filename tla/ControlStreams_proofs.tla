----------------------- MODULE ControlStreams_proofs -----------------------
(***************************************************************************)
(* For any settings of the two ends, any number of unidirectional streams  *)
(* and any frames and instructions on them, cut into chunks anywhere: a    *)
(* peer is disconnected exactly for what is wrong with what it has sent,   *)
(* GOAWAY withdraws no request that was accepted, and two ends that have   *)
(* read one another's SETTINGS agree on what they may do.                  *)
(*                                                                         *)
(* First what FromSettings writes and FromPayload reads, as the elements   *)
(* of a sequence picked at some positions.  Then one item of a stream      *)
(* (Receive) against what is held against it (the Faults operators), a     *)
(* chunk of several by a least-number argument, the writing side, and the  *)
(* actions.                                                                *)
(***************************************************************************)
EXTENDS ControlStreams, SequenceTheorems, FiniteSetTheorems, NaturalsInduction,
        WellFoundedInduction, TLAPS

(* Every nonempty set of numbers has a least one.                          *)
LEMMA LeastNat ==
  ASSUME NEW T \in SUBSET Nat, T # {}
  PROVE  \E n \in T : \A m \in T : n <= m
<1> DEFINE R == OpToRel(<, Nat)
<1>1. IsWellFoundedOn(R, Nat) BY NatLessThanWellFounded
<1>2. PICK n \in T : \A m \in T : <<m, n>> \notin R
  <2> HIDE DEF R
  <2> QED BY <1>1, WFMin
<1>3. \A m \in T : ~(m < n) BY <1>2 DEF OpToRel
<1> QED BY <1>3

IdSet == {"QPACK_MAX_TABLE_CAPACITY", "MAX_FIELD_SECTION_SIZE", "QPACK_BLOCKED_STREAMS",
          "ENABLE_CONNECT_PROTOCOL", "H3_DATAGRAM", "WT_ENABLED", "WT_ENABLED_DRAFT17", "WT_INITIAL_MAX_STREAMS_UNI",
                 "WT_INITIAL_MAX_STREAMS_BIDI", "WT_INITIAL_MAX_DATA", "ENABLE_WEBTRANSPORT_DRAFT02", "WEBTRANSPORT_MAX_SESSIONS_DRAFT07",
                 "WT_MAX_SESSIONS_DRAFT14"}
VarInts == {"WT_ENABLED", "WT_ENABLED_DRAFT17", "WT_INITIAL_MAX_STREAMS_UNI",
            "WT_INITIAL_MAX_STREAMS_BIDI", "WT_INITIAL_MAX_DATA"}
WtSet == {"WT_ENABLED", "WT_ENABLED_DRAFT17", "WT_INITIAL_MAX_STREAMS_UNI",
          "WT_INITIAL_MAX_STREAMS_BIDI", "WT_INITIAL_MAX_DATA", "ENABLE_WEBTRANSPORT_DRAFT02",
          "WEBTRANSPORT_MAX_SESSIONS_DRAFT07", "WT_MAX_SESSIONS_DRAFT14"}

LEMMA IdsAre ==
  /\ Ids \in Seq(IdSet) /\ Len(Ids) = 13
  /\ Range(Ids) = IdSet
  /\ Range(WtVarIntIds) = VarInts /\ Range(WtIds) = WtSet
  /\ \A i, j \in 1 .. 13 : Ids[i] = Ids[j] => i = j
<1>1. H3Ids \in Seq(IdSet) /\ WtVarIntIds \in Seq(IdSet) /\ WtOptionIds \in Seq(IdSet)
  <2>1. H3Ids \in Seq(IdSet) BY DEF H3Ids, IdSet
  <2>2. WtVarIntIds \in Seq(IdSet) BY DEF WtVarIntIds, IdSet
  <2>3. WtOptionIds \in Seq(IdSet) BY DEF WtOptionIds, IdSet
  <2> QED BY <2>1, <2>2, <2>3
<1>2. Len(H3Ids) = 5 /\ Len(WtVarIntIds) = 5 /\ Len(WtOptionIds) = 3
  BY DEF H3Ids, WtVarIntIds, WtOptionIds
<1>3. /\ WtIds \in Seq(IdSet) /\ Len(WtIds) = 8
      /\ \A i \in 1 .. 8 : WtIds[i] = IF i <= 5 THEN WtVarIntIds[i] ELSE WtOptionIds[i - 5]
  <2>1. /\ WtIds \in Seq(IdSet) /\ Len(WtIds) = Len(WtVarIntIds) + Len(WtOptionIds)
        /\ \A i \in 1 .. Len(WtVarIntIds) + Len(WtOptionIds) :
              WtIds[i] = IF i <= Len(WtVarIntIds) THEN WtVarIntIds[i]
                         ELSE WtOptionIds[i - Len(WtVarIntIds)]
    BY <1>1, ConcatProperties, Zenon DEF WtIds
  <2> QED BY <2>1, <1>2
<1>4. /\ Ids \in Seq(IdSet) /\ Len(Ids) = 13
      /\ \A i \in 1 .. 13 : Ids[i] = IF i <= 5 THEN H3Ids[i] ELSE WtIds[i - 5]
  <2>1. /\ Ids \in Seq(IdSet) /\ Len(Ids) = Len(H3Ids) + Len(WtIds)
        /\ \A i \in 1 .. Len(H3Ids) + Len(WtIds) :
              Ids[i] = IF i <= Len(H3Ids) THEN H3Ids[i] ELSE WtIds[i - Len(H3Ids)]
    BY <1>1, <1>3, ConcatProperties, Zenon DEF Ids
  <2> QED BY <2>1, <1>2, <1>3
<1>5. /\ Ids[1] = "QPACK_MAX_TABLE_CAPACITY" /\ Ids[2] = "MAX_FIELD_SECTION_SIZE"
      /\ Ids[3] = "QPACK_BLOCKED_STREAMS" /\ Ids[4] = "ENABLE_CONNECT_PROTOCOL"
      /\ Ids[5] = "H3_DATAGRAM"
  BY <1>4 DEF H3Ids
<1>6. /\ WtIds[1] = "WT_ENABLED" /\ WtIds[2] = "WT_ENABLED_DRAFT17"
      /\ WtIds[3] = "WT_INITIAL_MAX_STREAMS_UNI" /\ WtIds[4] = "WT_INITIAL_MAX_STREAMS_BIDI"
      /\ WtIds[5] = "WT_INITIAL_MAX_DATA"
  BY <1>3 DEF WtVarIntIds
<1>7. /\ WtIds[6] = "ENABLE_WEBTRANSPORT_DRAFT02"
      /\ WtIds[7] = "WEBTRANSPORT_MAX_SESSIONS_DRAFT07" /\ WtIds[8] = "WT_MAX_SESSIONS_DRAFT14"
  BY <1>3 DEF WtOptionIds
<1>8. /\ Ids[6] = "WT_ENABLED" /\ Ids[7] = "WT_ENABLED_DRAFT17"
      /\ Ids[8] = "WT_INITIAL_MAX_STREAMS_UNI" /\ Ids[9] = "WT_INITIAL_MAX_STREAMS_BIDI"
      /\ Ids[10] = "WT_INITIAL_MAX_DATA" /\ Ids[11] = "ENABLE_WEBTRANSPORT_DRAFT02"
      /\ Ids[12] = "WEBTRANSPORT_MAX_SESSIONS_DRAFT07" /\ Ids[13] = "WT_MAX_SESSIONS_DRAFT14"
  BY <1>4, <1>6, <1>7
<1>9. DOMAIN Ids = 1 .. 13 /\ DOMAIN WtIds = 1 .. 8 /\ DOMAIN WtVarIntIds = 1 .. 5
  BY <1>1, <1>2, <1>3, <1>4
<1>10. \A i \in 1 .. 13 : i \in {1, 2, 3, 4, 5, 6, 7, 8, 9, 10, 11, 12, 13}
  OBVIOUS
<1>11. Range(Ids) = IdSet
  <2>1. Range(Ids) = {Ids[i] : i \in 1 .. 13} BY <1>9 DEF Range
  <2>2. {Ids[i] : i \in 1 .. 13} = {Ids[1], Ids[2], Ids[3], Ids[4], Ids[5], Ids[6], Ids[7],
                                   Ids[8], Ids[9], Ids[10], Ids[11], Ids[12], Ids[13]}
    BY <1>10
  <2> QED BY <2>1, <2>2, <1>5, <1>8, Zenon DEF IdSet
<1>12. Range(WtVarIntIds) = VarInts
  BY <1>9 DEF Range, WtVarIntIds, VarInts
<1>13. Range(WtIds) = WtSet
  <2>1. Range(WtIds) = {WtIds[i] : i \in 1 .. 8} BY <1>9 DEF Range
  <2>2. {WtIds[i] : i \in 1 .. 8} = {WtIds[1], WtIds[2], WtIds[3], WtIds[4], WtIds[5], WtIds[6],
                                    WtIds[7], WtIds[8]}
    OBVIOUS
  <2> QED BY <2>1, <2>2, <1>6, <1>7, Zenon DEF WtSet
<1>14. \A i, j \in 1 .. 13 : Ids[i] = Ids[j] => i = j
  BY <1>5, <1>8, <1>10
<1> QED BY <1>4, <1>11, <1>12, <1>13, <1>14

-----------------------------------------------------------------------------
(***************************************************************************)
(* Picked: the elements of a sequence at some positions, in order.         *)
(***************************************************************************)
Rank(P, j) == Cardinality({m \in P : m <= j})

LEMMA PositionsFinite ==
  ASSUME NEW n \in Nat, NEW P, P \subseteq 1 .. n
  PROVE  P \in SUBSET Int /\ IsFiniteSet(P)
<1>1. P \in SUBSET (1 .. n) OBVIOUS
<1>2. IsFiniteSet(1 .. n) BY FS_Interval
<1>3. IsFiniteSet(P) BY <1>1, <1>2, FS_Subset
<1> QED BY <1>1, <1>3

(* The positions are ranked 1, 2, ...: every rank is taken, once.          *)
LEMMA Ranks ==
  ASSUME NEW P \in SUBSET Int, IsFiniteSet(P)
  PROVE  /\ Cardinality(P) \in Nat
         /\ \A j \in P : Rank(P, j) \in 1 .. Cardinality(P)
         /\ \A i, j \in P : Rank(P, i) = Rank(P, j) => i = j
         /\ \A i \in 1 .. Cardinality(P) : \E j \in P : Rank(P, j) = i
<1>1. IsFiniteSet(P) /\ Cardinality(P) \in Nat
  BY FS_CardinalityType
<1> DEFINE Below(j) == {m \in P : m <= j}
<1>2. \A j \in P : IsFiniteSet(Below(j)) /\ Cardinality(Below(j)) \in 1 .. Cardinality(P)
  <2> TAKE j \in P
  <2>1. Below(j) \in SUBSET P /\ j \in Below(j) OBVIOUS
  <2> HIDE DEF Below
  <2>2. /\ IsFiniteSet(Below(j)) /\ Cardinality(Below(j)) \in Nat
        /\ Cardinality(Below(j)) <= Cardinality(P)
    BY <1>1, <2>1, FS_Subset, FS_CardinalityType
  <2>3. Cardinality(Below(j)) # 0 BY <2>1, <2>2, FS_EmptySet
  <2> QED BY <1>1, <2>2, <2>3
<1>3. ASSUME NEW i \in P, NEW j \in P, i < j PROVE Cardinality(Below(i)) # Cardinality(Below(j))
  <2>0. i \in Int /\ j \in Int /\ \A m \in P : m \in Int OBVIOUS
  <2>1. /\ \A m \in P : m <= i => m <= j
        /\ j <= j /\ ~(j <= i)
    BY <1>3, <2>0
  <2>3. Below(i) \in SUBSET Below(j) /\ j \in Below(j) /\ j \notin Below(i) BY <2>1
  <2>2. IsFiniteSet(Below(j)) BY <1>2
  <2> HIDE DEF Below
  <2> QED BY <2>3, <2>2, FS_Subset
<1>4. \A i, j \in P : Cardinality(Below(i)) = Cardinality(Below(j)) => i = j
  <2> HIDE DEF Below
  <2> QED BY <1>3
<1>5. \A j \in P : Rank(P, j) = Cardinality(Below(j)) BY DEF Rank
<1> DEFINE f == [j \in P |-> Rank(P, j)]
           c == Cardinality(P)
<1> HIDE DEF Below
<1>6. f \in Injection(P, 1 .. c)
  <2>1. f \in [P -> 1 .. c] BY <1>2, <1>5
  <2>2. \A i, j \in P : f[i] = f[j] => i = j BY <1>4, <1>5
  <2> HIDE DEF f, c
  <2> QED BY <2>1, <2>2 DEF Injection, IsInjective
<1>7. IsFiniteSet(1 .. c) /\ Cardinality(1 .. c) = c
  BY <1>1, FS_Interval
<1>8. f \in Surjection(P, 1 .. c)
  <2> HIDE DEF f
  <2> QED BY <1>6, <1>7, FS_Injection
<1>9. \A i \in 1 .. c : \E j \in P : f[j] = i
  <2> HIDE DEF f
  <2> QED BY <1>8 DEF Surjection
<1> QED BY <1>1, <1>2, <1>4, <1>5, <1>9

LEMMA PickedIs ==
  ASSUME NEW P, NEW q
  PROVE  Picked(q, P) = [i \in 1 .. Cardinality(P) |-> q[CHOOSE j \in P : Rank(P, j) = i]]
BY Zenon DEF Picked, Rank

(* The element of rank i is at the position of that rank.                  *)
LEMMA PickedDomain ==
  ASSUME NEW P, NEW q
  PROVE  DOMAIN Picked(q, P) = 1 .. Cardinality(P)
BY PickedIs

LEMMA PickedRank ==
  ASSUME NEW P \in SUBSET Int, IsFiniteSet(P), NEW q, NEW j \in P
  PROVE  Picked(q, P)[Rank(P, j)] = q[j]
<1>1. Picked(q, P) = [i \in 1 .. Cardinality(P) |-> q[CHOOSE m \in P : Rank(P, m) = i]]
  BY PickedIs, Zenon
<1>2. Rank(P, j) \in 1 .. Cardinality(P) /\ \A i \in P : Rank(P, i) = Rank(P, j) => i = j
  BY Ranks
<1>3. (CHOOSE i \in P : Rank(P, i) = Rank(P, j)) = j BY <1>2
<1> QED BY <1>1, <1>2, <1>3

LEMMA PickedFrom ==
  ASSUME NEW P \in SUBSET Int, IsFiniteSet(P), NEW q, NEW i \in 1 .. Cardinality(P)
  PROVE  \E j \in P : Rank(P, j) = i /\ Picked(q, P)[i] = q[j]
<1>1. PICK j \in P : Rank(P, j) = i BY Ranks
<1>2. Picked(q, P)[Rank(P, j)] = q[j] BY PickedRank
<1> QED BY <1>1, <1>2

LEMMA PickedElements ==
  ASSUME NEW S, NEW P \in SUBSET Int, IsFiniteSet(P), NEW q, \A j \in P : q[j] \in S
  PROVE  /\ Picked(q, P) \in Seq(S) /\ Len(Picked(q, P)) = Cardinality(P)
<1>1. Cardinality(P) \in Nat BY Ranks
<1>2. /\ DOMAIN Picked(q, P) = 1 .. Cardinality(P)
      /\ \A i \in 1 .. Cardinality(P) : Picked(q, P)[i] \in S
      /\ Picked(q, P) = [i \in 1 .. Cardinality(P) |-> Picked(q, P)[i]]
  <2>1. /\ DOMAIN Picked(q, P) = 1 .. Cardinality(P)
        /\ \A i \in 1 .. Cardinality(P) : \E j \in P : Picked(q, P)[i] = q[j]
    BY PickedDomain, PickedFrom
  <2>2. Picked(q, P) = [i \in 1 .. Cardinality(P) |-> Picked(q, P)[i]]
    <3>1. Picked(q, P) = [i \in 1 .. Cardinality(P) |-> q[CHOOSE m \in P : Rank(P, m) = i]]
      BY PickedIs, Zenon
    <3> QED BY <3>1
  <2> QED BY <2>1, <2>2
<1>3. Picked(q, P) \in [1 .. Cardinality(P) -> S] BY <1>2
<1>4. Picked(q, P) \in Seq(S) /\ Len(Picked(q, P)) = Cardinality(P) BY <1>1, <1>2, <1>3
<1> QED BY <1>4

LEMMA PickedRange ==
  ASSUME NEW P \in SUBSET Int, IsFiniteSet(P), NEW q, NEW y
  PROVE  y \in Range(Picked(q, P)) <=> \E j \in P : y = q[j]
<1>1. DOMAIN Picked(q, P) = 1 .. Cardinality(P) BY PickedDomain
<1>2. Range(Picked(q, P)) = {Picked(q, P)[i] : i \in 1 .. Cardinality(P)} BY <1>1 DEF Range
<1>3. ASSUME NEW j \in P PROVE q[j] \in Range(Picked(q, P))
  <2>1. Rank(P, j) \in 1 .. Cardinality(P) BY Ranks
  <2>2. Picked(q, P)[Rank(P, j)] = q[j] BY PickedRank
  <2> QED BY <1>2, <2>1, <2>2
<1>4. ASSUME NEW i \in 1 .. Cardinality(P) PROVE \E j \in P : Picked(q, P)[i] = q[j]
  BY PickedFrom
<1> QED BY <1>2, <1>3, <1>4

(* One element more: it is picked last, or not at all.                     *)
LEMMA PickedAppend ==
  ASSUME NEW S, NEW q \in Seq(S), NEW f \in S, NEW P \in SUBSET (1 .. Len(q))
  PROVE  /\ Picked(Append(q, f), P) = Picked(q, P)
         /\ Picked(Append(q, f), P \cup {Len(q) + 1}) = Append(Picked(q, P), f)
<1> DEFINE r == Append(q, f)
           N == Len(q) + 1
           Q == P \cup {N}
<1>1. /\ Len(q) \in Nat /\ r \in Seq(S) /\ Len(r) = N /\ r[N] = f
      /\ \A j \in 1 .. Len(q) : r[j] = q[j]
  BY AppendProperties, LenProperties
<1>2. \A j \in P : q[j] \in S /\ r[j] = q[j] BY <1>1
<1> HIDE DEF r
<1>0. P \in SUBSET Int /\ IsFiniteSet(P) /\ Cardinality(P) \in Nat
  <2>1. P \in SUBSET Int /\ IsFiniteSet(P) BY <1>1, PositionsFinite, Zenon
  <2> QED BY <2>1, FS_CardinalityType
<1>3. Picked(r, P) = Picked(q, P)
  <2>1. \A i \in 1 .. Cardinality(P) : (CHOOSE j \in P : Rank(P, j) = i) \in P
    BY <1>0, Ranks
  <2>2. /\ Picked(r, P) = [i \in 1 .. Cardinality(P) |-> r[CHOOSE j \in P : Rank(P, j) = i]]
        /\ Picked(q, P) = [i \in 1 .. Cardinality(P) |-> q[CHOOSE j \in P : Rank(P, j) = i]]
    BY PickedIs, Zenon
  <2>3. \A i \in 1 .. Cardinality(P) : r[CHOOSE j \in P : Rank(P, j) = i]
                                      = q[CHOOSE j \in P : Rank(P, j) = i]
    BY <1>2, <2>1, Zenon
  <2> QED BY <2>2, <2>3, Zenon
<1>4. Q \in SUBSET (1 .. N) /\ N \in Nat
  <2>1. N \in Nat /\ N \in 1 .. N /\ 1 .. Len(q) \subseteq 1 .. N BY <1>1
  <2> QED BY <2>1
<1>6. N \notin P BY <1>1
<1>7. Cardinality(Q) = Cardinality(P) + 1
  BY <1>0, <1>6, FS_AddElement
<1>5. Q \in SUBSET Int /\ IsFiniteSet(Q)
  <2>1. IsFiniteSet(Q) BY <1>0, FS_AddElement
  <2> QED BY <2>1, <1>4
<1>8. \A j \in P : Rank(Q, j) = Rank(P, j)
  <2> TAKE j \in P
  <2>1. {m \in Q : m <= j} = {m \in P : m <= j} BY <1>1
  <2> QED BY <2>1 DEF Rank
<1>9. Rank(Q, N) = Cardinality(P) + 1
  <2>1. {m \in Q : m <= N} = Q BY <1>4
  <2> QED BY <2>1, <1>7 DEF Rank
<1> DEFINE new == Picked(r, Q)
           old == Picked(q, P)
<1>10. \A j \in Q : r[j] \in S BY <1>1, <1>2
<1>11. new \in Seq(S) /\ Len(new) = Cardinality(P) + 1
  <2> HIDE DEF Q
  <2> QED BY <1>5, <1>7, <1>10, PickedElements
<1>12. old \in Seq(S) /\ Len(old) = Cardinality(P) BY <1>0, <1>2, PickedElements
<1>13. new[Cardinality(P) + 1] = f
  <2>1. N \in Q OBVIOUS
  <2> HIDE DEF Q
  <2>2. new[Rank(Q, N)] = r[N] BY <1>5, <2>1, PickedRank
  <2> QED BY <1>1, <1>9, <2>2
<1>14. ASSUME NEW i \in 1 .. Cardinality(P) PROVE new[i] = old[i]
  <2>1. PICK j \in P : Rank(P, j) = i /\ old[i] = q[j]
    <3>2. \E j \in P : Rank(P, j) = i /\ Picked(q, P)[i] = q[j] BY <1>0, PickedFrom
    <3> QED BY <3>2
  <2>2. new[Rank(Q, j)] = r[j]
    <3>1. j \in Q OBVIOUS
    <3> HIDE DEF Q
    <3> QED BY <1>5, <3>1, PickedRank
  <2> QED BY <1>2, <1>8, <2>1, <2>2
<1> HIDE DEF new, old, N, Q
<1>15. new = Append(old, f)
  <2>1. /\ Append(old, f) \in Seq(S) /\ Len(Append(old, f)) = Cardinality(P) + 1
        /\ \A i \in 1 .. Cardinality(P) : Append(old, f)[i] = old[i]
        /\ Append(old, f)[Cardinality(P) + 1] = f
    BY <1>12, AppendProperties
  <2>2. \A i \in 1 .. Cardinality(P) + 1 : new[i] = Append(old, f)[i]
    BY <1>0, <1>13, <1>14, <2>1
  <2> QED BY <1>11, <2>1, <2>2, SeqEqual
<1> QED BY <1>3, <1>15 DEF new, old, N, Q, r

-----------------------------------------------------------------------------
(***************************************************************************)
(* SETTINGS on the wire and back.                                          *)
(***************************************************************************)
Params == Names \X Nat

(* The parameters that are written: each at most once, and GREASE.         *)
LEMMA FromSettingsIs ==
  ASSUME NEW s \in AnySettings
  PROVE  /\ FromSettings(s) \in Seq(Params) /\ Len(FromSettings(s)) \in Nat \ {0}
         /\ Range(FromSettings(s)) = {<<id, s.v[id]>> : id \in {id \in IdSet : Writes(s, id)}}
                                     \cup {<<"GREASE", 0>>}
         /\ \A i, j \in 1 .. Len(FromSettings(s)) :
               FromSettings(s)[i][1] = FromSettings(s)[j][1] => i = j
<1> DEFINE fields == [i \in DOMAIN Ids |-> <<Ids[i], s.v[Ids[i]]>>]
           P == {i \in DOMAIN Ids : Writes(s, Ids[i])}
           q == Picked(fields, P)
           w == FromSettings(s)
           c == Cardinality(P)
<1>1. w = Append(q, <<"GREASE", 0>>) BY Zenon DEF FromSettings
<1>2. /\ DOMAIN Ids = 1 .. 13 /\ P \in SUBSET (1 .. 13) /\ 13 \in Nat
      /\ \A i \in 1 .. 13 : Ids[i] \in IdSet
      /\ Range(Ids) = IdSet
  <2>1. Ids \in Seq(IdSet) /\ Len(Ids) = 13 /\ Range(Ids) = IdSet BY IdsAre, Zenon
  <2>2. DOMAIN Ids = 1 .. 13 BY <2>1, LenProperties
  <2>3. \A i \in 1 .. 13 : Ids[i] \in IdSet BY <2>1, ElementOfSeq
  <2> QED BY <2>1, <2>2, <2>3
<1>3. /\ \A id \in IdSet : s.v[id] \in Nat \cup {Absent}
      /\ \A id \in IdSet : Writes(s, id) => s.v[id] # Absent
  BY <1>2 DEF AnySettings, Writes
<1>4. \A id \in IdSet : id \in Names BY IdsAre, Zenon DEF Names
<1>5. \A i \in 1 .. 13 : fields[i] = <<Ids[i], s.v[Ids[i]]>> BY <1>2
<1>6. \A i \in P : fields[i] \in Params BY <1>2, <1>3, <1>4, <1>5 DEF Params
<1> HIDE DEF fields, P
<1>7. P \in SUBSET Int /\ IsFiniteSet(P) /\ q \in Seq(Params) /\ Len(q) = c /\ Range(q) = {fields[i] : i \in P} /\ c \in Nat
  <2>2. P \in SUBSET Int /\ IsFiniteSet(P)
    <3>1. PICK n \in Nat : n = 13 OBVIOUS
    <3>2. P \subseteq 1 .. n BY <1>2, <3>1
    <3> QED BY <3>2, PositionsFinite, Zenon
  <2>3. Cardinality(P) \in Nat BY <2>2, Ranks
  <2>4. /\ Picked(fields, P) \in Seq(Params) /\ Len(Picked(fields, P)) = Cardinality(P)
        /\ Range(Picked(fields, P)) = {fields[i] : i \in P}
    <3>1. \A j \in P : fields[j] \in Params BY <1>6
    <3>2. PICK S : S = Params OBVIOUS
    <3>3. \A j \in P : fields[j] \in S BY <3>1, <3>2
    <3>4. Picked(fields, P) \in Seq(S) /\ Len(Picked(fields, P)) = Cardinality(P)
      BY <2>2, <3>3, PickedElements
    <3>5. \A y : y \in Range(Picked(fields, P)) <=> \E j \in P : y = fields[j]
      BY <2>2, PickedRange
    <3> QED BY <3>2, <3>4, <3>5
  <2> QED BY <2>2, <2>3, <2>4
<1>8. <<"GREASE", 0>> \in Params
  <2>1. "GREASE" \in Names BY DEF Names
  <2> QED BY <2>1 DEF Params
<1> HIDE DEF q, c
<1>9. /\ w \in Seq(Params) /\ Len(w) = c + 1 /\ w[c + 1] = <<"GREASE", 0>>
      /\ \A i \in 1 .. c : w[i] = q[i]
  BY <1>1, <1>7, <1>8, AppendProperties
<1>10. Range(q) = {<<id, s.v[id]>> : id \in {id \in IdSet : Writes(s, id)}}
  <2> DEFINE W == {id \in IdSet : Writes(s, id)}
  <2>1. ASSUME NEW i \in P
        PROVE  \E id \in W : fields[i] = <<id, s.v[id]>>
    BY <1>2, <1>5 DEF P
  <2>2. ASSUME NEW id \in W
        PROVE  \E i \in P : fields[i] = <<id, s.v[id]>>
    <3>1. PICK i \in 1 .. 13 : Ids[i] = id BY <1>2 DEF Range
    <3>2. i \in P BY <1>2, <3>1 DEF P
    <3> QED BY <3>1, <3>2, <1>5
  <2> HIDE DEF W
  <2>3. {fields[i] : i \in P} = {<<id, s.v[id]>> : id \in W} BY SMTT(30), <2>1, <2>2
  <2> QED BY <1>7, <2>3 DEF W
<1>11. Range(w) = Range(q) \cup {<<"GREASE", 0>>}
  <2>1. Range(w) = {w[i] : i \in 1 .. Len(w)} /\ Range(q) = {q[i] : i \in 1 .. Len(q)}
    <3>1. Range(w) = {w[i] : i \in 1 .. Len(w)} BY <1>9, RangeEquality
    <3>2. Range(q) = {q[i] : i \in 1 .. Len(q)} BY <1>7, RangeEquality
    <3> QED BY <3>1, <3>2
  <2>2. \A i \in 1 .. c + 1 : i = c + 1 \/ i \in 1 .. c BY <1>7
  <2>3. c + 1 \in 1 .. c + 1 /\ \A i \in 1 .. c : i \in 1 .. c + 1 BY <1>7
  <2> QED BY <2>1, <2>2, <2>3, <1>7, <1>9
<1>12. ASSUME NEW i \in 1 .. c, NEW j \in 1 .. c, q[i][1] = q[j][1] PROVE i = j
  <2>1. PICK k \in P : Rank(P, k) = i /\ q[i] = fields[k]
    BY <1>7, PickedFrom DEF q, c
  <2>2. PICK l \in P : Rank(P, l) = j /\ q[j] = fields[l]
    BY <1>7, PickedFrom DEF q, c
  <2>3. k \in 1 .. 13 /\ l \in 1 .. 13 BY <1>2
  <2>4. Ids[k] = Ids[l] BY <2>1, <2>2, <2>3, <1>5, <1>12
  <2>5. k = l BY <2>3, <2>4, IdsAre
  <2> QED BY <2>1, <2>2, <2>5
<1>13. \A i \in 1 .. c : q[i][1] # "GREASE"
  <2>1. \A id \in IdSet : id # "GREASE" BY DEF IdSet
  <2>2. \A i \in 1 .. c : q[i] \in Range(q) BY <1>7, RangeEquality
  <2> QED BY <2>1, <2>2, <1>10
<1>14. ASSUME NEW i \in 1 .. Len(w), NEW j \in 1 .. Len(w), w[i][1] = w[j][1] PROVE i = j
  <2>1. (i = c + 1 \/ i \in 1 .. c) /\ (j = c + 1 \/ j \in 1 .. c) BY <1>7, <1>9
  <2> QED BY <2>1, <1>7, <1>9, <1>12, <1>13, <1>14
<1> QED BY <1>7, <1>9, <1>10, <1>11, <1>14

(* What is read is of the type of settings.                                *)
LEMMA FromPayloadType ==
  ASSUME NEW payload \in Seq(Params)
  PROVE  FromPayload(payload) \in AnySettings
<1> DEFINE sent == {p[1] : p \in Range(payload)}
           value(id) == (CHOOSE p \in Range(payload) : p[1] = id)[2]
<1>1. \A p \in Range(payload) : p \in Params BY RangeEquality
<1>2. \A id \in sent : value(id) \in Nat
  <2> TAKE id \in sent
  <2>1. \E p \in Range(payload) : p[1] = id OBVIOUS
  <2>2. (CHOOSE p \in Range(payload) : p[1] = id) \in Range(payload) BY <2>1
  <2> QED BY <1>1, <2>2 DEF Params
<1> DEFINE wt == sent \cap Range(WtIds) # {}
           read(id) == IF id \in sent THEN value(id)
                       ELSE IF wt /\ id \in Range(WtVarIntIds) THEN 0 ELSE Absent
<1>3. FromPayload(payload) = [wt |-> wt, v |-> [id \in Range(Ids) |-> read(id)]]
  BY Zenon DEF FromPayload
<1>4. \A id \in Range(Ids) : read(id) \in Nat \cup {Absent} BY <1>2
<1>5. wt \in BOOLEAN OBVIOUS
<1> HIDE DEF wt, read
<1> QED BY <1>3, <1>4, <1>5 DEF AnySettings

(* What is read of what is written.                                        *)
WireSettings(s) == FromPayload(FromSettings(s))

LEMMA WireSettingsAre ==
  ASSUME NEW s \in AnySettings
  PROVE  /\ WireSettings(s) \in AnySettings
         /\ WireSettings(s).wt <=> \E id \in WtSet : Writes(s, id)
         /\ \A id \in IdSet :
               WireSettings(s).v[id] =
                 IF Writes(s, id) THEN s.v[id]
                 ELSE IF WireSettings(s).wt /\ id \in VarInts THEN 0 ELSE Absent
<1> DEFINE payload == FromSettings(s)
           W == {id \in IdSet : Writes(s, id)}
           sent == {p[1] : p \in Range(payload)}
           value(id) == (CHOOSE p \in Range(payload) : p[1] = id)[2]
           wt == sent \cap Range(WtIds) # {}
           read(id) == IF id \in sent THEN value(id)
                       ELSE IF wt /\ id \in Range(WtVarIntIds) THEN 0 ELSE Absent
<1>1. WireSettings(s) \in AnySettings
  BY FromSettingsIs, FromPayloadType DEF WireSettings
<1>2. WireSettings(s) = [wt |-> wt, v |-> [id \in Range(Ids) |-> read(id)]]
  BY Zenon DEF WireSettings, FromPayload
<1>3. Range(payload) = {<<id, s.v[id]>> : id \in W} \cup {<<"GREASE", 0>>}
  BY FromSettingsIs
<1> HIDE DEF payload
<1>4. \A id \in IdSet : id # "GREASE" BY DEF IdSet
<1>5. \A id \in IdSet : id \in sent <=> Writes(s, id)
  <2>1. ASSUME NEW id \in W PROVE id \in sent
    <3>1. <<id, s.v[id]>> \in Range(payload) BY <1>3
    <3>2. <<id, s.v[id]>>[1] = id OBVIOUS
    <3> QED BY <3>1, <3>2, Zenon
  <2>2. ASSUME NEW id \in IdSet, id \in sent PROVE Writes(s, id)
    <3>1. PICK p \in Range(payload) : p[1] = id BY <2>2
    <3>2. PICK u \in W : p = <<u, s.v[u]>> BY <1>3, <1>4, <3>1
    <3> QED BY <3>1, <3>2
  <2> QED BY <2>1, <2>2
<1>6. ASSUME NEW id \in IdSet, Writes(s, id) PROVE value(id) = s.v[id]
  <2>1. <<id, s.v[id]>> \in Range(payload) BY <1>3, <1>6
  <2>2. \A p \in Range(payload) : p[1] = id => p = <<id, s.v[id]>>
    <3> TAKE p \in Range(payload)
    <3> HAVE p[1] = id
    <3>1. PICK u \in W : p = <<u, s.v[u]>> BY <1>3, <1>4
    <3> QED BY <3>1
  <2>3. (CHOOSE p \in Range(payload) : p[1] = id) = <<id, s.v[id]>>
    <3>1. \E p \in Range(payload) : p[1] = id BY <2>1
    <3> QED BY <3>1, <2>2
  <2>4. <<id, s.v[id]>>[2] = s.v[id] OBVIOUS
  <2> QED BY <2>3, <2>4, Zenon
<1>7. Range(Ids) = IdSet /\ Range(WtVarIntIds) = VarInts /\ Range(WtIds) = WtSet
  BY IdsAre, Zenon
<1>8. wt <=> \E id \in WtSet : Writes(s, id)
  <2>1. \A id \in WtSet : id \in IdSet BY DEF WtSet, IdSet
  <2> HIDE DEF sent
  <2> QED BY <1>5, <1>7, <2>1
<1> HIDE DEF sent, value, wt
<1>9. WireSettings(s).wt = wt /\ \A id \in IdSet : WireSettings(s).v[id] = read(id)
  BY <1>2, <1>7
<1>10. \A id \in IdSet : read(id) = IF Writes(s, id) THEN s.v[id]
                                   ELSE IF wt /\ id \in VarInts THEN 0 ELSE Absent
  BY <1>5, <1>6, <1>7
<1> HIDE DEF read
<1> QED BY <1>1, <1>8, <1>9, <1>10

(* Zero stands for absent, and settings without a WebTransport parameter   *)
(* for none: what the other end concludes does not depend on either.       *)
LEMMA WireKeeps ==
  ASSUME NEW e \in Ends, NEW s, Configured(e, s)
  PROVE  /\ WireSettings(s).wt => s.wt
         /\ \A id \in WtSet : WireSettings(s).wt /\ WireSettings(s).v[id] > 0
                                 <=> s.wt /\ s.v[id] > 0
         /\ \A id \in WtSet : s.wt /\ s.v[id] > 0 => WireSettings(s).v[id] = s.v[id]
         /\ \A id \in WtSet : WireSettings(s).v[id] > 0 => WireSettings(s).v[id] = s.v[id]
         /\ \A id \in IdSet \ WtSet : WireSettings(s).v[id] = s.v[id]
         /\ \A id \in VarInts : s.wt => s.v[id] \in Nat
         /\ \A id \in VarInts : WireSettings(s).wt => WireSettings(s).v[id] = s.v[id]
         /\ ~WireSettings(s).wt => \A id \in WtSet : WireSettings(s).v[id] = Absent
<1> DEFINE r == WireSettings(s)
<1>1. s \in AnySettings BY DEF Configured
<1>2. Range(Ids) = IdSet /\ Range(WtIds) = WtSet /\ Range(WtVarIntIds) = VarInts
  BY IdsAre, Zenon
<1>3. /\ \A id \in IdSet : s.v[id] \in Nat \cup {Absent}
      /\ \A id \in VarInts : s.wt => s.v[id] # Absent
  BY <1>1, <1>2 DEF AnySettings, Configured
<1>4. /\ \A id \in WtSet : id \in IdSet
      /\ \A id \in VarInts : id \in WtSet
  BY DEF IdSet, WtSet, VarInts
<1>5. \A id \in IdSet : Writes(s, id) <=> (/\ (id \in WtSet => s.wt)
                                          /\ s.v[id] # Absent
                                          /\ (id \in VarInts => s.v[id] # 0))
  BY <1>2, Zenon DEF Writes
<1>6. r \in AnySettings /\ (r.wt <=> \E id \in WtSet : Writes(s, id))
  BY <1>1, WireSettingsAre, Zenon
<1>7. \A id \in IdSet : r.v[id] = IF Writes(s, id) THEN s.v[id]
                                ELSE IF r.wt /\ id \in VarInts THEN 0 ELSE Absent
  BY <1>1, WireSettingsAre, Zenon
<1>8. \A id \in IdSet : r.v[id] \in Nat \cup {Absent}
  BY <1>2, <1>6 DEF AnySettings
<1> HIDE DEF r
<1>9. r.wt => s.wt BY <1>4, <1>5, <1>6
<1>10. \A id \in WtSet : s.wt /\ s.v[id] > 0 => Writes(s, id)
  BY <1>3, <1>4, <1>5 DEF Absent
<1>11. \A id \in WtSet : r.v[id] > 0 => Writes(s, id)
  BY <1>4, <1>7 DEF Absent
<1>12. \A id \in WtSet : Writes(s, id) => r.wt /\ s.wt /\ r.v[id] = s.v[id]
  BY <1>4, <1>5, <1>6, <1>7
<1>13. \A id \in IdSet \ WtSet : r.v[id] = s.v[id]
  BY <1>4, <1>5, <1>7
<1>14. \A id \in VarInts : s.wt => s.v[id] \in Nat BY <1>3, <1>4
<1>15. \A id \in VarInts : r.wt => r.v[id] = s.v[id]
  BY <1>3, <1>4, <1>5, <1>7, <1>9
<1>16. ~r.wt => \A id \in WtSet : r.v[id] = Absent
  BY <1>4, <1>6, <1>7
<1> QED BY <1>9, <1>10, <1>11, <1>12, <1>13, <1>14, <1>15, <1>16 DEF r

(* The parameters written are valid.                                       *)
LEMMA WrittenSettingsValid ==
  ASSUME NEW e \in Ends, NEW s, Configured(e, s)
  PROVE  ~InvalidSetting(FromSettings(s))
<1> DEFINE w == FromSettings(s)
<1>1. s \in AnySettings BY DEF Configured
<1>2. /\ w \in Seq(Params)
      /\ Range(w) = {<<id, s.v[id]>> : id \in {id \in IdSet : Writes(s, id)}} \cup {<<"GREASE", 0>>}
      /\ \A i, j \in 1 .. Len(w) : w[i][1] = w[j][1] => i = j
  BY <1>1, FromSettingsIs, Zenon
<1> HIDE DEF w
<1>3. DOMAIN w = 1 .. Len(w) /\ \A i \in 1 .. Len(w) : w[i] \in Range(w)
  BY <1>2, LenProperties, RangeEquality
<1>4. \A i \in 1 .. Len(w) : w[i] = <<"GREASE", 0>>
                             \/ \E id \in IdSet : w[i] = <<id, s.v[id]>>
  BY <1>2, <1>3
<1>5. \A id \in IdSet \cup {"GREASE"} : id # "HTTP2" BY DEF IdSet
<1>6. "GREASE" \notin BoolIds BY DEF BoolIds
<1>7. \A id \in BoolIds : s.v[id] <= 1 BY DEF Configured
<1>8. \A id \in BoolIds : id \in IdSet BY DEF BoolIds, IdSet
<1>9. \A id \in BoolIds : s.v[id] \in Int
  BY <1>1, <1>8, IdsAre DEF AnySettings, Absent
<1>10. ASSUME NEW i \in 1 .. Len(w)
       PROVE  /\ w[i][1] # "HTTP2"
              /\ w[i][1] \in BoolIds => ~(w[i][2] > 1)
              /\ \A j \in 1 .. i - 1 : w[j][1] # w[i][1]
  <2>1. w[i][1] # "HTTP2" BY <1>4, <1>5
  <2>2. w[i][1] \in BoolIds => ~(w[i][2] > 1)
    <3>1. CASE w[i] = <<"GREASE", 0>> BY <3>1, <1>6
    <3>2. ASSUME NEW id \in IdSet, w[i] = <<id, s.v[id]>>, id \in BoolIds
          PROVE ~(w[i][2] > 1)
      BY <3>2, <1>7, <1>9
    <3> QED BY <3>1, <3>2, <1>4
  <2>3. \A j \in 1 .. i - 1 : j \in 1 .. Len(w) /\ j # i
    <3>1. Len(w) \in Nat BY <1>2, LenProperties
    <3> QED BY <3>1
  <2>4. \A j \in 1 .. i - 1 : w[j][1] # w[i][1] BY <1>2, <2>3
  <2> QED BY <2>1, <2>2, <2>4
<1> QED BY <1>3, <1>10, Zenon DEF InvalidSetting, w

-----------------------------------------------------------------------------
(***************************************************************************)
(* What two ends conclude from their own settings and the other's.         *)
(***************************************************************************)
Drafts == {"17", "15", "07", "14", "02"}

LEMMA DraftFacts ==
  /\ DOMAIN DraftOrder = 1 .. 5 /\ \A i \in 1 .. 5 : DraftOrder[i] \in Drafts
  /\ \A d \in Drafts : d # NoDraft /\ DraftId(d) \in WtSet
<1>1. DOMAIN DraftOrder = 1 .. 5 BY DEF DraftOrder
<1>2. \A i \in 1 .. 5 : DraftOrder[i] \in Drafts BY DEF DraftOrder, Drafts
<1>3. \A d \in Drafts : d # NoDraft BY DEF Drafts, NoDraft
<1>4. /\ DraftId("17") = "WT_ENABLED_DRAFT17" /\ DraftId("15") = "WT_ENABLED"
      /\ DraftId("14") = "WT_MAX_SESSIONS_DRAFT14"
      /\ DraftId("07") = "WEBTRANSPORT_MAX_SESSIONS_DRAFT07"
      /\ DraftId("02") = "ENABLE_WEBTRANSPORT_DRAFT02"
  BY DEF DraftId
<1>5. \A d \in Drafts : DraftId(d) \in WtSet BY <1>4 DEF Drafts, WtSet
<1> QED BY <1>1, <1>2, <1>3, <1>5

(* A draft is advertised as it is read.                                    *)
LEMMA AdvertisesKept ==
  ASSUME NEW e \in Ends, NEW s, Configured(e, s), NEW d \in Drafts
  PROVE  Advertises(WireSettings(s), d) <=> Advertises(s, d)
<1>1. DraftId(d) \in WtSet BY DraftFacts
<1>2. \A id \in WtSet : WireSettings(s).wt /\ WireSettings(s).v[id] > 0 <=> s.wt /\ s.v[id] > 0
  BY WireKeeps, Zenon
<1> QED BY <1>1, <1>2, Zenon DEF Advertises

(* The first mutual draft is one both advertise.                           *)
LEMMA MutualDraft ==
  ASSUME NEW a, NEW b
  PROVE  /\ FirstMutualDraft(a, b) # NoDraft =>
               /\ FirstMutualDraft(a, b) \in Drafts
               /\ Advertises(a, FirstMutualDraft(a, b)) /\ Advertises(b, FirstMutualDraft(a, b))
         /\ FirstMutualDraft(a, b) = NoDraft =>
               \A d \in Drafts : ~Advertises(a, d) \/ ~Advertises(b, d)
<1> DEFINE mutual == {i \in DOMAIN DraftOrder : \A s \in {a, b} : Advertises(s, DraftOrder[i])}
           least == CHOOSE i \in mutual : \A j \in mutual : i <= j
<1>1. FirstMutualDraft(a, b) = IF mutual = {} THEN NoDraft ELSE DraftOrder[least]
  BY Zenon DEF FirstMutualDraft
<1>2. DOMAIN DraftOrder = 1 .. 5 /\ \A i \in 1 .. 5 : DraftOrder[i] \in Drafts
  BY DraftFacts, Zenon
<1>3. \A d \in Drafts : d # NoDraft BY DraftFacts, Zenon
<1>4. \A d \in Drafts : \E i \in 1 .. 5 : DraftOrder[i] = d
  <2>1. /\ DraftOrder[1] = "17" /\ DraftOrder[2] = "15" /\ DraftOrder[3] = "07"
        /\ DraftOrder[4] = "14" /\ DraftOrder[5] = "02"
    BY DEF DraftOrder
  <2> QED BY <2>1 DEF Drafts
<1>5. mutual # {} => \E i \in mutual : \A j \in mutual : i <= j
  <2>1. mutual \subseteq 1 .. 5 BY <1>2
  <2>2. mutual \in SUBSET Nat BY <2>1
  <2> HIDE DEF mutual
  <2> QED BY <2>2, LeastNat
<1>6. mutual # {} => least \in mutual
  <2> HIDE DEF mutual
  <2> QED BY <1>5
<1>7. \A i \in mutual : i \in 1 .. 5 /\ Advertises(a, DraftOrder[i]) /\ Advertises(b, DraftOrder[i])
  BY <1>2
<1>8. \A i \in 1 .. 5 : Advertises(a, DraftOrder[i]) /\ Advertises(b, DraftOrder[i]) => i \in mutual
  BY <1>2
<1> HIDE DEF least, mutual
<1> QED BY <1>1, <1>2, <1>3, <1>4, <1>6, <1>7, <1>8

LEMMA SameMutualDraft ==
  ASSUME NEW c, Configured("client", c), NEW s, Configured("server", s)
  PROVE  FirstMutualDraft(c, WireSettings(s)) = FirstMutualDraft(s, WireSettings(c))
<1>1. "client" \in Ends /\ "server" \in Ends BY DEF Ends
<1>2. /\ \A d \in Drafts : Advertises(WireSettings(s), d) <=> Advertises(s, d)
      /\ \A d \in Drafts : Advertises(WireSettings(c), d) <=> Advertises(c, d)
  BY <1>1, AdvertisesKept
<1>3. DOMAIN DraftOrder = 1 .. 5 /\ \A i \in 1 .. 5 : DraftOrder[i] \in Drafts
  BY DraftFacts, Zenon
<1> DEFINE m1 == {i \in DOMAIN DraftOrder :
                    \A x \in {c, WireSettings(s)} : Advertises(x, DraftOrder[i])}
           m2 == {i \in DOMAIN DraftOrder :
                    \A x \in {s, WireSettings(c)} : Advertises(x, DraftOrder[i])}
<1>4. m1 = m2 BY <1>2, <1>3
<1>5. /\ FirstMutualDraft(c, WireSettings(s)) =
            IF m1 = {} THEN NoDraft ELSE DraftOrder[CHOOSE i \in m1 : \A j \in m1 : i <= j]
      /\ FirstMutualDraft(s, WireSettings(c)) =
            IF m2 = {} THEN NoDraft ELSE DraftOrder[CHOOSE i \in m2 : \A j \in m2 : i <= j]
  BY Zenon DEF FirstMutualDraft
<1> HIDE DEF m1, m2
<1> QED BY <1>4, <1>5

LEMMA DraftsAgree ==
  ASSUME NEW c, Configured("client", c), NEW s, Configured("server", s),
         SelectDraft("client", c, WireSettings(s)) # NoDraft
  PROVE  /\ SelectDraft("server", s, WireSettings(c)) = SelectDraft("client", c, WireSettings(s))
         /\ s.wt /\ IsEnabled(s)
<1> DEFINE rs == WireSettings(s)
           rc == WireSettings(c)
           mutual == FirstMutualDraft(c, rs)
<1>1. "client" \in Ends /\ "server" \in Ends /\ "client" # "server" BY DEF Ends
<1>2. mutual = FirstMutualDraft(s, rc) BY SameMutualDraft
<1>3. c.wt /\ rs.wt /\ (mutual # NoDraft \/ Advertises(rs, "17"))
      /\ SelectDraft("client", c, rs) = IF mutual # NoDraft THEN mutual ELSE "17"
  BY Zenon DEF SelectDraft
<1>4. s.wt BY <1>1, <1>3, WireKeeps
<1>5. \A d \in Drafts : Advertises(rs, d) <=> Advertises(s, d) BY <1>1, AdvertisesKept
<1>6. "17" \in Drafts BY DEF Drafts
<1>7. SelectDraft("server", s, rc) = IF mutual # NoDraft THEN mutual
                                     ELSE IF Advertises(s, "17") THEN "17" ELSE NoDraft
  BY <1>1, <1>2, <1>4, Zenon DEF SelectDraft
<1>8. \E d \in Drafts : Advertises(s, d)
  <2>1. mutual # NoDraft => mutual \in Drafts /\ Advertises(rs, mutual) BY MutualDraft
  <2> QED BY <2>1, <1>3, <1>5, <1>6
<1>9. IsEnabled(s)
  <2>1. FirstMutualDraft(s, s) = NoDraft => \A d \in Drafts : ~Advertises(s, d)
    BY MutualDraft
  <2> QED BY <2>1, <1>8 DEF IsEnabled, DetectDraftPattern
<1> QED BY <1>3, <1>4, <1>5, <1>6, <1>7, <1>9

LEMMA NegotiationsAgree ==
  ASSUME NEW c, Configured("client", c), NEW s, Configured("server", s), NEW transport,
         FullyNegotiated("client", c, WireSettings(s), transport)
  PROVE  FullyNegotiated("server", s, WireSettings(c), transport)
<1> DEFINE rs == WireSettings(s)
           rc == WireSettings(c)
           d == SelectDraft("client", c, rs)
<1>1. "client" \in Ends /\ "server" \in Ends /\ "client" # "server" BY DEF Ends
<1>2. c.wt /\ transport.verified /\ d # NoDraft /\ (RequiresResetAt(d) => transport.resetAt)
  BY <1>1, Zenon DEF FullyNegotiated
<1>3. SelectDraft("server", s, rc) = d /\ s.wt /\ IsEnabled(s)
  BY <1>2, DraftsAgree
<1>4. rc.v["H3_DATAGRAM"] = 1
  <2>1. "H3_DATAGRAM" \in IdSet \ WtSet BY DEF IdSet, WtSet
  <2>2. rc.v["H3_DATAGRAM"] = c.v["H3_DATAGRAM"] BY <1>1, <2>1, WireKeeps
  <2>3. c.v["H3_DATAGRAM"] = 1 BY <1>2, Zenon DEF Configured
  <2> QED BY <2>2, <2>3
<1> HIDE DEF d, rc, rs
<1>5. FullyNegotiated("server", s, rc, transport) <=>
        /\ s.wt /\ ("server" = "server" => IsEnabled(s))
        /\ rc.v["H3_DATAGRAM"] = 1
        /\ transport.verified
        /\ IF d = NoDraft THEN "server" = "server" /\ ~AdvertisesWtEnabled(s)
           ELSE /\ "server" = "client" /\ RequiresConnect(d) => rc.v["ENABLE_CONNECT_PROTOCOL"] = 1
                /\ RequiresResetAt(d) => transport.resetAt
  BY <1>3, Zenon DEF FullyNegotiated
<1> QED BY <1>1, <1>2, <1>3, <1>4, <1>5 DEF rc

LEMMA FlowControlAgrees ==
  ASSUME NEW c, Configured("client", c), NEW s, Configured("server", s)
  PROVE  FlowControlEnabled(c, WireSettings(s)) <=> FlowControlEnabled(s, WireSettings(c))
<1>1. "client" \in Ends /\ "server" \in Ends BY DEF Ends
<1>2. ASSUME NEW e \in Ends, NEW x, Configured(e, x)
      PROVE  x.wt /\ DeclaresFlowControl(x)
             <=> WireSettings(x).wt /\ DeclaresFlowControl(WireSettings(x))
  <2> DEFINE r == WireSettings(x)
             many == "WT_MAX_SESSIONS_DRAFT14"
  <2>1. many \in WtSet BY DEF WtSet
  <2>2. "WT_ENABLED" \in WtSet /\ "WT_ENABLED_DRAFT17" \in WtSet BY DEF WtSet
  <2>3. \A id \in InitialMaxima : id \in VarInts /\ id \in WtSet
    BY DEF InitialMaxima, VarInts, WtSet
  <2>4. /\ r.wt => x.wt
        /\ \A id \in WtSet : r.wt /\ r.v[id] > 0 <=> x.wt /\ x.v[id] > 0
        /\ \A id \in WtSet : x.wt /\ x.v[id] > 0 => r.v[id] = x.v[id]
    BY <1>2, WireKeeps, Zenon
  <2>5. /\ \A id \in VarInts : x.wt => x.v[id] \in Nat
        /\ \A id \in VarInts : r.wt => r.v[id] = x.v[id]
    BY <1>2, WireKeeps, Zenon
  <2>6. \A id \in WtSet : x.v[id] \in Int /\ r.v[id] \in Int
    <3>1. \A id \in WtSet : id \in Range(Ids) BY IdsAre DEF WtSet, IdSet
    <3>2. x \in AnySettings /\ r \in AnySettings BY <1>2, WireSettingsAre, Zenon DEF Configured
    <3> HIDE DEF r
    <3> QED BY <3>1, <3>2 DEF AnySettings, Absent
  <2> HIDE DEF r
  <2>7. AdvertisesWtEnabled(r) <=> AdvertisesWtEnabled(x)
    BY <2>2, <2>4 DEF AdvertisesWtEnabled
  <2>8. r.wt /\ r.v[many] > 1 <=> x.wt /\ x.v[many] > 1
    BY <2>1, <2>4, <2>6
  <2>9. ASSUME NEW id \in InitialMaxima PROVE r.wt /\ r.v[id] # 0 <=> x.wt /\ x.v[id] # 0
    <3>1. x.wt => (x.v[id] # 0 <=> x.v[id] > 0) BY <2>3, <2>5
    <3>2. x.wt /\ x.v[id] > 0 => r.wt /\ r.v[id] = x.v[id] BY <2>3, <2>4
    <3>3. r.wt => x.wt /\ r.v[id] = x.v[id] BY <2>3, <2>4, <2>5
    <3> QED BY <3>1, <3>2, <3>3
  <2> QED BY <2>7, <2>8, <2>9, <2>4 DEF DeclaresFlowControl, r
<1> QED BY <1>1, <1>2, Zenon DEF FlowControlEnabled

-----------------------------------------------------------------------------
(***************************************************************************)
(* ReceiveAll takes one item after the other.                              *)
(***************************************************************************)

\* a[i] is the connection after i items.
IsRun(a, n, x, e, s, items) ==
    a = [i \in 0 .. n |-> IF i = 0 THEN x ELSE Receive(a[i - 1], e, s, items[i])]

LEMMA ReceiveAllIsRun ==
  ASSUME NEW x, NEW e, NEW s, NEW items
  PROVE  ReceiveAll(x, e, s, items)
           = (CHOOSE a : IsRun(a, Len(items), x, e, s, items))[Len(items)]
BY Zenon DEF ReceiveAll, IsRun

LEMMA RunFacts ==
  ASSUME NEW x, NEW e, NEW s, NEW items, NEW a, NEW n \in Nat, IsRun(a, n, x, e, s, items)
  PROVE  /\ a[0] = x
         /\ \A i \in 1 .. n : a[i] = Receive(a[i - 1], e, s, items[i])
<1> DEFINE r(i) == Receive(a[i - 1], e, s, items[i])
<1>1. a = [i \in 0 .. n |-> IF i = 0 THEN x ELSE r(i)] BY Zenon DEF IsRun
<1> HIDE DEF r
<1>2. a[0] = x /\ \A i \in 1 .. n : a[i] = r(i) BY <1>1
<1> QED BY <1>2 DEF r

LEMMA RunExists ==
  ASSUME NEW x, NEW e, NEW s, NEW items, NEW k \in Nat
  PROVE  \E a : IsRun(a, k, x, e, s, items)
<1> DEFINE T == {n \in Nat : ~ \E a : IsRun(a, n, x, e, s, items)}
<1> SUFFICES ASSUME T # {} PROVE FALSE OBVIOUS
<1>1. PICK n \in T : \A m \in T : n <= m
  <2>1. T \in SUBSET Nat OBVIOUS
  <2> HIDE DEF T
  <2> QED BY <2>1, LeastNat
<1>2. n \in Nat /\ ~ \E a : IsRun(a, n, x, e, s, items) OBVIOUS
<1>3. n # 0
  <2> SUFFICES ASSUME n = 0 PROVE FALSE OBVIOUS
  <2> DEFINE a == [i \in 0 .. 0 |-> x]
             r(i) == Receive(a[i - 1], e, s, items[i])
             b == [i \in 0 .. 0 |-> IF i = 0 THEN x ELSE r(i)]
  <2>1. \A i \in 0 .. 0 : i = 0 OBVIOUS
  <2>2. a = b
    <3> HIDE DEF r
    <3> QED BY <2>1
  <2>3. IsRun(a, 0, x, e, s, items) BY <2>2, Zenon DEF IsRun
  <2> QED BY <2>3, <1>2
<1>4. n - 1 \in Nat /\ ~(n <= n - 1) BY <1>2, <1>3
<1>5. n - 1 \notin T BY <1>1, <1>4
<1>6. PICK a : IsRun(a, n - 1, x, e, s, items) BY <1>4, <1>5
<1>7. a[0] = x /\ \A i \in 1 .. n - 1 : a[i] = Receive(a[i - 1], e, s, items[i])
  BY <1>4, <1>6, RunFacts
<1> DEFINE last == Receive(a[n - 1], e, s, items[n])
           b == [i \in 0 .. n |-> IF i = n THEN last ELSE a[i]]
           r(i) == Receive(b[i - 1], e, s, items[i])
           c == [i \in 0 .. n |-> IF i = 0 THEN x ELSE r(i)]
<1>8. \A i \in 1 .. n : b[i - 1] = a[i - 1] BY <1>2, <1>3
<1>9. \A i \in 1 .. n : r(i) = Receive(a[i - 1], e, s, items[i]) BY <1>8, Zenon
<1>10. \A i \in 1 .. n - 1 : r(i) = a[i] BY <1>2, <1>7, <1>9
<1>11. r(n) = last BY <1>2, <1>3, <1>9
<1>12. b[0] = x BY <1>2, <1>3, <1>7
<1> HIDE DEF r, last
<1>13. \A i \in 0 .. n : b[i] = c[i]
  <2>1. \A i \in 0 .. n : i = 0 \/ i = n \/ i \in 1 .. n - 1 BY <1>2
  <2>2. b[n] = last /\ c[n] = r(n) BY <1>2, <1>3
  <2>3. \A i \in 1 .. n - 1 : b[i] = a[i] /\ c[i] = r(i) BY <1>2
  <2>4. c[0] = x BY <1>2
  <2> HIDE DEF b, c
  <2> QED BY <2>1, <2>2, <2>3, <2>4, <1>10, <1>11, <1>12
<1>14. b = c
  <2>1. \A i \in 0 .. n : (IF i = n THEN last ELSE a[i]) = IF i = 0 THEN x ELSE r(i)
    BY <1>13
  <2> QED BY <2>1, Zenon
<1>15. IsRun(b, n, x, e, s, items)
  <2> HIDE DEF b
  <2> QED BY <1>14, Zenon DEF IsRun, r
<1> QED BY <1>2, <1>15

LEMMA RunsAgree ==
  ASSUME NEW x, NEW e, NEW s, NEW n \in Nat, NEW m \in Nat, n <= m,
         NEW q, NEW r, \A i \in 1 .. n : q[i] = r[i],
         NEW a, NEW b, IsRun(a, n, x, e, s, q), IsRun(b, m, x, e, s, r)
  PROVE  a[n] = b[n]
<1> DEFINE T == {i \in 0 .. n : a[i] # b[i]}
<1>1. a[0] = x /\ \A i \in 1 .. n : a[i] = Receive(a[i - 1], e, s, q[i]) BY RunFacts
<1>2. b[0] = x /\ \A i \in 1 .. m : b[i] = Receive(b[i - 1], e, s, r[i]) BY RunFacts
<1> SUFFICES ASSUME T # {} PROVE FALSE OBVIOUS
<1>3. PICK i \in T : \A j \in T : i <= j
  <2>1. T \in SUBSET Nat OBVIOUS
  <2> HIDE DEF T
  <2> QED BY <2>1, LeastNat
<1>4. i \in 0 .. n /\ a[i] # b[i] OBVIOUS
<1>5. i # 0 BY <1>1, <1>2, <1>4
<1>6. i - 1 \in 0 .. n /\ ~(i <= i - 1) /\ i \in 1 .. n /\ i \in 1 .. m BY <1>4, <1>5
<1>7. a[i - 1] = b[i - 1] BY <1>3, <1>6
<1> QED BY <1>1, <1>2, <1>4, <1>6, <1>7

LEMMA ReceiveAllNone ==
  ASSUME NEW x, NEW e, NEW s, NEW items, Len(items) = 0
  PROVE  ReceiveAll(x, e, s, items) = x
<1> DEFINE a == CHOOSE a : IsRun(a, 0, x, e, s, items)
<1>1. ReceiveAll(x, e, s, items) = a[0] BY ReceiveAllIsRun
<1>2. 0 \in Nat OBVIOUS
<1>3. \E b : IsRun(b, 0, x, e, s, items) BY <1>2, RunExists, Zenon
<1>4. IsRun(a, 0, x, e, s, items) BY <1>3, Zenon
<1> HIDE DEF a
<1> QED BY <1>1, <1>2, <1>4, RunFacts

LEMMA ReceiveAllNext ==
  ASSUME NEW x, NEW e, NEW s, NEW q \in Seq(Items), NEW f \in Items
  PROVE  ReceiveAll(x, e, s, Append(q, f)) = Receive(ReceiveAll(x, e, s, q), e, s, f)
<1> DEFINE r == Append(q, f)
           n == Len(q)
           m == n + 1
           a == CHOOSE a : IsRun(a, n, x, e, s, q)
           b == CHOOSE b : IsRun(b, m, x, e, s, r)
<1>1. n \in Nat /\ m \in Nat /\ n <= m /\ m \in 1 .. m /\ m - 1 = n
  BY LenProperties
<1>2. Len(r) = m /\ r[m] = f /\ \A i \in 1 .. n : q[i] = r[i] BY AppendProperties
<1>3. ReceiveAll(x, e, s, q) = a[n] /\ ReceiveAll(x, e, s, r) = b[m]
  <2> HIDE DEF r
  <2> QED BY <1>2, ReceiveAllIsRun
<1> HIDE DEF r, n, m
<1>4. IsRun(a, n, x, e, s, q)
  <2>1. \E c : IsRun(c, n, x, e, s, q) BY <1>1, RunExists, Zenon
  <2> QED BY <2>1, Zenon
<1>5. IsRun(b, m, x, e, s, r)
  <2>1. \E c : IsRun(c, m, x, e, s, r) BY <1>1, RunExists, Zenon
  <2> QED BY <2>1, Zenon
<1> HIDE DEF a, b
<1>6. a[n] = b[n] BY <1>1, <1>2, <1>4, <1>5, RunsAgree
<1>7. \A i \in 1 .. m : b[i] = Receive(b[i - 1], e, s, r[i]) BY <1>1, <1>5, RunFacts
<1>8. b[m] = Receive(b[n], e, s, f) BY <1>1, <1>2, <1>7
<1> QED BY <1>3, <1>6, <1>8 DEF r

-----------------------------------------------------------------------------
(***************************************************************************)
(* The state of a connection.                                              *)
(***************************************************************************)
Streams == StreamIds \cup {None}
Connections ==
    [own : [Critical -> Streams], out : [Critical -> Seq(Items)], deferred : Nat,
     peer : [Critical -> Streams], ready : BOOLEAN,
     pending : SUBSET StreamIds, ignored : SUBSET StreamIds,
     known : BOOLEAN, settings : AnySettings,
     goaway : Nat \cup {NoGoaway}, sent : Nat \cup {NoGoaway}, push : Nat \cup {-1},
     error : ErrorCodes, events : Seq(Items), accepted : SUBSET Requests, misused : BOOLEAN]

(***************************************************************************)
(* What a connection has read: a is what has arrived of each stream of its *)
(* peer, ended the streams that have ended, cut those in the middle of an  *)
(* item.                                                                   *)
(***************************************************************************)

\* The frames f of the control stream have been accepted and remembered.
FramesRead(x, e, f) ==
    /\ x.ready <=> f # <<>>
    /\ \A i \in DOMAIN f :
          /\ FrameFaults(e, f, i) = {}
          /\ f[i].k = "goaway" => x.goaway # NoGoaway /\ x.goaway <= f[i].n
          /\ f[i].k = "maxpush" => f[i].n <= x.push
    /\ x.goaway # NoGoaway => \E i \in DOMAIN f : f[i].k = "goaway" /\ f[i].n = x.goaway
    /\ x.push # -1 => \E i \in DOMAIN f : f[i].k = "maxpush" /\ f[i].n = x.push
    /\ x.events = EventsOf(f)

ControlRead(x, a) == IF x.peer["control"] = None THEN <<>> ELSE Tail(a[x.peer["control"]])

\* A stream is taken for what its type says, and only then.
TypesRead(x, a) ==
    \A s \in StreamIds :
       /\ TypeOf(a[s]) \in Critical => x.peer[TypeOf(a[s])] = s
       /\ TypeOf(a[s]) # "push"
       /\ s \in x.ignored <=> a[s] # <<>> /\ TypeOf(a[s]) \notin Critical

InstructionsRead(x, e, a) ==
    \A s \in StreamIds : \A i \in 2 .. Len(a[s]) :
       /\ s = x.peer["encoder"] =>
             a[s][i].k = "capacity" /\ a[s][i].n <= Capacity(scope.local[e])
       /\ s = x.peer["decoder"] => a[s][i].k = "cancel"

\* Nothing is wrong with what has arrived.
AllRead(x, e, a, ended) ==
    /\ TypesRead(x, a) /\ InstructionsRead(x, e, a)
    /\ FramesRead(x, e, ControlRead(x, a))
    /\ \A t \in Critical : x.peer[t] \notin ended

\* Something is, and the connection has failed for it, or for a call.
FaultFound(x, e, a, ended, cut) ==
    /\ ~x.misused => x.error \in FaultsIn(e, a, ended, cut)
    /\ IsPrefix(x.events, EventsOf(ControlRead(x, a)))

Linked(x, a) == \A t \in Critical : x.peer[t] # None => TypeOf(a[x.peer[t]]) = t
PendingSound(x) == \A s \in x.pending : Unresolved(x, s)

ReadSound(x, e, a, ended, cut) ==
    /\ x \in Connections /\ Linked(x, a) /\ PendingSound(x)
    /\ x.error = "none" => AllRead(x, e, a, ended)
    /\ x.error # "none" => FaultFound(x, e, a, ended, cut)

(***************************************************************************)
(* What a connection has written.                                          *)
(***************************************************************************)
OwnSound(x) ==
    \A t \in Critical :
       /\ x.own[t] <= Cardinality({u \in Critical : x.own[u] # None})
       /\ \A u \in Critical : x.own[t] = x.own[u] /\ x.own[t] # None => t = u

\* Behind the type and SETTINGS, GOAWAY frames whose ids never rise.
GoawaysFall(x, e) ==
    \A i \in 3 .. Len(x.out["control"]) :
       LET f == x.out["control"]
       IN  /\ f[i].k = "goaway" /\ x.sent # NoGoaway /\ x.sent <= f[i].n
           /\ e = "server" => f[i].n % 4 = 0
           /\ \A j \in 3 .. i - 1 : f[i].n <= f[j].n
ControlWritten(x, e) ==
    /\ Len(x.out["control"]) >= 2
    /\ x.out["control"][1] = Type("control")
    /\ x.out["control"][2] = SettingsFrame(FromSettings(scope.local[e]))
    /\ GoawaysFall(x, e)

\* The type of a QPACK stream comes first, and with the stream id.
QpackWritten(x) ==
    /\ \A t \in {"encoder", "decoder"} :
          IF x.own[t] = None THEN x.out[t] = <<>>
          ELSE x.out[t] # <<>> /\ x.out[t][1] = Type(t)
    /\ \A i \in 2 .. Len(x.out["encoder"]) : x.out["encoder"][i].k = "capacity"
    /\ Len(x.out["decoder"]) <= 1

AcceptedBelow(x, e) ==
    /\ e = "client" => x.accepted = {}
    /\ x.sent # NoGoaway => \A r \in x.accepted : r < x.sent

WriteSound(x, e) == OwnSound(x) /\ ControlWritten(x, e) /\ QpackWritten(x) /\ AcceptedBelow(x, e)

(***************************************************************************)
(* What two ends of this library know of each other; y is the peer's       *)
(* connection.                                                             *)
(***************************************************************************)
PeerSettings(e) == FromPayload(FromSettings(scope.local[Peer(e)]))
WithinPeersCapacity(x, e) ==
    /\ x.deferred <= Capacity(scope.local[Peer(e)])
    /\ \A i \in 2 .. Len(x.out["encoder"]) :
          x.out["encoder"][i].n <= Capacity(scope.local[Peer(e)])
Heard(x, e, sent) ==
    /\ x.known => x.settings = PeerSettings(e)
    /\ x.goaway # NoGoaway => sent # NoGoaway /\ sent <= x.goaway
PairSound(x, e, sent) == WithinPeersCapacity(x, e) /\ Heard(x, e, sent)

(***************************************************************************)
(* The inductive invariant.                                                *)
(***************************************************************************)
ArrivedAt(e) == [s \in StreamIds |-> Arrived(Peer(e), s)]
CutAt(e) == {s \in StreamIds : pos[Peer(e)][s] % 2 = 1}

Shape ==
    /\ scope \in Scopes
    /\ con \in [Ends -> Connections]
    /\ pos \in [Ends -> [StreamIds -> Nat]]
    /\ over \in [Ends -> SUBSET StreamIds]
    /\ reqs \subseteq Requests
Untouched(x) == x.error = "none" /\ x.goaway = NoGoaway /\ x.accepted = {} /\ x.pending = {}
NothingAhead == \A p \in Ends, s \in StreamIds : pos[p][s] <= 2 * Len(Written(p, s))
EndsSound ==
    \A e \in Ends :
       IF Scripted(e) THEN Untouched(con[e])
       ELSE /\ WriteSound(con[e], e)
            /\ ReadSound(con[e], e, ArrivedAt(e), over[Peer(e)], CutAt(e))
PairsSound ==
    scope.scripted = {} =>
       \A e \in Ends : over[e] = {} /\ PairSound(con[e], e, con[Peer(e)].sent)
ControlIInv == Shape /\ NothingAhead /\ EndsSound /\ PairsSound

-----------------------------------------------------------------------------
(***************************************************************************)
(* What the handlers change, and what they do not.                         *)
(***************************************************************************)
Kept(x, y) ==
    /\ y.own = x.own /\ y.sent = x.sent /\ y.accepted = x.accepted /\ y.misused = x.misused
KeptStreams(x, y) == y.peer = x.peer /\ y.pending = x.pending /\ y.ignored = x.ignored
KeptControl(x, y) ==
    /\ y.ready = x.ready /\ y.goaway = x.goaway /\ y.push = x.push /\ y.events = x.events
    /\ y.known = x.known /\ y.settings = x.settings
KeptOut(x, y) == y.out = x.out /\ y.deferred = x.deferred

\* At most a capacity of at most cap has been written, or waits.
OutGrows(x, y, cap) ==
    \/ KeptOut(x, y)
    \/ x.own["encoder"] = None /\ y.out = x.out /\ y.deferred <= cap
    \/ /\ x.own["encoder"] # None /\ y.deferred = x.deferred
       /\ \E c \in Nat : /\ c <= cap
                         /\ y.out = [x.out EXCEPT !["encoder"] = Append(@, SetCapacity(c))]

LEMMA FailFacts ==
  ASSUME NEW x \in Connections, NEW code \in ErrorCodes
  PROVE  /\ Fail(x, code) \in Connections /\ Fail(x, code).error = code
         /\ Kept(x, Fail(x, code)) /\ KeptStreams(x, Fail(x, code))
         /\ KeptControl(x, Fail(x, code)) /\ KeptOut(x, Fail(x, code))
BY DEF Connections, Fail, Kept, KeptStreams, KeptControl, KeptOut

LEMMA EventFacts ==
  ASSUME NEW x \in Connections, NEW f \in Items
  PROVE  /\ Event(x, f) \in Connections /\ Event(x, f).events = Append(x.events, f)
         /\ Event(x, f).error = x.error
         /\ Kept(x, Event(x, f)) /\ KeptStreams(x, Event(x, f)) /\ KeptOut(x, Event(x, f))
         /\ Event(x, f).ready = x.ready /\ Event(x, f).goaway = x.goaway
         /\ Event(x, f).push = x.push
         /\ Event(x, f).known = x.known /\ Event(x, f).settings = x.settings
<1>1. Append(x.events, f) \in Seq(Items) BY AppendProperties DEF Connections
<1> DEFINE q == Append(x.events, f)
<1>2. Event(x, f) = [x EXCEPT !.events = q] BY DEF Event
<1> HIDE DEF q
<1>3. q \in Seq(Items) BY <1>1 DEF q
<1>4. Event(x, f) \in Connections /\ Event(x, f).events = q
  BY <1>2, <1>3 DEF Connections
<1>5. /\ Event(x, f).error = x.error
      /\ Kept(x, Event(x, f)) /\ KeptStreams(x, Event(x, f)) /\ KeptOut(x, Event(x, f))
      /\ Event(x, f).ready = x.ready /\ Event(x, f).goaway = x.goaway
      /\ Event(x, f).push = x.push
      /\ Event(x, f).known = x.known /\ Event(x, f).settings = x.settings
  BY <1>2 DEF Connections, Kept, KeptStreams, KeptOut
<1> QED BY <1>4, <1>5 DEF q

LEMMA ItemTypes ==
  /\ \A k \in ItemKinds : Type(k) \in Items
  /\ \A n \in Nat : SetCapacity(n) \in Items /\ Goaway(n) \in Items /\ MaxPushId(n) \in Items
  /\ \A n \in Nat : SetCapacity(n).n = n /\ SetCapacity(n).k = "capacity"
                    /\ Goaway(n).n = n /\ Goaway(n).k = "goaway"
  /\ \A k \in ItemKinds : Type(k).k = k
  /\ Critical \subseteq ItemKinds /\ FrameKinds \subseteq ItemKinds
<1>1. <<>> \in Payloads BY EmptySeq DEF Payloads
<1>2. "capacity" \in ItemKinds /\ "goaway" \in ItemKinds /\ "maxpush" \in ItemKinds
  BY DEF ItemKinds, FrameKinds
<1>3. Critical \subseteq ItemKinds /\ FrameKinds \subseteq ItemKinds BY DEF ItemKinds
<1> QED BY <1>1, <1>2, <1>3 DEF Items, Item, Type, SetCapacity, Goaway, MaxPushId

LEMMA CapacityType ==
  ASSUME NEW s \in AnySettings
  PROVE  Capacity(s) \in Nat
<1>1. "QPACK_MAX_TABLE_CAPACITY" \in Range(Ids) BY IdsAre DEF IdSet
<1>2. s.v["QPACK_MAX_TABLE_CAPACITY"] \in Nat \cup {Absent} BY <1>1 DEF AnySettings
<1> QED BY <1>2 DEF Capacity

LEMMA ScopeFacts ==
  ASSUME scope \in Scopes
  PROVE  /\ \A e \in Ends : Configured(e, scope.local[e]) /\ scope.limit[e] \in Nat
         /\ \A e \in Ends : scope.local[e] \in AnySettings
         /\ scope.previous \in AnySettings /\ (scope.scripted = {} => scope.previous = NoSettings)
         /\ scope.scripted \subseteq Ends /\ scope.opens \subseteq Critical
         /\ \A e \in scope.scripted, i \in StreamIds : scope.script[e][i] \in Scripts
BY ControlAssumption DEF Configured

LEMMA ApplyCapacityFacts ==
  ASSUME scope \in Scopes, NEW x \in Connections, NEW e \in Ends, NEW s \in AnySettings
  PROVE  LET y == ApplyCapacity(x, e, s)
         IN  /\ y \in Connections /\ y.error = x.error
             /\ Kept(x, y) /\ KeptStreams(x, y) /\ KeptControl(x, y)
             /\ OutGrows(x, y, Capacity(s))
<1> DEFINE y == ApplyCapacity(x, e, s)
           use == IF Capacity(s) < scope.limit[e] THEN Capacity(s) ELSE scope.limit[e]
           q == Append(x.out["encoder"], SetCapacity(use))
           o == [x.out EXCEPT !["encoder"] = q]
<1>1. use \in Nat /\ use <= Capacity(s) BY ScopeFacts, CapacityType
<1>2. y = IF use = 0 THEN x
          ELSE IF x.own["encoder"] = None THEN [x EXCEPT !.deferred = use]
          ELSE [x EXCEPT !.out = o]
  BY Zenon DEF ApplyCapacity
<1> HIDE DEF use, q
<1>3. q \in Seq(Items)
  <2>1. x.out["encoder"] \in Seq(Items) BY DEF Connections, Critical
  <2> QED BY <1>1, <2>1, ItemTypes, AppendProperties DEF q
<1>4. o \in [Critical -> Seq(Items)] BY <1>3 DEF Connections
<1>5. CASE use = 0
  BY <1>2, <1>5 DEF Kept, KeptStreams, KeptControl, KeptOut, OutGrows
<1>6. CASE use # 0 /\ x.own["encoder"] = None
  <2>1. y = [x EXCEPT !.deferred = use] BY <1>2, <1>6
  <2> HIDE DEF y
  <2>2. y \in Connections /\ y.deferred = use /\ y.out = x.out /\ y.error = x.error
    BY <2>1, <1>1 DEF Connections
  <2>3. Kept(x, y) /\ KeptStreams(x, y) /\ KeptControl(x, y)
    BY <2>1 DEF Connections, Kept, KeptStreams, KeptControl
  <2> QED BY <2>2, <2>3, <1>1, <1>6 DEF OutGrows, y
<1>7. CASE use # 0 /\ x.own["encoder"] # None
  <2>1. y = [x EXCEPT !.out = o] BY <1>2, <1>7
  <2> HIDE DEF y, o
  <2>2. y \in Connections /\ y.out = o /\ y.deferred = x.deferred /\ y.error = x.error
    BY <2>1, <1>4 DEF Connections
  <2>3. Kept(x, y) /\ KeptStreams(x, y) /\ KeptControl(x, y)
    BY <2>1 DEF Connections, Kept, KeptStreams, KeptControl
  <2>4. o = [x.out EXCEPT !["encoder"] = Append(@, SetCapacity(use))] BY DEF o, q
  <2> QED BY <2>2, <2>3, <2>4, <1>1, <1>7 DEF OutGrows, y
<1> QED BY <1>5, <1>6, <1>7

-----------------------------------------------------------------------------
(***************************************************************************)
(* A frame of the control stream.                                          *)
(***************************************************************************)
SettingsFault(e, payload) ==
    LET s == FromPayload(payload)
    IN  \/ InvalidSetting(payload)
        \/ /\ e = "client"
           /\ \/ s.v["WT_ENABLED"] > 1 \/ s.v["WT_ENABLED_DRAFT17"] > 1
              \/ /\ scope.previous # NoSettings
                 /\ ComparesPrevious(scope.local[e], s)
                 /\ Decreases(scope.local[e], s, scope.previous)

\* c is held against frame f: the first one or not, a GOAWAY whose id rises or
\* a MAX_PUSH_ID whose id falls, or not.
FaultOf(c, e, f, first, rises, falls) ==
    \/ c = "H3_MISSING_SETTINGS" /\ first /\ f.k # "settings"
    \/ /\ c = "H3_FRAME_UNEXPECTED"
       /\ \/ f.k \in {"http2", "push", "data", "headers", "wtstream"}
          \/ f.k = "settings" /\ ~first
          \/ f.k = "maxpush" /\ e = "client"
    \/ c = "H3_FRAME_ERROR" /\ f.k = "malformed"
    \/ /\ c = "H3_ID_ERROR"
       /\ \/ f.k = "goaway" /\ rises
          \/ f.k = "goaway" /\ e = "client" /\ f.n % 4 # 0
          \/ f.k = "maxpush" /\ falls
    \/ c = "H3_SETTINGS_ERROR" /\ f.k = "settings" /\ SettingsFault(e, f.s)

Rises(g, i) == \E j \in 1 .. i - 1 : g[j].k = "goaway" /\ g[j].n < g[i].n
Falls(g, i) == \E j \in 1 .. i - 1 : g[j].k = "maxpush" /\ g[j].n > g[i].n

LEMMA FrameFaultsAre ==
  ASSUME NEW e, NEW g, NEW i \in Nat \ {0}, NEW c
  PROVE  c \in FrameFaults(e, g, i)
           <=> c \in ErrorCodes /\ FaultOf(c, e, g[i], i = 1, Rises(g, i), Falls(g, i))
<1> DEFINE ids(k, last) == {g[j].n : j \in {j \in 1 .. last : g[j].k = k}}
           s == FromPayload(g[i].s)
           up == \E n \in ids("goaway", i - 1) : n < g[i].n
           down == \E n \in ids("maxpush", i - 1) : n > g[i].n
           bad == \/ InvalidSetting(g[i].s)
                  \/ /\ e = "client"
                     /\ \/ s.v["WT_ENABLED"] > 1 \/ s.v["WT_ENABLED_DRAFT17"] > 1
                        \/ /\ scope.previous # NoSettings
                           /\ ComparesPrevious(scope.local[e], s)
                           /\ Decreases(scope.local[e], s, scope.previous)
<1>1. FrameFaults(e, g, i) =
        {b \in ErrorCodes :
           \/ b = "H3_MISSING_SETTINGS" /\ i = 1 /\ g[i].k # "settings"
           \/ /\ b = "H3_FRAME_UNEXPECTED"
              /\ \/ g[i].k \in {"http2", "push", "data", "headers", "wtstream"}
                 \/ g[i].k = "settings" /\ i > 1
                 \/ g[i].k = "maxpush" /\ e = "client"
           \/ b = "H3_FRAME_ERROR" /\ g[i].k = "malformed"
           \/ /\ b = "H3_ID_ERROR"
              /\ \/ g[i].k = "goaway" /\ up
                 \/ g[i].k = "goaway" /\ e = "client" /\ g[i].n % 4 # 0
                 \/ g[i].k = "maxpush" /\ down
           \/ b = "H3_SETTINGS_ERROR" /\ g[i].k = "settings" /\ bad}
  BY Zenon DEF FrameFaults
<1>2. up <=> Rises(g, i) BY Zenon DEF Rises
<1>3. down <=> Falls(g, i) BY Zenon DEF Falls
<1>4. bad <=> SettingsFault(e, g[i].s) BY Zenon DEF SettingsFault
<1>5. i > 1 <=> i # 1 OBVIOUS
<1> HIDE DEF up, down, bad
<1> QED BY <1>1, <1>2, <1>3, <1>4, <1>5 DEF FaultOf

\* What ReceiveSettings, ReceiveGoaway, ReceiveMaxPushId and ControlFrame do to
\* x; f is the frame.
Remembers(x, y, f) ==
    /\ y.ready
    /\ y.events = IF f.k = "settings" THEN Append(x.events, Type("settings"))
                  ELSE IF f.k = "goaway" THEN Append(x.events, Goaway(f.n))
                  ELSE x.events
    /\ y.goaway = IF f.k = "goaway" THEN f.n ELSE x.goaway
    /\ y.push = IF f.k = "maxpush" THEN f.n ELSE x.push
Forgets(x, y) == y.events = x.events /\ y.goaway = x.goaway

HearsSettings(x, y, f) ==
    \/ y.known = x.known /\ y.settings = x.settings
    \/ f.k = "settings" /\ y.settings = FromPayload(f.s)

WritesCapacity(x, y, f) ==
    KeptOut(x, y) \/ (f.k = "settings" /\ OutGrows(x, y, Capacity(FromPayload(f.s))))

ControlDone(x, y, f) ==
    /\ y \in Connections /\ Kept(x, y) /\ KeptStreams(x, y)
    /\ HearsSettings(x, y, f) /\ WritesCapacity(x, y, f)
    /\ IF y.error = "none" THEN Remembers(x, y, f) ELSE Forgets(x, y)

ControlExact(y, e, f, first, rises, falls) ==
    IF y.error = "none" THEN \A c \in ErrorCodes : ~FaultOf(c, e, f, first, rises, falls)
    ELSE FaultOf(y.error, e, f, first, rises, falls)

LEMMA ErrorCodesAre ==
  /\ "none" \in ErrorCodes
  /\ {"H3_STREAM_CREATION_ERROR", "H3_ID_ERROR", "H3_FRAME_UNEXPECTED", "H3_MISSING_SETTINGS",
      "H3_SETTINGS_ERROR", "H3_FRAME_ERROR", "H3_CLOSED_CRITICAL_STREAM",
      "QPACK_ENCODER_STREAM_ERROR", "QPACK_DECODER_STREAM_ERROR"} \subseteq ErrorCodes \ {"none"}
BY DEF ErrorCodes

(* A payload that is read without WebTransport has no such parameter.      *)
LEMMA NoWtNoValue ==
  ASSUME NEW payload \in Payloads, ~FromPayload(payload).wt, NEW id \in VarInts
  PROVE  ~(FromPayload(payload).v[id] > 1)
<1> DEFINE sent == {p[1] : p \in Range(payload)}
           value(i) == (CHOOSE p \in Range(payload) : p[1] = i)[2]
           wt == sent \cap Range(WtIds) # {}
           read(i) == IF i \in sent THEN value(i)
                      ELSE IF wt /\ i \in Range(WtVarIntIds) THEN 0 ELSE Absent
<1>1. FromPayload(payload) = [wt |-> wt, v |-> [i \in Range(Ids) |-> read(i)]]
  BY Zenon DEF FromPayload
<1>2. id \in Range(Ids) /\ id \in Range(WtIds)
  BY IdsAre DEF VarInts, WtSet, IdSet
<1>3. ~wt
  <2> HIDE DEF wt, read
  <2> QED BY <1>1
<1>4. id \notin sent BY <1>2, <1>3
<1> HIDE DEF wt, sent, value
<1>5. read(id) = Absent BY <1>3, <1>4
<1> HIDE DEF read
<1>6. FromPayload(payload).v[id] = Absent BY <1>1, <1>2, <1>5
<1> QED BY <1>6 DEF Absent

LEMMA ReceiveSettingsFacts ==
  ASSUME scope \in Scopes, NEW e \in Ends, NEW z \in Connections, z.error = "none", ~z.ready,
         NEW f \in Items, f.k = "settings", ~InvalidSetting(f.s), NEW rises, NEW falls
  PROVE  LET x == [z EXCEPT !.ready = TRUE]
             y == ReceiveSettings(x, e, FromPayload(f.s))
         IN  ControlDone(z, y, f) /\ ControlExact(y, e, f, TRUE, rises, falls)
<1> DEFINE x == [z EXCEPT !.ready = TRUE]
           s == FromPayload(f.s)
           local == scope.local[e]
           w == ApplyCapacity(x, e, s)
           y == ReceiveSettings(x, e, s)
           bad == /\ e = "client"
                  /\ \/ s.wt /\ (s.v["WT_ENABLED"] > 1 \/ s.v["WT_ENABLED_DRAFT17"] > 1)
                     \/ /\ scope.previous # NoSettings
                        /\ ComparesPrevious(local, s) /\ Decreases(local, s, scope.previous)
           v == [w EXCEPT !.known = TRUE, !.settings = s]
<1>1. f.s \in Payloads /\ f.s \in Seq(Params) BY DEF Items, Payloads, Params
<1>2. s \in AnySettings BY <1>1, FromPayloadType
<1>3. /\ x \in Connections /\ x.ready /\ x.error = "none"
      /\ Kept(z, x) /\ KeptStreams(z, x) /\ KeptOut(z, x)
      /\ x.goaway = z.goaway /\ x.push = z.push /\ x.events = z.events
      /\ x.known = z.known /\ x.settings = z.settings
  BY DEF Connections, Kept, KeptStreams, KeptOut
<1>4. y = IF bad THEN Fail(w, "H3_SETTINGS_ERROR") ELSE Event(v, Type("settings"))
  BY Zenon DEF ReceiveSettings
<1>5. bad <=> SettingsFault(e, f.s)
  <2>1. s.v["WT_ENABLED"] > 1 \/ s.v["WT_ENABLED_DRAFT17"] > 1 => s.wt
    <3>1. "WT_ENABLED" \in VarInts /\ "WT_ENABLED_DRAFT17" \in VarInts BY DEF VarInts
    <3> QED BY <1>1, <3>1, NoWtNoValue
  <2> QED BY <2>1, Zenon DEF SettingsFault
<1>6. /\ w \in Connections /\ w.error = x.error
      /\ Kept(x, w) /\ KeptStreams(x, w) /\ KeptControl(x, w) /\ OutGrows(x, w, Capacity(s))
  <2> HIDE DEF x, s
  <2> QED BY <1>2, <1>3, ApplyCapacityFacts
<1> HIDE DEF x, s, w, y, bad, local
<1>7. OutGrows(z, w, Capacity(s))
  BY <1>3, <1>6 DEF OutGrows, KeptOut, Kept
<1>8. CASE bad
  <2>1. y = Fail(w, "H3_SETTINGS_ERROR") BY <1>4, <1>8
  <2>2. /\ y \in Connections /\ y.error = "H3_SETTINGS_ERROR"
        /\ Kept(w, y) /\ KeptStreams(w, y) /\ KeptControl(w, y) /\ KeptOut(w, y)
    BY <1>6, <2>1, ErrorCodesAre, FailFacts
  <2>3. Kept(z, y) /\ KeptStreams(z, y) /\ Forgets(z, y) /\ HearsSettings(z, y, f)
    BY <1>3, <1>6, <2>2 DEF Kept, KeptStreams, KeptControl, Forgets, HearsSettings
  <2>4. WritesCapacity(z, y, f)
    BY <1>7, <2>2 DEF WritesCapacity, OutGrows, KeptOut, Kept, s
  <2>5. ControlDone(z, y, f) BY <2>2, <2>3, <2>4 DEF ControlDone
  <2>6. ControlExact(y, e, f, TRUE, rises, falls)
    BY <1>5, <1>8, <2>2 DEF ControlExact, FaultOf
  <2> QED BY <2>5, <2>6 DEF x, s, y
<1>9. CASE ~bad
  <2>1. y = Event(v, Type("settings")) BY <1>4, <1>9
  <2>2. /\ v \in Connections /\ v.known /\ v.settings = s /\ v.error = w.error
        /\ Kept(w, v) /\ KeptStreams(w, v) /\ KeptOut(w, v)
        /\ v.ready = w.ready /\ v.goaway = w.goaway /\ v.push = w.push /\ v.events = w.events
    BY <1>2, <1>6 DEF Connections, Kept, KeptStreams, KeptOut
  <2>3. Type("settings") \in Items BY ItemTypes DEF ItemKinds, FrameKinds
  <2> HIDE DEF v
  <2>4. /\ y \in Connections /\ y.events = Append(v.events, Type("settings"))
        /\ y.error = v.error
        /\ Kept(v, y) /\ KeptStreams(v, y) /\ KeptOut(v, y)
        /\ y.ready = v.ready /\ y.goaway = v.goaway /\ y.push = v.push
        /\ y.known = v.known /\ y.settings = v.settings
    BY <2>1, <2>2, <2>3, EventFacts
  <2>5. y.error = "none" BY <1>3, <1>6, <2>2, <2>4
  <2>6. Kept(z, y) /\ KeptStreams(z, y)
    BY <1>3, <1>6, <2>2, <2>4 DEF Kept, KeptStreams
  <2>7. HearsSettings(z, y, f) BY <2>2, <2>4 DEF HearsSettings, s
  <2>8. WritesCapacity(z, y, f)
    BY <1>7, <2>2, <2>4 DEF WritesCapacity, OutGrows, KeptOut, Kept, s
  <2>9. Remembers(z, y, f)
    BY <1>3, <1>6, <2>2, <2>4 DEF Remembers, KeptControl
  <2>10. ControlDone(z, y, f) BY <2>4, <2>5, <2>6, <2>7, <2>8, <2>9 DEF ControlDone
  <2>11. ControlExact(y, e, f, TRUE, rises, falls)
    BY <1>5, <1>9, <2>5 DEF ControlExact, FaultOf
  <2> QED BY <2>10, <2>11 DEF x, s, y
<1> QED BY <1>8, <1>9

LEMMA FailedFrame ==
  ASSUME NEW x \in Connections, NEW code \in ErrorCodes \ {"none"}, NEW f
  PROVE  ControlDone(x, Fail(x, code), f) /\ Fail(x, code).error = code
<1> DEFINE y == Fail(x, code)
<1>1. /\ y \in Connections /\ y.error = code
      /\ Kept(x, y) /\ KeptStreams(x, y) /\ KeptControl(x, y) /\ KeptOut(x, y)
  BY FailFacts
<1> HIDE DEF y
<1> QED BY <1>1 DEF ControlDone, HearsSettings, WritesCapacity, Forgets, KeptControl, y

LEMMA ReceiveGoawayFacts ==
  ASSUME NEW e \in Ends, NEW x \in Connections, x.error = "none", x.ready,
         NEW f \in Items, f.k = "goaway", NEW rises, NEW falls,
         rises <=> x.goaway # NoGoaway /\ f.n > x.goaway
  PROVE  LET y == ReceiveGoaway(x, e, f.n)
         IN  ControlDone(x, y, f) /\ ControlExact(y, e, f, FALSE, rises, falls)
<1> DEFINE y == ReceiveGoaway(x, e, f.n)
           v == [x EXCEPT !.goaway = f.n]
           bad == (e = "client" /\ f.n % 4 # 0) \/ (x.goaway # NoGoaway /\ f.n > x.goaway)
<1>1. y = IF bad THEN Fail(x, "H3_ID_ERROR") ELSE Event(v, Goaway(f.n))
  BY Zenon DEF ReceiveGoaway
<1>2. f.n \in Nat BY DEF Items
<1>3. CASE bad
  <2>1. y = Fail(x, "H3_ID_ERROR") BY <1>1, <1>3
  <2>2. ControlDone(x, y, f) /\ y.error = "H3_ID_ERROR" BY <2>1, FailedFrame, ErrorCodesAre
  <2>3. FaultOf("H3_ID_ERROR", e, f, FALSE, rises, falls) BY <1>3 DEF FaultOf
  <2> HIDE DEF y
  <2>4. ControlExact(y, e, f, FALSE, rises, falls) BY <2>2, <2>3 DEF ControlExact
  <2> QED BY <2>2, <2>4 DEF y
<1>4. CASE ~bad
  <2>1. y = Event(v, Goaway(f.n)) BY <1>1, <1>4
  <2>2. /\ v \in Connections /\ v.goaway = f.n /\ v.error = x.error
        /\ Kept(x, v) /\ KeptStreams(x, v) /\ KeptOut(x, v)
        /\ v.ready = x.ready /\ v.push = x.push /\ v.events = x.events
        /\ v.known = x.known /\ v.settings = x.settings
    BY <1>2 DEF Connections, Kept, KeptStreams, KeptOut
  <2>3. Goaway(f.n) \in Items BY <1>2, ItemTypes
  <2> HIDE DEF v, y
  <2>4. /\ y \in Connections /\ y.events = Append(v.events, Goaway(f.n))
        /\ y.error = v.error
        /\ Kept(v, y) /\ KeptStreams(v, y) /\ KeptOut(v, y)
        /\ y.ready = v.ready /\ y.goaway = v.goaway /\ y.push = v.push
        /\ y.known = v.known /\ y.settings = v.settings
    BY ZenonT(30), <2>1, <2>2, <2>3, EventFacts
  <2>5. ControlDone(x, y, f)
    BY <2>2, <2>4 DEF ControlDone, HearsSettings, WritesCapacity, Remembers,
                      Kept, KeptStreams, KeptOut
  <2>6. ControlExact(y, e, f, FALSE, rises, falls)
    BY <1>4, <2>2, <2>4 DEF ControlExact, FaultOf
  <2> QED BY <2>5, <2>6 DEF y
<1> QED BY <1>3, <1>4

LEMMA ReceiveMaxPushIdFacts ==
  ASSUME NEW e \in Ends, NEW x \in Connections, x.error = "none", x.ready,
         NEW f \in Items, f.k = "maxpush", NEW rises, NEW falls, falls <=> f.n < x.push
  PROVE  LET y == ReceiveMaxPushId(x, e, f.n)
         IN  ControlDone(x, y, f) /\ ControlExact(y, e, f, FALSE, rises, falls)
<1> DEFINE y == ReceiveMaxPushId(x, e, f.n)
           v == [x EXCEPT !.push = f.n]
<1>1. y = IF e = "client" THEN Fail(x, "H3_FRAME_UNEXPECTED")
          ELSE IF f.n < x.push THEN Fail(x, "H3_ID_ERROR") ELSE v
  BY Zenon DEF ReceiveMaxPushId
<1>2. f.n \in Nat BY DEF Items
<1>3. CASE e = "client"
  <2>1. y = Fail(x, "H3_FRAME_UNEXPECTED") BY <1>1, <1>3
  <2>2. ControlDone(x, y, f) /\ y.error = "H3_FRAME_UNEXPECTED"
    BY <2>1, FailedFrame, ErrorCodesAre
  <2>3. FaultOf("H3_FRAME_UNEXPECTED", e, f, FALSE, rises, falls) BY <1>3 DEF FaultOf
  <2> HIDE DEF y
  <2>4. ControlExact(y, e, f, FALSE, rises, falls) BY <2>2, <2>3 DEF ControlExact
  <2> QED BY <2>2, <2>4 DEF y
<1>4. CASE e # "client" /\ f.n < x.push
  <2>1. y = Fail(x, "H3_ID_ERROR") BY <1>1, <1>4
  <2>2. ControlDone(x, y, f) /\ y.error = "H3_ID_ERROR" BY <2>1, FailedFrame, ErrorCodesAre
  <2>3. FaultOf("H3_ID_ERROR", e, f, FALSE, rises, falls) BY <1>4 DEF FaultOf
  <2> HIDE DEF y
  <2>4. ControlExact(y, e, f, FALSE, rises, falls) BY <2>2, <2>3 DEF ControlExact
  <2> QED BY <2>2, <2>4 DEF y
<1>5. CASE e # "client" /\ ~(f.n < x.push)
  <2>1. y = v BY <1>1, <1>5
  <2> HIDE DEF y
  <2>2. /\ y \in Connections /\ y.push = f.n /\ y.error = x.error
        /\ Kept(x, y) /\ KeptStreams(x, y) /\ KeptOut(x, y)
        /\ y.ready = x.ready /\ y.goaway = x.goaway /\ y.events = x.events
        /\ y.known = x.known /\ y.settings = x.settings
    BY <1>2, <2>1 DEF Connections, Kept, KeptStreams, KeptOut
  <2>3. ControlDone(x, y, f)
    BY <2>2 DEF ControlDone, HearsSettings, WritesCapacity, Remembers
  <2>4. ControlExact(y, e, f, FALSE, rises, falls)
    BY <1>5, <2>2 DEF ControlExact, FaultOf
  <2> QED BY <2>3, <2>4 DEF y
<1> QED BY <1>3, <1>4, <1>5

(* A frame is refused exactly for what is held against it.                 *)
LEMMA ControlFrameExact ==
  ASSUME scope \in Scopes, NEW e \in Ends, NEW x \in Connections, x.error = "none",
         NEW f \in Items, f.k \in FrameKinds, NEW rises, NEW falls,
         rises <=> x.goaway # NoGoaway /\ f.n > x.goaway,
         falls <=> f.n < x.push
  PROVE  LET y == ControlFrame(x, e, f)
         IN  ControlDone(x, y, f) /\ ControlExact(y, e, f, ~x.ready, rises, falls)
<1> DEFINE y == ControlFrame(x, e, f)
           z == [x EXCEPT !.ready = TRUE]
           first == ~x.ready
           Goal == ControlDone(x, y, f) /\ ControlExact(y, e, f, first, rises, falls)
<1> SUFFICES Goal OBVIOUS
<1>0. x.ready \in BOOLEAN BY DEF Connections
<1>1. ASSUME NEW code \in ErrorCodes \ {"none"}, y = Fail(x, code),
             FaultOf(code, e, f, first, rises, falls)
      PROVE  Goal
  <2>1. ControlDone(x, y, f) /\ y.error = code BY <1>1, FailedFrame
  <2> HIDE DEF y
  <2>2. ControlExact(y, e, f, first, rises, falls) BY <1>1, <2>1 DEF ControlExact
  <2> QED BY <2>1, <2>2
<1> DEFINE late == Fail(x, IF x.ready THEN "H3_FRAME_UNEXPECTED" ELSE "H3_MISSING_SETTINGS")
           unexpected == Fail(x, "H3_FRAME_UNEXPECTED")
           malformed == Fail(x, "H3_FRAME_ERROR")
           refused == Fail(x, "H3_SETTINGS_ERROR")
           missing == Fail(x, "H3_MISSING_SETTINGS")
           invalid == InvalidSetting(f.s)
           configured == ReceiveSettings(z, e, FromPayload(f.s))
           goaway == ReceiveGoaway(x, e, f.n)
           maxpush == ReceiveMaxPushId(x, e, f.n)
           Later == {"goaway", "maxpush", "data", "headers", "unknown"}
<1>2. y = CASE f.k = "wtstream" -> late
            [] f.k \in {"http2", "push"} -> unexpected
            [] f.k = "malformed" -> malformed
            [] f.k = "settings" -> IF invalid THEN refused
                                   ELSE IF x.ready THEN unexpected ELSE configured
            [] ~x.ready /\ f.k \in Later -> missing
            [] x.ready /\ f.k \in {"data", "headers"} -> unexpected
            [] x.ready /\ f.k = "goaway" -> goaway
            [] x.ready /\ f.k = "maxpush" -> maxpush
            [] x.ready /\ f.k = "unknown" -> x
  BY Zenon DEF ControlFrame
<1> HIDE DEF y, late, unexpected, malformed, refused, missing, configured, goaway, maxpush, invalid,
             Goal, z
<1>3. CASE f.k = "wtstream"
  <2>1. y = late BY <1>2, <1>3
  <2>2. CASE x.ready
    <3>1. FaultOf("H3_FRAME_UNEXPECTED", e, f, first, rises, falls) BY <1>3 DEF FaultOf
    <3> QED BY <2>1, <2>2, <3>1, <1>1, ErrorCodesAre DEF late
  <2>3. CASE ~x.ready
    <3>1. FaultOf("H3_MISSING_SETTINGS", e, f, first, rises, falls) BY <1>3, <2>3 DEF FaultOf
    <3> QED BY <2>1, <2>3, <3>1, <1>1, ErrorCodesAre DEF late
  <2> QED BY <2>2, <2>3
<1>4. CASE f.k \in {"http2", "push"}
  <2>1. y = unexpected BY <1>2, <1>4
  <2>2. FaultOf("H3_FRAME_UNEXPECTED", e, f, first, rises, falls) BY <1>4 DEF FaultOf
  <2> QED BY <2>1, <2>2, <1>1, ErrorCodesAre DEF unexpected
<1>5. CASE f.k = "malformed"
  <2>1. y = malformed BY <1>2, <1>5
  <2>2. FaultOf("H3_FRAME_ERROR", e, f, first, rises, falls) BY <1>5 DEF FaultOf
  <2> QED BY <2>1, <2>2, <1>1, ErrorCodesAre DEF malformed
<1>6. CASE f.k = "settings" /\ invalid
  <2>1. y = refused BY <1>2, <1>6
  <2>2. FaultOf("H3_SETTINGS_ERROR", e, f, first, rises, falls)
    BY <1>6 DEF FaultOf, SettingsFault, invalid
  <2> QED BY <2>1, <2>2, <1>1, ErrorCodesAre DEF refused
<1>7. CASE ~x.ready /\ f.k \in Later
  <2>1. y = missing BY <1>2, <1>7
  <2>2. FaultOf("H3_MISSING_SETTINGS", e, f, first, rises, falls) BY <1>7 DEF FaultOf
  <2> QED BY <2>1, <2>2, <1>1, ErrorCodesAre DEF missing
<1>8. CASE x.ready /\ ((f.k = "settings" /\ ~invalid) \/ f.k \in {"data", "headers"})
  <2>1. y = unexpected BY <1>2, <1>8
  <2>2. FaultOf("H3_FRAME_UNEXPECTED", e, f, first, rises, falls) BY <1>8 DEF FaultOf
  <2> QED BY <2>1, <2>2, <1>1, ErrorCodesAre DEF unexpected
<1>9. CASE ~x.ready /\ f.k = "settings" /\ ~invalid
  <2>1. y = configured BY <1>2, <1>9
  <2>2. ControlDone(x, y, f) /\ ControlExact(y, e, f, TRUE, rises, falls)
    BY <1>9, <2>1, ReceiveSettingsFacts DEF invalid, configured, z
  <2>3. ControlExact(y, e, f, first, rises, falls)
    BY <1>9, <2>2 DEF ControlExact, FaultOf
  <2> QED BY <2>2, <2>3 DEF Goal
<1>10. CASE x.ready /\ f.k = "goaway"
  <2>1. y = goaway BY <1>2, <1>10
  <2>2. ControlDone(x, y, f) /\ ControlExact(y, e, f, FALSE, rises, falls)
    BY <1>10, <2>1, ReceiveGoawayFacts DEF goaway
  <2>3. ControlExact(y, e, f, first, rises, falls)
    BY <1>10, <2>2 DEF ControlExact, FaultOf
  <2> QED BY <2>2, <2>3 DEF Goal
<1>11. CASE x.ready /\ f.k = "maxpush"
  <2>1. y = maxpush BY <1>2, <1>11
  <2>2. ControlDone(x, y, f) /\ ControlExact(y, e, f, FALSE, rises, falls)
    BY <1>11, <2>1, ReceiveMaxPushIdFacts DEF maxpush
  <2>3. ControlExact(y, e, f, first, rises, falls)
    BY <1>11, <2>2 DEF ControlExact, FaultOf
  <2> QED BY <2>2, <2>3 DEF Goal
<1>12. CASE x.ready /\ f.k = "unknown"
  <2>1. y = x BY <1>2, <1>12
  <2>2. ControlDone(x, x, f)
    BY <1>12 DEF ControlDone, HearsSettings, WritesCapacity, Remembers, Kept, KeptStreams, KeptOut
  <2>3. ControlExact(x, e, f, first, rises, falls) BY <1>12 DEF ControlExact, FaultOf
  <2> QED BY <2>1, <2>2, <2>3 DEF Goal
<1> QED BY <1>0, <1>3, <1>4, <1>5, <1>6, <1>7, <1>8, <1>9, <1>10, <1>11, <1>12 DEF FrameKinds

(***************************************************************************)
(* The frames of the control stream, and the events they are.              *)
(***************************************************************************)
LEMMA FrameFaultsSame ==
  ASSUME NEW e, NEW g, NEW h, NEW i \in Nat \ {0}, \A j \in 1 .. i : g[j] = h[j]
  PROVE  FrameFaults(e, g, i) = FrameFaults(e, h, i)
<1>1. g[i] = h[i] /\ \A j \in 1 .. i - 1 : g[j] = h[j] OBVIOUS
<1>2. Rises(g, i) <=> Rises(h, i) BY <1>1 DEF Rises
<1>3. Falls(g, i) <=> Falls(h, i) BY <1>1 DEF Falls
<1>4. ASSUME NEW c PROVE c \in FrameFaults(e, g, i) <=> c \in FrameFaults(e, h, i)
  <2>1. c \in FrameFaults(e, g, i)
          <=> c \in ErrorCodes /\ FaultOf(c, e, g[i], i = 1, Rises(g, i), Falls(g, i))
    BY FrameFaultsAre
  <2>2. c \in FrameFaults(e, h, i)
          <=> c \in ErrorCodes /\ FaultOf(c, e, h[i], i = 1, Rises(h, i), Falls(h, i))
    BY FrameFaultsAre
  <2> QED BY <2>1, <2>2, <1>1, <1>2, <1>3 DEF FaultOf
<1> QED BY <1>4, Zenon

EventOf(f) == IF f.k = "settings" THEN Type("settings") ELSE Goaway(f.n)
Shown(f) == f.k \in {"settings", "goaway"}
EventsAfter(events, f) == IF Shown(f) THEN Append(events, EventOf(f)) ELSE events

LEMMA EventsOfAppend ==
  ASSUME NEW q \in Seq(Items), NEW f \in Items
  PROVE  /\ EventsOf(q) \in Seq(Items)
         /\ EventsOf(Append(q, f)) = EventsAfter(EventsOf(q), f)
<1> DEFINE N == Len(q)
           r == Append(q, f)
           shown(w) == {i \in DOMAIN w : Shown(w[i])}
           plain(w) == [i \in DOMAIN w |-> EventOf(w[i])]
<1>1. \A w : EventsOf(w) = Picked(plain(w), shown(w)) BY Zenon DEF EventsOf, EventOf, Shown
<1>2. /\ N \in Nat /\ DOMAIN q = 1 .. N /\ DOMAIN r = 1 .. N + 1
      /\ \A i \in 1 .. N : q[i] \in Items /\ r[i] = q[i]
      /\ r[N + 1] = f
  BY AppendProperties, LenProperties
<1>3. \A g \in Items : EventOf(g) \in Items
  <2>1. \A g \in Items : g.n \in Nat BY DEF Items
  <2> QED BY <2>1, ItemTypes DEF EventOf, ItemKinds, FrameKinds
<1>4. plain(q) \in Seq(Items) /\ Len(plain(q)) = N BY <1>2, <1>3
<1>5. EventOf(f) \in Items BY <1>3
<1>6. plain(r) = Append(plain(q), EventOf(f))
  <2>1. /\ Append(plain(q), EventOf(f)) \in Seq(Items)
        /\ Len(Append(plain(q), EventOf(f))) = N + 1
        /\ \A i \in 1 .. N : Append(plain(q), EventOf(f))[i] = plain(q)[i]
        /\ Append(plain(q), EventOf(f))[N + 1] = EventOf(f)
    BY <1>4, <1>5, AppendProperties
  <2>2. plain(r) \in Seq(Items) /\ Len(plain(r)) = N + 1
    <3>1. \A i \in 1 .. N + 1 : r[i] \in Items BY <1>2
    <3> HIDE DEF r
    <3> QED BY <1>2, <1>3, <3>1
  <2>3. \A i \in 1 .. N + 1 : plain(r)[i] = Append(plain(q), EventOf(f))[i]
    <3>1. \A i \in 1 .. N : plain(r)[i] = plain(q)[i] /\ plain(q)[i] = EventOf(q[i])
      BY <1>2
    <3>2. plain(r)[N + 1] = EventOf(f) BY <1>2
    <3> HIDE DEF plain, r
    <3> QED BY <2>1, <3>1, <3>2, <1>2
  <2> HIDE DEF plain, r
  <2> QED BY <2>1, <2>2, <2>3, SeqEqual
<1>7. shown(r) = IF Shown(f) THEN shown(q) \cup {N + 1} ELSE shown(q)
  <2>1. \A i \in 1 .. N + 1 : i \in 1 .. N \/ i = N + 1 BY <1>2
  <2>2. N + 1 \in 1 .. N + 1 /\ \A i \in 1 .. N : i \in 1 .. N + 1 BY <1>2
  <2>3. \A i \in 1 .. N : Shown(r[i]) <=> Shown(q[i]) BY <1>2
  <2> HIDE DEF r
  <2> QED BY <1>2, <2>1, <2>2, <2>3
<1>8. shown(q) \in SUBSET (1 .. Len(plain(q))) BY <1>2, <1>4
<1> DEFINE p == plain(q)
           s == shown(q)
           ev == EventOf(f)
<1> HIDE DEF plain, shown, r, N, p, s, ev
<1>9. p \in Seq(Items) /\ Len(p) = N /\ s \in SUBSET (1 .. Len(p)) /\ ev \in Items
  BY <1>4, <1>5, <1>8 DEF p, s, ev
<1>10. /\ Picked(Append(p, ev), s) = Picked(p, s)
       /\ Picked(Append(p, ev), s \cup {N + 1}) = Append(Picked(p, s), ev)
  BY <1>9, PickedAppend
<1>11. EventsOf(r) = EventsAfter(EventsOf(q), f)
  BY <1>1, <1>6, <1>7, <1>10 DEF EventsAfter, p, s, ev
<1>12. Picked(p, s) \in Seq(Items)
  <2>1. \A j \in s : p[j] \in Items BY <1>9, ElementOfSeq
  <2>2. s \subseteq 1 .. N BY <1>9
  <2>3. s \in SUBSET Int /\ IsFiniteSet(s) BY <1>2, <2>2, PositionsFinite, Zenon
  <2> QED BY <2>1, <2>3, PickedElements
<1> QED BY <1>1, <1>11, <1>12 DEF p, s, r

LEMMA NoEventsOf == EventsOf(<<>>) = <<>>
<1> DEFINE w == <<>>
           shown == {i \in DOMAIN w : w[i].k \in {"settings", "goaway"}}
           plain == [i \in DOMAIN w |->
                       IF w[i].k = "settings" THEN Type("settings") ELSE Goaway(w[i].n)]
<1>1. EventsOf(w) = Picked(plain, shown) BY Zenon DEF EventsOf
<1>2. shown = {} OBVIOUS
<1> HIDE DEF plain, shown
<1>3. Picked(plain, {}) \in Seq(Items) /\ Len(Picked(plain, {})) = 0
  <2>1. PICK P \in SUBSET Int : P = {} OBVIOUS
  <2>2. IsFiniteSet(P) /\ Cardinality(P) = 0 BY <2>1, FS_EmptySet
  <2>3. \A j \in P : plain[j] \in Items BY <2>1
  <2>4. Picked(plain, P) \in Seq(Items) /\ Len(Picked(plain, P)) = Cardinality(P)
    BY <2>2, <2>3, PickedElements
  <2> QED BY <2>1, <2>2, <2>4
<1> QED BY <1>1, <1>2, <1>3, EmptySeq

(* A frame more is remembered, or refused for what is held against it.     *)
LEMMA FramesReadStep ==
  ASSUME scope \in Scopes, NEW e \in Ends, NEW x \in Connections, x.error = "none",
         NEW q \in Seq(Items), FramesRead(x, e, q), NEW f \in Items, f.k \in FrameKinds
  PROVE  LET y == ControlFrame(x, e, f)
             r == Append(q, f)
         IN  /\ ControlDone(x, y, f)
             /\ y.error = "none" => FramesRead(y, e, r)
             /\ y.error # "none" => /\ y.error \in FrameFaults(e, r, Len(r))
                                    /\ y.events = EventsOf(q)
<1> DEFINE y == ControlFrame(x, e, f)
           r == Append(q, f)
           N == Len(q) + 1
<1>1. /\ Len(q) \in Nat /\ N \in Nat \ {0} /\ DOMAIN q = 1 .. Len(q) /\ DOMAIN r = 1 .. N
      /\ Len(r) = N /\ r[N] = f /\ r # <<>>
      /\ \A i \in 1 .. Len(q) : q[i] \in Items /\ r[i] = q[i]
      /\ (q = <<>> <=> N = 1)
  BY AppendProperties, LenProperties, EmptySeq
<1>2. /\ x.ready <=> q # <<>>
      /\ x.events = EventsOf(q)
      /\ \A i \in 1 .. Len(q) :
            /\ FrameFaults(e, q, i) = {}
            /\ q[i].k = "goaway" => x.goaway # NoGoaway /\ x.goaway <= q[i].n
            /\ q[i].k = "maxpush" => q[i].n <= x.push
      /\ x.goaway # NoGoaway => \E i \in 1 .. Len(q) : q[i].k = "goaway" /\ q[i].n = x.goaway
      /\ x.push # -1 => \E i \in 1 .. Len(q) : q[i].k = "maxpush" /\ q[i].n = x.push
  BY <1>1, Zenon DEF FramesRead
<1>3. /\ x.goaway \in Nat \cup {NoGoaway} /\ x.push \in Nat \cup {-1} /\ f.n \in Nat
      /\ \A i \in 1 .. Len(q) : q[i].n \in Nat
      /\ x.ready \in BOOLEAN
  BY <1>1 DEF Connections, Items
<1> DEFINE rises == Rises(r, N)
           falls == Falls(r, N)
<1> HIDE DEF r, y
<1>4. \A j \in 1 .. N - 1 : j \in 1 .. Len(q) BY <1>1
<1>14. \A j \in 1 .. Len(q) : j \in 1 .. N - 1 BY <1>1
<1>5. rises <=> x.goaway # NoGoaway /\ f.n > x.goaway
  <2>1. ASSUME NEW j \in 1 .. N - 1, r[j].k = "goaway" /\ r[j].n < r[N].n
        PROVE  x.goaway # NoGoaway /\ f.n > x.goaway
    <3>1. j \in 1 .. Len(q) BY <1>4
    <3>2. r[j] = q[j] /\ x.goaway # NoGoaway /\ x.goaway <= q[j].n BY <3>1, <1>1, <1>2, <2>1
    <3>3. q[j].n \in Nat /\ x.goaway \in Nat BY <3>1, <3>2, <1>3
    <3> QED BY <3>2, <3>3, <2>1, <1>1, <1>3
  <2>2. ASSUME x.goaway # NoGoaway /\ f.n > x.goaway PROVE rises
    <3>1. PICK i \in 1 .. Len(q) : q[i].k = "goaway" /\ q[i].n = x.goaway BY <1>2, <2>2
    <3>2. i \in 1 .. N - 1 /\ r[i].k = "goaway" /\ r[i].n < r[N].n
      BY <3>1, <2>2, <1>1, <1>3, <1>14
    <3> QED BY <3>2 DEF Rises
  <2> QED BY <2>1, <2>2 DEF Rises
<1>6. falls <=> f.n < x.push
  <2>1. ASSUME NEW j \in 1 .. N - 1, r[j].k = "maxpush" /\ r[j].n > r[N].n
        PROVE  f.n < x.push
    <3>1. j \in 1 .. Len(q) BY <1>4
    <3>2. r[j] = q[j] /\ q[j].n <= x.push BY <3>1, <1>1, <1>2, <2>1
    <3> QED BY <3>1, <3>2, <2>1, <1>1, <1>3
  <2>2. ASSUME f.n < x.push PROVE falls
    <3>1. x.push # -1 BY <2>2, <1>3
    <3>2. PICK i \in 1 .. Len(q) : q[i].k = "maxpush" /\ q[i].n = x.push BY <1>2, <3>1
    <3>3. i \in 1 .. N - 1 /\ r[i].k = "maxpush" /\ r[i].n > r[N].n
      BY <3>2, <2>2, <1>1, <1>3, <1>14
    <3> QED BY <3>3 DEF Falls
  <2> QED BY <2>1, <2>2 DEF Falls
<1> HIDE DEF rises, falls
<1>7. ControlDone(x, y, f) /\ ControlExact(y, e, f, ~x.ready, rises, falls)
  BY <1>5, <1>6, ControlFrameExact DEF y
<1>8. ControlExact(y, e, f, N = 1, rises, falls)
  BY <1>7, <1>1, <1>2, <1>3 DEF ControlExact, FaultOf
<1>9. \A c : c \in FrameFaults(e, r, N) <=> c \in ErrorCodes /\ FaultOf(c, e, f, N = 1, rises, falls)
  <2> TAKE c
  <2>1. c \in FrameFaults(e, r, N)
          <=> c \in ErrorCodes /\ FaultOf(c, e, r[N], N = 1, Rises(r, N), Falls(r, N))
    BY <1>1, FrameFaultsAre
  <2> QED BY <2>1, <1>1 DEF rises, falls
<1>10. y \in Connections /\ y.error \in ErrorCodes BY <1>7 DEF ControlDone, Connections
<1>11. CASE y.error # "none"
  <2>1. y.error \in FrameFaults(e, r, N) BY <1>8, <1>9, <1>10, <1>11 DEF ControlExact
  <2>2. y.events = EventsOf(q) BY <1>2, <1>7, <1>11 DEF ControlDone, Forgets
  <2> QED BY <1>1, <1>7, <1>11, <2>1, <2>2 DEF y, r
<1>12. CASE y.error = "none"
  <2>1. FrameFaults(e, r, N) = {} BY <1>8, <1>9, <1>12 DEF ControlExact
  <2>2. ASSUME NEW i \in 1 .. Len(q) PROVE FrameFaults(e, r, i) = {}
    <3>1. i \in Nat \ {0} /\ \A j \in 1 .. i : j \in 1 .. Len(q) BY <1>1
    <3>2. \A j \in 1 .. i : r[j] = q[j] BY <3>1, <1>1
    <3>3. FrameFaults(e, r, i) = FrameFaults(e, q, i) BY <3>1, <3>2, FrameFaultsSame
    <3> QED BY <3>3, <1>2
  <2>3. Remembers(x, y, f) BY <1>7, <1>12 DEF ControlDone
  <2>4. /\ y.ready /\ y.goaway = (IF f.k = "goaway" THEN f.n ELSE x.goaway)
        /\ y.push = (IF f.k = "maxpush" THEN f.n ELSE x.push)
        /\ y.events = EventsAfter(EventsOf(q), f)
    BY <2>3, <1>2 DEF Remembers, EventsAfter, EventOf, Shown
  <2>5. y.events = EventsOf(r) BY <2>4, EventsOfAppend DEF r
  <2>6. f.k = "goaway" => ~rises
    <3>1. "H3_ID_ERROR" \in ErrorCodes BY ErrorCodesAre
    <3> QED BY <3>1, <1>8, <1>12 DEF ControlExact, FaultOf
  <2>7. f.k = "maxpush" => ~falls
    <3>1. "H3_ID_ERROR" \in ErrorCodes BY ErrorCodesAre
    <3> QED BY <3>1, <1>8, <1>12 DEF ControlExact, FaultOf
  <2>8. ASSUME NEW i \in 1 .. N
        PROVE  /\ FrameFaults(e, r, i) = {}
               /\ r[i].k = "goaway" => y.goaway # NoGoaway /\ y.goaway <= r[i].n
               /\ r[i].k = "maxpush" => r[i].n <= y.push
    <3>1. CASE i = N
      <4>1. f.n # NoGoaway /\ f.n <= f.n BY <1>3 DEF NoGoaway
      <4> QED BY <3>1, <4>1, <2>1, <2>4, <1>1
    <3>2. CASE i # N
      <4>1. i \in 1 .. Len(q) /\ r[i] = q[i] /\ q[i].n \in Nat BY <3>2, <1>1, <1>3
      <4>2. FrameFaults(e, r, i) = {} BY <4>1, <2>2
      <4>3. r[i].k = "goaway" => y.goaway # NoGoaway /\ y.goaway <= r[i].n
        <5>1. f.n # NoGoaway BY <1>3 DEF NoGoaway
        <5> QED BY <4>1, <5>1, <1>2, <1>3, <1>5, <2>4, <2>6
      <4>4. r[i].k = "maxpush" => r[i].n <= y.push
        BY <4>1, <1>2, <1>3, <1>6, <2>4, <2>7
      <4> QED BY <4>2, <4>3, <4>4
    <3> QED BY <3>1, <3>2
  <2>9. y.goaway # NoGoaway => \E i \in 1 .. N : r[i].k = "goaway" /\ r[i].n = y.goaway
    <3>1. N \in 1 .. N /\ \A i \in 1 .. Len(q) : i \in 1 .. N BY <1>1
    <3> QED BY <3>1, <2>4, <1>1, <1>2
  <2>10. y.push # -1 => \E i \in 1 .. N : r[i].k = "maxpush" /\ r[i].n = y.push
    <3>1. N \in 1 .. N /\ \A i \in 1 .. Len(q) : i \in 1 .. N BY <1>1
    <3> QED BY <3>1, <2>4, <1>1, <1>2
  <2>11. FramesRead(y, e, r)
    BY <1>1, <2>4, <2>5, <2>8, <2>9, <2>10, Zenon DEF FramesRead
  <2> QED BY <1>1, <1>7, <1>12, <2>11 DEF y, r
<1> QED BY <1>11, <1>12

-----------------------------------------------------------------------------
(***************************************************************************)
(* What is held against what has arrived.                                  *)
(***************************************************************************)
LEMMA PrefixAppend ==
  ASSUME NEW S, NEW q \in Seq(S), NEW r \in Seq(S), IsPrefix(q, r), NEW f \in S
  PROVE  IsPrefix(q, Append(r, f))
<1>1. /\ Len(q) \in Nat /\ Len(r) \in Nat /\ Len(q) <= Len(r)
      /\ SubSeq(q, 1, Len(q)) = SubSeq(r, 1, Len(q))
  BY LenProperties DEF IsPrefix
<1>2. Len(Append(r, f)) = Len(r) + 1 /\ \A i \in 1 .. Len(r) : Append(r, f)[i] = r[i]
  BY AppendProperties
<1> DEFINE n == Len(q)
           w == Append(r, f)
<1> HIDE DEF n, w
<1>3. SubSeq(w, 1, n) = SubSeq(r, 1, n)
  <2>1. \A i \in 1 .. n : w[i] = r[i] BY <1>1, <1>2 DEF n, w
  <2> QED BY <2>1, <1>1 DEF n
<1> QED BY <1>1, <1>2, <1>3 DEF IsPrefix, n, w

LEMMA PrefixSelf ==
  ASSUME NEW S, NEW q \in Seq(S)
  PROVE  IsPrefix(q, q)
BY LenProperties DEF IsPrefix

\* c is held against the streams, not against a frame of the control stream.
StreamFault(c, e, a, ended, cut) ==
    \/ /\ c = "H3_STREAM_CREATION_ERROR"
       /\ \/ \E r, s \in StreamIds : /\ r # s /\ TypeOf(a[r]) = TypeOf(a[s])
                                     /\ TypeOf(a[s]) \in Critical
          \/ e = "server" /\ \E s \in StreamIds : TypeOf(a[s]) = "push"
    \/ c = "H3_ID_ERROR" /\ e = "client" /\ \E s \in StreamIds : TypeOf(a[s]) = "push"
    \/ c = "H3_CLOSED_CRITICAL_STREAM" /\ \E s \in StreamIds : s \in ended /\ TypeOf(a[s]) \in Critical
    \/ /\ c = "H3_FRAME_ERROR"
       /\ \E s \in StreamIds : TypeOf(a[s]) = "control" /\ s \in ended /\ s \in cut
    \/ /\ c = "QPACK_ENCODER_STREAM_ERROR"
       /\ \E s \in StreamIds : \E i \in DOMAIN Tail(a[s]) :
             /\ TypeOf(a[s]) = "encoder"
             /\ Tail(a[s])[i].k # "capacity" \/ Tail(a[s])[i].n > Capacity(scope.local[e])
    \/ /\ c = "QPACK_DECODER_STREAM_ERROR"
       /\ \E s \in StreamIds : \E i \in DOMAIN Tail(a[s]) :
             TypeOf(a[s]) = "decoder" /\ Tail(a[s])[i].k # "cancel"
FrameFault(c, e, a) ==
    \E s \in StreamIds : /\ TypeOf(a[s]) = "control"
                         /\ \E i \in DOMAIN Tail(a[s]) : c \in FrameFaults(e, Tail(a[s]), i)

LEMMA FaultsInAre ==
  ASSUME NEW e, NEW a, NEW ended, NEW cut, NEW c
  PROVE  c \in FaultsIn(e, a, ended, cut)
           <=> FrameFault(c, e, a) \/ (c \in ErrorCodes /\ StreamFault(c, e, a, ended, cut))
<1> DEFINE of(t) == {s \in StreamIds : TypeOf(a[s]) = t}
           frames(t) == UNION {Range(Tail(a[s])) : s \in of(t)}
           A == UNION {UNION {FrameFaults(e, Tail(a[s]), i) : i \in DOMAIN Tail(a[s])}
                         : s \in of("control")}
           twice == \E t \in Critical : \E r, s \in of(t) : r # s
           pushed == of("push") # {}
           closed == \E t \in Critical : of(t) \cap ended # {}
           torn == of("control") \cap ended \cap cut # {}
           enc == \E f \in frames("encoder") : f.k # "capacity" \/ f.n > Capacity(scope.local[e])
           dec == \E f \in frames("decoder") : f.k # "cancel"
           B == {b \in ErrorCodes :
                   \/ /\ b = "H3_STREAM_CREATION_ERROR"
                      /\ twice \/ (e = "server" /\ pushed)
                   \/ b = "H3_ID_ERROR" /\ e = "client" /\ pushed
                   \/ b = "H3_CLOSED_CRITICAL_STREAM" /\ closed
                   \/ b = "H3_FRAME_ERROR" /\ torn
                   \/ b = "QPACK_ENCODER_STREAM_ERROR" /\ enc
                   \/ b = "QPACK_DECODER_STREAM_ERROR" /\ dec}
<1>1. c \in FaultsIn(e, a, ended, cut) <=> c \in A \cup B BY Zenon DEF FaultsIn
<1>2. c \in A <=> FrameFault(c, e, a)
  <2>1. c \in A <=> \E s \in of("control") :
                      c \in UNION {FrameFaults(e, Tail(a[s]), i) : i \in DOMAIN Tail(a[s])}
    BY Zenon
  <2>2. \A s : c \in UNION {FrameFaults(e, Tail(a[s]), i) : i \in DOMAIN Tail(a[s])}
                 <=> \E i \in DOMAIN Tail(a[s]) : c \in FrameFaults(e, Tail(a[s]), i)
    BY Zenon
  <2>3. \A s : s \in of("control") <=> s \in StreamIds /\ TypeOf(a[s]) = "control" BY Zenon
  <2> HIDE DEF A, of
  <2> QED BY <2>1, <2>2, <2>3, Zenon DEF FrameFault
<1>f. ASSUME NEW t
      PROVE  /\ \A f \in frames(t) : \E s \in StreamIds : \E i \in DOMAIN Tail(a[s]) :
                   TypeOf(a[s]) = t /\ f = Tail(a[s])[i]
             /\ \A s \in StreamIds : \A i \in DOMAIN Tail(a[s]) :
                   TypeOf(a[s]) = t => Tail(a[s])[i] \in frames(t)
  <2>1. \A f : f \in frames(t) <=> \E s \in of(t) : f \in Range(Tail(a[s])) BY Zenon
  <2>2. \A f, s : f \in Range(Tail(a[s])) <=> \E i \in DOMAIN Tail(a[s]) : f = Tail(a[s])[i]
    BY Zenon DEF Range
  <2>3. \A s : s \in of(t) <=> s \in StreamIds /\ TypeOf(a[s]) = t BY Zenon
  <2> HIDE DEF frames, of
  <2>4. ASSUME NEW f \in frames(t)
        PROVE  \E s \in StreamIds : \E i \in DOMAIN Tail(a[s]) :
                  TypeOf(a[s]) = t /\ f = Tail(a[s])[i]
    <3>1. PICK s \in of(t) : f \in Range(Tail(a[s])) BY <2>1, <2>4, Zenon
    <3>2. s \in StreamIds /\ TypeOf(a[s]) = t BY <2>3, <3>1, Zenon
    <3>3. PICK i \in DOMAIN Tail(a[s]) : f = Tail(a[s])[i] BY <2>2, <3>1, Zenon
    <3> QED BY <3>2, <3>3, Zenon
  <2>5. ASSUME NEW s \in StreamIds, NEW i \in DOMAIN Tail(a[s]), TypeOf(a[s]) = t
        PROVE  Tail(a[s])[i] \in frames(t)
    <3>1. Tail(a[s])[i] \in Range(Tail(a[s])) BY <2>2, Zenon
    <3>2. s \in of(t) BY <2>3, <2>5, Zenon
    <3> QED BY <3>1, <3>2, <2>1, Zenon
  <2> QED BY <2>4, <2>5, Zenon
<1>3. twice <=> \E r, s \in StreamIds : /\ r # s /\ TypeOf(a[r]) = TypeOf(a[s])
                                        /\ TypeOf(a[s]) \in Critical
  BY Zenon
<1>4. pushed <=> \E s \in StreamIds : TypeOf(a[s]) = "push" BY Zenon
<1>5. closed <=> \E s \in StreamIds : s \in ended /\ TypeOf(a[s]) \in Critical BY Zenon
<1>6. torn <=> \E s \in StreamIds : TypeOf(a[s]) = "control" /\ s \in ended /\ s \in cut BY Zenon
<1>7. enc <=> \E s \in StreamIds : \E i \in DOMAIN Tail(a[s]) :
                 /\ TypeOf(a[s]) = "encoder"
                 /\ Tail(a[s])[i].k # "capacity" \/ Tail(a[s])[i].n > Capacity(scope.local[e])
  <2> DEFINE wrong(f) == f.k # "capacity" \/ f.n > Capacity(scope.local[e])
  <2>1. enc <=> \E f \in frames("encoder") : wrong(f) OBVIOUS
  <2>2. (\E f \in frames("encoder") : wrong(f))
          <=> \E s \in StreamIds : \E i \in DOMAIN Tail(a[s]) :
                 TypeOf(a[s]) = "encoder" /\ wrong(Tail(a[s])[i])
    <3> HIDE DEF frames, wrong
    <3>1. /\ \A f \in frames("encoder") : \E s \in StreamIds : \E i \in DOMAIN Tail(a[s]) :
                TypeOf(a[s]) = "encoder" /\ f = Tail(a[s])[i]
          /\ \A s \in StreamIds : \A i \in DOMAIN Tail(a[s]) :
                TypeOf(a[s]) = "encoder" => Tail(a[s])[i] \in frames("encoder")
      BY <1>f
    <3> QED BY <3>1, Zenon
  <2> QED BY <2>1, <2>2, Zenon
<1>8. dec <=> \E s \in StreamIds : \E i \in DOMAIN Tail(a[s]) :
                 TypeOf(a[s]) = "decoder" /\ Tail(a[s])[i].k # "cancel"
  <2> DEFINE wrong(f) == f.k # "cancel"
  <2>1. dec <=> \E f \in frames("decoder") : wrong(f) OBVIOUS
  <2>2. (\E f \in frames("decoder") : wrong(f))
          <=> \E s \in StreamIds : \E i \in DOMAIN Tail(a[s]) :
                 TypeOf(a[s]) = "decoder" /\ wrong(Tail(a[s])[i])
    <3> HIDE DEF frames, wrong
    <3>1. /\ \A f \in frames("decoder") : \E s \in StreamIds : \E i \in DOMAIN Tail(a[s]) :
                TypeOf(a[s]) = "decoder" /\ f = Tail(a[s])[i]
          /\ \A s \in StreamIds : \A i \in DOMAIN Tail(a[s]) :
                TypeOf(a[s]) = "decoder" => Tail(a[s])[i] \in frames("decoder")
      BY <1>f
    <3> QED BY <3>1, Zenon
  <2> QED BY <2>1, <2>2, Zenon
<1> HIDE DEF A, twice, pushed, closed, torn, enc, dec
<1>9. c \in B <=> c \in ErrorCodes /\ StreamFault(c, e, a, ended, cut)
  BY <1>3, <1>4, <1>5, <1>6, <1>7, <1>8, Zenon DEF StreamFault
<1> HIDE DEF B
<1> QED BY <1>1, <1>2, <1>9, Zenon

\* b is a with f behind it on stream s.
Grown(a, b, s, f) ==
    /\ s \in StreamIds /\ f \in Items
    /\ a \in [StreamIds -> Scripts] /\ b \in [StreamIds -> Scripts]
    /\ b = [a EXCEPT ![s] = Append(a[s], f)]

LEMMA GrownFacts ==
  ASSUME NEW a, NEW b, NEW s, NEW f, Grown(a, b, s, f)
  PROVE  /\ \A r \in StreamIds : a[r] \in Seq(Items) /\ b[r] \in Seq(Items)
         /\ b[s] = Append(a[s], f) /\ b[s] # <<>>
         /\ \A r \in StreamIds \ {s} : b[r] = a[r]
         /\ \A r \in StreamIds : TypeOf(b[r]) = IF r = s /\ a[r] = <<>> THEN f.k ELSE TypeOf(a[r])
         /\ \A r \in StreamIds : TypeOf(a[r]) \in Critical \cup {"push"} => a[r] # <<>>
         /\ a[s] # <<>> => /\ Tail(a[s]) \in Seq(Items)
                           /\ Tail(b[s]) = Append(Tail(a[s]), f)
         /\ a[s] = <<>> => b[s][1] = f /\ Len(b[s]) = 1 /\ Tail(b[s]) = <<>>
<1>1. \A r \in StreamIds : a[r] \in Seq(Items) /\ b[r] \in Seq(Items) BY DEF Grown, Scripts
<1>2. b[s] = Append(a[s], f) /\ \A r \in StreamIds \ {s} : b[r] = a[r] BY DEF Grown
<1>3. s \in StreamIds /\ f \in Items BY DEF Grown
<1>4. /\ Len(a[s]) \in Nat /\ b[s] # <<>> /\ Len(b[s]) = Len(a[s]) + 1
      /\ \A i \in 1 .. Len(a[s]) : b[s][i] = a[s][i]
      /\ b[s][Len(a[s]) + 1] = f
  BY <1>1, <1>2, <1>3, AppendProperties, LenProperties
<1>5. a[s] # <<>> => Tail(a[s]) \in Seq(Items) /\ Tail(b[s]) = Append(Tail(a[s]), f)
  BY <1>1, <1>2, <1>3, HeadTailProperties, HeadTailAppend
<1>6. a[s] = <<>> => Tail(b[s]) = <<>> BY <1>1, <1>2, <1>3, HeadTailAppend
<1>7. a[s] = <<>> => Len(a[s]) = 0 /\ b[s][1] = f /\ Len(b[s]) = 1 BY <1>4
<1>8. a[s] # <<>> => b[s][1] = a[s][1]
  <2>1. a[s] # <<>> => Len(a[s]) # 0 BY <1>1, <1>3, EmptySeq
  <2> QED BY <2>1, <1>4
<1>9. TypeOf(b[s]) = IF a[s] = <<>> THEN f.k ELSE TypeOf(a[s])
  BY <1>4, <1>7, <1>8 DEF TypeOf
<1>10. \A r \in StreamIds : TypeOf(a[r]) \in Critical \cup {"push"} => a[r] # <<>>
  BY DEF TypeOf, Critical
<1> QED BY <1>1, <1>2, <1>4, <1>5, <1>6, <1>7, <1>9, <1>10

(* What is wrong stays wrong when more arrives.                            *)
LEMMA FaultsGrow ==
  ASSUME NEW a, NEW b, NEW s, NEW f, Grown(a, b, s, f), NEW e, NEW ended, NEW cut,
         NEW c \in FaultsIn(e, a, ended, cut)
  PROVE  c \in FaultsIn(e, b, ended, cut)
<1>1. \A r \in StreamIds : TypeOf(a[r]) \in Critical \cup {"push"} => TypeOf(b[r]) = TypeOf(a[r])
  BY GrownFacts
<1>2. s \in StreamIds /\ f \in Items BY DEF Grown
<1>3. ASSUME NEW r \in StreamIds, TypeOf(a[r]) \in Critical, NEW i \in DOMAIN Tail(a[r])
      PROVE  /\ i \in Nat \ {0} /\ i \in DOMAIN Tail(b[r])
             /\ \A j \in 1 .. i : Tail(b[r])[j] = Tail(a[r])[j]
  <2>1. a[r] \in Seq(Items) /\ a[r] # <<>> BY <1>3, GrownFacts
  <2>2. /\ Tail(a[r]) \in Seq(Items) /\ DOMAIN Tail(a[r]) = 1 .. Len(Tail(a[r]))
        /\ Len(Tail(a[r])) \in Nat
    BY <2>1, HeadTailProperties, LenProperties
  <2>3. CASE r # s
    <3>1. b[r] = a[r] BY <2>3, GrownFacts
    <3> QED BY <2>2, <3>1
  <2>4. CASE r = s
    <3>1. Tail(b[r]) = Append(Tail(a[r]), f) BY SMTT(30), <2>1, <2>4, GrownFacts
    <3> DEFINE q == Tail(a[r])
    <3>a. q \in Seq(Items) /\ f \in Items BY <2>2, <1>2
    <3>b. Tail(b[r]) = Append(q, f) BY <3>1
    <3> HIDE DEF q
    <3>c. /\ DOMAIN Tail(b[r]) = 1 .. Len(q) + 1
          /\ \A j \in 1 .. Len(q) : Tail(b[r])[j] = q[j]
      BY SMTT(30), <3>a, <3>b, AppendProperties, LenProperties
    <3>2. /\ DOMAIN Tail(b[r]) = 1 .. Len(Tail(a[r])) + 1
          /\ \A j \in 1 .. Len(Tail(a[r])) : Tail(b[r])[j] = Tail(a[r])[j]
      BY <3>c DEF q
    <3> QED BY <2>2, <3>2
  <2> QED BY <2>3, <2>4
<1>4. CASE FrameFault(c, e, a)
  <2>1. PICK r \in StreamIds : /\ TypeOf(a[r]) = "control"
                               /\ \E i \in DOMAIN Tail(a[r]) : c \in FrameFaults(e, Tail(a[r]), i)
    BY <1>4 DEF FrameFault
  <2>2. PICK i \in DOMAIN Tail(a[r]) : c \in FrameFaults(e, Tail(a[r]), i) BY <2>1
  <2>3. "control" \in Critical BY DEF Critical
  <2>4. /\ i \in Nat \ {0} /\ i \in DOMAIN Tail(b[r])
        /\ \A j \in 1 .. i : Tail(b[r])[j] = Tail(a[r])[j]
    BY <2>1, <2>3, <1>3
  <2>5. FrameFaults(e, Tail(b[r]), i) = FrameFaults(e, Tail(a[r]), i) BY <2>4, FrameFaultsSame
  <2>6. FrameFault(c, e, b) BY <2>1, <2>2, <2>3, <2>4, <2>5, <1>1 DEF FrameFault
  <2> QED BY <2>6, FaultsInAre
<1>5. CASE c \in ErrorCodes /\ StreamFault(c, e, a, ended, cut)
  <2>1. /\ \A r \in StreamIds : TypeOf(a[r]) = "push" => TypeOf(b[r]) = "push"
        /\ \A r \in StreamIds : TypeOf(a[r]) = "control" => TypeOf(b[r]) = "control"
        /\ \A r \in StreamIds : TypeOf(a[r]) = "encoder" => TypeOf(b[r]) = "encoder"
        /\ \A r \in StreamIds : TypeOf(a[r]) = "decoder" => TypeOf(b[r]) = "decoder"
    BY <1>1 DEF Critical
  <2>2. \A r \in StreamIds : TypeOf(a[r]) \in Critical => TypeOf(b[r]) = TypeOf(a[r]) BY <1>1
  <2>3. ASSUME NEW r \in StreamIds, TypeOf(a[r]) \in {"encoder", "decoder"},
               NEW i \in DOMAIN Tail(a[r])
        PROVE  i \in DOMAIN Tail(b[r]) /\ Tail(b[r])[i] = Tail(a[r])[i]
    <3>1. TypeOf(a[r]) \in Critical BY <2>3 DEF Critical
    <3>2. /\ i \in Nat \ {0} /\ i \in DOMAIN Tail(b[r])
          /\ \A j \in 1 .. i : Tail(b[r])[j] = Tail(a[r])[j]
      BY <3>1, <1>3
    <3> QED BY <3>2
  <2>4. StreamFault(c, e, b, ended, cut)
    BY <1>5, <2>1, <2>2, <2>3 DEF StreamFault
  <2> QED BY <1>5, <2>4, FaultsInAre
<1> QED BY <1>4, <1>5, FaultsInAre

(* And when more streams end, or are cut.                                  *)
LEMMA FaultsEnd ==
  ASSUME NEW e, NEW a, NEW ended, NEW cut, NEW ended2, NEW cut2,
         ended \subseteq ended2, cut \subseteq cut2, NEW c \in FaultsIn(e, a, ended, cut)
  PROVE  c \in FaultsIn(e, a, ended2, cut2)
<1>1. StreamFault(c, e, a, ended, cut) => StreamFault(c, e, a, ended2, cut2)
  BY DEF StreamFault
<1> QED BY <1>1, FaultsInAre
-----------------------------------------------------------------------------
(***************************************************************************)
(* Receive: x reads the next item f of stream s.                           *)
(***************************************************************************)
LEMMA LinkedFacts ==
  ASSUME NEW x \in Connections, NEW a, NEW b, NEW s, NEW f, Grown(a, b, s, f), Linked(x, a)
  PROVE  /\ Linked(x, b)
         /\ \A t \in Critical : x.peer[t] # None =>
               x.peer[t] \in StreamIds /\ TypeOf(a[x.peer[t]]) = t /\ a[x.peer[t]] # <<>>
         /\ \A t, u \in Critical : x.peer[t] = x.peer[u] /\ x.peer[t] # None => t = u
         /\ ControlRead(x, a) \in Seq(Items)
         /\ ControlRead(x, b) = IF x.peer["control"] = s THEN Append(ControlRead(x, a), f)
                                ELSE ControlRead(x, a)
<1>1. \A t \in Critical : x.peer[t] \in StreamIds \cup {None} BY DEF Connections, Streams
<1>2. \A t \in Critical : x.peer[t] # None => x.peer[t] \in StreamIds /\ TypeOf(a[x.peer[t]]) = t
  BY <1>1 DEF Linked
<1>3. \A t \in Critical : x.peer[t] # None => a[x.peer[t]] # <<>> BY <1>2, GrownFacts
<1>4. \A t, u \in Critical : x.peer[t] = x.peer[u] /\ x.peer[t] # None => t = u
  BY <1>2, Zenon
<1>5. Linked(x, b) BY <1>2, <1>3, GrownFacts DEF Linked
<1> DEFINE c == x.peer["control"]
<1>6. "control" \in Critical /\ s \in StreamIds /\ None \notin StreamIds
  BY DEF Critical, Grown, None, StreamIds
<1>7. ControlRead(x, a) \in Seq(Items)
  <2>1. CASE c = None
    <3>1. ControlRead(x, a) = <<>> BY <2>1 DEF ControlRead
    <3> QED BY <3>1, EmptySeq
  <2>2. CASE c # None
    <3>1. a[c] \in Seq(Items) /\ a[c] # <<>> BY <2>2, <1>2, <1>3, <1>6, GrownFacts
    <3>2. ControlRead(x, a) = Tail(a[c]) BY <2>2 DEF ControlRead
    <3> QED BY <3>1, <3>2, HeadTailProperties
  <2> QED BY <2>1, <2>2
<1>8. CASE c = s
  <2>1. c # None /\ a[c] # <<>> BY <1>8, <1>6, <1>3
  <2>2. Tail(b[s]) = Append(Tail(a[s]), f) BY <2>1, <1>8, GrownFacts
  <2> QED BY <2>1, <2>2, <1>8, <1>7, <1>5, <1>4, <1>2, <1>3 DEF ControlRead
<1>9. CASE c # s
  <2>1. c # None => b[c] = a[c] BY <1>9, <1>1, <1>6, GrownFacts
  <2>2. ControlRead(x, b) = ControlRead(x, a) BY <2>1 DEF ControlRead
  <2> QED BY <2>2, <1>9, <1>7, <1>5, <1>4, <1>2, <1>3
<1> QED BY <1>8, <1>9

\* The events stay a prefix of those of what has arrived.
LEMMA PrefixGrows ==
  ASSUME NEW x \in Connections, NEW a, NEW b, NEW s, NEW f, Grown(a, b, s, f), Linked(x, a),
         IsPrefix(x.events, EventsOf(ControlRead(x, a)))
  PROVE  IsPrefix(x.events, EventsOf(ControlRead(x, b)))
<1> DEFINE q == ControlRead(x, a)
           r == ControlRead(x, b)
<1>1. q \in Seq(Items) /\ f \in Items /\ x.events \in Seq(Items)
  BY LinkedFacts DEF Grown, Connections
<1>2. r = q \/ r = Append(q, f) BY LinkedFacts
<1>3. IsPrefix(x.events, EventsOf(q)) OBVIOUS
<1> HIDE DEF q, r
<1>4. EventsOf(q) \in Seq(Items) /\ EventsOf(Append(q, f)) = EventsAfter(EventsOf(q), f)
  BY <1>1, EventsOfAppend
<1>5. EventOf(f) \in Items
  <2>1. f.n \in Nat BY <1>1 DEF Items
  <2> QED BY <2>1, ItemTypes DEF EventOf, ItemKinds, FrameKinds
<1>6. IsPrefix(x.events, EventsOf(Append(q, f)))
  <2>1. IsPrefix(x.events, Append(EventsOf(q), EventOf(f)))
    BY <1>1, <1>3, <1>4, <1>5, PrefixAppend
  <2> QED BY <2>1, <1>3, <1>4 DEF EventsAfter
<1>7. IsPrefix(x.events, EventsOf(r)) BY <1>2, <1>3, <1>6
<1> QED BY <1>7 DEF r

\* A connection that has failed for something that has arrived.
LEMMA FailSound ==
  ASSUME NEW x \in Connections, NEW e, NEW a, NEW b, NEW s, NEW f, Grown(a, b, s, f),
         NEW ended, NEW cut, ReadSound(x, e, a, ended, cut),
         NEW y \in Connections, y.error # "none", y.peer = x.peer, y.events = x.events,
         PendingSound(y), ~y.misused => y.error \in FaultsIn(e, b, ended, cut)
  PROVE  ReadSound(y, e, b, ended, cut)
<1>1. Linked(x, a) BY DEF ReadSound
<1>2. Linked(y, b) BY <1>1, LinkedFacts DEF Linked
<1>3. IsPrefix(x.events, EventsOf(ControlRead(x, a)))
  <2>1. CASE x.error = "none"
    <3>1. x.events = EventsOf(ControlRead(x, a)) BY <2>1 DEF ReadSound, AllRead, FramesRead
    <3>2. x.events \in Seq(Items) BY DEF Connections
    <3> QED BY <3>1, <3>2, PrefixSelf
  <2>2. CASE x.error # "none" BY <2>2 DEF ReadSound, FaultFound
  <2> QED BY <2>1, <2>2
<1>4. IsPrefix(x.events, EventsOf(ControlRead(x, b))) BY <1>1, <1>3, PrefixGrows
<1>5. ControlRead(y, b) = ControlRead(x, b) BY DEF ControlRead
<1>6. FaultFound(y, e, b, ended, cut) BY <1>4, <1>5 DEF FaultFound
<1> QED BY <1>2, <1>6 DEF ReadSound

\* An item on a stream whose type is known.
LEMMA KnownTypes ==
  ASSUME NEW x \in Connections, NEW a, NEW b, NEW s, NEW f, Grown(a, b, s, f), a[s] # <<>>,
         TypesRead(x, a), NEW y, y.peer = x.peer, y.ignored = x.ignored
  PROVE  TypesRead(y, b)
<1>1. \A r \in StreamIds : TypeOf(b[r]) = TypeOf(a[r]) /\ (b[r] = <<>> <=> a[r] = <<>>)
  <2>1. \A r \in StreamIds : TypeOf(b[r]) = TypeOf(a[r]) BY GrownFacts
  <2>2. \A r \in StreamIds \ {s} : b[r] = a[r] BY GrownFacts
  <2>3. b[s] # <<>> BY GrownFacts
  <2> QED BY <2>1, <2>2, <2>3
<1> QED BY <1>1 DEF TypesRead

LEMMA InstructionsGrow ==
  ASSUME NEW x \in Connections, NEW e, NEW a, NEW b, NEW s, NEW f, Grown(a, b, s, f),
         InstructionsRead(x, e, a), NEW y, y.peer = x.peer,
         s = x.peer["encoder"] => f.k = "capacity" /\ f.n <= Capacity(scope.local[e]),
         s = x.peer["decoder"] => f.k = "cancel"
  PROVE  InstructionsRead(y, e, b)
<1> SUFFICES ASSUME NEW r \in StreamIds, NEW i \in 2 .. Len(b[r])
             PROVE  /\ r = x.peer["encoder"] =>
                          b[r][i].k = "capacity" /\ b[r][i].n <= Capacity(scope.local[e])
                    /\ r = x.peer["decoder"] => b[r][i].k = "cancel"
  BY DEF InstructionsRead
<1>1. CASE r # s
  <2>1. b[r] = a[r] BY <1>1, GrownFacts
  <2> QED BY <2>1 DEF InstructionsRead
<1>2. CASE r = s
  <2>1. a[s] \in Seq(Items) /\ f \in Items /\ b[s] = Append(a[s], f) BY GrownFacts DEF Grown
  <2> DEFINE q == a[s]
  <2>2. q \in Seq(Items) /\ b[s] = Append(q, f) BY <2>1
  <2>3. r \in StreamIds /\ q = a[r] BY <1>2
  <2> HIDE DEF q
  <2>4. /\ Len(q) \in Nat /\ Len(b[s]) = Len(q) + 1 /\ b[s][Len(q) + 1] = f
        /\ \A j \in 1 .. Len(q) : b[s][j] = q[j]
    BY <2>1, <2>2, AppendProperties, LenProperties
  <2>5. CASE i <= Len(q)
    <3>1. i \in 2 .. Len(q) /\ b[s][i] = q[i] BY <2>4, <2>5, <1>2
    <3> QED BY <3>1, <2>3, <1>2 DEF InstructionsRead
  <2>6. CASE i = Len(q) + 1
    BY <2>4, <2>6, <1>2
  <2>7. i \in 2 .. Len(q) + 1 BY <2>4, <1>2
  <2> QED BY <2>4, <2>5, <2>6, <2>7
<1> QED BY <1>1, <1>2

\* The next item of the control stream.
LEMMA ControlFrameSound ==
  ASSUME scope \in Scopes, NEW e \in Ends, NEW x \in Connections, x.error = "none",
         NEW a, NEW b, NEW s, NEW f, Grown(a, b, s, f),
         NEW ended, NEW cut, ReadSound(x, e, a, ended, cut), x.peer["control"] = s
  PROVE  LET y == ControlFrame(x, e, f)
         IN  ControlDone(x, y, f) /\ ReadSound(y, e, b, ended, cut)
<1> DEFINE y == ControlFrame(x, e, f)
           q == Tail(a[s])
<1>1. Linked(x, a) /\ PendingSound(x) /\ AllRead(x, e, a, ended) BY DEF ReadSound
<1>2. "control" \in Critical /\ s \in StreamIds /\ f \in Items /\ s # None
  BY DEF Critical, Grown, None, StreamIds
<1>3. a[s] # <<>> /\ TypeOf(a[s]) = "control" BY <1>1, <1>2, LinkedFacts
<1>4. q \in Seq(Items) /\ Tail(b[s]) = Append(q, f) /\ TypeOf(b[s]) = "control"
  BY <1>3, <1>2, GrownFacts
<1>5. f.k \in FrameKinds
  <2>1. b[s] \in Scripts BY <1>2 DEF Grown
  <2> DEFINE p == a[s]
  <2>2. p \in Seq(Items) /\ p # <<>> /\ b[s] = Append(p, f) BY <1>3, <1>2, GrownFacts
  <2> HIDE DEF p
  <2>3. Len(p) \in Nat \ {0} BY <2>2, EmptySeq
  <2>4. Len(b[s]) = Len(p) + 1 /\ b[s][Len(p) + 1] = f BY <2>2, <1>2, AppendProperties
  <2>5. b[s][1].k = "control"
    <3>1. b[s] # <<>> BY <1>2, GrownFacts
    <3> QED BY <3>1, <1>4 DEF TypeOf
  <2>6. \A i \in 2 .. Len(b[s]) : b[s][i].k \in FrameKinds BY <2>1, <2>5 DEF Scripts
  <2>7. Len(p) + 1 \in 2 .. Len(b[s]) BY <2>3, <2>4
  <2> QED BY <2>4, <2>6, <2>7
<1>6. ControlRead(x, a) = q /\ ControlRead(x, b) = Append(q, f)
  <2>1. ControlRead(x, a) = q BY <1>2 DEF ControlRead
  <2>2. ControlRead(x, b) = Append(ControlRead(x, a), f) BY <1>1, LinkedFacts
  <2> QED BY <2>1, <2>2
<1>7. FramesRead(x, e, q) BY <1>1, <1>6 DEF AllRead
<1>8. /\ ControlDone(x, y, f)
      /\ y.error = "none" => FramesRead(y, e, Append(q, f))
      /\ y.error # "none" => /\ y.error \in FrameFaults(e, Append(q, f), Len(Append(q, f)))
                             /\ y.events = EventsOf(q)
  BY <1>2, <1>4, <1>5, <1>7, FramesReadStep
<1> HIDE DEF y
<1>9. y \in Connections /\ KeptStreams(x, y) BY <1>8 DEF ControlDone
<1>10. y.peer = x.peer /\ y.pending = x.pending /\ y.ignored = x.ignored BY <1>9 DEF KeptStreams
<1>11. PendingSound(y) BY <1>1, <1>10 DEF PendingSound, Unresolved
<1>12. CASE y.error = "none"
  <2>1. TypesRead(y, b) BY <1>1, <1>3, <1>10, KnownTypes DEF AllRead
  <2>2. s # x.peer["encoder"] /\ s # x.peer["decoder"]
    <3>1. {"encoder", "decoder"} \subseteq Critical BY DEF Critical
    <3>2. \A t \in Critical : x.peer[t] = s => t = "control" BY <1>1, <1>2, LinkedFacts
    <3> QED BY <3>1, <3>2
  <2>3. InstructionsRead(y, e, b) BY <1>1, <1>10, <2>2, InstructionsGrow DEF AllRead
  <2>4. ControlRead(y, b) = Append(q, f) BY <1>6, <1>10 DEF ControlRead
  <2>5. AllRead(y, e, b, ended)
    BY <2>1, <2>3, <2>4, <1>1, <1>8, <1>10, <1>12 DEF AllRead
  <2>6. Linked(y, b) BY <1>1, <1>10, LinkedFacts DEF Linked
  <2>7. ReadSound(y, e, b, ended, cut) BY <2>5, <2>6, <1>9, <1>11, <1>12 DEF ReadSound
  <2> QED BY <1>8, <2>7 DEF y
<1>13. CASE y.error # "none"
  <2>1. y.events = x.events BY <1>7, <1>8, <1>13 DEF FramesRead
  <2>2. Len(Append(q, f)) \in DOMAIN Append(q, f)
    BY <1>2, <1>4, AppendProperties, LenProperties
  <2>3. FrameFault(y.error, e, b) BY <1>2, <1>4, <1>8, <1>13, <2>2 DEF FrameFault
  <2>4. y.error \in FaultsIn(e, b, ended, cut) BY <2>3, FaultsInAre
  <2>5. ReadSound(y, e, b, ended, cut) BY <2>1, <2>4, <1>9, <1>10, <1>11, <1>13, FailSound
  <2> QED BY <1>8, <2>5 DEF y
<1> QED BY <1>12, <1>13

\* The next instruction of a QPACK stream, accepted or refused.
LEMMA InstructionSound ==
  ASSUME scope \in Scopes, NEW e \in Ends, NEW x \in Connections, x.error = "none",
         NEW a, NEW b, NEW s, NEW f, Grown(a, b, s, f),
         NEW ended, NEW cut, ReadSound(x, e, a, ended, cut),
         NEW t \in {"encoder", "decoder"}, x.peer[t] = s,
         NEW y, IF t = "encoder" THEN y = EncoderInstruction(x, e, f)
                ELSE y = DecoderInstruction(x, e, f)
  PROVE  ReadSound(y, e, b, ended, cut) /\ (y = x \/ \E c \in ErrorCodes : y = Fail(x, c))
<1> DEFINE q == Tail(a[s])
<1>1. Linked(x, a) /\ PendingSound(x) /\ AllRead(x, e, a, ended) BY DEF ReadSound
<1>2. t \in Critical /\ "control" \in Critical /\ s \in StreamIds /\ f \in Items /\ s # None
  BY DEF Critical, Grown, None, StreamIds
<1>3. a[s] # <<>> /\ TypeOf(a[s]) = t BY <1>1, <1>2, LinkedFacts
<1>4. q \in Seq(Items) /\ Tail(b[s]) = Append(q, f) /\ TypeOf(b[s]) = t
  BY <1>3, <1>2, GrownFacts
<1>5. \A u \in Critical : x.peer[u] = s => u = t BY <1>1, <1>2, LinkedFacts
<1>6. PICK i \in DOMAIN Tail(b[s]) : Tail(b[s])[i] = f
  <2> HIDE DEF q
  <2>1. Len(q) + 1 \in DOMAIN Append(q, f) /\ Append(q, f)[Len(q) + 1] = f
    BY <1>2, <1>4, AppendProperties, LenProperties
  <2> QED BY <2>1, <1>4
<1>7. CASE y = x /\ (t = "encoder" => f.k = "capacity" /\ f.n <= Capacity(scope.local[e]))
                 /\ (t = "decoder" => f.k = "cancel")
  <2>1. TypesRead(y, b) BY <1>1, <1>3, <1>7, KnownTypes DEF AllRead
  <2>2. /\ s = x.peer["encoder"] => f.k = "capacity" /\ f.n <= Capacity(scope.local[e])
        /\ s = x.peer["decoder"] => f.k = "cancel"
    <3>1. {"encoder", "decoder"} \subseteq Critical BY DEF Critical
    <3> QED BY <3>1, <1>5, <1>7
  <2>3. InstructionsRead(y, e, b) BY <2>2, <1>1, <1>7, InstructionsGrow DEF AllRead
  <2>4. ControlRead(y, b) = ControlRead(x, a)
    <3>1. x.peer["control"] # s BY <1>2, <1>5
    <3> QED BY <3>1, <1>1, <1>7, LinkedFacts
  <2>5. AllRead(y, e, b, ended) BY <2>1, <2>3, <2>4, <1>1, <1>7 DEF AllRead
  <2>6. Linked(y, b) BY <1>1, <1>7, LinkedFacts
  <2>7. ReadSound(y, e, b, ended, cut) BY <2>5, <2>6, <1>1, <1>7 DEF ReadSound
  <2> QED BY <2>7, <1>7
<1>8. ASSUME NEW c \in {"QPACK_ENCODER_STREAM_ERROR", "QPACK_DECODER_STREAM_ERROR"}, y = Fail(x, c),
             StreamFault(c, e, b, ended, cut)
      PROVE  ReadSound(y, e, b, ended, cut) /\ \E d \in ErrorCodes : y = Fail(x, d)
  <2>1. c \in ErrorCodes \ {"none"} BY ErrorCodesAre
  <2>2. c \in FaultsIn(e, b, ended, cut) BY <2>1, <1>8, FaultsInAre
  <2>3. y \in Connections /\ y.error = c /\ KeptStreams(x, y) /\ KeptControl(x, y)
    BY <1>8, <2>1, FailFacts
  <2>4. y.peer = x.peer /\ y.events = x.events /\ PendingSound(y)
    BY <2>3, <1>1 DEF KeptStreams, KeptControl, PendingSound, Unresolved
  <2>5. ReadSound(y, e, b, ended, cut) BY <2>1, <2>2, <2>3, <2>4, FailSound
  <2> QED BY <1>8, <2>1, <2>5
<1>9. CASE t = "encoder" /\ ~(f.k = "capacity" /\ f.n <= Capacity(scope.local[e]))
  <2>1. y = Fail(x, "QPACK_ENCODER_STREAM_ERROR") BY <1>9, Zenon DEF EncoderInstruction
  <2>2. f.k # "capacity" \/ f.n > Capacity(scope.local[e])
    <3>1. f.n \in Nat BY <1>2 DEF Items
    <3>2. Capacity(scope.local[e]) \in Nat BY ScopeFacts, CapacityType
    <3> QED BY <3>1, <3>2, <1>9
  <2>3. StreamFault("QPACK_ENCODER_STREAM_ERROR", e, b, ended, cut)
    <3>1. Tail(b[s])[i].k # "capacity" \/ Tail(b[s])[i].n > Capacity(scope.local[e])
      BY <1>6, <2>2
    <3> QED BY <1>2, <1>4, <1>6, <1>9, <3>1, Zenon DEF StreamFault
  <2> QED BY <2>1, <2>3, <1>8
<1>10. CASE t = "decoder" /\ f.k # "cancel"
  <2>1. y = Fail(x, "QPACK_DECODER_STREAM_ERROR") BY <1>10, Zenon DEF DecoderInstruction
  <2>3. StreamFault("QPACK_DECODER_STREAM_ERROR", e, b, ended, cut)
    <3>1. Tail(b[s])[i].k # "cancel" BY <1>6, <1>10
    <3> QED BY <1>2, <1>4, <1>6, <1>10, <3>1, Zenon DEF StreamFault
  <2> QED BY <2>1, <2>3, <1>8
<1>11. CASE t = "encoder" /\ f.k = "capacity" /\ f.n <= Capacity(scope.local[e])
  BY <1>11, <1>7 DEF EncoderInstruction
<1>12. CASE t = "decoder" /\ f.k = "cancel"
  BY <1>12, <1>7 DEF DecoderInstruction
<1> QED BY <1>9, <1>10, <1>11, <1>12

\* What an item does to a connection besides.
Passes(x, y, f) ==
    /\ Kept(x, y) /\ HearsSettings(x, y, f) /\ WritesCapacity(x, y, f)
    /\ y.goaway = x.goaway \/ (f.k = "goaway" /\ y.goaway = f.n)

LEMMA PassesQuietly ==
  ASSUME NEW x, NEW y, Kept(x, y), KeptControl(x, y), KeptOut(x, y), NEW f
  PROVE  Passes(x, y, f)
BY DEF Passes, KeptControl, HearsSettings, WritesCapacity

LEMMA ControlPasses ==
  ASSUME NEW x, NEW y, NEW f, ControlDone(x, y, f)
  PROVE  Passes(x, y, f)
<1>1. CASE y.error = "none" BY <1>1 DEF ControlDone, Passes, Remembers
<1>2. CASE y.error # "none" BY <1>2 DEF ControlDone, Passes, Forgets
<1> QED BY <1>1, <1>2

\* The first item of a stream: its type.
LEMMA NewStreamSound ==
  ASSUME NEW e \in Ends, NEW x \in Connections, x.error = "none",
         NEW a, NEW b, NEW s, NEW f, Grown(a, b, s, f),
         NEW ended, NEW cut, s \notin ended, ReadSound(x, e, a, ended, cut),
         s \notin x.ignored, \A t \in Critical : x.peer[t] # s
  PROVE  LET y == NewStream(Resolved(x, s), e, s, f.k)
         IN  ReadSound(y, e, b, ended, cut) /\ Passes(x, y, f)
<1> DEFINE z == Resolved(x, s)
           y == NewStream(z, e, s, f.k)
           Goal == ReadSound(y, e, b, ended, cut) /\ Passes(x, y, f)
<1> SUFFICES Goal OBVIOUS
<1>1. Linked(x, a) /\ PendingSound(x) /\ AllRead(x, e, a, ended) BY DEF ReadSound
<1>2. "control" \in Critical /\ s \in StreamIds /\ f \in Items /\ s # None
  BY DEF Critical, Grown, None, StreamIds
<1>3. a[s] = <<>>
  <2>1. TypeOf(a[s]) \in Critical => x.peer[TypeOf(a[s])] = s
    BY <1>1, <1>2 DEF AllRead, TypesRead
  <2>2. s \in x.ignored <=> a[s] # <<>> /\ TypeOf(a[s]) \notin Critical
    BY <1>1, <1>2 DEF AllRead, TypesRead
  <2> QED BY <2>1, <2>2
<1>4. TypeOf(b[s]) = f.k /\ Len(b[s]) = 1 /\ Tail(b[s]) = <<>> /\ b[s] # <<>>
  BY <1>2, <1>3, GrownFacts
<1>5. \A r \in StreamIds \ {s} : b[r] = a[r] BY GrownFacts
<1>6. /\ z \in Connections /\ z.error = "none" /\ z.peer = x.peer /\ z.ignored = x.ignored
      /\ z.pending = x.pending \ {s} /\ Kept(x, z) /\ KeptControl(x, z) /\ KeptOut(x, z)
  BY DEF Resolved, Connections, Kept, KeptControl, KeptOut
<1>7. PendingSound(z) BY <1>1, <1>6 DEF PendingSound, Unresolved
<1>8. \A t \in Critical : x.peer[t] # None =>
         x.peer[t] \in StreamIds /\ TypeOf(a[x.peer[t]]) = t /\ x.peer[t] # s
  BY <1>1, LinkedFacts
<1> HIDE DEF z
<1>9. ASSUME NEW c \in ErrorCodes \ {"none"}, y = Fail(z, c), StreamFault(c, e, b, ended, cut)
      PROVE  Goal
  <2>1. c \in FaultsIn(e, b, ended, cut) BY <1>9, FaultsInAre
  <2>2. /\ y \in Connections /\ y.error = c /\ Kept(z, y) /\ KeptStreams(z, y)
        /\ KeptControl(z, y) /\ KeptOut(z, y)
    BY <1>6, <1>9, FailFacts
  <2> HIDE DEF y
  <2>3. PendingSound(y) BY <2>2, <1>7 DEF PendingSound, Unresolved, KeptStreams
  <2>4. y.peer = x.peer /\ y.events = x.events
    BY <2>2, <1>6 DEF KeptStreams, KeptControl
  <2>5. ReadSound(y, e, b, ended, cut) BY <2>1, <2>2, <2>3, <2>4, FailSound
  <2>6. Kept(x, y) /\ KeptControl(x, y) /\ KeptOut(x, y)
    BY <2>2, <1>6 DEF Kept, KeptControl, KeptOut
  <2> QED BY <2>5, <2>6, PassesQuietly
<1>10. ASSUME y \in Connections, y.error = "none", Linked(y, b), PendingSound(y), TypesRead(y, b),
              \A t \in Critical : y.peer[t] \in {x.peer[t], s},
              Kept(z, y), KeptControl(z, y), KeptOut(z, y)
       PROVE  Goal
  <2> HIDE DEF y
  <2>1. Kept(x, y) /\ KeptControl(x, y) /\ KeptOut(x, y)
    BY <1>10, <1>6 DEF Kept, KeptControl, KeptOut
  <2>2. InstructionsRead(y, e, b)
    <3> SUFFICES ASSUME NEW r \in StreamIds, NEW i \in 2 .. Len(b[r])
                 PROVE  /\ r = y.peer["encoder"] =>
                              b[r][i].k = "capacity" /\ b[r][i].n <= Capacity(scope.local[e])
                        /\ r = y.peer["decoder"] => b[r][i].k = "cancel"
      BY DEF InstructionsRead
    <3>1. r # s
      <4>1. r = s => i \in 2 .. 1 BY <1>4, Zenon
      <4>2. ~(i \in 2 .. 1) OBVIOUS
      <4> QED BY <4>1, <4>2
    <3>2. b[r] = a[r] BY <3>1, <1>5
    <3>3. /\ r = y.peer["encoder"] => r = x.peer["encoder"]
          /\ r = y.peer["decoder"] => r = x.peer["decoder"]
      BY <1>10, <3>1 DEF Critical
    <3> QED BY <3>2, <3>3, <1>1 DEF AllRead, InstructionsRead
  <2>3. ControlRead(y, b) = ControlRead(x, a)
    <3>1. y.peer["control"] \in {x.peer["control"], s} BY <1>2, <1>10
    <3>2. CASE y.peer["control"] = s
      <4>1. TypeOf(b[s]) = "control" BY <3>2, <1>2, <1>10 DEF Linked
      <4>2. x.peer["control"] = None
        <5>1. SUFFICES ASSUME x.peer["control"] # None PROVE FALSE OBVIOUS
        <5> DEFINE r == x.peer["control"]
        <5>2. r \in StreamIds /\ TypeOf(a[r]) = "control" /\ r # s BY <5>1, <1>8, <1>2
        <5>3. TypeOf(b[r]) = "control" BY <5>2, <1>5
        <5>4. y.peer["control"] = r
          BY <5>2, <5>3, <1>2, <1>10 DEF TypesRead
        <5> QED BY <5>4, <5>2, <3>2
      <4> QED BY <4>2, <3>2, <1>4, <1>2 DEF ControlRead
    <3>3. CASE y.peer["control"] # s
      <4>1. y.peer["control"] = x.peer["control"] BY <3>1, <3>3
      <4>2. x.peer["control"] # None => b[x.peer["control"]] = a[x.peer["control"]]
        BY <1>8, <1>2, <1>5
      <4> QED BY <4>1, <4>2 DEF ControlRead
    <3> QED BY <3>2, <3>3
  <2>4. FramesRead(y, e, ControlRead(y, b))
    BY <2>1, <2>3, <1>1 DEF AllRead, FramesRead, KeptControl
  <2>5. \A t \in Critical : y.peer[t] \notin ended BY <1>1, <1>10 DEF AllRead
  <2>6. ReadSound(y, e, b, ended, cut) BY <2>2, <2>4, <2>5, <1>10 DEF ReadSound, AllRead
  <2> QED BY <2>1, <2>6, PassesQuietly
<1>11. CASE f.k \in Critical /\ x.peer[f.k] # None
  <2>0. f.k # "push" BY <1>11 DEF Critical
  <2>1. y = Fail(z, "H3_STREAM_CREATION_ERROR") BY <1>6, <1>11, <2>0, Zenon DEF NewStream
  <2> DEFINE r == x.peer[f.k]
  <2>2. r \in StreamIds /\ r # s /\ TypeOf(a[r]) = f.k BY <1>8, <1>11
  <2>3. TypeOf(b[r]) = f.k BY <2>2, <1>5
  <2>4. StreamFault("H3_STREAM_CREATION_ERROR", e, b, ended, cut)
    <3>1. /\ r \in StreamIds /\ s \in StreamIds /\ r # s
          /\ TypeOf(b[r]) = TypeOf(b[s]) /\ TypeOf(b[s]) \in Critical
      BY <2>2, <2>3, <1>2, <1>4, <1>11
    <3> HIDE DEF r
    <3> QED BY <3>1, Zenon DEF StreamFault
  <2>5. "H3_STREAM_CREATION_ERROR" \in ErrorCodes \ {"none"} BY ErrorCodesAre
  <2> QED BY <2>1, <2>4, <2>5, <1>9
<1>12. CASE f.k = "push"
  <2> DEFINE c == IF e = "server" THEN "H3_STREAM_CREATION_ERROR" ELSE "H3_ID_ERROR"
  <2>0. f.k \notin Critical BY <1>12 DEF Critical
  <2>1. y = Fail(z, c) BY <2>0, <1>12, Zenon DEF NewStream
  <2>2. e = "server" \/ e = "client" BY DEF Ends
  <2>3. StreamFault(c, e, b, ended, cut) BY <2>2, <1>2, <1>4, <1>12 DEF StreamFault
  <2>4. c \in ErrorCodes \ {"none"} BY ErrorCodesAre
  <2> HIDE DEF c
  <2> QED BY <2>1, <2>3, <2>4, <1>9
<1>13. CASE f.k \in Critical /\ x.peer[f.k] = None
  <2>0. f.k # "push" BY <1>13 DEF Critical
  <2>1. y = [z EXCEPT !.peer[f.k] = s] BY <1>6, <1>13, <2>0, Zenon DEF NewStream
  <2> DEFINE k == f.k
  <2>2. k \in Critical /\ x.peer[k] = None /\ y = [z EXCEPT !.peer[k] = s] BY <2>1, <1>13
  <2>3. s \in Streams BY <1>2 DEF Streams
  <2> HIDE DEF y, k
  <2>4. /\ y \in Connections /\ y.error = "none" /\ y.pending = z.pending /\ y.ignored = z.ignored
        /\ y.peer = [x.peer EXCEPT ![k] = s]
        /\ Kept(z, y) /\ KeptControl(z, y) /\ KeptOut(z, y)
    BY <2>2, <2>3, <1>6 DEF Connections, Kept, KeptControl, KeptOut
  <2>5. \A t \in Critical : y.peer[t] = IF t = k THEN s ELSE x.peer[t]
    BY <2>2, <2>4 DEF Connections
  <2>6. TypeOf(b[s]) = k BY <1>4 DEF k
  <2>7. Linked(y, b) BY <2>5, <2>6, <1>5, <1>8 DEF Linked
  <2>8. PendingSound(y)
    BY <2>4, <2>5, <1>6, <1>7 DEF PendingSound, Unresolved
  <2>9. TypesRead(y, b)
    <3> SUFFICES ASSUME NEW r \in StreamIds
                 PROVE  /\ TypeOf(b[r]) \in Critical => y.peer[TypeOf(b[r])] = r
                        /\ TypeOf(b[r]) # "push"
                        /\ r \in y.ignored <=> b[r] # <<>> /\ TypeOf(b[r]) \notin Critical
      BY DEF TypesRead
    <3>1. CASE r = s
      <4>1. "push" \notin Critical BY DEF Critical
      <4> QED BY <3>1, <4>1, <2>2, <2>4, <2>5, <2>6, <1>4, <1>6
    <3>2. CASE r # s
      <4>1. b[r] = a[r] BY <3>2, <1>5
      <4>2. /\ TypeOf(a[r]) \in Critical => x.peer[TypeOf(a[r])] = r
            /\ TypeOf(a[r]) # "push"
            /\ r \in x.ignored <=> a[r] # <<>> /\ TypeOf(a[r]) \notin Critical
        BY <1>1 DEF AllRead, TypesRead
      <4>3. TypeOf(a[r]) # k BY <4>2, <2>2, <1>2 DEF None, StreamIds
      <4> QED BY <4>1, <4>2, <4>3, <2>4, <2>5, <1>6
    <3> QED BY <3>1, <3>2
  <2>10. \A t \in Critical : y.peer[t] \in {x.peer[t], s} BY <2>5
  <2> QED BY <2>4, <2>7, <2>8, <2>9, <2>10, <1>10
<1>14. CASE f.k \notin Critical /\ f.k # "push"
  <2>1. y = [z EXCEPT !.ignored = @ \cup {s}] BY <1>14, Zenon DEF NewStream
  <2> HIDE DEF y
  <2>4. /\ y \in Connections /\ y.error = "none" /\ y.pending = z.pending
        /\ y.ignored = x.ignored \cup {s} /\ y.peer = x.peer
        /\ Kept(z, y) /\ KeptControl(z, y) /\ KeptOut(z, y)
    BY <2>1, <1>2, <1>6 DEF Connections, Kept, KeptControl, KeptOut
  <2>7. Linked(y, b) BY <2>4, <1>5, <1>8 DEF Linked
  <2>8. PendingSound(y)
    BY <2>4, <1>6, <1>7 DEF PendingSound, Unresolved
  <2>9. TypesRead(y, b)
    <3>1. /\ \A r \in StreamIds \ {s} : b[r] = a[r]
          /\ TypeOf(b[s]) = f.k /\ b[s] # <<>>
      BY <1>4, <1>5
    <3> QED BY <3>1, <2>4, <1>1, <1>14 DEF AllRead, TypesRead
  <2>10. \A t \in Critical : y.peer[t] \in {x.peer[t], s} BY <2>4
  <2> QED BY <2>4, <2>7, <2>8, <2>9, <2>10, <1>10
<1> HIDE DEF Goal
<1> QED BY <1>11, <1>12, <1>13, <1>14

\* Whatever comes next on a stream is read for what it is.
LEMMA ReceiveSound ==
  ASSUME scope \in Scopes, NEW e \in Ends, NEW x,
         NEW a, NEW b, NEW s, NEW f, Grown(a, b, s, f),
         NEW ended, NEW cut, s \notin ended, ReadSound(x, e, a, ended, cut)
  PROVE  LET y == Receive(x, e, s, f)
         IN  ReadSound(y, e, b, ended, cut) /\ Passes(x, y, f)
<1> DEFINE y == Receive(x, e, s, f)
           Goal == ReadSound(y, e, b, ended, cut) /\ Passes(x, y, f)
<1> SUFFICES Goal OBVIOUS
<1>1. x \in Connections /\ Linked(x, a) /\ PendingSound(x) BY DEF ReadSound
<1>2. s \in StreamIds /\ f \in Items /\ s # None BY DEF Grown, None, StreamIds
<1>3. ASSUME y = x PROVE Passes(x, y, f)
  BY <1>3, PassesQuietly DEF Kept, KeptControl, KeptOut
<1>4. CASE x.error # "none"
  <2>1. y = x BY <1>4 DEF Receive
  <2>2. ~x.misused => x.error \in FaultsIn(e, b, ended, cut)
    BY <1>4, FaultsGrow DEF ReadSound, FaultFound
  <2>3. ReadSound(x, e, b, ended, cut) BY <2>2, <1>1, <1>4, FailSound
  <2> QED BY <2>1, <2>3, <1>3
<1>5. CASE x.error = "none" /\ s \in x.ignored
  <2>1. y = x BY <1>5 DEF Receive
  <2>2. AllRead(x, e, a, ended) BY <1>5 DEF ReadSound
  <2>3. a[s] # <<>> /\ TypeOf(a[s]) \notin Critical
    BY <2>2, <1>2, <1>5 DEF AllRead, TypesRead
  <2>4. TypesRead(x, b) BY <2>2, <2>3, <1>1, KnownTypes DEF AllRead
  <2>5. \A t \in Critical : x.peer[t] # s
    <3>1. \A t \in Critical : x.peer[t] # None => TypeOf(a[x.peer[t]]) = t
      BY <1>1, LinkedFacts
    <3> QED BY <3>1, <2>3, <1>2
  <2>6. s # x.peer["encoder"] /\ s # x.peer["decoder"] /\ s # x.peer["control"]
    BY <2>5 DEF Critical
  <2>7. InstructionsRead(x, e, b) BY <2>2, <2>6, <1>1, InstructionsGrow DEF AllRead
  <2>8. ControlRead(x, b) = ControlRead(x, a) /\ Linked(x, b) BY <2>6, <1>1, LinkedFacts
  <2>9. ReadSound(x, e, b, ended, cut)
    BY <2>2, <2>4, <2>7, <2>8, <1>1, <1>5 DEF ReadSound, AllRead
  <2> QED BY <2>1, <2>9, <1>3
<1>6. ASSUME x.error = "none", s \notin x.ignored PROVE Goal
  <2> DEFINE c == x.peer["control"]
             n == x.peer["encoder"]
             d == x.peer["decoder"]
  <2>1. /\ c = s => n # s /\ d # s
        /\ n = s => d # s
    <3>1. \A t, u \in Critical : x.peer[t] = x.peer[u] /\ x.peer[t] # None => t = u
      BY <1>1, LinkedFacts
    <3>2. {"control", "encoder", "decoder"} = Critical BY DEF Critical
    <3> QED BY <3>1, <3>2, <1>2
  <2>2. /\ c = s => y = ControlFrame(x, e, f)
        /\ n = s /\ c # s => y = EncoderInstruction(x, e, f)
        /\ d = s /\ c # s /\ n # s => y = DecoderInstruction(x, e, f)
        /\ c # s /\ n # s /\ d # s => y = NewStream(Resolved(x, s), e, s, f.k)
    BY <2>1, <1>6, Zenon DEF Receive
  <2>3. CASE c = s
    <3>1. ControlDone(x, y, f) /\ ReadSound(y, e, b, ended, cut)
      BY <2>2, <2>3, <1>1, <1>6, ControlFrameSound
    <3> QED BY <3>1, ControlPasses
  <2>4. CASE c # s /\ n = s
    <3>1. ReadSound(y, e, b, ended, cut) /\ (y = x \/ \E k \in ErrorCodes : y = Fail(x, k))
      <4>1. IF "encoder" = "encoder" THEN y = EncoderInstruction(x, e, f)
            ELSE y = DecoderInstruction(x, e, f)
        BY <2>2, <2>4
      <4> HIDE DEF y
      <4> QED BY <4>1, <2>4, <1>1, <1>6, InstructionSound
    <3> HIDE DEF y
    <3>2. y # x => Passes(x, y, f) BY <3>1, <1>1, FailFacts, PassesQuietly
    <3> QED BY <3>1, <3>2, <1>3 DEF y
  <2>5. CASE c # s /\ n # s /\ d = s
    <3>1. ReadSound(y, e, b, ended, cut) /\ (y = x \/ \E k \in ErrorCodes : y = Fail(x, k))
      <4>1. IF "decoder" = "encoder" THEN y = EncoderInstruction(x, e, f)
            ELSE y = DecoderInstruction(x, e, f)
        BY <2>2, <2>5
      <4> HIDE DEF y
      <4> QED BY <4>1, <2>5, <1>1, <1>6, InstructionSound
    <3> HIDE DEF y
    <3>2. y # x => Passes(x, y, f) BY <3>1, <1>1, FailFacts, PassesQuietly
    <3> QED BY <3>1, <3>2, <1>3 DEF y
  <2>6. CASE c # s /\ n # s /\ d # s
    <3>1. \A t \in Critical : x.peer[t] # s BY <2>6 DEF Critical
    <3>2. y = NewStream(Resolved(x, s), e, s, f.k) BY <2>2, <2>6
    <3> QED BY <3>1, <3>2, <1>1, <1>6, NewStreamSound
  <2> QED BY <2>3, <2>4, <2>5, <2>6
<1> HIDE DEF Goal
<1> QED BY <1>4, <1>5, <1>6

-----------------------------------------------------------------------------
(***************************************************************************)
(* A chunk: several items, and perhaps the end of the stream.              *)
(***************************************************************************)
LEMMA PeerCapacity ==
  ASSUME scope \in Scopes, NEW e \in Ends
  PROVE  /\ Peer(e) \in Ends /\ Peer(Peer(e)) = e
         /\ PeerSettings(e) \in AnySettings
         /\ Capacity(PeerSettings(e)) = Capacity(scope.local[Peer(e)])
<1>1. Peer(e) \in Ends /\ Peer(Peer(e)) = e BY DEF Peer, Ends
<1>2. Configured(Peer(e), scope.local[Peer(e)]) BY <1>1, ScopeFacts
<1>3. PeerSettings(e) = WireSettings(scope.local[Peer(e)]) BY DEF PeerSettings, WireSettings
<1>4. "QPACK_MAX_TABLE_CAPACITY" \in IdSet \ WtSet BY DEF IdSet, WtSet
<1>5. PeerSettings(e).v["QPACK_MAX_TABLE_CAPACITY"]
        = scope.local[Peer(e)].v["QPACK_MAX_TABLE_CAPACITY"]
  BY <1>1, <1>2, <1>3, <1>4, WireKeeps
<1>6. PeerSettings(e) \in AnySettings BY <1>2, <1>3, WireSettingsAre DEF Configured
<1> QED BY <1>1, <1>5, <1>6 DEF Capacity

\* An item that a peer of this library may have written.
FromPeer(f, e, sent) ==
    /\ f.k = "settings" => FromPayload(f.s) = PeerSettings(e)
    /\ f.k = "goaway" => sent # NoGoaway /\ sent <= f.n

LEMMA EncoderGrows ==
  ASSUME NEW x \in Connections, NEW y \in Connections, NEW c \in Nat,
         y.out = [x.out EXCEPT !["encoder"] = Append(@, SetCapacity(c))]
  PROVE  /\ y.out["control"] = x.out["control"] /\ y.out["decoder"] = x.out["decoder"]
         /\ Len(y.out["encoder"]) = Len(x.out["encoder"]) + 1
         /\ Len(x.out["encoder"]) \in Nat
         /\ \A i \in 1 .. Len(x.out["encoder"]) : y.out["encoder"][i] = x.out["encoder"][i]
         /\ y.out["encoder"][Len(x.out["encoder"]) + 1] = SetCapacity(c)
<1>1. x.out \in [Critical -> Seq(Items)] BY DEF Connections
<1>2. /\ x.out["encoder"] \in Seq(Items)
      /\ y.out["control"] = x.out["control"] /\ y.out["decoder"] = x.out["decoder"]
      /\ y.out["encoder"] = Append(x.out["encoder"], SetCapacity(c))
  BY <1>1 DEF Critical
<1>3. SetCapacity(c) \in Items BY ItemTypes
<1> DEFINE q == x.out["encoder"]
<1>4. q \in Seq(Items) /\ y.out["encoder"] = Append(q, SetCapacity(c)) BY <1>2
<1> HIDE DEF q
<1>5. /\ Len(y.out["encoder"]) = Len(q) + 1 /\ Len(q) \in Nat
      /\ \A i \in 1 .. Len(q) : y.out["encoder"][i] = q[i]
      /\ y.out["encoder"][Len(q) + 1] = SetCapacity(c)
  BY SMTT(30), <1>3, <1>4, AppendProperties, LenProperties
<1> QED BY <1>2, <1>5 DEF q

\* A frame or an instruction more, or a stream more.
Extends(x, y) ==
    \A t \in Critical :
       /\ x.own[t] # None => y.own[t] = x.own[t]
       /\ Len(x.out[t]) <= Len(y.out[t])
       /\ \A i \in 1 .. Len(x.out[t]) : y.out[t][i] = x.out[t][i]

LEMMA ExtendsTrans ==
  ASSUME NEW x \in Connections, NEW y \in Connections, NEW z \in Connections,
         Extends(x, y), Extends(y, z)
  PROVE  Extends(x, z)
<1>1. \A t \in Critical : Len(x.out[t]) \in Nat /\ Len(y.out[t]) \in Nat /\ Len(z.out[t]) \in Nat
  BY LenProperties DEF Connections
<1> QED BY SMTT(30), <1>1 DEF Extends

LEMMA PassesExtends ==
  ASSUME NEW x \in Connections, NEW y \in Connections, NEW f, Passes(x, y, f)
  PROVE  Extends(x, y)
<1>1. y.own = x.own BY DEF Passes, Kept
<1>2. \A t \in Critical : Len(x.out[t]) \in Nat BY LenProperties DEF Connections
<1>3. CASE y.out = x.out BY <1>1, <1>2, <1>3 DEF Extends
<1>4. ASSUME NEW c \in Nat, y.out = [x.out EXCEPT !["encoder"] = Append(@, SetCapacity(c))]
      PROVE  Extends(x, y)
  <2>1. /\ y.out["control"] = x.out["control"] /\ y.out["decoder"] = x.out["decoder"]
        /\ Len(x.out["encoder"]) <= Len(y.out["encoder"])
        /\ \A i \in 1 .. Len(x.out["encoder"]) : y.out["encoder"][i] = x.out["encoder"][i]
    BY <1>4, EncoderGrows
  <2>2. Critical = {"control", "encoder", "decoder"} BY DEF Critical
  <2> QED BY <2>1, <2>2, <1>1, <1>2 DEF Extends
<1> QED BY <1>3, <1>4 DEF Passes, WritesCapacity, KeptOut, OutGrows

\* What is written stays sound, whatever is read.
LEMMA PassesWriteSound ==
  ASSUME NEW e, NEW x \in Connections, NEW y \in Connections, NEW f, Passes(x, y, f),
         WriteSound(x, e)
  PROVE  WriteSound(y, e)
<1>1. y.own = x.own /\ y.sent = x.sent /\ y.accepted = x.accepted BY DEF Passes, Kept
<1>2. OwnSound(y) /\ AcceptedBelow(y, e)
  BY <1>1 DEF WriteSound, OwnSound, AcceptedBelow
<1>3. ASSUME y.out = x.out PROVE WriteSound(y, e)
  BY <1>1, <1>2, <1>3
  DEF WriteSound, ControlWritten, GoawaysFall, QpackWritten
<1>4. ASSUME NEW c \in Nat, x.own["encoder"] # None,
             y.out = [x.out EXCEPT !["encoder"] = Append(@, SetCapacity(c))]
      PROVE  WriteSound(y, e)
  <2> DEFINE q == x.out["encoder"]
             r == y.out["encoder"]
  <2>1. /\ y.out["control"] = x.out["control"] /\ y.out["decoder"] = x.out["decoder"]
        /\ Len(r) = Len(q) + 1 /\ Len(q) \in Nat
        /\ \A i \in 1 .. Len(q) : r[i] = q[i]
        /\ r[Len(q) + 1] = SetCapacity(c)
    BY <1>4, EncoderGrows
  <2>2. ControlWritten(y, e) BY <2>1, <1>1 DEF WriteSound, ControlWritten, GoawaysFall
  <2>3. /\ q # <<>> /\ q[1] = Type("encoder")
        /\ \A i \in 2 .. Len(q) : q[i].k = "capacity"
        /\ IF x.own["decoder"] = None THEN x.out["decoder"] = <<>>
           ELSE x.out["decoder"] # <<>> /\ x.out["decoder"][1] = Type("decoder")
        /\ Len(x.out["decoder"]) <= 1
    BY <1>4 DEF WriteSound, QpackWritten
  <2>4. q \in Seq(Items) BY DEF Connections, Critical
  <2>5. r # <<>>
    <3>1. Len(r) # 0 BY <2>1
    <3> QED BY <3>1
  <2>6. SetCapacity(c).k = "capacity" BY ItemTypes
  <2> HIDE DEF q, r
  <2>7. Len(q) # 0 BY <2>3, <2>4, EmptySeq
  <2>8. r[1] = Type("encoder") BY <2>1, <2>3, <2>7
  <2>9. \A i \in 2 .. Len(r) : r[i].k = "capacity" BY <2>1, <2>3, <2>6
  <2>10. QpackWritten(y)
    BY <2>1, <2>3, <2>5, <2>8, <2>9, <1>1, <1>4 DEF QpackWritten, q, r
  <2> QED BY <2>2, <2>10, <1>2 DEF WriteSound
<1>5. \/ y.out = x.out
      \/ /\ x.own["encoder"] # None
         /\ \E c \in Nat : y.out = [x.out EXCEPT !["encoder"] = Append(@, SetCapacity(c))]
  BY DEF Passes, WritesCapacity, KeptOut, OutGrows
<1> QED BY <1>3, <1>4, <1>5

\* And what two ends of this library know of each other.
LEMMA PassesPairSound ==
  ASSUME scope \in Scopes, NEW e \in Ends, NEW x \in Connections, NEW y \in Connections,
         NEW f \in Items, Passes(x, y, f), NEW sent, FromPeer(f, e, sent), PairSound(x, e, sent)
  PROVE  PairSound(y, e, sent)
<1> DEFINE cap == Capacity(scope.local[Peer(e)])
<1>1. cap \in Nat /\ Capacity(PeerSettings(e)) = cap BY PeerCapacity, CapacityType
<1>2. Heard(y, e, sent)
  <2>1. (y.known = x.known /\ y.settings = x.settings) \/ y.settings = PeerSettings(e)
    BY DEF Passes, HearsSettings, FromPeer
  <2>2. y.goaway = x.goaway \/ (y.goaway = f.n /\ sent # NoGoaway /\ sent <= f.n)
    BY DEF Passes, FromPeer
  <2> QED BY <2>1, <2>2 DEF PairSound, Heard
<1>3. WithinPeersCapacity(y, e)
  <2>1. KeptOut(x, y) \/ OutGrows(x, y, cap)
    BY <1>1 DEF Passes, WritesCapacity, FromPeer
  <2>2. x.deferred <= cap /\ \A i \in 2 .. Len(x.out["encoder"]) : x.out["encoder"][i].n <= cap
    BY DEF PairSound, WithinPeersCapacity
  <2> HIDE DEF cap
  <2>3. ASSUME NEW c \in Nat, c <= cap, y.deferred = x.deferred,
               y.out = [x.out EXCEPT !["encoder"] = Append(@, SetCapacity(c))]
        PROVE  WithinPeersCapacity(y, e)
    <3> DEFINE q == x.out["encoder"]
               r == y.out["encoder"]
    <3>1. /\ Len(r) = Len(q) + 1 /\ Len(q) \in Nat
          /\ \A i \in 1 .. Len(q) : r[i] = q[i]
          /\ r[Len(q) + 1] = SetCapacity(c)
      BY <2>3, EncoderGrows
    <3>2. \A i \in 2 .. Len(q) : q[i].n <= cap BY <2>2
    <3>3. SetCapacity(c).n = c BY ItemTypes
    <3> HIDE DEF q, r
    <3>4. \A i \in 2 .. Len(r) : r[i].n <= cap BY <3>1, <3>2, <3>3, <2>3
    <3> QED BY <3>4, <2>2, <2>3 DEF WithinPeersCapacity, r, cap
  <2>4. CASE y.out = x.out /\ (y.deferred = x.deferred \/ y.deferred <= cap)
    BY <2>2, <2>4 DEF WithinPeersCapacity, cap
  <2> QED BY <2>1, <2>3, <2>4 DEF OutGrows, KeptOut
<1> QED BY <1>2, <1>3 DEF PairSound

LEMMA PrefixIsScript ==
  ASSUME NEW w \in Scripts, NEW n \in Nat, n <= Len(w)
  PROVE  SubSeq(w, 1, n) \in Scripts /\ Len(SubSeq(w, 1, n)) = n
<1>1. w \in Seq(Items) /\ Len(w) \in Nat BY LenProperties DEF Scripts
<1> DEFINE q == SubSeq(w, 1, n)
<1>2. q \in Seq(Items) /\ Len(q) = n /\ \A i \in 1 .. n : q[i] = w[i]
  BY <1>1, SubSeqProperties
<1> HIDE DEF q
<1>3. ASSUME NEW i \in 2 .. Len(q), q[1].k = "control" PROVE q[i].k \in FrameKinds
  <2>1. i \in 2 .. Len(w) /\ q[i] = w[i] /\ q[1] = w[1] BY <1>1, <1>2, <1>3
  <2> QED BY <2>1, <1>3 DEF Scripts
<1>4. q \in Scripts BY <1>2, <1>3 DEF Scripts
<1> QED BY <1>2, <1>4 DEF q

LEMMA SubSeqNext ==
  ASSUME NEW w \in Seq(Items), NEW m \in Nat, NEW j \in Nat, m + j + 1 <= Len(w)
  PROVE  /\ SubSeq(w, m + 1, m + j) \in Seq(Items)
         /\ w[m + j + 1] \in Items
         /\ SubSeq(w, m + 1, m + (j + 1)) = Append(SubSeq(w, m + 1, m + j), w[m + j + 1])
<1>1. Len(w) \in Nat /\ DOMAIN w = 1 .. Len(w) BY LenProperties
<1>2. m + j + 1 \in DOMAIN w BY <1>1
<1>3. w[m + j + 1] \in Items BY <1>2
<1> DEFINE p == SubSeq(w, m + 1, m + j)
           q == SubSeq(w, m + 1, m + (j + 1))
           f == w[m + j + 1]
<1>4. /\ p \in Seq(Items) /\ Len(p) = j
      /\ \A i \in 1 .. j : p[i] = w[m + 1 + i - 1]
  BY <1>1, SubSeqProperties
<1>5. /\ q \in Seq(Items) /\ Len(q) = j + 1
      /\ \A i \in 1 .. j + 1 : q[i] = w[m + 1 + i - 1]
  BY <1>1, SubSeqProperties
<1>6. q[j + 1] = f BY <1>5
<1> HIDE DEF p, q, f
<1>7. /\ Append(p, f) \in Seq(Items) /\ Len(Append(p, f)) = j + 1
      /\ \A i \in 1 .. j : Append(p, f)[i] = p[i]
      /\ Append(p, f)[j + 1] = f
  BY <1>3, <1>4, AppendProperties DEF f
<1>8. \A i \in 1 .. j + 1 : q[i] = Append(p, f)[i]
  <2> TAKE i \in 1 .. j + 1
  <2>1. CASE i = j + 1 BY <2>1, <1>6, <1>7
  <2>2. CASE i # j + 1
    <3>1. i \in 1 .. j BY <2>2
    <3> QED BY <3>1, <1>4, <1>5, <1>7
  <2> QED BY <2>1, <2>2
<1>9. q = Append(p, f) BY <1>5, <1>7, <1>8, SeqEqual
<1> QED BY <1>3, <1>4, <1>9 DEF p, q, f

\* The complete items of a chunk, in turn.
LEMMA ReceiveAllSound ==
  ASSUME scope \in Scopes, NEW e \in Ends, NEW x, NEW a \in [StreamIds -> Scripts],
         NEW s \in StreamIds, NEW w \in Scripts, NEW m \in Nat, NEW n \in Nat, m + n <= Len(w),
         a[s] = SubSeq(w, 1, m),
         NEW ended, NEW cut, s \notin ended, NEW sent,
         ReadSound(x, e, a, ended, cut), WriteSound(x, e),
         scope.scripted = {} =>
            PairSound(x, e, sent) /\ \A i \in 1 .. Len(w) : FromPeer(w[i], e, sent)
  PROVE  LET y == ReceiveAll(x, e, s, SubSeq(w, m + 1, m + n))
         IN  /\ ReadSound(y, e, [a EXCEPT ![s] = SubSeq(w, 1, m + n)], ended, cut)
             /\ WriteSound(y, e) /\ Kept(x, y) /\ Extends(x, y)
             /\ scope.scripted = {} => PairSound(y, e, sent)
<1> DEFINE y(k) == ReceiveAll(x, e, s, SubSeq(w, m + 1, m + k))
           b(k) == [a EXCEPT ![s] = SubSeq(w, 1, m + k)]
           P(k) == /\ ReadSound(y(k), e, b(k), ended, cut)
                   /\ WriteSound(y(k), e) /\ Kept(x, y(k)) /\ Extends(x, y(k))
                   /\ scope.scripted = {} => PairSound(y(k), e, sent)
<1>1. w \in Seq(Items) /\ Len(w) \in Nat BY LenProperties DEF Scripts
<1>2. P(0)
  <2>1. Len(SubSeq(w, m + 1, m + 0)) = 0 BY <1>1, SubSeqProperties
  <2>2. y(0) = x BY <2>1, ReceiveAllNone
  <2>3. b(0) = a OBVIOUS
  <2>4. Extends(x, x)
    <3>1. \A t \in Critical : Len(x.out[t]) \in Nat
      BY LenProperties DEF ReadSound, Connections
    <3> QED BY <3>1 DEF Extends
  <2> HIDE DEF y, b
  <2> QED BY <2>2, <2>3, <2>4 DEF Kept
<1>3. ASSUME NEW j \in Nat, j + 1 <= n, P(j) PROVE P(j + 1)
  <2> DEFINE f == w[m + j + 1]
             q == SubSeq(w, m + 1, m + j)
             u == y(j)
             v == y(j + 1)
             c == b(j)
             d == b(j + 1)
  <2>1. /\ q \in Seq(Items) /\ f \in Items
        /\ SubSeq(w, m + 1, m + (j + 1)) = Append(q, f)
    <3>1. m + j + 1 <= Len(w) BY <1>1, <1>3
    <3> QED BY <3>1, <1>1, SubSeqNext
  <2>2. v = Receive(u, e, s, f)
    <3>1. ReceiveAll(x, e, s, Append(q, f)) = Receive(ReceiveAll(x, e, s, q), e, s, f)
      <4> HIDE DEF q, f
      <4> QED BY <2>1, ReceiveAllNext
    <3>2. SubSeq(w, m + 1, m + (j + 1)) = Append(q, f) BY <2>1
    <3> QED BY <3>1, <3>2, Zenon
  <2>3. SubSeq(w, 1, m + (j + 1)) = Append(SubSeq(w, 1, m + j), f)
    <3>1. \A i \in Nat : i + 1 <= Len(w) => SubSeq(w, 1, i + 1) = Append(SubSeq(w, 1, i), w[i + 1])
      <4> TAKE i \in Nat
      <4>1. ASSUME i + 1 <= Len(w)
            PROVE  SubSeq(w, 0 + 1, 0 + (i + 1)) = Append(SubSeq(w, 0 + 1, 0 + i), w[0 + i + 1])
        BY <4>1, <1>1, SubSeqNext
      <4> QED BY <4>1
    <3>2. m + j \in Nat /\ (m + j) + 1 <= Len(w) BY <1>1, <1>3
    <3>3. SubSeq(w, 1, (m + j) + 1) = Append(SubSeq(w, 1, m + j), w[(m + j) + 1]) BY <3>1, <3>2
    <3>4. m + (j + 1) = (m + j) + 1 OBVIOUS
    <3> QED BY <3>3, <3>4
  <2>4. Grown(c, d, s, f)
    <3>1. SubSeq(w, 1, m + j) \in Scripts /\ SubSeq(w, 1, m + (j + 1)) \in Scripts
      <4>1. m + j \in Nat /\ m + j <= Len(w) /\ m + (j + 1) \in Nat /\ m + (j + 1) <= Len(w)
        BY <1>1, <1>3
      <4> QED BY <4>1, PrefixIsScript
    <3> QED BY <2>1, <2>3, <3>1 DEF Grown
  <2>5. ReadSound(u, e, c, ended, cut) /\ WriteSound(u, e) /\ Kept(x, u) /\ Extends(x, u)
    BY <1>3
  <2>6. scope.scripted = {} => PairSound(u, e, sent) /\ FromPeer(f, e, sent)
    <3>1. m + j + 1 \in 1 .. Len(w) BY <1>1, <1>3
    <3> QED BY <3>1, <1>3
  <2> SUFFICES /\ ReadSound(v, e, d, ended, cut) /\ WriteSound(v, e) /\ Kept(x, v)
               /\ Extends(x, v)
               /\ scope.scripted = {} => PairSound(v, e, sent)
    OBVIOUS
  <2> HIDE DEF u, v, c, d, f
  <2>7. ReadSound(v, e, d, ended, cut) /\ Passes(u, v, f)
    BY <2>2, <2>4, <2>5, ReceiveSound
  <2>8. u \in Connections /\ v \in Connections BY <2>5, <2>7 DEF ReadSound
  <2>9. WriteSound(v, e) BY <2>5, <2>7, <2>8, PassesWriteSound
  <2>10. Kept(x, v) BY <2>5, <2>7 DEF Passes, Kept
  <2>11. scope.scripted = {} => PairSound(v, e, sent)
    BY <2>1, <2>6, <2>7, <2>8, PassesPairSound
  <2>12. Extends(x, v)
    <3>1. x \in Connections BY DEF ReadSound
    <3> QED BY <3>1, <2>5, <2>7, <2>8, PassesExtends, ExtendsTrans
  <2> QED BY <2>7, <2>9, <2>10, <2>11, <2>12
<1> HIDE DEF P
<1>4. P(n)
  <2> SUFFICES ASSUME ~P(n) PROVE FALSE OBVIOUS
  <2> DEFINE T == {k \in Nat : k <= n /\ ~P(k)}
  <2>1. n \in T OBVIOUS
  <2>2. PICK k \in T : \A i \in T : k <= i
    <3>1. T \in SUBSET Nat /\ T # {} BY <2>1
    <3> HIDE DEF T
    <3> QED BY <3>1, LeastNat
  <2>3. k \in Nat /\ k <= n /\ ~P(k) BY <2>2
  <2>4. k # 0 BY <2>3, <1>2
  <2>5. k - 1 \in Nat /\ (k - 1) + 1 = k /\ k - 1 <= n /\ ~(k <= k - 1) BY <2>3, <2>4
  <2>6. P(k - 1) BY <2>2, <2>5
  <2> HIDE DEF T
  <2>7. P((k - 1) + 1) BY <2>3, <2>5, <2>6, <1>3
  <2> QED BY <2>3, <2>5, <2>7
<1> QED BY <1>4 DEF P

\* What does not depend on the streams that have ended.
LEMMA FailedHere ==
  ASSUME NEW x \in Connections, NEW e, NEW a, NEW ended, NEW cut, ReadSound(x, e, a, ended, cut),
         x.error = "none", NEW y \in Connections, y.error # "none", y.peer = x.peer,
         y.events = x.events, PendingSound(y), NEW ended2, NEW cut2,
         ~y.misused => y.error \in FaultsIn(e, a, ended2, cut2)
  PROVE  ReadSound(y, e, a, ended2, cut2)
<1>1. Linked(x, a) /\ x.events = EventsOf(ControlRead(x, a))
  BY DEF ReadSound, AllRead, FramesRead
<1>2. x.events \in Seq(Items) BY DEF Connections
<1>3. IsPrefix(y.events, EventsOf(ControlRead(x, a))) BY <1>1, <1>2, PrefixSelf
<1>4. Linked(y, a) /\ ControlRead(y, a) = ControlRead(x, a) BY <1>1 DEF Linked, ControlRead
<1> QED BY <1>3, <1>4 DEF ReadSound, FaultFound

LEMMA QuietHere ==
  ASSUME NEW x \in Connections, NEW e, NEW a, NEW ended, NEW cut, ReadSound(x, e, a, ended, cut),
         x.error = "none", NEW y \in Connections, y.error = "none", y.peer = x.peer,
         y.ignored = x.ignored, KeptControl(x, y), PendingSound(y), NEW ended2, NEW cut2,
         \A t \in Critical : x.peer[t] \notin ended2
  PROVE  ReadSound(y, e, a, ended2, cut2)
<1>1. Linked(x, a) /\ AllRead(x, e, a, ended) BY DEF ReadSound
<1>2. Linked(y, a) /\ ControlRead(y, a) = ControlRead(x, a) BY <1>1 DEF Linked, ControlRead
<1>3. TypesRead(y, a) /\ InstructionsRead(y, e, a)
  BY <1>1 DEF AllRead, TypesRead, InstructionsRead
<1>4. FramesRead(y, e, ControlRead(y, a)) BY <1>1, <1>2 DEF AllRead, FramesRead, KeptControl
<1> QED BY <1>2, <1>3, <1>4 DEF ReadSound, AllRead

\* Half an item is left over.
LEMMA LeftSound ==
  ASSUME NEW x \in Connections, NEW e, NEW a, NEW ended, NEW cut, ReadSound(x, e, a, ended, cut),
         x.error = "none", NEW s \in StreamIds, NEW half \in BOOLEAN
  PROVE  LET y == Left(x, s, half)
         IN  /\ ReadSound(y, e, a, ended, cut) /\ y.error = "none"
             /\ Kept(x, y) /\ KeptControl(x, y) /\ KeptOut(x, y)
<1> DEFINE y == Left(x, s, half)
<1>1. CASE half /\ Unresolved(x, s)
  <2>1. y = [x EXCEPT !.pending = @ \cup {s}] BY <1>1 DEF Left
  <2> HIDE DEF y
  <2>2. /\ y \in Connections /\ y.error = "none" /\ y.peer = x.peer /\ y.ignored = x.ignored
        /\ y.pending = x.pending \cup {s}
        /\ Kept(x, y) /\ KeptControl(x, y) /\ KeptOut(x, y)
    BY <2>1 DEF Connections, Kept, KeptControl, KeptOut
  <2>3. PendingSound(y) BY <2>2, <1>1 DEF ReadSound, PendingSound, Unresolved
  <2>4. \A t \in Critical : x.peer[t] \notin ended BY DEF ReadSound, AllRead
  <2> QED BY <2>2, <2>3, <2>4, QuietHere DEF y
<1>2. CASE ~(half /\ Unresolved(x, s))
  <2>1. y = x BY <1>2 DEF Left
  <2> QED BY <2>1 DEF Kept, KeptControl, KeptOut
<1> QED BY <1>1, <1>2

\* The stream ends.
LEMMA ClosedSound ==
  ASSUME NEW x \in Connections, NEW e, NEW a, NEW ended, NEW cut, ReadSound(x, e, a, ended, cut),
         x.error = "none", NEW s \in StreamIds, NEW t \in Critical, x.peer[t] = s,
         NEW y, y = Fail(x, "H3_CLOSED_CRITICAL_STREAM")
  PROVE  ReadSound(y, e, a, ended \cup {s}, cut)
<1>1. "H3_CLOSED_CRITICAL_STREAM" \in ErrorCodes \ {"none"} BY ErrorCodesAre
<1>2. /\ y \in Connections /\ y.error = "H3_CLOSED_CRITICAL_STREAM"
      /\ KeptStreams(x, y) /\ KeptControl(x, y)
  BY <1>1, FailFacts
<1>3. PendingSound(y) BY <1>2 DEF ReadSound, PendingSound, Unresolved, KeptStreams
<1>4. TypeOf(a[s]) \in Critical BY DEF ReadSound, Linked, None, StreamIds
<1>5. StreamFault("H3_CLOSED_CRITICAL_STREAM", e, a, ended \cup {s}, cut)
  BY <1>4 DEF StreamFault
<1>6. y.error \in FaultsIn(e, a, ended \cup {s}, cut) BY <1>1, <1>2, <1>5, FaultsInAre
<1> QED BY <1>1, <1>2, <1>3, <1>6, FailedHere DEF KeptStreams, KeptControl

LEMMA FinishSound ==
  ASSUME NEW x \in Connections, NEW e, NEW a, NEW ended, NEW cut, ReadSound(x, e, a, ended, cut),
         NEW s \in StreamIds, NEW half \in BOOLEAN, half => s \in cut
  PROVE  LET y == Finish(x, s, half)
         IN  /\ ReadSound(y, e, a, ended \cup {s}, cut)
             /\ Kept(x, y) /\ KeptControl(x, y) /\ KeptOut(x, y)
<1> DEFINE y == Finish(x, s, half)
           Goal == /\ ReadSound(y, e, a, ended \cup {s}, cut)
                   /\ Kept(x, y) /\ KeptControl(x, y) /\ KeptOut(x, y)
<1> SUFFICES Goal OBVIOUS
<1>0. Linked(x, a) /\ PendingSound(x) BY DEF ReadSound
<1>1. CASE x.error # "none"
  <2>1. y = x BY <1>1 DEF Finish
  <2>2. ended \subseteq ended \cup {s} /\ cut \subseteq cut OBVIOUS
  <2>3. ~x.misused => x.error \in FaultsIn(e, a, ended \cup {s}, cut)
    BY <1>1, <2>2, FaultsEnd DEF ReadSound, FaultFound
  <2>4. ReadSound(x, e, a, ended \cup {s}, cut) BY <1>1, <2>3 DEF ReadSound, FaultFound
  <2> QED BY <2>1, <2>4 DEF Kept, KeptControl, KeptOut
<1>2. CASE x.error = "none" /\ x.peer["control"] = s /\ half
  <2>1. y = Fail(x, "H3_FRAME_ERROR") BY <1>2 DEF Finish
  <2>2. "H3_FRAME_ERROR" \in ErrorCodes \ {"none"} BY ErrorCodesAre
  <2> HIDE DEF y
  <2>3. /\ y \in Connections /\ y.error = "H3_FRAME_ERROR"
        /\ KeptStreams(x, y) /\ Kept(x, y) /\ KeptControl(x, y) /\ KeptOut(x, y)
    BY <2>1, <2>2, FailFacts
  <2>4. PendingSound(y) BY <2>3, <1>0 DEF PendingSound, Unresolved, KeptStreams
  <2>5. TypeOf(a[s]) = "control"
    <3>1. "control" \in Critical /\ s # None BY DEF Critical, None, StreamIds
    <3> QED BY <3>1, <1>0, <1>2 DEF Linked
  <2>6. StreamFault("H3_FRAME_ERROR", e, a, ended \cup {s}, cut)
    BY <2>5, <1>2 DEF StreamFault
  <2>7. y.error \in FaultsIn(e, a, ended \cup {s}, cut) BY <2>2, <2>3, <2>6, FaultsInAre
  <2>8. ReadSound(y, e, a, ended \cup {s}, cut)
    BY <1>2, <2>2, <2>3, <2>4, <2>7, FailedHere DEF KeptStreams, KeptControl
  <2> QED BY <2>3, <2>8
<1>3. CASE x.error = "none" /\ ~(x.peer["control"] = s /\ half) /\ \E t \in Critical : x.peer[t] = s
  <2>1. y = Fail(x, "H3_CLOSED_CRITICAL_STREAM") BY <1>3 DEF Finish
  <2>2. "H3_CLOSED_CRITICAL_STREAM" \in ErrorCodes BY ErrorCodesAre
  <2> HIDE DEF y
  <2>3. ReadSound(y, e, a, ended \cup {s}, cut) BY <2>1, <1>3, ClosedSound
  <2> QED BY <2>1, <2>2, <2>3, FailFacts
<1>4. CASE x.error = "none" /\ ~(\E t \in Critical : x.peer[t] = s)
  <2>1. "control" \in Critical BY DEF Critical
  <2>2. y = Resolved(x, s) BY <1>4, <2>1 DEF Finish
  <2> HIDE DEF y
  <2>3. /\ y \in Connections /\ y.error = "none" /\ y.peer = x.peer /\ y.ignored = x.ignored
        /\ y.pending = x.pending \ {s}
        /\ Kept(x, y) /\ KeptControl(x, y) /\ KeptOut(x, y)
    BY <2>2, <1>4 DEF Resolved, Connections, Kept, KeptControl, KeptOut
  <2>4. PendingSound(y) BY <2>3, <1>0 DEF PendingSound, Unresolved
  <2>5. \A t \in Critical : x.peer[t] \notin ended \cup {s}
    BY <1>4 DEF ReadSound, AllRead
  <2> QED BY <1>4, <2>3, <2>4, <2>5, QuietHere
<1> HIDE DEF Goal
<1> QED BY <1>1, <1>2, <1>3, <1>4

\* A change that neither reads nor writes.
LEMMA QuietSound ==
  ASSUME scope \in Scopes, NEW e \in Ends, NEW x \in Connections, NEW y \in Connections,
         Kept(x, y), KeptControl(x, y), KeptOut(x, y), NEW sent
  PROVE  /\ WriteSound(x, e) => WriteSound(y, e)
         /\ PairSound(x, e, sent) => PairSound(y, e, sent)
<1> DEFINE f == Type("control")
<1>1. f \in Items /\ f.k = "control" BY ItemTypes DEF Critical
<1>2. Passes(x, y, f) /\ FromPeer(f, e, sent) BY <1>1, PassesQuietly DEF FromPeer
<1> HIDE DEF f
<1> QED BY <1>1, <1>2, PassesWriteSound, PassesPairSound

-----------------------------------------------------------------------------
(***************************************************************************)
(* What an end has written, stream by stream.                              *)
(***************************************************************************)
WrittenBy(x, s) ==
    IF \E t \in Critical : x.own[t] = s THEN x.out[CHOOSE t \in Critical : x.own[t] = s] ELSE <<>>

LEMMA WrittenByIs ==
  ASSUME NEW x \in Connections, OwnSound(x), NEW s \in StreamIds
  PROVE  /\ WrittenBy(x, s) \in Seq(Items)
         /\ \A t \in Critical : x.own[t] = s => WrittenBy(x, s) = x.out[t]
         /\ (\A t \in Critical : x.own[t] # s) => WrittenBy(x, s) = <<>>
<1>1. s # None BY DEF None, StreamIds
<1>2. \A t \in Critical : x.out[t] \in Seq(Items) BY DEF Connections
<1>3. CASE \E t \in Critical : x.own[t] = s
  <2> DEFINE u == CHOOSE t \in Critical : x.own[t] = s
  <2>1. u \in Critical /\ x.own[u] = s BY <1>3
  <2>2. WrittenBy(x, s) = x.out[u] BY <1>3 DEF WrittenBy
  <2> HIDE DEF u
  <2>3. \A t \in Critical : x.own[t] = s => t = u BY <2>1, <1>1 DEF OwnSound
  <2> QED BY <2>1, <2>2, <2>3, <1>2
<1>4. CASE ~(\E t \in Critical : x.own[t] = s)
  <2>1. WrittenBy(x, s) = <<>> BY <1>4 DEF WrittenBy
  <2> QED BY <2>1, <1>4, EmptySeq
<1> QED BY <1>3, <1>4

LEMMA WrittenGrows ==
  ASSUME NEW x \in Connections, OwnSound(x), NEW y \in Connections, OwnSound(y), Extends(x, y),
         NEW s \in StreamIds
  PROVE  /\ Len(WrittenBy(x, s)) \in Nat /\ Len(WrittenBy(y, s)) \in Nat
         /\ Len(WrittenBy(x, s)) <= Len(WrittenBy(y, s))
         /\ \A i \in 1 .. Len(WrittenBy(x, s)) : WrittenBy(y, s)[i] = WrittenBy(x, s)[i]
<1>1. s # None BY DEF None, StreamIds
<1>2. /\ WrittenBy(x, s) \in Seq(Items) /\ WrittenBy(y, s) \in Seq(Items)
      /\ Len(WrittenBy(x, s)) \in Nat /\ Len(WrittenBy(y, s)) \in Nat
  BY WrittenByIs, LenProperties
<1>3. ASSUME NEW t \in Critical, x.own[t] = s
      PROVE  /\ Len(WrittenBy(x, s)) <= Len(WrittenBy(y, s))
             /\ \A i \in 1 .. Len(WrittenBy(x, s)) : WrittenBy(y, s)[i] = WrittenBy(x, s)[i]
  <2>1. WrittenBy(x, s) = x.out[t] BY <1>3, WrittenByIs
  <2>2. y.own[t] = s BY <1>1, <1>3 DEF Extends
  <2>3. WrittenBy(y, s) = y.out[t] BY <2>2, WrittenByIs
  <2> QED BY <2>1, <2>3 DEF Extends
<1>4. CASE \A t \in Critical : x.own[t] # s
  <2>1. WrittenBy(x, s) = <<>> BY <1>4, WrittenByIs
  <2>2. Len(WrittenBy(x, s)) = 0 BY <2>1, EmptySeq
  <2> QED BY <2>2, <1>2
<1> QED BY <1>2, <1>3, <1>4

\* Items that a peer of this library writes are never wrong in themselves.
LEMMA WrittenFacts ==
  ASSUME scope \in Scopes, NEW p \in Ends, NEW x \in Connections, WriteSound(x, p),
         NEW s \in StreamIds
  PROVE  /\ WrittenBy(x, s) \in Scripts
         /\ \A i \in 1 .. Len(WrittenBy(x, s)) : FromPeer(WrittenBy(x, s)[i], Peer(p), x.sent)
<1> DEFINE w == WrittenBy(x, s)
<1>1. OwnSound(x) /\ ControlWritten(x, p) /\ QpackWritten(x) BY DEF WriteSound
<1>2. w \in Seq(Items) /\ Len(w) \in Nat BY <1>1, WrittenByIs, LenProperties
<1>3. s # None BY DEF None, StreamIds
<1>4. Peer(Peer(p)) = p BY PeerCapacity
<1>5. CASE x.own["control"] = s
  <2>1. w = x.out["control"]
    <3>1. "control" \in Critical BY DEF Critical
    <3> QED BY <3>1, <1>1, <1>5, WrittenByIs
  <2> HIDE DEF w
  <2>2. /\ Len(w) >= 2 /\ w[1] = Type("control")
        /\ w[2] = SettingsFrame(FromSettings(scope.local[p]))
        /\ \A i \in 3 .. Len(w) : w[i].k = "goaway" /\ x.sent # NoGoaway /\ x.sent <= w[i].n
    BY <2>1, <1>1 DEF ControlWritten, GoawaysFall
  <2>3. Type("control").k = "control" BY ItemTypes DEF Critical
  <2>4. /\ SettingsFrame(FromSettings(scope.local[p])).k = "settings"
        /\ SettingsFrame(FromSettings(scope.local[p])).s = FromSettings(scope.local[p])
    BY DEF SettingsFrame, Item
  <2>5. ASSUME NEW i \in 2 .. Len(w) PROVE w[i].k \in FrameKinds
    <3>1. CASE i = 2 BY <3>1, <2>2, <2>4 DEF FrameKinds
    <3>2. CASE i # 2
      <4>1. i \in 3 .. Len(w) BY <1>2, <3>2
      <4> QED BY <4>1, <2>2 DEF FrameKinds
    <3> QED BY <3>1, <3>2
  <2>6. ASSUME NEW i \in 1 .. Len(w) PROVE FromPeer(w[i], Peer(p), x.sent)
    <3>1. CASE i = 1 BY <3>1, <2>2, <2>3 DEF FromPeer
    <3>2. CASE i = 2 BY <3>2, <2>2, <2>4, <1>4 DEF FromPeer, PeerSettings
    <3>3. CASE i # 1 /\ i # 2
      <4>1. i \in 3 .. Len(w) BY <1>2, <3>3
      <4> QED BY <4>1, <2>2 DEF FromPeer
    <3> QED BY <3>1, <3>2, <3>3
  <2> QED BY <1>2, <2>5, <2>6 DEF Scripts, w
<1>6. CASE x.own["encoder"] = s
  <2>1. w = x.out["encoder"]
    <3>1. "encoder" \in Critical BY DEF Critical
    <3> QED BY <3>1, <1>1, <1>6, WrittenByIs
  <2> HIDE DEF w
  <2>2. w[1] = Type("encoder") /\ \A i \in 2 .. Len(w) : w[i].k = "capacity"
    BY <2>1, <1>1, <1>3, <1>6 DEF QpackWritten
  <2>3. w[1].k = "encoder" BY <2>2, ItemTypes DEF Critical
  <2>4. ASSUME NEW i \in 1 .. Len(w) PROVE FromPeer(w[i], Peer(p), x.sent)
    <3>1. CASE i = 1 BY <3>1, <2>3 DEF FromPeer
    <3>2. CASE i # 1
      <4>1. i \in 2 .. Len(w) BY <1>2, <3>2
      <4> QED BY <4>1, <2>2 DEF FromPeer
    <3> QED BY <3>1, <3>2
  <2> QED BY <1>2, <2>3, <2>4 DEF Scripts, w
<1>7. CASE x.own["decoder"] = s
  <2>1. w = x.out["decoder"]
    <3>1. "decoder" \in Critical BY DEF Critical
    <3> QED BY <3>1, <1>1, <1>7, WrittenByIs
  <2> HIDE DEF w
  <2>2. w[1] = Type("decoder") /\ Len(w) <= 1
    BY <2>1, <1>1, <1>3, <1>7 DEF QpackWritten
  <2>3. w[1].k = "decoder" BY <2>2, ItemTypes DEF Critical
  <2>4. ASSUME NEW i \in 1 .. Len(w) PROVE FromPeer(w[i], Peer(p), x.sent)
    <3>1. i = 1 BY <2>2, <1>2
    <3> QED BY <3>1, <2>3 DEF FromPeer
  <2> QED BY <1>2, <2>3, <2>4 DEF Scripts, w
<1>8. CASE \A t \in Critical : x.own[t] # s
  <2>1. w = <<>> BY <1>1, <1>8, WrittenByIs
  <2>2. Len(w) = 0 BY <2>1, EmptySeq
  <2> HIDE DEF w
  <2> QED BY <1>2, <2>2 DEF Scripts, w
<1> HIDE DEF w
<1>9. (\A t \in Critical : x.own[t] # s) \/ x.own["control"] = s \/ x.own["encoder"] = s
      \/ x.own["decoder"] = s
  BY DEF Critical
<1> QED BY <1>5, <1>6, <1>7, <1>8, <1>9 DEF w

-----------------------------------------------------------------------------
(***************************************************************************)
(* A step of one end leaves the invariant of both.                         *)
(***************************************************************************)
LEMMA HalfFacts ==
  ASSUME NEW n \in Nat, NEW m \in Nat, n <= 2 * m
  PROVE  n \div 2 \in Nat /\ n \div 2 <= m
OBVIOUS

LEMMA InvFacts ==
  ASSUME ControlIInv, NEW p \in Ends
  PROVE  /\ scope \in Scopes /\ con[p] \in Connections /\ Peer(p) \in Ends /\ Peer(p) # p
         /\ pos[p] \in [StreamIds -> Nat] /\ over[p] \in SUBSET StreamIds
         /\ ~Scripted(p) =>
               /\ WriteSound(con[p], p)
               /\ ReadSound(con[p], p, ArrivedAt(p), over[Peer(p)], CutAt(p))
         /\ Scripted(p) => Untouched(con[p])
         /\ scope.scripted = {} =>
               /\ ~Scripted(p) /\ over[p] = {}
               /\ PairSound(con[p], p, con[Peer(p)].sent)
<1>1. Peer(p) \in Ends /\ Peer(p) # p BY DEF Peer, Ends
<1> QED BY <1>1 DEF ControlIInv, Shape, EndsSound, PairsSound, Scripted

LEMMA WrittenIs ==
  ASSUME ControlIInv, NEW p \in Ends, NEW s \in StreamIds
  PROVE  /\ Written(p, s) \in Scripts
         /\ ~Scripted(p) => Written(p, s) = WrittenBy(con[p], s)
         /\ pos[p][s] \div 2 \in Nat /\ pos[p][s] \div 2 <= Len(Written(p, s))
         /\ Arrived(p, s) \in Scripts
<1>1. Scripted(p) => Written(p, s) = scope.script[p][s] BY Zenon DEF Written
<1>2. ~Scripted(p) => Written(p, s) = WrittenBy(con[p], s) BY Zenon DEF Written, WrittenBy
<1>3. Written(p, s) \in Scripts
  <2>1. CASE Scripted(p) BY <1>1, <2>1, InvFacts, ScopeFacts DEF Scripted
  <2>2. CASE ~Scripted(p) BY <1>2, <2>2, InvFacts, WrittenFacts
  <2> QED BY <2>1, <2>2
<1>4. Written(p, s) \in Seq(Items) /\ Len(Written(p, s)) \in Nat
  BY <1>3, LenProperties DEF Scripts
<1>5. pos[p][s] \in Nat /\ pos[p][s] <= 2 * Len(Written(p, s))
  BY DEF ControlIInv, Shape, NothingAhead
<1>6. pos[p][s] \div 2 \in Nat /\ pos[p][s] \div 2 <= Len(Written(p, s))
  BY <1>4, <1>5, HalfFacts
<1>7. Arrived(p, s) \in Scripts BY <1>3, <1>6, PrefixIsScript DEF Arrived
<1> QED BY <1>2, <1>3, <1>6, <1>7

LEMMA ArrivedAtType ==
  ASSUME ControlIInv, NEW e \in Ends
  PROVE  ArrivedAt(e) \in [StreamIds -> Scripts]
BY InvFacts, WrittenIs DEF ArrivedAt

\* The scope is chosen once.
LEMMA FrameFaultsLast ==
  ASSUME scope' = scope, NEW e, NEW f, NEW i
  PROVE  FrameFaults(e, f, i)' = FrameFaults(e, f, i)
BY DEF FrameFaults

LEMMA FaultsLast ==
  ASSUME scope' = scope, NEW e, NEW a, NEW ended, NEW cut
  PROVE  FaultsIn(e, a, ended, cut)' = FaultsIn(e, a, ended, cut)
BY FrameFaultsLast DEF FaultsIn

LEMMA ReadSoundLasts ==
  ASSUME scope' = scope, NEW x, NEW e, NEW a, NEW ended, NEW cut
  PROVE  ReadSound(x, e, a, ended, cut)' <=> ReadSound(x, e, a, ended, cut)
<1>1. \A f : FramesRead(x, e, f)' <=> FramesRead(x, e, f) BY FrameFaultsLast DEF FramesRead
<1>2. InstructionsRead(x, e, a)' <=> InstructionsRead(x, e, a) BY DEF InstructionsRead
<1>3. AllRead(x, e, a, ended)' <=> AllRead(x, e, a, ended) BY <1>1, <1>2 DEF AllRead
<1>4. FaultFound(x, e, a, ended, cut)' <=> FaultFound(x, e, a, ended, cut)
  BY FaultsLast DEF FaultFound
<1> QED BY <1>3, <1>4 DEF ReadSound

LEMMA WriteSoundLasts ==
  ASSUME scope' = scope, NEW x, NEW e
  PROVE  WriteSound(x, e)' <=> WriteSound(x, e)
BY DEF WriteSound, OwnSound, ControlWritten, GoawaysFall, QpackWritten, AcceptedBelow

LEMMA PairSoundLasts ==
  ASSUME scope' = scope, NEW x, NEW e, NEW sent
  PROVE  /\ PairSound(x, e, sent)' <=> PairSound(x, e, sent)
         /\ Heard(x, e, sent)' <=> Heard(x, e, sent)
BY DEF PairSound, Heard, WithinPeersCapacity, PeerSettings

LEMMA ArrivedSame ==
  ASSUME ControlIInv, NEW e \in Ends, ~Scripted(e), NEW y \in Connections,
         con' = [con EXCEPT ![e] = y], scope' = scope, pos'[e] = pos[e],
         OwnSound(y), Extends(con[e], y)
  PROVE  /\ \A s \in StreamIds : Written(Peer(e), s)' = Written(Peer(e), s)
         /\ \A s \in StreamIds : Arrived(e, s)' = Arrived(e, s)
         /\ \A s \in StreamIds : (pos[e][s] <= 2 * Len(Written(e, s)))'
<1>1. con \in [Ends -> Connections] BY DEF ControlIInv, Shape
<1>2. Peer(e) \in Ends /\ Peer(e) # e /\ con'[Peer(e)] = con[Peer(e)] /\ con'[e] = y
  BY <1>1 DEF Peer, Ends
<1>3. ASSUME NEW s \in StreamIds PROVE Written(Peer(e), s)' = Written(Peer(e), s)
  BY <1>2 DEF Written, Scripted
<1>4. ASSUME NEW s \in StreamIds
      PROVE  Arrived(e, s)' = Arrived(e, s) /\ (pos[e][s] <= 2 * Len(Written(e, s)))'
  <2> DEFINE v == WrittenBy(con[e], s)
             w == WrittenBy(y, s)
             n == pos[e][s]
  <2>1. Written(e, s) = v BY WrittenIs
  <2>2. Written(e, s)' = w
    <3>1. ~Scripted(e)' BY DEF Scripted
    <3>2. Written(e, s)' = IF Scripted(e)' THEN scope'.script[e][s]
                           ELSE IF \E t \in Critical : con'[e].own[t] = s
                                THEN con'[e].out[CHOOSE t \in Critical : con'[e].own[t] = s]
                                ELSE <<>>
      BY Zenon DEF Written
    <3>3. con'[e] = y BY <1>2
    <3> QED BY <3>1, <3>2, <3>3, Zenon DEF WrittenBy
  <2>3. con[e] \in Connections /\ OwnSound(con[e]) BY <1>1, InvFacts DEF WriteSound
  <2>4. /\ Len(v) \in Nat /\ Len(w) \in Nat /\ Len(v) <= Len(w)
        /\ \A i \in 1 .. Len(v) : w[i] = v[i]
    BY <2>3, WrittenGrows
  <2>5. n \in Nat /\ n <= 2 * Len(v) /\ n \div 2 \in Nat /\ n \div 2 <= Len(v)
    <3>1. n \in Nat /\ n <= 2 * Len(v)
      BY <2>1 DEF ControlIInv, Shape, NothingAhead
    <3> QED BY <3>1, <2>4, HalfFacts
  <2> DEFINE h == n \div 2
  <2>6. h \in Nat /\ h <= Len(v) BY <2>5
  <2>7. Arrived(e, s) = SubSeq(v, 1, h) BY <2>1 DEF Arrived
  <2>8. Arrived(e, s)' = SubSeq(w, 1, h) BY <2>2 DEF Arrived
  <2>9. (pos[e][s] <= 2 * Len(Written(e, s)))' <=> n <= 2 * Len(w) BY <2>2
  <2> HIDE DEF v, w, n
  <2>10. n <= 2 * Len(w) BY <2>4, <2>5
  <2> HIDE DEF h
  <2>11. \A i \in 1 .. h : w[i] = v[i] BY <2>4, <2>6
  <2>12. SubSeq(w, 1, h) = SubSeq(v, 1, h) BY <2>6, <2>11
  <2> QED BY <2>7, <2>8, <2>9, <2>10, <2>12
<1> QED BY <1>3, <1>4

LEMMA EndStep ==
  ASSUME ControlIInv, NEW e \in Ends, ~Scripted(e), NEW y \in Connections,
         con' = [con EXCEPT ![e] = y], scope' = scope,
         pos' \in [Ends -> [StreamIds -> Nat]], pos'[e] = pos[e],
         over' \in [Ends -> SUBSET StreamIds], over'[e] = over[e],
         reqs' \subseteq Requests,
         Extends(con[e], y), WriteSound(y, e),
         ReadSound(y, e, ArrivedAt(e)', over'[Peer(e)], CutAt(e)'),
         \A s \in StreamIds : pos'[Peer(e)][s] <= 2 * Len(Written(Peer(e), s)),
         scope.scripted = {} =>
            /\ over'[Peer(e)] = {} /\ PairSound(y, e, con[Peer(e)].sent)
            /\ Heard(con[Peer(e)], Peer(e), y.sent)
  PROVE  ControlIInv'
<1> DEFINE p == Peer(e)
<1>1. con \in [Ends -> Connections] BY DEF ControlIInv, Shape
<1>2. /\ p \in Ends /\ p # e /\ Peer(p) = e /\ (\A d \in Ends : d = e \/ d = p)
      /\ con'[p] = con[p] /\ con'[e] = y
  BY <1>1 DEF Peer, Ends
<1>3. OwnSound(y) BY DEF WriteSound
<1>4. /\ \A s \in StreamIds : Written(p, s)' = Written(p, s)
      /\ \A s \in StreamIds : Arrived(e, s)' = Arrived(e, s)
      /\ \A s \in StreamIds : (pos[e][s] <= 2 * Len(Written(e, s)))'
  BY <1>3, ArrivedSame
<1>5. Shape' BY <1>1 DEF Shape, ControlIInv
<1>6. NothingAhead'
  <2>1. \A s \in StreamIds : (pos[p][s] <= 2 * Len(Written(p, s)))' BY <1>4
  <2> HIDE DEF p
  <2> QED BY <2>1, <1>2, <1>4 DEF NothingAhead
<1>7. ArrivedAt(p)' = ArrivedAt(p) /\ CutAt(p)' = CutAt(p)
  <2>1. Peer(p)' = e /\ Peer(p) = e BY <1>2 DEF Peer
  <2>2. CutAt(p)' = CutAt(p) BY <2>1 DEF CutAt
  <2>3. ArrivedAt(p) = [s \in StreamIds |-> Arrived(e, s)] BY <2>1 DEF ArrivedAt
  <2>4. ArrivedAt(p)' = [s \in StreamIds |-> Arrived(e, s)'] BY <2>1, Zenon DEF ArrivedAt
  <2> QED BY <2>2, <2>3, <2>4, <1>4
<1> DEFINE Sound(d) == IF Scripted(d) THEN Untouched(con[d])
                       ELSE /\ WriteSound(con[d], d)
                            /\ ReadSound(con[d], d, ArrivedAt(d), over[Peer(d)], CutAt(d))
<1>8. Sound(e)'
  <2>1. ~Scripted(e)' BY DEF Scripted
  <2>2. WriteSound(con[e], e)' BY <1>2, WriteSoundLasts
  <2>3. ReadSound(con[e], e, ArrivedAt(e), over[Peer(e)], CutAt(e))' BY <1>2, ReadSoundLasts
  <2> QED BY <2>1, <2>2, <2>3
<1>9. Sound(p)'
  <2>1. Scripted(p)' <=> Scripted(p) BY DEF Scripted
  <2>2. over'[Peer(p)] = over[Peer(p)] BY <1>2
  <2>3. ~Scripted(p) => /\ WriteSound(con[p], p)
                        /\ ReadSound(con[p], p, ArrivedAt(p), over[Peer(p)], CutAt(p))
    BY <1>2 DEF ControlIInv, EndsSound
  <2>4. Scripted(p) => Untouched(con[p]) BY <1>2 DEF ControlIInv, EndsSound
  <2>5. Scripted(p) => Untouched(con[p])' BY <2>4, <1>2 DEF Untouched
  <2> HIDE DEF p
  <2>6. ~Scripted(p) => WriteSound(con[p], p)' BY <2>3, <1>2, WriteSoundLasts
  <2>7. ~Scripted(p) => ReadSound(con[p], p, ArrivedAt(p), over[Peer(p)], CutAt(p))'
    BY <2>2, <2>3, <1>2, <1>7, ReadSoundLasts
  <2> QED BY <2>1, <2>5, <2>6, <2>7
<1>10. EndsSound'
  <2>1. \A d \in Ends : Sound(d)' BY <1>2, <1>8, <1>9
  <2> QED BY <2>1 DEF EndsSound
<1>11. PairsSound'
  <2>1. SUFFICES ASSUME scope.scripted = {}
                 PROVE  \A d \in Ends : (over[d] = {} /\ PairSound(con[d], d, con[Peer(d)].sent))'
    BY DEF PairsSound
  <2>2. over[e] = {} /\ over[p] = {} /\ PairSound(con[p], p, con[e].sent)
    BY <2>1, <1>2 DEF ControlIInv, PairsSound
  <2>3. (over[e] = {} /\ PairSound(con[e], e, con[Peer(e)].sent))'
    BY <2>1, <2>2, <1>2, PairSoundLasts
  <2>4. (over[p] = {} /\ PairSound(con[p], p, con[Peer(p)].sent))'
    <3>1. WithinPeersCapacity(con[p], p) /\ Heard(con[p], p, y.sent)
      BY <2>1, <2>2 DEF PairSound
    <3>2. PairSound(con[p], p, y.sent) BY <3>1 DEF PairSound
    <3>3. over'[p] = {} BY <2>1
    <3> HIDE DEF p
    <3> QED BY <3>2, <3>3, <1>2, PairSoundLasts
  <2> QED BY <1>2, <2>3, <2>4
<1> QED BY <1>5, <1>6, <1>10, <1>11 DEF ControlIInv

-----------------------------------------------------------------------------
(***************************************************************************)
(* The actions.                                                            *)
(***************************************************************************)
LEMMA ChunkFacts ==
  ASSUME NEW from \in Nat, NEW n \in Nat, NEW len \in Nat, from + n <= 2 * len
  PROVE  /\ from \div 2 \in Nat
         /\ \E k \in Nat : (from + n) \div 2 = (from \div 2) + k
         /\ (from + n) \div 2 \in Nat /\ (from + n) \div 2 <= len
OBVIOUS

LEMMA PairHeard ==
  ASSUME ControlIInv, scope.scripted = {}, NEW e \in Ends
  PROVE  Heard(con[Peer(e)], Peer(e), con[e].sent)
<1>1. Peer(e) \in Ends /\ Peer(Peer(e)) = e BY DEF Peer, Ends
<1>2. PairSound(con[Peer(e)], Peer(e), con[Peer(Peer(e))].sent) BY <1>1, InvFacts
<1> QED BY <1>1, <1>2 DEF PairSound

LEMMA FeedStreamKeeps ==
  ASSUME ControlIInv, NEW e \in Ends, NEW s \in StreamIds, NEW n \in 0 .. MaxChunk,
         NEW fin \in BOOLEAN, FeedStream(e, s, n, fin)
  PROVE  ControlIInv'
<1> DEFINE p == Peer(e)
           w == Written(p, s)
           from == pos[p][s]
           m == from \div 2
           top == (from + n) \div 2
           got == SubSeq(w, m + 1, top)
           half == (from + n) % 2 = 1
           x == con[e]
           read == ReceiveAll(x, e, s, got)
           left == IF read.error # "none" THEN read ELSE Left(read, s, half)
           y == IF fin THEN Finish(left, s, half) ELSE left
           a == ArrivedAt(e)
           b == [a EXCEPT ![s] = SubSeq(w, 1, top)]
           ended == over[p]
           cut == CutAt(e)'
           sent == con[p].sent
<1>1. /\ ~Scripted(e) /\ x.error = "none" /\ s \notin ended /\ from + n <= 2 * Len(w)
      /\ fin => Scripted(p)
      /\ con' = [con EXCEPT ![e] = y]
      /\ pos' = [pos EXCEPT ![p][s] = from + n]
      /\ over' = IF fin THEN [over EXCEPT ![p] = @ \cup {s}] ELSE over
      /\ scope' = scope /\ reqs' = reqs
  BY Zenon DEF FeedStream
<1>2. /\ p \in Ends /\ p # e /\ scope \in Scopes /\ x \in Connections
      /\ WriteSound(x, e) /\ ReadSound(x, e, a, ended, CutAt(e))
      /\ scope.scripted = {} => PairSound(x, e, sent) /\ ~Scripted(p) /\ over[p] = {}
  BY <1>1, InvFacts
<1>3. /\ w \in Scripts /\ Len(w) \in Nat /\ a[s] = SubSeq(w, 1, m)
      /\ a \in [StreamIds -> Scripts] /\ from \in Nat /\ n \in Nat
  <2>1. w \in Scripts BY <1>2, WrittenIs
  <2>2. Len(w) \in Nat BY <2>1, LenProperties DEF Scripts
  <2>3. a \in [StreamIds -> Scripts] BY ArrivedAtType
  <2>4. a[s] = SubSeq(w, 1, m) BY DEF ArrivedAt, Arrived
  <2>5. from \in Nat BY <1>2, InvFacts
  <2>6. n \in Nat BY ControlAssumption
  <2> QED BY <2>1, <2>2, <2>3, <2>4, <2>5, <2>6
<1>4. PICK k \in Nat : top = m + k
  <2>1. from + n <= 2 * Len(w) BY <1>1
  <2> HIDE DEF from, w
  <2> QED BY <1>3, <2>1, ChunkFacts
<1>5. m \in Nat /\ top \in Nat /\ top <= Len(w)
  <2>1. from + n <= 2 * Len(w) BY <1>1
  <2> HIDE DEF from, w
  <2> QED BY <1>3, <2>1, ChunkFacts
<1>6. ReadSound(x, e, a, ended, cut)
  BY <1>1, <1>2 DEF ReadSound
<1>7. scope.scripted = {} => \A i \in 1 .. Len(w) : FromPeer(w[i], e, sent)
  <2>1. SUFFICES ASSUME scope.scripted = {} PROVE \A i \in 1 .. Len(w) : FromPeer(w[i], e, sent)
    OBVIOUS
  <2>2. ~Scripted(p) BY <2>1, <1>2
  <2>3. w = WrittenBy(con[p], s) /\ WriteSound(con[p], p) /\ con[p] \in Connections
    BY <1>2, <2>2, WrittenIs, InvFacts
  <2>4. Peer(p) = e BY DEF Peer, Ends
  <2>5. \A i \in 1 .. Len(WrittenBy(con[p], s)) :
           FromPeer(WrittenBy(con[p], s)[i], Peer(p), con[p].sent)
    BY <1>2, <2>3, WrittenFacts
  <2> QED BY <2>3, <2>4, <2>5
<1>8. /\ ReadSound(read, e, b, ended, cut)
      /\ WriteSound(read, e) /\ Kept(x, read) /\ Extends(x, read)
      /\ scope.scripted = {} => PairSound(read, e, sent)
  <2>1. got = SubSeq(w, m + 1, m + k) /\ b = [a EXCEPT ![s] = SubSeq(w, 1, m + k)]
    BY <1>4
  <2>2. m + k <= Len(w) BY <1>4, <1>5
  <2> HIDE DEF got, b, w, m, x, a, ended, cut, sent, read
  <2>3. LET z == ReceiveAll(x, e, s, SubSeq(w, m + 1, m + k))
        IN  /\ ReadSound(z, e, [a EXCEPT ![s] = SubSeq(w, 1, m + k)], ended, cut)
            /\ WriteSound(z, e) /\ Kept(x, z) /\ Extends(x, z)
            /\ scope.scripted = {} => PairSound(z, e, sent)
    BY <1>1, <1>2, <1>3, <1>5, <1>6, <1>7, <2>2, ReceiveAllSound, Zenon
  <2> QED BY <2>1, <2>3 DEF read
<1>9. half \in BOOLEAN OBVIOUS
<1>10. half => s \in cut
  <2>1. pos'[p][s] = from + n BY <1>1, <1>2 DEF ControlIInv, Shape
  <2>2. CutAt(e)' = {r \in StreamIds : pos'[p][r] % 2 = 1} BY DEF CutAt, Peer
  <2> QED BY <2>1, <2>2
<1> DEFINE Fine(z, over2) ==
             /\ ReadSound(z, e, b, over2, cut) /\ WriteSound(z, e) /\ Extends(x, z)
             /\ scope.scripted = {} => PairSound(z, e, sent)
             /\ z.sent = x.sent
<1> HIDE DEF half, read, b, got, cut, w, from, top, m
<1>11. ASSUME NEW z \in Connections, NEW u \in Connections, NEW over2, NEW over3,
              Fine(z, over2), ReadSound(u, e, b, over3, cut),
              Kept(z, u), KeptControl(z, u), KeptOut(z, u)
       PROVE  Fine(u, over3)
  <2>1. WriteSound(u, e) /\ (PairSound(z, e, sent) => PairSound(u, e, sent))
    BY <1>11, <1>2, QuietSound
  <2>2. Extends(x, u) BY <1>11 DEF Extends, Kept, KeptOut
  <2> QED BY <2>1, <2>2, <1>11 DEF Kept
<1>12. Fine(read, ended) BY <1>8 DEF Kept
<1>13. Fine(left, ended)
  <2>1. CASE read.error # "none" BY <2>1, <1>12
  <2>2. CASE read.error = "none"
    <3>1. left = Left(read, s, half) BY <2>2
    <3>2. read \in Connections BY <1>8 DEF ReadSound
    <3> HIDE DEF left
    <3>3. /\ ReadSound(left, e, b, ended, cut)
          /\ Kept(read, left) /\ KeptControl(read, left) /\ KeptOut(read, left)
      BY <3>1, <3>2, <2>2, <1>8, <1>9, LeftSound
    <3>4. left \in Connections BY <3>3 DEF ReadSound
    <3> QED BY <3>2, <3>3, <3>4, <1>11, <1>12
  <2> QED BY <2>1, <2>2
<1> HIDE DEF left
<1>14. Fine(y, IF fin THEN ended \cup {s} ELSE ended)
  <2>1. CASE ~fin BY <2>1, <1>13
  <2>2. CASE fin
    <3>1. y = Finish(left, s, half) BY <2>2
    <3>2. left \in Connections /\ ReadSound(left, e, b, ended, cut) BY <1>13 DEF ReadSound
    <3> HIDE DEF y
    <3>3. /\ ReadSound(y, e, b, ended \cup {s}, cut)
          /\ Kept(left, y) /\ KeptControl(left, y) /\ KeptOut(left, y)
      BY <3>1, <3>2, <1>9, <1>10, FinishSound
    <3>4. y \in Connections BY <3>3 DEF ReadSound
    <3> QED BY <3>2, <3>3, <3>4, <2>2, <1>11, <1>13
  <2> QED BY <2>1, <2>2
<1> HIDE DEF y
<1>15. y \in Connections BY <1>14 DEF ReadSound
<1>16. over'[p] = (IF fin THEN ended \cup {s} ELSE ended) /\ over'[e] = over[e]
       /\ over' \in [Ends -> SUBSET StreamIds]
  BY <1>1, <1>2 DEF ControlIInv, Shape
<1>17. /\ pos' \in [Ends -> [StreamIds -> Nat]] /\ pos'[e] = pos[e]
       /\ pos'[p][s] = from + n /\ \A r \in StreamIds \ {s} : pos'[p][r] = pos[p][r]
  BY <1>1, <1>2, <1>3 DEF ControlIInv, Shape, from
<1>18. ArrivedAt(e)' = b
  <2>1. \A r \in StreamIds : Written(p, r)' = Written(p, r)
    BY <1>1, <1>14, <1>15, <1>17, ArrivedSame DEF WriteSound
  <2>2. ArrivedAt(e)' = [r \in StreamIds |-> SubSeq(Written(p, r)', 1, pos'[p][r] \div 2)]
    BY Zenon DEF ArrivedAt, Arrived, Peer
  <2>3. a = [r \in StreamIds |-> SubSeq(Written(p, r), 1, pos[p][r] \div 2)]
    BY Zenon DEF ArrivedAt, Arrived
  <2>4. \A r \in StreamIds : SubSeq(Written(p, r)', 1, pos'[p][r] \div 2)
                               = IF r = s THEN SubSeq(w, 1, top) ELSE a[r]
    BY <2>1, <2>3, <1>17 DEF w, top
  <2> QED BY <2>2, <2>4, <1>3 DEF b
<1>19. ReadSound(y, e, ArrivedAt(e)', over'[Peer(e)], CutAt(e)')
  BY <1>14, <1>16, <1>18 DEF cut
<1>20. \A r \in StreamIds : pos'[p][r] <= 2 * Len(Written(p, r))
  <2>1. \A r \in StreamIds : pos[p][r] <= 2 * Len(Written(p, r))
    BY <1>2 DEF ControlIInv, NothingAhead
  <2>2. from + n <= 2 * Len(Written(p, s)) BY <1>1 DEF w
  <2> QED BY <2>1, <2>2, <1>17
<1>21. scope.scripted = {} =>
          /\ over'[p] = {} /\ PairSound(y, e, sent) /\ Heard(con[p], p, y.sent)
  <2>1. SUFFICES ASSUME scope.scripted = {}
                 PROVE  /\ over'[p] = {} /\ PairSound(y, e, sent) /\ Heard(con[p], p, y.sent)
    OBVIOUS
  <2>2. ~fin BY <2>1, <1>1, <1>2
  <2>3. Heard(con[p], p, x.sent) BY <2>1, PairHeard
  <2> QED BY <2>1, <2>2, <2>3, <1>2, <1>14, <1>16
<1>22. reqs' \subseteq Requests BY <1>1 DEF ControlIInv, Shape
<1>23. Extends(con[e], y) /\ WriteSound(y, e) BY <1>14
<1> QED BY <1>1, <1>15, <1>16, <1>17, <1>19, <1>20, <1>21, <1>22, <1>23, EndStep

\* A step of e that leaves alone what has arrived.
LEMMA CallStep ==
  ASSUME ControlIInv, NEW e \in Ends, ~Scripted(e), NEW y \in Connections,
         con' = [con EXCEPT ![e] = y], UNCHANGED <<scope, pos, over>>, reqs' \subseteq Requests,
         Extends(con[e], y), WriteSound(y, e),
         ReadSound(y, e, ArrivedAt(e), over[Peer(e)], CutAt(e)),
         scope.scripted = {} =>
            PairSound(y, e, con[Peer(e)].sent) /\ Heard(con[Peer(e)], Peer(e), y.sent)
  PROVE  ControlIInv'
<1> DEFINE p == Peer(e)
<1>1. /\ pos' = pos /\ over' = over /\ scope' = scope /\ p \in Ends
      /\ pos \in [Ends -> [StreamIds -> Nat]] /\ over \in [Ends -> SUBSET StreamIds]
  BY InvFacts DEF ControlIInv, Shape
<1>2. \A s \in StreamIds : Written(p, s)' = Written(p, s)
  BY <1>1, ArrivedSame DEF WriteSound
<1>3. ArrivedAt(e)' = ArrivedAt(e)
  <2>1. ArrivedAt(e)' = [r \in StreamIds |-> SubSeq(Written(p, r)', 1, pos'[p][r] \div 2)]
    BY Zenon DEF ArrivedAt, Arrived, Peer
  <2>2. ArrivedAt(e) = [r \in StreamIds |-> SubSeq(Written(p, r), 1, pos[p][r] \div 2)]
    BY Zenon DEF ArrivedAt, Arrived
  <2> QED BY <2>1, <2>2, <1>1, <1>2
<1>4. CutAt(e)' = CutAt(e) BY <1>1 DEF CutAt, Peer
<1>5. ReadSound(y, e, ArrivedAt(e)', over'[Peer(e)], CutAt(e)') BY <1>1, <1>3, <1>4
<1>6. \A r \in StreamIds : pos'[p][r] <= 2 * Len(Written(p, r))
  BY <1>1 DEF ControlIInv, NothingAhead
<1>7. scope.scripted = {} => over'[p] = {} BY <1>1, InvFacts
<1> QED BY <1>1, <1>5, <1>6, <1>7, EndStep

LEMMA SelfExtends ==
  ASSUME NEW x \in Connections, NEW y, y.own = x.own, y.out = x.out
  PROVE  Extends(x, y)
<1>1. \A t \in Critical : Len(x.out[t]) \in Nat BY LenProperties DEF Connections
<1> QED BY <1>1 DEF Extends

LEMMA WriteSoundSame ==
  ASSUME NEW x, NEW y, NEW e, WriteSound(x, e), y.own = x.own, y.out = x.out, y.sent = x.sent,
         AcceptedBelow(y, e)
  PROVE  WriteSound(y, e)
<1>1. OwnSound(y) BY DEF WriteSound, OwnSound
<1>2. ControlWritten(y, e) BY DEF WriteSound, ControlWritten, GoawaysFall
<1>3. QpackWritten(y) BY DEF WriteSound, QpackWritten
<1> QED BY <1>1, <1>2, <1>3 DEF WriteSound

LEMMA StreamResetKeeps ==
  ASSUME ControlIInv, NEW e \in Ends, NEW s \in StreamIds, StreamReset(e, s)
  PROVE  ControlIInv'
<1> DEFINE p == Peer(e)
           x == con[e]
           critical == \E t \in Critical : x.peer[t] = s
           y == IF critical THEN Fail(x, "H3_CLOSED_CRITICAL_STREAM") ELSE x
<1>1. /\ ~Scripted(e) /\ Scripted(p) /\ x.error = "none" /\ s \notin over[p]
      /\ over' = [over EXCEPT ![p] = @ \cup {s}] /\ UNCHANGED <<scope, pos, reqs>>
  BY DEF StreamReset
<1>2. /\ p \in Ends /\ p # e /\ scope \in Scopes /\ x \in Connections
      /\ WriteSound(x, e) /\ ReadSound(x, e, ArrivedAt(e), over[p], CutAt(e))
      /\ scope.scripted = {} => ~Scripted(p)
  BY <1>1, InvFacts
<1>3. con' = [con EXCEPT ![e] = y]
  <2>1. con \in [Ends -> Connections] BY DEF ControlIInv, Shape
  <2>2. con' = IF critical THEN [con EXCEPT ![e] = Fail(@, "H3_CLOSED_CRITICAL_STREAM")] ELSE con
    BY DEF StreamReset
  <2>3. con = [con EXCEPT ![e] = con[e]] BY <2>1
  <2> QED BY <2>2, <2>3
<1>4. "H3_CLOSED_CRITICAL_STREAM" \in ErrorCodes BY ErrorCodesAre
<1>5. /\ y \in Connections /\ Kept(x, y) /\ KeptControl(x, y) /\ KeptOut(x, y)
  BY <1>2, <1>4, FailFacts DEF Kept, KeptControl, KeptOut
<1>6. ReadSound(y, e, ArrivedAt(e), over[p] \cup {s}, CutAt(e))
  <2>1. CASE critical
    <3>1. PICK t \in Critical : x.peer[t] = s BY <2>1
    <3>2. y = Fail(x, "H3_CLOSED_CRITICAL_STREAM") BY <2>1
    <3> QED BY <3>1, <3>2, <1>1, <1>2, ClosedSound
  <2>2. CASE ~critical
    <3>1. y = x BY <2>2
    <3>2. \A t \in Critical : x.peer[t] \notin over[p] \cup {s}
      BY <2>2, <1>1, <1>2 DEF ReadSound, AllRead
    <3>3. PendingSound(x) BY <1>2 DEF ReadSound
    <3> QED BY <3>1, <3>2, <3>3, <1>1, <1>2, <1>5, QuietHere
  <2> QED BY <2>1, <2>2
<1> HIDE DEF y
<1>7. WriteSound(y, e) BY <1>2, <1>5, QuietSound
<1>8. Extends(x, y) BY <1>2, <1>5, SelfExtends DEF Kept, KeptOut
<1>9. /\ over'[p] = over[p] \cup {s} /\ over'[e] = over[e] /\ over' \in [Ends -> SUBSET StreamIds]
      /\ pos' \in [Ends -> [StreamIds -> Nat]] /\ reqs' \subseteq Requests
  BY <1>1, <1>2 DEF ControlIInv, Shape
<1>10. ArrivedAt(e)' = ArrivedAt(e) /\ CutAt(e)' = CutAt(e)
  <2>1. \A r \in StreamIds : Written(p, r)' = Written(p, r)
    BY <1>1, <1>3, <1>5, <1>7, <1>8, ArrivedSame DEF WriteSound
  <2>2. ArrivedAt(e)' = [r \in StreamIds |-> SubSeq(Written(p, r)', 1, pos'[p][r] \div 2)]
    BY Zenon DEF ArrivedAt, Arrived, Peer
  <2>3. ArrivedAt(e) = [r \in StreamIds |-> SubSeq(Written(p, r), 1, pos[p][r] \div 2)]
    BY Zenon DEF ArrivedAt, Arrived
  <2>4. CutAt(e)' = CutAt(e) BY <1>1 DEF CutAt, Peer
  <2> QED BY <2>1, <2>2, <2>3, <2>4, <1>1
<1>11. \A r \in StreamIds : pos'[p][r] <= 2 * Len(Written(p, r))
  BY <1>1, <1>2 DEF ControlIInv, NothingAhead
<1>12. ReadSound(y, e, ArrivedAt(e)', over'[Peer(e)], CutAt(e)') BY <1>6, <1>9, <1>10
<1>13. ~(scope.scripted = {}) BY <1>1, <1>2
<1> QED BY <1>1, <1>3, <1>5, <1>7, <1>8, <1>9, <1>11, <1>12, <1>13, EndStep

LEMMA StopSendingKeeps ==
  ASSUME ControlIInv, NEW e \in Ends, NEW s \in StreamIds, StopSending(e, s)
  PROVE  ControlIInv'
<1> DEFINE x == con[e]
           z == Fail(x, "H3_CLOSED_CRITICAL_STREAM")
           y == [z EXCEPT !.misused = TRUE]
<1>1. /\ ~Scripted(e) /\ Scripted(Peer(e)) /\ x.error = "none"
      /\ UNCHANGED <<scope, pos, over, reqs>>
  BY DEF StopSending
<1>2. /\ scope \in Scopes /\ x \in Connections /\ Peer(e) \in Ends
      /\ WriteSound(x, e) /\ ReadSound(x, e, ArrivedAt(e), over[Peer(e)], CutAt(e))
      /\ scope.scripted = {} => ~Scripted(Peer(e))
  BY <1>1, InvFacts
<1>3. con' = [con EXCEPT ![e] = y] BY DEF StopSending
<1>4. "H3_CLOSED_CRITICAL_STREAM" \in ErrorCodes \ {"none"} BY ErrorCodesAre
<1>5. /\ z \in Connections /\ z.error = "H3_CLOSED_CRITICAL_STREAM" /\ Kept(x, z)
      /\ KeptStreams(x, z) /\ KeptControl(x, z) /\ KeptOut(x, z)
  BY <1>2, <1>4, FailFacts
<1> HIDE DEF z
<1>6. /\ y \in Connections /\ y.error = z.error /\ y.misused
      /\ y.own = x.own /\ y.out = x.out /\ y.sent = x.sent /\ y.accepted = x.accepted
      /\ KeptStreams(x, y) /\ y.events = x.events
  BY <1>5 DEF Connections, Kept, KeptStreams, KeptControl, KeptOut
<1> HIDE DEF y
<1>7. PendingSound(y) BY <1>2, <1>6 DEF ReadSound, PendingSound, Unresolved, KeptStreams
<1>8. ReadSound(y, e, ArrivedAt(e), over[Peer(e)], CutAt(e))
  BY <1>1, <1>2, <1>4, <1>5, <1>6, <1>7, FailedHere DEF KeptStreams
<1>9. WriteSound(y, e)
  <2>1. AcceptedBelow(y, e) BY <1>2, <1>6 DEF WriteSound, AcceptedBelow
  <2> QED BY <2>1, <1>2, <1>6, WriteSoundSame
<1>10. Extends(x, y) BY <1>2, <1>6, SelfExtends
<1>11. reqs' \subseteq Requests BY <1>1 DEF ControlIInv, Shape
<1> QED BY <1>1, <1>2, <1>3, <1>6, <1>8, <1>9, <1>10, <1>11, CallStep

LEMMA SendRequestKeeps ==
  ASSUME ControlIInv, NEW r \in Requests, SendRequest(r)
  PROVE  ControlIInv'
<1> DEFINE e == "client"
<1>1. /\ ~Scripted(e) /\ UNCHANGED <<scope, con, pos, over>> /\ reqs' = reqs \cup {r} /\ e \in Ends
  BY DEF SendRequest, Ends
<1>2. con \in [Ends -> Connections] /\ reqs' \subseteq Requests
  BY <1>1 DEF ControlIInv, Shape
<1>3. con' = [con EXCEPT ![e] = con[e]] BY <1>1, <1>2
<1> HIDE DEF e
<1>4. /\ con[e] \in Connections /\ WriteSound(con[e], e)
      /\ ReadSound(con[e], e, ArrivedAt(e), over[Peer(e)], CutAt(e))
      /\ scope.scripted = {} => PairSound(con[e], e, con[Peer(e)].sent)
  BY <1>1, InvFacts
<1>5. Extends(con[e], con[e]) BY <1>4, SelfExtends
<1>6. scope.scripted = {} => Heard(con[Peer(e)], Peer(e), con[e].sent) BY <1>1, PairHeard
<1> QED BY <1>1, <1>2, <1>3, <1>4, <1>5, <1>6, CallStep

LEMMA FeedRequestKeeps ==
  ASSUME ControlIInv, NEW r \in Requests, FeedRequest(r)
  PROVE  ControlIInv'
<1> DEFINE e == "server"
           x == con[e]
           y == [x EXCEPT !.accepted = @ \cup {r}]
<1>1. /\ ~Scripted(e) /\ UNCHANGED <<scope, pos, over, reqs>> /\ e \in Ends
      /\ x.error = "none" /\ Accepts(x, r) /\ e # "client"
  BY DEF FeedRequest, Ends
<1>2. con \in [Ends -> Connections] /\ reqs' \subseteq Requests
  BY <1>1 DEF ControlIInv, Shape
<1>3. con' = [con EXCEPT ![e] = y] BY <1>2 DEF FeedRequest
<1> HIDE DEF e
<1>4. /\ x \in Connections /\ WriteSound(x, e) /\ scope \in Scopes
      /\ ReadSound(x, e, ArrivedAt(e), over[Peer(e)], CutAt(e))
      /\ scope.scripted = {} => PairSound(x, e, con[Peer(e)].sent)
  BY <1>1, InvFacts
<1> HIDE DEF x
<1>5. /\ y \in Connections /\ y.error = "none" /\ y.accepted = x.accepted \cup {r}
      /\ y.own = x.own /\ y.sent = x.sent
      /\ KeptStreams(x, y) /\ KeptControl(x, y) /\ KeptOut(x, y)
  BY <1>1, <1>4 DEF Connections, KeptStreams, KeptControl, KeptOut
<1> HIDE DEF y
<1>6. PendingSound(y) BY <1>4, <1>5 DEF ReadSound, PendingSound, Unresolved, KeptStreams
<1>7. \A t \in Critical : x.peer[t] \notin over[Peer(e)] BY <1>1, <1>4 DEF ReadSound, AllRead
<1>8. ReadSound(y, e, ArrivedAt(e), over[Peer(e)], CutAt(e))
  BY <1>1, <1>4, <1>5, <1>6, <1>7, QuietHere DEF KeptStreams
<1>9. AcceptedBelow(y, e)
  BY <1>1, <1>4, <1>5 DEF WriteSound, AcceptedBelow, Accepts
<1>10. WriteSound(y, e)
  BY <1>4, <1>5, <1>9, WriteSoundSame DEF KeptOut
<1>11. Extends(x, y) BY <1>4, <1>5, SelfExtends DEF KeptOut
<1>12. scope.scripted = {} => PairSound(y, e, con[Peer(e)].sent)
  BY <1>4, <1>5 DEF PairSound, WithinPeersCapacity, Heard, KeptControl, KeptOut
<1>13. scope.scripted = {} => Heard(con[Peer(e)], Peer(e), y.sent)
  BY <1>1, <1>5, PairHeard DEF x
<1> QED BY <1>1, <1>2, <1>3, <1>5, <1>8, <1>10, <1>11, <1>12, <1>13, CallStep DEF x

\* A change to what has been written only.
LEMMA ReadSoundSame ==
  ASSUME NEW x, NEW e, NEW a, NEW ended, NEW cut, ReadSound(x, e, a, ended, cut),
         NEW y \in Connections, KeptStreams(x, y), KeptControl(x, y), y.error = x.error,
         y.misused = x.misused
  PROVE  ReadSound(y, e, a, ended, cut)
<1>1. Linked(y, a) /\ ControlRead(y, a) = ControlRead(x, a)
  BY DEF ReadSound, Linked, ControlRead, KeptStreams
<1>2. PendingSound(y) BY DEF ReadSound, PendingSound, Unresolved, KeptStreams
<1>3. ASSUME AllRead(x, e, a, ended) PROVE AllRead(y, e, a, ended)
  <2>1. TypesRead(y, a) /\ InstructionsRead(y, e, a)
    BY <1>3 DEF AllRead, TypesRead, InstructionsRead, KeptStreams
  <2>2. FramesRead(y, e, ControlRead(y, a)) BY <1>1, <1>3 DEF AllRead, FramesRead, KeptControl
  <2> QED BY <2>1, <2>2, <1>3 DEF AllRead, KeptStreams
<1>4. ASSUME FaultFound(x, e, a, ended, cut) PROVE FaultFound(y, e, a, ended, cut)
  BY <1>1, <1>4 DEF FaultFound, KeptControl
<1> QED BY <1>1, <1>2, <1>3, <1>4 DEF ReadSound

\* Nothing but the type, and perhaps a capacity, is written when a stream opens.
Writing(z, out, d) == [z EXCEPT !.out = out, !.deferred = d]
LEMMA WritingFacts ==
  ASSUME NEW z \in Connections, NEW out \in [Critical -> Seq(Items)], NEW d \in Nat
  PROVE  LET y == Writing(z, out, d)
         IN  /\ y \in Connections /\ y.out = out /\ y.deferred = d
             /\ KeptStreams(z, y) /\ KeptControl(z, y)
             /\ y.error = z.error /\ y.misused = z.misused /\ y.sent = z.sent
             /\ y.accepted = z.accepted /\ y.own = z.own
BY DEF Writing, Connections, KeptStreams, KeptControl

LEMMA AppendOne ==
  ASSUME NEW q \in Seq(Items), NEW c \in Items
  PROVE  /\ Append(q, c) \in Seq(Items) /\ Len(Append(q, c)) = Len(q) + 1 /\ Len(q) \in Nat
         /\ \A i \in 1 .. Len(q) : Append(q, c)[i] = q[i]
         /\ Append(q, c)[Len(q) + 1] = c
BY AppendProperties, LenProperties

Opened(x, t, s) ==
    LET z == [x EXCEPT !.own[t] = s,
                       !.out[t] = IF t = "control" THEN @ ELSE Append(@, Type(t))]
    IN  IF t = "encoder" THEN Released(z) ELSE z

LEMMA OpenedFacts ==
  ASSUME NEW x \in Connections, WriteSound(x, "client") \/ WriteSound(x, "server"),
         NEW t \in Critical, x.own[t] = None, NEW s \in StreamIds,
         NEW y, y = Opened(x, t, s)
  PROVE  /\ y \in Connections /\ KeptStreams(x, y) /\ KeptControl(x, y)
         /\ y.error = x.error /\ y.misused = x.misused /\ y.sent = x.sent
         /\ y.accepted = x.accepted /\ y.own = [x.own EXCEPT ![t] = s]
         /\ \A u \in Critical : u # t \/ u = "control" => y.out[u] = x.out[u]
         /\ t # "control" => /\ x.out[t] = <<>> /\ Len(x.out[t]) = 0
                             /\ y.out[t] # <<>> /\ y.out[t][1] = Type(t)
         /\ t = "decoder" => Len(y.out[t]) = 1
         /\ t = "encoder" => /\ Len(y.out[t]) \in {1, 2}
                             /\ \A i \in 2 .. Len(y.out[t]) : y.out[t][i] = SetCapacity(x.deferred)
         /\ y.deferred \in {0, x.deferred}
<1> DEFINE z == [x EXCEPT !.own[t] = s,
                          !.out[t] = IF t = "control" THEN @ ELSE Append(@, Type(t))]
           one == Append(<<>>, Type(t))
           two == Append(one, SetCapacity(x.deferred))
<1>1. x.out \in [Critical -> Seq(Items)] /\ x.own \in [Critical -> Streams] /\ x.deferred \in Nat
  BY DEF Connections
<1>2. t # "control" => x.out[t] = <<>>
  BY DEF WriteSound, QpackWritten, Critical
<1>3. Type(t) \in Items /\ SetCapacity(x.deferred) \in Items BY <1>1, ItemTypes
<1>4. /\ one \in Seq(Items) /\ Len(one) = 1 /\ one[1] = Type(t) /\ one # <<>>
      /\ two \in Seq(Items) /\ Len(two) = 2 /\ two[1] = Type(t) /\ two # <<>>
      /\ two[2] = SetCapacity(x.deferred)
  <2> DEFINE e == <<>>
  <2>1. e \in Seq(Items) /\ Len(e) = 0 BY EmptySeq
  <2> HIDE DEF e
  <2>2. /\ Append(e, Type(t)) \in Seq(Items) /\ Len(Append(e, Type(t))) = 1
        /\ Append(e, Type(t))[1] = Type(t)
    BY <2>1, <1>3, AppendProperties
  <2>3. one \in Seq(Items) /\ Len(one) = 1 /\ one[1] = Type(t) BY <2>2 DEF e
  <2> HIDE DEF one
  <2>4. /\ two \in Seq(Items) /\ Len(two) = 2 /\ two[1] = one[1]
        /\ two[2] = SetCapacity(x.deferred)
    <3> DEFINE c == SetCapacity(x.deferred)
    <3>1. c \in Items BY <1>3
    <3> HIDE DEF c
    <3>2. /\ Append(one, c) \in Seq(Items) /\ Len(Append(one, c)) = 1 + 1
          /\ Append(one, c)[1] = one[1] /\ Append(one, c)[1 + 1] = c
      <4>1. /\ Append(one, c) \in Seq(Items) /\ Len(Append(one, c)) = Len(one) + 1
            /\ \A i \in 1 .. Len(one) : Append(one, c)[i] = one[i]
            /\ Append(one, c)[Len(one) + 1] = c
        BY <2>3, <3>1, AppendOne
      <4> QED BY <4>1, <2>3
    <3> QED BY <3>2 DEF c
  <2>5. one # <<>> /\ two # <<>>
    <3>1. Len(one) # 0 /\ Len(two) # 0 BY <2>3, <2>4
    <3> HIDE DEF two
    <3> QED BY <3>1
  <2> QED BY <2>3, <2>4, <2>5
<1> HIDE DEF one
<1> DEFINE n == IF t = "control" THEN x.out[t] ELSE one
<1>5. n \in Seq(Items) BY <1>1, <1>4
<1>6. z = [x EXCEPT !.own = [x.own EXCEPT ![t] = s], !.out = [x.out EXCEPT ![t] = n]]
  BY <1>2 DEF one
<1> HIDE DEF n, z, two
<1>7. s \in Streams BY DEF Streams
<1>8. /\ z \in Connections /\ KeptStreams(x, z) /\ KeptControl(x, z)
      /\ z.error = x.error /\ z.misused = x.misused /\ z.sent = x.sent
      /\ z.accepted = x.accepted /\ z.own = [x.own EXCEPT ![t] = s]
      /\ z.out = [x.out EXCEPT ![t] = n] /\ z.deferred = x.deferred
  <2> DEFINE own == [x.own EXCEPT ![t] = s]
             out == [x.out EXCEPT ![t] = n]
  <2>1. own \in [Critical -> Streams] /\ out \in [Critical -> Seq(Items)] BY <1>1, <1>5, <1>7
  <2>2. z = [x EXCEPT !.own = own, !.out = out] BY <1>6
  <2> HIDE DEF own, out
  <2>3. /\ z \in Connections /\ KeptStreams(x, z) /\ KeptControl(x, z)
        /\ z.error = x.error /\ z.misused = x.misused /\ z.sent = x.sent
        /\ z.accepted = x.accepted /\ z.own = own /\ z.out = out /\ z.deferred = x.deferred
    BY <2>1, <2>2 DEF Connections, KeptStreams, KeptControl
  <2> QED BY <2>3 DEF own, out
<1>9. z.out[t] = n /\ \A u \in Critical : u # t => z.out[u] = x.out[u] BY <1>1, <1>8
<1>10. y = IF t = "encoder" THEN Released(z) ELSE z BY DEF z, Opened
<1>11. CASE t # "encoder" \/ x.deferred = 0
  <2>1. y = z BY <1>8, <1>10, <1>11 DEF Released
  <2>2. \A u \in Critical : u # t \/ u = "control" => y.out[u] = x.out[u]
    BY <2>1, <1>9 DEF n
  <2>3. t # "control" => y.out[t] = one BY <2>1, <1>9 DEF n
  <2>4. t # "control" => Len(x.out[t]) = 0 BY <1>2, EmptySeq
  <2> QED BY <2>1, <2>2, <2>3, <2>4, <1>2, <1>4, <1>8
<1>12. CASE t = "encoder" /\ x.deferred # 0
  <2>1. y = [z EXCEPT !.out["encoder"] = Append(@, SetCapacity(z.deferred)), !.deferred = 0]
    BY <1>8, <1>10, <1>12 DEF Released
  <2>2. z.out \in [Critical -> Seq(Items)] BY <1>8 DEF Connections
  <2>3. y = [z EXCEPT !.out = [z.out EXCEPT ![t] = two], !.deferred = 0]
    BY <2>1, <2>2, <1>8, <1>9, <1>12 DEF n, two
  <2> DEFINE out == [z.out EXCEPT ![t] = two]
  <2>4. out \in [Critical -> Seq(Items)] BY <2>2, <1>4
  <2>5. y = [z EXCEPT !.out = out, !.deferred = 0] BY <2>3
  <2>6. out[t] = two /\ \A u \in Critical : u # t => out[u] = x.out[u] BY <2>2, <1>9
  <2> HIDE DEF out
  <2>7. /\ y \in Connections /\ KeptStreams(x, y) /\ KeptControl(x, y)
        /\ y.error = x.error /\ y.misused = x.misused /\ y.sent = x.sent
        /\ y.accepted = x.accepted /\ y.own = [x.own EXCEPT ![t] = s]
        /\ y.out = out /\ y.deferred = 0
    <3>1. z \in Connections BY <1>8
    <3>2. 0 \in Nat OBVIOUS
    <3>3. /\ y \in Connections /\ y.out = out /\ y.deferred = 0
          /\ KeptStreams(z, y) /\ KeptControl(z, y)
          /\ y.error = z.error /\ y.misused = z.misused /\ y.sent = z.sent
          /\ y.accepted = z.accepted /\ y.own = z.own
      <4>1. y = Writing(z, out, 0) BY <2>5 DEF Writing
      <4> QED BY <4>1, <2>4, <3>1, <3>2, WritingFacts
    <3> QED BY <3>3, <1>8 DEF KeptStreams, KeptControl
  <2>8. Len(x.out[t]) = 0 BY <1>2, <1>12, EmptySeq
  <2>9. \A i \in 2 .. Len(two) : two[i] = SetCapacity(x.deferred) BY <1>4
  <2> QED BY <2>6, <2>7, <2>8, <2>9, <1>2, <1>4, <1>12
<1> QED BY <1>11, <1>12

LEMMA SetStreamIdKeeps ==
  ASSUME ControlIInv, NEW e \in Ends, NEW t \in Critical, NEW s \in StreamIds,
         SetStreamId(e, t, s)
  PROVE  ControlIInv'
<1> DEFINE x == con[e]
           y == Opened(x, t, s)
           taken == {u \in Critical : x.own[u] # None}
           sent == con[Peer(e)].sent
<1>1. /\ ~Scripted(e) /\ x.own[t] = None /\ s = Cardinality(taken) + 1
      /\ UNCHANGED <<scope, pos, over, reqs>> /\ con' = [con EXCEPT ![e] = y]
  BY Zenon DEF SetStreamId, Opened
<1>2. /\ x \in Connections /\ WriteSound(x, e)
      /\ ReadSound(x, e, ArrivedAt(e), over[Peer(e)], CutAt(e))
      /\ scope.scripted = {} => PairSound(x, e, sent)
  BY <1>1, InvFacts
<1>3. /\ y \in Connections /\ KeptStreams(x, y) /\ KeptControl(x, y)
      /\ y.error = x.error /\ y.misused = x.misused /\ y.sent = x.sent
      /\ y.accepted = x.accepted /\ y.own = [x.own EXCEPT ![t] = s]
      /\ \A u \in Critical : u # t \/ u = "control" => y.out[u] = x.out[u]
      /\ t # "control" => /\ x.out[t] = <<>> /\ Len(x.out[t]) = 0
                          /\ y.out[t] # <<>> /\ y.out[t][1] = Type(t)
      /\ t = "decoder" => Len(y.out[t]) = 1
      /\ t = "encoder" => /\ Len(y.out[t]) \in {1, 2}
                          /\ \A i \in 2 .. Len(y.out[t]) : y.out[t][i] = SetCapacity(x.deferred)
      /\ y.deferred \in {0, x.deferred}
  <2>1. WriteSound(x, "client") \/ WriteSound(x, "server") BY <1>2 DEF Ends
  <2> HIDE DEF x
  <2>2. x.own[t] = None BY <1>1
  <2> QED BY <2>1, <2>2, <1>2, OpenedFacts
<1>4. con \in [Ends -> Connections] /\ reqs' \subseteq Requests
  BY <1>1 DEF ControlIInv, Shape
<1> HIDE DEF x, y
<1>5. x.own \in [Critical -> Streams] /\ x.out \in [Critical -> Seq(Items)] /\ x.deferred \in Nat
  BY <1>2 DEF Connections
<1>6. y.own[t] = s /\ \A u \in Critical : u # t => y.own[u] = x.own[u] BY <1>3, <1>5
<1>7. s # None /\ None = 0 BY DEF None, StreamIds
<1>8. OwnSound(y)
  <2> DEFINE more == {u \in Critical : y.own[u] # None}
  <2>1. more = taken \cup {t} BY <1>6, <1>7
  <2>2. t \notin taken /\ IsFiniteSet(taken)
    <3>1. IsFiniteSet(Critical)
      <4>1. IsFiniteSet({"control", "encoder", "decoder"})
        <5>1. IsFiniteSet({"control"}) BY FS_Singleton
        <5>2. IsFiniteSet({"control"} \cup {"encoder"}) BY <5>1, FS_AddElement
        <5>3. IsFiniteSet(({"control"} \cup {"encoder"}) \cup {"decoder"}) BY <5>2, FS_AddElement
        <5>4. {"control", "encoder", "decoder"} = ({"control"} \cup {"encoder"}) \cup {"decoder"}
          OBVIOUS
        <5> QED BY <5>3, <5>4
      <4> QED BY <4>1 DEF Critical
    <3>2. taken \subseteq Critical OBVIOUS
    <3> QED BY <3>1, <3>2, <1>1, FS_Subset
  <2> HIDE DEF taken, more
  <2>3. Cardinality(more) = Cardinality(taken) + 1 /\ Cardinality(taken) \in Nat
    BY <2>1, <2>2, FS_AddElement, FS_CardinalityType
  <2>4. \A u \in Critical : /\ x.own[u] <= Cardinality(taken)
                            /\ \A v \in Critical : x.own[u] = x.own[v] /\ x.own[u] # None => u = v
    BY <1>2 DEF WriteSound, OwnSound, taken
  <2>5. \A u \in Critical : x.own[u] \in Nat
    <3>1. \A u \in Critical : x.own[u] \in Streams BY <1>5
    <3>2. Streams \subseteq Nat BY DEF Streams, StreamIds, None
    <3> QED BY <3>1, <3>2
  <2>6. \A u \in Critical : y.own[u] <= Cardinality(more)
    BY <1>1, <1>6, <2>3, <2>4, <2>5
  <2>7. \A u \in Critical : u # t => y.own[u] # s
    BY <1>1, <1>6, <2>3, <2>4, <2>5
  <2>8. \A u, v \in Critical : y.own[u] = y.own[v] /\ y.own[u] # None => u = v
    BY <1>6, <2>4, <2>7
  <2> QED BY <2>6, <2>8 DEF OwnSound, more
<1>9. AcceptedBelow(y, e) BY <1>2, <1>3 DEF WriteSound, AcceptedBelow
<1>10. ControlWritten(y, e)
  <2>1. y.out["control"] = x.out["control"] BY <1>3 DEF Critical
  <2> QED BY <2>1, <1>2, <1>3 DEF WriteSound, ControlWritten, GoawaysFall
<1>11. Type("encoder").k = "encoder" /\ SetCapacity(x.deferred).k = "capacity"
       /\ SetCapacity(x.deferred).n = x.deferred
  BY <1>5, ItemTypes DEF Critical
<1>12. QpackWritten(y)
  <2>1. QpackWritten(x) BY <1>2 DEF WriteSound
  <2>2. {"encoder", "decoder"} \subseteq Critical BY DEF Critical
  <2>3. ASSUME NEW u \in {"encoder", "decoder"}
        PROVE  IF y.own[u] = None THEN y.out[u] = <<>> ELSE y.out[u] # <<>> /\ y.out[u][1] = Type(u)
    <3>1. CASE u = t BY <3>1, <2>2, <1>3, <1>6, <1>7
    <3>2. CASE u # t
      <4>1. y.own[u] = x.own[u] /\ y.out[u] = x.out[u] BY <3>2, <2>2, <1>3, <1>6
      <4> QED BY <4>1, <2>1 DEF QpackWritten
    <3> QED BY <3>1, <3>2
  <2>4. \A i \in 2 .. Len(y.out["encoder"]) : y.out["encoder"][i].k = "capacity"
    <3>1. CASE t = "encoder" BY <3>1, <1>3, <1>11
    <3>2. CASE t # "encoder"
      <4>1. y.out["encoder"] = x.out["encoder"] BY <3>2, <2>2, <1>3
      <4> QED BY <4>1, <2>1 DEF QpackWritten
    <3> QED BY <3>1, <3>2
  <2>5. Len(y.out["decoder"]) <= 1
    <3>1. CASE t = "decoder"
      <4>1. Len(y.out["decoder"]) = 1 BY <3>1, <1>3
      <4> QED BY <4>1
    <3>2. CASE t # "decoder"
      <4>1. y.out["decoder"] = x.out["decoder"] BY <3>2, <2>2, <1>3
      <4>2. Len(x.out["decoder"]) <= 1 BY <2>1, Zenon DEF QpackWritten
      <4> QED BY <4>1, <4>2
    <3> QED BY <3>1, <3>2
  <2> QED BY <2>3, <2>4, <2>5 DEF QpackWritten
<1>13. WriteSound(y, e) BY <1>8, <1>9, <1>10, <1>12 DEF WriteSound
<1>14. Extends(x, y)
  <2>1. \A u \in Critical : x.own[u] # None => y.own[u] = x.own[u] BY <1>1, <1>6
  <2>2. \A u \in Critical : Len(x.out[u]) \in Nat /\ Len(y.out[u]) \in Nat
    BY <1>2, <1>3, LenProperties DEF Connections
  <2>3. ASSUME NEW u \in Critical
        PROVE  /\ Len(x.out[u]) <= Len(y.out[u])
               /\ \A i \in 1 .. Len(x.out[u]) : y.out[u][i] = x.out[u][i]
    <3>1. CASE u # t \/ u = "control"
      <4>1. y.out[u] = x.out[u] BY <3>1, <1>3
      <4> QED BY <4>1, <2>2
    <3>2. CASE u = t /\ u # "control"
      <4>1. Len(x.out[u]) = 0 BY <3>2, <1>3
      <4> QED BY <4>1, <2>2
    <3> QED BY <3>1, <3>2
  <2> QED BY <2>1, <2>3 DEF Extends
<1>15. ReadSound(y, e, ArrivedAt(e), over[Peer(e)], CutAt(e)) BY <1>2, <1>3, ReadSoundSame
<1>16. ASSUME scope.scripted = {} PROVE PairSound(y, e, sent)
  <2>1. PairSound(x, e, sent) BY <1>2, <1>16
  <2>2. Heard(y, e, sent) BY <2>1, <1>3 DEF PairSound, Heard, KeptControl
  <2> DEFINE cap == Capacity(scope.local[Peer(e)])
  <2>3. cap \in Nat
    <3>1. Peer(e) \in Ends /\ scope \in Scopes BY InvFacts
    <3> QED BY <3>1, ScopeFacts, CapacityType
  <2>4. /\ x.deferred <= cap
        /\ \A i \in 2 .. Len(x.out["encoder"]) : x.out["encoder"][i].n <= cap
    BY <2>1 DEF PairSound, WithinPeersCapacity
  <2> HIDE DEF cap
  <2>5. y.deferred <= cap BY <2>3, <2>4, <1>3, <1>5
  <2>6. \A i \in 2 .. Len(y.out["encoder"]) : y.out["encoder"][i].n <= cap
    <3>1. CASE t = "encoder" BY <3>1, <2>4, <1>3, <1>11
    <3>2. CASE t # "encoder"
      <4>1. "encoder" \in Critical BY DEF Critical
      <4>2. y.out["encoder"] = x.out["encoder"] BY <3>2, <4>1, <1>3
      <4> QED BY <4>2, <2>4
    <3> QED BY <3>1, <3>2
  <2> QED BY <2>2, <2>5, <2>6 DEF PairSound, WithinPeersCapacity, cap
<1>17. ASSUME scope.scripted = {} PROVE Heard(con[Peer(e)], Peer(e), y.sent)
  BY <1>3, <1>17, PairHeard DEF x
<1> QED BY <1>1, <1>3, <1>4, <1>13, <1>14, <1>15, <1>16, <1>17, CallStep DEF x

LEMMA SendGoawayKeeps ==
  ASSUME ControlIInv, NEW e \in Ends, NEW id \in GoawayIds, SendGoaway(e, id)
  PROVE  ControlIInv'
<1> DEFINE x == con[e]
           bad == \/ (IF e = "server" THEN id % 4 # 0 ELSE id # 0)
                  \/ x.sent # NoGoaway /\ id > x.sent
           z == Fail(x, "H3_ID_ERROR")
           sent == con[Peer(e)].sent
<1>1. /\ ~Scripted(e) /\ x.error = "none" /\ UNCHANGED <<scope, pos, over, reqs>>
      /\ e = "server" => \A r \in x.accepted : r < id
      /\ bad => con' = [con EXCEPT ![e] = [z EXCEPT !.misused = TRUE]]
      /\ ~bad => con' = [con EXCEPT ![e] = [x EXCEPT !.sent = id,
                                                    !.out["control"] = Append(@, Goaway(id))]]
  <2>1. /\ ~Scripted(e) /\ x.error = "none" /\ UNCHANGED <<scope, pos, over, reqs>>
        /\ e = "server" => \A r \in x.accepted : r < id
    BY Zenon DEF SendGoaway
  <2>2. /\ bad => con' = [con EXCEPT ![e] = [z EXCEPT !.misused = TRUE]]
        /\ ~bad => con' = [con EXCEPT ![e] = [x EXCEPT !.sent = id,
                                                    !.out["control"] = Append(@, Goaway(id))]]
    <3> DEFINE B == bad
    <3>1. con' = [con EXCEPT
                   ![e] = IF B THEN [Fail(con[e], "H3_ID_ERROR") EXCEPT !.misused = TRUE]
                          ELSE [con[e] EXCEPT !.sent = id,
                                              !.out["control"] = Append(@, Goaway(id))]]
      BY DEF SendGoaway
    <3>2. B <=> bad OBVIOUS
    <3> HIDE DEF B, bad
    <3> QED BY <3>1, <3>2
  <2> QED BY <2>1, <2>2
<1>2. /\ scope \in Scopes /\ x \in Connections /\ WriteSound(x, e)
      /\ ReadSound(x, e, ArrivedAt(e), over[Peer(e)], CutAt(e))
      /\ scope.scripted = {} =>
            PairSound(x, e, sent) /\ Heard(con[Peer(e)], Peer(e), x.sent)
  BY <1>1, InvFacts, PairHeard
<1>3. reqs' \subseteq Requests BY <1>1 DEF ControlIInv, Shape
<1>4. CASE bad
  <2> DEFINE y == [z EXCEPT !.misused = TRUE]
  <2>1. con' = [con EXCEPT ![e] = y] BY <1>1, <1>4
  <2>2. "H3_ID_ERROR" \in ErrorCodes \ {"none"} BY ErrorCodesAre
  <2>3. /\ z \in Connections /\ z.error = "H3_ID_ERROR" /\ Kept(x, z)
        /\ KeptStreams(x, z) /\ KeptControl(x, z) /\ KeptOut(x, z)
    BY <1>2, <2>2, FailFacts
  <2> HIDE DEF z, x
  <2>4. /\ y \in Connections /\ y.error = z.error /\ y.misused
        /\ y.own = x.own /\ y.out = x.out /\ y.sent = x.sent /\ y.accepted = x.accepted
        /\ KeptStreams(x, y) /\ KeptControl(x, y) /\ y.deferred = x.deferred
    BY <2>3 DEF Connections, Kept, KeptStreams, KeptControl, KeptOut
  <2> HIDE DEF y
  <2>5. PendingSound(y) BY <1>2, <2>4 DEF ReadSound, PendingSound, Unresolved, KeptStreams
  <2>6. ReadSound(y, e, ArrivedAt(e), over[Peer(e)], CutAt(e))
    BY <1>1, <1>2, <2>2, <2>3, <2>4, <2>5, FailedHere DEF KeptStreams, KeptControl
  <2>7. WriteSound(y, e)
    <3>1. AcceptedBelow(y, e) BY <1>2, <2>4 DEF WriteSound, AcceptedBelow
    <3> QED BY <3>1, <1>2, <2>4, WriteSoundSame
  <2>8. Extends(x, y) BY <1>2, <2>4, SelfExtends
  <2>9. scope.scripted = {} => PairSound(y, e, sent)
    BY <1>2, <2>4 DEF PairSound, WithinPeersCapacity, Heard, KeptControl
  <2> QED BY <1>1, <1>2, <1>3, <2>1, <2>4, <2>6, <2>7, <2>8, <2>9, CallStep DEF x
<1>5. CASE ~bad
  <2> DEFINE y == [x EXCEPT !.sent = id, !.out["control"] = Append(@, Goaway(id))]
             q == x.out["control"]
             r == y.out["control"]
  <2>1. con' = [con EXCEPT ![e] = y] BY <1>1, <1>5
  <2>2. id \in Nat /\ Goaway(id) \in Items /\ Goaway(id).k = "goaway" /\ Goaway(id).n = id
    <3>1. id \in Nat BY ControlAssumption
    <3> QED BY <3>1, ItemTypes
  <2>3. /\ e = "server" => id % 4 = 0
        /\ x.sent # NoGoaway => id <= x.sent
    <3>1. x.sent \in Nat \cup {NoGoaway} BY <1>2 DEF Connections
    <3>2. /\ e = "server" => ~(id % 4 # 0)
          /\ x.sent # NoGoaway => ~(id > x.sent)
      BY <1>5
    <3> HIDE DEF x, bad
    <3> QED BY <3>1, <3>2, <2>2
  <2> HIDE DEF x
  <2>4. /\ x.out \in [Critical -> Seq(Items)] /\ x.sent \in Nat \cup {NoGoaway}
        /\ x.own \in [Critical -> Streams]
    BY <1>2 DEF Connections
  <2>5. q \in Seq(Items) BY <2>4 DEF Critical
  <2>6. /\ Append(q, Goaway(id)) \in Seq(Items)
        /\ Len(Append(q, Goaway(id))) = Len(q) + 1 /\ Len(q) \in Nat
        /\ \A i \in 1 .. Len(q) : Append(q, Goaway(id))[i] = q[i]
        /\ Append(q, Goaway(id))[Len(q) + 1] = Goaway(id)
    <3> HIDE DEF q
    <3> QED BY <2>2, <2>5, AppendOne
  <2> DEFINE w == Append(q, Goaway(id))
             out == [x.out EXCEPT !["control"] = w]
  <2>7. y = [x EXCEPT !.sent = id, !.out = out] BY <2>4
  <2>8. out \in [Critical -> Seq(Items)] /\ out["control"] = w
        /\ out["encoder"] = x.out["encoder"] /\ out["decoder"] = x.out["decoder"]
    BY <2>4, <2>6 DEF Critical
  <2> HIDE DEF w, out, y, q
  <2>9. /\ y \in Connections /\ y.sent = id /\ y.out = out /\ y.own = x.own
        /\ y.error = x.error /\ y.misused = x.misused /\ y.accepted = x.accepted
        /\ y.deferred = x.deferred /\ KeptStreams(x, y) /\ KeptControl(x, y)
    <3>1. x \in Connections BY <1>2
    <3> QED BY <3>1, <2>2, <2>7, <2>8 DEF Connections, KeptStreams, KeptControl
  <2>10. ReadSound(y, e, ArrivedAt(e), over[Peer(e)], CutAt(e))
    BY <1>2, <2>9, ReadSoundSame
  <2>11. r = w BY <2>8, <2>9
  <2>12. GoawaysFall(y, e)
    <3> SUFFICES ASSUME NEW i \in 3 .. Len(r)
                 PROVE  /\ r[i].k = "goaway" /\ id # NoGoaway /\ id <= r[i].n
                        /\ e = "server" => r[i].n % 4 = 0
                        /\ \A j \in 3 .. i - 1 : r[i].n <= r[j].n
      BY <2>9 DEF GoawaysFall
    <3>1. /\ Len(r) = Len(q) + 1 /\ Len(q) \in Nat
          /\ \A j \in 1 .. Len(q) : r[j] = q[j]
          /\ r[Len(q) + 1] = Goaway(id)
      BY <2>6, <2>11 DEF w
    <3>2. \A j \in 3 .. Len(q) :
             /\ q[j].k = "goaway" /\ x.sent # NoGoaway /\ x.sent <= q[j].n
             /\ e = "server" => q[j].n % 4 = 0
             /\ \A k \in 3 .. j - 1 : q[j].n <= q[k].n
      BY <1>2 DEF WriteSound, ControlWritten, GoawaysFall, q
    <3>3. \A j \in 3 .. Len(q) : q[j].n \in Nat
      <4>1. \A j \in 1 .. Len(q) : q[j] \in Items BY <2>5
      <4> QED BY <4>1 DEF Items
    <3>4. id # NoGoaway BY <2>2 DEF NoGoaway
    <3>5. \A j \in 3 .. Len(q) : id <= q[j].n
      <4> TAKE j \in 3 .. Len(q)
      <4>1. x.sent # NoGoaway /\ x.sent <= q[j].n /\ q[j].n \in Nat BY <3>2, <3>3
      <4> QED BY <4>1, <2>2, <2>3, <2>4
    <3> HIDE DEF r
    <3>6. CASE i = Len(q) + 1
      <4>1. r[i] = Goaway(id) BY <3>1, <3>6
      <4>2. \A j \in 3 .. i - 1 : j \in 3 .. Len(q) /\ r[j] = q[j] BY <3>1, <3>6
      <4> QED BY <4>1, <4>2, <3>4, <3>5, <2>2, <2>3
    <3>7. CASE i # Len(q) + 1
      <4>1. i \in 3 .. Len(q) /\ r[i] = q[i] BY <3>1, <3>7
      <4>2. \A j \in 3 .. i - 1 : j \in 3 .. Len(q) /\ r[j] = q[j] BY <3>1, <4>1
      <4> QED BY <4>1, <4>2, <3>2, <3>4, <3>5
    <3> QED BY <3>6, <3>7
  <2>13. ControlWritten(y, e)
    <3>1. /\ Len(q) >= 2 /\ q[1] = Type("control")
          /\ q[2] = SettingsFrame(FromSettings(scope.local[e]))
      BY <1>2 DEF WriteSound, ControlWritten, q
    <3>2. Len(r) >= 2 /\ r[1] = q[1] /\ r[2] = q[2] BY <3>1, <2>6, <2>11 DEF w
    <3> QED BY <3>1, <3>2, <2>12 DEF ControlWritten
  <2>14. QpackWritten(y) BY <1>2, <2>8, <2>9 DEF WriteSound, QpackWritten
  <2>15. OwnSound(y) BY <1>2, <2>9 DEF WriteSound, OwnSound
  <2>16. AcceptedBelow(y, e)
    <3>1. CASE e = "server"
      <4>1. \A k \in x.accepted : k < id BY <3>1, <1>1 DEF x
      <4> QED BY <3>1, <4>1, <2>9 DEF AcceptedBelow
    <3>2. CASE e = "client" BY <3>2, <1>2, <2>9 DEF WriteSound, AcceptedBelow
    <3>3. e = "client" => x.accepted = {} BY <1>2 DEF WriteSound, AcceptedBelow
    <3> QED BY <3>1, <3>2, <3>3 DEF Ends
  <2>17. WriteSound(y, e) BY <2>13, <2>14, <2>15, <2>16 DEF WriteSound
  <2>18. Extends(x, y)
    <3>1. \A t \in Critical : Len(x.out[t]) \in Nat BY <2>4, LenProperties
    <3>2. Critical = {"control", "encoder", "decoder"} BY DEF Critical
    <3>3. /\ Len(q) <= Len(w) /\ \A i \in 1 .. Len(q) : w[i] = q[i] BY <2>6 DEF w
    <3> QED BY <3>1, <3>2, <3>3, <2>8, <2>9 DEF Extends, q
  <2>19. ASSUME scope.scripted = {}
         PROVE  PairSound(y, e, sent) /\ Heard(con[Peer(e)], Peer(e), y.sent)
    <3>1. PairSound(x, e, sent) /\ Heard(con[Peer(e)], Peer(e), x.sent) BY <1>2, <2>19
    <3>2. PairSound(y, e, sent)
      BY <3>1, <2>8, <2>9 DEF PairSound, WithinPeersCapacity, Heard, KeptControl
    <3>3. Heard(con[Peer(e)], Peer(e), y.sent)
      <4> DEFINE g == con[Peer(e)].goaway
      <4>1. g \in Nat \cup {NoGoaway} BY InvFacts DEF Connections
      <4>2. g # NoGoaway => x.sent # NoGoaway /\ x.sent <= g BY <3>1 DEF Heard
      <4>3. g # NoGoaway => id # NoGoaway /\ id <= g
        BY <4>1, <4>2, <2>2, <2>3, <2>4 DEF NoGoaway
      <4> QED BY <3>1, <4>3, <2>9 DEF Heard
    <3> QED BY <3>2, <3>3
  <2> QED BY <1>1, <1>3, <2>1, <2>9, <2>10, <2>17, <2>18, <2>19, CallStep DEF x
<1> QED BY <1>4, <1>5

\* A new connection has read nothing, and written its SETTINGS.
LEMMA NewConnectionSound ==
  ASSUME scope \in Scopes, NEW e \in Ends, NEW a, \A s \in StreamIds : a[s] = <<>>, NEW cut,
         NEW x, x = NewConnection(scope.local[e])
  PROVE  /\ x \in Connections /\ Untouched(x) /\ x.sent = NoGoaway /\ x.deferred = 0 /\ ~x.known
         /\ x.out["encoder"] = <<>> /\ \A t \in Critical : x.own[t] = None
         /\ WriteSound(x, e) /\ ReadSound(x, e, a, {}, cut)
<1> DEFINE payload == FromSettings(scope.local[e])
           w == <<Type("control"), SettingsFrame(payload)>>
           none == [t \in Critical |-> None]
           out == [t \in Critical |-> IF t = "control" THEN w ELSE <<>>]
<1>1. payload \in Payloads
  <2>1. scope.local[e] \in AnySettings BY ScopeFacts
  <2>2. payload \in Seq(Params) BY <2>1, FromSettingsIs
  <2> QED BY <2>2 DEF Payloads, Params
<1> HIDE DEF payload
<1>2. SettingsFrame(payload) \in Items /\ Type("control") \in Items
  <2>1. "settings" \in ItemKinds /\ "control" \in ItemKinds BY DEF ItemKinds, FrameKinds, Critical
  <2>2. SettingsFrame(payload) \in Items BY <1>1, <2>1 DEF SettingsFrame, Item, Items
  <2> QED BY <2>1, <2>2, ItemTypes
<1>3. /\ w \in Seq(Items) /\ Len(w) = 2 /\ w[1] = Type("control") /\ w[2] = SettingsFrame(payload)
  <2> DEFINE c == Type("control")
             d == SettingsFrame(payload)
  <2> HIDE DEF c, d
  <2>1. c \in Items /\ d \in Items BY <1>2 DEF c, d
  <2>2. <<c, d>> \in Seq(Items) /\ Len(<<c, d>>) = 2 /\ <<c, d>>[1] = c /\ <<c, d>>[2] = d
    BY <2>1
  <2> QED BY <2>2 DEF c, d
<1>4. /\ x.own = none /\ x.out = out /\ x.deferred = 0 /\ x.peer = none /\ x.ready = FALSE
      /\ x.pending = {} /\ x.ignored = {} /\ x.known = FALSE /\ x.settings = NoSettings
      /\ x.goaway = NoGoaway /\ x.sent = NoGoaway /\ x.push = -1 /\ x.error = "none"
      /\ x.events = <<>> /\ x.accepted = {} /\ x.misused = FALSE
  BY DEF NewConnection, payload
<1> HIDE DEF w
<1>5. <<>> \in Seq(Items) BY EmptySeq
<1>6. none \in [Critical -> Streams] BY DEF Streams
<1>7. out \in [Critical -> Seq(Items)] BY <1>3, <1>5
<1>8. /\ out["control"] = w /\ out["encoder"] = <<>> /\ out["decoder"] = <<>>
      /\ \A t \in Critical : none[t] = None
  BY DEF Critical
<1>9. NoSettings \in AnySettings BY DEF NoSettings, AnySettings, Absent
<1>10. x \in Connections
  <2> HIDE DEF none, out
  <2>1. x = [own |-> none, out |-> out, deferred |-> 0, peer |-> none, ready |-> FALSE,
             pending |-> {}, ignored |-> {}, known |-> FALSE, settings |-> NoSettings,
             goaway |-> NoGoaway, sent |-> NoGoaway, push |-> -1, error |-> "none",
             events |-> <<>>, accepted |-> {}, misused |-> FALSE]
    BY Zenon DEF NewConnection, none, out, w, payload
  <2> QED BY <2>1, <1>5, <1>6, <1>7, <1>9, ErrorCodesAre DEF Connections
<1> HIDE DEF none, out
<1>11. WriteSound(x, e)
  <2>1. OwnSound(x)
    <3>1. {u \in Critical : x.own[u] # None} = {} BY <1>4, <1>8
    <3>2. \A t \in Critical : x.own[t] = 0 BY <1>4, <1>8 DEF None
    <3>3. Cardinality({u \in Critical : x.own[u] # None}) = 0 BY <3>1, FS_EmptySet
    <3>4. \A t \in Critical : ~(x.own[t] # None) BY <3>2 DEF None
    <3> QED BY <3>2, <3>3, <3>4 DEF OwnSound
  <2>2. ControlWritten(x, e)
    <3>1. x.out["control"] = w BY <1>4, <1>8
    <3>2. GoawaysFall(x, e)
      <4>1. Len(x.out["control"]) = 2 BY <3>1, <1>3
      <4> QED BY <4>1 DEF GoawaysFall
    <3> QED BY <3>1, <3>2, <1>3 DEF ControlWritten, payload
  <2>3. QpackWritten(x)
    <3>1. Len(<<>>) = 0 OBVIOUS
    <3> QED BY <3>1, <1>4, <1>8 DEF QpackWritten, Critical
  <2>4. AcceptedBelow(x, e) BY <1>4 DEF AcceptedBelow
  <2> QED BY <2>1, <2>2, <2>3, <2>4 DEF WriteSound
<1>12. ReadSound(x, e, a, {}, cut)
  <2>1. \A s \in StreamIds : TypeOf(a[s]) = "?" /\ Len(a[s]) = 0 BY DEF TypeOf
  <2>2. TypesRead(x, a) BY <2>1, <1>4 DEF TypesRead, Critical
  <2>3. InstructionsRead(x, e, a) BY <2>1 DEF InstructionsRead
  <2>4. ControlRead(x, a) = <<>> BY <1>4, <1>8 DEF ControlRead, Critical
  <2>5. FramesRead(x, e, <<>>)
    <3>1. DOMAIN <<>> = {} OBVIOUS
    <3> QED BY <3>1, <1>4, NoEventsOf DEF FramesRead
  <2>6. Linked(x, a) /\ PendingSound(x) BY <1>4, <1>8 DEF Linked, PendingSound
  <2> QED BY <1>4, <1>10, <2>2, <2>3, <2>4, <2>5, <2>6 DEF ReadSound, AllRead
<1> QED BY <1>4, <1>8, <1>10, <1>11, <1>12 DEF Untouched

LEMMA ControlInit ==
  ASSUME Init
  PROVE  ControlIInv
<1>1. /\ scope \in Scopes /\ con = [e \in Ends |-> NewConnection(scope.local[e])]
      /\ pos = [e \in Ends |-> [s \in StreamIds |-> 0]]
      /\ over = [e \in Ends |-> {}] /\ reqs = {}
  BY DEF Init
<1>2. \A e \in Ends : Peer(e) \in Ends BY DEF Peer, Ends
<1>3. ASSUME NEW e \in Ends, NEW a, \A s \in StreamIds : a[s] = <<>>, NEW cut
      PROVE  /\ con[e] \in Connections /\ Untouched(con[e]) /\ con[e].sent = NoGoaway
             /\ con[e].deferred = 0 /\ ~con[e].known /\ con[e].out["encoder"] = <<>>
             /\ \A t \in Critical : con[e].own[t] = None
             /\ WriteSound(con[e], e) /\ ReadSound(con[e], e, a, {}, cut)
  <2> DEFINE x == con[e]
  <2>1. x = NewConnection(scope.local[e]) BY <1>1
  <2> HIDE DEF x
  <2>2. /\ x \in Connections /\ Untouched(x) /\ x.sent = NoGoaway /\ x.deferred = 0 /\ ~x.known
        /\ x.out["encoder"] = <<>> /\ \A t \in Critical : x.own[t] = None
        /\ WriteSound(x, e) /\ ReadSound(x, e, a, {}, cut)
    <3>1. scope \in Scopes BY <1>1
    <3> QED BY ZenonT(30), <1>3, <2>1, <3>1, NewConnectionSound
  <2> QED BY <2>2 DEF x
<1>4. \A e \in Ends : /\ con[e] \in Connections /\ Untouched(con[e]) /\ con[e].sent = NoGoaway
                      /\ con[e].deferred = 0 /\ ~con[e].known /\ con[e].out["encoder"] = <<>>
                      /\ \A t \in Critical : con[e].own[t] = None
                      /\ WriteSound(con[e], e)
  <2> DEFINE a == [s \in StreamIds |-> <<>>]
  <2>1. \A s \in StreamIds : a[s] = <<>> OBVIOUS
  <2> HIDE DEF a
  <2> QED BY <2>1, <1>3
<1>5. ASSUME NEW p \in Ends, NEW s \in StreamIds
      PROVE  Written(p, s) \in Seq(Items)
  <2>1. CASE Scripted(p)
    <3>1. Written(p, s) = scope.script[p][s] BY <2>1, Zenon DEF Written
    <3>2. scope.script[p][s] \in Scripts BY <1>1, <2>1, ScopeFacts DEF Scripted
    <3> QED BY <3>1, <3>2 DEF Scripts
  <2>2. CASE ~Scripted(p)
    <3>1. s # None BY DEF None, StreamIds
    <3>2. ~ \E t \in Critical : con[p].own[t] = s BY <3>1, <1>4
    <3>3. Written(p, s) = <<>> BY <2>2, <3>2, Zenon DEF Written
    <3> QED BY <3>3, EmptySeq
  <2> QED BY <2>1, <2>2
<1>6. \A p \in Ends, s \in StreamIds : pos[p][s] = 0 /\ over[p] = {} BY <1>1
<1>7. ASSUME NEW e \in Ends, NEW s \in StreamIds PROVE ArrivedAt(e)[s] = <<>>
  <2> DEFINE w == Written(Peer(e), s)
  <2>1. ArrivedAt(e)[s] = SubSeq(w, 1, pos[Peer(e)][s] \div 2) BY DEF ArrivedAt, Arrived
  <2>2. pos[Peer(e)][s] \div 2 = 0 BY <1>2, <1>6
  <2>3. w \in Seq(Items) BY <1>2, <1>5
  <2> HIDE DEF w
  <2>4. SubSeq(w, 1, 0) = <<>> BY <2>3
  <2> QED BY <2>1, <2>2, <2>4
<1>8. Shape
  <2>1. pos \in [Ends -> [StreamIds -> Nat]] /\ over \in [Ends -> SUBSET StreamIds] BY <1>1
  <2>2. con \in [Ends -> Connections] BY <1>1, <1>4
  <2> QED BY <1>1, <2>1, <2>2 DEF Shape
<1>9. NothingAhead
  <2>1. ASSUME NEW p \in Ends, NEW s \in StreamIds PROVE pos[p][s] <= 2 * Len(Written(p, s))
    <3>1. Len(Written(p, s)) \in Nat BY <1>5, LenProperties
    <3> QED BY <3>1, <1>6
  <2> QED BY <2>1 DEF NothingAhead
<1>10. EndsSound
  <2>1. ASSUME NEW e \in Ends
        PROVE  ReadSound(con[e], e, ArrivedAt(e), over[Peer(e)], CutAt(e))
    <3>1. over[Peer(e)] = {} BY <1>2, <1>1
    <3> HIDE DEF ArrivedAt
    <3> QED BY <3>1, <1>3, <1>7
  <2> QED BY <1>4, <2>1 DEF EndsSound
<1>11. PairsSound
  <2>1. ASSUME NEW e \in Ends PROVE over[e] = {} /\ PairSound(con[e], e, con[Peer(e)].sent)
    <3>1. Capacity(scope.local[Peer(e)]) \in Nat BY <1>1, <1>2, ScopeFacts, CapacityType
    <3>2. Len(con[e].out["encoder"]) = 0 BY <1>4
    <3>3. WithinPeersCapacity(con[e], e) BY <3>1, <3>2, <1>4 DEF WithinPeersCapacity
    <3>4. Heard(con[e], e, con[Peer(e)].sent) BY <1>4 DEF Heard, Untouched
    <3> QED BY <3>3, <3>4, <1>1 DEF PairSound
  <2> QED BY <2>1 DEF PairsSound
<1> QED BY <1>8, <1>9, <1>10, <1>11 DEF ControlIInv

LEMMA ControlStutter ==
  ASSUME ControlIInv, UNCHANGED vars
  PROVE  ControlIInv'
<1>1. scope' = scope /\ con' = con /\ pos' = pos /\ over' = over /\ reqs' = reqs BY DEF vars
<1>2. \A p, s : Written(p, s)' = Written(p, s) BY <1>1 DEF Written, Scripted
<1>3. \A e : ArrivedAt(e)' = ArrivedAt(e) BY <1>1, <1>2 DEF ArrivedAt, Arrived
<1>4. \A e : CutAt(e)' = CutAt(e) BY <1>1 DEF CutAt
<1>5. Shape' BY <1>1 DEF ControlIInv, Shape
<1>6. NothingAhead' BY <1>1, <1>2 DEF ControlIInv, NothingAhead
<1>7. EndsSound'
  <2>1. ASSUME NEW e \in Ends
        PROVE  (IF Scripted(e) THEN Untouched(con[e])
                ELSE /\ WriteSound(con[e], e)
                     /\ ReadSound(con[e], e, ArrivedAt(e), over[Peer(e)], CutAt(e)))'
    <3> DEFINE x == con[e]
               a == ArrivedAt(e)
               ended == over[Peer(e)]
               cut == CutAt(e)
    <3>1. con'[e] = x /\ ArrivedAt(e)' = a /\ over'[Peer(e)] = ended /\ CutAt(e)' = cut
      BY <1>1, <1>3, <1>4
    <3>2. Scripted(e)' <=> Scripted(e) BY <1>1 DEF Scripted
    <3>3. Untouched(con[e])' <=> Untouched(x) BY <1>1 DEF Untouched
    <3>4. IF Scripted(e) THEN Untouched(x)
          ELSE WriteSound(x, e) /\ ReadSound(x, e, a, ended, cut)
      BY DEF ControlIInv, EndsSound
    <3> QED BY <1>1, <3>1, <3>2, <3>3, <3>4, ReadSoundLasts, WriteSoundLasts
  <2> QED BY <2>1 DEF EndsSound
<1>8. PairsSound'
  <2>1. ASSUME NEW e \in Ends, scope.scripted = {}
        PROVE  (over[e] = {} /\ PairSound(con[e], e, con[Peer(e)].sent))'
    <3>1. over[e] = {} /\ PairSound(con[e], e, con[Peer(e)].sent)
      BY <2>1 DEF ControlIInv, PairsSound
    <3> QED BY <1>1, <3>1, PairSoundLasts
  <2> QED BY <1>1, <2>1 DEF PairsSound
<1> QED BY <1>5, <1>6, <1>7, <1>8 DEF ControlIInv

LEMMA ControlNext ==
  ASSUME ControlIInv, [Next]_vars
  PROVE  ControlIInv'
<1>1. CASE UNCHANGED vars BY <1>1, ControlStutter
<1>2. ASSUME NEW e \in Ends, NEW t \in scope.opens, NEW s \in StreamIds, SetStreamId(e, t, s)
      PROVE  ControlIInv'
  <2>1. t \in Critical BY InvFacts, ScopeFacts
  <2> QED BY <1>2, <2>1, SetStreamIdKeeps
<1>3. ASSUME NEW e \in Ends, NEW id \in GoawayIds, SendGoaway(e, id) PROVE ControlIInv'
  BY <1>3, SendGoawayKeeps
<1>4. ASSUME NEW e \in Ends, NEW s \in StreamIds, NEW n \in 0 .. MaxChunk, NEW fin \in BOOLEAN,
             FeedStream(e, s, n, fin)
      PROVE  ControlIInv'
  BY <1>4, FeedStreamKeeps
<1>5. ASSUME NEW e \in Ends, NEW s \in StreamIds, StreamReset(e, s) PROVE ControlIInv'
  BY <1>5, StreamResetKeeps
<1>6. ASSUME NEW e \in Ends, NEW s \in StreamIds, StopSending(e, s) PROVE ControlIInv'
  BY <1>6, StopSendingKeeps
<1>7. ASSUME NEW r \in Requests, SendRequest(r) PROVE ControlIInv' BY <1>7, SendRequestKeeps
<1>8. ASSUME NEW r \in Requests, FeedRequest(r) PROVE ControlIInv' BY <1>8, FeedRequestKeeps
<1> QED BY <1>1, <1>2, <1>3, <1>4, <1>5, <1>6, <1>7, <1>8, Zenon DEF Next

(***************************************************************************)
(* What the invariant gives.                                               *)
(***************************************************************************)
\* Nothing wrong has been read: nothing wrong has arrived.
LEMMA AllReadFaultless ==
  ASSUME scope \in Scopes, NEW e \in Ends, NEW x \in Connections,
         NEW a \in [StreamIds -> Scripts], Linked(x, a), NEW ended, AllRead(x, e, a, ended), NEW cut, NEW c
  PROVE  c \notin FaultsIn(e, a, ended, cut)
<1>1. /\ TypesRead(x, a) /\ InstructionsRead(x, e, a) /\ FramesRead(x, e, ControlRead(x, a))
      /\ \A t \in Critical : x.peer[t] \notin ended
  BY DEF AllRead
<1>2. \A s \in StreamIds : a[s] \in Seq(Items) BY DEF Scripts
<1>3. \A s \in StreamIds : /\ TypeOf(a[s]) \in Critical => x.peer[TypeOf(a[s])] = s /\ s \notin ended
                           /\ TypeOf(a[s]) # "push"
  BY <1>1 DEF TypesRead
<1>4. \A s \in StreamIds : s # None BY DEF StreamIds, None
<1>5. ASSUME NEW s \in StreamIds, TypeOf(a[s]) = "control", NEW i \in DOMAIN Tail(a[s])
      PROVE  c \notin FrameFaults(e, Tail(a[s]), i)
  <2>1. x.peer["control"] = s BY <1>3, <1>5 DEF Critical
  <2>2. ControlRead(x, a) = Tail(a[s]) BY <1>4, <2>1 DEF ControlRead
  <2> QED BY <1>1, <1>5, <2>2 DEF FramesRead
<1>6. ASSUME NEW s \in StreamIds, TypeOf(a[s]) \in Critical, NEW i \in DOMAIN Tail(a[s])
      PROVE  /\ TypeOf(a[s]) = "encoder" =>
                   /\ Tail(a[s])[i].k = "capacity"
                   /\ Tail(a[s])[i].n \in Nat
                   /\ Tail(a[s])[i].n <= Capacity(scope.local[e])
             /\ TypeOf(a[s]) = "decoder" => Tail(a[s])[i].k = "cancel"
  <2> DEFINE q == a[s]
  <2>1. q \in Seq(Items) /\ q # <<>>
    <3>1. "?" \notin Critical BY DEF Critical
    <3> QED BY <1>2, <1>6, <3>1 DEF TypeOf
  <2>2. x.peer[TypeOf(q)] = s BY <1>3, <1>6
  <2> HIDE DEF q
  <2>3. /\ Tail(q) \in Seq(Items) /\ Len(Tail(q)) = Len(q) - 1 /\ Len(q) \in Nat
        /\ \A j \in 1 .. Len(Tail(q)) : Tail(q)[j] = q[j + 1]
    BY <2>1, HeadTailProperties, LenProperties
  <2>4. DOMAIN Tail(q) = 1 .. Len(Tail(q)) BY <2>3, LenProperties
  <2>5. i \in 1 .. Len(q) - 1 /\ Tail(q)[i] = q[i + 1] BY <1>6, <2>3, <2>4 DEF q
  <2>6. i + 1 \in 2 .. Len(q) BY <2>3, <2>5
  <2>7. Tail(q)[i] \in Items BY <2>3, <2>4, <2>5
  <2>8. /\ s = x.peer["encoder"] => q[i + 1].k = "capacity" /\ q[i + 1].n <= Capacity(scope.local[e])
        /\ s = x.peer["decoder"] => q[i + 1].k = "cancel"
    BY <1>1, <2>6 DEF InstructionsRead, q
  <2>9. Tail(q)[i].n \in Nat BY <2>7 DEF Items
  <2> QED BY <2>2, <2>5, <2>8, <2>9 DEF q
<1>7. ~FrameFault(c, e, a) BY <1>5 DEF FrameFault
<1>8. ~StreamFault(c, e, a, ended, cut)
  <2>1. ASSUME NEW r \in StreamIds, NEW s \in StreamIds, TypeOf(a[r]) = TypeOf(a[s]),
               TypeOf(a[s]) \in Critical
        PROVE  r = s
    BY <1>3, <2>1
  <2>2. \A s \in StreamIds : TypeOf(a[s]) = "control" => s \notin ended BY <1>3 DEF Critical
  <2>3. \A s \in StreamIds : \A i \in DOMAIN Tail(a[s]) :
           ~ (/\ TypeOf(a[s]) = "encoder"
              /\ Tail(a[s])[i].k # "capacity" \/ Tail(a[s])[i].n > Capacity(scope.local[e]))
    <3> TAKE s \in StreamIds
    <3> TAKE i \in DOMAIN Tail(a[s])
    <3> SUFFICES ASSUME TypeOf(a[s]) = "encoder"
                 PROVE  Tail(a[s])[i].k = "capacity" /\ ~(Tail(a[s])[i].n > Capacity(scope.local[e]))
      OBVIOUS
    <3>1. TypeOf(a[s]) \in Critical BY DEF Critical
    <3> DEFINE n == Tail(a[s])[i].n
               cap == Capacity(scope.local[e])
    <3>2. Tail(a[s])[i].k = "capacity" /\ n \in Nat /\ n <= cap BY <1>6, <3>1
    <3>3. cap \in Nat BY ScopeFacts, CapacityType
    <3> HIDE DEF n, cap
    <3>4. ~(n > cap) BY <3>2, <3>3
    <3> QED BY <3>2, <3>4 DEF n, cap
  <2>4. \A s \in StreamIds : \A i \in DOMAIN Tail(a[s]) :
           ~(TypeOf(a[s]) = "decoder" /\ Tail(a[s])[i].k # "cancel")
    BY <1>6 DEF Critical
  <2> QED BY <1>3, <2>1, <2>2, <2>3, <2>4 DEF StreamFault
<1> QED BY <1>7, <1>8, FaultsInAre

\* What end p of this library has written is not wrong, as far as it has arrived.
LEMMA WrittenFaultless ==
  ASSUME scope \in Scopes, scope.previous = NoSettings, NEW p \in Ends,
         NEW y \in Connections, WriteSound(y, p), WithinPeersCapacity(y, p),
         NEW a \in [StreamIds -> Scripts],
         \A s \in StreamIds : /\ Len(a[s]) <= Len(WrittenBy(y, s))
                              /\ \A i \in 1 .. Len(a[s]) : a[s][i] = WrittenBy(y, s)[i],
         NEW cut, NEW c
  PROVE  c \notin FaultsIn(Peer(p), a, {}, cut)
<1> DEFINE e == Peer(p)
<1>1. e \in Ends /\ Peer(e) = p BY DEF Peer, Ends
<1>2. /\ OwnSound(y) /\ ControlWritten(y, p) /\ QpackWritten(y) BY DEF WriteSound
<1>3. \A s \in StreamIds : s # None BY DEF StreamIds, None
<1>4. y.out \in [Critical -> Seq(Items)] /\ y.sent \in Nat \cup {NoGoaway} BY DEF Connections
<1>5. /\ \A t \in Critical : Type(t) \in Items /\ Type(t).k = t
      /\ SettingsFrame(FromSettings(scope.local[p])).k = "settings"
      /\ SettingsFrame(FromSettings(scope.local[p])).s = FromSettings(scope.local[p])
  BY ItemTypes DEF SettingsFrame, Item
<1> HIDE DEF e
\* A stream is what its end has written there.
<1>6. ASSUME NEW s \in StreamIds, a[s] # <<>>
      PROVE  /\ TypeOf(a[s]) \in Critical /\ y.own[TypeOf(a[s])] = s
             /\ WrittenBy(y, s) = y.out[TypeOf(a[s])] /\ Len(a[s]) \in Nat \ {0}
             /\ Len(a[s]) <= Len(y.out[TypeOf(a[s])])
             /\ \A i \in 1 .. Len(a[s]) : a[s][i] = y.out[TypeOf(a[s])][i]
             /\ DOMAIN Tail(a[s]) = 1 .. Len(a[s]) - 1
             /\ \A i \in 1 .. Len(a[s]) - 1 : Tail(a[s])[i] = a[s][i + 1]
  <2> DEFINE q == a[s]
             w == WrittenBy(y, s)
  <2>1. q \in Seq(Items) /\ q # <<>> BY <1>6 DEF Scripts
  <2>2. w \in Seq(Items) /\ Len(q) <= Len(w) /\ \A i \in 1 .. Len(q) : q[i] = w[i]
    BY <1>2, WrittenByIs
  <2>3. /\ \A t \in Critical : y.own[t] = s => w = y.out[t]
        /\ (\A t \in Critical : y.own[t] # s) => w = <<>>
    BY <1>2, WrittenByIs
  <2>4. TypeOf(q) = q[1].k BY <2>1 DEF TypeOf
  <2> HIDE DEF q, w
  <2>5. Len(q) \in Nat \ {0} /\ Len(w) \in Nat \ {0} /\ q[1] = w[1] /\ Len(<<>>) = 0
    <3>1. Len(q) \in Nat /\ Len(w) \in Nat /\ Len(q) # 0 BY <2>1, <2>2, LenProperties, EmptySeq
    <3> QED BY <3>1, <2>2
  <2>6. PICK t \in Critical : y.own[t] = s /\ w = y.out[t] BY <2>3, <2>5
  <2>7. w[1] = Type(t)
    <3>1. CASE t = "control" BY <3>1, <2>6, <1>2 DEF ControlWritten
    <3>2. CASE t # "control"
      <4>1. t \in {"encoder", "decoder"} BY <3>2 DEF Critical
      <4> QED BY <4>1, <2>6, <1>2, <1>3 DEF QpackWritten
    <3> QED BY <3>1, <3>2
  <2>8. TypeOf(q) = t BY <2>4, <2>5, <2>7, <1>5
  <2>9. /\ DOMAIN Tail(q) = 1 .. Len(q) - 1
        /\ \A i \in 1 .. Len(q) - 1 : Tail(q)[i] = q[i + 1]
    BY <2>1, <2>5, HeadTailProperties, LenProperties
  <2> QED BY <2>2, <2>5, <2>6, <2>8, <2>9 DEF q, w
<1>7. \A s \in StreamIds : a[s] = <<>> => TypeOf(a[s]) = "?" BY DEF TypeOf
<1>8. "?" \notin Critical /\ "push" \notin Critical /\ "?" # "push" BY DEF Critical
<1>9. ASSUME NEW s \in StreamIds, TypeOf(a[s]) = "control", NEW i \in DOMAIN Tail(a[s])
      PROVE  c \notin FrameFaults(e, Tail(a[s]), i)
  <2> DEFINE g == Tail(a[s])
             w == y.out["control"]
  <2>1. a[s] # <<>> BY <1>9, <1>7
  <2>2. /\ Len(a[s]) \in Nat \ {0} /\ Len(a[s]) <= Len(w) /\ Len(w) \in Nat
        /\ DOMAIN g = 1 .. Len(a[s]) - 1
        /\ \A j \in 1 .. Len(a[s]) - 1 : g[j] = a[s][j + 1]
        /\ \A j \in 1 .. Len(a[s]) : a[s][j] = w[j]
    <3>1. Len(w) \in Nat BY <1>4, LenProperties DEF Critical
    <3> QED BY <1>6, <1>9, <2>1, <3>1
  <2>3. /\ i \in 1 .. Len(a[s]) - 1 /\ i + 1 \in 1 .. Len(w)
        /\ \A j \in 1 .. i : g[j] = w[j + 1]
    <3>1. i \in 1 .. Len(a[s]) - 1 BY <1>9, <2>2
    <3> HIDE DEF g, w
    <3> QED BY <3>1, <2>2
  <2>4. /\ w[2] = SettingsFrame(FromSettings(scope.local[p]))
        /\ \A j \in 3 .. Len(w) : /\ w[j].k = "goaway"
                                  /\ p = "server" => w[j].n % 4 = 0
                                  /\ \A k \in 3 .. j - 1 : w[j].n <= w[k].n
    BY <1>2 DEF ControlWritten, GoawaysFall
  <2>5. \A j \in 1 .. Len(w) : w[j].n \in Nat
    <3>1. \A j \in 1 .. Len(w) : w[j] \in Items BY <1>4 DEF Critical
    <3> QED BY <3>1 DEF Items
  <2> HIDE DEF g, w
  <2>6. ~FaultOf(c, e, g[i], i = 1, Rises(g, i), Falls(g, i))
    <3>1. CASE i = 1
      <4>1. g[i] = w[2] BY <2>3, <3>1
      <4>2. g[i].k = "settings" /\ g[i].s = FromSettings(scope.local[p]) BY <4>1, <2>4, <1>5
      <4>3. ~SettingsFault(e, g[i].s)
        <5>1. Configured(p, scope.local[p]) BY ScopeFacts
        <5>2. ~InvalidSetting(g[i].s) BY <4>2, <5>1, WrittenSettingsValid
        <5>3. ASSUME e = "client"
              PROVE  ~(FromPayload(g[i].s).v["WT_ENABLED"] > 1)
                     /\ ~(FromPayload(g[i].s).v["WT_ENABLED_DRAFT17"] > 1)
          <6>1. p = "server" BY <5>3, <1>1 DEF Peer
          <6> DEFINE l == scope.local[p]
                     r == WireSettings(l)
          <6>2. FromPayload(g[i].s) = r BY <4>2 DEF WireSettings
          <6>3. Configured(p, l) BY <5>1
          <6>4. l.v["WT_ENABLED"] <= 1 /\ l.v["WT_ENABLED_DRAFT17"] <= 1 /\ l \in AnySettings
            BY <5>1, <6>1 DEF Configured
          <6> HIDE DEF l, r
          <6>5. r \in AnySettings BY <6>4, WireSettingsAre DEF r
          <6>6. \A id \in WtSet : r.v[id] > 0 => r.v[id] = l.v[id] BY <6>3, WireKeeps DEF r
          <6>7. {"WT_ENABLED", "WT_ENABLED_DRAFT17"} \subseteq WtSet BY DEF WtSet
          <6>8. {"WT_ENABLED", "WT_ENABLED_DRAFT17"} \subseteq Range(Ids)
            BY IdsAre DEF IdSet
          <6>9. \A id \in {"WT_ENABLED", "WT_ENABLED_DRAFT17"} : r.v[id] \in Int /\ l.v[id] \in Int
            <7>1. \A id \in Range(Ids) : r.v[id] \in Nat \cup {Absent} /\ l.v[id] \in Nat \cup {Absent}
              BY <6>4, <6>5 DEF AnySettings
            <7> QED BY <7>1, <6>8 DEF Absent
          <6>10. ~(r.v["WT_ENABLED"] > 1) /\ ~(r.v["WT_ENABLED_DRAFT17"] > 1)
            BY <6>4, <6>6, <6>7, <6>9
          <6> QED BY <6>2, <6>10
        <5> QED BY <5>2, <5>3, Zenon DEF SettingsFault
      <4> QED BY <3>1, <4>2, <4>3 DEF FaultOf
    <3>2. CASE i # 1
      <4>1. i + 1 \in 3 .. Len(w) /\ g[i] = w[i + 1] BY <2>2, <2>3, <3>2
      <4>2. g[i].k = "goaway" /\ (e = "client" => g[i].n % 4 = 0)
        <5>1. e = "client" => p = "server" BY <1>1 DEF Peer
        <5> QED BY <4>1, <5>1, <2>4
      <4>3. ~Rises(g, i)
        <5>1. ASSUME NEW j \in 1 .. i - 1, g[j].k = "goaway" PROVE ~(g[j].n < g[i].n)
          <6>1. j \in 1 .. i /\ j + 1 \in 1 .. Len(w) /\ g[j] = w[j + 1] BY <2>2, <2>3
          <6>2. j # 1
            <7>1. j = 1 => g[j] = w[2] BY <6>1
            <7> QED BY <7>1, <5>1, <2>4, <1>5
          <6>3. j + 1 \in 3 .. (i + 1) - 1 BY <6>2, <2>3
          <6>4. w[i + 1].n <= w[j + 1].n BY <6>3, <4>1, <2>4
          <6>5. w[i + 1].n \in Nat /\ w[j + 1].n \in Nat BY <2>3, <2>5, <6>1
          <6> QED BY <4>1, <6>1, <6>4, <6>5
        <5> QED BY <5>1 DEF Rises
      <4> QED BY <3>2, <4>2, <4>3 DEF FaultOf
    <3> QED BY <3>1, <3>2
  <2>7. i \in Nat \ {0} BY <2>3
  <2> QED BY <2>6, <2>7, FrameFaultsAre DEF g
<1>10. ASSUME NEW s \in StreamIds, NEW i \in DOMAIN Tail(a[s])
       PROVE  /\ TypeOf(a[s]) = "encoder" =>
                    Tail(a[s])[i].k = "capacity" /\ ~(Tail(a[s])[i].n > Capacity(scope.local[e]))
              /\ TypeOf(a[s]) # "decoder"
  <2>1. ASSUME TypeOf(a[s]) \in Critical
        PROVE  LET w == y.out[TypeOf(a[s])]
               IN  i + 1 \in 2 .. Len(w) /\ Len(w) \in Nat /\ Tail(a[s])[i] = w[i + 1]
    <3>1. a[s] # <<>> BY <2>1, <1>7, <1>8
    <3> DEFINE w == y.out[TypeOf(a[s])]
    <3>2. Len(w) \in Nat BY <2>1, <1>4, LenProperties
    <3>3. /\ Len(a[s]) \in Nat \ {0} /\ Len(a[s]) <= Len(w)
          /\ DOMAIN Tail(a[s]) = 1 .. Len(a[s]) - 1
          /\ \A j \in 1 .. Len(a[s]) - 1 : Tail(a[s])[j] = a[s][j + 1]
          /\ \A j \in 1 .. Len(a[s]) : a[s][j] = w[j]
      BY <3>1, <1>6
    <3> HIDE DEF w
    <3>4. i \in 1 .. Len(a[s]) - 1 BY <3>3
    <3>5. i + 1 \in 1 .. Len(a[s]) /\ i + 1 \in 2 .. Len(w) BY <3>2, <3>3, <3>4
    <3> QED BY <3>2, <3>3, <3>4, <3>5 DEF w
  <2>2. ASSUME TypeOf(a[s]) = "encoder"
        PROVE  Tail(a[s])[i].k = "capacity" /\ ~(Tail(a[s])[i].n > Capacity(scope.local[e]))
    <3> DEFINE w == y.out["encoder"]
               f == Tail(a[s])[i]
               cap == Capacity(scope.local[e])
    <3>1. TypeOf(a[s]) \in Critical BY <2>2 DEF Critical
    <3>2. i + 1 \in 2 .. Len(w) /\ f = w[i + 1] /\ Len(w) \in Nat BY <2>1, <2>2, <3>1
    <3>3. w \in Seq(Items) BY <1>4 DEF Critical
    <3>4. cap \in Nat BY <1>1, ScopeFacts, CapacityType
    <3>5. w[i + 1].k = "capacity" /\ w[i + 1].n <= cap
      BY <3>2, <1>1, <1>2 DEF QpackWritten, WithinPeersCapacity, e
    <3> HIDE DEF w, f, cap
    <3>6. i + 1 \in 1 .. Len(w) BY <3>2
    <3>7. w[i + 1] \in Items BY <3>3, <3>6
    <3>8. w[i + 1].n \in Nat BY <3>7 DEF Items
    <3> QED BY <3>2, <3>4, <3>5, <3>8 DEF f, cap
  <2>3. ASSUME TypeOf(a[s]) = "decoder" PROVE FALSE
    <3>1. TypeOf(a[s]) \in Critical BY <2>3 DEF Critical
    <3> DEFINE w == y.out["decoder"]
    <3>2. i + 1 \in 2 .. Len(w) /\ Len(w) \in Nat BY <2>1, <2>3, <3>1
    <3>3. Len(w) <= 1 BY <1>2, Zenon DEF QpackWritten
    <3> HIDE DEF w
    <3> QED BY <3>2, <3>3
  <2> QED BY <2>2, <2>3
<1>11. ~FrameFault(c, e, a) BY <1>9 DEF FrameFault
<1>12. ~StreamFault(c, e, a, {}, cut)
  <2>1. ASSUME NEW r \in StreamIds, NEW s \in StreamIds, TypeOf(a[r]) = TypeOf(a[s]),
               TypeOf(a[s]) \in Critical
        PROVE  r = s
    <3>1. a[r] # <<>> /\ a[s] # <<>> BY <2>1, <1>7, <1>8
    <3> QED BY <2>1, <3>1, <1>6
  <2>2. \A s \in StreamIds : TypeOf(a[s]) # "push"
    <3> TAKE s \in StreamIds
    <3>1. CASE a[s] = <<>> BY <3>1, <1>7, <1>8
    <3>2. CASE a[s] # <<>> BY <3>2, <1>6, <1>8
    <3> QED BY <3>1, <3>2
  <2> QED BY <1>10, <2>1, <2>2 DEF StreamFault
<1> QED BY <1>11, <1>12, FaultsInAre DEF e

LEMMA ReadExactly ==
  ASSUME ControlIInv
  PROVE  StreamsReadExactly
<1>1. \A e \in Ends : Faults(e) = FaultsIn(e, ArrivedAt(e), over[Peer(e)], CutAt(e))
  BY Zenon DEF Faults, ArrivedAt, CutAt
<1>2. TypeOK
  <2>1. ASSUME NEW e \in Ends
        PROVE  /\ {con[e].own, con[e].peer} \subseteq [Critical -> StreamIds \cup {None}]
               /\ con[e].error \in ErrorCodes
               /\ con[e].pending \subseteq {s \in StreamIds : Unresolved(con[e], s)}
               /\ con[e].ignored \subseteq StreamIds
    <3> DEFINE x == con[e]
    <3>1. x \in Connections BY InvFacts
    <3>2. PendingSound(x)
      <4>1. CASE Scripted(e) BY <4>1, InvFacts DEF Untouched, PendingSound
      <4>2. CASE ~Scripted(e) BY <4>2, InvFacts DEF ReadSound
      <4> QED BY <4>1, <4>2
    <3> HIDE DEF x
    <3>3. /\ x.own \in [Critical -> Streams] /\ x.peer \in [Critical -> Streams]
          /\ x.error \in ErrorCodes /\ x.pending \subseteq StreamIds /\ x.ignored \subseteq StreamIds
      BY <3>1 DEF Connections
    <3>4. x.pending \subseteq {s \in StreamIds : Unresolved(x, s)}
      BY <3>2, <3>3 DEF PendingSound
    <3> QED BY <3>3, <3>4 DEF Streams, x
  <2> QED BY <2>1 DEF TypeOK, ControlIInv, Shape
<1>3. ErrorsExact
  <2>1. ASSUME NEW e \in Ends \ scope.scripted, ~con[e].misused
        PROVE  IF Faults(e) = {} THEN con[e].error = "none" ELSE con[e].error \in Faults(e)
    <3>1. /\ con[e] \in Connections /\ scope \in Scopes
          /\ ReadSound(con[e], e, ArrivedAt(e), over[Peer(e)], CutAt(e))
      BY <2>1, InvFacts DEF Scripted
    <3>2. CASE con[e].error = "none"
      <4>1. AllRead(con[e], e, ArrivedAt(e), over[Peer(e)]) /\ Linked(con[e], ArrivedAt(e))
        BY <3>1, <3>2 DEF ReadSound
      <4>2. \A c : c \notin FaultsIn(e, ArrivedAt(e), over[Peer(e)], CutAt(e))
        BY <3>1, <4>1, AllReadFaultless, ArrivedAtType
      <4> QED BY <3>2, <4>2, <1>1
    <3>3. CASE con[e].error # "none"
      <4>1. con[e].error \in FaultsIn(e, ArrivedAt(e), over[Peer(e)], CutAt(e))
        BY <2>1, <3>1, <3>3 DEF ReadSound, FaultFound
      <4>2. con[e].error \in Faults(e) BY <4>1, <1>1
      <4> QED BY <4>2
    <3> QED BY <3>2, <3>3
  <2> QED BY <2>1 DEF ErrorsExact
<1>4. PeersAccepted
  <2>1. ASSUME scope.scripted = {}, NEW e \in Ends, con[e].error # "none", ~con[e].misused
        PROVE  FALSE
    <3> DEFINE p == Peer(e)
               y == con[p]
               a == ArrivedAt(e)
    <3>1. p \in Ends /\ Peer(p) = e BY DEF Peer, Ends
    <3>2. /\ scope \in Scopes /\ scope.previous = NoSettings /\ over[p] = {} /\ y \in Connections
          /\ WriteSound(y, p) /\ WithinPeersCapacity(y, p)
          /\ ~Scripted(p) /\ ~Scripted(e)
          /\ ReadSound(con[e], e, a, over[p], CutAt(e))
      <4>1. scope \in Scopes BY InvFacts
      <4>2. scope.previous = NoSettings BY <2>1, <4>1, ScopeFacts
      <4>3. ~Scripted(p) /\ ~Scripted(e) BY <2>1 DEF Scripted
      <4>4. PairSound(y, p, con[Peer(p)].sent) BY <2>1, <3>1, InvFacts
      <4> QED BY <2>1, <3>1, <4>1, <4>2, <4>3, <4>4, InvFacts DEF PairSound
    <3>3. con[e].error \in FaultsIn(e, a, {}, CutAt(e))
      BY <2>1, <3>2 DEF ReadSound, FaultFound
    <3>4. ASSUME NEW s \in StreamIds
          PROVE  /\ Len(a[s]) <= Len(WrittenBy(y, s))
                 /\ \A i \in 1 .. Len(a[s]) : a[s][i] = WrittenBy(y, s)[i]
      <4> DEFINE w == Written(p, s)
                 n == pos[p][s] \div 2
      <4>1. /\ w \in Seq(Items) /\ w = WrittenBy(y, s) /\ n \in Nat /\ n <= Len(w)
            /\ a[s] = SubSeq(w, 1, n)
        <5>1. a[s] = SubSeq(w, 1, n) BY DEF ArrivedAt, Arrived
        <5>2. w \in Scripts /\ w = WrittenBy(y, s) /\ n \in Nat /\ n <= Len(w)
          BY <3>1, <3>2, WrittenIs
        <5> QED BY <5>1, <5>2 DEF Scripts
      <4> HIDE DEF w, n, a, y
      <4>2. Len(w) \in Nat BY <4>1, LenProperties
      <4>3. Len(SubSeq(w, 1, n)) = n /\ \A i \in 1 .. n : SubSeq(w, 1, n)[i] = w[i]
        BY <4>1, <4>2
      <4> QED BY <4>1, <4>3
    <3>5. a \in [StreamIds -> Scripts] BY ArrivedAtType
    <3> HIDE DEF a, y
    <3>6. con[e].error \notin FaultsIn(Peer(p), a, {}, CutAt(e))
      BY <3>1, <3>2, <3>4, <3>5, WrittenFaultless
    <3> QED BY <3>1, <3>3, <3>6
  <2> QED BY <2>1 DEF PeersAccepted
<1>5. ControlDelivered
  <2>1. ASSUME NEW e \in Ends \ scope.scripted, con[e].peer["control"] # None
        PROVE  LET all == EventsOf(Tail(Arrived(Peer(e), con[e].peer["control"])))
               IN  IF con[e].error = "none" THEN con[e].events = all
                   ELSE IsPrefix(con[e].events, all)
    <3> DEFINE x == con[e]
               s == x.peer["control"]
               a == ArrivedAt(e)
    <3>1. x \in Connections /\ ReadSound(x, e, a, over[Peer(e)], CutAt(e))
      BY <2>1, InvFacts DEF Scripted
    <3>2. s \in StreamIds
      <4>1. x.peer \in [Critical -> Streams] BY <3>1 DEF Connections
      <4> QED BY <2>1, <4>1 DEF Critical, Streams
    <3>3. a[s] = Arrived(Peer(e), s) BY <3>2 DEF ArrivedAt
    <3>4. ControlRead(x, a) = Tail(Arrived(Peer(e), s)) BY <2>1, <3>3 DEF ControlRead
    <3>5. IF x.error = "none" THEN x.events = EventsOf(ControlRead(x, a))
          ELSE IsPrefix(x.events, EventsOf(ControlRead(x, a)))
      BY <3>1 DEF ReadSound, AllRead, FramesRead, FaultFound
    <3> QED BY <3>4, <3>5
  <2> QED BY <2>1 DEF ControlDelivered
<1> QED BY <1>2, <1>3, <1>4, <1>5 DEF StreamsReadExactly

LEMMA Honoured ==
  ASSUME ControlIInv
  PROVE  GoawayHonoured
<1> DEFINE c == con["client"]
           s == con["server"]
<1>1. "client" \in Ends /\ "server" \in Ends /\ Peer("client") = "server" BY DEF Ends, Peer
<1>2. c \in Connections /\ s \in Connections BY <1>1, InvFacts
<1>3. CASE Scripted("client")
  <2>1. c.goaway = NoGoaway BY <1>1, <1>3, InvFacts DEF Untouched
  <2> QED BY <2>1 DEF GoawayHonoured
<1>4. CASE Scripted("server")
  <2>1. s.accepted = {} BY <1>1, <1>4, InvFacts DEF Untouched
  <2> QED BY <2>1 DEF GoawayHonoured
<1>5. CASE ~Scripted("client") /\ ~Scripted("server")
  <2>1. scope.scripted = {}
    <3>1. scope.scripted \subseteq Ends BY <1>1, InvFacts, ScopeFacts
    <3> QED BY <1>5, <3>1 DEF Scripted, Ends
  <2>2. c.goaway # NoGoaway => s.sent # NoGoaway /\ s.sent <= c.goaway
    BY <1>1, <2>1, InvFacts DEF PairSound, Heard
  <2>3. s.sent # NoGoaway => \A r \in s.accepted : r < s.sent
    BY <1>1, <1>5, InvFacts DEF WriteSound, AcceptedBelow
  <2>4. /\ c.goaway \in Nat \cup {NoGoaway} /\ s.sent \in Nat \cup {NoGoaway}
        /\ s.accepted \subseteq Nat
    BY <1>2, ControlAssumption DEF Connections
  <2> HIDE DEF c, s
  <2>5. ASSUME NEW r, c.goaway # NoGoaway, r >= c.goaway, r \in s.accepted PROVE FALSE
    <3>1. r \in Nat /\ c.goaway \in Nat /\ s.sent \in Nat /\ s.sent <= c.goaway /\ r < s.sent
      BY <2>2, <2>3, <2>4, <2>5
    <3> QED BY <2>5, <3>1
  <2> QED BY <2>5 DEF GoawayHonoured, c, s
<1> QED BY <1>3, <1>4, <1>5

LEMMA Agree ==
  ASSUME ControlIInv
  PROVE  NegotiationAgrees
<1> SUFFICES ASSUME scope.scripted = {}, con["client"].known, con["server"].known
             PROVE  NegotiationAgrees
  BY Zenon DEF NegotiationAgrees
<1> DEFINE l == scope.local["client"]
           m == scope.local["server"]
           t == Transport
<1>1. /\ "client" \in Ends /\ "server" \in Ends
      /\ Peer("client") = "server" /\ Peer("server") = "client"
  BY DEF Ends, Peer
<1>2. Configured("client", l) /\ Configured("server", m) BY <1>1, InvFacts, ScopeFacts
<1>3. con["client"].settings = WireSettings(m) /\ con["server"].settings = WireSettings(l)
  BY <1>1, InvFacts DEF PairSound, Heard, PeerSettings, WireSettings
<1> HIDE DEF l, m, t
<1>4. SelectDraft("client", l, WireSettings(m)) # NoDraft =>
         SelectDraft("server", m, WireSettings(l)) = SelectDraft("client", l, WireSettings(m))
  BY <1>2, DraftsAgree
<1>5. FullyNegotiated("client", l, WireSettings(m), t) => FullyNegotiated("server", m, WireSettings(l), t)
  BY <1>2, NegotiationsAgree
<1>6. FlowControlEnabled(l, WireSettings(m)) = FlowControlEnabled(m, WireSettings(l))
  <2>1. FlowControlEnabled(l, WireSettings(m)) <=> FlowControlEnabled(m, WireSettings(l))
    BY <1>2, FlowControlAgrees
  <2>2. FlowControlEnabled(l, WireSettings(m)) \in BOOLEAN
        /\ FlowControlEnabled(m, WireSettings(l)) \in BOOLEAN
    BY Zenon DEF FlowControlEnabled
  <2> QED BY <2>1, <2>2
<1> QED BY <1>3, <1>4, <1>5, <1>6, Zenon DEF NegotiationAgrees, Negotiated, l, m, t

(***************************************************************************)
(* The theorems.                                                           *)
(***************************************************************************)
\* What each end has read and written, and what the ends know of each other,
\* stays sound through every handler (ControlIInv).
THEOREM ControlInvariant == Spec => []ControlIInv
<1>1. Init => ControlIInv BY ControlInit
<1>2. ControlIInv /\ [Next]_vars => ControlIInv' BY ControlNext
<1> QED BY <1>1, <1>2, PTL DEF Spec

\* However its streams are cut into chunks and interleaved, a peer is
\* disconnected exactly for what is wrong, two ends of this library never
\* disconnect one another, and the events are those of the control stream
\* (feed_stream, process_control_stream).
THEOREM StreamsAlwaysReadExactly == Spec => []StreamsReadExactly
<1>1. ControlIInv => StreamsReadExactly BY ReadExactly
<1> QED BY <1>1, ControlInvariant, PTL

\* No request that the client may send again elsewhere was accepted
\* (send_goaway, handle_bidirectional_stream, ReceiveGoaway).
THEOREM GoawayAlwaysHonoured == Spec => []GoawayHonoured
<1>1. ControlIInv => GoawayHonoured BY Honoured
<1> QED BY <1>1, ControlInvariant, PTL

\* Two ends that know each other's SETTINGS agree on the draft, on whether a
\* session may start and on flow control (select_wt_draft_version,
\* is_wt_fully_negotiated, is_wt_flow_control_enabled).
THEOREM NegotiationAlwaysAgrees == Spec => []NegotiationAgrees
<1>1. ControlIInv => NegotiationAgrees BY Agree
<1> QED BY <1>1, ControlInvariant, PTL
=============================================================================
