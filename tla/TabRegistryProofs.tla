-------------------------- MODULE TabRegistryProofs --------------------------
(***************************************************************************)
(* Proofs about TabRegistry for any set of equally long target ids: the    *)
(* two maps stay inverse, so short ids never collide, and the unchecked    *)
(* fallback of assignShortLocked is never reached.                         *)
(***************************************************************************)
EXTENDS TabRegistry, TLAPS, SequenceTheorems, NaturalsInduction, WellFoundedInduction

\* A suffix of length n is a string of n digits, hence never the empty "none",
\* and one of the short ids.
LEMMA SuffixFacts ==
  ASSUME NEW t \in Targets, NEW n \in CandidateLens
  PROVE  /\ Suffix(t, n) \in Seq(Digits)
         /\ Len(Suffix(t, n)) = n
         /\ \A i \in 1..n : Suffix(t, n)[i] = t[IdLen - n + i]
         /\ Suffix(t, n) # None
         /\ Suffix(t, n) \in Candidates(t)
         /\ Suffix(t, n) \in ShortIds
<1>1. n \in Nat /\ 1 <= n /\ n <= IdLen /\ IdLen \in Nat
  BY RegistryAssumption DEF CandidateLens
<1>2. t \in [1..IdLen -> Digits]
  BY RegistryAssumption
<1>3. \A i \in (IdLen - n + 1)..IdLen : t[i] \in Digits
  BY <1>1, <1>2
<1>4. /\ Suffix(t, n) \in Seq(Digits)
      /\ Len(Suffix(t, n)) = n
      /\ \A i \in 1..n : Suffix(t, n)[i] = t[IdLen - n + i]
  <2>1. IdLen - n + 1 \in Int /\ IdLen \in Int
    BY <1>1
  <2>2. /\ SubSeq(t, IdLen - n + 1, IdLen) \in Seq(Digits)
        /\ Len(SubSeq(t, IdLen - n + 1, IdLen)) =
               IF IdLen - n + 1 <= IdLen THEN IdLen - (IdLen - n + 1) + 1 ELSE 0
        /\ \A i \in 1..(IdLen - (IdLen - n + 1) + 1) :
               SubSeq(t, IdLen - n + 1, IdLen)[i] = t[IdLen - n + 1 + i - 1]
    BY <1>3, <2>1, SubSeqProperties
  <2>3. IdLen - (IdLen - n + 1) + 1 = n /\ IdLen - n + 1 <= IdLen
    BY <1>1
  <2>4. \A i \in 1..n : IdLen - n + 1 + i - 1 = IdLen - n + i
    BY <1>1
  <2>5. QED  BY <2>2, <2>3, <2>4 DEF Suffix
<1>5. Suffix(t, n) # None
  BY <1>1, <1>4 DEF None
<1>6. QED  BY <1>4, <1>5 DEF Candidates, ShortIds

\* Only t itself has t's full id among its candidates.
LEMMA FullIdIsOwn ==
  ASSUME NEW t \in Targets, NEW u \in Targets, NEW n \in CandidateLens,
         Suffix(u, n) = Suffix(t, IdLen)
  PROVE  u = t
<1>1. IdLen \in CandidateLens /\ IdLen \in Nat
  BY RegistryAssumption DEF CandidateLens
<1>2. n = IdLen
  BY <1>1, SuffixFacts
<1>3. \A i \in 1..IdLen : u[IdLen - IdLen + i] = t[IdLen - IdLen + i]
  BY <1>1, <1>2, SuffixFacts
<1>4. \A i \in 1..IdLen : u[i] = t[i]
  BY <1>1, <1>3
<1>5. /\ u = [i \in 1..IdLen |-> u[i]]
      /\ t = [i \in 1..IdLen |-> t[i]]
  BY RegistryAssumption
<1>6. [i \in 1..IdLen |-> u[i]] = [i \in 1..IdLen |-> t[i]]
  BY <1>4
<1>7. QED  BY <1>5, <1>6, Zenon

\* Every non-empty set of naturals has a least element.
LEMMA LeastElement ==
  ASSUME NEW S, S \subseteq Nat, S # {}
  PROVE  \E n \in S : \A m \in S : n <= m
<1>1. IsWellFoundedOn(OpToRel(<, Nat), Nat)
  BY NatLessThanWellFounded
<1>2. \E n \in S : \A m \in S : ~(<<m, n>> \in OpToRel(<, Nat))
  BY <1>1, WFMin
<1>3. \A n, m \in S : ~(<<m, n>> \in OpToRel(<, Nat)) => n <= m
  BY DEF OpToRel
<1>4. QED  BY <1>2, <1>3

\* If t's full id is not taken, the search finds a free candidate: the
\* fallback of assignShortLocked is not reached.
LEMMA ShortestFreeIsFree ==
  ASSUME NEW t \in Targets, NEW taken, Suffix(t, IdLen) \notin taken
  PROVE  /\ ShortestFree(t, taken) \in CandidateLens
         /\ Suffix(t, ShortestFree(t, taken)) \notin taken
<1>1. IdLen \in FreeLens(t, taken)
  BY RegistryAssumption DEF FreeLens, CandidateLens
<1>2. FreeLens(t, taken) \subseteq Nat
  BY RegistryAssumption DEF FreeLens, CandidateLens
<1>3. \E n \in FreeLens(t, taken) : \A m \in FreeLens(t, taken) : n <= m
  BY <1>1, <1>2, LeastElement
<1>4. ShortestFree(t, taken) \in FreeLens(t, taken)
  BY <1>1, <1>3 DEF ShortestFree
<1>5. QED  BY <1>4 DEF FreeLens

\* Two different ids are ordered, so a sync assigns one before the other.
LEMMA BeforeTotal ==
  ASSUME NEW t \in Targets, NEW u \in Targets, t # u
  PROVE  Before(t, u) \/ Before(u, t)
<1> DEFINE D == {i \in 1..IdLen : t[i] # u[i]}
<1>1. t \in [1..IdLen -> Digits] /\ u \in [1..IdLen -> Digits] /\ IdLen \in Nat
  BY RegistryAssumption
<1>2. D # {} /\ D \subseteq Nat
  BY <1>1
<1>3. PICK i \in D : \A j \in D : i <= j
  BY <1>2, LeastElement
<1>4. \A j \in 1..(i - 1) : t[j] = u[j]
  BY <1>1, <1>3
<1>5. t[i] \in Int /\ u[i] \in Int /\ t[i] # u[i]
  BY <1>1, <1>3, RegistryAssumption
<1>6. i \in 1..IdLen
  BY <1>3
<1>7. QED  BY <1>4, <1>5, <1>6 DEF Before

-----------------------------------------------------------------------------
\* The inductive invariant: type, the inverse maps, and what they rest on.
RegistryInv ==
    /\ RegistryTypeOK
    /\ MapsInverse
    /\ OwnSuffix
    /\ SelectedRegistered

\* A target's full id is held by nobody else.
LEMMA FullIdFree ==
  ASSUME RegistryInv, NEW t \in Targets
  PROVE  Suffix(t, IdLen) \notin TakenFrom(t)
<1> SUFFICES ASSUME Suffix(t, IdLen) \in TakenFrom(t)
             PROVE  FALSE
  OBVIOUS
<1> DEFINE s == Suffix(t, IdLen)
           u == shortToTarget[s]
<1>1. s \in ShortIds /\ u \in Targets /\ u # t /\ u # None
  BY DEF TakenFrom, RegistryInv, RegistryTypeOK
<1>2. targetToShort[u] = s
  BY <1>1 DEF RegistryInv, MapsInverse
<1>3. u \in Registered
  <2>1. s # None
    BY SuffixFacts, RegistryAssumption DEF CandidateLens
  <2>2. QED  BY <1>1, <1>2, <2>1 DEF Registered
<1>4. PICK n \in CandidateLens : Suffix(u, n) = s
  BY <1>2, <1>3 DEF RegistryInv, OwnSuffix, Candidates
<1>5. QED  BY <1>1, <1>4, FullIdIsOwn

\* A target id is never the empty "none".
LEMMA TargetNotNone ==
  ASSUME NEW t \in Targets
  PROVE  t # None
<1>1. t \in [1..IdLen -> Digits] /\ IdLen \in Nat /\ 1 <= IdLen
  BY RegistryAssumption
<1>2. DOMAIN t = 1..IdLen /\ 1 \in DOMAIN t
  BY <1>1
<1>3. DOMAIN None = {}
  BY DEF None
<1>4. QED  BY <1>2, <1>3

\* A short id is never the empty "none".
LEMMA ShortIdNotNone ==
  ASSUME NEW s \in ShortIds
  PROVE  s # None
<1>1. PICK t \in Targets, n \in CandidateLens : s = Suffix(t, n)
  BY DEF ShortIds, Candidates
<1>2. QED  BY <1>1, SuffixFacts

\* The empty registry satisfies the inductive invariant.
LEMMA InitInv == RegistryInit => RegistryInv
BY DEF RegistryInit, RegistryInv, RegistryTypeOK, MapsInverse, OwnSuffix,
       SelectedRegistered, Registered, Lookup

\* Dropping a target keeps the maps inverse.
LEMMA RemoveInv ==
  ASSUME RegistryInv, NEW t \in Targets, RemoveTarget(t)
  PROVE  RegistryInv'
<1>1. CASE t \notin Registered
  BY <1>1 DEF RemoveTarget, registryVars, RegistryInv, RegistryTypeOK, MapsInverse,
              OwnSuffix, SelectedRegistered, Registered, Lookup
<1>2. CASE t \in Registered
  <2> DEFINE s == targetToShort[t]
  <2>1. /\ targetToShort' = [targetToShort EXCEPT ![t] = None]
        /\ shortToTarget' = [shortToTarget EXCEPT ![s] = None]
        /\ selected' = IF selected = s THEN None ELSE selected
    BY <1>2 DEF RemoveTarget
  <2>2. s \in ShortIds /\ s # None /\ shortToTarget[s] = t
    BY <1>2 DEF RegistryInv, RegistryTypeOK, Registered, MapsInverse
  <2>3. RegistryTypeOK'
    BY <2>1, <2>2 DEF RegistryInv, RegistryTypeOK
  <2>4. Registered' = Registered \ {t}
    BY <2>1 DEF Registered, RegistryInv, RegistryTypeOK
  <2>5. MapsInverse'
    BY <2>1, <2>2, <2>4 DEF MapsInverse, RegistryInv, RegistryTypeOK, Registered
  <2>6. OwnSuffix'
    BY <2>1, <2>4 DEF OwnSuffix, RegistryInv, RegistryTypeOK, Candidates
  <2>7. SelectedRegistered'
    BY <2>1, <2>2 DEF SelectedRegistered, Lookup, RegistryInv, RegistryTypeOK
  <2>8. QED  BY <2>3, <2>5, <2>6, <2>7 DEF RegistryInv
<1>3. QED  BY <1>1, <1>2

\* Registering a target keeps the maps inverse.
LEMMA RegisterInv ==
  ASSUME RegistryInv, NEW t \in Targets, RegisterPageTarget(t)
  PROVE  RegistryInv'
<1>1. CASE t \in Registered
  BY <1>1 DEF RegisterPageTarget, registryVars, RegistryInv, RegistryTypeOK,
              MapsInverse, OwnSuffix, SelectedRegistered, Registered, Lookup
<1>2. CASE t \notin Registered
  <2> DEFINE n == ShortestFree(t, TakenFrom(t))
             s == Suffix(t, n)
  <2>1. /\ targetToShort' = [targetToShort EXCEPT ![t] = s]
        /\ shortToTarget' = [shortToTarget EXCEPT ![s] = t]
        /\ selected' = selected
    BY <1>2 DEF RegisterPageTarget
  <2>2. n \in CandidateLens /\ s \notin TakenFrom(t)
    BY FullIdFree, ShortestFreeIsFree
  <2>3. s \in ShortIds /\ s # None /\ s \in Candidates(t)
    BY <2>2, SuffixFacts
  <2>4. shortToTarget[s] = None
    <3>1. shortToTarget[s] \in {None, t}
      BY <2>2, <2>3 DEF TakenFrom
    <3>2. shortToTarget[s] # t
      BY <1>2, <2>3, TargetNotNone
         DEF RegistryInv, MapsInverse, Registered
    <3>3. QED  BY <3>1, <3>2
  <2> HIDE DEF n, s
  <2>5. RegistryTypeOK'
    BY <2>1, <2>3 DEF RegistryInv, RegistryTypeOK
  <2>6. Registered' = Registered \cup {t}
    BY <2>1, <2>3 DEF Registered, RegistryInv, RegistryTypeOK
  <2>7. MapsInverse'
    <3>1. \A u \in Registered : targetToShort[u] # s
      BY <2>4, TargetNotNone DEF RegistryInv, MapsInverse, Registered
    <3>2. \A u \in Registered' : shortToTarget'[targetToShort'[u]] = u
      BY <1>2, <2>1, <2>3, <2>6, <3>1
         DEF RegistryInv, RegistryTypeOK, MapsInverse, Registered
    <3>3. \A r \in ShortIds : shortToTarget'[r] # None =>
                               targetToShort'[shortToTarget'[r]] = r
      <4> TAKE r \in ShortIds
      <4>1. CASE r = s
        BY <2>1, <2>3, <4>1 DEF RegistryInv, RegistryTypeOK
      <4>2. CASE r # s
        <5>1. shortToTarget'[r] = shortToTarget[r]
          BY <2>1, <4>2 DEF RegistryInv, RegistryTypeOK
        <5>2. HAVE shortToTarget'[r] # None
        <5>3. /\ shortToTarget[r] \in Targets
              /\ targetToShort[shortToTarget[r]] = r
          BY <5>1, <5>2 DEF RegistryInv, RegistryTypeOK, MapsInverse
        <5>4. r # None
          BY <2>3, <4>2, ShortIdNotNone
        <5>5. shortToTarget[r] # t
          BY <1>2, <5>3, <5>4 DEF Registered
        <5>6. QED  BY <2>1, <5>1, <5>3, <5>5 DEF RegistryInv, RegistryTypeOK
      <4>3. QED  BY <4>1, <4>2
    <3>4. QED  BY <3>2, <3>3 DEF MapsInverse
  <2>8. OwnSuffix'
    BY <2>1, <2>3, <2>6 DEF OwnSuffix, RegistryInv, RegistryTypeOK, Candidates, Registered
  <2>9. SelectedRegistered'
    BY <2>1, <2>3, TargetNotNone
       DEF SelectedRegistered, Lookup, RegistryInv, RegistryTypeOK
  <2>10. QED  BY <2>5, <2>7, <2>8, <2>9 DEF RegistryInv
<1>3. QED  BY <1>1, <1>2

\* A sync keeps the maps inverse: the new targets' short ids differ from those
\* of the survivors and from each other.
LEMMA SyncInv ==
  ASSUME RegistryInv, NEW present \in SUBSET Targets, SyncPageTargets(present)
  PROVE  RegistryInv'
<1>1. PICK len \in [NewIn(present) -> CandidateLens] :
        /\ IsAssignment(len, present)
        /\ targetToShort' =
               [t \in Targets |->
                   CASE t \in RemovedBy(present) -> None
                     [] t \in NewIn(present) -> Suffix(t, len[t])
                     [] OTHER -> targetToShort[t]]
        /\ shortToTarget' =
               [s \in ShortIds |->
                   IF \E t \in NewIn(present) : Suffix(t, len[t]) = s
                   THEN CHOOSE t \in NewIn(present) : Suffix(t, len[t]) = s
                   ELSE IF s \in FreedBy(present) THEN None
                   ELSE shortToTarget[s]]
        /\ selected' = IF selected \in FreedBy(present) THEN None ELSE selected
  BY DEF SyncPageTargets
<1> DEFINE New == NewIn(present)
           Gone == RemovedBy(present)
           short(t) == Suffix(t, len[t])
           earlier(t) == {Suffix(u, len[u]) : u \in {v \in New : Before(v, t)}}
           held(t) == (TakenFrom(t) \ FreedBy(present)) \cup earlier(t)
<1>2. /\ New \subseteq Targets /\ Gone \subseteq Registered
      /\ New \cap Registered = {} /\ Registered \subseteq Targets
      /\ \A t \in New : len[t] \in CandidateLens
  BY DEF NewIn, RemovedBy, Registered
<1>3. \A t \in New : short(t) \in ShortIds /\ short(t) # None /\ short(t) \in Candidates(t)
  BY <1>2, SuffixFacts
\* The fallback is not reached, so each new short id avoids those held before.
<1>4. \A t \in New : short(t) \notin held(t)
  <2> TAKE t \in New
  <2>1. Suffix(t, IdLen) \notin TakenFrom(t)
    BY <1>2, FullIdFree
  <2>2. Suffix(t, IdLen) \notin earlier(t)
    <3> SUFFICES ASSUME NEW u \in New, Before(u, t), Suffix(u, len[u]) = Suffix(t, IdLen)
                 PROVE  FALSE
      OBVIOUS
    <3>1. u = t
      BY <1>2, FullIdIsOwn
    <3>2. ~Before(t, t)
      <4>1. \A i \in 1..IdLen : t[i] \in Int
        BY <1>2, RegistryAssumption
      <4>2. QED  BY <4>1 DEF Before
    <3>3. QED  BY <3>1, <3>2
  <2>3. len[t] = ShortestFree(t, held(t))
    BY <1>1 DEF IsAssignment
  <2>4. QED  BY <1>2, <2>1, <2>2, <2>3, ShortestFreeIsFree
\* Hence the new short ids are pairwise different.
<1>5. \A t, u \in New : short(t) = short(u) => t = u
  <2> SUFFICES ASSUME NEW t \in New, NEW u \in New, short(t) = short(u), t # u
               PROVE  FALSE
    OBVIOUS
  <2>1. CASE Before(t, u)
    BY <1>4, <2>1
  <2>2. CASE Before(u, t)
    BY <1>4, <2>2
  <2>3. QED  BY <1>2, <2>1, <2>2, BeforeTotal
\* And none is held by a target that survives.
<1>6. \A t \in New : shortToTarget[short(t)] = None \/ short(t) \in FreedBy(present)
  <2> TAKE t \in New
  <2>1. short(t) \notin TakenFrom(t) \/ short(t) \in FreedBy(present)
    BY <1>4
  <2>2. shortToTarget[short(t)] # t
    <3>1. t \in Targets /\ t \notin Registered
      BY <1>2
    <3>2. QED  BY <1>3, <3>1, TargetNotNone DEF RegistryInv, MapsInverse, Registered
  <2>3. QED  BY <1>3, <2>1, <2>2 DEF TakenFrom
<1>7. /\ \A t \in Targets : t \in Gone => targetToShort'[t] = None
      /\ \A t \in New : targetToShort'[t] = short(t)
      /\ \A t \in Targets : t \notin Gone /\ t \notin New =>
             targetToShort'[t] = targetToShort[t]
  BY <1>1, <1>2
<1>8. Registered' = (Registered \ Gone) \cup New
  BY <1>2, <1>3, <1>7 DEF Registered
<1>9. /\ \A t \in New : shortToTarget'[short(t)] = t
      /\ \A s \in ShortIds : (\A t \in New : short(t) # s) =>
             shortToTarget'[s] = IF s \in FreedBy(present) THEN None
                                 ELSE shortToTarget[s]
  <2>1. \A t \in New : shortToTarget'[short(t)] = t
    <3> TAKE t \in New
    <3>1. shortToTarget'[short(t)] = CHOOSE u \in New : short(u) = short(t)
      BY <1>1, <1>3
    <3>2. \A u \in New : short(u) = short(t) <=> u = t
      BY <1>5
    <3>3. QED  BY <3>1, <3>2
  <2>2. QED  BY <1>1, <2>1
<1> HIDE DEF New, Gone, short, earlier, held
<1>10. RegistryTypeOK'
  <2>1. targetToShort' \in [Targets -> ShortIds \cup {None}]
    <3>1. \A t \in Targets : targetToShort'[t] \in ShortIds \cup {None}
      BY <1>3, <1>7 DEF RegistryInv, RegistryTypeOK
    <3>2. QED  BY <1>1, <3>1
  <2>2. shortToTarget' \in [ShortIds -> Targets \cup {None}]
    <3>1. \A s \in ShortIds : shortToTarget'[s] \in Targets \cup {None}
      BY <1>2, <1>9 DEF RegistryInv, RegistryTypeOK
    <3>2. QED  BY <1>1, <3>1
  <2>3. selected' \in ShortIds \cup {None}
    BY <1>1 DEF RegistryInv, RegistryTypeOK
  <2>4. QED  BY <2>1, <2>2, <2>3 DEF RegistryTypeOK
\* A surviving target's short id is neither freed nor given to a new one.
<1>11. \A t \in Registered \ Gone :
         /\ targetToShort[t] \notin FreedBy(present)
         /\ \A u \in New : short(u) # targetToShort[t]
  <2> TAKE t \in Registered \ Gone
  <2>1. targetToShort[t] \notin FreedBy(present)
    BY <1>2 DEF FreedBy, RegistryInv, MapsInverse, Gone
  <2>2. shortToTarget[targetToShort[t]] # None
    BY <1>2, TargetNotNone DEF RegistryInv, MapsInverse
  <2>3. QED  BY <1>6, <2>1, <2>2
<1>12. MapsInverse'
  <2>1. \A t \in Registered' : shortToTarget'[targetToShort'[t]] = t
    <3> TAKE t \in Registered'
    <3>1. CASE t \in New
      BY <1>7, <1>9, <3>1
    <3>2. CASE t \in Registered \ Gone /\ t \notin New
      <4>1. targetToShort'[t] = targetToShort[t] /\ targetToShort[t] \in ShortIds
        BY <1>2, <1>7, <3>2 DEF RegistryInv, RegistryTypeOK, Registered
      <4>2. QED  BY <1>9, <1>11, <3>2, <4>1 DEF RegistryInv, MapsInverse
    <3>3. QED  BY <1>8, <3>1, <3>2
  <2>2. ASSUME NEW s \in ShortIds, shortToTarget'[s] # None
        PROVE  targetToShort'[shortToTarget'[s]] = s
    <3>1. CASE \E t \in New : short(t) = s
      BY <1>7, <1>9, <3>1
    <3>2. CASE \A t \in New : short(t) # s
      <4>1. s \notin FreedBy(present) /\ shortToTarget'[s] = shortToTarget[s]
        BY <1>9, <2>2, <3>2
      <4> DEFINE t == shortToTarget[s]
      <4>2. t \in Targets /\ targetToShort[t] = s
        BY <2>2, <4>1 DEF RegistryInv, RegistryTypeOK, MapsInverse
      <4>3. t \notin Gone
        BY <4>1, <4>2 DEF FreedBy, Gone
      <4>4. t \in Registered
        BY <4>2, ShortIdNotNone DEF Registered
      <4>5. QED  BY <1>2, <1>7, <4>1, <4>2, <4>3, <4>4
    <3>3. QED  BY <3>1, <3>2
  <2>3. QED  BY <2>1, <2>2 DEF MapsInverse
<1>13. OwnSuffix'
  <2> SUFFICES ASSUME NEW t \in Registered'
               PROVE  targetToShort'[t] \in Candidates(t)
    BY DEF OwnSuffix, Candidates
  <2>1. CASE t \in New
    BY <1>3, <1>7, <2>1
  <2>2. CASE t \in Registered \ Gone /\ t \notin New
    BY <1>2, <1>7, <2>2 DEF RegistryInv, OwnSuffix
  <2>3. QED  BY <1>8, <2>1, <2>2
<1>14. SelectedRegistered'
  <2> SUFFICES ASSUME selected' # None
               PROVE  selected' \in ShortIds /\ shortToTarget'[selected'] # None
    BY DEF SelectedRegistered, Lookup
  <2>1. selected' = selected /\ selected \notin FreedBy(present)
    BY <1>1
  <2>2. selected \in ShortIds /\ shortToTarget[selected] # None
    BY <2>1 DEF RegistryInv, RegistryTypeOK, SelectedRegistered, Lookup
  <2>3. CASE \E t \in New : short(t) = selected
    BY <1>2, <1>9, <2>1, <2>2, <2>3, TargetNotNone
  <2>4. CASE \A t \in New : short(t) # selected
    BY <1>9, <2>1, <2>2, <2>4
  <2>5. QED  BY <2>1, <2>2, <2>3, <2>4
<1>15. QED  BY <1>10, <1>12, <1>13, <1>14 DEF RegistryInv

-----------------------------------------------------------------------------
\* Every operation of the registry keeps the invariant.
LEMMA NextInv == RegistryInv /\ [RegistryNext]_registryVars => RegistryInv'
<1> SUFFICES ASSUME RegistryInv, [RegistryNext]_registryVars
             PROVE  RegistryInv'
  OBVIOUS
<1>1. ASSUME NEW present \in SUBSET Targets, SyncPageTargets(present)
      PROVE  RegistryInv'
  BY <1>1, SyncInv
<1>2. ASSUME NEW t \in Targets, RemoveTarget(t)
      PROVE  RegistryInv'
  BY <1>2, RemoveInv
<1>3. ASSUME NEW t \in Targets, RegisterPageTarget(t)
      PROVE  RegistryInv'
  BY <1>3, RegisterInv
<1>4. ASSUME NEW s \in ShortIds, Select(s)
      PROVE  RegistryInv'
  BY <1>4 DEF Select, RegistryInv, RegistryTypeOK, MapsInverse, OwnSuffix,
              SelectedRegistered, Registered, Lookup
<1>5. CASE RestartRegistry
  BY <1>5 DEF RestartRegistry, RegistryInv, RegistryTypeOK, MapsInverse, OwnSuffix,
              SelectedRegistered, Registered, Lookup
<1>6. CASE UNCHANGED registryVars
  BY <1>6 DEF registryVars, RegistryInv, RegistryTypeOK, MapsInverse, OwnSuffix,
              SelectedRegistered, Registered, Lookup
<1>7. QED  BY <1>1, <1>2, <1>3, <1>4, <1>5, <1>6 DEF RegistryNext

\* The inductive invariant holds in every state the registry reaches.
LEMMA InvAlways == RegistrySpec => []RegistryInv
<1>1. QED  BY InitInv, NextInv, PTL DEF RegistrySpec

\* For any ids of one length, no two tabs share a short id and every short id
\* resolves to the tab that holds it (assignShortLocked, removeLocked).
THEOREM RegistryInverse == RegistrySpec => [](RegistryTypeOK /\ MapsInverse)
<1>1. RegistryInv => RegistryTypeOK /\ MapsInverse
  BY DEF RegistryInv
<1>2. QED  BY <1>1, InvAlways, PTL

\* The maps of tabRegistry hold targets and short ids, or nothing.
THEOREM RegistryTyped == RegistrySpec => []RegistryTypeOK
BY RegistryInverse, PTL

\* The selection never outlives its tab, and a tab is named by its own digits.
THEOREM SelectionSafe == RegistrySpec => [](SelectedRegistered /\ OwnSuffix)
<1>1. RegistryInv => SelectedRegistered /\ OwnSuffix
  BY DEF RegistryInv
<1>2. QED  BY <1>1, InvAlways, PTL

\* No operation renames a tab that stays registered.
THEOREM ShortIdsStable == RegistrySpec => ShortIdStable
<1> DEFINE Stable == \A t \in Registered \cap Registered' :
                        targetToShort'[t] = targetToShort[t]
<1>1. RegistryInv /\ [RegistryNext]_registryVars => [Stable]_registryVars
  <2> SUFFICES ASSUME RegistryInv, RegistryNext
               PROVE  Stable
    BY DEF registryVars
  <2>1. ASSUME NEW present \in SUBSET Targets, SyncPageTargets(present)
        PROVE  Stable
    <3> SUFFICES ASSUME NEW t \in Registered, t \in Registered'
                 PROVE  targetToShort'[t] = targetToShort[t]
      OBVIOUS
    <3>1. t \in Targets /\ t \notin NewIn(present)
      BY DEF Registered, NewIn
    <3>2. t \in RemovedBy(present) => targetToShort'[t] = None
      BY <2>1, <3>1 DEF SyncPageTargets
    <3>3. targetToShort'[t] # None
      BY DEF Registered
    <3>4. QED  BY <2>1, <3>1, <3>2, <3>3 DEF SyncPageTargets
  <2>2. ASSUME NEW t \in Targets, RemoveTarget(t)
        PROVE  Stable
    BY <2>2 DEF RemoveTarget, registryVars, Registered, RegistryInv, RegistryTypeOK
  <2>3. ASSUME NEW t \in Targets, RegisterPageTarget(t)
        PROVE  Stable
    BY <2>3 DEF RegisterPageTarget, registryVars, Registered, RegistryInv, RegistryTypeOK
  <2>4. ASSUME NEW s \in ShortIds, Select(s)
        PROVE  Stable
    BY <2>4 DEF Select
  <2>5. CASE RestartRegistry
    BY <2>5 DEF RestartRegistry, Registered
  <2>6. QED  BY <2>1, <2>2, <2>3, <2>4, <2>5 DEF RegistryNext
<1>2. QED  BY <1>1, InvAlways, PTL DEF RegistrySpec, ShortIdStable
=============================================================================
