---------------------------- MODULE TabLockProofs ----------------------------
(***************************************************************************)
(* Proofs about TabLock for any number of goroutines, tabs and entries:    *)
(* the reference counting is exact, no entry in use is dropped, and the    *)
(* lock implements the abstract mutex KeyedMutex.                          *)
(***************************************************************************)
EXTENDS TabLock, FiniteSetTheorems, TLAPS

\* Two short ids never share an entry.
OneTabPerEntry ==
    \A s, r \in Tabs : entryOf[s] # NoEntry /\ entryOf[s] = entryOf[r] => s = r

\* A goroutine inside has taken the token, and nobody else is inside with it.
TokenTaken ==
    /\ \A p \in Procs : pc[p] = "inside" => ~token[entry[p]]
    /\ \A p, q \in Procs :
           pc[p] = "inside" /\ pc[q] = "inside" /\ entry[p] = entry[q] => p = q

LockInv ==
    /\ LockTypeOK
    /\ OneTabPerEntry
    /\ EntryKept
    /\ TokenTaken
    /\ ForgottenDropped

-----------------------------------------------------------------------------
\* A goroutine that is not idle works with the entry in the map.
LEMMA BusyEntry ==
  ASSUME LockInv, NEW p \in Procs, pc[p] # "idle"
  PROVE  /\ tab[p] \in Tabs
         /\ entry[p] \in Entries
         /\ entryOf[tab[p]] = entry[p]
         /\ entry[p] # NoEntry
         /\ p \in Users(entry[p])
         /\ \A s \in Tabs : entryOf[s] = entry[p] => s = tab[p]
         /\ refs[entry[p]] = Cardinality(Users(entry[p]))
<1>1. /\ tab[p] \in Tabs
      /\ entry[p] \in Entries
      /\ entryOf[tab[p]] = entry[p]
      /\ entry[p] # NoEntry
  BY DEF LockInv, LockTypeOK, EntryKept
<1>2. \A s \in Tabs : entryOf[s] = entry[p] => s = tab[p]
  BY <1>1 DEF LockInv, OneTabPerEntry
<1>3. refs[entry[p]] = Cardinality(Users(entry[p]))
  BY <1>1 DEF LockInv, EntryKept
<1>4. QED  BY <1>1, <1>2, <1>3 DEF Users

\* Finitely many goroutines use an entry, so its users can be counted.
LEMMA UsersFinite ==
  ASSUME NEW e
  PROVE  IsFiniteSet(Users(e)) /\ Cardinality(Users(e)) \in Nat
<1>1. Users(e) \subseteq Procs /\ IsFiniteSet(Procs)
  BY LockAssumption DEF Users
<1>2. QED  BY <1>1, FS_Subset, FS_CardinalityType

\* A daemon that has no lock entries satisfies the inductive invariant.
LEMMA InitInv == LockInit => LockInv
BY DEF LockInit, LockInv, LockTypeOK, PcValues, OneTabPerEntry, EntryKept, TokenTaken,
       ForgottenDropped

\* lockTab: finding an entry counts one more user, creating one counts the first.
LEMMA FindEntryInv ==
  ASSUME LockInv, NEW p \in Procs, NEW s \in Tabs, FindEntry(p, s)
  PROVE  LockInv'
<1>1. PICK e \in Entries :
        /\ IF entryOf[s] = NoEntry
           THEN /\ Unused(e)
                /\ refs' = [refs EXCEPT ![e] = 1]
                /\ forgotten' = [forgotten EXCEPT ![e] = FALSE]
                /\ token' = [token EXCEPT ![e] = TRUE]
           ELSE /\ e = entryOf[s]
                /\ refs' = [refs EXCEPT ![e] = @ + 1]
                /\ UNCHANGED <<forgotten, token>>
        /\ entryOf' = [entryOf EXCEPT ![s] = e]
        /\ entry' = [entry EXCEPT ![p] = e]
  BY DEF FindEntry
<1>2. /\ pc[p] = "idle"
      /\ pc' = [pc EXCEPT ![p] = "waiting"]
      /\ tab' = [tab EXCEPT ![p] = s]
  BY DEF FindEntry
<1>3. e # NoEntry
  BY LockAssumption
<1>4. LockTypeOK'
  <2>1. entryOf' \in [Tabs -> Entries \cup {NoEntry}] /\ entry' \in [Procs -> Entries \cup {NoEntry}]
    BY <1>1 DEF LockInv, LockTypeOK
  <2>2. pc' \in [Procs -> PcValues] /\ tab' \in [Procs -> Tabs]
    BY <1>2 DEF LockInv, LockTypeOK, PcValues
  <2>3. /\ refs' \in [Entries -> Nat]
        /\ forgotten' \in [Entries -> BOOLEAN]
        /\ token' \in [Entries -> BOOLEAN]
    <3>1. CASE entryOf[s] = NoEntry
      <4>1. /\ refs' = [refs EXCEPT ![e] = 1]
            /\ forgotten' = [forgotten EXCEPT ![e] = FALSE]
            /\ token' = [token EXCEPT ![e] = TRUE]
        BY <1>1, <3>1
      <4>2. refs' \in [Entries -> Nat]
        BY <4>1 DEF LockInv, LockTypeOK
      <4>3. forgotten' \in [Entries -> BOOLEAN] /\ token' \in [Entries -> BOOLEAN]
        BY <4>1, Zenon DEF LockInv, LockTypeOK
      <4>4. QED  BY <4>2, <4>3
    <3>2. CASE entryOf[s] # NoEntry
      <4>1. refs[e] + 1 \in Nat
        BY DEF LockInv, LockTypeOK
      <4>2. QED  BY <1>1, <3>2, <4>1 DEF LockInv, LockTypeOK
    <3>3. QED  BY <3>1, <3>2
  <2>4. QED  BY <2>1, <2>2, <2>3 DEF LockTypeOK
<1>5. /\ Users(e)' = Users(e) \cup {p}
      /\ p \notin Users(e)
      /\ \A x \in Entries : x # e => Users(x)' = Users(x)
  BY <1>1, <1>2 DEF Users, LockInv, LockTypeOK
<1>6. \A r \in Tabs : r # s => /\ entryOf'[r] = entryOf[r]
                               /\ entryOf[r] # e
  <2>1. CASE entryOf[s] = NoEntry
    BY <1>1, <2>1 DEF Unused, LockInv, LockTypeOK
  <2>2. CASE entryOf[s] # NoEntry
    BY <1>1, <1>3, <2>2 DEF LockInv, LockTypeOK, OneTabPerEntry
  <2>3. QED  BY <2>1, <2>2
<1>7. entryOf'[s] = e
  BY <1>1 DEF LockInv, LockTypeOK
<1>8. OneTabPerEntry'
  BY <1>3, <1>6, <1>7 DEF LockInv, OneTabPerEntry
<1>9. refs'[e] = Cardinality(Users(e)')
  <2>1. CASE entryOf[s] = NoEntry
    <3>1. Users(e) = {}
      BY <1>1, <2>1 DEF Unused, Users
    <3>2. Users(e)' = {p}
      BY <1>5, <3>1
    <3>3. QED  BY <1>1, <2>1, <3>2, FS_Singleton DEF LockInv, LockTypeOK
  <2>2. CASE entryOf[s] # NoEntry
    <3>1. refs[e] = Cardinality(Users(e)) /\ refs'[e] = refs[e] + 1
      BY <1>1, <2>2 DEF LockInv, LockTypeOK, EntryKept
    <3>2. Cardinality(Users(e) \cup {p}) = Cardinality(Users(e)) + 1
      BY <1>5, UsersFinite, FS_AddElement
    <3>3. QED  BY <1>5, <3>1, <3>2
  <2>3. QED  BY <2>1, <2>2
<1>10. EntryKept'
  <2>1. ASSUME NEW q \in Procs, pc'[q] # "idle"
        PROVE  entry'[q] # NoEntry /\ entryOf'[tab'[q]] = entry'[q]
    <3>1. CASE q = p
      BY <1>1, <1>2, <1>3, <1>7, <3>1 DEF LockInv, LockTypeOK
    <3>2. CASE q # p
      <4>1. pc[q] # "idle" /\ entry'[q] = entry[q] /\ tab'[q] = tab[q]
        BY <1>1, <1>2, <2>1, <3>2 DEF LockInv, LockTypeOK
      <4>2. CASE tab[q] = s
        BY <1>1, <1>7, <4>1, <4>2, BusyEntry
      <4>3. CASE tab[q] # s
        BY <1>6, <4>1, <4>3, BusyEntry
      <4>4. QED  BY <4>2, <4>3
    <3>3. QED  BY <3>1, <3>2
  <2>2. ASSUME NEW r \in Tabs, entryOf'[r] # NoEntry
        PROVE  refs'[entryOf'[r]] = Cardinality(Users(entryOf[r])')
    <3>1. CASE r = s
      BY <1>7, <1>9, <3>1
    <3>2. CASE r # s
      <4> DEFINE x == entryOf[r]
      <4>1. x \in Entries /\ x # e /\ entryOf'[r] = x
        BY <1>6, <2>2, <3>2 DEF LockInv, LockTypeOK
      <4>2. refs'[x] = refs[x]
        BY <1>1, <4>1 DEF LockInv, LockTypeOK
      <4>3. refs[x] = Cardinality(Users(x))
        BY <1>3, <2>2, <4>1, <1>6, <3>2 DEF LockInv, EntryKept
      <4>4. Users(x)' = Users(x)
        BY <1>5, <4>1
      <4>5. Users(entryOf[r])' = Users(x)'
        BY <4>1 DEF Users
      <4>6. QED  BY <4>1, <4>2, <4>3, <4>4, <4>5
    <3>3. QED  BY <3>1, <3>2
  <2>3. QED  BY <2>1, <2>2 DEF EntryKept
<1>11. TokenTaken'
  <2> SUFFICES ASSUME NEW q \in Procs, pc'[q] = "inside"
               PROVE  /\ ~token'[entry'[q]]
                      /\ \A r \in Procs : pc'[r] = "inside" /\ entry'[q] = entry'[r] => q = r
    BY DEF TokenTaken
  <2>1. \A r \in Procs : pc'[r] = "inside" =>
            r # p /\ pc[r] = "inside" /\ entry'[r] = entry[r]
    BY <1>1, <1>2 DEF LockInv, LockTypeOK
  <2>2. ~token[entry[q]] /\ entry[q] \in Entries
    BY <2>1, BusyEntry DEF LockInv, TokenTaken
  <2>3. ~token'[entry[q]]
    <3>1. CASE entryOf[s] = NoEntry
      <4>1. entry[q] # e
        BY <1>1, <2>1, <3>1 DEF Unused
      <4>2. QED  BY <1>1, <2>2, <3>1, <4>1 DEF LockInv, LockTypeOK
    <3>2. CASE entryOf[s] # NoEntry
      BY <1>1, <2>2, <3>2
    <3>3. QED  BY <3>1, <3>2
  <2>4. QED  BY <2>1, <2>3 DEF LockInv, TokenTaken
<1>12. ForgottenDropped'
  <2> SUFFICES ASSUME NEW r \in Tabs, entryOf'[r] # NoEntry, forgotten'[entryOf'[r]]
               PROVE  refs'[entryOf'[r]] > 0
    BY DEF ForgottenDropped
  <2>1. CASE r = s
    <3>1. Cardinality(Users(e)') # 0
      <4>1. p \in Users(e)' /\ IsFiniteSet(Users(e)')
        <5>1. IsFiniteSet(Users(e))
          BY UsersFinite
        <5>2. QED  BY <1>5, <5>1, FS_AddElement
      <4>2. QED  BY <4>1, FS_EmptySet
    <3>2. refs'[e] \in Nat
      BY <1>4 DEF LockTypeOK
    <3>3. QED  BY <1>7, <1>9, <2>1, <3>1, <3>2
  <2>2. CASE r # s
    <3> DEFINE x == entryOf[r]
    <3>1. x \in Entries /\ x # e /\ entryOf'[r] = x
      BY <1>6, <2>2 DEF LockInv, LockTypeOK
    <3>2. refs'[x] = refs[x] /\ forgotten'[x] = forgotten[x]
      BY <1>1, <3>1 DEF LockInv, LockTypeOK
    <3>3. x # NoEntry
      BY <3>1
    <3>4. QED  BY <3>1, <3>2, <3>3 DEF LockInv, ForgottenDropped
  <2>3. QED  BY <2>1, <2>2
<1>13. QED  BY <1>4, <1>8, <1>10, <1>11, <1>12 DEF LockInv

\* Taking the token: nobody else can be inside with the entry.
LEMMA TakeTokenInv ==
  ASSUME LockInv, NEW p \in Procs, TakeToken(p)
  PROVE  LockInv'
<1>1. /\ pc[p] = "waiting" /\ token[entry[p]]
      /\ token' = [token EXCEPT ![entry[p]] = FALSE]
      /\ pc' = [pc EXCEPT ![p] = "inside"]
      /\ UNCHANGED <<entryOf, refs, forgotten, tab, entry>>
  BY DEF TakeToken
<1>2. entry[p] \in Entries
  BY <1>1, BusyEntry
<1>3. LockTypeOK'
  <2>1. token' \in [Entries -> BOOLEAN]
    BY <1>1, Zenon DEF LockInv, LockTypeOK
  <2>2. pc' \in [Procs -> PcValues]
    BY <1>1 DEF LockInv, LockTypeOK, PcValues
  <2>3. QED  BY <1>1, <2>1, <2>2 DEF LockInv, LockTypeOK
<1>4. \A q \in Procs : pc'[q] # "idle" <=> pc[q] # "idle"
  BY <1>1 DEF LockInv, LockTypeOK
<1>5. \A e : Users(e)' = Users(e)
  BY <1>1, <1>4 DEF Users
<1>6. EntryKept'
  BY <1>1, <1>4, <1>5 DEF LockInv, EntryKept
<1>7. TokenTaken'
  <2>1. \A q \in Procs : pc[q] = "inside" => entry[q] # entry[p]
    BY <1>1 DEF LockInv, TokenTaken
  <2>2. \A q \in Procs : pc'[q] = "inside" => q = p \/ pc[q] = "inside"
    BY <1>1 DEF LockInv, LockTypeOK
  <2>3. \A q \in Procs : pc[q] = "inside" => entry[q] \in Entries
    BY BusyEntry
  <2>4. QED  BY <1>1, <1>2, <2>1, <2>2, <2>3 DEF LockInv, LockTypeOK, TokenTaken
<1>8. QED
  BY <1>1, <1>3, <1>6, <1>7 DEF LockInv, OneTabPerEntry, ForgottenDropped

\* Returning the token: the goroutine is no longer inside.
LEMMA ReturnTokenInv ==
  ASSUME LockInv, NEW p \in Procs, ReturnToken(p)
  PROVE  LockInv'
<1>1. /\ pc[p] = "inside"
      /\ token' = [token EXCEPT ![entry[p]] = TRUE]
      /\ pc' = [pc EXCEPT ![p] = "leaving"]
      /\ UNCHANGED <<entryOf, refs, forgotten, tab, entry>>
  BY DEF ReturnToken
<1>2. LockTypeOK'
  <2>1. token' \in [Entries -> BOOLEAN]
    BY <1>1, Zenon DEF LockInv, LockTypeOK
  <2>2. pc' \in [Procs -> PcValues]
    BY <1>1 DEF LockInv, LockTypeOK, PcValues
  <2>3. QED  BY <1>1, <2>1, <2>2 DEF LockInv, LockTypeOK
<1>3. \A q \in Procs : pc'[q] # "idle" <=> pc[q] # "idle"
  BY <1>1 DEF LockInv, LockTypeOK
<1>4. \A e : Users(e)' = Users(e)
  BY <1>1, <1>3 DEF Users
<1>5. EntryKept'
  BY <1>1, <1>3, <1>4 DEF LockInv, EntryKept
<1>6. TokenTaken'
  <2>1. \A q \in Procs : pc'[q] = "inside" => pc[q] = "inside" /\ q # p
    BY <1>1 DEF LockInv, LockTypeOK
  <2>2. \A q \in Procs : pc'[q] = "inside" => entry[q] # entry[p] /\ entry[q] \in Entries
    BY <1>1, <2>1, BusyEntry DEF LockInv, TokenTaken
  <2>3. QED  BY <1>1, <2>1, <2>2 DEF LockInv, LockTypeOK, TokenTaken
<1>7. QED
  BY <1>1, <1>2, <1>5, <1>6 DEF LockInv, OneTabPerEntry, ForgottenDropped

\* Releasing a reference: the count stays exact, and only an entry nobody else
\* uses is dropped.
LEMMA ReleaseRefInv ==
  ASSUME LockInv, NEW p \in Procs, pc[p] \in {"waiting", "leaving"}, ReleaseRef(p)
  PROVE  LockInv'
<1> DEFINE e == entry[p]
           s == tab[p]
<1>1. /\ refs' = [refs EXCEPT ![e] = @ - 1]
      /\ entryOf' = IF refs[e] = 1 /\ forgotten[e] /\ entryOf[s] = e
                    THEN [entryOf EXCEPT ![s] = NoEntry]
                    ELSE entryOf
      /\ pc' = [pc EXCEPT ![p] = "idle"]
      /\ UNCHANGED <<forgotten, token, tab, entry>>
  BY DEF ReleaseRef
<1>2. /\ e \in Entries /\ s \in Tabs /\ entryOf[s] = e /\ e # NoEntry
      /\ p \in Users(e)
      /\ refs[e] = Cardinality(Users(e))
      /\ \A r \in Tabs : entryOf[r] = e => r = s
  BY BusyEntry
<1> HIDE DEF e, s
<1>3. /\ Users(e)' = Users(e) \ {p}
      /\ \A x \in Entries : x # e => Users(x)' = Users(x)
  BY <1>1, <1>2 DEF Users, LockInv, LockTypeOK, e
<1>4. refs[e] - 1 = Cardinality(Users(e)') /\ refs[e] - 1 \in Nat
  <2>1. Cardinality(Users(e) \ {p}) = Cardinality(Users(e)) - 1
    BY <1>2, UsersFinite, FS_RemoveElement
  <2>2. Cardinality(Users(e) \ {p}) \in Nat
    <3>1. IsFiniteSet(Users(e) \ {p})
      BY UsersFinite, FS_RemoveElement
    <3>2. QED  BY <3>1, FS_CardinalityType
  <2>3. QED  BY <1>2, <1>3, <2>1, <2>2
<1>5. LockTypeOK'
  BY <1>1, <1>2, <1>4 DEF LockInv, LockTypeOK, PcValues
\* A goroutine that stays busy on the same entry keeps it in the map.
<1>6. \A q \in Procs : pc'[q] # "idle" =>
         /\ pc'[q] = pc[q] /\ q # p
         /\ tab[q] = s => entryOf' = entryOf
  <2> SUFFICES ASSUME NEW q \in Procs, pc'[q] # "idle"
               PROVE  /\ pc'[q] = pc[q] /\ q # p
                      /\ tab[q] = s => entryOf' = entryOf
    OBVIOUS
  <2>1. pc'[q] = pc[q] /\ q # p
    BY <1>1 DEF LockInv, LockTypeOK
  <2>2. ASSUME tab[q] = s
        PROVE  refs[e] # 1
    <3>1. q \in Users(e) \ {p}
      BY <1>2, <2>1, <2>2, BusyEntry
    <3>2. IsFiniteSet(Users(e) \ {p})
      BY UsersFinite, FS_RemoveElement
    <3>3. Cardinality(Users(e) \ {p}) # 0
      BY <3>1, <3>2, FS_EmptySet
    <3>4. QED  BY <1>3, <1>4, <3>3
  <2>3. QED  BY <1>1, <2>1, <2>2
<1>7. \A r \in Tabs : entryOf'[r] # NoEntry => entryOf'[r] = entryOf[r]
  BY <1>1, <1>2 DEF LockInv, LockTypeOK
<1>8. OneTabPerEntry'
  BY <1>7 DEF LockInv, OneTabPerEntry
<1>9. EntryKept'
  <2>1. ASSUME NEW q \in Procs, pc'[q] # "idle"
        PROVE  entry'[q] # NoEntry /\ entryOf'[tab'[q]] = entry'[q]
    <3>1. /\ pc[q] # "idle" /\ entry[q] # NoEntry
          /\ entryOf[tab[q]] = entry[q] /\ tab[q] \in Tabs
      BY <1>6, <2>1, BusyEntry
    <3>2. tab[q] # s => entryOf'[tab[q]] = entryOf[tab[q]]
      BY <1>1, <3>1 DEF LockInv, LockTypeOK
    <3>3. QED  BY <1>1, <1>6, <2>1, <3>1, <3>2
  <2>2. ASSUME NEW r \in Tabs, entryOf'[r] # NoEntry
        PROVE  refs'[entryOf'[r]] = Cardinality(Users(entryOf[r])')
    <3> DEFINE x == entryOf[r]
    <3>1. x \in Entries /\ entryOf'[r] = x /\ x # NoEntry
      BY <1>7, <2>2 DEF LockInv, LockTypeOK
    <3>2. Users(entryOf[r])' = Users(x)'
      BY <3>1 DEF Users
    <3>3. CASE x = e
      <4>1. refs'[e] = refs[e] - 1
        BY <1>1, <1>2 DEF LockInv, LockTypeOK
      <4>2. Users(entryOf[r])' = Users(entry[p])'
        <5>1. entryOf'[r] = entry'[p]
          BY <1>1, <3>1, <3>3 DEF e
        <5>2. QED  BY <5>1 DEF Users
      <4>3. QED  BY <1>4, <3>1, <3>3, <4>1, <4>2 DEF e
    <3>4. CASE x # e
      <4>1. refs'[x] = refs[x]
        BY <1>1, <3>1, <3>4 DEF LockInv, LockTypeOK
      <4>2. refs[x] = Cardinality(Users(x))
        BY <3>1 DEF LockInv, EntryKept
      <4>3. Users(x)' = Users(x)
        BY <1>3, <3>1, <3>4
      <4>4. QED  BY <3>1, <3>2, <4>1, <4>2, <4>3
    <3>5. QED  BY <3>3, <3>4
  <2>3. QED  BY <2>1, <2>2 DEF EntryKept
<1>10. TokenTaken'
  <2>1. \A q \in Procs : pc'[q] = "inside" => pc[q] = "inside"
    BY <1>6
  <2>2. QED  BY <1>1, <2>1 DEF LockInv, TokenTaken
<1>11. ForgottenDropped'
  <2> SUFFICES ASSUME NEW r \in Tabs, entryOf'[r] # NoEntry, forgotten'[entryOf'[r]]
               PROVE  refs'[entryOf'[r]] > 0
    BY DEF ForgottenDropped
  <2> DEFINE x == entryOf[r]
  <2>1. x \in Entries /\ entryOf'[r] = x /\ x # NoEntry /\ forgotten[x]
    BY <1>1, <1>7 DEF LockInv, LockTypeOK
  <2>2. CASE x = e
    <3>1. r = s
      BY <1>2, <2>2
    <3>2. refs[e] # 1
      <4>1. entryOf'[s] # NoEntry
        BY <3>1
      <4>2. QED  BY <1>1, <1>2, <2>1, <2>2, <4>1 DEF LockInv, LockTypeOK
    <3>3. refs'[e] = refs[e] - 1
      BY <1>1, <1>2 DEF LockInv, LockTypeOK
    <3>4. refs[e] \in Nat
      BY <1>2 DEF LockInv, LockTypeOK
    <3>5. QED  BY <1>4, <2>1, <2>2, <3>2, <3>3, <3>4
  <2>3. CASE x # e
    <3>1. refs'[x] = refs[x]
      BY <1>1, <2>1, <2>3 DEF LockInv, LockTypeOK
    <3>2. refs[x] > 0
      BY <2>1 DEF LockInv, ForgottenDropped
    <3>3. QED  BY <2>1, <3>1, <3>2
  <2>4. QED  BY <2>2, <2>3
<1>12. QED  BY <1>5, <1>8, <1>9, <1>10, <1>11 DEF LockInv

\* forgetTabLock: an entry in use stays, an unused one leaves the map.
LEMMA ForgetInv ==
  ASSUME LockInv, NEW s \in Tabs, ForgetTabLock(s)
  PROVE  LockInv'
<1> DEFINE e == entryOf[s]
<1>1. /\ e # NoEntry
      /\ forgotten' = [forgotten EXCEPT ![e] = TRUE]
      /\ entryOf' = IF refs[e] = 0 THEN [entryOf EXCEPT ![s] = NoEntry] ELSE entryOf
      /\ UNCHANGED <<refs, token, pc, tab, entry>>
  BY DEF ForgetTabLock
<1>2. e \in Entries /\ refs[e] = Cardinality(Users(e))
  BY <1>1 DEF LockInv, LockTypeOK, EntryKept
<1>3. LockTypeOK'
  <2>1. forgotten' \in [Entries -> BOOLEAN]
    BY <1>1, Zenon DEF LockInv, LockTypeOK
  <2>2. entryOf' \in [Tabs -> Entries \cup {NoEntry}]
    BY <1>1 DEF LockInv, LockTypeOK
  <2>3. QED  BY <1>1, <2>1, <2>2 DEF LockInv, LockTypeOK
<1>4. \A r \in Tabs : entryOf'[r] # NoEntry => entryOf'[r] = entryOf[r]
  BY <1>1 DEF LockInv, LockTypeOK
<1>5. \A x : Users(x)' = Users(x)
  BY <1>1 DEF Users
<1>6. \A q \in Procs : pc[q] # "idle" /\ tab[q] = s => refs[e] # 0
  <2> SUFFICES ASSUME NEW q \in Procs, pc[q] # "idle", tab[q] = s
               PROVE  refs[e] # 0
    OBVIOUS
  <2>1. q \in Users(e)
    BY BusyEntry
  <2>2. QED  BY <1>2, <2>1, UsersFinite, FS_EmptySet
<1>7. EntryKept'
  <2>1. ASSUME NEW q \in Procs, pc'[q] # "idle"
        PROVE  entry'[q] # NoEntry /\ entryOf'[tab'[q]] = entry'[q]
    BY <1>1, <1>6, <2>1, BusyEntry DEF LockInv, LockTypeOK
  <2>2. ASSUME NEW r \in Tabs, entryOf'[r] # NoEntry
        PROVE  refs'[entryOf'[r]] = Cardinality(Users(entryOf[r])')
    <3>1. entryOf'[r] = entryOf[r] /\ entryOf[r] # NoEntry
      BY <1>4, <2>2
    <3>2. Users(entryOf[r])' = Users(entryOf[r])
      BY <1>1, <3>1 DEF Users
    <3>3. QED  BY <1>1, <3>1, <3>2 DEF LockInv, EntryKept
  <2>3. QED  BY <2>1, <2>2 DEF EntryKept
<1>8. ForgottenDropped'
  <2> SUFFICES ASSUME NEW r \in Tabs, entryOf'[r] # NoEntry, forgotten'[entryOf'[r]]
               PROVE  refs'[entryOf'[r]] > 0
    BY DEF ForgottenDropped
  <2>1. entryOf'[r] = entryOf[r] /\ entryOf[r] \in Entries
    BY <1>4 DEF LockInv, LockTypeOK
  <2>2. CASE entryOf[r] = e
    <3>1. refs[e] # 0
      <4>1. r = s
        BY <1>1, <2>2 DEF LockInv, OneTabPerEntry
      <4>2. QED  BY <1>1, <2>1, <4>1 DEF LockInv, LockTypeOK
    <3>2. refs[e] \in Nat
      BY <1>2 DEF LockInv, LockTypeOK
    <3>3. QED  BY <1>1, <2>1, <2>2, <3>1, <3>2
  <2>3. CASE entryOf[r] # e
    BY <1>1, <2>1, <2>3 DEF LockInv, LockTypeOK, ForgottenDropped
  <2>4. QED  BY <2>2, <2>3
<1>9. QED
  BY <1>1, <1>3, <1>4, <1>7, <1>8 DEF LockInv, OneTabPerEntry, TokenTaken

\* Every step of lockTab, its unlock and forgetTabLock preserves it.
LEMMA NextInv == LockInv /\ [LockNext]_lockVars => LockInv'
<1> SUFFICES ASSUME LockInv, [LockNext]_lockVars PROVE LockInv'
  OBVIOUS
<1>1. ASSUME NEW p \in Procs, NEW s \in Tabs, FindEntry(p, s) PROVE LockInv'
  BY <1>1, FindEntryInv
<1>2. ASSUME NEW p \in Procs, TakeToken(p) PROVE LockInv'
  BY <1>2, TakeTokenInv
<1>3. ASSUME NEW p \in Procs, GiveUp(p) PROVE LockInv'
  BY <1>3, ReleaseRefInv DEF GiveUp
<1>4. ASSUME NEW p \in Procs, ReturnToken(p) PROVE LockInv'
  BY <1>4, ReturnTokenInv
<1>5. ASSUME NEW p \in Procs, Unlock(p) PROVE LockInv'
  BY <1>5, ReleaseRefInv DEF Unlock
<1>6. ASSUME NEW s \in Tabs, ForgetTabLock(s) PROVE LockInv'
  BY <1>6, ForgetInv
<1>7. CASE UNCHANGED lockVars
  BY <1>7 DEF lockVars, LockInv, LockTypeOK, OneTabPerEntry, EntryKept, TokenTaken,
              ForgottenDropped, Users
<1>8. QED
  BY <1>1, <1>2, <1>3, <1>4, <1>5, <1>6, <1>7 DEF LockNext, Step

\* The strengthened invariant holds in every behaviour of the lock.
LEMMA LockInvHolds == LockSpec => []LockInv
BY InitInv, NextInv, PTL DEF LockSpec

\* Reference counts are exact, an entry somebody waits on or holds stays in the
\* map, and a forgotten one leaves with its last user (releaseTabLockRef,
\* forgetTabLock), for any number of goroutines, tabs and entries.
THEOREM LockSafe == LockSpec => [](LockTypeOK /\ EntryKept /\ ForgottenDropped)
<1>1. LockInv => LockTypeOK /\ EntryKept /\ ForgottenDropped
  BY DEF LockInv
<1>2. QED  BY LockInvHolds, <1>1, PTL

\* The parts of it that stand alone: references count between none and the
\* goroutines there are, and every goroutine is at a line of lockTab ...
THEOREM LockTyped == LockSpec => []LockTypeOK
BY LockSafe, PTL

\* ... and forgetTabLock leaves no entry behind that nobody uses.
THEOREM ForgottenEntriesDropped == LockSpec => []ForgottenDropped
BY LockSafe, PTL

-----------------------------------------------------------------------------
(***************************************************************************)
(* The refinement: taking the token is Enter, returning it is Leave, and   *)
(* every other step of the lock leaves the abstract holders alone.         *)
(***************************************************************************)
\* Inside changes only where pc or tab of a goroutine inside changes.
LEMMA SameInside ==
  ASSUME \A q \in Procs : (pc'[q] = "inside") <=> (pc[q] = "inside"),
         \A q \in Procs : pc[q] = "inside" => tab'[q] = tab[q]
  PROVE  UNCHANGED [s \in Tabs |-> Inside(s)]
<1>1. \A s \in Tabs : Inside(s)' = Inside(s)
  BY DEF Inside
<1>2. QED  BY <1>1

\* Taking the token of an entry is entering the mutex of its short id ...
LEMMA EnterStep ==
  ASSUME LockInv, NEW p \in Procs, TakeToken(p)
  PROVE  Mutex!Enter(p, tab[p])
<1>1. /\ pc[p] = "waiting" /\ token[entry[p]]
      /\ pc' = [pc EXCEPT ![p] = "inside"]
      /\ UNCHANGED <<tab, entry>>
  BY DEF TakeToken
<1>2. tab[p] \in Tabs /\ entryOf[tab[p]] = entry[p]
  BY <1>1, BusyEntry
<1>3. Inside(tab[p]) = {}
  <2> SUFFICES ASSUME NEW q \in Procs, pc[q] = "inside", tab[q] = tab[p]
               PROVE  FALSE
    BY DEF Inside
  <2>1. entry[q] = entry[p]
    BY <1>2, BusyEntry
  <2>2. QED  BY <1>1, <2>1 DEF LockInv, TokenTaken
<1>4. ASSUME NEW s \in Tabs
      PROVE  Inside(s)' = IF s = tab[p] THEN {p} ELSE Inside(s)
  BY <1>1, <1>3 DEF Inside, LockInv, LockTypeOK
<1>5. QED  BY <1>2, <1>3, <1>4 DEF Mutex!Enter

\* ... and returning it is leaving that mutex.
LEMMA LeaveStep ==
  ASSUME LockInv, NEW p \in Procs, ReturnToken(p)
  PROVE  Mutex!Leave(p, tab[p])
<1>1. /\ pc[p] = "inside"
      /\ pc' = [pc EXCEPT ![p] = "leaving"]
      /\ UNCHANGED <<tab, entry>>
  BY DEF ReturnToken
<1>2. tab[p] \in Tabs /\ entryOf[tab[p]] = entry[p]
  BY <1>1, BusyEntry
<1>3. Inside(tab[p]) = {p}
  <2> SUFFICES ASSUME NEW q \in Procs, pc[q] = "inside", tab[q] = tab[p]
               PROVE  q = p
    BY <1>1 DEF Inside
  <2>1. entry[q] = entry[p]
    BY <1>2, BusyEntry
  <2>2. QED  BY <1>1, <2>1 DEF LockInv, TokenTaken
<1>4. ASSUME NEW s \in Tabs
      PROVE  Inside(s)' = IF s = tab[p] THEN {} ELSE Inside(s)
  BY <1>1, <1>3 DEF Inside, LockInv, LockTypeOK
<1>5. QED  BY <1>2, <1>3, <1>4 DEF Mutex!Leave

\* At most one operation at a time runs on a short id: lockTab with its unlock
\* function implements the abstract mutex, whatever is forgotten meanwhile.
THEOREM LockIsMutex == LockSpec => ImplementsMutex
<1>1. LockInit => Mutex!MutexInit
  <2> SUFFICES ASSUME LockInit PROVE [s \in Tabs |-> Inside(s)] = [s \in Tabs |-> {}]
    BY DEF Mutex!MutexInit
  <2>1. \A s \in Tabs : Inside(s) = {}
    BY DEF LockInit, Inside
  <2>2. QED  BY <2>1
<1>2. LockInv /\ [LockNext]_lockVars => [Mutex!MutexNext]_([s \in Tabs |-> Inside(s)])
  <2> SUFFICES ASSUME LockInv, [LockNext]_lockVars
               PROVE  [Mutex!MutexNext]_([s \in Tabs |-> Inside(s)])
    OBVIOUS
  <2> DEFINE Same == UNCHANGED [s \in Tabs |-> Inside(s)]
  <2>1. ASSUME NEW p \in Procs, NEW s \in Tabs, FindEntry(p, s) PROVE Same
    BY <2>1, SameInside DEF FindEntry, LockInv, LockTypeOK
  <2>2. ASSUME NEW p \in Procs, TakeToken(p) PROVE Mutex!MutexNext
    <3>1. tab[p] \in Tabs
      BY DEF LockInv, LockTypeOK
    <3>2. QED  BY <2>2, <3>1, EnterStep DEF Mutex!MutexNext
  <2>3. ASSUME NEW p \in Procs, GiveUp(p) PROVE Same
    BY <2>3, SameInside DEF GiveUp, ReleaseRef, LockInv, LockTypeOK
  <2>4. ASSUME NEW p \in Procs, ReturnToken(p) PROVE Mutex!MutexNext
    <3>1. tab[p] \in Tabs
      BY DEF LockInv, LockTypeOK
    <3>2. QED  BY <2>4, <3>1, LeaveStep DEF Mutex!MutexNext
  <2>5. ASSUME NEW p \in Procs, Unlock(p) PROVE Same
    BY <2>5, SameInside DEF Unlock, ReleaseRef, LockInv, LockTypeOK
  <2>6. ASSUME NEW s \in Tabs, ForgetTabLock(s) PROVE Same
    BY <2>6, SameInside DEF ForgetTabLock
  <2>7. ASSUME UNCHANGED lockVars PROVE Same
    BY <2>7, SameInside DEF lockVars
  <2> HIDE DEF Same
  <2>8. Mutex!MutexNext \/ Same
    BY <2>1, <2>2, <2>3, <2>4, <2>5, <2>6, <2>7 DEF LockNext, Step
  <2>9. QED  BY <2>8 DEF Same
<1>3. QED  BY LockInvHolds, <1>1, <1>2, PTL DEF LockSpec, ImplementsMutex, Mutex!MutexSpec
=============================================================================
