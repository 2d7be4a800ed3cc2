-------------------------- MODULE TabLifecycleProofs --------------------------
(***************************************************************************)
(* The safety of the tab lifecycle, for every number of clients, targets,  *)
(* queued events and restarts: one goroutine acts on a target at a time,   *)
(* the sweeper never closes a tab that an operation has renewed since its  *)
(* decision, and every open tab that is tracked is in the log a restarted  *)
(* daemon reads.  These three hold as long as short ids do not collide     *)
(* (ShortIdsDiffer).                                                       *)
(***************************************************************************)
EXTENDS TabLifecycle, TabRegistryProofs, FiniteSetTheorems

\* If no two tabs agree in their short names, every registered tab has its short name.
RegistryOK == /\ RegistryInv
              /\ ShortIdsDiffer => \A t \in Registered : targetToShort[t] = ShortName(t)

\* Operations that sync, and operations that run under the lock of a short id.
SyncOps == {"resync", "start", "list", "select", "use", "close", "sweep"}
LockOps == {"use", "close", "sweep", "sweepgone"}
Acting == {"work", "running", "remove"}
HoldsAt(x) == x.op \in LockOps /\ x.pc \notin {"rest", "lock", "log"}
Holding(p) == HoldsAt(at[p])

\* Where a goroutine can be with which operation.
PlaceOK(x) ==
    /\ x.pc \in {"capture", "apply"} => x.op \in SyncOps
    /\ x.pc = "rest" => x.op = "none"
    /\ x.syncing => x.op \in SyncOps /\ x.pc \in {"apply", "clear", "detach"}
    /\ x.pc = "apply" => x.syncing
    /\ x.pc \in Acting => /\ x.op \in {"use", "close", "sweep"}
                          /\ x.target \in Targets
                          /\ ShortIdsDiffer => x.tab = ShortName(x.target)
    /\ x.pc = "running" => x.op = "use"
    /\ x.pc = "selected" => x.op = "select"
    /\ x.pc = "touch" => /\ x.op \in {"use", "select"}
                         /\ ShortIdsDiffer /\ x.target # None => x.tab = ShortName(x.target)
    /\ x.pc = "drop" => x.op = "drop"
    /\ x.pc = "retry" => x.op \in {"use", "close", "sweep"}
    /\ x.pc = "lock" => x.op = "sweep" /\ x.tab \in ShortIds
    /\ x.pc = "lookup" => x.op = "sweep"
    /\ x.pc = "log" => x.op \in {"new", "close"}
    /\ x.pc \in {"register", "track", "reply"} => x.op = "new"
    /\ x.op = "new" => /\ x.pc \in {"register", "track", "reply", "log"}
                       /\ x.target \in Targets
                       /\ x.pc # "register" =>
                              x.tab \in ShortIds /\ (ShortIdsDiffer => x.tab = ShortName(x.target))
\* What the sweeper does nobody else does.
SweeperOps == {"none", "sweep", "sweepgone", "drop"}
OpOK(p, x) == /\ p = "sweeper" => x.op \in SweeperOps
              /\ x.op \in {"sweep", "sweepgone"} => p = "sweeper"
PlacesOK == \A p \in Procs : PlaceOK(at[p]) /\ OpOK(p, at[p])

\* A short id has one holder, and whoever runs an operation under it is that holder.
LocksOK ==
    /\ \A s \in ShortIds : \A p, q \in holders[s] : p = q
    /\ \A p \in Procs : Holding(p) => at[p].tab \in ShortIds /\ p \in holders[at[p].tab]

LifecycleInv == RegistryOK /\ LifecycleTypeOK /\ PlacesOK /\ LocksOK

-----------------------------------------------------------------------------
(***************************************************************************)
(* Lookups, events, places and locks.                                      *)
(***************************************************************************)
\* Only t itself has t's short name among its candidates.
LEMMA NameIsOwn ==
  ASSUME ShortIdsDiffer, NEW t \in Targets, NEW u \in Targets, NEW n \in CandidateLens,
         Suffix(u, n) = ShortName(t)
  PROVE  u = t
<1>1. MinLen \in CandidateLens
  BY RegistryAssumption DEF CandidateLens
<1>2. n = MinLen
  BY <1>1, SuffixFacts DEF ShortName
<1>3. QED  BY <1>2 DEF ShortIdsDiffer, ShortName

\* A target whose short name is free gets it.
LEMMA ShortestIsName ==
  ASSUME NEW t \in Targets, NEW taken, ShortName(t) \notin taken
  PROVE  ShortestFree(t, taken) = MinLen
<1> DEFINE L == FreeLens(t, taken)
<1>1. MinLen \in L /\ \A m \in L : m \in Nat /\ MinLen <= m
  BY RegistryAssumption DEF FreeLens, CandidateLens, ShortName
<1> HIDE DEF L
<1>2. \A n \in L : (\A m \in L : n <= m) => n = MinLen
  BY <1>1, RegistryAssumption
<1>3. \E n \in L : \A m \in L : n <= m
  BY <1>1
<1>4. QED  BY <1>1, <1>2, <1>3 DEF ShortestFree, L

\* Another tab never holds it.
LEMMA NameIsFree ==
  ASSUME ShortIdsDiffer, RegistryInv, NEW t \in Targets
  PROVE  ShortName(t) \notin TakenFrom(t)
<1> SUFFICES ASSUME ShortName(t) \in TakenFrom(t) PROVE FALSE
  OBVIOUS
<1> DEFINE u == shortToTarget[ShortName(t)]
<1>1. u \in Targets /\ u # t /\ targetToShort[u] = ShortName(t) /\ ShortName(t) \in ShortIds
  BY DEF TakenFrom, RegistryInv, RegistryTypeOK, MapsInverse
<1>2. targetToShort[u] \in Candidates(u)
  BY <1>1, ShortIdNotNone DEF RegistryInv, OwnSuffix, Registered
<1>3. PICK n \in CandidateLens : Suffix(u, n) = ShortName(t)
  BY <1>1, <1>2 DEF Candidates
<1>4. QED  BY <1>1, <1>3, NameIsOwn

\* Registering a target gives it a short id, its short name if ids do not collide.
LEMMA RegisterGives ==
  ASSUME RegistryOK, NEW t \in Targets, RegisterPageTarget(t)
  PROVE  /\ targetToShort'[t] \in ShortIds
         /\ ShortIdsDiffer => targetToShort'[t] = ShortName(t)
<1>1. CASE t \in Registered
  BY <1>1 DEF RegisterPageTarget, registryVars, RegistryOK, RegistryInv, RegistryTypeOK,
              Registered
<1>2. CASE t \notin Registered
  <2> DEFINE n == ShortestFree(t, TakenFrom(t))
  <2>1. Suffix(t, n) \in ShortIds
    BY FullIdFree, ShortestFreeIsFree, SuffixFacts DEF RegistryOK
  <2>2. ShortIdsDiffer => n = MinLen
    BY NameIsFree, ShortestIsName DEF RegistryOK
  <2>3. targetToShort' = [targetToShort EXCEPT ![t] = Suffix(t, n)]
    BY <1>2 DEF RegisterPageTarget
  <2>4. QED
    BY <2>1, <2>2, <2>3 DEF RegistryOK, RegistryInv, RegistryTypeOK, ShortName
<1>3. QED  BY <1>1, <1>2

\* The registry's operations keep its invariant, and short names.
LEMMA RegisterOK ==
  ASSUME RegistryOK, NEW t \in Targets, RegisterPageTarget(t)
  PROVE  RegistryOK'
<1>1. RegistryInv'
  BY RegisterInv DEF RegistryOK
<1>2. \A u \in Targets : u # t => targetToShort'[u] = targetToShort[u]
  BY DEF RegisterPageTarget, registryVars, RegistryOK, RegistryInv, RegistryTypeOK
<1>3. QED  BY <1>1, <1>2, RegisterGives DEF RegistryOK, Registered

\* Removing a target, also one the registry does not know ...
LEMMA RemoveOK ==
  ASSUME RegistryOK, NEW t, RemoveTarget(t)
  PROVE  RegistryOK'
<1>1. CASE t \in Targets
  <2>1. RegistryInv'
    BY <1>1, RemoveInv DEF RegistryOK
  <2>2. \A u \in Targets : targetToShort'[u] \in {targetToShort[u], None}
    BY <1>1 DEF RemoveTarget, registryVars, RegistryOK, RegistryInv, RegistryTypeOK
  <2>3. QED  BY <2>1, <2>2 DEF RegistryOK, Registered
<1>2. CASE t \notin Targets
  BY <1>2 DEF RemoveTarget, Registered, registryVars, RegistryOK, RegistryInv,
              RegistryTypeOK, MapsInverse, OwnSuffix, SelectedRegistered, Lookup
<1>3. QED  BY <1>1, <1>2

\* ... a sync, where no new tab takes the short name of another ...
LEMMA SyncOK ==
  ASSUME RegistryOK, NEW present \in SUBSET Targets, SyncPageTargets(present)
  PROVE  RegistryOK'
<1>1. RegistryInv'
  BY SyncInv DEF RegistryOK
<1>2. PICK len \in [NewIn(present) -> CandidateLens] :
        /\ IsAssignment(len, present)
        /\ targetToShort' = [t \in Targets |->
               CASE t \in RemovedBy(present) -> None
                 [] t \in NewIn(present) -> Suffix(t, len[t])
                 [] OTHER -> targetToShort[t]]
  BY DEF SyncPageTargets
<1>3. ASSUME ShortIdsDiffer, NEW t \in NewIn(present)
      PROVE  len[t] = MinLen
  <2> DEFINE earlier == {u \in NewIn(present) : Before(u, t)}
             taken == (TakenFrom(t) \ FreedBy(present)) \cup {Suffix(u, len[u]) : u \in earlier}
  <2>1. t \in Targets /\ NewIn(present) \subseteq Targets
    BY DEF NewIn
  <2>2. \A u \in NewIn(present) : Suffix(u, len[u]) = ShortName(t) => u = t
    BY <1>2, <1>3, <2>1, NameIsOwn
  <2>3. ~Before(t, t)
    <3>1. \A i \in 1..IdLen : t[i] \in Int
      BY <2>1, RegistryAssumption
    <3>2. QED  BY <3>1 DEF Before
  <2>4. ShortName(t) \notin taken
    BY <1>3, <2>1, <2>2, <2>3, NameIsFree DEF RegistryOK
  <2>5. len[t] = ShortestFree(t, taken)
    BY <1>2 DEF IsAssignment
  <2> HIDE DEF taken
  <2>6. QED  BY <2>1, <2>4, <2>5, ShortestIsName
<1>4. QED
  BY <1>1, <1>2, <1>3 DEF RegistryOK, Registered, RemovedBy, NewIn, ShortName

\* ... selecting a tab ...
LEMMA SelectOK ==
  ASSUME RegistryOK, NEW s, Select(s)
  PROVE  RegistryOK'
BY DEF RegistryOK, Select, RegistryInv, RegistryTypeOK, MapsInverse, OwnSuffix,
       SelectedRegistered, Registered, Lookup

\* ... and a restart do so too.
LEMMA RestartOK ==
  ASSUME RestartRegistry
  PROVE  RegistryOK'
BY DEF RestartRegistry, RegistryOK, RegistryInv, RegistryTypeOK, MapsInverse, OwnSuffix,
       SelectedRegistered, Registered, Lookup

\* A lookup finds nothing or the registered tab that holds the short id.
LEMMA LookupFacts ==
  ASSUME RegistryOK, NEW s
  PROVE  /\ Lookup(s) \in Targets \cup {None}
         /\ Lookup(s) # None => /\ s \in ShortIds /\ Lookup(s) \in Registered
                                /\ targetToShort[Lookup(s)] = s
                                /\ ShortIdsDiffer => s = ShortName(Lookup(s))
<1>1. CASE s \in ShortIds
  <2>1. Lookup(s) = shortToTarget[s] /\ shortToTarget[s] \in Targets \cup {None}
    BY <1>1 DEF Lookup, RegistryOK, RegistryInv, RegistryTypeOK
  <2>2. QED
    BY <1>1, <2>1, ShortIdNotNone DEF RegistryOK, RegistryInv, MapsInverse, Registered
<1>2. CASE s \notin ShortIds
  BY <1>2 DEF Lookup
<1>3. QED  BY <1>1, <1>2

\* A registered target has a short id.
LEMMA RegisteredFacts ==
  ASSUME RegistryOK, NEW t \in Registered
  PROVE  t \in Targets /\ targetToShort[t] \in ShortIds
BY DEF RegistryOK, RegistryInv, RegistryTypeOK, Registered

Events == [kind : {"page", "gone"}, target : Targets]
ChromeTyped ==
    /\ chrome \in [Targets -> {"unborn", "live", "gone"}]
    /\ events \in Seq(Events) /\ Len(events) <= QueueCap
    /\ dirty \in BOOLEAN

\* The event queue keeps its type and its bound.
LEMMA EnqueueTyped ==
  ASSUME ChromeTyped, NEW kind \in {"page", "gone"}, NEW t \in Targets, Enqueue(kind, t)
  PROVE  /\ events' \in Seq(Events) /\ Len(events') <= QueueCap
         /\ dirty' \in BOOLEAN
<1> DEFINE e == [kind |-> kind, target |-> t]
<1>1. e \in Events /\ QueueCap \in Nat
  BY LifecycleAssumption DEF Events
<1>2. events \in Seq(Events) /\ Len(events) <= QueueCap /\ Len(events) \in Nat
  BY DEF ChromeTyped
<1> HIDE DEF e
<1>3. CASE Len(events) < QueueCap
  <2>1. events' = Append(events, e) /\ dirty' = dirty
    BY <1>3 DEF Enqueue, e
  <2>2. Append(events, e) \in Seq(Events) /\ Len(Append(events, e)) = Len(events) + 1
    BY <1>1, <1>2
  <2>3. QED  BY <1>1, <1>2, <1>3, <2>1, <2>2 DEF ChromeTyped
<1>4. CASE ~(Len(events) < QueueCap)
  BY <1>2, <1>4 DEF Enqueue, ChromeTyped
<1>5. QED  BY <1>3, <1>4

\* Chrome's targets appear and disappear within their type.
LEMMA ChromeMoves ==
  ASSUME ChromeTyped, NEW t \in Targets,
         Appears(t) \/ Disappears(t) \/ (Enqueue("page", t) /\ UNCHANGED chrome)
  PROVE  ChromeTyped'
<1>1. events' \in Seq(Events) /\ Len(events') <= QueueCap /\ dirty' \in BOOLEAN
  BY EnqueueTyped DEF Appears, Disappears
<1>2. chrome' \in [Targets -> {"unborn", "live", "gone"}]
  BY DEF ChromeTyped, Appears, Disappears
<1>3. QED  BY <1>1, <1>2 DEF ChromeTyped

\* The event the watcher takes is an event, and so are the rest.
LEMMA HeadTyped ==
  ASSUME ChromeTyped, events # <<>>
  PROVE  /\ Head(events) \in Events
         /\ Tail(events) \in Seq(Events) /\ Len(Tail(events)) <= QueueCap
<1>1. events \in Seq(Events) /\ Len(events) <= QueueCap /\ QueueCap \in Nat
  BY LifecycleAssumption DEF ChromeTyped
<1>2. Head(events) \in Events /\ Tail(events) \in Seq(Events)
  BY <1>1
<1>3. Len(Tail(events)) = Len(events) - 1 /\ Len(events) \in Nat
  BY <1>1
<1>4. QED  BY <1>1, <1>2, <1>3

\* The positions and operations the code names.
LEMMA Names ==
  /\ "rest" \in PcValues /\ "capture" \in PcValues /\ "apply" \in PcValues
  /\ "clear" \in PcValues /\ "detach" \in PcValues /\ "reconcile" \in PcValues
  /\ "answer" \in PcValues /\ "retry" \in PcValues /\ "register" \in PcValues
  /\ "track" \in PcValues /\ "reply" \in PcValues /\ "log" \in PcValues
  /\ "lookup" \in PcValues /\ "work" \in PcValues /\ "running" \in PcValues
  /\ "remove" \in PcValues /\ "lock" \in PcValues /\ "resolve" \in PcValues
  /\ "mark" \in PcValues /\ "selected" \in PcValues /\ "touch" \in PcValues
  /\ "drop" \in PcValues /\ "drop" \in Ops
  /\ "none" \in Ops /\ "resync" \in Ops /\ "start" \in Ops /\ "event" \in Ops
  /\ "list" \in Ops /\ "select" \in Ops /\ "new" \in Ops /\ "use" \in Ops
  /\ "close" \in Ops /\ "sweep" \in Ops /\ "sweepgone" \in Ops
BY DEF PcValues, Ops

\* A goroutine at rest.
LEMMA RestFacts ==
  /\ Rest \in Places /\ PlaceOK(Rest) /\ ~HoldsAt(Rest) /\ \A p : OpOK(p, Rest)
  /\ Rest.pc = "rest" /\ Rest.op = "none" /\ Rest.tab = None /\ Rest.target = None
  /\ Rest.snap = {} /\ Rest.todo = {} /\ Rest.syncing = FALSE /\ Rest.ids = {}
<1>1. Rest \in Places
  BY Names DEF Rest, Places
<1>2. QED  BY <1>1 DEF Rest, PlaceOK, HoldsAt, Acting, LockOps, OpOK, SweeperOps

\* How a goroutine that goes on to x may deal with locks: it keeps what it has, takes
\* the lock of a free short id, or gives its lock back.
LockMove(p, x) ==
    \/ holders' = holders /\ (HoldsAt(x) => Holding(p) /\ x.tab = at[p].tab)
    \/ x.tab \in ShortIds /\ Locks!Enter(p, x.tab)
    \/ at[p].tab \in ShortIds /\ Locks!Leave(p, at[p].tab) /\ ~HoldsAt(x)

PlacedAgain ==
    /\ at' \in [Procs -> Places] /\ holders' \in [ShortIds -> SUBSET Procs]
    /\ PlacesOK' /\ LocksOK'

\* A goroutine that goes on to a place that is right leaves all places and locks right.
LEMMA MoveInv ==
  ASSUME LifecycleInv, NEW p \in Procs, NEW x \in Places, PlaceOK(x),
         OpOK(p, x),
         at' = [at EXCEPT ![p] = x], LockMove(p, x)
  PROVE  PlacedAgain
<1>1. at \in [Procs -> Places] /\ holders \in [ShortIds -> SUBSET Procs]
  BY DEF LifecycleInv, LifecycleTypeOK
<1>2. at' \in [Procs -> Places] /\ at'[p] = x /\ \A q \in Procs : q # p => at'[q] = at[q]
  BY <1>1
<1>3. PlacesOK'
  BY <1>2 DEF LifecycleInv, PlacesOK, Procs
<1>4. holders' \in [ShortIds -> SUBSET Procs]
  BY <1>1 DEF LockMove, Locks!Enter, Locks!Leave
<1>5. \A q \in Procs : q # p => (Holding(q)' <=> Holding(q)) /\ at'[q].tab = at[q].tab
  BY <1>2 DEF Holding, HoldsAt
<1>6. Holding(p)' <=> HoldsAt(x)
  BY <1>2 DEF Holding, HoldsAt
<1>7. CASE holders' = holders /\ (HoldsAt(x) => Holding(p) /\ x.tab = at[p].tab)
  <2>1. LocksOK'
    BY <1>2, <1>5, <1>6, <1>7 DEF LifecycleInv, LocksOK
  <2>2. QED  BY <1>2, <1>3, <1>4, <2>1 DEF PlacedAgain
<1>8. CASE x.tab \in ShortIds /\ Locks!Enter(p, x.tab)
  <2>1. /\ holders[x.tab] = {} /\ holders'[x.tab] = {p}
        /\ \A s \in ShortIds : s # x.tab => holders'[s] = holders[s]
    BY <1>1, <1>8 DEF Locks!Enter
  <2>2. \A s \in ShortIds : \A q, r \in holders'[s] : q = r
    BY <2>1 DEF LifecycleInv, LocksOK
  <2>3. ASSUME NEW q \in Procs, Holding(q)'
        PROVE  at'[q].tab \in ShortIds /\ q \in holders'[at'[q].tab]
    <3>1. CASE q = p
      BY <1>2, <1>8, <2>1, <3>1
    <3>2. CASE q # p
      BY <1>5, <2>1, <2>3, <3>2 DEF LifecycleInv, LocksOK
    <3>3. QED  BY <3>1, <3>2
  <2>4. QED  BY <1>2, <1>3, <1>4, <2>2, <2>3 DEF PlacedAgain, LocksOK
<1>9. CASE at[p].tab \in ShortIds /\ Locks!Leave(p, at[p].tab) /\ ~HoldsAt(x)
  <2>1. /\ holders[at[p].tab] = {p} /\ holders'[at[p].tab] = {}
        /\ \A s \in ShortIds : s # at[p].tab => holders'[s] = holders[s]
    BY <1>1, <1>9 DEF Locks!Leave
  <2>2. \A s \in ShortIds : \A q, r \in holders'[s] : q = r
    BY <2>1 DEF LifecycleInv, LocksOK
  <2>3. ASSUME NEW q \in Procs, Holding(q)'
        PROVE  at'[q].tab \in ShortIds /\ q \in holders'[at'[q].tab]
    BY <1>5, <1>6, <1>9, <2>1, <2>3 DEF LifecycleInv, LocksOK
  <2>4. QED  BY <1>2, <1>3, <1>4, <2>2, <2>3 DEF PlacedAgain, LocksOK
<1>10. QED  BY <1>7, <1>8, <1>9 DEF LockMove

\* What is known of a goroutine's place.
LEMMA PlaceFacts ==
  ASSUME LifecycleInv, NEW p \in Procs
  PROVE  /\ at \in [Procs -> Places] /\ at[p] \in Places /\ PlaceOK(at[p])
         /\ p = "sweeper" => at[p].op \in SweeperOps
         /\ at[p].op \in {"sweep", "sweepgone"} => p = "sweeper"
         /\ at[p].pc \in PcValues /\ at[p].op \in Ops /\ at[p].tab \in ShortIds \cup {None}
         /\ at[p].target \in Targets \cup {None}
         /\ at[p].snap \subseteq Targets /\ at[p].todo \subseteq Targets
         /\ at[p].ids \subseteq ShortIds
         /\ Holding(p) => at[p].tab \in ShortIds
<1>1. at \in [Procs -> Places] /\ at[p] \in Places /\ PlaceOK(at[p])
      /\ (p = "sweeper" => at[p].op \in SweeperOps)
      /\ (at[p].op \in {"sweep", "sweepgone"} => p = "sweeper")
  BY DEF LifecycleInv, LifecycleTypeOK, PlacesOK, OpOK
<1>2. /\ at[p].pc \in PcValues /\ at[p].op \in Ops /\ at[p].tab \in ShortIds \cup {None}
      /\ at[p].target \in Targets \cup {None}
      /\ at[p].snap \subseteq Targets /\ at[p].todo \subseteq Targets
      /\ at[p].ids \subseteq ShortIds
  BY <1>1 DEF Places
<1>3. QED  BY <1>1, <1>2 DEF LifecycleInv, LocksOK

\* The goroutines that are not clients.
LEMMA ProcFacts ==
  /\ \A p \in Clients : p \in Procs /\ p # "sweeper"
  /\ "watcher" \in Procs /\ "sweeper" \in Procs /\ "starter" \in Procs
BY LifecycleAssumption DEF Procs

\* Whatever step a goroutine takes, places and locks stay right.
LEMMA PlacesKept ==
  ASSUME LifecycleInv, LifecycleNext
  PROVE  PlacedAgain
<1>1. ASSUME NEW p \in Procs, Capture(p) PROVE PlacedAgain
  <2> DEFINE x == [at[p] EXCEPT !.pc = "apply", !.snap = Live, !.syncing = TRUE]
    <2>1. at' = [at EXCEPT ![p] = x]
    BY <1>1, PlaceFacts DEF Capture
  <2>2. /\ x \in Places
        /\ x.pc = "apply" /\ x.op = at[p].op /\ x.tab = at[p].tab
        /\ x.target = at[p].target /\ x.syncing = TRUE
    BY <1>1, PlaceFacts, Names, RestFacts DEF Capture, Places, Live
  <2> HIDE DEF x
  <2>3. /\ PlaceOK(x) /\ LockMove(p, x)
        /\ OpOK(p, x)
    BY <1>1, <2>2, PlaceFacts DEF Capture, PlaceOK, SyncOps, LockOps, Acting,
        OpOK, SweeperOps, LockMove, Holding, HoldsAt
  <2>4. QED  BY <2>1, <2>2, <2>3, MoveInv
<1>2. ASSUME NEW p \in Procs, Apply(p) PROVE PlacedAgain
  <2> DEFINE x == [at[p] EXCEPT !.pc = "clear", !.todo = RemovedBy(at[p].snap)]
    <2>1. at' = [at EXCEPT ![p] = x]
    BY <1>2, PlaceFacts DEF Apply
  <2>2. /\ x \in Places
        /\ x.pc = "clear" /\ x.op = at[p].op /\ x.tab = at[p].tab
        /\ x.target = at[p].target /\ x.syncing = at[p].syncing
    BY <1>2, PlaceFacts, Names, RestFacts DEF Apply, Places, RemovedBy, Registered
  <2> HIDE DEF x
  <2>3. /\ PlaceOK(x) /\ LockMove(p, x)
        /\ OpOK(p, x)
    BY <1>2, <2>2, PlaceFacts DEF Apply, PlaceOK, SyncOps, LockOps, Acting,
        OpOK, SweeperOps, LockMove, Holding, HoldsAt
  <2>4. QED  BY <2>1, <2>2, <2>3, MoveInv
<1>3. ASSUME NEW p \in Procs, Untrack(p) PROVE PlacedAgain
  <2>1. PICK t \in at[p].todo :
          at' = [at EXCEPT ![p].pc = "detach", ![p].target = t, ![p].todo = @ \ {t}]
    BY <1>3 DEF Untrack
  <2> DEFINE x == [at[p] EXCEPT !.pc = "detach", !.target = t, !.todo = @ \ {t}]
  <2>2. at' = [at EXCEPT ![p] = x]
    BY <2>1, PlaceFacts
  <2>3. /\ x \in Places
        /\ x.pc = "detach" /\ x.op = at[p].op /\ x.tab = at[p].tab
        /\ x.target = t /\ x.syncing = at[p].syncing
    BY <2>1, PlaceFacts, Names DEF Places
  <2> HIDE DEF x
  <2>4. /\ PlaceOK(x) /\ LockMove(p, x)
        /\ OpOK(p, x)
    BY <1>3, <2>3, PlaceFacts
       DEF Untrack, PlaceOK, SyncOps, LockOps, Acting, OpOK, SweeperOps, LockMove,
           Holding, HoldsAt
  <2>5. QED  BY <2>2, <2>3, <2>4, MoveInv
<1>4. ASSUME NEW p \in Procs, Detach(p) PROVE PlacedAgain
  <2>1. CASE at[p].op = "event"
    <3> DEFINE x == Rest
    <3>1. at' = [at EXCEPT ![p] = x]
      BY <1>4, <2>1, PlaceFacts, ProcFacts DEF
          Detach, Goto, Finish
    <3>2. /\ x \in Places
          /\ x.pc = "rest" /\ x.op = "none" /\ x.tab = None
          /\ x.target = None /\ x.syncing = FALSE
      BY <1>4, <2>1, PlaceFacts, ProcFacts, Names, RestFacts DEF Detach, Places
    <3> HIDE DEF x
    <3>3. /\ PlaceOK(x) /\ LockMove(p, x)
          /\ OpOK(p, x)
      BY <1>4, <2>1, <3>2, PlaceFacts, ProcFacts, RestFacts DEF Detach, Goto, Finish,
          PlaceOK, SyncOps, LockOps, Acting, OpOK, SweeperOps, LockMove, Holding, HoldsAt
    <3>4. QED  BY ProcFacts, <3>1, <3>2, <3>3, MoveInv
  <2>2. CASE at[p].op # "event"
    <3> DEFINE x == [at[p] EXCEPT !.pc = "clear"]
    <3>1. at' = [at EXCEPT ![p] = x]
      BY <1>4, <2>2, PlaceFacts, ProcFacts DEF
          Detach, Goto, Finish
    <3>2. /\ x \in Places
          /\ x.pc = "clear" /\ x.op = at[p].op /\ x.tab = at[p].tab
          /\ x.target = at[p].target /\ x.syncing = at[p].syncing
      BY <1>4, <2>2, PlaceFacts, ProcFacts, Names, RestFacts DEF Detach, Places
    <3> HIDE DEF x
    <3>3. /\ PlaceOK(x) /\ LockMove(p, x)
          /\ OpOK(p, x)
      BY <1>4, <2>2, <3>2, PlaceFacts, ProcFacts, RestFacts DEF Detach, Goto, Finish,
          PlaceOK, SyncOps, LockOps, Acting, OpOK, SweeperOps, LockMove, Holding, HoldsAt
    <3>4. QED  BY ProcFacts, <3>1, <3>2, <3>3, MoveInv
  <2>3. QED  BY <2>1, <2>2
<1>5. ASSUME NEW p \in Procs, Present(p) PROVE PlacedAgain
  <2> DEFINE pc == AfterSync(at[p].op)
             snap == IF pc = "reconcile" THEN at[p].snap ELSE {}
             x == [at[p] EXCEPT !.pc = pc, !.target = None, !.syncing = FALSE, !.snap = snap]
  <2>1. pc \in {"reconcile", "answer", "retry"}
        /\ (pc = "retry" => at[p].op \in {"use", "close", "sweep"})
    BY <1>5, PlaceFacts DEF Present, PlaceOK, SyncOps, AfterSync
  <2>2. pc \in PcValues /\ snap \in SUBSET Targets
    BY <2>1, PlaceFacts, Names
  <2>3. at' = [at EXCEPT ![p].pc = pc, ![p].target = None, ![p].syncing = FALSE,
                         ![p].snap = snap]
    BY <1>5 DEF Present
  <2> HIDE DEF pc, snap
  <2>4. at' = [at EXCEPT ![p] = x]
    BY <2>3, PlaceFacts
  <2>5. /\ x \in Places
        /\ x.pc = pc /\ x.op = at[p].op /\ x.tab = at[p].tab /\ x.syncing = FALSE
    BY <2>2, PlaceFacts DEF Places
  <2> HIDE DEF x
  <2>6. at[p].pc = "clear" /\ at[p].syncing /\ holders' = holders
    BY <1>5 DEF Present
  <2>7. /\ PlaceOK(x) /\ LockMove(p, x)
        /\ OpOK(p, x)
    BY <2>1, <2>5, <2>6, PlaceFacts
       DEF PlaceOK, SyncOps, LockOps, Acting, OpOK, SweeperOps, LockMove, Holding, HoldsAt
  <2>8. QED  BY <2>4, <2>5, <2>7, MoveInv
<1>6. ASSUME NEW p \in Procs, Reconcile(p) PROVE PlacedAgain
  <2>1. CASE ReadLog(p)
    <3> DEFINE x == [at[p] EXCEPT !.pc = "resolve", !.ids = logged]
    <3>1. at' = [at EXCEPT ![p] = x]
      BY <2>1, PlaceFacts DEF ReadLog, Goto, Finish
    <3>2. /\ x \in Places
          /\ x.pc = "resolve" /\ x.op = at[p].op /\ x.tab = at[p].tab
          /\ x.syncing = at[p].syncing
      BY <2>1, PlaceFacts, Names DEF ReadLog, Places, LifecycleInv, LifecycleTypeOK
    <3> HIDE DEF x
    <3>3. /\ PlaceOK(x) /\ LockMove(p, x)
          /\ OpOK(p, x)
      BY <2>1, <3>2, PlaceFacts
         DEF ReadLog, PlaceOK, SyncOps, LockOps, Acting, OpOK, SweeperOps, LockMove,
             Holding, HoldsAt
    <3>4. QED  BY <3>1, <3>2, <3>3, MoveInv
  <2>2. CASE ResolveLogged(p)
    <3>1. PICK s \in at[p].ids :
            at' = [at EXCEPT ![p].ids = @ \ {s}, ![p].target = Lookup(s),
                             ![p].pc = IF Lookup(s) \in at[p].snap THEN "mark" ELSE "resolve"]
      BY <2>2 DEF ResolveLogged
    <3> DEFINE pc == IF Lookup(s) \in at[p].snap THEN "mark" ELSE "resolve"
               x == [at[p] EXCEPT !.ids = @ \ {s}, !.target = Lookup(s), !.pc = pc]
    <3>2. at' = [at EXCEPT ![p] = x]
      BY <3>1, PlaceFacts
    <3>3. pc \in {"mark", "resolve"} /\ Lookup(s) \in Targets \cup {None}
      BY LookupFacts DEF LifecycleInv
    <3> HIDE DEF pc
    <3>4. /\ x \in Places
          /\ x.pc = pc /\ x.op = at[p].op /\ x.tab = at[p].tab
          /\ x.syncing = at[p].syncing
      BY <3>3, PlaceFacts, Names DEF Places
    <3> HIDE DEF x
    <3>5. /\ PlaceOK(x) /\ LockMove(p, x)
          /\ OpOK(p, x)
      BY <2>2, <3>3, <3>4, PlaceFacts
         DEF ResolveLogged, PlaceOK, SyncOps, LockOps, Acting, OpOK, SweeperOps,
             LockMove, Holding, HoldsAt
    <3>6. QED  BY <3>2, <3>4, <3>5, MoveInv
  <2>3. CASE Mark(p)
    <3> DEFINE x == [at[p] EXCEPT !.pc = "resolve"]
    <3>1. at' = [at EXCEPT ![p] = x]
      BY <2>3, PlaceFacts DEF Mark, Goto, Finish
    <3>2. /\ x \in Places
          /\ x.pc = "resolve" /\ x.op = at[p].op /\ x.tab = at[p].tab
          /\ x.syncing = at[p].syncing
      BY <2>3, PlaceFacts, Names DEF Mark, Places, LifecycleInv, LifecycleTypeOK
    <3> HIDE DEF x
    <3>3. /\ PlaceOK(x) /\ LockMove(p, x)
          /\ OpOK(p, x)
      BY <2>3, <3>2, PlaceFacts
         DEF Mark, PlaceOK, SyncOps, LockOps, Acting, OpOK, SweeperOps, LockMove,
             Holding, HoldsAt
    <3>4. QED  BY <3>1, <3>2, <3>3, MoveInv
  <2>4. CASE ReconcileEnds(p)
    <3>1. at' = [at EXCEPT ![p] = Rest] /\ holders' = holders
      BY <2>4 DEF ReconcileEnds, Finish
    <3>2. LockMove(p, Rest) /\ OpOK(p, Rest)
      BY <3>1, RestFacts DEF LockMove, OpOK, SweeperOps
    <3>3. QED  BY <3>1, <3>2, RestFacts, MoveInv
  <2>5. QED  BY <1>6, <2>1, <2>2, <2>3, <2>4 DEF Reconcile
<1>7. ASSUME HandleEvent PROVE PlacedAgain
  <2> DEFINE t == Head(events).target
             x == [at["watcher"] EXCEPT !.pc = "clear", !.op = "event",
                                        !.todo = {t} \cap Registered]
  <2>1. CASE UNCHANGED at
    BY <1>7, <2>1 DEF HandleEvent, PlacedAgain, LifecycleInv, LifecycleTypeOK, PlacesOK,
                      LocksOK, Holding
  <2>2. CASE at' = [at EXCEPT !["watcher"].pc = "clear", !["watcher"].op = "event",
                              !["watcher"].todo = {t} \cap Registered]
    <3>1. at' = [at EXCEPT !["watcher"] = x]
      BY <2>2, PlaceFacts, ProcFacts
    <3>2. /\ x \in Places
          /\ x.pc = "clear" /\ x.op = "event" /\ x.syncing = at["watcher"].syncing
      BY PlaceFacts, ProcFacts, Names DEF Places, Registered
    <3> HIDE DEF x
    <3>3. at["watcher"].pc = "rest" /\ ~at["watcher"].syncing /\ holders' = holders
      BY <1>7, PlaceFacts, ProcFacts DEF HandleEvent, PlaceOK
    <3>4. PlaceOK(x) /\ LockMove("watcher", x) /\ OpOK("watcher", x)
      BY <3>2, <3>3 DEF PlaceOK, SyncOps, LockOps, Acting, LockMove, HoldsAt, OpOK
    <3>5. QED  BY ProcFacts, <3>1, <3>2, <3>4, MoveInv
  <2>3. QED  BY <1>7, <2>1, <2>2 DEF HandleEvent, RemoveState
<1>8. ASSUME ConsumeDirty PROVE PlacedAgain
  <2> DEFINE x == [Rest EXCEPT !.pc = "capture", !.op = "resync"]
    <2>1. at' = [at EXCEPT !["watcher"] = x]
    BY <1>8, PlaceFacts, ProcFacts DEF
        ConsumeDirty
  <2>2. /\ x \in Places
        /\ x.pc = "capture" /\ x.op = "resync" /\ x.tab = None
        /\ x.target = None /\ x.syncing = FALSE
    BY <1>8, PlaceFacts, ProcFacts, Names, RestFacts DEF ConsumeDirty, Places
  <2> HIDE DEF x
  <2>3. /\ PlaceOK(x) /\ LockMove("watcher", x)
        /\ OpOK("watcher", x)
    BY <1>8, <2>2, PlaceFacts, ProcFacts DEF ConsumeDirty, PlaceOK, SyncOps, LockOps,
        Acting, OpOK, SweeperOps, LockMove, Holding, HoldsAt
  <2>4. QED  BY ProcFacts, <2>1, <2>2, <2>3, MoveInv
<1>9. ASSUME ResyncFails PROVE PlacedAgain
  <2> DEFINE x == Rest
    <2>1. at' = [at EXCEPT !["watcher"] = x]
    BY <1>9, PlaceFacts, ProcFacts DEF
        Finish, ResyncFails
  <2>2. /\ x \in Places
        /\ x.pc = "rest" /\ x.op = "none" /\ x.tab = None
        /\ x.target = None /\ x.syncing = FALSE
    BY <1>9, PlaceFacts, ProcFacts, Names, RestFacts DEF ResyncFails, Places
  <2> HIDE DEF x
  <2>3. /\ PlaceOK(x) /\ LockMove("watcher", x)
        /\ OpOK("watcher", x)
    BY <1>9, <2>2, PlaceFacts, ProcFacts DEF Finish, ResyncFails, PlaceOK, SyncOps,
        LockOps, Acting, OpOK, SweeperOps, LockMove, Holding, HoldsAt
  <2>4. QED  BY ProcFacts, <2>1, <2>2, <2>3, MoveInv
<1>10. ASSUME StartSyncFails PROVE PlacedAgain
  <2> DEFINE x == Rest
    <2>1. at' = [at EXCEPT !["starter"] = x]
    BY <1>10, PlaceFacts, ProcFacts DEF
        Finish, StartSyncFails
  <2>2. /\ x \in Places
        /\ x.pc = "rest" /\ x.op = "none" /\ x.tab = None
        /\ x.target = None /\ x.syncing = FALSE
    BY <1>10, PlaceFacts, ProcFacts, Names, RestFacts DEF StartSyncFails, Places
  <2> HIDE DEF x
  <2>3. /\ PlaceOK(x) /\ LockMove("starter", x)
        /\ OpOK("starter", x)
    BY <1>10, <2>2, PlaceFacts, ProcFacts DEF Finish, StartSyncFails, PlaceOK, SyncOps,
        LockOps, Acting, OpOK, SweeperOps, LockMove, Holding, HoldsAt
  <2>4. QED  BY ProcFacts, <2>1, <2>2, <2>3, MoveInv
<1>11. ASSUME NEW p \in Clients, StartList(p) PROVE PlacedAgain
  <2>1. CASE Begin(p, "list", "capture", None)
    <3> DEFINE x == [Rest EXCEPT !.pc = "capture", !.op = "list", !.tab = None]
    <3>1. at' = [at EXCEPT ![p] = x]
      BY <1>11, <2>1, PlaceFacts, ProcFacts DEF
          StartList, Begin
    <3>2. /\ x \in Places
          /\ x.pc = "capture" /\ x.op = "list" /\ x.tab = None
          /\ x.target = None /\ x.syncing = FALSE
      BY <1>11, <2>1, PlaceFacts, ProcFacts, Names, RestFacts DEF StartList, Places
    <3> HIDE DEF x
    <3>3. /\ PlaceOK(x) /\ LockMove(p, x)
          /\ OpOK(p, x)
      BY <1>11, <2>1, <3>2, PlaceFacts, ProcFacts, RestFacts DEF StartList, Begin,
          PlaceOK, SyncOps, LockOps, Acting, OpOK, SweeperOps, LockMove, Holding, HoldsAt
    <3>4. QED  BY ProcFacts, <3>1, <3>2, <3>3, MoveInv
  <2>2. CASE \E s \in ShortIds : Begin(p, "select", "capture", s)
    <3>1. PICK s \in ShortIds : Begin(p, "select", "capture", s)
      BY <2>2
    <3> DEFINE x == [Rest EXCEPT !.pc = "capture", !.op = "select", !.tab = s]
    <3>2. at' = [at EXCEPT ![p] = x]
      BY <3>1 DEF Begin
    <3>3. /\ x \in Places
          /\ x.pc = "capture" /\ x.op = "select" /\ x.tab = s
          /\ x.target = None /\ x.syncing = FALSE
      BY Names, RestFacts DEF Places
    <3> HIDE DEF x
    <3>4. PlaceOK(x) /\ LockMove(p, x) /\ OpOK(p, x)
      BY <1>11, <3>3, ProcFacts
         DEF StartList, PlaceOK, SyncOps, LockOps, Acting, LockMove, HoldsAt, OpOK
    <3>5. QED  BY ProcFacts, <3>2, <3>3, <3>4, MoveInv
  <2>3. QED  BY <1>11, <2>1, <2>2 DEF StartList
<1>12. ASSUME NEW p \in Clients, Answer(p) PROVE PlacedAgain
  <2>1. holders' = holders /\ p \in Procs
    BY <1>12, ProcFacts DEF Answer
  <2>2. CASE Finish(p)
    <3>1. at' = [at EXCEPT ![p] = Rest] /\ LockMove(p, Rest) /\ OpOK(p, Rest)
      BY <2>1, <2>2, RestFacts DEF Finish, LockMove, OpOK, SweeperOps
    <3>2. QED  BY <2>1, <3>1, RestFacts, MoveInv
  <2>3. CASE at[p].op = "select" /\ Goto(p, "selected")
    <3> DEFINE x == [at[p] EXCEPT !.pc = "selected"]
    <3>1. at' = [at EXCEPT ![p] = x]
      BY <2>1, <2>3, PlaceFacts DEF Goto
    <3>2. /\ x \in Places
          /\ x.pc = "selected" /\ x.op = "select" /\ x.syncing = at[p].syncing
      BY <2>1, <2>3, PlaceFacts, Names DEF Places
    <3> HIDE DEF x
    <3>3. PlaceOK(x) /\ LockMove(p, x) /\ OpOK(p, x)
      BY <1>12, <2>1, <3>2, PlaceFacts, ProcFacts
         DEF Answer, PlaceOK, SyncOps, LockOps, Acting, LockMove, HoldsAt, OpOK
    <3>4. QED  BY <2>1, <3>1, <3>2, <3>3, MoveInv, ProcFacts
  <2>4. QED  BY <1>12, <2>2, <2>3 DEF Answer
<1>13. ASSUME NEW p \in Clients, NewCreate(p) PROVE PlacedAgain
  <2>1. CASE UNCHANGED at
    BY <1>13, <2>1 DEF NewCreate, PlacedAgain, LifecycleInv, LifecycleTypeOK, PlacesOK,
                       LocksOK, Holding
  <2>2. ASSUME NEW t \in Targets,
               at' = [at EXCEPT ![p] = [Rest EXCEPT !.pc = "register", !.op = "new",
                                                    !.target = t]]
        PROVE  PlacedAgain
    <3> DEFINE x == [Rest EXCEPT !.pc = "register", !.op = "new", !.target = t]
    <3>1. /\ x \in Places
          /\ x.pc = "register" /\ x.op = "new" /\ x.target = t /\ x.syncing = FALSE
      BY Names, RestFacts DEF Places
    <3> HIDE DEF x
    <3>2. PlaceOK(x) /\ LockMove(p, x) /\ OpOK(p, x)
      BY <1>13, <3>1, ProcFacts
         DEF NewCreate, PlaceOK, SyncOps, LockOps, Acting, LockMove, HoldsAt, OpOK
    <3>3. QED  BY ProcFacts, <2>2, <3>1, <3>2, MoveInv DEF x
  <2>3. QED  BY <1>13, <2>1, <2>2, LifecycleAssumption DEF NewCreate
<1>14. ASSUME NEW p \in Clients, NewRegister(p) PROVE PlacedAgain
  <2> DEFINE x == [at[p] EXCEPT !.pc = "track", !.tab = targetToShort'[at[p].target]]
    <2>1. at' = [at EXCEPT ![p] = x]
    BY <1>14, PlaceFacts, ProcFacts DEF
        NewRegister
  <2>2. /\ x \in Places
        /\ x.pc = "track" /\ x.op = at[p].op /\ x.tab = targetToShort'[at[p].target]
        /\ x.target = at[p].target /\ x.syncing = at[p].syncing
    BY <1>14, PlaceFacts, ProcFacts, Names, RestFacts, RegisterGives DEF NewRegister,
        Places, PlaceOK, LifecycleInv
  <2> HIDE DEF x
  <2>3. /\ PlaceOK(x) /\ LockMove(p, x)
        /\ OpOK(p, x)
    BY <1>14, <2>2, PlaceFacts, ProcFacts, RegisterGives DEF NewRegister, PlaceOK,
        SyncOps, LockOps, Acting, OpOK, SweeperOps, LockMove, Holding, HoldsAt, LifecycleInv
  <2>4. QED  BY ProcFacts, <2>1, <2>2, <2>3, MoveInv
<1>15. ASSUME NEW p \in Clients, NewTrack(p) PROVE PlacedAgain
  <2> DEFINE x == [at[p] EXCEPT !.pc = "reply"]
    <2>1. at' = [at EXCEPT ![p] = x]
    BY <1>15, PlaceFacts, ProcFacts DEF Goto,
        NewTrack
  <2>2. /\ x \in Places
        /\ x.pc = "reply" /\ x.op = at[p].op /\ x.tab = at[p].tab
        /\ x.target = at[p].target /\ x.syncing = at[p].syncing
    BY <1>15, PlaceFacts, ProcFacts, Names, RestFacts DEF NewTrack, Places
  <2> HIDE DEF x
  <2>3. /\ PlaceOK(x) /\ LockMove(p, x)
        /\ OpOK(p, x)
    BY <1>15, <2>2, PlaceFacts, ProcFacts DEF Goto, NewTrack, PlaceOK, SyncOps,
        LockOps, Acting, OpOK, SweeperOps, LockMove, Holding, HoldsAt
  <2>4. QED  BY ProcFacts, <2>1, <2>2, <2>3, MoveInv
<1>16. ASSUME NEW p \in Clients, NewReply(p) PROVE PlacedAgain
  <2> DEFINE x == [at[p] EXCEPT !.pc = "log"]
    <2>1. at' = [at EXCEPT ![p] = x]
    BY <1>16, PlaceFacts, ProcFacts DEF Goto,
        NewReply
  <2>2. /\ x \in Places
        /\ x.pc = "log" /\ x.op = at[p].op /\ x.tab = at[p].tab
        /\ x.target = at[p].target /\ x.syncing = at[p].syncing
    BY <1>16, PlaceFacts, ProcFacts, Names, RestFacts DEF NewReply, Places
  <2> HIDE DEF x
  <2>3. /\ PlaceOK(x) /\ LockMove(p, x)
        /\ OpOK(p, x)
    BY <1>16, <2>2, PlaceFacts, ProcFacts DEF Goto, NewReply, PlaceOK, SyncOps,
        LockOps, Acting, OpOK, SweeperOps, LockMove, Holding, HoldsAt
  <2>4. QED  BY ProcFacts, <2>1, <2>2, <2>3, MoveInv
<1>17. ASSUME NEW p \in Clients, AppendLog(p) PROVE PlacedAgain
  <2> DEFINE x == Rest
    <2>1. at' = [at EXCEPT ![p] = x]
    BY <1>17, PlaceFacts, ProcFacts DEF Finish,
        AppendLog
  <2>2. /\ x \in Places
        /\ x.pc = "rest" /\ x.op = "none" /\ x.tab = None
        /\ x.target = None /\ x.syncing = FALSE
    BY <1>17, PlaceFacts, ProcFacts, Names, RestFacts DEF AppendLog, Places
  <2> HIDE DEF x
  <2>3. /\ PlaceOK(x) /\ LockMove(p, x)
        /\ OpOK(p, x)
    BY <1>17, <2>2, PlaceFacts, ProcFacts DEF Finish, AppendLog, PlaceOK, SyncOps,
        LockOps, Acting, OpOK, SweeperOps, LockMove, Holding, HoldsAt
  <2>4. QED  BY ProcFacts, <2>1, <2>2, <2>3, MoveInv
<1>18. ASSUME NEW p \in Clients, StartLocked(p) PROVE PlacedAgain
  <2>1. PICK op \in {"use", "close"}, s \in ShortIds :
          /\ Locks!Enter(p, s)
          /\ at' = [at EXCEPT ![p] = [Rest EXCEPT !.pc = Found(Lookup(s)), !.op = op,
                                                  !.tab = s, !.target = Lookup(s)]]
    BY <1>18 DEF StartLocked
  <2> DEFINE x == [Rest EXCEPT !.pc = Found(Lookup(s)), !.op = op, !.tab = s,
                               !.target = Lookup(s)]
  <2>2. /\ Lookup(s) \in Targets \cup {None} /\ Found(Lookup(s)) \in PcValues /\ op \in Ops
        /\ Lookup(s) # None /\ ShortIdsDiffer => s = ShortName(Lookup(s))
    BY LookupFacts, Names DEF Found, LifecycleInv
  <2>3. /\ x \in Places
        /\ x.pc = Found(Lookup(s)) /\ x.op = op /\ x.tab = s
        /\ x.target = Lookup(s) /\ x.syncing = FALSE
    BY <2>2, RestFacts DEF Places
  <2> HIDE DEF x
  <2>4. PlaceOK(x) /\ OpOK(p, x)
    BY <2>2, <2>3, ProcFacts DEF Found, PlaceOK, SyncOps, LockOps, Acting, OpOK
  <2>5. LockMove(p, x)
    BY <2>1, <2>3 DEF LockMove
  <2>6. QED  BY ProcFacts, <2>1, <2>3, <2>4, <2>5, MoveInv DEF x
<1>19. ASSUME NEW p \in Procs, FindAgain(p) PROVE PlacedAgain
  <2> DEFINE x == [at[p] EXCEPT !.pc = "work", !.target = Lookup(at[p].tab)]
    <2>1. at' = [at EXCEPT ![p] = x]
    BY <1>19, PlaceFacts DEF FindAgain
  <2>2. /\ x \in Places
        /\ x.pc = "work" /\ x.op = at[p].op /\ x.tab = at[p].tab
        /\ x.target = Lookup(at[p].tab) /\ x.syncing = at[p].syncing
    BY <1>19, PlaceFacts, Names, RestFacts, LookupFacts DEF FindAgain, Places,
        LifecycleInv
  <2> HIDE DEF x
  <2>3. /\ PlaceOK(x) /\ LockMove(p, x)
        /\ OpOK(p, x)
    BY <1>19, <2>2, PlaceFacts, LookupFacts DEF FindAgain, PlaceOK, SyncOps, LockOps,
        Acting, OpOK, SweeperOps, LockMove, Holding, HoldsAt, LifecycleInv
  <2>4. QED  BY <2>1, <2>2, <2>3, MoveInv
<1>20. ASSUME NEW p \in Procs, ListFails(p) PROVE PlacedAgain
  <2>1. CASE at[p].op \in {"list", "select"}
    <3> DEFINE x == Rest
    <3>1. at' = [at EXCEPT ![p] = x]
      BY <1>20, <2>1, PlaceFacts, ProcFacts DEF
          ListFails, Goto, Finish
    <3>2. /\ x \in Places
          /\ x.pc = "rest" /\ x.op = "none" /\ x.tab = None
          /\ x.target = None /\ x.syncing = FALSE
      BY <1>20, <2>1, PlaceFacts, ProcFacts, Names, RestFacts DEF ListFails, Places
    <3> HIDE DEF x
    <3>3. /\ PlaceOK(x) /\ LockMove(p, x)
          /\ OpOK(p, x)
      BY <1>20, <2>1, <3>2, PlaceFacts, ProcFacts, RestFacts DEF ListFails, Goto,
          Finish, PlaceOK, SyncOps, LockOps, Acting, OpOK, SweeperOps, LockMove, Holding,
          HoldsAt
    <3>4. QED  BY ProcFacts, <3>1, <3>2, <3>3, MoveInv
  <2>2. CASE at[p].op \notin {"list", "select"}
    <3> DEFINE x == [at[p] EXCEPT !.pc = "retry"]
    <3>1. at' = [at EXCEPT ![p] = x]
      BY <1>20, <2>2, PlaceFacts, ProcFacts DEF
          ListFails, Goto, Finish
    <3>2. /\ x \in Places
          /\ x.pc = "retry" /\ x.op = at[p].op /\ x.tab = at[p].tab
          /\ x.target = at[p].target /\ x.syncing = at[p].syncing
      BY <1>20, <2>2, PlaceFacts, ProcFacts, Names, RestFacts DEF ListFails, Places
    <3> HIDE DEF x
    <3>3. /\ PlaceOK(x) /\ LockMove(p, x)
          /\ OpOK(p, x)
      BY <1>20, <2>2, <3>2, PlaceFacts, ProcFacts, RestFacts DEF ListFails, Goto,
          Finish, PlaceOK, SyncOps, LockOps, Acting, OpOK, SweeperOps, LockMove, Holding,
          HoldsAt
    <3>4. QED  BY ProcFacts, <3>1, <3>2, <3>3, MoveInv
  <2>3. QED  BY <2>1, <2>2
<1>21. ASSUME NEW p \in Procs, Unknown(p) PROVE PlacedAgain
  <2>1. Locks!Leave(p, at[p].tab) /\ at[p].tab \in ShortIds
    BY <1>21, PlaceFacts DEF Unknown, Unlock, PlaceOK, Holding, HoldsAt, LockOps
  <2>2. CASE Finish(p)
    <3>1. at' = [at EXCEPT ![p] = Rest] /\ LockMove(p, Rest) /\ OpOK(p, Rest)
      BY <2>1, <2>2, RestFacts DEF Finish, LockMove, OpOK, SweeperOps
    <3>2. QED  BY <3>1, RestFacts, MoveInv
  <2>3. CASE Begin(p, "drop", "drop", None)
    <3> DEFINE x == [Rest EXCEPT !.pc = "drop", !.op = "drop", !.tab = None]
    <3>1. at' = [at EXCEPT ![p] = x]
      BY <2>3 DEF Begin
    <3>2. x \in Places /\ x.pc = "drop" /\ x.op = "drop" /\ x.syncing = FALSE
      BY Names, RestFacts DEF Places
    <3> HIDE DEF x
    <3>3. PlaceOK(x) /\ LockMove(p, x) /\ OpOK(p, x)
      BY <2>1, <3>2
         DEF PlaceOK, SyncOps, LockOps, Acting, LockMove, HoldsAt, OpOK, SweeperOps
    <3>4. QED  BY <3>1, <3>2, <3>3, MoveInv
  <2>4. QED  BY <1>21, <2>2, <2>3 DEF Unknown
<1>22. ASSUME NEW p \in Clients, Operate(p) PROVE PlacedAgain
  <2> DEFINE x == [at[p] EXCEPT !.pc = "running"]
    <2>1. at' = [at EXCEPT ![p] = x]
    BY <1>22, PlaceFacts, ProcFacts DEF Goto,
        Operate
  <2>2. /\ x \in Places
        /\ x.pc = "running" /\ x.op = at[p].op /\ x.tab = at[p].tab
        /\ x.target = at[p].target /\ x.syncing = at[p].syncing
    BY <1>22, PlaceFacts, ProcFacts, Names, RestFacts DEF Operate, Places
  <2> HIDE DEF x
  <2>3. /\ PlaceOK(x) /\ LockMove(p, x)
        /\ OpOK(p, x)
    BY <1>22, <2>2, PlaceFacts, ProcFacts DEF Goto, Operate, PlaceOK, SyncOps, LockOps,
        Acting, OpOK, SweeperOps, LockMove, Holding, HoldsAt
  <2>4. QED  BY ProcFacts, <2>1, <2>2, <2>3, MoveInv
<1>23. ASSUME NEW p \in Clients, Succeed(p) \/ Touch(p) PROVE PlacedAgain
  <2>1. CASE Succeed(p)
    <3> DEFINE x == [at[p] EXCEPT !.pc = "touch", !.target = Lookup(at[p].tab)]
    <3>1. at' = [at EXCEPT ![p] = x]
      BY <2>1, PlaceFacts, ProcFacts DEF Succeed
    <3>2. /\ x \in Places
          /\ x.pc = "touch" /\ x.op = at[p].op /\ x.tab = at[p].tab
          /\ x.target = Lookup(at[p].tab) /\ x.syncing = at[p].syncing
      BY <2>1, PlaceFacts, ProcFacts, Names, LookupFacts DEF Succeed, Places, LifecycleInv
    <3> HIDE DEF x
    <3>3. PlaceOK(x) /\ LockMove(p, x) /\ OpOK(p, x)
      BY <2>1, <3>2, PlaceFacts, ProcFacts, LookupFacts
         DEF Succeed, PlaceOK, SyncOps, LockOps, Acting, LockMove, Holding, HoldsAt,
             LifecycleInv, OpOK
    <3>4. QED  BY <3>1, <3>2, <3>3, ProcFacts, MoveInv
  <2>2. CASE Touch(p)
    <3>1. at' = [at EXCEPT ![p] = Rest] /\ p \in Procs /\ OpOK(p, Rest)
      BY <2>2, ProcFacts, RestFacts DEF Touch, Finish, OpOK, SweeperOps
    <3>2. LockMove(p, Rest)
      BY <2>2, <3>1, PlaceFacts, RestFacts
         DEF Touch, Unlock, LockMove, PlaceOK, Holding, HoldsAt, LockOps
    <3>3. QED  BY <3>1, <3>2, RestFacts, MoveInv
  <2>3. QED  BY <1>23, <2>1, <2>2
<1>24. ASSUME NEW p \in Clients, OperateFails(p) PROVE PlacedAgain
  <2> DEFINE x == Rest
    <2>1. at' = [at EXCEPT ![p] = x]
    BY <1>24, PlaceFacts, ProcFacts DEF Unlock,
        Locks!Leave, Finish, OperateFails
  <2>2. /\ x \in Places
        /\ x.pc = "rest" /\ x.op = "none" /\ x.tab = None
        /\ x.target = None /\ x.syncing = FALSE
    BY <1>24, PlaceFacts, ProcFacts, Names, RestFacts DEF OperateFails, Places
  <2> HIDE DEF x
  <2>3. /\ PlaceOK(x) /\ LockMove(p, x)
        /\ OpOK(p, x)
    BY <1>24, <2>2, PlaceFacts, ProcFacts DEF Unlock, Locks!Leave, Finish,
        OperateFails, PlaceOK, SyncOps, LockOps, Acting, OpOK, SweeperOps, LockMove,
        Holding, HoldsAt
  <2>4. QED  BY ProcFacts, <2>1, <2>2, <2>3, MoveInv
<1>25. ASSUME NEW p \in Procs, CloseIt(p) PROVE PlacedAgain
  <2> DEFINE x == [at[p] EXCEPT !.pc = "remove"]
    <2>1. at' = [at EXCEPT ![p] = x]
    BY <1>25, PlaceFacts DEF Disappears, Enqueue,
        Goto, CloseIt
  <2>2. /\ x \in Places
        /\ x.pc = "remove" /\ x.op = at[p].op /\ x.tab = at[p].tab
        /\ x.target = at[p].target /\ x.syncing = at[p].syncing
    BY <1>25, PlaceFacts, Names, RestFacts DEF CloseIt, Places
  <2> HIDE DEF x
  <2>3. /\ PlaceOK(x) /\ LockMove(p, x)
        /\ OpOK(p, x)
    BY <1>25, <2>2, PlaceFacts DEF Disappears, Enqueue, Goto, CloseIt, PlaceOK,
        SyncOps, LockOps, Acting, OpOK, SweeperOps, LockMove, Holding, HoldsAt
  <2>4. QED  BY <2>1, <2>2, <2>3, MoveInv
<1>26. ASSUME NEW p \in Procs, RemoveClosed(p) PROVE PlacedAgain
  <2> DEFINE x == [at[p] EXCEPT !.pc = "clear", !.todo = {at[p].target} \cap Registered]
    <2>1. at' = [at EXCEPT ![p] = x]
    BY <1>26, PlaceFacts DEF RemoveState,
        RemoveClosed
  <2>2. /\ x \in Places
        /\ x.pc = "clear" /\ x.op = at[p].op /\ x.tab = at[p].tab
        /\ x.target = at[p].target /\ x.syncing = at[p].syncing
    BY <1>26, PlaceFacts, Names, RestFacts DEF RemoveClosed, Places, Registered
  <2> HIDE DEF x
  <2>3. /\ PlaceOK(x) /\ LockMove(p, x)
        /\ OpOK(p, x)
    BY <1>26, <2>2, PlaceFacts DEF RemoveState, RemoveClosed, PlaceOK, SyncOps,
        LockOps, Acting, OpOK, SweeperOps, LockMove, Holding, HoldsAt
  <2>4. QED  BY <2>1, <2>2, <2>3, MoveInv
<1>27. ASSUME NEW p \in Procs, CloseFails(p) PROVE PlacedAgain
  <2> DEFINE x == Rest
    <2>1. at' = [at EXCEPT ![p] = x]
    BY <1>27, PlaceFacts DEF Unlock, Locks!Leave,
        Finish, NextVictim, CloseFails
  <2>2. /\ x \in Places
        /\ x.pc = "rest" /\ x.op = "none" /\ x.tab = None
        /\ x.target = None /\ x.syncing = FALSE
    BY <1>27, PlaceFacts, Names, RestFacts DEF CloseFails, Places
  <2> HIDE DEF x
  <2>3. /\ PlaceOK(x) /\ LockMove(p, x)
        /\ OpOK(p, x)
    BY <1>27, <2>2, PlaceFacts DEF Unlock, Locks!Leave, Finish, NextVictim, CloseFails,
        PlaceOK, SyncOps, LockOps, Acting, OpOK, SweeperOps, LockMove, Holding, HoldsAt
  <2>4. QED  BY <2>1, <2>2, <2>3, MoveInv
<1>28. ASSUME SweepGone PROVE PlacedAgain
  <2> DEFINE x == [at["sweeper"] EXCEPT !.pc = "clear", !.op = "sweepgone",
                                 !.todo = {Victim} \cap Registered]
    <2>1. at' = [at EXCEPT !["sweeper"] = x]
    BY <1>28, PlaceFacts, ProcFacts DEF
        RemoveState, SweepGone
  <2>2. /\ x \in Places
        /\ x.pc = "clear" /\ x.op = "sweepgone" /\ x.tab = at["sweeper"].tab
        /\ x.target = at["sweeper"].target /\ x.syncing = at["sweeper"].syncing
    BY <1>28, PlaceFacts, ProcFacts, Names, RestFacts DEF SweepGone, Places, Registered
  <2> HIDE DEF x
  <2>3. /\ PlaceOK(x) /\ LockMove("sweeper", x)
        /\ OpOK("sweeper", x)
    BY <1>28, <2>2, PlaceFacts, ProcFacts DEF RemoveState, SweepGone, PlaceOK, SyncOps,
        LockOps, Acting, OpOK, SweeperOps, LockMove, Holding, HoldsAt
  <2>4. QED  BY ProcFacts, <2>1, <2>2, <2>3, MoveInv
<1>29. ASSUME NEW p \in Procs, CloseDone(p) PROVE PlacedAgain
  <2>1. CASE p = "sweeper"
    <3> DEFINE x == Rest
    <3>1. at' = [at EXCEPT ![p] = x]
      BY <1>29, <2>1, PlaceFacts, ProcFacts DEF
          CloseDone, Cleared, Unlock, Locks!Leave, Goto, Finish
    <3>2. /\ x \in Places
          /\ x.pc = "rest" /\ x.op = "none" /\ x.tab = None
          /\ x.target = None /\ x.syncing = FALSE
      BY <1>29, <2>1, PlaceFacts, ProcFacts, Names, RestFacts DEF CloseDone, Places
    <3> HIDE DEF x
    <3>3. /\ PlaceOK(x) /\ LockMove(p, x)
          /\ OpOK(p, x)
      BY <1>29, <2>1, <3>2, PlaceFacts, ProcFacts, RestFacts DEF CloseDone, Cleared,
          Unlock, Locks!Leave, Goto, Finish, PlaceOK, SyncOps, LockOps, Acting,
          OpOK, SweeperOps, LockMove, Holding, HoldsAt
    <3>4. QED  BY ProcFacts, <3>1, <3>2, <3>3, MoveInv
  <2>2. CASE p # "sweeper"
    <3> DEFINE x == [at[p] EXCEPT !.pc = "log"]
    <3>1. at' = [at EXCEPT ![p] = x]
      BY <1>29, <2>2, PlaceFacts, ProcFacts DEF
          CloseDone, Cleared, Unlock, Locks!Leave, Goto, Finish
    <3>2. /\ x \in Places
          /\ x.pc = "log" /\ x.op = at[p].op /\ x.tab = at[p].tab
          /\ x.target = at[p].target /\ x.syncing = at[p].syncing
      BY <1>29, <2>2, PlaceFacts, ProcFacts, Names, RestFacts DEF CloseDone, Places
    <3> HIDE DEF x
    <3>3. /\ PlaceOK(x) /\ LockMove(p, x)
          /\ OpOK(p, x)
      BY <1>29, <2>2, <3>2, PlaceFacts, ProcFacts, RestFacts DEF CloseDone, Cleared,
          Unlock, Locks!Leave, Goto, Finish, PlaceOK, SyncOps, LockOps, Acting,
          OpOK, SweeperOps, LockMove, Holding, HoldsAt
    <3>4. QED  BY ProcFacts, <3>1, <3>2, <3>3, MoveInv
  <2>3. QED  BY <2>1, <2>2
<1>30. ASSUME SweepVictim PROVE PlacedAgain
  <2> DEFINE x == [Rest EXCEPT !.pc = "lock", !.op = "sweep", !.tab = targetToShort[Victim]]
    <2>1. at' = [at EXCEPT !["sweeper"] = x]
    BY <1>30, PlaceFacts, ProcFacts DEF
        Idle, Begin, ShortForTarget, SweepVictim
  <2>2. /\ x \in Places
        /\ x.pc = "lock" /\ x.op = "sweep" /\ x.tab = targetToShort[Victim]
        /\ x.target = None /\ x.syncing = FALSE
    BY <1>30, PlaceFacts, ProcFacts, Names, RestFacts, RegisteredFacts DEF SweepVictim,
        Places, LifecycleInv
  <2> HIDE DEF x
  <2>3. /\ PlaceOK(x) /\ LockMove("sweeper", x)
        /\ OpOK("sweeper", x)
    BY <1>30, <2>2, PlaceFacts, ProcFacts, RegisteredFacts DEF Idle, Begin,
        ShortForTarget, SweepVictim, PlaceOK, SyncOps, LockOps, Acting, OpOK, SweeperOps,
        LockMove, Holding, HoldsAt, LifecycleInv
  <2>4. QED  BY ProcFacts, <2>1, <2>2, <2>3, MoveInv
<1>31. ASSUME SweepLock PROVE PlacedAgain
  <2> DEFINE x == [at["sweeper"] EXCEPT !.pc = "lookup"]
    <2>1. at' = [at EXCEPT !["sweeper"] = x]
    BY <1>31, PlaceFacts, ProcFacts DEF
        Locks!Enter, Goto, SweepLock
  <2>2. /\ x \in Places
        /\ x.pc = "lookup" /\ x.op = at["sweeper"].op /\ x.tab = at["sweeper"].tab
        /\ x.target = at["sweeper"].target /\ x.syncing = at["sweeper"].syncing
    BY <1>31, PlaceFacts, ProcFacts, Names, RestFacts DEF SweepLock, Places
  <2> HIDE DEF x
  <2>3. /\ PlaceOK(x) /\ LockMove("sweeper", x)
        /\ OpOK("sweeper", x)
    BY <1>31, <2>2, PlaceFacts, ProcFacts DEF Locks!Enter, Goto, SweepLock, PlaceOK,
        SyncOps, LockOps, Acting, OpOK, SweeperOps, LockMove, Holding, HoldsAt
  <2>4. QED  BY ProcFacts, <2>1, <2>2, <2>3, MoveInv
<1>32. ASSUME SweepSpared PROVE PlacedAgain
  <2> DEFINE x == Rest
    <2>1. at' = [at EXCEPT !["sweeper"] = x]
    BY <1>32, PlaceFacts, ProcFacts DEF
        Finish, NextVictim, SweepSpared
  <2>2. /\ x \in Places
        /\ x.pc = "rest" /\ x.op = "none" /\ x.tab = None
        /\ x.target = None /\ x.syncing = FALSE
    BY <1>32, PlaceFacts, ProcFacts, Names, RestFacts DEF SweepSpared, Places
  <2> HIDE DEF x
  <2>3. /\ PlaceOK(x) /\ LockMove("sweeper", x)
        /\ OpOK("sweeper", x)
    BY <1>32, <2>2, PlaceFacts, ProcFacts DEF Finish, NextVictim, SweepSpared, PlaceOK,
        SyncOps, LockOps, Acting, OpOK, SweeperOps, LockMove, Holding, HoldsAt
  <2>4. QED  BY ProcFacts, <2>1, <2>2, <2>3, MoveInv
<1>33. ASSUME SweepFind PROVE PlacedAgain
  <2> DEFINE x == [at["sweeper"] EXCEPT !.pc = Found(Lookup(at["sweeper"].tab)),
                                 !.target = Lookup(at["sweeper"].tab)]
    <2>1. at' = [at EXCEPT !["sweeper"] = x]
    BY <1>33, PlaceFacts, ProcFacts DEF
        Found, SweepFind
  <2>2. /\ x \in Places
        /\ x.pc = Found(Lookup(at["sweeper"].tab))
        /\ x.op = at["sweeper"].op /\ x.tab = at["sweeper"].tab
        /\ x.target = Lookup(at["sweeper"].tab) /\ x.syncing = at["sweeper"].syncing
    BY <1>33, PlaceFacts, ProcFacts, Names, RestFacts, LookupFacts DEF SweepFind,
        Places, LifecycleInv, Found
  <2> HIDE DEF x
  <2>3. /\ PlaceOK(x) /\ LockMove("sweeper", x)
        /\ OpOK("sweeper", x)
    BY <1>33, <2>2, PlaceFacts, ProcFacts, LookupFacts DEF Found, SweepFind, PlaceOK,
        SyncOps, LockOps, Acting, OpOK, SweeperOps, LockMove, Holding, HoldsAt, LifecycleInv
  <2>4. QED  BY ProcFacts, <2>1, <2>2, <2>3, MoveInv
<1>34. ASSUME SweepUnregistered \/ SweepDrop PROVE PlacedAgain
  <2>1. CASE SweepUnregistered
    <3> DEFINE x == [Rest EXCEPT !.pc = "drop", !.op = "drop", !.tab = None]
    <3>1. at' = [at EXCEPT !["sweeper"] = x] /\ holders' = holders
      BY <2>1 DEF SweepUnregistered, Begin
    <3>2. x \in Places /\ x.pc = "drop" /\ x.op = "drop" /\ x.syncing = FALSE
      BY Names, RestFacts DEF Places
    <3> HIDE DEF x
    <3>3. PlaceOK(x) /\ LockMove("sweeper", x) /\ OpOK("sweeper", x)
      BY <3>1, <3>2
         DEF PlaceOK, SyncOps, LockOps, Acting, LockMove, HoldsAt, OpOK, SweeperOps
    <3>4. QED  BY ProcFacts, <3>1, <3>2, <3>3, MoveInv
  <2>2. CASE SweepDrop
    <3>1. at' = [at EXCEPT !["sweeper"] = Rest] /\ holders' = holders
      BY <2>2 DEF SweepDrop, Finish
    <3>2. LockMove("sweeper", Rest) /\ OpOK("sweeper", Rest)
      BY <3>1, RestFacts DEF LockMove, OpOK, SweeperOps
    <3>3. QED  BY <3>1, <3>2, RestFacts, ProcFacts, MoveInv
  <2>3. QED  BY <1>34, <2>1, <2>2
<1>37. ASSUME Restart PROVE PlacedAgain
  <2> DEFINE starter == [Rest EXCEPT !.pc = "capture", !.op = "start"]
  <2>1. at' = [p \in Procs |-> IF p = "starter" THEN starter ELSE Rest]
        /\ holders' = [s \in ShortIds |-> {}]
    BY <1>37 DEF Restart, Fresh
  <2>2. /\ starter \in Places /\ PlaceOK(starter) /\ ~HoldsAt(starter)
        /\ OpOK("starter", starter)
    <3>1. /\ starter \in Places /\ starter.pc = "capture" /\ starter.op = "start"
          /\ starter.syncing = FALSE
      BY Names, RestFacts DEF Places
    <3> HIDE DEF starter
    <3>2. QED  BY <3>1, ProcFacts DEF PlaceOK, SyncOps, Acting, HoldsAt, LockOps, OpOK
  <2> HIDE DEF starter
  <2>3. QED
    BY <2>1, <2>2, RestFacts, ProcFacts
       DEF PlacedAgain, PlacesOK, LocksOK, OpOK, SweeperOps, Holding
<1>35. CASE UNCHANGED <<at, holders>>
  BY <1>35 DEF LifecycleInv, LifecycleTypeOK, PlacedAgain, PlacesOK, LocksOK, Holding
<1>36. QED
  BY ProcFacts, <1>1, <1>2, <1>3, <1>4, <1>5, <1>6, <1>7, <1>8, <1>9, <1>10, <1>11,
      <1>12, <1>13, <1>14, <1>15, <1>16, <1>17, <1>18, <1>19, <1>20, <1>21, <1>22,
      <1>23, <1>24, <1>25, <1>26, <1>27, <1>28, <1>29, <1>30, <1>31, <1>32, <1>33,
      <1>34, <1>35, <1>37 DEF LifecycleNext, Environment, Requests, ClientStep,
      LockedStep, RequestStep, SyncStep, WatcherStep, SweeperStep, StarterStep,
      UserOpens, UserCloses, InfoChanged, Expire, SweepTick

-----------------------------------------------------------------------------
(***************************************************************************)
(* The inductive invariant.                                                *)
(***************************************************************************)
\* Every step changes the registry as one of its operations does, or not at all.
LEMMA RegistryKept ==
  ASSUME LifecycleInv, LifecycleNext
  PROVE  RegistryOK'
<1>1. ASSUME NEW p \in Procs, Apply(p) PROVE RegistryOK'
  BY <1>1, PlaceFacts, SyncOK DEF Apply, LifecycleInv
<1>2. ASSUME HandleEvent PROVE RegistryOK'
  <2>1. Head(events).target \in Targets
    BY <1>2, HeadTyped DEF HandleEvent, LifecycleInv, LifecycleTypeOK, ChromeTyped, Events
  <2>2. CASE UNCHANGED registryVars
    BY <2>2 DEF LifecycleInv, registryVars, RegistryOK, RegistryInv, RegistryTypeOK,
                MapsInverse, OwnSuffix, SelectedRegistered, Registered, Lookup
  <2>3. QED
    BY <1>2, <2>1, <2>2, RegisterOK, RemoveOK DEF HandleEvent, RemoveState, LifecycleInv
<1>3. ASSUME NEW p \in Clients, Answer(p) PROVE RegistryOK'
  BY <1>3, SelectOK DEF Answer, LifecycleInv, registryVars, RegistryOK, RegistryInv,
      RegistryTypeOK, MapsInverse, OwnSuffix, SelectedRegistered, Registered, Lookup
<1>4. ASSUME NEW p \in Clients, NewRegister(p) PROVE RegistryOK'
  BY <1>4, PlaceFacts, ProcFacts, RegisterOK DEF NewRegister, LifecycleInv, PlaceOK
<1>5. ASSUME NEW p \in Clients, NewReply(p) PROVE RegistryOK'
  BY <1>5, SelectOK DEF NewReply, LifecycleInv, registryVars, RegistryOK, RegistryInv,
      RegistryTypeOK, MapsInverse, OwnSuffix, SelectedRegistered, Registered, Lookup
<1>6. ASSUME NEW p \in Procs, RemoveClosed(p) PROVE RegistryOK'
  BY <1>6, RemoveOK DEF RemoveClosed, RemoveState, LifecycleInv
<1>7. ASSUME SweepGone PROVE RegistryOK'
  BY <1>7, RemoveOK DEF SweepGone, RemoveState, LifecycleInv
<1>8. ASSUME Restart PROVE RegistryOK'
  BY <1>8, RestartOK DEF Restart
<1>9. CASE UNCHANGED registryVars
  BY <1>9 DEF LifecycleInv, registryVars, RegistryOK, RegistryInv, RegistryTypeOK,
      MapsInverse, OwnSuffix, SelectedRegistered, Registered, Lookup
<1>10. QED
  BY ProcFacts, <1>1, <1>2, <1>3, <1>4, <1>5, <1>6, <1>7, <1>8, <1>9 DEF
      LifecycleNext, Environment, Requests, ClientStep, LockedStep, RequestStep,
      SyncStep, WatcherStep, SweeperStep, StarterStep, UserOpens, UserCloses,
      InfoChanged, Expire, Capture, Untrack, Detach, Present, Reconcile, ReadLog,
      ResolveLogged, Mark, ReconcileEnds, ConsumeDirty, ResyncFails, StartSyncFails,
      StartList, NewCreate, NewTrack, AppendLog, StartLocked, FindAgain, ListFails,
      Unknown, Operate, Succeed, Touch, OperateFails, CloseIt, CloseFails, CloseDone,
      SweepTick, SweepUnregistered, SweepDrop, SweepVictim, SweepLock, SweepSpared,
      SweepFind

\* The type of Chrome's state and of the queue, on its own.
LEMMA ChromeNow == LifecycleInv => ChromeTyped
BY DEF LifecycleInv, LifecycleTypeOK, ChromeTyped, Events

\* An empty queue is a queue.
LEMMA EmptyQueue == <<>> \in Seq(Events) /\ Len(<<>>) <= QueueCap
<1>1. <<>> \in Seq(Events) /\ Len(<<>>) = 0
  OBVIOUS
<1>2. QED  BY <1>1, LifecycleAssumption

\* Chrome's state and the event queue keep their types, the queue its bound.
LEMMA ChromeKept ==
  ASSUME LifecycleInv, LifecycleNext
  PROVE  ChromeTyped'
<1>1. ASSUME NEW t \in Targets, UserOpens(t) PROVE ChromeTyped'
  BY <1>1, ChromeNow, ChromeMoves DEF UserOpens
<1>2. ASSUME NEW t \in Targets, UserCloses(t) PROVE ChromeTyped'
  BY <1>2, ChromeNow, ChromeMoves DEF UserCloses
<1>3. ASSUME NEW t \in Targets, InfoChanged(t) PROVE ChromeTyped'
  BY <1>3, ChromeNow, ChromeMoves DEF InfoChanged
<1>4. ASSUME NEW p \in Procs, Detach(p) PROVE ChromeTyped'
  BY <1>4, ChromeNow, ChromeMoves DEF Detach, Live, chromeVars, ChromeTyped
<1>5. ASSUME HandleEvent PROVE ChromeTyped'
  BY <1>5, ChromeNow, HeadTyped DEF HandleEvent, ChromeTyped
<1>6. ASSUME ConsumeDirty PROVE ChromeTyped'
  BY <1>6, ChromeNow DEF ConsumeDirty, ChromeTyped
<1>7. ASSUME ResyncFails PROVE ChromeTyped'
  BY <1>7, ChromeNow DEF ResyncFails, ChromeTyped
<1>8. ASSUME StartSyncFails PROVE ChromeTyped'
  BY <1>8, ChromeNow DEF StartSyncFails, ChromeTyped
<1>9. ASSUME NEW p \in Clients, NewCreate(p) PROVE ChromeTyped'
  BY <1>9, ChromeNow, ChromeMoves, LifecycleAssumption DEF NewCreate
<1>10. ASSUME NEW p \in Procs, CloseIt(p) PROVE ChromeTyped'
  <2>1. at[p].target \in Targets
    BY <1>10, PlaceFacts DEF CloseIt, PlaceOK, Acting
  <2>2. QED  BY <1>10, <2>1, ChromeNow, ChromeMoves DEF CloseIt
<1>11. ASSUME Restart PROVE ChromeTyped'
  BY <1>11, ChromeNow, EmptyQueue DEF Restart, ChromeTyped
<1>12. CASE UNCHANGED chromeVars
  BY <1>12 DEF chromeVars, LifecycleInv, LifecycleTypeOK, ChromeTyped, Events
<1>13. QED
  BY ProcFacts, <1>1, <1>2, <1>3, <1>4, <1>5, <1>6, <1>7, <1>8, <1>9, <1>10, <1>11,
      <1>12 DEF LifecycleNext, Environment, Requests, ClientStep, LockedStep,
      RequestStep, SyncStep, WatcherStep, SweeperStep, StarterStep, Expire, Capture,
      Apply, Untrack, Present, Reconcile, ReadLog, ResolveLogged, Mark, ReconcileEnds,
      StartList, Answer, NewRegister, NewTrack, NewReply, AppendLog, StartLocked,
      FindAgain, ListFails, Unknown, Operate, Succeed, Touch, OperateFails,
      RemoveClosed, CloseFails, SweepGone, CloseDone, SweepTick, SweepUnregistered,
      SweepDrop, SweepVictim, SweepLock, SweepSpared, SweepFind

\* What the tracker, the session's pool, the sweeper and the log hold.
Tracking ==
    /\ idle \in [Targets -> IdleValues] /\ attached \subseteq Targets
    /\ expiredList \subseteq Targets /\ logged \subseteq ShortIds
    /\ restarts \in 0..MaxRestarts
\* The types of what is tracked, attached, expired and logged, on their own.
LEMMA TrackingNow == LifecycleInv => Tracking
BY DEF LifecycleInv, LifecycleTypeOK, Tracking

\* What is tracked, attached, expired and logged keeps its type.
LEMMA TrackingKept ==
  ASSUME LifecycleInv, LifecycleNext
  PROVE  Tracking'
<1>1. ASSUME NEW t \in Targets, Expire(t) PROVE Tracking'
  BY <1>1, TrackingNow DEF Expire, Tracking, IdleValues
<1>2. ASSUME NEW p \in Procs, Untrack(p) PROVE Tracking'
  BY <1>2, TrackingNow DEF Untrack, Tracking, IdleValues
<1>3. ASSUME NEW p \in Procs, Detach(p) PROVE Tracking'
  BY <1>3, TrackingNow DEF Detach, Tracking, IdleValues
<1>4. ASSUME NEW p \in Procs, Present(p) PROVE Tracking'
  BY <1>4, TrackingNow DEF Present, Tracking, IdleValues
<1>5. ASSUME NEW p \in Procs, Mark(p) PROVE Tracking'
  BY <1>5, TrackingNow DEF Mark, Tracking, IdleValues
<1>6. ASSUME SweepDrop PROVE Tracking'
  BY <1>6, TrackingNow DEF SweepDrop, Tracking, IdleValues, NextVictim
<1>7. ASSUME NEW p \in Clients, NewTrack(p) PROVE Tracking'
  BY <1>7, TrackingNow DEF NewTrack, Tracking, IdleValues
<1>8. ASSUME NEW p \in Clients, AppendLog(p) PROVE Tracking'
  BY <1>8, TrackingNow, PlaceFacts, ProcFacts DEF AppendLog, Tracking, IdleValues,
      PlaceOK
<1>10. ASSUME NEW p \in Clients, Operate(p) PROVE Tracking'
  BY <1>10, TrackingNow DEF Operate, Tracking, IdleValues, Live
<1>11. ASSUME NEW p \in Clients, Touch(p) PROVE Tracking'
  BY <1>11, TrackingNow DEF Touch, Tracking, IdleValues
<1>12. ASSUME NEW p \in Procs, CloseIt(p) PROVE Tracking'
  BY <1>12, TrackingNow DEF CloseIt, Tracking, IdleValues
<1>13. ASSUME NEW p \in Procs, CloseFails(p) PROVE Tracking'
  BY <1>13, TrackingNow DEF CloseFails, Tracking, IdleValues, NextVictim
<1>14. ASSUME NEW p \in Procs, CloseDone(p) PROVE Tracking'
  BY <1>14, TrackingNow DEF CloseDone, Tracking, IdleValues, NextVictim
<1>15. ASSUME SweepTick PROVE Tracking'
  BY <1>15, TrackingNow DEF SweepTick, Tracking, IdleValues
<1>17. ASSUME SweepSpared PROVE Tracking'
  BY <1>17, TrackingNow DEF SweepSpared, Tracking, IdleValues, NextVictim
<1>18. ASSUME Restart PROVE Tracking'
  BY <1>18, TrackingNow, LifecycleAssumption DEF Restart, Tracking, IdleValues
<1>19. CASE UNCHANGED <<idle, attached, expiredList, logged, restarts>>
  BY <1>19 DEF LifecycleInv, LifecycleTypeOK, Tracking
<1>20. QED
  BY ProcFacts, <1>1, <1>2, <1>3, <1>4, <1>5, <1>6, <1>7, <1>8, <1>10, <1>11, <1>12,
      <1>13, <1>14, <1>15, <1>17, <1>18, <1>19 DEF LifecycleNext, Environment,
      Requests, ClientStep, LockedStep, RequestStep, SyncStep, WatcherStep,
      SweeperStep, StarterStep, UserOpens, UserCloses, InfoChanged, Capture, Apply,
      Reconcile, ReadLog, ResolveLogged, ReconcileEnds, HandleEvent, ConsumeDirty,
      ResyncFails, StartSyncFails, StartList, Answer, NewCreate, NewRegister,
      NewReply, StartLocked, FindAgain, ListFails, Unknown, Succeed, OperateFails,
      RemoveClosed, SweepGone, SweepUnregistered, SweepVictim, SweepLock, SweepFind

\* The start satisfies the invariant ...
LEMMA LifecycleInvInit == LifecycleInit => LifecycleInv
<1> SUFFICES ASSUME LifecycleInit PROVE LifecycleInv
  OBVIOUS
<1>1. RegistryOK
  BY InitInv DEF LifecycleInit, RegistryInit, RegistryOK, Registered
<1> DEFINE starter == [Rest EXCEPT !.pc = "capture", !.op = "start"]
<1>2. /\ starter \in Places /\ PlaceOK(starter) /\ ~HoldsAt(starter)
      /\ OpOK("starter", starter)
  <2>1. /\ starter \in Places /\ starter.pc = "capture" /\ starter.op = "start"
        /\ starter.syncing = FALSE
    BY Names, RestFacts DEF Places
  <2> HIDE DEF starter
  <2>2. QED  BY <2>1, ProcFacts DEF PlaceOK, SyncOps, Acting, HoldsAt, LockOps, OpOK
<1>3. at = [p \in Procs |-> IF p = "starter" THEN starter ELSE Rest]
  BY DEF LifecycleInit, Fresh
<1> HIDE DEF starter
<1>4. at \in [Procs -> Places] /\ PlacesOK /\ LocksOK
  BY <1>2, <1>3, RestFacts, ProcFacts
     DEF LifecycleInit, PlacesOK, LocksOK, OpOK, SweeperOps, Holding
<1>5. ChromeTyped
  BY EmptyQueue DEF LifecycleInit, ChromeTyped
<1>6. Tracking
  BY LifecycleAssumption DEF LifecycleInit, Tracking, IdleValues
<1>7. holders \in [ShortIds -> SUBSET Procs]
  BY DEF LifecycleInit
<1>8. QED
  BY <1>1, <1>4, <1>5, <1>6, <1>7
     DEF LifecycleInv, LifecycleTypeOK, ChromeTyped, Tracking, Events, RegistryOK,
         RegistryInv

\* ... and every step keeps it.
LEMMA LifecycleInvNext == LifecycleInv /\ [LifecycleNext]_lifecycleVars => LifecycleInv'
<1>1. ASSUME LifecycleInv, LifecycleNext PROVE LifecycleInv'
  BY <1>1, RegistryKept, ChromeKept, TrackingKept, PlacesKept
     DEF LifecycleInv, LifecycleTypeOK, ChromeTyped, Tracking, Events, PlacedAgain,
         RegistryOK, RegistryInv
<1>2. ASSUME LifecycleInv, UNCHANGED lifecycleVars PROVE LifecycleInv'
  BY <1>2 DEF lifecycleVars, chromeVars, registryVars, LifecycleInv, LifecycleTypeOK,
              RegistryOK, RegistryInv, RegistryTypeOK, MapsInverse, OwnSuffix,
              SelectedRegistered, Registered, Lookup, PlacesOK, LocksOK, Holding
<1>3. QED  BY <1>1, <1>2

\* So it holds in every state the daemon reaches.
LEMMA LifecycleInvAlways == LifecycleSpec => []LifecycleInv
BY LifecycleInvInit, LifecycleInvNext, PTL DEF LifecycleSpec

\* Every goroutine is at a line of its handler, and the event queue never outgrows
\* its capacity (enqueueTargetEvent).
THEOREM LifecycleTyped == LifecycleSpec => []LifecycleTypeOK
<1>1. LifecycleInv => LifecycleTypeOK
  BY DEF LifecycleInv
<1>2. QED  BY <1>1, LifecycleInvAlways, PTL

\* The lock of a short id serializes what is done to its tab, if no two targets agree in
\* the digits of a short id: two goroutines that act on one target would both have
\* resolved its only short id, and hold one lock (lockTab, resolveTab).
THEOREM OneActor ==
  ASSUME ShortIdsDiffer
  PROVE  LifecycleSpec => []OneActorPerTarget
<1>1. ASSUME LifecycleInv PROVE OneActorPerTarget
  <2> SUFFICES ASSUME NEW t \in Targets PROVE Cardinality(ActingOn(t)) <= 1
    BY DEF OneActorPerTarget
  <2>1. ASSUME NEW p \in ActingOn(t)
        PROVE  p \in Procs /\ ShortName(t) \in ShortIds /\ p \in holders[ShortName(t)]
    <3>1. p \in Procs /\ at[p].pc \in Acting /\ at[p].target = t
      BY <2>1 DEF ActingOn, Acting
    <3>2. Holding(p) /\ at[p].tab = ShortName(t)
      BY <1>1, <3>1, PlaceFacts DEF PlaceOK, Holding, HoldsAt, LockOps, Acting
    <3>3. QED  BY <1>1, <3>1, <3>2 DEF LifecycleInv, LocksOK
  <2>2. \A p, q \in ActingOn(t) : p = q
    BY <1>1, <2>1 DEF LifecycleInv, LocksOK
  <2>3. CASE ActingOn(t) = {}
    BY <2>3, FS_EmptySet
  <2>4. CASE ActingOn(t) # {}
    <3>1. PICK p \in ActingOn(t) : ActingOn(t) = {p}
      BY <2>2, <2>4
    <3>2. Cardinality({p}) = 1
      BY FS_Singleton
    <3>3. QED  BY <3>1, <3>2
  <2>5. QED  BY <2>3, <2>4
<1>2. QED  BY <1>1, LifecycleInvAlways, PTL

-----------------------------------------------------------------------------
(***************************************************************************)
(* What the log keeps for a daemon that starts again: every open tab that  *)
(* is tracked.                                                             *)
(***************************************************************************)
\* A tab_close on its way to the log; what a reconciliation has read and not yet
\* applied; a tab_new on its way to the log.
Closing(x) == x.op = "close" /\ \/ x.pc \in {"remove", "log"}
                                \/ x.pc \in {"clear", "detach"} /\ ~x.syncing
Learnt(x, t) == ShortName(t) \in x.ids \/ (x.pc = "mark" /\ x.target = t)
Announcing(x) == x.op = "new" /\ x.pc \in {"reply", "log"}

\* Only a tab that is gone is on its way out of the log, and so what was read of the
\* log holds of every tab that is not gone, however old it is.
CleanupOK ==
    /\ \A p \in Procs, t \in Targets : chrome[t] # "gone" =>
           /\ Closing(at[p]) => at[p].tab # ShortName(t)
           /\ Learnt(at[p], t) => ShortName(t) \in logged
    /\ \A t \in Tracked : chrome[t] # "gone" => ShortName(t) \in logged \/ Announced(t)

\* A tab that is gone does not come back.
LEMMA GoneStays ==
  ASSUME LifecycleInv, LifecycleNext, NEW t \in Targets, chrome[t] = "gone"
  PROVE  chrome'[t] = "gone"
<1>1. ASSUME NEW u \in Targets, Appears(u) PROVE chrome'[t] = "gone"
  BY <1>1, ChromeNow DEF Appears, ChromeTyped
<1>2. ASSUME NEW u \in Targets, Disappears(u) PROVE chrome'[t] = "gone"
  BY <1>2, ChromeNow DEF Disappears, ChromeTyped
<1>3. ASSUME NEW p \in Procs, Detach(p) PROVE chrome'[t] = "gone"
  BY <1>2, <1>3 DEF Detach, Live, chromeVars
<1>4. ASSUME NEW p \in Procs, CloseIt(p) PROVE chrome'[t] = "gone"
  BY <1>2, <1>4, PlaceFacts DEF CloseIt, PlaceOK, Acting
<1>5. CASE UNCHANGED chrome
  BY <1>5
<1>6. QED
  BY ProcFacts, LifecycleAssumption, <1>1, <1>2, <1>3, <1>4, <1>5 DEF LifecycleNext,
      Environment, Requests,
      ClientStep, LockedStep, RequestStep, SyncStep, WatcherStep, SweeperStep,
      StarterStep, Reconcile, chromeVars, UserOpens, UserCloses, InfoChanged, Expire,
      Capture, Apply, Untrack, Present, ReadLog, ResolveLogged, Mark, ReconcileEnds,
      HandleEvent, ConsumeDirty, ResyncFails, StartSyncFails, StartList, Answer,
      NewCreate, NewRegister, NewTrack, NewReply, AppendLog, StartLocked, FindAgain,
      ListFails, Unknown, Operate, Succeed, Touch, OperateFails, RemoveClosed,
      CloseFails, SweepGone, CloseDone, SweepTick, SweepUnregistered, SweepDrop,
      SweepVictim, SweepLock, SweepSpared, SweepFind, Restart

\* Only one goroutine moves, and it neither comes to close a tab, nor learns anything of
\* the log, nor gives up what it announced.
Quiet(p) ==
    /\ \A q \in Procs : q # p => at'[q] = at[q]
    /\ Closing(at'[p]) => Closing(at[p]) /\ at'[p].tab = at[p].tab
    /\ \A t \in Targets : Learnt(at'[p], t) => Learnt(at[p], t)
    /\ Announcing(at[p]) => Announcing(at'[p]) /\ at'[p].target = at[p].target

\* Such a step that tracks nothing new leaves what the log keeps right.
LEMMA QuietKept ==
  ASSUME LifecycleInv, LifecycleNext, CleanupOK, NEW p \in Procs, Quiet(p),
         UNCHANGED logged, Tracked' \subseteq Tracked
  PROVE  CleanupOK'
<1>1. \A t \in Targets : chrome'[t] # "gone" => chrome[t] # "gone"
  BY GoneStays
<1>2. \A q \in Procs : /\ Closing(at'[q]) => Closing(at[q]) /\ at'[q].tab = at[q].tab
                       /\ \A t \in Targets : Learnt(at'[q], t) => Learnt(at[q], t)
  BY DEF Quiet
<1>3. \A t \in Targets : Announced(t) => Announced(t)'
  BY ProcFacts DEF Quiet, Announced, Announcing
<1>4. Tracked \subseteq Targets
  BY DEF Tracked
<1>5. QED  BY <1>1, <1>2, <1>3, <1>4 DEF CleanupOK

\* Every step leaves what the log keeps right.
LEMMA CleanupKept ==
  ASSUME ShortIdsDiffer, LifecycleInv, CleanupOK, LifecycleNext
  PROVE  CleanupOK'
<1> USE DEF Tracked
<1>1. ASSUME NEW p \in Procs, Capture(p) PROVE CleanupOK'
  <2>1. Quiet(p) /\ UNCHANGED logged /\ Tracked' \subseteq Tracked
    BY <1>1, PlaceFacts, ProcFacts, RestFacts DEF Capture, Quiet, Closing, Learnt,
       Announcing, PlaceOK, LifecycleInv, LifecycleTypeOK
  <2>2. QED  BY <1>1, <2>1, QuietKept, ProcFacts
<1>2. ASSUME NEW p \in Procs, Apply(p) PROVE CleanupOK'
  <2>1. Quiet(p) /\ UNCHANGED logged /\ Tracked' \subseteq Tracked
    BY <1>2, PlaceFacts, ProcFacts, RestFacts DEF Apply, PlaceOK, Quiet, Closing,
       Learnt, Announcing, LifecycleInv, LifecycleTypeOK
  <2>2. QED  BY <1>2, <2>1, QuietKept, ProcFacts
<1>3. ASSUME NEW p \in Procs, Untrack(p) PROVE CleanupOK'
  <2>1. Quiet(p) /\ UNCHANGED logged /\ Tracked' \subseteq Tracked
    BY <1>3, PlaceFacts, ProcFacts, RestFacts DEF Untrack, PlaceOK, Quiet, Closing,
       Learnt, Announcing, LifecycleInv, LifecycleTypeOK
  <2>2. QED  BY <1>3, <2>1, QuietKept, ProcFacts
<1>4. ASSUME NEW p \in Procs, Detach(p) PROVE CleanupOK'
  <2>1. UNCHANGED logged /\ Tracked' \subseteq Tracked
    BY <1>4, TrackingNow DEF Detach, Tracking
  <2>2. CASE at[p].op = "event"
    <3>1. at' = [at EXCEPT ![p] = Rest]
      BY <1>4, <2>2 DEF Detach, Goto, Finish
    <3>2. Quiet(p)
      BY <1>4, <2>2, <3>1, PlaceFacts, ProcFacts, RestFacts
         DEF Detach, Quiet, Closing, Learnt, Announcing, PlaceOK
    <3>3. QED  BY <2>1, <3>2, ProcFacts, QuietKept
  <2>3. CASE at[p].op # "event"
    <3>1. at' = [at EXCEPT ![p].pc = "clear"]
      BY <1>4, <2>3 DEF Detach, Goto, Finish
    <3>2. Quiet(p)
      BY <1>4, <2>3, <3>1, PlaceFacts, ProcFacts, RestFacts
         DEF Detach, Quiet, Closing, Learnt, Announcing, PlaceOK
    <3>3. QED  BY <2>1, <3>2, ProcFacts, QuietKept
  <2>4. QED  BY <1>4, <2>2, <2>3 DEF Detach
<1>5. ASSUME NEW p \in Procs, Present(p) PROVE CleanupOK'
  <2>1. Quiet(p) /\ UNCHANGED logged /\ Tracked' \subseteq Tracked
    BY <1>5, PlaceFacts, ProcFacts, RestFacts DEF Present, PlaceOK, AfterSync,
       SyncOps, Quiet, Closing, Learnt, Announcing, LifecycleInv, LifecycleTypeOK
  <2>2. QED  BY <1>5, <2>1, QuietKept, ProcFacts
<1>6. ASSUME NEW p \in Procs, ReconcileEnds(p) PROVE CleanupOK'
  <2>1. Quiet(p) /\ UNCHANGED logged /\ Tracked' \subseteq Tracked
    BY <1>6, PlaceFacts, ProcFacts, RestFacts DEF ReconcileEnds, Finish, Quiet,
       Closing, Learnt, Announcing, PlaceOK, LifecycleInv, LifecycleTypeOK
  <2>2. QED  BY <1>6, <2>1, QuietKept, ProcFacts
<1>7. ASSUME HandleEvent PROVE CleanupOK'
  <2>1. UNCHANGED logged /\ Tracked' \subseteq Tracked
    BY <1>7 DEF HandleEvent
  <2>2. CASE UNCHANGED at
    BY <2>1, <2>2, ProcFacts, QuietKept DEF Quiet
  <2>3. CASE at' # at
    <3>1. PICK T : at' = [at EXCEPT !["watcher"].pc = "clear", !["watcher"].op = "event",
                                    !["watcher"].todo = T]
      BY <1>7, <2>3 DEF HandleEvent, RemoveState
    <3>2. Quiet("watcher")
      BY <1>7, <3>1, PlaceFacts, ProcFacts
         DEF HandleEvent, Quiet, Closing, Learnt, Announcing
    <3>3. QED  BY <2>1, <3>2, ProcFacts, QuietKept
  <2>4. QED  BY <2>2, <2>3
<1>8. ASSUME ConsumeDirty PROVE CleanupOK'
  <2>1. Quiet("watcher") /\ UNCHANGED logged /\ Tracked' \subseteq Tracked
    BY <1>8, PlaceFacts, ProcFacts, RestFacts DEF ConsumeDirty, Quiet, Closing,
       Learnt, Announcing, PlaceOK, LifecycleInv, LifecycleTypeOK
  <2>2. QED  BY <1>8, <2>1, QuietKept, ProcFacts
<1>9. ASSUME ResyncFails PROVE CleanupOK'
  <2>1. Quiet("watcher") /\ UNCHANGED logged /\ Tracked' \subseteq Tracked
    BY <1>9, PlaceFacts, ProcFacts, RestFacts DEF ResyncFails, Finish, Quiet, Closing,
       Learnt, Announcing, PlaceOK, LifecycleInv, LifecycleTypeOK
  <2>2. QED  BY <1>9, <2>1, QuietKept, ProcFacts
<1>10. ASSUME StartSyncFails PROVE CleanupOK'
  <2>1. Quiet("starter") /\ UNCHANGED logged /\ Tracked' \subseteq Tracked
    BY <1>10, PlaceFacts, ProcFacts, RestFacts DEF StartSyncFails, Finish, Quiet,
       Closing, Learnt, Announcing, PlaceOK, LifecycleInv, LifecycleTypeOK
  <2>2. QED  BY <1>10, <2>1, QuietKept, ProcFacts
<1>11. ASSUME NEW p \in Clients, StartList(p) PROVE CleanupOK'
  <2>1. UNCHANGED logged /\ Tracked' \subseteq Tracked
    BY <1>11 DEF StartList
  <2>2. PICK op \in {"list", "select"}, s \in ShortIds \cup {None} :
            at' = [at EXCEPT ![p] = [Rest EXCEPT !.pc = "capture", !.op = op, !.tab = s]]
    BY <1>11 DEF StartList, Begin
  <2>3. Quiet(p)
    BY <1>11, <2>2, PlaceFacts, ProcFacts
       DEF StartList, Idle, Quiet, Closing, Learnt, Announcing, Rest
  <2>4. QED  BY <2>1, <2>3, ProcFacts, QuietKept
<1>12. ASSUME NEW p \in Clients, Answer(p) PROVE CleanupOK'
  <2>1. UNCHANGED logged /\ Tracked' \subseteq Tracked
    BY <1>12, TrackingNow DEF Answer, Tracking
  <2>2. CASE at' = [at EXCEPT ![p] = Rest]
    <3>1. at' = [at EXCEPT ![p] = Rest]
      BY <1>12, <2>2 DEF Answer
    <3>2. Quiet(p)
      BY <1>12, <2>2, <3>1, PlaceFacts, ProcFacts, RestFacts
         DEF Answer, Quiet, Closing, Learnt, Announcing, PlaceOK
    <3>3. QED  BY <2>1, <3>2, ProcFacts, QuietKept
  <2>3. CASE at' = [at EXCEPT ![p].pc = "selected"]
    <3>1. at' = [at EXCEPT ![p].pc = "selected"]
      BY <1>12, <2>3 DEF Answer
    <3>2. Quiet(p)
      BY <1>12, <2>3, <3>1, PlaceFacts, ProcFacts, RestFacts
         DEF Answer, Quiet, Closing, Learnt, Announcing, PlaceOK
    <3>3. QED  BY <2>1, <3>2, ProcFacts, QuietKept
  <2>4. QED  BY <1>12, <2>2, <2>3 DEF Answer, Goto, Finish
<1>13. ASSUME NEW p \in Clients, NewCreate(p) PROVE CleanupOK'
  <2>1. UNCHANGED logged /\ Tracked' \subseteq Tracked
    BY <1>13, TrackingNow DEF NewCreate, Tracking
  <2>2. CASE UNCHANGED at
    <3>1. UNCHANGED at
      BY <1>13, <2>2 DEF NewCreate
    <3>2. Quiet(p)
      BY <1>13, <2>2, <3>1, PlaceFacts, ProcFacts, RestFacts
         DEF NewCreate, Quiet, Closing, Learnt, Announcing, PlaceOK
    <3>3. QED  BY <2>1, <3>2, ProcFacts, QuietKept
  <2>3. CASE at' # at
    <3>1. PICK t \in Targets : at' = [at EXCEPT ![p] = [Rest EXCEPT !.pc = "register",
                                                   !.op = "new", !.target = t]]
      BY <1>13, <2>3, LifecycleAssumption DEF NewCreate
    <3> DEFINE x == [Rest EXCEPT !.pc = "register", !.op = "new", !.target = t]
    <3>2. x.pc = "register" /\ x.op = "new" /\ x.ids = {}
      BY RestFacts DEF Places
    <3>3. at' = [at EXCEPT ![p] = x] /\ at[p].pc = "rest"
      BY <1>13, <3>1 DEF NewCreate, Idle
    <3> HIDE DEF x
    <3>4. at'[p] = x /\ \A q \in Procs : q # p => at'[q] = at[q]
      BY <3>3, PlaceFacts, ProcFacts
    <3>5. Quiet(p)
      BY <3>2, <3>3, <3>4 DEF Quiet, Closing, Learnt, Announcing
    <3>6. QED  BY <2>1, <3>5, ProcFacts, QuietKept
  <2>4. QED  BY <1>13, <2>2, <2>3 DEF NewCreate
<1>14. ASSUME NEW p \in Clients, NewRegister(p) PROVE CleanupOK'
  <2>1. Quiet(p) /\ UNCHANGED logged /\ Tracked' \subseteq Tracked
    BY <1>14, PlaceFacts, ProcFacts, RestFacts DEF NewRegister, Quiet, Closing,
       Learnt, Announcing, PlaceOK, LifecycleInv, LifecycleTypeOK
  <2>2. QED  BY <1>14, <2>1, QuietKept, ProcFacts
<1>15. ASSUME NEW p \in Clients, NewReply(p) PROVE CleanupOK'
  <2>1. Quiet(p) /\ UNCHANGED logged /\ Tracked' \subseteq Tracked
    BY <1>15, PlaceFacts, ProcFacts, RestFacts DEF NewReply, Goto, Quiet, Closing,
       Learnt, Announcing, PlaceOK, LifecycleInv, LifecycleTypeOK
  <2>2. QED  BY <1>15, <2>1, QuietKept, ProcFacts
<1>16. ASSUME NEW p \in Clients, StartLocked(p) PROVE CleanupOK'
  <2>1. Quiet(p) /\ UNCHANGED logged /\ Tracked' \subseteq Tracked
    BY <1>16, PlaceFacts, ProcFacts, RestFacts DEF StartLocked, Idle, Found, Quiet,
       Closing, Learnt, Announcing, PlaceOK, LifecycleInv, LifecycleTypeOK
  <2>2. QED  BY <1>16, <2>1, QuietKept, ProcFacts
<1>17. ASSUME NEW p \in Procs, FindAgain(p) PROVE CleanupOK'
  <2>1. Quiet(p) /\ UNCHANGED logged /\ Tracked' \subseteq Tracked
    BY <1>17, PlaceFacts, ProcFacts, RestFacts DEF FindAgain, Quiet, Closing, Learnt,
       Announcing, PlaceOK, LifecycleInv, LifecycleTypeOK
  <2>2. QED  BY <1>17, <2>1, QuietKept, ProcFacts
<1>18. ASSUME NEW p \in Procs, ListFails(p) PROVE CleanupOK'
  <2>1. UNCHANGED logged /\ Tracked' \subseteq Tracked
    BY <1>18, TrackingNow DEF ListFails, Tracking
  <2>2. CASE at[p].op \in {"list", "select"}
    <3>1. at' = [at EXCEPT ![p] = Rest]
      BY <1>18, <2>2 DEF ListFails, Goto, Finish
    <3>2. Quiet(p)
      BY <1>18, <2>2, <3>1, PlaceFacts, ProcFacts, RestFacts
         DEF ListFails, Quiet, Closing, Learnt, Announcing, PlaceOK
    <3>3. QED  BY <2>1, <3>2, ProcFacts, QuietKept
  <2>3. CASE at[p].op \notin {"list", "select"}
    <3>1. at' = [at EXCEPT ![p].pc = "retry"]
      BY <1>18, <2>3 DEF ListFails, Goto, Finish
    <3>2. Quiet(p)
      BY <1>18, <2>3, <3>1, PlaceFacts, ProcFacts, RestFacts
         DEF ListFails, Quiet, Closing, Learnt, Announcing, PlaceOK
    <3>3. QED  BY <2>1, <3>2, ProcFacts, QuietKept
  <2>4. QED  BY <1>18, <2>2, <2>3 DEF ListFails
<1>19. ASSUME NEW p \in Procs, Unknown(p) PROVE CleanupOK'
  <2>1. UNCHANGED logged /\ Tracked' \subseteq Tracked
    BY <1>19, TrackingNow DEF Unknown, Tracking
  <2>2. CASE p = "sweeper"
    <3>1. at' = [at EXCEPT ![p] = [Rest EXCEPT !.pc = "drop", !.op = "drop", !.tab = None]]
      BY <1>19, <2>2 DEF Unknown, Begin, Finish
    <3>2. Quiet(p)
      BY <1>19, <2>2, <3>1, PlaceFacts, ProcFacts, RestFacts
         DEF Unknown, Quiet, Closing, Learnt, Announcing, PlaceOK
    <3>3. QED  BY <2>1, <3>2, ProcFacts, QuietKept
  <2>3. CASE p # "sweeper"
    <3>1. at' = [at EXCEPT ![p] = Rest]
      BY <1>19, <2>3 DEF Unknown, Begin, Finish
    <3>2. Quiet(p)
      BY <1>19, <2>3, <3>1, PlaceFacts, ProcFacts, RestFacts
         DEF Unknown, Quiet, Closing, Learnt, Announcing, PlaceOK
    <3>3. QED  BY <2>1, <3>2, ProcFacts, QuietKept
  <2>4. QED  BY <1>19, <2>2, <2>3 DEF Unknown
<1>20. ASSUME NEW p \in Clients, Operate(p) PROVE CleanupOK'
  <2>1. Quiet(p) /\ UNCHANGED logged /\ Tracked' \subseteq Tracked
    BY <1>20, PlaceFacts, ProcFacts, RestFacts DEF Operate, Goto, Quiet, Closing,
       Learnt, Announcing, PlaceOK, LifecycleInv, LifecycleTypeOK
  <2>2. QED  BY <1>20, <2>1, QuietKept, ProcFacts
<1>21. ASSUME NEW p \in Clients, Succeed(p) PROVE CleanupOK'
  <2>1. Quiet(p) /\ UNCHANGED logged /\ Tracked' \subseteq Tracked
    BY <1>21, PlaceFacts, ProcFacts, RestFacts DEF Succeed, Quiet, Closing, Learnt,
       Announcing, PlaceOK, LifecycleInv, LifecycleTypeOK
  <2>2. QED  BY <1>21, <2>1, QuietKept, ProcFacts
<1>22. ASSUME NEW p \in Clients, Touch(p) PROVE CleanupOK'
  <2>1. Quiet(p) /\ UNCHANGED logged /\ Tracked' \subseteq Tracked
    BY <1>22, PlaceFacts, ProcFacts, RestFacts DEF Touch, Finish, Quiet, Closing,
       Learnt, Announcing, PlaceOK, LifecycleInv, LifecycleTypeOK
  <2>2. QED  BY <1>22, <2>1, QuietKept, ProcFacts
<1>23. ASSUME NEW p \in Clients, OperateFails(p) PROVE CleanupOK'
  <2>1. Quiet(p) /\ UNCHANGED logged /\ Tracked' \subseteq Tracked
    BY <1>23, PlaceFacts, ProcFacts, RestFacts DEF OperateFails, Finish, Quiet,
       Closing, Learnt, Announcing, PlaceOK, LifecycleInv, LifecycleTypeOK
  <2>2. QED  BY <1>23, <2>1, QuietKept, ProcFacts
<1>24. ASSUME NEW p \in Procs, RemoveClosed(p) PROVE CleanupOK'
  <2>1. Quiet(p) /\ UNCHANGED logged /\ Tracked' \subseteq Tracked
    BY <1>24, PlaceFacts, ProcFacts, RestFacts DEF RemoveClosed, RemoveState, Quiet,
       Closing, Learnt, Announcing, PlaceOK, LifecycleInv, LifecycleTypeOK
  <2>2. QED  BY <1>24, <2>1, QuietKept, ProcFacts
<1>25. ASSUME NEW p \in Procs, CloseFails(p) PROVE CleanupOK'
  <2>1. Quiet(p) /\ UNCHANGED logged /\ Tracked' \subseteq Tracked
    BY <1>25, PlaceFacts, ProcFacts, RestFacts DEF CloseFails, Finish, Quiet, Closing,
       Learnt, Announcing, PlaceOK, LifecycleInv, LifecycleTypeOK
  <2>2. QED  BY <1>25, <2>1, QuietKept, ProcFacts
<1>26. ASSUME SweepGone PROVE CleanupOK'
  <2>1. Quiet("sweeper") /\ UNCHANGED logged /\ Tracked' \subseteq Tracked
    BY <1>26, PlaceFacts, ProcFacts, RestFacts DEF SweepGone, RemoveState, Quiet,
       Closing, Learnt, Announcing, PlaceOK, LifecycleInv, LifecycleTypeOK
  <2>2. QED  BY <1>26, <2>1, QuietKept, ProcFacts
<1>27. ASSUME NEW p \in Procs, CloseDone(p) PROVE CleanupOK'
  <2>1. UNCHANGED logged /\ Tracked' \subseteq Tracked
    BY <1>27, TrackingNow DEF CloseDone, Tracking
  <2>2. CASE p = "sweeper"
    <3>1. at' = [at EXCEPT ![p] = Rest]
      BY <1>27, <2>2 DEF CloseDone, Goto, Finish
    <3>2. Quiet(p)
      BY <1>27, <2>2, <3>1, PlaceFacts, ProcFacts, RestFacts
         DEF CloseDone, Quiet, Closing, Learnt, Announcing, PlaceOK
    <3>3. QED  BY <2>1, <3>2, ProcFacts, QuietKept
  <2>3. CASE p # "sweeper"
    <3>1. at' = [at EXCEPT ![p].pc = "log"]
      BY <1>27, <2>3 DEF CloseDone, Goto, Finish
    <3>2. Quiet(p)
      BY <1>27, <2>3, <3>1, PlaceFacts, ProcFacts, RestFacts
         DEF CloseDone, Cleared, Quiet, Closing, Learnt, Announcing, PlaceOK
    <3>3. QED  BY <2>1, <3>2, ProcFacts, QuietKept
  <2>4. QED  BY <1>27, <2>2, <2>3 DEF CloseDone
<1>28. ASSUME SweepUnregistered PROVE CleanupOK'
  <2>1. Quiet("sweeper") /\ UNCHANGED logged /\ Tracked' \subseteq Tracked
    BY <1>28, PlaceFacts, ProcFacts, RestFacts DEF SweepUnregistered, Begin, Idle,
       Quiet, Closing, Learnt, Announcing, PlaceOK, LifecycleInv, LifecycleTypeOK
  <2>2. QED  BY <1>28, <2>1, QuietKept, ProcFacts
<1>29. ASSUME SweepDrop PROVE CleanupOK'
  <2>1. Quiet("sweeper") /\ UNCHANGED logged /\ Tracked' \subseteq Tracked
    BY <1>29, PlaceFacts, ProcFacts, RestFacts DEF SweepDrop, Finish, Quiet, Closing,
       Learnt, Announcing, PlaceOK, LifecycleInv, LifecycleTypeOK
  <2>2. QED  BY <1>29, <2>1, QuietKept, ProcFacts
<1>30. ASSUME SweepVictim PROVE CleanupOK'
  <2>1. Quiet("sweeper") /\ UNCHANGED logged /\ Tracked' \subseteq Tracked
    BY <1>30, PlaceFacts, ProcFacts, RestFacts DEF SweepVictim, Begin, Idle, Quiet,
       Closing, Learnt, Announcing, PlaceOK, LifecycleInv, LifecycleTypeOK
  <2>2. QED  BY <1>30, <2>1, QuietKept, ProcFacts
<1>31. ASSUME SweepLock PROVE CleanupOK'
  <2>1. Quiet("sweeper") /\ UNCHANGED logged /\ Tracked' \subseteq Tracked
    BY <1>31, PlaceFacts, ProcFacts, RestFacts DEF SweepLock, Goto, Quiet, Closing,
       Learnt, Announcing, PlaceOK, LifecycleInv, LifecycleTypeOK
  <2>2. QED  BY <1>31, <2>1, QuietKept, ProcFacts
<1>32. ASSUME SweepSpared PROVE CleanupOK'
  <2>1. Quiet("sweeper") /\ UNCHANGED logged /\ Tracked' \subseteq Tracked
    BY <1>32, PlaceFacts, ProcFacts, RestFacts DEF SweepSpared, Finish, Quiet,
       Closing, Learnt, Announcing, PlaceOK, LifecycleInv, LifecycleTypeOK
  <2>2. QED  BY <1>32, <2>1, QuietKept, ProcFacts
<1>33. ASSUME SweepFind PROVE CleanupOK'
  <2>1. Quiet("sweeper") /\ UNCHANGED logged /\ Tracked' \subseteq Tracked
    BY <1>33, PlaceFacts, ProcFacts, RestFacts DEF SweepFind, Found, Quiet, Closing,
       Learnt, Announcing, PlaceOK, LifecycleInv, LifecycleTypeOK
  <2>2. QED  BY <1>33, <2>1, QuietKept, ProcFacts
<1>34. ASSUME NEW p \in Procs, CloseIt(p) PROVE CleanupOK'
  <2>1. at[p].target \in Targets /\ at[p].tab = ShortName(at[p].target)
    BY <1>34, PlaceFacts DEF CloseIt, PlaceOK, Acting
  <2>2. chrome'[at[p].target] = "gone" /\ UNCHANGED <<logged, idle>>
    BY <1>34, <2>1, ChromeNow DEF CloseIt, Disappears, ChromeTyped
  <2>3. /\ \A q \in Procs : q # p => at'[q] = at[q]
        /\ at'[p].pc = "remove" /\ at'[p].tab = at[p].tab /\ at'[p].ids = at[p].ids
        /\ ~Announcing(at[p])
    BY <1>34, PlaceFacts DEF CloseIt, Goto, Announcing
  <2>4. \A t \in Targets : chrome'[t] # "gone" =>
            chrome[t] # "gone" /\ at[p].tab # ShortName(t)
    BY <2>1, <2>2, GoneStays DEF ShortIdsDiffer
  <2>5. \A q \in Procs, t \in Targets : chrome'[t] # "gone" =>
            /\ Closing(at'[q]) => at'[q].tab # ShortName(t)
            /\ Learnt(at'[q], t) => ShortName(t) \in logged'
    BY <2>2, <2>3, <2>4 DEF CleanupOK, Learnt
  <2>6. \A t \in Targets : Announced(t) => Announced(t)'
    BY <2>3, ProcFacts DEF Announced, Announcing
  <2>7. QED  BY <2>2, <2>4, <2>5, <2>6 DEF CleanupOK
<1>35. ASSUME NEW p \in Procs, ReadLog(p) PROVE CleanupOK'
  <2>1. /\ \A q \in Procs : q # p => at'[q] = at[q]
        /\ at'[p].pc = "resolve" /\ at'[p].ids = logged /\ ~Announcing(at[p])
        /\ UNCHANGED <<logged, idle, chrome>>
    BY <1>35, PlaceFacts DEF ReadLog, Announcing, chromeVars
  <2>2. \A q \in Procs, t \in Targets : chrome'[t] # "gone" =>
            /\ Closing(at'[q]) => at'[q].tab # ShortName(t)
            /\ Learnt(at'[q], t) => ShortName(t) \in logged'
    BY <2>1 DEF CleanupOK, Learnt, Closing
  <2>3. \A t \in Targets : Announced(t) => Announced(t)'
    BY <2>1, ProcFacts DEF Announced, Announcing
  <2>4. QED  BY <2>1, <2>2, <2>3 DEF CleanupOK
<1>36. ASSUME NEW p \in Procs, ResolveLogged(p) PROVE CleanupOK'
  <2>1. PICK s \in at[p].ids :
            at' = [at EXCEPT ![p].ids = @ \ {s}, ![p].target = Lookup(s),
                             ![p].pc = IF Lookup(s) \in at[p].snap THEN "mark" ELSE "resolve"]
    BY <1>36 DEF ResolveLogged
  <2>2. \A t \in Targets : Lookup(s) = t => s = ShortName(t)
    BY LookupFacts, TargetNotNone DEF LifecycleInv
  <2>3. /\ \A q \in Procs : q # p => at'[q] = at[q]
        /\ at'[p].pc \in {"mark", "resolve"} /\ at'[p].ids = at[p].ids \ {s}
        /\ at'[p].target = Lookup(s)
    BY <2>1, PlaceFacts
  <2>4. at[p].pc = "resolve"
    BY <1>36 DEF ResolveLogged
  <2>5. Quiet(p)
    BY <2>2, <2>3, <2>4 DEF Quiet, Closing, Learnt, Announcing
  <2>6. UNCHANGED logged /\ Tracked' \subseteq Tracked
    BY <1>36 DEF ResolveLogged
  <2>7. QED  BY <2>5, <2>6, QuietKept
<1>37. ASSUME NEW p \in Procs, Mark(p) PROVE CleanupOK'
  <2>1. /\ \A q \in Procs : q # p => at'[q] = at[q]
        /\ at[p].pc = "mark" /\ at'[p].pc = "resolve" /\ at'[p].ids = at[p].ids
        /\ UNCHANGED <<logged, chrome>>
    BY <1>37, PlaceFacts DEF Mark, Goto, chromeVars
  <2>2. \A t \in Targets : t \in Tracked' => t \in Tracked \/ Learnt(at[p], t)
    BY <1>37, <2>1, TrackingNow DEF Mark, Learnt, Tracking
  <2>3. \A q \in Procs, t \in Targets : chrome'[t] # "gone" =>
            /\ Closing(at'[q]) => at'[q].tab # ShortName(t)
            /\ Learnt(at'[q], t) => ShortName(t) \in logged'
    BY <2>1 DEF CleanupOK, Learnt, Closing
  <2>4. \A t \in Targets : Announced(t) => Announced(t)'
    BY <2>1, ProcFacts DEF Announced
  <2>5. QED  BY <2>1, <2>2, <2>3, <2>4 DEF CleanupOK
<1>38. ASSUME NEW p \in Clients, NewTrack(p) PROVE CleanupOK'
  <2>1. /\ \A q \in Procs : q # p => at'[q] = at[q]
        /\ at[p].pc = "track" /\ at'[p].pc = "reply" /\ at'[p].ids = at[p].ids
        /\ at'[p].op = "new" /\ at'[p].target = at[p].target
        /\ UNCHANGED <<logged, chrome>>
    BY <1>38, PlaceFacts, ProcFacts DEF NewTrack, Goto, chromeVars, PlaceOK
  <2>2. \A t \in Targets : t \in Tracked' => t \in Tracked \/ t = at[p].target
    BY <1>38, TrackingNow DEF NewTrack, Tracking
  <2>3. \A q \in Procs, t \in Targets : chrome'[t] # "gone" =>
            /\ Closing(at'[q]) => at'[q].tab # ShortName(t)
            /\ Learnt(at'[q], t) => ShortName(t) \in logged'
    BY <2>1 DEF CleanupOK, Learnt, Closing
  <2>4. \A t \in Targets : Announced(t) \/ t = at[p].target => Announced(t)'
    BY <2>1, ProcFacts DEF Announced
  <2>5. QED  BY <2>1, <2>2, <2>3, <2>4 DEF CleanupOK
<1>39. ASSUME NEW p \in Clients, AppendLog(p) PROVE CleanupOK'
  <2>1. /\ \A q \in Procs : q # p => at'[q] = at[q]
        /\ at[p].pc = "log" /\ at'[p] = Rest /\ UNCHANGED <<idle, chrome>>
        /\ logged' = IF at[p].op = "new" THEN logged \cup {at[p].tab}
                     ELSE logged \ {at[p].tab}
    BY <1>39, PlaceFacts, ProcFacts DEF AppendLog, Finish, chromeVars
  <2>2. at[p].op \in {"new", "close"}
    BY <2>1, PlaceFacts, ProcFacts DEF PlaceOK
  <2>3. \A t \in Targets : chrome[t] # "gone" /\ ShortName(t) \in logged
                               => ShortName(t) \in logged'
    BY <2>1, <2>2, ProcFacts DEF CleanupOK, Closing
  <2>4. at[p].op = "new" => at[p].tab = ShortName(at[p].target)
    BY <2>1, PlaceFacts, ProcFacts DEF PlaceOK
  <2>5. \A t \in Targets : Announced(t) => Announced(t)' \/ ShortName(t) \in logged'
    BY <2>1, <2>4, ProcFacts DEF Announced
  <2>6. \A q \in Procs, t \in Targets : chrome'[t] # "gone" =>
            /\ Closing(at'[q]) => at'[q].tab # ShortName(t)
            /\ Learnt(at'[q], t) => ShortName(t) \in logged'
    BY <2>1, <2>3, RestFacts DEF CleanupOK, Learnt, Closing
  <2>7. QED  BY <2>1, <2>3, <2>5, <2>6 DEF CleanupOK
<1>40. ASSUME Restart PROVE CleanupOK'
  <2>1. /\ \A q \in Procs : at'[q] = Rest \/ at'[q] = [Rest EXCEPT !.pc = "capture", !.op = "start"]
        /\ Tracked' = {}
    BY <1>40 DEF Restart, Fresh
  <2>2. \A q \in Procs : at'[q].op # "close" /\ at'[q].ids = {} /\ at'[q].pc # "mark"
    BY <2>1, RestFacts DEF Rest
  <2>3. QED  BY <2>1, <2>2 DEF CleanupOK, Closing, Learnt
<1>41. CASE UNCHANGED <<at, logged>> /\ Tracked' \subseteq Tracked
  <2>1. Quiet("watcher") /\ UNCHANGED logged
    BY <1>41, ProcFacts DEF Quiet
  <2>2. QED  BY <1>41, <2>1, QuietKept, ProcFacts
<1>42. ASSUME NEW t \in Targets, Expire(t) PROVE CleanupOK'
  <2>1. UNCHANGED <<at, logged>> /\ Tracked' \subseteq Tracked
    BY <1>42, TrackingNow DEF Expire, Tracking
  <2>2. QED  BY <1>41, <2>1
<1>43. QED
  BY ProcFacts, <1>1, <1>2, <1>3, <1>4, <1>5, <1>6, <1>7, <1>8, <1>9, <1>10, <1>11,
      <1>12, <1>13, <1>14, <1>15, <1>16, <1>17, <1>18, <1>19, <1>20, <1>21, <1>22,
      <1>23, <1>24, <1>25, <1>26, <1>27, <1>28, <1>29, <1>30, <1>31, <1>32, <1>33,
      <1>34, <1>35, <1>36, <1>37, <1>38, <1>39, <1>40, <1>41, <1>42 DEF LifecycleNext,
      Environment, Requests, ClientStep, LockedStep, RequestStep, SyncStep,
      WatcherStep, SweeperStep, StarterStep, Reconcile, UserOpens, UserCloses,
      InfoChanged, SweepTick

\* A crash loses no tab that the idle sweeper looks after, other than one whose tab_new
\* has not reached the log (AppendRPC, reconcileIdleFromLog), as long as short ids do not
\* collide.  An audit record takes only tabs that are gone out of the log.
THEOREM CleanupOutlivesCrash == LifecycleSpec => []CleanupSurvives
<1> DEFINE Inv == ShortIdsDiffer => CleanupOK
<1>1. LifecycleInit => Inv
  <2>1. ASSUME LifecycleInit PROVE CleanupOK
    <3>1. /\ \A q \in Procs : at[q] = Rest \/ at[q] = [Rest EXCEPT !.pc = "capture", !.op = "start"]
          /\ Tracked = {}
      BY <2>1 DEF LifecycleInit, Fresh, Tracked
    <3>2. \A q \in Procs : at[q].op # "close" /\ at[q].ids = {} /\ at[q].pc # "mark"
      BY <3>1, RestFacts DEF Rest
    <3>3. QED  BY <3>1, <3>2 DEF CleanupOK, Closing, Learnt
  <2>2. QED  BY <2>1
<1>2. LifecycleInv /\ Inv /\ [LifecycleNext]_lifecycleVars => Inv'
  <2>1. ASSUME Inv, UNCHANGED lifecycleVars PROVE Inv'
    BY <2>1 DEF lifecycleVars, chromeVars, CleanupOK, Closing, Learnt, Tracked, Announced
  <2>2. QED  BY <2>1, CleanupKept
<1>3. LifecycleInv /\ Inv => CleanupSurvives
  BY DEF CleanupOK, CleanupSurvives, Tracked, Live
<1>4. QED  BY <1>1, <1>2, <1>3, LifecycleInvAlways, PTL DEF LifecycleSpec

-----------------------------------------------------------------------------
(***************************************************************************)
(* What is closed for being idle: nothing that was renewed after the       *)
(* sweeper decided.                                                        *)
(***************************************************************************)
\* What the sweeper set out to close: its short id is that of its victim, and holding
\* the lock it knows that no operation has renewed the victim since its decision.
Sweeping == at["sweeper"].op \in {"sweep", "sweepgone"}
SweeperDecides ==
    Sweeping => /\ Victim \in Targets
                /\ at["sweeper"].tab = ShortName(Victim)
                /\ Holding("sweeper") => idle[Victim] # "op"

\* The decision stands while the sweeper stays where it is, or goes on with it, and
\* nobody makes an operation renew the victim.
LEMMA DecisionStands ==
  ASSUME SweeperDecides, expiredList' = expiredList,
         Sweeping' => Sweeping /\ at'["sweeper"].tab = at["sweeper"].tab,
         Holding("sweeper")' => Holding("sweeper"),
         Victim \in Targets => (idle'[Victim] = "op" => idle[Victim] = "op")
  PROVE  SweeperDecides'
<1>1. Victim' = Victim
  BY DEF Victim
<1>2. QED  BY <1>1 DEF SweeperDecides

\* An operation that succeeds renews no tab the sweeper is about to close: it would hold
\* the same lock.
LEMMA SuccessSpares ==
  ASSUME ShortIdsDiffer, LifecycleInv, SweeperDecides, NEW p \in Clients, Touch(p),
         at[p].op = "use", Sweeping, Holding("sweeper")
  PROVE  at[p].target # Victim
<1> SUFFICES ASSUME at[p].target = Victim PROVE FALSE
  OBVIOUS
<1>1. Victim \in Targets /\ at["sweeper"].tab = ShortName(Victim) /\ Victim # None
  BY TargetNotNone DEF SweeperDecides
<1>2. at[p].tab = ShortName(Victim)
  BY <1>1, PlaceFacts, ProcFacts DEF Touch, PlaceOK
<1>3. Holding(p)
  BY PlaceFacts, ProcFacts DEF Touch, LockOps, Holding, HoldsAt
<1>4. p = "sweeper"
  BY <1>1, <1>2, <1>3, ProcFacts DEF LifecycleInv, LocksOK
<1>5. QED  BY <1>4, ProcFacts

\* Every step leaves the sweeper's decision standing.
LEMMA DecisionKept ==
  ASSUME ShortIdsDiffer, LifecycleInv, SweeperDecides, LifecycleNext
  PROVE  SweeperDecides'
<1>1. ASSUME NEW t \in Targets, Expire(t) PROVE SweeperDecides'
  BY <1>1, DecisionStands, PlaceFacts, ProcFacts DEF Expire, Sweeping, Holding,
      HoldsAt, LockOps, LifecycleInv, LifecycleTypeOK
<1>2. ASSUME NEW p \in Procs, Capture(p) PROVE SweeperDecides'
  BY <1>2, DecisionStands, PlaceFacts, ProcFacts DEF Capture, Sweeping, Holding,
      HoldsAt, LockOps, LifecycleInv, LifecycleTypeOK
<1>3. ASSUME NEW p \in Procs, Apply(p) PROVE SweeperDecides'
  BY <1>3, DecisionStands, PlaceFacts, ProcFacts DEF Apply, Sweeping, Holding,
      HoldsAt, LockOps, LifecycleInv, LifecycleTypeOK
<1>4. ASSUME NEW p \in Procs, Untrack(p) PROVE SweeperDecides'
  BY <1>4, DecisionStands, PlaceFacts, ProcFacts DEF Untrack, Sweeping, Holding,
      HoldsAt, LockOps, LifecycleInv, LifecycleTypeOK
<1>5. ASSUME NEW p \in Procs, Detach(p) PROVE SweeperDecides'
  <2>1. at[p].pc = "detach" /\ expiredList' = expiredList /\ idle' = idle
    BY <1>5 DEF Detach
  <2>2. CASE at' = [at EXCEPT ![p] = Rest]
    <3>1. IF p = "sweeper" THEN at'["sweeper"] = Rest ELSE at'["sweeper"] = at["sweeper"]
      BY <2>2, PlaceFacts, ProcFacts
    <3>2. QED
      BY <2>1, <3>1, RestFacts, DecisionStands
         DEF SweeperDecides, Sweeping, Holding, HoldsAt, LockOps
  <2>3. CASE at' = [at EXCEPT ![p].pc = "clear"]
    <3>1. /\ at'["sweeper"].op = at["sweeper"].op
          /\ at'["sweeper"].tab = at["sweeper"].tab
          /\ p # "sweeper" => at'["sweeper"] = at["sweeper"]
      BY <2>3, PlaceFacts, ProcFacts
    <3>2. QED
      BY <2>1, <3>1, DecisionStands DEF SweeperDecides, Sweeping, Holding, HoldsAt,
         LockOps
  <2>4. QED  BY <1>5, <2>2, <2>3 DEF Detach, Goto, Finish
<1>6. ASSUME NEW p \in Procs, Present(p) PROVE SweeperDecides'
  BY <1>6, DecisionStands, PlaceFacts, ProcFacts DEF Present, AfterSync, Sweeping,
      Holding, HoldsAt, LockOps, LifecycleInv, LifecycleTypeOK, PlaceOK, SyncOps,
      Acting, OpOK, SweeperOps
<1>7. ASSUME NEW p \in Procs, Reconcile(p) PROVE SweeperDecides'
  <2>1. CASE ReadLog(p)
    BY <2>1, DecisionStands, PlaceFacts, ProcFacts DEF ReadLog, Sweeping, Holding,
        HoldsAt, LockOps
  <2>2. CASE ResolveLogged(p)
    BY <2>2, DecisionStands, PlaceFacts, ProcFacts DEF ResolveLogged, Sweeping, Holding,
        HoldsAt, LockOps
  <2>3. CASE Mark(p)
    BY <2>3, DecisionStands, PlaceFacts, ProcFacts DEF Mark, Goto, Sweeping, Holding,
        HoldsAt, LockOps, LifecycleInv, LifecycleTypeOK
  <2>4. CASE ReconcileEnds(p)
    BY <2>4, DecisionStands, PlaceFacts, ProcFacts, RestFacts DEF ReconcileEnds, Finish,
        Sweeping, Holding, HoldsAt, LockOps
  <2>5. QED  BY <1>7, <2>1, <2>2, <2>3, <2>4 DEF Reconcile
<1>8. ASSUME HandleEvent PROVE SweeperDecides'
  BY <1>8, DecisionStands, PlaceFacts, ProcFacts DEF HandleEvent, RemoveState,
      Sweeping, Holding, HoldsAt, LockOps, LifecycleInv, LifecycleTypeOK, PlaceOK,
      SyncOps, Acting, OpOK, SweeperOps
<1>9. ASSUME ConsumeDirty PROVE SweeperDecides'
  BY <1>9, DecisionStands, PlaceFacts, ProcFacts DEF ConsumeDirty, Sweeping, Holding,
      HoldsAt, LockOps, LifecycleInv, LifecycleTypeOK, PlaceOK, SyncOps, Acting,
      OpOK, SweeperOps
<1>10. ASSUME ResyncFails PROVE SweeperDecides'
  BY <1>10, DecisionStands, PlaceFacts, ProcFacts, RestFacts DEF ResyncFails, Finish,
      Sweeping, Holding, HoldsAt, LockOps, LifecycleInv, LifecycleTypeOK
<1>11. ASSUME StartSyncFails PROVE SweeperDecides'
  BY <1>11, DecisionStands, PlaceFacts, ProcFacts, RestFacts DEF StartSyncFails,
      Finish, Sweeping, Holding, HoldsAt, LockOps, LifecycleInv, LifecycleTypeOK
<1>12. ASSUME NEW p \in Clients, StartList(p) PROVE SweeperDecides'
  BY <1>12, DecisionStands, PlaceFacts, ProcFacts DEF StartList, Idle, Begin,
      Sweeping, Holding, HoldsAt, LockOps, LifecycleInv, LifecycleTypeOK
<1>13. ASSUME NEW p \in Clients, Answer(p) PROVE SweeperDecides'
  BY <1>13, DecisionStands, PlaceFacts, ProcFacts DEF Answer, Goto, Finish, Sweeping,
      Holding, HoldsAt, LockOps, LifecycleInv, LifecycleTypeOK
<1>14. ASSUME NEW p \in Clients, NewCreate(p) PROVE SweeperDecides'
  BY <1>14, DecisionStands, PlaceFacts, ProcFacts DEF NewCreate, Idle, Appears,
      Enqueue, Sweeping, Holding, HoldsAt, LockOps, LifecycleInv, LifecycleTypeOK
<1>15. ASSUME NEW p \in Clients, NewRegister(p) PROVE SweeperDecides'
  BY <1>15, DecisionStands, PlaceFacts, ProcFacts DEF NewRegister, Sweeping, Holding,
      HoldsAt, LockOps, LifecycleInv, LifecycleTypeOK
<1>16. ASSUME NEW p \in Clients, NewTrack(p) PROVE SweeperDecides'
  BY <1>16, DecisionStands, PlaceFacts, ProcFacts DEF NewTrack, Goto, Sweeping,
      Holding, HoldsAt, LockOps, LifecycleInv, LifecycleTypeOK
<1>17. ASSUME NEW p \in Clients, NewReply(p) PROVE SweeperDecides'
  BY <1>17, DecisionStands, PlaceFacts, ProcFacts DEF NewReply, Goto, Sweeping,
      Holding, HoldsAt, LockOps, LifecycleInv, LifecycleTypeOK
<1>18. ASSUME NEW p \in Clients, AppendLog(p) PROVE SweeperDecides'
  BY <1>18, DecisionStands, PlaceFacts, ProcFacts DEF AppendLog, Finish, Sweeping,
      Holding, HoldsAt, LockOps, LifecycleInv, LifecycleTypeOK
<1>19. ASSUME NEW p \in Clients, StartLocked(p) PROVE SweeperDecides'
  BY <1>19, DecisionStands, PlaceFacts, ProcFacts DEF StartLocked, Idle, Locks!Enter,
      Found, Sweeping, Holding, HoldsAt, LockOps, LifecycleInv, LifecycleTypeOK
<1>20. ASSUME NEW p \in Procs, FindAgain(p) PROVE SweeperDecides'
  BY <1>20, DecisionStands, PlaceFacts, ProcFacts DEF FindAgain, Sweeping, Holding,
      HoldsAt, LockOps, LifecycleInv, LifecycleTypeOK, PlaceOK, SyncOps, Acting,
      OpOK, SweeperOps
<1>21. ASSUME NEW p \in Procs, ListFails(p) PROVE SweeperDecides'
  <2>1. at[p].pc = "capture" /\ expiredList' = expiredList /\ idle' = idle
    BY <1>21 DEF ListFails
  <2>2. CASE at' = [at EXCEPT ![p] = Rest]
    <3>1. IF p = "sweeper" THEN at'["sweeper"] = Rest ELSE at'["sweeper"] = at["sweeper"]
      BY <2>2, PlaceFacts, ProcFacts
    <3>2. QED
      BY <2>1, <3>1, RestFacts, DecisionStands
         DEF SweeperDecides, Sweeping, Holding, HoldsAt, LockOps
  <2>3. CASE at' = [at EXCEPT ![p].pc = "retry"]
    <3>1. /\ at'["sweeper"].op = at["sweeper"].op
          /\ at'["sweeper"].tab = at["sweeper"].tab
          /\ p # "sweeper" => at'["sweeper"] = at["sweeper"]
      BY <2>3, PlaceFacts, ProcFacts
    <3>2. QED
      BY <2>1, <3>1, DecisionStands DEF SweeperDecides, Sweeping, Holding, HoldsAt,
         LockOps
  <2>4. QED  BY <1>21, <2>2, <2>3 DEF ListFails, Goto, Finish
<1>22. ASSUME NEW p \in Procs, Unknown(p) PROVE SweeperDecides'
  <2>1. ASSUME p = "sweeper" PROVE ~Sweeping'
    <3> DEFINE x == [Rest EXCEPT !.pc = "drop", !.op = "drop", !.tab = None]
    <3>1. x.op = "drop"
      BY RestFacts DEF Places
    <3>2. at' = [at EXCEPT !["sweeper"] = x]
      BY <1>22, <2>1 DEF Unknown, Begin
    <3> HIDE DEF x
    <3>3. QED  BY <3>1, <3>2, PlaceFacts, ProcFacts DEF Sweeping
  <2>2. CASE p = "sweeper"
    BY <2>1, <2>2 DEF SweeperDecides
  <2>3. CASE p # "sweeper"
    BY <1>22, <2>3, DecisionStands, PlaceFacts, ProcFacts DEF Unknown, Unlock,
       Locks!Leave, Finish, NextVictim, Sweeping, Holding, HoldsAt, LockOps,
       LifecycleInv, LifecycleTypeOK
  <2>4. QED  BY <2>2, <2>3
<1>23. ASSUME NEW p \in Clients, Operate(p) PROVE SweeperDecides'
  BY <1>23, DecisionStands, PlaceFacts, ProcFacts DEF Operate, Goto, Sweeping,
      Holding, HoldsAt, LockOps, LifecycleInv, LifecycleTypeOK, PlaceOK, SyncOps,
      Acting, OpOK, SweeperOps
<1>24. ASSUME NEW p \in Clients, Succeed(p) PROVE SweeperDecides'
  BY <1>24, DecisionStands, PlaceFacts, ProcFacts DEF Succeed, Sweeping, Holding,
      HoldsAt, LockOps
<1>25. ASSUME NEW p \in Clients, Touch(p) PROVE SweeperDecides'
  <2>1. at'["sweeper"] = at["sweeper"] /\ expiredList' = expiredList
    BY <1>25, PlaceFacts, ProcFacts DEF Touch, Finish
  <2>2. Victim' = Victim /\ (Sweeping' <=> Sweeping)
        /\ (Holding("sweeper")' <=> Holding("sweeper"))
    BY <2>1 DEF Victim, Sweeping, Holding
  <2>3. ASSUME Sweeping, Holding("sweeper") PROVE idle'[Victim] # "op"
    <3>1. Victim \in Targets /\ idle[Victim] # "op" /\ idle \in [Targets -> IdleValues]
      BY <2>3, TrackingNow DEF SweeperDecides, Tracking
    <3>2. CASE at[p].op = "use"
      BY <1>25, <2>3, <3>1, <3>2, SuccessSpares DEF Touch
    <3>3. CASE at[p].op # "use"
      BY <1>25, <3>1, <3>3 DEF Touch
    <3>4. QED  BY <3>2, <3>3
  <2>4. QED  BY <2>1, <2>2, <2>3 DEF SweeperDecides
<1>26. ASSUME NEW p \in Clients, OperateFails(p) PROVE SweeperDecides'
  BY <1>26, DecisionStands, PlaceFacts, ProcFacts DEF OperateFails, Unlock,
      Locks!Leave, Finish, Sweeping, Holding, HoldsAt, LockOps, LifecycleInv,
      LifecycleTypeOK
<1>27. ASSUME NEW p \in Procs, CloseIt(p) PROVE SweeperDecides'
  BY <1>27, DecisionStands, PlaceFacts, ProcFacts DEF CloseIt, Disappears, Enqueue,
      Goto, Sweeping, Holding, HoldsAt, LockOps, LifecycleInv, LifecycleTypeOK,
      PlaceOK, SyncOps, Acting, OpOK, SweeperOps
<1>28. ASSUME NEW p \in Procs, RemoveClosed(p) PROVE SweeperDecides'
  BY <1>28, DecisionStands, PlaceFacts, ProcFacts DEF RemoveClosed, RemoveState,
      Sweeping, Holding, HoldsAt, LockOps, LifecycleInv, LifecycleTypeOK, PlaceOK,
      SyncOps, Acting, OpOK, SweeperOps
<1>29. ASSUME NEW p \in Procs, CloseFails(p) PROVE SweeperDecides'
  <2>1. p = "sweeper" => ~Sweeping'
    BY <1>29, PlaceFacts, RestFacts DEF CloseFails, Finish, Sweeping
  <2>2. CASE p = "sweeper"
    BY <2>1, <2>2 DEF SweeperDecides
  <2>3. CASE p # "sweeper"
    BY <1>29, <2>3, DecisionStands, PlaceFacts, ProcFacts DEF CloseFails, Unlock,
       Locks!Leave, Finish, NextVictim, Sweeping, Holding, HoldsAt, LockOps,
       LifecycleInv, LifecycleTypeOK
  <2>4. QED  BY <2>2, <2>3
<1>30. ASSUME SweepGone PROVE SweeperDecides'
  BY <1>30, DecisionStands, PlaceFacts, ProcFacts DEF SweepGone, RemoveState,
      Sweeping, Holding, HoldsAt, LockOps, LifecycleInv, LifecycleTypeOK, PlaceOK,
      SyncOps, Acting, OpOK, SweeperOps
<1>31. ASSUME NEW p \in Procs, CloseDone(p) PROVE SweeperDecides'
  <2>1. p = "sweeper" => ~Sweeping'
    BY <1>31, PlaceFacts, RestFacts DEF CloseDone, Finish, Sweeping
  <2>2. CASE p = "sweeper"
    BY <2>1, <2>2 DEF SweeperDecides
  <2>3. CASE p # "sweeper"
    BY <1>31, <2>3, DecisionStands, PlaceFacts, ProcFacts DEF CloseDone, Cleared,
       Unlock, Locks!Leave, Goto, Finish, NextVictim, Sweeping, Holding, HoldsAt,
       LockOps, LifecycleInv, LifecycleTypeOK
  <2>4. QED  BY <2>2, <2>3
<1>32. ASSUME SweepTick PROVE SweeperDecides'
  BY <1>32, PlaceFacts, ProcFacts DEF SweepTick, Idle, SweeperDecides, Sweeping,
      PlaceOK
<1>33. ASSUME SweepUnregistered PROVE SweeperDecides'
  BY <1>33, PlaceFacts, ProcFacts, RestFacts DEF SweepUnregistered, Begin, SweeperDecides,
      Sweeping
<1>34. ASSUME SweepDrop PROVE SweeperDecides'
  BY <1>34, PlaceFacts, ProcFacts, RestFacts DEF SweepDrop, Finish, SweeperDecides,
      Sweeping
<1>35. ASSUME SweepVictim PROVE SweeperDecides'
  <2>1. Victim \in Targets /\ targetToShort[Victim] = ShortName(Victim)
    BY <1>35, RegisteredFacts DEF SweepVictim, LifecycleInv, RegistryOK
  <2>2. Victim' = Victim /\ at'["sweeper"].tab = ShortName(Victim) /\ ~Holding("sweeper")'
    BY <1>35, <2>1, PlaceFacts, ProcFacts, RestFacts
       DEF SweepVictim, Begin, ShortForTarget, Holding, HoldsAt, Victim
  <2>3. QED  BY <2>1, <2>2 DEF SweeperDecides
<1>36. ASSUME SweepLock PROVE SweeperDecides'
  <2>1. Sweeping /\ at'["sweeper"].tab = at["sweeper"].tab /\ Victim' = Victim
        /\ idle' = idle
    BY <1>36, PlaceFacts, ProcFacts DEF SweepLock, Goto, Sweeping, PlaceOK, Victim
  <2>2. idle[Victim] # "op"
    BY <1>36 DEF SweepLock
  <2>3. QED  BY <2>1, <2>2 DEF SweeperDecides
<1>37. ASSUME SweepSpared PROVE SweeperDecides'
  BY <1>37, PlaceFacts, ProcFacts, RestFacts DEF SweepSpared, Finish, SweeperDecides,
      Sweeping
<1>38. ASSUME SweepFind PROVE SweeperDecides'
  BY <1>38, DecisionStands, PlaceFacts, ProcFacts DEF SweepFind, Found, Sweeping,
      Holding, HoldsAt, LockOps, LifecycleInv, LifecycleTypeOK, PlaceOK, SyncOps,
      Acting, OpOK, SweeperOps
<1>39. ASSUME Restart PROVE SweeperDecides'
  BY <1>39, ProcFacts, RestFacts DEF Restart, Fresh, SweeperDecides, Sweeping
<1>40. CASE UNCHANGED <<idle, expiredList, at>>
  BY <1>40 DEF SweeperDecides, Sweeping, Holding, Victim
<1>41. QED
  BY ProcFacts, <1>1, <1>2, <1>3, <1>4, <1>5, <1>6, <1>7, <1>8, <1>9, <1>10, <1>11,
      <1>12, <1>13, <1>14, <1>15, <1>16, <1>17, <1>18, <1>19, <1>20, <1>21, <1>22,
      <1>23, <1>24, <1>25, <1>26, <1>27, <1>28, <1>29, <1>30, <1>31, <1>32, <1>33,
      <1>34, <1>35, <1>36, <1>37, <1>38, <1>39, <1>40 DEF LifecycleNext, Environment,
      Requests, ClientStep, LockedStep, RequestStep, SyncStep, WatcherStep,
      SweeperStep, StarterStep, UserOpens, UserCloses, InfoChanged

\* When the sweeper closes a tab, no operation has renewed that tab since the decision it
\* took holding the tab's lock (closeExpiredTabs), if no two targets agree in the digits
\* of a short id.
THEOREM DecisionHolds ==
  ASSUME ShortIdsDiffer
  PROVE  LifecycleSpec => []CloseDecisionHolds
<1>1. LifecycleInit => SweeperDecides
  BY ProcFacts, RestFacts DEF LifecycleInit, Fresh, SweeperDecides, Sweeping
<1>2. LifecycleInv /\ SweeperDecides /\ [LifecycleNext]_lifecycleVars => SweeperDecides'
  <2>1. ASSUME SweeperDecides, UNCHANGED lifecycleVars PROVE SweeperDecides'
    BY <2>1 DEF lifecycleVars, SweeperDecides, Sweeping, Holding, Victim
  <2>2. QED  BY <2>1, DecisionKept
<1>3. ASSUME LifecycleInv, SweeperDecides PROVE CloseDecisionHolds
  <2> SUFFICES ASSUME at["sweeper"].pc = "work" PROVE idle[at["sweeper"].target] # "op"
    BY DEF CloseDecisionHolds
  <2>1. /\ Sweeping /\ Holding("sweeper")
        /\ at["sweeper"].target \in Targets
        /\ at["sweeper"].tab = ShortName(at["sweeper"].target)
    BY <1>3, PlaceFacts, ProcFacts
       DEF PlaceOK, Acting, OpOK, SweeperOps, Sweeping, Holding, HoldsAt, LockOps
  <2>2. QED  BY <1>3, <2>1 DEF SweeperDecides, ShortIdsDiffer
<1>4. QED  BY <1>1, <1>2, <1>3, LifecycleInvAlways, PTL DEF LifecycleSpec
=============================================================================
