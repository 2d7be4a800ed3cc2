--------------------------- MODULE ObservationProofs ---------------------------
(***************************************************************************)
(* What every step on the observation of a target preserves: the domains   *)
(* of the leased kinds are on, and what is lost has been counted.  The     *)
(* steps are put together with those of the rest of the Session, and the   *)
(* theorems stated, in TabSessionProofs.                                   *)
(***************************************************************************)
EXTENDS Observation, TLAPS, FiniteSetTheorems, SequenceTheorems, NaturalsInduction,
        WellFoundedInduction

\* What other parts of the Session may do meanwhile: the tab or the connection goes away.
Elsewhere == UNCHANGED observationVars /\ (Reachable' => Reachable)

ObservationMove ==
    \/ QueryStep
    \/ \E o \in ObserverIds : ObserverStep(o) \/ ObserverHears(o)
    \/ ClearTarget
    \/ ForgetObserver
    \/ Elsewhere

-----------------------------------------------------------------------------
(***************************************************************************)
(* The invariant of the leases.                                            *)
(***************************************************************************)
Items == [kind : Kinds, seq : Seqs]
NoDrops == [k \in Kinds |-> 0]
Observers ==
    [phase : {"unused", "attaching", "ready", "failed"}, cancelled : BOOLEAN,
     watched : BOOLEAN, domains : SUBSET Domains, disabled : BOOLEAN,
     mu : {"free", "rpc", "sweeper"}, active : SUBSET Kinds, fresh : SUBSET Kinds,
     remaining : SUBSET Kinds, listens : BOOLEAN, queue : Seq(Items),
     dropped : [Kinds -> Nat]]
Queries == [pc : {"rest", "wait", "disable", "lease", "leased", "read"},
            kind : Kinds \cup {"none"}, obs : 0..MaxObservers]

\* The leases of an observer in whose context commands work, or do not.  While the
\* sweeper holds the mutex the domains of what it will leave are on.
LeaseOK(r, works) ==
    /\ r.fresh \subseteq r.active
    /\ r.phase # "ready" => ~r.disabled
    /\ ~r.disabled => r.active = {} /\ r.mu = "free"
    /\ r.mu # "sweeper" /\ works => NeededBy(r.active) \subseteq r.domains
    /\ r.mu = "sweeper" => /\ r.active \cap r.fresh \subseteq r.remaining
                           /\ r.remaining \subseteq r.active
                           /\ works => NeededBy(r.remaining) \subseteq r.domains

ObserversTyped == obs \in [ObserverIds -> Observers]
LeasesOK == \A o \in ObserverIds : LeaseOK(obs[o], Commands(o))

\* Nobody but the observer in the map is attached with a context that is not cancelled.
OneCurrent ==
    /\ observer \in 0..MaxObservers
    /\ \A o \in ObserverIds :
          obs[o].phase \in {"attaching", "ready"} /\ ~obs[o].cancelled => observer = o

\* Between the commands of activate and the lease the RPC holds the mutex, and the
\* domains it needs are on.
QueryOK ==
    /\ query \in Queries
    /\ query.pc # "rest" => query.obs \in ObserverIds /\ query.kind \in Kinds
    /\ query.pc \in {"disable", "lease", "leased", "read"} => obs[query.obs].phase = "ready"
    /\ query.pc \in {"lease", "leased"} => obs[query.obs].disabled
    /\ query.pc = "leased" =>
          /\ obs[query.obs].mu = "rpc"
          /\ Commands(query.obs) => Needs(query.kind) \subseteq obs[query.obs].domains
    /\ \A o \in ObserverIds : obs[o].mu = "rpc" => query.pc = "leased" /\ query.obs = o

LeaseInv == ObserversTyped /\ LeasesOK /\ OneCurrent /\ QueryOK

-----------------------------------------------------------------------------
LEMMA NeededByFacts ==
  ASSUME NEW ks, NEW js
  PROVE  /\ NeededBy({}) = {}
         /\ NeededBy(ks \cup js) = NeededBy(ks) \cup NeededBy(js)
         /\ ks \subseteq js => NeededBy(ks) \subseteq NeededBy(js)
         /\ \A k : NeededBy({k}) = Needs(k)
BY DEF NeededBy

\* A step that changes at most one observer.
LEMMA ObserverChanges ==
  ASSUME ObserversTyped, LeasesOK, Reachable' => Reachable,
         NEW o \in ObserverIds, NEW x \in Observers, obs' = [obs EXCEPT ![o] = x],
         LeaseOK(x, Reachable /\ ~x.cancelled)
  PROVE  /\ ObserversTyped' /\ LeasesOK'
         /\ obs'[o] = x /\ \A p \in ObserverIds \ {o} : obs'[p] = obs[p]
<1>1. ObserversTyped' /\ obs'[o] = x /\ \A p \in ObserverIds \ {o} : obs'[p] = obs[p]
  BY DEF ObserversTyped
<1>2. ASSUME NEW p \in ObserverIds PROVE LeaseOK(obs'[p], Commands(p)')
  <2>1. CASE p = o
    BY <1>1, <2>1 DEF LeaseOK, Commands
  <2>2. CASE p # o
    <3>1. obs'[p] = obs[p] /\ LeaseOK(obs[p], Commands(p))
      BY <1>1, <2>2 DEF LeasesOK
    <3>2. Commands(p)' => Commands(p)
      BY <3>1 DEF Commands
    <3> QED
      BY <3>1, <3>2 DEF LeaseOK
  <2> QED
    BY <2>1, <2>2
<1> QED
  BY <1>1, <1>2 DEF LeasesOK

LEMMA ObserversStay ==
  ASSUME LeasesOK, Reachable' => Reachable, obs' = obs
  PROVE  LeasesOK'
<1>1. \A p \in ObserverIds : Commands(p)' => Commands(p)
  BY DEF Commands
<1> QED
  BY <1>1 DEF LeasesOK, LeaseOK

LEMMA NoObserverOK ==
  ASSUME NEW works
  PROVE  /\ NoObserver \in Observers /\ LeaseOK(NoObserver, works)
         /\ [NoObserver EXCEPT !.phase = "attaching"] \in Observers
         /\ LeaseOK([NoObserver EXCEPT !.phase = "attaching"], works)
<1>1. NoDrops \in [Kinds -> Nat] /\ <<>> \in Seq(Items)
  BY DEF NoDrops
<1>2. NoObserver \in Observers
  BY <1>1 DEF NoObserver, Observers, NoDrops
<1>3. [NoObserver EXCEPT !.phase = "attaching"] \in Observers
  BY <1>2 DEF Observers
<1> QED
  BY <1>2, <1>3, NeededByFacts DEF NoObserver, LeaseOK

\* A step of somebody else than the RPC leaves alone what the RPC relies on.
LEMMA QueryStays ==
  ASSUME ObserversTyped, QueryOK, query' = query, Reachable' => Reachable,
         NEW o \in ObserverIds, NEW x \in Observers, obs' = [obs EXCEPT ![o] = x],
         obs[o].phase = "ready" => x.phase = "ready",
         obs[o].disabled => x.disabled,
         x.mu = "rpc" <=> obs[o].mu = "rpc",
         obs[o].mu = "rpc" => obs[o].domains \subseteq x.domains,
         obs[o].cancelled => x.cancelled
  PROVE  QueryOK'
<1>1. obs'[o] = x /\ \A p \in ObserverIds \ {o} : obs'[p] = obs[p]
  BY DEF ObserversTyped
<1>2. \A p \in ObserverIds : Commands(p)' => Commands(p)
  BY <1>1 DEF Commands
<1>3. \A p \in ObserverIds :
          /\ obs[p].phase = "ready" => obs'[p].phase = "ready"
          /\ obs[p].disabled => obs'[p].disabled
          /\ obs'[p].mu = "rpc" <=> obs[p].mu = "rpc"
          /\ obs[p].mu = "rpc" => obs[p].domains \subseteq obs'[p].domains
  BY <1>1
<1> QED
  BY <1>2, <1>3 DEF QueryOK

LEMMA CurrentStays ==
  ASSUME ObserversTyped, OneCurrent, observer' = observer,
         NEW o \in ObserverIds, NEW x \in Observers, obs' = [obs EXCEPT ![o] = x],
         x.phase \in {"attaching", "ready"} => obs[o].phase \in {"attaching", "ready"},
         obs[o].cancelled => x.cancelled
  PROVE  OneCurrent'
<1>1. obs'[o] = x /\ \A p \in ObserverIds \ {o} : obs'[p] = obs[p]
  BY DEF ObserversTyped
<1> QED
  BY <1>1 DEF OneCurrent

\* The two together, for a step that changes what one observer has queued, dropped, or
\* leased.
LEMMA LeaseMove ==
  ASSUME LeaseInv, query' = query, observer' = observer, Reachable' => Reachable,
         NEW o \in ObserverIds, NEW x \in Observers, obs' = [obs EXCEPT ![o] = x],
         x.phase = obs[o].phase, x.disabled = obs[o].disabled,
         x.cancelled = obs[o].cancelled,
         x.mu = "rpc" <=> obs[o].mu = "rpc",
         obs[o].mu = "rpc" => obs[o].domains \subseteq x.domains,
         LeaseOK(x, Reachable /\ ~x.cancelled)
  PROVE  LeaseInv'
BY ObserverChanges, QueryStays, CurrentStays DEF LeaseInv

\* A lease that is as good as before.
LEMMA SameLease ==
  ASSUME LeaseInv, query' = query, observer' = observer, Reachable' => Reachable,
         NEW o \in ObserverIds, NEW x \in Observers, obs' = [obs EXCEPT ![o] = x],
         x.phase = obs[o].phase, x.disabled = obs[o].disabled,
         x.cancelled = obs[o].cancelled, x.mu = obs[o].mu, x.domains = obs[o].domains,
         x.active = obs[o].active, x.remaining = obs[o].remaining,
         x.fresh \subseteq obs[o].fresh
  PROVE  LeaseInv'
<1>1. LeaseOK(obs[o], Commands(o))
  BY DEF LeaseInv, LeasesOK
<1>2. LeaseOK(x, Reachable /\ ~x.cancelled)
  BY <1>1 DEF LeaseOK, Commands
<1> QED
  BY <1>2, LeaseMove

LEMMA QueueTyped ==
  ASSUME NEW q \in Seq(Items), NEW i \in Items
  PROVE  /\ Append(q, i) \in Seq(Items)
         /\ q # <<>> => Head(q) \in Items /\ Tail(q) \in Seq(Items)
OBVIOUS

-----------------------------------------------------------------------------
(***************************************************************************)
(* The observers' own steps.                                               *)
(***************************************************************************)
LEMMA WriteLease ==
  ASSUME LeaseInv, NEW o \in ObserverIds, Write(o)
  PROVE  LeaseInv'
<1> DEFINE r == obs[o]
           i == Head(r.queue)
<1>1. r \in Observers /\ r.queue \in Seq(Items) /\ r.dropped \in [Kinds -> Nat]
  BY DEF LeaseInv, ObserversTyped, Observers
<1>2. r.queue # <<>> /\ i \in Items /\ Tail(r.queue) \in Seq(Items)
  BY <1>1, QueueTyped DEF Write
<1>3. i.kind \in Kinds
  BY <1>2 DEF Items
<1> HIDE DEF i
<1> DEFINE d == [r.dropped EXCEPT ![i.kind] = @ + 1]
           x == [r EXCEPT !.queue = Tail(@)]
           y == [r EXCEPT !.queue = Tail(@), !.dropped = d]
<1>4. d \in [Kinds -> Nat]
  BY <1>1, <1>3
<1>5. x \in Observers /\ y \in Observers
  BY <1>1, <1>2, <1>4 DEF Observers
<1>6. obs' = [obs EXCEPT ![o] = x] \/ obs' = [obs EXCEPT ![o] = y]
  BY DEF Write, i, LeaseInv, ObserversTyped
<1>7. query' = query /\ observer' = observer /\ Reachable' = Reachable
  BY DEF Write, targetVars, Reachable
<1>8. /\ x.phase = r.phase /\ x.disabled = r.disabled /\ x.cancelled = r.cancelled
      /\ x.mu = r.mu /\ x.domains = r.domains /\ x.active = r.active
      /\ x.remaining = r.remaining /\ x.fresh = r.fresh
      /\ y.phase = r.phase /\ y.disabled = r.disabled /\ y.cancelled = r.cancelled
      /\ y.mu = r.mu /\ y.domains = r.domains /\ y.active = r.active
      /\ y.remaining = r.remaining /\ y.fresh = r.fresh
  BY <1>1 DEF Observers
<1> HIDE DEF x, y
<1> QED
  BY <1>5, <1>6, <1>7, <1>8, SameLease

LEMMA EventLease ==
  ASSUME LeaseInv, NEW o \in ObserverIds, NEW k \in Kinds, NEW d, Event(o, k, d),
         seq' \in Seqs
  PROVE  LeaseInv'
<1> DEFINE r == obs[o]
           i == [kind |-> k, seq |-> seq']
           q == Append(r.queue, i)
           n == [r.dropped EXCEPT ![k] = @ + 1]
           x == [r EXCEPT !.queue = q]
           y == [r EXCEPT !.dropped = n]
<1>1. r \in Observers /\ r.queue \in Seq(Items) /\ r.dropped \in [Kinds -> Nat]
  BY DEF LeaseInv, ObserversTyped, Observers
<1>2. i \in Items
  BY DEF Items
<1> HIDE DEF i
<1>3. q \in Seq(Items) /\ n \in [Kinds -> Nat]
  BY <1>1, <1>2, QueueTyped
<1>4. obs' = [obs EXCEPT ![o] = x] \/ obs' = [obs EXCEPT ![o] = y]
  <2>1. \/ obs' = [obs EXCEPT ![o].queue = Append(@, i)]
        \/ obs' = [obs EXCEPT ![o].dropped[k] = @ + 1]
    BY DEF Event, Drop, i
  <2> QED
    BY <1>1, <2>1 DEF LeaseInv, ObserversTyped
<1> HIDE DEF q, n
<1>5. x \in Observers /\ y \in Observers
  BY <1>1, <1>3 DEF Observers
<1>6. query' = query /\ observer' = observer /\ Reachable' = Reachable
  BY DEF Event, targetVars, Reachable
<1>7. /\ x.phase = r.phase /\ x.disabled = r.disabled /\ x.cancelled = r.cancelled
      /\ x.mu = r.mu /\ x.domains = r.domains /\ x.active = r.active
      /\ x.remaining = r.remaining /\ x.fresh = r.fresh
      /\ y.phase = r.phase /\ y.disabled = r.disabled /\ y.cancelled = r.cancelled
      /\ y.mu = r.mu /\ y.domains = r.domains /\ y.active = r.active
      /\ y.remaining = r.remaining /\ y.fresh = r.fresh
  BY <1>1 DEF Observers
<1> HIDE DEF x, y
<1> QED
  BY <1>4, <1>5, <1>6, <1>7, SameLease

LEMMA ExpiresLease ==
  ASSUME LeaseInv, NEW o \in ObserverIds, NEW k \in Kinds, LeaseExpires(o, k)
  PROVE  LeaseInv'
<1> DEFINE r == obs[o]
           x == [r EXCEPT !.fresh = @ \ {k}]
<1>1. r \in Observers
  BY DEF LeaseInv, ObserversTyped
<1>2. x \in Observers
  BY <1>1 DEF Observers
<1>3. obs' = [obs EXCEPT ![o] = x] /\ query' = query /\ observer' = observer
      /\ Reachable' = Reachable
  BY DEF LeaseExpires, targetVars, Reachable
<1>4. /\ x.phase = r.phase /\ x.disabled = r.disabled /\ x.cancelled = r.cancelled
      /\ x.mu = r.mu /\ x.domains = r.domains /\ x.active = r.active
      /\ x.remaining = r.remaining /\ x.fresh \subseteq r.fresh
  BY <1>1 DEF Observers
<1> HIDE DEF x
<1> QED
  BY <1>2, <1>3, <1>4, SameLease

LEMMA WatchLease ==
  ASSUME LeaseInv, NEW o \in ObserverIds, WatchObserver(o)
  PROVE  LeaseInv'
<1> DEFINE r == obs[o]
           x == [r EXCEPT !.watched = TRUE]
<1>1. r \in Observers
  BY DEF LeaseInv, ObserversTyped
<1>2. x \in Observers
  BY <1>1 DEF Observers
<1>3. obs' = [obs EXCEPT ![o] = x] /\ query' = query /\ observer' = observer
      /\ (Reachable' => Reachable)
  BY DEF WatchObserver, Reachable
<1>4. /\ x.phase = r.phase /\ x.disabled = r.disabled /\ x.cancelled = r.cancelled
      /\ x.mu = r.mu /\ x.domains = r.domains /\ x.active = r.active
      /\ x.remaining = r.remaining /\ x.fresh = r.fresh
  BY <1>1 DEF Observers
<1> HIDE DEF x
<1> QED
  BY <1>2, <1>3, <1>4, SameLease

\* The sweep turns off only what no remaining kind needs, ...
LEMMA SweepLease ==
  ASSUME LeaseInv, NEW o \in ObserverIds, Sweep(o)
  PROVE  LeaseInv'
<1> DEFINE r == obs[o]
           left == r.active \cap r.fresh
<1>1. PICK off \in SUBSET ToDisable(o) :
          obs' = [obs EXCEPT ![o].mu = "sweeper", ![o].remaining = left,
                             ![o].domains = IF Commands(o) THEN @ \ off ELSE @]
  BY DEF Sweep
<1> DEFINE on == IF Commands(o) THEN r.domains \ off ELSE r.domains
           x == [r EXCEPT !.mu = "sweeper", !.remaining = left, !.domains = on]
<1>2. r \in Observers /\ LeaseOK(r, Commands(o)) /\ r.mu = "free" /\ ~(r.active \subseteq r.fresh)
  BY DEF LeaseInv, ObserversTyped, LeasesOK, Sweep
<1>3. on \in SUBSET Domains /\ left \in SUBSET Kinds /\ on \subseteq r.domains
  BY <1>2 DEF Observers
<1>4. off \cap NeededBy(left) = {}
  BY DEF ToDisable
<1>5. Commands(o) => NeededBy(left) \subseteq on
  <2>1. NeededBy(left) \subseteq NeededBy(r.active)
    BY NeededByFacts
  <2> QED
    BY <1>2, <1>4, <2>1 DEF LeaseOK
<1>6. r.disabled
  BY <1>2 DEF LeaseOK
<1>7. obs' = [obs EXCEPT ![o] = x]
  BY <1>1, <1>2 DEF LeaseInv, ObserversTyped
<1> HIDE DEF on
<1>8. x \in Observers
  BY <1>2, <1>3 DEF Observers
<1>9. /\ x.phase = r.phase /\ x.disabled = r.disabled /\ x.cancelled = r.cancelled
      /\ x.mu = "sweeper" /\ x.domains = on /\ x.active = r.active
      /\ x.remaining = left /\ x.fresh = r.fresh
  BY <1>2 DEF Observers
<1>10. query' = query /\ observer' = observer /\ Reachable' = Reachable
  BY DEF Sweep, targetVars, Reachable
<1>11. LeaseOK(x, Reachable /\ ~x.cancelled)
  BY <1>2, <1>5, <1>6, <1>9 DEF LeaseOK, Commands
<1> HIDE DEF x
<1> QED
  BY <1>2, <1>7, <1>8, <1>9, <1>10, <1>11, LeaseMove

\* ... and then forgets the expired kinds.
LEMMA SweptLease ==
  ASSUME LeaseInv, NEW o \in ObserverIds, Swept(o)
  PROVE  LeaseInv'
<1> DEFINE r == obs[o]
           l == r.listens /\ r.remaining # {}
           x == [r EXCEPT !.mu = "free", !.active = r.remaining, !.remaining = {},
                          !.listens = l]
<1>1. r \in Observers /\ LeaseOK(r, Commands(o)) /\ r.mu = "sweeper" /\ r.listens \in BOOLEAN
  BY DEF LeaseInv, ObserversTyped, LeasesOK, Swept, Observers
<1>2. l \in BOOLEAN
  BY <1>1
<1>3. obs' = [obs EXCEPT ![o] = x]
  BY <1>1 DEF Swept, LeaseInv, ObserversTyped
<1> HIDE DEF l
<1>4. x \in Observers
  BY <1>1, <1>2 DEF Observers
<1>5. /\ x.phase = r.phase /\ x.disabled = r.disabled /\ x.cancelled = r.cancelled
      /\ x.mu = "free" /\ x.domains = r.domains /\ x.active = r.remaining
      /\ x.remaining = {} /\ x.fresh = r.fresh
  BY <1>1 DEF Observers
<1>6. query' = query /\ observer' = observer /\ Reachable' = Reachable
  BY DEF Swept, targetVars, Reachable
<1>7. LeaseOK(x, Reachable /\ ~x.cancelled)
  BY <1>1, <1>5 DEF LeaseOK, Commands
<1> HIDE DEF x
<1> QED
  BY <1>1, <1>3, <1>4, <1>5, <1>6, <1>7, LeaseMove

LEMMA AttachedLease ==
  ASSUME LeaseInv, NEW o \in ObserverIds, Attached(o)
  PROVE  LeaseInv'
<1> DEFINE r == obs[o]
           x == [r EXCEPT !.phase = "ready", !.domains = Domains]
           y == [r EXCEPT !.phase = "failed"]
<1>1. r \in Observers /\ LeaseOK(r, Commands(o)) /\ r.phase = "attaching"
  BY DEF LeaseInv, ObserversTyped, LeasesOK, Attached
<1>2. r.active = {} /\ r.mu = "free" /\ ~r.disabled
  BY <1>1 DEF LeaseOK
<1>3. x \in Observers /\ y \in Observers
  BY <1>1 DEF Observers
<1>4. query' = query /\ Reachable' = Reachable
  BY DEF Attached, targetVars, Reachable
<1>5. /\ x.phase = "ready" /\ y.phase = "failed"
      /\ x.disabled = r.disabled /\ x.cancelled = r.cancelled /\ x.mu = r.mu
      /\ x.active = r.active /\ x.fresh = r.fresh
      /\ y.disabled = r.disabled /\ y.cancelled = r.cancelled /\ y.mu = r.mu
      /\ y.active = r.active /\ y.fresh = r.fresh
  BY <1>1 DEF Observers
<1>6. CASE obs' = [obs EXCEPT ![o] = x] /\ observer' = observer
  <2> HIDE DEF x
  <2>1. LeaseOK(x, Reachable /\ ~x.cancelled)
    BY <1>1, <1>2, <1>5, NeededByFacts DEF LeaseOK
  <2>2. ObserversTyped' /\ LeasesOK'
    BY <1>3, <1>4, <1>6, <2>1, ObserverChanges DEF LeaseInv
  <2>3. QueryOK'
    BY <1>1, <1>2, <1>3, <1>4, <1>5, <1>6, QueryStays DEF LeaseInv
  <2>4. OneCurrent'
    BY <1>1, <1>3, <1>5, <1>6, CurrentStays DEF LeaseInv
  <2> QED
    BY <2>2, <2>3, <2>4 DEF LeaseInv
<1>7. CASE obs' = [obs EXCEPT ![o] = y] /\ observer' = IF observer = o THEN 0 ELSE observer
  <2> HIDE DEF y
  <2>1. LeaseOK(y, Reachable /\ ~y.cancelled)
    BY <1>1, <1>2, <1>5, NeededByFacts DEF LeaseOK
  <2>2. /\ ObserversTyped' /\ LeasesOK'
        /\ obs'[o] = y /\ \A p \in ObserverIds \ {o} : obs'[p] = obs[p]
    BY <1>3, <1>4, <1>7, <2>1, ObserverChanges DEF LeaseInv
  <2>3. QueryOK'
    BY <1>1, <1>2, <1>3, <1>4, <1>5, <1>7, QueryStays DEF LeaseInv
  <2>4. OneCurrent'
    <3>1. observer' \in 0..MaxObservers
      BY <1>7, ObservationAssumption DEF LeaseInv, OneCurrent
    <3>2. ASSUME NEW p \in ObserverIds, obs'[p].phase \in {"attaching", "ready"},
                 ~obs'[p].cancelled
          PROVE  observer' = p
      <4>1. p # o /\ obs'[p] = obs[p]
        BY <1>5, <2>2, <3>2
      <4> QED
        BY <1>7, <3>2, <4>1 DEF LeaseInv, OneCurrent
    <3> QED
      BY <3>1, <3>2 DEF OneCurrent
  <2> QED
    BY <2>2, <2>3, <2>4 DEF LeaseInv
<1>8. \/ obs' = [obs EXCEPT ![o] = x] /\ observer' = observer
      \/ obs' = [obs EXCEPT ![o] = y] /\ observer' = IF observer = o THEN 0 ELSE observer
  BY DEF Attached, LeaseInv, ObserversTyped
<1> QED
  BY <1>6, <1>7, <1>8

LEMMA ObserverNumbers ==
  0 \in 0..MaxObservers /\ \A o \in ObserverIds : o # 0 /\ o \in 0..MaxObservers
<1>1. MaxObservers \in Nat
  BY ObservationAssumption
<1> QED
  BY <1>1 DEF ObserverIds

LEMMA ForgetLease ==
  ASSUME LeaseInv, ForgetObserver
  PROVE  LeaseInv'
<1>1. /\ observer' = 0 /\ query' = query /\ Reachable' = Reachable
      /\ obs' = [o \in ObserverIds |-> IF o = observer THEN [obs[o] EXCEPT !.cancelled = TRUE]
                                       ELSE obs[o]]
  BY DEF ForgetObserver, targetVars, Reachable
<1>2. ASSUME NEW o \in ObserverIds
      PROVE  /\ obs'[o] \in Observers
             /\ obs'[o].phase = obs[o].phase /\ obs'[o].disabled = obs[o].disabled
             /\ obs'[o].mu = obs[o].mu /\ obs'[o].domains = obs[o].domains
             /\ obs'[o].active = obs[o].active /\ obs'[o].fresh = obs[o].fresh
             /\ obs'[o].remaining = obs[o].remaining
             /\ obs[o].cancelled => obs'[o].cancelled
             /\ o = observer => obs'[o].cancelled
  <2>1. obs[o] \in Observers
    BY DEF LeaseInv, ObserversTyped
  <2>2. obs'[o] = IF o = observer THEN [obs[o] EXCEPT !.cancelled = TRUE] ELSE obs[o]
    BY <1>1
  <2> QED
    BY <2>1, <2>2 DEF Observers
<1>3. ObserversTyped'
  <2>1. obs' = [o \in ObserverIds |-> obs'[o]]
    BY <1>1
  <2> QED
    BY <1>2, <2>1 DEF ObserversTyped
<1>4. \A o \in ObserverIds : Commands(o)' => Commands(o)
  BY <1>1, <1>2 DEF Commands
<1>5. LeasesOK'
  BY <1>2, <1>4 DEF LeaseInv, LeasesOK, LeaseOK
<1>6. OneCurrent'
  <2>1. 0 \in 0..MaxObservers
    BY ObserverNumbers
  <2> QED
    BY <1>1, <1>2, <2>1 DEF LeaseInv, OneCurrent
<1>7. QueryOK'
  BY <1>1, <1>2, <1>4 DEF LeaseInv, QueryOK
<1> QED
  BY <1>3, <1>5, <1>6, <1>7 DEF LeaseInv

-----------------------------------------------------------------------------
(***************************************************************************)
(* The RPC's steps.                                                        *)
(***************************************************************************)
LEMMA EnsureLease ==
  ASSUME LeaseInv, NEW k \in Kinds, Ensure(k)
  PROVE  LeaseInv'
<1>1. /\ query.pc = "rest" /\ Reachable' = Reachable
      /\ query' = [pc |-> "wait", kind |-> k, obs |-> observer']
  BY DEF Ensure, targetVars, Reachable
<1>2. \A p \in ObserverIds : obs[p].mu # "rpc"
  BY <1>1 DEF LeaseInv, QueryOK
<1>3. CASE observer # 0 /\ UNCHANGED <<observer, obs>>
  <2>1. observer \in ObserverIds
    BY <1>3 DEF LeaseInv, OneCurrent, ObserverIds
  <2>2. query' \in Queries
    BY <1>1, <1>3 DEF LeaseInv, OneCurrent, Queries
  <2>3. QueryOK'
    BY <1>1, <1>2, <1>3, <2>1, <2>2 DEF QueryOK
  <2>4. LeasesOK'
    BY <1>1, <1>3, ObserversStay DEF LeaseInv
  <2> QED
    BY <1>3, <2>3, <2>4 DEF LeaseInv, ObserversTyped, OneCurrent
<1>4. ASSUME NEW o \in ObserverIds, observer = 0, observer' = o,
             obs' = [obs EXCEPT ![o] = [NoObserver EXCEPT !.phase = "attaching"]]
      PROVE  LeaseInv'
  <2> DEFINE x == [NoObserver EXCEPT !.phase = "attaching"]
  <2>1. x \in Observers /\ LeaseOK(x, Reachable /\ ~x.cancelled)
    BY NoObserverOK
  <2>2. x.mu = "free"
    BY DEF NoObserver
  <2> HIDE DEF x
  <2>3. /\ ObserversTyped' /\ LeasesOK'
        /\ obs'[o] = x /\ \A p \in ObserverIds \ {o} : obs'[p] = obs[p]
    BY <1>1, <1>4, <2>1, ObserverChanges DEF LeaseInv, x
  <2>4. o \in 0..MaxObservers /\ \A p \in ObserverIds : p # 0
    BY ObserverNumbers
  <2>5. OneCurrent'
    BY <1>4, <2>3, <2>4 DEF LeaseInv, OneCurrent
  <2>6. query' \in Queries
    BY <1>1, <1>4, <2>4 DEF Queries
  <2>7. QueryOK'
    BY <1>1, <1>2, <1>4, <2>2, <2>3, <2>6 DEF QueryOK
  <2> QED
    BY <2>3, <2>5, <2>7 DEF LeaseInv
<1> QED
  BY <1>3, <1>4 DEF Ensure

\* Steps that only move the RPC.
LEMMA QueryMoves ==
  ASSUME LeaseInv, UNCHANGED <<targetVars, observer, obs>>, QueryOK'
  PROVE  LeaseInv'
<1>1. Reachable' = Reachable
  BY DEF targetVars, Reachable
<1>2. LeasesOK'
  BY <1>1, ObserversStay DEF LeaseInv
<1> QED
  BY <1>2 DEF LeaseInv, ObserversTyped, OneCurrent

LEMMA NoQueryTyped == NoQuery \in Queries
BY ObservationAssumption DEF NoQuery, Queries

LEMMA GoesTyped ==
  ASSUME NEW q \in Queries, NEW pc \in {"disable", "lease", "leased", "read"}
  PROVE  /\ [q EXCEPT !.pc = pc] \in Queries /\ [q EXCEPT !.pc = pc].pc = pc
         /\ [q EXCEPT !.pc = pc].kind = q.kind /\ [q EXCEPT !.pc = pc].obs = q.obs
BY DEF Queries

LEMMA AwaitedLease ==
  ASSUME LeaseInv, Awaited
  PROVE  LeaseInv'
<1>1. /\ UNCHANGED <<targetVars, observer, obs>> /\ query.pc = "wait"
      /\ query \in Queries /\ query.obs \in ObserverIds /\ query.kind \in Kinds
      /\ \A p \in ObserverIds : obs[p].mu # "rpc"
  BY DEF Awaited, LeaseInv, QueryOK
<1>2. CASE obs[query.obs].phase = "ready" /\ Goes("disable")
  <2>1. /\ query' \in Queries /\ query'.pc = "disable" /\ query'.kind = query.kind
        /\ query'.obs = query.obs
    BY <1>1, <1>2, GoesTyped DEF Goes
  <2>2. QueryOK'
    BY <1>1, <1>2, <2>1 DEF QueryOK
  <2> QED
    BY <1>1, <2>2, QueryMoves
<1>3. CASE query' = NoQuery
  <2>1. query' \in Queries /\ query'.pc = "rest"
    BY <1>3, NoQueryTyped DEF NoQuery
  <2>2. QueryOK'
    BY <1>1, <2>1 DEF QueryOK
  <2> QED
    BY <1>1, <2>2, QueryMoves
<1> QED
  BY <1>2, <1>3 DEF Awaited

LEMMA ReadLease ==
  ASSUME LeaseInv, Read
  PROVE  LeaseInv'
<1>1. /\ UNCHANGED <<targetVars, observer, obs>> /\ query.pc = "read"
      /\ \A p \in ObserverIds : obs[p].mu # "rpc"
      /\ query' = NoQuery
  BY DEF Read, LeaseInv, QueryOK
<1>2. query' \in Queries /\ query'.pc = "rest"
  BY <1>1, NoQueryTyped DEF NoQuery
<1>3. QueryOK'
  BY <1>1, <1>2 DEF QueryOK
<1> QED
  BY <1>1, <1>3, QueryMoves

\* What chromedp turned on is turned off while nothing is leased yet.
LEMMA DisableLease ==
  ASSUME LeaseInv, DisableUntilLeased
  PROVE  LeaseInv'
<1> DEFINE o == query.obs
           r == obs[o]
<1>1. /\ query.pc = "disable" /\ query \in Queries /\ o \in ObserverIds
      /\ query.kind \in Kinds /\ r \in Observers /\ LeaseOK(r, Commands(o))
      /\ r.phase = "ready" /\ r.mu = "free"
      /\ Reachable' = Reachable /\ observer' = observer
      /\ \A p \in ObserverIds : obs[p].mu # "rpc"
  BY DEF DisableUntilLeased, LeaseInv, ObserversTyped, LeasesOK, QueryOK, targetVars, Reachable
<1>2. Goes("lease") => /\ query' \in Queries /\ query'.pc = "lease"
                       /\ query'.kind = query.kind /\ query'.obs = o
  <2> SUFFICES ASSUME Goes("lease")
               PROVE  /\ query' \in Queries /\ query'.pc = "lease"
                      /\ query'.kind = query.kind /\ query'.obs = query.obs
    OBVIOUS
  <2>1. query \in Queries
    BY <1>1
  <2>2. query' = [query EXCEPT !.pc = "lease"]
    BY DEF Goes
  <2> QED
    BY <2>1, <2>2, GoesTyped
<1>3. CASE r.disabled /\ Goes("lease") /\ UNCHANGED obs
  <2>1. QueryOK'
    BY <1>1, <1>2, <1>3 DEF QueryOK
  <2>2. UNCHANGED <<targetVars, observer, obs>>
    BY <1>3 DEF DisableUntilLeased
  <2> QED
    BY <2>1, <2>2, QueryMoves
<1>4. ASSUME NEW x \in Observers, obs' = [obs EXCEPT ![o] = x], ~r.disabled,
             x.phase = "ready", x.cancelled = r.cancelled, x.mu = "free", x.active = {},
             x.fresh = r.fresh,
             \/ x.disabled /\ Goes("lease")
             \/ ~x.disabled /\ query' = NoQuery
      PROVE  LeaseInv'
  <2>1. r.active = {} /\ r.fresh = {}
    BY <1>1, <1>4 DEF LeaseOK
  <2>2. LeaseOK(x, Reachable /\ ~x.cancelled)
    BY <1>4, <2>1, NeededByFacts DEF LeaseOK
  <2>3. /\ ObserversTyped' /\ LeasesOK'
        /\ obs'[o] = x /\ \A p \in ObserverIds \ {o} : obs'[p] = obs[p]
    BY <1>1, <1>4, <2>2, ObserverChanges DEF LeaseInv
  <2>4. OneCurrent'
    BY <1>1, <1>4, CurrentStays DEF LeaseInv
  <2>5. CASE x.disabled /\ Goes("lease")
    <3>1. QueryOK'
      BY <1>1, <1>2, <1>4, <2>3, <2>5 DEF QueryOK
    <3> QED
      BY <2>3, <2>4, <3>1 DEF LeaseInv
  <2>6. CASE query' = NoQuery
    <3>1. query' \in Queries /\ query'.pc = "rest"
      BY <2>6, NoQueryTyped DEF NoQuery
    <3>2. QueryOK'
      BY <1>1, <1>4, <2>3, <3>1 DEF QueryOK
    <3> QED
      BY <2>3, <2>4, <3>2 DEF LeaseInv
  <2> QED
    BY <1>4, <2>5, <2>6
<1>5. CASE /\ ~r.disabled
           /\ obs' = [obs EXCEPT ![o].domains = {}, ![o].disabled = TRUE]
           /\ Goes("lease")
  <2> DEFINE x == [r EXCEPT !.domains = {}, !.disabled = TRUE]
  <2>1. obs' = [obs EXCEPT ![o] = x]
    BY <1>1, <1>5 DEF LeaseInv, ObserversTyped
  <2>2. x \in Observers
    BY <1>1 DEF Observers
  <2>3. /\ x.phase = r.phase /\ x.cancelled = r.cancelled /\ x.mu = r.mu
        /\ x.active = r.active /\ x.disabled /\ x.fresh = r.fresh
    BY <1>1 DEF Observers
  <2>4. r.active = {}
    BY <1>1, <1>5 DEF LeaseOK
  <2> HIDE DEF x
  <2> QED
    BY <1>1, <1>4, <1>5, <2>1, <2>2, <2>3, <2>4
<1>6. CASE /\ ~r.disabled
           /\ \E off \in SUBSET Domains : obs' = [obs EXCEPT ![o].domains = @ \ off]
           /\ query' = NoQuery
  <2>0. PICK off \in SUBSET Domains : obs' = [obs EXCEPT ![o].domains = @ \ off]
    BY <1>6
  <2> DEFINE x == [r EXCEPT !.domains = @ \ off]
  <2>1. obs' = [obs EXCEPT ![o] = x]
    BY <1>1, <2>0 DEF LeaseInv, ObserversTyped
  <2>2. x \in Observers
    BY <1>1 DEF Observers
  <2>3. /\ x.phase = r.phase /\ x.cancelled = r.cancelled /\ x.mu = r.mu
        /\ x.active = r.active /\ x.disabled = r.disabled /\ x.fresh = r.fresh
    BY <1>1 DEF Observers
  <2>4. r.active = {}
    BY <1>1, <1>6 DEF LeaseOK
  <2> HIDE DEF x
  <2> QED
    BY <1>1, <1>4, <1>6, <2>1, <2>2, <2>3, <2>4
<1> QED
  BY <1>3, <1>5, <1>6 DEF DisableUntilLeased

\* activate: whoever goes on to lease has the domains on, whether they were turned on now
\* or for another kind before.
LEMMA ActivateLease ==
  ASSUME LeaseInv, Activate
  PROVE  LeaseInv'
<1> DEFINE o == query.obs
           k == query.kind
           r == obs[o]
<1>1. /\ query.pc = "lease" /\ query \in Queries /\ o \in ObserverIds /\ k \in Kinds
      /\ r \in Observers /\ LeaseOK(r, Commands(o))
      /\ r.phase = "ready" /\ r.mu = "free" /\ r.disabled
      /\ Reachable' = Reachable /\ observer' = observer
      /\ \A p \in ObserverIds : obs[p].mu # "rpc"
  BY DEF Activate, LeaseInv, ObserversTyped, LeasesOK, QueryOK, targetVars, Reachable
<1>2. Needs(k) \subseteq Domains
  BY <1>1 DEF Domains, NeededBy
<1>3. ASSUME ToEnable(o, k) = {} \/ Commands(o), Goes("leased"),
             obs' = [obs EXCEPT ![o].mu = "rpc", ![o].listens = TRUE,
                                ![o].domains = @ \cup ToEnable(o, k)]
      PROVE  LeaseInv'
  <2> DEFINE on == r.domains \cup ToEnable(o, k)
             x == [r EXCEPT !.mu = "rpc", !.listens = TRUE, !.domains = on]
  <2>1. obs' = [obs EXCEPT ![o] = x]
    BY <1>1, <1>3 DEF LeaseInv, ObserversTyped
  <2>2. on \in SUBSET Domains
    BY <1>1, <1>2 DEF Observers, ToEnable
  <2>3. Commands(o) => Needs(k) \subseteq on /\ NeededBy(r.active) \subseteq on
    BY <1>1 DEF LeaseOK, ToEnable
  <2> HIDE DEF on
  <2>4. x \in Observers
    BY <1>1, <2>2 DEF Observers
  <2>5. /\ x.phase = r.phase /\ x.cancelled = r.cancelled /\ x.mu = "rpc"
        /\ x.disabled = r.disabled /\ x.domains = on
        /\ x.active = r.active /\ x.fresh = r.fresh
    BY <1>1 DEF Observers
  <2>6. LeaseOK(x, Reachable /\ ~x.cancelled)
    BY <1>1, <2>3, <2>5 DEF LeaseOK, Commands
  <2> HIDE DEF x
  <2>7. /\ ObserversTyped' /\ LeasesOK'
        /\ obs'[o] = x /\ \A p \in ObserverIds \ {o} : obs'[p] = obs[p]
    BY <1>1, <2>1, <2>4, <2>6, ObserverChanges DEF LeaseInv
  <2>8. OneCurrent'
    BY <1>1, <2>1, <2>4, <2>5, CurrentStays DEF LeaseInv
  <2>9. query' = [query EXCEPT !.pc = "leased"]
    BY <1>3 DEF Goes
  <2>10. query' \in Queries /\ query'.pc = "leased" /\ query'.kind = k /\ query'.obs = o
    BY <1>1, <2>9, GoesTyped
  <2>11. Reachable' /\ ~obs'[o].cancelled => Commands(o)
    BY <1>1, <2>5, <2>7 DEF Commands
  <2>12. QueryOK'
    BY <1>1, <2>3, <2>5, <2>7, <2>10, <2>11 DEF QueryOK, Commands
  <2> QED
    BY <2>7, <2>8, <2>12 DEF LeaseInv
<1>4. ASSUME NEW on \in SUBSET ToEnable(o, k), query' = NoQuery,
             obs' = [obs EXCEPT ![o].listens = TRUE,
                                ![o].domains = IF Commands(o) THEN @ \cup on ELSE @]
      PROVE  LeaseInv'
  <2> DEFINE d == IF Commands(o) THEN r.domains \cup on ELSE r.domains
             x == [r EXCEPT !.listens = TRUE, !.domains = d]
  <2>1. obs' = [obs EXCEPT ![o] = x]
    BY <1>1, <1>4 DEF LeaseInv, ObserversTyped
  <2>2. d \in SUBSET Domains /\ r.domains \subseteq d
    BY <1>1, <1>2 DEF Observers, ToEnable
  <2> HIDE DEF d
  <2>3. x \in Observers
    BY <1>1, <2>2 DEF Observers
  <2>4. /\ x.phase = r.phase /\ x.cancelled = r.cancelled /\ x.mu = r.mu
        /\ x.disabled = r.disabled /\ x.domains = d
        /\ x.active = r.active /\ x.fresh = r.fresh
    BY <1>1 DEF Observers
  <2>5. LeaseOK(x, Reachable /\ ~x.cancelled)
    BY <1>1, <2>2, <2>4 DEF LeaseOK, Commands
  <2> HIDE DEF x
  <2>6. /\ ObserversTyped' /\ LeasesOK'
        /\ obs'[o] = x /\ \A p \in ObserverIds \ {o} : obs'[p] = obs[p]
    BY <1>1, <2>1, <2>3, <2>5, ObserverChanges DEF LeaseInv
  <2>7. OneCurrent'
    BY <1>1, <2>1, <2>3, <2>4, CurrentStays DEF LeaseInv
  <2>8. query' \in Queries /\ query'.pc = "rest"
    BY <1>4, NoQueryTyped DEF NoQuery
  <2>9. QueryOK'
    BY <1>1, <2>4, <2>6, <2>8 DEF QueryOK
  <2> QED
    BY <2>6, <2>7, <2>9 DEF LeaseInv
<1> QED
  BY <1>3, <1>4 DEF Activate

LEMMA LeasedLease ==
  ASSUME LeaseInv, Leased
  PROVE  LeaseInv'
<1> DEFINE o == query.obs
           k == query.kind
           r == obs[o]
           x == [r EXCEPT !.mu = "free", !.active = @ \cup {k}, !.fresh = @ \cup {k}]
<1>1. /\ query.pc = "leased" /\ query \in Queries /\ o \in ObserverIds /\ k \in Kinds
      /\ r \in Observers /\ LeaseOK(r, Commands(o))
      /\ r.phase = "ready" /\ r.mu = "rpc" /\ r.disabled
      /\ (Commands(o) => Needs(k) \subseteq r.domains)
      /\ Reachable' = Reachable /\ observer' = observer
      /\ \A p \in ObserverIds : obs[p].mu = "rpc" => p = o
  BY DEF Leased, LeaseInv, ObserversTyped, LeasesOK, QueryOK, targetVars, Reachable
<1>2. obs' = [obs EXCEPT ![o] = x]
  BY <1>1 DEF Leased, LeaseInv, ObserversTyped
<1>3. x \in Observers
  BY <1>1 DEF Observers
<1>4. /\ x.phase = r.phase /\ x.cancelled = r.cancelled /\ x.mu = "free"
      /\ x.disabled = r.disabled /\ x.domains = r.domains
      /\ x.active = r.active \cup {k} /\ x.fresh = r.fresh \cup {k}
  BY <1>1 DEF Observers
<1>5. LeaseOK(x, Reachable /\ ~x.cancelled)
  <2>1. NeededBy(x.active) = NeededBy(r.active) \cup Needs(k)
    BY <1>4, NeededByFacts
  <2>2. Reachable /\ ~x.cancelled => NeededBy(x.active) \subseteq x.domains
    BY <1>1, <1>4, <2>1 DEF LeaseOK, Commands
  <2> QED
    BY <1>1, <1>4, <2>2 DEF LeaseOK
<1> HIDE DEF x
<1>6. /\ ObserversTyped' /\ LeasesOK'
      /\ obs'[o] = x /\ \A p \in ObserverIds \ {o} : obs'[p] = obs[p]
  BY <1>1, <1>2, <1>3, <1>5, ObserverChanges DEF LeaseInv
<1>7. OneCurrent'
  BY <1>1, <1>2, <1>3, <1>4, CurrentStays DEF LeaseInv
<1>8. query' = [query EXCEPT !.pc = "read"]
  BY DEF Leased, Goes
<1>9. query' \in Queries /\ query'.pc = "read" /\ query'.kind = k /\ query'.obs = o
  BY <1>1, <1>8, GoesTyped
<1>10. QueryOK'
  BY <1>1, <1>4, <1>6, <1>9 DEF QueryOK
<1> QED
  BY <1>6, <1>7, <1>10 DEF LeaseInv

LEMMA LeaseStays ==
  ASSUME LeaseInv, UNCHANGED <<observer, obs, query>>, Reachable' => Reachable
  PROVE  LeaseInv'
<1>1. \A p \in ObserverIds : Commands(p)' => Commands(p)
  BY DEF Commands
<1>2. LeasesOK'
  BY ObserversStay DEF LeaseInv
<1> QED
  BY <1>1, <1>2 DEF LeaseInv, ObserversTyped, OneCurrent, QueryOK

\* Every step keeps the leases in order.
LEMMA LeaseStep ==
  ASSUME LeaseInv, seq \in 0..MaxSeq, ObservationMove
  PROVE  LeaseInv'
<1>1. ASSUME NEW o \in ObserverIds, NEW k \in Kinds, NEW d, Event(o, k, d)
      PROVE  LeaseInv'
  <2>1. seq' \in Seqs
    <3>1. MaxSeq \in Nat
      BY ObservationAssumption
    <3> QED
      BY <1>1, <3>1 DEF Event, NextSeq, Seqs
  <2> QED
    BY <1>1, <2>1, EventLease
<1>2. ASSUME (\E k \in Kinds : Clear(k)) \/ ClearTarget
      PROVE  LeaseInv'
  <2>1. UNCHANGED <<observer, obs, query>> /\ Reachable' = Reachable
    BY <1>2 DEF Clear, ClearTarget, targetVars, Reachable
  <2> QED
    BY <2>1, LeaseStays
<1>3. ASSUME Elsewhere
      PROVE  LeaseInv'
  BY <1>3, LeaseStays DEF Elsewhere, observationVars
<1>4. ASSUME QueryStep
      PROVE  LeaseInv'
  BY <1>2, <1>4, EnsureLease, AwaitedLease, DisableLease, ActivateLease, LeasedLease, ReadLease
  DEF QueryStep
<1>5. ASSUME NEW o \in ObserverIds, ObserverStep(o)
      PROVE  LeaseInv'
  BY <1>5, AttachedLease, WriteLease, SweepLease, SweptLease, WatchLease, ExpiresLease
  DEF ObserverStep, Sweeper
<1>6. ASSUME NEW o \in ObserverIds, ObserverHears(o)
      PROVE  LeaseInv'
  BY <1>1, <1>6 DEF ObserverHears
<1> QED
  BY <1>2, <1>3, <1>4, <1>5, <1>6, ForgetLease DEF ObservationMove

LEMMA LeaseStart ==
  ASSUME ObservationInit
  PROVE  LeaseInv
<1>1. \A o \in ObserverIds : obs[o] = NoObserver
  BY DEF ObservationInit
<1>2. ObserversTyped /\ LeasesOK
  BY <1>1, NoObserverOK DEF ObservationInit, ObserversTyped, LeasesOK
<1>3. OneCurrent
  BY <1>1, ObserverNumbers DEF ObservationInit, OneCurrent, NoObserver
<1>4. QueryOK
  <2>1. query.pc = "rest" /\ \A o \in ObserverIds : obs[o].mu = "free"
    BY <1>1 DEF ObservationInit, NoQuery, NoObserver
  <2> QED
    BY <2>1, NoQueryTyped DEF ObservationInit, QueryOK
<1> QED
  BY <1>2, <1>3, <1>4 DEF LeaseInv

\* While a lease is fresh its domains are on.
LEMMA LeaseInvImplies == LeaseInv => LeasedDomainsOn
<1> SUFFICES ASSUME LeaseInv, NEW o \in ObserverIds, Commands(o)
             PROVE  NeededBy(obs[o].active \cap obs[o].fresh) \subseteq obs[o].domains
  BY DEF LeasedDomainsOn
<1>1. LeaseOK(obs[o], TRUE) /\ obs[o].mu \in {"free", "rpc", "sweeper"}
  BY DEF LeaseInv, LeasesOK, ObserversTyped, Observers
<1> QED
  BY <1>1, NeededByFacts DEF LeaseOK

-----------------------------------------------------------------------------
(***************************************************************************)
(* The invariant of the events.                                            *)
(***************************************************************************)
Rings == [q : Seq(Seqs), dropped : Nat]
Ordered(q) == \A m, n \in 1..Len(q) : m < n => q[m].seq < q[n].seq

CountersTyped ==
    /\ seq \in 0..MaxSeq
    /\ rings \in [Kinds -> Rings]
    /\ cursor \in [Kinds -> Nat]
    /\ owed \in [Kinds -> SUBSET Seqs]

KindOK(k) ==
    /\ Len(rings[k].q) <= RingCap /\ InRing(k) \subseteq 1..seq
    /\ cursor[k] <= seq /\ owed[k] \subseteq 1..seq

QueueOK(r) ==
    /\ Len(r.queue) <= QueueCap
    /\ Ordered(r.queue) /\ \A i \in ToSet(r.queue) : i.seq <= seq
    /\ r.phase # "ready" => r.queue = <<>> /\ r.dropped = NoDrops

\* A client waits only for what the current observer has queued, and that is newer than
\* the cursor, than what the ring has, and than what a cancelled observer still has.
OwedByCurrent ==
    \A o \in ObserverIds, k \in Kinds : o # observer => owed[k] \cap Pending(o, k) = {}
Newest(j) ==
    /\ j.seq > cursor[j.kind]
    /\ \A s \in InRing(j.kind) : s < j.seq
    /\ \A p \in ObserverIds \ {observer} : \A i \in ToSet(obs[p].queue) : i.seq < j.seq
CurrentNewest ==
    observer \in ObserverIds => \A j \in ToSet(obs[observer].queue) : Newest(j)

Coming(k) == InRing(k) \cup UNION {Pending(o, k) : o \in ObserverIds}
LostOf(k) == owed[k] \ {s \in Coming(k) : s > cursor[k]}

LossInv ==
    /\ CountersTyped /\ \A k \in Kinds : KindOK(k)
    /\ \A o \in ObserverIds : QueueOK(obs[o])
    /\ OwedByCurrent /\ CurrentNewest
    /\ LossIsCounted

-----------------------------------------------------------------------------
\* Every non-empty set of naturals has a least element.
LEMMA LeastElement ==
  ASSUME NEW S, S \subseteq Nat, S # {}
  PROVE  \E n \in S : \A m \in S : n <= m
<1>1. \E n \in S : \A m \in S : ~(<<m, n>> \in OpToRel(<, Nat))
  BY NatLessThanWellFounded, WFMin
<1>2. \A n, m \in S : ~(<<m, n>> \in OpToRel(<, Nat)) => n <= m
  BY DEF OpToRel
<1> QED
  BY <1>1, <1>2

LEMMA GreatestElement ==
  ASSUME NEW S, S \subseteq Nat, S # {}, NEW b \in Nat, \A n \in S : n <= b
  PROVE  Max(S) \in S /\ \A n \in S : n <= Max(S)
<1> DEFINE T == {b - n : n \in S}
<1>1. T \subseteq Nat /\ T # {}
  <2>1. \A n \in S : b - n \in Nat
    OBVIOUS
  <2>2. PICK n \in S : TRUE
    OBVIOUS
  <2>3. b - n \in T
    OBVIOUS
  <2> QED
    BY <2>1, <2>3
<1>2. PICK t \in T : \A u \in T : t <= u
  BY <1>1, LeastElement
<1>3. PICK m \in S : t = b - m
  OBVIOUS
<1>4. \A n \in S : n <= m
  <2> SUFFICES ASSUME NEW n \in S PROVE n <= m
    OBVIOUS
  <2>1. t <= b - n
    BY <1>2
  <2> QED
    BY <1>3, <2>1
<1>5. \E x \in S : \A y \in S : x >= y
  BY <1>4
<1>6. Max(S) \in S /\ \A y \in S : Max(S) >= y
  BY <1>5 DEF Max
<1> QED
  BY <1>6

LEMMA ToSetEmpty == ToSet(<<>>) = {}
BY DEF ToSet

LEMMA ToSetAppend ==
  ASSUME NEW S, NEW q \in Seq(S), NEW x \in S
  PROVE  ToSet(Append(q, x)) = ToSet(q) \cup {x}
<1> DEFINE e == Append(q, x)
<1>1. /\ DOMAIN q = 1..Len(q) /\ DOMAIN e = 1..(Len(q) + 1) /\ e[Len(q) + 1] = x
      /\ \A n \in 1..Len(q) : e[n] = q[n]
      /\ Len(q) \in Nat
  OBVIOUS
<1> HIDE DEF e
<1>2. ToSet(e) = ToSet(q) \cup {x}
  BY <1>1 DEF ToSet
<1> QED
  BY <1>2 DEF e

LEMMA ToSetTail ==
  ASSUME NEW S, NEW q \in Seq(S), q # <<>>
  PROVE  ToSet(q) = {Head(q)} \cup ToSet(Tail(q))
<1> DEFINE t == Tail(q)
           h == Head(q)
<1>1. /\ DOMAIN q = 1..Len(q) /\ Len(q) \in Nat /\ Len(q) # 0
      /\ DOMAIN t = 1..(Len(q) - 1) /\ h = q[1]
      /\ \A n \in 1..(Len(q) - 1) : t[n] = q[n + 1]
  OBVIOUS
<1> HIDE DEF t, h
<1>2. ToSet(q) \subseteq {h} \cup ToSet(t)
  <2> SUFFICES ASSUME NEW n \in 1..Len(q), n # 1 PROVE q[n] \in ToSet(t)
    BY <1>1 DEF ToSet
  <2>1. n - 1 \in DOMAIN t /\ t[n - 1] = q[n]
    BY <1>1
  <2> QED
    BY <2>1 DEF ToSet
<1>3. {h} \cup ToSet(t) \subseteq ToSet(q)
  <2>1. \A n \in DOMAIN t : n + 1 \in DOMAIN q /\ t[n] = q[n + 1]
    BY <1>1
  <2>2. 1 \in DOMAIN q
    BY <1>1
  <2> QED
    BY <1>1, <2>1, <2>2 DEF ToSet
<1> QED
  BY <1>2, <1>3 DEF t, h

LEMMA ToSetTyped ==
  ASSUME NEW S, NEW q \in Seq(S)
  PROVE  ToSet(q) \subseteq S
BY DEF ToSet

\* The queue stays ordered at both ends.
LEMMA OrderedAppend ==
  ASSUME NEW q \in Seq(Items), Ordered(q), NEW i \in Items,
         \A j \in ToSet(q) : j.seq < i.seq
  PROVE  Ordered(Append(q, i)) /\ Len(Append(q, i)) = Len(q) + 1
<1> DEFINE e == Append(q, i)
<1>1. /\ Len(e) = Len(q) + 1 /\ e[Len(q) + 1] = i /\ DOMAIN q = 1..Len(q)
      /\ \A n \in 1..Len(q) : e[n] = q[n]
      /\ Len(q) \in Nat
  OBVIOUS
<1>2. \A n \in 1..Len(q) : q[n].seq < i.seq
  BY <1>1 DEF ToSet
<1> HIDE DEF e
<1>3. Ordered(e)
  <2> SUFFICES ASSUME NEW m \in 1..Len(e), NEW n \in 1..Len(e), m < n
               PROVE  e[m].seq < e[n].seq
    BY DEF Ordered
  <2>1. CASE n = Len(q) + 1
    BY <1>1, <1>2, <2>1
  <2>2. CASE n # Len(q) + 1
    BY <1>1, <2>2 DEF Ordered
  <2> QED
    BY <2>1, <2>2
<1> QED
  BY <1>1, <1>3 DEF e

LEMMA OrderedTail ==
  ASSUME NEW q \in Seq(Items), Ordered(q), q # <<>>
  PROVE  /\ Ordered(Tail(q)) /\ Len(Tail(q)) <= Len(q)
         /\ \A j \in ToSet(Tail(q)) : Head(q).seq < j.seq
<1> DEFINE t == Tail(q)
           h == Head(q)
<1>1. /\ Len(q) \in Nat /\ Len(q) # 0 /\ Len(t) = Len(q) - 1 /\ DOMAIN t = 1..(Len(q) - 1)
      /\ h = q[1] /\ \A n \in 1..(Len(q) - 1) : t[n] = q[n + 1]
  OBVIOUS
<1> HIDE DEF t, h
<1>2. Ordered(t)
  <2> SUFFICES ASSUME NEW m \in 1..Len(t), NEW n \in 1..Len(t), m < n
               PROVE  t[m].seq < t[n].seq
    BY DEF Ordered
  <2>1. m + 1 \in 1..Len(q) /\ n + 1 \in 1..Len(q) /\ m + 1 < n + 1
    BY <1>1
  <2> QED
    BY <1>1, <2>1 DEF Ordered
<1>3. \A n \in 1..(Len(q) - 1) : h.seq < t[n].seq
  <2> SUFFICES ASSUME NEW n \in 1..(Len(q) - 1) PROVE h.seq < t[n].seq
    OBVIOUS
  <2>1. n + 1 \in 1..Len(q) /\ 1 \in 1..Len(q) /\ 1 < n + 1
    BY <1>1
  <2> QED
    BY <1>1, <2>1 DEF Ordered
<1>4. \A j \in ToSet(t) : h.seq < j.seq
  BY <1>1, <1>3 DEF ToSet
<1> QED
  BY <1>1, <1>2, <1>4 DEF t, h

\* A full ring gives up its oldest event and counts it.
LEMMA PushedFacts ==
  ASSUME NEW ring \in Rings, Len(ring.q) <= RingCap, NEW s \in Seqs
  PROVE  LET next == Pushed(ring, s)
         IN  /\ next \in Rings /\ Len(next.q) <= RingCap
             /\ ToSet(next.q) \subseteq ToSet(ring.q) \cup {s}
             /\ \/ /\ next.dropped = ring.dropped
                   /\ ToSet(ring.q) \cup {s} \subseteq ToSet(next.q)
                \/ /\ next.dropped = ring.dropped + 1
                   /\ \E g : ToSet(ring.q) \cup {s} \subseteq ToSet(next.q) \cup {g}
<1> DEFINE q == ring.q
<1>1. q \in Seq(Seqs) /\ ring.dropped \in Nat /\ RingCap \in Nat /\ RingCap # 0
      /\ Len(q) \in Nat /\ Len(q) <= RingCap
  BY ObservationAssumption DEF Rings
<1>2. CASE Len(q) < RingCap
  <2> DEFINE x == [ring EXCEPT !.q = Append(@, s)]
  <2>1. Pushed(ring, s) = x
    BY <1>2 DEF Pushed
  <2>2. Append(q, s) \in Seq(Seqs) /\ Len(Append(q, s)) = Len(q) + 1
    BY <1>1
  <2>3. x \in Rings /\ x.q = Append(q, s) /\ x.dropped = ring.dropped
    BY <2>2 DEF Rings
  <2>4. ToSet(Append(q, s)) = ToSet(q) \cup {s}
    BY <1>1, ToSetAppend
  <2> HIDE DEF x
  <2>5. Len(x.q) <= RingCap
    BY <1>1, <1>2, <2>2, <2>3
  <2> QED
    BY <2>1, <2>3, <2>4, <2>5
<1>3. CASE ~(Len(q) < RingCap)
  <2>1. Pushed(ring, s) = [q |-> Append(Tail(q), s), dropped |-> ring.dropped + 1]
    BY <1>3 DEF Pushed
  <2>2. q # <<>>
    BY <1>1, <1>3
  <2>3. Tail(q) \in Seq(Seqs) /\ Len(Tail(q)) = Len(q) - 1
    BY <1>1, <2>2
  <2>4. Append(Tail(q), s) \in Seq(Seqs) /\ Len(Append(Tail(q), s)) = Len(q)
    BY <1>1, <2>3
  <2>5. /\ ToSet(q) = {Head(q)} \cup ToSet(Tail(q))
        /\ ToSet(Append(Tail(q), s)) = ToSet(Tail(q)) \cup {s}
    <3>1. ToSet(q) = {Head(q)} \cup ToSet(Tail(q))
      BY <1>1, <2>2, ToSetTail
    <3>2. ToSet(Append(Tail(q), s)) = ToSet(Tail(q)) \cup {s}
      <4> DEFINE t == Tail(q)
      <4>1. t \in Seq(Seqs)
        BY <2>3
      <4> HIDE DEF t
      <4>2. ToSet(Append(t, s)) = ToSet(t) \cup {s}
        BY <4>1, ToSetAppend
      <4> QED
        BY <4>2 DEF t
    <3> QED
      BY <3>1, <3>2
  <2> DEFINE a == Append(Tail(q), s)
             x == [q |-> a, dropped |-> ring.dropped + 1]
  <2> HIDE DEF a
  <2>6. x \in Rings /\ x.q = a /\ x.dropped = ring.dropped + 1
    BY <1>1, <2>4 DEF Rings, a
  <2> HIDE DEF x
  <2>7. ToSet(q) \cup {s} \subseteq ToSet(a) \cup {Head(q)} /\ ToSet(a) \subseteq ToSet(q) \cup {s}
    BY <2>5 DEF a
  <2> QED
    BY <1>1, <2>1, <2>4, <2>6, <2>7 DEF a, x
<1> QED
  BY <1>2, <1>3

-----------------------------------------------------------------------------
(***************************************************************************)
(* What the client has lost, and what it has been told.                    *)
(***************************************************************************)
LEMMA LossIs ==
  LossIsCounted <=> \A k \in Kinds : Cardinality(LostOf(k)) <= Reported(k)
BY DEF LossIsCounted, LostOf, Coming

LEMMA AtMostOneMore ==
  ASSUME NEW A, IsFiniteSet(A), NEW B, NEW n \in Nat, NEW m \in Nat, Cardinality(A) <= n,
         \/ B \subseteq A /\ n <= m
         \/ (\E g : B \subseteq A \cup {g}) /\ n + 1 <= m
  PROVE  Cardinality(B) <= m
<1>1. CASE B \subseteq A /\ n <= m
  <2>1. Cardinality(B) <= Cardinality(A) /\ IsFiniteSet(B)
    BY <1>1, FS_Subset
  <2>2. Cardinality(A) \in Nat /\ Cardinality(B) \in Nat
    BY <2>1, FS_CardinalityType
  <2> QED
    BY <1>1, <2>1, <2>2
<1>2. CASE (\E g : B \subseteq A \cup {g}) /\ n + 1 <= m
  <2>1. PICK g : B \subseteq A \cup {g}
    BY <1>2
  <2>2. IsFiniteSet(A \cup {g}) /\ Cardinality(A) \in Nat
        /\ Cardinality(A \cup {g}) <= Cardinality(A) + 1
    BY FS_AddElement, FS_CardinalityType
  <2>3. Cardinality(B) <= Cardinality(A \cup {g}) /\ IsFiniteSet(B)
    BY <2>1, <2>2, FS_Subset
  <2>4. Cardinality(A \cup {g}) \in Nat /\ Cardinality(B) \in Nat
    BY <2>2, <2>3, FS_CardinalityType
  <2> QED
    BY <1>2, <2>2, <2>3, <2>4
<1> QED
  BY <1>1, <1>2

LEMMA ReportedTyped ==
  ASSUME CountersTyped, ObserversTyped, OneCurrent, NEW k \in Kinds
  PROVE  /\ Reported(k) \in Nat /\ rings[k].dropped \in Nat
         /\ observer = 0 => Reported(k) = rings[k].dropped
         /\ observer # 0 => /\ observer \in ObserverIds
                            /\ obs[observer].dropped[k] \in Nat
                            /\ Reported(k) = rings[k].dropped + obs[observer].dropped[k]
<1>1. rings[k].dropped \in Nat
  BY DEF CountersTyped, Rings
<1>2. observer # 0 => observer \in ObserverIds
  BY DEF OneCurrent, ObserverIds
<1>3. observer # 0 => obs[observer].dropped[k] \in Nat
  <2> SUFFICES ASSUME observer # 0 PROVE obs[observer].dropped[k] \in Nat
    OBVIOUS
  <2>1. obs[observer] \in Observers
    BY <1>2 DEF ObserversTyped
  <2>2. obs[observer].dropped \in [Kinds -> Nat]
    BY <2>1 DEF Observers
  <2> QED
    BY <2>2
<1> QED
  BY <1>1, <1>2, <1>3 DEF Reported

ReportsTyped == \A k \in Kinds : Reported(k) \in Nat
LEMMA ReportedNat == LeaseInv /\ CountersTyped => ReportsTyped
BY ReportedTyped DEF LeaseInv, ReportsTyped

\* A step that loses nothing, or one event that it counts.
LEMMA LossMoves ==
  ASSUME LeaseInv, LossInv, LeaseInv', CountersTyped',
         \A k \in Kinds :
             \/ LostOf(k)' \subseteq LostOf(k) /\ Reported(k) <= Reported(k)'
             \/ LostOf(k)' = {}
             \/ /\ \E g : LostOf(k)' \subseteq LostOf(k) \cup {g}
                /\ Reported(k) + 1 <= Reported(k)'
  PROVE  LossIsCounted'
<1>1. ASSUME NEW k \in Kinds PROVE Cardinality(LostOf(k)') <= Reported(k)'
  <2>1. Reported(k) \in Nat /\ Reported(k)' \in Nat
    <3>1. (LeaseInv /\ CountersTyped => ReportsTyped)'
      BY ReportedNat, PTL
    <3> QED
      BY <3>1, ReportedNat DEF LossInv, ReportsTyped
  <2>2. IsFiniteSet(LostOf(k))
    <3>1. MaxSeq \in Nat
      BY ObservationAssumption
    <3>2. IsFiniteSet(Seqs)
      BY <3>1, FS_Interval DEF Seqs
    <3>3. LostOf(k) \subseteq Seqs
      BY DEF LostOf, LossInv, CountersTyped
    <3> QED
      BY <3>2, <3>3, FS_Subset
  <2>3. Cardinality(LostOf(k)) <= Reported(k)
    BY LossIs DEF LossInv
  <2>4. CASE LostOf(k)' = {}
    BY <2>1, <2>4, FS_EmptySet
  <2>5. CASE LostOf(k)' # {}
    BY <2>1, <2>2, <2>3, <2>5, AtMostOneMore
  <2> QED
    BY <2>4, <2>5
<1>2. LossIsCounted' <=> \A k \in Kinds : Cardinality(LostOf(k)') <= Reported(k)'
  BY DEF LossIsCounted, LostOf, Coming
<1> QED
  BY <1>1, <1>2

\* The events of an observer that has never been attached.
LEMMA IdleObserver ==
  ASSUME LossInv, NEW o \in ObserverIds, obs[o].phase # "ready"
  PROVE  /\ obs[o].queue = <<>> /\ obs[o].dropped = NoDrops
         /\ ToSet(obs[o].queue) = {}
         /\ \A k \in Kinds : Pending(o, k) = {} /\ obs[o].dropped[k] = 0
<1>1. obs[o].queue = <<>> /\ obs[o].dropped = NoDrops
  BY DEF LossInv, QueueOK
<1>2. ToSet(obs[o].queue) = {}
  BY <1>1, ToSetEmpty
<1> QED
  BY <1>1, <1>2 DEF Pending, NoDrops

\* Steps that touch no event: the attach, the lease, the sweep and the watcher.
LEMMA QuietLoss ==
  ASSUME LeaseInv, LossInv, LeaseInv', UNCHANGED <<rings, seq, cursor, owed>>,
         \A o \in ObserverIds :
             /\ obs'[o].queue = obs[o].queue /\ obs'[o].dropped = obs[o].dropped
             /\ obs[o].phase = "ready" => obs'[o].phase = "ready",
         \/ observer' = observer
         \/ \A o \in ObserverIds : o \in {observer, observer'} => obs[o].phase # "ready"
  PROVE  LossInv'
<1>1. \A o \in ObserverIds, k \in Kinds : Pending(o, k)' = Pending(o, k)
  BY DEF Pending
<1>2. \A k : InRing(k)' = InRing(k)
  BY DEF InRing
<1>3. \A k \in Kinds : LostOf(k)' = LostOf(k)
  BY <1>1, <1>2 DEF LostOf, Coming
<1>4. CountersTyped' /\ \A k \in Kinds : KindOK(k)'
  BY <1>2 DEF LossInv, CountersTyped, KindOK
<1>5. \A o \in ObserverIds : QueueOK(obs[o])'
  BY DEF LossInv, QueueOK
<1>6. CASE observer' = observer
  <2>1. \A k \in Kinds : Reported(k)' = Reported(k)
    <3> SUFFICES ASSUME NEW k \in Kinds PROVE Reported(k)' = Reported(k)
      OBVIOUS
    <3>1. observer # 0 => observer \in ObserverIds
      BY ReportedTyped DEF LeaseInv, LossInv
    <3> QED
      BY <1>6, <3>1 DEF Reported
  <2>2. \A k \in Kinds : Reported(k) <= Reported(k)'
    BY <2>1, ReportedTyped DEF LeaseInv, LossInv
  <2>3. LossIsCounted'
    BY <1>3, <1>4, <2>2, LossMoves
  <2>4. OwedByCurrent'
    BY <1>1, <1>6 DEF LossInv, OwedByCurrent
  <2>5. CurrentNewest'
    BY <1>2, <1>6 DEF LossInv, CurrentNewest, Newest
  <2> QED
    BY <1>4, <1>5, <2>3, <2>4, <2>5 DEF LossInv
<1>7. CASE \A o \in ObserverIds : o \in {observer, observer'} => obs[o].phase # "ready"
  <2>1. \A o \in ObserverIds : o \in {observer, observer'} =>
            /\ ToSet(obs[o].queue) = {}
            /\ \A k \in Kinds : Pending(o, k) = {} /\ obs[o].dropped[k] = 0
    BY <1>7, IdleObserver
  <2>2. \A k \in Kinds : Reported(k)' = Reported(k)
    <3> SUFFICES ASSUME NEW k \in Kinds PROVE Reported(k)' = Reported(k)
      OBVIOUS
    <3>1. /\ rings[k].dropped \in Nat
          /\ observer # 0 => observer \in ObserverIds
          /\ observer = 0 => Reported(k) = rings[k].dropped
          /\ observer # 0 => Reported(k) = rings[k].dropped + obs[observer].dropped[k]
      BY ReportedTyped DEF LeaseInv, LossInv
    <3>2. Reported(k) = rings[k].dropped
      BY <2>1, <3>1
    <3>3. observer' # 0 => observer' \in ObserverIds /\ obs'[observer'].dropped[k] = 0
      <4>1. observer' # 0 => observer' \in ObserverIds
        BY DEF LeaseInv, OneCurrent, ObserverIds
      <4> QED
        BY <2>1, <4>1
    <3>4. Reported(k)' = rings[k].dropped
      BY <3>1, <3>3 DEF Reported
    <3> QED
      BY <3>2, <3>4
  <2>3. \A k \in Kinds : Reported(k) <= Reported(k)'
    BY <2>2, ReportedTyped DEF LeaseInv, LossInv
  <2>4. LossIsCounted'
    BY <1>3, <1>4, <2>3, LossMoves
  <2>5. OwedByCurrent'
    BY <1>1, <2>1 DEF LossInv, OwedByCurrent
  <2>6. CurrentNewest'
    BY <2>1 DEF CurrentNewest
  <2> QED
    BY <1>4, <1>5, <2>4, <2>5, <2>6 DEF LossInv
<1> QED
  BY <1>6, <1>7

-----------------------------------------------------------------------------
(***************************************************************************)
(* The steps that touch events.                                            *)
(***************************************************************************)
LEMMA NoRingsTyped ==
  /\ NoRings \in [Kinds -> Rings]
  /\ \A k \in Kinds : ToSet(NoRings[k].q) = {} /\ Len(NoRings[k].q) <= RingCap
  /\ EmptyRing \in Rings /\ ToSet(EmptyRing.q) = {} /\ Len(EmptyRing.q) <= RingCap
<1>1. RingCap \in Nat
  BY ObservationAssumption
<1>2. EmptyRing \in Rings /\ EmptyRing.q = <<>> /\ Len(<<>>) = 0
  BY DEF EmptyRing, Rings
<1> QED
  BY <1>1, <1>2, ToSetEmpty DEF NoRings

\* After the removal the client waits for nothing.
LEMMA ForgetLoss ==
  ASSUME LeaseInv, LossInv, ForgetObserver, LeaseInv'
  PROVE  LossInv'
<1>1. /\ observer' = 0 /\ UNCHANGED <<rings, seq, cursor>>
      /\ owed' = [k \in Kinds |-> {}]
      /\ obs' = [o \in ObserverIds |-> IF o = observer THEN [obs[o] EXCEPT !.cancelled = TRUE]
                                       ELSE obs[o]]
  BY DEF ForgetObserver
<1>2. \A o \in ObserverIds : /\ obs'[o].queue = obs[o].queue
                             /\ obs'[o].dropped = obs[o].dropped
                             /\ obs'[o].phase = obs[o].phase
  <2> SUFFICES ASSUME NEW o \in ObserverIds
               PROVE  /\ obs'[o].queue = obs[o].queue
                      /\ obs'[o].dropped = obs[o].dropped
                      /\ obs'[o].phase = obs[o].phase
    OBVIOUS
  <2>1. obs[o] \in Observers
    BY DEF LeaseInv, ObserversTyped
  <2>2. obs'[o] = IF o = observer THEN [obs[o] EXCEPT !.cancelled = TRUE] ELSE obs[o]
    BY <1>1
  <2> QED
    BY <2>1, <2>2 DEF Observers
<1>3. CountersTyped' /\ \A k \in Kinds : KindOK(k)'
  BY <1>1 DEF LossInv, CountersTyped, KindOK, InRing
<1>4. \A o \in ObserverIds : QueueOK(obs[o])'
  BY <1>1, <1>2 DEF LossInv, QueueOK
<1>5. OwedByCurrent'
  BY <1>1 DEF OwedByCurrent
<1>6. CurrentNewest'
  BY <1>1, ObserverNumbers DEF CurrentNewest
<1>7. \A k \in Kinds : LostOf(k)' = {}
  BY <1>1 DEF LostOf
<1>8. LossIsCounted'
  BY <1>3, <1>7, LossMoves
<1> QED
  BY <1>3, <1>4, <1>5, <1>6, <1>8 DEF LossInv

LEMMA ClearTargetLoss ==
  ASSUME LeaseInv, LossInv, ClearTarget, LeaseInv'
  PROVE  LossInv'
<1>1. /\ UNCHANGED <<observer, obs, seq, cursor>>
      /\ owed' = [k \in Kinds |-> {}] /\ rings' = NoRings
  BY DEF ClearTarget
<1>2. \A k \in Kinds : InRing(k)' = {}
  BY <1>1, NoRingsTyped DEF InRing
<1>3. CountersTyped' /\ \A k \in Kinds : KindOK(k)'
  BY <1>1, <1>2, NoRingsTyped DEF LossInv, CountersTyped, KindOK
<1>4. \A o \in ObserverIds : QueueOK(obs[o])'
  BY <1>1 DEF LossInv, QueueOK
<1>5. OwedByCurrent'
  BY <1>1 DEF OwedByCurrent
<1>6. CurrentNewest'
  <2> SUFFICES ASSUME observer \in ObserverIds, NEW j \in ToSet(obs[observer].queue)
               PROVE  Newest(j)'
    BY <1>1 DEF CurrentNewest
  <2>1. Newest(j)
    BY DEF LossInv, CurrentNewest
  <2>2. j.kind \in Kinds
    <3>1. obs[observer] \in Observers
      BY DEF LeaseInv, ObserversTyped
    <3>2. obs[observer].queue \in Seq(Items)
      BY <3>1 DEF Observers
    <3>3. j \in Items
      BY <3>2, ToSetTyped
    <3> QED
      BY <3>3 DEF Items
  <2> QED
    BY <1>1, <1>2, <2>1, <2>2 DEF Newest
<1>7. \A k \in Kinds : LostOf(k)' = {}
  BY <1>1 DEF LostOf
<1>8. LossIsCounted'
  BY <1>3, <1>7, LossMoves
<1> QED
  BY <1>3, <1>4, <1>5, <1>6, <1>8 DEF LossInv

LEMMA QueuedTyped ==
  ASSUME LeaseInv, NEW o \in ObserverIds
  PROVE  /\ obs[o].queue \in Seq(Items)
         /\ obs[o].dropped \in [Kinds -> Nat]
         /\ \A j \in ToSet(obs[o].queue) : j \in Items /\ j.kind \in Kinds /\ j.seq \in Seqs
<1>1. obs[o] \in Observers
  BY DEF LeaseInv, ObserversTyped
<1>2. obs[o].queue \in Seq(Items) /\ obs[o].dropped \in [Kinds -> Nat]
  BY <1>1 DEF Observers
<1>3. \A j \in ToSet(obs[o].queue) : j \in Items
  BY <1>2, ToSetTyped
<1> QED
  BY <1>2, <1>3 DEF Items

LEMMA PendingIn ==
  ASSUME NEW o, NEW k, NEW s \in Pending(o, k)
  PROVE  \E j \in ToSet(obs[o].queue) : j.kind = k /\ j.seq = s
BY DEF Pending

\* What is left pending after a clear still comes.
LEMMA ClearLoss ==
  ASSUME LeaseInv, LossInv, NEW k \in Kinds, Clear(k), LeaseInv'
  PROVE  LossInv'
<1> DEFINE pend(j) == UNION {Pending(o, j) : o \in ObserverIds}
<1>1. /\ UNCHANGED <<observer, obs, seq, cursor>>
      /\ rings' = [rings EXCEPT ![k] = EmptyRing]
      /\ owed' = [owed EXCEPT ![k] = @ \cap pend(k)]
  BY DEF Clear
<1>2. /\ rings'[k] = EmptyRing /\ \A j \in Kinds \ {k} : rings'[j] = rings[j]
      /\ rings' \in [Kinds -> Rings]
  BY <1>1, NoRingsTyped DEF LossInv, CountersTyped
<1>3. /\ owed'[k] = owed[k] \cap pend(k) /\ \A j \in Kinds \ {k} : owed'[j] = owed[j]
      /\ owed' \in [Kinds -> SUBSET Seqs]
  BY <1>1 DEF LossInv, CountersTyped
<1>4. InRing(k)' = {} /\ \A j \in Kinds \ {k} : InRing(j)' = InRing(j)
  BY <1>2, NoRingsTyped DEF InRing
<1>5. \A o \in ObserverIds, j \in Kinds : Pending(o, j)' = Pending(o, j)
  BY <1>1 DEF Pending
<1>6. CountersTyped'
  BY <1>1, <1>2, <1>3 DEF LossInv, CountersTyped
<1>7. \A j \in Kinds : KindOK(j)'
  <2>1. KindOK(k)'
    BY <1>1, <1>2, <1>3, <1>4, NoRingsTyped DEF LossInv, KindOK
  <2>2. \A j \in Kinds \ {k} : KindOK(j)'
    BY <1>1, <1>2, <1>3, <1>4 DEF LossInv, KindOK
  <2> QED
    BY <2>1, <2>2
<1>8. \A o \in ObserverIds : QueueOK(obs[o])'
  BY <1>1 DEF LossInv, QueueOK
<1>9. OwedByCurrent'
  <2>1. \A j \in Kinds : owed'[j] \subseteq owed[j]
    BY <1>3
  <2> QED
    BY <1>1, <1>5, <2>1 DEF LossInv, OwedByCurrent
<1>10. CurrentNewest'
  <2> SUFFICES ASSUME observer \in ObserverIds, NEW j \in ToSet(obs[observer].queue)
               PROVE  Newest(j)'
    BY <1>1 DEF CurrentNewest
  <2>1. Newest(j) /\ j.kind \in Kinds
    BY QueuedTyped DEF LossInv, CurrentNewest
  <2>2. InRing(j.kind)' \subseteq InRing(j.kind)
    BY <1>4, <2>1
  <2> QED
    BY <1>1, <2>1, <2>2 DEF Newest
<1>11. LostOf(k)' = {}
  <2> SUFFICES ASSUME NEW s \in owed[k], NEW o \in ObserverIds, s \in Pending(o, k)
               PROVE  s \in Coming(k)' /\ s > cursor[k]
    BY <1>1, <1>3 DEF LostOf
  <2>1. o = observer
    BY DEF LossInv, OwedByCurrent
  <2>2. PICK j \in ToSet(obs[o].queue) : j.kind = k /\ j.seq = s
    BY PendingIn
  <2>3. j.seq > cursor[j.kind]
    BY <2>1, <2>2 DEF LossInv, CurrentNewest, Newest
  <2>4. s \in Coming(k)'
    BY <1>5 DEF Coming
  <2> QED
    BY <2>2, <2>3, <2>4
<1>12. \A j \in Kinds \ {k} : LostOf(j)' = LostOf(j) /\ Reported(j)' = Reported(j)
  BY <1>1, <1>2, <1>3, <1>4, <1>5 DEF LostOf, Coming, Reported
<1>13. \A j \in Kinds : Reported(j) \in Nat
  BY ReportedNat DEF LossInv, ReportsTyped
<1>14. LossIsCounted'
  <2>1. ASSUME NEW j \in Kinds
        PROVE  \/ LostOf(j)' \subseteq LostOf(j) /\ Reported(j) <= Reported(j)'
               \/ LostOf(j)' = {}
    <3>1. CASE j = k
      BY <1>11, <3>1
    <3>2. CASE j # k
      BY <1>12, <1>13, <3>2
    <3> QED
      BY <3>1, <3>2
  <2> QED
    BY <1>6, <2>1, LossMoves
<1> QED
  BY <1>6, <1>7, <1>8, <1>9, <1>10, <1>14 DEF LossInv

\* The cursor moves past what was received and nothing else that is owed.
LEMMA ReadLoss ==
  ASSUME LeaseInv, LossInv, Read, LeaseInv'
  PROVE  LossInv'
<1> DEFINE k == query.kind
           c == NextCursor(k)
<1>1. /\ UNCHANGED <<observer, obs, rings, seq>> /\ k \in Kinds
      /\ owed' = [owed EXCEPT ![k] = @ \ Newer(k)]
      /\ cursor' = [cursor EXCEPT ![k] = c]
  BY DEF Read, LeaseInv, QueryOK
<1>2. c \in InRing(k) \cup {cursor[k]} /\ \A n \in InRing(k) \cup {cursor[k]} : n <= c
  <2>1. /\ InRing(k) \subseteq 1..seq /\ cursor[k] \in Nat /\ cursor[k] <= seq /\ seq \in Nat
    <3>1. MaxSeq \in Nat
      BY ObservationAssumption
    <3>2. seq \in Nat /\ cursor[k] \in Nat
      BY <1>1, <3>1 DEF LossInv, CountersTyped
    <3>3. InRing(k) \subseteq 1..seq /\ cursor[k] <= seq
      BY <1>1 DEF LossInv, KindOK
    <3> QED
      BY <3>2, <3>3
  <2> DEFINE S == InRing(k) \cup {cursor[k]}
  <2>2. S \subseteq Nat /\ S # {} /\ \A n \in S : n <= seq
    BY <2>1
  <2> HIDE DEF S
  <2>3. Max(S) \in S /\ \A n \in S : n <= Max(S)
    BY <2>1, <2>2, GreatestElement
  <2> QED
    BY <2>3 DEF S, NextCursor
<1> HIDE DEF c
<1>3. c \in Nat /\ c <= seq
  BY <1>1, <1>2 DEF LossInv, KindOK, CountersTyped
<1> PICK kk : kk = k
  OBVIOUS
<1>4. /\ cursor'[kk] = c /\ \A j \in Kinds \ {kk} : cursor'[j] = cursor[j]
      /\ cursor' \in [Kinds -> Nat]
  BY <1>1, <1>3 DEF LossInv, CountersTyped
<1>5. /\ owed'[kk] = owed[kk] \ Newer(kk) /\ \A j \in Kinds \ {kk} : owed'[j] = owed[j]
      /\ owed' \in [Kinds -> SUBSET Seqs]
  BY <1>1 DEF LossInv, CountersTyped
<1>6. \A j : InRing(j)' = InRing(j)
  BY <1>1 DEF InRing
<1>7. \A o \in ObserverIds, j \in Kinds : Pending(o, j)' = Pending(o, j)
  BY <1>1 DEF Pending
<1>8. CountersTyped'
  BY <1>1, <1>4, <1>5 DEF LossInv, CountersTyped
<1>9. \A j \in Kinds : KindOK(j)'
  <2> SUFFICES ASSUME NEW j \in Kinds PROVE KindOK(j)'
    OBVIOUS
  <2>1. owed'[j] \subseteq owed[j] /\ cursor'[j] <= seq
    BY <1>3, <1>4, <1>5 DEF LossInv, KindOK
  <2> QED
    BY <1>1, <1>6, <2>1 DEF LossInv, KindOK
<1>10. \A o \in ObserverIds : QueueOK(obs[o])'
  BY <1>1 DEF LossInv, QueueOK
<1>11. OwedByCurrent'
  <2>1. \A j \in Kinds : owed'[j] \subseteq owed[j]
    BY <1>5
  <2> QED
    BY <1>1, <1>7, <2>1 DEF LossInv, OwedByCurrent
<1>12. CurrentNewest'
  <2> SUFFICES ASSUME observer \in ObserverIds, NEW j \in ToSet(obs[observer].queue)
               PROVE  Newest(j)'
    BY <1>1 DEF CurrentNewest
  <2>1. Newest(j) /\ j.kind \in Kinds
    BY QueuedTyped DEF LossInv, CurrentNewest
  <2>2. j.seq > cursor'[j.kind]
    BY <1>2, <1>4, <2>1 DEF Newest
  <2> QED
    BY <1>1, <1>6, <2>1, <2>2 DEF Newest
<1>13. LostOf(kk)' \subseteq LostOf(kk)
  <2> SUFFICES ASSUME NEW s \in owed[kk], s \notin Newer(kk),
                      ~(s \in Coming(kk) /\ s > c),
                      s \in Coming(kk), s > cursor[kk]
               PROVE  FALSE
    BY <1>1, <1>4, <1>5, <1>6, <1>7 DEF LostOf, Coming
  <2>1. s \notin InRing(kk)
    BY DEF Newer
  <2>2. PICK o \in ObserverIds : s \in Pending(o, kk)
    BY <2>1 DEF Coming
  <2>3. o = observer
    BY <1>1, <2>2 DEF LossInv, OwedByCurrent
  <2>4. PICK j \in ToSet(obs[o].queue) : j.kind = kk /\ j.seq = s
    BY <2>2, PendingIn
  <2>5. s > cursor[kk] /\ \A n \in InRing(kk) : n < s
    BY <2>3, <2>4 DEF LossInv, CurrentNewest, Newest
  <2>6. c < s
    BY <1>2, <2>5
  <2>7. s > c
    BY <2>6
  <2> QED
    BY <2>7
<1>14. \A j \in Kinds \ {kk} : LostOf(j)' = LostOf(j)
  BY <1>1, <1>4, <1>5, <1>6, <1>7 DEF LostOf, Coming
<1>15. \A j \in Kinds : Reported(j)' = Reported(j) /\ Reported(j) \in Nat
  BY <1>1, ReportedNat DEF LossInv, ReportsTyped, Reported
<1>16. LossIsCounted'
  <2>1. \A j \in Kinds : LostOf(j)' \subseteq LostOf(j) /\ Reported(j) <= Reported(j)'
    BY <1>13, <1>14, <1>15
  <2> QED
    BY <1>8, <2>1, LossMoves
<1> QED
  BY <1>8, <1>9, <1>10, <1>11, <1>12, <1>16 DEF LossInv

\* An event has a new number: it is queued, or lost and counted.
LEMMA EventLoss ==
  ASSUME LeaseInv, LossInv, NEW o \in ObserverIds, NEW k \in Kinds, NEW d, Event(o, k, d),
         LeaseInv'
  PROVE  LossInv'
<1> DEFINE q == obs[o].queue
           n == seq + 1
           i == [kind |-> k, seq |-> n]
<1>1. /\ UNCHANGED <<observer, rings, cursor>> /\ seq' = n /\ seq < MaxSeq
      /\ owed' = [owed EXCEPT ![k] = @ \cup {n}]
      /\ obs[o].phase = "ready" /\ ~obs[o].cancelled
      /\ seq \in Nat /\ MaxSeq \in Nat
  <2>1. MaxSeq \in Nat
    BY ObservationAssumption
  <2> QED
    BY <2>1 DEF Event, NextSeq, LossInv, CountersTyped
<1>2. o = observer /\ n \in Seqs
  BY <1>1 DEF LeaseInv, OneCurrent, Seqs
<1>3. q \in Seq(Items) /\ i \in Items /\ obs[o].dropped \in [Kinds -> Nat] /\ obs[o] \in Observers
  BY <1>2, QueuedTyped DEF Items, LeaseInv, ObserversTyped
<1>4. \A p \in ObserverIds : \A j \in ToSet(obs[p].queue) : j.seq \in Nat /\ j.seq < n
  <2> SUFFICES ASSUME NEW p \in ObserverIds, NEW j \in ToSet(obs[p].queue)
               PROVE  j.seq \in Nat /\ j.seq < n
    OBVIOUS
  <2>1. j.seq \in Seqs /\ j.seq <= seq
    BY QueuedTyped DEF LossInv, QueueOK
  <2> QED
    BY <1>1, <2>1 DEF Seqs
<1>5. /\ owed'[k] = owed[k] \cup {n} /\ \A j \in Kinds \ {k} : owed'[j] = owed[j]
      /\ owed' \in [Kinds -> SUBSET Seqs]
  BY <1>1, <1>2 DEF LossInv, CountersTyped
<1>6. CountersTyped' /\ \A j \in Kinds : KindOK(j)'
  <2>1. seq' \in 0..MaxSeq /\ 1..seq \subseteq 1..n /\ n \in 1..n
    BY <1>1
  <2>2. CountersTyped'
    BY <1>1, <1>5, <2>1 DEF LossInv, CountersTyped
  <2>3. ASSUME NEW j \in Kinds PROVE KindOK(j)'
    <3>1. KindOK(j) /\ cursor[j] \in Nat
      BY DEF LossInv, CountersTyped
    <3>2. owed'[j] \subseteq 1..n
      BY <1>5, <2>1, <3>1 DEF KindOK
    <3>3. cursor[j] <= n
      BY <1>1, <3>1 DEF KindOK
    <3> QED
      BY <1>1, <2>1, <3>1, <3>2, <3>3 DEF KindOK, InRing
  <2> QED
    BY <2>2, <2>3
<1>7. \A j : InRing(j)' = InRing(j)
  BY <1>1 DEF InRing
<1>8. /\ n > cursor[k] /\ \A s \in InRing(k) : s < n
  <2>1. KindOK(k) /\ cursor[k] \in Nat
    BY DEF LossInv, CountersTyped
  <2> QED
    BY <1>1, <2>1 DEF KindOK
<1>9. \A p \in ObserverIds : n \notin {j.seq : j \in ToSet(obs[p].queue)}
  BY <1>1, <1>4
<1> HIDE DEF n
<1>10. CASE Len(q) < QueueCap /\ obs' = [obs EXCEPT ![o].queue = Append(@, i)]
  <2>1. /\ obs'[o].queue = Append(q, i) /\ obs'[o].dropped = obs[o].dropped
        /\ obs'[o].phase = obs[o].phase
        /\ \A p \in ObserverIds \ {o} : obs'[p] = obs[p]
    BY <1>3, <1>10 DEF LeaseInv, ObserversTyped, Observers
  <2>2. ToSet(obs'[o].queue) = ToSet(q) \cup {i}
    BY <1>3, <2>1, ToSetAppend
  <2>3. Ordered(obs'[o].queue) /\ Len(obs'[o].queue) = Len(q) + 1
    <3>1. Ordered(q)
      BY DEF LossInv, QueueOK
    <3> QED
      BY <1>3, <1>4, <2>1, <3>1, OrderedAppend
  <2>4. QueueCap \in Nat /\ Len(q) \in Nat
    BY <1>3, ObservationAssumption
  <2>5. \A p \in ObserverIds : QueueOK(obs[p])'
    <3>1. QueueOK(obs[o])'
      <4>1. \A j \in ToSet(obs'[o].queue) : j.seq <= n
        BY <1>1, <1>4, <2>2 DEF n
      <4>2. Len(obs'[o].queue) <= QueueCap
        BY <1>10, <2>3, <2>4
      <4> QED
        BY <1>1, <2>1, <2>3, <4>1, <4>2 DEF QueueOK
    <3>2. ASSUME NEW p \in ObserverIds \ {o} PROVE QueueOK(obs[p])'
      <4>1. \A j \in ToSet(obs[p].queue) : j.seq <= n
        BY <1>1, <1>4 DEF n
      <4> QED
        BY <1>1, <2>1, <4>1 DEF LossInv, QueueOK
    <3> QED
      BY <3>1, <3>2
  <2>6. /\ Pending(o, k)' = Pending(o, k) \cup {n}
        /\ \A j \in Kinds \ {k} : Pending(o, j)' = Pending(o, j)
        /\ \A p \in ObserverIds \ {o}, j \in Kinds : Pending(p, j)' = Pending(p, j)
    BY <2>1, <2>2 DEF Pending
  <2>7. OwedByCurrent'
    <3> SUFFICES ASSUME NEW p \in ObserverIds, NEW j \in Kinds, p # observer
                 PROVE  owed'[j] \cap Pending(p, j)' = {}
      BY <1>1 DEF OwedByCurrent
    <3>1. owed[j] \cap Pending(p, j) = {}
      BY DEF LossInv, OwedByCurrent
    <3>2. n \notin Pending(p, j)
      BY <1>9 DEF Pending
    <3>3. owed'[j] \subseteq owed[j] \cup {n}
      BY <1>5
    <3> QED
      BY <1>2, <2>6, <3>1, <3>2, <3>3
  <2>8. CurrentNewest'
    <3> SUFFICES ASSUME NEW j \in ToSet(obs'[o].queue)
                 PROVE  Newest(j)'
      BY <1>1, <1>2 DEF CurrentNewest
    <3>1. CASE j = i
      <4>1. \A p \in ObserverIds \ {o} : \A e \in ToSet(obs'[p].queue) : e.seq < n
        BY <1>4, <2>1
      <4> QED
        BY <1>1, <1>2, <1>7, <1>8, <3>1, <4>1 DEF Newest
    <3>2. CASE j \in ToSet(q)
      <4>1. Newest(j)
        BY <1>2, <3>2 DEF LossInv, CurrentNewest
      <4> QED
        BY <1>1, <1>2, <1>7, <2>1, <4>1 DEF Newest
    <3> QED
      BY <2>2, <3>1, <3>2
  <2>9. Coming(k)' = Coming(k) \cup {n} /\ \A j \in Kinds \ {k} : Coming(j)' = Coming(j)
    BY <1>7, <2>6 DEF Coming
  <2>10. ASSUME NEW j \in Kinds
         PROVE  LostOf(j)' \subseteq LostOf(j) /\ Reported(j) <= Reported(j)'
    <3>1. Reported(j)' = Reported(j) /\ Reported(j) \in Nat
      <4>1. Reported(j)' = Reported(j)
        BY <1>1, <1>2, <2>1 DEF Reported
      <4> QED
        BY <4>1, ReportedNat DEF LossInv, ReportsTyped
    <3>2. LostOf(j)' \subseteq LostOf(j)
      <4>1. CASE j = k
        BY <1>1, <1>5, <1>8, <2>9, <4>1 DEF LostOf
      <4>2. CASE j # k
        BY <1>1, <1>5, <2>9, <4>2 DEF LostOf
      <4> QED
        BY <4>1, <4>2
    <3> QED
      BY <3>1, <3>2
  <2>11. LossIsCounted'
    BY <1>6, <2>10, LossMoves
  <2> QED
    BY <1>6, <2>5, <2>7, <2>8, <2>11 DEF LossInv
<1>11. CASE obs' = Drop(o, k)
  <2>1. /\ obs'[o].queue = q /\ obs'[o].phase = obs[o].phase
        /\ obs'[o].dropped = [obs[o].dropped EXCEPT ![k] = @ + 1]
        /\ \A p \in ObserverIds \ {o} : obs'[p] = obs[p]
    <3> DEFINE x == [obs[o].dropped EXCEPT ![k] = @ + 1]
    <3>1. obs' = [obs EXCEPT ![o] = [obs[o] EXCEPT !.dropped = x]]
      BY <1>3, <1>11 DEF Drop, LeaseInv, ObserversTyped
    <3> HIDE DEF x
    <3>2. /\ obs'[o].queue = q /\ obs'[o].phase = obs[o].phase /\ obs'[o].dropped = x
          /\ \A p \in ObserverIds \ {o} : obs'[p] = obs[p]
      BY <1>3, <3>1 DEF LeaseInv, ObserversTyped, Observers
    <3> QED
      BY <3>2 DEF x
  <2>2. \A p \in ObserverIds, j \in Kinds : Pending(p, j)' = Pending(p, j)
    BY <2>1 DEF Pending
  <2>3. \A p \in ObserverIds : obs'[p].queue = obs[p].queue
    BY <2>1
  <2>4. \A p \in ObserverIds : QueueOK(obs[p])'
    <3> SUFFICES ASSUME NEW p \in ObserverIds PROVE QueueOK(obs[p])'
      OBVIOUS
    <3>1. QueueOK(obs[p]) /\ \A j \in ToSet(obs[p].queue) : j.seq <= n
      BY <1>1, <1>4 DEF LossInv, n
    <3>2. obs'[p].phase # "ready" => obs'[p] = obs[p]
      BY <1>1, <2>1
    <3> QED
      BY <1>1, <2>3, <3>1, <3>2 DEF QueueOK
  <2>5. OwedByCurrent'
    <3> SUFFICES ASSUME NEW p \in ObserverIds, NEW j \in Kinds, p # observer
                 PROVE  owed'[j] \cap Pending(p, j)' = {}
      BY <1>1 DEF OwedByCurrent
    <3>1. owed[j] \cap Pending(p, j) = {}
      BY DEF LossInv, OwedByCurrent
    <3>2. n \notin Pending(p, j)
      BY <1>9 DEF Pending
    <3>3. owed'[j] \subseteq owed[j] \cup {n}
      BY <1>5
    <3> QED
      BY <2>2, <3>1, <3>2, <3>3
  <2>6. CurrentNewest'
    BY <1>1, <1>7, <2>3 DEF LossInv, CurrentNewest, Newest
  <2>7. \A j \in Kinds : Coming(j)' = Coming(j)
    BY <1>7, <2>2 DEF Coming
  <2>8. LostOf(k)' \subseteq LostOf(k) \cup {n}
    BY <1>1, <1>5, <2>7 DEF LostOf
  <2>9. \A j \in Kinds \ {k} : LostOf(j)' = LostOf(j)
    BY <1>1, <1>5, <2>7 DEF LostOf
  <2>10. Reported(k)' = Reported(k) + 1
    <3>1. /\ Reported(k) = rings[k].dropped + obs[o].dropped[k]
          /\ rings[k].dropped \in Nat /\ obs[o].dropped[k] \in Nat
      BY <1>2, ObserverNumbers, ReportedTyped DEF LeaseInv, LossInv
    <3>2. obs'[o].dropped[k] = obs[o].dropped[k] + 1
      BY <1>3, <2>1
    <3>3. Reported(k)' = rings[k].dropped + obs'[o].dropped[k]
      BY <1>1, <1>2, ObserverNumbers DEF Reported
    <3> QED
      BY <3>1, <3>2, <3>3
  <2>11. \A j \in Kinds \ {k} : Reported(j)' = Reported(j)
    BY <1>1, <1>2, <1>3, <2>1 DEF Reported
  <2>12. \A j \in Kinds : Reported(j) \in Nat
    BY ReportedNat DEF LossInv, ReportsTyped
  <2>13. LossIsCounted'
    <3>1. ASSUME NEW j \in Kinds
          PROVE  \/ LostOf(j)' \subseteq LostOf(j) /\ Reported(j) <= Reported(j)'
                 \/ /\ \E g : LostOf(j)' \subseteq LostOf(j) \cup {g}
                    /\ Reported(j) + 1 <= Reported(j)'
      <4>1. CASE j = k
        BY <2>8, <2>10, <2>12, <4>1
      <4>2. CASE j # k
        BY <2>9, <2>11, <2>12, <4>2
      <4> QED
        BY <4>1, <4>2
    <3> QED
      BY <1>6, <3>1, LossMoves
  <2> QED
    BY <1>6, <2>4, <2>5, <2>6, <2>13 DEF LossInv
<1>12. \/ Len(q) < QueueCap /\ obs' = [obs EXCEPT ![o].queue = Append(@, i)]
       \/ obs' = Drop(o, k)
  BY <1>1 DEF Event, n
<1> QED
  BY <1>10, <1>11, <1>12

\* The writer's event moves to its ring, which may push out one and count it; or it cannot
\* be encoded, and is lost and counted if anyone still waits for it.
LEMMA WriteLoss ==
  ASSUME LeaseInv, LossInv, NEW o \in ObserverIds, Write(o), LeaseInv'
  PROVE  LossInv'
<1> DEFINE q == obs[o].queue
<1>1. /\ UNCHANGED <<observer, seq, cursor, owed>> /\ q # <<>>
      /\ q \in Seq(Items) /\ obs[o].dropped \in [Kinds -> Nat] /\ obs[o] \in Observers
      /\ Ordered(q)
  BY QueuedTyped DEF Write, LeaseInv, ObserversTyped, LossInv, QueueOK
<1> PICK i : i = Head(q)
  OBVIOUS
<1> DEFINE k == i.kind
           s == i.seq
<1>2. ToSet(q) = {i} \cup ToSet(Tail(q)) /\ Tail(q) \in Seq(Items) /\ i \in ToSet(q)
  BY <1>1, ToSetTail
<1>3. i \in Items /\ k \in Kinds /\ s \in Seqs /\ s <= seq
  BY <1>2, QueuedTyped DEF LossInv, QueueOK
<1>4. /\ Ordered(Tail(q)) /\ Len(Tail(q)) <= Len(q) /\ Len(Tail(q)) \in Nat /\ Len(q) \in Nat
      /\ \A j \in ToSet(Tail(q)) : s < j.seq
  BY <1>1, <1>2, OrderedTail
<1>5. \/ /\ rings' = [rings EXCEPT ![k] = Pushed(@, s)]
         /\ obs' = [obs EXCEPT ![o].queue = Tail(@)]
      \/ /\ rings' = rings
         /\ obs' = [[obs EXCEPT ![o].queue = Tail(@)] EXCEPT ![o].dropped[k] = @ + 1]
  BY DEF Write, Recorded
<1>6. /\ obs'[o].queue = Tail(q) /\ obs'[o].phase = obs[o].phase
      /\ \A p \in ObserverIds \ {o} : obs'[p] = obs[p]
      /\ \/ /\ rings' = [rings EXCEPT ![k] = Pushed(@, s)]
            /\ obs'[o].dropped = obs[o].dropped
         \/ /\ rings' = rings
            /\ obs'[o].dropped = [obs[o].dropped EXCEPT ![k] = @ + 1]
  <2> DEFINE x == [obs[o] EXCEPT !.queue = Tail(@)]
             e == [obs[o].dropped EXCEPT ![k] = @ + 1]
             y == [obs[o] EXCEPT !.queue = Tail(@), !.dropped = e]
  <2>1. /\ x.queue = Tail(q) /\ x.phase = obs[o].phase /\ x.dropped = obs[o].dropped
        /\ y.queue = Tail(q) /\ y.phase = obs[o].phase /\ y.dropped = e
    <3> HIDE DEF e
    <3> QED
      BY <1>1 DEF Observers
  <2>2. obs \in [ObserverIds -> Observers]
    BY DEF LeaseInv, ObserversTyped
  <2>3. \/ /\ rings' = [rings EXCEPT ![k] = Pushed(@, s)] /\ obs' = [obs EXCEPT ![o] = x]
        \/ /\ rings' = rings /\ obs' = [obs EXCEPT ![o] = y]
    BY <1>1, <1>5, <2>2 DEF Observers
  <2> HIDE DEF x, y
  <2> QED
    BY <2>1, <2>2, <2>3
<1> HIDE DEF k, s
<1>7. PICK n \in Rings : n = Pushed(rings[k], s)
  <2>1. rings[k] \in Rings /\ Len(rings[k].q) <= RingCap
    BY <1>3 DEF LossInv, CountersTyped, KindOK
  <2> QED
    BY <1>3, <2>1, PushedFacts
<1>8. /\ Len(n.q) <= RingCap
      /\ ToSet(n.q) \subseteq InRing(k) \cup {s}
      /\ \/ n.dropped = rings[k].dropped /\ InRing(k) \cup {s} \subseteq ToSet(n.q)
         \/ /\ n.dropped = rings[k].dropped + 1
            /\ \E g : InRing(k) \cup {s} \subseteq ToSet(n.q) \cup {g}
  <2>1. rings[k] \in Rings /\ Len(rings[k].q) <= RingCap
    BY <1>3 DEF LossInv, CountersTyped, KindOK
  <2> QED
    BY <1>3, <1>7, <2>1, PushedFacts DEF InRing
<1>9. rings' = rings \/ rings' = [rings EXCEPT ![k] = n]
  BY <1>6, <1>7
<1>10. /\ rings' \in [Kinds -> Rings] /\ \A j \in Kinds \ {k} : rings'[j] = rings[j]
       /\ InRing(k)' \subseteq InRing(k) \cup {s}
       /\ Len(rings'[k].q) <= RingCap
       /\ \A j \in Kinds \ {k} : InRing(j)' = InRing(j)
  <2>1. rings \in [Kinds -> Rings] /\ Len(rings[k].q) <= RingCap
    BY <1>3 DEF LossInv, CountersTyped, KindOK
  <2>2. CASE rings' = rings
    BY <2>1, <2>2 DEF InRing
  <2>3. CASE rings' = [rings EXCEPT ![k] = n]
    <3>1. rings'[k] = n /\ \A j \in Kinds \ {k} : rings'[j] = rings[j]
      BY <1>3, <2>1, <2>3
    <3> QED
      BY <1>3, <1>8, <2>1, <2>3, <3>1 DEF InRing
  <2> QED
    BY <1>9, <2>2, <2>3
<1>11. CountersTyped'
  BY <1>1, <1>10 DEF LossInv, CountersTyped
<1>12. \A j \in Kinds : KindOK(j)'
  <2> SUFFICES ASSUME NEW j \in Kinds PROVE KindOK(j)'
    OBVIOUS
  <2>1. KindOK(j)
    BY DEF LossInv
  <2>2. s \in 1..seq
    BY <1>3 DEF Seqs
  <2>3. CASE j = k
    BY <1>1, <1>10, <2>1, <2>2, <2>3 DEF KindOK
  <2>4. CASE j # k
    BY <1>1, <1>10, <2>1, <2>4 DEF KindOK
  <2> QED
    BY <2>3, <2>4
<1>13. \A p \in ObserverIds : ToSet(obs'[p].queue) \subseteq ToSet(obs[p].queue)
  BY <1>2, <1>6
<1>14. \A p \in ObserverIds : QueueOK(obs[p])'
  <2>1. QueueOK(obs[o])'
    <3>1. QueueOK(obs[o]) /\ obs[o].phase = "ready" /\ QueueCap \in Nat
      BY <1>1, ObservationAssumption DEF LossInv, QueueOK
    <3>2. Len(obs'[o].queue) <= QueueCap
      BY <1>4, <1>6, <3>1 DEF QueueOK
    <3> QED
      BY <1>1, <1>4, <1>6, <1>13, <3>1, <3>2 DEF QueueOK
  <2>2. \A p \in ObserverIds \ {o} : QueueOK(obs[p])'
    BY <1>1, <1>6 DEF LossInv, QueueOK
  <2> QED
    BY <2>1, <2>2
<1>15. /\ \A p \in ObserverIds, j \in Kinds : Pending(p, j)' \subseteq Pending(p, j)
       /\ \A p \in ObserverIds \ {o}, j \in Kinds : Pending(p, j)' = Pending(p, j)
       /\ \A j \in Kinds \ {k} : Pending(o, j)' = Pending(o, j)
       /\ Pending(o, k)' \cup {s} = Pending(o, k)
  BY <1>2, <1>6, <1>13 DEF Pending, k, s
<1>16. OwedByCurrent'
  BY <1>1, <1>15 DEF LossInv, OwedByCurrent
<1>17. CurrentNewest'
  <2> SUFFICES ASSUME observer \in ObserverIds, NEW j \in ToSet(obs'[observer].queue)
               PROVE  Newest(j)'
    BY <1>1 DEF CurrentNewest
  <2>1. j \in ToSet(obs[observer].queue) /\ Newest(j) /\ j.kind \in Kinds
    BY <1>13, QueuedTyped DEF LossInv, CurrentNewest
  <2>2. s < j.seq
    <3>1. CASE o = observer
      BY <1>4, <1>6, <3>1 DEF s
    <3>2. CASE o # observer
      BY <1>2, <2>1, <3>2 DEF Newest, s
    <3> QED
      BY <3>1, <3>2
  <2>3. \A t \in InRing(j.kind)' : t < j.seq
    <3>1. CASE j.kind = k
      BY <1>10, <2>1, <2>2, <3>1 DEF Newest
    <3>2. CASE j.kind # k
      BY <1>10, <2>1, <3>2 DEF Newest
    <3> QED
      BY <3>1, <3>2
  <2> QED
    BY <1>1, <1>13, <2>1, <2>3 DEF Newest
<1>18. \A j \in Kinds \ {k} : LostOf(j)' = LostOf(j)
  <2>1. \A j \in Kinds \ {k} : Coming(j)' = Coming(j)
    BY <1>10, <1>15 DEF Coming
  <2> QED
    BY <1>1, <2>1 DEF LostOf
<1>19. \A j \in Kinds : Reported(j) \in Nat
  BY ReportedNat DEF LossInv, ReportsTyped
<1>20. \A j \in Kinds \ {k} : Reported(j)' = Reported(j)
  <2>1. \A p \in ObserverIds, j \in Kinds \ {k} : obs'[p].dropped[j] = obs[p].dropped[j]
    BY <1>1, <1>3, <1>6
  <2>2. observer # 0 => observer \in ObserverIds
    BY DEF LeaseInv, OneCurrent, ObserverIds
  <2> QED
    BY <1>1, <1>10, <2>1, <2>2 DEF Reported
<1>21. rings[k].dropped \in Nat
  BY <1>3 DEF LossInv, CountersTyped, Rings
<1>22. \/ LostOf(k)' \subseteq LostOf(k) /\ Reported(k) <= Reported(k)'
       \/ /\ \E g : LostOf(k)' \subseteq LostOf(k) \cup {g}
          /\ Reported(k) + 1 <= Reported(k)'
  <2>1. observer # 0 => observer \in ObserverIds
    BY DEF LeaseInv, OneCurrent, ObserverIds
  <2>2. CASE rings' = [rings EXCEPT ![k] = n] /\ obs'[o].dropped = obs[o].dropped
    <3>1. rings'[k] = n /\ InRing(k)' = ToSet(n.q)
      BY <1>3, <2>2 DEF InRing, LossInv, CountersTyped
    <3>2. \A p \in ObserverIds : obs'[p].dropped = obs[p].dropped
      BY <1>6, <2>2
    <3>3. CASE n.dropped = rings[k].dropped /\ InRing(k) \cup {s} \subseteq ToSet(n.q)
      <4>1. Coming(k) \subseteq Coming(k)'
        BY <1>3, <1>15, <3>1, <3>3 DEF Coming
      <4>2. LostOf(k)' \subseteq LostOf(k)
        BY <1>1, <4>1 DEF LostOf
      <4>3. Reported(k)' = Reported(k)
        BY <1>1, <2>1, <3>1, <3>2, <3>3 DEF Reported
      <4> QED
        BY <1>3, <1>19, <4>2, <4>3
    <3>4. CASE /\ n.dropped = rings[k].dropped + 1
               /\ \E g : InRing(k) \cup {s} \subseteq ToSet(n.q) \cup {g}
      <4>1. PICK g : InRing(k) \cup {s} \subseteq ToSet(n.q) \cup {g}
        BY <3>4
      <4>2. Coming(k) \subseteq Coming(k)' \cup {g}
        BY <1>3, <1>15, <3>1, <4>1 DEF Coming
      <4>3. LostOf(k)' \subseteq LostOf(k) \cup {g}
        BY <1>1, <4>2 DEF LostOf
      <4>4. CASE observer = 0
        <5>1. Reported(k) = rings[k].dropped
          BY <1>3, <4>4, ReportedTyped DEF LeaseInv, LossInv
        <5>2. n.dropped \in Nat /\ Reported(k)' = n.dropped
          BY <1>1, <1>21, <3>1, <3>4, <4>4 DEF Reported
        <5> QED
          BY <1>21, <3>4, <4>3, <5>1, <5>2
      <4>5. CASE observer # 0
        <5>1. /\ Reported(k) = rings[k].dropped + obs[observer].dropped[k]
              /\ obs[observer].dropped[k] \in Nat
          BY <1>3, <4>5, ReportedTyped DEF LeaseInv, LossInv
        <5>2. Reported(k)' = n.dropped + obs[observer].dropped[k]
          BY <1>1, <2>1, <3>1, <3>2, <4>5 DEF Reported
        <5> QED
          BY <1>21, <3>4, <4>3, <5>1, <5>2
      <4> QED
        BY <4>4, <4>5
    <3> QED
      BY <1>8, <3>3, <3>4
  <2>3. CASE rings' = rings /\ obs'[o].dropped = [obs[o].dropped EXCEPT ![k] = @ + 1]
    <3>1. obs'[o].dropped[k] = obs[o].dropped[k] + 1 /\ obs[o].dropped[k] \in Nat
      BY <1>1, <1>3, <2>3
    <3>2. Coming(k) \subseteq Coming(k)' \cup {s}
      BY <1>3, <1>15, <2>3 DEF Coming, InRing
    <3>3. LostOf(k)' \subseteq LostOf(k) \cup {s}
      BY <1>1, <3>2 DEF LostOf
    <3>4. CASE o = observer
      <4>1. Reported(k) = rings[k].dropped + obs[o].dropped[k]
        BY <1>3, <3>4, ObserverNumbers, ReportedTyped DEF LeaseInv, LossInv
      <4>2. Reported(k)' = rings[k].dropped + obs'[o].dropped[k]
        BY <1>1, <2>3, <3>4, ObserverNumbers DEF Reported
      <4> QED
        BY <1>21, <3>1, <3>3, <4>1, <4>2
    <3>5. CASE o # observer
      <4>1. s \notin owed[k]
        BY <1>3, <1>15, <3>5 DEF LossInv, OwedByCurrent
      <4>2. LostOf(k)' \subseteq LostOf(k)
        BY <1>1, <3>3, <4>1 DEF LostOf
      <4>3. Reported(k)' = Reported(k)
        BY <1>1, <1>6, <2>1, <2>3, <3>5 DEF Reported
      <4> QED
        BY <1>3, <1>19, <4>2, <4>3
    <3> QED
      BY <3>4, <3>5
  <2> QED
    BY <1>6, <1>7, <2>2, <2>3
<1>23. LossIsCounted'
  <2>1. ASSUME NEW j \in Kinds
        PROVE  \/ LostOf(j)' \subseteq LostOf(j) /\ Reported(j) <= Reported(j)'
               \/ /\ \E g : LostOf(j)' \subseteq LostOf(j) \cup {g}
                  /\ Reported(j) + 1 <= Reported(j)'
    <3>1. CASE j = k
      BY <1>22, <3>1
    <3>2. CASE j # k
      BY <1>18, <1>19, <1>20, <3>2
    <3> QED
      BY <3>1, <3>2
  <2> QED
    BY <1>11, <2>1, LossMoves
<1> QED
  BY <1>11, <1>12, <1>14, <1>16, <1>17, <1>23 DEF LossInv

-----------------------------------------------------------------------------
(***************************************************************************)
(* All steps together.                                                     *)
(***************************************************************************)
\* The fields of an observer that steps on its lease leave alone.
EventsKept ==
    \A p \in ObserverIds : /\ obs'[p].queue = obs[p].queue
                           /\ obs'[p].dropped = obs[p].dropped
                           /\ obs[p].phase = "ready" => obs'[p].phase = "ready"

LEMMA ChangedKept ==
  ASSUME ObserversTyped, NEW o \in ObserverIds, NEW x, obs' = [obs EXCEPT ![o] = x],
         x.queue = obs[o].queue, x.dropped = obs[o].dropped,
         obs[o].phase = "ready" => x.phase = "ready"
  PROVE  EventsKept
BY DEF ObserversTyped, EventsKept

LEMMA LeaseStepsKeep ==
  ASSUME LeaseInv,
         \/ Awaited \/ DisableUntilLeased \/ Activate \/ Leased \/ Elsewhere
         \/ \E o \in ObserverIds :
               \/ Sweep(o) \/ Swept(o) \/ WatchObserver(o)
               \/ \E k \in Kinds : LeaseExpires(o, k)
  PROVE  EventsKept /\ UNCHANGED <<rings, seq, cursor, owed, observer>>
<1>1. obs \in [ObserverIds -> Observers]
  BY DEF LeaseInv, ObserversTyped
<1>2. query.pc \in {"disable", "lease", "leased"} =>
          query.obs \in ObserverIds /\ obs[query.obs] \in Observers
  BY <1>1 DEF LeaseInv, QueryOK
<1>3. ASSUME obs' = obs PROVE EventsKept
  BY <1>3 DEF EventsKept
<1>4. ASSUME Awaited \/ Elsewhere
      PROVE  EventsKept /\ UNCHANGED <<rings, seq, cursor, owed, observer>>
  BY <1>3, <1>4 DEF Awaited, Elsewhere, observationVars
<1>5. ASSUME DisableUntilLeased
      PROVE  EventsKept /\ UNCHANGED <<rings, seq, cursor, owed, observer>>
  <2> DEFINE o == query.obs
             r == obs[o]
             x(off) == [r EXCEPT !.domains = @ \ off]
             y == [r EXCEPT !.domains = {}, !.disabled = TRUE]
  <2>1. o \in ObserverIds /\ r \in Observers
    BY <1>2, <1>5 DEF DisableUntilLeased
  <2>2. \A off : x(off).queue = r.queue /\ x(off).dropped = r.dropped /\ x(off).phase = r.phase
    BY <2>1 DEF Observers
  <2>3. y.queue = r.queue /\ y.dropped = r.dropped /\ y.phase = r.phase
    BY <2>1 DEF Observers
  <2>4. \/ obs' = obs \/ obs' = [obs EXCEPT ![o] = y]
        \/ \E off : obs' = [obs EXCEPT ![o] = x(off)]
    BY <1>1, <1>5, <2>1 DEF DisableUntilLeased
  <2> HIDE DEF x, y
  <2>5. EventsKept
    BY <1>3, <2>1, <2>2, <2>3, <2>4, ChangedKept DEF LeaseInv
  <2> QED
    BY <1>5, <2>5 DEF DisableUntilLeased
<1>6. ASSUME Activate
      PROVE  EventsKept /\ UNCHANGED <<rings, seq, cursor, owed, observer>>
  <2> DEFINE o == query.obs
             r == obs[o]
             x(d) == [r EXCEPT !.mu = "rpc", !.listens = TRUE, !.domains = d]
             y(d) == [r EXCEPT !.listens = TRUE, !.domains = d]
  <2>1. o \in ObserverIds /\ r \in Observers
    BY <1>2, <1>6 DEF Activate
  <2>2. \A d : /\ x(d).queue = r.queue /\ x(d).dropped = r.dropped /\ x(d).phase = r.phase
               /\ y(d).queue = r.queue /\ y(d).dropped = r.dropped /\ y(d).phase = r.phase
    BY <2>1 DEF Observers
  <2>3. \/ obs' = [obs EXCEPT ![o] = x(r.domains \cup ToEnable(o, query.kind))]
        \/ \E on : obs' = [obs EXCEPT ![o] =
                               y(IF Commands(o) THEN r.domains \cup on ELSE r.domains)]
    BY <1>1, <1>6, <2>1 DEF Activate
  <2>4. \E d : obs' = [obs EXCEPT ![o] = x(d)] \/ obs' = [obs EXCEPT ![o] = y(d)]
    BY <2>3
  <2> HIDE DEF x, y
  <2>5. EventsKept
    BY <2>1, <2>2, <2>4, ChangedKept DEF LeaseInv
  <2> QED
    BY <1>6, <2>5 DEF Activate
<1>7. ASSUME Leased
      PROVE  EventsKept /\ UNCHANGED <<rings, seq, cursor, owed, observer>>
  <2> DEFINE o == query.obs
             r == obs[o]
             x == [r EXCEPT !.mu = "free", !.active = @ \cup {query.kind},
                            !.fresh = @ \cup {query.kind}]
  <2>1. o \in ObserverIds /\ r \in Observers
    BY <1>2, <1>7 DEF Leased
  <2>2. x.queue = r.queue /\ x.dropped = r.dropped /\ x.phase = r.phase
    BY <2>1 DEF Observers
  <2>3. obs' = [obs EXCEPT ![o] = x]
    BY <1>1, <1>7, <2>1 DEF Leased
  <2> HIDE DEF x
  <2>4. EventsKept
    BY <2>1, <2>2, <2>3, ChangedKept DEF LeaseInv
  <2> QED
    BY <1>7, <2>4 DEF Leased
<1>8. ASSUME NEW o \in ObserverIds, Sweep(o)
      PROVE  EventsKept /\ UNCHANGED <<rings, seq, cursor, owed, observer>>
  <2> DEFINE r == obs[o]
             x(d) == [r EXCEPT !.mu = "sweeper", !.remaining = r.active \cap r.fresh,
                               !.domains = d]
  <2>1. r \in Observers
    BY <1>1
  <2>2. \A d : x(d).queue = r.queue /\ x(d).dropped = r.dropped /\ x(d).phase = r.phase
    BY <2>1 DEF Observers
  <2>3. \E off : obs' = [obs EXCEPT ![o] =
                             x(IF Commands(o) THEN r.domains \ off ELSE r.domains)]
    BY <1>1, <1>8, <2>1 DEF Sweep
  <2>4. \E d : obs' = [obs EXCEPT ![o] = x(d)]
    BY <2>3
  <2> HIDE DEF x
  <2>5. EventsKept
    BY <2>1, <2>2, <2>4, ChangedKept DEF LeaseInv
  <2> QED
    BY <1>8, <2>5 DEF Sweep
<1>9. ASSUME NEW o \in ObserverIds, Swept(o)
      PROVE  EventsKept /\ UNCHANGED <<rings, seq, cursor, owed, observer>>
  <2> DEFINE r == obs[o]
             l == r.listens /\ r.remaining # {}
             x == [r EXCEPT !.mu = "free", !.active = r.remaining, !.remaining = {},
                            !.listens = l]
  <2>1. r \in Observers
    BY <1>1
  <2>2. obs' = [obs EXCEPT ![o] = x]
    BY <1>1, <1>9, <2>1 DEF Swept
  <2> HIDE DEF l
  <2>3. x.queue = r.queue /\ x.dropped = r.dropped /\ x.phase = r.phase
    BY <2>1 DEF Observers
  <2> HIDE DEF x
  <2>4. EventsKept
    BY <2>1, <2>2, <2>3, ChangedKept DEF LeaseInv
  <2> QED
    BY <1>9, <2>4 DEF Swept
<1>10. ASSUME NEW o \in ObserverIds, WatchObserver(o)
       PROVE  EventsKept /\ UNCHANGED <<rings, seq, cursor, owed, observer>>
  <2> DEFINE x == [obs[o] EXCEPT !.watched = TRUE]
  <2>1. x.queue = obs[o].queue /\ x.dropped = obs[o].dropped /\ x.phase = obs[o].phase
    BY <1>1 DEF Observers
  <2>2. obs' = [obs EXCEPT ![o] = x]
    BY <1>1, <1>10 DEF WatchObserver
  <2> HIDE DEF x
  <2>3. EventsKept
    BY <2>1, <2>2, ChangedKept DEF LeaseInv
  <2> QED
    BY <1>10, <2>3 DEF WatchObserver
<1>11. ASSUME NEW o \in ObserverIds, NEW k \in Kinds, LeaseExpires(o, k)
       PROVE  EventsKept /\ UNCHANGED <<rings, seq, cursor, owed, observer>>
  <2> DEFINE x == [obs[o] EXCEPT !.fresh = @ \ {k}]
  <2>1. x.queue = obs[o].queue /\ x.dropped = obs[o].dropped /\ x.phase = obs[o].phase
    BY <1>1 DEF Observers
  <2>2. obs' = [obs EXCEPT ![o] = x]
    BY <1>1, <1>11 DEF LeaseExpires
  <2> HIDE DEF x
  <2>3. EventsKept
    BY <2>1, <2>2, ChangedKept DEF LeaseInv
  <2> QED
    BY <1>11, <2>3 DEF LeaseExpires
<1> QED
  BY <1>4, <1>5, <1>6, <1>7, <1>8, <1>9, <1>10, <1>11

\* A new observer has queued and dropped nothing, and neither has one whose attach fails.
LEMMA AttachKeeps ==
  ASSUME LeaseInv, LossInv,
         (\E k \in Kinds : Ensure(k)) \/ (\E o \in ObserverIds : Attached(o))
  PROVE  /\ EventsKept /\ UNCHANGED <<rings, seq, cursor, owed>>
         /\ \/ observer' = observer
            \/ \A o \in ObserverIds : o \in {observer, observer'} => obs[o].phase # "ready"
<1>1. obs \in [ObserverIds -> Observers]
  BY DEF LeaseInv, ObserversTyped
<1>2. ASSUME NEW k \in Kinds, Ensure(k), observer' # observer
      PROVE  /\ EventsKept
             /\ \A o \in ObserverIds : o \in {observer, observer'} => obs[o].phase # "ready"
  <2>1. PICK o \in ObserverIds : /\ observer = 0 /\ observer' = o /\ Free(o)
                                 /\ obs' = [obs EXCEPT ![o] =
                                                [NoObserver EXCEPT !.phase = "attaching"]]
    BY <1>2 DEF Ensure
  <2>2. obs[o].phase # "ready"
    BY <2>1 DEF Free
  <2>3. obs[o].queue = <<>> /\ obs[o].dropped = NoDrops
    BY <2>2, IdleObserver
  <2> DEFINE x == [NoObserver EXCEPT !.phase = "attaching"]
  <2>4. x.queue = <<>> /\ x.dropped = NoDrops
    BY DEF NoObserver, NoDrops
  <2> HIDE DEF x
  <2>5. EventsKept
    BY <2>1, <2>2, <2>3, <2>4, ChangedKept DEF LeaseInv, x
  <2> QED
    BY <2>1, <2>2, <2>5, ObserverNumbers
<1>3. ASSUME NEW k \in Kinds, Ensure(k), observer' = observer
      PROVE  EventsKept
  <2>1. obs' = obs
    BY <1>3, ObserverNumbers DEF Ensure
  <2> QED
    BY <2>1 DEF EventsKept
<1>4. ASSUME NEW o \in ObserverIds, Attached(o)
      PROVE  /\ EventsKept
             /\ observer' = observer \/ (observer = o /\ observer' = 0)
             /\ obs[o].phase # "ready"
  <2> DEFINE x == [obs[o] EXCEPT !.phase = "ready", !.domains = Domains]
             y == [obs[o] EXCEPT !.phase = "failed"]
  <2>1. /\ x.queue = obs[o].queue /\ x.dropped = obs[o].dropped
        /\ y.queue = obs[o].queue /\ y.dropped = obs[o].dropped
    BY <1>1 DEF Observers
  <2>2. obs[o].phase # "ready"
    BY <1>4 DEF Attached
  <2>3. obs' = [obs EXCEPT ![o] = x] \/ obs' = [obs EXCEPT ![o] = y]
    BY <1>1, <1>4 DEF Attached
  <2> HIDE DEF x, y
  <2>4. EventsKept
    BY <2>1, <2>2, <2>3, ChangedKept DEF LeaseInv
  <2> QED
    BY <1>4, <2>2, <2>4 DEF Attached
<1> QED
  BY <1>2, <1>3, <1>4, ObserverNumbers DEF Ensure, Attached

\* Every step keeps count.
LEMMA LossStep ==
  ASSUME LeaseInv, LossInv, LeaseInv', ObservationMove
  PROVE  LossInv'
<1>1. ASSUME EventsKept, UNCHANGED <<rings, seq, cursor, owed>>,
             \/ observer' = observer
             \/ \A o \in ObserverIds : o \in {observer, observer'} => obs[o].phase # "ready"
      PROVE  LossInv'
  BY <1>1, QuietLoss DEF EventsKept
<1>2. ASSUME \/ Awaited \/ DisableUntilLeased \/ Activate \/ Leased \/ Elsewhere
             \/ \E o \in ObserverIds :
                   \/ Sweep(o) \/ Swept(o) \/ WatchObserver(o)
                   \/ \E k \in Kinds : LeaseExpires(o, k)
      PROVE  LossInv'
  BY <1>1, <1>2, LeaseStepsKeep
<1>3. ASSUME (\E k \in Kinds : Ensure(k)) \/ (\E o \in ObserverIds : Attached(o))
      PROVE  LossInv'
  BY <1>1, <1>3, AttachKeeps
<1>4. ASSUME QueryStep PROVE LossInv'
  BY <1>2, <1>3, <1>4, ReadLoss, ClearLoss DEF QueryStep
<1>5. ASSUME NEW o \in ObserverIds, ObserverStep(o) PROVE LossInv'
  BY <1>2, <1>3, <1>5, WriteLoss DEF ObserverStep, Sweeper
<1>6. ASSUME NEW o \in ObserverIds, ObserverHears(o) PROVE LossInv'
  BY <1>6, EventLoss DEF ObserverHears
<1> QED
  BY <1>2, <1>4, <1>5, <1>6, ForgetLoss, ClearTargetLoss DEF ObservationMove

LEMMA LossStart ==
  ASSUME ObservationInit
  PROVE  LossInv
<1>1. MaxSeq \in Nat /\ QueueCap \in Nat /\ RingCap \in Nat
  BY ObservationAssumption
<1>2. \A o \in ObserverIds : obs[o].queue = <<>> /\ obs[o].dropped = NoDrops
  BY DEF ObservationInit, NoObserver, NoDrops
<1>3. \A o \in ObserverIds : ToSet(obs[o].queue) = {}
  BY <1>2, ToSetEmpty
<1>4. \A k \in Kinds : InRing(k) = {}
  BY NoRingsTyped DEF ObservationInit, InRing
<1>5. CountersTyped
  BY <1>1, NoRingsTyped DEF ObservationInit, CountersTyped
<1>6. \A k \in Kinds : KindOK(k)
  BY <1>4, NoRingsTyped DEF ObservationInit, KindOK
<1>7. Len(<<>>) <= QueueCap /\ Ordered(<<>>)
  BY <1>1 DEF Ordered
<1>8. \A o \in ObserverIds : QueueOK(obs[o])
  BY <1>2, <1>3, <1>7 DEF QueueOK
<1>9. OwedByCurrent
  BY DEF ObservationInit, OwedByCurrent
<1>10. CurrentNewest
  BY <1>3 DEF CurrentNewest
<1>11. LossIsCounted
  <2>1. \A k \in Kinds : LostOf(k) = {}
    BY DEF ObservationInit, LostOf
  <2>2. LeaseInv
    BY LeaseStart
  <2>3. \A k \in Kinds : Reported(k) \in Nat
    BY <1>5, <2>2, ReportedNat DEF ReportsTyped
  <2>4. \A k \in Kinds : Cardinality(LostOf(k)) <= Reported(k)
    BY <2>1, <2>3, FS_EmptySet
  <2> QED
    BY <2>4, LossIs
<1> QED
  BY <1>5, <1>6, <1>8, <1>9, <1>10, <1>11 DEF LossInv

LEMMA ObservationTyped ==
  ASSUME LeaseInv, LossInv
  PROVE  ObservationTypeOK
<1>1. ASSUME NEW o \in ObserverIds
      PROVE  /\ obs[o].phase \in {"unused", "attaching", "ready", "failed"}
             /\ obs[o].domains \subseteq Domains
             /\ obs[o].mu \in {"free", "rpc", "sweeper"}
             /\ obs[o].fresh \subseteq obs[o].active /\ obs[o].active \subseteq Kinds
             /\ Len(obs[o].queue) <= QueueCap
  <2>1. obs[o] \in Observers /\ LeaseOK(obs[o], Commands(o)) /\ QueueOK(obs[o])
    BY DEF LeaseInv, ObserversTyped, LeasesOK, LossInv
  <2>2. obs[o].fresh \subseteq obs[o].active /\ Len(obs[o].queue) <= QueueCap
    BY <2>1 DEF LeaseOK, QueueOK
  <2> QED
    BY <2>1, <2>2 DEF Observers
<1>2. ASSUME NEW k \in Kinds
      PROVE  /\ Len(rings[k].q) <= RingCap /\ InRing(k) \subseteq Seqs
             /\ cursor[k] \in 0..seq /\ owed[k] \subseteq 1..seq
  <2>1. /\ KindOK(k) /\ cursor[k] \in Nat /\ seq \in 0..MaxSeq /\ MaxSeq \in Nat
    BY ObservationAssumption DEF LossInv, CountersTyped
  <2> QED
    BY <2>1 DEF KindOK, Seqs
<1>3. query.pc \in {"rest", "wait", "disable", "lease", "leased", "read"}
  BY DEF LeaseInv, QueryOK, Queries
<1> QED
  BY <1>1, <1>2, <1>3 DEF ObservationTypeOK, LeaseInv, OneCurrent
=============================================================================
