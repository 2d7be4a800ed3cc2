----------------------------- MODULE Observation -----------------------------
(***************************************************************************)
(* The observation of one target: leased domains, the bounded queue and    *)
(* its writer (internal/browser/observer.go), the rings the writer fills   *)
(* (internal/state/obs_store.go, ringbuf.go), and the RPCs that renew a    *)
(* lease and read a ring from a cursor on (internal/daemon).               *)
(*                                                                         *)
(* Time is abstracted: a lease is fresh or expired.  Events are told apart *)
(* by their sequence numbers only.  One RPC runs at a time, under the lock *)
(* of the tab.                                                             *)
(***************************************************************************)
EXTENDS Target, Naturals, Sequences, FiniteSets, SequencesExt

CONSTANTS
    Kinds,        \* the kinds that are asked for: "network", "console", "errors"
    QueueCap,     \* observationQueueCapacity (1024)
    RingCap,      \* capacity of a ring (500, 200, 100)
    MaxSeq,       \* bound on the events that are sequenced
    MaxObservers  \* bound on the observers that are created

ASSUME ObservationAssumption ==
    /\ Kinds \subseteq {"network", "console", "errors"}
    /\ QueueCap \in Nat \ {0}
    /\ RingCap \in Nat \ {0}
    /\ MaxSeq \in Nat
    /\ MaxObservers \in Nat \ {0}

VARIABLES
    observer, \* Session.observers[target], 0 for none
    obs,      \* the tabObservers ever created
    rings,    \* TabObsStore.targets[target]: a ring for each kind
    seq,      \* the last sequence number the store gave out
    query,    \* the observation RPC: its position and local variables
    cursor,   \* the client's cursor for each kind
    owed      \* events accepted and neither received nor wiped (a history variable)

observationVars == <<observer, obs, rings, seq, query, cursor, owed>>

Seqs == 1..MaxSeq
ObserverIds == 1..MaxObservers
\* console and errors share the runtime domain.
Needs(k) == CASE k = "network" -> {"network"}
              [] k = "console" -> {"runtime"}
              [] k = "errors" -> {"runtime", "log"}
NeededBy(ks) == UNION {Needs(k) : k \in ks}
Domains == NeededBy(Kinds)

\* An observer: whether it is attached; whether ForgetTarget cancelled its context,
\* and whether the watcher of that has run; the domains its CDP session has on, and
\* whether they were turned off once; who holds its mutex; the kinds that are leased
\* (active), those with a fresh lease (lastTouch), those a sweep will leave; whether
\* the listener is on; the queue and the drop counts.
NoObserver == [phase |-> "unused", cancelled |-> FALSE, watched |-> FALSE,
               domains |-> {}, disabled |-> FALSE, mu |-> "free",
               active |-> {}, fresh |-> {}, remaining |-> {}, listens |-> FALSE,
               queue |-> <<>>,
               dropped |-> [k \in Kinds |-> 0]]
EmptyRing == [q |-> <<>>, dropped |-> 0]
NoRings == [k \in Kinds |-> EmptyRing]
NoQuery == [pc |-> "rest", kind |-> "none", obs |-> 0]

\* Commands in the context of observer o can succeed.
Commands(o) == Reachable /\ ~obs[o].cancelled
Goes(pc) == query' = [query EXCEPT !.pc = pc]
Drop(o, k) == [obs EXCEPT ![o].dropped[k] = @ + 1]

\* Accepted events of kind k on their way from observer o to a ring.
Pending(o, k) ==
    {i.seq : i \in {j \in ToSet(obs[o].queue) : j.kind = k}}
InRing(k) == ToSet(rings[k].q)

-----------------------------------------------------------------------------
(***************************************************************************)
(* EnsureObservation: find or attach the observer.                         *)
(***************************************************************************)
\* The place of a failed observer, which nobody refers to, is used again.
Free(o) == obs[o].phase = "unused" \/ (obs[o].phase = "failed" /\ ~obs[o].cancelled)

Ensure(k) ==
    /\ query.pc = "rest"
    /\ \/ observer # 0 /\ UNCHANGED <<observer, obs>>
       \/ /\ observer = 0
          /\ observer' \in {o \in ObserverIds : Free(o) /\ \A p \in 1..(o - 1) : ~Free(p)}
          /\ obs' = [obs EXCEPT ![observer'] = [NoObserver EXCEPT !.phase = "attaching"]]
    /\ query' = [pc |-> "wait", kind |-> k, obs |-> observer']
    /\ UNCHANGED <<targetVars, rings, seq, cursor, owed>>

\* initializeObserver: chromedp turns the domains on; the writer starts.  An attach
\* that fails takes the observer out of the map and releases it, the tab untouched.
Attached(o) ==
    /\ obs[o].phase = "attaching"
    /\ \/ /\ Commands(o)
          /\ obs' = [obs EXCEPT ![o].phase = "ready", ![o].domains = Domains]
          /\ UNCHANGED observer
       \/ /\ obs' = [obs EXCEPT ![o].phase = "failed"]
          /\ observer' = IF observer = o THEN 0 ELSE observer
    /\ UNCHANGED <<targetVars, rings, seq, query, cursor, owed>>

\* ready is closed; or the request's context ends.
Awaited ==
    /\ query.pc = "wait"
    /\ \/ obs[query.obs].phase = "ready" /\ Goes("disable")
       \/ query' = NoQuery
    /\ UNCHANGED <<targetVars, observer, obs, rings, seq, cursor, owed>>

\* disableUntilLeased: what chromedp turned on is turned off, once.
DisableUntilLeased ==
    /\ query.pc = "disable"
    /\ obs[query.obs].mu = "free"
    /\ \/ /\ obs[query.obs].disabled
          /\ Goes("lease")
          /\ UNCHANGED obs
       \/ /\ ~obs[query.obs].disabled /\ Commands(query.obs)
          /\ obs' = [obs EXCEPT ![query.obs].domains = {}, ![query.obs].disabled = TRUE]
          /\ Goes("lease")
       \/ /\ ~obs[query.obs].disabled
          /\ \E off \in SUBSET Domains : obs' = [obs EXCEPT ![query.obs].domains = @ \ off]
          /\ query' = NoQuery
    /\ UNCHANGED <<targetVars, observer, rings, seq, cursor, owed>>

-----------------------------------------------------------------------------
(***************************************************************************)
(* activate: listen, turn on what the kind needs and nobody leases yet,    *)
(* then record the lease.  The mutex is held across the commands, events   *)
(* come meanwhile.  Commands that fail may have run in part (any part:     *)
(* coarser than the order they are sent in).                               *)
(***************************************************************************)
\* Planted bug: a lease of any kind stands for the domains of all.
ToEnableFirst(o, k) == IF obs[o].active = {} THEN Needs(k) ELSE {}
ToEnable(o, k) == Needs(k) \ NeededBy(obs[o].active)

\* Planted bug: the mutex stays locked when the commands fail.
ActivateHolding ==
    LET o == query.obs IN
    /\ query.pc = "lease"
    /\ obs[o].mu = "free"
    /\ \/ /\ ToEnable(o, query.kind) = {} \/ Commands(o)
          /\ obs' = [obs EXCEPT ![o].mu = "rpc", ![o].listens = TRUE,
                                ![o].domains = @ \cup ToEnable(o, query.kind)]
          /\ Goes("leased")
       \/ /\ ToEnable(o, query.kind) # {}
          /\ \E on \in SUBSET ToEnable(o, query.kind) :
                 obs' = [obs EXCEPT ![o].mu = "rpc", ![o].listens = TRUE,
                                    ![o].domains = IF Commands(o) THEN @ \cup on ELSE @]
          /\ query' = NoQuery
    /\ UNCHANGED <<targetVars, observer, rings, seq, cursor, owed>>
Activate ==
    LET o == query.obs IN
    /\ query.pc = "lease"
    /\ obs[o].mu = "free"
    /\ \/ /\ ToEnable(o, query.kind) = {} \/ Commands(o)
          /\ obs' = [obs EXCEPT ![o].mu = "rpc", ![o].listens = TRUE,
                                ![o].domains = @ \cup ToEnable(o, query.kind)]
          /\ Goes("leased")
       \/ /\ ToEnable(o, query.kind) # {}
          /\ \E on \in SUBSET ToEnable(o, query.kind) :
                 obs' = [obs EXCEPT ![o].listens = TRUE,
                                    ![o].domains = IF Commands(o) THEN @ \cup on ELSE @]
          /\ query' = NoQuery
    /\ UNCHANGED <<targetVars, observer, rings, seq, cursor, owed>>

Leased ==
    LET o == query.obs IN
    /\ query.pc = "leased"
    /\ obs' = [obs EXCEPT ![o].mu = "free", ![o].active = @ \cup {query.kind},
                          ![o].fresh = @ \cup {query.kind}]
    /\ Goes("read")
    /\ UNCHANGED <<targetVars, observer, rings, seq, cursor, owed>>

-----------------------------------------------------------------------------
(***************************************************************************)
(* The reply, and the clear RPCs.                                          *)
(***************************************************************************)
\* RingBuffer.QuerySince: what is newer than the cursor, and the next cursor.
Newer(k) == {s \in InRing(k) : s > cursor[k]}
\* Planted bug: the cursor is what the listener has seen (ObservationStats.Cursor).
NextCursorSeen(k) == IF seq > cursor[k] THEN seq ELSE cursor[k]
NextCursor(k) == Max(InRing(k) \cup {cursor[k]})
\* What the client is told of losses: the ring's count and the observer's.
Reported(k) == rings[k].dropped + (IF observer = 0 THEN 0 ELSE obs[observer].dropped[k])

Read ==
    LET k == query.kind IN
    /\ query.pc = "read"
    /\ owed' = [owed EXCEPT ![k] = @ \ Newer(k)]
    /\ cursor' = [cursor EXCEPT ![k] = NextCursor(k)]
    /\ query' = NoQuery
    /\ UNCHANGED <<targetVars, observer, obs, rings, seq>>

\* network_clear, console_clear and errors_clear empty the ring; what is still
\* pending comes after the clear.
Clear(k) ==
    /\ query.pc = "rest"
    /\ rings' = [rings EXCEPT ![k] = EmptyRing]
    /\ owed' = [owed EXCEPT ![k] = @ \cap UNION {Pending(o, k) : o \in ObserverIds}]
    /\ UNCHANGED <<targetVars, observer, obs, seq, query, cursor>>

-----------------------------------------------------------------------------
(***************************************************************************)
(* The listener and the writer.                                            *)
(***************************************************************************)
\* obsSink.NextSeq, while the store is open.
NextSeq == seq < MaxSeq /\ seq' = seq + 1

\* An event of kind k that comes with domain d.  It is sequenced and queued, or
\* counted as dropped.
\* Planted bug: an event that finds the queue full is not counted.
EventUncounted(o, k, d) ==
    /\ Reachable
    /\ obs[o].phase = "ready" /\ ~obs[o].cancelled
    /\ obs[o].listens /\ d \in obs[o].domains /\ k \in obs[o].active
    /\ NextSeq
    /\ owed' = [owed EXCEPT ![k] = @ \cup {seq'}]
    /\ obs' = IF Len(obs[o].queue) < QueueCap
              THEN [obs EXCEPT ![o].queue = Append(@, [kind |-> k, seq |-> seq'])] ELSE obs
    /\ UNCHANGED <<targetVars, observer, rings, query, cursor>>
Event(o, k, d) ==
    /\ Reachable
    /\ obs[o].phase = "ready" /\ ~obs[o].cancelled
    /\ obs[o].listens /\ d \in obs[o].domains /\ k \in obs[o].active
    /\ NextSeq
    /\ owed' = [owed EXCEPT ![k] = @ \cup {seq'}]
    /\ obs' = IF Len(obs[o].queue) < QueueCap
              THEN [obs EXCEPT ![o].queue = Append(@, [kind |-> k, seq |-> seq'])]
              ELSE Drop(o, k)
    /\ UNCHANGED <<targetVars, observer, rings, query, cursor>>

\* RingBuffer.Push drops the oldest entry of a full ring.
\* Planted bug: it drops after the capacity is exceeded.
PushedUnbounded(ring, s) ==
    IF Len(ring.q) <= RingCap
    THEN [ring EXCEPT !.q = Append(@, s)]
    ELSE [q |-> Append(Tail(ring.q), s), dropped |-> ring.dropped + 1]
Pushed(ring, s) ==
    IF Len(ring.q) < RingCap
    THEN [ring EXCEPT !.q = Append(@, s)]
    ELSE [q |-> Append(Tail(ring.q), s), dropped |-> ring.dropped + 1]

\* obsSink.Record*, TabObsStore.Push*: into the ring of its kind.
Recorded(k, s) == rings' = [rings EXCEPT ![k] = Pushed(@, s)]

\* runWriter.  The event in the writer's hand counts as the head of the queue.  A
\* payload that cannot be encoded is counted as dropped.  When the context is
\* cancelled the writer ends, sooner or later: select picks any ready case.
Write(o) ==
    /\ obs[o].queue # <<>>
    /\ LET i == Head(obs[o].queue)
           popped == [obs EXCEPT ![o].queue = Tail(@)]
       IN  \/ /\ Recorded(i.kind, i.seq)
              /\ obs' = popped
           \/ /\ obs' = [popped EXCEPT ![o].dropped[i.kind] = @ + 1]
              /\ UNCHANGED rings
    /\ UNCHANGED <<targetVars, observer, seq, query, cursor, owed>>

-----------------------------------------------------------------------------
(***************************************************************************)
(* SweepObservers: expire.                                                 *)
(***************************************************************************)
LeaseExpires(o, k) ==
    /\ k \in obs[o].fresh
    /\ obs' = [obs EXCEPT ![o].fresh = @ \ {k}]
    /\ UNCHANGED <<targetVars, observer, rings, seq, query, cursor, owed>>

\* Planted bug: the domains of every expired kind are turned off.
ToDisableShared(o) == NeededBy(obs[o].active \ obs[o].fresh)
\* The domains no remaining kind needs.
ToDisable(o) == NeededBy(obs[o].active) \ NeededBy(obs[o].active \cap obs[o].fresh)

\* Errors of the commands are ignored.
Sweep(o) ==
    /\ obs[o].mu = "free"
    /\ ~(obs[o].active \subseteq obs[o].fresh)
    /\ \E off \in SUBSET ToDisable(o) :
           obs' = [obs EXCEPT ![o].mu = "sweeper",
                              ![o].remaining = obs[o].active \cap obs[o].fresh,
                              ![o].domains = IF Commands(o) THEN @ \ off ELSE @]
    /\ UNCHANGED <<targetVars, observer, rings, seq, query, cursor, owed>>

Swept(o) ==
    /\ obs[o].mu = "sweeper"
    /\ obs' = [obs EXCEPT ![o].mu = "free", ![o].active = obs[o].remaining,
                          ![o].remaining = {},
                          ![o].listens = @ /\ obs[o].remaining # {}]
    /\ UNCHANGED <<targetVars, observer, rings, seq, query, cursor, owed>>

-----------------------------------------------------------------------------
(***************************************************************************)
(* The removal of the target: the rings first, the observer later.         *)
(***************************************************************************)
ClearTarget ==
    /\ rings' = NoRings
    /\ owed' = [k \in Kinds |-> {}]
    /\ UNCHANGED <<targetVars, observer, obs, seq, query, cursor>>

ForgetObserver ==
    /\ observer' = 0
    /\ obs' = [o \in ObserverIds |-> IF o = observer THEN [obs[o] EXCEPT !.cancelled = TRUE]
                                     ELSE obs[o]]
    /\ owed' = [k \in Kinds |-> {}]
    /\ UNCHANGED <<targetVars, rings, seq, query, cursor>>

\* chromedp's watcher of the cancelled context closes the tab (external).
WatchObserver(o) ==
    /\ obs[o].cancelled /\ ~obs[o].watched
    /\ \E attached \in BOOLEAN :
           /\ obs[o].phase = "ready" => attached
           /\ live' = (live /\ (lost \/ ~attached))
    /\ obs' = [obs EXCEPT ![o].watched = TRUE]
    /\ UNCHANGED <<lost, observer, rings, seq, query, cursor, owed>>

ObservationInit ==
    /\ observer = 0
    /\ obs = [o \in ObserverIds |-> NoObserver]
    /\ rings = NoRings
    /\ seq = 0
    /\ query = NoQuery
    /\ cursor = [k \in Kinds |-> 0]
    /\ owed = [k \in Kinds |-> {}]

QueryStep ==
    \/ \E k \in Kinds : Ensure(k)
    \/ Awaited \/ DisableUntilLeased \/ Activate \/ Leased \/ Read
    \/ \E k \in Kinds : Clear(k)
Sweeper(o) == Sweep(o) \/ Swept(o)
ObserverStep(o) ==
    \/ Attached(o) \/ Write(o) \/ Sweeper(o) \/ WatchObserver(o)
    \/ \E k \in Kinds : LeaseExpires(o, k)
ObserverHears(o) == \E k \in Kinds : \E d \in Needs(k) : Event(o, k, d)

-----------------------------------------------------------------------------
ObservationTypeOK ==
    /\ observer \in 0..MaxObservers
    /\ \A o \in ObserverIds :
          /\ obs[o].phase \in {"unused", "attaching", "ready", "failed"}
          /\ obs[o].domains \subseteq Domains
          /\ obs[o].mu \in {"free", "rpc", "sweeper"}
          /\ obs[o].fresh \subseteq obs[o].active /\ obs[o].active \subseteq Kinds
          /\ Len(obs[o].queue) <= QueueCap
    /\ \A k \in Kinds :
          /\ Len(rings[k].q) <= RingCap /\ InRing(k) \subseteq Seqs
          /\ cursor[k] \in 0..seq /\ owed[k] \subseteq 1..seq
    /\ query.pc \in {"rest", "wait", "disable", "lease", "leased", "read"}

\* Whatever a client that polls with the cursor of the last reply loses between two
\* clears is in the "dropped" of the replies: the accepted events that it has not
\* received and can no longer receive are no more than the observer and the ring have
\* counted.  An event at or below the cursor cannot be received.
LossIsCounted ==
    \A k \in Kinds :
        LET coming == InRing(k) \cup UNION {Pending(o, k) : o \in ObserverIds}
        IN  Cardinality(owed[k] \ {s \in coming : s > cursor[k]}) <= Reported(k)

\* While a lease is fresh the domains of its kind are on in Chrome, whatever other
\* kinds are leased, expire or fail to be turned on or off around it.
LeasedDomainsOn ==
    \A o \in ObserverIds : Commands(o) => NeededBy(obs[o].active \cap obs[o].fresh) \subseteq obs[o].domains

\* A lease that is not renewed ends while the tab and the connection are there: the
\* sweeper gets the observer's mutex between the RPCs that hold it, and events of that
\* kind are no longer accepted.
LeaseEnds ==
    \A o \in ObserverIds, k \in Kinds :
        (observer = o /\ k \in obs[o].active /\ k \notin obs[o].fresh)
            ~> (k \notin obs[o].active \/ k \in obs[o].fresh \/ observer # o \/ lost)
=============================================================================
