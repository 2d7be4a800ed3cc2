---------------------------- MODULE TabSessionProofs ----------------------------
(***************************************************************************)
(* Proofs about one target of a Session: its cached context, its routes    *)
(* and its observation, whatever RPCs, removals and losses there are.      *)
(***************************************************************************)
EXTENDS TabSession, ObservationProofs

-----------------------------------------------------------------------------
(***************************************************************************)
(* The invariant of the contexts.                                          *)
(***************************************************************************)
\* Entry e was published without an error, and stays so.
Good(e) == ent[e].phase = "settled" /\ ent[e].err = "none"

\* An entry, which is in the pool or is not, of a Session whose connection is lost or
\* is not.  A context that is cancelled while Target is set was taken.
EntryOK(r, pooled, gone) ==
    /\ r.phase = "unused" => r = Unused
    /\ pooled => /\ r.phase \in {"running", "attached", "failed", "settled"}
                 /\ ~r.cancelled /\ ~r.taken
                 /\ r.err = "none"
    /\ r.phase \in {"running", "attached", "failed"} => r.err = "none"
    /\ r.phase \in {"release", "detach", "clear", "cancel"} => r.err # "none"
    /\ r.phase = "attached" => r.target
    /\ r.phase = "settled" /\ r.err = "none" => r.target /\ (pooled \/ (r.cancelled /\ r.taken))
    /\ r.target /\ (r.cancelled \/ r.phase = "cancel") /\ ~gone => r.taken

EntriesOK == \A e \in EntryIds : EntryOK(ent[e], pool = e, lost)

\* The entries that were created are the first n.
EntriesInOrder == \E n \in 0..MaxEntries : \A e \in EntryIds : ent[e].phase # "unused" <=> e <= n

ContextInv == TargetTypeOK /\ ContextTypeOK /\ EntriesOK /\ EntriesInOrder

-----------------------------------------------------------------------------
(***************************************************************************)
(* The invariant of the routes.                                            *)
(***************************************************************************)
Workers == [pc : {"unused", "pop", "answer", "select", "end", "gone"}, last : BOOLEAN,
            cancelled : BOOLEAN, entry : 0..MaxEntries, wake : BOOLEAN, queue : Seq(Requests),
            hand : SUBSET Requests, listens : 0..MaxEntries, hears : BOOLEAN]
Listening == {"begin", "claim", "claimed", "listen", "listening", "again", "enable"}
Syncing == {"sync", "disable", "stop", "ensure"} \cup Listening
Rpcs == [pc : {"rest", "ask", "wait"} \cup Syncing, entry : 0..MaxEntries, urls : SUBSET Urls,
         gen : Nat, worker : 0..MaxWorkers]
Clears == [pc : {"rest", "stop", "cancel"}, worker : 0..MaxWorkers]

Used(w) == worker[w].pc # "unused"

\* A worker: its context comes from an entry that was published without an error, and
\* its loop ends only when that context does.
WorkerOK(r) ==
    /\ r.pc = "unused" => r = NoWorker
    /\ r.pc # "unused" => r.entry \in EntryIds /\ Good(r.entry)
    /\ r.hears => r.listens # 0
    /\ Cardinality(r.hand) <= 1
    /\ r.last \/ r.pc \in {"end", "gone"} => r.cancelled \/ Cancelled(r.entry)

WorkersOK == worker \in [WorkerIds -> Workers] /\ \A w \in WorkerIds : WorkerOK(worker[w])

\* The workers that were created are the first n.
WorkersInOrder == \E n \in 0..MaxWorkers : \A w \in WorkerIds : Used(w) <=> w <= n

\* The removal has taken the context and has not taken the rules yet.
BetweenTakes == stage \in {"observer", "routes"}

CurrentOK ==
    /\ current \in 0..MaxWorkers
    /\ current # 0 =>
          /\ Used(current) /\ ~worker[current].cancelled
          /\ clearing.pc # "rest" => clearing.worker # current
          /\ ent[worker[current].entry].cancelled => BetweenTakes

\* A route RPC whose generation is that of the target works on the target's worker.
\* Rules for a context that was taken do not outlive the removal.
RpcOK ==
    /\ rpc \in Rpcs
    /\ rpc.pc \notin {"rest", "ask"} => rpc.entry \in EntryIds
    /\ rpc.pc \in Syncing => Good(rpc.entry)
    /\ rpc.pc \notin {"rest", "ask"} /\ Good(rpc.entry) /\ ent[rpc.entry].cancelled /\ rules # {} =>
          BetweenTakes
    /\ rpc.gen <= gen
    /\ rpc.pc \in Listening =>
          /\ rpc.worker \in WorkerIds /\ Used(rpc.worker)
          /\ rpc.gen = gen => rpc.worker = current

ClearingOK ==
    /\ stage \in {"rest", "context", "observer", "routes", "stop", "cancel"}
    /\ clearing \in Clears
    /\ clearing.pc = "rest" <=> stage \notin {"stop", "cancel"}
    /\ clearing.pc # "rest" => /\ clearing.pc = stage
                               /\ clearing.worker \in WorkerIds /\ Used(clearing.worker)

\* Whoever claims to listen is the target's worker, or will be told to stop: by the
\* removal, or by the RPC when it looks at the generation again.
ListenersOK ==
    \A w \in WorkerIds : worker[w].listens # 0 =>
        \/ w = current
        \/ clearing.pc = "stop" /\ clearing.worker = w
        \/ rpc.pc = "claimed" /\ rpc.worker = w /\ rpc.gen # gen

ChromeOK ==
    /\ fetch \in [EntryIds -> SUBSET Urls]
    /\ req \in [Requests -> [at : {"new", "through", "paused", "released", "answered"},
                            by : 0..MaxEntries, event : BOOLEAN]]

RouteInv ==
    /\ rules \subseteq Urls /\ gen \in Nat
    /\ WorkersOK /\ WorkersInOrder /\ CurrentOK /\ RpcOK /\ ClearingOK /\ ListenersOK /\ ChromeOK

-----------------------------------------------------------------------------
(***************************************************************************)
(* The invariant of the rules in force, while the tab is there, nothing    *)
(* was stranded and the connection holds.                                  *)
(***************************************************************************)
Undisturbed == ~stranded /\ live /\ ~lost

\* Nothing was removed.
NothingTaken ==
    /\ stage = "rest" /\ gen = 0
    /\ \A e \in EntryIds : ~ent[e].taken

\* There is one worker at most, and it runs in the cached context.
OneWorker ==
    /\ \A w \in WorkerIds : Used(w) => w = current
    /\ current # 0 => /\ worker[current].entry = pool
                      /\ worker[current].listens \in {0, pool}
                      /\ ~worker[current].last
                      /\ worker[current].pc \notin {"end", "gone"}
                      /\ worker[current].listens # 0 =>
                            rpc.pc \in {"claimed", "listen"} \/ worker[current].hears

RpcInForce ==
    /\ rpc.pc \in {"ensure"} \cup Listening => rules # {} /\ rpc.urls = rules
    /\ rpc.pc \in {"disable", "stop"} => rules = {}
    /\ rpc.pc \in {"claimed", "listen", "listening", "again", "enable"} =>
          worker[rpc.worker].listens # 0

SyncedInForce ==
    synced => /\ rpc.pc \in {"rest", "stop"}
              /\ pool # 0 /\ Good(pool)
              /\ fetch[pool] = rules
              /\ rules # {} => current # 0 /\ worker[current].hears

AllInForce == NothingTaken /\ OneWorker /\ RpcInForce /\ SyncedInForce
ForceInv == Undisturbed => AllInForce

\* The whole, with the observation's (ObservationProofs).
SessionInv ==
    /\ ContextInv /\ RouteInv /\ ForceInv /\ LeaseInv /\ LossInv
    /\ removals \in 0..MaxRemovals

-----------------------------------------------------------------------------
(***************************************************************************)
(* The steps on the contexts.                                              *)
(***************************************************************************)
LEMMA EntryNumbers == /\ MaxEntries \in Nat
                      /\ 0 \notin EntryIds
                      /\ \A e \in EntryIds : e \in 0..MaxEntries
BY TabContextAssumption DEF EntryIds

\* What a step other than a take leaves of an entry that works, and of the marks.
EntryKept(r, s) ==
    /\ r.phase = "settled" => s.phase = "settled" /\ s.err = r.err /\ s.cancelled = r.cancelled
    /\ s.phase = "settled" /\ s.err = "none" /\ s.cancelled => r.phase = "settled" /\ r.err = "none"
    /\ r.cancelled => s.cancelled
    /\ s.taken = r.taken
EntriesKept ==
    /\ \A e \in EntryIds : EntryKept(ent[e], ent'[e])
    /\ pool # 0 /\ Good(pool) => pool' = pool

\* A step on one entry that was created.
LEMMA EntryMove ==
  ASSUME ContextInv, NEW e \in EntryIds, NEW x \in Entry, ent' = [ent EXCEPT ![e] = x],
         ent[e].phase # "unused", x.phase # "unused",
         EntryOK(x, pool' = e, lost), EntryKept(ent[e], x),
         pool' = pool \/ (pool = e /\ ~Good(e) /\ pool' = 0),
         UNCHANGED lost, live' \in BOOLEAN
  PROVE  ContextInv' /\ EntriesKept
<1>1. ent'[e] = x /\ \A f \in EntryIds \ {e} : ent'[f] = ent[f]
  BY DEF ContextInv, ContextTypeOK
<1>2. TargetTypeOK'
  BY DEF ContextInv, TargetTypeOK
<1>3. ContextTypeOK'
  BY EntryNumbers DEF ContextInv, ContextTypeOK
<1>4. ASSUME NEW f \in EntryIds
      PROVE  EntryOK(ent'[f], pool' = f, lost')
  <2>1. CASE f = e
    BY <1>1, <2>1
  <2>2. CASE f # e
    <3>1. (pool' = f) = (pool = f)
      BY <2>2, EntryNumbers
    <3> QED
      BY <1>1, <2>2, <3>1 DEF ContextInv, EntriesOK
  <2> QED
    BY <2>1, <2>2
<1>5. EntriesInOrder'
  BY <1>1 DEF ContextInv, EntriesInOrder
<1>6. ASSUME NEW f \in EntryIds
      PROVE  EntryKept(ent[f], ent'[f])
  BY <1>1 DEF EntryKept
<1> QED
  BY <1>2, <1>3, <1>4, <1>5, <1>6 DEF ContextInv, EntriesOK, EntriesKept

\* A step that leaves the contexts alone.
LEMMA ContextStays ==
  ASSUME ContextInv, UNCHANGED contextVars, TargetTypeOK', lost => lost'
  PROVE  ContextInv' /\ EntriesKept
<1>1. pool' = pool /\ ent' = ent
  BY DEF contextVars
<1>2. ASSUME NEW e \in EntryIds
      PROVE  EntryOK(ent'[e], pool' = e, lost')
  <2>1. EntryOK(ent[e], pool = e, lost)
    BY DEF ContextInv, EntriesOK
  <2> QED
    BY <1>1, <2>1 DEF EntryOK
<1> QED
  BY <1>1, <1>2 DEF ContextInv, EntriesOK, ContextTypeOK, EntriesInOrder, EntriesKept, EntryKept

LEMMA EntryFacts ==
  ASSUME ContextInv, NEW e \in EntryIds
  PROVE  ent[e] \in Entry /\ EntryOK(ent[e], pool = e, lost)
BY DEF ContextInv, ContextTypeOK, EntriesOK

LEMMA AttachContext ==
  ASSUME ContextInv, NEW e \in EntryIds, Attach(e)
  PROVE  ContextInv' /\ EntriesKept
<1> DEFINE x == [ent[e] EXCEPT !.target = TRUE, !.session = TRUE]
<1>1. ent' = [ent EXCEPT ![e] = x]
  BY DEF Attach, ContextInv, ContextTypeOK
<1>2. x \in Entry
  BY EntryFacts DEF Entry, Phases
<1>3. EntryOK(x, pool = e, lost) /\ EntryKept(ent[e], x) /\ x.phase # "unused"
  BY EntryFacts DEF Entry, EntryOK, EntryKept, Attach
<1>4. UNCHANGED <<live, lost, pool>> /\ ent[e].phase # "unused" /\ live \in BOOLEAN
  BY DEF Attach, targetVars, ContextInv, TargetTypeOK
<1> HIDE DEF x
<1> QED
  BY <1>1, <1>2, <1>3, <1>4, EntryMove

LEMMA RunEndsContext ==
  ASSUME ContextInv, NEW e \in EntryIds, RunEnds(e)
  PROVE  ContextInv' /\ EntriesKept
<1>1. PICK p \in {"attached", "failed"} :
           /\ ent' = [ent EXCEPT ![e].phase = p]
           /\ p = "attached" => ent[e].target
  BY DEF RunEnds, WithEntry
<1> DEFINE x == [ent[e] EXCEPT !.phase = p]
<1>2. ent' = [ent EXCEPT ![e] = x]
  BY <1>1 DEF ContextInv, ContextTypeOK
<1>3. x \in Entry
  BY EntryFacts DEF Entry, Phases
<1>4. EntryOK(x, pool = e, lost) /\ EntryKept(ent[e], x) /\ x.phase # "unused"
  BY <1>1, EntryFacts DEF Entry, EntryOK, EntryKept, RunEnds
<1>5. UNCHANGED <<live, lost, pool>> /\ ent[e].phase # "unused" /\ live \in BOOLEAN
  BY DEF RunEnds, targetVars, ContextInv, TargetTypeOK
<1> HIDE DEF x
<1> QED
  BY <1>2, <1>3, <1>4, <1>5, EntryMove

LEMMA WatchContext ==
  ASSUME ContextInv, NEW e \in EntryIds, Watch(e)
  PROVE  ContextInv' /\ EntriesKept
<1> DEFINE x == [ent[e] EXCEPT !.watched = TRUE, !.session = FALSE]
<1>1. ent' = [ent EXCEPT ![e] = x]
  BY DEF Watch, ContextInv, ContextTypeOK
<1>2. x \in Entry
  BY EntryFacts DEF Entry, Phases
<1>3. EntryOK(x, pool = e, lost) /\ EntryKept(ent[e], x) /\ x.phase # "unused"
  BY EntryFacts DEF Entry, EntryOK, EntryKept, Watch
<1>4. UNCHANGED <<lost, pool>> /\ ent[e].phase # "unused" /\ live' \in BOOLEAN
  BY DEF Watch, ContextInv, TargetTypeOK
<1> HIDE DEF x
<1> QED
  BY <1>1, <1>2, <1>3, <1>4, EntryMove

LEMMA PublishContext ==
  ASSUME ContextInv, NEW e \in EntryIds, Publish(e)
  PROVE  ContextInv' /\ EntriesKept
<1>1. UNCHANGED <<live, lost>> /\ ent[e].phase # "unused" /\ live \in BOOLEAN /\ ~Good(e)
  BY DEF Publish, targetVars, ContextInv, TargetTypeOK, Good
<1>2. CASE pool # e
  <2> DEFINE x == [ent[e] EXCEPT !.phase = "settled", !.err = "removed"]
  <2>1. ent' = [ent EXCEPT ![e] = x] /\ pool' = pool
    BY <1>2 DEF Publish, ContextInv, ContextTypeOK
  <2>2. x \in Entry
    BY EntryFacts DEF Entry, Phases
  <2>3. EntryOK(x, pool = e, lost) /\ EntryKept(ent[e], x) /\ x.phase # "unused"
    BY <1>2, EntryFacts DEF Entry, EntryOK, EntryKept, Publish
  <2> HIDE DEF x
  <2> QED
    BY <1>1, <2>1, <2>2, <2>3, EntryMove
<1>3. CASE pool = e /\ ent[e].phase = "failed"
  <2> DEFINE x == [ent[e] EXCEPT !.phase = "release", !.err = "attach"]
  <2>1. ent' = [ent EXCEPT ![e] = x] /\ pool' = 0
    BY <1>3 DEF Publish, ContextInv, ContextTypeOK
  <2>2. x \in Entry
    BY EntryFacts DEF Entry, Phases
  <2>3. EntryOK(x, FALSE, lost) /\ EntryKept(ent[e], x) /\ x.phase # "unused"
    BY <1>3, EntryFacts DEF Entry, EntryOK, EntryKept
  <2>4. (pool' = e) = FALSE
    BY <2>1, EntryNumbers
  <2> HIDE DEF x
  <2> QED
    BY <1>1, <1>3, <2>1, <2>2, <2>3, <2>4, EntryMove
<1>4. CASE pool = e /\ ent[e].phase = "attached"
  <2> DEFINE x == [ent[e] EXCEPT !.phase = "settled"]
  <2>1. ent' = [ent EXCEPT ![e] = x] /\ pool' = pool
    BY <1>4 DEF Publish, ContextInv, ContextTypeOK, WithEntry
  <2>2. x \in Entry
    BY EntryFacts DEF Entry, Phases
  <2>3. EntryOK(x, TRUE, lost) /\ EntryKept(ent[e], x) /\ x.phase # "unused"
    BY <1>4, EntryFacts DEF Entry, EntryOK, EntryKept
  <2>4. (pool' = e) = TRUE
    BY <1>4, <2>1
  <2> HIDE DEF x
  <2> QED
    BY <1>1, <2>1, <2>2, <2>3, <2>4, EntryMove
<1> QED
  BY <1>2, <1>3, <1>4 DEF Publish

LEMMA ReleaseContext ==
  ASSUME ContextInv, NEW e \in EntryIds,
         ReleaseLook(e) \/ ReleaseDetach(e) \/ ReleaseClear(e) \/ ReleaseCancel(e)
  PROVE  ContextInv' /\ EntriesKept
<1>1. UNCHANGED <<live, lost, pool>> /\ ent[e].phase # "unused" /\ live \in BOOLEAN
  BY DEF ReleaseLook, ReleaseDetach, ReleaseClear, ReleaseCancel, targetVars, ContextInv,
         TargetTypeOK
<1>2. CASE ReleaseLook(e)
  <2>1. PICK p \in {"cancel", "detach", "clear"} :
             /\ ent' = [ent EXCEPT ![e].phase = p]
             /\ p = "cancel" => Cancelled(e)
    BY <1>2 DEF ReleaseLook, WithEntry
  <2> DEFINE x == [ent[e] EXCEPT !.phase = p]
  <2>2. ent' = [ent EXCEPT ![e] = x]
    BY <2>1 DEF ContextInv, ContextTypeOK
  <2>3. x \in Entry
    BY EntryFacts DEF Entry, Phases
  <2>4. EntryOK(x, pool = e, lost) /\ EntryKept(ent[e], x) /\ x.phase # "unused"
    BY <1>2, <2>1, EntryFacts DEF Entry, EntryOK, EntryKept, ReleaseLook, Cancelled
  <2> HIDE DEF x
  <2> QED
    BY <1>1, <2>2, <2>3, <2>4, EntryMove
<1>3. CASE ReleaseDetach(e)
  <2>1. PICK b \in BOOLEAN : ent' = [ent EXCEPT ![e].phase = "clear", ![e].session = b]
    <3>1. PICK works \in BOOLEAN :
             ent' = [ent EXCEPT ![e].phase = "clear", ![e].session = @ /\ ~works]
      BY <1>3 DEF ReleaseDetach
    <3> DEFINE b == ent[e].session /\ ~works
    <3>2. ent' = [ent EXCEPT ![e].phase = "clear", ![e].session = b] /\ b \in BOOLEAN
      BY <3>1 DEF ContextInv, ContextTypeOK
    <3> QED
      BY <3>2
  <2> DEFINE x == [ent[e] EXCEPT !.phase = "clear", !.session = b]
  <2>2. ent' = [ent EXCEPT ![e] = x]
    BY <2>1 DEF ContextInv, ContextTypeOK
  <2>3. x \in Entry
    BY EntryFacts DEF Entry, Phases
  <2>4. EntryOK(x, pool = e, lost) /\ EntryKept(ent[e], x) /\ x.phase # "unused"
    BY <1>3, EntryFacts DEF Entry, EntryOK, EntryKept, ReleaseDetach
  <2> HIDE DEF x
  <2> QED
    BY <1>1, <2>2, <2>3, <2>4, EntryMove
<1>4. CASE ReleaseClear(e)
  <2> DEFINE b == ent[e].target /\ Cancelled(e)
             x == [ent[e] EXCEPT !.phase = "cancel", !.target = b]
  <2>1. b \in BOOLEAN /\ (b => ent[e].target /\ Cancelled(e))
    BY EntryFacts DEF Entry
  <2>2. ent' = [ent EXCEPT ![e] = x]
    BY <1>4 DEF ReleaseClear, ContextInv, ContextTypeOK
  <2> HIDE DEF b
  <2>3. x \in Entry
    BY <2>1, EntryFacts DEF Entry, Phases
  <2>4. EntryOK(x, pool = e, lost) /\ EntryKept(ent[e], x) /\ x.phase # "unused"
    BY <1>4, <2>1, EntryFacts DEF Entry, EntryOK, EntryKept, ReleaseClear, Cancelled
  <2> HIDE DEF x
  <2> QED
    BY <1>1, <2>2, <2>3, <2>4, EntryMove
<1>5. CASE ReleaseCancel(e)
  <2> DEFINE x == [ent[e] EXCEPT !.phase = "settled", !.cancelled = TRUE]
  <2>1. ent' = [ent EXCEPT ![e] = x]
    BY <1>5 DEF ReleaseCancel, ContextInv, ContextTypeOK
  <2>2. x \in Entry
    BY EntryFacts DEF Entry, Phases
  <2>3. EntryOK(x, pool = e, lost) /\ EntryKept(ent[e], x) /\ x.phase # "unused"
    BY <1>5, EntryFacts DEF Entry, EntryOK, EntryKept, ReleaseCancel
  <2> HIDE DEF x
  <2> QED
    BY <1>1, <2>1, <2>2, <2>3, EntryMove
<1> QED
  BY <1>2, <1>3, <1>4, <1>5

\* The next entry was not created yet.
LEMMA NewEntryIs ==
  ASSUME EntriesInOrder, NewEntry \in EntryIds
  PROVE  /\ ent[NewEntry].phase = "unused"
         /\ \A e \in EntryIds : e <= NewEntry <=> ent[e].phase # "unused" \/ e = NewEntry
<1>1. PICK n \in 0..MaxEntries : \A e \in EntryIds : ent[e].phase # "unused" <=> e <= n
  BY DEF EntriesInOrder
<1>2. {e \in EntryIds : ent[e].phase # "unused"} = 1..n
  BY <1>1, EntryNumbers DEF EntryIds
<1>3. Cardinality(1..n) = n
  BY FS_Interval, EntryNumbers
<1>4. NewEntry = n + 1
  BY <1>2, <1>3 DEF NewEntry
<1> QED
  BY <1>1, <1>4, EntryNumbers DEF EntryIds

LEMMA FindContext ==
  ASSUME ContextInv, FindEntry, UNCHANGED targetVars
  PROVE  /\ ContextInv' /\ EntriesKept
         /\ pool' \in EntryIds
         /\ ~ent'[pool'].cancelled
<1>0. UNCHANGED <<live, lost>>
  BY DEF targetVars
<1>1. CASE pool # 0
  <2>1. UNCHANGED <<pool, ent>> /\ pool \in EntryIds
    BY <1>1, EntryNumbers DEF FindEntry, ContextInv, ContextTypeOK, EntryIds
  <2>2. EntryOK(ent[pool], TRUE, lost)
    BY <2>1 DEF ContextInv, EntriesOK
  <2>3. TargetTypeOK'
    BY <1>0 DEF ContextInv, TargetTypeOK
  <2> QED
    BY <1>0, <2>1, <2>2, <2>3, ContextStays DEF EntryOK, contextVars
<1>2. CASE pool = 0
  <2> DEFINE x == [Unused EXCEPT !.phase = "running"]
  <2>1. PICK n \in EntryIds : /\ n = NewEntry /\ pool' = n
                              /\ ent' = [ent EXCEPT ![n].phase = "running"]
    BY <1>2, EntryNumbers DEF FindEntry, WithEntry
  <2>2. /\ ent[n].phase = "unused"
        /\ \A e \in EntryIds : e <= n <=> ent[e].phase # "unused" \/ e = n
    BY <2>1, NewEntryIs DEF ContextInv
  <2>3. ent[n] = Unused
    BY <2>2, EntryFacts DEF EntryOK
  <2>4. ent' = [ent EXCEPT ![n] = x]
    BY <2>1, <2>3 DEF ContextInv, ContextTypeOK
  <2>5. x \in Entry /\ EntryOK(x, TRUE, lost) /\ EntryKept(Unused, x) /\ ~x.cancelled
        /\ x.phase # "unused"
    BY DEF Entry, Phases, EntryOK, EntryKept, Unused
  <2> HIDE DEF x
  <2>6. ent'[n] = x /\ \A f \in EntryIds \ {n} : ent'[f] = ent[f]
    BY <2>4 DEF ContextInv, ContextTypeOK
  <2>7. TargetTypeOK' /\ ContextTypeOK'
    BY <1>0, <2>1, <2>4, <2>5, EntryNumbers DEF ContextInv, TargetTypeOK, ContextTypeOK
  <2>8. ASSUME NEW f \in EntryIds
        PROVE  EntryOK(ent'[f], pool' = f, lost') /\ EntryKept(ent[f], ent'[f])
    <3>1. CASE f = n
      <4>1. (pool' = f) = TRUE
        BY <2>1, <3>1
      <4> QED
        BY <1>0, <2>3, <2>5, <2>6, <3>1, <4>1
    <3>2. CASE f # n
      <4>1. (pool' = f) = FALSE /\ (pool = f) = FALSE
        BY <1>2, <2>1, <3>2, EntryNumbers
      <4>2. EntryOK(ent[f], FALSE, lost)
        BY <4>1, EntryFacts
      <4> QED
        BY <1>0, <2>6, <3>2, <4>1, <4>2 DEF EntryKept
    <3> QED
      BY <3>1, <3>2
  <2>9. EntriesInOrder'
    <3>1. \A e \in EntryIds : ent'[e].phase # "unused" <=> e <= n
      BY <2>2, <2>5, <2>6
    <3> QED
      BY <2>1, <3>1, EntryNumbers DEF EntriesInOrder
  <2> QED
    BY <1>2, <2>1, <2>5, <2>6, <2>7, <2>8, <2>9 DEF ContextInv, EntriesOK, EntriesKept
<1> QED
  BY <1>1, <1>2

\* A take cancels an entry, and publishes none.
LEMMA TakeContext ==
  ASSUME ContextInv, Take
  PROVE  /\ ContextInv'
         /\ \A e \in EntryIds : /\ Good(e)' = Good(e)
                                /\ ent[e].cancelled => ent'[e].cancelled
<1>1. UNCHANGED <<live, lost>> /\ pool' = 0
  BY DEF Take, targetVars
<1>2. ASSUME NEW e \in EntryIds
      PROVE  /\ ent'[e] \in Entry /\ EntryOK(ent'[e], pool' = e, lost')
             /\ ent'[e].phase = ent[e].phase /\ ent'[e].err = ent[e].err
             /\ ent[e].cancelled => ent'[e].cancelled
  <2>0. (pool' = e) = FALSE /\ ent[e] \in Entry /\ EntryOK(ent[e], pool = e, lost)
    BY <1>1, EntryNumbers, EntryFacts
  <2>1. CASE e = pool
    <3> DEFINE x == [ent[e] EXCEPT !.cancelled = TRUE, !.taken = TRUE]
    <3>1. ent'[e] = x
      BY <2>1 DEF Take
    <3>2. x \in Entry
      BY <2>0 DEF Entry, Phases
    <3>3. EntryOK(x, FALSE, lost) /\ x.phase = ent[e].phase /\ x.err = ent[e].err /\ x.cancelled
      BY <2>0, <2>1 DEF Entry, EntryOK
    <3> HIDE DEF x
    <3> QED
      BY <1>1, <2>0, <3>1, <3>2, <3>3
  <2>2. CASE e # pool
    <3>1. ent'[e] = ent[e] /\ (pool = e) = FALSE
      BY <2>2 DEF Take
    <3> QED
      BY <1>1, <2>0, <3>1
  <2> QED
    BY <2>1, <2>2
<1>3. TargetTypeOK' /\ pool' \in 0..MaxEntries
  BY <1>1, EntryNumbers DEF ContextInv, TargetTypeOK
<1>4. ent' \in [EntryIds -> Entry]
  BY <1>2 DEF Take
<1> QED
  BY <1>2, <1>3, <1>4 DEF ContextInv, ContextTypeOK, EntriesOK, EntriesInOrder, Good

\* Every step keeps the contexts in order, and all but a take keep what works.
LEMMA AttachStepContext ==
  ASSUME ContextInv, AttachStep
  PROVE  ContextInv' /\ EntriesKept
BY AttachContext, RunEndsContext, PublishContext, ReleaseContext, WatchContext DEF AttachStep

LEMMA ContextStart ==
  ASSUME TargetInit, ContextInit
  PROVE  ContextInv
<1>1. \A e \in EntryIds : ent[e] = Unused /\ (pool = e) = FALSE
  BY EntryNumbers DEF ContextInit
<1>2. Unused \in Entry /\ EntryOK(Unused, FALSE, lost) /\ Unused.phase = "unused"
  BY DEF Unused, Entry, Phases, EntryOK
<1>3. TargetTypeOK /\ ContextTypeOK
  <2>1. TargetTypeOK
    BY DEF TargetInit, TargetTypeOK
  <2>2. ent \in [EntryIds -> Entry]
    BY <1>2 DEF ContextInit
  <2> QED
    BY <2>1, <2>2, EntryNumbers DEF ContextInit, ContextTypeOK
<1>4. EntriesInOrder
  <2>1. \A e \in EntryIds : ent[e].phase # "unused" <=> e <= 0
    BY <1>1, <1>2 DEF EntryIds
  <2> QED
    BY <2>1, EntryNumbers DEF EntriesInOrder
<1> QED
  BY <1>1, <1>2, <1>3, <1>4 DEF ContextInv, EntriesOK

LEMMA ContextInvImplies == ContextInv => PooledWorks
<1> SUFFICES ASSUME ContextInv, pool # 0
             PROVE  /\ ~ent[pool].cancelled
                    /\ ent[pool].phase \in {"running", "attached", "failed", "settled"}
                    /\ ent[pool].phase = "settled" => ent[pool].err = "none" /\ ent[pool].target
  BY DEF PooledWorks
<1>1. pool \in EntryIds
  BY EntryNumbers DEF ContextInv, ContextTypeOK, EntryIds
<1>2. EntryOK(ent[pool], TRUE, lost)
  BY <1>1 DEF ContextInv, EntriesOK
<1> QED
  BY <1>2 DEF EntryOK

-----------------------------------------------------------------------------
(***************************************************************************)
(* What a step of the Session does to the other parts.                     *)
(***************************************************************************)
LEMMA SessionContext ==
  ASSUME ContextInv, [SessionNext]_sessionVars
  PROVE  /\ ContextInv'
         /\ ForgetContext \/ EntriesKept
         /\ lost => lost'
         /\ live' => live
<1>1. CASE UNCHANGED <<contextVars, targetVars>>
  BY <1>1, ContextStays DEF targetVars, ContextInv, TargetTypeOK
<1>2. CASE TargetStep
  <2>1. TargetTypeOK' /\ (lost => lost') /\ (live' => live) /\ UNCHANGED contextVars
    <3>1. CASE Vanish
      BY <1>2, <3>1 DEF TargetStep, Vanish, ContextInv, TargetTypeOK
    <3>2. CASE Lose
      BY <1>2, <3>2 DEF TargetStep, Lose, ContextInv, TargetTypeOK
    <3> QED
      BY <1>2, <3>1, <3>2 DEF TargetStep
  <2> QED
    BY <2>1, ContextStays
<1>3. CASE AttachStep
  <2>1. UNCHANGED lost /\ (live' => live)
    <3>1. ASSUME NEW e \in EntryIds, Watch(e)
          PROVE  UNCHANGED lost /\ (live' => live)
      BY <3>1 DEF Watch
    <3>2. ASSUME UNCHANGED targetVars
          PROVE  UNCHANGED lost /\ (live' => live)
      BY <3>2 DEF targetVars
    <3> QED
      BY <1>3, <3>1, <3>2 DEF AttachStep, Attach, RunEnds, Publish, ReleaseLook, ReleaseDetach,
                              ReleaseClear, ReleaseCancel
  <2> QED
    BY <1>3, <2>1, AttachStepContext
<1>4. CASE FindEntry /\ UNCHANGED targetVars
  BY <1>4, FindContext DEF targetVars
<1>5. CASE ForgetContext
  BY <1>5, TakeContext DEF ForgetContext, Take, targetVars
<1>6. CASE UNCHANGED contextVars /\ \E o \in ObserverIds : WatchObserver(o)
  <2>1. TargetTypeOK' /\ (lost => lost') /\ (live' => live)
    BY <1>6 DEF WatchObserver, ContextInv, TargetTypeOK
  <2> QED
    BY <1>6, <2>1, ContextStays
<1>7. CASE ContextStep
  BY <1>3, <1>4, <1>7 DEF ContextStep, Use
<1>8. CASE RoutesStep
  <2>1. CASE Ask
    BY <1>4, <2>1 DEF Ask
  <2>2. CASE RouteStep /\ ~Ask
    BY <1>1, <2>2 DEF RouteStep, Route, Unroute, Edit, Answered, Sync, Snapshot, Disable,
        StopListener, EnsureWorker, BeginListening, Claim, Recheck, Listen, Enable, Work, Pop,
        Answer, Select, LoopEnds, Deliver, Request
  <2> QED
    BY <1>8, <2>1, <2>2 DEF RoutesStep
<1>9. CASE ObservingStep
  BY <1>1, <1>6, <1>9 DEF ObservingStep, QueryStep, ObserverStep, ObserverHears, Sweeper, Ensure,
        Awaited, DisableUntilLeased, Activate, Leased, Read, Clear, Attached, Write, Sweep, Swept,
        LeaseExpires, Event
<1>10. CASE RemovalBegins \/ ForgetObservation \/ ForgetRoutes
  BY <1>1, <1>10 DEF RemovalBegins, ClearTarget, ForgetObservation, ForgetObserver, ForgetRoutes,
        ClearRules, ClearStops, ClearCancels
<1> QED
  BY <1>1, <1>2, <1>5, <1>7, <1>8, <1>9, <1>10 DEF SessionNext, RemovalStep, sessionVars

LEMMA SessionObservation ==
  ASSUME ContextInv, [SessionNext]_sessionVars
  PROVE  ObservationMove
<1>1. Reachable' => Reachable
  BY SessionContext DEF Reachable
<1>2. CASE UNCHANGED observationVars
  BY <1>1, <1>2 DEF ObservationMove, Elsewhere
<1>3. CASE ObservingStep
  BY <1>3 DEF ObservingStep, ObservationMove
<1>4. CASE RemovalBegins \/ ForgetObservation
  BY <1>4 DEF RemovalBegins, ForgetObservation, ObservationMove
<1> QED
  BY <1>2, <1>3, <1>4 DEF SessionNext, TargetStep, ContextStep, RoutesStep, RemovalStep,
     ForgetContext, ForgetRoutes, sessionVars

-----------------------------------------------------------------------------
(***************************************************************************)
(* Steps that keep the routes in order.                                    *)
(***************************************************************************)
LEMMA WorkerNumbers == /\ MaxWorkers \in Nat
                       /\ 0 \notin WorkerIds
                       /\ \A w \in WorkerIds : w \in 0..MaxWorkers
                       /\ \A w \in 0..MaxWorkers : w # 0 => w \in WorkerIds
BY RoutesAssumption DEF WorkerIds

\* What is good stays good, and what is cancelled stays cancelled.
EntriesLast ==
    \A e \in EntryIds : /\ Good(e) => Good(e)'
                        /\ Cancelled(e) => Cancelled(e)'

LEMMA KeptLast ==
  ASSUME lost => lost',
         EntriesKept \/ \A e \in EntryIds : /\ Good(e)' = Good(e)
                                            /\ ent[e].cancelled => ent'[e].cancelled
  PROVE  EntriesLast
<1>1. CASE EntriesKept
  BY <1>1 DEF EntriesLast, EntriesKept, EntryKept, Good, Cancelled
<1>2. CASE \A e \in EntryIds : Good(e)' = Good(e) /\ (ent[e].cancelled => ent'[e].cancelled)
  BY <1>2 DEF EntriesLast, Cancelled
<1> QED
  BY <1>1, <1>2

LEMMA WorkersLast ==
  ASSUME WorkersOK, UNCHANGED worker, EntriesLast
  PROVE  WorkersOK'
<1>1. ASSUME NEW w \in WorkerIds PROVE WorkerOK(worker[w])'
  <2>1. WorkerOK(worker[w]) /\ worker[w] \in Workers /\ worker'[w] = worker[w]
    BY DEF WorkersOK
  <2>2. CASE worker[w].pc = "unused"
    <3>1. worker[w] = NoWorker
      BY <2>1, <2>2 DEF WorkerOK
    <3> QED
      BY <2>1, <3>1 DEF WorkerOK, NoWorker
  <2>3. CASE worker[w].pc # "unused"
    BY <2>1, <2>3 DEF WorkerOK, EntriesLast
  <2> QED
    BY <2>2, <2>3
<1> QED
  BY <1>1 DEF WorkersOK

\* The target's worker and the RPC, when the contexts change and the routes do not.
LEMMA RoutesStay ==
  ASSUME RouteInv, UNCHANGED <<rules, gen, current, worker, rpc, clearing, fetch, req>>,
         EntriesLast, ClearingOK', BetweenTakes' \/ (EntriesKept /\ ~BetweenTakes)
  PROVE  RouteInv'
<1>1. WorkersOK'
  BY WorkersLast DEF RouteInv
<1>2. ASSUME NEW e \in EntryIds, EntriesKept, Good(e)', ent'[e].cancelled
      PROVE  Good(e) /\ ent[e].cancelled
  BY <1>2 DEF EntriesKept, EntryKept, Good
<1>3. CurrentOK'
  <2>1. ASSUME current # 0
        PROVE  /\ Used(current) /\ worker[current].entry \in EntryIds /\ Good(worker[current].entry)
               /\ Good(worker[current].entry)'
    <3>1. Used(current) /\ current \in WorkerIds
      BY <2>1, WorkerNumbers DEF RouteInv, CurrentOK
    <3>2. WorkerOK(worker[current])
      BY <3>1 DEF RouteInv, WorkersOK
    <3> QED
      BY <3>1, <3>2 DEF WorkerOK, Used, EntriesLast
  <2>2. ASSUME current # 0, ent'[worker[current].entry].cancelled
        PROVE  BetweenTakes'
    BY <1>2, <2>1, <2>2 DEF RouteInv, CurrentOK
  <2> QED
    BY <2>2 DEF RouteInv, CurrentOK, Used
<1>4. RpcOK'
  <2>1. ASSUME rpc.pc \notin {"rest", "ask"}, Good(rpc.entry)', ent'[rpc.entry].cancelled,
               rules # {}
        PROVE  BetweenTakes'
    BY <1>2, <2>1 DEF RouteInv, RpcOK
  <2>2. rpc.pc \in Syncing => Good(rpc.entry)'
    BY DEF RouteInv, RpcOK, EntriesLast, Syncing, Listening
  <2>3. /\ rpc' \in Rpcs
        /\ rpc'.pc \notin {"rest", "ask"} => rpc'.entry \in EntryIds
        /\ rpc'.gen <= gen'
    BY DEF RouteInv, RpcOK
  <2>4. (rpc.pc \in Listening => /\ rpc.worker \in WorkerIds /\ Used(rpc.worker)
                                 /\ rpc.gen = gen => rpc.worker = current)'
    BY DEF RouteInv, RpcOK, Used
  <2> QED
    BY <2>1, <2>2, <2>3, <2>4 DEF RpcOK, Good
<1>5. ListenersOK' /\ WorkersInOrder' /\ ChromeOK'
  BY DEF RouteInv, ListenersOK, WorkersInOrder, Used, ChromeOK
<1> QED
  BY <1>1, <1>3, <1>4, <1>5 DEF RouteInv

\* Nothing but the position of the workers' loops, their queues and listeners changes.
WorkersFrame ==
    \A w \in WorkerIds : /\ Used(w)' <=> Used(w)
                         /\ worker'[w].entry = worker[w].entry
                         /\ worker'[w].cancelled = worker[w].cancelled

LEMMA RouteMove ==
  ASSUME RouteInv, UNCHANGED <<ent, lost, rules, gen, current, clearing, stage>>,
         WorkersFrame, WorkersOK', RpcOK', ListenersOK', ChromeOK'
  PROVE  RouteInv'
<1>1. CurrentOK'
  <2>1. current # 0 => current \in WorkerIds
    BY WorkerNumbers DEF RouteInv, CurrentOK
  <2> QED
    BY <2>1 DEF RouteInv, CurrentOK, WorkersFrame, Used, BetweenTakes
<1>2. WorkersInOrder'
  BY DEF RouteInv, WorkersInOrder, WorkersFrame
<1>3. ClearingOK'
  BY DEF RouteInv, ClearingOK, WorkersFrame, Used
<1>4. rules' \subseteq Urls /\ gen' \in Nat
  BY DEF RouteInv
<1> QED
  BY <1>1, <1>2, <1>3, <1>4 DEF RouteInv

LEMMA RpcStays ==
  ASSUME RpcOK, UNCHANGED <<ent, rules, gen, current, stage, rpc>>, WorkersFrame
  PROVE  RpcOK'
BY DEF RpcOK, WorkersFrame, Used, BetweenTakes, Good

LEMMA RpcFinishes ==
  ASSUME rpc' = NoRpc, gen' \in Nat
  PROVE  RpcOK'
BY WorkerNumbers, EntryNumbers DEF RpcOK, NoRpc, Rpcs, Syncing, Listening

\* The RPC goes on.
LEMMA RpcGoes ==
  ASSUME RpcOK, UNCHANGED <<ent, rules, gen, current, stage>>, WorkersFrame,
         rpc' \in Rpcs, rpc'.entry = rpc.entry, rpc'.gen <= gen,
         rpc.pc \in Syncing, rpc'.pc \in Syncing,
         rpc'.pc \in Listening => /\ rpc.pc \in Listening
                                  /\ rpc'.gen = rpc.gen /\ rpc'.worker = rpc.worker
  PROVE  RpcOK'
<1>1. rpc.pc \notin {"rest", "ask"} /\ rpc.pc \in Syncing
  BY DEF Syncing, Listening
<1>2. Good(rpc'.entry) /\ rpc'.entry \in EntryIds
  BY <1>1 DEF RpcOK
<1>3. (rpc.pc \in Listening => /\ rpc.worker \in WorkerIds /\ Used(rpc.worker)
                               /\ rpc.gen = gen => rpc.worker = current)'
  BY DEF RpcOK, WorkersFrame, Used
<1> QED
  BY <1>1, <1>2, <1>3 DEF RpcOK, Good, BetweenTakes

LEMMA GotoTyped ==
  ASSUME rpc \in Rpcs, NEW p \in Syncing, Goto(p)
  PROVE  /\ rpc' \in Rpcs /\ rpc'.pc = p
         /\ rpc'.entry = rpc.entry /\ rpc'.gen = rpc.gen /\ rpc'.worker = rpc.worker
         /\ rpc'.urls = rpc.urls
<1> DEFINE x == [rpc EXCEPT !.pc = p]
<1>1. /\ x \in Rpcs /\ x.pc = p
      /\ x.entry = rpc.entry /\ x.gen = rpc.gen /\ x.worker = rpc.worker /\ x.urls = rpc.urls
  BY DEF Rpcs
<1>2. rpc' = x
  BY DEF Goto
<1> QED
  BY <1>1, <1>2

\* A step of one worker that runs.
LEMMA WorkerMove ==
  ASSUME WorkersOK, UNCHANGED <<ent, lost>>, NEW w \in WorkerIds, NEW x \in Workers,
         worker' = [worker EXCEPT ![w] = x], Used(w), x.pc # "unused",
         x.entry = worker[w].entry, x.cancelled = worker[w].cancelled,
         x.hears => x.listens # 0, Cardinality(x.hand) <= 1,
         x.last \/ x.pc \in {"end", "gone"} => x.cancelled \/ Cancelled(x.entry)
  PROVE  /\ WorkersOK' /\ WorkersFrame /\ worker'[w] = x
         /\ \A v \in WorkerIds \ {w} : worker'[v] = worker[v]
<1>1. worker'[w] = x /\ (\A v \in WorkerIds \ {w} : worker'[v] = worker[v])
  BY DEF WorkersOK
<1>2. \A r : WorkerOK(r) => WorkerOK(r)'
  BY DEF WorkerOK, Good, Cancelled
<1>3. WorkerOK(x)
  BY DEF WorkersOK, WorkerOK, Used
<1>4. \A v \in WorkerIds : WorkerOK(worker[v])'
  BY <1>1, <1>2, <1>3 DEF WorkersOK, WorkerOK, Good, Cancelled
<1>5. WorkersFrame
  BY <1>1 DEF WorkersFrame, Used
<1>6. worker' \in [WorkerIds -> Workers]
  BY DEF WorkersOK
<1> QED
  BY <1>1, <1>4, <1>5, <1>6 DEF WorkersOK

LEMMA WorkerFacts ==
  ASSUME WorkersOK, NEW w \in WorkerIds
  PROVE  worker[w] \in Workers /\ WorkerOK(worker[w])
BY DEF WorkersOK

\* stopListening.
LEMMA StoppedWorker ==
  ASSUME WorkersOK, UNCHANGED <<ent, lost>>, NEW w \in WorkerIds, Used(w),
         worker' = Stopped(w)
  PROVE  /\ WorkersOK' /\ WorkersFrame /\ worker'[w].listens = 0
         /\ \A v \in WorkerIds \ {w} : worker'[v] = worker[v]
<1> DEFINE x == [worker[w] EXCEPT !.listens = 0, !.hears = FALSE]
<1>1. worker' = [worker EXCEPT ![w] = x]
  BY DEF Stopped, WorkersOK
<1>2. x \in Workers
  <2>1. 0 \in 0..MaxEntries
    BY EntryNumbers
  <2> QED
    BY <2>1, WorkerFacts DEF Workers
<1>3. /\ x.pc # "unused" /\ x.entry = worker[w].entry /\ x.cancelled = worker[w].cancelled
      /\ x.listens = 0 /\ ~x.hears /\ Cardinality(x.hand) <= 1
      /\ x.last \/ x.pc \in {"end", "gone"} => x.cancelled \/ Cancelled(x.entry)
  BY WorkerFacts DEF Workers, WorkerOK, Used
<1> HIDE DEF x
<1> QED
  BY <1>1, <1>2, <1>3, WorkerMove

LEMMA WorkersStay ==
  ASSUME WorkersOK, UNCHANGED <<ent, lost, worker>>
  PROVE  WorkersOK' /\ WorkersFrame
<1>1. ASSUME NEW w \in WorkerIds PROVE WorkerOK(worker[w])'
  BY DEF WorkersOK, WorkerOK, Good, Cancelled
<1> QED
  BY <1>1 DEF WorkersOK, WorkersFrame, Used

\* Nobody begins to claim a listener, and the claim of the RPC is not given up.
LEMMA ListenersStay ==
  ASSUME ListenersOK, UNCHANGED <<current, clearing, gen>>,
         \A w \in WorkerIds : worker'[w].listens # 0 => worker[w].listens # 0,
         \/ rpc' = rpc
         \/ rpc.pc # "claimed"
         \/ rpc.gen = gen
         \/ worker'[rpc.worker].listens = 0
  PROVE  ListenersOK'
BY DEF ListenersOK

-----------------------------------------------------------------------------
(***************************************************************************)
(* The steps of Chrome, of the workers and of the route RPC.               *)
(***************************************************************************)
LEMMA RequestRoutes ==
  ASSUME RouteInv, UNCHANGED stage, NEW r \in Requests, NEW u \in Urls, Request(r, u)
  PROVE  RouteInv'
<1>1. UNCHANGED <<ent, lost, rules, gen, current, worker, rpc, clearing, fetch, stage>>
  BY DEF Request, targetVars, contextVars, routeState
<1>2. WorkersOK' /\ WorkersFrame
  BY <1>1, WorkersStay DEF RouteInv
<1>3. RpcOK' /\ ListenersOK'
  BY <1>1, <1>2, RpcStays, ListenersStay DEF RouteInv
<1>4. ChromeOK'
  <2>1. PICK x : /\ x \in [at : {"new", "through", "paused", "released", "answered"},
                           by : 0..MaxEntries, event : BOOLEAN]
                 /\ req' = [req EXCEPT ![r] = x]
    <3>1. CASE req' = [req EXCEPT ![r].at = "through"]
      <4>1. req' = [req EXCEPT ![r] = [req[r] EXCEPT !.at = "through"]]
        BY <3>1 DEF RouteInv, ChromeOK
      <4>2. [req[r] EXCEPT !.at = "through"] \in
               [at : {"new", "through", "paused", "released", "answered"},
                by : 0..MaxEntries, event : BOOLEAN]
        BY DEF RouteInv, ChromeOK
      <4> QED
        BY <4>1, <4>2
    <3>2. CASE \E e \in EntryIds :
                  req' = [req EXCEPT ![r] = [at |-> "paused", by |-> e, event |-> TRUE]]
      BY <3>2, EntryNumbers
    <3> QED
      BY <3>1, <3>2 DEF Request
  <2> QED
    BY <1>1, <2>1 DEF RouteInv, ChromeOK
<1> QED
  BY <1>1, <1>2, <1>3, <1>4, RouteMove

LEMMA DeliverRoutes ==
  ASSUME RouteInv, UNCHANGED stage, NEW r \in Requests, Deliver(r)
  PROVE  RouteInv'
<1>1. UNCHANGED <<ent, lost, rules, gen, current, rpc, clearing, fetch, stage>>
  BY DEF Deliver, targetVars, contextVars, routeState
<1>2. ASSUME NEW w \in WorkerIds
      PROVE  /\ worker'[w] \in Workers /\ WorkerOK(worker[w])'
             /\ Used(w)' <=> Used(w)
             /\ worker'[w].entry = worker[w].entry
             /\ worker'[w].cancelled = worker[w].cancelled
             /\ worker'[w].listens = worker[w].listens
  <2>0. worker[w] \in Workers /\ WorkerOK(worker[w])
    BY WorkerFacts DEF RouteInv
  <2>1. CASE ~Hears(w, req[r].by)
    <3>1. worker'[w] = worker[w]
      BY <2>1 DEF Deliver
    <3> QED
      BY <1>1, <2>0, <3>1 DEF WorkerOK, Good, Cancelled, Used
  <2>2. CASE Hears(w, req[r].by)
    <3> DEFINE q == Append(worker[w].queue, r)
               x == [worker[w] EXCEPT !.queue = q, !.wake = TRUE]
    <3>1. worker'[w] = x
      BY <2>2 DEF Deliver
    <3>2. q \in Seq(Requests)
      BY <2>0 DEF Workers
    <3> HIDE DEF q
    <3>3. worker[w].pc # "unused"
      BY <2>0, <2>2 DEF WorkerOK, NoWorker, Hears
    <3>4. /\ x \in Workers
          /\ x.pc = worker[w].pc /\ x.entry = worker[w].entry /\ x.cancelled = worker[w].cancelled
          /\ x.listens = worker[w].listens /\ x.hears = worker[w].hears /\ x.hand = worker[w].hand
          /\ x.last = worker[w].last
      BY <2>0, <3>2 DEF Workers
    <3> HIDE DEF x
    <3> QED
      BY <1>1, <2>0, <3>1, <3>3, <3>4 DEF WorkerOK, Good, Cancelled, Used
  <2> QED
    BY <2>1, <2>2
<1>3. WorkersOK' /\ WorkersFrame
  BY <1>2 DEF WorkersOK, WorkersFrame, Deliver
<1>4. RpcOK' /\ ListenersOK'
  BY <1>1, <1>2, <1>3, RpcStays, ListenersStay DEF RouteInv
<1>5. ChromeOK'
  <2> DEFINE x == [req[r] EXCEPT !.event = FALSE]
  <2>1. req' = [req EXCEPT ![r] = x]
    BY DEF Deliver, RouteInv, ChromeOK
  <2>2. x \in [at : {"new", "through", "paused", "released", "answered"},
               by : 0..MaxEntries, event : BOOLEAN]
    BY DEF RouteInv, ChromeOK
  <2> HIDE DEF x
  <2> QED
    BY <1>1, <2>1, <2>2 DEF RouteInv, ChromeOK
<1> QED
  BY <1>1, <1>3, <1>4, <1>5, RouteMove

LEMMA PopRoutes ==
  ASSUME RouteInv, UNCHANGED stage, NEW w \in WorkerIds, Pop(w)
  PROVE  RouteInv'
<1>1. UNCHANGED <<ent, lost, rules, gen, current, rpc, clearing, fetch, req, stage>>
  BY DEF Pop, targetVars, contextVars, routeState, chromeFetch
<1>2. worker[w] \in Workers /\ WorkerOK(worker[w]) /\ Used(w)
  BY WorkerFacts DEF RouteInv, Pop, At, Used
<1>3. /\ WorkersOK' /\ WorkersFrame
      /\ \A v \in WorkerIds : worker'[v].listens = worker[v].listens
  <2>1. CASE worker[w].queue # <<>>
    <3> DEFINE h == {Head(worker[w].queue)}
               q == Tail(worker[w].queue)
               x == [worker[w] EXCEPT !.pc = "answer", !.hand = h, !.queue = q]
    <3>1. worker' = [worker EXCEPT ![w] = x]
      BY <2>1 DEF Pop, RouteInv, WorkersOK
    <3>2. h \in SUBSET Requests /\ q \in Seq(Requests) /\ Cardinality(h) <= 1
      <4>1. worker[w].queue \in Seq(Requests)
        BY <1>2 DEF Workers
      <4>2. Head(worker[w].queue) \in Requests /\ q \in Seq(Requests)
        BY <2>1, <4>1
      <4>3. Cardinality(h) = 1
        BY FS_Singleton
      <4> QED
        BY <4>2, <4>3
    <3> HIDE DEF h, q
    <3>3. /\ x \in Workers /\ x.pc = "answer" /\ x.hand = h
          /\ x.entry = worker[w].entry /\ x.cancelled = worker[w].cancelled
          /\ x.listens = worker[w].listens /\ x.hears = worker[w].hears
          /\ x.last = worker[w].last
      BY <1>2, <3>2 DEF Workers
    <3> HIDE DEF x
    <3> QED
      BY <1>1, <1>2, <3>1, <3>2, <3>3, WorkerMove DEF WorkerOK, RouteInv
  <2>2. CASE worker[w].queue = <<>>
    <3>1. PICK p \in {"end", "select"} : /\ worker' = [worker EXCEPT ![w].pc = p]
                                         /\ p = "end" => worker[w].last
      BY <2>2 DEF Pop
    <3> DEFINE x == [worker[w] EXCEPT !.pc = p]
    <3>2. worker' = [worker EXCEPT ![w] = x]
      BY <3>1 DEF RouteInv, WorkersOK
    <3>3. /\ x \in Workers /\ x.pc = p /\ x.hand = worker[w].hand
          /\ x.entry = worker[w].entry /\ x.cancelled = worker[w].cancelled
          /\ x.listens = worker[w].listens /\ x.hears = worker[w].hears
          /\ x.last = worker[w].last
      BY <1>2 DEF Workers
    <3> HIDE DEF x
    <3>4. /\ x.pc # "unused" /\ Cardinality(x.hand) <= 1 /\ (x.hears => x.listens # 0)
          /\ x.last \/ x.pc \in {"end", "gone"} => x.cancelled \/ Cancelled(x.entry)
      BY <1>2, <3>1, <3>3 DEF WorkerOK
    <3> QED
      BY <1>1, <1>2, <3>2, <3>3, <3>4, WorkerMove DEF RouteInv
  <2> QED
    BY <2>1, <2>2
<1>4. RpcOK' /\ ListenersOK' /\ ChromeOK'
  BY <1>1, <1>3, RpcStays, ListenersStay DEF RouteInv, ChromeOK
<1> QED
  BY <1>1, <1>3, <1>4, RouteMove

LEMMA AnswerRoutes ==
  ASSUME RouteInv, UNCHANGED stage, NEW w \in WorkerIds, Answer(w)
  PROVE  RouteInv'
<1>1. UNCHANGED <<ent, lost, rules, gen, current, rpc, clearing, fetch, stage>>
  BY DEF Answer, targetVars, contextVars, routeState
<1>2. worker[w] \in Workers /\ WorkerOK(worker[w]) /\ Used(w)
  BY WorkerFacts DEF RouteInv, Answer, At, Used
<1>3. /\ WorkersOK' /\ WorkersFrame
      /\ \A v \in WorkerIds : worker'[v].listens = worker[v].listens
  <2> DEFINE x == [worker[w] EXCEPT !.pc = "pop", !.hand = {}]
  <2>1. worker' = [worker EXCEPT ![w] = x]
    BY DEF Answer, RouteInv, WorkersOK
  <2>2. Cardinality({}) <= 1
    BY FS_EmptySet
  <2>3. /\ x \in Workers /\ x.pc = "pop" /\ x.hand = {}
        /\ x.entry = worker[w].entry /\ x.cancelled = worker[w].cancelled
        /\ x.listens = worker[w].listens /\ x.hears = worker[w].hears
        /\ x.last = worker[w].last
    BY <1>2 DEF Workers
  <2> HIDE DEF x
  <2> QED
    BY <1>1, <1>2, <2>1, <2>2, <2>3, WorkerMove DEF WorkerOK, RouteInv
<1>4. ChromeOK'
  <2>1. CASE req' = req
    BY <1>1, <2>1 DEF RouteInv, ChromeOK
  <2>2. CASE \E r \in worker[w].hand : req' = [req EXCEPT ![r].at = "answered"]
    <3>1. PICK r \in Requests : req' = [req EXCEPT ![r].at = "answered"]
      BY <1>2, <2>2 DEF Workers
    <3> DEFINE x == [req[r] EXCEPT !.at = "answered"]
    <3>2. req' = [req EXCEPT ![r] = x]
      BY <3>1 DEF RouteInv, ChromeOK
    <3>3. x \in [at : {"new", "through", "paused", "released", "answered"},
                 by : 0..MaxEntries, event : BOOLEAN]
      BY DEF RouteInv, ChromeOK
    <3> HIDE DEF x
    <3> QED
      BY <1>1, <3>2, <3>3 DEF RouteInv, ChromeOK
  <2> QED
    BY <2>1, <2>2 DEF Answer
<1>5. RpcOK' /\ ListenersOK'
  BY <1>1, <1>3, RpcStays, ListenersStay DEF RouteInv
<1> QED
  BY <1>1, <1>3, <1>4, <1>5, RouteMove

LEMMA SelectRoutes ==
  ASSUME RouteInv, UNCHANGED stage, NEW w \in WorkerIds, Select(w)
  PROVE  RouteInv'
<1>1. UNCHANGED <<ent, lost, rules, gen, current, rpc, clearing, fetch, req, stage>>
  BY DEF Select, targetVars, contextVars, routeState, chromeFetch
<1>2. worker[w] \in Workers /\ WorkerOK(worker[w]) /\ Used(w)
  BY WorkerFacts DEF RouteInv, Select, At, Used
<1>3. /\ WorkersOK' /\ WorkersFrame
      /\ \A v \in WorkerIds : worker'[v].listens = worker[v].listens
  <2>1. CASE Ended(w) /\ worker' = [worker EXCEPT ![w].pc = "pop", ![w].last = TRUE]
    <3> DEFINE x == [worker[w] EXCEPT !.pc = "pop", !.last = TRUE]
    <3>1. worker' = [worker EXCEPT ![w] = x]
      BY <2>1 DEF RouteInv, WorkersOK
    <3>2. /\ x \in Workers /\ x.pc = "pop" /\ x.hand = worker[w].hand
          /\ x.entry = worker[w].entry /\ x.cancelled = worker[w].cancelled
          /\ x.listens = worker[w].listens /\ x.hears = worker[w].hears
      BY <1>2 DEF Workers
    <3> HIDE DEF x
    <3> QED
      BY <1>1, <1>2, <2>1, <3>1, <3>2, WorkerMove DEF WorkerOK, RouteInv, Ended
  <2>2. CASE worker' = [worker EXCEPT ![w].pc = "pop", ![w].wake = FALSE]
    <3> DEFINE x == [worker[w] EXCEPT !.pc = "pop", !.wake = FALSE]
    <3>1. worker' = [worker EXCEPT ![w] = x]
      BY <2>2 DEF RouteInv, WorkersOK
    <3>2. /\ x \in Workers /\ x.pc = "pop" /\ x.hand = worker[w].hand
          /\ x.entry = worker[w].entry /\ x.cancelled = worker[w].cancelled
          /\ x.listens = worker[w].listens /\ x.hears = worker[w].hears
          /\ x.last = worker[w].last
      BY <1>2 DEF Workers
    <3> HIDE DEF x
    <3> QED
      BY <1>1, <1>2, <3>1, <3>2, WorkerMove DEF WorkerOK, RouteInv
  <2> QED
    BY <2>1, <2>2 DEF Select
<1>4. RpcOK' /\ ListenersOK' /\ ChromeOK'
  BY <1>1, <1>3, RpcStays, ListenersStay DEF RouteInv, ChromeOK
<1> QED
  BY <1>1, <1>3, <1>4, RouteMove

LEMMA LoopEndsRoutes ==
  ASSUME RouteInv, UNCHANGED stage, NEW w \in WorkerIds, LoopEnds(w)
  PROVE  RouteInv'
<1>1. UNCHANGED <<ent, lost, rules, gen, current, rpc, clearing, fetch, req, stage>>
  BY DEF LoopEnds, targetVars, contextVars, routeState, chromeFetch
<1>2. worker[w] \in Workers /\ WorkerOK(worker[w]) /\ Used(w) /\ worker[w].pc = "end"
  BY WorkerFacts DEF RouteInv, LoopEnds, At, Used
<1>3. /\ WorkersOK' /\ WorkersFrame
      /\ \A v \in WorkerIds : worker'[v].listens # 0 => worker[v].listens # 0
  <2> DEFINE x == [worker[w] EXCEPT !.listens = 0, !.hears = FALSE, !.pc = "gone"]
  <2>1. worker' = [worker EXCEPT ![w] = x]
    BY DEF LoopEnds, Stopped, RouteInv, WorkersOK
  <2>2. 0 \in 0..MaxEntries
    BY EntryNumbers
  <2>3. /\ x \in Workers /\ x.pc = "gone" /\ x.hand = worker[w].hand
        /\ x.entry = worker[w].entry /\ x.cancelled = worker[w].cancelled
        /\ x.listens = 0 /\ ~x.hears
    BY <1>2, <2>2 DEF Workers
  <2> HIDE DEF x
  <2> QED
    BY <1>1, <1>2, <2>1, <2>3, WorkerMove DEF WorkerOK, RouteInv
<1>4. RpcOK' /\ ListenersOK' /\ ChromeOK'
  BY <1>1, <1>3, RpcStays, ListenersStay DEF RouteInv, ChromeOK
<1> QED
  BY <1>1, <1>3, <1>4, RouteMove

\* A step of the RPC that leaves the workers alone.
LEMMA RpcAlone ==
  ASSUME RouteInv, UNCHANGED <<ent, lost, rules, gen, current, clearing, stage, worker>>,
         RpcOK', ChromeOK', rpc.pc # "claimed" \/ rpc.gen = gen
  PROVE  RouteInv'
<1>1. WorkersOK' /\ WorkersFrame
  BY WorkersStay DEF RouteInv
<1>2. ListenersOK'
  BY ListenersStay DEF RouteInv
<1> QED
  BY <1>1, <1>2, RouteMove

LEMMA EditRoutes ==
  ASSUME RouteInv, UNCHANGED stage, Route \/ Unroute
  PROVE  RouteInv'
<1>1. PICK rs \in SUBSET Urls : Edit(rs)
  BY DEF Route, Unroute, RouteInv
<1>2. UNCHANGED <<ent, lost, gen, current, worker, clearing, fetch, req, stage>>
  BY <1>1 DEF Edit, targetVars, contextVars
<1>3. rules' \subseteq Urls /\ rpc.pc = "rest"
  BY <1>1 DEF Edit
<1>4. rpc' \in Rpcs /\ rpc'.pc = "ask" /\ rpc'.gen = rpc.gen
  <2> DEFINE x == [rpc EXCEPT !.pc = "ask"]
  <2>1. x \in Rpcs /\ x.pc = "ask" /\ x.gen = rpc.gen
    BY DEF RouteInv, RpcOK, Rpcs
  <2>2. rpc' = x
    BY <1>1 DEF Edit, Goto
  <2> QED
    BY <2>1, <2>2
<1>5. RpcOK'
  BY <1>2, <1>4 DEF RouteInv, RpcOK, Syncing, Listening
<1>6. WorkersOK' /\ WorkersFrame
  BY <1>2, WorkersStay DEF RouteInv
<1>7. ListenersOK'
  BY <1>2, <1>3, ListenersStay DEF RouteInv
<1>8. CurrentOK' /\ ClearingOK' /\ WorkersInOrder' /\ ChromeOK'
  BY <1>2 DEF RouteInv, CurrentOK, ClearingOK, WorkersInOrder, ChromeOK, Used, BetweenTakes
<1> QED
  BY <1>2, <1>3, <1>5, <1>6, <1>7, <1>8 DEF RouteInv

LEMMA AskRoutes ==
  ASSUME ContextInv, RouteInv, UNCHANGED stage, Ask
  PROVE  RouteInv'
<1>1. UNCHANGED <<live, lost, rules, gen, current, worker, clearing, fetch, req, stage>>
      /\ rpc.pc = "ask"
  BY DEF Ask, targetVars, routeState, chromeFetch
<1>2. /\ EntriesKept /\ EntriesLast
      /\ pool' \in EntryIds /\ ~ent'[pool'].cancelled
  <2>1. EntriesKept /\ pool' \in EntryIds /\ ~ent'[pool'].cancelled
    BY <1>1, FindContext DEF Ask, targetVars
  <2> QED
    BY <1>1, <2>1, KeptLast
<1>3. WorkersOK'
  BY <1>1, <1>2, WorkersLast DEF RouteInv
<1>4. /\ rpc' \in Rpcs /\ rpc'.pc = "wait" /\ rpc'.entry = pool' /\ rpc'.gen = rpc.gen
  <2>1. PICK p \in 0..MaxEntries : p = pool'
    BY <1>2, EntryNumbers
  <2> DEFINE x == [rpc EXCEPT !.pc = "wait", !.entry = p]
  <2>2. x \in Rpcs /\ x.pc = "wait" /\ x.entry = p /\ x.gen = rpc.gen
    BY DEF RouteInv, RpcOK, Rpcs
  <2>3. rpc' = x
    BY <2>1 DEF Ask
  <2> HIDE DEF x
  <2> QED
    BY <2>1, <2>2, <2>3
<1>5. RpcOK'
  BY <1>1, <1>2, <1>4 DEF RouteInv, RpcOK, Syncing, Listening
<1>6. CurrentOK'
  <2>1. ASSUME current # 0, ent'[worker[current].entry].cancelled
        PROVE  ent[worker[current].entry].cancelled
    <3>1. current \in WorkerIds /\ Used(current)
      BY <2>1, WorkerNumbers DEF RouteInv, CurrentOK
    <3>2. worker[current].entry \in EntryIds /\ Good(worker[current].entry)
      BY <3>1, WorkerFacts DEF RouteInv, WorkerOK, Used
    <3> QED
      BY <1>2, <2>1, <3>2 DEF EntriesKept, EntryKept, Good
  <2> QED
    BY <1>1, <2>1 DEF RouteInv, CurrentOK, Used, BetweenTakes
<1>7. ListenersOK'
  BY <1>1, ListenersStay DEF RouteInv
<1>8. ClearingOK' /\ WorkersInOrder' /\ ChromeOK'
  BY <1>1 DEF RouteInv, ClearingOK, WorkersInOrder, ChromeOK, Used
<1> QED
  BY <1>1, <1>3, <1>5, <1>6, <1>7, <1>8 DEF RouteInv

LEMMA AnsweredRoutes ==
  ASSUME ContextInv, RouteInv, UNCHANGED stage, Answered
  PROVE  RouteInv'
<1>1. UNCHANGED <<ent, lost, rules, gen, current, worker, clearing, fetch, req, stage>>
      /\ rpc.pc = "wait"
  BY DEF Answered, targetVars, contextVars, routeState, chromeFetch
<1>2. CASE rpc' = NoRpc
  BY <1>1, <1>2, RpcFinishes, RpcAlone DEF RouteInv, ChromeOK
<1>3. CASE Good(rpc.entry) /\ Goto("sync")
  <2>1. /\ rpc' \in Rpcs /\ rpc'.pc = "sync" /\ rpc'.entry = rpc.entry /\ rpc'.gen = rpc.gen
    BY <1>3, GotoTyped DEF RouteInv, RpcOK, Syncing
  <2>2. RpcOK'
    BY <1>1, <1>3, <2>1 DEF RouteInv, RpcOK, Good, Listening, BetweenTakes
  <2> QED
    BY <1>1, <2>2, RpcAlone DEF RouteInv, ChromeOK
<1>4. Published(rpc.entry) /\ ent[rpc.entry].err = "none" => Good(rpc.entry)
  <2>1. rpc.entry \in EntryIds
    BY <1>1 DEF RouteInv, RpcOK
  <2> QED
    BY <2>1, EntryFacts DEF EntryOK, Published, Good
<1> QED
  BY <1>2, <1>3, <1>4 DEF Answered, Finish

LEMMA SnapshotRoutes ==
  ASSUME RouteInv, UNCHANGED stage, Snapshot
  PROVE  RouteInv'
<1>1. UNCHANGED <<ent, lost, rules, gen, current, worker, clearing, fetch, req, stage>>
      /\ rpc.pc = "sync"
  BY DEF Snapshot, targetVars, contextVars, routeState, chromeFetch
<1>2. /\ rpc' \in Rpcs /\ rpc'.pc \in {"disable", "ensure"} /\ rpc'.entry = rpc.entry
      /\ rpc'.gen = gen
  <2>1. PICK p \in {"disable", "ensure"} : rpc' = [rpc EXCEPT !.pc = p, !.urls = rules, !.gen = gen]
    BY DEF Snapshot
  <2> DEFINE x == [rpc EXCEPT !.pc = p, !.urls = rules, !.gen = gen]
  <2>2. /\ x \in Rpcs /\ x.pc = p /\ x.entry = rpc.entry /\ x.gen = gen
    BY DEF RouteInv, RpcOK, Rpcs, Syncing
  <2> HIDE DEF x
  <2> QED
    BY <2>1, <2>2 DEF x
<1>3. WorkersFrame /\ gen \in Nat
  BY <1>1, WorkersStay DEF RouteInv
<1>4. RpcOK'
  BY <1>1, <1>2, <1>3, RpcGoes DEF RouteInv, Syncing, Listening
<1> QED
  BY <1>1, <1>4, RpcAlone DEF RouteInv, ChromeOK

LEMMA DisableRoutes ==
  ASSUME RouteInv, UNCHANGED stage, Disable
  PROVE  RouteInv'
<1>1. UNCHANGED <<ent, lost, rules, gen, current, worker, clearing, stage>>
      /\ rpc.pc = "disable"
  BY DEF Disable, targetVars, contextVars, routeState
<1>2. /\ rpc' \in Rpcs /\ rpc'.pc = "stop" /\ rpc'.entry = rpc.entry /\ rpc'.gen = rpc.gen
  BY GotoTyped DEF Disable, RouteInv, RpcOK, Syncing
<1>3. WorkersFrame /\ rpc.gen <= gen
  BY <1>1, WorkersStay DEF RouteInv, RpcOK
<1>4. RpcOK'
  BY <1>1, <1>2, <1>3, RpcGoes DEF RouteInv, Syncing, Listening
<1>5. ChromeOK'
  <2>1. CASE UNCHANGED <<fetch, req>>
    BY <2>1 DEF RouteInv, ChromeOK
  <2>2. CASE /\ fetch' = [fetch EXCEPT ![rpc.entry] = {}]
             /\ req' = [r \in Requests |-> IF req[r].at = "paused" /\ req[r].by = rpc.entry
                                           THEN [req[r] EXCEPT !.at = "released"] ELSE req[r]]
    BY <2>2 DEF RouteInv, ChromeOK
  <2> QED
    BY <2>1, <2>2 DEF Disable
<1> QED
  BY <1>1, <1>4, <1>5, RpcAlone

LEMMA EnableRoutes ==
  ASSUME RouteInv, UNCHANGED stage, Enable
  PROVE  RouteInv'
<1>1. UNCHANGED <<ent, lost, rules, gen, current, worker, clearing, req, stage>>
      /\ rpc.pc = "enable" /\ rpc' = NoRpc
  BY DEF Enable, targetVars, contextVars, routeState, Finish
<1>2. ChromeOK'
  <2>1. rpc.urls \in SUBSET Urls
    BY DEF RouteInv, RpcOK, Rpcs
  <2> QED
    BY <1>1, <2>1 DEF Enable, RouteInv, ChromeOK
<1> QED
  BY <1>1, <1>2, RpcFinishes, RpcAlone DEF RouteInv

LEMMA BeginRoutes ==
  ASSUME RouteInv, UNCHANGED stage, BeginListening
  PROVE  RouteInv'
<1>1. UNCHANGED <<ent, lost, rules, gen, current, worker, clearing, fetch, req, stage>>
      /\ rpc.pc = "begin"
  BY DEF BeginListening, targetVars, contextVars, routeState, chromeFetch
<1>2. CASE rpc' = NoRpc
  BY <1>1, <1>2, RpcFinishes, RpcAlone DEF RouteInv, ChromeOK
<1>3. CASE Goto("claim")
  <2>1. /\ rpc' \in Rpcs /\ rpc'.pc = "claim" /\ rpc'.entry = rpc.entry /\ rpc'.gen = rpc.gen
        /\ rpc'.worker = rpc.worker
    BY <1>3, GotoTyped DEF RouteInv, RpcOK, Syncing, Listening
  <2>2. WorkersFrame /\ rpc.gen <= gen
    BY <1>1, WorkersStay DEF RouteInv, RpcOK
  <2>3. RpcOK'
    BY <1>1, <2>1, <2>2, RpcGoes DEF RouteInv, Syncing, Listening
  <2> QED
    BY <1>1, <2>3, RpcAlone DEF RouteInv, ChromeOK
<1> QED
  BY <1>2, <1>3 DEF BeginListening, Finish

LEMMA StopListenerRoutes ==
  ASSUME RouteInv, UNCHANGED stage, StopListener
  PROVE  RouteInv'
<1>1. UNCHANGED <<ent, lost, rules, gen, current, clearing, fetch, req, stage>>
      /\ rpc.pc = "stop" /\ rpc' = NoRpc
  BY DEF StopListener, targetVars, contextVars, routeState, chromeFetch, Finish
<1>2. /\ WorkersOK' /\ WorkersFrame
      /\ \A w \in WorkerIds : worker'[w].listens # 0 => worker[w].listens # 0
  <2>1. CASE worker' = worker
    BY <1>1, <2>1, WorkersStay DEF RouteInv
  <2>2. CASE current # 0 /\ worker' = Stopped(current)
    <3>1. current \in WorkerIds /\ Used(current)
      BY <2>2, WorkerNumbers DEF RouteInv, CurrentOK
    <3> QED
      BY <1>1, <2>2, <3>1, StoppedWorker DEF RouteInv
  <2> QED
    BY <2>1, <2>2 DEF StopListener
<1>3. RpcOK' /\ ListenersOK' /\ ChromeOK'
  BY <1>1, <1>2, RpcFinishes, ListenersStay DEF RouteInv, ChromeOK
<1> QED
  BY <1>1, <1>2, <1>3, RouteMove

LEMMA ClaimRoutes ==
  ASSUME RouteInv, UNCHANGED stage, Claim
  PROVE  RouteInv'
<1>1. UNCHANGED <<ent, lost, rules, gen, current, clearing, fetch, req, stage>>
      /\ rpc.pc = "claim"
  BY DEF Claim, targetVars, contextVars, routeState, chromeFetch
<1>2. /\ rpc.worker \in WorkerIds /\ Used(rpc.worker) /\ rpc.gen <= gen
      /\ rpc.gen = gen => rpc.worker = current
  BY <1>1 DEF RouteInv, RpcOK, Listening
<1>3. ASSUME NEW p \in {"again", "claimed"}, Goto(p), WorkersFrame
      PROVE  RpcOK' /\ rpc'.pc = p /\ rpc'.gen = rpc.gen /\ rpc'.worker = rpc.worker
  <2>1. /\ rpc' \in Rpcs /\ rpc'.pc = p /\ rpc'.entry = rpc.entry /\ rpc'.gen = rpc.gen
        /\ rpc'.worker = rpc.worker
    BY <1>3, GotoTyped DEF RouteInv, RpcOK, Syncing, Listening
  <2> QED
    BY <1>1, <1>2, <1>3, <2>1, RpcGoes DEF RouteInv, Syncing, Listening
<1>4. CASE Goto("again") /\ worker' = worker
  <2>1. WorkersFrame
    BY <1>1, <1>4, WorkersStay DEF RouteInv
  <2> QED
    BY <1>1, <1>3, <1>4, <2>1, RpcAlone DEF RouteInv, ChromeOK
<1>5. CASE /\ Goto("claimed") /\ worker[rpc.worker].listens = 0
           /\ worker' = [worker EXCEPT ![rpc.worker].listens = rpc.entry]
  <2>1. PICK w \in WorkerIds : w = rpc.worker
    BY <1>2
  <2>2. PICK e \in EntryIds : e = rpc.entry
    BY <1>1 DEF RouteInv, RpcOK
  <2> DEFINE x == [worker[w] EXCEPT !.listens = e]
  <2>3. worker' = [worker EXCEPT ![w] = x]
    BY <1>5, <2>1, <2>2 DEF RouteInv, WorkersOK
  <2>4. worker[w] \in Workers /\ WorkerOK(worker[w]) /\ Used(w)
    BY <1>2, <2>1, WorkerFacts DEF RouteInv
  <2>5. e \in 0..MaxEntries /\ e # 0
    BY EntryNumbers
  <2>6. /\ x \in Workers /\ x.pc = worker[w].pc /\ x.hand = worker[w].hand
        /\ x.entry = worker[w].entry /\ x.cancelled = worker[w].cancelled
        /\ x.listens = e /\ x.hears = worker[w].hears /\ x.last = worker[w].last
    BY <2>4, <2>5 DEF Workers
  <2> HIDE DEF x
  <2>7. /\ WorkersOK' /\ WorkersFrame
        /\ \A v \in WorkerIds \ {w} : worker'[v] = worker[v]
    BY <1>1, <2>3, <2>4, <2>5, <2>6, WorkerMove DEF WorkerOK, RouteInv, Used
  <2>8. RpcOK' /\ rpc'.pc = "claimed" /\ rpc'.gen = rpc.gen /\ rpc'.worker = w
    BY <1>3, <1>5, <2>1, <2>7
  <2>9. ListenersOK'
    <3>1. ASSUME NEW v \in WorkerIds, worker'[v].listens # 0
          PROVE  \/ v = current'
                 \/ clearing'.pc = "stop" /\ clearing'.worker = v
                 \/ rpc'.pc = "claimed" /\ rpc'.worker = v /\ rpc'.gen # gen'
      <4>1. CASE v = w
        BY <1>1, <1>2, <2>1, <2>8, <4>1
      <4>2. CASE v # w
        BY <1>1, <2>7, <3>1, <4>2 DEF RouteInv, ListenersOK
      <4> QED
        BY <4>1, <4>2
    <3> QED
      BY <3>1 DEF ListenersOK
  <2> QED
    BY <1>1, <2>7, <2>8, <2>9, RouteMove DEF RouteInv, ChromeOK
<1> QED
  BY <1>4, <1>5 DEF Claim

LEMMA RecheckRoutes ==
  ASSUME RouteInv, UNCHANGED stage,
         NEW from \in {"claimed", "listening", "again"}, NEW to \in {"listen", "enable"},
         Recheck(from, to)
  PROVE  RouteInv'
<1>1. UNCHANGED <<ent, lost, rules, gen, current, clearing, fetch, req, stage>>
      /\ rpc.pc = from
  BY DEF Recheck, targetVars, contextVars, routeState, chromeFetch
<1>2. /\ rpc.worker \in WorkerIds /\ Used(rpc.worker) /\ rpc.gen <= gen
      /\ rpc.pc \in Syncing /\ rpc.pc \in Listening
  BY <1>1 DEF RouteInv, RpcOK, Listening, Syncing
<1>3. CASE gen = rpc.gen /\ Goto(to) /\ worker' = worker
  <2>1. /\ rpc' \in Rpcs /\ rpc'.pc = to /\ rpc'.entry = rpc.entry /\ rpc'.gen = rpc.gen
        /\ rpc'.worker = rpc.worker
    BY <1>3, GotoTyped DEF RouteInv, RpcOK, Syncing, Listening
  <2>2. WorkersFrame
    BY <1>1, <1>3, WorkersStay DEF RouteInv
  <2>3. RpcOK'
    BY <1>1, <1>2, <2>1, <2>2, RpcGoes DEF RouteInv, Syncing, Listening
  <2> QED
    BY <1>1, <1>3, <2>3, RpcAlone DEF RouteInv, ChromeOK
<1>4. CASE worker' = Stopped(rpc.worker) /\ rpc' = NoRpc
  <2>1. /\ WorkersOK' /\ WorkersFrame /\ worker'[rpc.worker].listens = 0
        /\ \A w \in WorkerIds : worker'[w].listens # 0 => worker[w].listens # 0
    BY <1>1, <1>2, <1>4, StoppedWorker DEF RouteInv
  <2>2. RpcOK' /\ ListenersOK' /\ ChromeOK'
    BY <1>1, <1>4, <2>1, RpcFinishes, ListenersStay DEF RouteInv, ChromeOK
  <2> QED
    BY <1>1, <2>1, <2>2, RouteMove
<1> QED
  BY <1>3, <1>4 DEF Recheck, Finish

LEMMA ListenRoutes ==
  ASSUME RouteInv, UNCHANGED stage, Listen
  PROVE  RouteInv'
<1>1. UNCHANGED <<ent, lost, rules, gen, current, clearing, fetch, req, stage>>
      /\ rpc.pc = "listen"
  BY DEF Listen, targetVars, contextVars, routeState, chromeFetch
<1>2. PICK w \in WorkerIds : w = rpc.worker
  BY <1>1 DEF RouteInv, RpcOK, Listening
<1>3. worker[w] \in Workers /\ WorkerOK(worker[w]) /\ Used(w)
  BY <1>1, <1>2, WorkerFacts DEF RouteInv, RpcOK, Listening
<1> DEFINE b == worker[w].hears \/ worker[w].listens # 0
           x == [worker[w] EXCEPT !.hears = b]
<1>4. worker' = [worker EXCEPT ![w] = x]
  BY <1>2 DEF Listen, RouteInv, WorkersOK
<1>5. b \in BOOLEAN /\ (b => worker[w].listens # 0)
  BY <1>3 DEF WorkerOK
<1> HIDE DEF b
<1>6. /\ x \in Workers /\ x.pc = worker[w].pc /\ x.hand = worker[w].hand
      /\ x.entry = worker[w].entry /\ x.cancelled = worker[w].cancelled
      /\ x.listens = worker[w].listens /\ x.hears = b /\ x.last = worker[w].last
  BY <1>3, <1>5 DEF Workers
<1> HIDE DEF x
<1>7. /\ WorkersOK' /\ WorkersFrame
      /\ \A v \in WorkerIds : worker'[v].listens = worker[v].listens
  <2>1. /\ x.pc # "unused" /\ Cardinality(x.hand) <= 1 /\ (x.hears => x.listens # 0)
        /\ x.last \/ x.pc \in {"end", "gone"} => x.cancelled \/ Cancelled(x.entry)
    BY <1>3, <1>5, <1>6 DEF WorkerOK, Used
  <2> QED
    BY <1>1, <1>3, <1>4, <1>6, <2>1, WorkerMove DEF RouteInv
<1>8. /\ rpc' \in Rpcs /\ rpc'.pc = "listening" /\ rpc'.entry = rpc.entry /\ rpc'.gen = rpc.gen
      /\ rpc'.worker = rpc.worker /\ rpc.gen <= gen
  BY GotoTyped DEF Listen, RouteInv, RpcOK, Syncing, Listening
<1>9. RpcOK' /\ ListenersOK' /\ ChromeOK'
  BY <1>1, <1>7, <1>8, RpcGoes, ListenersStay DEF RouteInv, Syncing, Listening, ChromeOK
<1> QED
  BY <1>1, <1>7, <1>9, RouteMove

\* The next worker was not created yet.
LEMMA NewWorkerIs ==
  ASSUME WorkersInOrder, NewWorker \in WorkerIds
  PROVE  /\ ~Used(NewWorker)
         /\ \A w \in WorkerIds : w <= NewWorker <=> Used(w) \/ w = NewWorker
<1>1. PICK n \in 0..MaxWorkers : \A w \in WorkerIds : Used(w) <=> w <= n
  BY DEF WorkersInOrder
<1>2. {w \in WorkerIds : worker[w].pc # "unused"} = 1..n
  BY <1>1, WorkerNumbers DEF WorkerIds, Used
<1>3. Cardinality(1..n) = n
  BY FS_Interval, WorkerNumbers
<1>4. NewWorker = n + 1
  BY <1>2, <1>3 DEF NewWorker
<1> QED
  BY <1>1, <1>4, WorkerNumbers DEF WorkerIds

LEMMA EnsureRoutes ==
  ASSUME RouteInv, UNCHANGED stage, EnsureWorker
  PROVE  RouteInv'
<1>1. UNCHANGED <<ent, lost, rules, gen, clearing, fetch, req, stage>> /\ rpc.pc = "ensure"
  BY DEF EnsureWorker, targetVars, contextVars, chromeFetch
<1>2. CASE rpc' = NoRpc /\ UNCHANGED <<current, worker>>
  BY <1>1, <1>2, RpcFinishes, RpcAlone DEF RouteInv, ChromeOK
<1>3. ASSUME NEW c \in WorkerIds, c = current', worker'[c].pc # "unused",
             rpc' = [rpc EXCEPT !.pc = "begin", !.worker = c]
      PROVE  RpcOK'
  <2> DEFINE x == [rpc EXCEPT !.pc = "begin", !.worker = c]
  <2>1. /\ x \in Rpcs /\ x.pc = "begin" /\ x.entry = rpc.entry /\ x.gen = rpc.gen
        /\ x.worker = c
    BY WorkerNumbers DEF RouteInv, RpcOK, Rpcs, Syncing, Listening
  <2>2. rpc' = x
    BY <1>3
  <2> HIDE DEF x
  <2>3. rpc.entry \in EntryIds /\ Good(rpc.entry) /\ rpc.gen <= gen
        /\ (ent[rpc.entry].cancelled /\ rules # {} => BetweenTakes)
    BY <1>1 DEF RouteInv, RpcOK, Syncing
  <2> QED
    BY <1>1, <1>3, <2>1, <2>2, <2>3 DEF RpcOK, Syncing, Listening, Good, BetweenTakes, Used
<1>4. CASE /\ current # 0 /\ UNCHANGED <<current, worker>>
           /\ rpc' = [rpc EXCEPT !.pc = "begin", !.worker = current']
  <2>1. current \in WorkerIds /\ worker[current].pc # "unused"
    BY <1>4, WorkerNumbers DEF RouteInv, CurrentOK, Used
  <2>2. RpcOK'
    BY <1>3, <1>4, <2>1
  <2> QED
    BY <1>1, <1>4, <2>2, RpcAlone DEF RouteInv, ChromeOK
<1>5. CASE /\ gen = rpc.gen /\ rules # {} /\ current = 0
           /\ NewWorker \in WorkerIds
           /\ current' = NewWorker
           /\ worker' = [worker EXCEPT ![NewWorker].pc = "pop", ![NewWorker].entry = rpc.entry]
           /\ rpc' = [rpc EXCEPT !.pc = "begin", !.worker = current']
  <2>1. PICK n \in WorkerIds : n = NewWorker
    BY <1>5
  <2>2. PICK e \in EntryIds : /\ e = rpc.entry /\ Good(e)
                              /\ ent[e].cancelled => BetweenTakes
    BY <1>1, <1>5 DEF RouteInv, RpcOK, Syncing
  <2>3. worker[n] = NoWorker /\ ~Used(n) /\ \A w \in WorkerIds : w <= n <=> Used(w) \/ w = n
    BY <2>1, NewWorkerIs, WorkerFacts DEF RouteInv, WorkerOK, Used
  <2> DEFINE x == [NoWorker EXCEPT !.pc = "pop", !.entry = e]
  <2>4. worker' = [worker EXCEPT ![n] = x]
    BY <1>5, <2>1, <2>2, <2>3 DEF RouteInv, WorkersOK
  <2>5. /\ x \in Workers /\ x.pc = "pop" /\ x.entry = e /\ ~x.cancelled /\ x.listens = 0 /\ ~x.hears
        /\ x.hand = {} /\ ~x.last
    <3>1. e \in 0..MaxEntries /\ 0 \in 0..MaxEntries /\ <<>> \in Seq(Requests)
      BY EntryNumbers
    <3> QED
      BY <3>1 DEF Workers, NoWorker
  <2> HIDE DEF x
  <2>6. worker'[n] = x /\ \A w \in WorkerIds \ {n} : worker'[w] = worker[w]
    BY <2>4 DEF RouteInv, WorkersOK
  <2>7. WorkersOK'
    <3>1. Cardinality({}) <= 1
      BY FS_EmptySet
    <3>2. WorkerOK(x)'
      BY <1>1, <2>2, <2>5, <3>1 DEF WorkerOK, Good
    <3>3. ASSUME NEW w \in WorkerIds PROVE WorkerOK(worker[w])'
      <4>1. CASE w = n
        BY <2>6, <3>2, <4>1 DEF WorkerOK, Good, Cancelled
      <4>2. CASE w # n
        BY <1>1, <2>6, <4>2, WorkerFacts DEF RouteInv, WorkerOK, Good, Cancelled
      <4> QED
        BY <4>1, <4>2
    <3>4. worker' \in [WorkerIds -> Workers]
      BY <2>4, <2>5 DEF RouteInv, WorkersOK
    <3> QED
      BY <3>3, <3>4 DEF WorkersOK
  <2>8. WorkersInOrder'
    <3>1. \A w \in WorkerIds : Used(w)' <=> w <= n
      BY <2>3, <2>5, <2>6 DEF Used
    <3> QED
      BY <3>1, WorkerNumbers DEF WorkersInOrder
  <2>9. current' = n /\ rpc' = [rpc EXCEPT !.pc = "begin", !.worker = n] /\ worker'[n].pc # "unused"
    BY <1>5, <2>1, <2>5, <2>6
  <2>10. RpcOK'
    BY <1>3, <2>9
  <2>11. CurrentOK'
    <3>1. clearing.pc # "rest" => clearing.worker # n
      BY <2>3 DEF RouteInv, ClearingOK
    <3> QED
      BY <1>1, <2>2, <2>5, <2>6, <2>9, <3>1, WorkerNumbers DEF CurrentOK, Used, BetweenTakes
  <2>12. ListenersOK'
    <3>1. ASSUME NEW w \in WorkerIds, worker'[w].listens # 0
          PROVE  clearing.pc = "stop" /\ clearing.worker = w
      <4>1. w # n
        BY <2>5, <2>6, <3>1
      <4> QED
        BY <1>1, <1>5, <2>6, <3>1, <4>1, WorkerNumbers DEF RouteInv, ListenersOK
    <3> QED
      BY <1>1, <3>1 DEF ListenersOK
  <2>13. ClearingOK' /\ ChromeOK'
    <3>1. \A w \in WorkerIds : Used(w) => Used(w)'
      BY <2>6, <2>3 DEF Used
    <3> QED
      BY <1>1, <3>1 DEF RouteInv, ClearingOK, ChromeOK, Used
  <2> QED
    BY <1>1, <2>7, <2>8, <2>10, <2>11, <2>12, <2>13 DEF RouteInv
<1> QED
  BY <1>2, <1>4, <1>5 DEF EnsureWorker, Finish

-----------------------------------------------------------------------------
(***************************************************************************)
(* The steps of ClearRoutesForTarget.                                      *)
(***************************************************************************)
LEMMA ClearRulesRoutes ==
  ASSUME RouteInv, stage = "routes", ClearRules,
         stage' = IF clearing' = NoClear THEN "rest" ELSE "stop"
  PROVE  RouteInv'
<1>1. UNCHANGED <<ent, lost, worker, rpc, fetch, req>>
      /\ rules' = {} /\ gen' = gen + 1 /\ current' = 0
  BY DEF ClearRules, targetVars, contextVars, chromeFetch
<1>2. gen' \in Nat /\ rpc.gen < gen'
  BY <1>1 DEF RouteInv, RpcOK, Rpcs
<1>3. WorkersOK' /\ WorkersFrame
  BY <1>1, WorkersStay DEF RouteInv
<1>4. ClearingOK' /\ (current # 0 => clearing'.pc = "stop" /\ clearing'.worker = current)
  <2>1. CASE current = 0
    <3>1. clearing' = NoClear /\ stage' = "rest"
      BY <2>1 DEF ClearRules
    <3> QED
      BY <2>1, <3>1, WorkerNumbers DEF ClearingOK, NoClear, Clears
  <2>2. CASE current # 0
    <3>1. clearing' = [pc |-> "stop", worker |-> current] /\ stage' = "stop"
      BY <2>2 DEF ClearRules, NoClear
    <3>2. current \in WorkerIds /\ Used(current) /\ current \in 0..MaxWorkers
      BY <2>2, WorkerNumbers DEF RouteInv, CurrentOK
    <3>3. Used(current) => worker'[current].pc # "unused"
      BY <1>1 DEF Used
    <3> QED
      BY <3>1, <3>2, <3>3 DEF ClearingOK, Clears, Used
  <2> QED
    BY <2>1, <2>2
<1>5. CurrentOK' /\ WorkersInOrder' /\ ChromeOK'
  BY <1>1, WorkerNumbers DEF RouteInv, CurrentOK, WorkersInOrder, Used, ChromeOK
<1>6. RpcOK'
  BY <1>1, <1>2 DEF RouteInv, RpcOK, Good, Used, Rpcs
<1>7. ListenersOK'
  <2>1. ASSUME NEW w \in WorkerIds, worker[w].listens # 0
        PROVE  \/ clearing'.pc = "stop" /\ clearing'.worker = w
               \/ rpc.pc = "claimed" /\ rpc.worker = w /\ rpc.gen # gen'
    <3>1. CASE w = current
      BY <1>4, <3>1, WorkerNumbers
    <3>2. CASE w # current
      BY <1>2, <2>1, <3>2 DEF RouteInv, ListenersOK, ClearRules, RpcOK, Rpcs
    <3> QED
      BY <3>1, <3>2
  <2> QED
    BY <1>1, <2>1 DEF ListenersOK
<1> QED
  BY <1>1, <1>2, <1>3, <1>4, <1>5, <1>6, <1>7 DEF RouteInv

LEMMA ClearStopsRoutes ==
  ASSUME RouteInv, stage = "stop", ClearStops, stage' = "cancel"
  PROVE  RouteInv'
<1>1. UNCHANGED <<ent, lost, rules, gen, current, rpc, fetch, req>>
  BY DEF ClearStops, targetVars, contextVars, routeState, chromeFetch
<1>2. PICK w \in WorkerIds : w = clearing.worker /\ Used(w)
  BY DEF RouteInv, ClearingOK, ClearStops
<1>3. /\ WorkersOK' /\ WorkersFrame /\ worker'[w].listens = 0
      /\ \A v \in WorkerIds \ {w} : worker'[v] = worker[v]
  BY <1>1, <1>2, StoppedWorker DEF RouteInv, ClearStops
<1>4. clearing' \in Clears /\ clearing'.pc = "cancel" /\ clearing'.worker = w
  <2> DEFINE x == [clearing EXCEPT !.pc = "cancel"]
  <2>1. x \in Clears /\ x.pc = "cancel" /\ x.worker = clearing.worker
    BY DEF RouteInv, ClearingOK, Clears
  <2>2. clearing' = x
    BY DEF ClearStops
  <2> HIDE DEF x
  <2> QED
    BY <1>2, <2>1, <2>2
<1>5. ClearingOK'
  BY <1>2, <1>3, <1>4 DEF ClearingOK, WorkersFrame, Used
<1>6. CurrentOK'
  <2>1. current # 0 => current \in WorkerIds /\ current # w /\ Used(current)
    BY <1>2, WorkerNumbers DEF RouteInv, CurrentOK, ClearStops
  <2>2. ~BetweenTakes
    BY DEF BetweenTakes
  <2> QED
    BY <1>1, <1>3, <1>4, <2>1, <2>2 DEF RouteInv, CurrentOK, Used
<1>7. RpcOK'
  BY <1>1, <1>3 DEF RouteInv, RpcOK, Good, WorkersFrame, Used, BetweenTakes
<1>8. ListenersOK'
  <2>1. ASSUME NEW v \in WorkerIds, worker'[v].listens # 0
        PROVE  v = current \/ (rpc.pc = "claimed" /\ rpc.worker = v /\ rpc.gen # gen)
    <3>1. v # w /\ worker[v].listens # 0
      BY <1>3, <2>1
    <3> QED
      BY <1>2, <3>1 DEF RouteInv, ListenersOK
  <2> QED
    BY <1>1, <2>1 DEF ListenersOK
<1>9. WorkersInOrder' /\ ChromeOK'
  BY <1>1, <1>3 DEF RouteInv, WorkersInOrder, WorkersFrame, ChromeOK
<1> QED
  BY <1>1, <1>3, <1>5, <1>6, <1>7, <1>8, <1>9 DEF RouteInv

LEMMA ClearCancelsRoutes ==
  ASSUME RouteInv, stage = "cancel", ClearCancels, stage' = "rest"
  PROVE  RouteInv'
<1>1. UNCHANGED <<ent, lost, rules, gen, current, rpc, fetch, req>> /\ clearing' = NoClear
  BY DEF ClearCancels, targetVars, contextVars, routeState, chromeFetch
<1>2. PICK w \in WorkerIds : w = clearing.worker /\ Used(w)
  BY DEF RouteInv, ClearingOK, ClearCancels
<1> DEFINE x == [worker[w] EXCEPT !.cancelled = TRUE]
<1>3. worker' = [worker EXCEPT ![w] = x]
  BY <1>2 DEF ClearCancels, RouteInv, WorkersOK
<1>4. /\ x \in Workers /\ x.pc = worker[w].pc /\ x.entry = worker[w].entry /\ x.cancelled
      /\ x.listens = worker[w].listens /\ x.hears = worker[w].hears /\ x.hand = worker[w].hand
  BY WorkerFacts DEF RouteInv, Workers
<1> HIDE DEF x
<1>5. worker'[w] = x /\ \A v \in WorkerIds \ {w} : worker'[v] = worker[v]
  BY <1>3 DEF RouteInv, WorkersOK
<1>6. \A v \in WorkerIds : /\ Used(v)' <=> Used(v)
                           /\ worker'[v].listens = worker[v].listens
  BY <1>4, <1>5 DEF Used
<1>7. WorkersOK'
  <2>1. ASSUME NEW v \in WorkerIds PROVE WorkerOK(worker[v])'
    <3>1. CASE v = w
      BY <1>1, <1>2, <1>4, <1>5, <3>1, WorkerFacts DEF RouteInv, WorkerOK, Good, Used
    <3>2. CASE v # w
      BY <1>1, <1>5, <3>2, WorkerFacts DEF RouteInv, WorkerOK, Good, Cancelled
    <3> QED
      BY <3>1, <3>2
  <2>2. worker' \in [WorkerIds -> Workers]
    BY <1>3, <1>4 DEF RouteInv, WorkersOK
  <2> QED
    BY <2>1, <2>2 DEF WorkersOK
<1>8. CurrentOK'
  <2>1. current # 0 => current \in WorkerIds /\ current # w /\ Used(current)
    BY <1>2, WorkerNumbers DEF RouteInv, CurrentOK, ClearCancels
  <2>2. ~BetweenTakes
    BY DEF BetweenTakes
  <2> QED
    BY <1>1, <1>5, <2>1, <2>2 DEF RouteInv, CurrentOK, Used, NoClear
<1>9. RpcOK' /\ ClearingOK'
  <2>1. RpcOK'
    BY <1>1, <1>6 DEF RouteInv, RpcOK, Good, Used, BetweenTakes
  <2> QED
    BY <1>1, <2>1, WorkerNumbers DEF ClearingOK, NoClear, Clears
<1>10. ListenersOK' /\ WorkersInOrder' /\ ChromeOK'
  <2>1. ListenersOK'
    BY <1>1, <1>6 DEF RouteInv, ListenersOK, ClearCancels
  <2> QED
    BY <1>1, <1>6, <2>1 DEF RouteInv, WorkersInOrder, ChromeOK
<1> QED
  BY <1>1, <1>7, <1>8, <1>9, <1>10 DEF RouteInv

-----------------------------------------------------------------------------
(***************************************************************************)
(* Every step of the Session keeps the routes in order.                    *)
(***************************************************************************)
LEMMA RouteStepRoutes ==
  ASSUME ContextInv, RouteInv, RoutesStep
  PROVE  RouteInv'
<1>1. UNCHANGED stage /\ RouteStep
  BY DEF RoutesStep, removalVars
<1>2. CASE Sync
  BY <1>1, <1>2, SnapshotRoutes, DisableRoutes, StopListenerRoutes, EnsureRoutes, BeginRoutes,
     ClaimRoutes, RecheckRoutes, ListenRoutes, EnableRoutes DEF Sync
<1>3. CASE \E w \in WorkerIds : Work(w)
  BY <1>1, <1>3, PopRoutes, AnswerRoutes, SelectRoutes, LoopEndsRoutes DEF Work
<1>4. CASE \E r \in Requests : Deliver(r) \/ \E u \in Urls : Request(r, u)
  BY <1>1, <1>4, DeliverRoutes, RequestRoutes
<1> QED
  BY <1>1, <1>2, <1>3, <1>4, EditRoutes, AskRoutes, AnsweredRoutes DEF RouteStep

LEMMA SessionRoutes ==
  ASSUME ContextInv, RouteInv, [SessionNext]_sessionVars
  PROVE  RouteInv'
<1>1. EntriesLast
  BY SessionContext, TakeContext, KeptLast DEF ForgetContext
<1>2. ASSUME UNCHANGED <<rules, gen, current, worker, rpc, clearing, fetch, req>>,
             \/ UNCHANGED stage /\ ~ForgetContext
             \/ stage = "rest" /\ stage' = "context" /\ ~ForgetContext
             \/ stage = "context" /\ stage' = "observer"
             \/ stage = "observer" /\ stage' = "routes" /\ ~ForgetContext
      PROVE  RouteInv'
  <2>1. ClearingOK'
    BY <1>2 DEF RouteInv, ClearingOK, Used
  <2>2. BetweenTakes' \/ (EntriesKept /\ ~BetweenTakes)
    BY <1>2, SessionContext DEF BetweenTakes
  <2> QED
    BY <1>1, <1>2, <2>1, <2>2, RoutesStay
<1>3. CASE \/ TargetStep \/ ContextStep \/ ObservingStep \/ UNCHANGED sessionVars
  <2>1. UNCHANGED <<routeVars, stage>>
    BY <1>3 DEF TargetStep, ContextStep, ObservingStep, sessionVars, removalVars
  <2>2. ~ForgetContext
    BY <2>1 DEF ForgetContext
  <2> QED
    BY <1>2, <2>1, <2>2 DEF routeVars, routeState, chromeFetch
<1>4. CASE RemovalBegins
  BY <1>2, <1>4 DEF RemovalBegins, routeState, ForgetContext
<1>5. CASE ForgetContext
  BY <1>2, <1>5 DEF ForgetContext, routeVars, routeState, chromeFetch
<1>6. CASE ForgetObservation
  BY <1>2, <1>6 DEF ForgetObservation, ForgetContext, routeVars, routeState, chromeFetch
<1>7. CASE ForgetRoutes
  BY <1>7, ClearRulesRoutes, ClearStopsRoutes, ClearCancelsRoutes DEF ForgetRoutes
<1> QED
  BY <1>3, <1>4, <1>5, <1>6, <1>7, RouteStepRoutes DEF SessionNext, RemovalStep

LEMMA RoutesStart ==
  ASSUME RoutesInit, stage = "rest"
  PROVE  RouteInv
<1>1. \A w \in WorkerIds : worker[w] = NoWorker /\ ~Used(w)
  BY DEF RoutesInit, Used, NoWorker
<1>2. NoWorker \in Workers
  <2>1. 0 \in 0..MaxEntries /\ <<>> \in Seq(Requests)
    BY EntryNumbers
  <2> QED
    BY <2>1 DEF NoWorker, Workers
<1>3. WorkerOK(NoWorker)
  <2>1. Cardinality({}) <= 1
    BY FS_EmptySet
  <2> QED
    BY <2>1 DEF WorkerOK, NoWorker
<1>4. WorkersOK
  BY <1>1, <1>2, <1>3 DEF WorkersOK, RoutesInit
<1>5. WorkersInOrder
  <2>1. \A w \in WorkerIds : Used(w) <=> w <= 0
    BY <1>1 DEF WorkerIds
  <2> QED
    BY <2>1, WorkerNumbers DEF WorkersInOrder
<1>6. CurrentOK /\ ListenersOK
  BY <1>1, WorkerNumbers DEF RoutesInit, CurrentOK, ListenersOK, NoWorker
<1>7. RpcOK
  BY WorkerNumbers, EntryNumbers DEF RoutesInit, RpcOK, NoRpc, Rpcs, Syncing, Listening
<1>8. ClearingOK
  BY WorkerNumbers DEF RoutesInit, ClearingOK, NoClear, Clears
<1>9. ChromeOK
  <2>1. 0 \in 0..MaxEntries
    BY EntryNumbers
  <2> QED
    BY <2>1 DEF RoutesInit, ChromeOK
<1> QED
  BY <1>4, <1>5, <1>6, <1>7, <1>8, <1>9 DEF RoutesInit, RouteInv

LEMMA RouteInvTyped == RouteInv => RoutesTypeOK
<1> SUFFICES ASSUME RouteInv PROVE RoutesTypeOK
  OBVIOUS
<1>1. ASSUME NEW w \in WorkerIds
      PROVE  /\ worker[w].pc \in {"unused", "pop", "answer", "select", "end", "gone"}
             /\ worker[w].queue \in Seq(Requests)
             /\ Cardinality(worker[w].hand) <= 1
             /\ worker[w].listens \in 0..MaxEntries
             /\ worker[w].hears => worker[w].listens # 0
  BY WorkerFacts DEF RouteInv, WorkerOK, Workers
<1> QED
  BY <1>1 DEF RouteInv, RoutesTypeOK, CurrentOK, ChromeOK

\* Whoever hears of paused requests is the target's worker, unless a removal or a
\* route RPC is under way.
LEMMA RouteInvImplies == ContextInv /\ RouteInv => NoOrphanListener
<1> SUFFICES ASSUME ContextInv, RouteInv, stage = "rest", rpc.pc = "rest",
                    NEW w \in WorkerIds, NEW e \in EntryIds, Hears(w, e)
             PROVE  w = current /\ ~Ended(w) /\ worker[w].pc \notin {"end", "gone"}
  BY DEF NoOrphanListener
<1>1. worker[w].listens # 0 /\ WorkerOK(worker[w])
  BY WorkerFacts DEF RouteInv, WorkerOK, Hears
<1>2. w = current
  BY <1>1 DEF RouteInv, ListenersOK, ClearingOK
<1>3. ~worker[w].cancelled /\ ~ent[worker[w].entry].cancelled
  BY <1>2, WorkerNumbers DEF RouteInv, CurrentOK, BetweenTakes
<1>4. ~lost
  BY DEF Hears, Cancelled
<1> QED
  BY <1>1, <1>2, <1>3, <1>4 DEF Ended, Cancelled, WorkerOK

-----------------------------------------------------------------------------
(***************************************************************************)
(* While nothing is disturbed, what was synced stays in force.             *)
(***************************************************************************)
LEMMA UndisturbedBefore ==
  ASSUME ContextInv, [SessionNext]_sessionVars, Undisturbed'
  PROVE  Undisturbed
<1>1. (live' => live) /\ (lost => lost')
  BY SessionContext
<1>2. ~stranded
  <2>1. ASSUME UNCHANGED stranded \/ stranded' = TRUE \/ stranded' = (stranded \/ live)
        PROVE  ~stranded
    BY <2>1 DEF Undisturbed
  <2>2. CASE UNCHANGED routeVars
    BY <2>1, <2>2 DEF routeVars, chromeFetch
  <2>3. CASE RouteStep
    BY <2>1, <2>3 DEF RouteStep, Route, Unroute, Edit, Ask, Answered, Sync, Snapshot, Disable,
        StopListener, EnsureWorker, BeginListening, Claim, Recheck, Listen, Enable, Work, Pop,
        Answer, Select, LoopEnds, Deliver, Request, chromeFetch
  <2>4. CASE RemovalBegins \/ ForgetRoutes
    BY <2>1, <2>4 DEF RemovalBegins, ForgetRoutes, ClearRules, ClearStops, ClearCancels, chromeFetch
  <2> QED
    BY <2>2, <2>3, <2>4 DEF SessionNext, TargetStep, ContextStep, RoutesStep, ObservingStep,
        RemovalStep, ForgetContext, ForgetObservation, sessionVars
<1> QED
  BY <1>1, <1>2 DEF Undisturbed

\* A good entry is the one in the pool.
LEMMA GoodPooled ==
  ASSUME ContextInv, NothingTaken, NEW e \in EntryIds, Good(e)
  PROVE  pool = e /\ pool # 0 /\ ~ent[e].cancelled
<1>1. EntryOK(ent[e], pool = e, lost) /\ ~ent[e].taken
  BY EntryFacts DEF NothingTaken
<1> QED
  BY <1>1, EntryNumbers DEF EntryOK, Good

\* The routes stay, the contexts change without a take.
LEMMA ForceStays ==
  ASSUME ContextInv, RouteInv, AllInForce, EntriesKept,
         UNCHANGED <<rules, gen, current, worker, rpc, fetch, synced, stage>>
  PROVE  AllInForce'
<1>1. NothingTaken'
  BY DEF AllInForce, NothingTaken, EntriesKept, EntryKept
<1>2. current # 0 => pool' = pool
  <2>1. ASSUME current # 0 PROVE pool # 0 /\ Good(pool)
    <3>1. current \in WorkerIds /\ Used(current)
      BY <2>1, WorkerNumbers DEF RouteInv, CurrentOK
    <3>2. WorkerOK(worker[current]) /\ worker[current].entry = pool
      BY <2>1, <3>1, WorkerFacts DEF RouteInv, AllInForce, OneWorker
    <3> QED
      BY <3>1, <3>2, EntryNumbers DEF WorkerOK, Used
  <2> QED
    BY <2>1 DEF EntriesKept
<1>3. OneWorker'
  BY <1>2 DEF AllInForce, OneWorker, Used
<1>4. SyncedInForce'
  <2>1. synced => pool' = pool /\ (Good(pool) => Good(pool)')
    <3>1. synced => pool \in EntryIds /\ pool # 0 /\ Good(pool) /\ pool' = pool
      BY EntryNumbers DEF AllInForce, SyncedInForce, EntriesKept, ContextInv, ContextTypeOK, EntryIds
    <3>2. \A e \in EntryIds : Good(e) => Good(e)'
      BY DEF EntriesKept, EntryKept, Good
    <3> QED
      BY <3>1, <3>2 DEF Good
  <2> QED
    BY <2>1 DEF AllInForce, SyncedInForce, Good
<1>5. RpcInForce'
  BY DEF AllInForce, RpcInForce
<1> QED
  BY <1>1, <1>3, <1>4, <1>5 DEF AllInForce

\* The loops of the workers go on: the RPC and the rules stay.
LEMMA WorkForce ==
  ASSUME RouteInv, AllInForce,
         UNCHANGED <<pool, ent, rules, gen, current, rpc, fetch, synced, stage>>,
         \A w \in WorkerIds : /\ Used(w)' <=> Used(w)
                              /\ worker'[w].entry = worker[w].entry
                              /\ worker'[w].listens = worker[w].listens
                              /\ worker'[w].hears = worker[w].hears,
         current # 0 => ~worker'[current].last /\ worker'[current].pc \notin {"end", "gone"}
  PROVE  AllInForce'
<1>1. current # 0 => current \in WorkerIds
  BY WorkerNumbers DEF RouteInv, CurrentOK
<1>2. NothingTaken'
  BY DEF AllInForce, NothingTaken
<1>3. OneWorker'
  BY <1>1 DEF AllInForce, OneWorker
<1>4. RpcInForce'
  <2>1. rpc.pc \in {"claimed", "listen", "listening", "again", "enable"} => rpc.worker \in WorkerIds
    BY DEF RouteInv, RpcOK, Listening
  <2> QED
    BY <2>1 DEF AllInForce, RpcInForce
<1>5. SyncedInForce'
  BY <1>1 DEF AllInForce, SyncedInForce, Good
<1> QED
  BY <1>2, <1>3, <1>4, <1>5 DEF AllInForce

\* The target's worker runs in a context that works.
LEMMA CurrentWorks ==
  ASSUME ContextInv, RouteInv, AllInForce, Undisturbed, current # 0
  PROVE  /\ current \in WorkerIds /\ Used(current) /\ worker[current] \in Workers
         /\ WorkerOK(worker[current])
         /\ pool \in EntryIds /\ Good(pool) /\ ~Cancelled(pool) /\ ~Ended(current)
<1>1. current \in WorkerIds /\ Used(current) /\ ~worker[current].cancelled
  BY WorkerNumbers DEF RouteInv, CurrentOK
<1>2. WorkerOK(worker[current]) /\ worker[current] \in Workers /\ worker[current].entry = pool
  BY <1>1, WorkerFacts DEF RouteInv, AllInForce, OneWorker
<1>3. pool \in EntryIds /\ Good(pool)
  BY <1>1, <1>2 DEF WorkerOK, Used
<1>4. ~Cancelled(pool)
  BY <1>3, GoodPooled DEF AllInForce, Cancelled, Undisturbed
<1> QED
  BY <1>1, <1>2, <1>3, <1>4 DEF Ended

LEMMA WorkerForce ==
  ASSUME ContextInv, RouteInv, AllInForce, Undisturbed, NEW w \in WorkerIds, Work(w),
         UNCHANGED stage, Undisturbed'
  PROVE  AllInForce'
<1>1. UNCHANGED <<pool, ent, rules, gen, current, rpc, fetch, synced, stage>>
  BY DEF Work, Pop, Answer, Select, LoopEnds, contextVars, routeState, chromeFetch
<1>2. Used(w) /\ w = current /\ current # 0
  BY WorkerNumbers DEF Work, Pop, Answer, Select, LoopEnds, At, Used, AllInForce, OneWorker
<1>3. /\ worker[w] \in Workers /\ ~Ended(w) /\ ~worker[w].last
      /\ worker[w].pc \notin {"end", "gone"}
  BY <1>2, CurrentWorks DEF AllInForce, OneWorker
<1>4. ASSUME NEW x, worker' = [worker EXCEPT ![w] = x],
             x.pc \notin {"unused", "end", "gone"}, ~x.last, x.entry = worker[w].entry,
             x.listens = worker[w].listens, x.hears = worker[w].hears
      PROVE  AllInForce'
  <2>1. worker'[w] = x /\ \A v \in WorkerIds \ {w} : worker'[v] = worker[v]
    BY <1>4 DEF RouteInv, WorkersOK
  <2>2. \A v \in WorkerIds : /\ Used(v)' <=> Used(v)
                             /\ worker'[v].entry = worker[v].entry
                             /\ worker'[v].listens = worker[v].listens
                             /\ worker'[v].hears = worker[v].hears
    BY <1>2, <1>4, <2>1 DEF Used
  <2> QED
    BY <1>1, <1>2, <1>4, <2>1, <2>2, WorkForce
<1>5. CASE Pop(w)
  <2>1. CASE worker[w].queue # <<>>
    <3> DEFINE h == {Head(worker[w].queue)}
               q == Tail(worker[w].queue)
               x == [worker[w] EXCEPT !.pc = "answer", !.hand = h, !.queue = q]
    <3>1. worker' = [worker EXCEPT ![w] = x]
      BY <1>5, <2>1 DEF Pop, RouteInv, WorkersOK
    <3> HIDE DEF h, q
    <3>2. /\ x.pc = "answer" /\ x.last = worker[w].last /\ x.entry = worker[w].entry
          /\ x.listens = worker[w].listens /\ x.hears = worker[w].hears
      BY <1>3 DEF Workers
    <3> HIDE DEF x
    <3> QED
      BY <1>3, <1>4, <3>1, <3>2
  <2>2. CASE worker[w].queue = <<>>
    <3> DEFINE x == [worker[w] EXCEPT !.pc = "select"]
    <3>1. worker' = [worker EXCEPT ![w] = x]
      BY <1>3, <1>5, <2>2 DEF Pop, RouteInv, WorkersOK
    <3>2. /\ x.pc = "select" /\ x.last = worker[w].last /\ x.entry = worker[w].entry
          /\ x.listens = worker[w].listens /\ x.hears = worker[w].hears
      BY <1>3 DEF Workers
    <3> HIDE DEF x
    <3> QED
      BY <1>3, <1>4, <3>1, <3>2
  <2> QED
    BY <2>1, <2>2
<1>6. CASE Answer(w)
  <2> DEFINE x == [worker[w] EXCEPT !.pc = "pop", !.hand = {}]
  <2>1. worker' = [worker EXCEPT ![w] = x]
    BY <1>6 DEF Answer, RouteInv, WorkersOK
  <2>2. /\ x.pc = "pop" /\ x.last = worker[w].last /\ x.entry = worker[w].entry
        /\ x.listens = worker[w].listens /\ x.hears = worker[w].hears
    BY <1>3 DEF Workers
  <2> HIDE DEF x
  <2> QED
    BY <1>3, <1>4, <2>1, <2>2
<1>7. CASE Select(w)
  <2> DEFINE x == [worker[w] EXCEPT !.pc = "pop", !.wake = FALSE]
  <2>1. worker' = [worker EXCEPT ![w] = x]
    BY <1>3, <1>7 DEF Select, RouteInv, WorkersOK
  <2>2. /\ x.pc = "pop" /\ x.last = worker[w].last /\ x.entry = worker[w].entry
        /\ x.listens = worker[w].listens /\ x.hears = worker[w].hears
    BY <1>3 DEF Workers
  <2> HIDE DEF x
  <2> QED
    BY <1>3, <1>4, <2>1, <2>2
<1>8. ~LoopEnds(w)
  BY <1>3 DEF LoopEnds, At
<1> QED
  BY <1>5, <1>6, <1>7, <1>8 DEF Work

LEMMA ChromeForce ==
  ASSUME ContextInv, RouteInv, AllInForce, NEW r \in Requests, UNCHANGED stage,
         Deliver(r) \/ \E u \in Urls : Request(r, u)
  PROVE  AllInForce'
<1>1. UNCHANGED <<pool, ent, rules, gen, current, rpc, fetch, synced, stage>>
  BY DEF Deliver, Request, contextVars, routeState
<1>2. ASSUME NEW w \in WorkerIds
      PROVE  /\ worker'[w].pc = worker[w].pc /\ worker'[w].last = worker[w].last
             /\ worker'[w].entry = worker[w].entry
             /\ worker'[w].listens = worker[w].listens
             /\ worker'[w].hears = worker[w].hears
  <2>1. worker[w] \in Workers
    BY WorkerFacts DEF RouteInv
  <2>2. CASE worker'[w] = worker[w]
    BY <2>2
  <2>3. CASE worker'[w] = [worker[w] EXCEPT !.queue = Append(@, r), !.wake = TRUE]
    <3> DEFINE q == Append(worker[w].queue, r)
    <3>1. worker'[w] = [worker[w] EXCEPT !.queue = q, !.wake = TRUE]
      BY <2>3
    <3> HIDE DEF q
    <3> QED
      BY <2>1, <3>1 DEF Workers
  <2> QED
    BY <2>2, <2>3 DEF Deliver, Request
<1>3. current # 0 => ~worker'[current].last /\ worker'[current].pc \notin {"end", "gone"}
  BY <1>2, WorkerNumbers DEF RouteInv, CurrentOK, AllInForce, OneWorker
<1> QED
  BY <1>1, <1>2, <1>3, WorkForce DEF Used

\* The RPC goes on, and leaves the worker alone.
LEMMA RpcForce ==
  ASSUME RouteInv, AllInForce, UNCHANGED <<pool, ent, gen, current, worker, stage>>,
         rpc.pc \notin {"claimed", "listen"} \/ rpc'.pc \in {"claimed", "listen"},
         RpcInForce', SyncedInForce'
  PROVE  AllInForce'
<1>1. NothingTaken'
  BY DEF AllInForce, NothingTaken
<1>2. OneWorker'
  BY DEF AllInForce, OneWorker, Used
<1> QED
  BY <1>1, <1>2 DEF AllInForce

\* Nothing is synced while an RPC that may change it is under way.
LEMMA NotSynced ==
  ASSUME AllInForce, rpc.pc \notin {"rest", "stop"}, UNCHANGED synced
  PROVE  SyncedInForce'
BY DEF AllInForce, SyncedInForce

LEMMA EditForce ==
  ASSUME RouteInv, AllInForce, Route \/ Unroute, UNCHANGED stage
  PROVE  AllInForce'
<1>1. /\ UNCHANGED <<pool, ent, gen, current, worker, stage>>
      /\ rpc.pc = "rest" /\ synced' = FALSE /\ rpc'.pc = "ask"
  BY DEF Route, Unroute, Edit, contextVars, Goto, RouteInv, RpcOK, Rpcs
<1>2. RpcInForce' /\ SyncedInForce'
  BY <1>1 DEF RpcInForce, SyncedInForce, Listening
<1> QED
  BY <1>1, <1>2, RpcForce

LEMMA AskForce ==
  ASSUME ContextInv, RouteInv, AllInForce, Ask, UNCHANGED stage
  PROVE  AllInForce'
<1>1. EntriesKept /\ UNCHANGED <<rules, gen, current, worker, fetch, synced>>
  BY FindContext DEF Ask, routeState, chromeFetch
<1>2. rpc.pc = "ask" /\ rpc'.pc = "wait" /\ ~synced /\ ~synced'
  <2>1. rpc'.pc = "wait" /\ rpc.pc = "ask" /\ UNCHANGED synced
    BY DEF Ask, RouteInv, RpcOK, Rpcs, chromeFetch
  <2> QED
    BY <2>1 DEF AllInForce, SyncedInForce
<1>3. NothingTaken'
  BY <1>1 DEF AllInForce, NothingTaken, EntriesKept, EntryKept
<1>4. OneWorker'
  <2>1. current # 0 => pool' = pool
    <3>1. ASSUME current # 0 PROVE pool # 0 /\ Good(pool)
      <4>1. current \in WorkerIds /\ Used(current)
        BY <3>1, WorkerNumbers DEF RouteInv, CurrentOK
      <4>2. WorkerOK(worker[current]) /\ worker[current].entry = pool
        BY <3>1, <4>1, WorkerFacts DEF RouteInv, AllInForce, OneWorker
      <4> QED
        BY <4>1, <4>2, EntryNumbers DEF WorkerOK, Used
    <3> QED
      BY <1>1, <3>1 DEF EntriesKept
  <2> QED
    BY <1>1, <1>2, <2>1 DEF AllInForce, OneWorker, Used
<1>5. RpcInForce' /\ SyncedInForce'
  BY <1>2 DEF RpcInForce, SyncedInForce, Listening
<1> QED
  BY <1>3, <1>4, <1>5 DEF AllInForce

\* The RPC ends, or goes on where the rules do not matter yet.
LEMMA FinishForce ==
  ASSUME RouteInv, AllInForce,
         UNCHANGED <<pool, ent, gen, current, worker, stage, synced>>,
         rpc.pc \notin {"rest", "stop", "claimed", "listen"},
         rpc' = NoRpc \/ rpc'.pc = "sync"
  PROVE  AllInForce'
<1>1. SyncedInForce'
  BY NotSynced
<1>2. RpcInForce'
  BY DEF RpcInForce, NoRpc, Listening
<1> QED
  BY <1>1, <1>2, RpcForce

LEMMA AnsweredForce ==
  ASSUME RouteInv, AllInForce, Answered, UNCHANGED stage
  PROVE  AllInForce'
<1>1. /\ UNCHANGED <<pool, ent, gen, current, worker, stage, synced>>
      /\ rpc.pc = "wait"
      /\ rpc' = NoRpc \/ rpc'.pc = "sync"
  BY DEF Answered, contextVars, routeState, chromeFetch, Goto, Finish, RouteInv, RpcOK, Rpcs
<1> QED
  BY <1>1, FinishForce

LEMMA SnapshotForce ==
  ASSUME RouteInv, AllInForce, Snapshot, UNCHANGED stage
  PROVE  AllInForce'
<1>1. /\ UNCHANGED <<pool, ent, rules, gen, current, worker, stage, synced>>
      /\ rpc.pc = "sync"
  BY DEF Snapshot, contextVars, routeState, chromeFetch
<1>2. /\ rpc'.pc = IF rules = {} THEN "disable" ELSE "ensure"
      /\ rpc'.urls = rules
  BY DEF Snapshot, RouteInv, RpcOK, Rpcs
<1>3. RpcInForce'
  BY <1>1, <1>2 DEF RpcInForce, Listening
<1> QED
  BY <1>1, <1>2, <1>3, NotSynced, RpcForce

LEMMA DisableForce ==
  ASSUME ContextInv, RouteInv, AllInForce, Disable, UNCHANGED stage, Undisturbed'
  PROVE  AllInForce'
<1>1. /\ UNCHANGED <<pool, ent, rules, gen, current, worker, stage>>
      /\ rpc.pc = "disable" /\ rpc'.pc = "stop"
      /\ fetch' = [fetch EXCEPT ![rpc.entry] = {}]
  BY DEF Disable, contextVars, routeState, Undisturbed, Goto, RouteInv, RpcOK, Rpcs
<1>2. rpc.entry \in EntryIds /\ Good(rpc.entry)
  BY <1>1 DEF RouteInv, RpcOK, Syncing
<1>3. pool = rpc.entry /\ pool # 0
  BY <1>2, GoodPooled DEF AllInForce
<1>4. rules = {}
  BY <1>1 DEF AllInForce, RpcInForce
<1>5. RpcInForce' /\ SyncedInForce'
  BY <1>1, <1>2, <1>3, <1>4 DEF RpcInForce, SyncedInForce, Listening, Good, RouteInv, ChromeOK
<1> QED
  BY <1>1, <1>5, RpcForce

LEMMA StopListenerForce ==
  ASSUME RouteInv, AllInForce, StopListener, UNCHANGED stage
  PROVE  AllInForce'
<1>1. /\ UNCHANGED <<pool, ent, rules, gen, current, fetch, synced, stage>>
      /\ rpc.pc = "stop" /\ rpc' = NoRpc
      /\ worker' = IF current = 0 THEN worker ELSE Stopped(current)
  BY DEF StopListener, contextVars, routeState, chromeFetch, Finish
<1>2. rules = {}
  BY <1>1 DEF AllInForce, RpcInForce
<1>3. ASSUME current # 0
      PROVE  /\ worker'[current].pc = worker[current].pc
             /\ worker'[current].last = worker[current].last
             /\ worker'[current].entry = worker[current].entry
             /\ worker'[current].listens = 0
             /\ \A w \in WorkerIds : Used(w)' <=> Used(w)
  <2>1. current \in WorkerIds /\ worker[current] \in Workers
    BY <1>3, WorkerNumbers, WorkerFacts DEF RouteInv, CurrentOK
  <2> DEFINE x == [worker[current] EXCEPT !.listens = 0, !.hears = FALSE]
  <2>2. worker' = [worker EXCEPT ![current] = x]
    BY <1>1, <1>3, <2>1 DEF Stopped, RouteInv, WorkersOK
  <2>3. /\ x.pc = worker[current].pc /\ x.last = worker[current].last
        /\ x.entry = worker[current].entry /\ x.listens = 0
    BY <2>1 DEF Workers
  <2> HIDE DEF x
  <2>4. worker'[current] = x /\ \A v \in WorkerIds \ {current} : worker'[v] = worker[v]
    BY <2>1, <2>2 DEF RouteInv, WorkersOK
  <2> QED
    BY <2>3, <2>4 DEF Used
<1>4. NothingTaken'
  BY <1>1 DEF AllInForce, NothingTaken
<1>5. OneWorker'
  <2>1. CASE current = 0
    BY <1>1, <2>1 DEF AllInForce, OneWorker, Used
  <2>2. CASE current # 0
    BY <1>1, <1>3, <2>2 DEF AllInForce, OneWorker
  <2> QED
    BY <2>1, <2>2
<1>6. RpcInForce' /\ SyncedInForce'
  BY <1>1, <1>2 DEF RpcInForce, NoRpc, Listening, AllInForce, SyncedInForce, Good
<1> QED
  BY <1>4, <1>5, <1>6 DEF AllInForce

LEMMA EnsureForce ==
  ASSUME ContextInv, RouteInv, AllInForce, EnsureWorker, UNCHANGED stage
  PROVE  AllInForce'
<1>1. /\ UNCHANGED <<pool, ent, rules, gen, fetch, synced, stage>>
      /\ rpc.pc = "ensure"
  BY DEF EnsureWorker, contextVars, chromeFetch
<1>2. rpc.entry \in EntryIds /\ Good(rpc.entry) /\ rules # {} /\ rpc.urls = rules
  BY <1>1 DEF RouteInv, RpcOK, Syncing, AllInForce, RpcInForce
<1>3. pool = rpc.entry /\ pool # 0
  BY <1>2, GoodPooled DEF AllInForce
<1>4. SyncedInForce'
  BY <1>1, NotSynced
<1>5. CASE rpc' = NoRpc /\ UNCHANGED <<current, worker>>
  BY <1>1, <1>5, FinishForce
<1>6. CASE rpc' = [rpc EXCEPT !.pc = "begin", !.worker = current']
  <2>1. rpc'.pc = "begin" /\ rpc'.urls = rules
    BY <1>2, <1>6 DEF RouteInv, RpcOK, Rpcs
  <2>2. RpcInForce'
    BY <1>1, <1>2, <2>1 DEF RpcInForce
  <2>3. CASE UNCHANGED <<current, worker>>
    BY <1>1, <1>4, <2>1, <2>2, <2>3, RpcForce
  <2>4. CASE current = 0 /\ NewWorker \in WorkerIds /\ current' = NewWorker
             /\ worker' = [worker EXCEPT ![NewWorker].pc = "pop", ![NewWorker].entry = rpc.entry]
    <3>1. PICK n \in WorkerIds : n = NewWorker
      BY <2>4
    <3>2. worker[n] = NoWorker
      BY <3>1, NewWorkerIs, WorkerFacts DEF RouteInv, WorkerOK, Used
    <3> DEFINE x == [NoWorker EXCEPT !.pc = "pop", !.entry = pool]
    <3>3. worker' = [worker EXCEPT ![n] = x]
      BY <1>3, <2>4, <3>1, <3>2 DEF RouteInv, WorkersOK
    <3>4. x.pc = "pop" /\ x.entry = pool /\ ~x.last /\ x.listens = 0
      BY DEF NoWorker
    <3> HIDE DEF x
    <3>5. worker'[n] = x /\ \A v \in WorkerIds \ {n} : worker'[v] = worker[v]
      BY <3>3 DEF RouteInv, WorkersOK
    <3>6. \A v \in WorkerIds : Used(v)' => v = n
      BY <2>4, <3>5, WorkerNumbers DEF AllInForce, OneWorker, Used
    <3>7. current' = n
      BY <2>4, <3>1
    <3>8. OneWorker'
      BY <1>1, <3>4, <3>5, <3>6, <3>7 DEF OneWorker
    <3>9. NothingTaken'
      BY <1>1 DEF AllInForce, NothingTaken
    <3> QED
      BY <1>4, <2>2, <3>8, <3>9 DEF AllInForce
  <2> QED
    BY <1>6, <2>3, <2>4 DEF EnsureWorker, Finish, NoRpc
<1> QED
  BY <1>5, <1>6 DEF EnsureWorker, Finish

\* While nothing was removed the RPC's generation is that of the target, and its worker
\* the target's.
LEMMA ListeningForce ==
  ASSUME ContextInv, RouteInv, AllInForce, Undisturbed, rpc.pc \in Listening
  PROVE  /\ rpc.gen = gen /\ rpc.worker = current /\ current # 0
         /\ rpc.entry = pool /\ pool # 0 /\ Good(pool)
         /\ rpc.urls = rules
         /\ rpc.pc \notin {"rest", "stop", "disable"}
         /\ rpc \in Rpcs
<1>1. rpc.gen = gen
  BY DEF RouteInv, RpcOK, Rpcs, AllInForce, NothingTaken
<1>2. rpc.worker = current /\ current # 0
  BY <1>1, WorkerNumbers DEF RouteInv, RpcOK
<1>3. rpc.entry \in EntryIds /\ Good(rpc.entry)
  BY DEF RouteInv, RpcOK, Syncing, Listening
<1>4. rpc.entry = pool /\ pool # 0
  BY <1>3, GoodPooled DEF AllInForce
<1>5. rpc.urls = rules /\ rpc.pc \notin {"rest", "stop", "disable"} /\ rpc \in Rpcs
  BY DEF AllInForce, RpcInForce, RouteInv, RpcOK, Listening
<1> QED
  BY <1>1, <1>2, <1>3, <1>4, <1>5

LEMMA BeginForce ==
  ASSUME ContextInv, RouteInv, AllInForce, Undisturbed, BeginListening, UNCHANGED stage
  PROVE  AllInForce'
<1>1. /\ UNCHANGED <<pool, ent, rules, gen, current, worker, stage, synced>>
      /\ rpc.pc = "begin" /\ rpc.pc \in Listening
  BY DEF BeginListening, contextVars, routeState, chromeFetch, Listening
<1>2. Goto("claim")
  BY <1>1, ListeningForce DEF BeginListening
<1>3. rpc'.pc = "claim" /\ rpc'.urls = rpc.urls
  BY <1>2 DEF Goto, RouteInv, RpcOK, Rpcs
<1>4. RpcInForce'
  BY <1>1, <1>3 DEF AllInForce, RpcInForce
<1> QED
  BY <1>1, <1>3, <1>4, NotSynced, RpcForce

\* A step of the RPC on the target's worker.
LEMMA ListenerForce ==
  ASSUME ContextInv, RouteInv, AllInForce, Undisturbed, rpc.pc \in Listening,
         UNCHANGED <<pool, ent, rules, gen, current, fetch, synced, stage>>,
         NEW x, worker' = [worker EXCEPT ![current] = x],
         x.pc = worker[current].pc, x.last = worker[current].last,
         x.entry = worker[current].entry, x.listens = pool,
         NEW p \in {"claimed", "listening"}, Goto(p), p = "claimed" \/ x.hears
  PROVE  AllInForce'
<1>1. /\ current \in WorkerIds /\ current # 0 /\ rpc.worker = current /\ pool # 0
      /\ rpc.urls = rules /\ rpc.pc \notin {"rest", "stop", "disable"}
  BY ListeningForce, CurrentWorks
<1>2. rpc'.pc = p /\ rpc'.worker = current /\ rpc'.urls = rules
  BY <1>1 DEF Goto, RouteInv, RpcOK, Rpcs
<1>3. worker'[current] = x /\ \A v \in WorkerIds \ {current} : worker'[v] = worker[v]
  BY <1>1 DEF RouteInv, WorkersOK
<1>4. NothingTaken'
  BY DEF AllInForce, NothingTaken
<1>5. OneWorker'
  BY <1>1, <1>2, <1>3 DEF AllInForce, OneWorker, Used
<1>6. RpcInForce'
  BY <1>1, <1>2, <1>3 DEF AllInForce, RpcInForce, Listening
<1>7. SyncedInForce'
  BY <1>1, NotSynced
<1> QED
  BY <1>4, <1>5, <1>6, <1>7 DEF AllInForce

LEMMA ClaimForce ==
  ASSUME ContextInv, RouteInv, AllInForce, Undisturbed, Claim, UNCHANGED stage
  PROVE  AllInForce'
<1>1. /\ UNCHANGED <<pool, ent, rules, gen, current, stage, synced, fetch>>
      /\ rpc.pc = "claim" /\ rpc.pc \in Listening
  BY DEF Claim, contextVars, routeState, chromeFetch, Listening
<1>2. /\ rpc.worker = current /\ current # 0 /\ rpc.entry = pool /\ current \in WorkerIds
      /\ worker[current] \in Workers /\ rpc.urls = rules
  BY <1>1, ListeningForce, CurrentWorks
<1>3. CASE worker[current].listens # 0 /\ Goto("again") /\ worker' = worker
  <2>1. rpc'.pc = "again" /\ rpc'.worker = current /\ rpc'.urls = rules
    BY <1>2, <1>3 DEF Goto, RouteInv, RpcOK, Rpcs
  <2>2. RpcInForce'
    BY <1>1, <1>2, <1>3, <2>1 DEF AllInForce, RpcInForce
  <2> QED
    BY <1>1, <1>3, <2>1, <2>2, NotSynced, RpcForce
<1>4. CASE Goto("claimed") /\ worker' = [worker EXCEPT ![current].listens = pool]
  <2> DEFINE x == [worker[current] EXCEPT !.listens = pool]
  <2>1. worker' = [worker EXCEPT ![current] = x]
    BY <1>2, <1>4 DEF RouteInv, WorkersOK
  <2>2. /\ x.pc = worker[current].pc /\ x.last = worker[current].last
        /\ x.entry = worker[current].entry /\ x.listens = pool
    BY <1>2 DEF Workers
  <2> HIDE DEF x
  <2> QED
    BY <1>1, <1>4, <2>1, <2>2, ListenerForce
<1> QED
  BY <1>2, <1>3, <1>4 DEF Claim

LEMMA ListenForce ==
  ASSUME ContextInv, RouteInv, AllInForce, Undisturbed, Listen, UNCHANGED stage
  PROVE  AllInForce'
<1>1. /\ UNCHANGED <<pool, ent, rules, gen, current, stage, synced, fetch>>
      /\ rpc.pc = "listen" /\ rpc.pc \in Listening /\ Goto("listening")
  BY DEF Listen, contextVars, routeState, chromeFetch, Listening
<1>2. /\ rpc.worker = current /\ current # 0 /\ current \in WorkerIds
      /\ worker[current] \in Workers
  BY <1>1, ListeningForce, CurrentWorks
<1>3. worker[current].listens # 0 /\ worker[current].listens = pool
  BY <1>1, <1>2 DEF AllInForce, RpcInForce, OneWorker
<1> DEFINE b == worker[current].hears \/ worker[current].listens # 0
           x == [worker[current] EXCEPT !.hears = b]
<1>4. worker' = [worker EXCEPT ![current] = x]
  BY <1>2 DEF Listen, RouteInv, WorkersOK
<1>5. b
  BY <1>3
<1> HIDE DEF b
<1>6. /\ x.pc = worker[current].pc /\ x.last = worker[current].last
      /\ x.entry = worker[current].entry /\ x.listens = pool /\ x.hears
  BY <1>2, <1>3, <1>5 DEF Workers
<1> HIDE DEF x
<1> QED
  BY <1>1, <1>4, <1>6, ListenerForce

LEMMA RecheckForce ==
  ASSUME ContextInv, RouteInv, AllInForce, Undisturbed, UNCHANGED stage,
         NEW from, NEW to, Recheck(from, to),
         <<from, to>> \in {<<"claimed", "listen">>, <<"listening", "enable">>,
                           <<"again", "enable">>}
  PROVE  AllInForce'
<1>1. /\ UNCHANGED <<pool, ent, rules, gen, current, stage, synced, fetch>>
      /\ rpc.pc = from /\ rpc.pc \in Listening
  BY DEF Recheck, contextVars, routeState, chromeFetch, Listening
<1>2. Goto(to) /\ UNCHANGED worker /\ rpc.worker = current /\ rpc \in Rpcs
  BY <1>1, ListeningForce DEF Recheck
<1>3. rpc'.pc = to /\ rpc'.worker = rpc.worker /\ rpc'.urls = rpc.urls
  BY <1>2 DEF Goto, Rpcs
<1>4. RpcInForce'
  BY <1>1, <1>2, <1>3 DEF AllInForce, RpcInForce, Listening
<1>5. rpc.pc \notin {"rest", "stop"}
  BY <1>1 DEF Listening
<1> QED
  BY <1>1, <1>2, <1>3, <1>4, <1>5, NotSynced, RpcForce

LEMMA EnableForce ==
  ASSUME ContextInv, RouteInv, AllInForce, Undisturbed, Enable, UNCHANGED stage
  PROVE  AllInForce'
<1>1. /\ UNCHANGED <<pool, ent, rules, gen, current, worker, stage>>
      /\ rpc.pc = "enable" /\ rpc.pc \in Listening /\ rpc' = NoRpc
  BY DEF Enable, contextVars, routeState, Listening, Finish
<1>2. CASE UNCHANGED synced
  BY <1>1, <1>2, FinishForce
<1>3. CASE fetch' = [fetch EXCEPT ![rpc.entry] = rpc.urls]
  <2>1. /\ rpc.entry = pool /\ rpc.urls = rules /\ rpc.worker = current /\ current # 0
        /\ pool # 0 /\ Good(pool) /\ pool \in EntryIds
    BY <1>1, ListeningForce, CurrentWorks
  <2>2. worker[current].hears
    BY <1>1, <2>1 DEF AllInForce, RpcInForce, OneWorker
  <2>3. RpcInForce'
    BY <1>1 DEF RpcInForce, NoRpc, Listening
  <2>4. fetch'[pool] = rules
    BY <1>3, <2>1 DEF RouteInv, ChromeOK
  <2>5. SyncedInForce'
    BY <1>1, <2>1, <2>2, <2>4 DEF SyncedInForce, NoRpc, Good
  <2> QED
    BY <1>1, <2>3, <2>5, RpcForce
<1> QED
  BY <1>2, <1>3 DEF Enable

\* Every step keeps what was synced in force.
LEMMA SessionForce ==
  ASSUME ContextInv, RouteInv, ForceInv, [SessionNext]_sessionVars
  PROVE  ForceInv'
<1> SUFFICES ASSUME Undisturbed' PROVE AllInForce'
  BY DEF ForceInv
<1>1. Undisturbed /\ AllInForce
  BY UndisturbedBefore DEF ForceInv
<1>2. stage = "rest"
  BY <1>1 DEF AllInForce, NothingTaken
<1>3. ~ForgetContext /\ ~ForgetObservation
  BY <1>2 DEF ForgetContext, ForgetObservation
<1>4. EntriesKept
  BY <1>3, SessionContext
<1>5. CASE UNCHANGED <<routeVars, stage>>
  BY <1>1, <1>4, <1>5, ForceStays DEF routeVars, routeState, chromeFetch
<1>6. CASE RoutesStep
  <2>1. UNCHANGED stage /\ RouteStep
    BY <1>6 DEF RoutesStep, removalVars
  <2>2. CASE Sync
    BY <1>1, <2>1, <2>2, SnapshotForce, DisableForce, StopListenerForce, EnsureForce, BeginForce,
       ClaimForce, RecheckForce, ListenForce, EnableForce DEF Sync
  <2>3. CASE \E w \in WorkerIds : Work(w)
    BY <1>1, <2>1, <2>3, WorkerForce
  <2>4. CASE \E r \in Requests : Deliver(r) \/ \E u \in Urls : Request(r, u)
    BY <1>1, <2>1, <2>4, ChromeForce
  <2> QED
    BY <1>1, <2>1, <2>2, <2>3, <2>4, EditForce, AskForce, AnsweredForce DEF RouteStep
<1>7. ~RemovalBegins
  BY <1>1 DEF RemovalBegins, Undisturbed
<1>8. ~ForgetRoutes
  BY <1>2 DEF ForgetRoutes
<1> QED
  BY <1>3, <1>5, <1>6, <1>7, <1>8 DEF SessionNext, RemovalStep, TargetStep, ContextStep,
     ObservingStep, sessionVars, removalVars

LEMMA ForceStart ==
  ASSUME ContextInit, RoutesInit, stage = "rest"
  PROVE  ForceInv
<1>1. NothingTaken
  BY DEF ContextInit, RoutesInit, NothingTaken, Unused
<1>2. OneWorker
  BY DEF RoutesInit, OneWorker, Used, NoWorker
<1>3. RpcInForce /\ SyncedInForce
  BY DEF RoutesInit, RpcInForce, SyncedInForce, NoRpc, Listening
<1> QED
  BY <1>1, <1>2, <1>3 DEF ForceInv, AllInForce

LEMMA ForceInvImplies == ContextInv /\ RouteInv /\ ForceInv => InstalledRoutesWork
<1> SUFFICES ASSUME ContextInv, RouteInv, ForceInv, synced, ~stranded, pool # 0, Usable(pool)
             PROVE  /\ fetch[pool] = rules
                    /\ rules # {} => current # 0 /\ Hears(current, pool) /\ ~Ended(current)
  BY DEF InstalledRoutesWork
<1>1. Undisturbed
  BY DEF Undisturbed, Usable, Serves, Reachable
<1>2. AllInForce
  BY <1>1 DEF ForceInv
<1>3. fetch[pool] = rules /\ (rules # {} => current # 0 /\ worker[current].hears)
  BY <1>2 DEF AllInForce, SyncedInForce
<1>4. ASSUME rules # {}
      PROVE  Hears(current, pool) /\ ~Ended(current)
  <2>1. /\ current # 0 /\ worker[current].hears /\ WorkerOK(worker[current]) /\ ~Cancelled(pool)
        /\ ~Ended(current)
    BY <1>1, <1>2, <1>3, <1>4, CurrentWorks
  <2> QED
    BY <1>2, <2>1 DEF Hears, WorkerOK, AllInForce, OneWorker
<1> QED
  BY <1>3, <1>4

-----------------------------------------------------------------------------
(***************************************************************************)
(* The theorems.                                                           *)
(***************************************************************************)
LEMMA SessionStart ==
  ASSUME SessionInit
  PROVE  SessionInv
<1>1. removals \in 0..MaxRemovals
  BY SessionAssumption DEF SessionInit
<1> QED
  BY <1>1, ContextStart, RoutesStart, ForceStart, LeaseStart, LossStart DEF SessionInit, SessionInv

LEMMA SessionStep ==
  ASSUME SessionInv, [SessionNext]_sessionVars
  PROVE  SessionInv'
<1>1. ContextInv' /\ RouteInv' /\ ForceInv'
  BY SessionContext, SessionRoutes, SessionForce DEF SessionInv
<1>2. ObservationMove /\ seq \in 0..MaxSeq
  BY SessionObservation DEF SessionInv, LossInv, CountersTyped
<1>3. LeaseInv'
  BY <1>2, LeaseStep DEF SessionInv
<1>4. LossInv'
  BY <1>2, <1>3, LossStep DEF SessionInv
<1>5. removals' \in 0..MaxRemovals
  <2>1. MaxRemovals \in Nat /\ removals \in 0..MaxRemovals
    BY SessionAssumption DEF SessionInv
  <2>2. CASE UNCHANGED removals
    BY <2>1, <2>2
  <2>3. CASE RemovalBegins
    BY <2>1, <2>3 DEF RemovalBegins
  <2> QED
    BY <2>2, <2>3 DEF SessionNext, TargetStep, ContextStep, RoutesStep, ObservingStep, RemovalStep,
       ForgetContext, ForgetObservation, ForgetRoutes, removalVars, sessionVars
<1> QED
  BY <1>1, <1>3, <1>4, <1>5 DEF SessionInv

\* Contexts, routes, observation and removal stay in order together, whatever RPCs,
\* removals, failures and losses there are.
LEMMA SessionHolds == Spec => []SessionInv
<1>1. SessionInit => SessionInv
  BY SessionStart
<1>2. SessionInv /\ [SessionNext]_sessionVars => SessionInv'
  BY SessionStep
<1> QED
  BY <1>1, <1>2, PTL DEF Spec

\* The variables of a Session keep their types: rings and queues their bounds, cursors
\* and the events owed below the last sequence number, listeners a session.
THEOREM SessionTyped == Spec => []SessionTypeOK
<1>1. SessionInv => SessionTypeOK
  BY RouteInvTyped, ObservationTyped
  DEF SessionInv, SessionTypeOK, ContextInv, RouteInv, ClearingOK
<1> QED
  BY <1>1, SessionHolds, PTL

\* tabChromeCtxContext never hands out an attach that failed or a context that
\* somebody cancelled, while the connection holds.
THEOREM PoolWorks == Spec => []PooledWorks
<1>1. SessionInv => PooledWorks
  BY ContextInvImplies DEF SessionInv
<1> QED
  BY <1>1, SessionHolds, PTL

\* The watcher of a context that initializeTabPoolEntry or releaseFailedAttach
\* cancelled does not close the tab: only one that ForgetTarget or CloseTarget took.
THEOREM FailureKeepsTab == Spec => FailedAttachKeepsTab
<1>1. ASSUME SessionInv
      PROVE  \A e \in EntryIds : (Watch(e) /\ live /\ ~live') => ent[e].taken
  <2>1. ASSUME NEW e \in EntryIds, Watch(e), live, ~live'
        PROVE  ent[e].taken
    <3>1. ~lost /\ ent[e].target /\ ent[e].cancelled
      BY <2>1 DEF Watch, Cancelled
    <3>2. EntryOK(ent[e], pool = e, lost)
      BY <1>1, EntryFacts DEF SessionInv
    <3> QED
      BY <3>1, <3>2 DEF EntryOK
  <2> QED
    BY <2>1
<1>2. SessionInv =>
         [\A e \in EntryIds : (Watch(e) /\ live /\ ~live') => ent[e].taken]_<<targetVars, contextVars>>
  BY <1>1
<1> QED
  BY <1>2, SessionHolds, PTL DEF FailedAttachKeepsTab

\* startListening and ClearRoutesForTarget, in whatever order their steps come, leave
\* no listener behind whose worker does not answer.
THEOREM ListenersOwned == Spec => []NoOrphanListener
<1>1. SessionInv => NoOrphanListener
  BY RouteInvImplies DEF SessionInv
<1> QED
  BY <1>1, SessionHolds, PTL

\* What syncRoutes reports as done is what Chrome pauses, and its worker hears of it.
THEOREM RulesInForce == Spec => []InstalledRoutesWork
<1>1. SessionInv => InstalledRoutesWork
  BY ForceInvImplies DEF SessionInv
<1> QED
  BY <1>1, SessionHolds, PTL

\* EnsureObservation, expire and failed commands in any order leave the domains of the
\* kinds with a fresh lease on.
THEOREM LeasesHold == Spec => []LeasedDomainsOn
<1>1. SessionInv => LeasedDomainsOn
  BY LeaseInvImplies DEF SessionInv
<1> QED
  BY <1>1, SessionHolds, PTL

\* Whatever the queue, the ring, a failed encoding or a cursor that has moved on takes
\* from a client that polls is in the "dropped" of its replies.
THEOREM LossesCounted == Spec => []LossIsCounted
<1>1. SessionInv => LossIsCounted
  BY DEF SessionInv, LossInv
<1> QED
  BY <1>1, SessionHolds, PTL
=============================================================================
