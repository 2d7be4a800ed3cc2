---------------------------- MODULE NetworkRoutes ----------------------------
(***************************************************************************)
(* The request routes of one target (internal/browser/network_routes.go):  *)
(* network_route and network_unroute edit the rules and then bring         *)
(* Chrome's Fetch domain and a listener in line with them; a worker        *)
(* answers the requests Chrome pauses; ClearRoutesForTarget may come at    *)
(* any moment.  One route RPC runs at a time, under the lock of the tab.   *)
(* Of the rules only the patterns matter here: which requests are paused,  *)
(* and that somebody answers them, not with what.                          *)
(***************************************************************************)
EXTENDS TabContext, Sequences

CONSTANTS
    Urls,        \* URLs, each matched by the pattern of the same name
    Requests,    \* the requests the page makes
    MaxCalls,    \* bound on route RPCs and removals together
    MaxWorkers   \* bound on the workers that are created

ASSUME RoutesAssumption ==
    /\ MaxCalls \in Nat
    /\ MaxWorkers \in Nat \ {0}

VARIABLES
    rules,     \* routeState.rules[target]: the patterns that have a rule
    gen,       \* routeState.gen[target]
    current,   \* routeState.workers[target], 0 for none
    worker,    \* the routeWorkers ever created
    rpc,       \* the route RPC: its position and local variables
    clearing,  \* ClearRoutesForTarget: its position and the worker it took
    fetch,     \* Chrome: the URLs that the Fetch domain of each CDP session pauses
    req,       \* Chrome: what has become of each request
    calls,     \* number of route RPCs and removals so far
    synced,    \* the last route RPC has brought Chrome in line (a history variable)
    stranded   \* a request may wait for nobody: Disable or an answer failed, or a tab
               \* that Chrome still has was removed (a history variable)

chromeFetch == <<fetch, req, synced, stranded>>
routeState == <<rules, gen, current>>
routeVars == <<routeState, worker, rpc, clearing, chromeFetch, calls>>

WorkerIds == 1..MaxWorkers

\* A worker: where its goroutine is, and whether it dispatches for the last time;
\* whether its own context is cancelled, and the entry that context comes from; the
\* wake token, the queue and the request in hand; the entry of its listener's context
\* (listening, listenCancel), 0 for none, and whether that listener is registered.
NoWorker == [pc |-> "unused", last |-> FALSE, cancelled |-> FALSE, entry |-> 0,
             wake |-> FALSE, queue |-> <<>>, hand |-> {}, listens |-> 0, hears |-> FALSE]
NoRpc == [pc |-> "rest", entry |-> 0, urls |-> {}, gen |-> 0, worker |-> 0]
NoClear == [pc |-> "rest", worker |-> 0]

Goto(pc) == rpc' = [rpc EXCEPT !.pc = pc]
Finish == rpc' = NoRpc

\* stopListening.
\* Planted bug: "listening" stays set.
StoppedListening(w) == [worker EXCEPT ![w].hears = FALSE]
Stopped(w) == [worker EXCEPT ![w].listens = 0, ![w].hears = FALSE]
\* The context of w's loop is done.
Ended(w) == worker[w].cancelled \/ Cancelled(worker[w].entry)
\* Events of session e reach onPaused of w.
Hears(w, e) == worker[w].hears /\ worker[w].listens = e /\ ~Cancelled(e)
\* Chrome holds request r back.
Waiting(r) == req[r].at = "paused" /\ Serves(req[r].by)

-----------------------------------------------------------------------------
(***************************************************************************)
(* Chrome (external).                                                      *)
(***************************************************************************)
\* The page asks for u, and a session whose patterns match pauses the request.
Request(r, u) ==
    /\ Reachable
    /\ req[r].at = "new"
    /\ LET pausers == {e \in EntryIds : Serves(e) /\ u \in fetch[e]}
       IN  IF pausers = {}
           THEN req' = [req EXCEPT ![r].at = "through"]
           ELSE \E e \in pausers :
                    req' = [req EXCEPT ![r] = [at |-> "paused", by |-> e, event |-> TRUE]]
    /\ UNCHANGED <<targetVars, contextVars, routeState, worker, rpc, clearing, calls,
                   fetch, synced, stranded>>

\* onPaused: Fetch.requestPaused reaches the listeners of its session; the wake
\* token is sent without blocking.
\* Planted bug: the token is sent only if something was queued already.
DeliverUnwoken(r) ==
    /\ req[r].event
    /\ req' = [req EXCEPT ![r].event = FALSE]
    /\ worker' = [w \in WorkerIds |->
                     IF Hears(w, req[r].by)
                     THEN [worker[w] EXCEPT !.queue = Append(@, r),
                                            !.wake = @ \/ worker[w].queue # <<>>]
                     ELSE worker[w]]
    /\ UNCHANGED <<targetVars, contextVars, routeState, rpc, clearing, calls,
                   fetch, synced, stranded>>
Deliver(r) ==
    /\ req[r].event
    /\ req' = [req EXCEPT ![r].event = FALSE]
    /\ worker' = [w \in WorkerIds |->
                     IF Hears(w, req[r].by)
                     THEN [worker[w] EXCEPT !.queue = Append(@, r), !.wake = TRUE]
                     ELSE worker[w]]
    /\ UNCHANGED <<targetVars, contextVars, routeState, rpc, clearing, calls,
                   fetch, synced, stranded>>

-----------------------------------------------------------------------------
(***************************************************************************)
(* AppendNetworkRouteContext and RemoveNetworkRoutesContext edit the rules *)
(* and ask for the tab's context.                                          *)
(***************************************************************************)
Edit(rs) ==
    /\ rpc.pc = "rest"
    /\ calls < MaxCalls
    /\ calls' = calls + 1
    /\ rules' = rs
    /\ synced' = FALSE
    /\ Goto("ask")
    /\ UNCHANGED <<targetVars, contextVars, gen, current, worker, clearing, fetch, req, stranded>>

\* Unroute removes the rules of one pattern, or all of them.
Route == \E u \in Urls : Edit(rules \cup {u})
Unroute == \E us \in {{u} : u \in Urls} \cup {Urls} : Edit(rules \ us)

Ask ==
    /\ rpc.pc = "ask"
    /\ FindEntry
    /\ rpc' = [rpc EXCEPT !.pc = "wait", !.entry = pool']
    /\ UNCHANGED <<targetVars, routeState, worker, clearing, chromeFetch, calls>>

\* The context is attached; or it is not, or the request ends first, and the rules
\* stay as they were edited.
Answered ==
    /\ rpc.pc = "wait"
    /\ \/ Published(rpc.entry) /\ ent[rpc.entry].err = "none" /\ Goto("sync")
       \/ Finish
    /\ UNCHANGED <<targetVars, contextVars, routeState, worker, clearing, chromeFetch, calls>>

-----------------------------------------------------------------------------
(***************************************************************************)
(* The rest of syncRoutes, under cdpMu.                                    *)
(***************************************************************************)
Snapshot ==
    /\ rpc.pc = "sync"
    /\ rpc' = [rpc EXCEPT !.pc = IF rules = {} THEN "disable" ELSE "ensure",
                          !.urls = rules,
                          !.gen = gen]
    /\ UNCHANGED <<targetVars, contextVars, routeState, worker, clearing, chromeFetch, calls>>

\* Fetch.disable continues whatever its session has paused.
Disable ==
    /\ rpc.pc = "disable"
    /\ \/ /\ Usable(rpc.entry)
          /\ fetch' = [fetch EXCEPT ![rpc.entry] = {}]
          /\ req' = [r \in Requests |-> IF req[r].at = "paused" /\ req[r].by = rpc.entry
                                        THEN [req[r] EXCEPT !.at = "released"] ELSE req[r]]
          /\ synced' = TRUE
          /\ UNCHANGED stranded
       \/ /\ stranded' = TRUE
          /\ UNCHANGED <<fetch, req, synced>>
    /\ Goto("stop")
    /\ UNCHANGED <<targetVars, contextVars, routeState, worker, clearing, calls>>

\* The listener is stopped whether or not Disable worked.
StopListener ==
    /\ rpc.pc = "stop"
    /\ worker' = IF current = 0 THEN worker ELSE Stopped(current)
    /\ Finish
    /\ UNCHANGED <<targetVars, contextVars, routeState, clearing, chromeFetch, calls>>

\* Workers are created in order.
NewWorker == Cardinality({w \in WorkerIds : worker[w].pc # "unused"}) + 1

EnsureWorker ==
    /\ rpc.pc = "ensure"
    /\ \/ /\ gen # rpc.gen \/ rules = {}
          /\ Finish
          /\ UNCHANGED <<current, worker>>
       \/ /\ gen = rpc.gen /\ rules # {}
          /\ IF current # 0
             THEN UNCHANGED <<current, worker>>
             ELSE /\ NewWorker \in WorkerIds
                  /\ current' = NewWorker
                  /\ worker' = [worker EXCEPT ![NewWorker].pc = "pop",
                                              ![NewWorker].entry = rpc.entry]
          /\ rpc' = [rpc EXCEPT !.pc = "begin", !.worker = current']
    /\ UNCHANGED <<targetVars, contextVars, rules, gen, clearing, chromeFetch, calls>>

\* startListening looks at the generation before it claims the listener, ...
BeginListening ==
    /\ rpc.pc = "begin"
    /\ IF gen = rpc.gen THEN Goto("claim") ELSE Finish
    /\ UNCHANGED <<targetVars, contextVars, routeState, worker, clearing, chromeFetch, calls>>

Claim ==
    /\ rpc.pc = "claim"
    /\ IF worker[rpc.worker].listens # 0
       THEN Goto("again") /\ UNCHANGED worker
       ELSE Goto("claimed") /\ worker' = [worker EXCEPT ![rpc.worker].listens = rpc.entry]
    /\ UNCHANGED <<targetVars, contextVars, routeState, clearing, chromeFetch, calls>>

\* ... after it, and once the listener is registered, and then takes it back.
\* Planted bug: the generation is not looked at again.
RecheckNot(from, to) ==
    /\ rpc.pc = from
    /\ Goto(to)
    /\ UNCHANGED <<targetVars, contextVars, routeState, worker, clearing, chromeFetch, calls>>
Recheck(from, to) ==
    /\ rpc.pc = from
    /\ IF gen = rpc.gen
       THEN Goto(to) /\ UNCHANGED worker
       ELSE worker' = Stopped(rpc.worker) /\ Finish
    /\ UNCHANGED <<targetVars, contextVars, routeState, clearing, chromeFetch, calls>>

\* A listener whose context is cancelled by now hears nothing.
Listen ==
    /\ rpc.pc = "listen"
    /\ worker' = [worker EXCEPT ![rpc.worker].hears = @ \/ worker[rpc.worker].listens # 0]
    /\ Goto("listening")
    /\ UNCHANGED <<targetVars, contextVars, routeState, clearing, chromeFetch, calls>>

\* Fetch.enable with the patterns of the snapshot.
Enable ==
    /\ rpc.pc = "enable"
    /\ \/ /\ Usable(rpc.entry)
          /\ fetch' = [fetch EXCEPT ![rpc.entry] = rpc.urls]
          /\ synced' = TRUE
       \/ UNCHANGED <<fetch, synced>>
    /\ Finish
    /\ UNCHANGED <<targetVars, contextVars, routeState, worker, clearing, req, calls, stranded>>

Sync == \/ Snapshot \/ Disable \/ StopListener \/ EnsureWorker \/ BeginListening \/ Claim
        \/ Recheck("claimed", "listen") \/ Listen
        \/ Recheck("listening", "enable") \/ Recheck("again", "enable") \/ Enable

-----------------------------------------------------------------------------
(***************************************************************************)
(* routeWorker.loop.                                                       *)
(***************************************************************************)
At(w, pc) == worker[w].pc = pc

Pop(w) ==
    /\ At(w, "pop")
    /\ worker' =
           IF worker[w].queue # <<>>
           THEN [worker EXCEPT ![w].pc = "answer", ![w].hand = {Head(worker[w].queue)},
                               ![w].queue = Tail(@)]
           ELSE [worker EXCEPT ![w].pc = IF worker[w].last THEN "end" ELSE "select"]
    /\ UNCHANGED <<targetVars, contextVars, routeState, rpc, clearing, chromeFetch, calls>>

\* applyPaused: mocked or failed as the first rule for the URL says, continued when
\* there is none by now.  An answer that fails is not repeated.
Answer(w) ==
    /\ At(w, "answer")
    /\ \E r \in worker[w].hand :
           \/ /\ req' = IF /\ req[r].at = "paused"
                           /\ req[r].by = worker[w].entry
                           /\ Usable(worker[w].entry)
                        THEN [req EXCEPT ![r].at = "answered"] ELSE req
              /\ UNCHANGED stranded
           \/ /\ stranded' = TRUE
              /\ UNCHANGED req
    /\ worker' = [worker EXCEPT ![w].pc = "pop", ![w].hand = {}]
    /\ UNCHANGED <<targetVars, contextVars, routeState, rpc, clearing, fetch, calls, synced>>

Select(w) ==
    /\ At(w, "select")
    /\ \/ Ended(w) /\ worker' = [worker EXCEPT ![w].pc = "pop", ![w].last = TRUE]
       \/ worker[w].wake /\ worker' = [worker EXCEPT ![w].pc = "pop", ![w].wake = FALSE]
    /\ UNCHANGED <<targetVars, contextVars, routeState, rpc, clearing, chromeFetch, calls>>

\* The deferred stopListening.
LoopEnds(w) ==
    /\ At(w, "end")
    /\ worker' = [Stopped(w) EXCEPT ![w].pc = "gone"]
    /\ UNCHANGED <<targetVars, contextVars, routeState, rpc, clearing, chromeFetch, calls>>

Work(w) == Pop(w) \/ Answer(w) \/ Select(w) \/ LoopEnds(w)

-----------------------------------------------------------------------------
(***************************************************************************)
(* ClearRoutesForTarget.                                                   *)
(***************************************************************************)
ClearRules ==
    /\ clearing.pc = "rest"
    /\ rules' = {}
    /\ gen' = gen + 1
    /\ current' = 0
    /\ clearing' = IF current = 0 THEN NoClear ELSE [pc |-> "stop", worker |-> current]
    /\ UNCHANGED <<targetVars, contextVars, worker, rpc, chromeFetch, calls>>

ClearStops ==
    /\ clearing.pc = "stop"
    /\ worker' = Stopped(clearing.worker)
    /\ clearing' = [clearing EXCEPT !.pc = "cancel"]
    /\ UNCHANGED <<targetVars, contextVars, routeState, rpc, chromeFetch, calls>>

ClearCancels ==
    /\ clearing.pc = "cancel"
    /\ worker' = [worker EXCEPT ![clearing.worker].cancelled = TRUE]
    /\ clearing' = NoClear
    /\ UNCHANGED <<targetVars, contextVars, routeState, rpc, chromeFetch, calls>>

-----------------------------------------------------------------------------
RoutesInit ==
    /\ rules = {}
    /\ gen = 0
    /\ current = 0
    /\ worker = [w \in WorkerIds |-> NoWorker]
    /\ rpc = NoRpc
    /\ clearing = NoClear
    /\ fetch = [e \in EntryIds |-> {}]
    /\ req = [r \in Requests |-> [at |-> "new", by |-> 0, event |-> FALSE]]
    /\ calls = 0
    /\ synced = FALSE
    /\ stranded = FALSE

RouteStep ==
    \/ Route \/ Unroute \/ Ask \/ Answered \/ Sync
    \/ \E w \in WorkerIds : Work(w)
    \/ \E r \in Requests : Deliver(r) \/ \E u \in Urls : Request(r, u)

-----------------------------------------------------------------------------
RoutesTypeOK ==
    /\ rules \subseteq Urls /\ gen \in Nat /\ current \in 0..MaxWorkers
    /\ \A w \in WorkerIds :
          /\ worker[w].pc \in {"unused", "pop", "answer", "select", "end", "gone"}
          /\ worker[w].queue \in Seq(Requests)
          /\ Cardinality(worker[w].hand) <= 1
          /\ worker[w].listens \in 0..MaxEntries
          /\ worker[w].hears => worker[w].listens # 0
    /\ fetch \in [EntryIds -> SUBSET Urls]
    /\ req \in [Requests -> [at : {"new", "through", "paused", "released", "answered"},
                            by : 0..MaxEntries, event : BOOLEAN]]
=============================================================================
