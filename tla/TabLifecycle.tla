----------------------------- MODULE TabLifecycle -----------------------------
(***************************************************************************)
(* The life of tabs in the daemon: RPC handlers, target events, the        *)
(* resync, the idle sweeper and restarts, working concurrently on the      *)
(* registry (TabRegistry), the idle tracker (internal/state/tab_idle.go),  *)
(* the cached CDP contexts of the session and the per-tab locks.           *)
(*                                                                         *)
(* What a goroutine learnt from Chrome (the reply to Target.getTargets) it *)
(* applies later, in several steps, each under a mutex of its own; so the  *)
(* steps of the handlers, of the watcher (runTargetSync) and of the        *)
(* sweeper (closeExpiredTabs) interleave between them.  The locks are      *)
(* KeyedMutex, which TabLock implements.                                   *)
(*                                                                         *)
(* Time is abstracted: a tracked tab's last activity is recent or expired. *)
(***************************************************************************)
EXTENDS TabRegistry

CONSTANTS
    Clients,       \* goroutines serving RPCs
    ClientOps,     \* what they are asked: "new", "list", "select", "use", "close"
    UserTargets,   \* targets the user may open
    NewTargets,    \* targets tab_new may create
    QueueCap,      \* capacity of Session.targetEvents (256)
    MaxRestarts    \* bound on restarts of the daemon

ASSUME LifecycleAssumption ==
    /\ Clients \cap {"watcher", "sweeper", "starter"} = {}
    /\ ClientOps \subseteq {"new", "list", "select", "use", "close"}
    /\ UserTargets \subseteq Targets
    /\ NewTargets \subseteq Targets
    /\ QueueCap \in Nat \ {0}
    /\ MaxRestarts \in Nat

VARIABLES
    chrome,      \* what Chrome has: target -> "unborn", "live" or "gone"
    events,      \* Session.targetEvents
    dirty,       \* Session.targetDirty
    idle,        \* TabIdleTracker.managed: target -> last activity
    attached,    \* Session.tabPool: targets with a cached CDP context
    holders,     \* the per-tab locks
    at,          \* where each goroutine is
    expiredList, \* the sweeper's snapshot of expired targets
    logged,      \* short ids rpc.jsonl records as daemon-created and not closed
    restarts

chromeVars == <<chrome, events, dirty>>
lifecycleVars == <<registryVars, chromeVars, idle, attached, holders, at, expiredList,
                   logged, restarts>>

Procs == Clients \cup {"watcher", "sweeper", "starter"}
Locks == INSTANCE KeyedMutex WITH Tabs <- ShortIds

\* idle[t]: not tracked; expired; renewed under the tab's lock by an operation;
\* or renewed without it (tab_new, tab_select, reconciliation).
IdleValues == {"none", "expired", "op", "other"}

Live == {t \in Targets : chrome[t] = "live"}
Tracked == {t \in Targets : idle[t] # "none"}

\* A goroutine: its position, the operation it runs, the short id it was given,
\* the target it acts on, the targets of its last getTargets reply, the removed
\* targets it has still to clear, whether a sync is what removed them, and the
\* short ids of the log it has still to reconcile.
Rest == [pc |-> "rest", op |-> "none", tab |-> None, target |-> None,
         snap |-> {}, todo |-> {}, syncing |-> FALSE, ids |-> {}]
Starting == at["starter"].pc # "rest"
Goto(p, pc) == at' = [at EXCEPT ![p].pc = pc]
Finish(p) == at' = [at EXCEPT ![p] = Rest]

-----------------------------------------------------------------------------
(***************************************************************************)
(* Chrome and the user (external), and the event queue.                    *)
(***************************************************************************)
\* enqueueTargetEvent: an event that finds the queue full marks it dirty.
\* Planted bug: the queue is not bounded.
EnqueueUnbounded(kind, t) ==
    events' = Append(events, [kind |-> kind, target |-> t]) /\ UNCHANGED dirty
Enqueue(kind, t) ==
    IF Len(events) < QueueCap
    THEN /\ events' = Append(events, [kind |-> kind, target |-> t])
         /\ UNCHANGED dirty
    ELSE /\ dirty' = TRUE
         /\ UNCHANGED events

Appears(t) == /\ chrome[t] = "unborn"
              /\ chrome' = [chrome EXCEPT ![t] = "live"]
              /\ Enqueue("page", t)
Disappears(t) == /\ chrome[t] = "live"
                 /\ chrome' = [chrome EXCEPT ![t] = "gone"]
                 /\ Enqueue("gone", t)

UserOpens(t) ==
    /\ t \in UserTargets
    /\ Appears(t)
    /\ UNCHANGED <<registryVars, idle, attached, holders, at, expiredList, logged, restarts>>
UserCloses(t) ==
    /\ Disappears(t)
    /\ UNCHANGED <<registryVars, idle, attached, holders, at, expiredList, logged, restarts>>

\* Target.targetInfoChanged of a page: a new title, a navigation.
InfoChanged(t) ==
    /\ chrome[t] = "live"
    /\ Enqueue("page", t)
    /\ UNCHANGED <<chrome, registryVars, idle, attached, holders, at, expiredList, logged,
                   restarts>>

\* The clock passes the idle timeout of t.
Expire(t) ==
    /\ idle[t] \in {"op", "other"}
    /\ idle' = [idle EXCEPT ![t] = "expired"]
    /\ UNCHANGED <<registryVars, chromeVars, attached, holders, at, expiredList, logged,
                   restarts>>

-----------------------------------------------------------------------------
(***************************************************************************)
(* syncTabsFromTargets, whoever calls it.                                  *)
(***************************************************************************)
\* PageTargetsContext: the reply is what Chrome has now.
Capture(p) ==
    /\ at[p].pc = "capture"
    /\ at' = [at EXCEPT ![p].pc = "apply", ![p].snap = Live, ![p].syncing = TRUE]
    /\ UNCHANGED <<registryVars, chromeVars, idle, attached, holders, expiredList, logged,
                   restarts>>

\* SyncPageTargetsDetailed with the reply.
Apply(p) ==
    /\ at[p].pc = "apply"
    /\ SyncPageTargets(at[p].snap)
    /\ at' = [at EXCEPT ![p].pc = "clear", ![p].todo = RemovedBy(at[p].snap)]
    /\ UNCHANGED <<chromeVars, idle, attached, holders, expiredList, logged, restarts>>

\* clearRemovedTarget stops tracking a removed target ...
Untrack(p) ==
    /\ at[p].pc = "clear"
    /\ \E t \in at[p].todo :
           /\ idle' = [idle EXCEPT ![t] = "none"]
           /\ at' = [at EXCEPT ![p].pc = "detach", ![p].target = t, ![p].todo = @ \ {t}]
    /\ UNCHANGED <<registryVars, chromeVars, attached, holders, expiredList, logged, restarts>>

\* ... and drops its cached context (ForgetTarget): cancelling the context of a
\* target that is still there closes it.  tabConn waits for tabMu, which
\* connectBrowserLocked holds until the start is over.
Detach(p) ==
    /\ at[p].pc = "detach"
    /\ ~Starting
    /\ LET t == at[p].target
       IN  /\ attached' = attached \ {t}
           /\ IF t \in attached \cap Live THEN Disappears(t) ELSE UNCHANGED chromeVars
    /\ IF at[p].op = "event" THEN Finish(p) ELSE Goto(p, "clear")
    /\ UNCHANGED <<registryVars, idle, holders, expiredList, logged, restarts>>

\* syncTabIdlePresence ends the sync; what follows depends on the caller.
AfterSync(op) == CASE op \in {"resync", "start"} -> "reconcile"
                   [] op \in {"list", "select"} -> "answer"
                   [] op \in {"use", "close", "sweep"} -> "retry"
Present(p) ==
    /\ at[p].pc = "clear" /\ at[p].todo = {} /\ at[p].syncing
    /\ idle' = [t \in Targets |-> IF t \in at[p].snap THEN idle[t] ELSE "none"]
    /\ at' = [at EXCEPT ![p].pc = AfterSync(at[p].op), ![p].target = None, ![p].syncing = FALSE,
                        ![p].snap = IF AfterSync(at[p].op) = "reconcile" THEN @ ELSE {}]
    /\ UNCHANGED <<registryVars, chromeVars, attached, holders, expiredList, logged, restarts>>

SyncStep(p) == Capture(p) \/ Apply(p) \/ Untrack(p) \/ Detach(p) \/ Present(p)

\* reconcileIdleFromLog replays the log; each short id is looked up then, ...
ReadLog(p) ==
    /\ at[p].pc = "reconcile"
    /\ at' = [at EXCEPT ![p].pc = "resolve", ![p].ids = logged]
    /\ UNCHANGED <<registryVars, chromeVars, idle, attached, holders, expiredList, logged,
                   restarts>>
ResolveLogged(p) ==
    /\ at[p].pc = "resolve"
    /\ \E s \in at[p].ids :
           at' = [at EXCEPT ![p].ids = @ \ {s}, ![p].target = Lookup(s),
                            ![p].pc = IF Lookup(s) \in at[p].snap THEN "mark" ELSE "resolve"]
    /\ UNCHANGED <<registryVars, chromeVars, idle, attached, holders, expiredList, logged,
                   restarts>>
\* ... and the tab it names, if the sync saw it, is tracked again, with a last
\* activity that leaves it a grace period (MarkManagedIfAbsentAt).
Mark(p) ==
    /\ at[p].pc = "mark"
    /\ LET t == at[p].target
       IN  idle' = IF t \in Tracked THEN idle ELSE [idle EXCEPT ![t] = "other"]
    /\ Goto(p, "resolve")
    /\ UNCHANGED <<registryVars, chromeVars, attached, holders, expiredList, logged, restarts>>
ReconcileEnds(p) ==
    /\ at[p].pc = "resolve" /\ at[p].ids = {}
    /\ Finish(p)
    /\ UNCHANGED <<registryVars, chromeVars, idle, attached, holders, expiredList, logged,
                   restarts>>
Reconcile(p) == ReadLog(p) \/ ResolveLogged(p) \/ Mark(p) \/ ReconcileEnds(p)

\* removeTargetState(t): an unregistered target is not cleared.
RemoveState(p, op, t) ==
    /\ RemoveTarget(t)
    /\ at' = [at EXCEPT ![p].pc = "clear", ![p].op = op, ![p].todo = {t} \cap Registered]
Cleared(p) == at[p].pc = "clear" /\ at[p].todo = {} /\ ~at[p].syncing

-----------------------------------------------------------------------------
(***************************************************************************)
(* The watcher: runTargetSync.                                             *)
(***************************************************************************)
\* A target whose type is no longer "page" is handled like a destroyed one.
HandleEvent ==
    /\ at["watcher"].pc = "rest"
    /\ events # <<>>
    /\ events' = Tail(events)
    /\ LET e == Head(events)
       IN  IF e.kind = "page"
           THEN RegisterPageTarget(e.target) /\ UNCHANGED at
           ELSE IF e.target \in Registered
           THEN RemoveState("watcher", "event", e.target)
           ELSE UNCHANGED <<registryVars, at>>
    /\ UNCHANGED <<chrome, dirty, idle, attached, holders, expiredList, logged, restarts>>

ConsumeDirty ==
    /\ at["watcher"].pc = "rest"
    /\ dirty
    /\ dirty' = FALSE
    /\ at' = [at EXCEPT !["watcher"] = [Rest EXCEPT !.pc = "capture", !.op = "resync"]]
    /\ UNCHANGED <<registryVars, chrome, events, idle, attached, holders, expiredList, logged,
                   restarts>>

\* Target.getTargets fails: the flag is set again.
ResyncFails ==
    /\ at["watcher"].pc = "capture"
    /\ dirty' = TRUE
    /\ Finish("watcher")
    /\ UNCHANGED <<registryVars, chrome, events, idle, attached, holders, expiredList, logged,
                   restarts>>

\* The same when the daemon starts (syncInitialTargets).
StartSyncFails ==
    /\ at["starter"].pc = "capture"
    /\ dirty' = TRUE
    /\ Finish("starter")
    /\ UNCHANGED <<registryVars, chrome, events, idle, attached, holders, expiredList, logged,
                   restarts>>

-----------------------------------------------------------------------------
(***************************************************************************)
(* RPC handlers.  The HTTP server starts after the browser is connected.   *)
(***************************************************************************)
Idle(p) == at[p].pc = "rest" /\ ~Starting
Begin(p, op, pc, s) ==
    at' = [at EXCEPT ![p] = [Rest EXCEPT !.pc = pc, !.op = op, !.tab = s]]

Unlock(p) == Locks!Leave(p, at[p].tab)

\* handleTabList, and handleTabSelect of s: no lock is taken.
StartList(p) ==
    /\ Idle(p)
    /\ \/ "list" \in ClientOps /\ Begin(p, "list", "capture", None)
       \/ "select" \in ClientOps /\ \E s \in ShortIds : Begin(p, "select", "capture", s)
    /\ UNCHANGED <<registryVars, chromeVars, idle, attached, holders, expiredList, logged,
                   restarts>>
\* A selected tab is renewed, without its lock (Succeed); an unknown one is an error.
Answer(p) ==
    /\ at[p].pc = "answer"
    /\ IF at[p].op = "select" THEN Select(at[p].tab) ELSE UNCHANGED registryVars
    /\ IF at[p].op = "select" /\ Lookup(at[p].tab) # None
       THEN Goto(p, "selected") ELSE Finish(p)
    /\ UNCHANGED <<chromeVars, idle, attached, holders, expiredList, logged, restarts>>

\* handleTabNew: create, register, track, and for a tab that is not silent select.
\* When the reply to Target.createTarget is lost or late, Chrome has opened the
\* tab and the handler ends with an error.
NewCreate(p) ==
    /\ Idle(p)
    /\ "new" \in ClientOps
    /\ \E t \in NewTargets :
           /\ Appears(t)
           /\ \/ at' = [at EXCEPT ![p] = [Rest EXCEPT !.pc = "register", !.op = "new",
                                                      !.target = t]]
              \/ UNCHANGED at
    /\ UNCHANGED <<registryVars, idle, attached, holders, expiredList, logged, restarts>>
NewRegister(p) ==
    /\ at[p].pc = "register"
    /\ RegisterPageTarget(at[p].target)
    /\ at' = [at EXCEPT ![p].pc = "track", ![p].tab = targetToShort'[at[p].target]]
    /\ UNCHANGED <<chromeVars, idle, attached, holders, expiredList, logged, restarts>>
NewTrack(p) ==
    /\ at[p].pc = "track"
    /\ idle' = [idle EXCEPT ![at[p].target] = "other"]
    /\ Goto(p, "reply")
    /\ UNCHANGED <<registryVars, chromeVars, attached, holders, expiredList, logged, restarts>>
NewReply(p) ==
    /\ at[p].pc = "reply"
    /\ UNCHANGED registryVars \/ Select(at[p].tab)
    /\ Goto(p, "log")
    /\ UNCHANGED <<chromeVars, idle, attached, holders, expiredList, logged, restarts>>

\* AppendRPC, after the response was written.
AppendLog(p) ==
    /\ at[p].pc = "log"
    /\ logged' = IF at[p].op = "new" THEN logged \cup {at[p].tab} ELSE logged \ {at[p].tab}
    /\ Finish(p)
    /\ UNCHANGED <<registryVars, chromeVars, idle, attached, holders, expiredList, restarts>>

-----------------------------------------------------------------------------
(***************************************************************************)
(* Operations under the lock of a short id: those that use a tab (goto,    *)
(* eval, click, ...), tab_close, and the sweeper's close.                  *)
(***************************************************************************)
\* Once a goroutine has the lock of a short id, resolveTab and
\* closeTabByShortLocked look it up, and if it is unknown sync and look again.
Found(t) == IF t = None THEN "capture" ELSE "work"

\* lockTab of a client that is served; one that times out changes nothing.
\* Planted bug: the operation does not wait for the lock.
StartUnlocked(p) ==
    /\ Idle(p)
    /\ \E op \in {"use", "close"} \cap ClientOps, s \in ShortIds :
           at' = [at EXCEPT ![p] = [Rest EXCEPT !.pc = Found(Lookup(s)), !.op = op, !.tab = s,
                                                !.target = Lookup(s)]]
    /\ UNCHANGED <<registryVars, chromeVars, idle, attached, holders, expiredList, logged,
                   restarts>>
StartLocked(p) ==
    /\ Idle(p)
    /\ \E op \in {"use", "close"} \cap ClientOps, s \in ShortIds :
           /\ Locks!Enter(p, s)
           /\ at' = [at EXCEPT ![p] = [Rest EXCEPT !.pc = Found(Lookup(s)), !.op = op, !.tab = s,
                                                   !.target = Lookup(s)]]
    /\ UNCHANGED <<registryVars, chromeVars, idle, attached, expiredList, logged, restarts>>

FindAgain(p) ==
    /\ at[p].pc = "retry"
    /\ Lookup(at[p].tab) # None
    /\ at' = [at EXCEPT ![p].pc = "work", ![p].target = Lookup(at[p].tab)]
    /\ UNCHANGED <<registryVars, chromeVars, idle, attached, holders, expiredList, logged,
                   restarts>>

\* getTargets fails in a handler or in the sweeper.
ListFails(p) ==
    /\ at[p].pc = "capture"
    /\ at[p].op \in {"list", "select", "use", "close", "sweep"}
    /\ IF at[p].op \in {"list", "select"} THEN Finish(p) ELSE Goto(p, "retry")
    /\ UNCHANGED <<registryVars, chromeVars, idle, attached, holders, expiredList, logged,
                   restarts>>

\* The sweeper's current target: Expired returns them in the order of their ids.
Victim == CHOOSE t \in expiredList : \A u \in expiredList \ {t} : Before(t, u)
NextVictim(p) == expiredList' = IF p = "sweeper" THEN expiredList \ {Victim} ELSE expiredList

\* Unknown id: a client gets an error, the sweeper stops tracking its target.
Unknown(p) ==
    /\ at[p].pc = "retry"
    /\ Lookup(at[p].tab) = None
    /\ Unlock(p)
    /\ IF p = "sweeper" THEN Begin(p, "drop", "drop", None) ELSE Finish(p)
    /\ UNCHANGED <<registryVars, chromeVars, idle, attached, expiredList, logged, restarts>>

\* The operation attaches to the target (tabChromeCtxContext) and runs ...
Operate(p) ==
    /\ at[p].pc = "work" /\ at[p].op = "use"
    /\ at[p].target \in Live
    /\ attached' = attached \cup {at[p].target}
    /\ Goto(p, "running")
    /\ UNCHANGED <<registryVars, chromeVars, idle, holders, expiredList, logged, restarts>>
\* ... to success: rpcOK looks up the tab the short id names then ...
Succeed(p) ==
    /\ at[p].pc \in {"running", "selected"}
    /\ at' = [at EXCEPT ![p].pc = "touch", ![p].target = Lookup(at[p].tab)]
    /\ UNCHANGED <<registryVars, chromeVars, idle, attached, holders, expiredList, logged,
                   restarts>>
\* ... and renews it, before an operation gives its lock back ...
Touch(p) ==
    /\ at[p].pc = "touch"
    /\ LET t == at[p].target
       IN  idle' = IF t \notin Tracked THEN idle
                   ELSE [idle EXCEPT ![t] = IF at[p].op = "use" THEN "op" ELSE "other"]
    /\ IF at[p].op = "use" THEN Unlock(p) ELSE UNCHANGED holders
    /\ Finish(p)
    /\ UNCHANGED <<registryVars, chromeVars, attached, expiredList, logged, restarts>>
\* ... or to an error: a closed target, a timeout.
OperateFails(p) ==
    /\ at[p].pc \in {"work", "running"} /\ at[p].op = "use"
    /\ Unlock(p)
    /\ Finish(p)
    /\ UNCHANGED <<registryVars, chromeVars, idle, attached, expiredList, logged, restarts>>

\* closeTarget, and CloseTargetContext dropping the cached context.
CloseIt(p) ==
    /\ at[p].pc = "work" /\ at[p].op \in {"close", "sweep"}
    /\ Disappears(at[p].target)
    /\ attached' = attached \ {at[p].target}
    /\ Goto(p, "remove")
    /\ UNCHANGED <<registryVars, idle, holders, expiredList, logged, restarts>>
RemoveClosed(p) ==
    /\ at[p].pc = "remove"
    /\ RemoveState(p, at[p].op, at[p].target)
    /\ UNCHANGED <<chromeVars, idle, attached, holders, expiredList, logged, restarts>>

\* Any other error of closeTarget, a timeout say: the target may still be there
\* or be gone, and the sweeper will try again on a later tick.
\* Planted bug: a tab_close that failed is recorded like one that succeeded.
CloseFailsLogged(p) ==
    /\ at[p].pc = "work" /\ at[p].op \in {"close", "sweep"}
    /\ Unlock(p)
    /\ IF p = "sweeper" THEN Finish(p) ELSE Goto(p, "log")
    /\ NextVictim(p)
    /\ UNCHANGED <<registryVars, chromeVars, idle, attached, logged, restarts>>
CloseFails(p) ==
    /\ at[p].pc = "work" /\ at[p].op \in {"close", "sweep"}
    /\ Unlock(p)
    /\ Finish(p)
    /\ NextVictim(p)
    /\ UNCHANGED <<registryVars, chromeVars, idle, attached, logged, restarts>>

\* ErrorTargetGone in the sweeper: the tab it set out to close is dropped.
\* Planted bug: a target that is gone is an error like any other.
SweepGoneRetries ==
    /\ at["sweeper"].pc = "work"
    /\ at["sweeper"].target \notin Live
    /\ Unlock("sweeper")
    /\ Finish("sweeper")
    /\ NextVictim("sweeper")
    /\ UNCHANGED <<registryVars, chromeVars, idle, attached, logged, restarts>>
SweepGone ==
    /\ at["sweeper"].pc = "work"
    /\ at["sweeper"].target \notin Live
    /\ RemoveState("sweeper", "sweepgone", Victim)
    /\ UNCHANGED <<chromeVars, idle, attached, holders, expiredList, logged, restarts>>

CloseDone(p) ==
    /\ Cleared(p) /\ at[p].op \in {"close", "sweep", "sweepgone"}
    /\ Unlock(p)
    /\ NextVictim(p)
    /\ IF p = "sweeper" THEN Finish(p) ELSE Goto(p, "log")
    /\ idle' = IF at[p].op = "sweepgone" THEN [idle EXCEPT ![Victim] = "none"] ELSE idle
    /\ UNCHANGED <<registryVars, chromeVars, attached, logged, restarts>>

-----------------------------------------------------------------------------
(***************************************************************************)
(* The idle sweeper: closeExpiredTabs.                                     *)
(***************************************************************************)
SweepTick ==
    /\ Idle("sweeper")
    /\ expiredList = {}
    /\ expiredList' = {t \in Targets : idle[t] = "expired"}
    /\ UNCHANGED <<registryVars, chromeVars, idle, attached, holders, at, logged, restarts>>

\* Planted bug: an unregistered target is skipped and stays tracked.
SweepUnregisteredKeeps ==
    /\ Idle("sweeper") /\ expiredList # {}
    /\ Victim \notin Registered
    /\ NextVictim("sweeper")
    /\ UNCHANGED <<registryVars, chromeVars, idle, attached, holders, at, logged, restarts>>
SweepUnregistered ==
    /\ Idle("sweeper") /\ expiredList # {}
    /\ Victim \notin Registered
    /\ Begin("sweeper", "drop", "drop", None)
    /\ UNCHANGED <<registryVars, chromeVars, idle, attached, holders, expiredList, logged,
                   restarts>>
\* forgetTabManaged, for a target that has no short id or whose id is unknown.
SweepDrop ==
    /\ at["sweeper"].pc = "drop"
    /\ idle' = [idle EXCEPT ![Victim] = "none"]
    /\ Finish("sweeper")
    /\ NextVictim("sweeper")
    /\ UNCHANGED <<registryVars, chromeVars, attached, holders, logged, restarts>>

SweepVictim ==
    /\ Idle("sweeper") /\ expiredList # {}
    /\ Victim \in Registered
    /\ Begin("sweeper", "sweep", "lock", ShortForTarget(Victim))
    /\ UNCHANGED <<registryVars, chromeVars, idle, attached, holders, expiredList, logged,
                   restarts>>

\* Holding the lock, IsExpired decides again ...
\* Planted bug: the decision taken before the lock stands.
SweepLockOnly ==
    /\ at["sweeper"].pc = "lock"
    /\ Locks!Enter("sweeper", at["sweeper"].tab)
    /\ Goto("sweeper", "lookup")
    /\ UNCHANGED <<registryVars, chromeVars, idle, attached, expiredList, logged, restarts>>
SweepLock ==
    /\ at["sweeper"].pc = "lock"
    /\ Locks!Enter("sweeper", at["sweeper"].tab)
    /\ idle[Victim] = "expired"
    /\ Goto("sweeper", "lookup")
    /\ UNCHANGED <<registryVars, chromeVars, idle, attached, expiredList, logged, restarts>>
\* ... to unlock and go on to the next,
SweepSpared ==
    /\ at["sweeper"].pc = "lock"
    /\ holders[at["sweeper"].tab] = {}
    /\ idle[Victim] # "expired"
    /\ Finish("sweeper")
    /\ NextVictim("sweeper")
    /\ UNCHANGED <<registryVars, chromeVars, idle, attached, holders, logged, restarts>>
\* ... or to close whatever the short id names by then.
SweepFind ==
    /\ at["sweeper"].pc = "lookup"
    /\ LET t == Lookup(at["sweeper"].tab)
       IN  at' = [at EXCEPT !["sweeper"].pc = Found(t), !["sweeper"].target = t]
    /\ UNCHANGED <<registryVars, chromeVars, idle, attached, holders, expiredList, logged,
                   restarts>>

-----------------------------------------------------------------------------
(***************************************************************************)
(* Starting and restarting the daemon: everything but the log is lost, and *)
(* connectBrowserLocked syncs and reconciles while the watcher runs.       *)
(***************************************************************************)
Fresh == [p \in Procs |-> IF p = "starter"
                          THEN [Rest EXCEPT !.pc = "capture", !.op = "start"] ELSE Rest]

LifecycleInit ==
    /\ RegistryInit
    /\ chrome = [t \in Targets |-> "unborn"]
    /\ events = <<>> /\ dirty = FALSE
    /\ idle = [t \in Targets |-> "none"]
    /\ attached = {}
    /\ holders = [s \in ShortIds |-> {}]
    /\ at = Fresh
    /\ expiredList = {}
    /\ logged = {}
    /\ restarts = 0

Restart ==
    /\ restarts < MaxRestarts
    /\ restarts' = restarts + 1
    /\ RestartRegistry
    /\ events' = <<>> /\ dirty' = FALSE
    /\ idle' = [t \in Targets |-> "none"]
    /\ attached' = {}
    /\ holders' = [s \in ShortIds |-> {}]
    /\ at' = Fresh
    /\ expiredList' = {}
    /\ UNCHANGED <<chrome, logged>>

Environment == \E t \in Targets : \/ UserOpens(t)
                                  \/ UserCloses(t)
                                  \/ InfoChanged(t)
                                  \/ Expire(t)

\* What a goroutine goes on to do once it has begun an operation.
LockedStep(p) == \/ FindAgain(p) \/ Unknown(p)
                 \/ CloseIt(p) \/ CloseFails(p) \/ RemoveClosed(p) \/ CloseDone(p)
RequestStep(p) == \/ Answer(p) \/ NewRegister(p) \/ NewTrack(p) \/ NewReply(p)
                  \/ Operate(p) \/ Succeed(p) \/ Touch(p) \/ OperateFails(p) \/ AppendLog(p)
ClientStep(p) == SyncStep(p) \/ LockedStep(p) \/ RequestStep(p)
WatcherStep == \/ HandleEvent \/ ConsumeDirty
               \/ SyncStep("watcher") \/ Reconcile("watcher")
SweeperStep == \/ SweepTick \/ SweepUnregistered \/ SweepDrop \/ SweepVictim \/ SweepFind
               \/ SweepGone
               \/ SyncStep("sweeper") \/ LockedStep("sweeper")
StarterStep == SyncStep("starter") \/ Reconcile("starter")
Requests(p) == StartList(p) \/ NewCreate(p) \/ StartLocked(p)

LifecycleNext ==
    \/ Environment
    \/ \E p \in Clients : Requests(p) \/ ClientStep(p)
    \/ \E p \in Procs : ListFails(p)
    \/ WatcherStep \/ ResyncFails
    \/ SweeperStep \/ SweepLock \/ SweepSpared
    \/ StarterStep \/ StartSyncFails
    \/ Restart

LifecycleSpec == LifecycleInit /\ [][LifecycleNext]_lifecycleVars

(***************************************************************************)
(* Fairness: goroutines run; a waiting sweeper gets the lock (NoStarvation *)
(* of TabLock); a close that Chrome is asked for again and again succeeds  *)
(* some time, or is some time answered that the target is gone and not by  *)
(* another error; and a tab that is gone, which nobody can renew for ever, *)
(* passes its timeout.                                                     *)
(***************************************************************************)
LifecycleFairness ==
    /\ \A p \in Clients : WF_lifecycleVars(ClientStep(p))
    /\ WF_lifecycleVars(WatcherStep)
    /\ WF_lifecycleVars(SweeperStep)
    /\ WF_lifecycleVars(StarterStep)
    /\ SF_lifecycleVars(SweepLock \/ SweepSpared)
    /\ SF_lifecycleVars(CloseIt("sweeper"))
    /\ SF_lifecycleVars(SweepGone)
    /\ \A t \in Targets : WF_lifecycleVars(chrome[t] = "gone" /\ Expire(t))

FairLifecycleSpec == LifecycleSpec /\ LifecycleFairness

-----------------------------------------------------------------------------
(***************************************************************************)
(* Properties.                                                             *)
(***************************************************************************)
PcValues == {"rest", "capture", "apply", "clear", "detach", "reconcile", "resolve", "mark",
             "answer", "selected", "retry", "register", "track", "reply", "log", "lookup",
             "work", "running", "touch", "remove", "lock", "drop"}
Ops == {"none", "resync", "start", "event", "list", "select", "new", "use", "close", "sweep",
        "sweepgone", "drop"}
Places == [pc : PcValues, op : Ops, tab : ShortIds \cup {None}, target : Targets \cup {None},
           snap : SUBSET Targets, todo : SUBSET Targets, syncing : BOOLEAN,
           ids : SUBSET ShortIds]

LifecycleTypeOK ==
    /\ RegistryTypeOK
    /\ chrome \in [Targets -> {"unborn", "live", "gone"}]
    /\ events \in Seq([kind : {"page", "gone"}, target : Targets]) /\ Len(events) <= QueueCap
    /\ dirty \in BOOLEAN
    /\ idle \in [Targets -> IdleValues]
    /\ attached \subseteq Targets
    /\ holders \in [ShortIds -> SUBSET Procs]
    /\ at \in [Procs -> Places]
    /\ expiredList \subseteq Targets
    /\ logged \subseteq ShortIds
    /\ restarts \in 0..MaxRestarts

\* Goroutines that act on a target they have resolved, under its tab's lock.
ActingOn(t) == {p \in Procs : /\ at[p].pc \in {"work", "running", "remove"}
                              /\ at[p].target = t}

\* lockTab "serializes CDP operations per short tab id": as long as short ids
\* do not collide, no two goroutines act on a target at once, however the tab
\* is removed, registered again and resolved meanwhile.
OneActorPerTarget == \A t \in Targets : Cardinality(ActingOn(t)) <= 1

\* The sweeper "make[s] the close decision again while serialized with tab
\* operations" (closeExpiredTabs): when it closes a tab, no operation has
\* renewed that tab since the decision.
CloseDecisionHolds ==
    at["sweeper"].pc = "work" => idle[at["sweeper"].target] # "op"

\* No two targets agree in the last MinLen digits, so every tab gets the shortest
\* short id.
ShortName(t) == Suffix(t, MinLen)
ShortIdsDiffer == \A t, u \in Targets : ShortName(t) = ShortName(u) => t = u

\* What the idle sweeper looks after survives a crash at any moment (README: a
\* restarted daemon replays rpc.jsonl to resume the tracking): every open tab that
\* is tracked is named in the log, or its tab_new is about to append that record.
\* Neither a tab_close that fails, nor one of a tab that was removed and registered
\* again meanwhile, nor a reconciliation with a log that has changed since it was
\* read may leave a tracked tab that is not in the log.  As long as short ids do
\* not collide.
Announced(t) == \E p \in Clients : /\ at[p].op = "new" /\ at[p].target = t
                                   /\ at[p].pc \in {"reply", "log"}
CleanupSurvives ==
    ShortIdsDiffer => \A t \in Tracked \cap Live : ShortName(t) \in logged \/ Announced(t)

\* "daemon-created tabs eligible for idle cleanup" (TabIdleTracker): a restarted
\* daemon does not track a tab the user opened, and so does not close it for being
\* idle.  The code breaks it when short ids collide: the log still names a tab of
\* the daemon that is gone, and a tab of the user gets its short id.
RestartSparesUser == restarts > 0 => Tracked \cap (UserTargets \ NewTargets) = {}

\* What ForgetTarget requires: "Cancelling a live chromedp child closes its tab,
\* so this must only be called from an authoritative target-removal path".
ForgottenAreGone ==
    \A p \in Procs : at[p].pc = "detach" /\ ~Starting
                         => at[p].target \notin attached \cap Live

\* Once the daemon has started, an idle tab does not stay: it is closed, renewed
\* or dropped from tracking (closeExpiredTabs).
ExpiredHandled ==
    \A t \in Targets : ~Starting /\ idle[t] = "expired" ~> idle[t] # "expired"

\* Once the daemon has started, a tab that Chrome has closed does not stay
\* tracked, even when it was destroyed before tab_new registered it or its last
\* event was lost.
GoneUntracked ==
    \A t \in Targets : ~Starting /\ chrome[t] = "gone" /\ idle[t] # "none" ~> idle[t] = "none"

\* The start ends: "a hung Target.getTargets cannot block Listen forever"
\* (connectBrowserLocked).
StartEnds == Starting ~> ~Starting
=============================================================================
