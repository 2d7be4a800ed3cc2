------------------------------ MODULE TabSession ------------------------------
(***************************************************************************)
(* What one browser.Session keeps for one target, put together: the cached *)
(* context, the request routes and the observation, with the removal of    *)
(* the target that sweeps over all of them (clearRemovedTarget,            *)
(* ForgetTarget) while RPCs are under way.                                 *)
(*                                                                         *)
(* Scenarios says what may happen to the tab: commands to the page, which  *)
(* need no more than the context ("page"), route RPCs, observation RPCs,   *)
(* the events observed, the removal of the target, the loss of the         *)
(* connection, which ends the daemon (Supervisor), or several of them.     *)
(***************************************************************************)
EXTENDS NetworkRoutes, Observation

CONSTANTS
    Scenarios,   \* what may happen to the tab
    MaxRemovals  \* bound on removals of the target

ASSUME SessionAssumption ==
    /\ Scenarios \subseteq
          SUBSET {"page", "routes", "observation", "events", "removal", "loss"}
    /\ MaxRemovals \in Nat

VARIABLES
    scenario,  \* what happens to the tab in this run
    stage,     \* the next step of the removal, "rest" for none
    removals   \* removals so far

removalVars == <<stage, removals>>
sessionVars == <<targetVars, contextVars, routeVars, observationVars, scenario, removalVars>>

-----------------------------------------------------------------------------
(***************************************************************************)
(* Removal.  ForgetTarget is meant for targets that Chrome has removed;    *)
(* the coordinator may also remove a target that a stale list does not     *)
(* name (TabLifecycle), and then the requests it holds back are given up.  *)
(***************************************************************************)
RemovalBegins ==
    /\ stage = "rest"
    /\ removals < MaxRemovals /\ calls < MaxCalls
    /\ removals' = removals + 1
    /\ calls' = calls + 1
    /\ ClearTarget
    /\ stage' = "context"
    /\ stranded' = (stranded \/ live)
    /\ UNCHANGED <<contextVars, routeState, worker, rpc, clearing, fetch, req, synced>>

ForgetContext ==
    /\ stage = "context"
    /\ Take
    /\ stage' = "observer"
    /\ UNCHANGED <<routeVars, observationVars, removals>>

ForgetObservation ==
    /\ stage = "observer"
    /\ ForgetObserver
    /\ stage' = "routes"
    /\ UNCHANGED <<contextVars, routeVars, removals>>

ForgetRoutes ==
    /\ \/ /\ stage = "routes"
          /\ ClearRules
          /\ stage' = IF clearing' = NoClear THEN "rest" ELSE "stop"
       \/ /\ stage = "stop"
          /\ ClearStops /\ stage' = "cancel"
       \/ /\ stage = "cancel"
          /\ ClearCancels /\ stage' = "rest"
    /\ UNCHANGED <<observationVars, removals>>

RemovalStep == ForgetContext \/ ForgetObservation \/ ForgetRoutes

-----------------------------------------------------------------------------
TargetStep ==
    /\ Vanish \/ ("loss" \in scenario /\ Lose)
    /\ UNCHANGED <<contextVars, routeVars, observationVars, removalVars>>

ContextStep ==
    /\ AttachStep \/ ("page" \in scenario /\ Use)
    /\ UNCHANGED <<routeVars, observationVars, removalVars>>

RoutesStep ==
    /\ RouteStep
    /\ UNCHANGED <<observationVars, removalVars>>

ObservingStep ==
    /\ \/ QueryStep
       \/ \E o \in ObserverIds :
             ObserverStep(o) \/ ("events" \in scenario /\ ObserverHears(o))
    /\ UNCHANGED <<contextVars, routeVars, removalVars>>

SessionInit ==
    /\ TargetInit /\ ContextInit /\ RoutesInit /\ ObservationInit
    /\ scenario \in Scenarios
    /\ stage = "rest"
    /\ removals = 0

SessionNext ==
    /\ \/ TargetStep
       \/ ContextStep
       \/ "routes" \in scenario /\ RoutesStep
       \/ "observation" \in scenario /\ ObservingStep
       \/ "removal" \in scenario /\ RemovalBegins
       \/ RemovalStep
    /\ UNCHANGED scenario

\* Goroutines that are ready run, events that Chrome sent arrive, and a mutex is not
\* withheld from the sweeper for ever (sync.Mutex hands over to a starving waiter).
\* Nobody has to make a call, and an attach may hang.
Within(step) == step /\ UNCHANGED scenario
SessionFairness ==
    /\ \A w \in WorkerIds :
           WF_sessionVars(Within(Work(w) /\ UNCHANGED <<observationVars, removalVars>>))
    /\ \A r \in Requests :
           WF_sessionVars(Within(Deliver(r) /\ UNCHANGED <<observationVars, removalVars>>))
    /\ \A e \in EntryIds :
           WF_sessionVars(Within(Watch(e) /\ UNCHANGED <<routeVars, observationVars, removalVars>>))
    /\ WF_sessionVars(Within(Leased /\ UNCHANGED <<contextVars, routeVars, removalVars>>))
    /\ \A o \in ObserverIds :
           SF_sessionVars(Within(Sweeper(o) /\ UNCHANGED <<contextVars, routeVars, removalVars>>))
    /\ WF_sessionVars(Within(RemovalStep))

Spec == SessionInit /\ [][SessionNext]_sessionVars /\ SessionFairness

-----------------------------------------------------------------------------
SessionTypeOK ==
    /\ TargetTypeOK /\ ContextTypeOK /\ RoutesTypeOK /\ ObservationTypeOK
    /\ stage \in {"rest", "context", "observer", "routes", "stop", "cancel"}
    /\ removals \in 0..MaxRemovals

\* A listener never outlives the worker that answers for it: once no removal and no
\* route RPC is under way, whoever still hears of paused requests is the target's
\* worker, and its loop runs.  startListening looks at the generation before it claims
\* the listener, after it and after the registration because ClearRoutesForTarget may
\* come in between.
NoOrphanListener ==
    (stage = "rest" /\ rpc.pc = "rest") =>
        \A w \in WorkerIds : (\E e \in EntryIds : Hears(w, e)) =>
            w = current /\ ~Ended(w) /\ worker[w].pc \notin {"end", "gone"}

\* What network_route and network_unroute report as done is in force: until the next
\* one or a removal, the session of the tab's cached context pauses the URLs of the
\* rules, no others, and if there are any its worker is running and hears of them.
InstalledRoutesWork ==
    (synced /\ stage = "rest" /\ ~stranded /\ pool # 0 /\ Usable(pool)) =>
        /\ fetch[pool] = rules
        /\ rules # {} => current # 0 /\ Hears(current, pool) /\ ~Ended(current)

\* A request that Chrome holds back is answered or released, or its session ends,
\* whatever RPCs and removals happen around it.
PausedAnswered ==
    \A r \in Requests : Waiting(r) ~> (~Waiting(r) \/ stranded)
=============================================================================
