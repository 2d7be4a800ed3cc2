------------------------------ MODULE Supervisor ------------------------------
(***************************************************************************)
(* The CDP supervisor of the daemon (internal/daemon/browser_reconnect.go) *)
(* and the start and stop it drives (ListenAndServe in server.go): the     *)
(* watchdog's probes, the early probes RPCs ask for, the failure count,    *)
(* the cached state that RPCs and the health routes read, and the one      *)
(* fatal exit that any of three kinds of goroutine may begin.              *)
(*                                                                         *)
(* fatalCDPLost runs under a sync.Once: the first caller runs its steps,   *)
(* the others wait until it is done.  Time is abstracted: an interval may  *)
(* pass at any moment.                                                     *)
(***************************************************************************)
EXTENDS Integers

CONSTANTS
    Handlers,     \* goroutines serving RPCs
    Limit,        \* CDPWatchdogFailures
    RpcErrors,    \* how the operation of an RPC may end
    MaxFailures   \* bound on browserFailures once the run context is cancelled

\* "none": success or an error the daemon only reports; "deadline": the
\* operation timed out; "transport": the websocket is gone; "soundsLost": an
\* error of the page, such as a thrown exception, whose text holds one of the
\* words isCDPSessionLost looks for.
ASSUME SupervisorAssumption ==
    /\ Limit \in Nat \ {0}
    /\ MaxFailures \in Nat /\ MaxFailures > Limit
    /\ RpcErrors \subseteq {"none", "deadline", "transport", "soundsLost"}
    /\ Handlers \cap {"watchdog", "watcher"} = {}

VARIABLES
    session,         \* what Chrome does: "up", "hung", or "lost" for good
    browserState,    \* the cached state
    browserFailures, \* consecutive failed probes
    recent,          \* browserLastProbe is less than an interval ago
    tick,            \* the watchdog's ticker has fired
    probeTrigger,    \* an early probe is asked for (channel of one)
    once,            \* fatalOnce: how far fatalCDPLost has come
    fatalCh,         \* the error it sends is in the channel
    runDone,         \* runCtx is cancelled
    stopped,         \* the operator has cancelled the outer context
    main,            \* where ListenAndServe is
    tabLive,         \* the session is there
    result,          \* what ListenAndServe returns
    at               \* where the other goroutines are

cached == <<browserState, browserFailures>>
clock == <<recent, tick, probeTrigger>>
ending == <<once, fatalCh, runDone, stopped>>
serve == <<main, tabLive, result>>
supervisorVars == <<session, cached, clock, ending, serve, at>>

Callers == Handlers \cup {"watchdog", "watcher"}
Running == main # "exited"

\* Goroutine p, fatalCDPLost and ListenAndServe go on to their next step.
Goto(p, from, to) == Running /\ at[p] = from /\ at' = [at EXCEPT ![p] = to]
FatalGoto(from, to) == Running /\ once = from /\ once' = to
MainGoto(from, to) == main = from /\ main' = to

-----------------------------------------------------------------------------
(***************************************************************************)
(* What RPCs and health routes read of the cached state.                   *)
(***************************************************************************)
\* ensureBrowserSession
EnsureBrowserSession == tabLive /\ browserState # "failed"

\* browserHealthField: /health, and with strict /ready, answer "connected"
BrowserHealthField(strict) ==
    /\ tabLive
    /\ browserState \notin {"failed", "starting"}
    /\ ~(strict /\ browserState = "suspect")

\* isCDPSessionLost.
\* Planted bug: a timeout counts as a lost session.
IsCDPSessionLostTimeout(e) == e \in {"transport", "soundsLost", "deadline"}
IsCDPSessionLost(e) == e \in {"transport", "soundsLost"}

-----------------------------------------------------------------------------
(***************************************************************************)
(* Chrome, the operator and the clock (external).                          *)
(***************************************************************************)
ChromeChanges ==
    /\ Running
    /\ session # "lost"
    /\ session' \in {"up", "hung", "lost"} \ {session}
    /\ UNCHANGED <<cached, clock, ending, serve, at>>

\* SIGTERM or an interrupt; runCtx is a child of the outer context.
OperatorStops ==
    /\ Running
    /\ ~stopped
    /\ stopped' = TRUE /\ runDone' = TRUE
    /\ UNCHANGED <<session, cached, clock, once, fatalCh, serve, at>>

IntervalPasses ==
    /\ Running
    /\ tick' = TRUE
    /\ recent' \in {recent, FALSE}
    /\ UNCHANGED <<session, cached, probeTrigger, ending, serve, at>>

-----------------------------------------------------------------------------
(***************************************************************************)
(* The watchdog: runCDPWatchdog and probeBrowserSession.                   *)
(***************************************************************************)
WatchdogEnds ==
    /\ runDone
    /\ Goto("watchdog", "select", "ended")
    /\ UNCHANGED <<session, cached, clock, ending, serve>>

ProbeOnTick ==
    /\ tick /\ tick' = FALSE
    /\ browserFailures < MaxFailures
    /\ Goto("watchdog", "select", "ping")
    /\ UNCHANGED <<session, cached, recent, probeTrigger, ending, serve>>

\* An early probe is dropped when the last one is recent.
ProbeEarly ==
    /\ probeTrigger /\ probeTrigger' = FALSE
    /\ browserFailures < MaxFailures
    /\ Goto("watchdog", "select", IF recent THEN "select" ELSE "ping")
    /\ UNCHANGED <<session, cached, recent, tick, ending, serve>>

\* Browser.getVersion is answered, or fails: a timeout, a lost session, or the
\* cancelled run context.
Ping ==
    /\ Goto("watchdog", "ping", IF session = "up" /\ ~runDone THEN "answered" ELSE "missed")
    /\ UNCHANGED <<session, cached, clock, ending, serve>>

\* Planted bug: a success does not reset the failures.
RecordAnswerOnly ==
    /\ Goto("watchdog", "answered", "select")
    /\ browserState' = "ready" /\ recent' = TRUE
    /\ UNCHANGED <<session, browserFailures, tick, probeTrigger, ending, serve>>
\* Planted bug: a success takes one failure back.
RecordAnswerDecays ==
    /\ Goto("watchdog", "answered", "select")
    /\ browserState' = "ready" /\ browserFailures' = browserFailures - 1 /\ recent' = TRUE
    /\ UNCHANGED <<session, tick, probeTrigger, ending, serve>>
RecordAnswer ==
    /\ Goto("watchdog", "answered", "select")
    /\ browserState' = "ready" /\ browserFailures' = 0 /\ recent' = TRUE
    /\ UNCHANGED <<session, tick, probeTrigger, ending, serve>>

Fatal == browserFailures + 1 >= Limit
RecordMiss ==
    /\ Goto("watchdog", "missed", IF Fatal THEN "fatal" ELSE "select")
    /\ browserState' = IF Fatal THEN "failed" ELSE "suspect"
    /\ browserFailures' = browserFailures + 1
    /\ recent' = TRUE
    /\ UNCHANGED <<session, tick, probeTrigger, ending, serve>>

-----------------------------------------------------------------------------
(***************************************************************************)
(* The fatal exit: watchCDPSession and fatalCDPLost.                       *)
(***************************************************************************)
WatcherWakes ==
    /\ session = "lost"
    /\ Goto("watcher", "wait", "fatal")
    /\ UNCHANGED <<session, cached, clock, ending, serve>>

FatalBegins ==
    /\ \E p \in Callers : at[p] = "fatal"
    /\ FatalGoto("new", "mark")
    /\ UNCHANGED <<session, cached, clock, fatalCh, runDone, stopped, serve, at>>

\* It needs tabMu, which the start holds until the tabs are listed.
FatalMarks ==
    /\ main # "listing"
    /\ FatalGoto("mark", "stop")
    /\ browserState' = "failed"
    /\ UNCHANGED <<session, browserFailures, clock, fatalCh, runDone, stopped, serve, at>>

\* Planted bug: the goroutines of the run are left running.
FatalLeavesRunning ==
    /\ FatalGoto("stop", "send")
    /\ UNCHANGED <<session, cached, clock, fatalCh, runDone, stopped, serve, at>>
FatalStopsRun ==
    /\ FatalGoto("stop", "send")
    /\ runDone' = TRUE
    /\ UNCHANGED <<session, cached, clock, fatalCh, stopped, serve, at>>

\* Planted bug: cancelling the run context is thought to be enough.
FatalSilent ==
    /\ FatalGoto("send", "done")
    /\ UNCHANGED <<session, cached, clock, fatalCh, runDone, stopped, serve, at>>
FatalSends ==
    /\ FatalGoto("send", "done")
    /\ fatalCh' = TRUE
    /\ UNCHANGED <<session, cached, clock, runDone, stopped, serve, at>>

AfterFatal(p) == CASE p = "watchdog" -> "select" [] p = "watcher" -> "ended" [] OTHER -> "rest"
FatalReturns(p) ==
    /\ once = "done"
    /\ Goto(p, "fatal", AfterFatal(p))
    /\ UNCHANGED <<session, cached, clock, ending, serve>>

-----------------------------------------------------------------------------
(***************************************************************************)
(* RPC handlers, and the resync that asks for a probe when it fails.       *)
(***************************************************************************)
\* An RPC that ensureBrowserSession refuses changes nothing.
BeginRPC(p) ==
    /\ main = "serving"
    /\ EnsureBrowserSession
    /\ Goto(p, "rest", "running")
    /\ UNCHANGED <<session, cached, clock, ending, serve>>

\* cdpHint
EndRPC(p) ==
    /\ \E e \in RpcErrors :
           /\ e = "transport" => session = "lost"
           /\ Goto(p, "running", IF IsCDPSessionLost(e) THEN "fatal" ELSE "rest")
           /\ probeTrigger' = (probeTrigger \/ (~IsCDPSessionLost(e) /\ e = "deadline"))
    /\ UNCHANGED <<session, cached, recent, tick, ending, serve>>

ResyncFails ==
    /\ main \notin {"connecting", "exited"}
    /\ probeTrigger' = TRUE
    /\ UNCHANGED <<session, cached, recent, tick, ending, serve, at>>

-----------------------------------------------------------------------------
(***************************************************************************)
(* ListenAndServe.                                                         *)
(***************************************************************************)
\* connectBrowserLocked attaches to Chrome and starts the watcher ...
Connect ==
    /\ session = "up"
    /\ MainGoto("connecting", "listing")
    /\ tabLive' = TRUE
    /\ browserState' = "ready" /\ browserFailures' = 0 /\ recent' = TRUE
    /\ at' = [at EXCEPT !["watcher"] = "wait"]
    /\ UNCHANGED <<session, tick, probeTrigger, ending, result>>
\* ... lists the tabs and starts the watchdog.  Target.getTargets has a timeout
\* and may fail; applying its reply (syncInitialTargets) has none, and may wait
\* for tabMu, which this goroutine holds (StartEnds of TabLifecycle), for ever.
ListTargets ==
    /\ MainGoto("listing", "listening")
    /\ at' = [at EXCEPT !["watchdog"] = "select"]
    /\ UNCHANGED <<session, cached, clock, ending, tabLive, result>>

Listen ==
    /\ MainGoto("listening", "serving")
    /\ UNCHANGED <<session, cached, clock, ending, tabLive, result, at>>

\* Connecting, listening or serving fails: the daemon returns without draining.
StartFails ==
    /\ \E pc \in {"connecting", "listening", "serving"} : MainGoto(pc, "closing")
    /\ result' = "error"
    /\ UNCHANGED <<session, cached, clock, ending, tabLive, at>>

\* The select: when both channels are ready either may be taken.
SelectStop ==
    /\ stopped
    /\ MainGoto("serving", "draining")
    /\ result' = "clean"
    /\ UNCHANGED <<session, cached, clock, ending, tabLive, at>>
\* Planted bug: the fatal exit returns what shutting down returned.
SelectFatalClean ==
    /\ fatalCh /\ fatalCh' = FALSE
    /\ MainGoto("serving", "draining")
    /\ result' = "clean"
    /\ UNCHANGED <<session, cached, clock, once, runDone, stopped, tabLive, at>>
SelectFatal ==
    /\ fatalCh /\ fatalCh' = FALSE
    /\ MainGoto("serving", "draining")
    /\ result' = "error"
    /\ UNCHANGED <<session, cached, clock, once, runDone, stopped, tabLive, at>>

\* shutdownHTTP waits for the handlers; after its second timeout it closes
\* their connections and fails.
DrainEnds ==
    /\ MainGoto("draining", "closing")
    /\ result' = IF \A p \in Handlers : at[p] = "rest" THEN result ELSE "error"
    /\ UNCHANGED <<session, cached, clock, ending, tabLive, at>>

\* The deferred calls: the session is released and the audit log closed (RpcLog).
CloseAll ==
    /\ MainGoto("closing", "exited")
    /\ tabLive' = FALSE
    /\ UNCHANGED <<session, cached, clock, ending, result, at>>

SupervisorInit ==
    /\ session \in {"up", "hung", "lost"}
    /\ browserState = "starting" /\ browserFailures = 0
    /\ recent = FALSE /\ tick = FALSE /\ probeTrigger = FALSE
    /\ once = "new" /\ fatalCh = FALSE
    /\ runDone = FALSE /\ stopped = FALSE
    /\ main = "connecting" /\ tabLive = FALSE /\ result = "none"
    /\ at = [p \in Callers |-> IF p \in Handlers THEN "rest" ELSE "off"]

Environment == ChromeChanges \/ OperatorStops \/ IntervalPasses \/ ResyncFails
WatchdogStep == WatchdogEnds \/ ProbeOnTick \/ ProbeEarly \/ Ping \/ RecordAnswer \/ RecordMiss
FatalStep == FatalBegins \/ FatalMarks \/ FatalStopsRun \/ FatalSends
MainStep == Listen \/ SelectStop \/ SelectFatal \/ DrainEnds \/ CloseAll

SupervisorNext ==
    \/ Environment
    \/ WatchdogStep
    \/ WatcherWakes
    \/ FatalStep
    \/ \E p \in Callers : FatalReturns(p)
    \/ \E p \in Handlers : BeginRPC(p) \/ EndRPC(p)
    \/ Connect \/ ListTargets \/ StartFails \/ MainStep

SupervisorSpec == SupervisorInit /\ [][SupervisorNext]_supervisorVars

(***************************************************************************)
(* Fairness: goroutines run, the ticker fires, and what has a timeout      *)
(* (probes, draining) ends.  An RPC need not end; nor need the two parts   *)
(* of the start that no timeout bounds, connecting and ListTargets.        *)
(***************************************************************************)
SupervisorFairness ==
    /\ WF_supervisorVars(IntervalPasses)
    /\ WF_supervisorVars(ProbeOnTick)
    /\ WF_supervisorVars(Ping \/ RecordAnswer \/ RecordMiss)
    /\ WF_supervisorVars(WatcherWakes)
    /\ WF_supervisorVars(FatalStep)
    /\ \A p \in Callers : WF_supervisorVars(FatalReturns(p))
    /\ WF_supervisorVars(MainStep)

FairSupervisorSpec == SupervisorSpec /\ SupervisorFairness

-----------------------------------------------------------------------------
(***************************************************************************)
(* Properties.                                                             *)
(***************************************************************************)
SupervisorTypeOK ==
    /\ session \in {"up", "hung", "lost"}
    /\ browserState \in {"starting", "ready", "suspect", "failed"}
    /\ browserFailures \in 0..MaxFailures
    /\ recent \in BOOLEAN /\ tick \in BOOLEAN /\ probeTrigger \in BOOLEAN
    /\ once \in {"new", "mark", "stop", "send", "done"}
    /\ fatalCh \in BOOLEAN
    /\ runDone \in BOOLEAN /\ stopped \in BOOLEAN
    /\ main \in {"connecting", "listing", "listening", "serving", "draining", "closing",
                 "exited"}
    /\ tabLive \in BOOLEAN
    /\ result \in {"none", "clean", "error"}
    /\ at \in [Callers -> {"rest", "running", "off", "wait", "select", "ping", "answered",
                           "missed", "fatal", "ended"}]

\* What the probes and the fatal exit, which write it in turn, leave in the
\* cached state: /ready is "connected" only if the last probe that ended was
\* answered, and RPCs and /health agree and refuse once Limit probes in a row
\* have failed (README: "ready -> suspect -> failed").
HealthTells ==
    /\ BrowserHealthField(TRUE) => browserFailures = 0
    /\ main # "connecting" => (BrowserHealthField(FALSE) <=> EnsureBrowserSession)
    /\ browserFailures >= Limit => ~EnsureBrowserSession

\* "Only ErrorTransport is an immediate daemon-fatal condition" (errors.go): the
\* daemon begins its fatal exit only when the session is gone or Limit probes in
\* a row have failed, not for one slow operation or an error of a page.
FatalOnlyOnLoss == once # "new" => session = "lost" \/ browserFailures >= Limit

\* The exit status tells a supervisor what to do ("stops the daemon with a
\* non-zero exit so a supervisor reconnects cleanly", fatalCDPLost): only a stop
\* of the operator ends in success, whichever channel the select takes.
CleanExitIsAsked == main = "exited" /\ result = "clean" => stopped

\* The watchdog's verdict is final: Chrome answering again, an early probe that
\* was asked for before, or the drain of the handlers do not revive the session.
VerdictStands ==
    [][browserState = "failed" /\ browserFailures >= Limit => browserState' = "failed"]_supervisorVars

\* Once its start is over, a daemon whose Chrome hangs or is gone for good, or
\* that is told to stop, exits, though handlers may hang too.  (One that is stuck
\* in ListTargets does not: waitForShutdown is not reached, and fatalCDPLost
\* waits for tabMu.)
DaemonExits ==
    <>[](main \notin {"connecting", "listing"} /\ (session # "up" \/ stopped))
        => <>(main = "exited")
=============================================================================
