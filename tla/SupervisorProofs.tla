--------------------------- MODULE SupervisorProofs ---------------------------
(***************************************************************************)
(* The safety of the supervisor, for every set of handlers and every limit *)
(* of failures.  The inductive invariant says which goroutine may still    *)
(* change the cached state after the watchdog's verdict: none, because the *)
(* watchdog runs the fatal exit, or waits for it, before it probes again,  *)
(* and from then on the run context is cancelled and no probe is answered. *)
(***************************************************************************)
EXTENDS Supervisor, TLAPS

\* While it connects, no goroutine but main has anything to do.
Quiet == main = "connecting" =>
            /\ browserState = "starting" /\ browserFailures = 0 /\ once = "new"
            /\ \A p \in Callers : at[p] \in {"rest", "off"}

\* The watchdog runs once the tabs are listed.
WatchdogOff == main \in {"connecting", "listing"} => at["watchdog"] = "off"

\* What the cached state says.
StateMeans ==
    /\ browserState = "starting" => ~tabLive
    /\ browserState = "ready" => browserFailures = 0
    /\ browserFailures >= Limit => browserState = "failed"

\* After the verdict no probe is answered.
VerdictFinal ==
    /\ once \in {"send", "done"} => runDone
    /\ browserFailures >= Limit => at["watchdog"] = "fatal" \/ runDone
    /\ at["watchdog"] = "answered" => browserFailures < Limit
    /\ at["watchdog"] \in {"ping", "answered", "missed"} => browserFailures < MaxFailures

\* A clean result is the operator's.
CleanAsked == result = "clean" => stopped

SupervisorInv == SupervisorTypeOK /\ Quiet /\ WatchdogOff /\ StateMeans /\ VerdictFinal
                     /\ CleanAsked

\* The daemon that starts satisfies the invariant.
LEMMA InitInv == SupervisorInit => SupervisorInv
<1> SUFFICES ASSUME SupervisorInit PROVE SupervisorInv
  OBVIOUS
<1>1. /\ recent \in BOOLEAN /\ tick \in BOOLEAN /\ probeTrigger \in BOOLEAN
      /\ fatalCh \in BOOLEAN /\ runDone \in BOOLEAN /\ stopped \in BOOLEAN
      /\ tabLive \in BOOLEAN /\ ~tabLive
  BY DEF SupervisorInit
<1>2. /\ session \in {"up", "hung", "lost"} /\ browserState = "starting"
      /\ browserFailures = 0 /\ once = "new" /\ main = "connecting" /\ result = "none"
  BY DEF SupervisorInit
<1>3. at = [p \in Callers |-> IF p \in Handlers THEN "rest" ELSE "off"]
  BY DEF SupervisorInit
<1>4. at["watchdog"] = "off"
  BY <1>3, SupervisorAssumption DEF Callers
<1>5. SupervisorTypeOK
  BY <1>1, <1>2, <1>3, SupervisorAssumption DEF SupervisorTypeOK
<1>6. QED
  BY <1>1, <1>2, <1>3, <1>4, <1>5, SupervisorAssumption
     DEF SupervisorInv, Quiet, WatchdogOff, StateMeans, VerdictFinal, CleanAsked

\* Every step preserves it.
LEMMA NextInv == SupervisorInv /\ [SupervisorNext]_supervisorVars => SupervisorInv'
<1> SUFFICES ASSUME SupervisorInv, [SupervisorNext]_supervisorVars
             PROVE  SupervisorInv'
  OBVIOUS
<1> USE SupervisorAssumption
    DEF SupervisorInv, SupervisorTypeOK, Quiet, WatchdogOff, StateMeans, VerdictFinal,
        CleanAsked, Callers, Running, Goto, FatalGoto, MainGoto, cached, clock, ending, serve
<1>1. CASE ChromeChanges
  BY <1>1 DEF ChromeChanges
<1>2. CASE OperatorStops
  BY <1>2 DEF OperatorStops
<1>3. CASE IntervalPasses
  <2>1. tick' \in BOOLEAN /\ recent' \in BOOLEAN
    BY <1>3 DEF IntervalPasses
  <2>2. UNCHANGED <<session, cached, probeTrigger, ending, serve, at>>
    BY <1>3 DEF IntervalPasses
  <2>3. QED  BY <2>1, <2>2
<1>4. CASE ResyncFails
  BY <1>4 DEF ResyncFails
<1>5. CASE WatchdogEnds
  BY <1>5 DEF WatchdogEnds
<1>6. CASE ProbeOnTick
  <2>1. tick' \in BOOLEAN /\ browserFailures < MaxFailures
    BY <1>6 DEF ProbeOnTick
  <2>2. Goto("watchdog", "select", "ping")
    BY <1>6 DEF ProbeOnTick
  <2>3. UNCHANGED <<session, cached, recent, probeTrigger, ending, serve>>
    BY <1>6 DEF ProbeOnTick
  <2>4. QED  BY <2>1, <2>2, <2>3
<1>7. CASE ProbeEarly
  <2>1. probeTrigger' \in BOOLEAN /\ browserFailures < MaxFailures
    BY <1>7 DEF ProbeEarly
  <2>2. PICK pc \in {"select", "ping"} : Goto("watchdog", "select", pc)
    BY <1>7 DEF ProbeEarly
  <2>3. UNCHANGED <<session, cached, recent, tick, ending, serve>>
    BY <1>7 DEF ProbeEarly
  <2>4. QED  BY <2>1, <2>2, <2>3
<1>8. CASE Ping
  BY <1>8 DEF Ping
<1>9. CASE RecordAnswer
  BY <1>9 DEF RecordAnswer
<1>10. CASE RecordMiss
  BY <1>10 DEF RecordMiss, Fatal
<1>11. CASE WatcherWakes
  BY <1>11 DEF WatcherWakes
<1>12. CASE FatalBegins
  BY <1>12 DEF FatalBegins
<1>13. CASE FatalMarks
  BY <1>13 DEF FatalMarks
<1>14. CASE FatalStopsRun
  BY <1>14 DEF FatalStopsRun
<1>15. CASE FatalSends
  BY <1>15 DEF FatalSends
<1>16. ASSUME NEW p \in Callers, FatalReturns(p)
       PROVE  SupervisorInv'
  BY <1>16 DEF FatalReturns, AfterFatal
<1>17. ASSUME NEW p \in Handlers, BeginRPC(p)
       PROVE  SupervisorInv'
  BY <1>17 DEF BeginRPC
<1>18. ASSUME NEW p \in Handlers, EndRPC(p)
       PROVE  SupervisorInv'
  <2>1. PICK pc \in {"fatal", "rest"} : Goto(p, "running", pc)
    BY <1>18 DEF EndRPC
  <2>2. probeTrigger' \in BOOLEAN
    BY <1>18 DEF EndRPC
  <2>3. UNCHANGED <<session, cached, recent, tick, ending, serve>>
    BY <1>18 DEF EndRPC
  <2>4. QED  BY <2>1, <2>2, <2>3
<1>19. CASE Connect
  BY <1>19 DEF Connect
<1>20. CASE StartFails
  BY <1>20 DEF StartFails
<1>21. CASE ListTargets
  <2>1. MainGoto("listing", "listening")
    BY <1>21 DEF ListTargets
  <2>2. at' = [at EXCEPT !["watchdog"] = "select"]
    BY <1>21 DEF ListTargets
  <2>3. UNCHANGED <<session, cached, clock, ending, tabLive, result>>
    BY <1>21 DEF ListTargets
  <2>4. QED  BY <2>1, <2>2, <2>3
<1>22. CASE Listen
  BY <1>22 DEF Listen
<1>23. CASE SelectStop
  BY <1>23 DEF SelectStop
<1>24. CASE SelectFatal
  <2>1. MainGoto("serving", "draining") /\ result' = "error"
    BY <1>24 DEF SelectFatal
  <2>2. fatalCh' \in BOOLEAN
    BY <1>24 DEF SelectFatal
  <2>3. UNCHANGED <<session, cached, clock, once, runDone, stopped, tabLive, at>>
    BY <1>24 DEF SelectFatal
  <2>4. QED  BY <2>1, <2>2, <2>3
<1>25. CASE DrainEnds
  BY <1>25 DEF DrainEnds
<1>26. CASE CloseAll
  <2>1. MainGoto("closing", "exited")
    BY <1>26 DEF CloseAll
  <2>2. ~tabLive' /\ tabLive' \in BOOLEAN
    BY <1>26 DEF CloseAll
  <2>3. UNCHANGED <<session, cached, clock, ending, result, at>>
    BY <1>26 DEF CloseAll
  <2>4. QED  BY <2>1, <2>2, <2>3
<1>27. CASE UNCHANGED supervisorVars
  BY <1>27 DEF supervisorVars
<1>28. QED
  BY <1>1, <1>2, <1>3, <1>4, <1>5, <1>6, <1>7, <1>8, <1>9, <1>10, <1>11, <1>12, <1>13,
     <1>14, <1>15, <1>16, <1>17, <1>18, <1>19, <1>20, <1>21, <1>22, <1>23, <1>24, <1>25,
     <1>26, <1>27
  DEF SupervisorNext, Environment, WatchdogStep, FatalStep, MainStep

\* The invariant holds in every state the daemon reaches.
LEMMA InvAlways == SupervisorSpec => []SupervisorInv
<1>1. QED  BY InitInv, NextInv, PTL DEF SupervisorSpec

\* The cached state stays in its type; /ready and /health, and the check of
\* every RPC, agree with the probes; and only a stop ends in success.
THEOREM SupervisorSafe ==
    SupervisorSpec => [](SupervisorTypeOK /\ HealthTells /\ CleanExitIsAsked)
<1>1. SupervisorInv => SupervisorTypeOK /\ HealthTells /\ CleanExitIsAsked
  BY SupervisorAssumption
     DEF SupervisorInv, SupervisorTypeOK, Quiet, StateMeans, CleanAsked, HealthTells,
         CleanExitIsAsked, BrowserHealthField, EnsureBrowserSession
<1>2. QED  BY <1>1, InvAlways, PTL

\* Its parts: the watchdog's counters and states stay in their types ...
THEOREM SupervisorTyped == SupervisorSpec => []SupervisorTypeOK
BY SupervisorSafe, PTL

\* ... and the daemon exits with success only if an operator or a shutdown
\* request asked it to (waitForShutdown).
THEOREM CleanExitAsked == SupervisorSpec => []CleanExitIsAsked
BY SupervisorSafe, PTL

\* The failures of a verdict are never reset: only an answered probe and the
\* start reset them.
LEMMA FailuresStay ==
  ASSUME SupervisorInv, SupervisorNext, browserFailures >= Limit
  PROVE  browserFailures' >= Limit
<1>1. CASE RecordMiss
  BY <1>1, SupervisorAssumption DEF RecordMiss, SupervisorInv, SupervisorTypeOK
<1>2. ~RecordAnswer /\ ~Connect
  BY SupervisorAssumption
     DEF RecordAnswer, Connect, Goto, MainGoto, SupervisorInv, Quiet, VerdictFinal,
         SupervisorTypeOK
<1>3. CASE UNCHANGED browserFailures
  BY <1>3
<1>4. QED
  BY <1>1, <1>2, <1>3
     DEF SupervisorNext, Environment, WatchdogStep, FatalStep, MainStep, cached,
         ChromeChanges, OperatorStops, IntervalPasses, ResyncFails, WatchdogEnds,
         ProbeOnTick, ProbeEarly, Ping, WatcherWakes, FatalBegins, FatalMarks,
         FatalStopsRun, FatalSends, FatalReturns, BeginRPC, EndRPC, StartFails,
         ListTargets, Listen, SelectStop, SelectFatal, DrainEnds, CloseAll

\* The watchdog's verdict is never revoked.
THEOREM VerdictFinalAlways == SupervisorSpec => VerdictStands
<1>1. SupervisorInv /\ SupervisorInv' /\ [SupervisorNext]_supervisorVars =>
        [browserState = "failed" /\ browserFailures >= Limit
            => browserState' = "failed"]_supervisorVars
  <2> SUFFICES ASSUME SupervisorInv, SupervisorInv', SupervisorNext,
                      browserState = "failed", browserFailures >= Limit
               PROVE  browserState' = "failed"
    BY DEF supervisorVars
  <2>1. QED  BY FailuresStay DEF SupervisorInv, StateMeans
<1>2. QED  BY <1>1, InvAlways, PTL DEF SupervisorSpec, VerdictStands

-----------------------------------------------------------------------------
\* Whoever runs the fatal exit, or waits for it, has lost the session or a
\* verdict as its reason.
Reason == session = "lost" \/ browserFailures >= Limit
Reasoned == (\E p \in Callers : at[p] = "fatal") \/ once # "new" => Reason

\* A reason does not go away: the session does not return, and only an answered
\* probe or the start resets the failures.
LEMMA ReasonStays ==
  ASSUME SupervisorInv, SupervisorNext, Reason, main # "connecting"
  PROVE  Reason'
<1>1. session = "lost" => session' = "lost"
  BY DEF SupervisorNext, Environment, WatchdogStep, FatalStep, MainStep, ChromeChanges,
         OperatorStops, IntervalPasses, ResyncFails, WatchdogEnds, ProbeOnTick, ProbeEarly,
         Ping, RecordAnswer, RecordMiss, WatcherWakes, FatalBegins, FatalMarks,
         FatalStopsRun, FatalSends, FatalReturns, BeginRPC, EndRPC, Connect, StartFails,
         ListTargets, Listen, SelectStop, SelectFatal, DrainEnds, CloseAll
<1>2. browserFailures >= Limit => browserFailures' >= Limit
  BY FailuresStay
<1>3. QED  BY <1>1, <1>2 DEF Reason

\* Every step that makes a caller of fatalCDPLost has a reason for it.
LEMMA NextReasoned ==
  ASSUME SupervisorInv, Reasoned, SupervisorNext, "soundsLost" \notin RpcErrors
  PROVE  Reasoned'
<1>1. CASE RecordMiss
  <2>1. CASE Fatal
    BY <1>1, <2>1 DEF RecordMiss, Fatal, Reasoned, Reason
  <2>2. CASE ~Fatal
    <3>1. at' = [at EXCEPT !["watchdog"] = "select"] /\ UNCHANGED once
      BY <1>1, <2>2 DEF RecordMiss, Goto, ending
    <3>2. Reason => Reason'
      BY <1>1, ReasonStays DEF RecordMiss, Goto, SupervisorInv, WatchdogOff
    <3>3. QED  BY <3>1, <3>2 DEF Reasoned, SupervisorInv, SupervisorTypeOK
  <2>3. QED  BY <2>1, <2>2
<1>2. CASE WatcherWakes
  BY <1>2 DEF WatcherWakes, Reasoned, Reason
<1>3. ASSUME NEW p \in Handlers, EndRPC(p)
      PROVE  Reasoned'
  <2>1. CASE session = "lost"
    BY <1>3, <2>1 DEF EndRPC, Reasoned, Reason
  <2>2. CASE session # "lost"
    <3>1. at' = [at EXCEPT ![p] = "rest"] /\ UNCHANGED <<once, session, browserFailures>>
      BY <1>3, <2>2, SupervisorAssumption
         DEF EndRPC, Goto, IsCDPSessionLost, ending, cached
    <3>2. QED  BY <3>1 DEF Reasoned, Reason, SupervisorInv, SupervisorTypeOK
  <2>3. QED  BY <2>1, <2>2
<1>4. CASE Connect
  BY <1>4 DEF Connect, MainGoto, ending, Reasoned, SupervisorInv, SupervisorTypeOK, Quiet, Callers
<1>5. CASE ListTargets
  BY <1>5 DEF ListTargets, cached, ending, Reasoned, Reason, SupervisorInv, SupervisorTypeOK
<1>6. CASE FatalBegins
  BY <1>6 DEF FatalBegins, cached, Reasoned, Reason
<1>7. CASE RecordAnswer
  <2>1. at' = [at EXCEPT !["watchdog"] = "select"] /\ UNCHANGED <<once, session>>
    BY <1>7 DEF RecordAnswer, Goto, ending
  <2>2. Reason => session = "lost"
    BY <1>7, SupervisorAssumption
       DEF RecordAnswer, Goto, Reason, SupervisorInv, VerdictFinal, SupervisorTypeOK
  <2>3. QED  BY <2>1, <2>2 DEF Reasoned, Reason, SupervisorInv, SupervisorTypeOK
<1>8. ASSUME session = "lost" => session' = "lost", UNCHANGED browserFailures,
             once = "new" => once' = "new",
             \A p \in Callers : at[p] # "fatal" => at'[p] # "fatal"
      PROVE  Reasoned'
  BY <1>8 DEF Reasoned, Reason
<1>9. CASE ChromeChanges \/ OperatorStops \/ IntervalPasses \/ ResyncFails
  BY <1>8, <1>9
     DEF ChromeChanges, OperatorStops, IntervalPasses, ResyncFails, cached, ending
<1>10. CASE WatchdogEnds \/ ProbeOnTick \/ ProbeEarly \/ Ping
  <2>1. PICK pc \in {"ended", "ping", "select", "answered", "missed"} :
            at' = [at EXCEPT !["watchdog"] = pc]
    BY <1>10 DEF WatchdogEnds, ProbeOnTick, ProbeEarly, Ping, Goto
  <2>2. UNCHANGED <<session, browserFailures, once>>
    BY <1>10 DEF WatchdogEnds, ProbeOnTick, ProbeEarly, Ping, cached, ending
  <2>3. QED  BY <1>8, <2>1, <2>2 DEF SupervisorInv, SupervisorTypeOK
<1>11. CASE FatalMarks \/ FatalStopsRun \/ FatalSends
  BY <1>8, <1>11 DEF FatalMarks, FatalStopsRun, FatalSends, FatalGoto, cached
<1>12. ASSUME NEW p \in Callers, FatalReturns(p)
       PROVE  Reasoned'
  BY <1>12 DEF FatalReturns, cached, ending, Reasoned, Reason
<1>13. ASSUME NEW p \in Handlers, BeginRPC(p)
       PROVE  Reasoned'
  <2>1. at' = [at EXCEPT ![p] = "running"] /\ UNCHANGED <<session, browserFailures, once>>
    BY <1>13 DEF BeginRPC, Goto, cached, ending
  <2>2. QED  BY <1>8, <2>1 DEF SupervisorInv, SupervisorTypeOK
<1>14. CASE Listen \/ StartFails \/ SelectStop \/ SelectFatal \/ DrainEnds \/ CloseAll
  BY <1>8, <1>14
     DEF Listen, StartFails, SelectStop, SelectFatal, DrainEnds, CloseAll, cached, ending
<1>15. QED
  BY <1>1, <1>2, <1>3, <1>4, <1>5, <1>6, <1>7, <1>9, <1>10, <1>11, <1>12, <1>13, <1>14
     DEF SupervisorNext, Environment, WatchdogStep, FatalStep, MainStep

\* If the texts of errors tell lost sessions from errors of a page, the daemon
\* begins its fatal exit only for a lost session or a verdict.
THEOREM FatalJustified ==
  ASSUME "soundsLost" \notin RpcErrors
  PROVE  SupervisorSpec => []FatalOnlyOnLoss
<1>1. SupervisorInit => Reasoned
  BY SupervisorAssumption DEF SupervisorInit, Reasoned, Callers
<1>2. SupervisorInv /\ Reasoned /\ [SupervisorNext]_supervisorVars => Reasoned'
  BY NextReasoned
     DEF supervisorVars, cached, ending, Reasoned, Reason
<1>3. Reasoned => FatalOnlyOnLoss
  BY DEF Reasoned, Reason, FatalOnlyOnLoss
<1>4. QED  BY <1>1, <1>2, <1>3, InvAlways, PTL DEF SupervisorSpec

=============================================================================
