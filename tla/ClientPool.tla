------------------------------ MODULE ClientPool ------------------------------
(***************************************************************************)
(* daemonclient.Pool: calls of several goroutines spread over N daemons    *)
(* (pkg/daemonclient/pool.go).  A tab id of the pool is a daemon and the   *)
(* short id of the tab there.  What happens in between is external: a call *)
(* may fail before or after its daemon has done what was asked, and others *)
(* open and close tabs too.  The id of a tab that is closed is free again. *)
(***************************************************************************)
EXTENDS Naturals, FiniteSets, Sequences

CONSTANTS
    N,        \* number of backends
    Callers,  \* goroutines that call the pool
    Shorts,   \* short ids a daemon may give to its tabs
    MaxCalls  \* bound on the calls made

ASSUME PoolAssumption ==
    /\ N \in Nat \ {0}
    /\ IsFiniteSet(Callers)
    /\ MaxCalls \in Nat

VARIABLES
    tabs,      \* Pool.tabs: the backend of each bound tab id, 0 for none
    inFlight,  \* Pool.inFlight
    rr,        \* Pool.rr modulo N
    call,      \* the call of each goroutine: its position and local variables
    calls,     \* number of calls so far
    open,      \* the open tabs of each daemon
    born       \* the tabs each daemon ever opened (a history variable)

poolVars == <<tabs, inFlight, rr, call, calls>>
daemonVars == <<open, born>>
vars == <<poolVars, daemonVars>>

Backends == 1..N
TabIDs == Backends \X Shorts
Prefixed(b, shorts) == {b} \X shorts

\* "unbound" stands for all methods without a tab and the health checks, "use" for all
\* methods of a tab but tab_close.
Walking == {"create", "unbound", "list", "focus"}
\* A call: what it is, where it is, and its tab if it has one; the backends still to
\* try, the one being tried first; the short ids in the reply; the backends that
\* failed, and whether some list was obtained (anyOK).
NoCall == [op |-> "none", at |-> "rest", tab |-> <<>>, todo |-> <<>>, reply |-> {},
           failed |-> {}, listed |-> FALSE]

Goes(c, at) == call' = [call EXCEPT ![c].at = at]
Returns(c) == call' = [call EXCEPT ![c] = NoCall]
Backend(c) == Head(call[c].todo)
Replied(c) == Prefixed(Backend(c), call[c].reply)
\* track, and the function it returns.
Hold(b) == inFlight' = [inFlight EXCEPT ![b] = @ + 1]
Release(b) == inFlight' = [inFlight EXCEPT ![b] = @ - 1]
\* An id that another backend owns is left alone.
Bind(ids, b) == tabs' = [t \in TabIDs |-> IF t \in ids /\ tabs[t] = 0 THEN b ELSE tabs[t]]
Unbind(ids) == tabs' = [t \in TabIDs |-> IF t \in ids THEN 0 ELSE tabs[t]]

-----------------------------------------------------------------------------
(***************************************************************************)
(* order: the least loaded backend, the first from rr on among equals,     *)
(* then the ring.  The loads are read in one step (the code reads them one *)
(* after the other), but a call counts only from its Send on.              *)
(***************************************************************************)
Ring(first) == [i \in Backends |-> ((first + i - 2) % N) + 1]
Best(start) ==
    LET least == {b \in Backends : \A d \in Backends : inFlight[b] <= inFlight[d]}
    IN  Ring(start)[CHOOSE i \in Backends :
                        /\ Ring(start)[i] \in least
                        /\ \A j \in 1..(i - 1) : Ring(start)[j] \notin least]
\* Planted bug: the walk leaves out the last backend of the ring.
OrderShort(start) == SubSeq(Ring(Best(start)), 1, N - 1)
Order(start) == Ring(Best(start))

-----------------------------------------------------------------------------
(***************************************************************************)
(* The calls.                                                              *)
(***************************************************************************)
\* A tab of a bound call has to be in the map.
Resolves(tab) == tab \in TabIDs /\ tabs[tab] # 0

\* Call, Health, Ready and Live.  A bound call goes to the backend its prefix names,
\* and to no other.
Begin(c, op, tab) ==
    /\ call[c].at = "rest" /\ calls < MaxCalls
    /\ calls' = calls + 1
    /\ op \in {"close", "use"} => Resolves(tab)
    /\ op \in Walking => tab = <<>>
    /\ call' = [call EXCEPT ![c] =
                   [NoCall EXCEPT !.op = op, !.at = "walk", !.tab = tab,
                                  !.todo = CASE op \in {"create", "unbound"} -> Order(rr + 1)
                                             [] op \in {"list", "focus"} -> Ring(1)
                                             [] OTHER -> <<tab[1]>>]]
    /\ rr' = IF op \in {"create", "unbound"} THEN (rr + 1) % N ELSE rr
    /\ UNCHANGED <<tabs, inFlight, daemonVars>>

Send(c) ==
    /\ call[c].at = "walk" /\ call[c].todo # <<>>
    /\ Hold(Backend(c))
    /\ Goes(c, "sent")
    /\ UNCHANGED <<tabs, rr, calls, daemonVars>>

\* The caller's context is done when the walk looks at it.
CallerCancels(c) ==
    /\ call[c].at = "walk" /\ call[c].op \in Walking /\ call[c].todo # <<>>
    /\ Returns(c)
    /\ UNCHANGED <<tabs, inFlight, rr, calls, daemonVars>>

\* The merged list, or AllFailedError.
WalkEnds(c) ==
    /\ call[c].at = "walk" /\ call[c].todo = <<>>
    /\ Returns(c)
    /\ UNCHANGED <<tabs, inFlight, rr, calls, daemonVars>>

\* The call fails on the way there, at the daemon or on the way back, or its reply has
\* no tab id: a walk goes on with the next backend, a bound call returns.  The tab of
\* such a tab_new stays open.
After(c, failed) ==
    call' = [call EXCEPT ![c].at = "walk", ![c].todo = Tail(@), ![c].reply = {},
                         ![c].failed = @ \cup failed]
\* Planted bug: the hold is not released.
FailsHolding(c) ==
    /\ call[c].at \in {"sent", "served"}
    /\ IF call[c].op \in Walking THEN After(c, {Backend(c)}) ELSE Returns(c)
    /\ UNCHANGED <<tabs, inFlight, rr, calls, daemonVars>>
Fails(c) ==
    /\ call[c].at \in {"sent", "served"}
    /\ Release(Backend(c))
    /\ IF call[c].op \in Walking THEN After(c, {Backend(c)}) ELSE Returns(c)
    /\ UNCHANGED <<tabs, rr, calls, daemonVars>>

\* The call succeeds and its hold is released, by callBound too, before the map changes.
Succeeds(c) ==
    /\ call[c].at = "served"
    /\ Release(Backend(c))
    /\ IF call[c].op \in {"unbound", "use"} THEN Returns(c) ELSE Goes(c, "released")
    /\ UNCHANGED <<tabs, rr, calls, daemonVars>>

\* callCreate: the new tab is bound ...
\* Planted bug: it is bound to the position of the backend in the walk.
CreatedByPosition(c) ==
    /\ call[c].at = "released" /\ call[c].op = "create"
    /\ Bind(Replied(c), Cardinality(call[c].failed) + 1)
    /\ Goes(c, "bound")
    /\ UNCHANGED <<inFlight, rr, calls, daemonVars>>
Created(c) ==
    /\ call[c].at = "released" /\ call[c].op = "create"
    /\ Bind(Replied(c), Backend(c))
    /\ Goes(c, "bound")
    /\ UNCHANGED <<inFlight, rr, calls, daemonVars>>
Decodes(c) ==
    /\ call[c].at = "bound"
    /\ Returns(c)
    /\ UNCHANGED <<tabs, inFlight, rr, calls, daemonVars>>
\* ... and unbound again if the caller's result cannot be decoded, ...
DecodeFails(c) ==
    /\ call[c].at = "bound"
    /\ Unbind(Replied(c))
    /\ Goes(c, "undone")
    /\ UNCHANGED <<inFlight, rr, calls, daemonVars>>

Closed(b, shorts) == open' = [open EXCEPT ![b] = @ \ shorts] /\ UNCHANGED born

\* ... and closed (abandonCreated), whether or not the caller's context is done.  The
\* close counts as a call of its own; its error is ignored.
\* Planted bug: its end is counted, its start is not.
AbandonsUntracked(c) ==
    /\ call[c].at = "undone"
    /\ Goes(c, "abandon")
    /\ UNCHANGED <<tabs, inFlight, rr, calls, daemonVars>>
Abandons(c) ==
    /\ call[c].at = "undone"
    /\ Hold(Backend(c))
    /\ Goes(c, "abandon")
    /\ UNCHANGED <<tabs, rr, calls, daemonVars>>
Abandoned(c) ==
    /\ call[c].at = "abandon"
    /\ Closed(Backend(c), call[c].reply) \/ UNCHANGED daemonVars
    /\ Release(Backend(c)) /\ Returns(c)
    /\ UNCHANGED <<tabs, rr, calls>>

\* bindObservedTabs, one tab after another.
Observes(c) ==
    /\ call[c].at = "released" /\ call[c].op \in {"list", "focus"}
    /\ \E s \in call[c].reply : /\ Bind(Prefixed(Backend(c), {s}), Backend(c))
                                /\ call' = [call EXCEPT ![c].reply = @ \ {s}]
    /\ UNCHANGED <<inFlight, rr, calls, daemonVars>>
\* tab_focus takes the first answer, tab_list asks all backends.
Listed(c) ==
    /\ call[c].at = "released" /\ call[c].op \in {"list", "focus"} /\ call[c].reply = {}
    /\ IF call[c].op = "focus" THEN Returns(c)
       ELSE call' = [call EXCEPT ![c].at = "walk", ![c].todo = Tail(@), ![c].listed = TRUE]
    /\ UNCHANGED <<tabs, inFlight, rr, calls, daemonVars>>

\* callClose: by now a new tab may have the id that the closed one had.
Unbinds(c) ==
    /\ call[c].at = "released" /\ call[c].op = "close"
    /\ Unbind({call[c].tab})
    /\ Returns(c)
    /\ UNCHANGED <<inFlight, rr, calls, daemonVars>>

ForgetTab(t) ==
    /\ tabs[t] # 0
    /\ Unbind({t})
    /\ UNCHANGED <<inFlight, rr, call, calls, daemonVars>>

-----------------------------------------------------------------------------
(***************************************************************************)
(* The daemons, and who else uses them (external).                         *)
(***************************************************************************)
\* assignShortLocked: a short id that no open tab has.
Opened(b, s) ==
    /\ s \notin open[b]
    /\ open' = [open EXCEPT ![b] = @ \cup {s}]
    /\ born' = [born EXCEPT ![b] = @ \cup {s}]
Answers(c, reply) == call' = [call EXCEPT ![c].at = "served", ![c].reply = reply]

Serve(c) ==
    LET b == Backend(c) IN
    /\ call[c].at = "sent"
    /\ \/ /\ call[c].op = "create"
          /\ \E s \in Shorts : Opened(b, s) /\ Answers(c, {s})
       \/ /\ call[c].op \in {"list", "focus"}
          /\ \E shorts \in SUBSET open[b] :
                 /\ IF call[c].op = "list" THEN shorts = open[b] ELSE Cardinality(shorts) <= 1
                 /\ Answers(c, shorts)
          /\ UNCHANGED daemonVars
       \/ call[c].op = "close" /\ Closed(b, {call[c].tab[2]}) /\ Answers(c, {})
       \/ call[c].op \in {"unbound", "use"} /\ Answers(c, {}) /\ UNCHANGED daemonVars
    /\ UNCHANGED <<tabs, inFlight, rr, calls>>

OthersOpen(b) == \E s \in Shorts : Opened(b, s) /\ UNCHANGED poolVars
OthersClose(b) == \E s \in open[b] : Closed(b, {s}) /\ UNCHANGED poolVars

-----------------------------------------------------------------------------
Init ==
    /\ tabs = [t \in TabIDs |-> 0]
    /\ inFlight = [b \in Backends |-> 0]
    /\ rr = 0
    /\ call = [c \in Callers |-> NoCall]
    /\ calls = 0
    /\ open = [b \in Backends |-> {}]
    /\ born = [b \in Backends |-> {}]

Next ==
    \/ \E c \in Callers :
          \/ \E op \in Walking : Begin(c, op, <<>>)
          \/ \E op \in {"close", "use"}, t \in TabIDs : Begin(c, op, t)
          \/ Send(c) \/ CallerCancels(c) \/ WalkEnds(c)
          \/ Serve(c) \/ Fails(c) \/ Succeeds(c)
          \/ Created(c) \/ Decodes(c) \/ DecodeFails(c) \/ Abandons(c) \/ Abandoned(c)
          \/ Observes(c) \/ Listed(c) \/ Unbinds(c)
    \/ \E t \in TabIDs : ForgetTab(t)
    \/ \E b \in Backends : OthersOpen(b) \/ OthersClose(b)

Spec == Init /\ [][Next]_vars

-----------------------------------------------------------------------------
Positions == {"rest", "walk", "sent", "served", "released", "bound", "undone", "abandon"}
PoolTypeOK ==
    /\ tabs \in [TabIDs -> 0..N]
    /\ inFlight \in [Backends -> Nat]
    /\ rr \in 0..(N - 1)
    /\ \A c \in Callers :
          /\ call[c].op \in Walking \cup {"close", "use", "none"}
          /\ call[c].at \in Positions
          /\ call[c].todo \in Seq(Backends) /\ Len(call[c].todo) <= N
          /\ call[c].at \notin {"rest", "walk"} => call[c].todo # <<>>
          /\ call[c].failed \subseteq Backends
          /\ call[c].reply \subseteq Shorts
    /\ calls \in 0..MaxCalls

\* Affinity: the map never sends a tab anywhere but to the daemon its prefix names, and
\* only knows tabs that this daemon has opened, whatever lists, closes and failovers
\* come in between.
BoundTabsAreReal ==
    \A t \in TabIDs : tabs[t] # 0 => tabs[t] = t[1] /\ t[2] \in born[t[1]]

\* The loads that order compares are exact: each call in flight counts once, on the
\* backend that has it, through every failure, failover and abandoned creation; a load
\* that leaked would turn the pool away from a backend for ever.
LoadIsExact ==
    \A b \in Backends :
        inFlight[b] = Cardinality({c \in Callers :
            call[c].at \in {"sent", "served", "abandon"} /\ Backend(c) = b})

\* AllFailedError means that every backend was tried and failed.
AllFailedMeansAll ==
    [][\A c \in Callers :
           (WalkEnds(c) /\ ~call[c].listed) => call[c].failed = Backends]_vars
=============================================================================
