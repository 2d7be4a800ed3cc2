------------------------------ MODULE TabContext ------------------------------
(***************************************************************************)
(* The cached CDP context of one target: Session.tabPool, the attach in    *)
(* the background, its cancellation and the release of a failed attach     *)
(* (internal/browser/session.go).                                          *)
(*                                                                         *)
(* chromedp is external.  What matters of it: a context that is cancelled  *)
(* hands its Target to a watcher that detaches from the tab AND closes it, *)
(* so a daemon that must not close a user's tab has to clear Target before *)
(* it cancels, and must not touch Target once the watcher may read it.     *)
(***************************************************************************)
EXTENDS Target, Naturals, FiniteSets

CONSTANT MaxEntries   \* bound on the contexts that are created

ASSUME TabContextAssumption == MaxEntries \in Nat \ {0}

VARIABLES
    pool,   \* tabPool[target]: an entry, 0 for none
    ent     \* the tabPoolEntries ever created

contextVars == <<pool, ent>>

EntryIds == 1..MaxEntries

\* An entry: where initializeTabPoolEntry is; entry.err; attachCancellation.cancelled;
\* whether Chrome has a CDP session for it; whether chromedp's Target is set; whether
\* the watcher of its cancelled context has run; whether ForgetTarget or CloseTarget
\* took it (a history variable).
Unused == [phase |-> "unused", err |-> "none", cancelled |-> FALSE, session |-> FALSE,
           target |-> FALSE, watched |-> FALSE, taken |-> FALSE]
Phases == {"unused", "running", "failed", "attached", "release", "detach", "clear", "cancel",
           "settled"}
Entry == [phase : Phases, err : {"none", "attach", "removed"}, cancelled : BOOLEAN,
          session : BOOLEAN, target : BOOLEAN, watched : BOOLEAN, taken : BOOLEAN]

\* close(entry.ready) has happened.
Published(e) == ent[e].phase \in {"release", "detach", "clear", "cancel", "settled"}

\* The context of e is done; Chrome serves its session; commands in it can succeed.
Cancelled(e) == ent[e].cancelled \/ lost
Serves(e) == Reachable /\ ent[e].session
Usable(e) == Serves(e) /\ ~Cancelled(e)

WithEntry(e, field, value) == [ent EXCEPT ![e][field] = value]

-----------------------------------------------------------------------------
(***************************************************************************)
(* Chrome and chromedp (external).                                         *)
(***************************************************************************)
\* chromedp attaches: Target is set before Run has enabled all domains.
Attach(e) ==
    /\ ent[e].phase = "running"
    /\ ~ent[e].target
    /\ Reachable /\ ~ent[e].cancelled
    /\ ent' = [ent EXCEPT ![e].target = TRUE, ![e].session = TRUE]
    /\ UNCHANGED <<targetVars, pool>>

\* chromedp.Run(entry.ctx) returns.
RunEnds(e) ==
    /\ ent[e].phase = "running"
    /\ \/ ent[e].target /\ ~Cancelled(e) /\ ent' = WithEntry(e, "phase", "attached")
       \/ ent' = WithEntry(e, "phase", "failed")
    /\ UNCHANGED <<targetVars, pool>>

\* The watcher of a cancelled context.
Watch(e) ==
    /\ ent[e].phase # "unused"
    /\ Cancelled(e)
    /\ ~ent[e].watched
    /\ live' = (live /\ (lost \/ ~ent[e].target))
    /\ ent' = [ent EXCEPT ![e].watched = TRUE, ![e].session = FALSE]
    /\ UNCHANGED <<lost, pool>>

-----------------------------------------------------------------------------
(***************************************************************************)
(* tabChromeCtxContext: the first caller creates the entry and starts the  *)
(* attach; all wait for it, or until their own request ends.               *)
(***************************************************************************)
\* Entries are created in order.
NewEntry == Cardinality({e \in EntryIds : ent[e].phase # "unused"}) + 1

FindEntry ==
    \/ pool # 0 /\ UNCHANGED <<pool, ent>>
    \/ /\ pool = 0 /\ NewEntry \in EntryIds
       /\ pool' = NewEntry
       /\ ent' = WithEntry(NewEntry, "phase", "running")

\* A call that only uses the context, with or without the lock of the tab (the
\* focus probe of tab_focus): it leaves nothing behind but a new entry.
Use == pool = 0 /\ FindEntry /\ UNCHANGED targetVars

-----------------------------------------------------------------------------
(***************************************************************************)
(* The end of initializeTabPoolEntry, and releaseFailedAttach.             *)
(***************************************************************************)
\* Planted bug: a failed attach stays in the pool.
PublishKeeping(e) ==
    /\ ent[e].phase \in {"attached", "failed"}
    /\ IF pool # e
       THEN /\ ent' = [ent EXCEPT ![e].phase = "settled", ![e].err = "removed"]
       ELSE /\ ent' = IF ent[e].phase = "failed"
                      THEN [ent EXCEPT ![e].phase = "release", ![e].err = "attach"]
                      ELSE WithEntry(e, "phase", "settled")
    /\ UNCHANGED <<targetVars, pool>>
Publish(e) ==
    /\ ent[e].phase \in {"attached", "failed"}
    /\ IF pool # e
       THEN /\ ent' = [ent EXCEPT ![e].phase = "settled", ![e].err = "removed"]
            /\ UNCHANGED pool
       ELSE IF ent[e].phase = "failed"
       THEN /\ ent' = [ent EXCEPT ![e].phase = "release", ![e].err = "attach"]
            /\ pool' = 0
       ELSE /\ ent' = WithEntry(e, "phase", "settled")
            /\ UNCHANGED pool
    /\ UNCHANGED targetVars

\* If the context is cancelled already, Target belongs to the watcher.
ReleaseLook(e) ==
    /\ ent[e].phase = "release"
    /\ ent' = WithEntry(e, "phase", IF Cancelled(e) THEN "cancel"
                              ELSE IF ent[e].target THEN "detach" ELSE "clear")
    /\ UNCHANGED <<targetVars, pool>>

\* DetachFromTarget, whose error is ignored.
ReleaseDetach(e) ==
    /\ ent[e].phase = "detach"
    /\ \E works \in BOOLEAN :
           ent' = [ent EXCEPT ![e].phase = "clear", ![e].session = @ /\ ~works]
    /\ UNCHANGED <<targetVars, pool>>

\* Planted bug: Target stays set when the context is cancelled.
ReleaseClearNot(e) ==
    /\ ent[e].phase = "clear"
    /\ ent' = WithEntry(e, "phase", "cancel")
    /\ UNCHANGED <<targetVars, pool>>
ReleaseClear(e) ==
    /\ ent[e].phase = "clear"
    /\ ent' = [ent EXCEPT ![e].phase = "cancel", ![e].target = @ /\ Cancelled(e)]
    /\ UNCHANGED <<targetVars, pool>>

\* The deferred cancel.
ReleaseCancel(e) ==
    /\ ent[e].phase = "cancel"
    /\ ent' = [ent EXCEPT ![e].phase = "settled", ![e].cancelled = TRUE]
    /\ UNCHANGED <<targetVars, pool>>

\* ForgetTarget and CloseTarget take the entry out of the pool and cancel it.
Take ==
    /\ pool' = 0
    /\ ent' = [e \in EntryIds |-> IF e = pool
                                  THEN [ent[e] EXCEPT !.cancelled = TRUE, !.taken = TRUE]
                                  ELSE ent[e]]
    /\ UNCHANGED targetVars

ContextInit ==
    /\ pool = 0
    /\ ent = [e \in EntryIds |-> Unused]

\* What the goroutine of initializeTabPoolEntry and the watcher do.
AttachStep ==
    \E e \in EntryIds : \/ Attach(e) \/ RunEnds(e) \/ Publish(e) \/ ReleaseLook(e)
                        \/ ReleaseDetach(e) \/ ReleaseClear(e) \/ ReleaseCancel(e) \/ Watch(e)

-----------------------------------------------------------------------------
ContextTypeOK ==
    /\ pool \in 0..MaxEntries
    /\ ent \in [EntryIds -> Entry]

\* What later calls find in the pool is being attached or works: an attach that
\* failed, or a context somebody has cancelled, never stays there to fail every
\* later operation on the tab (the entry is deleted on failure, and the take and the
\* publication exclude each other).  A lost connection ends the daemon instead.
PooledWorks ==
    (pool # 0 /\ ~lost) =>
        /\ ~ent[pool].cancelled
        /\ ent[pool].phase \in {"running", "attached", "failed", "settled"}
        /\ ent[pool].phase = "settled" => ent[pool].err = "none" /\ ent[pool].target

\* The daemon closes a tab by cancelling its context only if the coordinator has
\* forgotten or closed the tab: releasing a failed attach leaves the user's tab alone.
FailedAttachKeepsTab ==
    [][\A e \in EntryIds : (Watch(e) /\ live /\ ~live') => ent[e].taken]_<<targetVars, contextVars>>
=============================================================================
