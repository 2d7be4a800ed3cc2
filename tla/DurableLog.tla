----------------------------- MODULE DurableLog -----------------------------
(***************************************************************************)
(* What the recovery log promises: a map on disk, to which every accepted  *)
(* record is applied once, in some order and each at a stroke.  A crash    *)
(* loses records that were accepted and not yet applied, a shutdown loses  *)
(* none, and a daemon that starts finds the map as it was left.  Nothing   *)
(* is said of a channel, of lines, of rotation or of replay; RpcLog        *)
(* implements this specification.                                          *)
(***************************************************************************)
EXTENDS ManagedTabs

VARIABLES
    onDisk,    \* the managed tabs that a daemon would find if it started now
    accepted,  \* records somebody has promised to write
    next,      \* number of the next record
    store      \* "open", "closed" (the daemon is shutting down) or "down"

durableVars == <<onDisk, accepted, next, store>>

DurableInit == onDisk = NoTabs /\ accepted = {} /\ next = 1 /\ store = "open"

Accept(r) ==
    /\ store = "open"
    /\ r.time = next
    /\ next' = next + 1
    /\ accepted' = accepted \cup {r}
    /\ UNCHANGED <<onDisk, store>>

\* A record that comes after the store was closed is not written.
Refuse ==
    /\ store = "closed"
    /\ next' = next + 1
    /\ UNCHANGED <<onDisk, accepted, store>>

Write(r) ==
    /\ store = "open" /\ r \in accepted
    /\ onDisk' = Update(onDisk, r)
    /\ accepted' = accepted \ {r}
    /\ UNCHANGED <<next, store>>

CloseWhole ==
    /\ store = "open" /\ accepted = {}
    /\ store' = "closed"
    /\ UNCHANGED <<onDisk, accepted, next>>

Die ==
    /\ store # "down"
    /\ store' = "down" /\ accepted' = {}
    /\ UNCHANGED <<onDisk, next>>

Start ==
    /\ store = "down"
    /\ store' = "open"
    /\ UNCHANGED <<onDisk, accepted, next>>

DurableNext ==
    \/ \E r \in Records : Accept(r) \/ Write(r)
    \/ Refuse \/ CloseWhole \/ Die \/ Start

DurableSpec == DurableInit /\ [][DurableNext]_durableVars
=============================================================================
