---------------------------- MODULE ManagedTabs ----------------------------
(***************************************************************************)
(* The records of RPCs and the map of managed tabs they add up to: which   *)
(* short ids the daemon created, each with its last record, 0 if absent.   *)
(***************************************************************************)
EXTENDS Naturals

CONSTANTS
    Tabs,         \* short ids
    MaxRecords    \* bound on the records ever scheduled

Actions == {"tab_new", "tab_close", "other"}
Records == [action : Actions, tab : Tabs, time : 1..MaxRecords]

NoTabs == [s \in Tabs |-> 0]

\* applyManagedUpdate: tab_new registers, tab_close releases, another method
\* refreshes a tab that is managed.
Update(m, r) ==
    CASE r.action = "tab_new" -> [m EXCEPT ![r.tab] = r.time]
      [] r.action = "tab_close" -> [m EXCEPT ![r.tab] = 0]
      [] r.action = "other" -> IF m[r.tab] = 0 THEN m ELSE [m EXCEPT ![r.tab] = r.time]
=============================================================================
