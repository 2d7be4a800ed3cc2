----------------------------- MODULE KeyedMutex -----------------------------
(***************************************************************************)
(* What the per-tab operation lock of the daemon promises: for each short  *)
(* tab id, operations hold it one at a time.  Nothing is said of entries,  *)
(* reference counts or forgetting; TabLock implements this specification.  *)
(***************************************************************************)
CONSTANTS
    Procs,   \* goroutines that run tab operations
    Tabs     \* short tab ids

VARIABLE holders   \* the goroutines inside the critical section of each tab

MutexInit == holders = [s \in Tabs |-> {}]

Enter(p, s) == /\ holders[s] = {}
               /\ holders' = [holders EXCEPT ![s] = {p}]

Leave(p, s) == /\ holders[s] = {p}
               /\ holders' = [holders EXCEPT ![s] = {}]

MutexNext == \E p \in Procs, s \in Tabs : Enter(p, s) \/ Leave(p, s)

MutexSpec == MutexInit /\ [][MutexNext]_holders
=============================================================================
