------------------------------- MODULE TabLock -------------------------------
(***************************************************************************)
(* The lock that serialises operations per short tab id: lockTab,          *)
(* releaseTabLockRef and forgetTabLock of internal/daemon/                 *)
(* rpc_connections.go.                                                     *)
(*                                                                         *)
(* An entry is a one-slot channel that holds a token while nobody is       *)
(* inside, with a reference count and a "forgotten" mark.  The map and the *)
(* counts change under tabMuOps; taking and returning the token happen     *)
(* outside it, so a goroutine may take the token long after it found the   *)
(* entry, while the tab is removed, forgotten and its short id is reused.  *)
(***************************************************************************)
EXTENDS Naturals, FiniteSets

CONSTANTS
    Procs,     \* goroutines that run tab operations: RPC handlers, the sweeper
    Tabs,      \* short tab ids
    Entries,   \* identities of tabLockEntry objects
    NoEntry

\* There is always an unused identity for a new entry: at most one entry per
\* goroutine is referenced and at most one per tab is in the map.
ASSUME LockAssumption ==
    /\ IsFiniteSet(Procs)
    /\ NoEntry \notin Entries

VARIABLES
    entryOf,     \* tabCDPLocks: short id -> entry, or NoEntry
    refs,        \* entry.refs
    forgotten,   \* entry.forgotten
    token,       \* entry.sem holds its token
    pc,          \* where each goroutine is
    tab,         \* the short id it works on
    entry        \* the entry it has found

lockVars == <<entryOf, refs, forgotten, token, pc, tab, entry>>

LockInit ==
    /\ entryOf = [s \in Tabs |-> NoEntry]
    /\ refs = [e \in Entries |-> 0]
    /\ forgotten = [e \in Entries |-> FALSE]
    /\ token = [e \in Entries |-> TRUE]
    /\ pc = [p \in Procs |-> "idle"]
    /\ tab \in [Procs -> Tabs]
    /\ entry = [p \in Procs |-> NoEntry]

\* Entries no map slot and no goroutine refers to.
Unused(e) == /\ \A s \in Tabs : entryOf[s] # e
             /\ \A p \in Procs : pc[p] # "idle" => entry[p] # e

\* lockTab up to tabMuOps.Unlock: find or create the entry, count the reference.
\* A created entry has its token in the channel.
FindEntry(p, s) ==
    /\ pc[p] = "idle"
    /\ \E e \in Entries :
           /\ IF entryOf[s] = NoEntry
              THEN /\ Unused(e)
                   /\ refs' = [refs EXCEPT ![e] = 1]
                   /\ forgotten' = [forgotten EXCEPT ![e] = FALSE]
                   /\ token' = [token EXCEPT ![e] = TRUE]
              ELSE /\ e = entryOf[s]
                   /\ refs' = [refs EXCEPT ![e] = @ + 1]
                   /\ UNCHANGED <<forgotten, token>>
           /\ entryOf' = [entryOf EXCEPT ![s] = e]
           /\ entry' = [entry EXCEPT ![p] = e]
    /\ pc' = [pc EXCEPT ![p] = "waiting"]
    /\ tab' = [tab EXCEPT ![p] = s]

\* case <-ent.sem: the goroutine is inside; it may run its operation.
TakeToken(p) ==
    /\ pc[p] = "waiting"
    /\ token[entry[p]]
    /\ token' = [token EXCEPT ![entry[p]] = FALSE]
    /\ pc' = [pc EXCEPT ![p] = "inside"]
    /\ UNCHANGED <<entryOf, refs, forgotten, tab, entry>>

\* releaseTabLockRef: drop the reference; the last one out removes a forgotten
\* entry, unless the map already holds another for this short id.
\* Planted bugs: the reference is dropped twice, or a forgotten entry stays.
ReleaseRefTwice(p) ==
    /\ refs' = [refs EXCEPT ![entry[p]] = @ - 2]
    /\ pc' = [pc EXCEPT ![p] = "idle"]
    /\ UNCHANGED <<entryOf, forgotten, token, tab, entry>>
ReleaseRefKeepEntry(p) ==
    /\ refs' = [refs EXCEPT ![entry[p]] = @ - 1]
    /\ pc' = [pc EXCEPT ![p] = "idle"]
    /\ UNCHANGED <<entryOf, forgotten, token, tab, entry>>
ReleaseRef(p) ==
    LET e == entry[p]
        s == tab[p]
    IN  /\ refs' = [refs EXCEPT ![e] = @ - 1]
        /\ entryOf' = IF refs[e] = 1 /\ forgotten[e] /\ entryOf[s] = e
                      THEN [entryOf EXCEPT ![s] = NoEntry]
                      ELSE entryOf
        /\ pc' = [pc EXCEPT ![p] = "idle"]
        /\ UNCHANGED <<forgotten, token, tab, entry>>

\* case <-ctx.Done() while waiting.
GiveUp(p) == pc[p] = "waiting" /\ ReleaseRef(p)

\* The unlock function: return the token, then release the reference.
\* Planted bug: the token is not returned.
ReturnTokenLost(p) ==
    /\ pc[p] = "inside"
    /\ pc' = [pc EXCEPT ![p] = "leaving"]
    /\ UNCHANGED <<entryOf, refs, forgotten, token, tab, entry>>
ReturnToken(p) ==
    /\ pc[p] = "inside"
    /\ ~token[entry[p]]   \* the send blocks while the slot is full
    /\ token' = [token EXCEPT ![entry[p]] = TRUE]
    /\ pc' = [pc EXCEPT ![p] = "leaving"]
    /\ UNCHANGED <<entryOf, refs, forgotten, tab, entry>>
Unlock(p) == pc[p] = "leaving" /\ ReleaseRef(p)

\* forgetTabLock, called when a tab is removed: by a goroutine inside the lock
\* (tab_close, the sweeper), and by event and sync handling that hold no lock.
\* Planted bug: the entry is dropped while goroutines still use it.
ForgetTabLockInUse(s) ==
    /\ entryOf[s] # NoEntry
    /\ entryOf' = [entryOf EXCEPT ![s] = NoEntry]
    /\ UNCHANGED <<refs, forgotten, token, pc, tab, entry>>
ForgetTabLock(s) ==
    LET e == entryOf[s]
    IN  /\ e # NoEntry
        /\ forgotten' = [forgotten EXCEPT ![e] = TRUE]
        /\ entryOf' = IF refs[e] = 0 THEN [entryOf EXCEPT ![s] = NoEntry] ELSE entryOf
        /\ UNCHANGED <<refs, token, pc, tab, entry>>

Step(p) == \/ \E s \in Tabs : FindEntry(p, s)
           \/ TakeToken(p)
           \/ GiveUp(p)
           \/ ReturnToken(p)
           \/ Unlock(p)

LockNext == \/ \E p \in Procs : Step(p)
            \/ \E s \in Tabs : ForgetTabLock(s)

LockSpec == LockInit /\ [][LockNext]_lockVars

(***************************************************************************)
(* Fairness: an operation ends (its context expires after 60 seconds) and  *)
(* its deferred unlock runs; a goroutine blocked on the channel is served  *)
(* in turn, as the Go runtime queues receivers first in, first out.  No    *)
(* fairness on GiveUp: the sweeper waits without a timeout.                *)
(***************************************************************************)
LockFairness ==
    \A p \in Procs : /\ SF_lockVars(TakeToken(p))
                     /\ WF_lockVars(ReturnToken(p))
                     /\ WF_lockVars(Unlock(p))

FairLockSpec == LockSpec /\ LockFairness

-----------------------------------------------------------------------------
(***************************************************************************)
(* Properties.                                                             *)
(***************************************************************************)
PcValues == {"idle", "waiting", "inside", "leaving"}

LockTypeOK ==
    /\ entryOf \in [Tabs -> Entries \cup {NoEntry}]
    /\ refs \in [Entries -> Nat]
    /\ forgotten \in [Entries -> BOOLEAN]
    /\ token \in [Entries -> BOOLEAN]
    /\ pc \in [Procs -> PcValues]
    /\ tab \in [Procs -> Tabs]
    /\ entry \in [Procs -> Entries \cup {NoEntry}]

\* Goroutines that count as references to e, and those inside s.
Users(e) == {p \in Procs : pc[p] # "idle" /\ entry[p] = e}
Inside(s) == {p \in Procs : pc[p] = "inside" /\ tab[p] = s}

\* The comment on lockTab: "Entries are reference-counted so target removal can
\* forget them without racing in-flight operations".  An entry somebody waits
\* on or holds is never dropped from the map, so a later operation on the tab
\* cannot be given a second entry; and the counts are exact.
EntryKept ==
    /\ \A p \in Procs : pc[p] # "idle" => /\ entry[p] # NoEntry
                                          /\ entryOf[tab[p]] = entry[p]
    /\ \A s \in Tabs : entryOf[s] # NoEntry =>
                           refs[entryOf[s]] = Cardinality(Users(entryOf[s]))

\* A forgotten entry does not outlive its last user: closing tabs does not
\* accumulate entries.
ForgottenDropped ==
    \A s \in Tabs : entryOf[s] # NoEntry /\ forgotten[entryOf[s]]
                        => refs[entryOf[s]] > 0

\* At most one operation at a time runs on a short id, through any number of
\* removals and reuses of that id; the abstract mutex is implemented.
Mutex == INSTANCE KeyedMutex WITH holders <- [s \in Tabs |-> Inside(s)]
ImplementsMutex == Mutex!MutexSpec

\* A goroutine that waits for a tab, the sweeper included, gets it or gives up.
NoStarvation == \A p \in Procs : pc[p] = "waiting" ~> pc[p] # "waiting"
=============================================================================
