----------------------------- MODULE TabRegistry -----------------------------
(***************************************************************************)
(* The short-id registry of internal/state/tab_registry.go: two maps that  *)
(* are kept inverse to each other, and the selected (focused) tab.         *)
(*                                                                         *)
(* A CDP target id is a sequence of hexadecimal digits; a short id is one  *)
(* of its suffixes.  As in the code the empty string is "none", both for   *)
(* target ids and for short ids.  Every operation runs under               *)
(* TabRegistry.mu and is one action.  The registry lives in memory: a      *)
(* restarted daemon starts with an empty one.                              *)
(***************************************************************************)
EXTENDS Integers, Sequences, FiniteSets

CONSTANTS
    Digits,   \* the digits of target ids, a set of integers (compared by <)
    IdLen,    \* digits in a target id (32 for Chrome)
    MinLen,   \* digits in the shortest short id (4 in the code)
    Targets   \* the target ids Chrome may hand out

\* Chrome's target ids all have one length, at least that of a short id.
ASSUME RegistryAssumption ==
    /\ Digits \subseteq Int
    /\ IdLen \in Nat /\ MinLen \in Nat
    /\ 1 <= MinLen /\ MinLen <= IdLen
    /\ Targets \subseteq [1..IdLen -> Digits]

VARIABLES
    targetToShort,   \* target id -> its short id, or None
    shortToTarget,   \* short id -> its target id, or None
    selected         \* the focused tab's short id, or None

registryVars == <<targetToShort, shortToTarget, selected>>

None == <<>>

-----------------------------------------------------------------------------
(***************************************************************************)
(* Short ids.                                                              *)
(***************************************************************************)
\* The last n digits of target id t.
Suffix(t, n) == SubSeq(t, IdLen - n + 1, IdLen)

\* The candidates assignShortLocked tries for t, and every short id there is.
CandidateLens == MinLen..IdLen
Candidates(t) == {Suffix(t, n) : n \in CandidateLens}
ShortIds == UNION {Candidates(t) : t \in Targets}

\* The length of the candidate assignShortLocked takes when others hold the
\* ids in taken: the shortest free one, or the full id, unchecked, when none
\* is free.
FreeLens(t, taken) == {n \in CandidateLens : Suffix(t, n) \notin taken}
\* Planted bug: the search starts one digit too early.
ShortestFreeEarly(t, taken) ==
    IF Suffix(t, MinLen - 1) \notin taken THEN MinLen - 1 ELSE MinLen
ShortestFree(t, taken) ==
    IF FreeLens(t, taken) = {} THEN IdLen
    ELSE CHOOSE n \in FreeLens(t, taken) : \A m \in FreeLens(t, taken) : n <= m

\* String order on ids of one length: the order in which a sync assigns them.
Before(t, u) ==
    \E i \in 1..IdLen : /\ t[i] < u[i]
                        /\ \A j \in 1..(i - 1) : t[j] = u[j]

-----------------------------------------------------------------------------
Registered == {t \in Targets : targetToShort[t] # None}
Lookup(s) == IF s \in ShortIds THEN shortToTarget[s] ELSE None
ShortForTarget(t) == targetToShort[t]

\* The short ids taken by targets other than t.
TakenFrom(t) == {s \in ShortIds : shortToTarget[s] \notin {None, t}}

\* What a sync with the targets in present removes, frees and registers.
RemovedBy(present) == Registered \ present
FreedBy(present) == {targetToShort[t] : t \in RemovedBy(present)}
NewIn(present) == present \ Registered

\* The lengths a sync assigns to the new targets of present.  It visits them
\* in the order of their ids, after the removals: each takes its shortest
\* candidate that neither a survivor nor an earlier new target holds.
IsAssignment(len, present) ==
    \A t \in NewIn(present) :
        len[t] = ShortestFree(t,
                     (TakenFrom(t) \ FreedBy(present))
                     \cup {Suffix(u, len[u]) :
                             u \in {v \in NewIn(present) : Before(v, t)}})

-----------------------------------------------------------------------------
RegistryInit ==
    /\ targetToShort = [t \in Targets |-> None]
    /\ shortToTarget = [s \in ShortIds |-> None]
    /\ selected = None

\* SyncPageTargetsDetailed: drop the absent targets, then register the rest.
SyncPageTargets(present) ==
    \E len \in [NewIn(present) -> CandidateLens] :
        /\ IsAssignment(len, present)
        /\ targetToShort' =
               [t \in Targets |->
                   CASE t \in RemovedBy(present) -> None
                     [] t \in NewIn(present) -> Suffix(t, len[t])
                     [] OTHER -> targetToShort[t]]
        /\ shortToTarget' =
               [s \in ShortIds |->
                   IF \E t \in NewIn(present) : Suffix(t, len[t]) = s
                   THEN CHOOSE t \in NewIn(present) : Suffix(t, len[t]) = s
                   ELSE IF s \in FreedBy(present) THEN None
                   ELSE shortToTarget[s]]
        /\ selected' = IF selected \in FreedBy(present) THEN None ELSE selected

\* RemoveTarget, removeLocked: an unknown target changes nothing.
\* Planted bugs: one map is forgotten, or the selection is.
RemoveTargetOneMap(t) ==
    /\ targetToShort' = [targetToShort EXCEPT ![t] = None]
    /\ selected' = IF selected = targetToShort[t] THEN None ELSE selected
    /\ UNCHANGED shortToTarget
RemoveTargetKeepFocus(t) ==
    /\ t \in Registered
    /\ targetToShort' = [targetToShort EXCEPT ![t] = None]
    /\ shortToTarget' = [shortToTarget EXCEPT ![targetToShort[t]] = None]
    /\ UNCHANGED selected
RemoveTarget(t) ==
    IF t \notin Registered THEN UNCHANGED registryVars
    ELSE /\ targetToShort' = [targetToShort EXCEPT ![t] = None]
         /\ shortToTarget' = [shortToTarget EXCEPT ![targetToShort[t]] = None]
         /\ selected' = IF selected = targetToShort[t] THEN None ELSE selected

\* RegisterPageTarget, assignShortLocked, registerLocked.
\* Planted bug: an already registered target is assigned again.
RegisterAgain(t) ==
    LET s == Suffix(t, ShortestFree(t, TakenFrom(t)))
    IN  /\ targetToShort' = [targetToShort EXCEPT ![t] = s]
        /\ shortToTarget' = [shortToTarget EXCEPT ![s] = t]
        /\ UNCHANGED selected
RegisterPageTarget(t) ==
    IF t \in Registered THEN UNCHANGED registryVars
    ELSE LET s == Suffix(t, ShortestFree(t, TakenFrom(t)))
         IN  /\ targetToShort' = [targetToShort EXCEPT ![t] = s]
             /\ shortToTarget' = [shortToTarget EXCEPT ![s] = t]
             /\ UNCHANGED selected

\* Select: only a registered short id can be selected.
Select(s) ==
    /\ selected' = IF Lookup(s) # None THEN s ELSE selected
    /\ UNCHANGED <<targetToShort, shortToTarget>>

\* NewTabRegistry in a restarted daemon.
RestartRegistry ==
    /\ targetToShort' = [t \in Targets |-> None]
    /\ shortToTarget' = [s \in ShortIds |-> None]
    /\ selected' = None

RegistryNext ==
    \/ \E present \in SUBSET Targets : SyncPageTargets(present)
    \/ \E t \in Targets : RemoveTarget(t)
    \/ \E t \in Targets : RegisterPageTarget(t)
    \/ \E s \in ShortIds : Select(s)
    \/ RestartRegistry

RegistrySpec == RegistryInit /\ [][RegistryNext]_registryVars

-----------------------------------------------------------------------------
(***************************************************************************)
(* Properties.                                                             *)
(***************************************************************************)
\* Both maps and the selection hold targets and short ids of the right kind.
RegistryTypeOK ==
    /\ targetToShort \in [Targets -> ShortIds \cup {None}]
    /\ shortToTarget \in [ShortIds -> Targets \cup {None}]
    /\ selected \in ShortIds \cup {None}

\* No two tabs ever share a short id, and every id resolves to the tab it was
\* handed out for, however registrations, syncs and removals follow on each
\* other (assignShortLocked, removeLocked): the maps are inverse.
MapsInverse ==
    /\ \A t \in Registered : shortToTarget[targetToShort[t]] = t
    /\ \A s \in ShortIds : shortToTarget[s] # None =>
                               targetToShort[shortToTarget[s]] = s

\* The focused tab is a registered tab: every path that drops a tab clears the
\* selection (removeLocked), or tab_list would report a focus on a dead tab.
SelectedRegistered == selected # None => Lookup(selected) # None

\* A tab is always named by a suffix of its own id.
OwnSuffix == \A t \in Registered : targetToShort[t] \in Candidates(t)

\* A registered tab's short id is stable: no sync, removal or registration of
\* other tabs renames it.
ShortIdStable ==
    [][\A t \in Registered \cap Registered' :
           targetToShort'[t] = targetToShort[t]]_registryVars
=============================================================================
