------------------------------- MODULE RpcLog -------------------------------
(***************************************************************************)
(* The recovery log: the audit pipeline of internal/daemon (enqueueAudit,  *)
(* runAuditWriter, closeAudit) and the store behind it (internal/store:    *)
(* Open, replayLog, AppendRPC, rotateLocked, applyManagedUpdate).          *)
(*                                                                         *)
(* What the log is for is the map of managed tabs: which short ids the     *)
(* daemon created and when they were last active.  The map is kept in      *)
(* memory, updated with every record, and rebuilt from rpc.jsonl when the  *)
(* daemon starts; so the file must say the same as the map after crashes,  *)
(* torn writes, rotation and shutdown.                                     *)
(*                                                                         *)
(* A record's number stands for its time, and a file's lines for its size. *)
(* Records of failed RPCs and of RPCs without a tab leave the map alone    *)
(* and are left out; writes that fail while the daemon runs are too.       *)
(***************************************************************************)
EXTENDS ManagedTabs, Sequences, FiniteSets

CONSTANTS
    AuditCap,     \* capacity of auditCh (256)
    MaxLines,     \* lines after which rpc.jsonl is rotated (8 MiB in the code)
    Tears         \* how a crash may interrupt an append

ASSUME RpcLogAssumption ==
    /\ IsFiniteSet(Tabs)
    /\ AuditCap \in Nat \ {0}
    /\ MaxLines \in Nat \ {0}
    /\ MaxRecords \in Nat
    /\ Tears \subseteq {"partial", "no newline", "in rotation"}

VARIABLES
    managed,     \* Store.managed: tab -> number of its last record, 0 if absent
    file,        \* the lines of rpc.jsonl
    auditCh,     \* records scheduled and not yet taken by the writer
    writing,     \* the record the writer appends, a sequence of at most one
    handing,     \* the record a handler appends itself, holding auditMu, likewise
    auditClosed, \* closeAudit has closed the channel
    storeOpen,   \* Store.logFile # nil
    up,          \* the daemon runs
    next,        \* number of the next record
    unwritten,   \* numbers of the records scheduled before the store closed and
                 \* not yet in the log
    durable      \* the map that the records ever written add up to

memoryVars == <<managed, auditCh, writing, handing, auditClosed, storeOpen, unwritten>>
rpcVars == <<memoryVars, file, up, next, durable>>

-----------------------------------------------------------------------------
\* The map a sequence of records adds up to.
Replayed(rs) ==
    LET upTo[n \in 0..Len(rs)] == IF n = 0 THEN NoTabs ELSE Update(upTo[n - 1], rs[n])
    IN  upTo[Len(rs)]

\* A line of the file: a record, whether it is whole JSON, and whether the line
\* ends.
Line(r) == [rec |-> r, valid |-> TRUE, ended |-> TRUE]
Torn(r, tear) == [rec |-> r, valid |-> tear = "no newline", ended |-> FALSE]

\* Writing goes to the end of the file: what follows a line that does not end
\* continues it, and the result is no JSON.
Written(f, line) ==
    IF f = <<>> \/ f[Len(f)].ended THEN Append(f, line)
    ELSE [f EXCEPT ![Len(f)].valid = FALSE, ![Len(f)].ended = line.ended]

\* replayLog keeps the lines before the first that is not JSON.
Kept(f) ==
    LET bad == {n \in 1..Len(f) : ~f[n].valid}
    IN  IF bad = {} THEN f
        ELSE SubSeq(f, 1, (CHOOSE n \in bad : \A k \in bad : n <= k) - 1)

\* The map the daemon would find if it started now.
Recovered == LET f == Kept(file) IN Replayed([n \in 1..Len(f) |-> f[n].rec])

\* writeManagedSnapshotLocked: a tab_new record for each managed tab, in some
\* order.
Snapshot(m) ==
    LET tabs == {s \in Tabs : m[s] # 0}
        size == Cardinality(tabs)
    IN  {[n \in 1..size |-> Line([action |-> "tab_new", tab |-> o[n], time |-> m[o[n]]])] :
            o \in {q \in [1..size -> tabs] : \A s \in tabs : \E n \in 1..size : q[n] = s}}

-----------------------------------------------------------------------------
RpcLogInit ==
    /\ managed = NoTabs /\ durable = NoTabs
    /\ file = <<>> /\ auditCh = <<>> /\ writing = <<>> /\ handing = <<>>
    /\ auditClosed = FALSE /\ storeOpen = TRUE /\ up = TRUE
    /\ next = 1
    /\ unwritten = {}

\* AppendRPC of r, under Store.mu: the map first, then the line, and when the
\* file has grown enough the rotation.  A closed store reports an error.
AppendRPC(r) ==
    /\ managed' = Update(managed, r)
    /\ IF storeOpen
       THEN /\ LET f == Written(file, Line(r))
               IN  IF Len(f) >= MaxLines THEN file' \in Snapshot(managed') ELSE file' = f
            /\ unwritten' = unwritten \ {r.time}
            /\ durable' = Update(durable, r)
       ELSE UNCHANGED <<file, unwritten, durable>>

\* enqueueAudit, under auditMu: a handler whose record finds the channel full
\* or closed appends it itself, and overtakes the records in the channel.
\* Planted bug: the channel is not bounded.
ScheduleUnbounded(r) ==
    /\ up /\ handing = <<>>
    /\ next <= MaxRecords /\ r.time = next
    /\ next' = next + 1
    /\ unwritten' = IF storeOpen THEN unwritten \cup {r.time} ELSE unwritten
    /\ auditCh' = Append(auditCh, r)
    /\ UNCHANGED <<managed, file, writing, handing, auditClosed, storeOpen, up, durable>>
\* Planted bug: no return after a send that succeeded.
ScheduleTwice(r) ==
    /\ up /\ handing = <<>>
    /\ next <= MaxRecords /\ r.time = next
    /\ next' = next + 1
    /\ unwritten' = IF storeOpen THEN unwritten \cup {r.time} ELSE unwritten
    /\ auditCh' = IF ~auditClosed /\ Len(auditCh) < AuditCap THEN Append(auditCh, r) ELSE auditCh
    /\ handing' = <<r>>
    /\ UNCHANGED <<managed, file, writing, auditClosed, storeOpen, up, durable>>
Schedule(r) ==
    /\ up /\ handing = <<>>
    /\ next <= MaxRecords /\ r.time = next
    /\ next' = next + 1
    /\ unwritten' = IF storeOpen THEN unwritten \cup {r.time} ELSE unwritten
    /\ IF ~auditClosed /\ Len(auditCh) < AuditCap
       THEN auditCh' = Append(auditCh, r) /\ UNCHANGED handing
       ELSE handing' = <<r>> /\ UNCHANGED auditCh
    /\ UNCHANGED <<managed, file, writing, auditClosed, storeOpen, up, durable>>
HandlerAppends ==
    /\ handing # <<>>
    /\ AppendRPC(handing[1])
    /\ handing' = <<>>
    /\ UNCHANGED <<auditCh, writing, auditClosed, storeOpen, up, next>>

\* runAuditWriter; a closed channel still delivers what it holds.
\* Planted bug: the writer stops when the channel is closed.
WriterStops ==
    /\ ~auditClosed
    /\ writing = <<>> /\ auditCh # <<>>
    /\ writing' = <<Head(auditCh)>>
    /\ auditCh' = Tail(auditCh)
    /\ UNCHANGED <<managed, file, handing, auditClosed, storeOpen, up, next, unwritten, durable>>
WriterTakes ==
    /\ writing = <<>> /\ auditCh # <<>>
    /\ writing' = <<Head(auditCh)>>
    /\ auditCh' = Tail(auditCh)
    /\ UNCHANGED <<managed, file, handing, auditClosed, storeOpen, up, next, unwritten, durable>>
WriterAppends ==
    /\ writing # <<>>
    /\ AppendRPC(writing[1])
    /\ writing' = <<>>
    /\ UNCHANGED <<auditCh, handing, auditClosed, storeOpen, up, next>>

\* closeAudit: close the channel under auditMu, wait until the writer has
\* drained it (auditDone), and close the store under auditMu.
CloseChannel ==
    /\ up /\ ~auditClosed
    /\ handing = <<>>
    /\ auditClosed' = TRUE
    /\ UNCHANGED <<managed, file, auditCh, writing, handing, storeOpen, up, next, unwritten,
                   durable>>
\* Planted bug: the store is closed without taking auditMu.
CloseStoreUnlocked ==
    /\ storeOpen /\ auditClosed
    /\ auditCh = <<>> /\ writing = <<>>
    /\ storeOpen' = FALSE
    /\ UNCHANGED <<managed, file, auditCh, writing, handing, auditClosed, up, next, unwritten,
                   durable>>
CloseStore ==
    /\ storeOpen /\ auditClosed
    /\ auditCh = <<>> /\ writing = <<>>
    /\ handing = <<>>
    /\ storeOpen' = FALSE
    /\ UNCHANGED <<managed, file, auditCh, writing, handing, auditClosed, up, next, unwritten,
                   durable>>

-----------------------------------------------------------------------------
(***************************************************************************)
(* Crashes and restarts.  Only the file survives.                          *)
(***************************************************************************)
Stop ==
    /\ up' = FALSE
    /\ managed' = NoTabs
    /\ auditCh' = <<>> /\ writing' = <<>> /\ handing' = <<>>
    /\ auditClosed' = TRUE /\ storeOpen' = FALSE
    /\ unwritten' = {}
    /\ UNCHANGED next

\* The process ends between two appends, or after closeAudit ...
Crash == up /\ Stop /\ UNCHANGED <<file, durable>>
\* ... or within an append: while the line is written (a whole record counts
\* although its line does not end, as replayLog accepts it), or after a rotation
\* has renamed rpc.jsonl and before it has written the snapshot.
CrashInAppend(r) ==
    /\ storeOpen
    /\ \E tear \in Tears :
           /\ tear = "in rotation" => Len(Written(file, Line(r))) >= MaxLines
           /\ file' = IF tear = "in rotation" THEN <<>> ELSE Written(file, Torn(r, tear))
           /\ durable' = IF tear = "partial" THEN durable ELSE Update(durable, r)
    /\ Stop

\* Open in a new daemon: replay the log, truncate it at the first bad line.
\* Planted bug: the bad line is left in the file.
OpenUntruncated ==
    /\ ~up
    /\ up' = TRUE
    /\ managed' = Recovered
    /\ auditClosed' = FALSE /\ storeOpen' = TRUE
    /\ UNCHANGED <<file, auditCh, writing, handing, next, unwritten, durable>>
Open ==
    /\ ~up
    /\ up' = TRUE
    /\ file' = Kept(file)
    /\ managed' = Recovered
    /\ auditClosed' = FALSE /\ storeOpen' = TRUE
    /\ UNCHANGED <<auditCh, writing, handing, next, unwritten, durable>>

WriterStep == WriterTakes \/ WriterAppends

RpcLogNext ==
    \/ \E r \in Records : Schedule(r)
    \/ HandlerAppends
    \/ WriterStep
    \/ CloseChannel
    \/ CloseStore
    \/ Crash
    \/ \E n \in DOMAIN writing : CrashInAppend(writing[n])
    \/ \E n \in DOMAIN handing : CrashInAppend(handing[n])
    \/ Open

RpcLogSpec == RpcLogInit /\ [][RpcLogNext]_rpcVars

\* Fairness: the writer and the handlers run, and closeAudit gets auditMu
\* although late handlers contend for it (a Go mutex starves nobody).
RpcLogFairness ==
    /\ WF_rpcVars(HandlerAppends)
    /\ WF_rpcVars(WriterStep)
    /\ SF_rpcVars(CloseStore)

FairRpcLogSpec == RpcLogSpec /\ RpcLogFairness

-----------------------------------------------------------------------------
(***************************************************************************)
(* Properties.                                                             *)
(***************************************************************************)
Lines == [rec : Records, valid : BOOLEAN, ended : BOOLEAN]
AtMostOne == {<<>>} \cup {<<r>> : r \in Records}

RpcLogTypeOK ==
    /\ managed \in [Tabs -> 0..MaxRecords]
    /\ durable \in [Tabs -> 0..MaxRecords]
    /\ file \in Seq(Lines) /\ Len(file) <= MaxLines + Cardinality(Tabs)
    /\ auditCh \in Seq(Records) /\ Len(auditCh) <= AuditCap
    /\ writing \in AtMostOne
    /\ handing \in AtMostOne
    /\ auditClosed \in BOOLEAN /\ storeOpen \in BOOLEAN /\ up \in BOOLEAN
    /\ next \in 1..(MaxRecords + 1)
    /\ unwritten \subseteq 1..MaxRecords

\* "Recovery only needs to read the current file" (README, on rotation): however
\* appends, rotations, crashes and restarts follow on each other, replaying
\* rpc.jsonl yields the map that all records ever written add up to.
RecoveryComplete == Recovered = durable

\* While the store is open the map in memory is the one a restart would find:
\* ReplayManagedTabActivity never tells the resync anything else.
MemoryMatchesLog == storeOpen => managed = Recovered

\* The records somebody still has to append, and their numbers.
Elements(q) == {q[n] : n \in 1..Len(q)}
InFlight == Elements(auditCh) \cup Elements(writing) \cup Elements(handing)
Pending == {r.time : r \in InFlight}

\* "Preserve the recovery log while bounding memory" (enqueueAudit), "store.Close
\* cannot race it": a record scheduled before the store is closed is in the log
\* or somebody is about to append it while the file is still open.
NothingDropped == /\ unwritten \subseteq Pending
                  /\ up /\ ~storeOpen => unwritten = {}

\* Replaying a file that appends, torn lines, rotations and restarts have written is
\* as good as a map on disk to which each accepted record is applied once and at a
\* stroke, so long as crashes tear no more than a part of a line.
Durable == INSTANCE DurableLog WITH
    onDisk <- Recovered,
    accepted <- {r \in InFlight : r.time \in unwritten},
    store <- IF storeOpen THEN "open" ELSE IF up THEN "closed" ELSE "down"
ImplementsDurable == Durable!DurableSpec

\* Shutting down ends: once the channel is closed the store is closed too.
ShutdownEnds == up /\ auditClosed ~> ~storeOpen
=============================================================================
