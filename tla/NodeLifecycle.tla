---------------------------- MODULE NodeLifecycle ----------------------------
(***************************************************************************)
(* The durable row of one node in the nodes table and everything that      *)
(* writes it: the registration of a boot, the publication of its liveness  *)
(* and readiness, its shutdown or withdrawal, the sweep of expired leases  *)
(* and the reaper of stranded joins, and an operator's removal.            *)
(*                                                                         *)
(* No writer holds a lock.  Each reads the row, decides, and sends one     *)
(* conditional update; the row may have changed when the update lands, and *)
(* an update whose answer was lost may land after its sender gave up.      *)
(* All clocks read the same `time`.                                        *)
(***************************************************************************)
EXTENDS Integers

CONSTANTS
    Client,       \* bound: registrations and publications under way at once
    MaxBoot,      \* bound: boot incarnations of the node
    ReadyLease,   \* readyLeaseMs
    MaxTime,      \* bound: no publication begins after it
    MaxLost       \* bound: updates whose answer nobody receives

ASSUME LifecycleAssumption == ReadyLease \in Nat \ {0}

VARIABLES
    nodeRow,     \* the row of the nodes table
    writes,      \* updates sent and not yet landed
    tasks,       \* the asynchronous calls under way
    latest,      \* the newest boot incarnation issued
    live,        \* the boots whose process runs
    registered,  \* the running boots whose registration returned
    stopping,    \* the boots that began a shutdown or a withdrawal
    time,
    lost

lifecycleVars == <<nodeRow, writes, tasks, latest, live, registered, stopping,
                   time, lost>>

NoLease == -1

\* No row: its incarnation is 0.
NoNode == [boot |-> 0, status |-> "none", conn |-> "none", hb |-> 0, lease |-> NoLease]

Sweeper == "sweeper"

Slots == Client \cup {Sweeper}

IdleTask == [kind |-> "idle", boot |-> 0, stage |-> "none", at |-> 0, seen |-> NoNode]

LifecycleInit ==
    /\ nodeRow = NoNode /\ writes = {}
    /\ tasks = [s \in Slots |-> IdleTask]
    /\ latest = 0 /\ live = {} /\ registered = {} /\ stopping = {}
    /\ time = 1 /\ lost = 0

-----------------------------------------------------------------------------
(* The gateway: a conditional update names the columns it expects and the  *)
(* columns it sets.  A birth expects incarnation 0.                        *)

\* updateSystemTableRow / insertSystemTableRow, sent for the task in slot s.
Send(s, task, expects, sets) ==
    /\ tasks' = [tasks EXCEPT ![s] = task]
    /\ writes' = writes \cup {[from |-> s, expects |-> expects, sets |-> sets]}

With(row, sets) == [c \in DOMAIN row |-> IF c \in DOMAIN sets THEN sets[c] ELSE row[c]]

Matches(w) == \A c \in DOMAIN w.expects : nodeRow[c] = w.expects[c]

\* The task ends without another step.
End(s) ==
    /\ tasks' = [tasks EXCEPT ![s] = IdleTask]
    /\ UNCHANGED writes

-----------------------------------------------------------------------------
(* Registration (writeNodeRegistrationAtIncarnation): a birth, or one      *)
(* conditional advance from the exact older incarnation observed.          *)

\* buildNodeRegistrationRow: it names no lease.
FreshRow(b, at) ==
    [boot |-> b, status |-> "JOINING", conn |-> "CONNECTED", hb |-> at]

\* buildReentryNormalizedNodeRow
ReentryRow(seen, b, at) ==
    [boot |-> b, status |-> IF seen.status = "STOPPED" THEN "JOINING" ELSE seen.status,
     conn |-> "CONNECTED", hb |-> at, lease |-> NoLease]

\* A mutant: the advance names the node alone.
AdvanceFromAnything(seen) == [c \in {} |-> seen[c]]

\* planRegistration: the row observed may be absent or older.
AdvanceFrom(seen) == [boot |-> seen.boot]

RegisterTask(b, stage, at) ==
    [kind |-> "register", boot |-> b, stage |-> stage, at |-> at, seen |-> NoNode]

\* registerJoinNodeRow.  A failed observation is taken for an absent row.
RegisterFresh(s, b) ==
    /\ \E seen \in {nodeRow, NoNode} :
        \/ /\ seen.boot < b
           /\ Send(s, RegisterTask(b, "first", time), AdvanceFrom(seen), FreshRow(b, time))
           /\ UNCHANGED registered
        \/ /\ seen.boot = b
           /\ registered' = registered \cup {b}
           /\ UNCHANGED <<tasks, writes>>

\* refreshExistingDurableRejoinMembership and
\* advanceStaleJoinAdmissionIncarnation: the row observed is reused.
RegisterReused(s, b) ==
    /\ nodeRow.boot # 0
    /\ \/ /\ nodeRow.boot < b
          /\ Send(s, RegisterTask(b, "reuse", 0), AdvanceFrom(nodeRow),
                  ReentryRow(nodeRow, b, time))
          /\ UNCHANGED registered
       \/ /\ nodeRow.boot = b
          /\ registered' = registered \cup {b}
          /\ UNCHANGED <<tasks, writes>>

Registering(b) == \E s \in Client : tasks[s].kind = "register" /\ tasks[s].boot = b

Register(s) ==
    /\ tasks[s] = IdleTask
    /\ \E b \in live \ registered :
        /\ ~ Registering(b)
        /\ RegisterFresh(s, b) \/ RegisterReused(s, b)
    /\ UNCHANGED <<nodeRow, latest, live, stopping, time, lost>>

\* resolveUnappliedRegistration: one reread, one more advance, no loop.
Reread(s) ==
    LET task == tasks[s]
    IN  /\ task.kind = "register" /\ task.stage = "reread"
        /\ \/ /\ nodeRow.boot \in 1..(task.boot - 1)
              /\ Send(s, RegisterTask(task.boot, "second", 0), AdvanceFrom(nodeRow),
                      FreshRow(task.boot, task.at))
              /\ UNCHANGED registered
           \/ /\ nodeRow.boot = task.boot
              /\ registered' = registered \cup {task.boot} /\ End(s)
           \/ End(s) /\ UNCHANGED registered
        /\ UNCHANGED <<nodeRow, latest, live, stopping, time, lost>>

\* classifyObservation and resolveNodeBootIncarnationAdvanceByReadback.
Readback(s) ==
    LET task == tasks[s]
    IN  /\ task.kind = "register" /\ task.stage = "readback"
        /\ End(s)
        /\ \/ nodeRow.boot = task.boot /\ registered' = registered \cup {task.boot}
           \/ UNCHANGED registered
        /\ UNCHANGED <<nodeRow, latest, live, stopping, time, lost>>

-----------------------------------------------------------------------------
(* Publication of liveness and readiness (NodeLifecyclePublication).       *)

\* NodeReadyLeaseAuthority.  A lease that is NULL converts to the number 0.
LeaseNumber(r) == IF r.lease = NoLease THEN 0 ELSE r.lease

isExpired(r, now) == LeaseNumber(r) <= now

holdsLiveLease(r, now) == LeaseNumber(r) > now

\* isLifecycleWatermarkNewer, over rows that carry a heartbeat.
isLifecycleWatermarkNewer(previous, next) ==
    IF (previous.lease = NoLease) # (next.lease = NoLease) THEN previous.lease = NoLease
    ELSE IF previous.hb # next.hb THEN next.hb > previous.hb
    ELSE IF previous.lease # next.lease THEN next.lease > previous.lease
    ELSE previous.conn = "CONNECTED" /\ next.conn = "READY"

\* A heartbeat of boot b asks for CONNECTED or READY, from the node itself
\* or routed through another node, where it outlives its process.
Publish(s) ==
    /\ tasks[s] = IdleTask
    /\ time <= MaxTime
    /\ \E b \in live \cap registered, state \in {"CONNECTED", "READY"} :
        tasks' = [tasks EXCEPT ![s] =
                    [kind |-> state, boot |-> b, stage |-> "read", at |-> time, seen |-> NoNode]]
    /\ UNCHANGED <<nodeRow, writes, latest, live, registered, stopping, time, lost>>

Publishing(s) == tasks[s].kind \in {"CONNECTED", "READY"}

\* resolveNextState
NextState(kind, seen) ==
    IF kind = "CONNECTED" /\ seen.conn = "READY" /\ holdsLiveLease(seen, time)
    THEN "READY" ELSE kind

\* buildUpdateRow; the heartbeat is never before this moment.
UpdateRow(task, seen) ==
    IF NextState(task.kind, seen) = "READY"
    THEN [boot |-> task.boot, status |-> "ACTIVE", conn |-> "READY", hb |-> time,
          lease |-> time + ReadyLease]
    ELSE [boot |-> task.boot, conn |-> "CONNECTED", hb |-> time, lease |-> NoLease]

\* resolveStalenessWatermark
Watermark(task, seen) ==
    IF task.kind = "READY" THEN UpdateRow(task, seen)
    ELSE [hb |-> task.at, lease |-> NoLease, conn |-> "CONNECTED"]

\* buildSourcePredicate
SourcePredicate(seen) ==
    [boot |-> seen.boot, status |-> seen.status, conn |-> seen.conn, hb |-> seen.hb]

\* resolveSourceRefusal: only a row of this boot that is not terminal.
Publishable(task, seen) == seen.boot = task.boot /\ seen.status # "STOPPED"

\* The row is read; resolveSourceRefusal, planPublication and the sending
\* half of applyPublication follow at once.  The read may fail.
ReadAndPlan(s) ==
    LET task == tasks[s]
    IN  /\ Publishing(s) /\ task.stage = "read"
        /\ \/ /\ Publishable(task, nodeRow)
              /\ isLifecycleWatermarkNewer(nodeRow, Watermark(task, nodeRow))
              /\ Send(s, [IdleTask EXCEPT !.kind = "publish", !.stage = "sent"],
                      SourcePredicate(nodeRow), UpdateRow(task, nodeRow))
           \/ End(s)
        /\ UNCHANGED <<nodeRow, latest, live, registered, stopping, time, lost>>

-----------------------------------------------------------------------------
(* Shutdown and withdrawal (applyNodeTerminalTransition).                  *)

IncarnationWhereClause(b) == [boot |-> b]

Terminate(s) ==
    /\ tasks[s] = IdleTask
    /\ \E b \in live \ stopping :
        /\ Send(s, [IdleTask EXCEPT !.kind = "terminal", !.boot = b, !.stage = "sent"],
                IncarnationWhereClause(b),
                [status |-> "STOPPED", conn |-> "DISCONNECTED", hb |-> time, lease |-> NoLease])
        /\ stopping' = stopping \cup {b}
    /\ UNCHANGED <<nodeRow, latest, live, registered, time, lost>>

\* An operator removes a stopped row (removeTerminalNode).
Remove ==
    /\ nodeRow.status = "STOPPED"
    /\ nodeRow' = NoNode
    /\ UNCHANGED <<writes, tasks, latest, live, registered, stopping, time, lost>>

-----------------------------------------------------------------------------
(* The sweep of a lease service (sweepExpiredLeases): its clock is read    *)
(* first, the rows next, and every row is then judged as it was read.      *)

Sweeping(stage) == tasks[Sweeper].kind = "sweep" /\ tasks[Sweeper].stage = stage

SweepTask(stage, seen) == [IdleTask EXCEPT !.kind = "sweep", !.stage = stage, !.seen = seen]

Sweep ==
    /\ tasks[Sweeper] = IdleTask
    /\ tasks' = [tasks EXCEPT ![Sweeper] =
                   [SweepTask("read", NoNode) EXCEPT !.at = time]]
    /\ UNCHANGED <<nodeRow, writes, latest, live, registered, stopping, time, lost>>

\* isNodeTransportConnected.  Only a running process is ever reported as
\* connected; it may always be reported as not.
Connected == {FALSE, live # {}}

\* A mutant: the incarnation in place of the lease observed.
BootPredicate(seen) == [boot |-> seen.boot]

\* disconnectNodeDueToLeaseExpiry's where-clause
LeasePredicate(seen) == [lease |-> seen.lease, hb |-> seen.hb]

\* buildStrandedJoiningReapPredicate
ReapPredicate(seen) ==
    [status |-> "JOINING", boot |-> seen.boot, lease |-> seen.lease, hb |-> seen.hb]

\* A mutant: only a lease that was granted can have lapsed.
StrandedByLapse(seen, now) ==
    seen.status = "JOINING" /\ seen.lease # NoLease /\ ~ holdsLiveLease(seen, now)

\* A join that holds no live lease (the filter of reapStrandedJoiningRows).
Stranded(seen, now) == seen.status = "JOINING" /\ ~ holdsLiveLease(seen, now)

\* reapStrandedJoiningRows, of the row the sweep read if it is stranded.
Reap(stranded) ==
    \/ /\ stranded # NoNode
       /\ Send(Sweeper, SweepTask("reaping", NoNode), ReapPredicate(stranded),
               [status |-> "STOPPED"])
    \/ /\ stranded = NoNode \/ TRUE \in Connected
       /\ End(Sweeper)

\* The rows are read and judged; disconnectExpiredLeaseHolders.
DisconnectExpired ==
    LET now == tasks[Sweeper].at
        stranded == IF Stranded(nodeRow, now) THEN nodeRow ELSE NoNode
        expired == nodeRow # NoNode /\ isExpired(nodeRow, now)
    IN  /\ Sweeping("read")
        /\ \/ /\ expired
              /\ Send(Sweeper, SweepTask("disconnecting", stranded), LeasePredicate(nodeRow),
                      [conn |-> "DISCONNECTED", lease |-> NoLease])
           \/ /\ ~ expired \/ TRUE \in Connected
              /\ Reap(stranded)
        /\ UNCHANGED <<nodeRow, latest, live, registered, stopping, time, lost>>

\* The sweep goes on with the rows it read before.
ReapStranded ==
    /\ Sweeping("reap")
    /\ Reap(tasks[Sweeper].seen)
    /\ UNCHANGED <<nodeRow, latest, live, registered, stopping, time, lost>>

-----------------------------------------------------------------------------
(* An update lands, its answer reaches its sender or never does.           *)

\* What the sender does next, told whether its update was applied.
Answered(task, applied) ==
    CASE task.kind = "register" /\ ~ applied ->
            [task EXCEPT !.stage = IF @ = "first" THEN "reread" ELSE "readback"]
      [] task.stage = "disconnecting" /\ task.seen # NoNode -> [task EXCEPT !.stage = "reap"]
      [] OTHER -> IdleTask

\* A sender that gets no answer; the sweep's disconnect throws.
Unanswered(task) == IF task.kind = "register" THEN Answered(task, FALSE) ELSE IdleTask

Nobody == "nobody"

Land(w) ==
    /\ writes' = writes \ {w}
    /\ nodeRow' = IF Matches(w) THEN With(nodeRow, w.sets) ELSE nodeRow
    /\ IF w.from = Nobody THEN UNCHANGED <<tasks, registered>>
       ELSE LET task == tasks[w.from]
            IN  /\ tasks' = [tasks EXCEPT ![w.from] = Answered(task, Matches(w))]
                /\ registered' = IF task.kind = "register" /\ Matches(w)
                                 THEN registered \cup {task.boot} ELSE registered
    /\ UNCHANGED <<latest, live, stopping, time, lost>>

\* The senders of the updates in `gone` wait no longer.  These land later,
\* or never.
Abandon(gone) ==
    IF gone = {} THEN UNCHANGED <<writes, lost>>
    ELSE /\ lost < MaxLost /\ lost' = lost + 1
         /\ writes' = (writes \ gone) \cup {[w EXCEPT !.from = Nobody] : w \in gone}

GiveUp(w) ==
    /\ w.from # Nobody
    /\ Abandon({w})
    /\ tasks' = [tasks EXCEPT ![w.from] = Unanswered(@)]
    /\ UNCHANGED <<nodeRow, latest, live, registered, stopping, time>>

-----------------------------------------------------------------------------
(* Processes, the transport and time.                                      *)

Boot ==
    /\ latest < MaxBoot
    /\ latest' = latest + 1 /\ live' = live \cup {latest + 1}
    /\ UNCHANGED <<nodeRow, writes, tasks, registered, stopping, time, lost>>

\* The calls a process makes itself end with it.
Exit(b) ==
    LET own == {s \in Slots : tasks[s].boot = b /\ tasks[s].kind \in {"register", "terminal"}}
    IN  /\ live' = live \ {b} /\ registered' = registered \ {b}
        /\ tasks' = [s \in Slots |-> IF s \in own THEN IdleTask ELSE tasks[s]]
        /\ Abandon({w \in writes : w.from \in own})
        /\ UNCHANGED <<nodeRow, latest, stopping, time>>

\* Time stops once nothing the row says can lapse any more.
TimePasses ==
    /\ time < MaxTime \/ time < nodeRow.lease
    /\ time' = time + 1
    /\ UNCHANGED <<nodeRow, writes, tasks, latest, live, registered, stopping, lost>>

LifecycleNext ==
    \/ \E s \in Client :
        Register(s) \/ Reread(s) \/ Readback(s) \/ Publish(s) \/ ReadAndPlan(s) \/ Terminate(s)
    \/ Sweep \/ DisconnectExpired \/ ReapStranded
    \/ \E w \in writes : Land(w) \/ GiveUp(w)
    \/ \E b \in live : Exit(b)
    \/ Remove \/ Boot \/ TimePasses

LifecycleSpec == LifecycleInit /\ [][LifecycleNext]_lifecycleVars

SweeperStep ==
    \/ nodeRow # NoNode /\ Sweep
    \/ DisconnectExpired \/ ReapStranded
    \/ \E w \in writes : w.from = Sweeper /\ Land(w)

\* The sweep's interval timer fires, its calls are answered, and time
\* passes.
LifecycleFairness == WF_lifecycleVars(SweeperStep) /\ WF_lifecycleVars(TimePasses)

LifecycleFairSpec == LifecycleSpec /\ LifecycleFairness

-----------------------------------------------------------------------------
(* Properties.                                                             *)

\* Every state is well-formed: a present row belongs to an issued
\* incarnation, and an ACTIVE or READY row was made so by publication.
LifecycleTypeOK ==
    /\ nodeRow.boot \in 0..latest
    /\ nodeRow.status \in {"none", "JOINING", "ACTIVE", "STOPPED"}
    /\ nodeRow.conn = "READY" => nodeRow.status = "ACTIVE" /\ nodeRow.lease # NoLease
    /\ registered \subseteq 1..latest /\ live \subseteq 1..latest
    /\ \A w \in writes : w.from \in Slots \cup {Nobody}

\* "A late registration from an older incarnation can neither overwrite nor
\* lower a newer row", a stopped row never comes back to life in its own
\* incarnation, and a boot is stopped only by itself or, while it joins
\* without a live lease, by the reaper: whatever was read before, and
\* however late an update lands (node-registration-incarnation-write.js,
\* node-terminal-transition-fence.js, node-lifecycle-publication.js).
GenerationsFenced ==
    [][(nodeRow.boot # 0 /\ nodeRow'.boot # 0) =>
        /\ nodeRow'.boot >= nodeRow.boot
        /\ nodeRow'.boot = nodeRow.boot /\ nodeRow.status = "STOPPED" =>
             nodeRow'.status = "STOPPED"
        /\ nodeRow.status # "STOPPED" /\ nodeRow'.status = "STOPPED" =>
             \/ nodeRow.boot \in stopping
             \/ Stranded(nodeRow, time)]_lifecycleVars

\* A lease that has not lapsed is given up only by the boot that holds it,
\* when it stops: neither a sweep that judged an older row nor a delayed
\* publication takes it away or shortens it (lease-service.js,
\* buildSourcePredicate).  A row that is JOINING holds none of its own: a
\* registration leaves the lease of the earlier boot in the row, and there
\* the joining boot's publications, not the sweep, may replace it.
LeaseStandsUntilLapsed ==
    [][(nodeRow'.boot = nodeRow.boot /\ holdsLiveLease(nodeRow, time)) =>
        \/ nodeRow'.lease >= nodeRow.lease
        \/ nodeRow.boot \in stopping
        \/ nodeRow.status = "JOINING" /\ nodeRow'.conn # "DISCONNECTED"]_lifecycleVars

\* Once no process of the node runs any more, its row does not stay a
\* member for ever: it ends stopped, or disconnected without a lease.
GoneNodeIsCleared ==
    <>[](live = {}) =>
        <>[](\/ nodeRow.boot = 0
             \/ nodeRow.status = "STOPPED"
             \/ /\ nodeRow.status = "ACTIVE"
                /\ nodeRow.conn = "DISCONNECTED" /\ nodeRow.lease = NoLease)

\* "READY -> DISCONNECTED on observed lease lapse": the sweep disconnects
\* "a row whose lease is recorded and has lapsed", no other
\* (node-ready-lease-authority.js, isExpired).
DisconnectedOnRecordedLapse ==
    [][(/\ nodeRow.boot = nodeRow'.boot /\ nodeRow.boot # 0
        /\ nodeRow.conn # "DISCONNECTED" /\ nodeRow'.conn = "DISCONNECTED"
        /\ nodeRow'.status # "STOPPED") =>
            nodeRow.lease # NoLease /\ nodeRow.lease <= time]_lifecycleVars
=============================================================================
