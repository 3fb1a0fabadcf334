------------------------------ MODULE CdcLane -------------------------------
(***************************************************************************)
(* The obligation lane of the CDC delivery owner                           *)
(* (partition/partition-cdc-obligation-delivery.js): on the leader it      *)
(* drives the owed rows of the obligation ledger to the subscribers in log *)
(* order, batches what they acknowledged, and proposes each batch as a     *)
(* CDC_DELIVERED command whose application marks the rows delivered.       *)
(*                                                                         *)
(* A position is the rank of a row in (log index, ordinal) order.  The     *)
(* code is asynchronous on one thread: an action is what runs between two  *)
(* awaits.  The lane's fields are one record, and the functions of the     *)
(* code that change it are operators from lanes to lanes.                  *)
(***************************************************************************)
EXTENDS Integers, FiniteSets, FiniteSetsExt

CONSTANTS
    Subscriber,       \* CDC subscribers of this replica
    Subscribed,       \* those subscribed when the replica starts to lead
    MaxOutstanding,   \* ACK_MAX_OUTSTANDING_BATCHES
    BatchMax,         \* ACK_BATCH_MAX_EVENTS
    RetainedMax,      \* RETAINED_DELIVERED_MAX
    MaxRows,          \* bound: rows recorded
    MaxFailures,      \* bound: refused deliveries, and unknown outcomes
    MaxChanges,       \* bound: subscriptions taken and given up
    MaxTenures        \* bound: leadership tenures of this replica

ASSUME LaneAssumption ==
    /\ Subscribed \subseteq Subscriber
    /\ MaxOutstanding \in Nat \ {0} /\ BatchMax \in Nat \ {0}
    /\ RetainedMax \in Nat \ {0}
    /\ MaxRows \in Nat /\ MaxFailures \in Nat /\ MaxChanges \in Nat
    /\ MaxTenures \in Nat \ {0}

VARIABLES
    recorded,   \* the rows the ledger ever held are 1..recorded
    owed,       \* the rows not marked delivered
    through,    \* the progress row: rows up to here are reclaimed
    subs,       \* cdcSubscribers
    lane,       \* the lane of the current tenure
    floating,   \* commands proposed that may still commit, of any tenure
    received,   \* received[s]: rows subscriber s confirmed since it subscribed
    failures, changes, tenures

laneVars == <<recorded, owed, through, subs, lane, floating, received,
              failures, changes, tenures>>

Row == 1..MaxRows

NoScan == [cursor |-> 0, through |-> 0, provisional |-> FALSE]

NoCell == [row |-> 0, branches |-> {}, covered |-> {}, provisional |-> {},
           todo |-> {}, stale |-> FALSE]

(***************************************************************************)
(* createCdcObligationLane.  `pending' holds the rows acknowledged here    *)
(* and not settled, `batch' those not proposed yet, `commands' the batches *)
(* proposed and not settled, `awaiting' those whose answer is awaited;     *)
(* `tasks' are the runs of the retry timer's callback.                     *)
(***************************************************************************)
FreshLane ==
    [pending |-> {}, batch |-> {}, commands |-> {}, awaiting |-> {},
     flushTimer |-> FALSE, retryTimer |-> FALSE, tasks |-> {},
     drive |-> "idle", rerun |-> FALSE, visited |-> FALSE, stale |-> FALSE,
     scan |-> NoScan, cell |-> NoCell]

-----------------------------------------------------------------------------
(* The drive and its scan.                                                 *)

(***************************************************************************)
(* driveCdcObligations: single-flight, a drive in flight runs once more.   *)
(* A pass is for the subscribers there are when it begins.                 *)
(***************************************************************************)
DrivenFor(l, subscribers) ==
    IF l.drive # "idle" THEN [l EXCEPT !.rerun = TRUE]
    ELSE [l EXCEPT !.rerun = FALSE, !.visited = FALSE, !.stale = FALSE,
                   !.drive = IF subscribers = {} THEN "idle" ELSE "scanning"]

Driven(l) == DrivenFor(l, subs)

\* scheduleDeliveryRetry
RetryArmed(l) == [l EXCEPT !.retryTimer = TRUE]

\* runSingleFlightDrivePasses, after a pass that was not drained.
DriveEnded(l) ==
    [l EXCEPT !.drive = "idle", !.rerun = FALSE,
              !.retryTimer = @ \/ l.rerun]

(***************************************************************************)
(* settleAcknowledgedObligations: the ledger decided these rows.           *)
(***************************************************************************)
LedgerSettled(l, rows, reclaimedThrough) ==
    LET left == {r \in l.pending \ rows : r > reclaimedThrough} IN
    Driven([l EXCEPT !.pending = left,
                     !.commands = {c \in @ : c \cap left # {}}])

-----------------------------------------------------------------------------
(* The acknowledgement batch.                                              *)

Reclaimed(rows) == {r \in rows : r <= through}

(***************************************************************************)
(* reconcilePendingAcknowledgement: the rows the progress row covers are   *)
(* settled, the others stay in a command of their own, to be retried.      *)
(***************************************************************************)
Reconciled(l, c) ==
    LET rest == c \ Reclaimed(c)
        kept == (l.commands \ {c}) \cup (IF rest = {} THEN {} ELSE {rest})
    IN  LedgerSettled([l EXCEPT !.commands = kept,
                           !.retryTimer = @ \/ rest # {}], {}, through)

\* proposePendingAcknowledgement, up to its await.
Proposed(l, c) ==
    IF c \in l.awaiting THEN l
    ELSE IF Reclaimed(c) # {} THEN Reconciled(l, c)
    ELSE [l EXCEPT !.awaiting = @ \cup {c}]

\* flushCdcAcknowledgements, up to its await.
Flushed(l) ==
    LET c == l.batch IN
    IF c = {} \/ Cardinality(l.commands) >= MaxOutstanding
      THEN [l EXCEPT !.flushTimer = FALSE]
      ELSE Proposed([l EXCEPT !.flushTimer = FALSE, !.batch = {},
                              !.commands = @ \cup {c}], c)

(***************************************************************************)
(* acknowledgeDelivered: the row enters the batch, which is proposed       *)
(* before when it would grow past its bytes, and after when it has its     *)
(* full count; otherwise the deadline is armed.                            *)
(***************************************************************************)
Acknowledged(l, row, bytesFull) ==
    LET before == IF bytesFull /\ l.batch # {} THEN Flushed(l) ELSE l
        added == [before EXCEPT !.pending = @ \cup {row}, !.batch = @ \cup {row}]
    IN  IF Cardinality(added.batch) >= BatchMax THEN Flushed(added)
        ELSE [added EXCEPT !.flushTimer = TRUE]

-----------------------------------------------------------------------------
(* The steps of a drive.                                                   *)

\* What a lane proposed in this step is on its way to the log.
Move(l) ==
    /\ lane' = l
    /\ floating' = floating \cup (l.awaiting \ lane.awaiting)

OwedTail == IF owed = {} THEN 0 ELSE Max(owed)

\* drivePage: the scan's next owed row, 0 when there is none.
ScanOf(l) ==
    IF l.scan.through # 0 THEN l.scan ELSE [l.scan EXCEPT !.through = OwedTail]

NextRow(scan) ==
    LET ahead == {r \in owed : scan.cursor < r /\ r <= scan.through} IN
    IF ahead = {} THEN 0 ELSE Min(ahead)

\* retainedDeliveredBackpressured
RetainedFull(l, row) ==
    /\ owed # {} /\ row # Min(owed)
    /\ Cardinality(l.pending) +
          Cardinality({r \in 1..recorded : r > through} \ owed) >= RetainedMax

\* driveOneObligation, when the lane may not deliver further now.
DriveBackpressured ==
    LET scan == ScanOf(lane)
        row == NextRow(scan)
        full == Cardinality(lane.commands) >= MaxOutstanding
    IN
    /\ lane.drive = "scanning" /\ row # 0
    /\ full \/ RetainedFull(lane, row)
    /\ Move(DriveEnded(RetryArmed(
          [lane EXCEPT !.scan = IF full THEN scan ELSE NoScan])))
    /\ UNCHANGED <<recorded, owed, through, subs, received, failures, changes,
                   tenures>>

FreshCell(row) ==
    [NoCell EXCEPT !.row = row, !.branches = subs, !.todo = subs, !.stale = lane.stale]

\* A mutant: a branch that did not cover the row is not asked again.
CellKept(row) ==
    IF lane.cell.row = row /\ ~ lane.cell.stale THEN lane.cell ELSE FreshCell(row)

\* prepareCdcObligationProgress: what was covered for this row counts.
CellFor(row) ==
    IF lane.cell.row = row /\ ~ lane.cell.stale
      THEN [lane.cell EXCEPT !.todo = @ \cup (lane.cell.branches \ (lane.cell.covered \cup
                                                                  lane.cell.provisional))]
      ELSE FreshCell(row)

\* driveOneObligation, for a row acknowledged already, and for one that is not.
DriveRow ==
    LET scan == ScanOf(lane)
        row == NextRow(scan)
    IN
    /\ lane.drive = "scanning" /\ row # 0
    /\ Cardinality(lane.commands) < MaxOutstanding /\ ~ RetainedFull(lane, row)
    /\ Move(IF row \in lane.pending
              THEN [lane EXCEPT !.scan = [scan EXCEPT !.cursor = row],
                                !.visited = TRUE]
              ELSE [lane EXCEPT !.scan = scan, !.visited = TRUE, !.cell = CellFor(row),
                                !.drive = "delivering"])
    /\ UNCHANGED <<recorded, owed, through, subs, received, failures, changes,
                   tenures>>

(***************************************************************************)
(* drivePageFinished with rows left: a full page, or a contended one,      *)
(* yields to a retry.                                                      *)
(***************************************************************************)
DriveYield ==
    /\ lane.drive = "scanning" /\ lane.visited
    /\ lane.scan.cursor # lane.scan.through
    /\ \E contended \in BOOLEAN :
          Move(DriveEnded(RetryArmed([lane EXCEPT !.scan.through =
             IF contended /\ ~ lane.scan.provisional THEN 0 ELSE @])))
    /\ UNCHANGED <<recorded, owed, through, subs, received, failures, changes,
                   tenures>>

\* A mutant: rows recorded behind the scan and reruns asked for are ignored.
DriveDrainedForGood ==
    LET scan == ScanOf(lane)
        done == [lane EXCEPT !.scan = NoScan]
    IN
    /\ lane.drive = "scanning" /\ NextRow(scan) = 0
    /\ Move(IF scan.provisional THEN DriveEnded(RetryArmed(done))
            ELSE [done EXCEPT !.drive = "idle", !.rerun = FALSE,
                              !.retryTimer = @ /\ lane.commands \ lane.awaiting # {}])
    /\ UNCHANGED <<recorded, owed, through, subs, received, failures, changes,
                   tenures>>

(***************************************************************************)
(* drivePageFinished and finalizeDrainedScan: the scan is over.  A pass    *)
(* that was drained runs again when asked to; one that leaves nothing to   *)
(* do disarms the retry.                                                   *)
(***************************************************************************)
DriveDrained ==
    LET scan == ScanOf(lane)
        done == [lane EXCEPT !.scan = NoScan]
        more == \/ OwedTail > scan.through
                \/ lane.pending = {} /\ lane.commands = {} /\ owed # {}
        unproposed == lane.commands \ lane.awaiting # {}
    IN
    /\ lane.drive = "scanning" /\ NextRow(scan) = 0
    /\ Move(IF scan.provisional THEN DriveEnded(RetryArmed(done))
            ELSE IF more \/ lane.rerun
              THEN Driven([done EXCEPT !.drive = "idle"])
            ELSE [done EXCEPT !.drive = "idle",
                              !.retryTimer = @ /\ unproposed])
    /\ UNCHANGED <<recorded, owed, through, subs, received, failures, changes,
                   tenures>>

-----------------------------------------------------------------------------
(* deliverObligation.                                                      *)

\* A subscriber answers: the row is covered, provisional, or not.
DeliverTo(s) ==
    /\ lane.drive = "delivering" /\ ~ lane.cell.stale /\ s \in lane.cell.todo
    /\ \/ /\ received' = [received EXCEPT ![s] = @ \cup {lane.cell.row}]
          /\ Move([lane EXCEPT !.cell = [lane.cell EXCEPT !.covered = @ \cup {s},
                                                          !.todo = @ \ {s}]])
          /\ UNCHANGED failures
       \/ /\ failures < MaxFailures /\ failures' = failures + 1
          /\ \/ Move([lane EXCEPT
                        !.cell = [lane.cell EXCEPT !.provisional = @ \cup {s},
                                                   !.todo = @ \ {s}]])
             \/ Move([lane EXCEPT !.cell.todo = @ \ {s}])
          /\ UNCHANGED received
    /\ UNCHANGED <<recorded, owed, through, subs, changes, tenures>>

\* The subscribers are no longer those it began with: the row is held.
DeliveryStale ==
    /\ lane.drive = "delivering" /\ lane.cell.stale
    /\ Move(DriveEnded(RetryArmed([lane EXCEPT !.cell = NoCell])))
    /\ UNCHANGED <<recorded, owed, through, subs, received, failures, changes,
                   tenures>>

\* Some subscriber did not cover it: held, and what was covered is kept.
DeliveryHeld ==
    /\ lane.drive = "delivering" /\ ~ lane.cell.stale /\ lane.cell.todo = {}
    /\ lane.cell.branches # lane.cell.covered \cup lane.cell.provisional
    /\ Move(DriveEnded(RetryArmed(lane)))
    /\ UNCHANGED <<recorded, owed, through, subs, received, failures, changes,
                   tenures>>

\* Every subscriber answered: acknowledged unless one did provisionally.
DeliveryDone ==
    LET cell == lane.cell
        next == [lane EXCEPT !.cell = NoCell, !.drive = "scanning",
                             !.scan.cursor = cell.row]
    IN
    /\ lane.drive = "delivering" /\ ~ cell.stale
    /\ cell.todo = {} /\ cell.branches = cell.covered \cup cell.provisional
    /\ IF cell.provisional # {}
         THEN Move([next EXCEPT !.scan.provisional = TRUE])
         ELSE \E bytesFull \in BOOLEAN :
                 Move(Acknowledged(next, cell.row, bytesFull))
    /\ UNCHANGED <<recorded, owed, through, subs, received, failures, changes,
                   tenures>>

-----------------------------------------------------------------------------
(* The timers.                                                             *)

FlushDeadline ==
    /\ lane.flushTimer
    /\ Move(Flushed(lane))
    /\ UNCHANGED <<recorded, owed, through, subs, received, failures, changes,
                   tenures>>

(***************************************************************************)
(* retryAcknowledgements, from one await to the next: the commands whose   *)
(* answer is awaited are passed over, another one is proposed again, then  *)
(* the batch, and then the callback drives.  `l' is the lane without t.    *)
(***************************************************************************)
RetryRun(l, t) ==
    LET due == t.todo \ l.awaiting
        with(m, u) == [m EXCEPT !.tasks = @ \cup {u}]
    IN
    \/ \E c \in due, passed \in SUBSET (t.todo \ due) :
          Move(with(Proposed(l, c), [t EXCEPT !.todo = @ \ (passed \cup {c}),
                                              !.waiting = c]))
    \/ /\ due = {} /\ ~ t.flushed /\ l.batch # {}
       /\ Move(with(Flushed(l), [t EXCEPT !.todo = {}, !.flushed = TRUE,
                                          !.waiting = l.batch]))
    \/ /\ due = {} /\ (t.flushed \/ l.batch = {})
       /\ Move(Driven(l))

\* The callback of scheduleDeliveryRetry, up to its first await.
RetryDue ==
    /\ lane.retryTimer
    /\ RetryRun([lane EXCEPT !.retryTimer = FALSE],
                [todo |-> lane.commands, waiting |-> {}, flushed |-> FALSE])
    /\ UNCHANGED <<recorded, owed, through, subs, received, failures, changes,
                   tenures>>

\* The command it proposed last is answered, or was reconciled.
RetryStep(t) ==
    /\ t.waiting \notin lane.awaiting
    /\ RetryRun([lane EXCEPT !.tasks = @ \ {t}], t)
    /\ UNCHANGED <<recorded, owed, through, subs, received, failures, changes,
                   tenures>>

-----------------------------------------------------------------------------
(* The log: applyCdcAcknowledgementCommand, and the answer to the          *)
(* proposer when it still waits for one.                                   *)

(***************************************************************************)
(* A command naming a reclaimed row is refused whole (IDENTITY_COMPACTED)  *)
(* and reconciled by the lane that waits for it.                           *)
(***************************************************************************)
CommitRefused(c) ==
    /\ c \in floating /\ Reclaimed(c) # {}
    /\ lane' = IF c \in lane.awaiting
                 THEN Reconciled([lane EXCEPT !.awaiting = @ \ {c}], c)
                 ELSE lane
    /\ floating' = floating \ {c}
    /\ UNCHANGED <<recorded, owed, through, subs, received, failures, changes,
                   tenures>>

\* reclaimDeliveredCdcObligations: up to the lowest owed row.
Reach(left) == IF left = {} THEN recorded ELSE Min(left) - 1

(***************************************************************************)
(* Otherwise its rows are delivered, the prefix below the lowest owed row  *)
(* is reclaimed, and the lane settles: once when the entry is applied, and *)
(* once more when the proposer has its answer.                             *)
(***************************************************************************)
Commit(c) ==
    LET left == owed \ c
        applied == LedgerSettled(lane, c, Reach(left))
    IN
    /\ c \in floating /\ Reclaimed(c) = {}
    /\ owed' = left /\ through' = Reach(left)
    /\ lane' = IF c \in lane.awaiting
                 THEN LedgerSettled([applied EXCEPT !.awaiting = @ \ {c}], c, 0)
                 ELSE applied
    /\ floating' = floating \ {c}
    /\ UNCHANGED <<recorded, subs, received, failures, changes, tenures>>

\* handleAcknowledgementRefusal: not proposed, or nobody knows.
AnswerUnknown(c) ==
    /\ c \in lane.awaiting /\ failures < MaxFailures
    /\ failures' = failures + 1
    /\ lane' = RetryArmed([lane EXCEPT !.awaiting = @ \ {c}])
    /\ \/ UNCHANGED floating
       \/ floating' = floating \ {c}
    /\ UNCHANGED <<recorded, owed, through, subs, received, changes, tenures>>

\* recordCommittedOperationCdc: a committed entry records a row.
Record ==
    /\ recorded < MaxRows
    /\ recorded' = recorded + 1 /\ owed' = owed \cup {recorded + 1}
    /\ lane' = Driven(lane)
    /\ UNCHANGED <<through, subs, floating, received, failures, changes, tenures>>

-----------------------------------------------------------------------------
(* Subscriptions and tenures.                                              *)

\* A mutant: a delivery in progress does not notice.
StillSettled(l) == l

\* The pass and the row it is at are no longer for the current subscribers.
Unsettled(l) == [l EXCEPT !.stale = TRUE, !.cell.stale = TRUE]

Subscribe(s) ==
    /\ s \notin subs /\ changes < MaxChanges /\ changes' = changes + 1
    /\ subs' = subs \cup {s}
    /\ received' = [received EXCEPT ![s] = {}]
    /\ lane' = DrivenFor(Unsettled(lane), subs')
    /\ UNCHANGED <<recorded, owed, through, floating, failures, tenures>>

Unsubscribe(s) ==
    /\ s \in subs /\ changes < MaxChanges /\ changes' = changes + 1
    /\ subs' = subs \ {s}
    /\ lane' = Unsettled(lane)
    /\ UNCHANGED <<recorded, owed, through, floating, received, failures, tenures>>

\* A new tenure (LEADER_ELECTED): resetCdcObligationLane, and a drive.
LeaderElected ==
    /\ tenures < MaxTenures /\ tenures' = tenures + 1
    /\ lane' = Driven(FreshLane)
    /\ UNCHANGED <<recorded, owed, through, subs, floating, received, failures,
                   changes>>

LaneInit ==
    /\ recorded = 0 /\ owed = {} /\ through = 0
    /\ subs = Subscribed
    /\ lane = FreshLane /\ floating = {}
    /\ received = [s \in Subscriber |-> {}]
    /\ failures = 0 /\ changes = 0 /\ tenures = 1

DriveStep == DriveBackpressured \/ DriveRow \/ DriveYield \/ DriveDrained

DeliveryStep == DeliveryStale \/ DeliveryHeld \/ DeliveryDone

LaneNext ==
    \/ DriveStep \/ DeliveryStep \/ FlushDeadline \/ RetryDue
    \/ Record \/ LeaderElected
    \/ \E s \in Subscriber : DeliverTo(s) \/ Subscribe(s) \/ Unsubscribe(s)
    \/ \E t \in lane.tasks : RetryStep(t)
    \/ \E c \in floating : Commit(c) \/ CommitRefused(c)
    \/ \E c \in lane.awaiting : AnswerUnknown(c)

(***************************************************************************)
(* The event loop runs what is ready, timers fire, subscribers answer, and *)
(* the log commits what is proposed.                                       *)
(***************************************************************************)
LaneFairness ==
    /\ WF_laneVars(DriveStep) /\ WF_laneVars(DeliveryStep)
    /\ WF_laneVars(FlushDeadline) /\ WF_laneVars(RetryDue)
    /\ WF_laneVars(\E s \in Subscriber : DeliverTo(s))
    /\ WF_laneVars(\E t \in lane.tasks : RetryStep(t))
    /\ WF_laneVars(\E c \in floating : Commit(c) \/ CommitRefused(c))

LaneSpec == LaneInit /\ [][LaneNext]_laneVars /\ LaneFairness

-----------------------------------------------------------------------------
(* Properties.                                                             *)

Command == (SUBSET Row) \ {{}}

(***************************************************************************)
(* A row acknowledged and not settled is in the batch or in a command: the *)
(* tenure never redelivers such a row (driveOneObligation skips it), so    *)
(* one that nothing carries would stay owed until the tenure ends.         *)
(***************************************************************************)
PendingIsCarried == lane.pending \subseteq lane.batch \cup UNION lane.commands

\* The types of the ledger's and the lane's fields, and PendingIsCarried.
LaneTypeOK ==
    /\ recorded \in 0..MaxRows /\ owed \subseteq 1..recorded
    /\ through \in 0..recorded
    /\ subs \subseteq Subscriber /\ received \in [Subscriber -> SUBSET Row]
    /\ floating \subseteq Command
    /\ lane.pending \subseteq Row /\ lane.batch \subseteq Row
    /\ lane.commands \subseteq Command /\ lane.awaiting \subseteq Command
    /\ lane.flushTimer \in BOOLEAN /\ lane.retryTimer \in BOOLEAN
    /\ lane.drive \in {"idle", "scanning", "delivering"}
    /\ lane.rerun \in BOOLEAN /\ lane.visited \in BOOLEAN /\ lane.stale \in BOOLEAN
    /\ lane.scan \in [cursor : 0..MaxRows, through : 0..MaxRows,
                      provisional : BOOLEAN]
    /\ lane.cell \in [row : 0..MaxRows, branches : SUBSET Subscriber,
                      covered : SUBSET Subscriber,
                      provisional : SUBSET Subscriber,
                      todo : SUBSET Subscriber, stale : BOOLEAN]
    /\ lane.tasks \subseteq [todo : SUBSET Command, waiting : SUBSET Row,
                             flushed : BOOLEAN]
    /\ PendingIsCarried

LaneAsleep ==
    /\ lane.drive = "idle" /\ lane.tasks = {} /\ lane.awaiting = {}
    /\ ~ lane.flushTimer /\ ~ lane.retryTimer

(***************************************************************************)
(* No wake-up of the lane is lost while somebody is subscribed: when no    *)
(* drive runs, no timer is armed and no answer is awaited, no command is   *)
(* left and every owed row is acknowledged and in the batch.               *)
(***************************************************************************)
NoRowForgotten ==
    LaneAsleep /\ subs # {} => owed \subseteq lane.batch /\ lane.commands = {}

(***************************************************************************)
(* "From the moment this returns, no event can be acknowledged without     *)
(* this subscriber's handler having resolved for it"                       *)
(* (subscribeToCDCWithHandshake), for subscribers that join or leave in    *)
(* the middle of a delivery, retried rows and new tenures.                 *)
(***************************************************************************)
AcknowledgedAfterReceipt ==
    [][\A r \in lane'.pending \ lane.pending :
          \A s \in subs : r \in received[s]]_laneVars

(***************************************************************************)
(* The batch that stays behind: its deadline fired while MaxOutstanding    *)
(* commands were out, which clears the timer and keeps the batch, and the  *)
(* drive that follows their commit found nothing to do and disarmed the    *)
(* retry.                                                                  *)
(***************************************************************************)
BatchStranded == LaneAsleep /\ lane.batch # {}

(***************************************************************************)
(* Every owed row is marked delivered, unless nobody is subscribed or the  *)
(* batch is stranded: again and again no row, of the bounded number        *)
(* recorded, is owed.                                                      *)
(***************************************************************************)
EveryRowDelivered == []<>(owed = {} \/ subs = {} \/ BatchStranded)
=============================================================================
