----------------------------- MODULE CdcLedger ------------------------------
(***************************************************************************)
(* The replicated obligation ledger of a partition                         *)
(* (partition/partition-cdc-obligation.js, -ledger.js, -owed-admission.js):*)
(* every replica applies the committed log in order, records the events a  *)
(* write or a committed decision owes, and marks them delivered when a     *)
(* CDC_DELIVERED command names them.                                       *)
(*                                                                         *)
(* The log is the consensus port's, here a sequence any replica may get a  *)
(* proposal into: a replica that leads with a ledger that lags, one that   *)
(* does not know it was deposed, a proposal that commits late, twice or    *)
(* never, are all behaviours of this specification.  A row is named by its *)
(* rank in (log index, ordinal) order.                                     *)
(***************************************************************************)
EXTENDS Integers, Sequences, FiniteSets, FiniteSetsExt

CONSTANTS
    Replica,
    OwedMax,       \* OWED_MAX_EVENTS
    ReclaimMax,    \* RECLAIM_ROWS_PER_APPLY
    Operations,    \* how many operations a transaction here may carry
    MaxLog         \* bound: entries committed

ASSUME LedgerAssumption ==
    /\ OwedMax \in Nat \ {0} /\ ReclaimMax \in Nat \ {0}
    /\ Operations \subseteq Nat \ {0}
    /\ MaxLog \in Nat

VARIABLES
    log,         \* the committed commands
    applied,     \* applied[r]: how many of them replica r has applied
    ledger,      \* ledger[r]: its tables
    proposals,   \* acknowledgements proposed, each of which may commit
    confirmed,   \* rows every subscriber of some lane has confirmed
    alarms       \* applications that refused a row as UNKNOWN_EVENT

ledgerVars == <<log, applied, ledger, proposals, confirmed, alarms>>

(***************************************************************************)
(* The commands.  Whether a statement changes a row, and how many of the   *)
(* operations of a transaction do, is data: it is part of the command, so  *)
(* that every replica finds the same.  No event is built for a no-op.      *)
(***************************************************************************)
Write(events) == [type |-> "write", events |-> events]
Prepare(n, events) == [type |-> "prepare", operations |-> n, events |-> events]
Decision(commit) == [type |-> "decision", commit |-> commit]
Delivered(rows) == [type |-> "delivered", rows |-> rows]

Commands ==
    {Write(events) : events \in 0..1}
      \cup (UNION {{Prepare(n, events) : events \in 0..n} : n \in Operations})
      \cup {Decision(commit) : commit \in BOOLEAN}
      \cup [type : {"delivered"}, rows : SUBSET Nat]

(***************************************************************************)
(* The obligation table (owed rows and delivered rows retained), the       *)
(* progress row of the reclaimed prefix, and of the PREPARED transaction   *)
(* that holds the partition the number of its operations (0: there is      *)
(* none) and of those that will build an event.                            *)
(***************************************************************************)
EmptyLedger == [recorded |-> 0, owed |-> {}, retained |-> {},
                through |-> 0, reclaimed |-> 0, reserved |-> 0, effects |-> 0]

LedgerInit ==
    /\ log = <<>> /\ applied = [r \in Replica |-> 0]
    /\ ledger = [r \in Replica |-> EmptyLedger]
    /\ proposals = {} /\ confirmed = {} /\ alarms = 0

-----------------------------------------------------------------------------
(* The application of one command.                                         *)

\* admitCdcOwedWork
Admits(l, required) == Cardinality(l.owed) + required <= OwedMax

\* recordCommittedOperationCdc: n events, at the next positions.
Recorded(l, n) ==
    [l EXCEPT !.recorded = @ + n,
              !.owed = @ \cup (l.recorded + 1)..(l.recorded + n)]

\* A mutant: a write is admitted while a transaction is prepared.
AppliedWriteUnreserved(l, events) ==
    IF Admits(l, 1) THEN Recorded(l, events) ELSE l

\* A statement: held by a PREPARED transaction, or refused, or it runs.
AppliedWrite(l, events) ==
    IF l.reserved = 0 /\ Admits(l, 1) THEN Recorded(l, events) ELSE l

\* PARTICIPANT_PREPARE: reserved, refused, or PREPARED.
AppliedPrepare(l, n, events) ==
    IF l.reserved = 0 /\ Admits(l, n)
      THEN [l EXCEPT !.reserved = n, !.effects = events] ELSE l

\* PARTICIPANT_DECISION of the PREPARED transaction, if any.
AppliedDecision(l, commit) ==
    [(IF commit THEN Recorded(l, l.effects) ELSE l)
       EXCEPT !.reserved = 0, !.effects = 0]

(***************************************************************************)
(* acknowledgementJudgementOf: every row is judged before any is marked.   *)
(***************************************************************************)
Compacted(l, rows) == \E row \in rows : row <= l.through

\* A mutant: a row already delivered is no longer known.
UnlessOwed(l, rows) == ~ Compacted(l, rows) /\ ~ (rows \subseteq l.owed)

Unknown(l, rows) ==
    ~ Compacted(l, rows) /\ ~ (rows \subseteq l.owed \cup l.retained)

(***************************************************************************)
(* reclaimDeliveredCdcObligations: the delivered rows below the lowest     *)
(* owed one, at most ReclaimMax of them in log order.                      *)
(***************************************************************************)
\* A mutant: the lowest owed row does not bound what is reclaimed.
BelowAnything(l) == l.retained

BelowHead(l) == {row \in l.retained : \A o \in l.owed : row < o}

Reclaimable(l) ==
    {row \in BelowHead(l) :
       Cardinality({other \in BelowHead(l) : other < row}) < ReclaimMax}

Reclaim(l) ==
    IF Reclaimable(l) = {} THEN l
    ELSE [l EXCEPT !.retained = @ \ Reclaimable(l),
                   !.through = Max(Reclaimable(l)),
                   !.reclaimed = @ + Cardinality(Reclaimable(l))]

\* applyCdcAcknowledgementCommand
AppliedDelivered(l, rows) ==
    IF Compacted(l, rows) \/ Unknown(l, rows) THEN l
    ELSE Reclaim([l EXCEPT !.owed = @ \ rows, !.retained = @ \cup rows])

Applied(l, command) ==
    CASE command.type = "write" -> AppliedWrite(l, command.events)
      [] command.type = "prepare" ->
           AppliedPrepare(l, command.operations, command.events)
      [] command.type = "decision" -> AppliedDecision(l, command.commit)
      [] command.type = "delivered" -> AppliedDelivered(l, command.rows)

ApplyNext(r) ==
    /\ applied[r] < Len(log)
    /\ LET command == log[applied[r] + 1] IN
       /\ applied' = [applied EXCEPT ![r] = @ + 1]
       /\ ledger' = [ledger EXCEPT ![r] = Applied(@, command)]
       /\ alarms' = IF /\ command.type = "delivered"
                       /\ Unknown(ledger[r], command.rows)
                      THEN 1 ELSE alarms
    /\ UNCHANGED <<log, proposals, confirmed>>

-----------------------------------------------------------------------------
(* What gets into the log, and the lane of whoever leads.                  *)

CommitEntry(command) ==
    /\ Len(log) < MaxLog
    /\ log' = Append(log, command)
    /\ UNCHANGED <<applied, ledger, proposals, confirmed, alarms>>

CommitStatement == \E events \in 0..1 : CommitEntry(Write(events))

CommitTransaction ==
    \/ \E n \in Operations : \E events \in 0..n : CommitEntry(Prepare(n, events))
    \/ \E commit \in BOOLEAN : CommitEntry(Decision(commit))

\* A proposal may commit more than once: it is made again under its entryId.
CommitAcknowledgement == \E rows \in proposals : CommitEntry(Delivered(rows))

(***************************************************************************)
(* A replica that fell behind the compacted log adopts a snapshot, which   *)
(* carries the obligation and progress tables and the participant rows.    *)
(***************************************************************************)
InstallSnapshot(r, from) ==
    /\ applied[r] < applied[from]
    /\ applied' = [applied EXCEPT ![r] = applied[from]]
    /\ ledger' = [ledger EXCEPT ![r] = ledger[from]]
    /\ UNCHANGED <<log, proposals, confirmed, alarms>>

\* deliverObligation on a replica that leads: every subscriber confirmed.
Confirm(r) ==
    /\ \E row \in ledger[r].owed : confirmed' = confirmed \cup {row}
    /\ UNCHANGED <<log, applied, ledger, proposals, alarms>>

(***************************************************************************)
(* A mutant: the acknowledgement names every row up to one confirmed.      *)
(***************************************************************************)
ProposeThrough(r) ==
    /\ \E last \in confirmed \cap ledger[r].owed :
          proposals' = proposals \cup
                         {{row \in ledger[r].owed : row <= last}}
    /\ UNCHANGED <<log, applied, ledger, confirmed, alarms>>

(***************************************************************************)
(* proposePendingAcknowledgement: the lane names rows it read from its own *)
(* ledger, saw confirmed, and does not see reclaimed.                      *)
(***************************************************************************)
Propose(r) ==
    /\ \E rows \in (SUBSET (confirmed \cap
                              (ledger[r].owed \cup ledger[r].retained))) \ {{}} :
          proposals' = proposals \cup {rows}
    /\ UNCHANGED <<log, applied, ledger, confirmed, alarms>>

LedgerNext ==
    \/ CommitStatement \/ CommitTransaction \/ CommitAcknowledgement
    \/ \E r \in Replica : ApplyNext(r) \/ Confirm(r) \/ Propose(r)
    \/ \E r, from \in Replica : InstallSnapshot(r, from)

LedgerSpec == LedgerInit /\ [][LedgerNext]_ledgerVars

-----------------------------------------------------------------------------
(* Properties.                                                             *)

(***************************************************************************)
(* The budget of owed events holds on every replica, the events a PREPARED *)
(* transaction will record when it commits included: its decision is       *)
(* applied without asking again (requiredCdcSlots).                        *)
(***************************************************************************)
OwedWithinBudget ==
    \A r \in Replica :
       Cardinality(ledger[r].owed) + ledger[r].reserved <= OwedMax

(***************************************************************************)
(* The ledger loses nothing: every row recorded is owed, retained or in    *)
(* the reclaimed prefix, the count of which is exact, and no owed row is   *)
(* in that prefix (countCdcObligations, readCdcObligationStanding).        *)
(***************************************************************************)
LedgerComplete ==
    \A r \in Replica :
       LET l == ledger[r] IN
       /\ l.owed \cup l.retained = (l.through + 1)..l.recorded
       /\ l.owed \cap l.retained = {}
       /\ l.reclaimed = l.through

(***************************************************************************)
(* No committed acknowledgement is ever refused as naming an unknown row   *)
(* (the ACKNOWLEDGEMENT_ALARM of refuseAcknowledgement), whoever proposed  *)
(* it, with whatever ledger, and however late or often it commits.         *)
(***************************************************************************)
NoUnknownRow == alarms = 0

(***************************************************************************)
(* A row that is no longer owed on some replica, marked or reclaimed, was  *)
(* confirmed by every subscriber of a lane (applyCdcAcknowledgementCommand *)
(* marks what a command names, with no evidence of its own).               *)
(***************************************************************************)
DeliveredWereConfirmed ==
    \A r \in Replica :
       (1..ledger[r].recorded) \ ledger[r].owed \subseteq confirmed

(***************************************************************************)
(* Type correctness.                                                       *)
(***************************************************************************)
LedgerTypeOK ==
    /\ log \in Seq(Commands)
    /\ applied \in [Replica -> 0..Len(log)]
    /\ \A r \in Replica :
          /\ ledger[r].recorded \in Nat /\ ledger[r].through \in Nat
          /\ ledger[r].reclaimed \in Nat
          /\ ledger[r].reserved \in Nat
          /\ ledger[r].effects \in 0..ledger[r].reserved
          /\ ledger[r].owed \subseteq Nat /\ ledger[r].retained \subseteq Nat
    /\ proposals \subseteq SUBSET Nat
    /\ confirmed \subseteq Nat
    /\ alarms \in 0..1
=============================================================================
