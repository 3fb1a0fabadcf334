----------------------- MODULE DistributedTransaction -----------------------
(***************************************************************************)
(* One distributed transaction: the node that began it (Owner), the nodes  *)
(* whose recovery sweep discovers its durable row, the row itself (a       *)
(* system table, written by guarded updates), and its participants, each   *)
(* abstracted to the durable row ParticipantTransaction models in full.    *)
(*                                                                         *)
(* A node runs one operation of the transaction at a time (the session's   *)
(* request queue, runTransactionOperation); an operation is a sequence of  *)
(* steps cut at its awaits.  Every await can fail: `faults' counts the     *)
(* failures (an unanswered or refused system-table write or read, a        *)
(* participant that stays silent for all retries, a crash) and MaxFaults   *)
(* bounds them.  A submitted write can land at any later time, whatever    *)
(* its submitter was told.                                                 *)
(***************************************************************************)
EXTENDS Integers, FiniteSets

CONSTANTS
    Participants,   \* the partitions a statement can enlist
    Coordinators,   \* the nodes
    Owner,          \* the node the client is connected to
    MaxFaults,      \* bound on the failures of one behaviour
    MaxCommits      \* bound on the client's COMMITs of the transaction

ASSUME CoordinatorAssumption ==
    /\ Owner \in Coordinators
    /\ MaxFaults \in Nat
    /\ MaxCommits \in Nat

VARIABLES
    rowState,   \* the transaction row's participant_set_state, or ABSENT
    set,        \* its participant_set_text
    decision,   \* its decision, insert-once
    digests,    \* the participants whose prepared digest decision_text names
    retained,   \* the participant rows that hold PREPARED with full evidence
    writes,     \* updates of the transaction row submitted so far
    prow,       \* each participant's own durable row
    psession,   \* the participants that hold a volatile session
    prepared,   \* the participants whose PREPARED answer is on the wire
    requests,   \* participant requests sent; each may arrive late or twice
    tx,         \* each node's in-memory transaction
    ctl,        \* the operation each node runs, and where it waits
    tasks,      \* each node's participant calls still running
    late,       \* the nodes whose clock passed the transaction's deadline
    told,       \* what the client was told
    commits,    \* the COMMITs the client sent
    faults

row    == <<rowState, set, decision, digests, retained>>
parts  == <<prow, psession, prepared>>
memory == <<tx, ctl, tasks>>
clock  == <<late, commits>>
vars   == <<row, writes, parts, requests, memory, clock, told, faults>>

SetStates == {"ABSENT", "OPEN", "FROZEN"}
Decisions == {"NONE", "COMMIT", "ROLLBACK"}
RowStates == {"ABSENT", "PREPARED", "REFUSED", "COMMITTED", "ROLLED_BACK"}
Statuses  == {"ACTIVE", "PREPARING", "PREPARED", "COMMITTING", "COMMITTED",
              "ROLLING_BACK", "ROLLED_BACK"}
Stages    == {"BEGIN", "PREPARE", "COMMIT", "ROLLBACK"}
Answers   == {"committed", "notCommitted", "rolledBack", "commitDecided"}

(***************************************************************************)
(* A participant's status in a node's memory.  PENDING stands for FAILED,  *)
(* for the transient statuses of a running stage and for a PREPARED whose  *)
(* evidence did not reach its row: no reader tells them apart.             *)
(***************************************************************************)
PartStatuses == {"PENDING", "ACTIVE", "PREPARED", "COMMITTED", "ROLLED_BACK"}

Transaction ==
    [held : {"none", "live", "discovered", "ended"},
     set : SUBSET Participants, frozen : BOOLEAN, status : Statuses,
     decision : Decisions, noted : BOOLEAN,
     part : [Participants -> PartStatuses], digested : SUBSET Participants]

Operation ==
    [at : {"idle", "admit", "freeze", "record"} \cup Stages,
     op : {"none", "ENLIST", "COMMIT", "ROLLBACK", "SWEEP"},
     failed : BOOLEAN, intent : Decisions, adding : SUBSET Participants]

Write ==
    [kind : {"admit", "freeze", "decide"}, old : SUBSET Participants,
     new : SUBSET Participants, decision : Decisions,
     digests : SUBSET Participants]

Requests == Participants \X Stages

NoTransaction ==
    [held |-> "none", set |-> {}, frozen |-> FALSE, status |-> "ACTIVE",
     decision |-> "NONE", noted |-> FALSE,
     part |-> [p \in Participants |-> "PENDING"], digested |-> {}]

Idle == [at |-> "idle", op |-> "none", failed |-> FALSE, intent |-> "NONE",
         adding |-> {}]

Init ==
    /\ rowState = "ABSENT" /\ set = {} /\ decision = "NONE" /\ digests = {}
    /\ retained = {} /\ writes = {}
    /\ prow = [p \in Participants |-> "ABSENT"]
    /\ psession = {} /\ prepared = {} /\ requests = {}
    /\ tx = [c \in Coordinators |-> NoTransaction]
    /\ ctl = [c \in Coordinators |-> Idle]
    /\ tasks = [c \in Coordinators |-> {}]
    /\ late = {} /\ told = {} /\ faults = 0 /\ commits = 0

Fault  == faults < MaxFaults /\ faults' = faults + 1
NoFault == faults' = faults

Held(c, kind) == ctl[c].at = "idle" /\ tx[c].held = kind

-----------------------------------------------------------------------------
(* The commit point a failed COMMIT answer carries.                        *)

commitPointReached(t) == t.noted \/ t.status \in {"COMMITTING", "COMMITTED"}

noteCommitPoint(t, status) ==
    t.noted \/ status = "COMMITTING" \/ t.status = "COMMITTING"

(***************************************************************************)
(* The status is kept when its write answers; otherwise it is restored,    *)
(* the noted commit point is not, and the caller throws.                   *)
(***************************************************************************)
setTransactionStatus(t, status) ==
    [t EXCEPT !.status = status, !.noted = noteCommitPoint(t, status)]

statusWriteThrown(t, status) == [t EXCEPT !.noted = noteCommitPoint(t, status)]

(***************************************************************************)
(* withCommitPoint and stampThrownCommitPoint: a COMMIT that failed tells  *)
(* the client that nothing was committed unless the commit point may have  *)
(* been reached; other operations say nothing of it.                       *)
(***************************************************************************)
withCommitPoint(op, t) ==
    IF op = "COMMIT" /\ ~commitPointReached(t) THEN told \cup {"notCommitted"}
                                               ELSE told

Ends(c, t) == /\ tx' = [tx EXCEPT ![c] = t]
              /\ ctl' = [ctl EXCEPT ![c] = Idle]

-----------------------------------------------------------------------------
(* Updates of the transaction row.  Each is guarded by the row it expects. *)

SetWrite(old, new) == [kind |-> "admit", old |-> old, new |-> new,
                       decision |-> "NONE", digests |-> {}]

FreezeWrite(s) == [kind |-> "freeze", old |-> s, new |-> s,
                   decision |-> "NONE", digests |-> {}]

buildTransactionDecisionRecord(t, d) ==
    [kind |-> "decide", old |-> t.set, new |-> t.set, decision |-> d,
     digests |-> t.set \cap t.digested]

persistDistributedTransactionParticipantSet(w) ==
    /\ w.kind \in {"admit", "freeze"}
    /\ rowState = "OPEN" /\ set = w.old /\ decision = "NONE"
    /\ set' = w.new
    /\ rowState' = IF w.kind = "freeze" THEN "FROZEN" ELSE "OPEN"
    /\ UNCHANGED <<decision, digests>>

\* Mutant: the decision is not insert-once.
DecisionOverwritten(w) ==
    /\ w.kind = "decide"
    /\ rowState = "FROZEN" /\ set = w.old
    /\ decision' = w.decision
    /\ digests' = w.digests
    /\ UNCHANGED <<rowState, set>>

persistDistributedTransactionDecision(w) ==
    /\ w.kind = "decide"
    /\ rowState = "FROZEN" /\ set = w.old /\ decision = "NONE"
    /\ decision' = w.decision
    /\ digests' = w.digests
    /\ UNCHANGED <<rowState, set>>

Land(w) ==
    /\ \/ persistDistributedTransactionParticipantSet(w)
       \/ persistDistributedTransactionDecision(w)
    /\ UNCHANGED <<retained, writes, parts, requests, memory, clock, told,
                   faults>>

LandAny == \E w \in writes : Land(w)

-----------------------------------------------------------------------------
(* Entering a participant stage: the status is written, then every key is  *)
(* called.  A stage of the decision is entered only with the decision held. *)

EnterStage(c, op, t, status, stage, keys) ==
    \/ /\ tx' = [tx EXCEPT ![c] = [setTransactionStatus(t, status) EXCEPT
              !.part = [p \in Participants |->
                           IF p \in keys THEN "PENDING" ELSE t.part[p]]]]
       /\ ctl' = [ctl EXCEPT ![c] = [Idle EXCEPT !.at = stage, !.op = op]]
       /\ tasks' = [tasks EXCEPT ![c] = tasks[c] \cup (keys \X {stage})]
       /\ requests' = requests \cup (keys \X {stage})
       /\ NoFault
       /\ UNCHANGED told
    \/ /\ t.status # status
       /\ Fault
       /\ Ends(c, statusWriteThrown(t, status))
       /\ told' = withCommitPoint(op, statusWriteThrown(t, status))
       /\ UNCHANGED <<tasks, requests>>

completeCommitDecision(c, op, t) ==
    EnterStage(c, op, t, "COMMITTING", "COMMIT",
               {p \in t.set : t.part[p] # "COMMITTED"})

\* An empty key list runs the stage for every participant.
getRollbackParticipantKeys(t) ==
    LET keys == {p \in t.set : t.part[p] # "ROLLED_BACK"}
    IN  IF keys = {} THEN t.set ELSE keys

completeRollbackDecision(c, op, t) ==
    EnterStage(c, op, t, "ROLLING_BACK", "ROLLBACK",
               getRollbackParticipantKeys(t))

driveTransactionDecision(c, op, t) ==
    \/ t.decision = "COMMIT" /\ completeCommitDecision(c, op, t)
    \/ t.decision = "ROLLBACK" /\ completeRollbackDecision(c, op, t)

(***************************************************************************)
(* recordTransactionDecision: an insert-once write, unless an earlier one  *)
(* is in doubt (noted): then only what the row holds may be adopted.  A    *)
(* COMMIT record that lacks a participant's digest is never built.         *)
(***************************************************************************)
recordTransactionDecision(c, op, t, d) ==
    LET unbuilt == ~t.noted /\ d = "COMMIT" /\ ~(t.set \subseteq t.digested) IN
    /\ \/ /\ unbuilt
          /\ Ends(c, t)
          /\ told' = withCommitPoint(op, t)
          /\ UNCHANGED writes
       \/ /\ ~unbuilt
          /\ tx' = [tx EXCEPT ![c] = t]
          /\ ctl' = [ctl EXCEPT ![c] = [Idle EXCEPT !.at = "record", !.op = op,
                                                    !.intent = d]]
          /\ writes' = IF t.noted THEN writes
                       ELSE writes \cup {buildTransactionDecisionRecord(t, d)}
          /\ UNCHANGED told
    /\ NoFault
    /\ UNCHANGED <<tasks, requests>>

\* Mutant: the node drives what it meant to record, not what was recorded.
IntentDriven(c) ==
    /\ ctl[c].at = "record" /\ decision # "NONE"
    /\ driveTransactionDecision(c, ctl[c].op,
                                [tx[c] EXCEPT !.decision = ctl[c].intent])
    /\ UNCHANGED <<row, writes, parts, clock>>

\* The write landed, or the read-back found the decision recorded first.
decisionRecorded(c) ==
    /\ ctl[c].at = "record"
    /\ decision # "NONE"
    /\ driveTransactionDecision(c, ctl[c].op,
                                [tx[c] EXCEPT !.decision = decision])
    /\ UNCHANGED <<row, writes, parts, clock>>

(***************************************************************************)
(* The write failed and the read-back is absent or unavailable, or there   *)
(* was only a read and it found nothing: IN DOUBT, nothing is fanned out.  *)
(***************************************************************************)
decisionInDoubt(c) ==
    /\ ctl[c].at = "record"
    /\ \/ tx[c].noted /\ decision = "NONE" /\ NoFault
       \/ Fault
    /\ Ends(c, [tx[c] EXCEPT !.noted = TRUE])
    /\ UNCHANGED <<row, writes, parts, requests, tasks, clock, told>>

-----------------------------------------------------------------------------
(* BEGIN and enlistment.                                                   *)

\* The row is inserted once; its answer can be lost with the read-back.
begin ==
    /\ rowState = "ABSENT"
    /\ Held(Owner, "none")
    /\ rowState' = "OPEN"
    /\ \/ tx' = [tx EXCEPT ![Owner].held = "live"] /\ NoFault
       \/ tx' = tx /\ Fault
    /\ UNCHANGED <<set, decision, digests, retained, writes, parts, requests,
                   ctl, tasks, clock, told>>

\* Mutant: the participants are called before the set that names them is durable.
EnlistedBeforeAdmission(ps) ==
    LET t == [tx[Owner] EXCEPT !.set = tx[Owner].set \cup ps] IN
    /\ Held(Owner, "live") /\ ~t.frozen
    /\ \E p \in ps : t.part[p] # "ACTIVE"
    /\ EnterStage(Owner, "ENLIST", t, t.status, "BEGIN",
                  {p \in ps : t.part[p] # "ACTIVE"})
    /\ UNCHANGED <<row, writes, parts, clock>>

(***************************************************************************)
(* retainParticipantSet: the admitted identities are durable before any    *)
(* participant is called.  A set that does not grow is not written again.  *)
(***************************************************************************)
enlistParticipants(ps) ==
    LET t == tx[Owner] IN
    /\ Held(Owner, "live")
    /\ ~t.frozen
    /\ ps # {}
    /\ \/ /\ ps \subseteq t.set
          /\ \E p \in ps : t.part[p] # "ACTIVE"
          /\ EnterStage(Owner, "ENLIST", t, t.status, "BEGIN",
                        {p \in ps : t.part[p] # "ACTIVE"})
          /\ UNCHANGED writes
       \/ /\ ~(ps \subseteq t.set)
          /\ writes' = writes \cup {SetWrite(t.set, t.set \cup ps)}
          /\ ctl' = [ctl EXCEPT ![Owner] =
                [Idle EXCEPT !.at = "admit", !.op = "ENLIST", !.adding = ps]]
          /\ UNCHANGED <<tx, tasks, requests, told, faults>>
    /\ UNCHANGED <<row, parts, clock>>

\* Only the owner grows the set, so the grown set shows that its write landed.
participantsAdmitted ==
    LET ps == ctl[Owner].adding
        t  == [tx[Owner] EXCEPT !.set = tx[Owner].set \cup ps]
    IN
    /\ ctl[Owner].at = "admit"
    /\ set = t.set
    /\ EnterStage(Owner, "ENLIST", t, t.status, "BEGIN",
                  {p \in ps : t.part[p] # "ACTIVE"})
    /\ UNCHANGED <<row, writes, parts, clock>>

(***************************************************************************)
(* persistAdmittedParticipantSet: a set write the row refused, or one      *)
(* whose answer and read-back are lost, hands the transaction to recovery. *)
(***************************************************************************)
participantSetUnresolved(c) ==
    /\ \/ ctl[c].at \in {"admit", "freeze"} /\ Fault
       \/ ctl[c].at = "admit" /\ set = tx[c].set /\ rowState = "FROZEN" /\ NoFault
       \/ ctl[c].at = "freeze" /\ set # tx[c].set /\ NoFault
    /\ Ends(c, [tx[c] EXCEPT !.held = "discovered"])
    /\ UNCHANGED <<row, writes, parts, requests, tasks, clock, told>>

Running(c, stage) == \E p \in Participants : <<p, stage>> \in tasks[c]

beginDone ==
    /\ ctl[Owner].at = "BEGIN" /\ ~Running(Owner, "BEGIN")
    /\ Ends(Owner, tx[Owner])
    /\ UNCHANGED <<row, writes, parts, requests, tasks, clock, told, faults>>

-----------------------------------------------------------------------------
(* The commit and rollback protocols.                                      *)

\* Every participant without retained evidence is prepared; a spent budget
\* decides ROLLBACK, except when the sweep resumes a PREPARED transaction.
prepareForDecision(c, op, t) ==
    \/ /\ op # "SWEEP" /\ c \in late
       /\ recordTransactionDecision(c, op, t, "ROLLBACK")
    \/ /\ op = "SWEEP" \/ c \notin late
       /\ EnterStage(c, op, t,
              IF t.status \in {"PREPARING", "PREPARED"} THEN t.status
                                                       ELSE "PREPARING",
              "PREPARE",
              {p \in t.set : t.part[p] \notin {"PREPARED", "COMMITTED"}})
       /\ UNCHANGED writes

runCommitProtocol(c, op, t) ==
    \/ /\ t.decision # "NONE"
       /\ driveTransactionDecision(c, op, t)
       /\ UNCHANGED writes
    \/ /\ t.decision = "NONE" /\ t.noted
       /\ recordTransactionDecision(c, op, t, "COMMIT")
    \/ /\ t.decision = "NONE" /\ ~t.noted
       /\ prepareForDecision(c, op, t)

prepareDone(c) ==
    LET t == tx[c]
        op == ctl[c].op
        rollback == ctl[c].failed \/ (op # "SWEEP" /\ c \in late)
    IN
    /\ ctl[c].at = "PREPARE" /\ ~Running(c, "PREPARE")
    /\ \/ rollback /\ recordTransactionDecision(c, op, t, "ROLLBACK")
       \/ ~rollback /\ recordTransactionDecision(c, op,
                            setTransactionStatus(t, "PREPARED"), "COMMIT")
       \/ /\ ~rollback /\ t.status # "PREPARED" /\ Fault
          /\ Ends(c, statusWriteThrown(t, "PREPARED"))
          /\ told' = withCommitPoint(op, statusWriteThrown(t, "PREPARED"))
          /\ UNCHANGED <<tasks, requests, writes>>
    /\ UNCHANGED <<row, parts, clock>>

\* What follows the freeze: COMMIT runs its protocol, the others record.
AfterFreeze(c, op, t, intent) ==
    \/ op = "COMMIT" /\ runCommitProtocol(c, op, t)
    \/ op # "COMMIT" /\ recordTransactionDecision(c, op, t, intent)

freezeParticipantSet(c, op, t, intent) ==
    \/ t.frozen /\ AfterFreeze(c, op, t, intent)
    \/ /\ ~t.frozen
       /\ writes' = writes \cup {FreezeWrite(t.set)}
       /\ tx' = [tx EXCEPT ![c] = t]
       /\ ctl' = [ctl EXCEPT ![c] = [Idle EXCEPT !.at = "freeze", !.op = op,
                                                 !.intent = intent]]
       /\ NoFault
       /\ UNCHANGED <<tasks, requests, told>>

participantSetFrozen(c) ==
    /\ ctl[c].at = "freeze"
    /\ rowState = "FROZEN" /\ set = tx[c].set
    /\ AfterFreeze(c, ctl[c].op, [tx[c] EXCEPT !.frozen = TRUE], ctl[c].intent)
    /\ UNCHANGED <<row, parts, clock>>

commitOwned ==
    /\ Held(Owner, "live") /\ commits < MaxCommits
    /\ commits' = commits + 1
    /\ freezeParticipantSet(Owner, "COMMIT", tx[Owner], "NONE")
    /\ UNCHANGED <<row, parts, late>>

runRollbackProtocol(c, op, t) ==
    \/ t.decision = "NONE" /\ freezeParticipantSet(c, op, t, "ROLLBACK")
    \/ /\ t.decision # "NONE"
       /\ driveTransactionDecision(c, op, t)
       /\ UNCHANGED writes

rollbackOwned ==
    /\ Held(Owner, "live")
    /\ runRollbackProtocol(Owner, "ROLLBACK", tx[Owner])
    /\ UNCHANGED <<row, parts, clock>>

-----------------------------------------------------------------------------
(* A participant call of a running stage.  A call of a stage that threw    *)
(* keeps running after its operation answered.                             *)

Answered(p, stage) ==
    \/ /\ stage = "BEGIN"
       /\ p \in psession \/ prow[p] \in {"PREPARED", "REFUSED", "COMMITTED"}
    \/ stage = "PREPARE" /\ p \in prepared
    \/ stage = "COMMIT" /\ prow[p] = "COMMITTED"
    \/ stage = "ROLLBACK" /\ prow[p] \in {"ROLLED_BACK", "REFUSED"}

Refused(p, stage) ==
    \/ stage = "BEGIN" /\ prow[p] # "ABSENT"
    \/ /\ stage = "PREPARE"
       /\ \/ prow[p] \in {"REFUSED", "ROLLED_BACK", "COMMITTED"}
          \/ prow[p] = "ABSENT" /\ p \notin psession
    \/ /\ stage = "COMMIT"
       /\ \/ prow[p] \in {"ABSENT", "REFUSED", "ROLLED_BACK"}
          \/ prow[p] = "PREPARED" /\ p \notin digests
    \/ stage = "ROLLBACK" /\ prow[p] = "COMMITTED"

DoneStatus == [BEGIN |-> "ACTIVE", PREPARE |-> "PREPARED",
               COMMIT |-> "COMMITTED", ROLLBACK |-> "ROLLED_BACK"]

\* Mutant: a row's evidence counts whatever the row's status.
EvidenceOfAnyStatus(p, status) == retained \cup {p}

\* The participant row a finished call writes: evidence counts as retained
\* only on a PREPARED row.
persistParticipant(p, status) ==
    IF status = "PREPARED" THEN retained \cup {p} ELSE retained \ {p}

(***************************************************************************)
(* A BEGIN that outlived its statement replaces the participant's record   *)
(* when it answers: a later stage already running then writes its result   *)
(* on the record it replaced, which the transaction no longer holds.       *)
(***************************************************************************)
Detached(t, p, stage) == stage # "BEGIN" /\ t.part[p] = "ACTIVE"

Noting(t, p, stage, status) ==
    IF Detached(t, p, stage) THEN t
    ELSE [t EXCEPT !.part[p] = status,
                   !.digested = IF stage = "PREPARE" /\ p \in prepared
                                THEN t.digested \cup {p} ELSE t.digested]

callSucceeded(c, p, stage) ==
    /\ <<p, stage>> \in tasks[c]
    /\ Answered(p, stage)
    /\ tx' = [tx EXCEPT ![c] = Noting(tx[c], p, stage, DoneStatus[stage])]
    /\ retained' = persistParticipant(p, DoneStatus[stage])
    /\ tasks' = [tasks EXCEPT ![c] = tasks[c] \ {<<p, stage>>}]
    /\ UNCHANGED <<rowState, set, decision, digests, writes, parts, requests,
                   ctl, clock, told, faults>>

\* An unanswered call is retried to the deadline (PREPARE), else a bounded
\* number of times.  A failed BEGIN throws; another stage notes the failure.
callFailed(c, p, stage) ==
    /\ <<p, stage>> \in tasks[c]
    /\ \/ /\ \/ Refused(p, stage)
             \/ stage = "PREPARE" /\ ctl[c].op # "SWEEP" /\ c \in late
          /\ NoFault
       \/ Fault
    /\ \/ /\ stage = "BEGIN"
          /\ ctl' = [ctl EXCEPT ![c] = IF ctl[c].at = stage THEN Idle ELSE ctl[c]]
          /\ UNCHANGED <<tx, retained>>
       \/ /\ stage # "BEGIN"
          /\ tx' = [tx EXCEPT ![c] = IF Detached(tx[c], p, stage) THEN tx[c]
                        ELSE [tx[c] EXCEPT !.part[p] = "PENDING"]]
          /\ ctl' = [ctl EXCEPT ![c] = IF ctl[c].at # stage THEN ctl[c]
                        ELSE [ctl[c] EXCEPT !.failed = TRUE]]
          /\ retained' = persistParticipant(p, "FAILED")
    /\ tasks' = [tasks EXCEPT ![c] = tasks[c] \ {<<p, stage>>}]
    /\ UNCHANGED <<rowState, set, decision, digests, writes, parts, requests,
                   clock, told>>

\* The participant row's write throws, landed or not: the stage throws and
\* its operation answers while the stage's other calls keep running.
callThrown(c, p, stage) ==
    /\ <<p, stage>> \in tasks[c]
    /\ Fault
    /\ tx' = [tx EXCEPT ![c] = IF stage = "BEGIN" THEN tx[c]
                               ELSE Noting(tx[c], p, stage, "PENDING")]
    /\ \/ UNCHANGED retained
       \/ Answered(p, stage) /\ retained' = persistParticipant(p, DoneStatus[stage])
       \/ ~Answered(p, stage) /\ retained' = persistParticipant(p, "FAILED")
    /\ ctl' = [ctl EXCEPT ![c] = IF ctl[c].at = stage THEN Idle ELSE ctl[c]]
    /\ told' = IF ctl[c].at = stage THEN withCommitPoint(ctl[c].op, tx[c]) ELSE told
    /\ tasks' = [tasks EXCEPT ![c] = tasks[c] \ {<<p, stage>>}]
    /\ UNCHANGED <<rowState, set, decision, digests, writes, parts, requests,
                   clock>>

\* endTransaction: the session is free again, the answer says what happened.
Finish(c, status, answer) ==
    \/ /\ Ends(c, [setTransactionStatus(tx[c], status) EXCEPT !.held = "ended"])
       /\ told' = answer
       /\ NoFault
    \/ /\ Fault
       /\ Ends(c, statusWriteThrown(tx[c], status))
       /\ told' = withCommitPoint(ctl[c].op, statusWriteThrown(tx[c], status))

\* Mutant: a failed participant does not keep the COMMIT from ending.
CommitDoneIgnoringFailure(c) ==
    /\ ctl[c].at = "COMMIT" /\ ~Running(c, "COMMIT")
    /\ Finish(c, "COMMITTED",
              IF ctl[c].op = "COMMIT" THEN told \cup {"committed"} ELSE told)
    /\ UNCHANGED <<row, writes, parts, requests, tasks, clock>>

commitDone(c) ==
    LET op == ctl[c].op
        answer == IF op = "COMMIT" THEN told \cup {"committed"}
                  ELSE IF op = "ROLLBACK" THEN told \cup {"commitDecided"}
                  ELSE told
    IN
    /\ ctl[c].at = "COMMIT" /\ ~Running(c, "COMMIT")
    /\ \/ /\ ctl[c].failed
          /\ Ends(c, tx[c])
          /\ told' = IF op = "ROLLBACK" THEN answer ELSE told
          /\ NoFault
       \/ ~ctl[c].failed /\ Finish(c, "COMMITTED", answer)
    /\ UNCHANGED <<row, writes, parts, requests, tasks, clock>>

rollbackDone(c) ==
    LET op == ctl[c].op
        failure == withCommitPoint(op, tx[c])
    IN
    /\ ctl[c].at = "ROLLBACK" /\ ~Running(c, "ROLLBACK")
    /\ \/ ctl[c].failed /\ Ends(c, tx[c]) /\ told' = failure /\ NoFault
       \/ /\ ~ctl[c].failed
          /\ Finish(c, "ROLLED_BACK",
                    IF op = "ROLLBACK" THEN told \cup {"rolledBack"} ELSE failure)
    /\ UNCHANGED <<row, writes, parts, requests, tasks, clock>>

-----------------------------------------------------------------------------
(* Recovery.  Every node's sweep discovers the durable row; the discovered *)
(* transaction is an obligation, restored from the row before every step.  *)

recoverFromSystemTables(c) ==
    /\ Held(c, "none")
    /\ rowState # "ABSENT"
    /\ tx' = [tx EXCEPT ![c].held = "discovered"]
    /\ UNCHANGED <<row, writes, parts, requests, ctl, tasks, clock, told, faults>>

\* Mutant: only the participants with a row of their own are restored.
CandidateOfRetained(c) ==
    [held |-> "discovered", set |-> set, frozen |-> rowState = "FROZEN",
     status |-> IF rowState = "FROZEN" THEN "PREPARING" ELSE "ACTIVE",
     decision |-> decision, noted |-> tx[c].noted,
     part |-> [p \in set \cap retained |-> "PREPARED"],
     digested |-> set \cap retained]

authorityCandidate(c) ==
    [held |-> "discovered", set |-> set, frozen |-> rowState = "FROZEN",
     status |-> IF rowState = "FROZEN" THEN "PREPARING" ELSE "ACTIVE",
     decision |-> decision, noted |-> tx[c].noted,
     part |-> [p \in Participants |->
                  IF p \in set \cap retained THEN "PREPARED" ELSE "PENDING"],
     digested |-> set \cap retained]

AllRetained(t) == t.frozen /\ \A p \in t.set : t.part[p] = "PREPARED"

\* Mutant: the deadline does not make the sweep roll back.
RedriveOnlyPrepared(c) ==
    LET t == authorityCandidate(c) IN
    /\ Held(c, "discovered")
    /\ \/ /\ t.decision # "NONE"
          /\ driveTransactionDecision(c, "SWEEP", t)
          /\ UNCHANGED writes
       \/ /\ t.decision = "NONE" /\ AllRetained(t)
          /\ freezeParticipantSet(c, "SWEEP", t, "COMMIT")
    /\ UNCHANGED <<row, parts, clock>>

redriveAuthoritativeRecovery(c) ==
    LET t == authorityCandidate(c) IN
    /\ Held(c, "discovered")
    /\ \/ /\ t.decision # "NONE"
          /\ driveTransactionDecision(c, "SWEEP", t)
          /\ UNCHANGED writes
       \/ /\ t.decision = "NONE" /\ ~AllRetained(t) /\ c \notin late
          /\ tx' = [tx EXCEPT ![c] = t]
          /\ UNCHANGED <<ctl, tasks, requests, writes, told, faults>>
       \/ /\ t.decision = "NONE" /\ (AllRetained(t) \/ c \in late)
          /\ freezeParticipantSet(c, "SWEEP", t,
                 IF AllRetained(t) THEN "COMMIT" ELSE "ROLLBACK")
    /\ UNCHANGED <<row, parts, clock>>

\* The sweep's step on a transaction this node's session still owns.
redriveRecoveredTransaction(c) ==
    LET t == tx[c] IN
    /\ Held(c, "live") /\ c \in late
    /\ \/ /\ t.decision = "NONE" /\ t.status \notin {"PREPARED", "COMMITTING"}
          /\ runRollbackProtocol(c, "SWEEP", t)
       \/ /\ t.decision # "NONE" \/ t.status \in {"PREPARED", "COMMITTING"}
          /\ runCommitProtocol(c, "SWEEP", t)
    /\ UNCHANGED <<row, parts, clock>>

crash(c) ==
    /\ tx[c].held # "none" /\ Fault
    /\ tx' = [tx EXCEPT ![c] = NoTransaction]
    /\ ctl' = [ctl EXCEPT ![c] = Idle]
    /\ tasks' = [tasks EXCEPT ![c] = {}]
    /\ UNCHANGED <<row, writes, parts, requests, clock, told>>

deadlinePasses(c) ==
    /\ c \notin late /\ rowState # "ABSENT"
    /\ late' = late \cup {c}
    /\ UNCHANGED <<row, writes, parts, requests, memory, told, faults, commits>>

-----------------------------------------------------------------------------
(* The participants.                                                       *)

beginParticipantSession(p) ==
    /\ <<p, "BEGIN">> \in requests
    /\ prow[p] = "ABSENT" /\ p \notin psession
    /\ psession' = psession \cup {p}
    /\ UNCHANGED <<prow, prepared>>

\* A leader change or the session's expiry.
discardParticipantSession(p) ==
    /\ p \in psession
    /\ psession' = psession \ {p}
    /\ UNCHANGED <<prow, prepared>>

applyParticipantPrepare(p) ==
    /\ <<p, "PREPARE">> \in requests
    /\ prow[p] = "ABSENT" /\ p \in psession
    /\ psession' = psession \ {p}
    /\ \/ prow' = [prow EXCEPT ![p] = "PREPARED"] /\ prepared' = prepared \cup {p}
       \/ prow' = [prow EXCEPT ![p] = "REFUSED"] /\ UNCHANGED prepared

applyParticipantCommit(p) ==
    /\ <<p, "COMMIT">> \in requests
    /\ prow[p] = "PREPARED" /\ p \in digests
    /\ prow' = [prow EXCEPT ![p] = "COMMITTED"]
    /\ UNCHANGED <<psession, prepared>>

\* A ROLLBACK of a transaction never prepared here leaves its tombstone.
applyParticipantRollback(p) ==
    /\ <<p, "ROLLBACK">> \in requests
    /\ prow[p] \in {"ABSENT", "PREPARED"}
    /\ prow' = [prow EXCEPT ![p] = "ROLLED_BACK"]
    /\ psession' = psession \ {p}
    /\ UNCHANGED prepared

Participate(p) ==
    /\ \/ beginParticipantSession(p)
       \/ discardParticipantSession(p)
       \/ applyParticipantPrepare(p)
       \/ applyParticipantCommit(p)
       \/ applyParticipantRollback(p)
    /\ UNCHANGED <<row, writes, requests, memory, clock, told, faults>>

-----------------------------------------------------------------------------
Call(c) == \E p \in Participants, stage \in Stages :
    callSucceeded(c, p, stage) \/ callFailed(c, p, stage) \/ callThrown(c, p, stage)

Client == \/ begin
          \/ \E ps \in SUBSET Participants : enlistParticipants(ps)
          \/ commitOwned
          \/ rollbackOwned

Continue(c) ==
    \/ participantSetUnresolved(c)
    \/ participantSetFrozen(c)
    \/ prepareDone(c)
    \/ decisionRecorded(c)
    \/ decisionInDoubt(c)
    \/ commitDone(c)
    \/ rollbackDone(c)

Recover(c) ==
    \/ recoverFromSystemTables(c)
    \/ redriveAuthoritativeRecovery(c)
    \/ redriveRecoveredTransaction(c)

Next ==
    \/ Client
    \/ participantsAdmitted
    \/ beginDone
    \/ LandAny
    \/ \E c \in Coordinators : \/ Continue(c)
                              \/ Call(c)
                              \/ Recover(c)
                              \/ crash(c)
                              \/ deadlinePasses(c)
    \/ \E p \in Participants : Participate(p)

Spec == Init /\ [][Next]_vars

(***************************************************************************)
(* Fairness.  A node's operation resumes when what it awaits has happened, *)
(* its calls complete once answered, the sweep timer keeps firing, clocks  *)
(* advance and participants handle what reaches them.  A write its node    *)
(* still awaits lands; one whose node gave up on it need never land.       *)
(***************************************************************************)
Awaited(c) ==
    CASE ctl[c].at = "admit" -> SetWrite(tx[c].set, tx[c].set \cup ctl[c].adding)
      [] ctl[c].at = "freeze" -> FreezeWrite(tx[c].set)
      [] OTHER -> buildTransactionDecisionRecord(tx[c], ctl[c].intent)

LandAwaited(c) ==
    /\ ctl[c].at \in {"admit", "freeze", "record"}
    /\ Awaited(c) \in writes
    /\ Land(Awaited(c))

Resume(c) ==
    \/ participantSetFrozen(c) \/ prepareDone(c) \/ decisionRecorded(c)
    \/ commitDone(c) \/ rollbackDone(c)
    \/ (c = Owner /\ (participantsAdmitted \/ beginDone))
    \/ (NoFault /\ (participantSetUnresolved(c) \/ decisionInDoubt(c)))

CallReturns(c, p, stage) ==
    callSucceeded(c, p, stage) \/ (NoFault /\ callFailed(c, p, stage))

Serve(action) ==
    action /\ UNCHANGED <<row, writes, requests, memory, clock, told, faults>>

Fairness ==
    /\ \A c \in Coordinators :
          /\ WF_vars(LandAwaited(c))
          /\ WF_vars(Resume(c))
          /\ WF_vars(Recover(c))
          /\ WF_vars(deadlinePasses(c))
          /\ \A p \in Participants, stage \in Stages :
                WF_vars(CallReturns(c, p, stage))
    /\ \A p \in Participants :
          /\ WF_vars(Serve(applyParticipantPrepare(p)))
          /\ WF_vars(Serve(applyParticipantCommit(p)))
          /\ WF_vars(Serve(applyParticipantRollback(p)))

FairSpec == Spec /\ Fairness

-----------------------------------------------------------------------------
(* Types: every variable keeps its shape.                                  *)
TypeOK ==
    /\ rowState \in SetStates /\ set \subseteq Participants
    /\ decision \in Decisions /\ digests \subseteq Participants
    /\ retained \subseteq Participants /\ writes \subseteq Write
    /\ prow \in [Participants -> RowStates]
    /\ psession \subseteq Participants /\ prepared \subseteq Participants
    /\ requests \subseteq Requests
    /\ tx \in [Coordinators -> Transaction]
    /\ ctl \in [Coordinators -> Operation]
    /\ tasks \in [Coordinators -> SUBSET Requests]
    /\ late \subseteq Coordinators /\ told \subseteq Answers
    /\ faults \in 0 .. MaxFaults /\ commits \in 0 .. MaxCommits

(***************************************************************************)
(* Atomicity across partitions: once one participant applied COMMIT, every *)
(* admitted participant is COMMITTED or still holds the PREPARED row that  *)
(* makes its COMMIT infallible.  None refused, rolled back or never        *)
(* prepared, whichever node drove the decision (applyParticipantDecision). *)
(***************************************************************************)
AllOrNothing ==
    (\E p \in Participants : prow[p] = "COMMITTED")
        => \A p \in set : prow[p] \in {"PREPARED", "COMMITTED"}

(***************************************************************************)
(* A COMMIT is on record only for a frozen set whose every member is       *)
(* durably prepared and named with its digest (prepareForDecision,         *)
(* redriveAuthoritativeRecovery), however stale the evidence its recorder  *)
(* read and however late its write landed.                                 *)
(***************************************************************************)
CommitRestsOnEvidence ==
    decision = "COMMIT" =>
        /\ rowState = "FROZEN" /\ digests = set
        /\ \A p \in set : prow[p] \in {"PREPARED", "COMMITTED"}

(***************************************************************************)
(* Fanout follows the record: a participant is asked to COMMIT or to roll  *)
(* back only with the decision the row holds for good, by every node       *)
(* (completeCommitDecision, completeRollbackDecision).                     *)
(***************************************************************************)
FanoutFollowsRecord ==
    \A p \in Participants :
        /\ <<p, "COMMIT">> \in requests => decision = "COMMIT"
        /\ <<p, "ROLLBACK">> \in requests => decision = "ROLLBACK"

(***************************************************************************)
(* No orphaned participant: whoever was sent any request is in the durable *)
(* set that recovery restores (retainParticipantSet writes the manifest    *)
(* before the first BEGIN), at every crash point.                          *)
(***************************************************************************)
RequestsOnlyToAdmitted == \A r \in requests : r[1] \in set

(***************************************************************************)
(* An answered success is final: a client told `committed' has every       *)
(* participant COMMITTED, and a client told `rolled back' has none that    *)
(* committed or still can (endTransaction, both protocols).                *)
(***************************************************************************)
AnsweredOutcomeStands ==
    /\ "committed" \in told => \A p \in set : prow[p] = "COMMITTED"
    /\ "rolledBack" \in told =>
          /\ decision = "ROLLBACK"
          /\ \A p \in set : prow[p] \in {"ROLLED_BACK", "REFUSED"}

(***************************************************************************)
(* distributed-transaction-commit-point.js: `false: the engine establishes *)
(* that nothing was committed'.  A client told so never finds the          *)
(* transaction committed, unless it asked for the COMMIT again.            *)
(***************************************************************************)
NotCommittedEstablished == "notCommitted" \in told => decision # "COMMIT"

(***************************************************************************)
(* distributed-transaction-decision.js: a decision in doubt is resolved by *)
(* recovery.  Every begun transaction is decided, and every admitted       *)
(* participant reaches its outcome, so no reservation is held for ever.    *)
(***************************************************************************)
Settled ==
    /\ decision # "NONE"
    /\ \A p \in set : prow[p] \in {"COMMITTED", "ROLLED_BACK", "REFUSED"}

EveryTransactionSettles == rowState # "ABSENT" ~> Settled

-----------------------------------------------------------------------------
(* What the client and the operator may rely on: AtomicCommit.             *)

Outcome == [ABSENT |-> "working", PREPARED |-> "prepared", REFUSED |-> "aborted",
            COMMITTED |-> "committed", ROLLED_BACK |-> "aborted"]

participantState == [p \in Participants |-> Outcome[prow[p]]]

AC == INSTANCE AtomicCommit
        WITH members <- set, outcome <- decision, state <- participantState

(***************************************************************************)
(* The coordinators, the recovery sweeps and the participants together     *)
(* implement AtomicCommit: the admitted set, the insert-once decision and  *)
(* the participants' rows move only as its members, outcome and states do  *)
(* (recordTransactionDecision, applyParticipantPrepare/Decision).          *)
(***************************************************************************)
ImplementsAtomicCommit == AC!Spec
=============================================================================
