-------------------- MODULE DistributedTransactionProofs --------------------
(***************************************************************************)
(* Proofs about DistributedTransaction, for every set of participants and  *)
(* of nodes and every bound on failures.                                   *)
(*                                                                         *)
(* The inductive invariant Inv says where a COMMIT can come from: whatever *)
(* a node remembers, a participant row holds or a write in flight carries  *)
(* as evidence is a participant that once answered PREPARED, and such a    *)
(* participant stays PREPARED until a decision is on record.  AnswerInv    *)
(* says, on top of it, what a node that is about to answer the client may  *)
(* rely on: the set it holds is the durable one, and a participant it no   *)
(* longer calls has finished.                                              *)
(***************************************************************************)
EXTENDS DistributedTransaction, TLAPS

TxSound(t) ==
    /\ t \in Transaction
    /\ t.set \subseteq set
    /\ t.digested \subseteq prepared
    /\ t.decision \in {"NONE", decision}

WriteSound(w) ==
    /\ w.old \subseteq w.new
    /\ (w.kind = "decide" /\ w.decision = "COMMIT") =>
          w.digests = w.old /\ w.old \subseteq prepared

RequestSound(r) ==
    /\ r[1] \in set
    /\ r[2] = "COMMIT" => decision = "COMMIT"
    /\ r[2] = "ROLLBACK" => decision = "ROLLBACK"

RowSound(p) ==
    /\ p \in prepared => prow[p] \in {"PREPARED", "COMMITTED", "ROLLED_BACK"}
    /\ prow[p] = "COMMITTED" => decision = "COMMIT"
    /\ prow[p] = "ROLLED_BACK" => decision = "ROLLBACK"

DecisionSound ==
    decision = "COMMIT" =>
        rowState = "FROZEN" /\ digests = set /\ set \subseteq prepared

Inv ==
    /\ TypeOK
    /\ \A c \in Coordinators : TxSound(tx[c])
    /\ \A w \in writes : WriteSound(w)
    /\ \A r \in requests : RequestSound(r)
    /\ \A p \in Participants : RowSound(p)
    /\ retained \subseteq prepared
    /\ DecisionSound

-----------------------------------------------------------------------------
LEMMA InitInv == Init => Inv
  <1> SUFFICES ASSUME Init PROVE Inv
    OBVIOUS
  <1>1. NoTransaction \in Transaction
    BY DEF NoTransaction, Transaction, Statuses, Decisions, PartStatuses
  <1>2. Idle \in Operation
    BY DEF Idle, Operation, Stages, Decisions
  <1>3. TypeOK
    BY <1>1, <1>2, CoordinatorAssumption
    DEF Init, TypeOK, SetStates, Decisions, RowStates, Requests, Answers
  <1>4. \A c \in Coordinators : TxSound(tx[c])
    BY <1>1 DEF Init, TxSound, NoTransaction
  <1>5. QED
    BY <1>3, <1>4 DEF Init, Inv, RowSound, DecisionSound

(***************************************************************************)
(* What a step of one node must respect: it leaves the row's set and       *)
(* decision and the participants alone, and everything it leaves behind is *)
(* sound again.                                                            *)
(***************************************************************************)
NodeStep(c, t) ==
    /\ UNCHANGED <<rowState, set, decision, digests, parts>>
    /\ retained' \subseteq prepared
    /\ TxSound(t)
    /\ tx' = [tx EXCEPT ![c] = t]
    /\ ctl' \in [Coordinators -> Operation]
    /\ tasks' \in [Coordinators -> SUBSET Requests]
    /\ writes' \subseteq Write
    /\ \A w \in writes' : WriteSound(w)
    /\ requests' \subseteq Requests
    /\ \A r \in requests' : RequestSound(r)
    /\ late' \subseteq Coordinators
    /\ told' \subseteq Answers
    /\ faults' \in 0 .. MaxFaults
    /\ commits' \in 0 .. MaxCommits

LEMMA NodeStepSound ==
    ASSUME Inv, NEW c \in Coordinators, NEW t, NodeStep(c, t)
    PROVE  Inv'
  <1>0. TypeOK
    BY DEF Inv
  <1>1. tx' \in [Coordinators -> Transaction]
    BY <1>0 DEF NodeStep, TxSound, TypeOK
  <1>2. retained' \subseteq Participants
    BY <1>0 DEF NodeStep, TypeOK
  <1>3. TypeOK'
    BY <1>0, <1>1, <1>2 DEF NodeStep, TypeOK, parts
  <1>4. (\A d \in Coordinators : TxSound(tx[d]))'
    <2> SUFFICES ASSUME NEW d \in Coordinators PROVE TxSound(tx[d])'
      OBVIOUS
    <2>1. tx'[d] = t \/ tx'[d] = tx[d]
      BY <1>0 DEF NodeStep, TypeOK
    <2>2. TxSound(tx[d]) /\ TxSound(t)
      BY DEF Inv, NodeStep
    <2>3. set' = set /\ prepared' = prepared /\ decision' = decision
      BY DEF NodeStep, parts
    <2>4. QED
      BY <2>1, <2>2, <2>3 DEF TxSound
  <1>5. (\A w \in writes : WriteSound(w))'
    BY DEF NodeStep, parts, WriteSound
  <1>6. (\A r \in requests : RequestSound(r))'
    BY DEF NodeStep, RequestSound
  <1>7. (\A p \in Participants : RowSound(p))'
    BY DEF Inv, NodeStep, parts, RowSound
  <1>8. (retained \subseteq prepared)' /\ DecisionSound'
    BY DEF Inv, NodeStep, parts, DecisionSound
  <1>9. QED
    BY <1>3, <1>4, <1>5, <1>6, <1>7, <1>8 DEF Inv

-----------------------------------------------------------------------------
(* The parts that several actions share.                                   *)

Ops == {"none", "ENLIST", "COMMIT", "ROLLBACK", "SWEEP"}

Frame == /\ UNCHANGED <<row, parts>>
         /\ late' \subseteq Coordinators
         /\ commits' \in 0 .. MaxCommits

LEMMA FaultTyped ==
    ASSUME TypeOK, Fault \/ NoFault
    PROVE  faults' \in 0 .. MaxFaults
  BY CoordinatorAssumption DEF TypeOK, Fault, NoFault

LEMMA ToldTyped ==
    ASSUME TypeOK, NEW op, NEW t
    PROVE  withCommitPoint(op, t) \subseteq Answers
  BY DEF TypeOK, withCommitPoint, Answers

LEMMA StatusSound ==
    ASSUME NEW t, TxSound(t), NEW status \in Statuses
    PROVE  /\ TxSound(setTransactionStatus(t, status))
           /\ TxSound(statusWriteThrown(t, status))
  <1>1. noteCommitPoint(t, status) \in BOOLEAN
    BY DEF TxSound, Transaction, noteCommitPoint
  <1>2. QED
    BY Zenon, <1>1
    DEF TxSound, Transaction, setTransactionStatus, statusWriteThrown

LEMMA IdleTyped == Idle \in Operation
  BY DEF Idle, Operation, Stages, Decisions

LEMMA WaitTyped ==
    ASSUME NEW at \in {"admit", "freeze", "record"} \cup Stages, NEW op \in Ops,
           NEW d \in Decisions, NEW ps \in SUBSET Participants
    PROVE  /\ [Idle EXCEPT !.at = at, !.op = op] \in Operation
           /\ [Idle EXCEPT !.at = at, !.op = op, !.intent = d] \in Operation
           /\ [Idle EXCEPT !.at = at, !.op = op, !.adding = ps] \in Operation
  BY Zenon DEF Idle, Operation, Stages, Decisions, Ops

\* An operation that answers: the rest of the node's state as it was.
LEMMA EndsSound ==
    ASSUME Inv, NEW c \in Coordinators, NEW t, TxSound(t), Ends(c, t), Frame,
           UNCHANGED <<writes, requests, tasks>>,
           Fault \/ NoFault, told' \subseteq Answers
    PROVE  Inv'
  <1>1. faults' \in 0 .. MaxFaults
    BY FaultTyped DEF Inv
  <1>2. ctl' \in [Coordinators -> Operation]
    BY IdleTyped DEF Inv, TypeOK, Ends
  <1>3. NodeStep(c, t)
    BY <1>1, <1>2 DEF NodeStep, Ends, Frame, row, parts, Inv, TypeOK
  <1>4. QED
    BY <1>3, NodeStepSound

LEMMA EnterStageSound ==
    ASSUME Inv, NEW c \in Coordinators, NEW op \in Ops, NEW t, TxSound(t),
           NEW status \in Statuses, NEW stage \in Stages,
           NEW keys \in SUBSET t.set,
           stage = "COMMIT" => decision = "COMMIT",
           stage = "ROLLBACK" => decision = "ROLLBACK",
           EnterStage(c, op, t, status, stage, keys), Frame, UNCHANGED writes
    PROVE  Inv'
  <1> DEFINE s == statusWriteThrown(t, status)
             u == [setTransactionStatus(t, status) EXCEPT
                     !.part = [p \in Participants |->
                                 IF p \in keys THEN "PENDING" ELSE t.part[p]]]
             w == [Idle EXCEPT !.at = stage, !.op = op]
  <1>0. keys \subseteq set /\ keys \subseteq Participants
    BY DEF TxSound, Inv, TypeOK
  <1>1. CASE /\ tx' = [tx EXCEPT ![c] = u]
             /\ ctl' = [ctl EXCEPT ![c] = w]
             /\ tasks' = [tasks EXCEPT ![c] = tasks[c] \cup (keys \X {stage})]
             /\ requests' = requests \cup (keys \X {stage})
             /\ NoFault
             /\ UNCHANGED told
    <2>1. TxSound(setTransactionStatus(t, status))
      BY StatusSound
    <2>2. [p \in Participants |-> IF p \in keys THEN "PENDING" ELSE t.part[p]]
             \in [Participants -> PartStatuses]
      BY DEF TxSound, Transaction, PartStatuses
    <2>3. TxSound(u)
      BY <2>1, <2>2 DEF TxSound, Transaction
    <2>4. w \in Operation
      BY Zenon, WaitTyped DEF Decisions
    <2>5. ctl' \in [Coordinators -> Operation]
      BY <1>1, <2>4 DEF Inv, TypeOK
    <2>6. keys \X {stage} \subseteq Requests
      BY <1>0 DEF Requests
    <2>7. tasks' \in [Coordinators -> SUBSET Requests]
      BY <1>1, <2>6 DEF Inv, TypeOK
    <2>8. \A r \in requests' : RequestSound(r)
      <3> SUFFICES ASSUME NEW r \in keys \X {stage} PROVE RequestSound(r)
        BY <1>1 DEF Inv
      <3>1. r[1] \in keys /\ r[2] = stage
        OBVIOUS
      <3>2. QED
        BY <3>1, <1>0 DEF RequestSound
    <2>9. requests' \subseteq Requests
      BY <1>1, <2>6 DEF Inv, TypeOK
    <2> HIDE DEF u, w
    <2>10. NodeStep(c, u)
      BY <1>1, <2>3, <2>5, <2>7, <2>8, <2>9
      DEF NodeStep, Frame, row, parts, Inv, TypeOK, NoFault
    <2>11. QED
      BY <2>10, NodeStepSound
  <1>2. CASE /\ Fault
             /\ Ends(c, s)
             /\ told' = withCommitPoint(op, s)
             /\ UNCHANGED <<tasks, requests>>
    <2>1. TxSound(s)
      BY StatusSound
    <2>2. told' \subseteq Answers
      BY <1>2, ToldTyped DEF Inv
    <2> HIDE DEF s
    <2>3. QED
      BY <1>2, <2>1, <2>2, EndsSound
  <1>3. QED
    BY <1>1, <1>2 DEF EnterStage

LEMMA DriveSound ==
    ASSUME Inv, NEW c \in Coordinators, NEW op \in Ops, NEW t, TxSound(t),
           t.decision # "NONE", driveTransactionDecision(c, op, t),
           Frame, UNCHANGED writes
    PROVE  Inv'
  <1>1. t.decision = decision
    BY DEF TxSound
  <1>2. CASE t.decision = "COMMIT" /\ completeCommitDecision(c, op, t)
    <2>1. {p \in t.set : t.part[p] # "COMMITTED"} \in SUBSET t.set
      OBVIOUS
    <2>2. "COMMITTING" \in Statuses /\ "COMMIT" \in Stages
      BY DEF Statuses, Stages
    <2>3. QED
      BY <1>1, <1>2, <2>1, <2>2, EnterStageSound DEF completeCommitDecision
  <1>3. CASE t.decision = "ROLLBACK" /\ completeRollbackDecision(c, op, t)
    <2>1. getRollbackParticipantKeys(t) \in SUBSET t.set
      BY DEF getRollbackParticipantKeys
    <2>2. "ROLLING_BACK" \in Statuses /\ "ROLLBACK" \in Stages
      BY DEF Statuses, Stages
    <2>3. QED
      BY <1>1, <1>3, <2>1, <2>2, EnterStageSound DEF completeRollbackDecision
  <1>4. QED
    BY <1>2, <1>3 DEF driveTransactionDecision

LEMMA RecordSound ==
    ASSUME Inv, NEW c \in Coordinators, NEW op \in Ops, NEW t, TxSound(t),
           NEW d \in Decisions, recordTransactionDecision(c, op, t, d), Frame
    PROVE  Inv'
  <1> DEFINE unbuilt == ~t.noted /\ d = "COMMIT" /\ ~(t.set \subseteq t.digested)
             w == buildTransactionDecisionRecord(t, d)
             k == [Idle EXCEPT !.at = "record", !.op = op, !.intent = d]
  <1>1. CASE /\ Ends(c, t)
             /\ told' = withCommitPoint(op, t)
             /\ UNCHANGED <<writes, tasks, requests>>
             /\ NoFault
    <2>1. told' \subseteq Answers
      BY <1>1, ToldTyped DEF Inv
    <2>2. QED
      BY <1>1, <2>1, EndsSound
  <1>2. CASE /\ ~unbuilt
             /\ tx' = [tx EXCEPT ![c] = t]
             /\ ctl' = [ctl EXCEPT ![c] = k]
             /\ writes' = IF t.noted THEN writes ELSE writes \cup {w}
             /\ NoFault
             /\ UNCHANGED <<told, tasks, requests>>
    <2>1. t.set \subseteq Participants
      BY DEF TxSound, Transaction
    <2>2. w \in Write
      BY <2>1 DEF buildTransactionDecisionRecord, Write
    <2>3. ~t.noted => WriteSound(w)
      BY <1>2 DEF buildTransactionDecisionRecord, WriteSound, TxSound
    <2>4. k \in Operation
      BY Zenon, WaitTyped
    <2> HIDE DEF unbuilt, w, k
    <2>5. ctl' \in [Coordinators -> Operation]
      BY <1>2, <2>4 DEF Inv, TypeOK
    <2>6. writes' \subseteq Write /\ \A x \in writes' : WriteSound(x)
      BY <1>2, <2>2, <2>3 DEF Inv, TypeOK
    <2>7. NodeStep(c, t)
      BY <1>2, <2>5, <2>6 DEF NodeStep, Frame, row, parts, Inv, TypeOK, NoFault
    <2>8. QED
      BY <2>7, NodeStepSound
  <1>3. QED
    BY <1>1, <1>2 DEF recordTransactionDecision

LEMMA CommitProtocolSound ==
    ASSUME Inv, NEW c \in Coordinators, NEW op \in Ops, NEW t, TxSound(t),
           runCommitProtocol(c, op, t), Frame
    PROVE  Inv'
  <1>0. "COMMIT" \in Decisions /\ "ROLLBACK" \in Decisions
    BY DEF Decisions
  <1>1. CASE t.decision # "NONE" /\ driveTransactionDecision(c, op, t)
             /\ UNCHANGED writes
    BY <1>1, DriveSound
  <1>2. CASE recordTransactionDecision(c, op, t, "COMMIT")
    BY <1>0, <1>2, RecordSound
  <1>3. CASE prepareForDecision(c, op, t)
    <2> DEFINE status == IF t.status \in {"PREPARING", "PREPARED"} THEN t.status
                         ELSE "PREPARING"
               keys == {p \in t.set : t.part[p] \notin {"PREPARED", "COMMITTED"}}
    <2>1. CASE recordTransactionDecision(c, op, t, "ROLLBACK")
      BY <1>0, <2>1, RecordSound
    <2>2. CASE EnterStage(c, op, t, status, "PREPARE", keys) /\ UNCHANGED writes
      <3>1. status \in Statuses /\ "PREPARE" \in Stages
        BY DEF Statuses, Stages
      <3>2. keys \in SUBSET t.set
        OBVIOUS
      <3> HIDE DEF status, keys
      <3>3. QED
        BY <2>2, <3>1, <3>2, EnterStageSound
    <2>3. QED
      BY <1>3, <2>1, <2>2 DEF prepareForDecision
  <1>4. QED
    BY <1>1, <1>2, <1>3 DEF runCommitProtocol

LEMMA AfterFreezeSound ==
    ASSUME Inv, NEW c \in Coordinators, NEW op \in Ops, NEW t, TxSound(t),
           NEW d \in Decisions, AfterFreeze(c, op, t, d), Frame
    PROVE  Inv'
  BY CommitProtocolSound, RecordSound DEF AfterFreeze

LEMMA FreezeSound ==
    ASSUME Inv, NEW c \in Coordinators, NEW op \in Ops, NEW t, TxSound(t),
           NEW d \in Decisions, freezeParticipantSet(c, op, t, d), Frame
    PROVE  Inv'
  <1> DEFINE w == FreezeWrite(t.set)
             k == [Idle EXCEPT !.at = "freeze", !.op = op, !.intent = d]
  <1>1. CASE AfterFreeze(c, op, t, d)
    BY <1>1, AfterFreezeSound, Zenon
  <1>2. CASE /\ writes' = writes \cup {w}
             /\ tx' = [tx EXCEPT ![c] = t]
             /\ ctl' = [ctl EXCEPT ![c] = k]
             /\ NoFault
             /\ UNCHANGED <<tasks, requests, told>>
    <2>1. t.set \subseteq Participants
      BY DEF TxSound, Transaction
    <2>2. w \in Write /\ WriteSound(w)
      BY <2>1 DEF FreezeWrite, Write, WriteSound, Decisions
    <2>3. k \in Operation
      BY Zenon, WaitTyped
    <2> HIDE DEF w, k
    <2>4. ctl' \in [Coordinators -> Operation]
      BY <1>2, <2>3 DEF Inv, TypeOK
    <2>5. writes' \subseteq Write /\ \A x \in writes' : WriteSound(x)
      BY <1>2, <2>2 DEF Inv, TypeOK
    <2>6. NodeStep(c, t)
      BY <1>2, <2>4, <2>5 DEF NodeStep, Frame, row, parts, Inv, TypeOK, NoFault
    <2>7. QED
      BY <2>6, NodeStepSound
  <1>3. QED
    BY <1>1, <1>2 DEF freezeParticipantSet

LEMMA RollbackProtocolSound ==
    ASSUME Inv, NEW c \in Coordinators, NEW op \in Ops, NEW t, TxSound(t),
           runRollbackProtocol(c, op, t), Frame
    PROVE  Inv'
  <1>1. "ROLLBACK" \in Decisions
    BY DEF Decisions
  <1>2. QED
    BY <1>1, FreezeSound, DriveSound DEF runRollbackProtocol

-----------------------------------------------------------------------------
(* One lemma per action of a node.                                         *)

\* What the invariant says of one node.
LEMMA NodeFacts ==
    ASSUME Inv, NEW c \in Coordinators
    PROVE  /\ TxSound(tx[c])
           /\ ctl[c] \in Operation
           /\ ctl[c].op \in Ops
           /\ ctl[c].intent \in Decisions
           /\ ctl[c].adding \in SUBSET Participants
  BY DEF Inv, TypeOK, Operation, Ops

LEMMA ClockFrame ==
    ASSUME Inv, UNCHANGED <<row, parts, clock>>
    PROVE  Frame
  BY DEF Inv, TypeOK, Frame, clock, parts

LEMMA BeginSound ==
    ASSUME Inv, begin
    PROVE  Inv'
  <1>1. Owner \in Coordinators
    BY CoordinatorAssumption
  <1>2. TxSound(tx[Owner])
    BY <1>1, NodeFacts
  <1>3. [tx[Owner] EXCEPT !.held = "live"] \in Transaction
    BY <1>2 DEF TxSound, Transaction
  <1>4. tx' \in [Coordinators -> Transaction]
    BY <1>1, <1>3 DEF begin, Inv, TypeOK
  <1>5. faults' \in 0 .. MaxFaults
    BY FaultTyped DEF begin, Inv
  <1>6. TypeOK'
    BY <1>4, <1>5 DEF begin, Inv, TypeOK, SetStates, parts, clock
  <1>7. (\A c \in Coordinators : TxSound(tx[c]))'
    <2> SUFFICES ASSUME NEW c \in Coordinators PROVE TxSound(tx[c])'
      OBVIOUS
    <2>1. TxSound(tx[c]) /\ tx[c] \in Transaction
      BY NodeFacts DEF TxSound
    <2>2. tx'[c] \in {tx[c], [tx[c] EXCEPT !.held = "live"]}
      BY <1>1 DEF begin, Inv, TypeOK
    <2>3. /\ tx'[c].set = tx[c].set /\ tx'[c].digested = tx[c].digested
          /\ tx'[c].decision = tx[c].decision
      BY <2>1, <2>2 DEF Transaction
    <2>4. QED
      BY <1>4, <2>1, <2>3 DEF begin, TxSound, parts
  <1>8. decision # "COMMIT"
    BY DEF Inv, DecisionSound, begin
  <1>9. QED
    BY <1>6, <1>7, <1>8
    DEF begin, Inv, WriteSound, RequestSound, RowSound, DecisionSound, parts

LEMMA EnlistSound ==
    ASSUME Inv, NEW ps \in SUBSET Participants, enlistParticipants(ps)
    PROVE  Inv'
  <1> DEFINE t == tx[Owner]
             keys == {p \in ps : t.part[p] # "ACTIVE"}
             w == SetWrite(t.set, t.set \cup ps)
             k == [Idle EXCEPT !.at = "admit", !.op = "ENLIST", !.adding = ps]
  <1>1. Owner \in Coordinators /\ TxSound(t)
    BY CoordinatorAssumption, NodeFacts
  <1>2. Frame
    BY ClockFrame DEF enlistParticipants
  <1>3. CASE /\ ps \subseteq t.set
             /\ EnterStage(Owner, "ENLIST", t, t.status, "BEGIN", keys)
             /\ UNCHANGED writes
    <2>1. keys \in SUBSET t.set
      BY <1>3
    <2>2. t.status \in Statuses /\ "BEGIN" \in Stages /\ "ENLIST" \in Ops
      BY <1>1 DEF TxSound, Transaction, Stages, Ops
    <2> HIDE DEF t, keys
    <2>3. QED
      BY <1>1, <1>2, <1>3, <2>1, <2>2, EnterStageSound
  <1>4. CASE /\ writes' = writes \cup {w}
             /\ ctl' = [ctl EXCEPT ![Owner] = k]
             /\ UNCHANGED <<tx, tasks, requests, told, faults>>
    <2>1. t.set \subseteq Participants
      BY <1>1, Zenon DEF TxSound, Transaction
    <2>2. w \in Write /\ WriteSound(w)
      BY <2>1 DEF SetWrite, Write, WriteSound, Decisions
    <2>3. k \in Operation
      BY Zenon, WaitTyped DEF Ops, Decisions
    <2>4. tx' = [tx EXCEPT ![Owner] = t]
      BY <1>4 DEF Inv, TypeOK
    <2> HIDE DEF w, k, t
    <2>5. ctl' \in [Coordinators -> Operation]
      BY Zenon, <1>4, <2>3 DEF Inv, TypeOK
    <2>6. writes' \subseteq Write /\ \A x \in writes' : WriteSound(x)
      BY <1>4, <2>2 DEF Inv, TypeOK
    <2>7. NodeStep(Owner, t)
      BY Zenon, <1>1, <1>2, <1>4, <2>4, <2>5, <2>6
      DEF NodeStep, Frame, row, parts, Inv, TypeOK
    <2>8. QED
      BY <1>1, <2>7, NodeStepSound
  <1>5. QED
    BY <1>3, <1>4 DEF enlistParticipants

LEMMA AdmittedSound ==
    ASSUME Inv, participantsAdmitted
    PROVE  Inv'
  <1> DEFINE ps == ctl[Owner].adding
             t == [tx[Owner] EXCEPT !.set = tx[Owner].set \cup ps]
             keys == {p \in ps : t.part[p] # "ACTIVE"}
  <1>1. Owner \in Coordinators /\ TxSound(tx[Owner]) /\ ps \in SUBSET Participants
    BY CoordinatorAssumption, NodeFacts
  <1>2. Frame
    BY ClockFrame DEF participantsAdmitted
  <1>3. /\ t.set = set /\ ps \subseteq set
        /\ EnterStage(Owner, "ENLIST", t, t.status, "BEGIN", keys)
        /\ UNCHANGED writes
    BY <1>1 DEF participantsAdmitted, TxSound, Transaction
  <1>4. TxSound(t)
    BY <1>1, <1>3 DEF TxSound, Transaction
  <1>5. keys \in SUBSET t.set
    BY <1>3
  <1>6. t.status \in Statuses /\ "BEGIN" \in Stages /\ "ENLIST" \in Ops
    BY <1>4 DEF TxSound, Transaction, Stages, Ops
  <1> HIDE DEF t, keys
  <1>7. QED
    BY <1>1, <1>2, <1>3, <1>4, <1>5, <1>6, EnterStageSound

LEMMA BeginDoneSound ==
    ASSUME Inv, beginDone
    PROVE  Inv'
  <1>1. Owner \in Coordinators /\ TxSound(tx[Owner])
    BY CoordinatorAssumption, NodeFacts
  <1>2. Frame
    BY ClockFrame DEF beginDone
  <1>3. (Fault \/ NoFault) /\ told' \subseteq Answers
    BY DEF beginDone, NoFault, Inv, TypeOK
  <1>4. QED
    BY <1>1, <1>2, <1>3, EndsSound DEF beginDone

LEMMA ClientEndSound ==
    ASSUME Inv, commitOwned \/ rollbackOwned
    PROVE  Inv'
  <1>1. Owner \in Coordinators /\ TxSound(tx[Owner])
    BY CoordinatorAssumption, NodeFacts
  <1>2. CASE commitOwned
    <2>1. commits' \in 0 .. MaxCommits
      BY <1>2, CoordinatorAssumption DEF commitOwned, Inv, TypeOK
    <2>2. Frame
      BY <1>2, <2>1 DEF commitOwned, Frame, Inv, TypeOK, row, parts
    <2>3. "COMMIT" \in Ops /\ "NONE" \in Decisions
      BY DEF Ops, Decisions
    <2>4. QED
      BY <1>1, <1>2, <2>2, <2>3, FreezeSound DEF commitOwned
  <1>3. CASE rollbackOwned
    <2>1. Frame
      BY <1>3, ClockFrame DEF rollbackOwned
    <2>2. "ROLLBACK" \in Ops
      BY DEF Ops
    <2>3. QED
      BY <1>1, <1>3, <2>1, <2>2, RollbackProtocolSound DEF rollbackOwned
  <1>4. QED
    BY <1>2, <1>3

LEMMA SetStepSound ==
    ASSUME Inv, NEW c \in Coordinators,
           participantSetUnresolved(c) \/ participantSetFrozen(c)
    PROVE  Inv'
  <1>1. TxSound(tx[c]) /\ ctl[c].op \in Ops /\ ctl[c].intent \in Decisions
    BY NodeFacts
  <1>2. CASE participantSetUnresolved(c)
    <2> DEFINE t == [tx[c] EXCEPT !.held = "discovered"]
    <2>1. TxSound(t)
      BY <1>1 DEF TxSound, Transaction
    <2>2. Frame
      BY <1>2, ClockFrame DEF participantSetUnresolved
    <2>3. (Fault \/ NoFault) /\ told' \subseteq Answers /\ Ends(c, t)
          /\ UNCHANGED <<writes, requests, tasks>>
      BY <1>2 DEF participantSetUnresolved, Inv, TypeOK
    <2> HIDE DEF t
    <2>4. QED
      BY <2>1, <2>2, <2>3, EndsSound
  <1>3. CASE participantSetFrozen(c)
    <2> DEFINE t == [tx[c] EXCEPT !.frozen = TRUE]
    <2>1. TxSound(t)
      BY Zenon, <1>1 DEF TxSound, Transaction
    <2>2. Frame
      BY <1>3, ClockFrame DEF participantSetFrozen
    <2>3. AfterFreeze(c, ctl[c].op, t, ctl[c].intent)
      BY <1>3 DEF participantSetFrozen
    <2> HIDE DEF t
    <2>4. QED
      BY <1>1, <2>1, <2>2, <2>3, AfterFreezeSound
  <1>4. QED
    BY <1>2, <1>3

LEMMA PrepareDoneSound ==
    ASSUME Inv, NEW c \in Coordinators, prepareDone(c)
    PROVE  Inv'
  <1> DEFINE t == tx[c]
             op == ctl[c].op
             s == statusWriteThrown(t, "PREPARED")
             u == setTransactionStatus(t, "PREPARED")
  <1>1. TxSound(t) /\ op \in Ops
    BY NodeFacts
  <1>2. TxSound(s) /\ TxSound(u)
    BY <1>1, StatusSound, Zenon DEF Statuses
  <1>3. Frame
    BY ClockFrame DEF prepareDone
  <1>4. "COMMIT" \in Decisions /\ "ROLLBACK" \in Decisions
    BY Zenon DEF Decisions
  <1>5. \/ recordTransactionDecision(c, op, t, "ROLLBACK")
        \/ recordTransactionDecision(c, op, u, "COMMIT")
        \/ /\ Fault /\ Ends(c, s) /\ told' = withCommitPoint(op, s)
           /\ UNCHANGED <<tasks, requests, writes>>
    BY DEF prepareDone
  <1> HIDE DEF t, op, s, u
  <1>6. CASE recordTransactionDecision(c, op, t, "ROLLBACK")
    BY <1>1, <1>3, <1>4, <1>6, RecordSound
  <1>7. CASE recordTransactionDecision(c, op, u, "COMMIT")
    BY <1>1, <1>2, <1>3, <1>4, <1>7, RecordSound
  <1>8. CASE /\ Fault /\ Ends(c, s) /\ told' = withCommitPoint(op, s)
             /\ UNCHANGED <<tasks, requests, writes>>
    <2>1. told' \subseteq Answers
      BY <1>8, ToldTyped DEF Inv
    <2>2. QED
      BY <1>2, <1>3, <1>8, <2>1, EndsSound
  <1>9. QED
    BY <1>5, <1>6, <1>7, <1>8

LEMMA DecisionStepSound ==
    ASSUME Inv, NEW c \in Coordinators, decisionRecorded(c) \/ decisionInDoubt(c)
    PROVE  Inv'
  <1>1. TxSound(tx[c]) /\ ctl[c].op \in Ops
    BY NodeFacts
  <1>2. CASE decisionRecorded(c)
    <2> DEFINE t == [tx[c] EXCEPT !.decision = decision]
    <2>1. TxSound(t) /\ t.decision = decision
      BY Zenon, <1>1 DEF TxSound, Transaction, Inv, TypeOK
    <2>2. Frame
      BY <1>2, ClockFrame DEF decisionRecorded
    <2>3. /\ driveTransactionDecision(c, ctl[c].op, t)
          /\ decision # "NONE" /\ UNCHANGED writes
      BY <1>2 DEF decisionRecorded
    <2> HIDE DEF t
    <2>4. QED
      BY <1>1, <2>1, <2>2, <2>3, DriveSound
  <1>3. CASE decisionInDoubt(c)
    <2> DEFINE t == [tx[c] EXCEPT !.noted = TRUE]
    <2>1. TxSound(t)
      BY Zenon, <1>1 DEF TxSound, Transaction
    <2>2. Frame
      BY <1>3, ClockFrame DEF decisionInDoubt
    <2>3. (Fault \/ NoFault) /\ told' \subseteq Answers /\ Ends(c, t)
          /\ UNCHANGED <<writes, requests, tasks>>
      BY <1>3 DEF decisionInDoubt, Inv, TypeOK
    <2> HIDE DEF t
    <2>4. QED
      BY <2>1, <2>2, <2>3, EndsSound
  <1>4. QED
    BY <1>2, <1>3

LEMMA DoneSound ==
    ASSUME Inv, NEW c \in Coordinators, commitDone(c) \/ rollbackDone(c)
    PROVE  Inv'
  <1>1. TxSound(tx[c])
    BY NodeFacts
  <1>2. told \subseteq Answers /\ \A op, t : withCommitPoint(op, t) \subseteq Answers
    BY ToldTyped, Zenon DEF Inv, TypeOK
  <1>3. Frame /\ UNCHANGED <<writes, requests, tasks>>
    BY ClockFrame, Zenon DEF commitDone, rollbackDone
  <1>4. ASSUME NEW status \in Statuses, NEW answer \in SUBSET Answers,
               Finish(c, status, answer)
        PROVE  Inv'
    <2> DEFINE s == statusWriteThrown(tx[c], status)
               u == [setTransactionStatus(tx[c], status) EXCEPT !.held = "ended"]
    <2>1. TxSound(s) /\ TxSound(setTransactionStatus(tx[c], status))
      BY <1>1, StatusSound
    <2>2. TxSound(u)
      BY <2>1 DEF TxSound, Transaction
    <2>3. \/ Ends(c, u) /\ told' = answer /\ NoFault
          \/ Fault /\ Ends(c, s) /\ told' = withCommitPoint(ctl[c].op, s)
      BY <1>4 DEF Finish
    <2> HIDE DEF s, u
    <2>4. told' \subseteq Answers
      BY <1>2, <2>3
    <2>5. QED
      BY <1>3, <2>1, <2>2, <2>3, <2>4, EndsSound
  <1>5. ASSUME Ends(c, tx[c]), NoFault, told' \subseteq Answers
        PROVE  Inv'
    BY <1>1, <1>3, <1>5, EndsSound, Zenon
  <1>6. CASE commitDone(c)
    <2> DEFINE op == ctl[c].op
               answer == IF op = "COMMIT" THEN told \cup {"committed"}
                         ELSE IF op = "ROLLBACK" THEN told \cup {"commitDecided"}
                         ELSE told
    <2>1. answer \in SUBSET Answers /\ "COMMITTED" \in Statuses
      BY <1>2, Zenon DEF Answers, Statuses
    <2>2. \/ Ends(c, tx[c]) /\ NoFault
             /\ told' = IF op = "ROLLBACK" THEN answer ELSE told
          \/ Finish(c, "COMMITTED", answer)
      BY <1>6, Zenon DEF commitDone
    <2> HIDE DEF answer
    <2>3. QED
      BY <1>2, <1>4, <1>5, <2>1, <2>2
  <1>7. CASE rollbackDone(c)
    <2> DEFINE op == ctl[c].op
               failure == withCommitPoint(op, tx[c])
               answer == IF op = "ROLLBACK" THEN told \cup {"rolledBack"} ELSE failure
    <2>1. answer \in SUBSET Answers /\ "ROLLED_BACK" \in Statuses
      BY <1>2, Zenon DEF Answers, Statuses
    <2>2. \/ Ends(c, tx[c]) /\ NoFault /\ told' = failure
          \/ Finish(c, "ROLLED_BACK", answer)
      BY <1>7 DEF rollbackDone
    <2> HIDE DEF answer
    <2>3. QED
      BY <1>2, <1>4, <1>5, <2>1, <2>2
  <1>8. QED
    BY <1>6, <1>7

LEMMA DoneStatusTyped ==
    ASSUME NEW stage \in Stages
    PROVE  /\ DoneStatus[stage] \in PartStatuses
           /\ DoneStatus[stage] = "PREPARED" => stage = "PREPARE"
  BY DEF Stages, DoneStatus, PartStatuses

LEMMA NotingSound ==
    ASSUME Inv, NEW t, TxSound(t), NEW p \in Participants, NEW stage,
           NEW status \in PartStatuses
    PROVE  TxSound(Noting(t, p, stage, status))
  <1>1. prepared \subseteq Participants
    BY DEF Inv, TypeOK
  <1>2. [t.part EXCEPT ![p] = status] \in [Participants -> PartStatuses]
    BY DEF TxSound, Transaction
  <1>3. QED
    BY Zenon, <1>1, <1>2 DEF TxSound, Transaction, Noting

\* What a participant call leaves alone, and what it leaves behind.
LEMMA CallStepSound ==
    ASSUME Inv, NEW c \in Coordinators, NEW p, NEW stage, NEW t, TxSound(t),
           NEW k \in Operation,
           tx' = [tx EXCEPT ![c] = t],
           ctl' = [ctl EXCEPT ![c] = k],
           tasks' = [tasks EXCEPT ![c] = tasks[c] \ {<<p, stage>>}],
           retained' \subseteq prepared, told' \subseteq Answers,
           Fault \/ NoFault,
           UNCHANGED <<rowState, set, decision, digests, writes, parts, requests,
                       clock>>
    PROVE  Inv'
  <1>1. faults' \in 0 .. MaxFaults
    BY FaultTyped DEF Inv
  <1>2. /\ ctl' \in [Coordinators -> Operation]
        /\ tasks' \in [Coordinators -> SUBSET Requests]
    BY Zenon DEF Inv, TypeOK
  <1>3. NodeStep(c, t)
    BY <1>1, <1>2 DEF NodeStep, parts, clock, Inv, TypeOK
  <1>4. QED
    BY <1>3, NodeStepSound

LEMMA CallSound ==
    ASSUME Inv, NEW c \in Coordinators, Call(c)
    PROVE  Inv'
  <1> PICK p \in Participants, stage \in Stages :
        callSucceeded(c, p, stage) \/ callFailed(c, p, stage) \/ callThrown(c, p, stage)
    BY Zenon DEF Call
  <1>1. TxSound(tx[c]) /\ ctl[c] \in Operation
    BY NodeFacts
  <1>2. retained \subseteq prepared /\ told \subseteq Answers
    BY DEF Inv, TypeOK
  <1>3. DoneStatus[stage] \in PartStatuses
    BY DoneStatusTyped
  <1>4. Answered(p, stage) => persistParticipant(p, DoneStatus[stage]) \subseteq prepared
    BY <1>2, DoneStatusTyped DEF persistParticipant, Answered
  <1>5. persistParticipant(p, "FAILED") \subseteq prepared
    BY <1>2 DEF persistParticipant
  <1>6. CASE callSucceeded(c, p, stage)
    <2> DEFINE t == Noting(tx[c], p, stage, DoneStatus[stage])
    <2>1. TxSound(t)
      BY <1>1, <1>3, NotingSound, Zenon
    <2>2. /\ tx' = [tx EXCEPT ![c] = t]
          /\ tasks' = [tasks EXCEPT ![c] = tasks[c] \ {<<p, stage>>}]
          /\ retained' \subseteq prepared
          /\ UNCHANGED <<rowState, set, decision, digests, writes, parts, requests,
                         ctl, clock, told, faults>>
      BY <1>4, <1>6, Zenon DEF callSucceeded
    <2> HIDE DEF t
    <2>3. ctl' = [ctl EXCEPT ![c] = ctl[c]] /\ NoFault
      BY <2>2 DEF NoFault, Inv, TypeOK
    <2>4. QED
      BY Zenon, <1>1, <1>2, <2>1, <2>2, <2>3, CallStepSound
  <1>7. CASE callFailed(c, p, stage)
    <2>0. /\ tasks' = [tasks EXCEPT ![c] = tasks[c] \ {<<p, stage>>}]
          /\ Fault \/ NoFault
          /\ told' \subseteq Answers
          /\ UNCHANGED <<rowState, set, decision, digests, writes, parts, requests,
                         clock>>
      BY <1>2, <1>7 DEF callFailed
    <2>1. CASE stage = "BEGIN"
      <3> DEFINE k == IF ctl[c].at = stage THEN Idle ELSE ctl[c]
      <3>1. k \in Operation
        BY <1>1, IdleTyped
      <3>2. ctl' = [ctl EXCEPT ![c] = k] /\ UNCHANGED <<tx, retained>>
        BY <1>7, <2>1 DEF callFailed
      <3> HIDE DEF k
      <3>3. tx' = [tx EXCEPT ![c] = tx[c]] /\ retained' \subseteq prepared
        BY <1>2, <3>2 DEF Inv, TypeOK
      <3>4. QED
        BY ZenonT(60), <1>1, <2>0, <3>1, <3>2, <3>3, CallStepSound
    <2>2. CASE stage # "BEGIN"
      <3> DEFINE k == IF ctl[c].at # stage THEN ctl[c]
                      ELSE [ctl[c] EXCEPT !.failed = TRUE]
                 t == IF Detached(tx[c], p, stage) THEN tx[c]
                      ELSE [tx[c] EXCEPT !.part[p] = "PENDING"]
      <3>1. k \in Operation
        BY Zenon, <1>1 DEF Operation
      <3>2. [tx[c].part EXCEPT ![p] = "PENDING"] \in [Participants -> PartStatuses]
        BY <1>1 DEF TxSound, Transaction, PartStatuses
      <3>3. TxSound(t)
        BY <1>1, <3>2 DEF TxSound, Transaction
      <3>4. /\ ctl' = [ctl EXCEPT ![c] = k] /\ tx' = [tx EXCEPT ![c] = t]
            /\ retained' \subseteq prepared
        BY <1>5, <1>7, <2>2 DEF callFailed
      <3> HIDE DEF k, t
      <3>5. QED
        BY Zenon, <2>0, <3>1, <3>3, <3>4, CallStepSound
    <2>3. QED
      BY <2>1, <2>2
  <1>8. CASE callThrown(c, p, stage)
    <2> DEFINE k == IF ctl[c].at = stage THEN Idle ELSE ctl[c]
               t == IF stage = "BEGIN" THEN tx[c]
                    ELSE Noting(tx[c], p, stage, "PENDING")
    <2>1. k \in Operation
      BY <1>1, IdleTyped
    <2>2. TxSound(t)
      BY <1>1, NotingSound DEF PartStatuses
    <2>3. told' \subseteq Answers
      BY <1>2, <1>8, ToldTyped, Zenon DEF callThrown, Inv
    <2>4. retained' \subseteq prepared
      BY <1>2, <1>4, <1>5, <1>8, Zenon DEF callThrown
    <2>5. /\ tx' = [tx EXCEPT ![c] = t] /\ ctl' = [ctl EXCEPT ![c] = k]
          /\ tasks' = [tasks EXCEPT ![c] = tasks[c] \ {<<p, stage>>}]
          /\ Fault
          /\ UNCHANGED <<rowState, set, decision, digests, writes, parts, requests,
                         clock>>
      BY <1>8 DEF callThrown
    <2> HIDE DEF k, t
    <2>6. QED
      BY ZenonT(60), <2>1, <2>2, <2>3, <2>4, <2>5, CallStepSound
  <1>9. QED
    BY <1>6, <1>7, <1>8

LEMMA CandidateSound ==
    ASSUME Inv, NEW c \in Coordinators
    PROVE  TxSound(authorityCandidate(c))
  <1>1. tx[c].noted \in BOOLEAN
    BY NodeFacts DEF TxSound, Transaction
  <1>2. [p \in Participants |->
           IF p \in set \cap retained THEN "PREPARED" ELSE "PENDING"]
             \in [Participants -> PartStatuses]
    BY DEF PartStatuses
  <1>3. (rowState = "FROZEN") \in BOOLEAN
    OBVIOUS
  <1>4. QED
    BY ZenonT(60), <1>1, <1>2, <1>3
    DEF authorityCandidate, TxSound, Transaction, Inv, TypeOK, Statuses

LEMMA RecoverSound ==
    ASSUME Inv, NEW c \in Coordinators, Recover(c)
    PROVE  Inv'
  <1>1. TxSound(tx[c])
    BY NodeFacts
  <1>2. "SWEEP" \in Ops
    BY DEF Ops
  <1>3. CASE recoverFromSystemTables(c)
    <2> DEFINE t == [tx[c] EXCEPT !.held = "discovered"]
    <2>1. TxSound(t)
      BY <1>1 DEF TxSound, Transaction
    <2>2. /\ tx' = [tx EXCEPT ![c] = t]
          /\ UNCHANGED <<row, writes, parts, requests, ctl, tasks, clock, told, faults>>
      BY <1>3, Zenon DEF recoverFromSystemTables
    <2> HIDE DEF t
    <2>3. NodeStep(c, t)
      BY <2>1, <2>2 DEF NodeStep, row, parts, clock, Inv, TypeOK
    <2>4. QED
      BY <2>3, NodeStepSound
  <1>4. CASE redriveAuthoritativeRecovery(c)
    <2> DEFINE t == authorityCandidate(c)
               d == IF AllRetained(t) THEN "COMMIT" ELSE "ROLLBACK"
    <2>1. TxSound(t)
      BY CandidateSound
    <2>2. Frame /\ UNCHANGED <<row, parts, clock>>
      BY <1>4, ClockFrame DEF redriveAuthoritativeRecovery
    <2>3. d \in Decisions
      BY Zenon DEF Decisions
    <2>4. \/ /\ t.decision # "NONE" /\ driveTransactionDecision(c, "SWEEP", t)
             /\ UNCHANGED writes
          \/ /\ tx' = [tx EXCEPT ![c] = t]
             /\ UNCHANGED <<ctl, tasks, requests, writes, told, faults>>
          \/ freezeParticipantSet(c, "SWEEP", t, d)
      BY <1>4 DEF redriveAuthoritativeRecovery
    <2> HIDE DEF t, d
    <2>5. CASE /\ t.decision # "NONE" /\ driveTransactionDecision(c, "SWEEP", t)
               /\ UNCHANGED writes
      BY <1>2, <2>1, <2>2, <2>5, DriveSound, Zenon
    <2>6. CASE /\ tx' = [tx EXCEPT ![c] = t]
               /\ UNCHANGED <<ctl, tasks, requests, writes, told, faults>>
      <3>1. NodeStep(c, t)
        BY <2>1, <2>2, <2>6 DEF NodeStep, row, parts, clock, Inv, TypeOK
      <3>2. QED
        BY <3>1, NodeStepSound
    <2>7. CASE freezeParticipantSet(c, "SWEEP", t, d)
      BY <1>2, <2>1, <2>2, <2>3, <2>7, FreezeSound, Zenon
    <2>8. QED
      BY <2>4, <2>5, <2>6, <2>7
  <1>5. CASE redriveRecoveredTransaction(c)
    <2>1. Frame
      BY <1>5, ClockFrame DEF redriveRecoveredTransaction
    <2>2. QED
      BY <1>1, <1>2, <1>5, <2>1, RollbackProtocolSound, CommitProtocolSound, Zenon
      DEF redriveRecoveredTransaction
  <1>6. QED
    BY <1>3, <1>4, <1>5 DEF Recover

LEMMA CrashSound ==
    ASSUME Inv, NEW c \in Coordinators, crash(c) \/ deadlinePasses(c)
    PROVE  Inv'
  <1>1. CASE crash(c)
    <2>1. NoTransaction \in Transaction
      BY ZenonT(30)
      DEF NoTransaction, Transaction, Statuses, Decisions, PartStatuses
    <2>2. TxSound(NoTransaction)
      BY Zenon, <2>1 DEF NoTransaction, TxSound
    <2>3. faults' \in 0 .. MaxFaults
      BY <1>1, FaultTyped, Zenon DEF crash, Inv
    <2>4. /\ ctl' \in [Coordinators -> Operation]
          /\ tasks' \in [Coordinators -> SUBSET Requests]
      BY <1>1, IdleTyped, Zenon DEF crash, Inv, TypeOK
    <2>5. NodeStep(c, NoTransaction)
      BY <1>1, <2>2, <2>3, <2>4
      DEF crash, NodeStep, row, parts, clock, Inv, TypeOK
    <2>6. QED
      BY ZenonT(30), <2>5, NodeStepSound
  <1>2. CASE deadlinePasses(c)
    <2>1. TxSound(tx[c])
      BY NodeFacts
    <2>2. tx' = [tx EXCEPT ![c] = tx[c]]
      BY <1>2 DEF deadlinePasses, memory, Inv, TypeOK
    <2>3. NodeStep(c, tx[c])
      BY ZenonT(60), <1>2, <2>1, <2>2
      DEF deadlinePasses, NodeStep, row, parts, memory, Inv, TypeOK
    <2>4. QED
      BY <2>3, NodeStepSound, Zenon
  <1>3. QED
    BY <1>1, <1>2

-----------------------------------------------------------------------------
(* The transaction row and the participants.                               *)

(***************************************************************************)
(* A row update lands only while no decision is on record, so no node and  *)
(* no participant holds one yet: the record can contradict none of them.   *)
(***************************************************************************)
LEMMA LandSound ==
    ASSUME Inv, LandAny
    PROVE  Inv'
  <1> PICK w \in writes : Land(w)
    BY DEF LandAny
  <1>1. w \in Write /\ WriteSound(w)
    BY ZenonT(30) DEF Inv, TypeOK
  <1>2. /\ decision = "NONE"
        /\ UNCHANGED <<retained, writes, parts, requests, memory, clock, told, faults>>
    BY Zenon DEF Land, persistDistributedTransactionParticipantSet,
           persistDistributedTransactionDecision
  <1>3. /\ set \subseteq set' /\ set' \subseteq Participants
        /\ rowState' \in SetStates /\ decision' \in Decisions
        /\ digests' \subseteq Participants
    BY <1>1, Zenon DEF Land, persistDistributedTransactionParticipantSet,
           persistDistributedTransactionDecision, Write, WriteSound, Inv, TypeOK,
           SetStates
  <1>4. TypeOK'
    BY <1>2, <1>3 DEF Inv, TypeOK, parts, memory, clock
  <1>5. (\A c \in Coordinators : TxSound(tx[c]))'
    BY Zenon, <1>2, <1>3 DEF Inv, TxSound, parts, memory
  <1>6. /\ (\A x \in writes : WriteSound(x))'
        /\ (retained \subseteq prepared)'
    BY <1>2 DEF Inv, WriteSound, parts
  <1>7. (\A r \in requests : RequestSound(r))'
    BY <1>2, <1>3 DEF Inv, RequestSound
  <1>8. (\A p \in Participants : RowSound(p))'
    BY <1>2, Zenon DEF Inv, RowSound, parts
  <1>9. DecisionSound'
    BY <1>1, <1>2, Zenon DEF Land, persistDistributedTransactionParticipantSet,
           persistDistributedTransactionDecision, WriteSound, DecisionSound, parts
  <1>10. QED
    BY Zenon, <1>4, <1>5, <1>6, <1>7, <1>8, <1>9 DEF Inv

\* What one participant's step leaves behind: its row, and its own evidence.
LEMMA RowStepSound ==
    ASSUME Inv, NEW p \in Participants, NEW s \in RowStates,
           psession' \subseteq Participants,
           prow' = [prow EXCEPT ![p] = s],
           prepared' = prepared \/ (prepared' = prepared \cup {p} /\ s = "PREPARED"),
           p \in prepared => s \in {"PREPARED", "COMMITTED", "ROLLED_BACK"},
           s = "COMMITTED" => decision = "COMMIT",
           s = "ROLLED_BACK" => decision = "ROLLBACK",
           UNCHANGED <<row, writes, requests, memory, clock, told, faults>>
    PROVE  Inv'
  <1>1. prepared \subseteq prepared' /\ prepared' \subseteq Participants
    BY Zenon DEF Inv, TypeOK
  <1>2. TypeOK'
    BY <1>1 DEF Inv, TypeOK, row, memory, clock
  <1>3. (\A c \in Coordinators : TxSound(tx[c]))'
    BY ZenonT(60), <1>1 DEF Inv, TxSound, row, memory
  <1>4. (\A w \in writes : WriteSound(w))' /\ (retained \subseteq prepared)'
    BY <1>1 DEF Inv, WriteSound, row
  <1>5. (\A r \in requests : RequestSound(r))'
    BY DEF Inv, RequestSound, row
  <1>6. (\A q \in Participants : RowSound(q))'
    <2> SUFFICES ASSUME NEW q \in Participants PROVE RowSound(q)'
      BY Zenon
    <2>1. CASE q = p
      BY <2>1, Zenon DEF Inv, TypeOK, RowSound, row
    <2>2. CASE q # p
      BY <2>2, Zenon DEF Inv, TypeOK, RowSound, row
    <2>3. QED
      BY <2>1, <2>2
  <1>7. DecisionSound'
    BY <1>1 DEF Inv, DecisionSound, row
  <1>8. QED
    BY <1>2, <1>3, <1>4, <1>5, <1>6, <1>7, Zenon DEF Inv

LEMMA ParticipateSound ==
    ASSUME Inv, NEW p \in Participants, Participate(p)
    PROVE  Inv'
  <1>0. /\ UNCHANGED <<row, writes, requests, memory, clock, told, faults>>
        /\ psession' \subseteq Participants
    BY DEF Participate, Inv, TypeOK, beginParticipantSession,
           discardParticipantSession, applyParticipantPrepare,
           applyParticipantCommit, applyParticipantRollback
  <1>1. RowSound(p) /\ prow[p] \in RowStates
    BY DEF Inv, TypeOK
  <1>2. CASE beginParticipantSession(p) \/ discardParticipantSession(p)
    <2>1. prow' = [prow EXCEPT ![p] = prow[p]] /\ prepared' = prepared
      BY <1>2
      DEF beginParticipantSession, discardParticipantSession, Inv, TypeOK
    <2>2. QED
      BY Zenon, <1>0, <1>1, <2>1, RowStepSound DEF RowSound
  <1>3. CASE applyParticipantPrepare(p)
    <2>1. p \notin prepared
      BY <1>1, <1>3 DEF applyParticipantPrepare, RowSound
    <2>2. "PREPARED" \in RowStates /\ "REFUSED" \in RowStates
      BY DEF RowStates
    <2>3. CASE prow' = [prow EXCEPT ![p] = "PREPARED"] /\ prepared' = prepared \cup {p}
      BY Zenon, <1>0, <2>2, <2>3, RowStepSound
    <2>4. CASE prow' = [prow EXCEPT ![p] = "REFUSED"] /\ UNCHANGED prepared
      BY Zenon, <1>0, <2>1, <2>2, <2>4, RowStepSound
    <2>5. QED
      BY <1>3, <2>3, <2>4 DEF applyParticipantPrepare
  <1>4. CASE applyParticipantCommit(p)
    <2>1. decision = "COMMIT"
      BY <1>4 DEF applyParticipantCommit, Inv, RequestSound
    <2>2. "COMMITTED" \in RowStates
      BY DEF RowStates
    <2>3. QED
      BY Zenon, <1>0, <1>4, <2>1, <2>2, RowStepSound DEF applyParticipantCommit
  <1>5. CASE applyParticipantRollback(p)
    <2>1. decision = "ROLLBACK"
      BY <1>5 DEF applyParticipantRollback, Inv, RequestSound
    <2>2. "ROLLED_BACK" \in RowStates
      BY Zenon DEF RowStates
    <2>3. QED
      BY Zenon, <1>0, <1>5, <2>1, <2>2, RowStepSound
      DEF applyParticipantRollback
  <1>6. QED
    BY <1>2, <1>3, <1>4, <1>5, Zenon DEF Participate

-----------------------------------------------------------------------------
(* The invariant is inductive.                                             *)

LEMMA StutterSound ==
    ASSUME Inv, UNCHANGED vars
    PROVE  Inv'
  <1>1. /\ UNCHANGED <<rowState, set, decision, digests, retained>>
        /\ UNCHANGED <<writes, prow, psession, prepared, requests>>
        /\ UNCHANGED <<tx, ctl, tasks, late, commits, told, faults>>
    BY Zenon DEF vars, row, parts, memory, clock
  <1>2. TypeOK'
    BY <1>1 DEF Inv, TypeOK
  <1>3. QED
    BY <1>1, <1>2
    DEF Inv, TxSound, WriteSound, RequestSound, RowSound, DecisionSound

LEMMA NextInv ==
    ASSUME Inv, [Next]_vars
    PROVE  Inv'
  <1>1. CASE Client
    BY <1>1, BeginSound, EnlistSound, ClientEndSound DEF Client
  <1>2. CASE participantsAdmitted \/ beginDone
    BY <1>2, AdmittedSound, BeginDoneSound
  <1>3. CASE LandAny
    BY <1>3, LandSound
  <1>4. ASSUME NEW c \in Coordinators, Continue(c)
        PROVE  Inv'
    BY <1>4, SetStepSound, PrepareDoneSound, DecisionStepSound, DoneSound
    DEF Continue
  <1>5. ASSUME NEW c \in Coordinators,
               Call(c) \/ Recover(c) \/ crash(c) \/ deadlinePasses(c)
        PROVE  Inv'
    BY <1>5, CallSound, RecoverSound, CrashSound
  <1>6. ASSUME NEW p \in Participants, Participate(p)
        PROVE  Inv'
    BY <1>6, ParticipateSound
  <1>7. CASE UNCHANGED vars
    BY <1>7, StutterSound
  <1>8. QED
    BY <1>1, <1>2, <1>3, <1>4, <1>5, <1>6, <1>7 DEF Next

LEMMA InvTheorem == Spec => []Inv
  BY InitInv, NextInv, PTL DEF Spec

-----------------------------------------------------------------------------
(* The theorems.                                                           *)

(***************************************************************************)
(* Every variable of the coordinators, the row and the participants keeps  *)
(* its type, for any number of participants, nodes and failures.           *)
(***************************************************************************)
THEOREM TypeTheorem == Spec => []TypeOK
  <1>1. Inv => TypeOK
    BY Zenon DEF Inv
  <1>2. QED
    BY <1>1, InvTheorem, PTL

(***************************************************************************)
(* A recorded COMMIT (persistDistributedTransactionDecision) always rests  *)
(* on a frozen set and on the digest of every member, each of them durably *)
(* PREPARED or already COMMITTED.                                          *)
(***************************************************************************)
THEOREM EvidenceTheorem == Spec => []CommitRestsOnEvidence
  <1>1. Inv => CommitRestsOnEvidence
    BY Zenon DEF Inv, TypeOK, DecisionSound, RowSound, CommitRestsOnEvidence
  <1>2. QED
    BY <1>1, InvTheorem, PTL

(***************************************************************************)
(* Atomicity: no participant of a transaction that committed anywhere      *)
(* (applyParticipantDecision) refused, rolled back or never prepared.      *)
(***************************************************************************)
THEOREM AtomicityTheorem == Spec => []AllOrNothing
  <1>1. Inv => AllOrNothing
    BY DEF Inv, TypeOK, DecisionSound, RowSound, AllOrNothing
  <1>2. QED
    BY <1>1, InvTheorem, PTL

(***************************************************************************)
(* No node sends a COMMIT or a ROLLBACK (completeCommitDecision,           *)
(* completeRollbackDecision) that is not the decision on record.           *)
(***************************************************************************)
THEOREM FanoutTheorem == Spec => []FanoutFollowsRecord
  <1>1. Inv => FanoutFollowsRecord
    <2> SUFFICES ASSUME Inv, NEW p \in Participants
                 PROVE  /\ <<p, "COMMIT">> \in requests => decision = "COMMIT"
                        /\ <<p, "ROLLBACK">> \in requests => decision = "ROLLBACK"
      BY Zenon DEF FanoutFollowsRecord
    <2>1. QED
      BY DEF Inv, RequestSound
  <1>2. QED
    BY <1>1, InvTheorem, PTL

(***************************************************************************)
(* No node calls a participant that the durable set (retainParticipantSet) *)
(* does not name, so recovery reaches every session and reservation.       *)
(***************************************************************************)
THEOREM AdmittedTheorem == Spec => []RequestsOnlyToAdmitted
  <1>1. Inv => RequestsOnlyToAdmitted
    BY DEF Inv, RequestSound, RequestsOnlyToAdmitted
  <1>2. QED
    BY <1>1, InvTheorem, PTL

-----------------------------------------------------------------------------
(* Refinement of AtomicCommit.                                             *)

Still == UNCHANGED <<set, decision, prow>>

\* A node's steps touch neither the set, nor the decision, nor a participant.
LEMMA NodeStill ==
    ASSUME NEW c \in Coordinators,
           Continue(c) \/ Call(c) \/ Recover(c) \/ crash(c) \/ deadlinePasses(c)
    PROVE  Still
  <1>1. CASE Continue(c)
    BY <1>1, Zenon DEF Continue, participantSetUnresolved, participantSetFrozen,
       prepareDone, decisionRecorded, decisionInDoubt, commitDone, rollbackDone,
       row, parts, Still
  <1>2. CASE Call(c)
    BY <1>2 DEF Call, callSucceeded, callFailed, callThrown, parts, Still
  <1>3. CASE Recover(c)
    BY <1>3, Zenon DEF Recover, recoverFromSystemTables, redriveAuthoritativeRecovery,
       redriveRecoveredTransaction, row, parts, Still
  <1>4. CASE crash(c) \/ deadlinePasses(c)
    BY <1>4 DEF crash, deadlinePasses, row, parts, Still
  <1>5. QED
    BY <1>1, <1>2, <1>3, <1>4, Zenon

LEMMA ClientStill ==
    ASSUME Client \/ participantsAdmitted \/ beginDone \/ UNCHANGED vars
    PROVE  Still
  BY Zenon DEF Client, begin, enlistParticipants, commitOwned, rollbackOwned,
     participantsAdmitted, beginDone, vars, row, parts, Still

LEMMA StillStutters ==
    ASSUME Still
    PROVE  UNCHANGED AC!vars
  BY DEF Still, AC!vars, participantState

\* A participant's row changes its abstract state and no other participant's.
LEMMA StateStep ==
    ASSUME TypeOK, NEW p \in Participants, NEW s \in RowStates,
           prow' = [prow EXCEPT ![p] = s]
    PROVE  participantState' = [participantState EXCEPT ![p] = Outcome[s]]
  BY Zenon DEF TypeOK, participantState

LEMMA LandRefines ==
    ASSUME Inv, LandAny
    PROVE  [AC!Next]_(AC!vars)
  <1> PICK w \in writes : Land(w)
    BY DEF LandAny
  <1>1. w \in Write /\ WriteSound(w)
    BY Zenon DEF Inv, TypeOK
  <1>2. participantState' = participantState
    BY Zenon DEF Land, parts, participantState
  <1>3. CASE persistDistributedTransactionParticipantSet(w)
    <2>1. w.new \in SUBSET Participants
      BY <1>1 DEF Write
    <2>2. AC!Join(w.new)
      BY <1>1, <1>2, <1>3
      DEF AC!Join, persistDistributedTransactionParticipantSet, WriteSound
    <2>3. QED
      BY <2>1, <2>2 DEF AC!Next
  <1>4. CASE persistDistributedTransactionDecision(w)
    <2>1. w.decision \in Decisions
      BY <1>1 DEF Write
    <2>2. CASE w.decision = "NONE"
      BY <1>2, <1>4, <2>2 DEF persistDistributedTransactionDecision, AC!vars
    <2>3. CASE w.decision # "NONE"
      <3>1. w.decision = "COMMIT" => \A p \in set : participantState[p] = "prepared"
        <4> SUFFICES ASSUME w.decision = "COMMIT", NEW p \in set
                     PROVE  participantState[p] = "prepared"
          BY Zenon
        <4>1. p \in prepared /\ p \in Participants /\ decision = "NONE"
          BY Zenon, <1>1, <1>4
          DEF persistDistributedTransactionDecision, WriteSound, Inv, TypeOK
        <4>2. prow[p] = "PREPARED"
          BY <4>1, Zenon DEF Inv, RowSound
        <4>3. QED
          BY <4>1, <4>2 DEF participantState, Outcome
      <3>2. AC!Decide(w.decision)
        BY <1>2, <1>4, <3>1 DEF AC!Decide, persistDistributedTransactionDecision
      <3>3. QED
        BY ZenonT(30), <2>1, <2>3, <3>2 DEF AC!Next, Decisions
    <2>4. QED
      BY <2>2, <2>3
  <1>5. QED
    BY <1>3, <1>4, Zenon DEF Land

LEMMA ParticipateRefines ==
    ASSUME Inv, NEW p \in Participants, Participate(p)
    PROVE  [AC!Next]_(AC!vars)
  <1>0. TypeOK /\ UNCHANGED <<set, decision>>
    BY ZenonT(30) DEF Inv, Participate, row
  <1>1. participantState[p] = Outcome[prow[p]]
    BY DEF participantState
  <1>2. \A stage \in Stages : <<p, stage>> \in requests => p \in set
    BY DEF Inv, RequestSound
  <1>3. CASE beginParticipantSession(p) \/ discardParticipantSession(p)
    BY <1>0, <1>3, StillStutters
    DEF beginParticipantSession, discardParticipantSession, Still
  <1>4. CASE applyParticipantPrepare(p)
    <2>1. p \in set /\ participantState[p] = "working"
      <3>1. p \in set
        BY <1>2, <1>4, Zenon DEF applyParticipantPrepare, Stages
      <3>2. participantState[p] = "working"
        BY <1>1, <1>4 DEF applyParticipantPrepare, Outcome
      <3>3. QED
        BY <3>1, <3>2
    <2>2. CASE prow' = [prow EXCEPT ![p] = "PREPARED"]
      <3>1. participantState' = [participantState EXCEPT ![p] = "prepared"]
        BY Zenon, <1>0, <2>2, StateStep DEF RowStates, Outcome
      <3>2. QED
        BY Zenon, <1>0, <2>1, <3>1 DEF AC!Next, AC!Prepare
    <2>3. CASE prow' = [prow EXCEPT ![p] = "REFUSED"]
      <3>1. participantState' = [participantState EXCEPT ![p] = "aborted"]
        BY Zenon, <1>0, <2>3, StateStep DEF RowStates, Outcome
      <3>2. QED
        BY Zenon, <1>0, <2>1, <3>1 DEF AC!Next, AC!Refuse
    <2>4. QED
      BY <1>4, <2>2, <2>3 DEF applyParticipantPrepare
  <1>5. CASE applyParticipantCommit(p)
    <2>1. p \in set /\ participantState[p] = "prepared"
      <3>1. p \in set
        BY <1>2, <1>5, Zenon DEF applyParticipantCommit, Stages
      <3>2. participantState[p] = "prepared"
        BY <1>1, <1>5 DEF applyParticipantCommit, Outcome
      <3>3. QED
        BY <3>1, <3>2
    <2>2. decision = "COMMIT"
      BY <1>5 DEF applyParticipantCommit, Inv, RequestSound
    <2>3. participantState' = [participantState EXCEPT ![p] = "committed"]
      BY Zenon, <1>0, <1>5, StateStep
      DEF applyParticipantCommit, RowStates, Outcome
    <2>4. QED
      BY Zenon, <1>0, <2>1, <2>2, <2>3 DEF AC!Next, AC!Commit
  <1>6. CASE applyParticipantRollback(p)
    <2>1. p \in set /\ participantState[p] \in {"working", "prepared"}
      <3>1. p \in set
        BY ZenonT(30), <1>2, <1>6 DEF applyParticipantRollback, Stages
      <3>2. participantState[p] \in {"working", "prepared"}
        BY <1>1, <1>6 DEF applyParticipantRollback, Outcome
      <3>3. QED
        BY <3>1, <3>2
    <2>2. decision = "ROLLBACK"
      BY <1>6 DEF applyParticipantRollback, Inv, RequestSound
    <2>3. participantState' = [participantState EXCEPT ![p] = "aborted"]
      BY ZenonT(60), <1>0, <1>6, StateStep
      DEF applyParticipantRollback, RowStates, Outcome
    <2>4. QED
      BY Zenon, <1>0, <2>1, <2>2, <2>3 DEF AC!Next, AC!Abort
  <1>7. QED
    BY <1>3, <1>4, <1>5, <1>6 DEF Participate

LEMMA InitRefines == Init => AC!Init
  <1> SUFFICES ASSUME Init PROVE AC!Init
    OBVIOUS
  <1>1. set = {} /\ decision = "NONE"
    BY Zenon DEF Init
  <1>2. \A p \in Participants : prow[p] = "ABSENT"
    BY Zenon DEF Init
  <1>3. Outcome["ABSENT"] = "working"
    BY SMT DEF Outcome
  <1>4. participantState = [p \in Participants |-> "working"]
    BY Zenon, <1>2, <1>3 DEF participantState
  <1>5. QED
    BY Zenon, <1>1, <1>4 DEF AC!Init

LEMMA NextRefines ==
    ASSUME Inv, [Next]_vars
    PROVE  [AC!Next]_(AC!vars)
  <1>1. CASE Client \/ participantsAdmitted \/ beginDone \/ UNCHANGED vars
    BY <1>1, ClientStill, StillStutters
  <1>2. CASE LandAny
    BY <1>2, LandRefines
  <1>3. ASSUME NEW c \in Coordinators,
               Continue(c) \/ Call(c) \/ Recover(c) \/ crash(c) \/ deadlinePasses(c)
        PROVE  [AC!Next]_(AC!vars)
    BY <1>3, NodeStill, StillStutters
  <1>4. ASSUME NEW p \in Participants, Participate(p)
        PROVE  [AC!Next]_(AC!vars)
    BY <1>4, ParticipateRefines
  <1>5. QED
    BY <1>1, <1>2, <1>3, <1>4 DEF Next

(***************************************************************************)
(* The transaction as the code runs it (recordTransactionDecision,         *)
(* redriveAuthoritativeRecovery, the participants' applies) implements     *)
(* AtomicCommit, its safety part, for any number of nodes and failures.    *)
(***************************************************************************)
THEOREM RefinementTheorem == Spec => ImplementsAtomicCommit
  BY InitRefines, NextRefines, InvTheorem, PTL
  DEF Spec, ImplementsAtomicCommit, AC!Spec

-----------------------------------------------------------------------------
(* The answer to the client.                                               *)

Undone == {"ROLLED_BACK", "REFUSED"}

(***************************************************************************)
(* What a node remembers is final: a frozen set is the durable one, a      *)
(* decision or a stage past the freeze is remembered of a frozen set only, *)
(* and a participant noted as finished is finished.                        *)
(***************************************************************************)
MemSound(t) ==
    /\ t.frozen => rowState = "FROZEN" /\ t.set = set
    /\ t.decision # "NONE" => t.frozen
    /\ t.status # "ACTIVE" => t.frozen
    /\ \A p \in Participants :
          /\ t.part[p] = "COMMITTED" => prow[p] = "COMMITTED"
          /\ t.part[p] = "ROLLED_BACK" => prow[p] \in Undone

(***************************************************************************)
(* A stage of the decision that has not failed: every participant is still *)
(* being called or has done what it was called for.                        *)
(***************************************************************************)
CtlSound(t, o, calls) ==
    /\ o.at \in {"record", "PREPARE", "COMMIT", "ROLLBACK"} => t.frozen
    /\ o.at = "COMMIT" =>
          o.failed \/ \A p \in set : <<p, "COMMIT">> \in calls \/ prow[p] = "COMMITTED"
    /\ o.at = "ROLLBACK" =>
          /\ decision = "ROLLBACK"
          /\ o.failed \/ \A p \in set : <<p, "ROLLBACK">> \in calls \/ prow[p] \in Undone

Stands(answers) ==
    /\ "committed" \in answers =>
          rowState = "FROZEN" /\ \A p \in set : prow[p] = "COMMITTED"
    /\ "rolledBack" \in answers =>
          /\ rowState = "FROZEN" /\ decision = "ROLLBACK"
          /\ \A p \in set : prow[p] \in Undone

AnswerInv ==
    /\ decision # "NONE" => rowState = "FROZEN"
    /\ \A c \in Coordinators : MemSound(tx[c]) /\ CtlSound(tx[c], ctl[c], tasks[c])
    /\ Stands(told)

\* A node's step, which moves neither the row's set and decision nor a participant.
NodeAnswers(c, t, o, calls) ==
    /\ UNCHANGED <<rowState, set, decision, prow>>
    /\ tx' = [tx EXCEPT ![c] = t] /\ MemSound(t)
    /\ ctl' = [ctl EXCEPT ![c] = o]
    /\ tasks' = [tasks EXCEPT ![c] = calls] /\ CtlSound(t, o, calls)
    /\ Stands(told')

LEMMA NodeAnswersSound ==
    ASSUME Inv, AnswerInv, NEW c \in Coordinators, NEW t, NEW o, NEW calls,
           NodeAnswers(c, t, o, calls)
    PROVE  AnswerInv'
  <1>0. UNCHANGED <<rowState, set, decision, prow>>
    BY Zenon DEF NodeAnswers
  <1>1. ASSUME NEW d \in Coordinators
        PROVE  MemSound(tx'[d]) /\ CtlSound(tx'[d], ctl'[d], tasks'[d])
    <2>0. DOMAIN tx = Coordinators /\ DOMAIN ctl = Coordinators
          /\ DOMAIN tasks = Coordinators
      BY DEF Inv, TypeOK
    <2>1. CASE d = c
      <3>1. tx'[d] = t /\ ctl'[d] = o /\ tasks'[d] = calls
        BY <2>0, <2>1, Zenon DEF NodeAnswers
      <3> QED
        BY <3>1, Zenon DEF NodeAnswers
    <2>2. CASE d # c
      <3>1. tx'[d] = tx[d] /\ ctl'[d] = ctl[d] /\ tasks'[d] = tasks[d]
        BY <2>0, <2>2, Zenon DEF NodeAnswers
      <3> QED
        BY <3>1, Zenon DEF AnswerInv
    <2> QED
      BY <2>1, <2>2, Zenon
  <1>2. \A d \in Coordinators : MemSound(tx[d])'
    BY <1>0, <1>1, Zenon DEF MemSound
  <1>3. \A d \in Coordinators : CtlSound(tx[d], ctl[d], tasks[d])'
    BY <1>0, <1>1, Zenon DEF CtlSound
  <1>4. Stands(told)'
    BY <1>0, Zenon DEF NodeAnswers, Stands
  <1> QED
    BY <1>0, <1>2, <1>3, <1>4, Zenon DEF AnswerInv

LEMMA AnswerFacts ==
    ASSUME Inv, AnswerInv, NEW c \in Coordinators
    PROVE  /\ MemSound(tx[c]) /\ CtlSound(tx[c], ctl[c], tasks[c])
           /\ Stands(told) /\ (decision # "NONE" => rowState = "FROZEN")
           /\ tx[c] \in Transaction
  BY NodeFacts, Zenon DEF AnswerInv, TxSound

LEMMA CommitPointStands ==
    ASSUME Stands(told), NEW op, NEW t
    PROVE  Stands(withCommitPoint(op, t))
  <1>1. withCommitPoint(op, t) = told \/ withCommitPoint(op, t) = told \cup {"notCommitted"}
    BY Zenon DEF withCommitPoint
  <1>2. "committed" # "notCommitted" /\ "rolledBack" # "notCommitted"
    OBVIOUS
  <1> QED
    BY <1>1, <1>2, Zenon DEF Stands

\* The fields MemSound reads.
LEMMA MemSame ==
    ASSUME NEW t, MemSound(t), NEW u, u.frozen = t.frozen, u.set = t.set,
           u.decision = t.decision, u.status = t.status, u.part = t.part
    PROVE  MemSound(u)
  BY Zenon DEF MemSound

LEMMA MemStatus ==
    ASSUME NEW t \in Transaction, MemSound(t), NEW status
    PROVE  /\ MemSound(statusWriteThrown(t, status))
           /\ t.frozen \/ status = t.status => MemSound(setTransactionStatus(t, status))
           /\ setTransactionStatus(t, status).frozen = t.frozen
           /\ setTransactionStatus(t, status).part = t.part
           /\ setTransactionStatus(t, status).set = t.set
  <1>1. PICK u : u = statusWriteThrown(t, status)
    BY Zenon
  <1>2. /\ u.frozen = t.frozen /\ u.set = t.set /\ u.decision = t.decision
        /\ u.status = t.status /\ u.part = t.part
    BY <1>1, Zenon DEF statusWriteThrown, Transaction
  <1>3. MemSound(u)
    BY <1>2, MemSame, Zenon
  <1>4. PICK w : w = setTransactionStatus(t, status)
    BY Zenon
  <1>5. /\ w.frozen = t.frozen /\ w.set = t.set /\ w.decision = t.decision
        /\ w.status = status /\ w.part = t.part
    BY <1>4, Zenon DEF setTransactionStatus, Transaction
  <1>6. t.frozen \/ status = t.status => MemSound(w)
    BY <1>5, Zenon DEF MemSound
  <1> QED
    BY <1>1, <1>3, <1>4, <1>5, <1>6, Zenon

LEMMA IdleAnswers ==
    ASSUME NEW t, NEW calls
    PROVE  CtlSound(t, Idle, calls)
  <1>1. Idle.at = "idle"
    BY DEF Idle
  <1>2. Idle.at \notin {"record", "PREPARE", "COMMIT", "ROLLBACK"}
        /\ Idle.at # "COMMIT" /\ Idle.at # "ROLLBACK"
    BY <1>1
  <1> QED
    BY <1>2, Zenon DEF CtlSound

LEMMA EndsAnswers ==
    ASSUME Inv, AnswerInv, NEW c \in Coordinators, NEW t, MemSound(t), Ends(c, t),
           UNCHANGED <<rowState, set, decision, prow>>, UNCHANGED tasks,
           Stands(told')
    PROVE  AnswerInv'
  <1>1. tasks' = [tasks EXCEPT ![c] = tasks[c]]
    BY DEF Inv, TypeOK
  <1>2. CtlSound(t, Idle, tasks[c])
    BY IdleAnswers, Zenon
  <1>3. NodeAnswers(c, t, Idle, tasks[c])
    BY <1>1, <1>2, Zenon DEF NodeAnswers, Ends
  <1> QED
    BY <1>3, NodeAnswersSound, Zenon

\* Waiting for a write, or in a stage before the decision.
LEMMA WaitAnswers ==
    ASSUME NEW t, NEW o, NEW calls, o.at \notin {"COMMIT", "ROLLBACK"},
           o.at \in {"record", "PREPARE"} => t.frozen
    PROVE  CtlSound(t, o, calls)
  BY Zenon DEF CtlSound

LEMMA EnterStageAnswers ==
    ASSUME Inv, AnswerInv, NEW c \in Coordinators, NEW op,
           NEW t \in Transaction, MemSound(t), NEW status, NEW stage \in Stages,
           NEW keys, t.frozen \/ (status = t.status /\ stage = "BEGIN"),
           stage = "COMMIT" => \A p \in t.set : p \in keys \/ t.part[p] = "COMMITTED",
           stage = "ROLLBACK" =>
              /\ decision = "ROLLBACK"
              /\ \A p \in t.set : p \in keys \/ t.part[p] = "ROLLED_BACK",
           EnterStage(c, op, t, status, stage, keys), UNCHANGED <<row, parts>>
    PROVE  AnswerInv'
  <1>0. /\ UNCHANGED <<rowState, set, decision, prow>>
        /\ Stands(told) /\ set \subseteq Participants
    BY Zenon DEF row, parts, AnswerInv, Inv, TypeOK
  <1>1. PICK u0 : u0 = setTransactionStatus(t, status)
    BY Zenon
  <1>2. MemSound(u0) /\ u0.part = t.part /\ u0.frozen = t.frozen /\ u0.set = t.set
    BY <1>1, MemStatus, Zenon
  <1>3. PICK part : part = [p \in Participants |->
                              IF p \in keys THEN "PENDING" ELSE t.part[p]]
    BY Zenon
  <1>4. PICK u : u = [u0 EXCEPT !.part = part]
    BY Zenon
  <1>5. PICK o : o = [Idle EXCEPT !.at = stage, !.op = op]
    BY Zenon
  <1>6. PICK calls : calls = tasks[c] \cup (keys \X {stage})
    BY Zenon
  <1>7. CASE /\ tx' = [tx EXCEPT ![c] = u]
             /\ ctl' = [ctl EXCEPT ![c] = o]
             /\ tasks' = [tasks EXCEPT ![c] = calls]
             /\ UNCHANGED told
    <2>1. /\ u.frozen = u0.frozen /\ u.set = u0.set /\ u.decision = u0.decision
          /\ u.status = u0.status /\ u.part = part
      BY <1>1, <1>4, Zenon DEF setTransactionStatus, Transaction
    <2>2. o.at = stage /\ o.failed = FALSE
      BY <1>5 DEF Idle
    <2>3. MemSound(u)
      <3>1. \A p \in Participants : part[p] = "PENDING" \/ part[p] = t.part[p]
        BY <1>3, Zenon
      <3>2. \A p \in Participants :
              /\ part[p] = "COMMITTED" => prow[p] = "COMMITTED"
              /\ part[p] = "ROLLED_BACK" => prow[p] \in Undone
        BY <3>1 DEF MemSound
      <3> QED
        BY <1>2, <2>1, <3>2, Zenon DEF MemSound
    <2>4. t.frozen => t.set = set
      BY Zenon DEF MemSound
    <2>5. ASSUME stage = "COMMIT"
          PROVE  \A p \in set : <<p, "COMMIT">> \in calls \/ prow[p] = "COMMITTED"
      <3>1. t.frozen
        BY <2>5, Zenon
      <3>2. ASSUME NEW p \in set
            PROVE  <<p, "COMMIT">> \in calls \/ prow[p] = "COMMITTED"
        <4>1. p \in t.set /\ p \in Participants
          BY <1>0, <2>4, <3>1, <3>2, Zenon
        <4>2. CASE p \in keys
          BY <1>6, <2>5, <4>2
        <4>3. CASE t.part[p] = "COMMITTED"
          BY <4>1, <4>3, Zenon DEF MemSound
        <4> QED
          BY <2>5, <4>1, <4>2, <4>3, Zenon
      <3> QED
        BY <3>2, Zenon
    <2>6. ASSUME stage = "ROLLBACK"
          PROVE  \A p \in set : <<p, "ROLLBACK">> \in calls \/ prow[p] \in Undone
      <3>1. t.frozen
        BY <2>6, Zenon
      <3>2. ASSUME NEW p \in set
            PROVE  <<p, "ROLLBACK">> \in calls \/ prow[p] \in Undone
        <4>1. p \in t.set /\ p \in Participants
          BY <1>0, <2>4, <3>1, <3>2, Zenon
        <4>2. CASE p \in keys
          BY <1>6, <2>6, <4>2
        <4>3. CASE t.part[p] = "ROLLED_BACK"
          BY <4>1, <4>3, Zenon DEF MemSound
        <4> QED
          BY <2>6, <4>1, <4>2, <4>3, Zenon
      <3> QED
        BY <3>2, Zenon
    <2>7. stage \in {"record", "PREPARE", "COMMIT", "ROLLBACK"} => u.frozen
      <3>1. stage # "BEGIN" => t.frozen
        BY Zenon
      <3>2. stage \in {"record", "PREPARE", "COMMIT", "ROLLBACK"} => stage # "BEGIN"
        OBVIOUS
      <3> QED
        BY <1>2, <2>1, <3>1, <3>2, Zenon
    <2>8. CtlSound(u, o, calls)
      BY <2>2, <2>5, <2>6, <2>7, Zenon DEF CtlSound
    <2>9. NodeAnswers(c, u, o, calls)
      BY <1>0, <1>7, <2>3, <2>8, Zenon DEF NodeAnswers
    <2> QED
      BY <2>9, NodeAnswersSound, Zenon
  <1>8. CASE /\ Ends(c, statusWriteThrown(t, status))
             /\ told' = withCommitPoint(op, statusWriteThrown(t, status))
             /\ UNCHANGED <<tasks, requests>>
    <2>1. MemSound(statusWriteThrown(t, status))
      BY MemStatus, Zenon
    <2>2. Stands(told')
      BY <1>0, <1>8, CommitPointStands, Zenon
    <2>3. UNCHANGED tasks
      BY <1>8
    <2> QED
      BY <1>0, <1>8, <2>1, <2>2, <2>3, EndsAnswers, Zenon
  <1> QED
    BY <1>1, <1>3, <1>4, <1>5, <1>6, <1>7, <1>8, Zenon DEF EnterStage

LEMMA DriveAnswers ==
    ASSUME Inv, AnswerInv, NEW c \in Coordinators, NEW op, NEW t, TxSound(t),
           MemSound(t), t.decision # "NONE", driveTransactionDecision(c, op, t),
           UNCHANGED <<row, parts>>
    PROVE  AnswerInv'
  <1>1. t.decision = decision /\ t \in Transaction
    BY DEF TxSound
  <1>2. t.frozen
    BY Zenon DEF MemSound
  <1>3. "COMMIT" \in Stages /\ "ROLLBACK" \in Stages
    BY DEF Stages
  <1>4. CASE completeCommitDecision(c, op, t)
    <2>1. PICK keys : keys = {p \in t.set : t.part[p] # "COMMITTED"}
      BY Zenon
    <2>2. \A p \in t.set : p \in keys \/ t.part[p] = "COMMITTED"
      BY <2>1
    <2>3. EnterStage(c, op, t, "COMMITTING", "COMMIT", keys)
      BY <1>4, <2>1, Zenon DEF completeCommitDecision
    <2>4. "COMMIT" # "ROLLBACK"
      OBVIOUS
    <2> QED
      BY <1>1, <1>2, <1>3, <2>2, <2>3, <2>4, EnterStageAnswers, Zenon
  <1>5. CASE t.decision = "ROLLBACK" /\ completeRollbackDecision(c, op, t)
    <2>1. PICK keys : keys = getRollbackParticipantKeys(t)
      BY Zenon
    <2>2. \A p \in t.set : p \in keys \/ t.part[p] = "ROLLED_BACK"
      BY <2>1 DEF getRollbackParticipantKeys
    <2>3. EnterStage(c, op, t, "ROLLING_BACK", "ROLLBACK", keys)
      BY <1>5, <2>1, Zenon DEF completeRollbackDecision
    <2>4. "COMMIT" # "ROLLBACK" /\ decision = "ROLLBACK"
      BY <1>1, <1>5
    <2> QED
      BY <1>1, <1>2, <1>3, <2>2, <2>3, <2>4, EnterStageAnswers, Zenon
  <1> QED
    BY <1>4, <1>5, Zenon DEF driveTransactionDecision

LEMMA RecordAnswers ==
    ASSUME Inv, AnswerInv, NEW c \in Coordinators, NEW op, NEW t, MemSound(t),
           t.frozen, NEW d, recordTransactionDecision(c, op, t, d),
           UNCHANGED <<row, parts>>
    PROVE  AnswerInv'
  <1>0. /\ UNCHANGED <<rowState, set, decision, prow>> /\ Stands(told)
        /\ UNCHANGED tasks /\ tasks' = [tasks EXCEPT ![c] = tasks[c]]
    BY DEF row, parts, AnswerInv, Inv, TypeOK, recordTransactionDecision
  <1>1. PICK o : o = [Idle EXCEPT !.at = "record", !.op = op, !.intent = d]
    BY Zenon
  <1>2. CASE Ends(c, t) /\ told' = withCommitPoint(op, t)
    <2>1. Stands(told')
      BY <1>0, <1>2, CommitPointStands, Zenon
    <2> QED
      BY <1>0, <1>2, <2>1, EndsAnswers, Zenon
  <1>3. CASE tx' = [tx EXCEPT ![c] = t] /\ ctl' = [ctl EXCEPT ![c] = o] /\ told' = told
    <2>1. o.at = "record"
      BY <1>1 DEF Idle
    <2>2. o.at \notin {"COMMIT", "ROLLBACK"}
      BY <2>1
    <2>3. CtlSound(t, o, tasks[c])
      BY <2>2, WaitAnswers, Zenon
    <2>4. NodeAnswers(c, t, o, tasks[c])
      BY <1>0, <1>3, <2>3, Zenon DEF NodeAnswers
    <2> QED
      BY <2>4, NodeAnswersSound, Zenon
  <1> QED
    BY <1>1, <1>2, <1>3, Zenon DEF recordTransactionDecision

LEMMA CommitProtocolAnswers ==
    ASSUME Inv, AnswerInv, NEW c \in Coordinators, NEW op, NEW t, TxSound(t),
           MemSound(t), t.frozen, runCommitProtocol(c, op, t), UNCHANGED <<row, parts>>
    PROVE  AnswerInv'
  <1>1. CASE t.decision # "NONE" /\ driveTransactionDecision(c, op, t)
    BY <1>1, DriveAnswers, Zenon
  <1>2. CASE recordTransactionDecision(c, op, t, "COMMIT")
    BY <1>2, RecordAnswers, Zenon
  <1>3. CASE recordTransactionDecision(c, op, t, "ROLLBACK")
    BY <1>3, RecordAnswers, Zenon
  <1>4. ASSUME NEW status, NEW keys, EnterStage(c, op, t, status, "PREPARE", keys)
        PROVE  AnswerInv'
    <2>1. /\ "PREPARE" \in Stages /\ "PREPARE" # "COMMIT" /\ "PREPARE" # "ROLLBACK"
          /\ t \in Transaction
      BY DEF Stages, TxSound
    <2> QED
      BY <1>4, <2>1, EnterStageAnswers, Zenon
  <1> QED
    BY <1>1, <1>2, <1>3, <1>4, Zenon DEF runCommitProtocol, prepareForDecision

LEMMA AfterFreezeAnswers ==
    ASSUME Inv, AnswerInv, NEW c \in Coordinators, NEW op, NEW t, TxSound(t),
           MemSound(t), t.frozen, NEW d, AfterFreeze(c, op, t, d),
           UNCHANGED <<row, parts>>
    PROVE  AnswerInv'
  BY CommitProtocolAnswers, RecordAnswers, Zenon DEF AfterFreeze

LEMMA FreezeAnswers ==
    ASSUME Inv, AnswerInv, NEW c \in Coordinators, NEW op, NEW t, TxSound(t),
           MemSound(t), NEW d, freezeParticipantSet(c, op, t, d),
           UNCHANGED <<row, parts>>
    PROVE  AnswerInv'
  <1>0. /\ UNCHANGED <<rowState, set, decision, prow>> /\ Stands(told)
        /\ tasks \in [Coordinators -> SUBSET Requests]
    BY DEF row, parts, AnswerInv, Inv, TypeOK
  <1>1. CASE t.frozen /\ AfterFreeze(c, op, t, d)
    BY <1>1, AfterFreezeAnswers, Zenon
  <1>2. PICK o : o = [Idle EXCEPT !.at = "freeze", !.op = op, !.intent = d]
    BY Zenon
  <1>3. CASE /\ tx' = [tx EXCEPT ![c] = t] /\ ctl' = [ctl EXCEPT ![c] = o]
             /\ UNCHANGED <<tasks, requests, told>>
    <2>1. o.at = "freeze"
      BY <1>2 DEF Idle
    <2>2. o.at \notin {"COMMIT", "ROLLBACK"} /\ o.at \notin {"record", "PREPARE"}
      BY <2>1
    <2>3. CtlSound(t, o, tasks[c])
      BY <2>2, WaitAnswers, Zenon
    <2>4. tasks' = [tasks EXCEPT ![c] = tasks[c]] /\ told' = told
      BY <1>0, <1>3
    <2>5. NodeAnswers(c, t, o, tasks[c])
      BY <1>0, <1>3, <2>3, <2>4, Zenon DEF NodeAnswers
    <2> QED
      BY <2>5, NodeAnswersSound, Zenon
  <1> QED
    BY <1>1, <1>2, <1>3, Zenon DEF freezeParticipantSet

LEMMA RollbackProtocolAnswers ==
    ASSUME Inv, AnswerInv, NEW c \in Coordinators, NEW op, NEW t, TxSound(t),
           MemSound(t), runRollbackProtocol(c, op, t), UNCHANGED <<row, parts>>
    PROVE  AnswerInv'
  BY FreezeAnswers, DriveAnswers, Zenon DEF runRollbackProtocol

\* One lemma per action.
LEMMA BeginAnswers ==
    ASSUME Inv, AnswerInv, begin
    PROVE  AnswerInv'
  <1>1. /\ rowState = "ABSENT" /\ UNCHANGED <<set, decision, ctl, tasks, told>>
        /\ prow' = prow
    BY Zenon DEF begin, parts
  <1>2. rowState # "FROZEN" /\ decision = "NONE"
    BY <1>1 DEF AnswerInv
  <1>3. Owner \in Coordinators
    BY CoordinatorAssumption, Zenon
  <1>4. ASSUME NEW c \in Coordinators
        PROVE  MemSound(tx[c])' /\ CtlSound(tx[c], ctl[c], tasks[c])'
    <2>0. MemSound(tx[c]) /\ CtlSound(tx[c], ctl[c], tasks[c]) /\ tx[c] \in Transaction
      BY AnswerFacts, Zenon
    <2>1. tx'[c] = tx[c] \/ tx'[c] = [tx[c] EXCEPT !.held = "live"]
      <3>1. tx' = tx \/ tx' = [tx EXCEPT ![Owner] = [tx[Owner] EXCEPT !.held = "live"]]
        BY Zenon DEF begin
      <3>2. DOMAIN tx = Coordinators
        BY DEF Inv, TypeOK
      <3> QED
        BY <1>3, <3>1, <3>2
    <2>2. PICK u : u = tx'[c]
      BY Zenon
    <2>3. /\ u.frozen = tx[c].frozen /\ u.set = tx[c].set /\ u.decision = tx[c].decision
          /\ u.status = tx[c].status /\ u.part = tx[c].part
      BY <2>0, <2>1, <2>2, Zenon DEF Transaction
    <2>4. ~ tx[c].frozen
      BY <1>2, <2>0, Zenon DEF MemSound
    <2>5. MemSound(tx[c])'
      BY <1>1, <2>0, <2>2, <2>3, <2>4, Zenon DEF MemSound
    <2>6. CtlSound(tx[c], ctl[c], tasks[c])'
      BY <1>1, <2>0, <2>2, <2>3, Zenon DEF CtlSound
    <2> QED
      BY <2>5, <2>6
  <1>5. Stands(told)'
    BY <1>1, <1>2, Zenon DEF AnswerInv, Stands
  <1> QED
    BY <1>1, <1>2, <1>4, <1>5, Zenon DEF AnswerInv

LEMMA EnlistAnswers ==
    ASSUME Inv, AnswerInv, NEW ps, enlistParticipants(ps)
    PROVE  AnswerInv'
  <1>0. Owner \in Coordinators
    BY CoordinatorAssumption
  <1>1. PICK t : t = tx[Owner]
    BY Zenon
  <1>2. /\ MemSound(t) /\ t \in Transaction /\ Stands(told)
        /\ UNCHANGED <<rowState, set, decision, prow>> /\ UNCHANGED <<row, parts>>
        /\ tx \in [Coordinators -> Transaction]
        /\ tasks \in [Coordinators -> SUBSET Requests]
    BY <1>0, <1>1, AnswerFacts DEF enlistParticipants, row, parts, Inv, TypeOK
  <1>3. ASSUME NEW keys, EnterStage(Owner, "ENLIST", t, t.status, "BEGIN", keys)
        PROVE  AnswerInv'
    <2>1. "BEGIN" \in Stages /\ "BEGIN" # "COMMIT" /\ "BEGIN" # "ROLLBACK"
      BY DEF Stages
    <2> QED
      BY <1>0, <1>2, <1>3, <2>1, EnterStageAnswers, Zenon
  <1>4. PICK o : o = [Idle EXCEPT !.at = "admit", !.op = "ENLIST", !.adding = ps]
    BY Zenon
  <1>5. CASE ctl' = [ctl EXCEPT ![Owner] = o]
             /\ UNCHANGED <<tx, tasks, requests, told, faults>>
    <2>1. o.at = "admit"
      BY <1>4 DEF Idle
    <2>2. o.at \notin {"COMMIT", "ROLLBACK"} /\ o.at \notin {"record", "PREPARE"}
      BY <2>1
    <2>3. CtlSound(t, o, tasks[Owner])
      BY <2>2, WaitAnswers, Zenon
    <2>4. /\ tasks' = [tasks EXCEPT ![Owner] = tasks[Owner]] /\ told' = told
          /\ tx' = [tx EXCEPT ![Owner] = t]
      BY <1>1, <1>2, <1>5
    <2>5. NodeAnswers(Owner, t, o, tasks[Owner])
      BY <1>2, <1>5, <2>3, <2>4, Zenon DEF NodeAnswers
    <2> QED
      BY <1>0, <2>5, NodeAnswersSound, Zenon
  <1> QED
    BY <1>1, <1>3, <1>4, <1>5, Zenon DEF enlistParticipants

LEMMA AdmittedAnswers ==
    ASSUME Inv, AnswerInv, participantsAdmitted
    PROVE  AnswerInv'
  <1>0. Owner \in Coordinators
    BY CoordinatorAssumption
  <1>1. MemSound(tx[Owner]) /\ tx[Owner] \in Transaction /\ UNCHANGED <<row, parts>>
        /\ ctl[Owner].adding \in SUBSET Participants
    BY <1>0, AnswerFacts, NodeFacts DEF participantsAdmitted
  <1>2. PICK t : t = [tx[Owner] EXCEPT !.set = tx[Owner].set \cup ctl[Owner].adding]
    BY Zenon
  <1>3. /\ t.frozen = tx[Owner].frozen /\ t.decision = tx[Owner].decision
        /\ t.status = tx[Owner].status /\ t.part = tx[Owner].part
    BY <1>1, <1>2, Zenon DEF Transaction
  <1>4. t.set = set /\ t \in Transaction
    BY <1>1, <1>2 DEF participantsAdmitted, Transaction
  <1>5. MemSound(t)
    BY <1>1, <1>3, <1>4, Zenon DEF MemSound
  <1>6. PICK keys : EnterStage(Owner, "ENLIST", t, t.status, "BEGIN", keys)
    BY <1>2, Zenon DEF participantsAdmitted
  <1>7. "BEGIN" \in Stages /\ "BEGIN" # "COMMIT" /\ "BEGIN" # "ROLLBACK"
    BY DEF Stages
  <1> QED
    BY <1>0, <1>1, <1>4, <1>5, <1>6, <1>7, EnterStageAnswers, Zenon

LEMMA BeginDoneAnswers ==
    ASSUME Inv, AnswerInv, beginDone
    PROVE  AnswerInv'
  <1>0. Owner \in Coordinators
    BY CoordinatorAssumption
  <1>1. MemSound(tx[Owner]) /\ Stands(told)
    BY <1>0, AnswerFacts, Zenon
  <1>2. /\ UNCHANGED <<rowState, set, decision, prow>> /\ UNCHANGED tasks
        /\ told' = told /\ Ends(Owner, tx[Owner])
    BY DEF beginDone, row, parts
  <1>3. Stands(told')
    BY <1>1, <1>2, Zenon
  <1> QED
    BY <1>0, <1>1, <1>2, <1>3, EndsAnswers, Zenon

LEMMA ClientEndAnswers ==
    ASSUME Inv, AnswerInv, commitOwned \/ rollbackOwned
    PROVE  AnswerInv'
  <1>0. Owner \in Coordinators
    BY CoordinatorAssumption
  <1>1. MemSound(tx[Owner]) /\ TxSound(tx[Owner])
    BY <1>0, AnswerFacts, NodeFacts, Zenon
  <1>2. UNCHANGED <<row, parts>>
    BY DEF commitOwned, rollbackOwned
  <1>3. CASE freezeParticipantSet(Owner, "COMMIT", tx[Owner], "NONE")
    BY <1>0, <1>1, <1>2, <1>3, FreezeAnswers, Zenon
  <1>4. CASE runRollbackProtocol(Owner, "ROLLBACK", tx[Owner])
    BY <1>0, <1>1, <1>2, <1>4, RollbackProtocolAnswers, Zenon
  <1> QED
    BY <1>3, <1>4, Zenon DEF commitOwned, rollbackOwned

LEMMA SetStepAnswers ==
    ASSUME Inv, AnswerInv, NEW c \in Coordinators,
           participantSetUnresolved(c) \/ participantSetFrozen(c)
    PROVE  AnswerInv'
  <1>1. /\ MemSound(tx[c]) /\ TxSound(tx[c]) /\ tx[c] \in Transaction
        /\ Stands(told) /\ UNCHANGED <<row, parts>>
    BY AnswerFacts, NodeFacts, Zenon DEF participantSetUnresolved, participantSetFrozen
  <1>2. UNCHANGED <<rowState, set, decision, prow>>
    BY <1>1 DEF row, parts
  <1>3. CASE participantSetUnresolved(c)
    <2>1. PICK t : t = [tx[c] EXCEPT !.held = "discovered"]
      BY Zenon
    <2>2. /\ t.frozen = tx[c].frozen /\ t.set = tx[c].set /\ t.decision = tx[c].decision
          /\ t.status = tx[c].status /\ t.part = tx[c].part
      BY <1>1, <2>1, Zenon DEF Transaction
    <2>3. MemSound(t)
      BY <1>1, <2>2, MemSame, Zenon
    <2>4. Ends(c, t) /\ UNCHANGED tasks /\ told' = told
      BY <1>3, <2>1 DEF participantSetUnresolved
    <2>5. Stands(told')
      BY <1>1, <2>4, Zenon
    <2> QED
      BY <1>2, <2>3, <2>4, <2>5, EndsAnswers, Zenon
  <1>4. CASE participantSetFrozen(c)
    <2>1. PICK t : t = [tx[c] EXCEPT !.frozen = TRUE]
      BY Zenon
    <2>2. /\ t.frozen = TRUE /\ t.set = tx[c].set /\ t.decision = tx[c].decision
          /\ t.status = tx[c].status /\ t.part = tx[c].part
      BY <1>1, <2>1, Zenon DEF Transaction
    <2>3. rowState = "FROZEN" /\ set = tx[c].set
          /\ AfterFreeze(c, ctl[c].op, t, ctl[c].intent)
      BY <1>4, <2>1, Zenon DEF participantSetFrozen
    <2>4. MemSound(t)
      BY <1>1, <2>2, <2>3, Zenon DEF MemSound
    <2>5. TxSound(t)
      BY Zenon, <1>1, <2>1 DEF TxSound, Transaction
    <2>6. t.frozen
      BY <2>2, Zenon
    <2> QED
      BY <1>1, <2>3, <2>4, <2>5, <2>6, AfterFreezeAnswers, Zenon
  <1> QED
    BY <1>3, <1>4

LEMMA PrepareDoneAnswers ==
    ASSUME Inv, AnswerInv, NEW c \in Coordinators, prepareDone(c)
    PROVE  AnswerInv'
  <1>1. /\ MemSound(tx[c]) /\ tx[c] \in Transaction /\ Stands(told)
        /\ CtlSound(tx[c], ctl[c], tasks[c]) /\ UNCHANGED <<row, parts>>
    BY AnswerFacts, Zenon DEF prepareDone
  <1>2. UNCHANGED <<rowState, set, decision, prow>>
    BY <1>1 DEF row, parts
  <1>3. tx[c].frozen
    <2>1. ctl[c].at \in {"record", "PREPARE", "COMMIT", "ROLLBACK"}
      BY DEF prepareDone
    <2> QED
      BY <1>1, <2>1, Zenon DEF CtlSound
  <1>4. PICK s : s = statusWriteThrown(tx[c], "PREPARED")
    BY Zenon
  <1>5. PICK u : u = setTransactionStatus(tx[c], "PREPARED")
    BY Zenon
  <1>6. MemSound(s) /\ MemSound(u) /\ u.frozen
    BY <1>1, <1>3, <1>4, <1>5, MemStatus, Zenon
  <1>7. CASE recordTransactionDecision(c, ctl[c].op, tx[c], "ROLLBACK")
    BY <1>1, <1>3, <1>7, RecordAnswers, Zenon
  <1>8. CASE recordTransactionDecision(c, ctl[c].op, u, "COMMIT")
    BY <1>1, <1>6, <1>8, RecordAnswers, Zenon
  <1>9. CASE Ends(c, s) /\ told' = withCommitPoint(ctl[c].op, s)
             /\ UNCHANGED <<tasks, requests, writes>>
    <2>1. Stands(told')
      BY <1>1, <1>9, CommitPointStands, Zenon
    <2>2. UNCHANGED tasks
      BY <1>9
    <2> QED
      BY <1>2, <1>6, <1>9, <2>1, <2>2, EndsAnswers, Zenon
  <1> QED
    BY <1>4, <1>5, <1>7, <1>8, <1>9, Zenon DEF prepareDone

LEMMA DecisionStepAnswers ==
    ASSUME Inv, AnswerInv, NEW c \in Coordinators,
           decisionRecorded(c) \/ decisionInDoubt(c)
    PROVE  AnswerInv'
  <1>1. /\ MemSound(tx[c]) /\ TxSound(tx[c]) /\ tx[c] \in Transaction /\ Stands(told)
        /\ CtlSound(tx[c], ctl[c], tasks[c]) /\ UNCHANGED <<row, parts>>
    BY AnswerFacts, NodeFacts, Zenon DEF decisionRecorded, decisionInDoubt
  <1>2. UNCHANGED <<rowState, set, decision, prow>>
    BY <1>1 DEF row, parts
  <1>3. tx[c].frozen
    <2>1. ctl[c].at \in {"record", "PREPARE", "COMMIT", "ROLLBACK"}
      BY DEF decisionRecorded, decisionInDoubt
    <2> QED
      BY <1>1, <2>1, Zenon DEF CtlSound
  <1>4. CASE decisionRecorded(c)
    <2>1. PICK t : t = [tx[c] EXCEPT !.decision = decision]
      BY Zenon
    <2>2. /\ t.frozen = tx[c].frozen /\ t.set = tx[c].set /\ t.decision = decision
          /\ t.status = tx[c].status /\ t.part = tx[c].part
      BY <1>1, <2>1, Zenon DEF Transaction
    <2>3. MemSound(t)
      BY <1>1, <1>3, <2>2, Zenon DEF MemSound
    <2>4. TxSound(t)
      BY Zenon, <1>1, <2>1 DEF TxSound, Transaction, Inv, TypeOK
    <2>5. driveTransactionDecision(c, ctl[c].op, t) /\ t.decision # "NONE"
      BY <1>4, <2>1, <2>2, Zenon DEF decisionRecorded
    <2> QED
      BY <1>1, <2>3, <2>4, <2>5, DriveAnswers, Zenon
  <1>5. CASE decisionInDoubt(c)
    <2>1. PICK t : t = [tx[c] EXCEPT !.noted = TRUE]
      BY Zenon
    <2>2. /\ t.frozen = tx[c].frozen /\ t.set = tx[c].set /\ t.decision = tx[c].decision
          /\ t.status = tx[c].status /\ t.part = tx[c].part
      BY <1>1, <2>1, Zenon DEF Transaction
    <2>3. MemSound(t)
      BY <1>1, <2>2, MemSame, Zenon
    <2>4. Ends(c, t) /\ UNCHANGED tasks /\ told' = told
      BY <1>5, <2>1 DEF decisionInDoubt
    <2>5. Stands(told')
      BY <1>1, <2>4, Zenon
    <2> QED
      BY <1>2, <2>3, <2>4, <2>5, EndsAnswers, Zenon
  <1> QED
    BY <1>4, <1>5

LEMMA FinishAnswers ==
    ASSUME Inv, AnswerInv, NEW c \in Coordinators, tx[c].frozen, NEW status,
           NEW answer, Stands(answer), Finish(c, status, answer),
           UNCHANGED <<rowState, set, decision, prow>>, UNCHANGED tasks
    PROVE  AnswerInv'
  <1>1. MemSound(tx[c]) /\ tx[c] \in Transaction /\ Stands(told)
    BY AnswerFacts, Zenon
  <1>2. PICK s : s = statusWriteThrown(tx[c], status)
    BY Zenon
  <1>3. PICK w : w = setTransactionStatus(tx[c], status)
    BY Zenon
  <1>4. MemSound(s) /\ MemSound(w)
    BY <1>1, <1>2, <1>3, MemStatus, Zenon
  <1>5. PICK u : u = [w EXCEPT !.held = "ended"]
    BY Zenon
  <1>6. MemSound(u)
    <2>1. /\ u.frozen = w.frozen /\ u.set = w.set /\ u.decision = w.decision
          /\ u.status = w.status /\ u.part = w.part
      BY <1>1, <1>3, <1>5, Zenon DEF setTransactionStatus, Transaction
    <2> QED
      BY <1>4, <2>1, MemSame, Zenon
  <1>7. CASE Ends(c, u) /\ told' = answer
    BY <1>6, <1>7, EndsAnswers, Zenon
  <1>8. CASE Ends(c, s) /\ told' = withCommitPoint(ctl[c].op, s)
    <2>1. Stands(told')
      BY <1>1, <1>8, CommitPointStands, Zenon
    <2> QED
      BY <1>4, <1>8, <2>1, EndsAnswers, Zenon
  <1> QED
    BY <1>2, <1>3, <1>5, <1>7, <1>8, Zenon DEF Finish

LEMMA OtherAnswerStands ==
    ASSUME Stands(told)
    PROVE  Stands(told \cup {"commitDecided"})
  <1>1. "committed" # "commitDecided" /\ "rolledBack" # "commitDecided"
    OBVIOUS
  <1> QED
    BY <1>1, Zenon DEF Stands

(***************************************************************************)
(* The answers themselves: no call of the stage is left and none failed,   *)
(* so every participant did what it was called for.                        *)
(***************************************************************************)
LEMMA CommitDoneAnswers ==
    ASSUME Inv, AnswerInv, NEW c \in Coordinators, commitDone(c)
    PROVE  AnswerInv'
  <1>1. /\ MemSound(tx[c]) /\ Stands(told) /\ CtlSound(tx[c], ctl[c], tasks[c])
        /\ UNCHANGED <<row, parts>> /\ ctl[c].at = "COMMIT" /\ ~ Running(c, "COMMIT")
    BY AnswerFacts, Zenon DEF commitDone
  <1>2. UNCHANGED <<rowState, set, decision, prow>> /\ UNCHANGED tasks
        /\ set \subseteq Participants
    BY <1>1 DEF row, parts, commitDone, Inv, TypeOK
  <1>3. tx[c].frozen
    <2>1. ctl[c].at \in {"record", "PREPARE", "COMMIT", "ROLLBACK"}
      BY <1>1
    <2> QED
      BY <1>1, <2>1, Zenon DEF CtlSound
  <1>4. rowState = "FROZEN"
    BY <1>1, <1>3, Zenon DEF MemSound
  <1>5. PICK answer : answer = IF ctl[c].op = "COMMIT" THEN told \cup {"committed"}
                               ELSE IF ctl[c].op = "ROLLBACK"
                               THEN told \cup {"commitDecided"} ELSE told
    BY Zenon
  <1>6. ctl[c].op = "ROLLBACK" => Stands(answer)
    <2>1. ctl[c].op = "ROLLBACK" => answer = told \cup {"commitDecided"}
      BY <1>5
    <2> QED
      BY <1>1, <2>1, OtherAnswerStands, Zenon
  <1>7. CASE Ends(c, tx[c]) /\ told' = IF ctl[c].op = "ROLLBACK" THEN answer ELSE told
    <2>1. Stands(told')
      BY <1>1, <1>6, <1>7, Zenon
    <2> QED
      BY <1>1, <1>2, <1>7, <2>1, EndsAnswers, Zenon
  <1>8. CASE ~ ctl[c].failed /\ Finish(c, "COMMITTED", answer)
    <2>1. \A p \in set : <<p, "COMMIT">> \in tasks[c] \/ prow[p] = "COMMITTED"
      BY <1>1, <1>8, Zenon DEF CtlSound
    <2>2. \A p \in set : prow[p] = "COMMITTED"
      BY <1>1, <1>2, <2>1, Zenon DEF Running
    <2>3. "rolledBack" # "committed"
      OBVIOUS
    <2>4. Stands(told \cup {"committed"})
      BY <1>1, <1>4, <2>2, <2>3, Zenon DEF Stands
    <2>5. Stands(answer)
      BY <1>1, <1>5, <1>6, <2>4, Zenon
    <2> QED
      BY <1>2, <1>3, <1>8, <2>5, FinishAnswers, Zenon
  <1> QED
    BY <1>5, <1>7, <1>8, Zenon DEF commitDone

LEMMA RollbackDoneAnswers ==
    ASSUME Inv, AnswerInv, NEW c \in Coordinators, rollbackDone(c)
    PROVE  AnswerInv'
  <1>1. /\ MemSound(tx[c]) /\ Stands(told) /\ CtlSound(tx[c], ctl[c], tasks[c])
        /\ UNCHANGED <<row, parts>> /\ ctl[c].at = "ROLLBACK" /\ ~ Running(c, "ROLLBACK")
    BY AnswerFacts, Zenon DEF rollbackDone
  <1>2. UNCHANGED <<rowState, set, decision, prow>> /\ UNCHANGED tasks
        /\ set \subseteq Participants
    BY <1>1 DEF row, parts, rollbackDone, Inv, TypeOK
  <1>3. tx[c].frozen
    <2>1. ctl[c].at \in {"record", "PREPARE", "COMMIT", "ROLLBACK"}
      BY <1>1
    <2> QED
      BY <1>1, <2>1, Zenon DEF CtlSound
  <1>4. rowState = "FROZEN"
    BY <1>1, <1>3, Zenon DEF MemSound
  <1>5. PICK failure : failure = withCommitPoint(ctl[c].op, tx[c])
    BY Zenon
  <1>6. Stands(failure)
    BY <1>1, <1>5, CommitPointStands, Zenon
  <1>7. CASE Ends(c, tx[c]) /\ told' = failure
    <2>1. Stands(told')
      BY <1>6, <1>7, Zenon
    <2> QED
      BY <1>1, <1>2, <1>7, <2>1, EndsAnswers, Zenon
  <1>8. PICK answer : answer = IF ctl[c].op = "ROLLBACK" THEN told \cup {"rolledBack"}
                               ELSE failure
    BY Zenon
  <1>9. CASE ~ ctl[c].failed /\ Finish(c, "ROLLED_BACK", answer)
    <2>1. /\ decision = "ROLLBACK"
          /\ \A p \in set : <<p, "ROLLBACK">> \in tasks[c] \/ prow[p] \in Undone
      BY <1>1, <1>9, Zenon DEF CtlSound
    <2>2. \A p \in set : prow[p] \in Undone
      BY <1>1, <1>2, <2>1, Zenon DEF Running
    <2>3. "rolledBack" # "committed"
      OBVIOUS
    <2>4. Stands(told \cup {"rolledBack"})
      BY <1>1, <1>4, <2>1, <2>2, <2>3, Zenon DEF Stands
    <2>5. Stands(answer)
      BY <1>6, <1>8, <2>4, Zenon
    <2> QED
      BY <1>2, <1>3, <1>9, <2>5, FinishAnswers, Zenon
  <1> QED
    BY <1>5, <1>7, <1>8, <1>9, Zenon DEF rollbackDone

\* A participant call ends: it is answered, or its stage has failed or is over.
LEMMA CallEndAnswers ==
    ASSUME Inv, AnswerInv, NEW c \in Coordinators, NEW p, NEW stage,
           NEW t, MemSound(t), t.frozen = tx[c].frozen, NEW o,
           \/ o = Idle
           \/ o = ctl[c] /\ (ctl[c].at = stage => Answered(p, stage))
           \/ o.at = ctl[c].at /\ o.failed = TRUE,
           tx' = [tx EXCEPT ![c] = t], ctl' = [ctl EXCEPT ![c] = o],
           tasks' = [tasks EXCEPT ![c] = tasks[c] \ {<<p, stage>>}],
           UNCHANGED <<rowState, set, decision, parts>>, Stands(told')
    PROVE  AnswerInv'
  <1>1. CtlSound(tx[c], ctl[c], tasks[c])
    BY AnswerFacts, Zenon
  <1>2. PICK calls : calls = tasks[c] \ {<<p, stage>>}
    BY Zenon
  <1> SUFFICES CtlSound(t, o, calls)
    <2>1. UNCHANGED <<rowState, set, decision, prow>>
      BY DEF parts
    <2>2. NodeAnswers(c, t, o, calls)
      BY <1>2, <2>1, Zenon DEF NodeAnswers
    <2> QED
      BY <2>2, NodeAnswersSound, Zenon
  <1>3. CASE o = Idle
    BY <1>3, IdleAnswers, Zenon
  <1>4. CASE o = ctl[c] /\ (ctl[c].at = stage => Answered(p, stage))
    <2>1. ASSUME o.at = "COMMIT", ~ o.failed, NEW q \in set
          PROVE  <<q, "COMMIT">> \in calls \/ prow[q] = "COMMITTED"
      <3>1. <<q, "COMMIT">> \in tasks[c] \/ prow[q] = "COMMITTED"
        BY <1>1, <1>4, <2>1, Zenon DEF CtlSound
      <3>2. CASE <<q, "COMMIT">> = <<p, stage>>
        <4>1. q = p /\ stage = "COMMIT"
          BY <3>2
        <4>2. Answered(p, "COMMIT")
          BY <1>4, <2>1, <4>1, Zenon
        <4> QED
          BY <4>1, <4>2, Zenon DEF Answered
      <3>3. CASE <<q, "COMMIT">> # <<p, stage>>
        BY <1>2, <3>1, <3>3, Zenon
      <3> QED
        BY <3>2, <3>3
    <2>2. ASSUME o.at = "ROLLBACK", ~ o.failed, NEW q \in set
          PROVE  <<q, "ROLLBACK">> \in calls \/ prow[q] \in Undone
      <3>1. <<q, "ROLLBACK">> \in tasks[c] \/ prow[q] \in Undone
        BY <1>1, <1>4, <2>2, Zenon DEF CtlSound
      <3>2. CASE <<q, "ROLLBACK">> = <<p, stage>>
        <4>1. q = p /\ stage = "ROLLBACK"
          BY <3>2
        <4>2. Answered(p, "ROLLBACK")
          BY <1>4, <2>2, <4>1, Zenon
        <4> QED
          BY <4>1, <4>2, Zenon DEF Answered, Undone
      <3>3. CASE <<q, "ROLLBACK">> # <<p, stage>>
        BY <1>2, <3>1, <3>3
      <3> QED
        BY <3>2, <3>3
    <2> QED
      BY <1>1, <1>4, <2>1, <2>2, Zenon DEF CtlSound
  <1>5. CASE o.at = ctl[c].at /\ o.failed = TRUE
    BY <1>1, <1>5, Zenon DEF CtlSound
  <1> QED
    BY <1>3, <1>4, <1>5, Zenon

LEMMA PartNoted ==
    ASSUME NEW t \in Transaction, MemSound(t), NEW p \in Participants, NEW status,
           NEW u, u.frozen = t.frozen, u.set = t.set, u.decision = t.decision,
           u.status = t.status, u.part = [t.part EXCEPT ![p] = status],
           status = "COMMITTED" => prow[p] = "COMMITTED",
           status = "ROLLED_BACK" => prow[p] \in Undone
    PROVE  MemSound(u)
  <1>1. DOMAIN t.part = Participants
    BY Zenon DEF Transaction
  <1>2. \A q \in Participants : u.part[q] = IF q = p THEN status ELSE t.part[q]
    BY <1>1
  <1>3. \A q \in Participants :
           /\ u.part[q] = "COMMITTED" => prow[q] = "COMMITTED"
           /\ u.part[q] = "ROLLED_BACK" => prow[q] \in Undone
    BY <1>2, Zenon DEF MemSound
  <1> QED
    BY <1>3, Zenon DEF MemSound

LEMMA NotingAnswers ==
    ASSUME NEW t \in Transaction, MemSound(t), NEW p \in Participants, NEW stage,
           NEW status, status = "COMMITTED" => prow[p] = "COMMITTED",
           status = "ROLLED_BACK" => prow[p] \in Undone
    PROVE  /\ MemSound(Noting(t, p, stage, status))
           /\ Noting(t, p, stage, status).frozen = t.frozen
  <1>1. PICK u : u = Noting(t, p, stage, status)
    BY Zenon
  <1>2. CASE Detached(t, p, stage)
    BY <1>1, <1>2, Zenon DEF Noting
  <1>3. CASE ~ Detached(t, p, stage)
    <2>1. PICK g : u = [t EXCEPT !.part[p] = status, !.digested = g]
      BY <1>1, <1>3, Zenon DEF Noting
    <2>2. /\ u.frozen = t.frozen /\ u.set = t.set /\ u.decision = t.decision
          /\ u.status = t.status /\ u.part = [t.part EXCEPT ![p] = status]
      BY <2>1, Zenon DEF Transaction
    <2>3. MemSound(u)
      BY <2>2, PartNoted, Zenon
    <2> QED
      BY <1>1, <2>2, <2>3, Zenon
  <1> QED
    BY <1>2, <1>3

LEMMA DoneStage ==
    ASSUME NEW stage \in Stages
    PROVE  /\ DoneStatus[stage] = "COMMITTED" => stage = "COMMIT"
           /\ DoneStatus[stage] = "ROLLED_BACK" => stage = "ROLLBACK"
  BY DEF DoneStatus, Stages

LEMMA AnsweredStage ==
    ASSUME NEW p, NEW stage, Answered(p, stage)
    PROVE  /\ stage = "COMMIT" => prow[p] = "COMMITTED"
           /\ stage = "ROLLBACK" => prow[p] \in Undone
  BY Zenon DEF Answered, Undone

LEMMA CallAnswers ==
    ASSUME Inv, AnswerInv, NEW c \in Coordinators, Call(c)
    PROVE  AnswerInv'
  <1> PICK p \in Participants, stage \in Stages :
        callSucceeded(c, p, stage) \/ callFailed(c, p, stage) \/ callThrown(c, p, stage)
    BY DEF Call
  <1>1. MemSound(tx[c]) /\ tx[c] \in Transaction /\ Stands(told) /\ ctl[c] \in Operation
    BY AnswerFacts, NodeFacts, Zenon
  <1>2. /\ tx \in [Coordinators -> Transaction]
        /\ ctl \in [Coordinators -> Operation]
    BY DEF Inv, TypeOK
  <1>3. CASE callSucceeded(c, p, stage)
    <2>1. PICK t : t = Noting(tx[c], p, stage, DoneStatus[stage])
      BY Zenon
    <2>2. /\ Answered(p, stage) /\ tx' = [tx EXCEPT ![c] = t]
          /\ tasks' = [tasks EXCEPT ![c] = tasks[c] \ {<<p, stage>>}]
          /\ UNCHANGED <<rowState, set, decision, parts>> /\ ctl' = ctl /\ told' = told
      BY <1>3, <2>1, Zenon DEF callSucceeded
    <2>3. /\ DoneStatus[stage] = "COMMITTED" => prow[p] = "COMMITTED"
          /\ DoneStatus[stage] = "ROLLED_BACK" => prow[p] \in Undone
      BY <2>2, DoneStage, AnsweredStage, Zenon
    <2>4. MemSound(t) /\ t.frozen = tx[c].frozen
      <3>1. PICK d, g : d = DoneStatus[stage] /\ g = tx[c]
        BY Zenon
      <3>2. g \in Transaction /\ MemSound(g)
        BY <1>1, <3>1, Zenon
      <3>3. (d = "COMMITTED" => prow[p] = "COMMITTED")
            /\ (d = "ROLLED_BACK" => prow[p] \in Undone)
        BY <2>3, <3>1, Zenon
      <3>4. MemSound(Noting(g, p, stage, d)) /\ Noting(g, p, stage, d).frozen = g.frozen
        BY <3>2, <3>3, NotingAnswers, Zenon
      <3> QED
        BY <2>1, <3>1, <3>4, Zenon
    <2>5. ctl' = [ctl EXCEPT ![c] = ctl[c]]
      BY <1>2, <2>2
    <2>6. Stands(told')
      BY <1>1, <2>2, Zenon
    <2> QED
      BY <2>2, <2>4, <2>5, <2>6, CallEndAnswers, Zenon
  <1>4. CASE callFailed(c, p, stage)
    <2>1. /\ tasks' = [tasks EXCEPT ![c] = tasks[c] \ {<<p, stage>>}]
          /\ UNCHANGED <<rowState, set, decision, parts>> /\ told' = told
      BY <1>4 DEF callFailed
    <2>2. Stands(told')
      BY <1>1, <2>1, Zenon
    <2>3. CASE stage = "BEGIN"
      <3>1. PICK o : o = IF ctl[c].at = stage THEN Idle ELSE ctl[c]
        BY Zenon
      <3>2. ctl' = [ctl EXCEPT ![c] = o] /\ tx' = tx
        BY <1>4, <2>3, <3>1 DEF callFailed
      <3>3. tx' = [tx EXCEPT ![c] = tx[c]]
        BY <1>2, <3>2
      <3>4. o = Idle \/ (o = ctl[c] /\ (ctl[c].at = stage => Answered(p, stage)))
        BY <3>1, Zenon
      <3> QED
        BY <1>1, <2>1, <2>2, <3>2, <3>3, <3>4, CallEndAnswers, Zenon
    <2>4. CASE stage # "BEGIN"
      <3>1. PICK o : o = IF ctl[c].at # stage THEN ctl[c]
                         ELSE [ctl[c] EXCEPT !.failed = TRUE]
        BY Zenon
      <3>2. PICK t : t = IF Detached(tx[c], p, stage) THEN tx[c]
                         ELSE [tx[c] EXCEPT !.part[p] = "PENDING"]
        BY Zenon
      <3>3. ctl' = [ctl EXCEPT ![c] = o] /\ tx' = [tx EXCEPT ![c] = t]
        BY <1>4, <2>4, <3>1, <3>2, Zenon DEF callFailed
      <3>4. MemSound(t) /\ t.frozen = tx[c].frozen
        <4>1. CASE t = tx[c]
          BY <1>1, <4>1, Zenon
        <4>2. CASE t = [tx[c] EXCEPT !.part[p] = "PENDING"]
          <5>1. /\ t.frozen = tx[c].frozen /\ t.set = tx[c].set
                /\ t.decision = tx[c].decision /\ t.status = tx[c].status
                /\ t.part = [tx[c].part EXCEPT ![p] = "PENDING"]
            BY <1>1, <4>2, Zenon DEF Transaction
          <5>2. "PENDING" # "COMMITTED" /\ "PENDING" # "ROLLED_BACK"
            OBVIOUS
          <5> QED
            BY <1>1, <5>1, <5>2, PartNoted, Zenon
        <4> QED
          BY <3>2, <4>1, <4>2, Zenon
      <3>5. \/ o = ctl[c] /\ (ctl[c].at = stage => Answered(p, stage))
            \/ o.at = ctl[c].at /\ o.failed = TRUE
        <4>1. CASE ctl[c].at # stage
          BY <3>1, <4>1, Zenon
        <4>2. CASE ctl[c].at = stage
          <5>1. o = [ctl[c] EXCEPT !.failed = TRUE]
            BY <3>1, <4>2, Zenon
          <5> QED
            BY <1>1, <5>1, Zenon DEF Operation
        <4> QED
          BY <4>1, <4>2, Zenon
      <3> QED
        BY <2>1, <2>2, <3>3, <3>4, <3>5, CallEndAnswers, Zenon
    <2> QED
      BY <2>3, <2>4
  <1>5. CASE callThrown(c, p, stage)
    <2>1. PICK o : o = IF ctl[c].at = stage THEN Idle ELSE ctl[c]
      BY Zenon
    <2>2. PICK t : t = IF stage = "BEGIN" THEN tx[c]
                       ELSE Noting(tx[c], p, stage, "PENDING")
      BY Zenon
    <2>3. /\ tasks' = [tasks EXCEPT ![c] = tasks[c] \ {<<p, stage>>}]
          /\ UNCHANGED <<rowState, set, decision, parts>>
          /\ ctl' = [ctl EXCEPT ![c] = o] /\ tx' = [tx EXCEPT ![c] = t]
          /\ told' = told \/ told' = withCommitPoint(ctl[c].op, tx[c])
      BY <1>5, <2>1, <2>2 DEF callThrown
    <2>4. Stands(told')
      BY <1>1, <2>3, CommitPointStands, Zenon
    <2>5. "PENDING" # "COMMITTED" /\ "PENDING" # "ROLLED_BACK"
      OBVIOUS
    <2>6. MemSound(t) /\ t.frozen = tx[c].frozen
      <3>1. PICK d, g : d = "PENDING" /\ g = tx[c]
        BY Zenon
      <3>2. g \in Transaction /\ MemSound(g)
        BY <1>1, <3>1, Zenon
      <3>3. (d = "COMMITTED" => prow[p] = "COMMITTED")
            /\ (d = "ROLLED_BACK" => prow[p] \in Undone)
        BY <2>5, <3>1, Zenon
      <3>4. MemSound(Noting(g, p, stage, d)) /\ Noting(g, p, stage, d).frozen = g.frozen
        BY <3>2, <3>3, NotingAnswers
      <3> QED
        BY <1>1, <2>2, <3>1, <3>4, Zenon
    <2>7. o = Idle \/ (o = ctl[c] /\ (ctl[c].at = stage => Answered(p, stage)))
      BY <2>1, Zenon
    <2> QED
      BY <2>3, <2>4, <2>6, <2>7, CallEndAnswers, Zenon
  <1> QED
    BY <1>3, <1>4, <1>5

LEMMA CandidateAnswers ==
    ASSUME Inv, AnswerInv, NEW c \in Coordinators
    PROVE  MemSound(authorityCandidate(c))
  <1>1. PICK t : t = authorityCandidate(c)
    BY Zenon
  <1>2. /\ t.frozen = (rowState = "FROZEN") /\ t.set = set /\ t.decision = decision
        /\ t.status = IF rowState = "FROZEN" THEN "PREPARING" ELSE "ACTIVE"
        /\ t.part = [p \in Participants |->
                       IF p \in set \cap retained THEN "PREPARED" ELSE "PENDING"]
    BY <1>1, Zenon DEF authorityCandidate
  <1>3. \A p \in Participants : t.part[p] # "COMMITTED" /\ t.part[p] # "ROLLED_BACK"
    BY <1>2, Zenon
  <1>4. decision # "NONE" => rowState = "FROZEN"
    BY DEF AnswerInv
  <1>5. rowState # "FROZEN" => t.status = "ACTIVE"
    BY <1>2, Zenon
  <1> QED
    BY <1>1, <1>2, <1>3, <1>4, <1>5, Zenon DEF MemSound

LEMMA RecoverAnswers ==
    ASSUME Inv, AnswerInv, NEW c \in Coordinators, Recover(c)
    PROVE  AnswerInv'
  <1>1. /\ MemSound(tx[c]) /\ TxSound(tx[c]) /\ tx[c] \in Transaction /\ Stands(told)
        /\ CtlSound(tx[c], ctl[c], tasks[c])
    BY AnswerFacts, NodeFacts, Zenon
  <1>2. UNCHANGED <<row, parts>>
    BY Zenon DEF Recover, recoverFromSystemTables, redriveAuthoritativeRecovery,
           redriveRecoveredTransaction
  <1>3. UNCHANGED <<rowState, set, decision, prow>>
        /\ ctl \in [Coordinators -> Operation]
        /\ tasks \in [Coordinators -> SUBSET Requests]
    BY <1>2 DEF row, parts, Inv, TypeOK
  <1>4. ASSUME NEW t, MemSound(t), tx' = [tx EXCEPT ![c] = t],
               Held(c, "none") \/ Held(c, "discovered"), UNCHANGED <<ctl, tasks, told>>
        PROVE  AnswerInv'
    <2>1. ctl' = [ctl EXCEPT ![c] = ctl[c]] /\ tasks' = [tasks EXCEPT ![c] = tasks[c]]
          /\ told' = told
      BY <1>3, <1>4, Zenon
    <2>2. ctl[c].at \notin {"COMMIT", "ROLLBACK"} /\ ctl[c].at \notin {"record", "PREPARE"}
      BY <1>4 DEF Held
    <2>3. CtlSound(t, ctl[c], tasks[c])
      BY <2>2, WaitAnswers, Zenon
    <2>4. NodeAnswers(c, t, ctl[c], tasks[c])
      BY <1>1, <1>3, <1>4, <2>1, <2>3, Zenon DEF NodeAnswers
    <2> QED
      BY <2>4, NodeAnswersSound, Zenon
  <1>5. CASE recoverFromSystemTables(c)
    <2>1. PICK t : t = [tx[c] EXCEPT !.held = "discovered"]
      BY Zenon
    <2>2. /\ t.frozen = tx[c].frozen /\ t.set = tx[c].set /\ t.decision = tx[c].decision
          /\ t.status = tx[c].status /\ t.part = tx[c].part
      BY <1>1, <2>1, Zenon DEF Transaction
    <2>3. MemSound(t)
      BY <1>1, <2>2, MemSame, Zenon
    <2>4. /\ tx' = [tx EXCEPT ![c] = t] /\ Held(c, "none")
          /\ UNCHANGED <<ctl, tasks, told>>
      BY <1>5, <2>1, Zenon DEF recoverFromSystemTables
    <2> QED
      BY <1>4, <2>3, <2>4, Zenon
  <1>6. CASE redriveAuthoritativeRecovery(c)
    <2>1. PICK t : t = authorityCandidate(c)
      BY Zenon
    <2>2. MemSound(t) /\ TxSound(t)
      BY <2>1, CandidateAnswers, CandidateSound, Zenon
    <2>3. PICK d : \/ t.decision # "NONE" /\ driveTransactionDecision(c, "SWEEP", t)
                   \/ /\ tx' = [tx EXCEPT ![c] = t] /\ Held(c, "discovered")
                      /\ UNCHANGED <<ctl, tasks, requests, writes, told, faults>>
                   \/ freezeParticipantSet(c, "SWEEP", t, d)
      BY <1>6, <2>1, Zenon DEF redriveAuthoritativeRecovery
    <2>4. CASE t.decision # "NONE" /\ driveTransactionDecision(c, "SWEEP", t)
      BY <1>2, <2>2, <2>4, DriveAnswers, Zenon
    <2>5. CASE /\ tx' = [tx EXCEPT ![c] = t] /\ Held(c, "discovered")
               /\ UNCHANGED <<ctl, tasks, requests, writes, told, faults>>
      <3>1. UNCHANGED <<ctl, tasks, told>>
        BY <2>5
      <3> QED
        BY <1>4, <2>2, <2>5, <3>1, Zenon
    <2>6. CASE freezeParticipantSet(c, "SWEEP", t, d)
      BY <1>2, <2>2, <2>6, FreezeAnswers, Zenon
    <2> QED
      BY <2>3, <2>4, <2>5, <2>6
  <1>7. CASE redriveRecoveredTransaction(c)
    <2>1. CASE runRollbackProtocol(c, "SWEEP", tx[c])
      BY <1>1, <1>2, <2>1, RollbackProtocolAnswers, Zenon
    <2>2. CASE /\ tx[c].decision # "NONE" \/ tx[c].status \in {"PREPARED", "COMMITTING"}
               /\ runCommitProtocol(c, "SWEEP", tx[c])
      <3>1. tx[c].decision # "NONE" \/ tx[c].status # "ACTIVE"
        BY <2>2
      <3>2. tx[c].frozen
        BY <1>1, <3>1, Zenon DEF MemSound
      <3> QED
        BY <1>1, <1>2, <2>2, <3>2, CommitProtocolAnswers, Zenon
    <2> QED
      BY <1>7, <2>1, <2>2, Zenon DEF redriveRecoveredTransaction
  <1> QED
    BY <1>5, <1>6, <1>7 DEF Recover

LEMMA CrashAnswers ==
    ASSUME Inv, AnswerInv, NEW c \in Coordinators, crash(c) \/ deadlinePasses(c)
    PROVE  AnswerInv'
  <1>0. Stands(told) /\ MemSound(tx[c]) /\ CtlSound(tx[c], ctl[c], tasks[c])
    BY AnswerFacts, Zenon
  <1>1. CASE crash(c)
    <2>1. PICK t : t = NoTransaction
      BY Zenon
    <2>2. /\ t.frozen = FALSE /\ t.decision = "NONE" /\ t.status = "ACTIVE"
          /\ t.part = [p \in Participants |-> "PENDING"]
      BY <2>1, Zenon DEF NoTransaction
    <2>3. \A p \in Participants : t.part[p] # "COMMITTED" /\ t.part[p] # "ROLLED_BACK"
      BY <2>2
    <2>4. MemSound(t)
      BY <2>2, <2>3, Zenon DEF MemSound
    <2>5. CtlSound(t, Idle, {})
      BY IdleAnswers, Zenon
    <2>6. UNCHANGED <<rowState, set, decision, prow>> /\ told' = told
      BY <1>1 DEF crash, row, parts
    <2>7. NodeAnswers(c, t, Idle, {})
      BY <1>0, <1>1, <2>1, <2>4, <2>5, <2>6, Zenon DEF NodeAnswers, crash
    <2> QED
      BY <2>7, NodeAnswersSound, Zenon
  <1>2. CASE deadlinePasses(c)
    <2>1. /\ UNCHANGED <<rowState, set, decision, prow>> /\ told' = told
          /\ tx' = [tx EXCEPT ![c] = tx[c]] /\ ctl' = [ctl EXCEPT ![c] = ctl[c]]
          /\ tasks' = [tasks EXCEPT ![c] = tasks[c]]
      BY <1>2 DEF deadlinePasses, row, parts, memory, Inv, TypeOK
    <2>2. NodeAnswers(c, tx[c], ctl[c], tasks[c])
      BY <1>0, <2>1, Zenon DEF NodeAnswers
    <2> QED
      BY <2>2, NodeAnswersSound, Zenon
  <1> QED
    BY <1>1, <1>2

(***************************************************************************)
(* A set write lands on an open row, of which no node holds a frozen copy; *)
(* a decision lands where there is none, before any of its stages.         *)
(***************************************************************************)
LEMMA LandAnswers ==
    ASSUME Inv, AnswerInv, LandAny
    PROVE  AnswerInv'
  <1> PICK w \in writes : Land(w)
    BY DEF LandAny
  <1>1. UNCHANGED <<prow, tx, ctl, tasks, told>> /\ decision = "NONE"
    BY Zenon DEF Land, parts, memory, persistDistributedTransactionParticipantSet,
           persistDistributedTransactionDecision
  <1>2. \A c \in Coordinators : MemSound(tx[c]) /\ CtlSound(tx[c], ctl[c], tasks[c])
    BY Zenon DEF AnswerInv
  <1>3. decision # "ROLLBACK"
    BY <1>1
  <1>4. CASE persistDistributedTransactionParticipantSet(w)
    <2>1. rowState # "FROZEN" /\ decision' = "NONE"
      BY <1>1, <1>4 DEF persistDistributedTransactionParticipantSet
    <2>2. ASSUME NEW c \in Coordinators
          PROVE  MemSound(tx[c])' /\ CtlSound(tx[c], ctl[c], tasks[c])'
      <3>1. ~ tx[c].frozen
        BY <1>2, <2>1, Zenon DEF MemSound
      <3>2. MemSound(tx[c])'
        BY <1>1, <1>2, <3>1, Zenon DEF MemSound
      <3>3. ctl[c].at \notin {"record", "PREPARE", "COMMIT", "ROLLBACK"}
        BY <1>2, <3>1, Zenon DEF CtlSound
      <3>4. ctl[c].at # "COMMIT" /\ ctl[c].at # "ROLLBACK"
        BY <3>3
      <3>5. CtlSound(tx[c], ctl[c], tasks[c])'
        BY <1>1, <3>3, <3>4, Zenon DEF CtlSound
      <3> QED
        BY <3>2, <3>5
    <2>3. Stands(told)'
      BY <1>1, <2>1, Zenon DEF AnswerInv, Stands
    <2> QED
      BY <2>1, <2>2, <2>3, Zenon DEF AnswerInv
  <1>5. CASE persistDistributedTransactionDecision(w)
    <2>1. rowState = "FROZEN" /\ rowState' = rowState /\ set' = set
      BY <1>5 DEF persistDistributedTransactionDecision
    <2>2. ASSUME NEW c \in Coordinators
          PROVE  MemSound(tx[c])' /\ CtlSound(tx[c], ctl[c], tasks[c])'
      <3>1. MemSound(tx[c])'
        BY <1>1, <1>2, <2>1, Zenon DEF MemSound
      <3>2. ctl[c].at # "ROLLBACK"
        BY <1>2, <1>3, Zenon DEF CtlSound
      <3>3. CtlSound(tx[c], ctl[c], tasks[c])'
        BY <1>1, <1>2, <2>1, <3>2, Zenon DEF CtlSound
      <3> QED
        BY <3>1, <3>3
    <2>3. Stands(told)'
      BY <1>1, <1>3, <2>1, Zenon DEF AnswerInv, Stands
    <2> QED
      BY <2>1, <2>2, <2>3, Zenon DEF AnswerInv
  <1> QED
    BY <1>4, <1>5 DEF Land

\* What a participant has done it has done for good.
LEMMA ParticipateAnswers ==
    ASSUME Inv, AnswerInv, NEW q \in Participants, Participate(q)
    PROVE  AnswerInv'
  <1>1. UNCHANGED <<rowState, set, decision, tx, ctl, tasks, told>>
    BY Zenon DEF Participate, row, memory
  <1>2. /\ \A p \in Participants : prow[p] = "COMMITTED" => prow'[p] = "COMMITTED"
        /\ \A p \in Participants : prow[p] \in Undone => prow'[p] \in Undone
    <2>1. prow \in [Participants -> RowStates]
      BY Zenon DEF Inv, TypeOK
    <2> QED
      BY <2>1
      DEF Participate, beginParticipantSession, discardParticipantSession,
          applyParticipantPrepare, applyParticipantCommit, applyParticipantRollback,
          Undone
  <1>3. set \subseteq Participants
    BY DEF Inv, TypeOK
  <1>4. /\ \A p \in set : prow[p] = "COMMITTED" => prow'[p] = "COMMITTED"
        /\ \A p \in set : prow[p] \in Undone => prow'[p] \in Undone
    BY <1>2, <1>3, Zenon
  <1>5. ASSUME NEW c \in Coordinators
        PROVE  MemSound(tx[c])' /\ CtlSound(tx[c], ctl[c], tasks[c])'
    <2>0. MemSound(tx[c]) /\ CtlSound(tx[c], ctl[c], tasks[c])
      BY Zenon DEF AnswerInv
    <2>1. MemSound(tx[c])'
      BY <1>1, <1>2, <2>0, Zenon DEF MemSound
    <2>2. CtlSound(tx[c], ctl[c], tasks[c])'
      BY <1>1, <1>4, <2>0, Zenon DEF CtlSound
    <2> QED
      BY <2>1, <2>2
  <1>6. Stands(told)'
    BY <1>1, <1>4, Zenon DEF AnswerInv, Stands
  <1> QED
    BY <1>1, <1>5, <1>6, Zenon DEF AnswerInv

LEMMA StutterAnswers ==
    ASSUME AnswerInv, UNCHANGED vars
    PROVE  AnswerInv'
  <1>1. UNCHANGED <<rowState, set, decision, prow, tx, ctl, tasks, told>>
    BY Zenon DEF vars, row, parts, memory
  <1> QED
    BY <1>1, Zenon DEF AnswerInv, MemSound, CtlSound, Stands

LEMMA NextAnswers ==
    ASSUME Inv, AnswerInv, [Next]_vars
    PROVE  AnswerInv'
  <1>1. CASE Client
    BY <1>1, BeginAnswers, EnlistAnswers, ClientEndAnswers, Zenon DEF Client
  <1>2. CASE participantsAdmitted \/ beginDone
    BY <1>2, AdmittedAnswers, BeginDoneAnswers, Zenon
  <1>3. CASE LandAny
    BY <1>3, LandAnswers, Zenon
  <1>4. ASSUME NEW c \in Coordinators, Continue(c)
        PROVE  AnswerInv'
    BY <1>4, SetStepAnswers, PrepareDoneAnswers, DecisionStepAnswers,
       CommitDoneAnswers, RollbackDoneAnswers, Zenon DEF Continue
  <1>5. ASSUME NEW c \in Coordinators,
               Call(c) \/ Recover(c) \/ crash(c) \/ deadlinePasses(c)
        PROVE  AnswerInv'
    BY <1>5, CallAnswers, RecoverAnswers, CrashAnswers, Zenon
  <1>6. ASSUME NEW p \in Participants, Participate(p)
        PROVE  AnswerInv'
    BY <1>6, ParticipateAnswers, Zenon
  <1>7. CASE UNCHANGED vars
    BY <1>7, StutterAnswers, Zenon
  <1> QED
    BY <1>1, <1>2, <1>3, <1>4, <1>5, <1>6, <1>7 DEF Next

LEMMA InitAnswers ==
    ASSUME Init
    PROVE  AnswerInv
  <1>1. PICK t : t = NoTransaction
    BY Zenon
  <1>2. /\ t.frozen = FALSE /\ t.decision = "NONE" /\ t.status = "ACTIVE"
        /\ t.part = [p \in Participants |-> "PENDING"]
    BY <1>1, Zenon DEF NoTransaction
  <1>3. \A p \in Participants : t.part[p] # "COMMITTED" /\ t.part[p] # "ROLLED_BACK"
    BY <1>2
  <1>4. MemSound(t)
    BY <1>2, <1>3, Zenon DEF MemSound
  <1>5. ASSUME NEW c \in Coordinators
        PROVE  tx[c] = t /\ ctl[c] = Idle /\ tasks[c] = {}
    BY <1>1, Zenon DEF Init
  <1>6. CtlSound(t, Idle, {})
    BY IdleAnswers, Zenon
  <1>7. \A c \in Coordinators : MemSound(tx[c]) /\ CtlSound(tx[c], ctl[c], tasks[c])
    BY <1>4, <1>5, <1>6, Zenon
  <1>8. Stands(told) /\ decision = "NONE"
    BY Zenon DEF Init, Stands
  <1> QED
    BY <1>7, <1>8, Zenon DEF AnswerInv

(***************************************************************************)
(* An answered success is final (endTransaction): whatever failed, crashed *)
(* or was retried before, a client told `committed' has every participant  *)
(* COMMITTED, and one told `rolled back' has none that can still commit.   *)
(***************************************************************************)
THEOREM AnswerTheorem == Spec => []AnsweredOutcomeStands
  <1>1. AnswerInv => AnsweredOutcomeStands
    BY Zenon DEF AnswerInv, Stands, Undone, AnsweredOutcomeStands
  <1>2. Inv /\ AnswerInv /\ [Next]_vars => (Inv /\ AnswerInv)'
    BY NextInv, NextAnswers, Zenon
  <1>3. Init => Inv /\ AnswerInv
    BY InitInv, InitAnswers, Zenon
  <1>4. Spec => [](Inv /\ AnswerInv)
    BY <1>2, <1>3, PTL DEF Spec
  <1> QED
    BY <1>1, <1>4, PTL
=============================================================================
