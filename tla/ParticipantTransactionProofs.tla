------------------- MODULE ParticipantTransactionProofs -------------------
(***************************************************************************)
(* Theorems about ParticipantTransaction, for any set of transactions,     *)
(* statements and replicas and any bounds.                                 *)
(***************************************************************************)
EXTENDS ParticipantTransaction, TLAPS

----------------------------------------------------------------------------
(* The apply operators keep the partition's durable state well typed.      *)

LEMMA SetRowType ==
    ASSUME NEW s \in State, NEW t \in Tx, NEW st \in RowState,
           NEW p \in Digest
    PROVE  SetRow(s, t, st, p) \in State
  BY Zenon DEF SetRow, State, Row

LEMMA GenerationType ==
    ASSUME NEW s \in State, NEW n \in Nat, NEW ws \in Seq(Tx \cup Writes)
    PROVE  [s EXCEPT !.g = n, !.writers = ws] \in State
  BY Zenon DEF State

LEMMA AdvanceType ==
    ASSUME NEW s \in State, NEW w \in Tx \cup Writes
    PROVE  advancePartitionWriteGeneration(s, w) \in State
  <1>1. Append(s.writers, w) \in Seq(Tx \cup Writes)
    BY DEF State
  <1>2. s.g + 1 \in Nat
    BY DEF State
  <1> QED
    BY Zenon, <1>1, <1>2, GenerationType DEF advancePartitionWriteGeneration

LEMMA StatementType ==
    ASSUME NEW s \in State, NEW c \in [type : {"QUERY"}, write : Writes]
    PROVE  applyCommittedStatement(s, c) \in State
  <1> DEFINE settled == [s EXCEPT !.settled = @ \cup {c.write}]
  <1>1. settled \in State
    BY Zenon DEF State
  <1>2. settled.runs[c.write] + 1 \in Nat
    BY <1>1 DEF State
  <1>3. [settled EXCEPT !.runs[c.write] = @ + 1] \in State
    <2> HIDE DEF settled
    <2> QED
      BY Zenon, <1>1, <1>2 DEF State
  <1> QED
    BY <1>1, <1>3, AdvanceType DEF applyCommittedStatement

LEMMA PrepareType ==
    ASSUME NEW s \in State,
           NEW c \in [type : {"PREPARE"}, tx : Tx, digest : Prepared]
    PROVE  applyParticipantPrepare(s, c) \in State
  BY SetRowType DEF applyParticipantPrepare, RowState, Digest

LEMMA DecisionType ==
    ASSUME NEW s \in State,
           NEW c \in [type : {"DECISION"}, tx : Tx,
                      decision : {"COMMIT", "ROLLBACK"}, digest : Digest]
    PROVE  applyParticipantDecision(s, c) \in State
  <1>1. s.rows[c.tx].digest \in Digest
    BY DEF State, Row
  <1>2. commitPrepared(s, c.tx) \in State
    BY <1>1, SetRowType, AdvanceType DEF commitPrepared, RowState
  <1> QED
    BY <1>1, <1>2, SetRowType DEF applyParticipantDecision, RowState

LEMMA OriginType ==
    ASSUME NEW s \in State, NEW i \in Nat
    PROVE  applyGenerationOrigin(s, i) \in State
  <1> DEFINE o == [s EXCEPT !.origin = i]
  <1>1. o \in State
    BY ZenonT(30) DEF State
  <1>2. <<>> \in Seq(Tx \cup Writes)
    OBVIOUS
  <1>3. [o EXCEPT !.g = 0, !.writers = <<>>]
            = [s EXCEPT !.origin = i, !.g = 0, !.writers = <<>>]
    BY DEF State
  <1> QED
    BY Zenon, <1>1, <1>2, <1>3, GenerationType DEF applyGenerationOrigin

LEMMA CommandCases ==
    ASSUME NEW c \in Commands
    PROVE  \/ c \in [type : {"PREPARE"}, tx : Tx, digest : Prepared]
           \/ c \in [type : {"DECISION"}, tx : Tx,
                     decision : {"COMMIT", "ROLLBACK"}, digest : Digest]
           \/ c \in [type : {"QUERY"}, write : Writes]
           \/ c = OriginCommand
  BY DEF Commands

LEMMA ApplyType ==
    ASSUME NEW s \in State, NEW c \in Commands, NEW i \in Nat
    PROVE  applyCommittedEntry(s, c, i) \in State
  <1>1. CASE c \in [type : {"PREPARE"}, tx : Tx, digest : Prepared]
    BY <1>1, PrepareType DEF applyCommittedEntry
  <1>2. CASE c \in [type : {"DECISION"}, tx : Tx,
                    decision : {"COMMIT", "ROLLBACK"}, digest : Digest]
    BY <1>2, DecisionType DEF applyCommittedEntry
  <1>3. CASE c \in [type : {"QUERY"}, write : Writes]
    BY <1>3, StatementType DEF applyCommittedEntry
  <1>4. CASE c = OriginCommand
    BY <1>4, OriginType DEF applyCommittedEntry, OriginCommand
  <1> QED
    BY <1>1, <1>2, <1>3, <1>4, CommandCases

----------------------------------------------------------------------------
(* Type correctness.                                                       *)

LEMMA DbType ==
    ASSUME TypeOK, NEW r \in Replicas
    PROVE  Db(r) \in State
  BY DEF TypeOK, Db

LEMMA DbIndex ==
    ASSUME TypeOK, NEW r \in Replicas
    PROVE  applied[r] + 1 \in 1..Len(states) /\ Db(r) = states[applied[r] + 1]
  BY DEF TypeOK, Db

LEMMA StatesLength ==
    ASSUME TypeOK
    PROVE  Len(states) \in Nat
  BY DEF TypeOK

LEMMA AppliedType ==
    ASSUME TypeOK, NEW r \in Replicas, NEW type, NextEntry(r, type)
    PROVE  /\ applied' \in [Replicas -> Nat]
           /\ \A x \in Replicas : applied'[x] <= Len(log)
  <1>1. /\ applied \in [Replicas -> Nat] /\ Len(log) \in Nat
        /\ \A x \in Replicas : applied[x] <= Len(log)
    BY DEF TypeOK
  <1>2. /\ applied[r] < Len(log)
        /\ applied' = [applied EXCEPT ![r] = applied[r] + 1]
    BY Zenon DEF NextEntry
  <1> QED
    BY <1>1, <1>2

LEMMA NextStateType ==
    ASSUME TypeOK, NEW r \in Replicas, applied[r] < Len(log)
    PROVE  /\ log[applied[r] + 1] \in Commands
           /\ states[applied[r] + 2] \in State
           /\ applied[r] + 2 \in 1..Len(states)
  BY DEF TypeOK

LEMMA PrepareCommandType ==
    ASSUME NEW c \in Commands, c.type = "PREPARE"
    PROVE  c \in [type : {"PREPARE"}, tx : Tx, digest : Prepared]
  BY CommandCases DEF OriginCommand

LEMMA EmptyLog == 1..Len(<<>>) = {}
  OBVIOUS

LEMMA PreparedRowFields ==
    ASSUME NEW p
    PROVE  /\ [state |-> "PREPARED", digest |-> p].state = "PREPARED"
           /\ [state |-> "PREPARED", digest |-> p].digest = p
  OBVIOUS

(* The entry a replica applies next, when it is a PREPARE.                 *)
LEMMA PrepareEntryType ==
    ASSUME TypeOK, NEW r \in Replicas, NextEntry(r, "PREPARE")
    PROVE  /\ applied[r] + 2 \in 1..Len(states)
           /\ log[applied[r] + 1]
                \in [type : {"PREPARE"}, tx : Tx, digest : Prepared]
           /\ log[applied[r] + 1].tx \in Tx
  <1>1. applied[r] < Len(log) /\ log[applied[r] + 1].type = "PREPARE"
    BY Zenon DEF NextEntry
  <1>2. log[applied[r] + 1] \in Commands /\ applied[r] + 2 \in 1..Len(states)
    BY Zenon, <1>1, NextStateType
  <1>3. log[applied[r] + 1]
           \in [type : {"PREPARE"}, tx : Tx, digest : Prepared]
    BY Zenon, <1>1, <1>2, PrepareCommandType
  <1> QED
    BY Zenon, <1>2, <1>3

LEMMA DbRowType ==
    ASSUME TypeOK, NEW r \in Replicas, NEW t \in Tx
    PROVE  /\ Db(r).rows[t].digest \in Digest
           /\ Db(r).g \in Nat
           /\ Db(r).origin \in Nat
  BY DbType DEF State, Row

LEMMA SealedPrepareType ==
    ASSUME TypeOK, NEW r \in Replicas, NEW t \in Tx,
           session[r][t].phase # "NONE"
    PROVE  SealedPrepare(r, t) \in Commands
  <1>1. session[r][t] \in [phase : {"ACTIVE", "PREPARING", "DOOMED"},
            ops : 0..MaxOps, base : Nat, origin : Nat \ {0}]
    BY DEF TypeOK, Session, NoSession
  <1> QED
    BY <1>1 DEF SealedPrepare, PrepareCommand, SealedContent, Prepared, Commands

LEMMA RecordedDecisionType ==
    ASSUME TypeOK, NEW t \in Tx, decision[t] # "NONE"
    PROVE  RecordedDecision(t) \in Commands
  BY DEF TypeOK, RecordedDecision, DecisionCommand, Commands

LEMMA SessionUpdateType ==
    ASSUME TypeOK, NEW r \in Replicas, NEW t \in Tx, NEW x \in Session,
           SetSession(r, t, x)
    PROVE  session' \in [Replicas -> [Tx -> Session]]
  BY DEF TypeOK, SetSession

LEMMA NoSessionType == NoSession \in Session
  BY DEF Session

LEMMA ProposeType ==
    ASSUME TypeOK, NEW r \in Replicas, NEW c \in Commands,
           proposeAdmitted(r, c)
    PROVE  /\ inFlight' \subseteq Commands
           /\ pending' \in [Replicas -> SUBSET Commands]
  BY DEF TypeOK, proposeAdmitted, Proposed

LEMMA InitTypeOK == Init => TypeOK
  <1> SUFFICES ASSUME Init PROVE TypeOK
    OBVIOUS
  <1>1. InitState \in State
    <2>1. <<>> \in Seq(Tx \cup Writes)
      OBVIOUS
    <2> QED
      BY <2>1, Zenon DEF InitState, State, Row, RowState, Digest
  <1>2. log \in Seq(Commands) /\ Len(log) = 0
    BY DEF Init
  <1>3. states \in Seq(State) /\ Len(states) = Len(log) + 1
    BY <1>1, <1>2 DEF Init
  <1> QED
    BY <1>1, <1>2, <1>3, NoSessionType DEF Init, TypeOK, Digest

LEMMA StepTypeOK == TypeOK /\ [Next]_vars => TypeOK'
  <1> SUFFICES ASSUME TypeOK, [Next]_vars PROVE TypeOK'
    OBVIOUS
  <1> USE DEF consensusVars, clientVars
  <1>1. ASSUME NEW t \in Tx, NEW d \in {"COMMIT", "ROLLBACK"}, Decide(t, d)
        PROVE  TypeOK'
    BY <1>1 DEF TypeOK, Decide
  <1>2. ASSUME NEW c \in inFlight, commitEntry(c)
        PROVE  TypeOK'
    <2>1. c \in Commands /\ Len(states) \in 1..Len(states)
      BY DEF TypeOK
    <2>2. applyCommittedEntry(states[Len(states)], c, Len(log) + 1) \in State
      <3>1. states[Len(states)] \in State /\ Len(log) + 1 \in Nat
        BY <2>1 DEF TypeOK
      <3> QED
        BY <2>1, <3>1, ApplyType
    <2>3. /\ log' \in Seq(Commands)
          /\ states' \in Seq(State)
          /\ Len(states') = Len(log') + 1
          /\ Len(log') = Len(log) + 1
      BY <1>2, <2>1, <2>2 DEF TypeOK, commitEntry
    <2>4. \A r \in Replicas : applied'[r] <= Len(log')
      BY <1>2, <2>3 DEF TypeOK, commitEntry
    <2> QED
      BY <1>2, <2>3, <2>4 DEF TypeOK, commitEntry
  <1>3. ASSUME NEW r \in Replicas, enableParticipantTransactionAdmission(r)
        PROVE  TypeOK'
    <2>1. OriginCommand \in Commands
      BY DEF Commands
    <2> QED
      BY <1>3, <2>1, ProposeType
      DEF TypeOK, enableParticipantTransactionAdmission
  <1>4. ASSUME NEW r \in Replicas, becomeLeader(r)
        PROVE  TypeOK'
    BY <1>4 DEF TypeOK, becomeLeader
  <1>5. ASSUME NEW r \in Replicas, releasePendingWrites(r)
        PROVE  TypeOK'
    BY <1>5, NoSessionType DEF TypeOK, releasePendingWrites
  <1>6. ASSUME NEW r \in Replicas, NEW c \in pending[r], commitDeadline(r, c)
        PROVE  TypeOK'
    BY <1>6 DEF TypeOK, commitDeadline
  <1>7. ASSUME NEW r \in Replicas, NEW w \in Writes,
               startAdmittedPartitionWrite(r, w)
        PROVE  TypeOK'
    <2>1. QueryCommand(w) \in Commands
      BY DEF Commands, QueryCommand
    <2>2. /\ inFlight' \subseteq Commands
          /\ pending' \in [Replicas -> SUBSET Commands]
          /\ parked' \in [Replicas -> SUBSET Commands]
          /\ answered' \subseteq Writes
      <3>1. CASE UNCHANGED <<inFlight, pending, parked>>
        BY <1>7, <3>1 DEF TypeOK, startAdmittedPartitionWrite
      <3>2. CASE proposeAdmitted(r, QueryCommand(w)) /\ UNCHANGED parked
        BY <1>7, <2>1, <3>2, ProposeType DEF TypeOK, startAdmittedPartitionWrite
      <3>3. CASE /\ pending' = [pending EXCEPT ![r] = @ \cup {QueryCommand(w)}]
                 /\ parked' = [parked EXCEPT ![r] = @ \cup {QueryCommand(w)}]
                 /\ UNCHANGED inFlight
        BY <1>7, <2>1, <3>3 DEF TypeOK, startAdmittedPartitionWrite
      <3> QED
        BY <1>7, <3>1, <3>2, <3>3 DEF startAdmittedPartitionWrite
    <2> QED
      BY <1>7, <2>2 DEF TypeOK, startAdmittedPartitionWrite
  <1>8. ASSUME NEW r \in Replicas, NEW t \in Tx, beginParticipantSession(r, t)
        PROVE  TypeOK'
    <2>1. Db(r).origin # 0 => [phase |-> "ACTIVE", ops |-> 0,
              base |-> Db(r).g, origin |-> Db(r).origin] \in Session
      BY DbRowType, ParticipantAssumption DEF Session
    <2>2. session' \in [Replicas -> [Tx -> Session]]
      BY <1>8, <2>1, SessionUpdateType, NoSessionType
      DEF TypeOK, beginParticipantSession, rowEndingSession
    <2>3. begun' \in [Tx -> BOOLEAN]
      BY Zenon, <1>8 DEF TypeOK, beginParticipantSession
    <2> QED
      BY <1>8, <2>2, <2>3 DEF TypeOK, beginParticipantSession
  <1>9. ASSUME NEW r \in Replicas, NEW t \in Tx, stageWrite(r, t)
        PROVE  TypeOK'
    <2>1. ASSUME session[r][t].phase = "ACTIVE"
          PROVE  /\ session[r][t].ops < MaxOps =>
                       [session[r][t] EXCEPT !.ops = @ + 1] \in Session
                 /\ [session[r][t] EXCEPT !.phase = "DOOMED"] \in Session
      <3>1. session[r][t] \in [phase : {"ACTIVE", "PREPARING", "DOOMED"},
                ops : 0..MaxOps, base : Nat, origin : Nat \ {0}]
        BY <2>1 DEF TypeOK, Session, NoSession
      <3> QED
        BY <3>1, ParticipantAssumption DEF Session
    <2>2. session' \in [Replicas -> [Tx -> Session]]
      BY <1>9, <2>1, SessionUpdateType, NoSessionType
      DEF stageWrite, rowEndingSession
    <2>3. sent' \in [Tx -> Nat] /\ acked' \in [Tx -> Nat]
      <3>1. acked[t] + 1 \in Nat
        BY DEF TypeOK
      <3>2. /\ [sent EXCEPT ![t] = acked[t] + 1] \in [Tx -> Nat]
            /\ [acked EXCEPT ![t] = @ + 1] \in [Tx -> Nat]
        BY <3>1 DEF TypeOK
      <3>3. /\ sent' \in {sent, [sent EXCEPT ![t] = acked[t] + 1]}
            /\ acked' \in {acked, [acked EXCEPT ![t] = @ + 1]}
        BY <1>9 DEF stageWrite
      <3> QED
        BY Zenon, <3>2, <3>3 DEF TypeOK
    <2> QED
      BY ZenonT(30), <1>9, <2>2, <2>3 DEF TypeOK, stageWrite
  <1>10. ASSUME NEW r \in Replicas, NEW t \in Tx, prepareParticipant(r, t)
         PROVE  TypeOK'
    <2>1. /\ inFlight' \subseteq Commands
          /\ pending' \in [Replicas -> SUBSET Commands]
          /\ session' \in [Replicas -> [Tx -> Session]]
      <3>1. CASE rowEndingSession(r, t) /\ UNCHANGED <<inFlight, pending>>
        BY <3>1, SessionUpdateType, NoSessionType DEF TypeOK, rowEndingSession
      <3>2. CASE sealSession(r, t)
        <4>1. session[r][t].phase = "ACTIVE" =>
                [session[r][t] EXCEPT !.phase = "PREPARING"] \in Session
          <5> SUFFICES ASSUME session[r][t].phase = "ACTIVE"
                       PROVE  [session[r][t] EXCEPT !.phase = "PREPARING"]
                                 \in Session
            OBVIOUS
          <5>1. session[r][t] \in [phase : {"ACTIVE", "PREPARING", "DOOMED"},
                    ops : 0..MaxOps, base : Nat, origin : Nat \ {0}]
            BY DEF TypeOK, Session, NoSession
          <5> QED
            BY <5>1 DEF Session
        <4> QED
          BY Zenon, <3>2, <4>1, SessionUpdateType, NoSessionType, ProposeType,
             SealedPrepareType
          DEF TypeOK, sealSession
      <3>3. CASE /\ session[r][t].phase = "PREPARING"
                 /\ proposeAdmitted(r, SealedPrepare(r, t))
                 /\ UNCHANGED session
        BY <3>3, ProposeType, SealedPrepareType DEF TypeOK
      <3> QED
        BY <1>10, <3>1, <3>2, <3>3 DEF prepareParticipant
    <2>2. evidence' \in [Tx -> Digest]
      BY ZenonT(60), <1>10, DbRowType
      DEF TypeOK, prepareParticipant, AnswerPrepared
    <2>3. frozen' \in [Tx -> BOOLEAN]
      BY <1>10 DEF TypeOK, prepareParticipant
    <2> QED
      BY ZenonT(30), <1>10, <2>1, <2>2, <2>3 DEF TypeOK, prepareParticipant
  <1>11. ASSUME NEW r \in Replicas, NEW t \in Tx, decideParticipant(r, t)
         PROVE  TypeOK'
    <2>1. /\ inFlight' \subseteq Commands
          /\ pending' \in [Replicas -> SUBSET Commands]
          /\ session' \in [Replicas -> [Tx -> Session]]
      BY <1>11, SessionUpdateType, NoSessionType, ProposeType,
         RecordedDecisionType
      DEF TypeOK, decideParticipant, rowEndingSession
    <2> QED
      BY ZenonT(30), <1>11, <2>1 DEF TypeOK, decideParticipant
  <1>12. ASSUME NEW r \in Replicas, NEW t \in Tx,
                sweepExpiredParticipantSessions(r, t)
         PROVE  TypeOK'
    <2>1. session' \in [Replicas -> [Tx -> Session]]
      BY <1>12, SessionUpdateType, NoSessionType
      DEF sweepExpiredParticipantSessions
    <2> QED
      BY <1>12, <2>1 DEF TypeOK, sweepExpiredParticipantSessions
  <1>13. ASSUME NEW r \in Replicas, Apply(r)
         PROVE  TypeOK'
    <2>1. CASE applyPrepareEntry(r)
      <3> DEFINE c == log[applied[r] + 1]
      <3>1. c \in [type : {"PREPARE"}, tx : Tx, digest : Prepared]
        BY Zenon, <2>1, PrepareEntryType DEF applyPrepareEntry
      <3>2. session' \in [Replicas -> [Tx -> Session]]
        BY <2>1, <3>1, SessionUpdateType, NoSessionType
        DEF TypeOK, applyPrepareEntry
      <3>3. evidence' \in [Tx -> Digest]
        BY ZenonT(60), <2>1, <3>1
        DEF TypeOK, applyPrepareEntry, AnswerPrepared, Digest
      <3>4. /\ applied' \in [Replicas -> Nat]
            /\ \A x \in Replicas : applied'[x] <= Len(log)
        BY Zenon, <2>1, AppliedType DEF applyPrepareEntry
      <3> QED
        BY ZenonT(60), <2>1, <3>2, <3>3, <3>4 DEF TypeOK, applyPrepareEntry
    <2>2. CASE applyDecisionEntry(r)
      <3>1. /\ applied' \in [Replicas -> Nat]
            /\ \A x \in Replicas : applied'[x] <= Len(log)
        BY Zenon, <2>2, AppliedType DEF applyDecisionEntry
      <3> QED
        BY Zenon, <2>2, <3>1 DEF TypeOK, applyDecisionEntry, Proposed
    <2>3. CASE applyStatementEntry(r)
      <3>1. /\ applied' \in [Replicas -> Nat]
            /\ \A x \in Replicas : applied'[x] <= Len(log)
        BY Zenon, <2>3, AppliedType DEF applyStatementEntry
      <3>2. log[applied[r] + 1] \in [type : {"QUERY"}, write : Writes]
        BY <2>3, NextStateType, CommandCases
        DEF applyStatementEntry, NextEntry, OriginCommand
      <3>3. /\ pending' \in [Replicas -> SUBSET Commands]
            /\ parked' \in [Replicas -> SUBSET Commands]
            /\ answered' \subseteq Writes
        <4> DEFINE own == Own(r, log[applied[r] + 1])
        <4>1. own \subseteq pending[r]
          BY DEF Own
        <4>2. \/ /\ pending' = [pending EXCEPT ![r] = @ \ own]
                 /\ answered' \in {answered,
                        answered \cup {log[applied[r] + 1].write}}
                 /\ UNCHANGED parked
              \/ /\ parked' = [parked EXCEPT ![r] = @ \cup own]
                 /\ UNCHANGED <<pending, answered>>
          BY <2>3 DEF applyStatementEntry
        <4> QED
          BY ZenonT(60), <3>2, <4>1, <4>2 DEF TypeOK
      <3> QED
        BY <2>3, <3>1, <3>3 DEF TypeOK, applyStatementEntry
    <2>4. CASE applyOriginEntry(r)
      <3>1. /\ applied' \in [Replicas -> Nat]
            /\ \A x \in Replicas : applied'[x] <= Len(log)
        BY Zenon, <2>4, AppliedType DEF applyOriginEntry
      <3> QED
        BY Zenon, <2>4, <3>1 DEF TypeOK, applyOriginEntry
    <2> QED
      BY <1>13, <2>1, <2>2, <2>3, <2>4 DEF Apply
  <1>14. CASE UNCHANGED vars
    BY <1>14 DEF TypeOK, vars
  <1> QED
    BY <1>1, <1>2, <1>3, <1>4, <1>5, <1>6, <1>7, <1>8, <1>9, <1>10, <1>11,
       <1>12, <1>13, <1>14 DEF Next

(* Every state the partition can reach is well typed; in particular every  *)
(* session and every prepared row counts its base from a recorded origin   *)
(* (beginRefusalOf refuses a BEGIN until the origin has applied).          *)
THEOREM TypeCorrect == Spec => []TypeOK
  BY InitTypeOK, StepTypeOK, PTL DEF Spec

----------------------------------------------------------------------------
(* What one committed entry does to the rows.  A PREPARED row is alone, g  *)
(* and the origin are those it validated, and its statements run.          *)

ReservationSound(s) ==
    \A t \in Tx : s.rows[t].state = "PREPARED" =>
        /\ s.rows[t].digest \in Prepared
        /\ validationHolds(s, s.rows[t].digest)
        /\ t \notin Failing
        /\ \A u \in Tx \ {t} : s.rows[u].state # "PREPARED"

RowsStand(s, z) ==
    \A t \in Tx :
        /\ s.rows[t].state \in Terminal => z.rows[t] = s.rows[t]
        /\ s.rows[t].state = "PREPARED"
            => /\ z.rows[t].digest = s.rows[t].digest
               /\ z.rows[t].state \in {"PREPARED", "COMMITTED", "ROLLED_BACK"}

(* A row is decided only by a decision command of its transaction.         *)
DecidedBy(s, c, z) ==
    \A t \in Tx :
        /\ z.rows[t].state = "COMMITTED" =>
              \/ s.rows[t].state = "COMMITTED"
              \/ c.type = "DECISION" /\ c.tx = t /\ c.decision = "COMMIT"
        /\ z.rows[t].state = "ROLLED_BACK" =>
              \/ s.rows[t].state = "ROLLED_BACK"
              \/ c.type = "DECISION" /\ c.tx = t /\ c.decision = "ROLLBACK"

StepSound(s, c, z) ==
    ReservationSound(z) /\ RowsStand(s, z) /\ DecidedBy(s, c, z)

LEMMA SetRowFields ==
    ASSUME NEW s \in State, NEW t \in Tx, NEW st, NEW p
    PROVE  /\ SetRow(s, t, st, p).rows[t] = [state |-> st, digest |-> p]
           /\ \A u \in Tx \ {t} : SetRow(s, t, st, p).rows[u] = s.rows[u]
           /\ SetRow(s, t, st, p).g = s.g
           /\ SetRow(s, t, st, p).origin = s.origin
  BY DEF SetRow, State

LEMMA AdvanceFields ==
    ASSUME NEW s \in State, NEW w
    PROVE  /\ advancePartitionWriteGeneration(s, w).rows = s.rows
           /\ advancePartitionWriteGeneration(s, w).g = s.g + 1
           /\ advancePartitionWriteGeneration(s, w).origin = s.origin
  BY DEF advancePartitionWriteGeneration, State

LEMMA SameSound ==
    ASSUME NEW s \in State, ReservationSound(s), NEW c
    PROVE  StepSound(s, c, s)
  BY DEF StepSound, RowsStand, DecidedBy

LEMMA PrepareSound ==
    ASSUME NEW s \in State, ReservationSound(s),
           NEW c \in [type : {"PREPARE"}, tx : Tx, digest : Prepared]
    PROVE  StepSound(s, c, applyParticipantPrepare(s, c))
  <1> DEFINE z == applyParticipantPrepare(s, c)
  <1>1. CASE z = s
    BY <1>1, SameSound
  <1>2. CASE /\ z = SetRow(s, c.tx, "PREPARED", c.digest)
             /\ s.rows[c.tx].state = "ABSENT"
             /\ ~ ReservedRefusal(s, c)
             /\ validationHolds(s, c.digest)
             /\ c.tx \notin Failing
    <2>1. \A u \in Tx : s.rows[u].state # "PREPARED"
      BY <1>2 DEF ReservedRefusal, isPartitionReserved, validationHolds
    <2>2. /\ z.rows[c.tx] = [state |-> "PREPARED", digest |-> c.digest]
          /\ \A u \in Tx \ {c.tx} : z.rows[u] = s.rows[u]
          /\ z.g = s.g /\ z.origin = s.origin
      BY <1>2, SetRowFields
    <2> SUFFICES StepSound(s, c, z)
      OBVIOUS
    <2> HIDE DEF z
    <2> QED
      BY <1>2, <2>1, <2>2
      DEF StepSound, ReservationSound, RowsStand, DecidedBy, validationHolds,
          Terminal
  <1>3. CASE /\ z = SetRow(s, c.tx, "REFUSED", c.digest)
             /\ s.rows[c.tx].state = "ABSENT"
    <2>1. /\ z.rows[c.tx] = [state |-> "REFUSED", digest |-> c.digest]
          /\ \A u \in Tx \ {c.tx} : z.rows[u] = s.rows[u]
          /\ z.g = s.g /\ z.origin = s.origin
      BY <1>3, SetRowFields
    <2> SUFFICES StepSound(s, c, z)
      OBVIOUS
    <2> HIDE DEF z
    <2> QED
      BY <1>3, <2>1
      DEF StepSound, ReservationSound, RowsStand, DecidedBy, validationHolds,
          Terminal
  <1> QED
    BY <1>1, <1>2, <1>3 DEF applyParticipantPrepare

LEMMA DecisionSound ==
    ASSUME NEW s \in State, ReservationSound(s),
           NEW c \in [type : {"DECISION"}, tx : Tx,
                      decision : {"COMMIT", "ROLLBACK"}, digest : Digest]
    PROVE  StepSound(s, c, applyParticipantDecision(s, c))
  <1> DEFINE z == applyParticipantDecision(s, c)
             p == s.rows[c.tx].digest
  <1>1. CASE z = s
    BY ZenonT(30), <1>1, SameSound
  <1>2. CASE /\ s.rows[c.tx].state = "ABSENT" /\ c.decision = "ROLLBACK"
             /\ z = SetRow(s, c.tx, "ROLLED_BACK", c.digest)
    <2>1. /\ z.rows[c.tx] = [state |-> "ROLLED_BACK", digest |-> c.digest]
          /\ \A u \in Tx \ {c.tx} : z.rows[u] = s.rows[u]
          /\ z.g = s.g /\ z.origin = s.origin
      BY <1>2, SetRowFields
    <2> SUFFICES StepSound(s, c, z)
      OBVIOUS
    <2> HIDE DEF z
    <2> QED
      BY <1>2, <2>1
      DEF StepSound, ReservationSound, RowsStand, DecidedBy, validationHolds,
          Terminal
  <1>3. CASE s.rows[c.tx].state = "PREPARED" /\ z # s
    <2>1. \A u \in Tx \ {c.tx} : s.rows[u].state # "PREPARED"
      BY <1>3 DEF ReservationSound
    <2>2. validationHolds(s, p) /\ c.tx \notin Failing
      BY <1>3 DEF ReservationSound
    <2>3. CASE c.decision = "ROLLBACK"
      <3>1. z = SetRow(s, c.tx, "ROLLED_BACK", p)
        BY <1>3, <2>3 DEF applyParticipantDecision
      <3>2. /\ z.rows[c.tx] = [state |-> "ROLLED_BACK", digest |-> p]
            /\ \A u \in Tx \ {c.tx} : z.rows[u] = s.rows[u]
            /\ z.g = s.g /\ z.origin = s.origin
        BY <3>1, SetRowFields
      <3> SUFFICES StepSound(s, c, z)
        OBVIOUS
      <3> HIDE DEF z
      <3> QED
        BY <1>3, <2>1, <2>3, <3>2
        DEF StepSound, ReservationSound, RowsStand, DecidedBy, Terminal
    <2>4. CASE c.decision = "COMMIT"
      <3> DEFINE k == SetRow(s, c.tx, "COMMITTED", p)
      <3>1. z \in {k, advancePartitionWriteGeneration(k, c.tx)}
        BY <1>3, <2>2, <2>4 DEF applyParticipantDecision, commitPrepared
      <3>2. k \in State
        BY ZenonT(60), SetRowType DEF State, Row, RowState
      <3>3. z.rows = k.rows
        <4> HIDE DEF z, k
        <4> QED
          BY <3>1, <3>2, AdvanceFields
      <3>4. /\ k.rows[c.tx] = [state |-> "COMMITTED", digest |-> p]
            /\ \A u \in Tx \ {c.tx} : k.rows[u] = s.rows[u]
        BY SetRowFields
      <3> SUFFICES StepSound(s, c, z)
        OBVIOUS
      <3> HIDE DEF z, k
      <3> QED
        BY <1>3, <2>1, <2>4, <3>3, <3>4
        DEF StepSound, ReservationSound, RowsStand, DecidedBy, Terminal
    <2> QED
      BY <2>3, <2>4
  <1> QED
    BY <1>1, <1>2, <1>3 DEF applyParticipantDecision

LEMMA StatementSound ==
    ASSUME NEW s \in State, ReservationSound(s),
           NEW c \in [type : {"QUERY"}, write : Writes]
    PROVE  StepSound(s, c, applyCommittedStatement(s, c))
  <1> DEFINE z == applyCommittedStatement(s, c)
             k == [s EXCEPT !.settled = @ \cup {c.write}]
             n == [k EXCEPT !.runs[c.write] = @ + 1]
  <1>1. CASE z = s
    BY <1>1, SameSound
  <1>2. CASE ~ isPartitionReserved(s)
    <2>1. k \in State /\ k.rows = s.rows
      BY Zenon DEF State
    <2>2. n.rows = s.rows
      BY DEF State
    <2>3. n \in State
      <3>1. k.runs[c.write] + 1 \in Nat
        BY <2>1 DEF State
      <3> HIDE DEF k
      <3> QED
        BY Zenon, <2>1, <3>1 DEF State
    <2>4. z \in {s, k, advancePartitionWriteGeneration(n, c.write)}
      BY DEF applyCommittedStatement
    <2>5. z.rows = s.rows
      <3> HIDE DEF z, k, n
      <3> QED
        BY <2>1, <2>2, <2>3, <2>4, AdvanceFields
    <2> SUFFICES StepSound(s, c, z)
      OBVIOUS
    <2> HIDE DEF z
    <2> QED
      BY <1>2, <2>5
      DEF StepSound, ReservationSound, RowsStand, DecidedBy,
          isPartitionReserved, Terminal
  <1> QED
    BY <1>1, <1>2 DEF applyCommittedStatement

LEMMA OriginSound ==
    ASSUME NEW s \in State, ReservationSound(s), NEW i \in Nat
    PROVE  StepSound(s, OriginCommand, applyGenerationOrigin(s, i))
  <1> DEFINE z == applyGenerationOrigin(s, i)
  <1>1. CASE s.origin # 0
    BY <1>1, SameSound DEF applyGenerationOrigin
  <1>2. CASE s.origin = 0
    <2>1. \A t \in Tx : s.rows[t].state # "PREPARED"
      BY <1>2 DEF ReservationSound, validationHolds, Prepared
    <2>2. z.rows = s.rows
      BY <1>2 DEF applyGenerationOrigin, State
    <2> SUFFICES StepSound(s, OriginCommand, z)
      OBVIOUS
    <2> HIDE DEF z
    <2> QED
      BY <2>1, <2>2 DEF StepSound, ReservationSound, RowsStand, DecidedBy
  <1> QED
    BY <1>1, <1>2

LEMMA ApplySound ==
    ASSUME NEW s \in State, ReservationSound(s), NEW c \in Commands,
           NEW i \in Nat
    PROVE  StepSound(s, c, applyCommittedEntry(s, c, i))
  <1>1. CASE c \in [type : {"PREPARE"}, tx : Tx, digest : Prepared]
    BY <1>1, PrepareSound DEF applyCommittedEntry
  <1>2. CASE c \in [type : {"DECISION"}, tx : Tx,
                    decision : {"COMMIT", "ROLLBACK"}, digest : Digest]
    BY <1>2, DecisionSound DEF applyCommittedEntry
  <1>3. CASE c \in [type : {"QUERY"}, write : Writes]
    BY <1>3, StatementSound DEF applyCommittedEntry
  <1>4. CASE c = OriginCommand
    BY <1>4, OriginSound DEF applyCommittedEntry, OriginCommand
  <1> QED
    BY <1>1, <1>2, <1>3, <1>4, CommandCases

----------------------------------------------------------------------------
(* The inductive invariant.  LogSound speaks of the states the committed   *)
(* log produces; DecisionSoundness ties them to what the coordinator holds *)
(* and to the decisions that are on their way.                             *)

LogSound ==
    /\ \A i \in 1..Len(states) : ReservationSound(states[i])
    /\ TerminalRowsStand

ParkedStatements ==
    \A r \in Replicas : \A c \in parked[r] : c.type = "QUERY"

InFlightRecorded ==
    \A c \in inFlight : c.type = "DECISION" =>
        decision[c.tx] # "NONE" /\ c = RecordedDecision(c.tx)

CommitNeedsEvidence ==
    \A t \in Tx : decision[t] = "COMMIT" => evidence[t] # NoDigest

EvidencePrepared ==
    \A t \in Tx : evidence[t] # NoDigest =>
        /\ LastState.rows[t].digest = evidence[t]
        /\ LastState.rows[t].state \in {"PREPARED", "COMMITTED", "ROLLED_BACK"}

RowsDecided ==
    \A t \in Tx :
        /\ LastState.rows[t].state = "COMMITTED" => decision[t] = "COMMIT"
        /\ LastState.rows[t].state = "ROLLED_BACK" => decision[t] = "ROLLBACK"

DecisionSoundness ==
    /\ ParkedStatements
    /\ InFlightRecorded
    /\ CommitNeedsEvidence
    /\ EvidencePrepared
    /\ RowsDecided
    /\ CommitInfallible

LEMMA RowsStandCompose ==
    ASSUME NEW s, NEW z, NEW y, RowsStand(s, z), RowsStand(z, y)
    PROVE  RowsStand(s, y)
  BY DEF RowsStand, Terminal

LEMMA LogSoundCommit ==
    ASSUME TypeOK, LogSound, NEW c \in inFlight, commitEntry(c)
    PROVE  /\ LogSound'
           /\ StepSound(LastState, c, LastState')
           /\ LastState' = applyCommittedEntry(LastState, c, Len(log) + 1)
  <1> DEFINE z == applyCommittedEntry(LastState, c, Len(log) + 1)
             n == Len(states)
  <1>1. c \in Commands /\ n \in Nat /\ n \in 1..n /\ Len(log) + 1 \in Nat
    BY DEF TypeOK
  <1>2. LastState \in State /\ ReservationSound(LastState)
    BY <1>1 DEF TypeOK, LastState, LogSound
  <1>3. StepSound(LastState, c, z)
    BY <1>1, <1>2, ApplySound
  <1>4. /\ Len(states') = n + 1
        /\ states'[n + 1] = z
        /\ \A i \in 1..n : states'[i] = states[i]
    BY <1>1 DEF TypeOK, commitEntry, LastState
  <1>5. LastState' = z
    BY <1>4 DEF LastState
  <1> HIDE DEF z
  <1>6. \A i \in 1..Len(states') : ReservationSound(states'[i])
    BY <1>1, <1>3, <1>4 DEF LogSound, StepSound
  <1>7. \A i \in 1..n : RowsStand(states[i], z)
    <2> SUFFICES ASSUME NEW i \in 1..n PROVE RowsStand(states[i], z)
      OBVIOUS
    <2>1. CASE i = n
      BY <2>1, <1>3 DEF StepSound, LastState
    <2>2. CASE i < n
      <3>1. RowsStand(states[i], states[n])
        BY <2>2, <1>1 DEF LogSound, TerminalRowsStand, RowsStand
      <3> QED
        BY <3>1, <1>3, RowsStandCompose DEF StepSound, LastState
    <2> QED
      BY <2>1, <2>2, <1>1
  <1>8. TerminalRowsStand'
    <2> SUFFICES ASSUME NEW i \in 1..Len(states'), NEW j \in 1..Len(states'),
                        i < j
                 PROVE  RowsStand(states'[i], states'[j])
      BY DEF TerminalRowsStand, RowsStand
    <2>1. CASE j = n + 1
      BY <1>1, <1>4, <1>7, <2>1
    <2>2. CASE j \in 1..n
      <3>0. i \in 1..Len(states) /\ j \in 1..Len(states)
        BY <1>1, <2>2
      <3>1. RowsStand(states[i], states[j])
        BY Zenon, <3>0 DEF LogSound, TerminalRowsStand, RowsStand
      <3> QED
        BY <1>1, <1>4, <2>2, <3>1
    <2> QED
      BY <1>1, <1>4, <2>1, <2>2
  <1> QED
    BY <1>3, <1>5, <1>6, <1>8 DEF LogSound, z

LEMMA LogSoundStill ==
    ASSUME LogSound, UNCHANGED states
    PROVE  LogSound'
  BY DEF LogSound, ReservationSound, TerminalRowsStand

(* A step that is not a commit leaves the committed log and its states.    *)
LEMMA QuietLog ==
    ASSUME TypeOK, [Next]_vars
    PROVE  UNCHANGED <<log, states>> \/ \E c \in inFlight : commitEntry(c)
  <1> USE DEF consensusVars
  <1>1. ASSUME NEW r \in Replicas, Apply(r) PROVE UNCHANGED <<log, states>>
    BY ZenonT(60), <1>1 DEF Apply, applyPrepareEntry, applyDecisionEntry,
                applyStatementEntry, applyOriginEntry
  <1>2. ASSUME NEW r \in Replicas,
               \/ enableParticipantTransactionAdmission(r)
               \/ becomeLeader(r)
               \/ releasePendingWrites(r)
               \/ \E c \in pending[r] : commitDeadline(r, c)
               \/ \E w \in Writes : startAdmittedPartitionWrite(r, w)
        PROVE  UNCHANGED <<log, states>>
    BY <1>2 DEF enableParticipantTransactionAdmission,
                becomeLeader, releasePendingWrites, commitDeadline,
                startAdmittedPartitionWrite
  <1>3. ASSUME NEW r \in Replicas, NEW t \in Tx,
               \/ beginParticipantSession(r, t)
               \/ stageWrite(r, t)
               \/ prepareParticipant(r, t)
               \/ decideParticipant(r, t)
               \/ sweepExpiredParticipantSessions(r, t)
        PROVE  UNCHANGED <<log, states>>
    BY <1>3 DEF beginParticipantSession, stageWrite,
                prepareParticipant, decideParticipant,
                sweepExpiredParticipantSessions
  <1>4. ASSUME NEW t \in Tx, NEW d \in {"COMMIT", "ROLLBACK"}, Decide(t, d)
        PROVE  UNCHANGED <<log, states>>
    BY <1>4 DEF Decide
  <1>5. UNCHANGED vars => UNCHANGED <<log, states>>
    BY DEF vars
  <1> QED
    BY <1>1, <1>2, <1>3, <1>4, <1>5 DEF Next

LEMMA LogSoundStep ==
    TypeOK /\ LogSound /\ [Next]_vars => LogSound'
  <1> SUFFICES ASSUME TypeOK, LogSound, [Next]_vars PROVE LogSound'
    OBVIOUS
  <1>1. ASSUME NEW c \in inFlight, commitEntry(c) PROVE LogSound'
    BY ZenonT(30), <1>1, LogSoundCommit
  <1>2. CASE UNCHANGED <<log, states>>
    BY Zenon, <1>2, LogSoundStill
  <1> QED
    BY Zenon, <1>1, <1>2, QuietLog

LEMMA LogSoundInit == Init => LogSound
  <1> SUFFICES ASSUME Init PROVE LogSound
    OBVIOUS
  <1>1. Len(states) = 1 /\ states[1] = InitState
    BY DEF Init
  <1>2. \A t \in Tx : InitState.rows[t].state = "ABSENT"
    BY DEF InitState
  <1> QED
    BY <1>1, <1>2 DEF LogSound, ReservationSound, TerminalRowsStand

(* A PREPARED row is alone on its partition and g and the origin stay at   *)
(* the ones it validated, so nothing can commit between its PREPARE and    *)
(* its COMMIT (isPartitionReserved, settleReservedCommittedStatement).     *)
THEOREM ReservationTheorem == Spec => []ReservationHoldsGeneration
  <1>1. LogSound => ReservationHoldsGeneration
    BY DEF LogSound, ReservationSound, ReservationHoldsGeneration
  <1> QED
    BY <1>1, InitTypeOK, StepTypeOK, LogSoundInit, LogSoundStep, PTL DEF Spec

(* A terminal row never changes and a PREPARED row never becomes REFUSED   *)
(* (the guards of prepareOverRow, decideAbsent and DECISION_OVER_STATE).   *)
THEOREM TerminalTheorem == Spec => []TerminalRowsStand
  <1>1. LogSound => TerminalRowsStand
    BY DEF LogSound
  <1> QED
    BY <1>1, InitTypeOK, StepTypeOK, LogSoundInit, LogSoundStep, PTL DEF Spec

----------------------------------------------------------------------------
(* COMMIT is infallible: its decision carries the evidence of a PREPARE,   *)
(* and the row that evidence names is still PREPARED or already COMMITTED. *)

LEMMA DecisionCommandType ==
    ASSUME NEW c \in Commands, c.type = "DECISION"
    PROVE  c \in [type : {"DECISION"}, tx : Tx,
                  decision : {"COMMIT", "ROLLBACK"}, digest : Digest]
  BY CommandCases DEF OriginCommand

LEMMA DecisionCommandTx ==
    ASSUME TypeOK, NEW c \in inFlight, c.type = "DECISION"
    PROVE  c.tx \in Tx
  <1>1. c \in Commands
    BY Zenon DEF TypeOK
  <1> QED
    BY Zenon, <1>1, DecisionCommandType

LEMMA LastKeepsPrepared ==
    ASSUME TypeOK, LogSound, NEW i \in 1..Len(states), NEW t \in Tx,
           states[i].rows[t].state = "PREPARED"
    PROVE  /\ LastState.rows[t].digest = states[i].rows[t].digest
           /\ LastState.rows[t].state \in {"PREPARED", "COMMITTED", "ROLLED_BACK"}
  <1>1. i = Len(states) \/ (i < Len(states) /\ Len(states) \in 1..Len(states))
    BY StatesLength
  <1> QED
    BY <1>1 DEF LogSound, TerminalRowsStand, LastState

(* Evidence is taken only of a row that is PREPARED on some replica, and   *)
(* only before the decision.                                               *)
EvidenceTaken ==
    \/ UNCHANGED evidence
    \/ \E t \in Tx :
          /\ decision[t] = "NONE"
          /\ \E i \in 1..Len(states) :
                /\ states[i].rows[t].state = "PREPARED"
                /\ evidence' = [evidence EXCEPT ![t] = states[i].rows[t].digest]

LEMMA EvidenceStep ==
    ASSUME TypeOK, LogSound, DecisionSoundness, EvidenceTaken,
           UNCHANGED <<log, states, decision>>
    PROVE  /\ CommitNeedsEvidence'
           /\ EvidencePrepared'
           /\ RowsDecided'
           /\ CommitInfallible'
           /\ \A t \in Tx : decision[t] # "NONE" =>
                 RecordedDecision(t)' = RecordedDecision(t)
  <1>1. CASE UNCHANGED evidence
    BY <1>1 DEF DecisionSoundness, CommitNeedsEvidence, EvidencePrepared,
                RowsDecided, CommitInfallible, LastState, RecordedDecision
  <1>2. ASSUME NEW t \in Tx, decision[t] = "NONE",
               NEW i \in 1..Len(states), states[i].rows[t].state = "PREPARED",
               evidence' = [evidence EXCEPT ![t] = states[i].rows[t].digest]
        PROVE  /\ CommitNeedsEvidence'
               /\ EvidencePrepared'
               /\ \A u \in Tx : decision[u] # "NONE" =>
                     RecordedDecision(u)' = RecordedDecision(u)
    <2>1. /\ evidence'[t] = states[i].rows[t].digest
          /\ \A u \in Tx \ {t} : evidence'[u] = evidence[u]
      BY <1>2 DEF TypeOK
    <2>2. LastState' = LastState
      BY DEF LastState
    <2>3. /\ LastState.rows[t].digest = states[i].rows[t].digest
          /\ LastState.rows[t].state \in {"PREPARED", "COMMITTED", "ROLLED_BACK"}
      BY Zenon, <1>2, LastKeepsPrepared
    <2>4. CommitNeedsEvidence'
      BY <1>2, <2>1 DEF DecisionSoundness, CommitNeedsEvidence
    <2>5. EvidencePrepared'
      BY <2>1, <2>2, <2>3 DEF DecisionSoundness, EvidencePrepared
    <2>6. \A u \in Tx : decision[u] # "NONE" =>
             RecordedDecision(u)' = RecordedDecision(u)
      BY <1>2, <2>1 DEF RecordedDecision
    <2> QED
      BY <2>4, <2>5, <2>6
  <1>3. RowsDecided' /\ CommitInfallible'
    BY DEF DecisionSoundness, RowsDecided, CommitInfallible, LastState
  <1> QED
    BY <1>1, <1>2, <1>3 DEF EvidenceTaken

(* A step that leaves the log and the decisions alone, takes evidence as   *)
(* above and puts no other decision in flight keeps the invariant.         *)
LEMMA QuietStep ==
    ASSUME TypeOK, LogSound, DecisionSoundness, EvidenceTaken,
           UNCHANGED <<log, states, decision>>,
           \A c \in inFlight' :
               \/ c \in inFlight
               \/ c.type # "DECISION"
               \/ decision[c.tx] # "NONE" /\ c = RecordedDecision(c.tx)
                     /\ c.tx \in Tx,
           ParkedStatements'
    PROVE  DecisionSoundness'
  <1>1. InFlightRecorded'
    <2> SUFFICES ASSUME NEW c \in inFlight', c.type = "DECISION"
                 PROVE  decision'[c.tx] # "NONE" /\ c = RecordedDecision(c.tx)'
      BY DEF InFlightRecorded
    <2>1. c.tx \in Tx /\ decision[c.tx] # "NONE" /\ c = RecordedDecision(c.tx)
      <3>1. CASE c \in inFlight
        <4>1. c.tx \in Tx
          BY <3>1, DecisionCommandType DEF TypeOK
        <4> QED
          BY <3>1, <4>1 DEF DecisionSoundness, InFlightRecorded
      <3> QED
        BY <3>1
    <2> QED
      BY <2>1, EvidenceStep
  <1> QED
    BY <1>1, EvidenceStep DEF DecisionSoundness

LEMMA CommitStep ==
    ASSUME TypeOK, LogSound, DecisionSoundness, NEW c \in inFlight,
           commitEntry(c)
    PROVE  DecisionSoundness'
  <1> USE DEF clientVars
  <1>1. /\ UNCHANGED <<parked, decision, evidence>>
        /\ inFlight' \subseteq inFlight
    BY DEF commitEntry
  <1>2. StepSound(LastState, c, LastState')
    BY LogSoundCommit
  <1>3. ParkedStatements' /\ CommitNeedsEvidence'
    BY <1>1 DEF DecisionSoundness, ParkedStatements, CommitNeedsEvidence
  <1>4. InFlightRecorded'
    BY <1>1 DEF DecisionSoundness, InFlightRecorded, RecordedDecision
  <1>5. c.type = "DECISION" =>
           /\ c \in [type : {"DECISION"}, tx : Tx,
                     decision : {"COMMIT", "ROLLBACK"}, digest : Digest]
           /\ c.decision = decision[c.tx]
           /\ c.digest = evidence[c.tx]
    <2>1. c \in Commands
      BY DEF TypeOK
    <2>2. c.type = "DECISION" =>
             c = [type |-> "DECISION", tx |-> c.tx, decision |-> decision[c.tx],
                  digest |-> evidence[c.tx]]
      BY DEF DecisionSoundness, InFlightRecorded, RecordedDecision,
             DecisionCommand
    <2> QED
      BY <2>1, <2>2, DecisionCommandType
  <1>6. EvidencePrepared'
    <2> SUFFICES ASSUME NEW t \in Tx, evidence[t] # NoDigest
                 PROVE  /\ LastState'.rows[t].digest = evidence[t]
                        /\ LastState'.rows[t].state
                              \in {"PREPARED", "COMMITTED", "ROLLED_BACK"}
      BY <1>1 DEF EvidencePrepared
    <2>1. /\ LastState.rows[t].digest = evidence[t]
          /\ LastState.rows[t].state \in {"PREPARED", "COMMITTED", "ROLLED_BACK"}
      BY DEF DecisionSoundness, EvidencePrepared
    <2> QED
      BY <1>2, <2>1 DEF StepSound, RowsStand, Terminal
  <1>7. RowsDecided'
    BY <1>1, <1>2, <1>5 DEF DecisionSoundness, RowsDecided, StepSound, DecidedBy
  <1>8. c.type = "DECISION" /\ c.decision = "COMMIT"
            => LastState'.rows[c.tx].state = "COMMITTED"
    <2> SUFFICES ASSUME c.type = "DECISION", c.decision = "COMMIT"
                 PROVE  LastState'.rows[c.tx].state = "COMMITTED"
      OBVIOUS
    <2> DEFINE row == LastState.rows[c.tx]
    <2>1. c.tx \in Tx /\ decision[c.tx] = "COMMIT"
      BY <1>5
    <2>2. row.digest = evidence[c.tx] /\ row.state \in {"PREPARED", "COMMITTED"}
      BY <2>1
      DEF DecisionSoundness, CommitNeedsEvidence, EvidencePrepared, RowsDecided
    <2>3. CASE row.state = "COMMITTED"
      BY <1>2, <2>1, <2>3 DEF StepSound, RowsStand, Terminal
    <2>4. CASE row.state = "PREPARED"
      <3>1. LastState \in State /\ ReservationSound(LastState)
        <4>1. Len(states) \in 1..Len(states)
          BY DEF TypeOK
        <4> QED
          BY <4>1 DEF TypeOK, LastState, LogSound
      <3>2. validationHolds(LastState, row.digest) /\ c.tx \notin Failing
        BY <2>1, <2>4, <3>1 DEF ReservationSound
      <3> DEFINE k == SetRow(LastState, c.tx, "COMMITTED", row.digest)
      <3>3. decisionMatchesPreparedRow(LastState, c)
        BY <1>5, <2>2 DEF decisionMatchesPreparedRow
      <3>4. LastState' = commitPrepared(LastState, c.tx)
        BY <2>4, <3>3, LogSoundCommit
        DEF applyCommittedEntry, applyParticipantDecision
      <3>5. LastState' \in {k, advancePartitionWriteGeneration(k, c.tx)}
        BY <3>2, <3>4 DEF commitPrepared
      <3>6. k \in State /\ k.rows[c.tx].state = "COMMITTED"
        <4>1. row.digest \in Digest
          BY <2>1, <3>1 DEF State, Row
        <4>2. k \in State
          BY ZenonT(30), <2>1, <3>1, <4>1, SetRowType DEF RowState
        <4>3. k.rows[c.tx] = [state |-> "COMMITTED", digest |-> row.digest]
          BY <2>1, <3>1, SetRowFields
        <4> QED
          BY <4>2, <4>3
      <3> HIDE DEF k
      <3> QED
        BY <3>5, <3>6, AdvanceFields
    <2> QED
      BY <2>2, <2>3, <2>4
  <1>9. CommitInfallible'
    <2> DEFINE n == Len(log)
    <2>1. /\ n \in Nat /\ Len(states) = n + 1
          /\ log \in Seq(Commands) /\ states \in Seq(State)
      BY DEF TypeOK
    <2>2. /\ Len(log') = n + 1 /\ log'[n + 1] = c
          /\ \A i \in 1..n : log'[i] = log[i]
      BY <2>1 DEF commitEntry
    <2>3. /\ Len(states') = n + 2
          /\ \A i \in 1..(n + 1) : states'[i] = states[i]
      BY <2>1 DEF commitEntry
    <2>4. LastState' = states'[n + 2]
      BY <2>3 DEF LastState
    <2> SUFFICES ASSUME NEW i \in 1..Len(log'),
                        log'[i].type = "DECISION", log'[i].decision = "COMMIT"
                 PROVE  states'[i + 1].rows[log'[i].tx].state = "COMMITTED"
      BY DEF CommitInfallible
    <2>5. CASE i = n + 1
      BY <1>8, <2>1, <2>2, <2>4, <2>5
    <2>6. CASE i \in 1..n
      <3>1. log'[i] = log[i] /\ states'[i + 1] = states[i + 1]
        BY <2>1, <2>2, <2>3, <2>6
      <3> QED
        BY <2>6, <3>1 DEF DecisionSoundness, CommitInfallible
    <2> QED
      BY <2>1, <2>2, <2>5, <2>6
  <1> QED
    BY <1>3, <1>4, <1>6, <1>7, <1>9 DEF DecisionSoundness

LEMMA DecisionSoundnessInit == Init => DecisionSoundness
  <1> SUFFICES ASSUME Init PROVE DecisionSoundness
    OBVIOUS
  <1>1. LastState = InitState
    BY DEF Init, LastState
  <1>2. \A t \in Tx : InitState.rows[t].state = "ABSENT"
    BY DEF InitState
  <1>3. EvidencePrepared /\ RowsDecided
    BY <1>1, <1>2 DEF Init, EvidencePrepared, RowsDecided
  <1>4. CommitInfallible
    <2>1. log = <<>>
      BY Zenon DEF Init
    <2> QED
      BY Zenon, <2>1, EmptyLog DEF CommitInfallible
  <1> QED
    BY <1>3, <1>4 DEF Init, DecisionSoundness, ParkedStatements,
                      InFlightRecorded, CommitNeedsEvidence

LEMMA DecisionSoundnessStep ==
    TypeOK /\ LogSound /\ DecisionSoundness /\ [Next]_vars => DecisionSoundness'
  <1> SUFFICES ASSUME TypeOK, LogSound, DecisionSoundness, [Next]_vars
               PROVE  DecisionSoundness'
    OBVIOUS
  <1> USE DEF consensusVars, clientVars
  <1>1. ASSUME NEW t \in Tx, NEW d \in {"COMMIT", "ROLLBACK"}, Decide(t, d)
        PROVE  DecisionSoundness'
    <2>1. /\ decision[t] = "NONE" /\ decision'[t] = d
          /\ \A u \in Tx \ {t} : decision'[u] = decision[u]
          /\ UNCHANGED <<log, states, inFlight, parked, evidence>>
          /\ d = "COMMIT" => evidence[t] # NoDigest
      BY <1>1 DEF TypeOK, Decide
    <2>2. InFlightRecorded'
      <3> SUFFICES ASSUME NEW c \in inFlight, c.type = "DECISION"
                   PROVE  /\ decision'[c.tx] # "NONE"
                          /\ c = RecordedDecision(c.tx)'
        BY <2>1 DEF InFlightRecorded
      <3>1. c.tx \in Tx
        BY Zenon, DecisionCommandTx
      <3>2. decision[c.tx] # "NONE" /\ c = RecordedDecision(c.tx)
        BY DEF DecisionSoundness, InFlightRecorded
      <3> QED
        BY <2>1, <3>1, <3>2 DEF RecordedDecision
    <2>3. EvidencePrepared' /\ CommitInfallible' /\ ParkedStatements'
      BY <2>1 DEF DecisionSoundness, EvidencePrepared, CommitInfallible,
                  ParkedStatements, LastState
    <2>4. CommitNeedsEvidence'
      BY <2>1 DEF DecisionSoundness, CommitNeedsEvidence
    <2>5. RowsDecided'
      BY <2>1 DEF DecisionSoundness, RowsDecided, LastState
    <2> QED
      BY <2>2, <2>3, <2>4, <2>5 DEF DecisionSoundness
  <1>2. ASSUME NEW c \in inFlight, commitEntry(c)
        PROVE  DecisionSoundness'
    BY <1>2, CommitStep
  <1>3. ASSUME NEW r \in Replicas,
               \/ enableParticipantTransactionAdmission(r)
               \/ \E t \in Tx : \/ beginParticipantSession(r, t)
                                \/ stageWrite(r, t)
                                \/ sweepExpiredParticipantSessions(r, t)
               \/ becomeLeader(r)
        PROVE  DecisionSoundness'
    <2>1. /\ UNCHANGED <<log, states, decision, evidence, parked>>
          /\ \A c \in inFlight' : c \in inFlight \/ c.type # "DECISION"
      <3>1. CASE enableParticipantTransactionAdmission(r) \/ becomeLeader(r)
        BY <3>1 DEF enableParticipantTransactionAdmission, becomeLeader,
                    proposeAdmitted, Proposed, OriginCommand
      <3>2. ASSUME NEW t \in Tx,
                   \/ beginParticipantSession(r, t)
                   \/ stageWrite(r, t)
                   \/ sweepExpiredParticipantSessions(r, t)
            PROVE  UNCHANGED <<log, states, decision, evidence, parked, inFlight>>
        BY <3>2 DEF beginParticipantSession, stageWrite,
                    sweepExpiredParticipantSessions
      <3> QED
        BY <1>3, <3>1, <3>2
    <2> QED
      BY <2>1, QuietStep
      DEF EvidenceTaken, DecisionSoundness, ParkedStatements
  <1>4. ASSUME NEW r \in Replicas,
               \/ releasePendingWrites(r)
               \/ \E c \in pending[r] : commitDeadline(r, c)
        PROVE  DecisionSoundness'
    <2>1. /\ UNCHANGED <<log, states, decision, evidence, inFlight>>
          /\ \A x \in Replicas : parked'[x] \subseteq parked[x]
      BY ZenonT(60), <1>4 DEF TypeOK, releasePendingWrites, commitDeadline
    <2> QED
      BY <2>1, QuietStep
      DEF EvidenceTaken, DecisionSoundness, ParkedStatements
  <1>5. ASSUME NEW r \in Replicas, NEW w \in Writes,
               startAdmittedPartitionWrite(r, w)
        PROVE  DecisionSoundness'
    <2>1. /\ UNCHANGED <<log, states, decision, evidence>>
          /\ \A c \in inFlight' : c \in inFlight \/ c.type # "DECISION"
      BY <1>5 DEF startAdmittedPartitionWrite, proposeAdmitted, Proposed,
                  QueryCommand
    <2>2. ParkedStatements'
      <3>1. \/ UNCHANGED parked
            \/ parked' = [parked EXCEPT ![r] = @ \cup {QueryCommand(w)}]
        BY <1>5 DEF startAdmittedPartitionWrite
      <3> QED
        BY <3>1
        DEF TypeOK, DecisionSoundness, ParkedStatements, QueryCommand
    <2> QED
      BY <2>1, <2>2, QuietStep DEF EvidenceTaken
  <1>6. ASSUME NEW r \in Replicas, NEW t \in Tx, prepareParticipant(r, t)
        PROVE  DecisionSoundness'
    <2>1. /\ UNCHANGED <<log, states, decision, parked>>
          /\ \A c \in inFlight' : c \in inFlight \/ c.type # "DECISION"
      BY <1>6 DEF prepareParticipant, sealSession, proposeAdmitted, Proposed,
                  SealedPrepare, PrepareCommand
    <2>2. EvidenceTaken
      <3>1. applied[r] + 1 \in 1..Len(states) /\ Db(r) = states[applied[r] + 1]
        BY Zenon, DbIndex
      <3>2. \/ UNCHANGED evidence
            \/ /\ decision[t] = "NONE" /\ Db(r).rows[t].state = "PREPARED"
               /\ evidence' = [evidence EXCEPT ![t] = Db(r).rows[t].digest]
        BY <1>6 DEF prepareParticipant, AnswerPrepared
      <3> QED
        BY <3>1, <3>2 DEF EvidenceTaken
    <2> QED
      BY <2>1, <2>2, QuietStep DEF DecisionSoundness, ParkedStatements
  <1>7. ASSUME NEW r \in Replicas, NEW t \in Tx, decideParticipant(r, t)
        PROVE  DecisionSoundness'
    <2>1. /\ UNCHANGED <<log, states, decision, evidence, parked>>
          /\ decision[t] # "NONE"
          /\ inFlight' \subseteq inFlight \cup {RecordedDecision(t)}
      BY <1>7 DEF decideParticipant, proposeAdmitted, Proposed
    <2>2. RecordedDecision(t).tx = t
      BY Zenon DEF RecordedDecision, DecisionCommand
    <2> QED
      BY ZenonT(60), <2>1, <2>2, QuietStep
      DEF EvidenceTaken, DecisionSoundness, ParkedStatements
  <1>8. ASSUME NEW r \in Replicas, Apply(r)
        PROVE  DecisionSoundness'
    <2> DEFINE c == log[applied[r] + 1]
    <2>1. CASE applyPrepareEntry(r)
      <3>1. /\ applied[r] + 2 \in 1..Len(states)
            /\ c.tx \in Tx
        BY Zenon, <2>1, PrepareEntryType DEF applyPrepareEntry
      <3>2. EvidenceTaken
        <4> DEFINE row == states[applied[r] + 2].rows[c.tx]
        <4>1. \/ UNCHANGED evidence
              \/ /\ decision[c.tx] = "NONE"
                 /\ row = [state |-> "PREPARED", digest |-> c.digest]
                 /\ evidence' = [evidence EXCEPT ![c.tx] = c.digest]
          BY ZenonT(60), <2>1 DEF applyPrepareEntry, AnswerPrepared
        <4>2. CASE UNCHANGED evidence
          BY <4>2 DEF EvidenceTaken
        <4>3. CASE /\ decision[c.tx] = "NONE"
                   /\ row = [state |-> "PREPARED", digest |-> c.digest]
                   /\ evidence' = [evidence EXCEPT ![c.tx] = c.digest]
          <5>1. row.state = "PREPARED" /\ row.digest = c.digest
            BY Zenon, <4>3, PreparedRowFields
          <5> QED
            BY ZenonT(60), <3>1, <4>3, <5>1 DEF EvidenceTaken
        <4> QED
          BY <4>1, <4>2, <4>3
      <3>3. UNCHANGED <<log, states, decision, parked, inFlight>>
        BY ZenonT(30), <2>1 DEF applyPrepareEntry
      <3> QED
        BY Zenon, <3>2, <3>3, QuietStep DEF DecisionSoundness, ParkedStatements
    <2>2. CASE applyDecisionEntry(r)
      <3>1. /\ UNCHANGED <<log, states, decision, evidence>>
            /\ inFlight' \subseteq inFlight \cup parked[r]
            /\ parked' \in {parked, [parked EXCEPT ![r] = {}]}
        BY Zenon, <2>2 DEF applyDecisionEntry, Proposed
      <3>2. ParkedStatements'
        BY ZenonT(60), <3>1 DEF TypeOK, DecisionSoundness, ParkedStatements
      <3> QED
        BY <3>1, <3>2, QuietStep
        DEF EvidenceTaken, DecisionSoundness, ParkedStatements
    <2>3. CASE applyStatementEntry(r)
      <3>1. /\ UNCHANGED <<log, states, decision, evidence, inFlight>>
            /\ parked' \in {parked, [parked EXCEPT ![r] = @ \cup Own(r, c)]}
            /\ c.type = "QUERY"
        BY <2>3 DEF applyStatementEntry, NextEntry
      <3>2. \A e \in Own(r, c) : e.type = "QUERY"
        BY <3>1 DEF Own, SameEntryId
      <3>3. ParkedStatements'
        BY ZenonT(60), <3>1, <3>2
        DEF TypeOK, DecisionSoundness, ParkedStatements
      <3> QED
        BY ZenonT(30), <3>1, <3>3, QuietStep DEF EvidenceTaken
    <2>4. CASE applyOriginEntry(r)
      <3>1. UNCHANGED <<log, states, decision, evidence, parked, inFlight>>
        BY <2>4 DEF applyOriginEntry
      <3> QED
        BY <3>1, QuietStep
        DEF EvidenceTaken, DecisionSoundness, ParkedStatements
    <2> QED
      BY ZenonT(30), <1>8, <2>1, <2>2, <2>3, <2>4 DEF Apply
  <1>9. CASE UNCHANGED vars
    <2>1. UNCHANGED <<log, states, decision, evidence, parked, inFlight>>
      BY <1>9 DEF vars
    <2> QED
      BY <2>1, QuietStep
      DEF EvidenceTaken, DecisionSoundness, ParkedStatements
  <1> QED
    BY <1>1, <1>2, <1>3, <1>4, <1>5, <1>6, <1>7, <1>8, <1>9 DEF Next

(* A COMMIT decision that reaches the partition's log always commits: the  *)
(* alarms of commitPrepared, decideAbsent and DECISION_OVER_STATE are      *)
(* unreachable when the coordinator decides COMMIT only on the evidence a  *)
(* PREPARE was answered with.                                              *)
THEOREM CommitInfallibleTheorem == Spec => []CommitInfallible
  <1>1. DecisionSoundness => CommitInfallible
    BY DEF DecisionSoundness
  <1> QED
    BY <1>1, InitTypeOK, StepTypeOK, LogSoundInit, LogSoundStep,
       DecisionSoundnessInit, DecisionSoundnessStep, PTL DEF Spec

(* The evidence a PREPARE was answered with stands on every later state:   *)
(* the row keeps its digest and only the coordinator's own decision ends   *)
(* it, whatever leaders change and whatever commands are repeated.         *)
THEOREM EvidenceTheorem == Spec => []EvidenceStands
  <1>1. DecisionSoundness => EvidenceStands
    BY DEF DecisionSoundness, EvidencePrepared, RowsDecided, EvidenceStands
  <1> QED
    BY <1>1, InitTypeOK, StepTypeOK, LogSoundInit, LogSoundStep,
       DecisionSoundnessInit, DecisionSoundnessStep, PTL DEF Spec
----------------------------------------------------------------------------
(* What the committed log wrote.  g counts the writers since the origin; a *)
(* transaction is among them only once it committed, and a COMMITTED one   *)
(* wrote at the generation after its base; a statement that ran settled.   *)

Positions(ws, t) == {i \in 1..Len(ws) : ws[i] = t}

WritesOf(s, t) == Positions(s.writers, t)

WroteFirst(s, t) ==
    IF s.rows[t].state = "COMMITTED"
      THEN /\ s.origin # 0
           /\ WritesOf(s, t) = IF s.rows[t].digest.ops = 0 THEN {}
                               ELSE {s.rows[t].digest.base + 1}
      ELSE WritesOf(s, t) = {}

RanOnce(s) ==
    \A w \in Writes : s.runs[w] <= 1 /\ (w \notin s.settled => s.runs[w] = 0)

HistorySound(s) ==
    s.g = Len(s.writers) /\ RanOnce(s) /\ \A t \in Tx : WroteFirst(s, t)

RunsKept(s, z) == \A w \in Writes : s.runs[w] <= z.runs[w]

(* Only the fields below decide what HistorySound and RunsKept say.        *)
SameHistory(s, z) ==
    /\ z.g = s.g /\ z.writers = s.writers /\ z.origin = s.origin
    /\ z.runs = s.runs

LEMMA SetRowHistory ==
    ASSUME NEW s \in State, NEW t \in Tx, NEW st, NEW p
    PROVE  /\ SameHistory(s, SetRow(s, t, st, p))
           /\ SetRow(s, t, st, p).settled = s.settled
  BY DEF SetRow, State, SameHistory

LEMMA AdvanceHistory ==
    ASSUME NEW s \in State, NEW w \in Tx \cup Writes
    PROVE  LET z == advancePartitionWriteGeneration(s, w) IN
           /\ z.settled = s.settled /\ z.runs = s.runs
           /\ z.writers = Append(s.writers, w)
  BY DEF advancePartitionWriteGeneration, State

LEMMA SameKeepsRuns ==
    ASSUME NEW s \in State, NEW z, z.runs = s.runs
    PROVE  RunsKept(s, z)
  BY DEF RunsKept, State

LEMMA OneRowHistory ==
    ASSUME NEW s \in State, HistorySound(s), NEW z, SameHistory(s, z),
           z.settled = s.settled, NEW t \in Tx,
           \A u \in Tx \ {t} : z.rows[u] = s.rows[u], WroteFirst(z, t)
    PROVE  HistorySound(z) /\ RunsKept(s, z)
  <1>1. RunsKept(s, z)
    BY Zenon, SameKeepsRuns DEF SameHistory
  <1>2. z.g = Len(z.writers) /\ RanOnce(z)
    BY Zenon DEF HistorySound, SameHistory, RanOnce
  <1>3. ASSUME NEW u \in Tx \ {t} PROVE WroteFirst(z, u)
    <2>1. z.rows[u] = s.rows[u] /\ WroteFirst(s, u)
      BY Zenon DEF HistorySound
    <2> QED
      BY Zenon, <2>1 DEF WroteFirst, SameHistory, WritesOf
  <1> QED
    BY Zenon, <1>1, <1>2, <1>3 DEF HistorySound

(* A row that is not COMMITTED is written and stays so.                    *)
LEMMA RowKeepsHistory ==
    ASSUME NEW s \in State, HistorySound(s), NEW t \in Tx, NEW st, NEW p,
           s.rows[t].state # "COMMITTED", st # "COMMITTED"
    PROVE  HistorySound(SetRow(s, t, st, p)) /\ RunsKept(s, SetRow(s, t, st, p))
  <1> DEFINE z == SetRow(s, t, st, p)
  <1>1. /\ z.rows[t] = [state |-> st, digest |-> p]
        /\ \A u \in Tx \ {t} : z.rows[u] = s.rows[u]
    BY SetRowFields
  <1>2. SameHistory(s, z) /\ z.settled = s.settled
    BY SetRowHistory
  <1> SUFFICES HistorySound(z) /\ RunsKept(s, z)
    OBVIOUS
  <1> HIDE DEF z
  <1>3. z.rows[t].state # "COMMITTED"
    BY <1>1
  <1>4. WroteFirst(s, t)
    BY Zenon DEF HistorySound
  <1>5. WroteFirst(z, t)
    BY Zenon, <1>2, <1>3, <1>4 DEF WroteFirst, SameHistory, WritesOf
  <1> QED
    BY <1>1, <1>2, <1>5, OneRowHistory

LEMMA AppendedWrites ==
    ASSUME NEW ws \in Seq(Tx \cup Writes), NEW x \in Tx \cup Writes,
           NEW t \in Tx
    PROVE  /\ x # t => Positions(Append(ws, x), t) = Positions(ws, t)
           /\ x = t => Positions(Append(ws, x), t)
                          = Positions(ws, t) \cup {Len(ws) + 1}
  BY DEF Positions

LEMMA PrepareHistory ==
    ASSUME NEW s \in State, HistorySound(s),
           NEW c \in [type : {"PREPARE"}, tx : Tx, digest : Prepared]
    PROVE  /\ HistorySound(applyParticipantPrepare(s, c))
           /\ RunsKept(s, applyParticipantPrepare(s, c))
  BY SameKeepsRuns, RowKeepsHistory DEF applyParticipantPrepare

(* A transaction that commits was PREPARED: it wrote nothing before, and   *)
(* its base is g.                                                          *)
LEMMA CommitHistory ==
    ASSUME NEW s \in State, HistorySound(s), ReservationSound(s), NEW t \in Tx,
           s.rows[t].state = "PREPARED"
    PROVE  /\ HistorySound(commitPrepared(s, t))
           /\ RunsKept(s, commitPrepared(s, t))
  <1> DEFINE p == s.rows[t].digest
             k == SetRow(s, t, "COMMITTED", p)
             z == commitPrepared(s, t)
  <1>1. /\ p \in Prepared /\ p.base = s.g /\ p.origin = s.origin
        /\ t \notin Failing
    BY DEF ReservationSound, validationHolds
  <1>2. s.origin # 0 /\ WritesOf(s, t) = {} /\ p.base = Len(s.writers)
    BY <1>1 DEF HistorySound, WroteFirst, Prepared
  <1>3. z = IF p.ops = 0 THEN k ELSE advancePartitionWriteGeneration(k, t)
    BY Zenon, <1>1 DEF commitPrepared, validationHolds
  <1>4. k \in State
    BY Zenon, <1>1, SetRowType DEF RowState, Digest
  <1>5. /\ k.rows[t] = [state |-> "COMMITTED", digest |-> p]
        /\ \A u \in Tx \ {t} : k.rows[u] = s.rows[u]
        /\ SameHistory(s, k) /\ k.settled = s.settled
    BY SetRowFields, SetRowHistory
  <1>6. k.rows[t].state = "COMMITTED" /\ k.rows[t].digest = p
    BY <1>5
  <1> SUFFICES HistorySound(z) /\ RunsKept(s, z)
    OBVIOUS
  <1>7. CASE p.ops = 0
    <2>1. z = k
      BY <1>3, <1>7
    <2> HIDE DEF z, k, p
    <2>2. k.writers = s.writers /\ k.origin = s.origin
      BY <1>5 DEF SameHistory
    <2>3. WroteFirst(k, t)
      BY Zenon, <1>2, <1>6, <1>7, <2>2 DEF WroteFirst, WritesOf
    <2> QED
      BY <1>5, <2>1, <2>3, OneRowHistory
  <1>8. CASE p.ops # 0
    <2>1. /\ z.rows = k.rows /\ z.g = k.g + 1 /\ z.origin = k.origin
          /\ z.settled = k.settled /\ z.runs = k.runs
          /\ z.writers = Append(k.writers, t)
      <3>1. z = advancePartitionWriteGeneration(k, t)
        BY Zenon, <1>3, <1>8
      <3> HIDE DEF z, k
      <3> QED
        BY <1>4, <3>1, AdvanceFields, AdvanceHistory
    <2>2. s.writers \in Seq(Tx \cup Writes) /\ s.g \in Nat
      BY DEF State
    <2> HIDE DEF z, k, p
    <2>3. z.writers = Append(s.writers, t) /\ Len(z.writers) = Len(s.writers) + 1
      BY <1>5, <2>1, <2>2 DEF SameHistory
    <2>4. WritesOf(z, t) = {p.base + 1}
      BY <1>2, <2>2, <2>3, AppendedWrites DEF WritesOf
    <2>5. ASSUME NEW u \in Tx, u # t PROVE WroteFirst(z, u)
      <3>1. WritesOf(z, u) = WritesOf(s, u)
        BY <2>2, <2>3, <2>5, AppendedWrites DEF WritesOf
      <3>2. z.rows[u] = s.rows[u] /\ z.origin = s.origin
        BY <1>5, <2>1, <2>5 DEF SameHistory
      <3> QED
        BY Zenon, <3>1, <3>2 DEF HistorySound, WroteFirst
    <2>6. WroteFirst(z, t)
      BY <1>2, <1>5, <1>6, <1>8, <2>1, <2>4 DEF WroteFirst, SameHistory
    <2>7. RunsKept(s, z)
      BY <1>5, <2>1, SameKeepsRuns DEF SameHistory
    <2>8. z.g = Len(z.writers)
      BY <1>5, <2>1, <2>2, <2>3 DEF HistorySound, SameHistory
    <2>9. RanOnce(z)
      BY Zenon, <1>5, <2>1 DEF HistorySound, SameHistory, RanOnce
    <2> QED
      BY Zenon, <2>5, <2>6, <2>7, <2>8, <2>9 DEF HistorySound
  <1> QED
    BY <1>7, <1>8

LEMMA DecisionHistory ==
    ASSUME NEW s \in State, HistorySound(s), ReservationSound(s),
           NEW c \in [type : {"DECISION"}, tx : Tx,
                      decision : {"COMMIT", "ROLLBACK"}, digest : Digest]
    PROVE  /\ HistorySound(applyParticipantDecision(s, c))
           /\ RunsKept(s, applyParticipantDecision(s, c))
  BY SameKeepsRuns, RowKeepsHistory, CommitHistory DEF applyParticipantDecision

(* A statement that runs had not settled, so it had not run; it is no      *)
(* transaction's write.                                                    *)
LEMMA StatementHistory ==
    ASSUME NEW s \in State, HistorySound(s),
           NEW c \in [type : {"QUERY"}, write : Writes]
    PROVE  /\ HistorySound(applyCommittedStatement(s, c))
           /\ RunsKept(s, applyCommittedStatement(s, c))
  <1> DEFINE z == applyCommittedStatement(s, c)
             k == [s EXCEPT !.settled = @ \cup {c.write}]
             n == [k EXCEPT !.runs[c.write] = @ + 1]
  <1> SUFFICES HistorySound(z) /\ RunsKept(s, z)
    OBVIOUS
  <1>1. /\ c.write \in Writes /\ s.g \in Nat
        /\ s.writers \in Seq(Tx \cup Writes)
        /\ s.runs \in [Writes -> Nat]
    BY DEF State
  <1>2. CASE z = s
    BY Zenon, <1>2, SameKeepsRuns
  <1>3. CASE z = k
    <2>1. /\ SameHistory(s, k) /\ k.rows = s.rows
          /\ k.settled = s.settled \cup {c.write}
      BY DEF State, SameHistory
    <2> HIDE DEF k, z
    <2>2. RanOnce(k)
      BY <2>1 DEF HistorySound, SameHistory, RanOnce
    <2>3. \A t \in Tx : WroteFirst(k, t)
      BY Zenon, <2>1 DEF HistorySound, WroteFirst, SameHistory, WritesOf
    <2>4. RunsKept(s, k) /\ k.g = Len(k.writers)
      BY Zenon, <2>1, SameKeepsRuns DEF HistorySound, SameHistory
    <2> QED
      BY Zenon, <1>3, <2>2, <2>3, <2>4 DEF HistorySound
  <1>4. CASE /\ z = advancePartitionWriteGeneration(n, c.write)
             /\ c.write \notin s.settled
    <2>1. /\ k \in State /\ k.runs = s.runs
      BY Zenon DEF State
    <2>2. n \in State
      <3>1. k.runs[c.write] + 1 \in Nat
        BY <1>1, <2>1
      <3> HIDE DEF k
      <3> QED
        BY Zenon, <2>1, <3>1 DEF State
    <2>3. /\ n.g = s.g /\ n.origin = s.origin /\ n.rows = s.rows
          /\ n.writers = s.writers /\ n.settled = s.settled \cup {c.write}
          /\ n.runs = [s.runs EXCEPT ![c.write] = @ + 1]
      BY DEF State
    <2> HIDE DEF k, n, z
    <2>4. /\ z.rows = s.rows /\ z.g = s.g + 1 /\ z.origin = s.origin
          /\ z.settled = s.settled \cup {c.write} /\ z.runs = n.runs
          /\ z.writers = Append(s.writers, c.write)
      BY <1>1, <1>4, <2>2, <2>3, AdvanceFields, AdvanceHistory
    <2>5. z.runs[c.write] = s.runs[c.write] + 1
      BY <1>1, <2>3, <2>4
    <2>6. \A w \in Writes \ {c.write} : z.runs[w] = s.runs[w]
      BY <1>1, <2>3, <2>4
    <2>7. s.runs[c.write] = 0
      BY <1>1, <1>4 DEF HistorySound, RanOnce
    <2>8. RanOnce(z)
      BY <1>1, <2>4, <2>5, <2>6, <2>7 DEF HistorySound, RanOnce
    <2>9. RunsKept(s, z)
      BY <1>1, <2>5, <2>6 DEF RunsKept
    <2>10. z.g = Len(z.writers)
      BY <1>1, <2>4 DEF HistorySound
    <2>11. ASSUME NEW t \in Tx PROVE WroteFirst(z, t)
      <3>1. c.write # t
        BY <1>1, ParticipantAssumption
      <3>2. WritesOf(z, t) = WritesOf(s, t)
        BY <1>1, <2>4, <3>1, AppendedWrites DEF WritesOf
      <3> QED
        BY Zenon, <2>4, <3>2 DEF HistorySound, WroteFirst
    <2> QED
      BY Zenon, <2>8, <2>9, <2>10, <2>11 DEF HistorySound
  <1> QED
    BY <1>2, <1>3, <1>4 DEF applyCommittedStatement

(* The origin is recorded once, before any transaction can prepare.        *)
LEMMA OriginHistory ==
    ASSUME NEW s \in State, HistorySound(s), NEW i \in Nat
    PROVE  /\ HistorySound(applyGenerationOrigin(s, i))
           /\ RunsKept(s, applyGenerationOrigin(s, i))
  <1> DEFINE z == applyGenerationOrigin(s, i)
  <1> SUFFICES HistorySound(z) /\ RunsKept(s, z)
    OBVIOUS
  <1>1. CASE s.origin # 0
    BY Zenon, <1>1, SameKeepsRuns DEF applyGenerationOrigin
  <1>2. CASE s.origin = 0
    <2>1. /\ z.rows = s.rows /\ z.g = 0 /\ z.writers = <<>>
          /\ z.runs = s.runs /\ z.settled = s.settled
      BY <1>2 DEF applyGenerationOrigin, State
    <2> HIDE DEF z
    <2>2. ASSUME NEW t \in Tx PROVE WroteFirst(z, t)
      <3>1. z.rows[t].state # "COMMITTED"
        BY Zenon, <1>2, <2>1 DEF HistorySound, WroteFirst
      <3>2. WritesOf(z, t) = {}
        BY <2>1 DEF WritesOf, Positions
      <3> QED
        BY Zenon, <3>1, <3>2 DEF WroteFirst
    <2>3. z.g = Len(z.writers)
      BY <2>1
    <2>4. RanOnce(z) /\ RunsKept(s, z)
      BY Zenon, <2>1, SameKeepsRuns DEF HistorySound, RanOnce
    <2> QED
      BY Zenon, <2>2, <2>3, <2>4 DEF HistorySound
  <1> QED
    BY <1>1, <1>2

LEMMA ApplyHistory ==
    ASSUME NEW s \in State, HistorySound(s), ReservationSound(s),
           NEW c \in Commands, NEW i \in Nat
    PROVE  /\ HistorySound(applyCommittedEntry(s, c, i))
           /\ RunsKept(s, applyCommittedEntry(s, c, i))
  <1>1. CASE c \in [type : {"PREPARE"}, tx : Tx, digest : Prepared]
    BY <1>1, PrepareHistory DEF applyCommittedEntry
  <1>2. CASE c \in [type : {"DECISION"}, tx : Tx,
                    decision : {"COMMIT", "ROLLBACK"}, digest : Digest]
    BY <1>2, DecisionHistory DEF applyCommittedEntry
  <1>3. CASE c \in [type : {"QUERY"}, write : Writes]
    BY <1>3, StatementHistory DEF applyCommittedEntry
  <1>4. CASE c = OriginCommand
    BY <1>4, OriginHistory DEF applyCommittedEntry, OriginCommand
  <1> QED
    BY <1>1, <1>2, <1>3, <1>4, CommandCases

(* The history invariant: every state of the committed log is one the      *)
(* log produced, is sound, and no later state undoes a run.                *)
LogApplied ==
    \A i \in 1..Len(log) :
        states[i + 1] = applyCommittedEntry(states[i], log[i], i)

HistoryInv ==
    /\ \A i \in 1..Len(states) : HistorySound(states[i])
    /\ \A i \in 1..Len(states) : RunsKept(states[i], LastState)
    /\ LogApplied

LEMMA RunsKeptCompose ==
    ASSUME NEW s \in State, NEW z \in State, NEW y \in State,
           RunsKept(s, z), RunsKept(z, y)
    PROVE  RunsKept(s, y)
  BY DEF RunsKept, State

LEMMA HistoryInit == Init => HistoryInv
  <1> SUFFICES ASSUME Init PROVE HistoryInv
    OBVIOUS
  <1>1. Len(states) = 1 /\ states[1] = InitState /\ LastState = InitState
    BY DEF Init, LastState
  <1>2. /\ InitState.g = 0 /\ InitState.writers = <<>>
        /\ InitState.runs = [w \in Writes |-> 0]
        /\ \A t \in Tx : InitState.rows[t].state = "ABSENT"
    BY DEF InitState
  <1>3. ASSUME NEW t \in Tx PROVE WroteFirst(InitState, t)
    <2>1. WritesOf(InitState, t) = {}
      BY <1>2 DEF WritesOf, Positions
    <2> QED
      BY <1>2, <2>1 DEF WroteFirst
  <1>4. HistorySound(InitState)
    BY <1>2, <1>3 DEF HistorySound, RanOnce
  <1>5. RunsKept(InitState, InitState)
    BY <1>2 DEF RunsKept
  <1>6. LogApplied
    BY Zenon, EmptyLog DEF Init, LogApplied
  <1> QED
    BY <1>1, <1>4, <1>5, <1>6 DEF HistoryInv

LEMMA HistoryCommit ==
    ASSUME TypeOK, LogSound, HistoryInv, NEW c \in inFlight, commitEntry(c)
    PROVE  HistoryInv' /\ RunsKept(LastState, LastState')
  <1> DEFINE n == Len(log)
             z == applyCommittedEntry(LastState, c, n + 1)
  <1>1. /\ c \in Commands /\ n \in Nat /\ n + 1 \in 1..Len(states)
        /\ Len(states) = n + 1 /\ log \in Seq(Commands)
        /\ states \in Seq(State)
    BY DEF TypeOK
  <1>2. /\ LastState \in State /\ LastState = states[n + 1]
        /\ ReservationSound(LastState) /\ HistorySound(LastState)
    BY <1>1 DEF LastState, LogSound, HistoryInv
  <1>3. z \in State /\ HistorySound(z) /\ RunsKept(LastState, z)
    <2>1. n + 1 \in Nat
      BY <1>1
    <2> QED
      BY <1>1, <1>2, <2>1, ApplyHistory, ApplyType
  <1>4. /\ Len(states') = n + 2 /\ states'[n + 2] = z
        /\ \A i \in 1..(n + 1) : states'[i] = states[i]
        /\ Len(log') = n + 1 /\ log'[n + 1] = c
        /\ \A i \in 1..n : log'[i] = log[i]
    BY <1>1 DEF commitEntry, LastState
  <1>5. LastState' = z
    BY <1>4 DEF LastState
  <1> HIDE DEF z
  <1>6. \A i \in 1..Len(states') : HistorySound(states'[i])
    BY <1>1, <1>3, <1>4 DEF HistoryInv
  <1>7. ASSUME NEW i \in 1..Len(states') PROVE RunsKept(states'[i], z)
    <2>1. CASE i = n + 2
      BY <1>3, <1>4, <2>1, SameKeepsRuns
    <2>2. CASE i \in 1..(n + 1)
      <3>1. /\ states'[i] = states[i] /\ states[i] \in State
            /\ RunsKept(states[i], LastState)
        BY <1>1, <1>4, <2>2 DEF HistoryInv
      <3> QED
        BY <1>2, <1>3, <3>1, RunsKeptCompose
    <2> QED
      BY <1>1, <1>4, <2>1, <2>2
  <1>8. LogApplied'
    <2> SUFFICES ASSUME NEW i \in 1..Len(log')
                 PROVE  states'[i + 1] = applyCommittedEntry(states'[i], log'[i], i)
      BY DEF LogApplied
    <2>1. CASE i = n + 1
      BY <1>1, <1>2, <1>4, <2>1 DEF z
    <2>2. CASE i \in 1..n
      <3>1. /\ states'[i + 1] = states[i + 1] /\ states'[i] = states[i]
            /\ log'[i] = log[i]
        BY <1>1, <1>4, <2>2
      <3> QED
        BY Zenon, <2>2, <3>1 DEF HistoryInv, LogApplied
    <2> QED
      BY <1>1, <1>4, <2>1, <2>2
  <1> QED
    BY <1>3, <1>5, <1>6, <1>7, <1>8 DEF HistoryInv

LEMMA HistoryStep ==
    TypeOK /\ LogSound /\ HistoryInv /\ [Next]_vars
        => HistoryInv' /\ RunsKept(LastState, LastState')
  <1> SUFFICES ASSUME TypeOK, LogSound, HistoryInv, [Next]_vars
               PROVE  HistoryInv' /\ RunsKept(LastState, LastState')
    OBVIOUS
  <1>1. CASE UNCHANGED <<log, states>>
    <2>1. LastState' = LastState /\ LastState \in State
      <3>1. Len(states) \in 1..Len(states)
        BY DEF TypeOK
      <3> QED
        BY <1>1, <3>1 DEF LastState, TypeOK
    <2>2. HistoryInv'
      BY Zenon, <1>1, <2>1 DEF HistoryInv, LogApplied
    <2> QED
      BY <2>1, <2>2, SameKeepsRuns
  <1> QED
    BY Zenon, <1>1, QuietLog, HistoryCommit

(* The writes of a COMMITTED transaction are the first, and only, ones     *)
(* over the generation its session read at BEGIN: the reservation keeps g  *)
(* at the base its PREPARE validated until its COMMIT advances it          *)
(* (validationHolds, advancePartitionWriteGeneration).                     *)
THEOREM FirstCommitterTheorem == Spec => []FirstCommitterWins
  <1>1. TypeOK /\ HistoryInv => FirstCommitterWins
    <2> SUFFICES ASSUME TypeOK, HistoryInv, NEW t \in Tx,
                        LastState.rows[t].state = "COMMITTED"
                 PROVE  {i \in 1..Len(LastState.writers) :
                            LastState.writers[i] = t}
                          = IF LastState.rows[t].digest.ops = 0 THEN {}
                            ELSE {LastState.rows[t].digest.base + 1}
      BY Zenon DEF FirstCommitterWins
    <2>1. Len(states) \in 1..Len(states)
      BY DEF TypeOK
    <2>2. WroteFirst(LastState, t)
      BY Zenon, <2>1 DEF HistoryInv, HistorySound, LastState
    <2> QED
      BY Zenon, <2>2 DEF WroteFirst, WritesOf, Positions
  <1> QED
    BY <1>1, InitTypeOK, StepTypeOK, LogSoundInit, LogSoundStep,
       HistoryInit, HistoryStep, PTL DEF Spec

----------------------------------------------------------------------------
(* A statement answered success has run in some applied state, and no      *)
(* later state undoes that.                                                *)

AnsweredRan == \A w \in answered : LastState.runs[w] >= 1

(* A step answers only a write that ran in some state of the log.          *)
LEMMA AnsweredStep ==
    ASSUME TypeOK, [Next]_vars
    PROVE  \A w \in answered' :
              \/ w \in answered
              \/ w \in Writes /\ \E i \in 1..Len(states) : states[i].runs[w] > 0
  <1> USE DEF consensusVars, clientVars
  <1>1. ASSUME NEW r \in Replicas, NEW w \in Writes,
               startAdmittedPartitionWrite(r, w)
        PROVE  \/ answered' = answered
               \/ /\ answered' = answered \cup {w}
                  /\ \E i \in 1..Len(states) : states[i].runs[w] > 0
    <2>1. \/ answered' = answered
          \/ answered' = answered \cup {w} /\ Db(r).runs[w] > 0
      BY Zenon, <1>1 DEF startAdmittedPartitionWrite
    <2> QED
      BY Zenon, <2>1, DbIndex
  <1>2. ASSUME NEW r \in Replicas, applyStatementEntry(r)
        PROVE  \/ answered' = answered
               \/ \E w \in Writes :
                    /\ answered' = answered \cup {w}
                    /\ \E i \in 1..Len(states) : states[i].runs[w] > 0
    <2> DEFINE c == log[applied[r] + 1]
               after == states[applied[r] + 2]
    <2>1. \/ answered' = answered
          \/ answered' = answered \cup {c.write} /\ after.runs[c.write] > 0
      BY Zenon, <1>2 DEF applyStatementEntry
    <2>2. applied[r] < Len(log) /\ c.type = "QUERY"
      BY Zenon, <1>2 DEF applyStatementEntry, NextEntry
    <2>3. c \in Commands /\ applied[r] + 2 \in 1..Len(states)
      BY Zenon, <2>2, NextStateType
    <2>4. c.write \in Writes
      <3> HIDE DEF c
      <3> QED
        BY <2>2, <2>3, CommandCases DEF OriginCommand
    <2> QED
      BY Zenon, <2>1, <2>3, <2>4
  <1>3. ASSUME NEW r \in Replicas,
               applyPrepareEntry(r) \/ applyDecisionEntry(r) \/ applyOriginEntry(r)
        PROVE  answered' = answered
    BY ZenonT(60), <1>3
    DEF applyPrepareEntry, applyDecisionEntry, applyOriginEntry
  <1>4. ASSUME NEW r \in Replicas,
               \/ enableParticipantTransactionAdmission(r)
               \/ becomeLeader(r)
               \/ releasePendingWrites(r)
               \/ \E c \in pending[r] : commitDeadline(r, c)
        PROVE  answered' = answered
    BY Zenon, <1>4 DEF enableParticipantTransactionAdmission, becomeLeader,
                       releasePendingWrites, commitDeadline
  <1>5. ASSUME NEW r \in Replicas, NEW t \in Tx,
               \/ beginParticipantSession(r, t)
               \/ stageWrite(r, t)
               \/ prepareParticipant(r, t)
               \/ decideParticipant(r, t)
               \/ sweepExpiredParticipantSessions(r, t)
        PROVE  answered' = answered
    BY <1>5 DEF beginParticipantSession, stageWrite, prepareParticipant,
                decideParticipant, sweepExpiredParticipantSessions
  <1>6. ASSUME NEW t \in Tx, NEW d \in {"COMMIT", "ROLLBACK"}, Decide(t, d)
        PROVE  answered' = answered
    BY Zenon, <1>6 DEF Decide
  <1>7. ASSUME NEW c \in inFlight, commitEntry(c) PROVE answered' = answered
    BY Zenon, <1>7 DEF commitEntry
  <1>8. UNCHANGED vars => answered' = answered
    BY Zenon DEF vars
  <1> QED
    BY <1>1, <1>2, <1>3, <1>4, <1>5, <1>6, <1>7, <1>8 DEF Next, Apply

LEMMA LastType ==
    ASSUME TypeOK
    PROVE  LastState \in State /\ Len(states) \in 1..Len(states)
  <1>1. Len(states) \in 1..Len(states)
    BY DEF TypeOK
  <1> QED
    BY <1>1 DEF TypeOK, LastState

LEMMA AnsweredKept ==
    TypeOK /\ TypeOK' /\ LogSound /\ HistoryInv /\ AnsweredRan /\ [Next]_vars
        => AnsweredRan'
  <1> SUFFICES ASSUME TypeOK, TypeOK', LogSound, HistoryInv, AnsweredRan,
                      [Next]_vars, NEW w \in answered'
               PROVE  LastState'.runs[w] >= 1
    BY Zenon DEF AnsweredRan
  <1>1. w \in Writes /\ RunsKept(LastState, LastState')
    BY Zenon, HistoryStep DEF TypeOK
  <1>2. LastState.runs[w] >= 1
    <2>1. CASE w \in answered
      BY Zenon, <2>1 DEF AnsweredRan
    <2>2. ASSUME NEW i \in 1..Len(states), states[i].runs[w] > 0
          PROVE  LastState.runs[w] >= 1
      <3>1. RunsKept(states[i], LastState) /\ states[i] \in State
        BY DEF HistoryInv, TypeOK
      <3> QED
        BY <1>1, <2>2, <3>1, LastType DEF RunsKept, State
    <2> QED
      BY Zenon, <2>1, <2>2, AnsweredStep
  <1>3. LastState \in State /\ LastState' \in State
    <2>1. Len(states') \in 1..Len(states')
      BY DEF TypeOK
    <2>2. LastState' \in State
      BY <2>1 DEF TypeOK, LastState
    <2> QED
      BY <2>2, LastType
  <1> QED
    BY <1>1, <1>2, <1>3 DEF RunsKept, State

(* An ordinary write runs at most once and one answered success has run,   *)
(* however often it was proposed, parked or retried, by whichever leader   *)
(* (applyCommittedEntry reads the outcome row of an entryId before it runs *)
(* the statement).                                                         *)
THEOREM StatementOnceTheorem == Spec => []StatementRunsOnce
  <1>1. Init => AnsweredRan
    BY DEF Init, AnsweredRan
  <1>2. TypeOK /\ HistoryInv /\ AnsweredRan => StatementRunsOnce
    <2> SUFFICES ASSUME TypeOK, HistoryInv, AnsweredRan PROVE StatementRunsOnce
      OBVIOUS
    <2>1. RanOnce(LastState) /\ LastState \in State
      BY LastType DEF HistoryInv, HistorySound, LastState
    <2> QED
      BY <2>1 DEF StatementRunsOnce, AnsweredRan, RanOnce, TypeOK, State
  <1> QED
    BY <1>1, <1>2, InitTypeOK, StepTypeOK, LogSoundInit, LogSoundStep,
       HistoryInit, HistoryStep, AnsweredKept, PTL DEF Spec

----------------------------------------------------------------------------
(* Parked writes.  On the way of one replica through the log a reservation *)
(* ends only with the decision of the transaction that holds it.           *)

LEMMA SetRowReserved ==
    ASSUME NEW s \in State, NEW t \in Tx, NEW st, NEW p,
           s.rows[t].state # "PREPARED", isPartitionReserved(s)
    PROVE  isPartitionReserved(SetRow(s, t, st, p))
  <1>1. PICK u \in Tx : s.rows[u].state = "PREPARED"
    BY Zenon DEF isPartitionReserved
  <1>2. /\ SetRow(s, t, st, p).rows[t] = [state |-> st, digest |-> p]
        /\ \A v \in Tx \ {t} : SetRow(s, t, st, p).rows[v] = s.rows[v]
    BY SetRowFields
  <1>3. SetRow(s, t, st, p).rows[u] = s.rows[u]
    BY Zenon, <1>1, <1>2
  <1> QED
    BY Zenon, <1>1, <1>3 DEF isPartitionReserved

LEMMA PrepareReserved ==
    ASSUME NEW s \in State, isPartitionReserved(s),
           NEW c \in [type : {"PREPARE"}, tx : Tx, digest : Prepared]
    PROVE  isPartitionReserved(applyParticipantPrepare(s, c))
  BY SetRowReserved DEF applyParticipantPrepare

LEMMA DecisionReserved ==
    ASSUME NEW s \in State, ReservationSound(s), isPartitionReserved(s),
           NEW c \in [type : {"DECISION"}, tx : Tx,
                      decision : {"COMMIT", "ROLLBACK"}, digest : Digest],
           \/ s.rows[c.tx].state # "PREPARED"
           \/ applyParticipantDecision(s, c).rows[c.tx].state = "PREPARED"
    PROVE  isPartitionReserved(applyParticipantDecision(s, c))
  <1>1. CASE s.rows[c.tx].state # "PREPARED"
    BY <1>1, SetRowReserved DEF applyParticipantDecision
  <1>2. CASE applyParticipantDecision(s, c).rows[c.tx].state = "PREPARED"
    <2>1. c.tx \in Tx
      OBVIOUS
    <2> QED
      BY Zenon, <1>2, <2>1 DEF isPartitionReserved
  <1> QED
    BY <1>1, <1>2

(* A statement leaves the rows alone, and the partition reserved it met    *)
(* when it is not settled afterwards.                                      *)
LEMMA StatementReserved ==
    ASSUME NEW s \in State, NEW c \in [type : {"QUERY"}, write : Writes]
    PROVE  LET z == applyCommittedStatement(s, c) IN
           /\ isPartitionReserved(s) => isPartitionReserved(z)
           /\ c.write \notin z.settled => isPartitionReserved(z)
  <1> DEFINE k == [s EXCEPT !.settled = @ \cup {c.write}]
             n == [k EXCEPT !.runs[c.write] = @ + 1]
             z == applyCommittedStatement(s, c)
  <1> SUFFICES /\ isPartitionReserved(s) => isPartitionReserved(z)
               /\ c.write \notin z.settled => isPartitionReserved(z)
    OBVIOUS
  <1>1. \/ z = s /\ (c.write \in s.settled \/ isPartitionReserved(s))
        \/ z = k
        \/ z = advancePartitionWriteGeneration(n, c.write)
    BY Zenon DEF applyCommittedStatement
  <1>2. k \in State /\ k.rows = s.rows /\ c.write \in k.settled
    <2>1. k \in State
      BY Zenon DEF State
    <2>2. k.rows = s.rows /\ c.write \in k.settled
      BY DEF State
    <2> QED
      BY <2>1, <2>2
  <1>3. n \in State
    <2>1. k.runs[c.write] + 1 \in Nat
      BY <1>2 DEF State
    <2> HIDE DEF k
    <2> QED
      BY Zenon, <1>2, <2>1 DEF State
  <1>4. n.rows = s.rows /\ c.write \in n.settled
    BY DEF State
  <1> HIDE DEF n, k, z
  <1>5. CASE z = s /\ (c.write \in s.settled \/ isPartitionReserved(s))
    BY Zenon, <1>5
  <1>6. CASE z = k
    BY <1>2, <1>6 DEF isPartitionReserved
  <1>7. CASE z = advancePartitionWriteGeneration(n, c.write)
    <2>1. c.write \in Tx \cup Writes
      OBVIOUS
    <2>2. z.rows = s.rows /\ c.write \in z.settled
      BY <1>3, <1>4, <1>7, <2>1, AdvanceFields, AdvanceHistory
    <2> QED
      BY <2>2 DEF isPartitionReserved
  <1> QED
    BY <1>1, <1>5, <1>6, <1>7

LEMMA OriginReserved ==
    ASSUME NEW s \in State, NEW i \in Nat, isPartitionReserved(s)
    PROVE  isPartitionReserved(applyGenerationOrigin(s, i))
  BY DEF applyGenerationOrigin, isPartitionReserved, State

(* The state a replica is in after it applies its next entry.              *)
LEMMA NextDb ==
    ASSUME TypeOK, LogSound, HistoryInv, NEW r \in Replicas, NEW type,
           NextEntry(r, type), UNCHANGED states
    PROVE  /\ Db(r)' = applyCommittedEntry(Db(r), log[applied[r] + 1],
                                           applied[r] + 1)
           /\ Db(r)' = states[applied[r] + 2]
           /\ Db(r) \in State /\ ReservationSound(Db(r))
           /\ log[applied[r] + 1] \in Commands
           /\ log[applied[r] + 1].type = type
           /\ \A x \in Replicas \ {r} : Db(x)' = Db(x)
  <1>1. /\ applied[r] < Len(log) /\ log[applied[r] + 1].type = type
        /\ applied' = [applied EXCEPT ![r] = @ + 1]
    BY Zenon DEF NextEntry
  <1>2. /\ applied[r] \in Nat /\ applied[r] + 1 \in 1..Len(log)
        /\ applied[r] + 1 \in 1..Len(states)
        /\ applied \in [Replicas -> Nat]
    BY <1>1 DEF TypeOK
  <1>3. /\ applied'[r] = applied[r] + 1
        /\ \A x \in Replicas \ {r} : applied'[x] = applied[x]
    BY <1>1, <1>2
  <1>4. Db(r)' = states[applied[r] + 2]
    BY <1>2, <1>3 DEF Db
  <1>5. states[applied[r] + 2]
          = applyCommittedEntry(Db(r), log[applied[r] + 1], applied[r] + 1)
    BY <1>2 DEF HistoryInv, LogApplied, Db
  <1>6. \A x \in Replicas \ {r} : Db(x)' = Db(x)
    BY <1>3 DEF Db
  <1>7. ReservationSound(Db(r)) /\ Db(r) \in State
    BY Zenon, <1>2, DbType DEF LogSound, Db
  <1>8. log[applied[r] + 1] \in Commands
    BY Zenon, <1>1, NextStateType
  <1> QED
    BY Zenon, <1>1, <1>4, <1>5, <1>6, <1>7, <1>8

LEMMA PrepareEntryKeeps ==
    ASSUME TypeOK, LogSound, HistoryInv, NEW r \in Replicas,
           NextEntry(r, "PREPARE"), UNCHANGED states, isPartitionReserved(Db(r))
    PROVE  isPartitionReserved(Db(r)')
  <1> DEFINE c == log[applied[r] + 1]
  <1>1. /\ Db(r)' = applyCommittedEntry(Db(r), c, applied[r] + 1)
        /\ Db(r) \in State /\ c \in Commands /\ c.type = "PREPARE"
    BY Zenon, NextDb
  <1>2. PICK s \in State : s = Db(r)
    BY Zenon, <1>1
  <1> HIDE DEF c
  <1>3. Db(r)' = applyParticipantPrepare(s, c)
    BY <1>1, <1>2 DEF applyCommittedEntry
  <1> QED
    BY Zenon, <1>1, <1>2, <1>3, PrepareCommandType, PrepareReserved

LEMMA DecisionEntryKeeps ==
    ASSUME TypeOK, LogSound, HistoryInv, NEW r \in Replicas,
           NextEntry(r, "DECISION"), UNCHANGED states,
           isPartitionReserved(Db(r)),
           ~ (/\ Db(r).rows[log[applied[r] + 1].tx].state = "PREPARED"
              /\ states[applied[r] + 2].rows[log[applied[r] + 1].tx].state
                    # "PREPARED")
    PROVE  isPartitionReserved(Db(r)')
  <1> DEFINE c == log[applied[r] + 1]
  <1>1. /\ Db(r)' = applyCommittedEntry(Db(r), c, applied[r] + 1)
        /\ Db(r)' = states[applied[r] + 2]
        /\ Db(r) \in State /\ c \in Commands /\ c.type = "DECISION"
        /\ ReservationSound(Db(r))
    BY Zenon, NextDb
  <1>2. \/ Db(r).rows[c.tx].state # "PREPARED"
        \/ Db(r)'.rows[c.tx].state = "PREPARED"
    BY Zenon, <1>1
  <1>3. PICK s \in State : s = Db(r)
    BY Zenon, <1>1
  <1> HIDE DEF c
  <1>4. Db(r)' = applyParticipantDecision(s, c)
    BY <1>1, <1>3 DEF applyCommittedEntry
  <1> QED
    BY Zenon, <1>1, <1>2, <1>3, <1>4, DecisionCommandType, DecisionReserved

LEMMA StatementEntryKeeps ==
    ASSUME TypeOK, LogSound, HistoryInv, NEW r \in Replicas,
           NextEntry(r, "QUERY"), UNCHANGED states
    PROVE  /\ isPartitionReserved(Db(r)) => isPartitionReserved(Db(r)')
           /\ log[applied[r] + 1].write \notin states[applied[r] + 2].settled
                => isPartitionReserved(Db(r)')
  <1> DEFINE c == log[applied[r] + 1]
  <1>1. /\ Db(r)' = applyCommittedEntry(Db(r), c, applied[r] + 1)
        /\ Db(r)' = states[applied[r] + 2]
        /\ Db(r) \in State /\ c \in Commands /\ c.type = "QUERY"
    BY Zenon, NextDb
  <1>2. PICK s \in State : s = Db(r)
    BY Zenon, <1>1
  <1> SUFFICES /\ isPartitionReserved(s) => isPartitionReserved(Db(r)')
               /\ c.write \notin Db(r)'.settled => isPartitionReserved(Db(r)')
    BY Zenon, <1>1, <1>2
  <1> HIDE DEF c
  <1>3. c \in [type : {"QUERY"}, write : Writes]
    BY <1>1, CommandCases DEF OriginCommand
  <1>4. Db(r)' = applyCommittedStatement(s, c)
    BY <1>1, <1>2 DEF applyCommittedEntry
  <1> QED
    BY Zenon, <1>3, <1>4, StatementReserved

LEMMA OriginEntryKeeps ==
    ASSUME TypeOK, LogSound, HistoryInv, NEW r \in Replicas,
           NextEntry(r, "ORIGIN"), UNCHANGED states, isPartitionReserved(Db(r))
    PROVE  isPartitionReserved(Db(r)')
  <1> DEFINE c == log[applied[r] + 1]
  <1>1. /\ Db(r)' = applyCommittedEntry(Db(r), c, applied[r] + 1)
        /\ Db(r) \in State /\ c \in Commands /\ c.type = "ORIGIN"
    BY Zenon, NextDb
  <1>2. applied[r] + 1 \in Nat
    BY DEF TypeOK
  <1>3. PICK s \in State : s = Db(r)
    BY Zenon, <1>1
  <1> HIDE DEF c
  <1>4. Db(r)' = applyGenerationOrigin(s, applied[r] + 1)
    BY <1>1, <1>3 DEF applyCommittedEntry
  <1> QED
    BY Zenon, <1>2, <1>3, <1>4, OriginReserved

LEMMA ParkedKept ==
    TypeOK /\ LogSound /\ HistoryInv /\ ParkedOnlyWhileReserved /\ [Next]_vars
        => ParkedOnlyWhileReserved'
  <1> SUFFICES ASSUME TypeOK, LogSound, HistoryInv, ParkedOnlyWhileReserved,
                      [Next]_vars, NEW x \in Replicas, parked'[x] # {}
               PROVE  isPartitionReserved(Db(x)')
    BY Zenon DEF ParkedOnlyWhileReserved, isPartitionReserved
  <1> USE DEF consensusVars, clientVars
  <1>0. parked \in [Replicas -> SUBSET Commands]
    BY DEF TypeOK
  <1>1. ASSUME Db(x)' = Db(x), parked'[x] \subseteq parked[x]
        PROVE  isPartitionReserved(Db(x)')
    <2>1. parked[x] # {}
      BY <1>1
    <2>2. isPartitionReserved(Db(x))
      BY Zenon, <2>1 DEF ParkedOnlyWhileReserved
    <2> QED
      BY Zenon, <1>1, <2>2
  <1>2. ASSUME UNCHANGED <<states, applied>> PROVE Db(x)' = Db(x)
    BY Zenon, <1>2 DEF Db
  <1>3. ASSUME NEW c \in inFlight, commitEntry(c)
        PROVE  isPartitionReserved(Db(x)')
    <2>1. /\ applied[x] + 1 \in 1..Len(states) /\ states \in Seq(State)
          /\ c \in Commands /\ Len(log) + 1 \in Nat
      BY DEF TypeOK
    <2>2. LastState \in State
      BY LastType
    <2>3. /\ applied' = applied /\ parked' = parked
          /\ states' = Append(states, applyCommittedEntry(LastState, c, Len(log) + 1))
      BY Zenon, <1>3 DEF commitEntry, LastState
    <2>4. PICK z \in State : z = applyCommittedEntry(LastState, c, Len(log) + 1)
      BY Zenon, <2>1, <2>2, ApplyType
    <2>5. states'[applied[x] + 1] = states[applied[x] + 1]
      BY <2>1, <2>3, <2>4
    <2> QED
      BY Zenon, <1>1, <2>3, <2>5 DEF Db
  <1>4. ASSUME NEW r \in Replicas,
               \/ enableParticipantTransactionAdmission(r)
               \/ becomeLeader(r)
        PROVE  isPartitionReserved(Db(x)')
    BY Zenon, <1>1, <1>2, <1>4 DEF enableParticipantTransactionAdmission, becomeLeader
  <1>5. ASSUME NEW r \in Replicas,
               \/ releasePendingWrites(r)
               \/ \E c \in pending[r] : commitDeadline(r, c)
        PROVE  isPartitionReserved(Db(x)')
    <2>1. /\ UNCHANGED <<states, applied>>
          /\ \/ parked' = [parked EXCEPT ![r] = {}]
             \/ \E c : parked' = [parked EXCEPT ![r] = parked[r] \ {c}]
      BY Zenon, <1>5 DEF releasePendingWrites, commitDeadline
    <2>2. parked'[x] \subseteq parked[x]
      BY <1>0, <2>1
    <2> QED
      BY Zenon, <1>1, <1>2, <2>1, <2>2
  <1>6. ASSUME NEW r \in Replicas, NEW w \in Writes,
               startAdmittedPartitionWrite(r, w)
        PROVE  isPartitionReserved(Db(x)')
    <2>1. /\ UNCHANGED <<states, applied>>
          /\ \/ parked' = parked
             \/ /\ parked' = [parked EXCEPT ![r] = @ \cup {QueryCommand(w)}]
                /\ isPartitionReserved(Db(r))
      BY Zenon, <1>6 DEF startAdmittedPartitionWrite
    <2>2. CASE x = r /\ isPartitionReserved(Db(r))
      BY Zenon, <1>2, <2>1, <2>2
    <2>3. CASE parked' = parked
      BY Zenon, <1>1, <1>2, <2>1, <2>3
    <2>4. CASE /\ parked' = [parked EXCEPT ![r] = @ \cup {QueryCommand(w)}]
               /\ x # r
      BY <1>0, <1>1, <1>2, <2>1, <2>4
    <2> QED
      BY Zenon, <2>1, <2>2, <2>3, <2>4
  <1>7. ASSUME NEW r \in Replicas, NEW t \in Tx,
               \/ beginParticipantSession(r, t)
               \/ stageWrite(r, t)
               \/ prepareParticipant(r, t)
               \/ decideParticipant(r, t)
               \/ sweepExpiredParticipantSessions(r, t)
        PROVE  isPartitionReserved(Db(x)')
    <2>1. UNCHANGED <<states, applied, parked>>
      BY <1>7 DEF beginParticipantSession, stageWrite, prepareParticipant,
                  decideParticipant, sweepExpiredParticipantSessions
    <2> QED
      BY Zenon, <1>1, <1>2, <2>1
  <1>8. ASSUME NEW t \in Tx, NEW d \in {"COMMIT", "ROLLBACK"}, Decide(t, d)
        PROVE  isPartitionReserved(Db(x)')
    BY Zenon, <1>1, <1>2, <1>8 DEF Decide
  <1>9. CASE UNCHANGED vars
    BY Zenon, <1>1, <1>2, <1>9 DEF vars
  <1>10. ASSUME NEW r \in Replicas, Apply(r)
         PROVE  isPartitionReserved(Db(x)')
    <2> DEFINE c == log[applied[r] + 1]
    <2>1. ASSUME NEW type, NextEntry(r, type), UNCHANGED states, x # r
          PROVE  Db(x)' = Db(x)
      BY Zenon, <2>1, NextDb
    <2>2. parked[x] # {} => isPartitionReserved(Db(x))
      BY Zenon DEF ParkedOnlyWhileReserved
    <2>3. CASE applyPrepareEntry(r)
      <3>1. NextEntry(r, "PREPARE") /\ UNCHANGED <<states, parked>>
        BY ZenonT(30), <2>3 DEF applyPrepareEntry
      <3> QED
        BY Zenon, <1>1, <2>1, <2>2, <3>1, PrepareEntryKeeps
    <2>4. CASE applyOriginEntry(r)
      <3>1. NextEntry(r, "ORIGIN") /\ UNCHANGED <<states, parked>>
        BY ZenonT(30), <2>4 DEF applyOriginEntry
      <3> QED
        BY Zenon, <1>1, <2>1, <2>2, <3>1, OriginEntryKeeps
    <2>5. CASE applyDecisionEntry(r)
      <3> DEFINE released ==
            /\ Db(r).rows[c.tx].state = "PREPARED"
            /\ states[applied[r] + 2].rows[c.tx].state # "PREPARED"
      <3>1. /\ NextEntry(r, "DECISION") /\ UNCHANGED states
            /\ parked' = IF released THEN [parked EXCEPT ![r] = {}] ELSE parked
        BY Zenon, <2>5 DEF applyDecisionEntry
      <3>2. parked'[x] \subseteq parked[x] /\ (released => x # r)
        <4> HIDE DEF released
        <4> QED
          BY <1>0, <3>1
      <3>3. CASE x # r
        BY Zenon, <1>1, <2>1, <3>1, <3>2, <3>3
      <3>4. CASE x = r
        <4>1. parked[x] # {}
          BY <3>2
        <4> QED
          BY Zenon, <2>2, <3>1, <3>2, <3>4, <4>1, DecisionEntryKeeps
      <3> QED
        BY <3>3, <3>4
    <2>6. CASE applyStatementEntry(r)
      <3>1. /\ NextEntry(r, "QUERY") /\ UNCHANGED states
            /\ IF c.write \in states[applied[r] + 2].settled
               THEN parked' = parked
               ELSE parked' = [parked EXCEPT ![r] = @ \cup Own(r, c)]
        BY Zenon, <2>6 DEF applyStatementEntry
      <3>2. CASE x # r
        <4>1. parked'[x] = parked[x]
          <5> HIDE DEF c
          <5> QED
            BY <1>0, <3>1, <3>2
        <4> QED
          BY Zenon, <1>1, <2>1, <3>1, <3>2, <4>1
      <3>3. CASE x = r
        BY Zenon, <2>2, <3>1, <3>3, StatementEntryKeeps
      <3> QED
        BY <3>2, <3>3
    <2> QED
      BY <1>10, <2>3, <2>4, <2>5, <2>6 DEF Apply
  <1> QED
    BY <1>3, <1>4, <1>5, <1>6, <1>7, <1>8, <1>9, <1>10 DEF Next

(* A write is parked only on a replica whose own state is reserved, so the *)
(* decision that ends the reservation there finds it and admits it again   *)
(* (parkReservedWrite, reparkReservedWrite, readmitReservedWrites): none   *)
(* is kept that nothing will wake.                                         *)
THEOREM ParkedTheorem == Spec => []ParkedOnlyWhileReserved
  <1>1. Init => ParkedOnlyWhileReserved
    BY DEF Init, ParkedOnlyWhileReserved
  <1> QED
    BY <1>1, InitTypeOK, StepTypeOK, LogSoundInit, LogSoundStep,
       HistoryInit, HistoryStep, ParkedKept, PTL DEF Spec

----------------------------------------------------------------------------
(* What commits holds what was staged.  A session lives on one replica; if *)
(* the requests of a transaction never leave sessions on two of them, the  *)
(* session that is sealed is the one that staged every answered statement. *)

(* No transaction has a session on two replicas at once.  Which replica a  *)
(* request reaches is not the participant's to decide: a BEGIN whose       *)
(* answer was lost may be sent again to another replica that leads.        *)
OneSession ==
    \A t \in Tx, r \in Replicas, q \in Replicas :
        session[r][t].phase # "NONE" /\ session[q][t].phase # "NONE" => r = q

(* A transaction that was sealed stages no more, and its session, the      *)
(* PREPARE on its way and the row hold every statement that was answered.  *)
SealedWithAcked(t, n) == frozen[t] /\ acked[t] <= n

StagedKept ==
    /\ \A t \in Tx : ~ begun[t] => acked[t] = 0
    /\ \A r \in Replicas, t \in Tx :
          session[r][t].phase # "NONE" => acked[t] <= session[r][t].ops
    /\ \A c \in inFlight : c.type = "PREPARE" => SealedWithAcked(c.tx, c.digest.ops)
    /\ \A t \in Tx : LastState.rows[t].state \in {"PREPARED", "COMMITTED"} =>
          SealedWithAcked(t, LastState.rows[t].digest.ops)

(* Only a PREPARE of its own takes a row from ABSENT to PREPARED, with its *)
(* digest, and nothing takes it from ABSENT to COMMITTED.                  *)
LEMMA AbsentRowPrepared ==
    ASSUME NEW s \in State, NEW c \in Commands, NEW i \in Nat, NEW t \in Tx,
           s.rows[t].state = "ABSENT",
           applyCommittedEntry(s, c, i).rows[t].state \in {"PREPARED", "COMMITTED"}
    PROVE  /\ c.type = "PREPARE" /\ c.tx = t
           /\ applyCommittedEntry(s, c, i).rows[t].digest = c.digest
  <1>1. CASE c \in [type : {"PREPARE"}, tx : Tx, digest : Prepared]
    <2>1. applyCommittedEntry(s, c, i) = applyParticipantPrepare(s, c)
      BY <1>1 DEF applyCommittedEntry
    <2>2. \/ applyParticipantPrepare(s, c) = s
          \/ \E st \in {"PREPARED", "REFUSED"} :
                applyParticipantPrepare(s, c) = SetRow(s, c.tx, st, c.digest)
      BY Zenon DEF applyParticipantPrepare
    <2>3. ASSUME NEW st
          PROVE  /\ SetRow(s, c.tx, st, c.digest).rows[c.tx].digest = c.digest
                 /\ c.tx # t => SetRow(s, c.tx, st, c.digest).rows[t] = s.rows[t]
      BY <1>1 DEF SetRow, State
    <2> QED
      BY <1>1, <2>1, <2>2, <2>3
  <1>2. CASE c \in [type : {"DECISION"}, tx : Tx,
                    decision : {"COMMIT", "ROLLBACK"}, digest : Digest]
    <2> DEFINE z == applyParticipantDecision(s, c)
    <2>1. applyCommittedEntry(s, c, i) = z
      BY <1>2 DEF applyCommittedEntry
    <2>2. CASE c.tx = t
      <3>1. z = s \/ z = SetRow(s, t, "ROLLED_BACK", c.digest)
        BY <2>2 DEF applyParticipantDecision
      <3>2. SetRow(s, t, "ROLLED_BACK", c.digest).rows[t].state = "ROLLED_BACK"
        BY DEF SetRow, State
      <3> QED
        BY <2>1, <3>1, <3>2
    <2>3. CASE c.tx # t
      <3>1. \/ z = s
            \/ \E st \in RowState, p \in Digest :
                  \/ z = SetRow(s, c.tx, st, p)
                  \/ z = advancePartitionWriteGeneration(SetRow(s, c.tx, st, p), c.tx)
        <4>1. s.rows[c.tx].digest \in Digest /\ c.digest \in Digest
          BY <1>2 DEF State, Row
        <4> QED
          BY <4>1, Zenon DEF applyParticipantDecision, commitPrepared, RowState
      <3>2. ASSUME NEW st \in RowState, NEW p \in Digest
            PROVE  /\ SetRow(s, c.tx, st, p).rows[t] = s.rows[t]
                   /\ advancePartitionWriteGeneration(SetRow(s, c.tx, st, p), c.tx).rows[t]
                         = s.rows[t]
        <4>1. SetRow(s, c.tx, st, p).rows[t] = s.rows[t]
          BY <1>2, <2>3 DEF SetRow, State
        <4>2. SetRow(s, c.tx, st, p) \in State
          BY <1>2, SetRowType
        <4> QED
          BY <4>1, <4>2, AdvanceFields, Zenon
      <3> QED
        BY <2>1, <3>1, <3>2
    <2> QED
      BY <2>2, <2>3
  <1>3. CASE c \in [type : {"QUERY"}, write : Writes] \/ c = OriginCommand
    <2>1. applyCommittedEntry(s, c, i).rows = s.rows
      <3>1. ASSUME NEW w \in Writes, c = QueryCommand(w)
            PROVE  applyCommittedEntry(s, c, i).rows = s.rows
        <4> DEFINE settled == [s EXCEPT !.settled = @ \cup {c.write}]
                   run == [settled EXCEPT !.runs[c.write] = @ + 1]
        <4>1. settled.rows = s.rows /\ run.rows = s.rows
          BY DEF State
        <4>2. advancePartitionWriteGeneration(run, c.write).rows = s.rows
          BY DEF advancePartitionWriteGeneration, State
        <4>3. applyCommittedEntry(s, c, i) = applyCommittedStatement(s, c)
          BY <3>1 DEF applyCommittedEntry, QueryCommand
        <4> QED
          BY <4>1, <4>2, <4>3, Zenon DEF applyCommittedStatement
      <3>2. CASE c = OriginCommand
        <4>1. applyCommittedEntry(s, c, i) = applyGenerationOrigin(s, i)
          BY <3>2 DEF applyCommittedEntry, OriginCommand
        <4> QED
          BY <4>1 DEF applyGenerationOrigin, State
      <3> QED
        BY <1>3, <3>1, <3>2 DEF QueryCommand
    <2> QED
      BY <2>1
  <1> QED
    BY <1>1, <1>2, <1>3, CommandCases

(* A step that leaves the log and the answers alone.                       *)
LEMMA StagedStill ==
    ASSUME TypeOK, StagedKept, states' = states, acked' = acked,
           \A t \in Tx : (begun[t] => begun'[t]) /\ (frozen[t] => frozen'[t]),
           \A r \in Replicas, t \in Tx :
              \/ session'[r][t] = session[r][t]
              \/ session'[r][t].phase = "NONE"
              \/ acked[t] <= session'[r][t].ops,
           \A c \in inFlight' :
              \/ c \in inFlight
              \/ c.type # "PREPARE"
              \/ c.tx \in Tx /\ frozen'[c.tx] /\ acked[c.tx] <= c.digest.ops
    PROVE  StagedKept'
  <1>1. \A t \in Tx : ~ begun'[t] => acked'[t] = 0
    BY Zenon DEF StagedKept
  <1>2. \A r \in Replicas, t \in Tx :
           session'[r][t].phase # "NONE" => acked'[t] <= session'[r][t].ops
    BY Zenon DEF StagedKept
  <1>3. ASSUME NEW c \in inFlight', c.type = "PREPARE"
        PROVE  SealedWithAcked(c.tx, c.digest.ops)'
    <2>1. CASE c \in inFlight
      <3>1. c.tx \in Tx
        BY <1>3, <2>1, PrepareCommandType DEF TypeOK
      <3> QED
        BY <1>3, <2>1, <3>1, Zenon DEF StagedKept, SealedWithAcked
    <2> QED
      BY <1>3, <2>1, Zenon DEF SealedWithAcked
  <1>4. \A t \in Tx : LastState'.rows[t].state \in {"PREPARED", "COMMITTED"} =>
           SealedWithAcked(t, LastState.rows[t].digest.ops)'
    <2>1. LastState' = LastState
      BY DEF LastState
    <2> QED
      BY <2>1, Zenon DEF StagedKept, SealedWithAcked
  <1> QED
    BY <1>1, <1>2, <1>3, <1>4, Zenon DEF StagedKept

LEMMA StagedCommit ==
    ASSUME TypeOK, LogSound, StagedKept, NEW c \in inFlight, commitEntry(c)
    PROVE  StagedKept'
  <1>1. /\ begun' = begun /\ acked' = acked /\ frozen' = frozen /\ session' = session
        /\ inFlight' \subseteq inFlight
    BY DEF commitEntry, clientVars
  <1>2. /\ StepSound(LastState, c, LastState')
        /\ LastState' = applyCommittedEntry(LastState, c, Len(log) + 1)
    BY LogSoundCommit
  <1>3. LastState \in State /\ c \in Commands /\ Len(log) + 1 \in Nat
    <2>1. Len(states) \in 1..Len(states)
      BY DEF TypeOK
    <2> QED
      BY <2>1 DEF TypeOK, LastState
  <1>4. ASSUME NEW t \in Tx, LastState'.rows[t].state \in {"PREPARED", "COMMITTED"}
        PROVE  SealedWithAcked(t, LastState'.rows[t].digest.ops)
    <2>1. CASE LastState.rows[t].state = "ABSENT"
      <3>1. c.type = "PREPARE" /\ c.tx = t /\ LastState'.rows[t].digest = c.digest
        <4>1. PICK x, i : x = LastState /\ i = Len(log) + 1
          BY Zenon
        <4>2. LastState' = applyCommittedEntry(x, c, i)
          BY <1>2, <4>1, Zenon
        <4>3. applyCommittedEntry(x, c, i).rows[t].state \in {"PREPARED", "COMMITTED"}
          BY <1>4, <4>2, Zenon
        <4>4. x \in State /\ i \in Nat /\ x.rows[t].state = "ABSENT"
          BY <1>3, <2>1, <4>1, Zenon
        <4>5. /\ c.type = "PREPARE" /\ c.tx = t
              /\ applyCommittedEntry(x, c, i).rows[t].digest = c.digest
          BY <1>3, <4>3, <4>4, AbsentRowPrepared
        <4> QED
          BY <4>2, <4>5, Zenon
      <3> QED
        BY <3>1, Zenon DEF StagedKept
    <2>2. CASE LastState.rows[t].state \in {"PREPARED", "COMMITTED"}
      <3>1. LastState'.rows[t].digest = LastState.rows[t].digest
        BY <1>2, <2>2 DEF StepSound, RowsStand, Terminal
      <3> QED
        BY <2>2, <3>1, Zenon DEF StagedKept
    <2>3. CASE LastState.rows[t].state \in {"ROLLED_BACK", "REFUSED"}
      BY <1>2, <1>4, <2>3 DEF StepSound, RowsStand, Terminal
    <2>4. LastState.rows[t].state \in RowState
      BY <1>3 DEF State, Row
    <2> QED
      BY <2>1, <2>2, <2>3, <2>4 DEF RowState
  <1>5. \A t \in Tx : LastState'.rows[t].state \in {"PREPARED", "COMMITTED"} =>
           SealedWithAcked(t, LastState.rows[t].digest.ops)'
    BY <1>1, <1>4, Zenon DEF SealedWithAcked
  <1>6. \A d \in inFlight' : d.type = "PREPARE" => SealedWithAcked(d.tx, d.digest.ops)'
    BY <1>1, Zenon DEF StagedKept, SealedWithAcked
  <1> QED
    BY <1>1, <1>5, <1>6, Zenon DEF StagedKept

(* The answer to a statement reaches the client of a transaction that has  *)
(* no other session than the one the statement was staged in.              *)
LEMMA StagedStage ==
    ASSUME TypeOK, StagedKept, OneSession, NEW r \in Replicas, NEW t \in Tx,
           stageWrite(r, t)
    PROVE  StagedKept'
  <1>1. /\ states' = states /\ begun' = begun /\ frozen' = frozen /\ inFlight' = inFlight
        /\ begun[t] /\ ~ frozen[t]
    BY DEF stageWrite, consensusVars
  <1>2. CASE rowEndingSession(r, t) /\ acked' = acked
    <2>1. \A q \in Replicas, u \in Tx :
             session'[q][u] = session[q][u] \/ session'[q][u].phase = "NONE"
      BY <1>2 DEF rowEndingSession, SetSession, TypeOK, NoSession
    <2> QED
      BY <1>1, <1>2, <2>1, StagedStill
  <1>3. CASE /\ session[r][t].phase = "ACTIVE" /\ acked' = acked
             /\ SetSession(r, t, [session[r][t] EXCEPT !.phase = "DOOMED"])
    <2>1. PICK x : x = [session[r][t] EXCEPT !.phase = "DOOMED"]
      BY Zenon
    <2>2. x.ops = session[r][t].ops
      <3>1. session[r][t] \in Session
        BY DEF TypeOK
      <3> QED
        BY <2>1, <3>1 DEF Session, NoSession
    <2>3. acked[t] <= x.ops
      BY <1>3, <2>2 DEF StagedKept
    <2>4. \A q \in Replicas, u \in Tx :
             session'[q][u] = IF q = r /\ u = t THEN x ELSE session[q][u]
      BY <1>3, <2>1 DEF SetSession, TypeOK
    <2>5. \A q \in Replicas, u \in Tx :
             session'[q][u] = session[q][u] \/ acked[u] <= session'[q][u].ops
      BY <2>3, <2>4, Zenon
    <2> QED
      BY <1>1, <1>3, <2>5, StagedStill
  <1>4. CASE /\ session[r][t].phase = "ACTIVE"
             /\ SetSession(r, t, [session[r][t] EXCEPT !.ops = @ + 1])
             /\ acked' \in {acked, [acked EXCEPT ![t] = @ + 1]}
    <2>1. PICK x : x = [session[r][t] EXCEPT !.ops = @ + 1]
      BY Zenon
    <2>2. x.ops = session[r][t].ops + 1 /\ session[r][t].ops \in Nat
      <3>1. session[r][t] \in Session
        BY DEF TypeOK
      <3> QED
        BY <2>1, <3>1, ParticipantAssumption DEF Session, NoSession
    <2>3. /\ acked \in [Tx -> Nat] /\ acked'[t] <= acked[t] + 1 /\ acked'[t] \in Nat
          /\ \A u \in Tx \ {t} : acked'[u] = acked[u]
      BY <1>4 DEF TypeOK
    <2>4. acked[t] <= session[r][t].ops /\ acked[t] \in Nat
      BY <1>4, <2>3 DEF StagedKept
    <2>5. acked'[t] <= x.ops
      BY <2>2, <2>3, <2>4
    <2>6. \A q \in Replicas, u \in Tx :
             session'[q][u] = IF q = r /\ u = t THEN x ELSE session[q][u]
      BY <1>4, <2>1 DEF SetSession, TypeOK
    <2>7. ASSUME NEW q \in Replicas, NEW u \in Tx, session'[q][u].phase # "NONE"
          PROVE  acked'[u] <= session'[q][u].ops
      <3>1. CASE u # t
        BY <2>3, <2>6, <2>7, <3>1, Zenon DEF StagedKept
      <3>2. CASE u = t /\ q = r
        BY <2>5, <2>6, <3>2, Zenon
      <3>3. CASE u = t /\ q # r
        BY <1>4, <2>6, <2>7, <3>3 DEF OneSession
      <3> QED
        BY <3>1, <3>2, <3>3
    <2>8. \A c \in inFlight' : c.type = "PREPARE" => SealedWithAcked(c.tx, c.digest.ops)'
      <3> SUFFICES ASSUME NEW c \in inFlight, c.type = "PREPARE"
                   PROVE  SealedWithAcked(c.tx, c.digest.ops)'
        BY <1>1
      <3>1. SealedWithAcked(c.tx, c.digest.ops)
        BY DEF StagedKept
      <3>2. c.tx \in Tx \ {t}
        <4>1. c.tx \in Tx
          BY PrepareCommandType DEF TypeOK
        <4> QED
          BY <1>1, <3>1, <4>1 DEF SealedWithAcked
      <3> QED
        BY <1>1, <2>3, <3>1, <3>2, Zenon DEF SealedWithAcked
    <2>9. \A u \in Tx : LastState'.rows[u].state \in {"PREPARED", "COMMITTED"} =>
             SealedWithAcked(u, LastState.rows[u].digest.ops)'
      <3>1. LastState' = LastState
        BY <1>1 DEF LastState
      <3>2. ASSUME NEW u \in Tx, LastState.rows[u].state \in {"PREPARED", "COMMITTED"}
            PROVE  u # t /\ SealedWithAcked(u, LastState.rows[u].digest.ops)
        BY <1>1, <3>2 DEF StagedKept, SealedWithAcked
      <3> QED
        BY <1>1, <2>3, <3>1, <3>2, Zenon DEF SealedWithAcked
    <2>10. \A u \in Tx : ~ begun'[u] => acked'[u] = 0
      BY <1>1, <2>3 DEF StagedKept
    <2> QED
      BY <2>7, <2>8, <2>9, <2>10, Zenon DEF StagedKept
  <1> QED
    BY <1>2, <1>3, <1>4, Zenon DEF stageWrite

(* The steps of the transaction's other requests.                          *)
LEMMA StagedRequest ==
    ASSUME TypeOK, StagedKept, NEW r \in Replicas, NEW t \in Tx,
           \/ beginParticipantSession(r, t) \/ prepareParticipant(r, t)
           \/ decideParticipant(r, t) \/ sweepExpiredParticipantSessions(r, t)
    PROVE  StagedKept'
  <1>0. session \in [Replicas -> [Tx -> Session]] /\ acked \in [Tx -> Nat]
    BY DEF TypeOK
  <1>1. ASSUME NEW x, SetSession(r, t, x), x.phase = "NONE" \/ acked[t] <= x.ops
        PROVE  \A q \in Replicas, u \in Tx :
                  \/ session'[q][u] = session[q][u]
                  \/ session'[q][u].phase = "NONE"
                  \/ acked[u] <= session'[q][u].ops
    <2>1. \A q \in Replicas, u \in Tx :
             session'[q][u] = IF q = r /\ u = t THEN x ELSE session[q][u]
      BY <1>0, <1>1 DEF SetSession
    <2> QED
      BY <1>1, <2>1, Zenon
  <1>2. NoSession.phase = "NONE"
    BY DEF NoSession
  <1>3. CASE beginParticipantSession(r, t)
    <2>1. /\ states' = states /\ acked' = acked /\ frozen' = frozen /\ inFlight' = inFlight
          /\ begun' \in {begun, [begun EXCEPT ![t] = TRUE]} /\ ~ begun[t]
      BY <1>3, Zenon DEF beginParticipantSession, consensusVars
    <2>2. \A u \in Tx : begun[u] => begun'[u]
      <3>1. begun \in [Tx -> BOOLEAN]
        BY DEF TypeOK
      <3> QED
        BY <2>1, <3>1, Zenon
    <2>3. acked[t] = 0
      BY <2>1 DEF StagedKept
    <2>4. PICK x : x = [phase |-> "ACTIVE", ops |-> 0, base |-> Db(r).g,
                        origin |-> Db(r).origin]
      BY Zenon
    <2>5. acked[t] <= x.ops
      BY <2>3, <2>4
    <2>6. session' = session \/ SetSession(r, t, NoSession) \/ SetSession(r, t, x)
      BY <1>3, <2>4, Zenon DEF beginParticipantSession, rowEndingSession
    <2>7. \A q \in Replicas, u \in Tx :
             \/ session'[q][u] = session[q][u]
             \/ session'[q][u].phase = "NONE"
             \/ acked[u] <= session'[q][u].ops
      BY <1>1, <1>2, <2>5, <2>6, Zenon
    <2> QED
      BY <2>1, <2>2, <2>7, StagedStill, Zenon
  <1>4. CASE prepareParticipant(r, t)
    <2>1. /\ states' = states /\ acked' = acked /\ begun' = begun
          /\ frozen' = [frozen EXCEPT ![t] = TRUE]
      BY <1>4, Zenon DEF prepareParticipant, consensusVars
    <2>2. frozen'[t] /\ \A u \in Tx : frozen[u] => frozen'[u]
      BY <2>1 DEF TypeOK
    <2>3. PICK x, p, old : /\ old = session[r][t] /\ x = [old EXCEPT !.phase = "PREPARING"]
                           /\ p = SealedPrepare(r, t)
      BY Zenon
    <2>4. \/ /\ session' = session \/ SetSession(r, t, NoSession)
             /\ inFlight' = inFlight
          \/ /\ old.phase # "NONE" /\ (session' = session \/ SetSession(r, t, x))
             /\ inFlight' = Proposed(r, {p})
      BY <1>4, <2>3, Zenon
         DEF prepareParticipant, rowEndingSession, sealSession, proposeAdmitted
    <2>5. old \in Session
      BY <1>0, <2>3
    <2>6. x.ops = old.ops /\ p.tx = t /\ p.digest.ops = old.ops
      BY <2>3, <2>5 DEF Session, NoSession, SealedPrepare, PrepareCommand, SealedContent
    <2>7. old.phase # "NONE" => acked[t] <= old.ops
      BY <2>3, Zenon DEF StagedKept
    <2>8. \A q \in Replicas, u \in Tx :
             \/ session'[q][u] = session[q][u]
             \/ session'[q][u].phase = "NONE"
             \/ acked[u] <= session'[q][u].ops
      BY <1>1, <1>2, <2>4, <2>6, <2>7, Zenon
    <2>9. \A c \in inFlight' :
              \/ c \in inFlight
              \/ c.tx \in Tx /\ frozen'[c.tx] /\ acked[c.tx] <= c.digest.ops
      <3>1. ASSUME NEW c \in inFlight'
            PROVE  c \in inFlight \/ (old.phase # "NONE" /\ c = p)
        BY <2>4, <3>1 DEF Proposed
      <3> QED
        BY <2>2, <2>6, <2>7, <3>1, Zenon
    <2> QED
      BY <2>1, <2>2, <2>8, <2>9, StagedStill, Zenon
  <1>5. CASE decideParticipant(r, t)
    <2>1. /\ states' = states /\ acked' = acked /\ begun' = begun /\ frozen' = frozen
          /\ SetSession(r, t, NoSession)
          /\ inFlight' = inFlight \/ inFlight' = Proposed(r, {RecordedDecision(t)})
      BY <1>5, Zenon DEF decideParticipant, rowEndingSession, proposeAdmitted,
         consensusVars, clientVars
    <2>2. RecordedDecision(t).type = "DECISION"
      BY DEF RecordedDecision, DecisionCommand
    <2>3. \A c \in inFlight' : c \in inFlight \/ c.type # "PREPARE"
      BY <2>1, <2>2 DEF Proposed
    <2>4. \A q \in Replicas, u \in Tx :
             \/ session'[q][u] = session[q][u]
             \/ session'[q][u].phase = "NONE"
             \/ acked[u] <= session'[q][u].ops
      BY <1>1, <1>2, <2>1, Zenon
    <2> QED
      BY <2>1, <2>3, <2>4, StagedStill, Zenon
  <1>6. CASE sweepExpiredParticipantSessions(r, t)
    <2>1. /\ states' = states /\ acked' = acked /\ begun' = begun /\ frozen' = frozen
          /\ SetSession(r, t, NoSession) /\ inFlight' = inFlight
      BY <1>6, Zenon DEF sweepExpiredParticipantSessions, consensusVars, clientVars
    <2>2. \A q \in Replicas, u \in Tx :
             \/ session'[q][u] = session[q][u]
             \/ session'[q][u].phase = "NONE"
             \/ acked[u] <= session'[q][u].ops
      BY <1>1, <1>2, <2>1, Zenon
    <2> QED
      BY <2>1, <2>2, StagedStill, Zenon
  <1> QED
    BY <1>3, <1>4, <1>5, <1>6

(* Consensus, application and ordinary writes: a session is kept or ended, *)
(* and no PREPARE is put in flight.                                        *)
LEMMA StagedElsewhere ==
    ASSUME TypeOK, DecisionSoundness, StagedKept, NEW r \in Replicas,
           \/ enableParticipantTransactionAdmission(r) \/ Apply(r)
           \/ becomeLeader(r) \/ releasePendingWrites(r)
           \/ \E c \in pending[r] : commitDeadline(r, c)
           \/ \E w \in Writes : startAdmittedPartitionWrite(r, w)
    PROVE  StagedKept'
  <1>1. /\ states' = states /\ acked' = acked /\ begun' = begun /\ frozen' = frozen
    <2>1. ASSUME Apply(r)
          PROVE  <1>1
      BY <2>1, ZenonT(60) DEF Apply, applyPrepareEntry, applyDecisionEntry,
         applyStatementEntry, applyOriginEntry, clientVars
    <2> QED
      BY <2>1, Zenon DEF enableParticipantTransactionAdmission, becomeLeader,
         releasePendingWrites, commitDeadline, startAdmittedPartitionWrite,
         consensusVars, clientVars
  <1>2. \A q \in Replicas, u \in Tx :
           session'[q][u] = session[q][u] \/ session'[q][u].phase = "NONE"
    <2>1. \/ session' = session
          \/ session' = [session EXCEPT ![r] = [t \in Tx |-> NoSession]]
          \/ SetSession(r, log[applied[r] + 1].tx, NoSession)
      <3>1. ASSUME Apply(r)
            PROVE  <2>1
        BY <3>1, ZenonT(60) DEF Apply, applyPrepareEntry, applyDecisionEntry,
           applyStatementEntry, applyOriginEntry, clientVars
      <3> QED
        BY <3>1, Zenon DEF enableParticipantTransactionAdmission, becomeLeader,
           releasePendingWrites, commitDeadline, startAdmittedPartitionWrite,
           consensusVars, clientVars
    <2>2. session \in [Replicas -> [Tx -> Session]] /\ NoSession.phase = "NONE"
      BY DEF TypeOK, NoSession
    <2>3. PICK u : u = log[applied[r] + 1].tx
      BY Zenon
    <2>4. CASE SetSession(r, u, NoSession)
      BY <2>2, <2>4 DEF SetSession
    <2>5. CASE session' = [session EXCEPT ![r] = [t \in Tx |-> NoSession]]
      BY <2>2, <2>5
    <2> QED
      BY <2>1, <2>3, <2>4, <2>5
  <1>3. \A c \in inFlight' : c \in inFlight \/ c.type # "PREPARE"
    <2>1. /\ \A c \in parked[r] : c.type # "PREPARE"
          /\ OriginCommand.type # "PREPARE"
          /\ \A w \in Writes : QueryCommand(w).type # "PREPARE"
      BY DEF DecisionSoundness, ParkedStatements, OriginCommand, QueryCommand
    <2>2. \/ inFlight' \subseteq inFlight
          \/ inFlight' = Proposed(r, parked[r])
          \/ inFlight' = Proposed(r, {OriginCommand})
          \/ \E w \in Writes : inFlight' = Proposed(r, {QueryCommand(w)})
      <3>1. ASSUME Apply(r)
            PROVE  inFlight' = inFlight \/ inFlight' = Proposed(r, parked[r])
        BY <3>1, ZenonT(60) DEF Apply, applyPrepareEntry, applyDecisionEntry,
           applyStatementEntry, applyOriginEntry
      <3> QED
        BY <3>1, ZenonT(60) DEF enableParticipantTransactionAdmission, becomeLeader,
           releasePendingWrites, commitDeadline, startAdmittedPartitionWrite,
           proposeAdmitted
    <2> QED
      BY <2>1, <2>2 DEF Proposed
  <1> QED
    BY <1>1, <1>2, <1>3, StagedStill, Zenon

LEMMA StagedInit == Init => StagedKept
  <1> SUFFICES ASSUME Init
               PROVE  StagedKept
    OBVIOUS
  <1>1. LastState = InitState
    BY DEF Init, LastState
  <1>2. \A t \in Tx : LastState.rows[t].state = "ABSENT"
    BY <1>1 DEF InitState
  <1>3. /\ \A t \in Tx : acked[t] = 0
        /\ \A r \in Replicas, t \in Tx : session[r][t].phase = "NONE"
    BY DEF Init, NoSession
  <1> QED
    BY <1>2, <1>3 DEF Init, StagedKept

LEMMA StagedStep ==
    TypeOK /\ LogSound /\ DecisionSoundness /\ OneSession /\ StagedKept /\ [Next]_vars
        => StagedKept'
  <1> SUFFICES ASSUME TypeOK, LogSound, DecisionSoundness, OneSession, StagedKept, [Next]_vars
               PROVE  StagedKept'
    OBVIOUS
  <1>1. CASE UNCHANGED vars
    <2>1. /\ states' = states /\ acked' = acked /\ begun' = begun /\ frozen' = frozen
          /\ session' = session /\ inFlight' = inFlight
      BY <1>1 DEF vars
    <2> QED
      BY <2>1, StagedStill, Zenon
  <1>2. ASSUME NEW t \in Tx, NEW d \in {"COMMIT", "ROLLBACK"}, Decide(t, d)
        PROVE  StagedKept'
    <2>1. /\ states' = states /\ acked' = acked /\ begun' = begun
          /\ session' = session /\ inFlight' = inFlight
          /\ frozen' = [frozen EXCEPT ![t] = TRUE]
      BY <1>2 DEF Decide, consensusVars
    <2>2. \A u \in Tx : frozen[u] => frozen'[u]
      <3>1. frozen \in [Tx -> BOOLEAN]
        BY DEF TypeOK
      <3> QED
        BY <2>1, <3>1, Zenon
    <2> QED
      BY <2>1, <2>2, StagedStill, Zenon
  <1>3. ASSUME NEW c \in inFlight, commitEntry(c)
        PROVE  StagedKept'
    BY <1>3, StagedCommit
  <1>4. ASSUME NEW r \in Replicas,
               \/ enableParticipantTransactionAdmission(r) \/ Apply(r)
               \/ becomeLeader(r) \/ releasePendingWrites(r)
               \/ \E c \in pending[r] : commitDeadline(r, c)
               \/ \E w \in Writes : startAdmittedPartitionWrite(r, w)
        PROVE  StagedKept'
    BY <1>4, StagedElsewhere, Zenon
  <1>5. ASSUME NEW r \in Replicas, NEW t \in Tx,
               \/ beginParticipantSession(r, t) \/ prepareParticipant(r, t)
               \/ decideParticipant(r, t) \/ sweepExpiredParticipantSessions(r, t)
        PROVE  StagedKept'
    BY <1>5, StagedRequest, Zenon
  <1>6. ASSUME NEW r \in Replicas, NEW t \in Tx, stageWrite(r, t)
        PROVE  StagedKept'
    BY <1>6, StagedStage, Zenon
  <1> QED
    BY <1>1, <1>2, <1>3, <1>4, <1>5, <1>6, ZenonT(30) DEF Next

(* What commits holds every statement the client was told is staged, as    *)
(* long as no transaction has a session on two replicas at once            *)
(* (beginParticipantSession, stageWrite, sealSession): a session lost to a  *)
(* restart, a lost election or the hold sweep is never opened again.       *)
THEOREM StagedTheorem == Spec /\ []OneSession => []StagedWritesKept
  <1>1. StagedKept => StagedWritesKept
    BY Zenon DEF StagedKept, SealedWithAcked, StagedWritesKept
  <1> QED
    BY <1>1, InitTypeOK, StepTypeOK, LogSoundInit, LogSoundStep,
       DecisionSoundnessInit, DecisionSoundnessStep, StagedInit, StagedStep, PTL DEF Spec

(* On a partition with one replica nothing is assumed of the requests: the *)
(* instance the run checks, for every number of transactions, statements,  *)
(* operations and log entries.                                             *)
THEOREM StagedOnOneReplica ==
    ASSUME \A r \in Replicas, q \in Replicas : r = q
    PROVE  Spec => []StagedWritesKept
  <1>1. OneSession
    BY DEF OneSession
  <1> QED
    BY <1>1, StagedTheorem, PTL
=============================================================================
