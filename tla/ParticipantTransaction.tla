---------------------- MODULE ParticipantTransaction ----------------------
(***************************************************************************)
(* One partition as a participant of distributed transactions.             *)
(*                                                                         *)
(* The partition is a raft group.  Its durable state is a deterministic    *)
(* function of the committed log: the participant transaction rows, the    *)
(* write generation g with the origin it counts from, and the outcome rows *)
(* of ordinary statements.  states[i + 1] is that state after i entries;   *)
(* a replica that has applied i entries holds states[i + 1] and may lag.   *)
(*                                                                         *)
(* A leader stages each transaction in a volatile session, seals it at     *)
(* PREPARE and proposes the sealed command.  What is handed to consensus   *)
(* (inFlight) may commit in any order: a proposal the port defers is       *)
(* retried with a backoff of its own.  A new leader keeps any part of it.  *)
(*                                                                         *)
(* The coordinator is the environment: it decides each transaction once,   *)
(* and COMMIT only with the evidence a PREPARE was answered with           *)
(* (DistributedTransaction models how it keeps that promise).              *)
(***************************************************************************)
EXTENDS Integers, Sequences, FiniteSets

CONSTANTS
    Tx,         \* transactions that enlist this partition
    Writes,     \* ordinary statements, by entryId
    Failing,    \* transactions and statements whose SQL fails when it is run
    Replicas,   \* members of the partition's raft group
    MaxOps,     \* bound: operations staged in a session (BOUND.MAX_OPERATIONS)
    MaxLog,     \* bound: committed log entries
    MaxTerm,    \* bound: elections
    NoDigest,   \* the digest of a decision or row that carries none
    NoLeader    \* no replica can commit a proposal

VARIABLES
    log,        \* committed entries, in order
    states,     \* states[i + 1]: the partition's durable state after i entries
    applied,    \* applied[r]: entries replica r has applied
    inFlight,   \* commands handed to consensus, not committed
    leads,      \* replicas whose role is leader (a deposed one may not know)
    leader,     \* the replica whose proposals can commit
    term,       \* elections so far
    session,    \* session[r][t]: volatile staging session of t on r
    pending,    \* pending[r]: commands whose outcome is awaited on r
    parked,     \* parked[r]: writes parked unproposed on r
    begun,      \* begun[t]: its BEGIN was answered
    sent,       \* sent[t]: session statements the client has sent
    acked,      \* acked[t]: how many of them were answered as staged
    frozen,     \* frozen[t]: no later statement is sent (PREPARE or decision)
    evidence,   \* evidence[t]: the prepared content a PREPARE was answered with
    decision,   \* decision[t]: the coordinator's recorded decision
    answered    \* ordinary writes answered success

vars == <<log, states, applied, inFlight, leads, leader, term, session,
          pending, parked, begun, sent, acked, frozen, evidence, decision,
          answered>>

----------------------------------------------------------------------------
(* Data.  A prepared digest identifies the operations and the conflict     *)
(* evidence a PREPARE carries, so the content itself stands for it.        *)

Prepared == [ops : 0..MaxOps, base : Nat, origin : Nat \ {0}]
Digest == Prepared \cup {NoDigest}

ASSUME ParticipantAssumption ==
    /\ MaxOps \in Nat
    /\ MaxLog \in Nat
    /\ MaxTerm \in Nat
    /\ Tx \cap Writes = {}
    /\ NoDigest \notin Prepared
    /\ NoLeader \notin Replicas

RowState == {"ABSENT", "PREPARED", "COMMITTED", "ROLLED_BACK", "REFUSED"}
Terminal == {"COMMITTED", "ROLLED_BACK", "REFUSED"}
Row == [state : RowState, digest : Digest]

PrepareCommand(t, p) == [type |-> "PREPARE", tx |-> t, digest |-> p]
DecisionCommand(t, d, p) ==
    [type |-> "DECISION", tx |-> t, decision |-> d, digest |-> p]
QueryCommand(w) == [type |-> "QUERY", write |-> w]
OriginCommand == [type |-> "ORIGIN"]

Commands ==
    [type : {"PREPARE"}, tx : Tx, digest : Prepared]
    \cup [type : {"DECISION"}, tx : Tx, decision : {"COMMIT", "ROLLBACK"},
          digest : Digest]
    \cup [type : {"QUERY"}, write : Writes]
    \cup {OriginCommand}

(* writers[i] is the transaction or statement that moved g from i - 1 to i *)
(* since the origin; runs[w] counts the executions of statement w.         *)
State == [g : Nat, origin : Nat, rows : [Tx -> Row],
          writers : Seq(Tx \cup Writes), settled : SUBSET Writes,
          runs : [Writes -> Nat]]

InitState ==
    [g |-> 0, origin |-> 0,
     rows |-> [t \in Tx |-> [state |-> "ABSENT", digest |-> NoDigest]],
     writers |-> <<>>, settled |-> {}, runs |-> [w \in Writes |-> 0]]

isPartitionReserved(s) == \E t \in Tx : s.rows[t].state = "PREPARED"

SetRow(s, t, st, p) ==
    [s EXCEPT !.rows[t] = [state |-> st, digest |-> p]]

advancePartitionWriteGeneration(s, writer) ==
    [s EXCEPT !.g = @ + 1, !.writers = Append(@, writer)]

----------------------------------------------------------------------------
(* The committed-entry application: what each command makes of the state.  *)

(* Mutant: the generation is not compared. *)
ValidationOfOriginOnly(s, p) == p.origin = s.origin

validationHolds(s, p) == p.base = s.g /\ p.origin = s.origin

(* Whether a PREPARE is consumed with nothing written and its session kept *)
(* sealed for a retry.                                                     *)
ReservedRefusal(s, c) ==
    /\ s.rows[c.tx].state = "ABSENT"
    /\ c.digest.origin = s.origin
    /\ isPartitionReserved(s)

(* Mutant: a PREPARE does not look for another transaction's reservation.  *)
PrepareUnreserved(s, c) ==
    IF s.rows[c.tx].state # "ABSENT" THEN s
    ELSE IF validationHolds(s, c.digest) /\ c.tx \notin Failing
         THEN SetRow(s, c.tx, "PREPARED", c.digest)
         ELSE SetRow(s, c.tx, "REFUSED", c.digest)

(* Mutant: a PREPARE does not look for its own row, so no tombstone fences it. *)
PrepareOverAnyRow(s, c) ==
    IF isPartitionReserved(s) THEN s
    ELSE IF validationHolds(s, c.digest) /\ c.tx \notin Failing
         THEN SetRow(s, c.tx, "PREPARED", c.digest)
         ELSE SetRow(s, c.tx, "REFUSED", c.digest)

applyParticipantPrepare(s, c) ==
    IF s.rows[c.tx].state # "ABSENT" \/ ReservedRefusal(s, c) THEN s
    ELSE IF validationHolds(s, c.digest) /\ c.tx \notin Failing
         THEN SetRow(s, c.tx, "PREPARED", c.digest)
         ELSE SetRow(s, c.tx, "REFUSED", c.digest)

commitPrepared(s, t) ==
    LET p == s.rows[t].digest IN
    IF ~ (validationHolds(s, p) /\ t \notin Failing) THEN SetRow(s, t, "REFUSED", p)
    ELSE IF p.ops = 0 THEN SetRow(s, t, "COMMITTED", p)
    ELSE advancePartitionWriteGeneration(SetRow(s, t, "COMMITTED", p), t)

(* Mutant: a rollback, too, names the digest that was prepared. *)
DecisionOfDigest(s, c) == c.digest = s.rows[c.tx].digest

decisionMatchesPreparedRow(s, c) ==
    \/ c.digest = s.rows[c.tx].digest
    \/ c.decision = "ROLLBACK" /\ c.digest = NoDigest

applyParticipantDecision(s, c) ==
    CASE s.rows[c.tx].state = "ABSENT" /\ c.decision = "ROLLBACK" ->
            SetRow(s, c.tx, "ROLLED_BACK", c.digest)
      [] s.rows[c.tx].state = "PREPARED" /\ decisionMatchesPreparedRow(s, c) ->
            IF c.decision = "COMMIT" THEN commitPrepared(s, c.tx)
            ELSE SetRow(s, c.tx, "ROLLED_BACK", s.rows[c.tx].digest)
      [] OTHER -> s

applyGenerationOrigin(s, i) ==
    IF s.origin # 0 THEN s
    ELSE [s EXCEPT !.origin = i, !.g = 0, !.writers = <<>>]

(* A statement that fails deterministically settles its entryId and leaves *)
(* g alone.                                                                *)
(* Mutant: the outcome row of the entryId is not read before the statement. *)
StatementAlwaysRuns(s, c) ==
    LET settled == [s EXCEPT !.settled = @ \cup {c.write}] IN
    IF isPartitionReserved(s) THEN s
    ELSE IF c.write \in Failing THEN settled
    ELSE advancePartitionWriteGeneration(
            [settled EXCEPT !.runs[c.write] = @ + 1], c.write)

applyCommittedStatement(s, c) ==
    LET settled == [s EXCEPT !.settled = @ \cup {c.write}] IN
    IF c.write \in s.settled \/ isPartitionReserved(s) THEN s
    ELSE IF c.write \in Failing THEN settled
    ELSE advancePartitionWriteGeneration(
            [settled EXCEPT !.runs[c.write] = @ + 1], c.write)

applyCommittedEntry(s, c, i) ==
    CASE c.type = "PREPARE"  -> applyParticipantPrepare(s, c)
      [] c.type = "DECISION" -> applyParticipantDecision(s, c)
      [] c.type = "QUERY"    -> applyCommittedStatement(s, c)
      [] c.type = "ORIGIN"   -> applyGenerationOrigin(s, i)

----------------------------------------------------------------------------
(* Sessions and requests.                                                  *)

NoSession == [phase |-> "NONE", ops |-> 0, base |-> 0, origin |-> 0]
Session == {NoSession} \cup [phase : {"ACTIVE", "PREPARING", "DOOMED"},
    ops : 0..MaxOps, base : Nat, origin : Nat \ {0}]

Db(r) == states[applied[r] + 1]

SealedContent(x) ==
    [ops |-> x.ops, base |-> x.base, origin |-> x.origin]

participantTransactionActive(r) ==
    \/ \E t \in Tx : session[r][t].phase # "NONE"
    \/ isPartitionReserved(Db(r))

SetSession(r, t, x) == session' = [session EXCEPT ![r][t] = x]

(* The durable row ends any session left of its transaction.               *)
rowEndingSession(r, t) ==
    Db(r).rows[t].state # "ABSENT" /\ SetSession(r, t, NoSession)

(* Hand commands to consensus on r: only the current leader's can commit.  *)
Proposed(r, cs) == IF r = leader THEN inFlight \cup cs ELSE inFlight

proposeAdmitted(r, c) ==
    /\ inFlight' = Proposed(r, {c})
    /\ pending' = [pending EXCEPT ![r] = @ \cup {c}]

Init ==
    /\ log = <<>>
    /\ states = <<InitState>>
    /\ applied = [r \in Replicas |-> 0]
    /\ inFlight = {}
    /\ leads = {}
    /\ leader = NoLeader
    /\ term = 0
    /\ session = [r \in Replicas |-> [t \in Tx |-> NoSession]]
    /\ pending = [r \in Replicas |-> {}]
    /\ parked = [r \in Replicas |-> {}]
    /\ begun = [t \in Tx |-> FALSE]
    /\ sent = [t \in Tx |-> 0]
    /\ acked = [t \in Tx |-> 0]
    /\ frozen = [t \in Tx |-> FALSE]
    /\ evidence = [t \in Tx |-> NoDigest]
    /\ decision = [t \in Tx |-> "NONE"]
    /\ answered = {}

consensusVars == <<log, states, applied, leads, leader, term>>
clientVars == <<begun, sent, acked, frozen, evidence, decision>>

enableParticipantTransactionAdmission(r) ==
    /\ r \in leads
    /\ Db(r).origin = 0
    /\ OriginCommand \notin pending[r]
    /\ proposeAdmitted(r, OriginCommand)
    /\ UNCHANGED <<consensusVars, clientVars, session, parked, answered>>

(* A BEGIN is sent again until it is answered, so it may arrive late.      *)
beginParticipantSession(r, t) ==
    /\ r \in leads
    /\ ~ begun[t]
    /\ Db(r).origin # 0
    /\ \/ rowEndingSession(r, t) /\ UNCHANGED begun
       \/ /\ Db(r).rows[t].state = "ABSENT"
          /\ \/ /\ session[r][t].phase = "ACTIVE"
                /\ UNCHANGED session
             \/ /\ ~ participantTransactionActive(r)
                /\ SetSession(r, t, [phase |-> "ACTIVE", ops |-> 0,
                       base |-> Db(r).g, origin |-> Db(r).origin])
          /\ begun' \in {begun, [begun EXCEPT ![t] = TRUE]}
    /\ UNCHANGED <<consensusVars, inFlight, pending, parked, sent, acked,
                   frozen, evidence, decision, answered>>

(* Mutant: a statement that finds no session opens one. *)
StageInFreshSession(r, t) ==
    /\ r \in leads /\ begun[t] /\ ~ frozen[t]
    /\ Db(r).rows[t].state = "ABSENT"
    /\ session[r][t].phase \in {"NONE", "ACTIVE"} /\ session[r][t].ops < MaxOps
    /\ SetSession(r, t, [phase |-> "ACTIVE", ops |-> session[r][t].ops + 1,
                         base |-> Db(r).g, origin |-> Db(r).origin])
    /\ sent' = [sent EXCEPT ![t] = acked[t] + 1]
    /\ acked' = [acked EXCEPT ![t] = acked[t] + 1]
    /\ UNCHANGED <<consensusVars, inFlight, pending, parked, begun, frozen,
                   evidence, decision, answered>>

(* A write of the session is staged, refused at the bound, or dooms the    *)
(* session: committed state changed under its staged operations.  The      *)
(* delivery owner sends a statement whose answer was lost again, and each  *)
(* delivery that reaches the session is staged.                            *)
stageWrite(r, t) ==
    /\ r \in leads
    /\ begun[t] /\ ~ frozen[t]
    /\ \/ rowEndingSession(r, t) /\ UNCHANGED <<sent, acked>>
       \/ /\ Db(r).rows[t].state = "ABSENT"
          /\ session[r][t].phase = "ACTIVE"
          /\ session[r][t].ops < MaxOps
          /\ SetSession(r, t, [session[r][t] EXCEPT !.ops = @ + 1])
          /\ sent' = [sent EXCEPT ![t] = acked[t] + 1]
          /\ acked' \in {acked, [acked EXCEPT ![t] = @ + 1]}
       \/ /\ Db(r).rows[t].state = "ABSENT"
          /\ session[r][t].phase = "ACTIVE"
          /\ session[r][t].ops > 0
          /\ Db(r).g # session[r][t].base
          /\ SetSession(r, t, [session[r][t] EXCEPT !.phase = "DOOMED"])
          /\ UNCHANGED <<sent, acked>>
    /\ UNCHANGED <<consensusVars, inFlight, pending, parked, begun, frozen,
                   evidence, decision, answered>>

(* A PREPARED answer reaches the coordinator or is lost; a coordinator     *)
(* that already decided no longer listens.                                 *)
AnswerPrepared(t, p) ==
    evidence' \in IF decision[t] = "NONE"
                  THEN {evidence, [evidence EXCEPT ![t] = p]}
                  ELSE {evidence}

SealedPrepare(r, t) == PrepareCommand(t, SealedContent(session[r][t]))

(* Seal an ACTIVE session; one whose base g left is ended.                 *)
sealSession(r, t) ==
    /\ session[r][t].phase = "ACTIVE"
    /\ \/ /\ Db(r).g = session[r][t].base
          /\ SetSession(r, t, [session[r][t] EXCEPT !.phase = "PREPARING"])
          /\ proposeAdmitted(r, SealedPrepare(r, t))
       \/ /\ Db(r).g # session[r][t].base
          /\ SetSession(r, t, NoSession)
          /\ UNCHANGED <<inFlight, pending>>

(* Mutant: PREPARED is answered when the command is proposed. *)
PrepareAnsweredEarly(r, t) ==
    /\ r \in leads
    /\ frozen' = [frozen EXCEPT ![t] = TRUE]
    /\ Db(r).rows[t].state = "ABSENT" /\ ~ isPartitionReserved(Db(r))
    /\ AnswerPrepared(t, SealedContent(session[r][t]))
    /\ sealSession(r, t)
    /\ UNCHANGED <<consensusVars, parked, begun, sent, acked, decision, answered>>

prepareParticipant(r, t) ==
    /\ r \in leads
    /\ frozen' = [frozen EXCEPT ![t] = TRUE]
    /\ \A c \in pending[r] : ~ (c.type = "PREPARE" /\ c.tx = t)
    /\ \/ /\ rowEndingSession(r, t)
          /\ IF Db(r).rows[t].state = "PREPARED"
             THEN AnswerPrepared(t, Db(r).rows[t].digest)
             ELSE UNCHANGED evidence
          /\ UNCHANGED <<inFlight, pending>>
       \/ /\ Db(r).rows[t].state = "ABSENT"
          /\ ~ isPartitionReserved(Db(r))
          /\ \/ sealSession(r, t)
             \/ /\ session[r][t].phase = "PREPARING"
                /\ proposeAdmitted(r, SealedPrepare(r, t))
                /\ UNCHANGED session
          /\ UNCHANGED evidence
    /\ UNCHANGED <<consensusVars, parked, begun, sent, acked, decision,
                   answered>>

(* The coordinator records its one decision.                               *)
Decide(t, d) ==
    /\ decision[t] = "NONE"
    /\ d = "COMMIT" => evidence[t] # NoDigest
    /\ decision' = [decision EXCEPT ![t] = d]
    /\ frozen' = [frozen EXCEPT ![t] = TRUE]
    /\ UNCHANGED <<consensusVars, inFlight, session, pending, parked, begun,
                   sent, acked, evidence, answered>>

RecordedDecision(t) == DecisionCommand(t, decision[t], evidence[t])

decideParticipant(r, t) ==
    /\ r \in leads
    /\ decision[t] # "NONE"
    /\ RecordedDecision(t) \notin pending[r]
    /\ \/ /\ rowEndingSession(r, t)
          /\ IF /\ Db(r).rows[t].state = "PREPARED"
                /\ decisionMatchesPreparedRow(Db(r), RecordedDecision(t))
             THEN proposeAdmitted(r, RecordedDecision(t))
             ELSE UNCHANGED <<inFlight, pending>>
       \/ /\ Db(r).rows[t].state = "ABSENT"
          /\ decision[t] = "COMMIT" => session[r][t].phase = "NONE"
          /\ SetSession(r, t, NoSession)
          /\ proposeAdmitted(r, RecordedDecision(t))
    /\ UNCHANGED <<consensusVars, parked, clientVars, answered>>

(* An ordinary write: answered from its settled outcome, parked while the  *)
(* partition is reserved, proposed otherwise.                              *)
startAdmittedPartitionWrite(r, w) ==
    /\ r \in leads
    /\ w \notin answered
    /\ \A c \in pending[r] : ~ (c.type = "QUERY" /\ c.write = w)
    /\ \/ /\ w \in Db(r).settled
          /\ Db(r).runs[w] > 0
          /\ answered' = answered \cup {w}
          /\ UNCHANGED <<inFlight, pending, parked>>
       \/ /\ w \notin Db(r).settled
          /\ IF isPartitionReserved(Db(r))
             THEN /\ pending' = [pending EXCEPT ![r] = @ \cup {QueryCommand(w)}]
                  /\ parked' = [parked EXCEPT ![r] = @ \cup {QueryCommand(w)}]
                  /\ UNCHANGED inFlight
             ELSE /\ proposeAdmitted(r, QueryCommand(w))
                  /\ UNCHANGED parked
          /\ UNCHANGED answered
    /\ UNCHANGED <<consensusVars, session, clientVars>>

----------------------------------------------------------------------------
(* Consensus and application.                                              *)

(* The bound on the log never keeps a decision out.                        *)
WithinLogBound(c) ==
    \/ Len(log) < MaxLog
    \/ c.type = "DECISION" /\ \A i \in 1..Len(log) : log[i] # c

commitEntry(c) ==
    /\ leader # NoLeader
    /\ c \in inFlight
    /\ WithinLogBound(c)
    /\ inFlight' = inFlight \ {c}
    /\ log' = Append(log, c)
    /\ states' = Append(states,
          applyCommittedEntry(states[Len(states)], c, Len(log) + 1))
    /\ UNCHANGED <<applied, leads, leader, term, session, pending, parked,
                   clientVars, answered>>

(* A pending outcome is answered by entryId: a PREPARE's or a decision's   *)
(* is derived from its participant, a statement's is its own.              *)
SameEntryId(c, e) ==
    /\ c.type = e.type
    /\ c.type \in {"PREPARE", "DECISION"} => c.tx = e.tx
    /\ c.type = "QUERY" => c.write = e.write

Own(r, c) == {e \in pending[r] : SameEntryId(c, e)}

NextEntry(r, type) ==
    /\ applied[r] < Len(log)
    /\ log[applied[r] + 1].type = type
    /\ applied' = [applied EXCEPT ![r] = @ + 1]

(* The PREPARE's proposer is answered and its session ended, but for the   *)
(* reservation's refusal, which keeps it sealed.                           *)
applyPrepareEntry(r) ==
    LET c == log[applied[r] + 1]
        own == Own(r, c)
        after == states[applied[r] + 2]
    IN  /\ NextEntry(r, "PREPARE")
        /\ pending' = [pending EXCEPT ![r] = @ \ own]
        /\ IF /\ own # {}
              /\ session[r][c.tx].phase = "PREPARING"
              /\ ~ ReservedRefusal(Db(r), c)
           THEN SetSession(r, c.tx, NoSession)
           ELSE UNCHANGED session
        /\ IF own # {} /\ after.rows[c.tx] = [state |-> "PREPARED", digest |-> c.digest]
           THEN AnswerPrepared(c.tx, c.digest)
           ELSE UNCHANGED evidence
        /\ UNCHANGED <<log, states, leads, leader, term, inFlight, parked,
                       begun, sent, acked, frozen, decision, answered>>

(* Mutant: the release does not re-admit the parked writes. *)
DecisionWithoutReadmission(r) ==
    LET c == log[applied[r] + 1] IN
    /\ NextEntry(r, "DECISION")
    /\ pending' = [pending EXCEPT ![r] = pending[r] \ Own(r, c)]
    /\ UNCHANGED <<log, states, leads, leader, term, inFlight, parked, session,
                   clientVars, answered>>

(* A decision that releases the reservation re-admits every parked write.  *)
applyDecisionEntry(r) ==
    LET c == log[applied[r] + 1]
        after == states[applied[r] + 2]
        released == /\ Db(r).rows[c.tx].state = "PREPARED"
                    /\ after.rows[c.tx].state # "PREPARED"
    IN  /\ NextEntry(r, "DECISION")
        /\ pending' = [pending EXCEPT ![r] = @ \ Own(r, c)]
        /\ inFlight' = IF released THEN Proposed(r, parked[r]) ELSE inFlight
        /\ parked' = IF released THEN [parked EXCEPT ![r] = {}] ELSE parked
        /\ UNCHANGED <<log, states, leads, leader, term, session, clientVars,
                       answered>>

(* A statement that meets a reservation is parked again by its proposer.   *)
applyStatementEntry(r) ==
    LET c == log[applied[r] + 1]
        own == Own(r, c)
        after == states[applied[r] + 2]
    IN  /\ NextEntry(r, "QUERY")
        /\ IF c.write \in after.settled
           THEN /\ pending' = [pending EXCEPT ![r] = @ \ own]
                /\ answered' = IF own # {} /\ after.runs[c.write] > 0
                               THEN answered \cup {c.write} ELSE answered
                /\ UNCHANGED parked
           ELSE /\ parked' = [parked EXCEPT ![r] = @ \cup own]
                /\ UNCHANGED <<pending, answered>>
        /\ UNCHANGED <<log, states, leads, leader, term, inFlight, session,
                       clientVars>>

applyOriginEntry(r) ==
    /\ NextEntry(r, "ORIGIN")
    /\ pending' = [pending EXCEPT ![r] = @ \ {OriginCommand}]
    /\ UNCHANGED <<log, states, leads, leader, term, inFlight, session, parked,
                   clientVars, answered>>

(* The commit deadline of a pending outcome: answered unknown, or not      *)
(* proposed when it is parked.                                             *)
commitDeadline(r, c) ==
    /\ c \in pending[r]
    /\ pending' = [pending EXCEPT ![r] = @ \ {c}]
    /\ parked' = [parked EXCEPT ![r] = @ \ {c}]
    /\ UNCHANGED <<consensusVars, inFlight, session, clientVars, answered>>

(* Mutant: the hold sweep rolls back a PREPARED row it finds too old. *)
SweepRollsBackPrepared(r, t) ==
    /\ r \in leads /\ Db(r).rows[t].state = "PREPARED"
    /\ proposeAdmitted(r, DecisionCommand(t, "ROLLBACK", NoDigest))
    /\ UNCHANGED <<consensusVars, session, parked, clientVars, answered>>

(* The hold sweep ends a session held too long, unless its PREPARE is in   *)
(* flight.                                                                 *)
sweepExpiredParticipantSessions(r, t) ==
    /\ session[r][t].phase # "NONE"
    /\ \A c \in pending[r] : ~ (c.type = "PREPARE" /\ c.tx = t)
    /\ SetSession(r, t, NoSession)
    /\ UNCHANGED <<consensusVars, inFlight, pending, parked, clientVars,
                   answered>>

(* The new leader's log holds any part of what its predecessor proposed.   *)
becomeLeader(r) ==
    /\ r \notin leads
    /\ term < MaxTerm
    /\ term' = term + 1
    /\ leader' = r
    /\ leads' = leads \cup {r}
    /\ inFlight' \in SUBSET inFlight
    /\ UNCHANGED <<log, states, applied, session, pending, parked, clientVars,
                   answered>>

(* Mutant: the replica that stopped leading still counts as the leader. *)
ReleaseKeepsLeader(r) ==
    /\ r \in leads /\ term < MaxTerm
    /\ leads' = leads \ {r}
    /\ session' = [session EXCEPT ![r] = [t \in Tx |-> NoSession]]
    /\ pending' = [pending EXCEPT ![r] = {}]
    /\ parked' = [parked EXCEPT ![r] = {}]
    /\ UNCHANGED <<log, states, applied, term, leader, inFlight, clientVars,
                   answered>>

(* A replica that stops leading, or restarts, releases its pending writes  *)
(* and discards its sessions.  Within the bound, an election follows.      *)
releasePendingWrites(r) ==
    /\ r \in leads
    /\ r = leader => term < MaxTerm
    /\ leads' = leads \ {r}
    /\ leader' = IF leader = r THEN NoLeader ELSE leader
    /\ session' = [session EXCEPT ![r] = [t \in Tx |-> NoSession]]
    /\ pending' = [pending EXCEPT ![r] = {}]
    /\ parked' = [parked EXCEPT ![r] = {}]
    /\ UNCHANGED <<log, states, applied, term, inFlight, clientVars, answered>>

Apply(r) ==
    \/ applyPrepareEntry(r)
    \/ applyDecisionEntry(r)
    \/ applyStatementEntry(r)
    \/ applyOriginEntry(r)

Next ==
    \/ \E t \in Tx, d \in {"COMMIT", "ROLLBACK"} : Decide(t, d)
    \/ \E c \in inFlight : commitEntry(c)
    \/ \E r \in Replicas :
          \/ enableParticipantTransactionAdmission(r)
          \/ Apply(r)
          \/ becomeLeader(r)
          \/ releasePendingWrites(r)
          \/ \E c \in pending[r] : commitDeadline(r, c)
          \/ \E w \in Writes : startAdmittedPartitionWrite(r, w)
          \/ \E t \in Tx :
                \/ beginParticipantSession(r, t)
                \/ stageWrite(r, t)
                \/ prepareParticipant(r, t)
                \/ decideParticipant(r, t)
                \/ sweepExpiredParticipantSessions(r, t)

Spec == Init /\ [][Next]_vars

----------------------------------------------------------------------------
(* Fairness: consensus elects, commits and applies; the coordinator's      *)
(* recovery sweep decides every transaction and delivers its decision      *)
(* again until it is answered.                                             *)

Fairness ==
    /\ WF_vars(leader = NoLeader /\ \E r \in Replicas : becomeLeader(r))
    /\ \A r \in Replicas : WF_vars(Apply(r))
    /\ \A t \in Tx :
          /\ WF_vars(\E d \in {"COMMIT", "ROLLBACK"} : Decide(t, d))
          /\ WF_vars(\E c \in inFlight :
                        c.type = "DECISION" /\ c.tx = t /\ commitEntry(c))
          /\ WF_vars(\E r \in Replicas : r = leader /\ decideParticipant(r, t))

FairSpec == Spec /\ Fairness

----------------------------------------------------------------------------
(* Properties.                                                             *)

(* Types: the log, the states it leads to, and every replica's volatile    *)
(* sessions, pending outcomes and parked writes keep their shape.          *)
TypeOK ==
    /\ log \in Seq(Commands)
    /\ states \in Seq(State)
    /\ Len(states) = Len(log) + 1
    /\ applied \in [Replicas -> Nat]
    /\ \A r \in Replicas : applied[r] <= Len(log)
    /\ inFlight \subseteq Commands
    /\ leads \subseteq Replicas
    /\ leader \in leads \cup {NoLeader}
    /\ term \in Nat
    /\ session \in [Replicas -> [Tx -> Session]]
    /\ pending \in [Replicas -> SUBSET Commands]
    /\ parked \in [Replicas -> SUBSET Commands]
    /\ begun \in [Tx -> BOOLEAN]
    /\ sent \in [Tx -> Nat]
    /\ acked \in [Tx -> Nat]
    /\ frozen \in [Tx -> BOOLEAN]
    /\ evidence \in [Tx -> Digest]
    /\ decision \in [Tx -> {"NONE", "COMMIT", "ROLLBACK"}]
    /\ answered \subseteq Writes

LastState == states[Len(states)]

(* A committed COMMIT decision always commits: it never meets a partition  *)
(* that did not prepare, that refused, or whose base moved (the atomicity  *)
(* alarms of commitPrepared, decideAbsent and DECISION_OVER_STATE).        *)
CommitInfallible ==
    \A i \in 1..Len(log) :
        log[i].type = "DECISION" /\ log[i].decision = "COMMIT"
            => states[i + 1].rows[log[i].tx].state = "COMMITTED"

(* While a row is PREPARED it is the only one, and g stays at its base: no *)
(* other statement, transaction or origin moves it (isPartitionReserved).  *)
ReservationHoldsGeneration ==
    \A i \in 1..Len(states) : \A t \in Tx :
        states[i].rows[t].state = "PREPARED" =>
            /\ validationHolds(states[i], states[i].rows[t].digest)
            /\ \A u \in Tx \ {t} : states[i].rows[u].state # "PREPARED"

(* First committer wins: the writes of a committed transaction are the     *)
(* first, and only, ones over the generation its session read at BEGIN.    *)
FirstCommitterWins ==
    \A t \in Tx :
        LET row == LastState.rows[t] IN
        row.state = "COMMITTED" =>
            {i \in 1..Len(LastState.writers) : LastState.writers[i] = t}
                = IF row.digest.ops = 0 THEN {} ELSE {row.digest.base + 1}

(* The evidence a PREPARE was answered with stands: from then on the row   *)
(* carries that digest, and only the coordinator's decision ends it.       *)
EvidenceStands ==
    \A t \in Tx : evidence[t] # NoDigest =>
        /\ LastState.rows[t].digest = evidence[t]
        /\ LastState.rows[t].state \in {"PREPARED", "COMMITTED", "ROLLED_BACK"}
        /\ LastState.rows[t].state = "COMMITTED" => decision[t] = "COMMIT"
        /\ LastState.rows[t].state = "ROLLED_BACK" => decision[t] = "ROLLBACK"

(* What commits holds every write the client was told is staged: a session *)
(* lost to a restart or to the hold sweep never commits without them.      *)
StagedWritesKept ==
    \A t \in Tx : LastState.rows[t].state = "COMMITTED" =>
        acked[t] <= LastState.rows[t].digest.ops

(* A session statement sent again after a lost answer is the same entry,   *)
(* so what commits holds no more operations than statements were sent.     *)
StatementStagedOnce ==
    \A t \in Tx : LastState.rows[t].state = "COMMITTED" =>
        LastState.rows[t].digest.ops <= sent[t]

(* An ordinary write parked, re-proposed, retried or duplicated by a new   *)
(* leader runs at most once, and one answered success has run.             *)
StatementRunsOnce ==
    /\ \A w \in Writes : LastState.runs[w] <= 1
    /\ \A w \in answered : LastState.runs[w] = 1

(* A write is parked only while its replica is reserved, so the decision   *)
(* that releases the reservation there re-admits it: no wakeup is lost.    *)
ParkedOnlyWhileReserved ==
    \A r \in Replicas : parked[r] # {} => isPartitionReserved(Db(r))

(* A terminal row is never changed, and a PREPARED one only by its         *)
(* decision, keeping its digest: the tombstone of a ROLLBACK fences every  *)
(* later PREPARE.                                                          *)
TerminalRowsStand ==
    \A i \in 1..Len(states), j \in 1..Len(states) : i < j => \A t \in Tx :
        /\ states[i].rows[t].state \in Terminal
            => states[j].rows[t] = states[i].rows[t]
        /\ states[i].rows[t].state = "PREPARED"
            => /\ states[j].rows[t].digest = states[i].rows[t].digest
               /\ states[j].rows[t].state \in {"PREPARED", "COMMITTED", "ROLLED_BACK"}

(* A parked write never waits for ever: its reservation is released.       *)
ParkedWriteReadmitted ==
    \A r \in Replicas : parked[r] # {} ~> parked[r] = {}
=============================================================================
