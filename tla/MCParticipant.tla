--------------------------- MODULE MCParticipant ---------------------------
(***************************************************************************)
(* Instances of ParticipantTransaction for TLC.  MCInit is the state a     *)
(* partition is in once its first leader has recorded the generation       *)
(* origin and every replica has applied it.                                *)
(***************************************************************************)
EXTENDS ParticipantTransaction, TLC

CONSTANT FirstLeader

MCInit ==
    /\ log = <<OriginCommand>>
    /\ states = <<InitState, applyGenerationOrigin(InitState, 1)>>
    /\ applied = [r \in Replicas |-> 1]
    /\ inFlight = {}
    /\ leads = {FirstLeader}
    /\ leader = FirstLeader
    /\ term = 1
    /\ session = [r \in Replicas |-> [t \in Tx |-> NoSession]]
    /\ pending = [r \in Replicas |-> {}]
    /\ parked = [r \in Replicas |-> {}]
    /\ begun = [t \in Tx |-> FALSE]
    /\ sent = [t \in Tx |-> 0]
    /\ acked = [t \in Tx |-> 0]
    /\ frozen = [t \in Tx |-> FALSE]
    /\ evidence = [t \in Tx |-> NoDigest]
    /\ decision = [t \in Tx |-> "NONE"]
    /\ answered = {}

TxSymmetry == Permutations(Tx)

MCSpec == MCInit /\ [][Next]_vars

MCFairSpec == MCSpec /\ Fairness
=============================================================================
