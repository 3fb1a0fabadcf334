--------------------------- MODULE MCDistributed ---------------------------
(* Instances of DistributedTransaction for TLC.                            *)
EXTENDS DistributedTransaction, TLC

(***************************************************************************)
(* The start of the runs about the decision: the transaction is begun and  *)
(* every participant enlisted, with its session open.                      *)
(***************************************************************************)
Enlisted ==
    /\ rowState = "OPEN" /\ set = Participants /\ decision = "NONE"
    /\ digests = {} /\ retained = {} /\ writes = {}
    /\ prow = [p \in Participants |-> "ABSENT"]
    /\ psession = Participants /\ prepared = {}
    /\ requests = Participants \X {"BEGIN"}
    /\ tx = [c \in Coordinators |-> IF c # Owner THEN NoTransaction
                ELSE [NoTransaction EXCEPT !.held = "live", !.set = Participants,
                         !.part = [p \in Participants |-> "ACTIVE"]]]
    /\ ctl = [c \in Coordinators |-> Idle]
    /\ tasks = [c \in Coordinators |-> {}]
    /\ late = {} /\ told = {} /\ faults = 0 /\ commits = 0

EnlistedSpec == Enlisted /\ [][Next]_vars

EnlistedFairSpec == EnlistedSpec /\ Fairness

ParticipantSymmetry == Permutations(Participants)
=============================================================================
