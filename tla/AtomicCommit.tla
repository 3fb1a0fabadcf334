---------------------------- MODULE AtomicCommit ----------------------------
(***************************************************************************)
(* What a distributed transaction promises, without coordinators, rows,    *)
(* messages or failures: participants join while nothing is decided, each  *)
(* prepares or aborts on its own, one outcome is chosen for good, COMMIT   *)
(* only when every member is prepared, and each member follows it.         *)
(***************************************************************************)
CONSTANT Participants

VARIABLES
    members,    \* the participants of the transaction
    outcome,    \* NONE until it is COMMIT or ROLLBACK
    state       \* what each participant has done

vars == <<members, outcome, state>>

Init ==
    /\ members = {}
    /\ outcome = "NONE"
    /\ state = [p \in Participants |-> "working"]

Join(ps) ==
    /\ outcome = "NONE"
    /\ members' = members \cup ps
    /\ UNCHANGED <<outcome, state>>

Prepare(p) ==
    /\ p \in members /\ state[p] = "working"
    /\ state' = [state EXCEPT ![p] = "prepared"]
    /\ UNCHANGED <<members, outcome>>

Refuse(p) ==
    /\ p \in members /\ state[p] = "working"
    /\ state' = [state EXCEPT ![p] = "aborted"]
    /\ UNCHANGED <<members, outcome>>

Decide(d) ==
    /\ outcome = "NONE"
    /\ d = "COMMIT" => \A p \in members : state[p] = "prepared"
    /\ outcome' = d
    /\ UNCHANGED <<members, state>>

Commit(p) ==
    /\ outcome = "COMMIT" /\ p \in members /\ state[p] = "prepared"
    /\ state' = [state EXCEPT ![p] = "committed"]
    /\ UNCHANGED <<members, outcome>>

Abort(p) ==
    /\ outcome = "ROLLBACK" /\ p \in members
    /\ state[p] \in {"working", "prepared"}
    /\ state' = [state EXCEPT ![p] = "aborted"]
    /\ UNCHANGED <<members, outcome>>

Next ==
    \/ \E ps \in SUBSET Participants : Join(ps)
    \/ \E p \in Participants : Prepare(p) \/ Refuse(p) \/ Commit(p) \/ Abort(p)
    \/ \E d \in {"COMMIT", "ROLLBACK"} : Decide(d)

Spec == Init /\ [][Next]_vars
=============================================================================
