----------------------------- MODULE MCServices -----------------------------
(***************************************************************************)
(* The components that share no state with one another, in one model: the  *)
(* first state chooses the component a behaviour exercises, and only that  *)
(* one moves.  No property speaks of two components, so the behaviours     *)
(* where several move show nothing more, and the state space is the sum of *)
(* the components' and not their product.                                  *)
(***************************************************************************)
EXTENDS HybridLogicalClock, ReconcileQueue, CdcLane, CdcLedger,
        SystemTableCache, NodeLifecycle

VARIABLE subject  \* the component this behaviour exercises

Components == {"clock", "queue", "lane", "ledger", "cache", "lifecycle"}

MCInit ==
    /\ HlcInit /\ QueueInit /\ LaneInit /\ LedgerInit /\ CacheInit /\ LifecycleInit
    /\ subject \in Components
    /\ subject = "clock" \/ clock = [n \in Node |-> Fresh(0)]

Exercise ==
    \/ subject = "clock" /\ HlcNext
       /\ UNCHANGED <<queueVars, laneVars, ledgerVars, cacheVars, lifecycleVars>>
    \/ subject = "queue" /\ QueueNext
       /\ UNCHANGED <<hlcVars, laneVars, ledgerVars, cacheVars, lifecycleVars>>
    \/ subject = "lane" /\ LaneNext
       /\ UNCHANGED <<hlcVars, queueVars, ledgerVars, cacheVars, lifecycleVars>>
    \/ subject = "ledger" /\ LedgerNext
       /\ UNCHANGED <<hlcVars, queueVars, laneVars, cacheVars, lifecycleVars>>
    \/ subject = "cache" /\ CacheNext
       /\ UNCHANGED <<hlcVars, queueVars, laneVars, ledgerVars, lifecycleVars>>
    \/ subject = "lifecycle" /\ LifecycleNext
       /\ UNCHANGED <<hlcVars, queueVars, laneVars, ledgerVars, cacheVars>>

MCNext == Exercise /\ UNCHANGED subject

mcVars == <<hlcVars, queueVars, laneVars, ledgerVars, cacheVars, lifecycleVars, subject>>

\* The fairness of each component.  None of these actions is enabled in the
\* initial state of its component (MaxTime = 1 sees to TimePasses), so a
\* component that never moves asks nothing of a behaviour.
MCSpec ==
    /\ MCInit /\ [][MCNext]_mcVars
    /\ QueueFairness /\ LaneFairness /\ LifecycleFairness

\* The state of the component a behaviour exercises is well-formed.
ServicesTypeOK ==
    CASE subject = "clock" -> HlcTypeOK
      [] subject = "queue" -> QueueTypeOK
      [] subject = "lane" -> LaneTypeOK
      [] subject = "ledger" -> LedgerTypeOK
      [] subject = "cache" -> CacheTypeOK
      [] subject = "lifecycle" -> LifecycleTypeOK
=============================================================================
