--------------------------- MODULE ServicesProofs ----------------------------
(***************************************************************************)
(* The model of the components that share no state behaves, seen from each *)
(* component, as that component's specification: so what is proved of a    *)
(* component holds of the model the runs check, its types among them.      *)
(***************************************************************************)
EXTENDS MCServices, StampOrderProofs, ReconcileQueueProofs, CdcLedgerProofs,
        CdcLaneProofs, NodeLifecycleProofs

(***************************************************************************)
(* A step of the model is a step of the component that is exercised and    *)
(* leaves the state of the others alone.                                   *)
(***************************************************************************)
LEMMA StepOfEach ==
    ASSUME [MCNext]_mcVars
    PROVE  /\ [HlcNext]_hlcVars /\ [QueueNext]_queueVars /\ [LaneNext]_laneVars
           /\ [LedgerNext]_ledgerVars /\ [CacheNext]_cacheVars
           /\ [LifecycleNext]_lifecycleVars
<1>1. CASE MCNext
  BY <1>1, Zenon DEF MCNext, Exercise
<1>2. CASE UNCHANGED mcVars
  BY <1>2, Zenon DEF mcVars
<1> QED
  BY <1>1, <1>2, Zenon

(***************************************************************************)
(* Whatever component a behaviour exercises, every component behaves as    *)
(* its own specification says.                                             *)
(***************************************************************************)
THEOREM ServicesImplementComponents ==
    MCSpec => /\ HlcSpec /\ QueueSpec /\ LaneSpec
              /\ LedgerSpec /\ CacheSpec /\ LifecycleSpec
<1>1. MCInit => /\ HlcInit /\ QueueInit /\ LaneInit
                /\ LedgerInit /\ CacheInit /\ LifecycleInit
  BY Zenon DEF MCInit
<1>2. [MCNext]_mcVars => /\ [HlcNext]_hlcVars /\ [QueueNext]_queueVars
                         /\ [LaneNext]_laneVars /\ [LedgerNext]_ledgerVars
                         /\ [CacheNext]_cacheVars /\ [LifecycleNext]_lifecycleVars
  BY StepOfEach
<1> QED
  BY <1>1, <1>2, PTL DEF MCSpec, HlcSpec, QueueSpec, LaneSpec, LedgerSpec,
                         CacheSpec, LifecycleSpec

(***************************************************************************)
(* The component a behaviour exercises is always well-formed.              *)
(***************************************************************************)
THEOREM ServicesTypes == MCSpec => []ServicesTypeOK
<1>1. MCInit => subject \in Components
  BY Zenon DEF MCInit
<1>2. subject \in Components /\ [MCNext]_mcVars => (subject \in Components)'
  BY Zenon DEF MCNext, mcVars
<1>3. MCSpec => [](subject \in Components)
  BY <1>1, <1>2, PTL DEF MCSpec
<1>4. subject \in Components /\ HlcTypeOK /\ QueueTypeOK /\ LaneTypeOK
        /\ LedgerTypeOK /\ CacheTypeOK /\ LifecycleTypeOK
         => ServicesTypeOK
  <2> SUFFICES ASSUME subject \in Components, HlcTypeOK, QueueTypeOK, LaneTypeOK,
                      LedgerTypeOK, CacheTypeOK, LifecycleTypeOK
               PROVE  ServicesTypeOK
    BY Zenon
  <2>1. CASE subject = "clock"
    BY <2>1, Zenon DEF ServicesTypeOK
  <2>2. CASE subject = "queue"
    BY <2>2, Zenon DEF ServicesTypeOK
  <2>3. CASE subject = "lane"
    BY <2>3, Zenon DEF ServicesTypeOK
  <2>4. CASE subject = "ledger"
    BY <2>4, Zenon DEF ServicesTypeOK
  <2>5. CASE subject = "cache"
    BY <2>5, Zenon DEF ServicesTypeOK
  <2>6. CASE subject = "lifecycle"
    BY <2>6, Zenon DEF ServicesTypeOK
  <2> QED
    BY <2>1, <2>2, <2>3, <2>4, <2>5, <2>6, Zenon DEF Components
<1> QED
  BY <1>3, <1>4, ServicesImplementComponents, HlcTypes, QueueTypes, LaneTypes,
     LedgerTypes, CacheTypes, LifecycleTypes, PTL
=============================================================================
