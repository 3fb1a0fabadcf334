--------------------------- MODULE ReconcileQueue ---------------------------
(***************************************************************************)
(* OwnerKeyReconcileQueue (workflow/owner-key-reconcile-queue.js and       *)
(* reconcile-queue-retry-ownership.js): work is enqueued under an owner    *)
(* key, merged with the work already queued for that key, and reconciled   *)
(* with at most one run per key and at most MaxConcurrency runs in all.    *)
(* Retryable failures are deferred behind a timer and given up after       *)
(* MaxAttempts of them.                                                    *)
(*                                                                         *)
(* A piece of work is one call of enqueueAndWait, numbered in call order;  *)
(* enqueue is the same call with a promise nobody reads.  An item is the   *)
(* set of the works merged into it and its fence token.  The queue runs on *)
(* one thread: drain() is a loop nothing interleaves with, so no other     *)
(* action is enabled while it runs.                                        *)
(***************************************************************************)
EXTENDS Naturals, Sequences, FiniteSets

CONSTANTS
    Key,               \* owner keys
    MaxConcurrency,    \* maxConcurrency
    MaxItemsPerDrain,  \* maxItemsPerDrain
    MaxAttempts,       \* retryPolicy.maxAttempts
    MaxFence,          \* bound: fence tokens are 1..MaxFence, 0 is none
    MaxWork,           \* bound: works enqueued in one behaviour
    MaxDiscards        \* bound: calls of discard in one behaviour

ASSUME QueueAssumption ==
    /\ MaxConcurrency \in Nat \ {0}
    /\ MaxItemsPerDrain \in Nat \ {0}
    /\ MaxAttempts \in Nat \ {0}
    /\ MaxFence \in Nat
    /\ MaxWork \in Nat
    /\ MaxDiscards \in Nat

VARIABLES
    pending,             \* pending[k]: the item waiting to be claimed
    order,               \* the insertion order of the pending map
    retryWorkItems,      \* retryWorkItems[k]: the item behind a retry timer
    exhaustedWorkItems,  \* exhaustedWorkItems[k]: the item given up
    failureCount,        \* retryStates: consecutive retryable failures
    fenceTokens,         \* the highest fence token accepted for the key
    inFlight,            \* inFlightItems[k]: the item being reconciled
    drain,               \* idle, scheduled or running
    entries,             \* the keys the running drain has still to visit
    claimed,             \* how many it has claimed
    stopped,             \* shutdown() was called
    idleWaiting,         \* awaitCurrentWorkIdle() has an unsettled caller
    enqueued,            \* how many works were enqueued
    running,             \* running[k]: calls of reconcileFn not yet settled
    reconciled,          \* works handed to some call of reconcileFn
    answer,              \* answer[w]: what the caller of work w was told
    late,                \* works that joined an item already given up
    discards             \* how often discard was called

queueVars == <<pending, order, retryWorkItems, exhaustedWorkItems,
               failureCount, fenceTokens, inFlight, drain, entries, claimed,
               stopped, idleWaiting, enqueued, running, reconciled, answer,
               late, discards>>

Work == 1..MaxWork

NoItem == [works |-> {}, fence |-> 0]

Holds(item) == item.works # {}

QueueInit ==
    /\ pending = [k \in Key |-> NoItem] /\ order = <<>>
    /\ retryWorkItems = [k \in Key |-> NoItem]
    /\ exhaustedWorkItems = [k \in Key |-> NoItem]
    /\ failureCount = [k \in Key |-> 0]
    /\ fenceTokens = [k \in Key |-> 0]
    /\ inFlight = [k \in Key |-> NoItem]
    /\ drain = "idle" /\ entries = <<>> /\ claimed = 0
    /\ stopped = FALSE /\ idleWaiting = FALSE /\ enqueued = 0
    /\ running = [k \in Key |-> 0]
    /\ reconciled = {} /\ late = {} /\ discards = 0
    /\ answer = [w \in Work |-> "none"]

-----------------------------------------------------------------------------
(* The helpers of the operations below.                                    *)

Quiet == drain # "running"

Busy == {k \in Key : Holds(inFlight[k])}

Queued == {k \in Key : Holds(pending[k])}

\* The order of the pending map after its entry for k, if any, is deleted.
Without(s, k) ==
    LET at == {i \in 1..Len(s) : s[i] = k}
        i == CHOOSE i \in at : TRUE
    IN  IF at = {} THEN s ELSE SubSeq(s, 1, i - 1) \o SubSeq(s, i + 1, Len(s))

(***************************************************************************)
(* settleCompletionWaiter over an item's waiters: the first answer stands. *)
(***************************************************************************)
Settled(works, how) ==
    [w \in Work |-> IF w \in works /\ answer[w] = "none" THEN how ELSE answer[w]]

(***************************************************************************)
(* _mergeEnqueuedWork: the new work joins the item, its token replaces the *)
(* item's when it brings one.                                              *)
(***************************************************************************)
Merged(item, w, token) ==
    [works |-> item.works \cup {w},
     fence |-> IF token # 0 THEN token ELSE item.fence]

(***************************************************************************)
(* scheduleDrain.                                                          *)
(***************************************************************************)
ScheduleDrain == IF drain = "idle" THEN drain' = "scheduled" ELSE UNCHANGED drain

(***************************************************************************)
(* _schedulePendingDrainIfAvailable and _notifyCurrentWorkIdle, with which *)
(* a drain and a reconcile end: `busy' and `queued' are the keys in flight *)
(* and pending then, `draining' whether a drain is already scheduled.      *)
(***************************************************************************)
Available(busy, queued) ==
    ~ stopped /\ Cardinality(busy) < MaxConcurrency /\ queued \ busy # {}

\* A mutant: the end of a drain or a reconcile does not look for more work.
ResettleWithoutScheduling(busy, queued, draining) ==
    /\ drain' = IF draining THEN "scheduled" ELSE "idle"
    /\ idleWaiting' = (idleWaiting /\ (draining \/ busy # {} \/ queued # {}))

Resettle(busy, queued, draining) ==
    LET schedule == draining \/ Available(busy, queued) IN
    /\ drain' = IF schedule THEN "scheduled" ELSE "idle"
    /\ idleWaiting' = (idleWaiting /\ (schedule \/ busy # {} \/ queued # {}))

-----------------------------------------------------------------------------
(* enqueueAndWait, by where the key's work is.                             *)

(***************************************************************************)
(* _resolveEnqueueAdmission: a stopped queue and an older fence token      *)
(* refuse the call.                                                        *)
(***************************************************************************)
Refused(k, token) == stopped \/ (token # 0 /\ token < fenceTokens[k])

EnqueueRefused(k, w, token) ==
    /\ Refused(k, token)
    /\ answer' = Settled({w}, "rejected")
    /\ UNCHANGED <<pending, order, retryWorkItems, exhaustedWorkItems,
                   failureCount, fenceTokens, drain, late>>

Admit(k, token) ==
    /\ ~ Refused(k, token)
    /\ fenceTokens' = [fenceTokens EXCEPT ![k] = IF token # 0 THEN token ELSE @]
    /\ UNCHANGED answer

\* A mutant: the items behind a timer and given up are not looked at.
EnqueuePendingAlways(k, w, token) ==
    /\ Admit(k, token)
    /\ pending' = [pending EXCEPT ![k] = Merged(@, w, token)]
    /\ order' = IF Holds(pending[k]) THEN order ELSE Append(order, k)
    /\ ScheduleDrain
    /\ UNCHANGED <<retryWorkItems, exhaustedWorkItems, failureCount, late>>

(***************************************************************************)
(* The key has a pending item, or no item at all: what is in flight is not *)
(* touched, its reasons are already with reconcileFn.                      *)
(***************************************************************************)
EnqueuePending(k, w, token) ==
    /\ Admit(k, token)
    /\ \/ Holds(pending[k])
       \/ ~ Holds(retryWorkItems[k]) /\ ~ Holds(exhaustedWorkItems[k])
    /\ pending' = [pending EXCEPT ![k] = Merged(@, w, token)]
    /\ order' = IF Holds(pending[k]) THEN order ELSE Append(order, k)
    /\ ScheduleDrain
    /\ UNCHANGED <<retryWorkItems, exhaustedWorkItems, failureCount, late>>

(***************************************************************************)
(* _mergeDeferredWork with a retrying item: it becomes pending at once,    *)
(* its attempts forgotten when the policy says so.                         *)
(***************************************************************************)
EnqueueRetrying(k, w, token, reset) ==
    /\ Admit(k, token)
    /\ ~ Holds(pending[k]) /\ Holds(retryWorkItems[k])
    /\ pending' = [pending EXCEPT ![k] = Merged(retryWorkItems[k], w, token)]
    /\ order' = Append(order, k)
    /\ retryWorkItems' = [retryWorkItems EXCEPT ![k] = NoItem]
    /\ failureCount' = [failureCount EXCEPT ![k] = IF reset THEN 0 ELSE @]
    /\ exhaustedWorkItems' =
          IF reset THEN [exhaustedWorkItems EXCEPT ![k] = NoItem]
          ELSE exhaustedWorkItems
    /\ ScheduleDrain
    /\ UNCHANGED late

(***************************************************************************)
(* _mergeDeferredWork with an exhausted item: a reset forgets it and the   *)
(* new work starts over, otherwise the work joins what was given up.       *)
(***************************************************************************)
EnqueueExhausted(k, w, token, reset) ==
    /\ Admit(k, token)
    /\ ~ Holds(pending[k]) /\ ~ Holds(retryWorkItems[k])
    /\ Holds(exhaustedWorkItems[k])
    /\ IF reset
         THEN /\ exhaustedWorkItems' = [exhaustedWorkItems EXCEPT ![k] = NoItem]
              /\ failureCount' = [failureCount EXCEPT ![k] = 0]
              /\ pending' = [pending EXCEPT ![k] = Merged(NoItem, w, token)]
              /\ order' = Append(order, k)
              /\ ScheduleDrain
              /\ UNCHANGED late
         ELSE /\ exhaustedWorkItems' =
                    [exhaustedWorkItems EXCEPT ![k] = Merged(@, w, token)]
              /\ late' = late \cup {w}
              /\ UNCHANGED <<failureCount, pending, order, drain>>
    /\ UNCHANGED retryWorkItems

Enqueue(k) ==
    /\ Quiet /\ enqueued < MaxWork
    /\ enqueued' = enqueued + 1
    /\ \E token \in 0..MaxFence, reset \in BOOLEAN :
          LET w == enqueued + 1 IN
          \/ EnqueueRefused(k, w, token)
          \/ EnqueuePending(k, w, token)
          \/ EnqueueRetrying(k, w, token, reset)
          \/ EnqueueExhausted(k, w, token, reset)
    /\ UNCHANGED <<inFlight, entries, claimed, stopped, idleWaiting, running,
                   reconciled, discards>>

-----------------------------------------------------------------------------
(* drain, one claim at a time.                                             *)

DrainBegin ==
    /\ drain = "scheduled"
    /\ drain' = "running" /\ entries' = order /\ claimed' = 0
    /\ UNCHANGED <<pending, order, retryWorkItems, exhaustedWorkItems,
                   failureCount, fenceTokens, inFlight, stopped, idleWaiting,
                   enqueued, running, reconciled, answer, late, discards>>

(***************************************************************************)
(* _claimPendingItem for the next key: deferred behind its own run, put    *)
(* back at the end when every slot is taken (which ends the drain), dropped *)
(* when its token is stale, or started.                                    *)
(***************************************************************************)
StaleFence(k) == pending[k].fence # 0 /\ pending[k].fence < fenceTokens[k]

ClaimDeferred(k) ==
    /\ Holds(inFlight[k])
    /\ order' = Append(Without(order, k), k)
    /\ entries' = Tail(entries)
    /\ UNCHANGED <<pending, inFlight, running, reconciled, answer>>

ClaimNoSlot(k) ==
    /\ ~ Holds(inFlight[k]) /\ Cardinality(Busy) >= MaxConcurrency
    /\ order' = Append(Without(order, k), k)
    /\ entries' = <<>>
    /\ UNCHANGED <<pending, inFlight, running, reconciled, answer>>

ClaimStale(k) ==
    /\ ~ Holds(inFlight[k]) /\ Cardinality(Busy) < MaxConcurrency
    /\ StaleFence(k)
    /\ pending' = [pending EXCEPT ![k] = NoItem]
    /\ order' = Without(order, k)
    /\ entries' = Tail(entries)
    /\ answer' = Settled(pending[k].works, "rejected")
    /\ UNCHANGED <<inFlight, running, reconciled>>

\* _startReconcile: the reasons are handed over as they are now.
StartReconcile(k) ==
    /\ ~ Holds(inFlight[k]) /\ Cardinality(Busy) < MaxConcurrency
    /\ ~ StaleFence(k)
    /\ pending' = [pending EXCEPT ![k] = NoItem]
    /\ order' = Without(order, k)
    /\ entries' = Tail(entries)
    /\ inFlight' = [inFlight EXCEPT ![k] = pending[k]]
    /\ running' = [running EXCEPT ![k] = @ + 1]
    /\ reconciled' = reconciled \cup pending[k].works
    /\ UNCHANGED answer

DrainClaim ==
    /\ drain = "running" /\ entries # <<>> /\ claimed < MaxItemsPerDrain
    /\ claimed' = claimed + 1
    /\ LET k == Head(entries) IN
          ClaimDeferred(k) \/ ClaimNoSlot(k) \/ ClaimStale(k) \/ StartReconcile(k)
    /\ UNCHANGED <<retryWorkItems, exhaustedWorkItems, failureCount,
                   fenceTokens, drain, stopped, idleWaiting, enqueued, late, discards>>

DrainEnd ==
    /\ drain = "running" /\ (entries = <<>> \/ claimed >= MaxItemsPerDrain)
    /\ entries' = <<>> /\ claimed' = 0
    /\ Resettle(Busy, Queued, FALSE)
    /\ UNCHANGED <<pending, order, retryWorkItems, exhaustedWorkItems,
                   failureCount, fenceTokens, inFlight, stopped, enqueued,
                   running, reconciled, answer, late, discards>>

-----------------------------------------------------------------------------
(* The end of a reconcile, and what the failure path leaves behind.        *)

Released(k) == [inFlight EXCEPT ![k] = NoItem]

\* clearRetryState
ClearRetryState(k) ==
    /\ retryWorkItems' = [retryWorkItems EXCEPT ![k] = NoItem]
    /\ exhaustedWorkItems' = [exhaustedWorkItems EXCEPT ![k] = NoItem]
    /\ failureCount' = [failureCount EXCEPT ![k] = 0]

\* A mutant: the work enqueued during the run is taken out and forgotten.
FailedItemAlone(k) == inFlight[k]

(***************************************************************************)
(* mergeConcurrentEnqueue: what was enqueued during the failed run joins   *)
(* its item.                                                               *)
(***************************************************************************)
FailedItem(k) ==
    [works |-> inFlight[k].works \cup pending[k].works,
     fence |-> IF pending[k].fence # 0 THEN pending[k].fence ELSE inFlight[k].fence]

TakeConcurrent(k) ==
    /\ pending' = [pending EXCEPT ![k] = NoItem]
    /\ order' = Without(order, k)

\* The promise of reconcileFn is fulfilled.
Succeed(k) ==
    /\ Holds(inFlight[k])
    /\ ClearRetryState(k)
    /\ answer' = Settled(inFlight[k].works, "resolved")
    /\ UNCHANGED <<pending, order>>
    /\ Resettle(Busy \ {k}, Queued, drain = "scheduled")

(***************************************************************************)
(* It is rejected with an error that is not retryable, or with a retryable *)
(* one when the work enqueued meanwhile resets the attempts (and so stays  *)
(* pending, to run on its own).                                            *)
(***************************************************************************)
Fail(k) ==
    /\ Holds(inFlight[k])
    /\ ClearRetryState(k)
    /\ answer' = Settled(inFlight[k].works, "rejected")
    /\ UNCHANGED <<pending, order>>
    /\ Resettle(Busy \ {k}, Queued, drain = "scheduled")

\* A mutant: the failed attempt is not counted.
RetryLaterUncounted(k) ==
    /\ Holds(inFlight[k])
    /\ TakeConcurrent(k)
    /\ retryWorkItems' = [retryWorkItems EXCEPT ![k] = FailedItem(k)]
    /\ UNCHANGED <<failureCount, exhaustedWorkItems, answer>>
    /\ Resettle(Busy \ {k}, Queued \ {k}, drain = "scheduled")

\* A retryable failure below the limit, with its timer armed.
RetryLater(k) ==
    /\ Holds(inFlight[k])
    /\ failureCount[k] + 1 < MaxAttempts
    /\ failureCount' = [failureCount EXCEPT ![k] = @ + 1]
    /\ TakeConcurrent(k)
    /\ retryWorkItems' = [retryWorkItems EXCEPT ![k] = FailedItem(k)]
    /\ UNCHANGED <<exhaustedWorkItems, answer>>
    /\ Resettle(Busy \ {k}, Queued \ {k}, drain = "scheduled")

(***************************************************************************)
(* A retryable failure at the limit, or one whose timer could not be       *)
(* registered: recordExhausted.                                            *)
(***************************************************************************)
Exhaust(k) ==
    /\ Holds(inFlight[k])
    /\ failureCount' = [failureCount EXCEPT ![k] =
                           IF @ < MaxAttempts THEN @ + 1 ELSE @]
    /\ TakeConcurrent(k)
    /\ retryWorkItems' = [retryWorkItems EXCEPT ![k] = NoItem]
    /\ exhaustedWorkItems' = [exhaustedWorkItems EXCEPT ![k] = FailedItem(k)]
    /\ answer' = Settled(FailedItem(k).works, "rejected")
    /\ Resettle(Busy \ {k}, Queued \ {k}, drain = "scheduled")

\* The queue was shut down during the run: its item is gone already.
FinishStopped(k) ==
    /\ stopped
    /\ UNCHANGED <<pending, order, retryWorkItems, exhaustedWorkItems,
                   failureCount, drain, idleWaiting, answer>>

Finish(k) ==
    /\ Quiet /\ running[k] > 0
    /\ running' = [running EXCEPT ![k] = @ - 1]
    /\ inFlight' = Released(k)
    /\ \/ Succeed(k)
       \/ Fail(k)
       \/ RetryLater(k)
       \/ Exhaust(k)
       \/ FinishStopped(k)
    /\ UNCHANGED <<fenceTokens, entries, claimed, stopped, enqueued, reconciled, late, discards>>

-----------------------------------------------------------------------------
(* The timer of a retry, and the calls of the queue's owner.               *)

\* wakeRetryWorkItem, from the timer
RetryTimer(k) ==
    /\ Quiet /\ Holds(retryWorkItems[k])
    /\ retryWorkItems' = [retryWorkItems EXCEPT ![k] = NoItem]
    /\ pending' = [pending EXCEPT ![k] =
          [works |-> @.works \cup retryWorkItems[k].works,
           fence |-> IF retryWorkItems[k].fence # 0
                       THEN retryWorkItems[k].fence ELSE @.fence]]
    /\ order' = IF Holds(pending[k]) THEN order ELSE Append(order, k)
    /\ ScheduleDrain
    /\ UNCHANGED <<exhaustedWorkItems, failureCount, fenceTokens, inFlight,
                   entries, claimed, stopped, idleWaiting, enqueued, running,
                   reconciled, answer, late, discards>>

PromotePending(k) ==
    /\ Quiet /\ Holds(pending[k])
    /\ order' = <<k>> \o Without(order, k)
    /\ UNCHANGED <<pending, retryWorkItems, exhaustedWorkItems, failureCount,
                   fenceTokens, inFlight, drain, entries, claimed, stopped,
                   idleWaiting, enqueued, running, reconciled, answer, late, discards>>

\* The run in flight is left alone, and may yet leave a retry behind.
Discard(k) ==
    /\ Quiet /\ discards < MaxDiscards
    /\ discards' = discards + 1
    /\ answer' = Settled(UNION {pending[k].works, retryWorkItems[k].works,
                                exhaustedWorkItems[k].works}, "rejected")
    /\ TakeConcurrent(k)
    /\ ClearRetryState(k)
    /\ UNCHANGED <<fenceTokens, inFlight, drain, entries, claimed, stopped,
                   idleWaiting, enqueued, running, reconciled, late>>

AwaitCurrentWorkIdle ==
    /\ Quiet
    /\ drain # "idle" \/ Queued # {} \/ Busy # {}
    /\ idleWaiting' = TRUE
    /\ UNCHANGED <<pending, order, retryWorkItems, exhaustedWorkItems,
                   failureCount, fenceTokens, inFlight, drain, entries, claimed,
                   stopped, enqueued, running, reconciled, answer, late, discards>>

\* rejectAllQueueCompletionWaiters, over every map of the queue
AllWorks == UNION {UNION {pending[k].works, retryWorkItems[k].works,
                          exhaustedWorkItems[k].works, inFlight[k].works} :
                     k \in Key}

Shutdown ==
    /\ Quiet
    /\ stopped' = TRUE
    /\ answer' = Settled(AllWorks, "rejected")
    /\ pending' = [k \in Key |-> NoItem] /\ order' = <<>>
    /\ retryWorkItems' = [k \in Key |-> NoItem]
    /\ exhaustedWorkItems' = [k \in Key |-> NoItem]
    /\ failureCount' = [k \in Key |-> 0]
    /\ fenceTokens' = [k \in Key |-> 0]
    /\ inFlight' = [k \in Key |-> NoItem]
    /\ drain' = "idle" /\ idleWaiting' = FALSE
    /\ UNCHANGED <<entries, claimed, enqueued, running, reconciled, late, discards>>

QueueNext ==
    \/ DrainBegin \/ DrainClaim \/ DrainEnd
    \/ AwaitCurrentWorkIdle \/ Shutdown
    \/ \E k \in Key : \/ Enqueue(k) \/ Finish(k) \/ RetryTimer(k)
                       \/ PromotePending(k) \/ Discard(k)

(***************************************************************************)
(* A scheduled microtask runs and runs to its end, an armed timer fires,   *)
(* and a call of reconcileFn settles: the queue has no timeout of its own  *)
(* and waits for it.                                                       *)
(***************************************************************************)
DrainStep == DrainBegin \/ DrainClaim \/ DrainEnd

QueueFairness ==
    /\ WF_queueVars(DrainStep)
    /\ WF_queueVars(\E k \in Key : Finish(k))
    /\ WF_queueVars(\E k \in Key : RetryTimer(k))

QueueSpec == QueueInit /\ [][QueueNext]_queueVars /\ QueueFairness

-----------------------------------------------------------------------------
(* Properties.                                                             *)

Item == [works : SUBSET Work, fence : 0..MaxFence]

(***************************************************************************)
(* At most one call of reconcileFn per owner key and MaxConcurrency in all *)
(* are unsettled, those a shutdown has abandoned included ("at most one    *)
(* reconcile execution per owner key", drain).                             *)
(***************************************************************************)
SingleFlight ==
    /\ \A k \in Key : running[k] <= 1
    /\ Cardinality({k \in Key : running[k] > 0}) <= MaxConcurrency

(***************************************************************************)
(* A key's queued work is in one place only, and a failed run's item is    *)
(* never behind a timer, or given up, while the key runs again: so the     *)
(* merge of wakeRetryWorkItem never puts an older fence token over a newer *)
(* one.                                                                    *)
(***************************************************************************)
OneQueuedItem ==
    \A k \in Key :
       /\ ~ (Holds(pending[k]) /\ Holds(retryWorkItems[k]))
       /\ ~ (Holds(pending[k]) /\ Holds(exhaustedWorkItems[k]))
       /\ ~ (Holds(retryWorkItems[k]) /\ Holds(exhaustedWorkItems[k]))
       /\ Holds(inFlight[k]) =>
             ~ Holds(retryWorkItems[k]) /\ ~ Holds(exhaustedWorkItems[k])

\* The types of the queue's maps and flags, SingleFlight and
\* OneQueuedItem.
QueueTypeOK ==
    /\ pending \in [Key -> Item] /\ order \in Seq(Key)
    /\ retryWorkItems \in [Key -> Item]
    /\ exhaustedWorkItems \in [Key -> Item]
    /\ failureCount \in [Key -> 0..MaxAttempts]
    /\ fenceTokens \in [Key -> 0..MaxFence]
    /\ inFlight \in [Key -> Item]
    /\ drain \in {"idle", "scheduled", "running"}
    /\ entries \in Seq(Key) /\ claimed \in 0..MaxItemsPerDrain
    /\ stopped \in BOOLEAN /\ idleWaiting \in BOOLEAN
    /\ enqueued \in 0..MaxWork
    /\ running \in [Key -> 0..1]
    /\ reconciled \in SUBSET Work /\ late \in SUBSET Work
    /\ discards \in 0..MaxDiscards
    /\ answer \in [Work -> {"none", "resolved", "rejected"}]
    /\ SingleFlight /\ OneQueuedItem

HeldFor(k) == UNION {pending[k].works, retryWorkItems[k].works,
                     exhaustedWorkItems[k].works, inFlight[k].works}

(***************************************************************************)
(* A caller of enqueueAndWait is told of success only when its work was    *)
(* among the reasons some run began with, and while it has been told       *)
(* nothing the queue still holds its work: no merge, deferral, retry,      *)
(* discard or shutdown loses a work or its waiter.  The exception is a     *)
(* work that joined an item already given up: a later enqueue that resets  *)
(* the attempts forgets that item without answering it.                    *)
(***************************************************************************)
WaitersFollowTheirWork ==
    \A w \in 1..enqueued :
       /\ answer[w] = "resolved" => w \in reconciled
       /\ answer[w] = "none" => w \in late \/ \E k \in Key : w \in HeldFor(k)

(***************************************************************************)
(* No wake-up is lost: whenever no drain is scheduled or running, no item  *)
(* could be claimed.  And the callers of awaitCurrentWorkIdle never wait   *)
(* on a queue that is idle.                                                *)
(***************************************************************************)
NoWakeUpLost ==
    drain = "idle" =>
       /\ ~ Available(Busy, Queued)
       /\ idleWaiting => Busy \cup Queued # {}

(***************************************************************************)
(* Every call of enqueueAndWait is answered, unless its work joined an     *)
(* item already given up: again and again none of the calls made so far,   *)
(* which are bounded in number, is waiting.                                *)
(***************************************************************************)
EveryWorkAnswered ==
    []<>(\A w \in 1..enqueued : answer[w] # "none" \/ w \in late)
=============================================================================
