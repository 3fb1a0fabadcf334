------------------------- MODULE HybridLogicalClock -------------------------
(***************************************************************************)
(* The hybrid logical clock each node stamps its writes, its transactions  *)
(* and its CDC events with (hlc/hlc-clock-service.js, hlc-timestamp.js).   *)
(*                                                                         *)
(* A node's clock is a physical and a logical part.  Both operations read  *)
(* the node's wall clock, which may stand still, jump or run backwards     *)
(* between two reads (its source is outside this repository), so a read is *)
(* any value.  The clock lives in memory: a restart constructs a new one.  *)
(***************************************************************************)
EXTENDS Naturals

CONSTANTS
    Node,               \* node ids, as numbers in localeCompare's order
    WallClock,          \* what a wall clock may read
    MaxLogicalCounter,  \* maxLogicalCounter of the configuration
    MaxStamps           \* bound: calls of now() and update() in a behaviour

ASSUME ClockAssumption ==
    /\ Node \subseteq Nat
    /\ WallClock \subseteq Nat
    /\ MaxLogicalCounter \in Nat
    /\ MaxStamps \in Nat

VARIABLES
    clock,      \* clock[n]: the node's physical and logical parts
    sent,       \* every stamp issued, with the stamps in its causal past
    witnessed,  \* witnessed[n]: stamps the node issued or received
    fastest,    \* the highest wall clock value any node has read
    overflows,  \* how often a logical counter overflowed
    issued      \* how many stamps were issued

hlcVars == <<clock, sent, witnessed, fastest, overflows, issued>>

Stamp == [physical: Nat, logical: Nat, nodeId: Node]

(***************************************************************************)
(* HLCTimestamp.compare, as isBefore asks it.                              *)
(***************************************************************************)
IsBefore(a, b) ==
    \/ a.physical < b.physical
    \/ a.physical = b.physical /\ a.logical < b.logical
    \/ a.physical = b.physical /\ a.logical = b.logical /\ a.nodeId < b.nodeId

Fresh(wall) == [physical |-> wall, logical |-> 0]

Overflowed(c) == c.logical > MaxLogicalCounter

(***************************************************************************)
(* The overflow both operations end with: borrow a millisecond.            *)
(***************************************************************************)
Carry(c) == IF Overflowed(c) THEN Fresh(c.physical + 1) ELSE c

(***************************************************************************)
(* now(), before the overflow check.                                       *)
(***************************************************************************)
Tick(c, wall) ==
    IF wall > c.physical THEN Fresh(wall)
    ELSE [c EXCEPT !.logical = c.logical + 1]

(***************************************************************************)
(* update(remote), before the overflow check: the highest physical part    *)
(* wins and the logical part goes past every clock that holds it.          *)
(***************************************************************************)
Larger(a, b) == IF a >= b THEN a ELSE b

\* A mutant: the local clock wins ties without looking at the remote counter.
MergeIgnoringRemoteLogical(c, remote, wall) ==
    LET newPhysical == Larger(Larger(c.physical, remote.physical), wall)
    IN  [physical |-> newPhysical,
         logical |->
            IF newPhysical = c.physical THEN c.logical + 1
            ELSE IF newPhysical = remote.physical THEN remote.logical + 1
            ELSE 0]

\* A mutant: the remote stamp is taken as it is and the clock goes past it.
MergePastRemote(c, remote, wall) ==
    [physical |-> Larger(Larger(c.physical, remote.physical), wall) + 1,
     logical |-> 0]

Merge(c, remote, wall) ==
    LET newPhysical == Larger(Larger(c.physical, remote.physical), wall)
    IN  [physical |-> newPhysical,
         logical |->
            IF newPhysical = c.physical /\ newPhysical = remote.physical
              THEN Larger(c.logical, remote.logical) + 1
            ELSE IF newPhysical = c.physical THEN c.logical + 1
            ELSE IF newPhysical = remote.physical THEN remote.logical + 1
            ELSE 0]

StampOf(n, c) == [physical |-> c.physical, logical |-> c.logical, nodeId |-> n]

(***************************************************************************)
(* The clock moves to `next' and hands out its stamp; `past' is what       *)
(* happened before the event it stamps.                                    *)
(***************************************************************************)
Issue(n, next, past) ==
    LET c == Carry(next)
        stamp == StampOf(n, c)
    IN  /\ issued < MaxStamps
        /\ clock' = [clock EXCEPT ![n] = c]
        /\ sent' = sent \cup {[stamp |-> stamp, past |-> past]}
        /\ witnessed' = [witnessed EXCEPT ![n] = past \cup {stamp}]
        /\ overflows' = overflows + (IF Overflowed(next) THEN 1 ELSE 0)
        /\ issued' = issued + 1

HlcInit ==
    /\ \E wall \in [Node -> WallClock] :
          /\ clock = [n \in Node |-> Fresh(wall[n])]
          /\ fastest \in {wall[n] : n \in Node}
          /\ \A n \in Node : wall[n] <= fastest
    /\ sent = {}
    /\ witnessed = [n \in Node |-> {}]
    /\ overflows = 0 /\ issued = 0

(***************************************************************************)
(* HLCClockService.now.                                                    *)
(***************************************************************************)
Now(n) ==
    \E wall \in WallClock :
        /\ Issue(n, Tick(clock[n], wall), witnessed[n])
        /\ fastest' = Larger(fastest, wall)

(***************************************************************************)
(* HLCClockService.update with a stamp another node issued: it may arrive  *)
(* late, twice or out of order.                                            *)
(***************************************************************************)
Update(n) ==
    \E m \in sent, wall \in WallClock :
        /\ m.stamp.nodeId # n
        /\ Issue(n, Merge(clock[n], m.stamp, wall),
                 witnessed[n] \cup m.past \cup {m.stamp})
        /\ fastest' = Larger(fastest, wall)

(***************************************************************************)
(* The node restarts: the constructor reads the wall clock and nothing of  *)
(* the old clock is kept.  What the node did before the restart counts as  *)
(* past only where the wall clock has moved beyond it.                     *)
(***************************************************************************)
Restart(n) ==
    \E wall \in WallClock :
        /\ clock' = [clock EXCEPT ![n] = Fresh(wall)]
        /\ witnessed' = [witnessed EXCEPT ![n] =
                            IF wall > clock[n].physical THEN @ ELSE {}]
        /\ fastest' = Larger(fastest, wall)
        /\ UNCHANGED <<sent, overflows, issued>>

HlcNext == \E n \in Node : Now(n) \/ Update(n) \/ Restart(n)

HlcSpec == HlcInit /\ [][HlcNext]_hlcVars

-----------------------------------------------------------------------------
(***************************************************************************)
(* Every variable has its type, and no logical counter passes its limit.   *)
(***************************************************************************)
HlcTypeOK ==
    /\ clock \in [Node -> [physical: Nat, logical: 0..MaxLogicalCounter]]
    /\ \A m \in sent : m.stamp \in Stamp /\ m.past \subseteq Stamp
    /\ witnessed \in [Node -> SUBSET Stamp]
    /\ fastest \in Nat /\ overflows \in Nat /\ issued \in 0..MaxStamps

(***************************************************************************)
(* A stamp is after every stamp in its causal past, whatever the wall      *)
(* clocks read, in whatever order messages arrive and however often a      *)
(* logical counter overflows: now() and update() order events as they      *)
(* happened.  Across a restart it holds where the wall clock moved on.     *)
(***************************************************************************)
StampsFollowCausality ==
    \A m \in sent : \A s \in m.past : IsBefore(s, m.stamp)

(***************************************************************************)
(* No clock runs away: its physical part is at most the highest wall clock *)
(* value read anywhere, plus one millisecond for each overflow.            *)
(***************************************************************************)
ClockTracksWallClocks ==
    \A n \in Node : clock[n].physical <= fastest + overflows

\* The strengthening StampsFollowCausality and ClockTracksWallClocks rest on:
\* a clock is not behind what its node has witnessed, and no stamp is ahead.
AtOrBefore(s, c) ==
    \/ s.physical < c.physical
    \/ s.physical = c.physical /\ s.logical <= c.logical

HlcInvariant ==
    /\ HlcTypeOK
    /\ StampsFollowCausality
    /\ ClockTracksWallClocks
    /\ \A m \in sent : m.stamp.physical <= fastest + overflows
    /\ \A n \in Node : \A s \in witnessed[n] : AtOrBefore(s, clock[n])
=============================================================================
