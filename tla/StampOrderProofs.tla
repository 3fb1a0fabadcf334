-------------------------- MODULE StampOrderProofs ---------------------------
(***************************************************************************)
(* The order of stamps, where it comes from and what rests on it: the      *)
(* clocks that hand them out, and the cache that keeps the newest row.     *)
(***************************************************************************)
EXTENDS HybridLogicalClock, SystemTableCache, TLAPS

-----------------------------------------------------------------------------
(***************************************************************************)
(* What HybridLogicalClock promises, for every set of nodes, every wall    *)
(* clock and every limit of the logical counter.                           *)
(***************************************************************************)

Clock == [physical: Nat, logical: 0..MaxLogicalCounter]

Unchecked == [physical: Nat, logical: Nat]

(***************************************************************************)
(* `d' is strictly ahead of `c' on the two parts alone.                    *)
(***************************************************************************)
Ahead(c, d) ==
    \/ c.physical < d.physical
    \/ c.physical = d.physical /\ c.logical < d.logical

(***************************************************************************)
(* HLCTimestamp.compare is a strict total order: no stamp is before        *)
(* itself, and of two different stamps exactly one is before the other.    *)
(***************************************************************************)
THEOREM CompareIsStrictTotalOrder ==
    ASSUME NEW a \in Stamp, NEW b \in Stamp, NEW c \in Stamp
    PROVE  /\ ~ IsBefore(a, a)
           /\ IsBefore(a, b) /\ IsBefore(b, c) => IsBefore(a, c)
           /\ a # b => (IsBefore(a, b) <=> ~ IsBefore(b, a))
<1>1. /\ a.physical \in Nat /\ a.logical \in Nat /\ a.nodeId \in Nat
      /\ b.physical \in Nat /\ b.logical \in Nat /\ b.nodeId \in Nat
      /\ c.physical \in Nat /\ c.logical \in Nat /\ c.nodeId \in Nat
  BY ClockAssumption DEF Stamp
<1>2. a # b => \/ a.physical # b.physical
               \/ a.logical # b.logical
               \/ a.nodeId # b.nodeId
  BY DEF Stamp
<1> QED
  BY <1>1, <1>2 DEF IsBefore

(***************************************************************************)
(* The overflow check returns a clock within the limit that is not behind  *)
(* what it was given, and borrows at most what it counts.                  *)
(***************************************************************************)
LEMMA CarryLemma ==
    ASSUME NEW d \in Unchecked
    PROVE  /\ Carry(d) \in Clock
           /\ d.physical <= Carry(d).physical
           /\ Carry(d).physical <= d.physical + (IF Overflowed(d) THEN 1 ELSE 0)
           /\ \A c : (c.physical \in Nat /\ c.logical \in Nat /\ Ahead(c, d))
                        => Ahead(c, Carry(d))
<1>1. d.physical \in Nat /\ d.logical \in Nat /\ MaxLogicalCounter \in Nat
  BY ClockAssumption DEF Unchecked
<1>2. CASE Overflowed(d)
  <2>1. Carry(d) = [physical |-> d.physical + 1, logical |-> 0]
    BY <1>2 DEF Carry, Fresh
  <2> QED
    BY <1>1, <1>2, <2>1 DEF Clock, Ahead
<1>3. CASE ~ Overflowed(d)
  <2>1. Carry(d) = d
    BY <1>3 DEF Carry
  <2>2. d.logical \in 0..MaxLogicalCounter
    BY <1>1, <1>3 DEF Overflowed
  <2> QED
    BY <1>1, <1>3, <2>1, <2>2 DEF Clock, Unchecked, Ahead
<1> QED
  BY <1>2, <1>3

(***************************************************************************)
(* now() moves the clock strictly ahead, no further than the wall clock    *)
(* where that is higher.                                                   *)
(***************************************************************************)
LEMMA TickLemma ==
    ASSUME NEW c \in Clock, NEW wall \in WallClock
    PROVE  /\ Tick(c, wall) \in Unchecked
           /\ Ahead(c, Tick(c, wall))
           /\ Tick(c, wall).physical <= Larger(c.physical, wall)
<1>1. c.physical \in Nat /\ c.logical \in Nat /\ wall \in Nat
  BY ClockAssumption DEF Clock
<1>2. CASE wall > c.physical
  <2>1. Tick(c, wall) = [physical |-> wall, logical |-> 0]
    BY <1>2 DEF Tick, Fresh
  <2> QED
    BY <1>1, <1>2, <2>1 DEF Unchecked, Ahead, Larger
<1>3. CASE ~ (wall > c.physical)
  <2>1. Tick(c, wall) = [physical |-> c.physical, logical |-> c.logical + 1]
    BY <1>1, <1>3 DEF Tick, Clock
  <2> QED
    BY <1>1, <1>3, <2>1 DEF Unchecked, Ahead, Larger
<1> QED
  BY <1>2, <1>3

(***************************************************************************)
(* update() moves the clock strictly ahead of itself and of the received   *)
(* stamp, no further than the highest of the three clocks.                 *)
(***************************************************************************)
LEMMA MergeLemma ==
    ASSUME NEW c \in Clock, NEW remote \in Stamp, NEW wall \in WallClock
    PROVE  /\ Merge(c, remote, wall) \in Unchecked
           /\ Ahead(c, Merge(c, remote, wall))
           /\ Ahead(remote, Merge(c, remote, wall))
           /\ Merge(c, remote, wall).physical
                = Larger(Larger(c.physical, remote.physical), wall)
<1> DEFINE np == Larger(Larger(c.physical, remote.physical), wall)
           d == Merge(c, remote, wall)
<1>1. /\ c.physical \in Nat /\ c.logical \in Nat /\ wall \in Nat
      /\ remote.physical \in Nat /\ remote.logical \in Nat
  BY ClockAssumption DEF Clock, Stamp
<1>2. np \in Nat /\ np >= c.physical /\ np >= remote.physical
  BY <1>1 DEF Larger
<1>3. d.physical = np
  BY DEF Merge
<1>4. d.logical = IF np = c.physical /\ np = remote.physical
                    THEN Larger(c.logical, remote.logical) + 1
                  ELSE IF np = c.physical THEN c.logical + 1
                  ELSE IF np = remote.physical THEN remote.logical + 1
                  ELSE 0
  BY DEF Merge
<1>5. d = [physical |-> d.physical, logical |-> d.logical]
  BY DEF Merge
<1> HIDE DEF np, d
<1>6. d.logical \in Nat
  BY <1>1, <1>4 DEF Larger
<1>7. d \in Unchecked
  BY <1>2, <1>3, <1>5, <1>6 DEF Unchecked
<1>8. Ahead(c, d) /\ Ahead(remote, d)
  BY <1>1, <1>2, <1>3, <1>4 DEF Ahead, Larger
<1> QED
  BY <1>3, <1>7, <1>8 DEF np, d

(***************************************************************************)
(* Everything a node has witnessed is before the stamp of a clock that is  *)
(* strictly ahead of it.                                                   *)
(***************************************************************************)
LEMMA AheadIsAfter ==
    ASSUME NEW s \in Stamp, NEW c \in Clock, NEW d \in Clock, NEW n \in Node,
           AtOrBefore(s, c), Ahead(c, d)
    PROVE  IsBefore(s, StampOf(n, d)) /\ AtOrBefore(s, d)
BY ClockAssumption DEF Stamp, Clock, AtOrBefore, Ahead, IsBefore, StampOf

(***************************************************************************)
(* A stamp strictly behind a clock is before the stamp of that clock,      *)
(* whichever node it is of: compare decides on the physical and logical    *)
(* parts.                                                                  *)
(***************************************************************************)
LEMMA BehindIsBefore ==
    ASSUME NEW s \in Stamp, NEW d \in Clock, NEW n \in Node, Ahead(s, d)
    PROVE  IsBefore(s, StampOf(n, d)) /\ AtOrBefore(s, d)
BY ClockAssumption DEF Stamp, Clock, AtOrBefore, Ahead, IsBefore, StampOf

(***************************************************************************)
(* A stamp not ahead of a clock is before the stamp of any clock that is   *)
(* ahead of it.                                                            *)
(***************************************************************************)
LEMMA BeforeIsTransitive ==
    ASSUME NEW s \in Stamp, NEW r \in Stamp, NEW d \in Clock, NEW n \in Node,
           IsBefore(s, r), Ahead(r, d)
    PROVE  IsBefore(s, StampOf(n, d)) /\ AtOrBefore(s, d)
BY ClockAssumption DEF Stamp, Clock, AtOrBefore, Ahead, IsBefore, StampOf

(***************************************************************************)
(* The stamp a clock hands out is a stamp, and is not ahead of that clock. *)
(***************************************************************************)
LEMMA StampOfLemma ==
    ASSUME NEW n \in Node, NEW d \in Clock
    PROVE  /\ StampOf(n, d) \in Stamp
           /\ StampOf(n, d).physical = d.physical
           /\ AtOrBefore(StampOf(n, d), d)
BY ClockAssumption DEF Stamp, Clock, AtOrBefore, StampOf

(***************************************************************************)
(* The arithmetic of the bound on the physical part: a later reading of    *)
(* the wall clocks and a later count of overflows only raise it.           *)
(***************************************************************************)
LEMMA SumsAreTransitive ==
    ASSUME NEW i \in Nat, NEW a \in Nat, NEW b \in Nat,
           NEW c \in Nat, NEW d \in Nat, i <= a + b, a + b <= c + d
    PROVE  i <= c + d
OBVIOUS

(***************************************************************************)
(* Issuing a stamp keeps the invariant when the new clock is strictly      *)
(* ahead of everything in the past it is issued with, and no further than  *)
(* the wall clocks read so far allow.                                      *)
(***************************************************************************)
LEMMA IssueKeepsInvariant ==
    ASSUME HlcInvariant, NEW n \in Node, NEW next \in Unchecked,
           NEW past \in SUBSET Stamp, NEW limit \in Nat,
           Issue(n, next, past), fastest' = limit, fastest <= limit,
           next.physical <= limit + overflows,
           \A s \in past : /\ IsBefore(s, StampOf(n, Carry(next)))
                           /\ AtOrBefore(s, Carry(next))
    PROVE  HlcInvariant'
<1> DEFINE c == Carry(next)
           stamp == StampOf(n, c)
           more == IF Overflowed(next) THEN 1 ELSE 0
<1>1. /\ c \in Clock
      /\ c.physical <= next.physical + more
      /\ c.physical \in Nat /\ next.physical \in Nat
  BY CarryLemma DEF Clock, Unchecked
<1>2. /\ stamp \in Stamp /\ stamp.physical = c.physical /\ AtOrBefore(stamp, c)
  BY <1>1, StampOfLemma
<1>3. /\ issued < MaxStamps
      /\ clock' = [clock EXCEPT ![n] = c]
      /\ sent' = sent \cup {[stamp |-> stamp, past |-> past]}
      /\ witnessed' = [witnessed EXCEPT ![n] = past \cup {stamp}]
      /\ overflows' = overflows + more
      /\ issued' = issued + 1
  BY DEF Issue
<1>4. more \in Nat /\ overflows \in Nat /\ fastest \in Nat
  BY DEF HlcInvariant, HlcTypeOK
<1>5. c.physical <= fastest' + overflows'
  BY <1>1, <1>3, <1>4
<1>6. fastest + overflows <= fastest' + overflows'
  BY <1>3, <1>4
<1>old. /\ clock \in [Node -> Clock]
        /\ \A m \in sent : m.stamp \in Stamp /\ m.past \subseteq Stamp
        /\ witnessed \in [Node -> SUBSET Stamp]
        /\ issued \in 0..MaxStamps /\ MaxStamps \in Nat
        /\ \A m \in sent : \A s \in m.past : IsBefore(s, m.stamp)
        /\ \A k \in Node : clock[k].physical <= fastest + overflows
        /\ \A m \in sent : m.stamp.physical <= fastest + overflows
        /\ \A k \in Node : \A s \in witnessed[k] : AtOrBefore(s, clock[k])
  BY ClockAssumption
     DEF HlcInvariant, HlcTypeOK, StampsFollowCausality,
         ClockTracksWallClocks, Clock
<1> HIDE DEF c, stamp, more
<1>7. HlcTypeOK'
  <2>1. clock' \in [Node -> Clock] /\ witnessed' \in [Node -> SUBSET Stamp]
    BY <1>old, <1>1, <1>2, <1>3
  <2>2. issued' \in 0..MaxStamps /\ overflows' \in Nat /\ fastest' \in Nat
    BY <1>old, <1>3, <1>4
  <2>3. \A m \in sent' : m.stamp \in Stamp /\ m.past \subseteq Stamp
    BY <1>old, <1>2, <1>3
  <2> QED
    BY <2>1, <2>2, <2>3 DEF HlcTypeOK, Clock
<1>8. StampsFollowCausality'
  BY <1>old, <1>3 DEF StampsFollowCausality, c, stamp
<1>9. \A k \in Node : clock'[k].physical <= fastest' + overflows'
  <2> TAKE k \in Node
  <2>1. clock[k].physical \in Nat
    BY <1>old DEF Clock
  <2>2. fastest' \in Nat /\ overflows' \in Nat
    BY <1>3, <1>4
  <2>3. clock'[k] = IF k = n THEN c ELSE clock[k]
    BY <1>old, <1>3
  <2>4. CASE k = n
    BY <1>5, <2>3, <2>4
  <2>5. CASE k # n
    <3>1. clock[k].physical <= fastest + overflows
      BY <1>old
    <3>2. clock[k].physical <= fastest' + overflows'
      BY <1>4, <1>6, <2>1, <2>2, <3>1, SumsAreTransitive
    <3> QED
      BY <2>3, <2>5, <3>2
  <2> QED
    BY <2>4, <2>5
<1>10. \A m \in sent' : m.stamp.physical <= fastest' + overflows'
  <2> TAKE m \in sent'
  <2>1. CASE m \in sent
    <3>1. m.stamp.physical \in Nat /\ m.stamp.physical <= fastest + overflows
      BY <1>old, <2>1 DEF Stamp
    <3> QED
      BY <1>3, <1>4, <1>6, <3>1, SumsAreTransitive
  <2>2. CASE m = [stamp |-> stamp, past |-> past]
    BY <1>2, <1>5, <2>2
  <2> QED
    BY <1>3, <2>1, <2>2
<1>11. \A k \in Node : \A s \in witnessed'[k] : AtOrBefore(s, clock'[k])
  <2> TAKE k \in Node
  <2>1. CASE k = n
    <3>1. clock'[k] = c /\ witnessed'[k] = past \cup {stamp}
      BY <1>old, <1>3, <2>1
    <3> QED
      BY <1>2, <3>1 DEF c
  <2>2. CASE k # n
    <3>1. clock'[k] = clock[k] /\ witnessed'[k] = witnessed[k]
      BY <1>old, <1>3, <2>2
    <3> QED
      BY <1>old, <3>1
  <2> QED
    BY <2>1, <2>2
<1> QED
  BY <1>7, <1>8, <1>9, <1>10, <1>11
     DEF HlcInvariant, ClockTracksWallClocks

(***************************************************************************)
(* HlcInvariant is inductive: each call of now() and update() and each     *)
(* restart of a node keeps it.                                             *)
(***************************************************************************)
LEMMA NowKeepsInvariant ==
    ASSUME HlcInvariant, NEW n \in Node, Now(n)
    PROVE  HlcInvariant'
<1>1. PICK wall \in WallClock : /\ Issue(n, Tick(clock[n], wall), witnessed[n])
                                /\ fastest' = Larger(fastest, wall)
  BY DEF Now
<1>2. /\ clock[n] \in Clock /\ witnessed[n] \in SUBSET Stamp
      /\ fastest \in Nat /\ overflows \in Nat /\ wall \in Nat
      /\ clock[n].physical \in Nat /\ clock[n].physical <= fastest + overflows
      /\ \A s \in witnessed[n] : AtOrBefore(s, clock[n])
  BY ClockAssumption
     DEF HlcInvariant, HlcTypeOK, ClockTracksWallClocks, Clock
<1> DEFINE d == Tick(clock[n], wall)
           limit == Larger(fastest, wall)
<1>3. /\ d \in Unchecked /\ Ahead(clock[n], d)
      /\ d.physical <= Larger(clock[n].physical, wall)
  BY <1>2, TickLemma
<1>4. limit \in Nat /\ fastest <= limit
  BY <1>2 DEF Larger
<1>5. d.physical <= limit + overflows
  <2>1. d.physical \in Nat
    BY <1>3 DEF Unchecked
  <2> QED
    BY <1>2, <1>3, <2>1 DEF Larger
<1>6. Carry(d) \in Clock /\ Ahead(clock[n], Carry(d))
  BY <1>2, <1>3, CarryLemma DEF Clock
<1>7. \A s \in witnessed[n] : /\ IsBefore(s, StampOf(n, Carry(d)))
                              /\ AtOrBefore(s, Carry(d))
  BY <1>2, <1>6, AheadIsAfter
<1> QED
  BY <1>1, <1>2, <1>3, <1>4, <1>5, <1>7, IssueKeepsInvariant

(***************************************************************************)
(* update() keeps the invariant, whatever stamp arrives.                   *)
(***************************************************************************)
LEMMA UpdateKeepsInvariant ==
    ASSUME HlcInvariant, NEW n \in Node, Update(n)
    PROVE  HlcInvariant'
<1>1. PICK m \in sent, wall \in WallClock :
         /\ Issue(n, Merge(clock[n], m.stamp, wall),
                  witnessed[n] \cup m.past \cup {m.stamp})
         /\ fastest' = Larger(fastest, wall)
  BY DEF Update
<1>2. /\ clock[n] \in Clock /\ witnessed[n] \in SUBSET Stamp
      /\ fastest \in Nat /\ overflows \in Nat /\ wall \in Nat
      /\ clock[n].physical \in Nat /\ clock[n].physical <= fastest + overflows
      /\ \A s \in witnessed[n] : AtOrBefore(s, clock[n])
  BY ClockAssumption
     DEF HlcInvariant, HlcTypeOK, ClockTracksWallClocks, Clock
<1>3. /\ m.stamp \in Stamp /\ m.past \in SUBSET Stamp
      /\ m.stamp.physical \in Nat /\ m.stamp.logical \in Nat
      /\ m.stamp.physical <= fastest + overflows
      /\ \A s \in m.past : IsBefore(s, m.stamp)
  BY DEF HlcInvariant, HlcTypeOK, StampsFollowCausality, Stamp
<1> DEFINE d == Merge(clock[n], m.stamp, wall)
           limit == Larger(fastest, wall)
           past == witnessed[n] \cup m.past \cup {m.stamp}
<1>4. /\ d \in Unchecked /\ Ahead(clock[n], d) /\ Ahead(m.stamp, d)
      /\ d.physical = Larger(Larger(clock[n].physical, m.stamp.physical), wall)
  BY <1>2, <1>3, MergeLemma
<1>5. limit \in Nat /\ fastest <= limit
  BY <1>2 DEF Larger
<1>6. d.physical <= limit + overflows
  BY <1>2, <1>3, <1>4 DEF Larger
<1>7. /\ Carry(d) \in Clock /\ Ahead(clock[n], Carry(d))
      /\ Ahead(m.stamp, Carry(d))
  BY <1>2, <1>3, <1>4, CarryLemma DEF Clock
<1>8. ASSUME NEW s \in past
      PROVE  IsBefore(s, StampOf(n, Carry(d))) /\ AtOrBefore(s, Carry(d))
  <2>1. CASE s \in witnessed[n]
    BY <1>2, <1>7, <2>1, AheadIsAfter
  <2>2. CASE s \in m.past
    BY <1>3, <1>7, <2>2, BeforeIsTransitive
  <2>3. CASE s = m.stamp
    BY <1>3, <1>7, <2>3, BehindIsBefore
  <2> QED
    BY <2>1, <2>2, <2>3
<1>9. past \in SUBSET Stamp
  BY <1>2, <1>3
<1> QED
  BY <1>1, <1>4, <1>5, <1>6, <1>8, <1>9, IssueKeepsInvariant

(***************************************************************************)
(* The restart of a node, which constructs its clock anew from the wall    *)
(* clock, keeps the invariant.                                             *)
(***************************************************************************)
LEMMA RestartKeepsInvariant ==
    ASSUME HlcInvariant, NEW n \in Node, Restart(n)
    PROVE  HlcInvariant'
<1>1. PICK wall \in WallClock :
         /\ clock' = [clock EXCEPT ![n] = Fresh(wall)]
         /\ witnessed' = [witnessed EXCEPT ![n] =
              IF wall > clock[n].physical THEN witnessed[n] ELSE {}]
         /\ fastest' = Larger(fastest, wall)
         /\ sent' = sent /\ overflows' = overflows /\ issued' = issued
  BY DEF Restart
<1>2. /\ clock \in [Node -> Clock] /\ witnessed \in [Node -> SUBSET Stamp]
      /\ fastest \in Nat /\ overflows \in Nat /\ wall \in Nat
      /\ issued \in 0..MaxStamps /\ MaxLogicalCounter \in Nat
      /\ \A m \in sent : m.stamp \in Stamp /\ m.past \subseteq Stamp
      /\ \A k \in Node : clock[k].physical <= fastest + overflows
      /\ \A m \in sent : m.stamp.physical <= fastest + overflows
      /\ \A k \in Node : \A s \in witnessed[k] : AtOrBefore(s, clock[k])
      /\ StampsFollowCausality
  BY ClockAssumption
     DEF HlcInvariant, HlcTypeOK, ClockTracksWallClocks, Clock
<1>3. /\ Fresh(wall) \in Clock /\ Fresh(wall).physical = wall
  BY <1>2 DEF Fresh, Clock
<1>4. fastest' \in Nat /\ fastest <= fastest' /\ wall <= fastest'
  BY <1>1, <1>2 DEF Larger
<1>5. fastest + overflows <= fastest' + overflows'
  BY <1>1, <1>2, <1>4
<1>6. HlcTypeOK'
  <2>1. clock' \in [Node -> Clock] /\ witnessed' \in [Node -> SUBSET Stamp]
    BY <1>1, <1>2, <1>3
  <2> QED
    BY <1>1, <1>2, <1>4, <2>1 DEF HlcTypeOK, Clock
<1>7. StampsFollowCausality'
  BY <1>1, <1>2 DEF StampsFollowCausality
<1>8. ASSUME NEW k \in Node
      PROVE  clock'[k].physical <= fastest' + overflows'
  <2>1. CASE k = n
    <3>1. clock'[k].physical = wall
      BY <1>1, <1>2, <1>3, <2>1
    <3> QED
      BY <1>1, <1>2, <1>4, <3>1
  <2>2. CASE k # n
    <3>1. clock'[k] = clock[k] /\ clock[k].physical \in Nat
      BY <1>1, <1>2, <2>2 DEF Clock
    <3> QED
      BY <1>1, <1>2, <1>4, <1>5, <3>1, SumsAreTransitive
  <2> QED
    BY <2>1, <2>2
<1>9. ASSUME NEW m \in sent'
      PROVE  m.stamp.physical <= fastest' + overflows'
  <2>1. m \in sent /\ m.stamp.physical \in Nat
    BY <1>1, <1>2 DEF Stamp
  <2> QED
    BY <1>1, <1>2, <1>4, <1>5, <2>1, SumsAreTransitive
<1>10. ASSUME NEW k \in Node, NEW s \in witnessed'[k]
       PROVE  AtOrBefore(s, clock'[k])
  <2>1. CASE k = n
    <3>1. wall > clock[n].physical /\ s \in witnessed[n]
      BY <1>1, <1>2, <2>1
    <3>2. AtOrBefore(s, clock[n]) /\ s \in Stamp /\ clock[n] \in Clock
      BY <1>2, <3>1
    <3>3. clock'[k].physical = wall
      BY <1>1, <1>2, <1>3, <2>1
    <3> QED
      BY <1>2, <3>1, <3>2, <3>3 DEF AtOrBefore, Stamp, Clock
  <2>2. CASE k # n
    BY <1>1, <1>2, <2>2
  <2> QED
    BY <2>1, <2>2
<1> QED
  BY <1>6, <1>7, <1>8, <1>9, <1>10 DEF HlcInvariant, ClockTracksWallClocks

(***************************************************************************)
(* The constructors establish the invariant.                               *)
(***************************************************************************)
LEMMA HlcInitHolds == HlcInit => HlcInvariant
<1> SUFFICES ASSUME HlcInit PROVE HlcInvariant
  OBVIOUS
<1>1. PICK wall \in [Node -> WallClock] :
         /\ clock = [n \in Node |-> Fresh(wall[n])]
         /\ fastest \in {wall[n] : n \in Node}
         /\ \A n \in Node : wall[n] <= fastest
  BY DEF HlcInit
<1>2. /\ sent = {} /\ witnessed = [n \in Node |-> {}]
      /\ overflows = 0 /\ issued = 0
  BY DEF HlcInit
<1>3. \A n \in Node : wall[n] \in Nat
  BY ClockAssumption
<1>4. fastest \in Nat
  BY <1>1, <1>3
<1>5. \A n \in Node : clock[n] = [physical |-> wall[n], logical |-> 0]
  BY <1>1 DEF Fresh
<1>6. clock \in [Node -> [physical: Nat, logical: 0..MaxLogicalCounter]]
  BY <1>1, <1>3, ClockAssumption DEF Fresh
<1>7. \A n \in Node : clock[n].physical <= fastest + overflows
  <2> TAKE n \in Node
  <2>1. clock[n].physical = wall[n] /\ wall[n] \in Nat /\ wall[n] <= fastest
    BY <1>1, <1>3, <1>5
  <2> QED
    BY <1>2, <1>4, <2>1
<1>8. \A n \in Node : witnessed[n] = {}
  BY <1>2
<1>9. overflows \in Nat /\ issued \in 0..MaxStamps
  BY <1>2, ClockAssumption
<1>10. witnessed \in [Node -> SUBSET Stamp]
  BY <1>2
<1>11. HlcTypeOK
  BY <1>2, <1>4, <1>6, <1>9, <1>10, Zenon DEF HlcTypeOK
<1>12. /\ StampsFollowCausality
       /\ \A m \in sent : m.stamp.physical <= fastest + overflows
  BY <1>2, Zenon DEF StampsFollowCausality
<1>13. \A n \in Node : \A s \in witnessed[n] : AtOrBefore(s, clock[n])
  BY <1>8, Zenon
<1> QED
  BY <1>7, <1>11, <1>12, <1>13, Zenon DEF HlcInvariant, ClockTracksWallClocks

(***************************************************************************)
(* The invariant the two properties rest on holds in every state: a clock  *)
(* is never behind what its node has witnessed, and no stamp is ahead of   *)
(* the wall clocks and the overflows counted so far.                       *)
(***************************************************************************)
THEOREM HlcInvariantHolds == HlcSpec => []HlcInvariant
<1>1. HlcInvariant /\ [HlcNext]_hlcVars => HlcInvariant'
  <2> SUFFICES ASSUME HlcInvariant, [HlcNext]_hlcVars PROVE HlcInvariant'
    OBVIOUS
  <2>1. CASE HlcNext
    BY <2>1, NowKeepsInvariant, UpdateKeepsInvariant, RestartKeepsInvariant
       DEF HlcNext
  <2>2. CASE UNCHANGED hlcVars
    BY <2>2 DEF hlcVars, HlcInvariant, HlcTypeOK, StampsFollowCausality,
                ClockTracksWallClocks
  <2> QED
    BY <2>1, <2>2
<1> QED
  BY <1>1, HlcInitHolds, PTL DEF HlcSpec

(***************************************************************************)
(* Stamps are ordered as the events they stamp happened: now() and         *)
(* update() hand out a stamp that is after its whole causal past.          *)
(***************************************************************************)
THEOREM StampsFollowCausalityAlways == HlcSpec => []StampsFollowCausality
<1>1. HlcInvariant => StampsFollowCausality
  BY DEF HlcInvariant
<1> QED
  BY <1>1, HlcInvariantHolds, PTL

(***************************************************************************)
(* No hybrid clock runs ahead of the fastest wall clock by more than the   *)
(* milliseconds its overflows borrowed.                                    *)
(***************************************************************************)
THEOREM ClockTracksWallClocksAlways == HlcSpec => []ClockTracksWallClocks
<1>1. HlcInvariant => ClockTracksWallClocks
  BY DEF HlcInvariant
<1> QED
  BY <1>1, HlcInvariantHolds, PTL

(***************************************************************************)
(* Every clock, stamp and counter keeps its type: a logical part that is   *)
(* handed out is never above maxLogicalCounter.                            *)
(***************************************************************************)
THEOREM HlcTypes == HlcSpec => []HlcTypeOK
<1>1. HlcInvariant => HlcTypeOK
  BY DEF HlcInvariant
<1> QED
  BY <1>1, HlcInvariantHolds, PTL

-----------------------------------------------------------------------------
(***************************************************************************)
(* The cache of a system table follows the newest event delivered,         *)
(* whatever the order of delivery: proved for any keys, any number of      *)
(* commits and any capacity of the tombstone store.                        *)
(***************************************************************************)

Mark == [key : RowKey, hlc : Nat]

-----------------------------------------------------------------------------
(* The tombstone store: a sequence with at most one entry of a key.        *)

Marks(s) == {s[i] : i \in 1..Len(s)}

Keyed(s) ==
    s \in Seq(Mark) /\ \A i, j \in 1..Len(s) : s[i].key = s[j].key => i = j

LEMMA JoinMarks ==
    ASSUME NEW a \in Seq(Mark), NEW b \in Seq(Mark)
    PROVE  a \o b \in Seq(Mark) /\ Len(a \o b) = Len(a) + Len(b)
  OBVIOUS

LEMMA EmptyKeyed == Keyed(<<>>) /\ Marks(<<>>) = {}
  BY DEF Keyed, Marks

LEMMA MarksTyped ==
    ASSUME NEW s, Keyed(s)
    PROVE  Marks(s) \subseteq Mark
  BY DEF Keyed, Marks

LEMMA AppendKeyed ==
    ASSUME NEW s, Keyed(s), NEW m \in Mark, \A n \in Marks(s) : n.key # m.key
    PROVE  Keyed(Append(s, m)) /\ Marks(Append(s, m)) = Marks(s) \cup {m}
  <1> DEFINE t == Append(s, m)
  <1>1. /\ t \in Seq(Mark) /\ Len(t) = Len(s) + 1 /\ Len(s) \in Nat
        /\ t[Len(s) + 1] = m /\ \A i \in 1..Len(s) : t[i] = s[i]
    BY DEF Keyed
  <1>2. \A i \in 1..Len(t) : i \in 1..Len(s) \/ i = Len(s) + 1
    BY <1>1
  <1>3. \A i \in 1..Len(s) : s[i].key # m.key
    BY DEF Marks
  <1> HIDE DEF t
  <1>4. ASSUME NEW i \in 1..Len(t), NEW j \in 1..Len(t), t[i].key = t[j].key
        PROVE  i = j
    BY <1>1, <1>2, <1>3, <1>4 DEF Keyed
  <1>5. Keyed(t)
    BY <1>1, <1>4 DEF Keyed
  <1>6. ASSUME NEW x PROVE x \in Marks(t) <=> x \in Marks(s) \cup {m}
    <2>1. ASSUME x \in Marks(t) PROVE x \in Marks(s) \cup {m}
      BY <1>1, <1>2, <2>1 DEF Marks
    <2>2. ASSUME x \in Marks(s) PROVE x \in Marks(t)
      <3>1. PICK i \in 1..Len(s) : x = s[i]
        BY <2>2 DEF Marks
      <3>2. i \in 1..Len(t) /\ x = t[i]
        BY <1>1, <3>1
      <3> QED
        BY <3>2 DEF Marks
    <2>3. m \in Marks(t)
      <3>1. Len(s) + 1 \in 1..Len(t)
        BY <1>1
      <3> QED
        BY <1>1, <3>1 DEF Marks
    <2> QED
      BY <2>1, <2>2, <2>3
  <1> QED
    BY <1>5, <1>6 DEF t

(* The oldest goes.                                                        *)
LEMMA TailKeyed ==
    ASSUME NEW s, Keyed(s), s # <<>>
    PROVE  /\ Head(s) \in Marks(s) /\ Keyed(Tail(s))
           /\ Marks(Tail(s)) = {m \in Marks(s) : m.key # Head(s).key}
  <1> DEFINE t == Tail(s)
  <1>1. /\ s \in Seq(Mark) /\ Len(s) >= 1 /\ Len(s) \in Nat /\ Head(s) = s[1]
        /\ t \in Seq(Mark) /\ Len(t) = Len(s) - 1
        /\ \A i \in 1..Len(t) : t[i] = s[i + 1]
    BY DEF Keyed
  <1>2. Head(s) \in Marks(s)
    BY <1>1 DEF Marks
  <1> HIDE DEF t
  <1>3. Keyed(t)
    <2>1. \A i \in 1..Len(t) : i + 1 \in 1..Len(s)
      BY <1>1
    <2>2. ASSUME NEW i \in 1..Len(t), NEW j \in 1..Len(t), t[i].key = t[j].key
          PROVE  i = j
      <3>1. s[i + 1].key = s[j + 1].key
        BY <1>1, <2>2, Zenon
      <3>2. i + 1 = j + 1
        BY <2>1, <3>1, Zenon DEF Keyed
      <3> QED
        BY <3>2
    <2> QED
      BY <1>1, <2>2, Zenon DEF Keyed
  <1>4. ASSUME NEW x PROVE x \in Marks(t) <=> x \in Marks(s) /\ x.key # Head(s).key
    <2>1. ASSUME x \in Marks(t) PROVE x \in Marks(s) /\ x.key # Head(s).key
      <3>1. PICK i \in 1..Len(t) : x = t[i]
        BY <2>1 DEF Marks
      <3>2. i + 1 \in 1..Len(s) /\ x = s[i + 1] /\ i + 1 # 1 /\ 1 \in 1..Len(s)
        BY <1>1, <3>1
      <3>3. x.key # s[1].key
        BY <3>2 DEF Keyed
      <3> QED
        BY <1>1, <3>2, <3>3 DEF Marks
    <2>2. ASSUME x \in Marks(s), x.key # Head(s).key PROVE x \in Marks(t)
      <3>1. PICK i \in 1..Len(s) : x = s[i]
        BY <2>2 DEF Marks
      <3>2. i # 1 /\ i - 1 \in 1..Len(t) /\ t[i - 1] = s[i]
        BY <1>1, <2>2, <3>1
      <3> QED
        BY <3>1, <3>2 DEF Marks
    <2> QED
      BY <2>1, <2>2
  <1> QED
    BY <1>2, <1>3, <1>4 DEF t

LEMMA WithoutKeyed ==
    ASSUME Keyed(tombstones), NEW k
    PROVE  /\ Keyed(WithoutKey(k))
           /\ Marks(WithoutKey(k)) = {m \in Marks(tombstones) : m.key # k}
  <1>0. PICK s : s = tombstones
    BY Zenon
  <1>1. CASE Tombstone(k) = {}
    <2>1. WithoutKey(k) = tombstones
      BY <1>1, Zenon DEF WithoutKey
    <2>2. \A m \in Marks(tombstones) : m.key # k
      BY <1>1 DEF Tombstone, Marks
    <2> QED
      BY <2>1, <2>2
  <1>2. CASE Tombstone(k) # {}
    <2>1. PICK n : n = CHOOSE t \in Tombstone(k) : TRUE
      BY Zenon
    <2>2. n \in Tombstone(k)
      BY <1>2, <2>1, Zenon
    <2>3. n \in 1..Len(s) /\ s[n].key = k
      BY <1>0, <2>2 DEF Tombstone
    <2>4. PICK t : t = WithoutKey(k)
      BY Zenon
    <2>5. t = SubSeq(s, 1, n - 1) \o SubSeq(s, n + 1, Len(s))
      BY <1>0, <1>2, <2>1, <2>4, Zenon DEF WithoutKey
    <2>6. /\ t \in Seq(Mark) /\ Len(t) = Len(s) - 1 /\ Len(s) \in Nat
          /\ \A i \in 1..Len(t) : t[i] = IF i < n THEN s[i] ELSE s[i + 1]
      <3>1. PICK a, b : /\ a = SubSeq(s, 1, n - 1)
                        /\ b = SubSeq(s, n + 1, Len(s))
        BY Zenon
      <3>2. s \in Seq(Mark) /\ Len(s) \in Nat /\ n \in Nat /\ n >= 1 /\ n =< Len(s)
        BY <1>0, <2>3 DEF Keyed
      <3>3. /\ a \in Seq(Mark) /\ Len(a) = n - 1
            /\ \A i \in 1..(n - 1) : a[i] = s[i]
        BY <3>1, <3>2
      <3>4. /\ b \in Seq(Mark) /\ Len(b) = Len(s) - n
            /\ \A i \in 1..(Len(s) - n) : b[i] = s[n + i]
        BY <3>1, <3>2
      <3>5. t = a \o b /\ a \in Seq(Mark) /\ b \in Seq(Mark)
        BY <2>5, <3>1, <3>3, <3>4
      <3>6. t \in Seq(Mark) /\ Len(t) = Len(a) + Len(b)
        BY <3>5, JoinMarks, Zenon
      <3>7. Len(t) = Len(s) - 1
        BY <3>2, <3>3, <3>4, <3>6
      <3>8. ASSUME NEW i \in 1..Len(t) PROVE t[i] = IF i < n THEN s[i] ELSE s[i + 1]
        <4>1. CASE i < n
          BY <3>2, <3>3, <3>4, <3>5, <3>7, <4>1
        <4>2. CASE ~(i < n)
          <5>1. i - (n - 1) \in 1..(Len(s) - n) /\ n + (i - (n - 1)) = i + 1
            BY <3>2, <3>7, <4>2
          <5>2. t[i] = b[i - (n - 1)]
            BY <3>2, <3>3, <3>4, <3>5, <3>7, <4>2, <5>1
          <5> QED
            BY <3>4, <4>2, <5>1, <5>2
        <4> QED
          BY <4>1, <4>2
      <3> QED
        BY <3>2, <3>6, <3>7, <3>8
    <2>7. \A i, j \in 1..Len(s) : s[i].key = s[j].key => i = j
      BY <1>0 DEF Keyed
    <2>8. Keyed(t)
      BY <2>3, <2>6, <2>7 DEF Keyed
    <2>9. ASSUME NEW x PROVE x \in Marks(t) <=> x \in Marks(s) /\ x.key # k
      <3>1. ASSUME x \in Marks(t) PROVE x \in Marks(s) /\ x.key # k
        <4>1. PICK i \in 1..Len(t) : x = t[i]
          BY <3>1 DEF Marks
        <4>2. PICK j \in 1..Len(s) : x = s[j] /\ j # n
          BY <2>3, <2>6, <4>1
        <4> QED
          BY <2>3, <2>7, <4>2 DEF Marks
      <3>2. ASSUME x \in Marks(s), x.key # k PROVE x \in Marks(t)
        <4>1. PICK i \in 1..Len(s) : x = s[i]
          BY <3>2 DEF Marks
        <4>2. i # n
          BY <2>3, <3>2, <4>1
        <4>3. CASE i < n
          BY <2>3, <2>6, <4>1, <4>3 DEF Marks
        <4>4. CASE i > n
          <5>1. i - 1 \in 1..Len(t) /\ t[i - 1] = s[i]
            BY <2>3, <2>6, <4>4
          <5> QED
            BY <4>1, <5>1 DEF Marks
        <4> QED
          BY <2>3, <4>1, <4>2, <4>3, <4>4
      <3> QED
        BY <3>1, <3>2
    <2> QED
      BY <1>0, <2>4, <2>8, <2>9, Zenon
  <1> QED
    BY <1>1, <1>2

-----------------------------------------------------------------------------
(* The inductive invariant.                                                *)

Writes == {"insert", "update", "upsert"}

Version(n) == [hlc : 0..n, column : 0..n]

Event(n) == [key : RowKey, op : Writes \cup {"delete"}, row : Version(n)]

Delivery(n) == [op : Writes \cup {"none", "delete"}, row : Version(n)]

\* What the partition has committed, and the types of what came of it.
Stores ==
    /\ commits \in 0..MaxCommits
    /\ source \in [RowKey -> Version(commits)]
    /\ cache \in [RowKey -> Version(commits)]
    /\ newest \in [RowKey -> Delivery(commits)]
    /\ forgotten \subseteq RowKey

\* A stamp belongs to one event: two writes never carry the same HLC.
Stamped ==
    /\ events \subseteq Event(commits)
    /\ \A e \in events : e.row.hlc # 0
    /\ \A e, f \in events : e.row.hlc = f.row.hlc => e = f

Marked ==
    /\ Keyed(tombstones) /\ Len(tombstones) <= MaxTombstones
    /\ \A m \in Marks(tombstones) : ~ Present(cache[m.key])

\* The newest event of a key is one the partition emitted.
NewestEmitted ==
    \A k \in RowKey :
       IF newest[k].op = "none" THEN newest[k].row = NoRow
       ELSE [key |-> k, op |-> newest[k].op, row |-> newest[k].row] \in events

(***************************************************************************)
(* What makes the order of delivery irrelevant: a key whose newest event   *)
(* is a deletion has the tombstone of that very deletion, and a key with   *)
(* no event has none.                                                      *)
(***************************************************************************)
Follows(k) ==
    IF newest[k].op = "none"
      THEN ~ Present(cache[k]) /\ \A m \in Marks(tombstones) : m.key # k
    ELSE IF newest[k].op = "delete"
      THEN /\ ~ Present(cache[k])
           /\ [key |-> k, hlc |-> newest[k].row.hlc] \in Marks(tombstones)
    ELSE /\ cache[k].hlc = newest[k].row.hlc
         /\ newest[k].row.column # Null => cache[k] = newest[k].row

CacheInv ==
    /\ Stores /\ Stamped /\ Marked /\ NewestEmitted
    /\ \A k \in RowKey \ forgotten : Follows(k)

LEMMA FollowsNewest ==
    CacheInv => CacheIsNewestDelivered
  BY Zenon DEF CacheInv, CacheIsNewestDelivered, Follows

LEMMA TypesFollow ==
    CacheInv => CacheTypeOK
  <1> SUFFICES ASSUME CacheInv PROVE CacheTypeOK
    OBVIOUS
  <1> USE DEF CacheInv
  <1>1. ASSUME NEW k \in RowKey
        PROVE  /\ {source[k], cache[k], newest[k].row} \subseteq
                     [hlc : 0..commits, column : 0..commits]
               /\ newest[k].op \in {"none", "insert", "update", "upsert", "delete"}
    BY <1>1 DEF Stores, Version, Delivery, Writes
  <1>2. ASSUME NEW k \in RowKey, NEW t \in Tombstone(k), NEW u \in Tombstone(k)
        PROVE  t = u
    BY <1>2 DEF Marked, Keyed, Tombstone
  <1>3. ASSUME NEW k \in RowKey, Present(cache[k]) PROVE Tombstone(k) = {}
    BY <1>3 DEF Marked, Marks, Tombstone
  <1>4. ASSUME NEW e \in events
        PROVE  e.key \in RowKey /\ e.row.hlc \in 1..commits
    BY <1>4 DEF Stores, Stamped, Event, Version
  <1> QED
    BY <1>1, <1>2, <1>3, <1>4 DEF CacheTypeOK, Stores, Marked

-----------------------------------------------------------------------------
(* The tombstone store under its operations.                               *)

LEMMA SupersedesMarks ==
    ASSUME NEW k, NEW row
    PROVE  Supersedes(row, k) <=>
             \A m \in Marks(tombstones) : m.key = k => row.hlc > m.hlc
  BY DEF Supersedes, Tombstone, Marks

LEMMA WithoutShrinks ==
    ASSUME Keyed(tombstones), NEW k
    PROVE  Len(WithoutKey(k)) \in Nat /\ Len(WithoutKey(k)) <= Len(tombstones)
  <1>0. tombstones \in Seq(Mark) /\ Len(tombstones) \in Nat
    BY DEF Keyed
  <1>1. CASE Tombstone(k) = {}
    BY <1>0, <1>1 DEF WithoutKey
  <1>2. CASE Tombstone(k) # {}
    <2>1. PICK n : n = CHOOSE t \in Tombstone(k) : TRUE
      BY Zenon
    <2>2. n \in Tombstone(k)
      BY <1>2, <2>1, Zenon
    <2>3. n \in 1..Len(tombstones)
      BY <2>2 DEF Tombstone
    <2>4. PICK a, b : /\ a = SubSeq(tombstones, 1, n - 1)
                      /\ b = SubSeq(tombstones, n + 1, Len(tombstones))
      BY Zenon
    <2>5. WithoutKey(k) = a \o b
      BY <1>2, <2>1, <2>4, Zenon DEF WithoutKey
    <2>6. a \in Seq(Mark) /\ Len(a) = n - 1
      BY <1>0, <2>3, <2>4
    <2>7. b \in Seq(Mark) /\ Len(b) = Len(tombstones) - n
      BY <1>0, <2>3, <2>4
    <2>8. Len(WithoutKey(k)) = Len(a) + Len(b)
      BY <2>5, <2>6, <2>7, JoinMarks, Zenon
    <2> QED
      BY <1>0, <2>3, <2>6, <2>7, <2>8
  <1> QED
    BY <1>1, <1>2

(***************************************************************************)
(* A deletion is remembered, unless a newer one is; the cap may cost a key *)
(* its tombstone, and then the key is forgotten.                           *)
(***************************************************************************)
Remembered(k, hlc) ==
    /\ Keyed(tombstones') /\ Len(tombstones') <= MaxTombstones
    /\ forgotten \subseteq forgotten' /\ forgotten' \subseteq RowKey
    /\ Marks(tombstones') \subseteq Marks(tombstones) \cup {[key |-> k, hlc |-> hlc]}
    /\ \A m \in Marks(tombstones) :
          m.key # k /\ m.key \notin forgotten' => m \in Marks(tombstones')
    /\ (\A m \in Marks(tombstones) : m.key = k => hlc > m.hlc)
         => k \in forgotten' \/ [key |-> k, hlc |-> hlc] \in Marks(tombstones')
    /\ ~ (\A m \in Marks(tombstones) : m.key = k => hlc > m.hlc)
         => Marks(tombstones') = Marks(tombstones)

LEMMA RecordRemembers ==
    ASSUME Keyed(tombstones), Len(tombstones) <= MaxTombstones,
           forgotten \subseteq RowKey, NEW k \in RowKey, NEW row,
           row.hlc \in Nat, RecordTombstone(k, row)
    PROVE  Remembered(k, row.hlc)
  <1>1. CASE ~ Supersedes(row, k)
    <2>1. tombstones' = tombstones /\ forgotten' = forgotten
      BY <1>1 DEF RecordTombstone
    <2>2. ~ (\A m \in Marks(tombstones) : m.key = k => row.hlc > m.hlc)
      BY <1>1, SupersedesMarks
    <2> QED
      BY <2>1, <2>2, Zenon DEF Remembered
  <1>2. CASE Supersedes(row, k)
    <2>0. \A m \in Marks(tombstones) : m.key = k => row.hlc > m.hlc
      BY <1>2, SupersedesMarks
    <2>1. PICK n : n = [key |-> k, hlc |-> row.hlc]
      BY Zenon
    <2>2. PICK w : w = WithoutKey(k)
      BY Zenon
    <2>3. Keyed(w) /\ Marks(w) = {m \in Marks(tombstones) : m.key # k}
      BY <2>2, WithoutKeyed
    <2>4. Len(w) \in Nat /\ Len(w) <= Len(tombstones)
      BY <2>2, WithoutShrinks
    <2>5. n \in Mark /\ n.key = k /\ \A m \in Marks(w) : m.key # n.key
      BY <2>1, <2>3 DEF Mark
    <2>6. PICK kept : kept = Append(w, n)
      BY Zenon
    <2>7. Keyed(kept) /\ Marks(kept) = Marks(w) \cup {n}
      BY <2>3, <2>5, <2>6, AppendKeyed
    <2>8. Len(kept) = Len(w) + 1 /\ kept # <<>>
      BY <2>3, <2>4, <2>6 DEF Keyed
    <2>9. IF Len(kept) <= MaxTombstones
            THEN tombstones' = kept /\ forgotten' = forgotten
            ELSE tombstones' = Tail(kept) /\ forgotten' = forgotten \cup {Head(kept).key}
      BY <1>2, <2>1, <2>2, <2>6 DEF RecordTombstone
    <2>10. CASE Len(kept) <= MaxTombstones
      <3>1. tombstones' = kept /\ forgotten' = forgotten
        BY <2>9, <2>10
      <3> QED
        BY <2>0, <2>1, <2>3, <2>7, <2>10, <3>1, Zenon DEF Remembered
    <2>11. CASE ~ (Len(kept) <= MaxTombstones)
      <3>1. tombstones' = Tail(kept) /\ forgotten' = forgotten \cup {Head(kept).key}
        BY <2>9, <2>11
      <3>2. /\ Head(kept) \in Marks(kept) /\ Keyed(Tail(kept))
            /\ Marks(Tail(kept)) = {m \in Marks(kept) : m.key # Head(kept).key}
        BY <2>7, <2>8, TailKeyed
      <3>3. Len(Tail(kept)) <= MaxTombstones
        <4>1. kept \in Seq(Mark) /\ Len(Tail(kept)) = Len(kept) - 1
          BY <2>7, <2>8 DEF Keyed
        <4> QED
          BY <2>4, <2>8, <4>1, CacheAssumption DEF Keyed
      <3>4. Head(kept).key \in RowKey
        <4>1. Marks(tombstones) \subseteq Mark
          BY DEF Keyed, Marks
        <4> QED
          BY <2>3, <2>5, <2>7, <3>2, <4>1 DEF Mark
      <3>5. forgotten \subseteq forgotten' /\ forgotten' \subseteq RowKey
        BY <3>1, <3>4
      <3>6. \A m \in Marks(kept) : m.key \notin forgotten' => m \in Marks(tombstones')
        BY <3>1, <3>2
      <3>7. k \in forgotten' \/ n \in Marks(tombstones')
        BY <2>5, <2>7, <3>6
      <3>8. Marks(tombstones') \subseteq Marks(tombstones) \cup {n}
        BY <2>3, <2>7, <3>1, <3>2
      <3>9. \A m \in Marks(tombstones) :
               m.key # k /\ m.key \notin forgotten' => m \in Marks(tombstones')
        BY <2>3, <2>7, <3>6
      <3> QED
        BY <2>0, <2>1, <3>1, <3>2, <3>3, <3>5, <3>7, <3>8, <3>9, Zenon DEF Remembered
    <2> QED
      BY <2>10, <2>11
  <1> QED
    BY <1>1, <1>2

-----------------------------------------------------------------------------
(* The steps of the partition, and the expiry of a tombstone.              *)

LEMMA VersionsGrow ==
    ASSUME NEW n \in Nat
    PROVE  /\ Version(n) \subseteq Version(n + 1)
           /\ Event(n) \subseteq Event(n + 1)
           /\ Delivery(n) \subseteq Delivery(n + 1)
  <1>1. Version(n) \subseteq Version(n + 1)
    BY DEF Version
  <1> QED
    BY <1>1 DEF Event, Delivery

\* Nothing happens at the cache.
LEMMA CacheUntouched ==
    ASSUME UNCHANGED <<cache, tombstones, newest, forgotten>>,
           NEW k, Follows(k)
    PROVE  Follows(k)'
  BY Zenon DEF Follows

LEMMA EmitKeeps ==
    ASSUME CacheInv, NEW k \in RowKey, NEW op \in Writes \cup {"delete"}, NEW row,
           row.hlc = commits + 1, row \in Version(commits + 1), Emit(k, op, row)
    PROVE  CacheInv'
  <1> DEFINE e == [key |-> k, op |-> op, row |-> row]
  <1>1. /\ Stores /\ Stamped /\ Marked /\ NewestEmitted
        /\ \A j \in RowKey \ forgotten : Follows(j)
    BY DEF CacheInv
  <1>2. /\ commits \in Nat /\ commits' = commits + 1 /\ commits' \in 0..MaxCommits
        /\ UNCHANGED <<cache, tombstones, newest, forgotten>>
        /\ events' = events \cup {e}
    BY <1>1, CacheAssumption DEF Stores, Emit
  <1>3. /\ Version(commits) \subseteq Version(commits')
        /\ Event(commits) \subseteq Event(commits')
        /\ Delivery(commits) \subseteq Delivery(commits')
    BY <1>2, VersionsGrow
  <1>4. Stores'
    <2>1. NoRow \in Version(commits')
      BY <1>2 DEF NoRow, Null, Version
    <2>2. source' \in [RowKey -> Version(commits')]
      BY <1>1, <1>2, <1>3, <2>1 DEF Emit, Stores
    <2>3. cache' \in [RowKey -> Version(commits')]
      BY <1>1, <1>2, <1>3 DEF Stores
    <2>4. newest' \in [RowKey -> Delivery(commits')]
      BY <1>1, <1>2, <1>3 DEF Stores
    <2> QED
      BY <1>1, <1>2, <2>2, <2>3, <2>4 DEF Stores
  <1>5. Stamped'
    <2>1. e \in Event(commits') /\ e.row.hlc = commits + 1
      BY <1>2 DEF Event
    <2>2. \A f \in events : f.row.hlc \in 0..commits /\ f.row.hlc # 0
      BY <1>1 DEF Stamped, Event, Version
    <2>3. events' \subseteq Event(commits')
      BY <1>1, <1>2, <1>3, <2>1 DEF Stamped
    <2> HIDE DEF e
    <2>4. \A f \in events' : f.row.hlc # 0
      BY <1>2, <2>1, <2>2
    <2>5. \A f, g \in events' : f.row.hlc = g.row.hlc => f = g
      BY <1>1, <1>2, <2>1, <2>2 DEF Stamped
    <2> QED
      BY <2>3, <2>4, <2>5 DEF Stamped
  <1>6. Marked'
    BY <1>1, <1>2 DEF Marked
  <1>7. NewestEmitted'
    BY <1>1, <1>2, Zenon DEF NewestEmitted
  <1>8. \A j \in (RowKey \ forgotten)' : Follows(j)'
    BY <1>1, <1>2, CacheUntouched
  <1> QED
    BY <1>4, <1>5, <1>6, <1>7, <1>8 DEF CacheInv

LEMMA CommitRowKeeps ==
    ASSUME CacheInv, NEW k \in RowKey, CommitRow(k)
    PROVE  CacheInv'
  <1>0. commits \in Nat
    BY DEF CacheInv, Stores
  <1>1. PICK row \in NewRows :
           \E op \in {"insert", "update", "upsert"} : Emit(k, op, row)
    BY Zenon DEF CommitRow
  <1>2. PICK op \in Writes : Emit(k, op, row)
    BY <1>1, Zenon DEF Writes
  <1>3. row.hlc = commits + 1 /\ row \in Version(commits + 1)
    BY <1>0, <1>1 DEF NewRows, Null, Version
  <1> QED
    BY <1>2, <1>3, EmitKeeps

LEMMA CommitDeleteKeeps ==
    ASSUME CacheInv, NEW k \in RowKey, CommitDelete(k)
    PROVE  CacheInv'
  <1>0. commits \in Nat
    BY DEF CacheInv, Stores
  <1>1. PICK row : row = [hlc |-> commits + 1, column |-> Null]
    BY Zenon
  <1>2. Emit(k, "delete", row)
    BY <1>1 DEF CommitDelete
  <1>3. row.hlc = commits + 1 /\ row \in Version(commits + 1)
    BY <1>0, <1>1 DEF Null, Version
  <1> QED
    BY <1>2, <1>3, EmitKeeps

\* A key to which the step does nothing follows as before.
LEMMA OthersFollow ==
    ASSUME NEW j, Follows(j), cache'[j] = cache[j], newest'[j] = newest[j],
           \A m \in Marks(tombstones) : m.key = j => m \in Marks(tombstones'),
           \A m \in Marks(tombstones') : m.key = j => m \in Marks(tombstones)
    PROVE  Follows(j)'
  <1>1. [key |-> j, hlc |-> newest[j].row.hlc].key = j
    OBVIOUS
  <1>2. CASE newest[j].op = "none"
    BY <1>2, Zenon DEF Follows
  <1>3. CASE newest[j].op = "delete"
    BY <1>1, <1>3, Zenon DEF Follows
  <1>4. CASE newest[j].op # "none" /\ newest[j].op # "delete"
    BY <1>4, Zenon DEF Follows
  <1> QED
    BY <1>2, <1>3, <1>4

LEMMA ExpireKeeps ==
    ASSUME CacheInv, NEW k \in RowKey, ExpireTombstone(k)
    PROVE  CacheInv'
  <1>1. /\ Stores /\ Stamped /\ Marked /\ NewestEmitted
        /\ \A j \in RowKey \ forgotten : Follows(j)
    BY DEF CacheInv
  <1>2. /\ UNCHANGED <<commits, source, events, cache, newest>>
        /\ tombstones' = WithoutKey(k) /\ forgotten' = forgotten \cup {k}
    BY DEF ExpireTombstone
  <1>3. /\ Keyed(tombstones')
        /\ Marks(tombstones') = {m \in Marks(tombstones) : m.key # k}
    BY <1>1, <1>2, WithoutKeyed DEF Marked
  <1>4. Len(tombstones') <= MaxTombstones
    <2>1. Len(WithoutKey(k)) \in Nat /\ Len(WithoutKey(k)) <= Len(tombstones)
      BY <1>1, WithoutShrinks DEF Marked
    <2>2. Len(tombstones) \in Nat /\ Len(tombstones) <= MaxTombstones
      BY <1>1 DEF Marked, Keyed
    <2> QED
      BY <1>2, <2>1, <2>2, CacheAssumption
  <1>5. Stores'
    BY <1>1, <1>2 DEF Stores
  <1>6. Stamped' /\ NewestEmitted'
    BY <1>1, <1>2, Zenon DEF Stamped, NewestEmitted
  <1>7. Marked'
    BY <1>1, <1>2, <1>3, <1>4 DEF Marked
  <1>8. ASSUME NEW j \in RowKey \ forgotten' PROVE Follows(j)'
    <2>1. j \in RowKey \ forgotten /\ j # k
      BY <1>2
    <2> QED
      BY <1>1, <1>2, <1>3, <2>1, OthersFollow
  <1> QED
    BY <1>5, <1>6, <1>7, <1>8 DEF CacheInv

-----------------------------------------------------------------------------
(* The application of an event.                                            *)

\* What the event of a delivery is to the newest one of its key.
Delivering(e) ==
    /\ e \in events
    /\ newest' = [newest EXCEPT ![e.key] =
          IF e.row.hlc > @.row.hlc THEN [op |-> e.op, row |-> e.row] ELSE @]
    /\ UNCHANGED <<commits, source, events>>

LEMMA EventTyped ==
    ASSUME CacheInv, NEW e \in events
    PROVE  /\ e.key \in RowKey /\ e.op \in Writes \cup {"delete"}
           /\ e.row \in Version(commits) /\ e.row.hlc \in Nat /\ e.row.hlc # 0
           /\ e = [key |-> e.key, op |-> e.op, row |-> e.row]
           /\ newest[e.key] \in Delivery(commits)
           /\ newest[e.key].row.hlc \in Nat
           /\ cache[e.key] \in Version(commits) /\ cache[e.key].hlc \in Nat
  BY DEF CacheInv, Stores, Stamped, Event, Version, Delivery

\* The stamp names the event.
LEMMA SameStamp ==
    ASSUME CacheInv, NEW e \in events, newest[e.key].row.hlc = e.row.hlc
    PROVE  newest[e.key].op = e.op /\ newest[e.key].row = e.row
  <1>1. e.key \in RowKey /\ e.row.hlc # 0
    BY EventTyped
  <1>2. newest[e.key].op # "none"
    <2>1. NoRow.hlc = 0
      BY DEF NoRow
    <2>2. newest[e.key].op = "none" => newest[e.key].row = NoRow
      BY <1>1, Zenon DEF CacheInv, NewestEmitted
    <2> QED
      BY <1>1, <2>1, <2>2
  <1>3. PICK f : f = [key |-> e.key, op |-> newest[e.key].op, row |-> newest[e.key].row]
    BY Zenon
  <1>4. f \in events /\ f.row.hlc = e.row.hlc
    BY <1>1, <1>2, <1>3 DEF CacheInv, NewestEmitted
  <1>5. f = e
    BY <1>4 DEF CacheInv, Stamped
  <1> QED
    BY <1>3, <1>5

LEMMA DeliveringKeeps ==
    ASSUME CacheInv, NEW e, Delivering(e)
    PROVE  /\ newest' \in [RowKey -> Delivery(commits)]
           /\ Stamped' /\ NewestEmitted'
           /\ \A j \in RowKey : j # e.key => newest'[j] = newest[j]
           /\ newest'[e.key] = IF e.row.hlc > newest[e.key].row.hlc
                                 THEN [op |-> e.op, row |-> e.row]
                                 ELSE newest[e.key]
  <1>0. e \in events /\ UNCHANGED <<commits, source, events>>
    BY DEF Delivering
  <1>1. /\ e.key \in RowKey /\ e.op \in Writes \cup {"delete"}
        /\ e.row \in Version(commits)
        /\ e = [key |-> e.key, op |-> e.op, row |-> e.row]
    BY <1>0, EventTyped
  <1>2. newest \in [RowKey -> Delivery(commits)]
    BY DEF CacheInv, Stores
  <1>3. PICK d : d = [op |-> e.op, row |-> e.row]
    BY Zenon
  <1>4. d \in Delivery(commits)
    BY <1>1, <1>3 DEF Delivery
  <1>5. newest' = [newest EXCEPT ![e.key] =
                     IF e.row.hlc > newest[e.key].row.hlc THEN d ELSE newest[e.key]]
    BY <1>1, <1>2, <1>3 DEF Delivering
  <1>6. /\ newest' \in [RowKey -> Delivery(commits)]
        /\ \A j \in RowKey : j # e.key => newest'[j] = newest[j]
        /\ newest'[e.key] = IF e.row.hlc > newest[e.key].row.hlc THEN d
                            ELSE newest[e.key]
    BY <1>1, <1>2, <1>4, <1>5
  <1>7. Stamped'
    BY <1>0, Zenon DEF CacheInv, Stamped
  <1>8. NewestEmitted'
    <2>1. ASSUME NEW j \in RowKey
          PROVE  IF newest'[j].op = "none" THEN newest'[j].row = NoRow
                 ELSE [key |-> j, op |-> newest'[j].op, row |-> newest'[j].row] \in events'
      <3>1. CASE newest'[j] = newest[j]
        BY <1>0, <3>1, Zenon DEF CacheInv, NewestEmitted
      <3>2. CASE j = e.key /\ newest'[j] = d
        <4>1. newest'[j].op = e.op /\ newest'[j].row = e.row
          BY <1>3, <3>2
        <4>2. e.op # "none"
          BY <1>1 DEF Writes
        <4> QED
          BY <1>0, <1>1, <3>2, <4>1, <4>2
      <3> QED
        BY <1>6, <3>1, <3>2
    <2> QED
      BY <2>1, Zenon DEF NewestEmitted
  <1> QED
    BY <1>3, <1>6, <1>7, <1>8

(***************************************************************************)
(* What is left to show of an application: what it does to the rows, to    *)
(* the tombstones and to the key of the event.                             *)
(***************************************************************************)
LEMMA DeliveryKeeps ==
    ASSUME CacheInv, NEW e, Delivering(e),
           forgotten \subseteq forgotten', forgotten' \subseteq RowKey,
           cache' \in [RowKey -> Version(commits)], Marked',
           \A j \in RowKey : j # e.key => cache'[j] = cache[j],
           \A m \in Marks(tombstones) :
              m.key # e.key /\ m.key \notin forgotten' => m \in Marks(tombstones'),
           \A m \in Marks(tombstones') : m.key # e.key => m \in Marks(tombstones),
           e.key \notin forgotten' => Follows(e.key)'
    PROVE  CacheInv'
  <1>1. /\ newest' \in [RowKey -> Delivery(commits)] /\ Stamped' /\ NewestEmitted'
        /\ \A j \in RowKey : j # e.key => newest'[j] = newest[j]
    BY DeliveringKeeps, Zenon
  <1>2. UNCHANGED <<commits, source, events>>
    BY DEF Delivering
  <1>3. Stores'
    BY <1>1, <1>2 DEF CacheInv, Stores
  <1>4. ASSUME NEW j \in RowKey \ forgotten' PROVE Follows(j)'
    <2>1. CASE j = e.key
      BY <1>4, <2>1
    <2>2. CASE j # e.key
      <3>1. Follows(j)
        BY <1>4 DEF CacheInv
      <3>2. cache'[j] = cache[j] /\ newest'[j] = newest[j]
        BY <1>1, <1>4, <2>2
      <3>3. \A m \in Marks(tombstones) : m.key = j => m \in Marks(tombstones')
        BY <1>4, <2>2
      <3>4. \A m \in Marks(tombstones') : m.key = j => m \in Marks(tombstones)
        BY <2>2
      <3> QED
        BY <3>1, <3>2, <3>3, <3>4, OthersFollow
    <2> QED
      BY <2>1, <2>2
  <1> QED
    BY <1>1, <1>3, <1>4 DEF CacheInv

\* A deletion is recorded: of no row, or of one that is not newer.
LEMMA RecordedKeeps ==
    ASSUME CacheInv, NEW e, Delivering(e), e.op = "delete",
           RecordTombstone(e.key, e.row),
           cache' \in [RowKey -> Version(commits)], ~ Present(cache'[e.key]),
           \A j \in RowKey : j # e.key => cache'[j] = cache[j],
           Present(cache[e.key]) => cache[e.key].hlc <= e.row.hlc
    PROVE  CacheInv'
  <1>0. e \in events
    BY DEF Delivering
  <1>1. /\ e.key \in RowKey /\ e.row.hlc \in Nat /\ e.row.hlc # 0
        /\ newest[e.key] \in Delivery(commits) /\ newest[e.key].row.hlc \in Nat
        /\ cache[e.key].hlc \in Nat
    BY <1>0, EventTyped
  <1>2. Marked /\ forgotten \subseteq RowKey
    BY DEF CacheInv, Stores
  <1>3. Remembered(e.key, e.row.hlc)
    BY <1>1, <1>2, RecordRemembers DEF Marked
  <1>4. PICK n : n = [key |-> e.key, hlc |-> e.row.hlc]
    BY Zenon
  <1>5. n.key = e.key
    BY <1>4
  <1>6. /\ Keyed(tombstones') /\ Len(tombstones') <= MaxTombstones
        /\ forgotten \subseteq forgotten' /\ forgotten' \subseteq RowKey
        /\ Marks(tombstones') \subseteq Marks(tombstones) \cup {n}
        /\ \A m \in Marks(tombstones) :
              m.key # e.key /\ m.key \notin forgotten' => m \in Marks(tombstones')
    BY <1>3, <1>4, Zenon DEF Remembered
  <1>7. Marked'
    <2>1. ASSUME NEW m \in Marks(tombstones') PROVE ~ Present(cache'[m.key])
      <3>1. CASE m.key = e.key
        BY <3>1
      <3>2. CASE m.key # e.key
        <4>1. m \in Marks(tombstones) /\ m.key \in RowKey
          <5>1. m \in Marks(tombstones)
            BY <1>5, <1>6, <2>1, <3>2
          <5>2. m \in Mark
            BY <1>2, <5>1, MarksTyped DEF Marked
          <5> QED
            BY <5>1, <5>2 DEF Mark
        <4>2. ~ Present(cache[m.key])
          BY <1>2, <4>1 DEF Marked
        <4> QED
          BY <3>2, <4>1, <4>2
      <3> QED
        BY <3>1, <3>2
    <2>2. \A m \in Marks(tombstones') : ~ Present(cache[m.key])'
      BY <2>1 DEF Present
    <2> QED
      BY <1>6, <2>2 DEF Marked
  <1>8. ASSUME e.key \notin forgotten' PROVE Follows(e.key)'
    <2>1. Follows(e.key)
      BY <1>1, <1>6, <1>8 DEF CacheInv
    <2>2. newest'[e.key] = IF e.row.hlc > newest[e.key].row.hlc
                             THEN [op |-> e.op, row |-> e.row] ELSE newest[e.key]
      BY DeliveringKeeps, Zenon
    <2>3. ~ Present(cache[e.key])'
      BY DEF Present
    <2>4. ASSUME newest[e.key].op \notin {"none", "delete"}
          PROVE  e.row.hlc > newest[e.key].row.hlc
      <3>1. cache[e.key].hlc = newest[e.key].row.hlc
        BY <2>1, <2>4 DEF Follows
      <3>2. newest[e.key].row.hlc # e.row.hlc
        BY <1>0, <2>4, SameStamp
      <3>3. cache[e.key].hlc <= e.row.hlc
        BY <1>1, <3>1 DEF Present
      <3> QED
        BY <1>1, <3>1, <3>2, <3>3
    <2>5. CASE e.row.hlc > newest[e.key].row.hlc
      <3>1. \A m \in Marks(tombstones) : m.key = e.key => e.row.hlc > m.hlc
        <4>1. CASE newest[e.key].op = "none"
          BY <2>1, <4>1 DEF Follows
        <4>2. CASE newest[e.key].op = "delete"
          <5>1. PICK o : o = [key |-> e.key, hlc |-> newest[e.key].row.hlc]
            BY Zenon
          <5>2. o \in Marks(tombstones) /\ o.key = e.key /\ o.hlc = newest[e.key].row.hlc
            BY <2>1, <4>2, <5>1, Zenon DEF Follows
          <5>3. \A m \in Marks(tombstones) : m.key = e.key => m = o
            BY <1>2, <5>2 DEF Marked, Keyed, Marks
          <5> QED
            BY <2>5, <5>2, <5>3
        <4>3. CASE newest[e.key].op \notin {"none", "delete"}
          <5>0. newest[e.key].row.hlc # 0
            <6>1. [key |-> e.key, op |-> newest[e.key].op, row |-> newest[e.key].row] \in events
              BY <1>1, <4>3 DEF CacheInv, NewestEmitted
            <6> QED
              BY <6>1 DEF CacheInv, Stamped
          <5>1. Present(cache[e.key])
            BY <2>1, <4>3, <5>0 DEF Follows, Present
          <5> QED
            BY <1>2, <5>1 DEF Marked
        <4> QED
          BY <4>1, <4>2, <4>3
      <3>2. n \in Marks(tombstones')
        BY <1>3, <1>4, <1>8, <3>1, Zenon DEF Remembered
      <3>3. newest'[e.key].op = "delete" /\ newest'[e.key].row.hlc = e.row.hlc
        BY <2>2, <2>5
      <3> QED
        BY <1>4, <2>3, <3>2, <3>3 DEF Follows
    <2>6. CASE ~ (e.row.hlc > newest[e.key].row.hlc)
      <3>1. newest'[e.key] = newest[e.key]
        BY <2>2, <2>6
      <3>2. newest[e.key].op = "delete"
        <4>1. newest[e.key].op # "none"
          <5>1. newest[e.key].row.hlc # 0
            BY <1>1, <2>6
          <5>2. newest[e.key].op = "none" => newest[e.key].row = NoRow
            BY <1>1, Zenon DEF CacheInv, NewestEmitted
          <5> QED
            BY <5>1, <5>2 DEF NoRow
        <4> QED
          BY <2>4, <2>6, <4>1
      <3>3. PICK o : o = [key |-> e.key, hlc |-> newest[e.key].row.hlc]
        BY Zenon
      <3>4. o \in Marks(tombstones) /\ o.key = e.key /\ o.hlc = newest[e.key].row.hlc
        BY <2>1, <3>2, <3>3 DEF Follows
      <3>5. ~ (e.row.hlc > o.hlc)
        BY <2>6, <3>4
      <3>6. Marks(tombstones') = Marks(tombstones)
        BY <1>3, <3>4, <3>5, Zenon DEF Remembered
      <3>7. [key |-> e.key, hlc |-> newest[e.key].row.hlc]' \in Marks(tombstones')
        <4>1. o \in Marks(tombstones')
          BY <3>4, <3>6
        <4>2. o = [key |-> e.key, hlc |-> newest'[e.key].row.hlc]
          BY <3>1, <3>3
        <4> QED
          BY <4>1, <4>2
      <3> QED
        BY <2>3, <3>1, <3>2, <3>7 DEF Follows
    <2> QED
      BY <2>5, <2>6
  <1>9. \A m \in Marks(tombstones') : m.key # e.key => m \in Marks(tombstones)
    BY <1>5, <1>6
  <1> QED
    BY <1>6, <1>7, <1>8, <1>9, DeliveryKeeps

\* An event that is not newer than what the cache knows of its key.
LEMMA IgnoredKeeps ==
    ASSUME CacheInv, NEW e, Delivering(e), UNCHANGED <<cache, tombstones, forgotten>>,
           e.key \notin forgotten => ~ (e.row.hlc > newest[e.key].row.hlc)
    PROVE  CacheInv'
  <1>0. e \in events /\ UNCHANGED <<commits, source, events>>
    BY DEF Delivering
  <1>1. e.key \in RowKey
    BY <1>0, EventTyped
  <1>2. /\ forgotten \subseteq RowKey /\ Marked
        /\ cache \in [RowKey -> Version(commits)]
        /\ \A k \in RowKey \ forgotten : Follows(k)
    BY DEF CacheInv, Stores
  <1>3. Marked'
    BY <1>2, Zenon DEF Marked
  <1>4. ASSUME e.key \notin forgotten' PROVE Follows(e.key)'
    <2>0. newest'[e.key] = IF e.row.hlc > newest[e.key].row.hlc
                             THEN [op |-> e.op, row |-> e.row] ELSE newest[e.key]
      BY DeliveringKeeps, Zenon
    <2>1. newest'[e.key] = newest[e.key]
      BY <1>4, <2>0
    <2> QED
      BY <1>1, <1>2, <1>4, <2>1, OthersFollow
  <1> QED
    BY <1>2, <1>3, <1>4, DeliveryKeeps

\* A write that no tombstone fences: it replaces the row, or backfills it.
LEMMA WrittenKeeps ==
    ASSUME CacheInv, NEW e, Delivering(e), e.op # "delete",
           Supersedes(e.row, e.key), tombstones' = WithoutKey(e.key),
           forgotten' = forgotten,
           cache' = [cache EXCEPT ![e.key] =
                       IF Stale(e.key, e.row) THEN Backfilled(e.key, e.row) ELSE e.row]
    PROVE  CacheInv'
  <1>0. e \in events
    BY DEF Delivering
  <1>1. /\ e.key \in RowKey /\ e.row.hlc \in Nat /\ e.row.hlc # 0
        /\ e.row \in Version(commits) /\ e.op \in Writes \cup {"delete"}
        /\ newest[e.key].row.hlc \in Nat
        /\ cache[e.key] \in Version(commits) /\ cache[e.key].hlc \in Nat
    BY <1>0, EventTyped
  <1>2. Marked /\ forgotten \subseteq RowKey /\ cache \in [RowKey -> Version(commits)]
    BY DEF CacheInv, Stores
  <1>3. /\ Keyed(tombstones')
        /\ Marks(tombstones') = {m \in Marks(tombstones) : m.key # e.key}
    BY <1>2, WithoutKeyed DEF Marked
  <1>4. PICK b : b = Backfilled(e.key, e.row)
    BY Zenon
  <1>5. /\ b \in Version(commits) /\ b.hlc = cache[e.key].hlc
        /\ cache[e.key].column # Null => b = cache[e.key]
    BY <1>1, <1>4 DEF Backfilled, Version
  <1>6. cache' = [cache EXCEPT ![e.key] = IF Stale(e.key, e.row) THEN b ELSE e.row]
    BY <1>4
  <1>7. /\ cache' \in [RowKey -> Version(commits)]
        /\ \A j \in RowKey : j # e.key => cache'[j] = cache[j]
        /\ cache'[e.key] = IF Stale(e.key, e.row) THEN b ELSE e.row
    BY <1>1, <1>2, <1>5, <1>6
  <1>8. Marked'
    <2>1. Len(tombstones') <= MaxTombstones
      <3>1. Len(WithoutKey(e.key)) \in Nat /\ Len(WithoutKey(e.key)) <= Len(tombstones)
        BY <1>2, WithoutShrinks DEF Marked
      <3>2. Len(tombstones) \in Nat /\ Len(tombstones) <= MaxTombstones
        BY <1>2 DEF Marked, Keyed
      <3> QED
        BY <3>1, <3>2, CacheAssumption
    <2>2. ASSUME NEW m \in Marks(tombstones') PROVE ~ Present(cache'[m.key])
      <3>1. m \in Marks(tombstones) /\ m.key # e.key
        BY <1>3
      <3>2. m \in Mark
        BY <1>2, <3>1, MarksTyped DEF Marked
      <3>3. m.key \in RowKey
        BY <3>2 DEF Mark
      <3>4. cache'[m.key] = cache[m.key]
        BY <1>7, <3>1, <3>3
      <3> QED
        BY <1>2, <3>1, <3>4 DEF Marked
    <2>3. \A m \in Marks(tombstones') : ~ Present(cache[m.key])'
      BY <2>2 DEF Present
    <2> QED
      BY <1>3, <2>1, <2>3 DEF Marked
  <1>9. ASSUME e.key \notin forgotten' PROVE Follows(e.key)'
    <2>1. Follows(e.key)
      BY <1>1, <1>9 DEF CacheInv
    <2>2. newest'[e.key] = IF e.row.hlc > newest[e.key].row.hlc
                             THEN [op |-> e.op, row |-> e.row] ELSE newest[e.key]
      BY DeliveringKeeps, Zenon
    <2>3. \A m \in Marks(tombstones) : m.key = e.key => e.row.hlc > m.hlc
      BY SupersedesMarks
    <2>4. ASSUME newest[e.key].op \in {"none", "delete"}
          PROVE  e.row.hlc > newest[e.key].row.hlc /\ ~ Present(cache[e.key])
      <3>1. CASE newest[e.key].op = "none"
        <4>1. newest[e.key].row = NoRow
          BY <1>1, <3>1, Zenon DEF CacheInv, NewestEmitted
        <4>2. newest[e.key].row.hlc = 0
          BY <4>1 DEF NoRow
        <4>3. ~ Present(cache[e.key])
          BY <2>1, <3>1, Zenon DEF Follows
        <4>4. e.row.hlc > newest[e.key].row.hlc
          <5>1. PICK h : h = e.row.hlc
            BY Zenon
          <5>2. h \in Nat /\ h # 0
            BY <1>1, <5>1, Zenon
          <5>3. h > 0
            BY <5>2
          <5> QED
            BY <4>2, <5>1, <5>3, Zenon
        <4> QED
          BY <4>3, <4>4, Zenon
      <3>2. CASE newest[e.key].op = "delete"
        <4>1. PICK o : o = [key |-> e.key, hlc |-> newest[e.key].row.hlc]
          BY Zenon
        <4>2. o \in Marks(tombstones) /\ o.key = e.key /\ o.hlc = newest[e.key].row.hlc
          BY <2>1, <3>2, <4>1 DEF Follows
        <4>3. e.row.hlc > newest[e.key].row.hlc
          BY <2>3, <4>2
        <4>4. newest[e.key].op # "none"
          BY <3>2
        <4>5. ~ Present(cache[e.key])
          BY <2>1, <3>2, <4>4, Zenon DEF Follows
        <4> QED
          BY <4>3, <4>5, Zenon
      <3> QED
        BY <2>4, <3>1, <3>2, Zenon
    <2>5. CASE e.row.hlc > newest[e.key].row.hlc
      <3>1. ~ Stale(e.key, e.row)
        <4>1. CASE newest[e.key].op \in {"none", "delete"}
          BY <2>4, <4>1 DEF Stale
        <4>2. CASE newest[e.key].op \notin {"none", "delete"}
          <5>1. cache[e.key].hlc = newest[e.key].row.hlc
            BY <2>1, <4>2 DEF Follows
          <5> QED
            BY <1>1, <2>5, <5>1 DEF Stale
        <4> QED
          BY <4>1, <4>2
      <3>2. cache'[e.key] = e.row
        BY <1>7, <3>1
      <3>3. newest'[e.key].op = e.op /\ newest'[e.key].row = e.row
        BY <2>2, <2>5
      <3>4. e.op # "none" /\ e.op # "delete"
        BY <1>1 DEF Writes
      <3> QED
        BY <3>2, <3>3, <3>4, Zenon DEF Follows
    <2>6. CASE ~ (e.row.hlc > newest[e.key].row.hlc)
      <3>1. newest'[e.key] = newest[e.key]
        BY <2>2, <2>6
      <3>2. newest[e.key].op # "none" /\ newest[e.key].op # "delete"
        BY <2>4, <2>6
      <3>3. /\ cache[e.key].hlc = newest[e.key].row.hlc
            /\ newest[e.key].row.column # Null => cache[e.key] = newest[e.key].row
        BY <2>1, <3>2, Zenon DEF Follows
      <3>4. /\ cache'[e.key].hlc = newest[e.key].row.hlc
            /\ newest[e.key].row.column # Null => cache'[e.key] = newest[e.key].row
        <4>1. CASE Stale(e.key, e.row)
          <5>1. cache'[e.key] = b
            BY <1>7, <4>1
          <5> QED
            BY <1>5, <3>3, <5>1
        <4>2. CASE ~ Stale(e.key, e.row)
          <5>1. cache'[e.key] = e.row
            BY <1>7, <4>2
          <5>2. ~ (e.row.hlc < cache[e.key].hlc)
            <6>1. cache[e.key].hlc # 0
              BY <1>1, <2>6, <3>3
            <6> QED
              BY <4>2, <6>1 DEF Stale, Present
          <5>3. newest[e.key].row.hlc = e.row.hlc
            BY <1>1, <2>6, <3>3, <5>2
          <5>4. newest[e.key].row = e.row
            BY <1>0, <5>3, SameStamp
          <5> QED
            BY <5>1, <5>4
        <4> QED
          BY <4>1, <4>2
      <3> QED
        BY <3>1, <3>2, <3>4, Zenon DEF Follows
    <2> QED
      BY <2>5, <2>6
  <1>10. forgotten \subseteq forgotten' /\ forgotten' \subseteq RowKey
    BY <1>2
  <1>11. /\ \A m \in Marks(tombstones) :
               m.key # e.key /\ m.key \notin forgotten' => m \in Marks(tombstones')
         /\ \A m \in Marks(tombstones') : m.key # e.key => m \in Marks(tombstones)
    BY <1>3
  <1> QED
    BY <1>7, <1>8, <1>9, <1>10, <1>11, DeliveryKeeps

\* A write that a tombstone fences is older than the deletion.
LEMMA FencedIsOld ==
    ASSUME CacheInv, NEW e \in events, ~ Supersedes(e.row, e.key),
           e.key \notin forgotten
    PROVE  ~ (e.row.hlc > newest[e.key].row.hlc)
  <1>1. e.key \in RowKey /\ e.row.hlc \in Nat /\ newest[e.key].row.hlc \in Nat
    BY EventTyped
  <1>2. Marked /\ Follows(e.key)
    BY <1>1 DEF CacheInv
  <1>3. PICK m \in Marks(tombstones) : m.key = e.key /\ ~ (e.row.hlc > m.hlc)
    BY SupersedesMarks
  <1>4. ~ Present(cache[e.key])
    BY <1>2, <1>3 DEF Marked
  <1>5. newest[e.key].op # "none"
    BY <1>2, <1>3, Zenon DEF Follows
  <1>6. newest[e.key].op = "delete"
    <2>1. ASSUME newest[e.key].op # "delete" PROVE FALSE
      <3>1. cache[e.key].hlc = newest[e.key].row.hlc
        BY <1>2, <1>5, <2>1, Zenon DEF Follows
      <3>2. [key |-> e.key, op |-> newest[e.key].op, row |-> newest[e.key].row] \in events
        BY <1>1, <1>5, Zenon DEF CacheInv, NewestEmitted
      <3>3. newest[e.key].row.hlc # 0
        BY <3>2 DEF CacheInv, Stamped
      <3> QED
        BY <1>4, <3>1, <3>3 DEF Present
    <2> QED
      BY <2>1
  <1>7. PICK o : o = [key |-> e.key, hlc |-> newest[e.key].row.hlc]
    BY Zenon
  <1>8. o \in Marks(tombstones) /\ o.key = e.key /\ o.hlc = newest[e.key].row.hlc
    BY <1>2, <1>6, <1>7, Zenon DEF Follows
  <1>9. m = o
    BY <1>2, <1>3, <1>8 DEF Marked, Keyed, Marks
  <1> QED
    BY <1>3, <1>8, <1>9

LEMMA ApplyKeeps ==
    ASSUME CacheInv, NEW e \in events, ApplySystemTableChange(e)
    PROVE  CacheInv'
  <1>1. /\ e.key \in RowKey /\ e.row.hlc \in Nat /\ e.row.hlc # 0
        /\ newest[e.key].row.hlc \in Nat
        /\ cache[e.key] \in Version(commits) /\ cache[e.key].hlc \in Nat
    BY EventTyped
  <1>2. Delivering(e)
    BY Zenon DEF ApplySystemTableChange, Delivering
  <1>3. cache \in [RowKey -> Version(commits)]
    BY DEF CacheInv, Stores
  <1>4. CASE e.op = "delete"
    <2>0. ApplyDelete(e.key, e.row)
      BY <1>4, Zenon DEF ApplySystemTableChange
    <2>1. CASE ~ Present(cache[e.key]) /\ RecordTombstone(e.key, e.row) /\ UNCHANGED cache
      <3>1. ~ Present(cache'[e.key])
        BY <2>1
      <3>2. cache' \in [RowKey -> Version(commits)]
        BY <1>3, <2>1
      <3> QED
        BY <1>2, <1>4, <2>1, <3>1, <3>2, RecordedKeeps
    <2>2. CASE Stale(e.key, e.row) /\ UNCHANGED <<cache, tombstones, forgotten>>
      <3>1. ASSUME e.key \notin forgotten
            PROVE  ~ (e.row.hlc > newest[e.key].row.hlc)
        <4>1. Follows(e.key) /\ Present(cache[e.key]) /\ e.row.hlc < cache[e.key].hlc
          BY <1>1, <2>2, <3>1 DEF CacheInv, Stale
        <4>2. cache[e.key].hlc = newest[e.key].row.hlc
          BY <4>1, Zenon DEF Follows
        <4> QED
          BY <1>1, <4>1, <4>2
      <3> QED
        BY <1>2, <2>2, <3>1, IgnoredKeeps
    <2>3. CASE /\ Present(cache[e.key]) /\ ~ Stale(e.key, e.row)
               /\ cache' = [cache EXCEPT ![e.key] = NoRow]
               /\ RecordTombstone(e.key, e.row)
      <3>1. NoRow \in Version(commits) /\ ~ Present(NoRow)
        <4>1. commits \in Nat
          BY DEF CacheInv, Stores
        <4> QED
          BY <4>1 DEF NoRow, Null, Version, Present
      <3>2. /\ cache' \in [RowKey -> Version(commits)] /\ cache'[e.key] = NoRow
            /\ \A j \in RowKey : j # e.key => cache'[j] = cache[j]
        BY <1>1, <1>3, <2>3, <3>1
      <3>3. cache[e.key].hlc <= e.row.hlc
        BY <1>1, <2>3 DEF Stale
      <3>4. ~ Present(cache'[e.key])
        BY <3>1, <3>2
      <3> QED
        BY <1>2, <1>4, <2>3, <3>2, <3>3, <3>4, RecordedKeeps
    <2> QED
      BY <2>0, <2>1, <2>2, <2>3, Zenon DEF ApplyDelete
  <1>5. CASE e.op # "delete"
    <2>0. ApplyWrite(e.key, e.row)
      BY <1>5, Zenon DEF ApplySystemTableChange
    <2>1. CASE ~ Supersedes(e.row, e.key) /\ UNCHANGED <<cache, tombstones, forgotten>>
      <3>1. e.key \notin forgotten => ~ (e.row.hlc > newest[e.key].row.hlc)
        BY <2>1, FencedIsOld
      <3> QED
        BY <1>2, <2>1, <3>1, IgnoredKeeps
    <2>2. CASE /\ Supersedes(e.row, e.key) /\ tombstones' = WithoutKey(e.key)
               /\ cache' = [cache EXCEPT ![e.key] =
                              IF Stale(e.key, e.row) THEN Backfilled(e.key, e.row)
                              ELSE e.row]
               /\ UNCHANGED forgotten
      BY <1>2, <1>5, <2>2, WrittenKeeps, Zenon
    <2> QED
      BY <2>0, <2>1, <2>2, Zenon DEF ApplyWrite
  <1> QED
    BY <1>4, <1>5

-----------------------------------------------------------------------------
(* The results.                                                            *)

LEMMA CacheInvInit ==
    CacheInit => CacheInv
  <1> SUFFICES ASSUME CacheInit PROVE CacheInv
    OBVIOUS
  <1>0. NoRow \in Version(0) /\ ~ Present(NoRow)
    BY DEF NoRow, Null, Version, Present
  <1>1. commits = 0 /\ commits \in 0..MaxCommits
    BY CacheAssumption DEF CacheInit
  <1>2. [op |-> "none", row |-> NoRow] \in Delivery(0)
    BY <1>0 DEF Delivery
  <1>3. Stores
    BY <1>0, <1>1, <1>2 DEF Stores, CacheInit
  <1>4. Stamped /\ events = {}
    BY DEF Stamped, CacheInit
  <1>5. tombstones = <<>> /\ Keyed(tombstones) /\ Marks(tombstones) = {}
    BY EmptyKeyed, Zenon DEF CacheInit
  <1>6. Marked
    <2>1. Len(tombstones) <= MaxTombstones
      BY <1>5, CacheAssumption
    <2> QED
      BY <1>5, <2>1, Zenon DEF Marked
  <1>7. \A k \in RowKey :
           newest[k].op = "none" /\ newest[k].row = NoRow /\ cache[k] = NoRow
    <2>1. /\ newest = [k \in RowKey |-> [op |-> "none", row |-> NoRow]]
          /\ cache = [k \in RowKey |-> NoRow]
      BY Zenon DEF CacheInit
    <2>2. PICK none : none = [op |-> "none", row |-> NoRow]
      BY Zenon
    <2>3. none.op = "none" /\ none.row = NoRow
      BY <2>2
    <2>4. newest = [k \in RowKey |-> none]
      BY <2>1, <2>2, Zenon
    <2> QED
      BY <2>1, <2>3, <2>4, Zenon
  <1>8. NewestEmitted
    BY <1>7, Zenon DEF NewestEmitted
  <1>9. \A k \in RowKey \ forgotten : Follows(k)
    BY <1>0, <1>5, <1>7, Zenon DEF Follows
  <1> QED
    BY <1>3, <1>4, <1>6, <1>8, <1>9 DEF CacheInv

LEMMA CacheInvNext ==
    CacheInv /\ [CacheNext]_cacheVars => CacheInv'
  <1> SUFFICES ASSUME CacheInv, [CacheNext]_cacheVars PROVE CacheInv'
    OBVIOUS
  <1>1. ASSUME NEW k \in RowKey, CommitRow(k) PROVE CacheInv'
    BY <1>1, CommitRowKeeps
  <1>2. ASSUME NEW k \in RowKey, CommitDelete(k) PROVE CacheInv'
    BY <1>2, CommitDeleteKeeps
  <1>3. ASSUME NEW k \in RowKey, ExpireTombstone(k) PROVE CacheInv'
    BY <1>3, ExpireKeeps
  <1>4. ASSUME NEW e \in events, ApplySystemTableChange(e) PROVE CacheInv'
    BY <1>4, ApplyKeeps
  <1>5. CASE UNCHANGED cacheVars
    BY <1>5, Zenon DEF cacheVars, CacheInv, Stores, Stamped, Marked, NewestEmitted, Follows
  <1> QED
    BY <1>1, <1>2, <1>3, <1>4, <1>5, Zenon DEF CacheNext

LEMMA CacheInvariant == CacheSpec => []CacheInv
  BY CacheInvInit, CacheInvNext, PTL DEF CacheSpec

(***************************************************************************)
(* applySystemTableChange does not depend on the order of delivery: for    *)
(* any keys, any number of writes and any cap on the tombstones, the cache *)
(* holds of every key that was not forgotten the newest event delivered.   *)
(***************************************************************************)
THEOREM NewestDelivered == CacheSpec => []CacheIsNewestDelivered
  BY CacheInvariant, FollowsNewest, PTL

(***************************************************************************)
(* The types, the cap TOMBSTONE_MAX_PER_TABLE, one tombstone of a key at   *)
(* most, and none while the cache has its row.                             *)
(***************************************************************************)
THEOREM CacheTypes == CacheSpec => []CacheTypeOK
  BY CacheInvariant, TypesFollow, PTL
=============================================================================
