---------------------------- MODULE CdcLaneProofs ----------------------------
(***************************************************************************)
(* The obligation lane acknowledges a row only when every subscriber has   *)
(* it, loses no row it acknowledged, and never falls asleep on an owed row *)
(* or on a command: proved for any subscribers, rows, tenures and bounds.  *)
(*                                                                         *)
(* The lane's wake-ups hang together: a row behind the scan is             *)
(* acknowledged or provisional (Scanned), an acknowledged one is in the    *)
(* batch or in a command (Carried), a command is awaited, or a             *)
(* retry of it is due (Watched), and a lane that is not driven has no      *)
(* other owed row (Awake).                                                 *)
(***************************************************************************)
EXTENDS CdcLane, WellFoundedInduction, TLAPS

Scans == [cursor : 0..MaxRows, through : 0..MaxRows, provisional : BOOLEAN]

Cells == [row : 0..MaxRows, branches : SUBSET Subscriber, covered : SUBSET Subscriber,
          provisional : SUBSET Subscriber, todo : SUBSET Subscriber, stale : BOOLEAN]

Tasks == [todo : SUBSET Command, waiting : SUBSET Row, flushed : BOOLEAN]

Lanes == [pending : SUBSET Row, batch : SUBSET Row, commands : SUBSET Command,
          awaiting : SUBSET Command, flushTimer : BOOLEAN, retryTimer : BOOLEAN,
          tasks : SUBSET Tasks, drive : {"idle", "scanning", "delivering"},
          rerun : BOOLEAN, visited : BOOLEAN, stale : BOOLEAN, scan : Scans,
          cell : Cells]

-----------------------------------------------------------------------------
(* The inductive invariant.                                                *)

Carried(l) == l.pending \subseteq l.batch \cup UNION l.commands

Watched(l) ==
    \A c \in l.commands :
       c \in l.awaiting \/ l.retryTimer \/ \E t \in l.tasks : c \in t.todo

Scanned(l, rows) ==
    l.scan.provisional \/ \A r \in rows : r <= l.scan.cursor => r \in l.pending

Awake(l, rows, S) ==
    l.drive = "idle" /\ ~ l.retryTimer /\ l.tasks = {} /\ S # {} =>
       rows \subseteq l.pending

\* A cell that is current is for today's subscribers, and those it counts as
\* covered have received its row.
CellSound(l, S, R) ==
    l.cell.row # 0 /\ ~ l.cell.stale =>
       l.cell.branches = S /\ \A s \in l.cell.covered : l.cell.row \in R[s]

\* No owed row lies between the cursor and the row being delivered.
AtRow(l, rows) ==
    l.drive = "delivering" =>
       l.cell.row # 0 /\ \A r \in rows : r < l.cell.row => r <= l.scan.cursor

LedgerSound ==
    /\ recorded \in 0..MaxRows /\ through \in 0..recorded
    /\ owed \subseteq 1..recorded /\ \A r \in owed : r > through

OthersTyped ==
    /\ subs \subseteq Subscriber /\ received \in [Subscriber -> SUBSET Row]
    /\ floating \subseteq Command

Behind(l, n) == l.scan.cursor <= n /\ l.cell.row <= n

LaneInv ==
    /\ lane \in Lanes /\ LedgerSound /\ OthersTyped /\ Behind(lane, recorded)
    /\ Carried(lane) /\ Watched(lane)
    /\ Scanned(lane, owed) /\ Awake(lane, owed, subs)
    /\ CellSound(lane, subs, received) /\ AtRow(lane, owed)

-----------------------------------------------------------------------------
(* Sets of numbers.                                                        *)

LEMMA MinIsLeast ==
    ASSUME NEW S \in SUBSET Nat, S # {}
    PROVE  Min(S) \in S /\ \A y \in S : Min(S) <= y
  <1>1. PICK x \in S : \A y \in S : ~ (<<y, x>> \in OpToRel(<, Nat))
    <2>1. PICK less : less = OpToRel(<, Nat)
      BY Zenon
    <2>2. IsWellFoundedOn(less, Nat)
      BY <2>1, NatLessThanWellFounded, Zenon
    <2>3. \E x \in S : \A y \in S : ~ (<<y, x>> \in less)
      BY <2>2, WFMin, Zenon
    <2> QED
      BY <2>1, <2>3, Zenon
  <1>2. ASSUME NEW y \in S PROVE x =< y
    <2>1. x \in Nat /\ y \in Nat
      OBVIOUS
    <2>2. ~ (y < x)
      BY <1>1, <2>1, Zenon DEF OpToRel
    <2> QED
      BY <2>1, <2>2
  <1>3. \E z \in S : \A y \in S : z =< y
    BY <1>2
  <1> QED
    BY <1>3, Zenon DEF Min

LEMMA TailIsLast ==
    ASSUME LedgerSound
    PROVE  OwedTail \in 0..recorded /\ \A r \in owed : r <= OwedTail
  <1>1. recorded \in Nat /\ owed \in SUBSET (1..recorded)
    BY DEF LedgerSound
  <1>2. CASE owed = {}
    BY <1>1, <1>2 DEF OwedTail
  <1>3. CASE owed # {}
    <2> DEFINE D == {d \in Nat : \E x \in owed : d = recorded - x}
    <2>1. PICK s \in owed : TRUE
      BY <1>3, Zenon
    <2>2. D \in SUBSET Nat /\ recorded - s \in D
      BY <1>1
    <2>3. \E d \in D : \A e \in D : d <= e
      <3> HIDE DEF D
      <3> QED
        BY <2>2, MinIsLeast, Zenon
    <2>4. PICK x \in owed : \A e \in D : recorded - x <= e
      BY <2>3
    <2>5. ASSUME NEW y \in owed PROVE x >= y
      <3>1. recorded - y \in D
        BY <1>1
      <3> QED
        BY <1>1, <2>4, <3>1
    <2>6. Max(owed) \in owed /\ \A y \in owed : Max(owed) >= y
      BY <2>5, Zenon DEF Max
    <2>7. OwedTail = Max(owed)
      BY <1>3, Zenon DEF OwedTail
    <2> QED
      <3>1. PICK m : m = Max(owed)
        BY Zenon
      <3>2. m \in owed /\ (\A y \in owed : m >= y) /\ OwedTail = m
        BY <2>6, <2>7, <3>1, Zenon
      <3> QED
        BY <1>1, <3>2
  <1> QED
    BY <1>2, <1>3

\* Reach covers no row that is still owed.
LEMMA ReachSound ==
    ASSUME LedgerSound, NEW left \in SUBSET owed
    PROVE  Reach(left) \in 0..recorded /\ \A r \in left : r > Reach(left)
  <1>1. recorded \in Nat /\ owed \in SUBSET (1..recorded)
    BY DEF LedgerSound
  <1>2. CASE left = {}
    BY <1>1, <1>2 DEF Reach
  <1>3. CASE left # {}
    <2>1. Min(left) \in left /\ \A r \in left : Min(left) <= r
      BY <1>1, <1>3, MinIsLeast
    <2>2. PICK m : m = Min(left)
      BY Zenon
    <2>3. m \in left /\ (\A r \in left : m <= r) /\ Reach(left) = m - 1
      BY <1>3, <2>1, <2>2, Zenon DEF Reach
    <2> QED
      BY <1>1, <2>3
  <1> QED
    BY <1>2, <1>3

LEMMA NextRowSound ==
    ASSUME LedgerSound, NEW scan \in Scans, NEW row, row = NextRow(scan)
    PROVE  /\ row # 0 => /\ row \in owed /\ scan.cursor < row
                         /\ \A r \in owed : r < row => r <= scan.cursor
           /\ row = 0 => \A r \in owed : r <= scan.cursor \/ r > scan.through
  <1>1. PICK cursor, last : cursor = scan.cursor /\ last = scan.through
    BY Zenon
  <1>2. cursor \in Nat /\ last \in Nat
    BY <1>1 DEF Scans
  <1>3. recorded \in Nat /\ owed \in SUBSET (1..recorded)
    BY DEF LedgerSound
  <1>4. PICK ahead : ahead = {r \in owed : cursor < r /\ r <= last}
    BY Zenon
  <1>5. row = IF ahead = {} THEN 0 ELSE Min(ahead)
    BY <1>1, <1>4, Zenon DEF NextRow
  <1>6. CASE ahead = {}
    <2>1. \A r \in owed : ~ (cursor < r /\ r <= last)
      BY <1>4, <1>6, Zenon
    <2> QED
      BY <1>1, <1>2, <1>3, <1>5, <1>6, <2>1
  <1>7. CASE ahead # {}
    <2>1. ahead \in SUBSET Nat
      <3>1. ahead \subseteq 1..recorded
        BY <1>3, <1>4, Zenon
      <3> QED
        BY <1>3, <3>1
    <2>2. row \in ahead /\ \A r \in ahead : row <= r
      BY <1>5, <1>7, <2>1, MinIsLeast, Zenon
    <2>3. ASSUME NEW r \in owed, r < row PROVE r <= cursor
      <3>1. r \in ahead => row <= r
        BY <2>2, Zenon
      <3> QED
        BY <1>2, <1>3, <1>4, <2>2, <2>3, <3>1
    <2> QED
      BY <1>1, <1>2, <1>3, <1>4, <2>2, <2>3
  <1> QED
    BY <1>6, <1>7, Zenon

LEMMA ScanOfLane ==
    ASSUME LedgerSound, NEW l \in Lanes
    PROVE  /\ ScanOf(l) \in Scans /\ ScanOf(l).cursor = l.scan.cursor
           /\ ScanOf(l).provisional = l.scan.provisional
  <1>1. l.scan \in Scans
    BY DEF Lanes
  <1>2. OwedTail \in 0..MaxRows
    BY TailIsLast, LaneAssumption DEF LedgerSound
  <1> QED
    BY <1>1, <1>2 DEF ScanOf, Scans

-----------------------------------------------------------------------------
(* The functions from lanes to lanes.                                      *)

\* m has the rows, the commands and the retries of l.
Alike(l, m) ==
    /\ m.pending = l.pending /\ m.batch = l.batch /\ m.commands = l.commands
    /\ m.awaiting = l.awaiting /\ m.tasks = l.tasks

LEMMA RetryArmedLane ==
    ASSUME NEW l \in Lanes
    PROVE  /\ RetryArmed(l) \in Lanes /\ Alike(l, RetryArmed(l))
           /\ RetryArmed(l).retryTimer
           /\ RetryArmed(l).drive = l.drive /\ RetryArmed(l).rerun = l.rerun
           /\ RetryArmed(l).scan = l.scan /\ RetryArmed(l).cell = l.cell
  BY Zenon DEF RetryArmed, Lanes, Alike

LEMMA DriveEndedLane ==
    ASSUME NEW l \in Lanes
    PROVE  /\ DriveEnded(l) \in Lanes /\ Alike(l, DriveEnded(l))
           /\ l.retryTimer => DriveEnded(l).retryTimer
           /\ DriveEnded(l).drive = "idle"
           /\ DriveEnded(l).scan = l.scan /\ DriveEnded(l).cell = l.cell
  BY Zenon DEF DriveEnded, Lanes, Alike

LEMMA DrivenLane ==
    ASSUME NEW l \in Lanes, NEW S
    PROVE  LET m == DrivenFor(l, S) IN
           /\ m \in Lanes /\ Alike(l, m) /\ m.retryTimer = l.retryTimer
           /\ m.scan = l.scan /\ m.cell = l.cell
           /\ m.drive = l.drive \/ (l.drive = "idle" /\ m.drive = "scanning")
           /\ S # {} => m.drive # "idle"
  BY Zenon DEF DrivenFor, Lanes, Alike

(***************************************************************************)
(* What settling and proposing do to a lane while `rows' are owed: they    *)
(* take no owed row from `pending', carry what is left in it, keep a       *)
(* wake-up for every command, and may start a drive.                       *)
(***************************************************************************)
LaneFollows(l, m, rows) ==
    /\ m \in Lanes
    /\ m.pending \subseteq l.pending /\ l.pending \cap rows \subseteq m.pending
    /\ m.tasks = l.tasks /\ m.scan = l.scan /\ m.cell = l.cell
    /\ l.retryTimer => m.retryTimer
    /\ m.drive = l.drive \/ (l.drive = "idle" /\ m.drive = "scanning")
    /\ Carried(l) => Carried(m)

LEMMA FollowsAgain ==
    ASSUME NEW l, NEW m, NEW n, NEW rows, LaneFollows(l, m, rows), LaneFollows(m, n, rows)
    PROVE  LaneFollows(l, n, rows)
  <1>1. n.pending \subseteq l.pending /\ l.pending \cap rows \subseteq n.pending
    BY Zenon DEF LaneFollows
  <1> QED
    BY <1>1, Zenon DEF LaneFollows

LEMMA AlikeFollows ==
    ASSUME NEW l, NEW m \in Lanes, NEW rows, Alike(l, m), m.scan = l.scan,
           m.cell = l.cell, l.retryTimer => m.retryTimer,
           m.drive = l.drive \/ (l.drive = "idle" /\ m.drive = "scanning")
    PROVE  LaneFollows(l, m, rows) /\ (Watched(l) => Watched(m))
  <1>1. LaneFollows(l, m, rows)
    BY Zenon DEF LaneFollows, Alike, Carried
  <1>2. Watched(l) => Watched(m)
    BY Zenon DEF Alike, Watched
  <1> QED
    BY <1>1, <1>2, Zenon

(* The four facts about the rows, the scan and the cell come along.        *)
LEMMA FollowsKeeps ==
    ASSUME NEW l, NEW m, NEW rows, LaneFollows(l, m, rows), NEW S, NEW R, NEW n
    PROVE  /\ Scanned(l, rows) => Scanned(m, rows)
           /\ Awake(l, rows, S) => Awake(m, rows, S)
           /\ CellSound(l, S, R) => CellSound(m, S, R)
           /\ AtRow(l, rows) => AtRow(m, rows)
           /\ Behind(l, n) => Behind(m, n)
  <1>1. Scanned(l, rows) => Scanned(m, rows)
    BY Zenon DEF LaneFollows, Scanned
  <1>2. Awake(l, rows, S) => Awake(m, rows, S)
    BY Zenon DEF LaneFollows, Awake
  <1>3. CellSound(l, S, R) => CellSound(m, S, R)
    BY Zenon DEF LaneFollows, CellSound
  <1>4. AtRow(l, rows) => AtRow(m, rows)
    BY Zenon DEF LaneFollows, AtRow
  <1>5. Behind(l, n) => Behind(m, n)
    BY Zenon DEF LaneFollows, Behind
  <1> QED
    BY <1>1, <1>2, <1>3, <1>4, <1>5, Zenon

(***************************************************************************)
(* settleAcknowledgedObligations takes from the lane rows that are not     *)
(* owed, and the commands none of whose rows is left.                      *)
(***************************************************************************)
SettlesTo(l, m, rows, reach, left) ==
    /\ LaneFollows(l, m, left) /\ (Watched(l) => Watched(m))
    /\ m.awaiting = l.awaiting /\ m.batch = l.batch
    /\ m.pending = {r \in l.pending \ rows : r > reach}
    /\ m.commands = {c \in l.commands : c \cap m.pending # {}}

LEMMA SettledFollows ==
    ASSUME NEW l \in Lanes, NEW rows, NEW reach \in Nat, NEW left,
           \A r \in left : r \notin rows /\ r > reach
    PROVE  SettlesTo(l, LedgerSettled(l, rows, reach), rows, reach, left)
  <1>1. PICK kept : kept = {r \in l.pending \ rows : r > reach}
    BY Zenon
  <1>2. PICK mine : mine = {c \in l.commands : c \cap kept # {}}
    BY Zenon
  <1>3. PICK k : k = [l EXCEPT !.pending = kept, !.commands = mine]
    BY Zenon
  <1>4. PICK m : m = DrivenFor(k, subs)
    BY Zenon
  <1>5. LedgerSettled(l, rows, reach) = m
    BY <1>1, <1>2, <1>3, <1>4, Zenon DEF LedgerSettled, Driven
  <1>6. kept \in SUBSET Row /\ mine \in SUBSET Command
    BY <1>1, <1>2, Zenon DEF Lanes
  <1>7. /\ k \in Lanes /\ k.pending = kept /\ k.commands = mine
        /\ k.batch = l.batch /\ k.awaiting = l.awaiting /\ k.tasks = l.tasks
        /\ k.scan = l.scan /\ k.cell = l.cell /\ k.retryTimer = l.retryTimer
        /\ k.drive = l.drive
    BY <1>3, <1>6, Zenon DEF Lanes
  <1>8. Carried(l) => Carried(k)
    BY <1>1, <1>2, <1>7, Zenon DEF Carried
  <1>9. Watched(l) => Watched(k)
    BY <1>2, <1>7, Zenon DEF Watched
  <1>10. kept \subseteq l.pending /\ l.pending \cap left \subseteq kept
    BY <1>1, Zenon
  <1>11. LaneFollows(l, k, left)
    BY <1>7, <1>8, <1>10, Zenon DEF LaneFollows
  <1>12. /\ m \in Lanes /\ Alike(k, m) /\ m.retryTimer = k.retryTimer
         /\ m.scan = k.scan /\ m.cell = k.cell
         /\ m.drive = k.drive \/ (k.drive = "idle" /\ m.drive = "scanning")
    BY <1>4, <1>7, DrivenLane, Zenon
  <1>13. LaneFollows(k, m, left) /\ (Watched(k) => Watched(m))
    BY <1>12, AlikeFollows, Zenon
  <1>14. LaneFollows(l, m, left)
    BY <1>11, <1>13, FollowsAgain, Zenon
  <1>15. /\ m.awaiting = l.awaiting /\ m.batch = l.batch /\ m.pending = kept
         /\ m.commands = mine
    BY <1>7, <1>12, Zenon DEF Alike
  <1> QED
    BY <1>1, <1>2, <1>5, <1>9, <1>13, <1>14, <1>15, Zenon DEF SettlesTo

\* Every command but c has a wake-up.
WatchedBut(l, c) ==
    \A d \in l.commands \ {c} :
       d \in l.awaiting \/ l.retryTimer \/ \E t \in l.tasks : d \in t.todo

\* The commands of m are those of l without `gone', or have a wake-up.
Renewed(l, m, gone) ==
    /\ l.awaiting \subseteq m.awaiting
    /\ \A d \in m.commands : d \in l.commands \ gone \/ d \in m.awaiting \/ m.retryTimer

LEMMA ReclaimedRows ==
    ASSUME LedgerSound, NEW c \in Command
    PROVE  /\ c \ Reclaimed(c) \in SUBSET Row
           /\ c \ Reclaimed(c) # {} => c \ Reclaimed(c) \in Command
           /\ \A r \in c : r > through => r \in c \ Reclaimed(c)
  <1>1. c \in SUBSET Row
    BY Zenon DEF Command
  <1>2. \A r \in Row : r > through => ~ (r <= through)
    BY LaneAssumption DEF LedgerSound, Row
  <1> QED
    BY <1>1, <1>2, Zenon DEF Reclaimed, Command

LEMMA ReconciledFollows ==
    ASSUME LedgerSound, NEW l \in Lanes, NEW c \in Command
    PROVE  LET m == Reconciled(l, c) IN
           /\ LaneFollows(l, m, owed) /\ (WatchedBut(l, c) => Watched(m))
           /\ m.awaiting = l.awaiting /\ Renewed(l, m, {c})
  <1>1. PICK rest : rest = c \ Reclaimed(c)
    BY Zenon
  <1>2. /\ rest # {} => rest \in Command
        /\ \A r \in c : r > through => r \in rest
    BY <1>1, ReclaimedRows, Zenon
  <1>3. PICK kept : kept = (l.commands \ {c}) \cup (IF rest = {} THEN {} ELSE {rest})
    BY Zenon
  <1>4. kept \in SUBSET Command
    BY <1>2, <1>3, Zenon DEF Lanes
  <1>5. PICK k : k = [l EXCEPT !.commands = kept, !.retryTimer = @ \/ rest # {}]
    BY Zenon
  <1>6. /\ k \in Lanes /\ k.pending = l.pending /\ k.commands = kept
        /\ k.batch = l.batch /\ k.awaiting = l.awaiting /\ k.tasks = l.tasks
        /\ k.scan = l.scan /\ k.cell = l.cell /\ k.drive = l.drive
        /\ k.retryTimer = (l.retryTimer \/ rest # {})
    BY <1>4, <1>5, Zenon DEF Lanes
  <1>7. PICK m : m = LedgerSettled(k, {}, through)
    BY Zenon
  <1>8. Reconciled(l, c) = m
    BY <1>1, <1>3, <1>5, <1>7, Zenon DEF Reconciled
  <1>9. through \in Nat /\ \A r \in owed : r \notin {} /\ r > through
    BY DEF LedgerSound
  <1>10. /\ LaneFollows(k, m, owed) /\ (Watched(k) => Watched(m))
         /\ m.awaiting = k.awaiting /\ m.batch = k.batch
         /\ m.pending = {r \in k.pending \ {} : r > through}
         /\ m.commands = {d \in k.commands : d \cap m.pending # {}}
    <2>1. SettlesTo(k, m, {}, through, owed)
      BY <1>6, <1>7, <1>9, SettledFollows, Zenon
    <2> QED
      BY <2>1, Zenon DEF SettlesTo
  <1>11. WatchedBut(l, c) => Watched(k)
    BY <1>3, <1>6, Zenon DEF WatchedBut, Watched
  <1>12. ASSUME Carried(l), NEW r \in m.pending
         PROVE  r \in m.batch \cup UNION m.commands
    <2>1. r \in l.pending /\ r > through
      BY <1>6, <1>10, <1>12, Zenon
    <2>2. CASE r \in l.batch
      BY <1>6, <1>10, <2>2, Zenon
    <2>3. ASSUME NEW d \in l.commands, r \in d PROVE r \in UNION m.commands
      <3>1. CASE d = c
        BY <1>2, <1>3, <1>6, <1>10, <1>12, <2>1, <2>3, <3>1, Zenon
      <3>2. CASE d # c
        BY <1>3, <1>6, <1>10, <1>12, <2>3, <3>2, Zenon
      <3> QED
        BY <3>1, <3>2, Zenon
    <2> QED
      BY <1>12, <2>1, <2>2, <2>3, Zenon DEF Carried
  <1>13. Carried(l) => Carried(m)
    BY <1>12, Zenon DEF Carried
  <1>14. LaneFollows(l, m, owed)
    BY <1>6, <1>10, <1>13, Zenon DEF LaneFollows
  <1>15. Renewed(l, m, {c})
    <2>1. l.awaiting \subseteq m.awaiting /\ (k.retryTimer => m.retryTimer)
      BY <1>6, <1>10, Zenon DEF LaneFollows
    <2>2. \A d \in m.commands : d \in l.commands \ {c} \/ m.retryTimer
      BY <1>3, <1>6, <1>10, <2>1, Zenon
    <2> QED
      BY <2>1, <2>2, Zenon DEF Renewed
  <1> QED
    BY <1>6, <1>8, <1>10, <1>11, <1>14, <1>15, Zenon

LEMMA ProposedFollows ==
    ASSUME LedgerSound, NEW l \in Lanes, NEW c \in Command
    PROVE  /\ LaneFollows(l, Proposed(l, c), owed)
           /\ WatchedBut(l, c) => Watched(Proposed(l, c))
           /\ Renewed(l, Proposed(l, c), {c})
  <1>1. CASE c \in l.awaiting
    <2>1. Proposed(l, c) = l
      BY <1>1, Zenon DEF Proposed
    <2>2. LaneFollows(l, l, owed)
      BY Zenon DEF LaneFollows
    <2>3. (WatchedBut(l, c) => Watched(l)) /\ Renewed(l, l, {c})
      BY <1>1, Zenon DEF WatchedBut, Watched, Renewed
    <2> QED
      BY <2>1, <2>2, <2>3, Zenon
  <1>2. CASE c \notin l.awaiting /\ Reclaimed(c) # {}
    <2>1. Proposed(l, c) = Reconciled(l, c)
      BY <1>2, Zenon DEF Proposed
    <2> QED
      BY <2>1, ReconciledFollows, Zenon
  <1>3. CASE c \notin l.awaiting /\ Reclaimed(c) = {}
    <2>1. PICK m : m = [l EXCEPT !.awaiting = @ \cup {c}]
      BY Zenon
    <2>2. Proposed(l, c) = m
      BY <1>3, <2>1, Zenon DEF Proposed
    <2>3. l.awaiting \cup {c} \in SUBSET Command
      BY Zenon DEF Lanes
    <2>4. /\ m \in Lanes /\ m.pending = l.pending /\ m.commands = l.commands
          /\ m.batch = l.batch /\ m.awaiting = l.awaiting \cup {c}
          /\ m.tasks = l.tasks /\ m.scan = l.scan /\ m.cell = l.cell
          /\ m.drive = l.drive /\ m.retryTimer = l.retryTimer
      BY <2>1, <2>3, Zenon DEF Lanes
    <2>5. LaneFollows(l, m, owed)
      BY <2>4, Zenon DEF LaneFollows, Carried
    <2>6. (WatchedBut(l, c) => Watched(m)) /\ Renewed(l, m, {c})
      BY <2>4, Zenon DEF WatchedBut, Watched, Renewed
    <2> QED
      BY <2>2, <2>4, <2>5, <2>6, Zenon
  <1> QED
    BY <1>1, <1>2, <1>3, Zenon

LEMMA FlushedFollows ==
    ASSUME LedgerSound, NEW l \in Lanes
    PROVE  /\ LaneFollows(l, Flushed(l), owed) /\ (Watched(l) => Watched(Flushed(l)))
           /\ Renewed(l, Flushed(l), {})
  <1>1. PICK c : c = l.batch
    BY Zenon
  <1>2. CASE c = {} \/ Cardinality(l.commands) >= MaxOutstanding
    <2>1. PICK m : m = [l EXCEPT !.flushTimer = FALSE]
      BY Zenon
    <2>2. Flushed(l) = m
      BY <1>1, <1>2, <2>1, Zenon DEF Flushed
    <2>3. /\ m \in Lanes /\ Alike(l, m) /\ m.scan = l.scan /\ m.cell = l.cell
          /\ m.drive = l.drive /\ m.retryTimer = l.retryTimer
      BY <2>1, Zenon DEF Lanes, Alike
    <2>4. Renewed(l, m, {})
      BY <2>3, Zenon DEF Renewed, Alike
    <2> QED
      BY <2>2, <2>3, <2>4, AlikeFollows, Zenon
  <1>3. CASE ~ (c = {} \/ Cardinality(l.commands) >= MaxOutstanding)
    <2>1. PICK k : k = [l EXCEPT !.flushTimer = FALSE, !.batch = {},
                                 !.commands = @ \cup {c}]
      BY Zenon
    <2>2. Flushed(l) = Proposed(k, c)
      BY <1>1, <1>3, <2>1, Zenon DEF Flushed
    <2>3. c \in Command /\ l.commands \cup {c} \in SUBSET Command
      BY <1>1, <1>3, Zenon DEF Lanes, Command
    <2>4. /\ k \in Lanes /\ k.pending = l.pending /\ k.batch = {}
          /\ k.commands = l.commands \cup {c} /\ k.awaiting = l.awaiting
          /\ k.tasks = l.tasks /\ k.scan = l.scan /\ k.cell = l.cell
          /\ k.drive = l.drive /\ k.retryTimer = l.retryTimer
      BY <2>1, <2>3, Zenon DEF Lanes
    <2>5. Carried(l) => Carried(k)
      BY <1>1, <2>4, Zenon DEF Carried
    <2>6. LaneFollows(l, k, owed)
      BY <2>4, <2>5, Zenon DEF LaneFollows
    <2>7. Watched(l) => WatchedBut(k, c)
      BY <2>4, Zenon DEF Watched, WatchedBut
    <2>8. PICK m : m = Proposed(k, c)
      BY Zenon
    <2>9. /\ LaneFollows(k, m, owed) /\ (WatchedBut(k, c) => Watched(m))
          /\ Renewed(k, m, {c})
      BY <2>3, <2>4, <2>8, ProposedFollows, Zenon
    <2>10. LaneFollows(l, m, owed)
      BY <2>6, <2>9, FollowsAgain, Zenon
    <2>11. Renewed(l, m, {})
      BY <2>4, <2>9, Zenon DEF Renewed
    <2> QED
      BY <2>2, <2>7, <2>8, <2>9, <2>10, <2>11, Zenon
  <1> QED
    BY <1>2, <1>3, Zenon

\* acknowledgeDelivered: the lane with the row, followed.
LEMMA AcknowledgedFollows ==
    ASSUME LedgerSound, NEW l \in Lanes, Carried(l), Watched(l), NEW row \in Row,
           NEW bytesFull \in BOOLEAN, l.drive = "scanning"
    PROVE  LET m == Acknowledged(l, row, bytesFull) IN
           /\ m \in Lanes /\ Carried(m) /\ Watched(m)
           /\ m.pending \subseteq l.pending \cup {row}
           /\ (l.pending \cup {row}) \cap owed \subseteq m.pending
           /\ m.scan = l.scan /\ m.cell = l.cell /\ m.drive = "scanning"
  <1>1. PICK before : before = IF bytesFull /\ l.batch # {} THEN Flushed(l) ELSE l
    BY Zenon
  <1>2. LaneFollows(l, l, owed)
    BY Zenon DEF LaneFollows
  <1>3. LaneFollows(l, before, owed) /\ Watched(before)
    BY <1>1, <1>2, FlushedFollows, Zenon
  <1>4. before \in Lanes /\ Carried(before)
    BY <1>3, Zenon DEF LaneFollows
  <1>5. PICK added : added = [before EXCEPT !.pending = @ \cup {row},
                                            !.batch = @ \cup {row}]
    BY Zenon
  <1>6. /\ before.pending \cup {row} \in SUBSET Row
        /\ before.batch \cup {row} \in SUBSET Row
    BY <1>4, Zenon DEF Lanes
  <1>7. /\ added \in Lanes /\ added.pending = before.pending \cup {row}
        /\ added.batch = before.batch \cup {row} /\ added.commands = before.commands
        /\ added.awaiting = before.awaiting /\ added.tasks = before.tasks
        /\ added.scan = before.scan /\ added.cell = before.cell
        /\ added.drive = before.drive /\ added.retryTimer = before.retryTimer
    BY <1>4, <1>5, <1>6, Zenon DEF Lanes
  <1>8. Carried(added)
    BY <1>4, <1>7, Zenon DEF Carried
  <1>9. Watched(added)
    BY <1>3, <1>7, Zenon DEF Watched
  <1>10. PICK late : late = [added EXCEPT !.flushTimer = TRUE]
    BY Zenon
  <1>11. /\ late \in Lanes /\ Alike(added, late) /\ late.scan = added.scan
         /\ late.cell = added.cell /\ late.drive = added.drive
         /\ late.retryTimer = added.retryTimer
    BY <1>7, <1>10, Zenon DEF Lanes, Alike
  <1>12. LaneFollows(added, late, owed) /\ (Watched(added) => Watched(late))
    BY <1>11, AlikeFollows, Zenon
  <1>13. /\ LaneFollows(added, Flushed(added), owed)
         /\ Watched(added) => Watched(Flushed(added))
    BY <1>7, FlushedFollows, Zenon
  <1>14. PICK m : m = Acknowledged(l, row, bytesFull)
    BY Zenon
  <1>15. m = Flushed(added) \/ m = late
    BY <1>1, <1>5, <1>10, <1>14, Zenon DEF Acknowledged
  <1>16. LaneFollows(added, m, owed) /\ Watched(m)
    BY <1>9, <1>12, <1>13, <1>15, Zenon
  <1>17. m \in Lanes /\ Carried(m) /\ m.scan = l.scan /\ m.cell = l.cell
    BY <1>3, <1>7, <1>8, <1>16, Zenon DEF LaneFollows
  <1>18. m.drive = "scanning"
    <2>1. before.drive = "scanning"
      BY <1>3, Zenon DEF LaneFollows
    <2> QED
      BY <1>7, <1>16, <2>1, Zenon DEF LaneFollows
  <1>19. m.pending \subseteq l.pending \cup {row}
    BY <1>3, <1>7, <1>16, Zenon DEF LaneFollows
  <1>20. (l.pending \cup {row}) \cap owed \subseteq m.pending
    BY <1>3, <1>7, <1>16, Zenon DEF LaneFollows
  <1> QED
    BY <1>14, <1>16, <1>17, <1>18, <1>19, <1>20, Zenon

-----------------------------------------------------------------------------
(* The steps of a drive.                                                   *)

\* The invariant is kept and no row is acknowledged.
Kept == LaneInv' /\ lane'.pending \subseteq lane.pending

\* The rows, the progress, the subscribers and what they have stay.
Still == UNCHANGED <<recorded, owed, through, subs, received>>

LaneSound(m, R) ==
    /\ Carried(m) /\ Watched(m) /\ Scanned(m, owed) /\ Awake(m, owed, subs)
    /\ CellSound(m, subs, R) /\ AtRow(m, owed) /\ Behind(m, recorded)

LEMMA MovedKeeps ==
    ASSUME LaneInv, NEW m \in Lanes, Move(m), LaneSound(m, received'),
           UNCHANGED <<recorded, owed, through, subs>>,
           received' \in [Subscriber -> SUBSET Row]
    PROVE  LaneInv'
  <1>1. lane' = m /\ floating' = floating \cup (m.awaiting \ lane.awaiting)
    BY Zenon DEF Move
  <1>2. LedgerSound'
    <2>1. LedgerSound
      BY Zenon DEF LaneInv
    <2> QED
      BY <2>1, Zenon DEF LedgerSound
  <1>3. OthersTyped'
    <2>1. m.awaiting \subseteq Command
      BY Zenon DEF Lanes
    <2>2. floating \subseteq Command /\ subs \subseteq Subscriber
      BY Zenon DEF LaneInv, OthersTyped
    <2>3. floating' \subseteq Command
      BY <1>1, <2>1, <2>2, Zenon
    <2> QED
      BY <2>2, <2>3, Zenon DEF OthersTyped
  <1>4. /\ Carried(lane') /\ Watched(lane') /\ Scanned(lane', owed')
        /\ Awake(lane', owed', subs') /\ CellSound(lane', subs', received')
        /\ AtRow(lane', owed') /\ Behind(lane', recorded') /\ lane' \in Lanes
    BY <1>1, Zenon DEF LaneSound
  <1> QED
    BY <1>2, <1>3, <1>4, Zenon
       DEF LaneInv, Carried, Watched, Scanned, Awake, CellSound, AtRow, Behind

LEMMA FollowedKeeps ==
    ASSUME LaneInv, NEW m, LaneFollows(lane, m, owed), Watched(m), Move(m), Still
    PROVE  Kept
  <1>1. /\ Carried(lane) /\ Scanned(lane, owed) /\ Awake(lane, owed, subs)
        /\ CellSound(lane, subs, received) /\ AtRow(lane, owed)
        /\ Behind(lane, recorded) /\ received \in [Subscriber -> SUBSET Row]
    BY Zenon DEF LaneInv, OthersTyped
  <1>2. PICK l : l = lane
    BY Zenon
  <1>3. /\ Scanned(m, owed) /\ Awake(m, owed, subs) /\ CellSound(m, subs, received)
        /\ AtRow(m, owed) /\ Behind(m, recorded)
    BY <1>1, <1>2, FollowsKeeps, Zenon
  <1>4. m \in Lanes /\ Carried(m) /\ m.pending \subseteq lane.pending
    BY <1>1, Zenon DEF LaneFollows
  <1>5. LaneSound(m, received') /\ received' \in [Subscriber -> SUBSET Row]
    BY <1>1, <1>3, <1>4, Zenon DEF LaneSound, Still
  <1>6. LaneInv'
    BY <1>4, <1>5, MovedKeeps, Zenon DEF Still
  <1> QED
    BY <1>4, <1>6, Zenon DEF Kept, Move

\* A pass that ends with a retry.
LEMMA HeldKeeps ==
    ASSUME LaneInv, NEW k \in Lanes, Alike(lane, k), Scanned(k, owed),
           CellSound(k, subs, received), Behind(k, recorded),
           Move(DriveEnded(RetryArmed(k))), Still
    PROVE  Kept
  <1>1. PICK a : a = RetryArmed(k)
    BY Zenon
  <1>2. /\ a \in Lanes /\ Alike(k, a) /\ a.retryTimer /\ a.scan = k.scan
        /\ a.cell = k.cell
    BY <1>1, RetryArmedLane, Zenon
  <1>3. PICK m : m = DriveEnded(a)
    BY Zenon
  <1>4. /\ m \in Lanes /\ Alike(a, m) /\ m.retryTimer /\ m.drive = "idle"
        /\ m.scan = a.scan /\ m.cell = a.cell
    BY <1>2, <1>3, DriveEndedLane, Zenon
  <1>5. Alike(lane, m) /\ m.pending = k.pending
    BY <1>2, <1>4, Zenon DEF Alike
  <1>6. Carried(m) /\ Watched(m)
    BY <1>4, <1>5, Zenon DEF LaneInv, Carried, Watched, Alike
  <1>7. Scanned(m, owed) /\ CellSound(m, subs, received) /\ Behind(m, recorded)
    BY <1>2, <1>4, <1>5, Zenon DEF Scanned, CellSound, Behind
  <1>8. Awake(m, owed, subs) /\ AtRow(m, owed)
    BY <1>4 DEF Awake, AtRow
  <1>9. /\ LaneSound(m, received') /\ received' \in [Subscriber -> SUBSET Row]
        /\ UNCHANGED <<recorded, owed, through, subs>> /\ Move(m)
    BY <1>1, <1>3, <1>6, <1>7, <1>8, Zenon
       DEF LaneSound, Still, LaneInv, OthersTyped
  <1>10. LaneInv'
    BY <1>4, <1>9, MovedKeeps, Zenon
  <1> QED
    BY <1>5, <1>9, <1>10, Zenon DEF Kept, Move, Alike

LEMMA FreshScan == NoScan \in Scans /\ NoScan.cursor = 0 /\ ~ NoScan.provisional
  BY LaneAssumption DEF NoScan, Scans

\* A scan that is given up, or keeps its cursor, has its rows behind it.
LEMMA Rescanned ==
    ASSUME LaneInv, NEW sc \in Scans, NEW k, k = [lane EXCEPT !.scan = sc],
           \/ sc = NoScan
           \/ sc.cursor = lane.scan.cursor /\ sc.provisional = lane.scan.provisional
    PROVE  /\ k \in Lanes /\ Alike(lane, k) /\ Scanned(k, owed)
           /\ CellSound(k, subs, received) /\ Behind(k, recorded)
           /\ k.drive = lane.drive /\ k.retryTimer = lane.retryTimer
           /\ k.cell = lane.cell /\ k.scan = sc
  <1>1. lane \in Lanes /\ Behind(lane, recorded) /\ Scanned(lane, owed)
        /\ CellSound(lane, subs, received)
    BY Zenon DEF LaneInv
  <1>2. /\ k \in Lanes /\ Alike(lane, k) /\ k.drive = lane.drive
        /\ k.retryTimer = lane.retryTimer /\ k.cell = lane.cell /\ k.scan = sc
    BY <1>1, Zenon DEF Lanes, Alike
  <1>3. CellSound(k, subs, received)
    BY <1>1, <1>2, Zenon DEF CellSound
  <1>4. Scanned(k, owed) /\ Behind(k, recorded)
    <2>1. CASE sc = NoScan
      <3>1. \A r \in owed : ~ (r <= 0)
        BY DEF LaneInv, LedgerSound
      <3>2. 0 <= recorded
        BY DEF LaneInv, LedgerSound
      <3> QED
        BY <1>1, <1>2, <2>1, <3>1, <3>2, FreshScan, Zenon DEF Scanned, Behind
    <2>2. CASE sc.cursor = lane.scan.cursor /\ sc.provisional = lane.scan.provisional
      BY <1>1, <1>2, <2>2, Zenon DEF Scanned, Behind, Alike
    <2> QED
      BY <2>1, <2>2, Zenon
  <1> QED
    BY <1>2, <1>3, <1>4, Zenon

LEMMA BackpressuredKeeps ==
    ASSUME LaneInv, DriveBackpressured
    PROVE  Kept
  <1>0. LedgerSound /\ lane \in Lanes
    BY Zenon DEF LaneInv
  <1>1. PICK sc : sc = ScanOf(lane)
    BY Zenon
  <1>2. PICK next :
          /\ next = IF Cardinality(lane.commands) >= MaxOutstanding THEN sc ELSE NoScan
          /\ Move(DriveEnded(RetryArmed([lane EXCEPT !.scan = next])))
    BY <1>1, Zenon DEF DriveBackpressured
  <1>3. /\ sc \in Scans /\ sc.cursor = lane.scan.cursor
        /\ sc.provisional = lane.scan.provisional
    BY <1>0, <1>1, ScanOfLane, Zenon
  <1>4. PICK k : k = [lane EXCEPT !.scan = next]
    BY Zenon
  <1>5. /\ k \in Lanes /\ Alike(lane, k) /\ Scanned(k, owed)
        /\ CellSound(k, subs, received) /\ Behind(k, recorded)
    BY <1>2, <1>3, <1>4, FreshScan, Rescanned, Zenon
  <1>6. Still
    BY Zenon DEF DriveBackpressured, Still
  <1> QED
    BY <1>2, <1>4, <1>5, <1>6, HeldKeeps, Zenon

LEMMA YieldKeeps ==
    ASSUME LaneInv, DriveYield
    PROVE  Kept
  <1>0. lane \in Lanes /\ lane.scan \in Scans
    BY Zenon DEF LaneInv, Lanes
  <1>1. PICK contended \in BOOLEAN :
          Move(DriveEnded(RetryArmed([lane EXCEPT !.scan.through =
             IF contended /\ ~ lane.scan.provisional THEN 0 ELSE @])))
    BY Zenon DEF DriveYield
  <1>2. PICK sc : sc = [lane.scan EXCEPT !.through =
                          IF contended /\ ~ lane.scan.provisional THEN 0 ELSE @]
    BY Zenon
  <1>3. 0 \in 0..MaxRows
    BY LaneAssumption
  <1>4. /\ sc \in Scans /\ sc.cursor = lane.scan.cursor
        /\ sc.provisional = lane.scan.provisional
    BY <1>0, <1>2, <1>3, Zenon DEF Scans
  <1>5. PICK k : k = [lane EXCEPT !.scan = sc]
    BY Zenon
  <1>6. k = [lane EXCEPT !.scan.through =
               IF contended /\ ~ lane.scan.provisional THEN 0 ELSE @]
    BY <1>2, <1>5, Zenon
  <1>7. /\ k \in Lanes /\ Alike(lane, k) /\ Scanned(k, owed)
        /\ CellSound(k, subs, received) /\ Behind(k, recorded)
    BY <1>4, <1>5, Rescanned, Zenon
  <1>8. Still
    BY Zenon DEF DriveYield, Still
  <1> QED
    BY <1>1, <1>6, <1>7, <1>8, HeldKeeps, Zenon

LEMMA EmptyCell ==
    NoCell \in Cells /\ NoCell.row = 0 /\ NoCell.covered = {} /\ ~ NoCell.stale
  BY LaneAssumption DEF NoCell, Cells

\* The cell a delivery begins with.
LEMMA CellForSound ==
    ASSUME LaneInv, NEW row \in 1..MaxRows
    PROVE  /\ CellFor(row) \in Cells /\ CellFor(row).row = row
           /\ ~ CellFor(row).stale =>
                /\ CellFor(row).branches = subs
                /\ \A s \in CellFor(row).covered : row \in received[s]
  <1>1. PICK cell : cell = lane.cell
    BY Zenon
  <1>2. /\ cell \in Cells /\ lane.stale \in BOOLEAN /\ subs \in SUBSET Subscriber
        /\ CellSound(lane, subs, received)
    BY <1>1, Zenon DEF LaneInv, Lanes, OthersTyped
  <1>3. row # 0 /\ row \in 0..MaxRows /\ 0 \in 0..MaxRows
    BY LaneAssumption
  <1>4. CASE cell.row = row /\ ~ cell.stale
    <2>1. PICK todo : todo = cell.todo \cup (cell.branches \ (cell.covered \cup
                                                             cell.provisional))
      BY Zenon
    <2>2. todo \in SUBSET Subscriber
      BY <1>2, <2>1, Zenon DEF Cells
    <2>3. CellFor(row) = [cell EXCEPT !.todo = todo]
      BY <1>1, <1>4, <2>1, Zenon DEF CellFor
    <2>4. PICK m : m = [cell EXCEPT !.todo = todo]
      BY Zenon
    <2>5. /\ m \in Cells /\ m.row = cell.row /\ m.branches = cell.branches
          /\ m.covered = cell.covered
      BY <1>2, <2>2, <2>4, Zenon DEF Cells
    <2>6. cell.branches = subs /\ \A s \in cell.covered : row \in received[s]
      BY <1>1, <1>2, <1>3, <1>4, Zenon DEF CellSound
    <2> QED
      BY <1>4, <2>3, <2>4, <2>5, <2>6, Zenon
  <1>5. CASE ~ (cell.row = row /\ ~ cell.stale)
    <2>1. CellFor(row) = FreshCell(row)
      BY <1>1, <1>5, Zenon DEF CellFor
    <2>2. PICK m : m = [NoCell EXCEPT !.row = row, !.branches = subs, !.todo = subs,
                                      !.stale = lane.stale]
      BY Zenon
    <2>3. FreshCell(row) = m
      BY <2>2, Zenon DEF FreshCell
    <2>4. m \in Cells /\ m.row = row /\ m.branches = subs /\ m.covered = {}
      BY <1>2, <1>3, <2>2, EmptyCell, Zenon DEF Cells
    <2> QED
      BY <2>1, <2>3, <2>4, Zenon
  <1> QED
    BY <1>4, <1>5, Zenon

LEMMA RowKeeps ==
    ASSUME LaneInv, DriveRow
    PROVE  Kept
  <1>0. /\ LedgerSound /\ lane \in Lanes /\ Carried(lane) /\ Watched(lane)
        /\ Scanned(lane, owed) /\ CellSound(lane, subs, received)
        /\ Behind(lane, recorded)
    BY Zenon DEF LaneInv
  <1>1. PICK sc, row : sc = ScanOf(lane) /\ row = NextRow(sc)
    BY Zenon
  <1>2. /\ sc \in Scans /\ sc.cursor = lane.scan.cursor
        /\ sc.provisional = lane.scan.provisional
    BY <1>0, <1>1, ScanOfLane, Zenon
  <1>3. /\ row # 0
        /\ Move(IF row \in lane.pending
                  THEN [lane EXCEPT !.scan = [sc EXCEPT !.cursor = row],
                                    !.visited = TRUE]
                  ELSE [lane EXCEPT !.scan = sc, !.visited = TRUE,
                                    !.cell = CellFor(row), !.drive = "delivering"])
    BY <1>1, Zenon DEF DriveRow
  <1>4. /\ row \in owed /\ sc.cursor < row
        /\ \A r \in owed : r < row => r <= sc.cursor
    BY <1>0, <1>1, <1>2, <1>3, NextRowSound, Zenon
  <1>5. row \in 1..MaxRows /\ row \in 0..MaxRows /\ row <= recorded
    BY <1>0, <1>4, LaneAssumption DEF LedgerSound
  <1>6. /\ Still /\ UNCHANGED <<recorded, owed, through, subs>>
        /\ received' = received /\ received' \in [Subscriber -> SUBSET Row]
    BY Zenon DEF DriveRow, Still, LaneInv, OthersTyped
  <1>7. CASE row \in lane.pending
    <2>1. PICK next : next = [sc EXCEPT !.cursor = row]
      BY Zenon
    <2>2. /\ next \in Scans /\ next.cursor = row
          /\ next.provisional = lane.scan.provisional
      BY <1>2, <1>5, <2>1, Zenon DEF Scans
    <2>3. PICK m : m = [lane EXCEPT !.scan = next, !.visited = TRUE]
      BY Zenon
    <2>4. /\ m \in Lanes /\ Alike(lane, m) /\ m.drive = lane.drive
          /\ m.retryTimer = lane.retryTimer /\ m.cell = lane.cell /\ m.scan = next
      BY <1>0, <2>2, <2>3, Zenon DEF Lanes, Alike
    <2>5. lane.drive = "scanning"
      BY Zenon DEF DriveRow
    <2>6. Scanned(m, owed)
      <3>1. \A r \in owed : r <= row => r = row \/ r < row
        BY <1>0, <1>5 DEF LedgerSound
      <3> QED
        BY <1>0, <1>2, <1>4, <1>7, <2>2, <2>4, <3>1, Zenon DEF Scanned, Alike
    <2>7. CellSound(m, subs, received')
      BY <1>0, <1>6, <2>4, Zenon DEF CellSound
    <2>8. Behind(m, recorded)
      BY <1>0, <1>5, <2>2, <2>4, Zenon DEF Behind
    <2>9. Awake(m, owed, subs) /\ AtRow(m, owed)
      BY <2>4, <2>5 DEF Awake, AtRow
    <2>10. Carried(m) /\ Watched(m)
      BY <1>0, <2>4, Zenon DEF Carried, Watched, Alike
    <2>11. Move(m)
      BY <1>3, <1>7, <2>1, <2>3, Zenon
    <2>12. LaneInv'
      BY <1>6, <2>4, <2>6, <2>7, <2>8, <2>9, <2>10, <2>11, MovedKeeps, Zenon
         DEF LaneSound
    <2> QED
      BY <2>4, <2>11, <2>12, Zenon DEF Kept, Move, Alike
  <1>8. CASE row \notin lane.pending
    <2>1. PICK cell : cell = CellFor(row)
      BY Zenon
    <2>2. /\ cell \in Cells /\ cell.row = row
          /\ ~ cell.stale => /\ cell.branches = subs
                             /\ \A s \in cell.covered : row \in received[s]
      BY <1>5, <2>1, CellForSound, Zenon
    <2>3. PICK m : m = [lane EXCEPT !.scan = sc, !.visited = TRUE, !.cell = cell,
                                    !.drive = "delivering"]
      BY Zenon
    <2>4. /\ m \in Lanes /\ Alike(lane, m) /\ m.drive = "delivering"
          /\ m.retryTimer = lane.retryTimer /\ m.cell = cell /\ m.scan = sc
      BY <1>0, <1>2, <2>2, <2>3, Zenon DEF Lanes, Alike
    <2>5. Scanned(m, owed) /\ Behind(m, recorded)
      BY <1>0, <1>2, <1>5, <2>2, <2>4, Zenon DEF Scanned, Behind, Alike
    <2>6. CellSound(m, subs, received')
      BY <1>6, <2>2, <2>4, Zenon DEF CellSound
    <2>7. Awake(m, owed, subs)
      BY <2>4 DEF Awake
    <2>8. AtRow(m, owed)
      BY <1>3, <1>4, <2>2, <2>4, Zenon DEF AtRow
    <2>9. Carried(m) /\ Watched(m)
      BY <1>0, <2>4, Zenon DEF Carried, Watched, Alike
    <2>10. Move(m)
      BY <1>3, <1>8, <2>1, <2>3, Zenon
    <2>11. LaneInv'
      BY <1>6, <2>4, <2>5, <2>6, <2>7, <2>8, <2>9, <2>10, MovedKeeps, Zenon
         DEF LaneSound
    <2> QED
      BY <2>4, <2>10, <2>11, Zenon DEF Kept, Move, Alike
  <1> QED
    BY <1>7, <1>8, Zenon

LEMMA DrainedKeeps ==
    ASSUME LaneInv, DriveDrained
    PROVE  Kept
  <1>0. /\ LedgerSound /\ lane \in Lanes /\ Carried(lane) /\ Watched(lane)
        /\ Scanned(lane, owed) /\ CellSound(lane, subs, received)
    BY Zenon DEF LaneInv
  <1>1. PICK sc, done : sc = ScanOf(lane) /\ done = [lane EXCEPT !.scan = NoScan]
    BY Zenon
  <1>2. PICK more, unproposed :
          /\ more = (\/ OwedTail > sc.through
                     \/ lane.pending = {} /\ lane.commands = {} /\ owed # {})
          /\ unproposed = (lane.commands \ lane.awaiting # {})
    BY Zenon
  <1>3. /\ NextRow(sc) = 0
        /\ Move(IF sc.provisional THEN DriveEnded(RetryArmed(done))
                ELSE IF more \/ lane.rerun THEN Driven([done EXCEPT !.drive = "idle"])
                ELSE [done EXCEPT !.drive = "idle", !.retryTimer = @ /\ unproposed])
    BY <1>1, <1>2, Zenon DEF DriveDrained
  <1>4. /\ sc \in Scans /\ sc.cursor = lane.scan.cursor
        /\ sc.provisional = lane.scan.provisional
    BY <1>0, <1>1, ScanOfLane, Zenon
  <1>5. /\ done \in Lanes /\ Alike(lane, done) /\ Scanned(done, owed)
        /\ CellSound(done, subs, received) /\ Behind(done, recorded)
        /\ done.retryTimer = lane.retryTimer
    BY <1>1, FreshScan, Rescanned, Zenon
  <1>6. /\ Still /\ UNCHANGED <<recorded, owed, through, subs>>
        /\ received' = received /\ received' \in [Subscriber -> SUBSET Row]
    BY Zenon DEF DriveDrained, Still, LaneInv, OthersTyped
  <1>7. ASSUME NEW m \in Lanes, Alike(lane, m), m.scan = done.scan,
               m.cell = done.cell, m.drive # "delivering", Watched(m),
               Awake(m, owed, subs), Move(m)
        PROVE  Kept
    <2>1. Scanned(m, owed) /\ CellSound(m, subs, received') /\ Behind(m, recorded)
      BY <1>5, <1>6, <1>7, Zenon DEF Scanned, CellSound, Behind, Alike
    <2>2. AtRow(m, owed)
      BY <1>7 DEF AtRow
    <2>3. Carried(m)
      BY <1>0, <1>7, Zenon DEF Carried, Alike
    <2>4. LaneInv'
      BY <1>6, <1>7, <2>1, <2>2, <2>3, MovedKeeps, Zenon DEF LaneSound
    <2> QED
      BY <1>7, <2>4, Zenon DEF Kept, Move, Alike
  <1>8. CASE sc.provisional
    <2>1. Move(DriveEnded(RetryArmed(done)))
      BY <1>3, <1>8, Zenon
    <2> QED
      BY <1>5, <1>6, <2>1, HeldKeeps, Zenon
  <1>9. CASE ~ sc.provisional /\ (more \/ lane.rerun)
    <2>1. PICK k, m : k = [done EXCEPT !.drive = "idle"] /\ m = DrivenFor(k, subs)
      BY Zenon
    <2>2. /\ k \in Lanes /\ Alike(done, k) /\ k.drive = "idle"
          /\ k.retryTimer = done.retryTimer /\ k.cell = done.cell /\ k.scan = done.scan
      BY <1>5, <2>1, Zenon DEF Lanes, Alike
    <2>3. /\ m \in Lanes /\ Alike(k, m) /\ m.retryTimer = k.retryTimer
          /\ m.scan = k.scan /\ m.cell = k.cell
          /\ m.drive = k.drive \/ (k.drive = "idle" /\ m.drive = "scanning")
          /\ subs # {} => m.drive # "idle"
      BY <2>1, <2>2, DrivenLane, Zenon
    <2>4. Alike(lane, m) /\ m.retryTimer = lane.retryTimer
      BY <1>5, <2>2, <2>3, Zenon DEF Alike
    <2>5. Watched(m)
      BY <1>0, <2>4, Zenon DEF Watched, Alike
    <2>6. Awake(m, owed, subs) /\ m.drive # "delivering"
      BY <2>2, <2>3 DEF Awake
    <2>7. Move(m)
      BY <1>3, <1>9, <2>1, Zenon DEF Driven
    <2> QED
      BY <1>7, <2>2, <2>3, <2>4, <2>5, <2>6, <2>7, Zenon
  <1>10. CASE ~ sc.provisional /\ ~ (more \/ lane.rerun)
    <2>1. PICK m : m = [done EXCEPT !.drive = "idle", !.retryTimer = @ /\ unproposed]
      BY Zenon
    <2>2. unproposed \in BOOLEAN
      BY <1>2, Zenon
    <2>3. /\ m \in Lanes /\ Alike(done, m) /\ m.drive = "idle"
          /\ m.retryTimer = (done.retryTimer /\ unproposed)
          /\ m.cell = done.cell /\ m.scan = done.scan
      BY <1>5, <2>1, <2>2, Zenon DEF Lanes, Alike
    <2>4. Alike(lane, m) /\ m.retryTimer = (lane.retryTimer /\ unproposed)
      BY <1>5, <2>3, Zenon DEF Alike
    <2>5. Watched(m)
      BY <1>0, <1>2, <2>4, Zenon DEF Watched, Alike
    <2>6. owed \subseteq lane.pending
      <3>1. \A r \in owed : r <= sc.cursor \/ r > sc.through
        BY <1>0, <1>3, <1>4, NextRowSound, Zenon
      <3>2. ~ (OwedTail > sc.through)
        BY <1>2, <1>10, Zenon
      <3>3. PICK tail, last : tail = OwedTail /\ last = sc.through
        BY Zenon
      <3>4. tail \in Nat /\ last \in Nat /\ ~ (tail > last)
        BY <1>0, <1>4, <3>2, <3>3, TailIsLast DEF Scans, LedgerSound
      <3>5. \A r \in owed : r \in Nat /\ r <= tail
        BY <1>0, <3>3, TailIsLast DEF LedgerSound
      <3>6. \A r \in owed : ~ (r > last)
        BY <3>4, <3>5
      <3> QED
        BY <1>0, <1>4, <1>10, <3>1, <3>3, <3>6, Zenon DEF Scanned
    <2>7. Awake(m, owed, subs) /\ m.drive # "delivering"
      BY <2>3, <2>4, <2>6 DEF Awake, Alike
    <2>8. Move(m)
      BY <1>3, <1>10, <2>1, Zenon
    <2> QED
      BY <1>7, <2>3, <2>4, <2>5, <2>7, <2>8, Zenon
  <1> QED
    BY <1>8, <1>9, <1>10, Zenon

-----------------------------------------------------------------------------
(* The steps of a delivery.                                                *)

LEMMA CellMoves ==
    ASSUME LaneInv, lane.drive = "delivering", NEW cell \in Cells,
           cell.row = lane.cell.row, Move([lane EXCEPT !.cell = cell]),
           received' \in [Subscriber -> SUBSET Row],
           ~ cell.stale => /\ cell.branches = subs
                           /\ \A s \in cell.covered : cell.row \in received'[s],
           UNCHANGED <<recorded, owed, through, subs>>
    PROVE  Kept
  <1>0. /\ lane \in Lanes /\ Carried(lane) /\ Watched(lane) /\ Scanned(lane, owed)
        /\ AtRow(lane, owed) /\ Behind(lane, recorded)
    BY Zenon DEF LaneInv
  <1>1. PICK m : m = [lane EXCEPT !.cell = cell]
    BY Zenon
  <1>2. /\ m \in Lanes /\ Alike(lane, m) /\ m.drive = "delivering"
        /\ m.retryTimer = lane.retryTimer /\ m.cell = cell /\ m.scan = lane.scan
    BY <1>0, <1>1, Zenon DEF Lanes, Alike
  <1>3. Carried(m) /\ Watched(m) /\ Scanned(m, owed) /\ Behind(m, recorded)
    BY <1>0, <1>2, Zenon DEF Carried, Watched, Scanned, Behind, Alike
  <1>4. AtRow(m, owed)
    BY <1>0, <1>2, Zenon DEF AtRow
  <1>5. CellSound(m, subs, received')
    BY <1>2, Zenon DEF CellSound
  <1>6. Awake(m, owed, subs)
    BY <1>2 DEF Awake
  <1>7. LaneInv'
    BY <1>1, <1>2, <1>3, <1>4, <1>5, <1>6, MovedKeeps, Zenon DEF LaneSound
  <1> QED
    BY <1>1, <1>2, <1>7, Zenon DEF Kept, Move, Alike

LEMMA DeliverToKeeps ==
    ASSUME LaneInv, NEW s \in Subscriber, DeliverTo(s)
    PROVE  Kept
  <1>0. /\ lane \in Lanes /\ lane.cell \in Cells /\ AtRow(lane, owed)
        /\ CellSound(lane, subs, received)
        /\ received \in [Subscriber -> SUBSET Row]
    BY Zenon DEF LaneInv, Lanes, OthersTyped
  <1>1. /\ lane.drive = "delivering" /\ ~ lane.cell.stale
        /\ UNCHANGED <<recorded, owed, through, subs>>
    BY Zenon DEF DeliverTo
  <1>2. PICK old : old = lane.cell
    BY Zenon
  <1>3. old \in Cells /\ old.row # 0 /\ ~ old.stale
    BY <1>0, <1>1, <1>2, Zenon DEF AtRow
  <1>4. old.row \in Row
    BY <1>3, LaneAssumption DEF Cells, Row
  <1>5. old.branches = subs /\ \A u \in old.covered : old.row \in received[u]
    BY <1>0, <1>2, <1>3, Zenon DEF CellSound
  <1>6. CASE /\ received' = [received EXCEPT ![s] = @ \cup {lane.cell.row}]
             /\ Move([lane EXCEPT !.cell = [lane.cell EXCEPT !.covered = @ \cup {s},
                                                             !.todo = @ \ {s}]])
    <2>1. PICK cell : cell = [old EXCEPT !.covered = @ \cup {s}, !.todo = @ \ {s}]
      BY Zenon
    <2>2. old.covered \cup {s} \in SUBSET Subscriber /\ old.todo \ {s} \in SUBSET Subscriber
      BY <1>3, Zenon DEF Cells
    <2>3. /\ cell \in Cells /\ cell.row = old.row /\ cell.branches = old.branches
          /\ cell.covered = old.covered \cup {s}
      BY <1>3, <2>1, <2>2, Zenon DEF Cells
    <2>4. [lane EXCEPT !.cell = cell] =
            [lane EXCEPT !.cell = [lane.cell EXCEPT !.covered = @ \cup {s},
                                                    !.todo = @ \ {s}]]
      BY <1>2, <2>1, Zenon
    <2>5. received' = [received EXCEPT ![s] = received[s] \cup {old.row}]
      BY <1>2, <1>6, Zenon
    <2>6. received[s] \cup {old.row} \in SUBSET Row
      BY <1>0, <1>4, Zenon
    <2>7. received' \in [Subscriber -> SUBSET Row]
      BY <1>0, <2>5, <2>6, Zenon
    <2>8. \A u \in cell.covered : cell.row \in received'[u]
      <3>1. \A u \in Subscriber :
              received'[u] = IF u = s THEN received[u] \cup {old.row} ELSE received[u]
        BY <1>0, <2>5, Zenon
      <3>2. old.covered \subseteq Subscriber
        BY <1>3, Zenon DEF Cells
      <3> QED
        BY <1>5, <2>3, <3>1, <3>2, Zenon
    <2>9. Move([lane EXCEPT !.cell = cell])
      BY <1>6, <2>4, Zenon
    <2> QED
      BY <1>1, <1>2, <1>5, <2>3, <2>7, <2>8, <2>9, CellMoves, Zenon
  <1>7. ASSUME NEW cell \in Cells, cell.row = old.row, cell.branches = old.branches,
               cell.covered = old.covered, Move([lane EXCEPT !.cell = cell]),
               received' = received
        PROVE  Kept
    <2>1. /\ received' \in [Subscriber -> SUBSET Row] /\ cell.row = lane.cell.row
          /\ cell.branches = subs /\ \A u \in cell.covered : cell.row \in received'[u]
      BY <1>0, <1>2, <1>5, <1>7, Zenon
    <2> QED
      BY <1>1, <1>7, <2>1, CellMoves, Zenon
  <1>8. CASE /\ received' = received
             /\ Move([lane EXCEPT !.cell = [lane.cell EXCEPT !.provisional = @ \cup {s},
                                                             !.todo = @ \ {s}]])
    <2>1. PICK cell : cell = [old EXCEPT !.provisional = @ \cup {s}, !.todo = @ \ {s}]
      BY Zenon
    <2>2. /\ old.provisional \cup {s} \in SUBSET Subscriber
          /\ old.todo \ {s} \in SUBSET Subscriber
      BY <1>3, Zenon DEF Cells
    <2>3. /\ cell \in Cells /\ cell.row = old.row /\ cell.branches = old.branches
          /\ cell.covered = old.covered
      BY <1>3, <2>1, <2>2, Zenon DEF Cells
    <2>4. [lane EXCEPT !.cell = cell] =
            [lane EXCEPT !.cell = [lane.cell EXCEPT !.provisional = @ \cup {s},
                                                    !.todo = @ \ {s}]]
      BY <1>2, <2>1, Zenon
    <2>5. Move([lane EXCEPT !.cell = cell])
      BY <1>8, <2>4, Zenon
    <2> QED
      BY <1>7, <1>8, <2>3, <2>5, Zenon
  <1>9. CASE received' = received /\ Move([lane EXCEPT !.cell.todo = @ \ {s}])
    <2>1. PICK cell : cell = [old EXCEPT !.todo = @ \ {s}]
      BY Zenon
    <2>2. old.todo \ {s} \in SUBSET Subscriber
      BY <1>3, Zenon DEF Cells
    <2>3. /\ cell \in Cells /\ cell.row = old.row /\ cell.branches = old.branches
          /\ cell.covered = old.covered
      BY <1>3, <2>1, <2>2, Zenon DEF Cells
    <2>4. [lane EXCEPT !.cell = cell] = [lane EXCEPT !.cell.todo = @ \ {s}]
      BY <1>0, <1>2, <2>1, Zenon DEF Lanes
    <2>5. Move([lane EXCEPT !.cell = cell])
      BY <1>9, <2>4, Zenon
    <2> QED
      BY <1>7, <1>9, <2>3, <2>5, Zenon
  <1> QED
    BY <1>6, <1>8, <1>9, Zenon DEF DeliverTo

LEMMA StaleKeeps ==
    ASSUME LaneInv, DeliveryStale
    PROVE  Kept
  <1>0. lane \in Lanes /\ Scanned(lane, owed) /\ Behind(lane, recorded)
    BY Zenon DEF LaneInv
  <1>1. PICK k : k = [lane EXCEPT !.cell = NoCell]
    BY Zenon
  <1>2. k \in Lanes /\ Alike(lane, k) /\ k.cell = NoCell /\ k.scan = lane.scan
    BY <1>0, <1>1, EmptyCell, Zenon DEF Lanes, Alike
  <1>3. 0 <= recorded
    BY DEF LaneInv, LedgerSound
  <1>4. Scanned(k, owed) /\ CellSound(k, subs, received) /\ Behind(k, recorded)
    BY <1>0, <1>2, <1>3, EmptyCell, Zenon DEF Scanned, CellSound, Behind, Alike
  <1>5. Move(DriveEnded(RetryArmed(k))) /\ Still
    BY <1>1, Zenon DEF DeliveryStale, Still
  <1> QED
    BY <1>2, <1>4, <1>5, HeldKeeps, Zenon

LEMMA HeldRowKeeps ==
    ASSUME LaneInv, DeliveryHeld
    PROVE  Kept
  <1>1. PICK k : k = lane
    BY Zenon
  <1>2. /\ k \in Lanes /\ Alike(lane, k) /\ Scanned(k, owed)
        /\ CellSound(k, subs, received) /\ Behind(k, recorded)
    BY <1>1, Zenon DEF LaneInv, Alike
  <1>3. Move(DriveEnded(RetryArmed(k))) /\ Still
    BY <1>1, Zenon DEF DeliveryHeld, Still
  <1> QED
    BY <1>2, <1>3, HeldKeeps, Zenon

\* The invariant is kept, and every subscriber has the rows acknowledged.
Received ==
    LaneInv' /\ \A r \in lane'.pending \ lane.pending : \A s \in subs : r \in received[s]

\* The only step that acknowledges a row.
LEMMA DoneKeeps ==
    ASSUME LaneInv, DeliveryDone
    PROVE  Received
  <1>0. /\ LedgerSound /\ lane \in Lanes /\ lane.cell \in Cells /\ lane.scan \in Scans
        /\ Carried(lane) /\ Watched(lane) /\ Scanned(lane, owed)
        /\ CellSound(lane, subs, received) /\ AtRow(lane, owed)
        /\ Behind(lane, recorded)
    BY Zenon DEF LaneInv, Lanes
  <1>1. PICK cell, row, sc : /\ cell = lane.cell /\ row = cell.row
                             /\ sc = [lane.scan EXCEPT !.cursor = row]
    BY Zenon
  <1>2. PICK next : next = [lane EXCEPT !.cell = NoCell, !.drive = "scanning",
                                        !.scan = sc]
    BY Zenon
  <1>3. /\ lane.drive = "delivering" /\ ~ cell.stale
        /\ cell.branches = cell.covered \cup cell.provisional
        /\ IF cell.provisional # {} THEN Move([next EXCEPT !.scan.provisional = TRUE])
           ELSE \E bytesFull \in BOOLEAN : Move(Acknowledged(next, row, bytesFull))
    BY <1>1, <1>2, Zenon DEF DeliveryDone
  <1>4. row # 0 /\ \A r \in owed : r < row => r <= lane.scan.cursor
    BY <1>0, <1>1, <1>3, Zenon DEF AtRow
  <1>5. row \in 0..MaxRows
    BY <1>0, <1>1, Zenon DEF Cells
  <1>6. row \in Row
    BY <1>4, <1>5, LaneAssumption DEF Row
  <1>7. /\ sc \in Scans /\ sc.cursor = row
        /\ sc.provisional = lane.scan.provisional
    BY <1>0, <1>1, <1>5, Zenon DEF Scans
  <1>8. /\ next \in Lanes /\ Alike(lane, next) /\ next.drive = "scanning"
        /\ next.cell = NoCell /\ next.scan = sc
        /\ next.retryTimer = lane.retryTimer
    BY <1>0, <1>2, <1>7, EmptyCell, Zenon DEF Lanes, Alike
  <1>9. Carried(next) /\ Watched(next)
    BY <1>0, <1>8, Zenon DEF Carried, Watched, Alike
  <1>10. /\ UNCHANGED <<recorded, owed, through, subs>>
         /\ received' \in [Subscriber -> SUBSET Row]
    BY Zenon DEF DeliveryDone, LaneInv, OthersTyped
  <1>11. ASSUME NEW m \in Lanes, m.cell = NoCell, m.scan.cursor = row,
                m.drive = "scanning", Carried(m), Watched(m), Scanned(m, owed), Move(m)
         PROVE  LaneInv'
    <2>1. CellSound(m, subs, received')
      BY <1>11, EmptyCell, Zenon DEF CellSound
    <2>2. Behind(m, recorded)
      <3>1. row <= recorded
        BY <1>0, <1>1, Zenon DEF Behind
      <3>2. 0 <= recorded
        BY <1>0 DEF LedgerSound
      <3> QED
        BY <1>11, <3>1, <3>2, EmptyCell, Zenon DEF Behind
    <2>3. Awake(m, owed, subs) /\ AtRow(m, owed)
      BY <1>11 DEF Awake, AtRow
    <2> QED
      BY <1>10, <1>11, <2>1, <2>2, <2>3, MovedKeeps, Zenon DEF LaneSound
  <1>12. CASE cell.provisional # {}
    <2>1. PICK last : last = [sc EXCEPT !.provisional = TRUE]
      BY Zenon
    <2>2. last \in Scans /\ last.cursor = row /\ last.provisional
      BY <1>7, <2>1, Zenon DEF Scans
    <2>3. PICK m : m = [next EXCEPT !.scan = last]
      BY Zenon
    <2>4. m = [next EXCEPT !.scan.provisional = TRUE]
      BY <1>8, <2>1, <2>3, Zenon
    <2>5. /\ m \in Lanes /\ Alike(next, m) /\ m.drive = "scanning"
          /\ m.cell = NoCell /\ m.scan = last /\ m.retryTimer = next.retryTimer
      BY <1>8, <2>2, <2>3, Zenon DEF Lanes, Alike
    <2>6. Carried(m) /\ Watched(m)
      BY <1>9, <2>5, Zenon DEF Carried, Watched, Alike
    <2>7. Scanned(m, owed)
      BY <2>2, <2>5, Zenon DEF Scanned
    <2>8. Move(m)
      BY <1>3, <1>12, <2>4, Zenon
    <2>9. LaneInv'
      BY <1>11, <2>2, <2>5, <2>6, <2>7, <2>8, Zenon
    <2>10. lane'.pending = lane.pending
      BY <1>8, <2>5, <2>8, Zenon DEF Move, Alike
    <2> QED
      BY <2>9, <2>10, Zenon DEF Received
  <1>13. CASE cell.provisional = {}
    <2>1. PICK bytesFull \in BOOLEAN : Move(Acknowledged(next, row, bytesFull))
      BY <1>3, <1>13, Zenon
    <2>2. PICK m : m = Acknowledged(next, row, bytesFull)
      BY Zenon
    <2>3. /\ m \in Lanes /\ Carried(m) /\ Watched(m)
          /\ m.pending \subseteq next.pending \cup {row}
          /\ (next.pending \cup {row}) \cap owed \subseteq m.pending
          /\ m.scan = next.scan /\ m.cell = next.cell /\ m.drive = "scanning"
      BY <1>0, <1>6, <1>8, <1>9, <2>2, AcknowledgedFollows, Zenon
    <2>4. Scanned(m, owed)
      <3>1. \A r \in owed : r <= row => r = row \/ r < row
        BY <1>0, <1>5 DEF LedgerSound
      <3>2. m.scan = sc /\ next.pending = lane.pending
        BY <1>8, <2>3, Zenon DEF Alike
      <3>3. ASSUME ~ lane.scan.provisional, NEW r \in owed, r <= row
            PROVE  r \in m.pending
        <4>1. CASE r = row
          BY <2>3, <3>3, <4>1, Zenon
        <4>2. CASE r < row
          BY <1>0, <1>4, <2>3, <3>2, <3>3, <4>2, Zenon DEF Scanned
        <4> QED
          BY <3>1, <3>3, <4>1, <4>2, Zenon
      <3> QED
        BY <1>7, <3>2, <3>3, Zenon DEF Scanned
    <2>5. Move(m)
      BY <2>1, <2>2, Zenon
    <2>6. LaneInv'
      BY <1>7, <1>8, <1>11, <2>3, <2>4, <2>5, Zenon
    <2>7. \A s \in subs : row \in received[s]
      BY <1>0, <1>1, <1>3, <1>4, <1>13, Zenon DEF CellSound
    <2>8. lane'.pending \subseteq lane.pending \cup {row}
      BY <1>8, <2>3, <2>5, Zenon DEF Move, Alike
    <2> QED
      BY <2>6, <2>7, <2>8, Zenon DEF Received
  <1> QED
    BY <1>12, <1>13, Zenon

-----------------------------------------------------------------------------
(* The timers.                                                             *)

LEMMA DeadlineKeeps ==
    ASSUME LaneInv, FlushDeadline
    PROVE  Kept
  <1>1. PICK l, m : l = lane /\ m = Flushed(l)
    BY Zenon
  <1>2. LedgerSound /\ l \in Lanes /\ Watched(l)
    BY <1>1, Zenon DEF LaneInv
  <1>3. LaneFollows(l, m, owed) /\ Watched(m)
    BY <1>1, <1>2, FlushedFollows, Zenon
  <1>4. Move(m) /\ Still
    BY <1>1, Zenon DEF FlushDeadline, Still
  <1> QED
    BY <1>1, <1>3, <1>4, FollowedKeeps, Zenon

\* The commands of l have a wake-up, the run t among them.
WatchedWith(l, t) ==
    \A c \in l.commands :
       \/ c \in l.awaiting \/ l.retryTimer \/ \E u \in l.tasks : c \in u.todo
       \/ c \in t.todo

LEMMA RunKeeps ==
    ASSUME LaneInv, NEW l \in Lanes, NEW t \in Tasks, RetryRun(l, t), Still,
           l.pending = lane.pending, l.batch = lane.batch,
           l.commands = lane.commands, l.awaiting = lane.awaiting,
           l.scan = lane.scan, l.cell = lane.cell, l.drive = lane.drive,
           WatchedWith(l, t)
    PROVE  Kept
  <1>0. LedgerSound /\ received \in [Subscriber -> SUBSET Row]
    BY Zenon DEF LaneInv, OthersTyped
  <1>1. /\ Carried(l) /\ Scanned(l, owed) /\ CellSound(l, subs, received)
        /\ AtRow(l, owed) /\ Behind(l, recorded)
    BY Zenon DEF LaneInv, Carried, Scanned, CellSound, AtRow, Behind
  <1>2. ASSUME NEW n, LaneFollows(l, n, owed), NEW m \in Lanes, m.pending = n.pending,
               m.batch = n.batch, m.commands = n.commands, m.scan = n.scan,
               m.cell = n.cell, m.drive = n.drive, Watched(m),
               Awake(m, owed, subs), Move(m)
        PROVE  Kept
    <2>1. /\ Scanned(n, owed) /\ CellSound(n, subs, received) /\ AtRow(n, owed)
          /\ Behind(n, recorded)
      BY <1>1, <1>2, FollowsKeeps, Zenon
    <2>2. Carried(n) /\ n.pending \subseteq l.pending
      BY <1>1, <1>2, Zenon DEF LaneFollows
    <2>3. /\ Scanned(m, owed) /\ CellSound(m, subs, received) /\ AtRow(m, owed)
          /\ Behind(m, recorded) /\ Carried(m)
      BY <1>2, <2>1, <2>2, Zenon DEF Scanned, CellSound, AtRow, Behind, Carried
    <2>4. /\ UNCHANGED <<recorded, owed, through, subs>> /\ received' = received
          /\ received' \in [Subscriber -> SUBSET Row]
      BY <1>0, Zenon DEF Still
    <2>5. LaneInv'
      BY <1>2, <2>3, <2>4, MovedKeeps, Zenon DEF LaneSound
    <2> QED
      BY <1>2, <2>2, <2>5, Zenon DEF Kept, Move
  <1>3. PICK due : due = t.todo \ l.awaiting
    BY Zenon
  <1>4. t.todo \in SUBSET Command /\ l.batch \in SUBSET Row
    BY Zenon DEF Tasks, Lanes
  <1>5. ASSUME NEW n, LaneFollows(l, n, owed), NEW u \in Tasks, NEW gone,
               Renewed(l, n, gone), t.todo \ (l.awaiting \cup gone) \subseteq u.todo,
               Move([n EXCEPT !.tasks = @ \cup {u}])
        PROVE  Kept
    <2>1. PICK m : m = [n EXCEPT !.tasks = @ \cup {u}]
      BY Zenon
    <2>2. n \in Lanes /\ n.tasks = l.tasks /\ (l.retryTimer => n.retryTimer)
      BY <1>5, Zenon DEF LaneFollows
    <2>3. n.tasks \cup {u} \in SUBSET Tasks
      BY <2>2, Zenon DEF Lanes
    <2>4. /\ m \in Lanes /\ m.pending = n.pending /\ m.batch = n.batch
          /\ m.commands = n.commands /\ m.scan = n.scan /\ m.cell = n.cell
          /\ m.drive = n.drive /\ m.awaiting = n.awaiting
          /\ m.retryTimer = n.retryTimer /\ m.tasks = n.tasks \cup {u}
      BY <2>1, <2>2, <2>3, Zenon DEF Lanes
    <2>5. ASSUME NEW d \in m.commands
          PROVE  d \in m.awaiting \/ m.retryTimer \/ \E v \in m.tasks : d \in v.todo
      <3>1. d \in l.commands \ gone \/ d \in m.awaiting \/ m.retryTimer
        BY <1>5, <2>4, <2>5, Zenon DEF Renewed
      <3>2. ASSUME d \in l.commands \ gone
            PROVE  d \in m.awaiting \/ m.retryTimer \/ \E v \in m.tasks : d \in v.todo
        <4>1. l.awaiting \subseteq m.awaiting /\ (l.retryTimer => m.retryTimer)
          BY <1>5, <2>2, <2>4, Zenon DEF Renewed
        <4>2. l.tasks \subseteq m.tasks /\ u \in m.tasks
          BY <2>2, <2>4, Zenon
        <4>3. \/ d \in l.awaiting \/ l.retryTimer \/ \E v \in l.tasks : d \in v.todo
              \/ d \in t.todo
          BY <3>2, Zenon DEF WatchedWith
        <4> QED
          BY <1>5, <3>2, <4>1, <4>2, <4>3, Zenon
      <3> QED
        BY <3>1, <3>2, Zenon
    <2>6. Watched(m)
      BY <2>5, Zenon DEF Watched
    <2>7. Awake(m, owed, subs)
      BY <2>4, Zenon DEF Awake
    <2>8. Move(m)
      BY <1>5, <2>1, Zenon
    <2> QED
      BY <1>2, <1>5, <2>4, <2>6, <2>7, <2>8, Zenon
  <1>6. ASSUME NEW c \in due, NEW passed \in SUBSET (t.todo \ due),
               Move([Proposed(l, c) EXCEPT !.tasks =
                       @ \cup {[t EXCEPT !.todo = @ \ (passed \cup {c}),
                                         !.waiting = c]}])
        PROVE  Kept
    <2>1. PICK n, u : n = Proposed(l, c) /\ u = [t EXCEPT !.todo = @ \ (passed \cup {c}),
                                                          !.waiting = c]
      BY Zenon
    <2>2. c \in Command /\ c \in SUBSET Row
      BY <1>3, <1>4, <1>6, Zenon DEF Command
    <2>3. t.todo \ (passed \cup {c}) \in SUBSET Command
      BY <1>4, Zenon
    <2>4. u \in Tasks /\ u.todo = t.todo \ (passed \cup {c})
      BY <2>1, <2>2, <2>3, Zenon DEF Tasks
    <2>5. t.todo \ (l.awaiting \cup {c}) \subseteq u.todo
      BY <1>3, <1>6, <2>4, Zenon
    <2>6. LaneFollows(l, n, owed) /\ Renewed(l, n, {c})
      BY <1>0, <2>1, <2>2, ProposedFollows, Zenon
    <2>7. Move([n EXCEPT !.tasks = @ \cup {u}])
      BY <1>6, <2>1, Zenon
    <2> QED
      BY <1>5, <2>4, <2>5, <2>6, <2>7, Zenon
  <1>7. ASSUME due = {}, Move([Flushed(l) EXCEPT !.tasks =
                                 @ \cup {[t EXCEPT !.todo = {}, !.flushed = TRUE,
                                                   !.waiting = l.batch]}])
        PROVE  Kept
    <2>1. PICK n, u : n = Flushed(l) /\ u = [t EXCEPT !.todo = {}, !.flushed = TRUE,
                                                      !.waiting = l.batch]
      BY Zenon
    <2>2. u \in Tasks /\ u.todo = {}
      BY <1>4, <2>1, Zenon DEF Tasks
    <2>3. t.todo \ (l.awaiting \cup {}) \subseteq u.todo
      BY <1>3, <1>7, Zenon
    <2>4. LaneFollows(l, n, owed) /\ Renewed(l, n, {})
      BY <1>0, <2>1, FlushedFollows, Zenon
    <2>5. Move([n EXCEPT !.tasks = @ \cup {u}])
      BY <1>7, <2>1, Zenon
    <2> QED
      BY <1>5, <2>2, <2>3, <2>4, <2>5, Zenon
  <1>8. ASSUME due = {}, Move(Driven(l))
        PROVE  Kept
    <2>1. PICK m : m = DrivenFor(l, subs)
      BY Zenon
    <2>2. /\ m \in Lanes /\ Alike(l, m) /\ m.retryTimer = l.retryTimer
          /\ m.scan = l.scan /\ m.cell = l.cell
          /\ m.drive = l.drive \/ (l.drive = "idle" /\ m.drive = "scanning")
          /\ subs # {} => m.drive # "idle"
      BY <2>1, DrivenLane, Zenon
    <2>3. LaneFollows(l, m, owed)
      BY <2>2, AlikeFollows, Zenon
    <2>4. Watched(m)
      BY <1>3, <1>8, <2>2, Zenon DEF WatchedWith, Watched, Alike
    <2>5. Awake(m, owed, subs)
      BY <2>2, Zenon DEF Awake
    <2>6. Move(m)
      BY <1>8, <2>1, Zenon DEF Driven
    <2> QED
      BY <1>2, <2>2, <2>3, <2>4, <2>5, <2>6, Zenon
  <1> QED
    BY <1>3, <1>6, <1>7, <1>8, Zenon DEF RetryRun

LEMMA RetryDueKeeps ==
    ASSUME LaneInv, RetryDue
    PROVE  Kept
  <1>0. lane \in Lanes /\ {} \in SUBSET Row
    BY Zenon DEF LaneInv
  <1>1. PICK l, t : /\ l = [lane EXCEPT !.retryTimer = FALSE]
                    /\ t = [todo |-> lane.commands, waiting |-> {}, flushed |-> FALSE]
    BY Zenon
  <1>2. /\ l \in Lanes /\ l.pending = lane.pending /\ l.batch = lane.batch
        /\ l.commands = lane.commands /\ l.awaiting = lane.awaiting
        /\ l.scan = lane.scan /\ l.cell = lane.cell /\ l.drive = lane.drive
    BY <1>0, <1>1, Zenon DEF Lanes
  <1>3. t \in Tasks /\ t.todo = lane.commands
    BY <1>0, <1>1 DEF Tasks, Lanes
  <1>4. WatchedWith(l, t)
    BY <1>2, <1>3, Zenon DEF WatchedWith
  <1>5. RetryRun(l, t) /\ Still
    BY <1>1, Zenon DEF RetryDue, Still
  <1> QED
    BY <1>2, <1>3, <1>4, <1>5, RunKeeps, Zenon

LEMMA RetryStepKeeps ==
    ASSUME LaneInv, NEW t \in lane.tasks, RetryStep(t)
    PROVE  Kept
  <1>0. lane \in Lanes /\ t \in Tasks /\ lane.tasks \ {t} \in SUBSET Tasks
    BY Zenon DEF LaneInv, Lanes
  <1>1. PICK l : l = [lane EXCEPT !.tasks = @ \ {t}]
    BY Zenon
  <1>2. /\ l \in Lanes /\ l.pending = lane.pending /\ l.batch = lane.batch
        /\ l.commands = lane.commands /\ l.awaiting = lane.awaiting
        /\ l.scan = lane.scan /\ l.cell = lane.cell /\ l.drive = lane.drive
        /\ l.tasks = lane.tasks \ {t} /\ l.retryTimer = lane.retryTimer
    BY <1>0, <1>1, Zenon DEF Lanes
  <1>3. WatchedWith(l, t)
    BY <1>2, Zenon DEF WatchedWith, Watched, LaneInv
  <1>4. RetryRun(l, t) /\ Still
    BY <1>1, Zenon DEF RetryStep, Still
  <1> QED
    BY <1>0, <1>2, <1>3, <1>4, RunKeeps, Zenon

-----------------------------------------------------------------------------
(* The log.                                                                *)

\* LaneInv, for a lane m, the owed rows O of 1..n, subscribers S who have R.
LaneStands(m, O, n, S, R) ==
    /\ m \in Lanes /\ Behind(m, n) /\ Carried(m) /\ Watched(m) /\ Scanned(m, O)
    /\ Awake(m, O, S) /\ CellSound(m, S, R) /\ AtRow(m, O)

LEMMA StepKeeps ==
    ASSUME LaneStands(lane', owed', recorded', subs', received'),
           LedgerSound', OthersTyped'
    PROVE  LaneInv'
  BY Zenon DEF LaneStands, LaneInv, Carried, Watched, Scanned, Awake, CellSound,
               AtRow, Behind

\* A step that settles rows, or none, and may start a drive.
LEMMA FollowedStep ==
    ASSUME LaneInv, NEW left \in SUBSET owed, LaneFollows(lane, lane', left),
           Watched(lane'), owed' = left, LedgerSound', floating' \in SUBSET Command,
           UNCHANGED <<recorded, subs, received>>
    PROVE  Kept
  <1>1. /\ Carried(lane) /\ Scanned(lane, owed) /\ Awake(lane, owed, subs)
        /\ CellSound(lane, subs, received) /\ AtRow(lane, owed)
        /\ Behind(lane, recorded) /\ OthersTyped
    BY Zenon DEF LaneInv
  <1>2. PICK l, m : l = lane /\ m = lane'
    BY Zenon
  <1>3. Scanned(l, left) /\ Awake(l, left, subs) /\ AtRow(l, left)
    BY <1>1, <1>2, Zenon DEF Scanned, Awake, AtRow
  <1>4. /\ Scanned(m, left) /\ Awake(m, left, subs) /\ CellSound(m, subs, received)
        /\ AtRow(m, left) /\ Behind(m, recorded)
    BY <1>1, <1>2, <1>3, FollowsKeeps, Zenon
  <1>5. m \in Lanes /\ Carried(m) /\ m.pending \subseteq lane.pending
    BY <1>1, <1>2, Zenon DEF LaneFollows
  <1>6. LaneStands(lane', owed', recorded', subs', received')
    BY <1>2, <1>4, <1>5, Zenon DEF LaneStands
  <1>7. OthersTyped'
    BY <1>1, Zenon DEF OthersTyped
  <1>8. LaneInv'
    BY <1>6, <1>7, StepKeeps, Zenon
  <1> QED
    BY <1>2, <1>5, <1>8, Zenon DEF Kept

\* The answer to c is no longer awaited.
LEMMA AnsweredLane ==
    ASSUME NEW l \in Lanes, NEW c, NEW k, k = [l EXCEPT !.awaiting = @ \ {c}]
    PROVE  /\ k \in Lanes /\ k.commands = l.commands /\ k.awaiting = l.awaiting \ {c}
           /\ k.tasks = l.tasks /\ k.retryTimer = l.retryTimer
           /\ \A rows : LaneFollows(l, k, rows)
           /\ Watched(l) => WatchedBut(k, c)
  <1>1. l.awaiting \ {c} \in SUBSET Command
    BY Zenon DEF Lanes
  <1>2. /\ k \in Lanes /\ k.pending = l.pending /\ k.batch = l.batch
        /\ k.commands = l.commands /\ k.awaiting = l.awaiting \ {c}
        /\ k.tasks = l.tasks /\ k.retryTimer = l.retryTimer /\ k.drive = l.drive
        /\ k.scan = l.scan /\ k.cell = l.cell
    BY <1>1, Zenon DEF Lanes
  <1>3. \A rows : LaneFollows(l, k, rows)
    BY <1>2, Zenon DEF LaneFollows, Carried
  <1>4. Watched(l) => WatchedBut(k, c)
    BY <1>2, Zenon DEF Watched, WatchedBut
  <1> QED
    BY <1>2, <1>3, <1>4, Zenon

LEMMA RefusedKeeps ==
    ASSUME LaneInv, NEW c \in floating, CommitRefused(c)
    PROVE  Kept
  <1>0. /\ lane \in Lanes /\ LedgerSound /\ Watched(lane) /\ c \in Command
        /\ floating \in SUBSET Command
    BY Zenon DEF LaneInv, OthersTyped
  <1>1. /\ UNCHANGED <<recorded, owed, through, subs, received>>
        /\ floating' \in SUBSET Command
    BY <1>0, Zenon DEF CommitRefused
  <1>2. LedgerSound' /\ owed \in SUBSET owed
    BY <1>0, <1>1, Zenon DEF LedgerSound
  <1>3. PICK l, m : l = lane /\ m = lane'
    BY Zenon
  <1>4. LaneFollows(l, m, owed) /\ Watched(m)
    <2>1. CASE c \in lane.awaiting
      <3>1. PICK k : k = [l EXCEPT !.awaiting = @ \ {c}]
        BY Zenon
      <3>2. k \in Lanes /\ LaneFollows(l, k, owed) /\ WatchedBut(k, c)
        BY <1>0, <1>3, <3>1, AnsweredLane, Zenon
      <3>3. m = Reconciled(k, c)
        BY <1>3, <2>1, <3>1, Zenon DEF CommitRefused
      <3>4. LaneFollows(k, m, owed) /\ (WatchedBut(k, c) => Watched(m))
        BY <1>0, <3>2, <3>3, ReconciledFollows, Zenon
      <3> QED
        BY <3>2, <3>4, FollowsAgain, Zenon
    <2>2. CASE c \notin lane.awaiting
      <3>1. m = l
        BY <1>3, <2>2, Zenon DEF CommitRefused
      <3> QED
        BY <1>0, <1>3, <3>1, Zenon DEF LaneFollows
    <2> QED
      BY <2>1, <2>2, Zenon
  <1> QED
    BY <1>1, <1>2, <1>3, <1>4, FollowedStep, Zenon

LEMMA CommitKeepsLane ==
    ASSUME LaneInv, NEW c \in floating, Commit(c)
    PROVE  Kept
  <1>0. /\ lane \in Lanes /\ LedgerSound /\ Watched(lane)
        /\ floating \in SUBSET Command
    BY Zenon DEF LaneInv, OthersTyped
  <1>1. PICK l, m, left, reach : /\ l = lane /\ m = lane'
                                 /\ left = owed \ c /\ reach = Reach(left)
    BY Zenon
  <1>2. PICK a : a = LedgerSettled(l, c, reach)
    BY Zenon
  <1>3. /\ owed' = left /\ through' = reach /\ floating' = floating \ {c}
        /\ UNCHANGED <<recorded, subs, received>>
        /\ m = IF c \in l.awaiting
                 THEN LedgerSettled([a EXCEPT !.awaiting = @ \ {c}], c, 0) ELSE a
    BY <1>1, <1>2, Zenon DEF Commit
  <1>4. left \in SUBSET owed /\ floating' \in SUBSET Command
    BY <1>0, <1>1, <1>3, Zenon
  <1>5. reach \in 0..recorded /\ \A r \in left : r > reach
    BY <1>0, <1>1, <1>4, ReachSound, Zenon
  <1>6. LedgerSound'
    <2>1. left \in SUBSET (1..recorded)
      BY <1>0, <1>4, Zenon DEF LedgerSound
    <2> QED
      BY <1>0, <1>3, <1>5, <2>1, Zenon DEF LedgerSound
  <1>7. reach \in Nat /\ 0 \in Nat /\ \A r \in left : r > 0
    BY <1>0, <1>4, <1>5 DEF LedgerSound
  <1>8. SettlesTo(l, a, c, reach, left)
    BY <1>0, <1>1, <1>2, <1>5, <1>7, SettledFollows, Zenon
  <1>9. /\ LaneFollows(l, a, left) /\ Watched(a) /\ a \in Lanes /\ c \notin a.commands
    BY <1>0, <1>1, <1>8, Zenon DEF SettlesTo, LaneFollows
  <1>10. LaneFollows(l, m, left) /\ Watched(m)
    <2>1. CASE c \in l.awaiting
      <3>1. PICK k : k = [a EXCEPT !.awaiting = @ \ {c}]
        BY Zenon
      <3>2. /\ k \in Lanes /\ LaneFollows(a, k, left) /\ WatchedBut(k, c)
            /\ k.commands = a.commands
        BY <1>9, <3>1, AnsweredLane, Zenon
      <3>3. Watched(k)
        BY <1>9, <3>2, Zenon DEF Watched, WatchedBut
      <3>4. m = LedgerSettled(k, c, 0)
        BY <1>3, <2>1, <3>1, Zenon
      <3>5. \A r \in left : r \notin c /\ r > 0
        BY <1>1, <1>7, Zenon
      <3>6. SettlesTo(k, m, c, 0, left)
        BY <1>7, <3>2, <3>4, <3>5, SettledFollows, Zenon
      <3>7. LaneFollows(k, m, left) /\ Watched(m)
        BY <3>3, <3>6, Zenon DEF SettlesTo
      <3>8. LaneFollows(l, k, left)
        BY <1>9, <3>2, FollowsAgain, Zenon
      <3> QED
        BY <3>7, <3>8, FollowsAgain, Zenon
    <2>2. CASE c \notin l.awaiting
      BY <1>3, <1>9, <2>2, Zenon
    <2> QED
      BY <2>1, <2>2, Zenon
  <1> QED
    BY <1>1, <1>3, <1>4, <1>6, <1>10, FollowedStep, Zenon

LEMMA UnknownKeeps ==
    ASSUME LaneInv, NEW c \in lane.awaiting, AnswerUnknown(c)
    PROVE  Kept
  <1>0. lane \in Lanes /\ LedgerSound /\ floating \in SUBSET Command
    BY Zenon DEF LaneInv, OthersTyped
  <1>1. /\ UNCHANGED <<recorded, owed, through, subs, received>>
        /\ floating' \in SUBSET Command
    BY <1>0, Zenon DEF AnswerUnknown
  <1>2. LedgerSound' /\ owed \in SUBSET owed
    BY <1>0, <1>1, Zenon DEF LedgerSound
  <1>3. PICK l, k, m : /\ l = lane /\ m = lane'
                       /\ k = [l EXCEPT !.awaiting = @ \ {c}]
    BY Zenon
  <1>4. k \in Lanes /\ LaneFollows(l, k, owed)
    BY <1>0, <1>3, AnsweredLane, Zenon
  <1>5. m = RetryArmed(k)
    BY <1>3, Zenon DEF AnswerUnknown
  <1>6. /\ m \in Lanes /\ Alike(k, m) /\ m.retryTimer /\ m.drive = k.drive
        /\ m.scan = k.scan /\ m.cell = k.cell
    BY <1>4, <1>5, RetryArmedLane, Zenon
  <1>7. LaneFollows(k, m, owed)
    BY <1>6, AlikeFollows, Zenon
  <1>8. LaneFollows(l, m, owed) /\ Watched(m)
    BY <1>4, <1>6, <1>7, FollowsAgain, Zenon DEF Watched
  <1> QED
    BY <1>1, <1>2, <1>3, <1>8, FollowedStep, Zenon

\* A drive is asked for: the lane is awake while somebody is subscribed.
LEMMA DrivenStands ==
    ASSUME NEW l \in Lanes, NEW O, NEW n, NEW S, NEW R, NEW m, m = DrivenFor(l, S),
           Behind(l, n), Carried(l), Watched(l), Scanned(l, O), CellSound(l, S, R),
           AtRow(l, O)
    PROVE  LaneStands(m, O, n, S, R) /\ m.pending = l.pending
  <1>1. /\ m \in Lanes /\ Alike(l, m) /\ m.retryTimer = l.retryTimer
        /\ m.scan = l.scan /\ m.cell = l.cell
        /\ m.drive = l.drive \/ (l.drive = "idle" /\ m.drive = "scanning")
        /\ S # {} => m.drive # "idle"
    BY DrivenLane, Zenon
  <1>2. LaneFollows(l, m, O) /\ Watched(m)
    BY <1>1, AlikeFollows, Zenon
  <1>3. Scanned(m, O) /\ CellSound(m, S, R) /\ AtRow(m, O) /\ Behind(m, n)
    BY <1>2, FollowsKeeps, Zenon
  <1>4. Carried(m) /\ m.pending = l.pending
    BY <1>1, Zenon DEF Carried, Alike
  <1>5. Awake(m, O, S)
    BY <1>1, Zenon DEF Awake
  <1> QED
    BY <1>1, <1>2, <1>3, <1>4, <1>5, Zenon DEF LaneStands

\* The row recorded lies ahead of the scan and of the row being delivered.
LEMMA RecordKeeps ==
    ASSUME LaneInv, Record
    PROVE  Kept
  <1>0. /\ lane \in Lanes /\ LedgerSound /\ OthersTyped /\ Behind(lane, recorded)
        /\ Carried(lane) /\ Watched(lane) /\ Scanned(lane, owed)
        /\ CellSound(lane, subs, received) /\ AtRow(lane, owed)
    BY Zenon DEF LaneInv
  <1>1. PICK l, m, n, O : l = lane /\ m = lane' /\ n = recorded + 1 /\ O = owed \cup {n}
    BY Zenon
  <1>2. /\ recorded' = n /\ owed' = O /\ m = DrivenFor(l, subs)
        /\ UNCHANGED <<through, subs, floating, received>> /\ recorded < MaxRows
    BY <1>1, Zenon DEF Record, Driven
  <1>3. l.scan.cursor \in 0..MaxRows /\ l.cell.row \in 0..MaxRows
    BY <1>0, <1>1, Zenon DEF Lanes, Scans, Cells
  <1>4. PICK cursor, row : cursor = l.scan.cursor /\ row = l.cell.row
    BY Zenon
  <1>5. cursor <= recorded /\ row <= recorded
    BY <1>0, <1>1, <1>4, Zenon DEF Behind
  <1>6. recorded \in Nat /\ n \in Nat /\ cursor \in Nat /\ row \in Nat
    BY <1>0, <1>1, <1>3, <1>4 DEF LedgerSound
  <1>7. cursor <= n /\ row <= n /\ ~ (n <= cursor) /\ ~ (n < row)
    BY <1>1, <1>5, <1>6
  <1>8. Behind(l, n)
    BY <1>4, <1>7, Zenon DEF Behind
  <1>9. Scanned(l, O)
    BY <1>0, <1>1, <1>4, <1>7, Zenon DEF Scanned
  <1>10. AtRow(l, O)
    BY <1>0, <1>1, <1>4, <1>7, Zenon DEF AtRow
  <1>11. LaneStands(m, O, n, subs, received) /\ m.pending = l.pending
    <2>1. /\ l \in Lanes /\ Carried(l) /\ Watched(l) /\ CellSound(l, subs, received)
          /\ m = DrivenFor(l, subs)
      BY <1>0, <1>1, <1>2, Zenon
    <2> QED
      BY <1>8, <1>9, <1>10, <2>1, DrivenStands, Zenon
  <1>12. LaneStands(lane', owed', recorded', subs', received')
    BY <1>1, <1>2, <1>11, Zenon
  <1>13. LedgerSound'
    BY <1>0, <1>1, <1>2, LaneAssumption DEF LedgerSound
  <1>14. OthersTyped'
    BY <1>0, <1>2, Zenon DEF OthersTyped
  <1>15. LaneInv'
    BY <1>12, <1>13, <1>14, StepKeeps, Zenon
  <1> QED
    BY <1>1, <1>11, <1>15, Zenon DEF Kept

-----------------------------------------------------------------------------
(* Subscriptions and tenures.                                              *)

LEMMA UnsettledLane ==
    ASSUME LaneInv, NEW k, k = Unsettled(lane), NEW S, NEW R
    PROVE  /\ k \in Lanes /\ Alike(lane, k) /\ k.retryTimer = lane.retryTimer
           /\ k.drive = lane.drive /\ Behind(k, recorded) /\ Carried(k) /\ Watched(k)
           /\ Scanned(k, owed) /\ CellSound(k, S, R) /\ AtRow(k, owed)
  <1>1. /\ lane \in Lanes /\ lane.cell \in Cells /\ Behind(lane, recorded)
        /\ Carried(lane) /\ Watched(lane) /\ Scanned(lane, owed) /\ AtRow(lane, owed)
    BY Zenon DEF LaneInv, Lanes
  <1>2. PICK cell : cell = [lane.cell EXCEPT !.stale = TRUE]
    BY Zenon
  <1>3. cell \in Cells /\ cell.stale /\ cell.row = lane.cell.row
    BY <1>1, <1>2, Zenon DEF Cells
  <1>4. k = [lane EXCEPT !.stale = TRUE, !.cell = cell]
    BY <1>1, <1>2, Zenon DEF Unsettled, Lanes
  <1>5. /\ k \in Lanes /\ Alike(lane, k) /\ k.retryTimer = lane.retryTimer
        /\ k.drive = lane.drive /\ k.scan = lane.scan /\ k.cell = cell
    BY <1>1, <1>3, <1>4, Zenon DEF Lanes, Alike
  <1>6. Behind(k, recorded) /\ Carried(k) /\ Watched(k) /\ Scanned(k, owed)
    BY <1>1, <1>3, <1>5, Zenon DEF Behind, Carried, Watched, Scanned, Alike
  <1>7. AtRow(k, owed)
    BY <1>1, <1>3, <1>5, Zenon DEF AtRow
  <1>8. CellSound(k, S, R)
    BY <1>3, <1>5, Zenon DEF CellSound
  <1> QED
    BY <1>5, <1>6, <1>7, <1>8, Zenon

LEMMA SubscribeKeeps ==
    ASSUME LaneInv, NEW s \in Subscriber, Subscribe(s)
    PROVE  Kept
  <1>0. LedgerSound /\ OthersTyped
    BY Zenon DEF LaneInv
  <1>1. PICK k, m, S, R : /\ k = Unsettled(lane) /\ m = lane' /\ S = subs'
                          /\ R = received'
    BY Zenon
  <1>2. /\ UNCHANGED <<recorded, owed, through, floating>> /\ S = subs \cup {s}
        /\ R = [received EXCEPT ![s] = {}] /\ m = DrivenFor(k, S)
    BY <1>1, Zenon DEF Subscribe
  <1>3. /\ k \in Lanes /\ Alike(lane, k) /\ Behind(k, recorded) /\ Carried(k)
        /\ Watched(k) /\ Scanned(k, owed) /\ CellSound(k, S, R) /\ AtRow(k, owed)
    BY <1>1, UnsettledLane, Zenon
  <1>4. LaneStands(m, owed, recorded, S, R) /\ m.pending = k.pending
    BY <1>2, <1>3, DrivenStands, Zenon
  <1>5. LaneStands(lane', owed', recorded', subs', received')
    BY <1>1, <1>2, <1>4, Zenon
  <1>6. LedgerSound'
    BY <1>0, <1>2, Zenon DEF LedgerSound
  <1>7. R \in [Subscriber -> SUBSET Row] /\ S \subseteq Subscriber
    <2>1. received \in [Subscriber -> SUBSET Row] /\ {} \in SUBSET Row
          /\ subs \subseteq Subscriber
      BY <1>0, Zenon DEF OthersTyped
    <2> QED
      BY <1>2, <2>1, Zenon
  <1>8. OthersTyped'
    BY <1>0, <1>1, <1>2, <1>7, Zenon DEF OthersTyped
  <1>9. LaneInv'
    BY <1>5, <1>6, <1>8, StepKeeps, Zenon
  <1> QED
    BY <1>1, <1>3, <1>4, <1>9, Zenon DEF Kept, Alike

LEMMA UnsubscribeKeeps ==
    ASSUME LaneInv, NEW s \in Subscriber, Unsubscribe(s)
    PROVE  Kept
  <1>0. LedgerSound /\ OthersTyped /\ Awake(lane, owed, subs)
    BY Zenon DEF LaneInv
  <1>1. PICK k, S : k = Unsettled(lane) /\ S = subs'
    BY Zenon
  <1>2. /\ UNCHANGED <<recorded, owed, through, floating, received>>
        /\ S = subs \ {s} /\ lane' = k
    BY <1>1, Zenon DEF Unsubscribe
  <1>3. /\ k \in Lanes /\ Alike(lane, k) /\ k.retryTimer = lane.retryTimer
        /\ k.drive = lane.drive /\ Behind(k, recorded) /\ Carried(k) /\ Watched(k)
        /\ Scanned(k, owed) /\ CellSound(k, S, received) /\ AtRow(k, owed)
    BY <1>1, UnsettledLane, Zenon
  <1>4. Awake(k, owed, S)
    BY <1>0, <1>2, <1>3, Zenon DEF Awake, Alike
  <1>5. LaneStands(lane', owed', recorded', subs', received')
    BY <1>1, <1>2, <1>3, <1>4, Zenon DEF LaneStands
  <1>6. LedgerSound' /\ OthersTyped'
    <2>1. LedgerSound'
      BY <1>0, <1>2, Zenon DEF LedgerSound
    <2>2. subs' \subseteq Subscriber
      BY <1>0, <1>1, <1>2, Zenon DEF OthersTyped
    <2> QED
      BY <1>0, <1>2, <2>1, <2>2, Zenon DEF OthersTyped
  <1>7. LaneInv'
    BY <1>5, <1>6, StepKeeps, Zenon
  <1> QED
    BY <1>2, <1>3, <1>7, Zenon DEF Kept, Alike

LEMMA FreshLaneStands ==
    ASSUME LedgerSound, NEW S, NEW R
    PROVE  /\ FreshLane \in Lanes /\ FreshLane.pending = {} /\ Behind(FreshLane, recorded)
           /\ Carried(FreshLane) /\ Watched(FreshLane) /\ Scanned(FreshLane, owed)
           /\ CellSound(FreshLane, S, R) /\ AtRow(FreshLane, owed)
  <1>1. PICK sc, cell : sc = NoScan /\ cell = NoCell
    BY Zenon
  <1>2. sc \in Scans /\ cell \in Cells /\ sc.cursor = 0 /\ cell.row = 0
    BY <1>1, FreshScan, EmptyCell, Zenon
  <1>3. PICK l : l = FreshLane
    BY Zenon
  <1>4. l = [pending |-> {}, batch |-> {}, commands |-> {}, awaiting |-> {},
             flushTimer |-> FALSE, retryTimer |-> FALSE, tasks |-> {},
             drive |-> "idle", rerun |-> FALSE, visited |-> FALSE, stale |-> FALSE,
             scan |-> sc, cell |-> cell]
    BY <1>1, <1>3, Zenon DEF FreshLane
  <1>5. l \in Lanes
    BY <1>2, <1>4 DEF Lanes
  <1>6. /\ l.pending = {} /\ l.commands = {} /\ l.drive = "idle" /\ l.scan = sc
        /\ l.cell = cell
    BY <1>4
  <1>7. 0 <= recorded /\ \A r \in owed : ~ (r <= 0)
    BY DEF LedgerSound
  <1>8. Behind(l, recorded) /\ Carried(l) /\ Watched(l) /\ Scanned(l, owed)
    BY <1>2, <1>6, <1>7, Zenon DEF Behind, Carried, Watched, Scanned
  <1>9. CellSound(l, S, R) /\ AtRow(l, owed)
    BY <1>2, <1>6 DEF CellSound, AtRow
  <1> QED
    BY <1>3, <1>5, <1>6, <1>8, <1>9, Zenon

LEMMA ElectedKeeps ==
    ASSUME LaneInv, LeaderElected
    PROVE  Kept
  <1>0. LedgerSound /\ OthersTyped
    BY Zenon DEF LaneInv
  <1>1. PICK l, m : l = FreshLane /\ m = lane'
    BY Zenon
  <1>2. /\ UNCHANGED <<recorded, owed, through, subs, floating, received>>
        /\ m = DrivenFor(l, subs)
    BY <1>1, Zenon DEF LeaderElected, Driven
  <1>3. /\ l \in Lanes /\ l.pending = {} /\ Behind(l, recorded) /\ Carried(l)
        /\ Watched(l) /\ Scanned(l, owed) /\ CellSound(l, subs, received)
        /\ AtRow(l, owed)
    BY <1>0, <1>1, FreshLaneStands, Zenon
  <1>4. LaneStands(m, owed, recorded, subs, received) /\ m.pending = {}
    BY <1>2, <1>3, DrivenStands, Zenon
  <1>5. LaneStands(lane', owed', recorded', subs', received')
    BY <1>1, <1>2, <1>4, Zenon
  <1>6. LedgerSound' /\ OthersTyped'
    BY <1>0, <1>2, Zenon DEF LedgerSound, OthersTyped
  <1>7. LaneInv'
    BY <1>5, <1>6, StepKeeps, Zenon
  <1> QED
    BY <1>1, <1>4, <1>7, Zenon DEF Kept

-----------------------------------------------------------------------------
(* The theorems.                                                           *)

LEMMA LaneInvInit == LaneInit => LaneInv
  <1> SUFFICES ASSUME LaneInit
               PROVE  LaneInv
    OBVIOUS
  <1>1. LedgerSound
    BY LaneAssumption DEF LaneInit, LedgerSound
  <1>2. OthersTyped
    <2>1. received = [s \in Subscriber |-> {}] /\ subs = Subscribed /\ floating = {}
      BY Zenon DEF LaneInit
    <2> QED
      BY <2>1, LaneAssumption DEF OthersTyped
  <1>3. lane = FreshLane /\ owed = {}
    BY Zenon DEF LaneInit
  <1>4. PICK l : l = FreshLane
    BY Zenon
  <1>5. /\ l \in Lanes /\ Behind(l, recorded) /\ Carried(l) /\ Watched(l)
        /\ Scanned(l, owed) /\ CellSound(l, subs, received) /\ AtRow(l, owed)
    BY <1>1, <1>4, FreshLaneStands, Zenon
  <1>6. Awake(l, owed, subs)
    BY <1>3, Zenon DEF Awake
  <1> QED
    BY <1>1, <1>2, <1>3, <1>4, <1>5, <1>6, Zenon DEF LaneInv

LEMMA LaneStep == LaneInv /\ [LaneNext]_laneVars => Received
  <1> SUFFICES ASSUME LaneInv, [LaneNext]_laneVars
               PROVE  Received
    OBVIOUS
  <1>1. Kept => Received
    BY Zenon DEF Kept, Received
  <1>2. CASE DriveStep
    BY <1>1, <1>2, BackpressuredKeeps, RowKeeps, YieldKeeps, DrainedKeeps, Zenon
       DEF DriveStep
  <1>3. CASE DeliveryStep
    BY <1>1, <1>3, StaleKeeps, HeldRowKeeps, DoneKeeps, Zenon DEF DeliveryStep
  <1>4. CASE FlushDeadline
    BY <1>1, <1>4, DeadlineKeeps, Zenon
  <1>5. CASE RetryDue
    BY <1>1, <1>5, RetryDueKeeps, Zenon
  <1>6. CASE Record
    BY <1>1, <1>6, RecordKeeps, Zenon
  <1>7. CASE LeaderElected
    BY <1>1, <1>7, ElectedKeeps, Zenon
  <1>8. CASE \E s \in Subscriber : DeliverTo(s) \/ Subscribe(s) \/ Unsubscribe(s)
    BY <1>1, <1>8, DeliverToKeeps, SubscribeKeeps, UnsubscribeKeeps, Zenon
  <1>9. CASE \E t \in lane.tasks : RetryStep(t)
    BY <1>1, <1>9, RetryStepKeeps, Zenon
  <1>10. CASE \E c \in floating : Commit(c) \/ CommitRefused(c)
    BY <1>1, <1>10, CommitKeepsLane, RefusedKeeps, Zenon
  <1>11. CASE \E c \in lane.awaiting : AnswerUnknown(c)
    BY <1>1, <1>11, UnknownKeeps, Zenon
  <1>12. CASE UNCHANGED laneVars
    <2>1. UNCHANGED <<recorded, owed, through, subs, lane, floating, received>>
      BY <1>12, Zenon DEF laneVars
    <2>2. LedgerSound' /\ OthersTyped'
      BY <2>1, Zenon DEF LaneInv, LedgerSound, OthersTyped
    <2>3. LaneStands(lane', owed', recorded', subs', received')
      BY <2>1, Zenon DEF LaneInv, LaneStands
    <2>4. LaneInv'
      BY <2>2, <2>3, StepKeeps, Zenon
    <2> QED
      BY <2>1, <2>4, Zenon DEF Received
  <1> QED
    BY <1>2, <1>3, <1>4, <1>5, <1>6, <1>7, <1>8, <1>9, <1>10, <1>11, <1>12, Zenon
       DEF LaneNext

LEMMA LaneInvAlways == LaneSpec => []LaneInv
  <1>1. Received => LaneInv'
    BY Zenon DEF Received
  <1> QED
    BY <1>1, LaneInvInit, LaneStep, PTL DEF LaneSpec

(***************************************************************************)
(* Every row the lane acknowledged and has not settled is in the batch or  *)
(* in a command (the conjunct PendingIsCarried), and the fields have their *)
(* types: a row skipped by driveOneObligation because it is pending always *)
(* has a command, made or to be made, that will settle it.                 *)
(***************************************************************************)
THEOREM LaneTypes == LaneSpec => []LaneTypeOK
  <1>1. LaneInv => LaneTypeOK
    <2> SUFFICES ASSUME LaneInv
                 PROVE  LaneTypeOK
      OBVIOUS
    <2>1. LedgerSound /\ OthersTyped /\ lane \in Lanes /\ PendingIsCarried
      BY Zenon DEF LaneInv, Carried, PendingIsCarried
    <2>2. /\ lane.pending \subseteq Row /\ lane.batch \subseteq Row
          /\ lane.commands \subseteq Command /\ lane.awaiting \subseteq Command
          /\ lane.flushTimer \in BOOLEAN /\ lane.retryTimer \in BOOLEAN
          /\ lane.drive \in {"idle", "scanning", "delivering"}
          /\ lane.rerun \in BOOLEAN /\ lane.visited \in BOOLEAN
          /\ lane.stale \in BOOLEAN /\ lane.scan \in Scans /\ lane.cell \in Cells
          /\ lane.tasks \subseteq Tasks
      BY <2>1, Zenon DEF Lanes
    <2> QED
      BY <2>1, <2>2, Zenon
         DEF LaneTypeOK, LedgerSound, OthersTyped, Scans, Cells, Tasks
  <1> QED
    BY <1>1, LaneInvAlways, PTL

(***************************************************************************)
(* No wake-up of the lane is lost: a lane with subscribers that neither    *)
(* drives, nor waits for an answer, nor has a timer armed, has no command  *)
(* left, and every owed row is in its batch.  A commit, a refusal, a row   *)
(* recorded, a subscription and a retry may come in any order and between  *)
(* any two awaits of the drive (runSingleFlightDrivePasses,                *)
(* scheduleDeliveryRetry, finalizeDrainedScan).                            *)
(***************************************************************************)
THEOREM NoRowForgottenAlways == LaneSpec => []NoRowForgotten
  <1>1. LaneInv => NoRowForgotten
    <2> SUFFICES ASSUME LaneInv, LaneAsleep, subs # {}
                 PROVE  owed \subseteq lane.batch /\ lane.commands = {}
      BY Zenon DEF NoRowForgotten
    <2>1. lane.commands = {}
      BY Zenon DEF LaneInv, LaneAsleep, Watched
    <2>2. owed \subseteq lane.pending
      BY Zenon DEF LaneInv, LaneAsleep, Awake
    <2>3. lane.pending \subseteq lane.batch
      BY <2>1, Zenon DEF LaneInv, Carried
    <2> QED
      BY <2>1, <2>2, <2>3, Zenon
  <1> QED
    BY <1>1, LaneInvAlways, PTL

(***************************************************************************)
(* No step acknowledges a row that one of the subscribers of the moment    *)
(* has not confirmed since it subscribed (subscribeToCDCWithHandshake):    *)
(* whoever joins or leaves during a delivery makes the row's cell stale,   *)
(* and a cell that is not stale is for the current subscribers.            *)
(***************************************************************************)
THEOREM AcknowledgedAfterReceiptAlways == LaneSpec => AcknowledgedAfterReceipt
  <1>1. LaneInv /\ [LaneNext]_laneVars =>
          [\A r \in lane'.pending \ lane.pending :
             \A s \in subs : r \in received[s]]_laneVars
    BY LaneStep, Zenon DEF Received
  <1> QED
    BY <1>1, LaneInvAlways, PTL DEF LaneSpec, AcknowledgedAfterReceipt
=============================================================================
