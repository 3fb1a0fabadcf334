--------------------------- MODULE CdcLedgerProofs ---------------------------
(***************************************************************************)
(* The ledger of every replica keeps its budget, loses no row and marks    *)
(* none that was not confirmed; the replicas agree, and no acknowledgement *)
(* names a row they do not know: proved for any replicas, log,             *)
(* transactions and page of reclamation.                                   *)
(***************************************************************************)
EXTENDS CdcLedger, FiniteSetTheorems, WellFoundedInduction, TLAPS

LedgerType == [recorded : Nat, owed : SUBSET Nat, retained : SUBSET Nat, through : Nat,
               reclaimed : Nat, reserved : Nat, effects : Nat]

\* What is true of one replica's ledger, whatever it has applied.
SoundLedger(l) ==
    /\ l \in LedgerType
    /\ l.through <= l.recorded
    /\ l.owed \cup l.retained = (l.through + 1)..l.recorded
    /\ l.owed \cap l.retained = {}
    /\ l.reclaimed = l.through
    /\ l.effects <= l.reserved
    /\ Cardinality(l.owed) + l.reserved <= OwedMax

-----------------------------------------------------------------------------
(* Sets of numbers.                                                        *)

LEMMA LeastExists ==
    ASSUME NEW S \in SUBSET Nat, S # {}
    PROVE  \E x \in S : \A y \in S : x <= y
<1>1. PICK x \in S : \A y \in S : ~ (<<y, x>> \in OpToRel(<, Nat))
  BY NatLessThanWellFounded, WFMin
<1>2. ASSUME NEW y \in S
      PROVE  x <= y
  <2>1. x \in Nat /\ y \in Nat
    OBVIOUS
  <2>2. y < x => <<y, x>> \in OpToRel(<, Nat)
    BY <2>1 DEF OpToRel
  <2>3. ~ (y < x)
    BY <1>1, <2>2, Zenon
  <2> QED
    BY <2>1, <2>3
<1> QED
  BY <1>2

\* Max is the greatest element of a bounded set of numbers.
LEMMA MaxIsGreatest ==
    ASSUME NEW n \in Nat, NEW S \in SUBSET (0..n), S # {}
    PROVE  Max(S) \in S /\ \A y \in S : y <= Max(S)
<1> DEFINE D == {d \in Nat : \E x \in S : d = n - x}
<1>1. PICK s \in S : TRUE
  BY Zenon
<1>2. D \in SUBSET Nat /\ n - s \in D
  OBVIOUS
<1>3. PICK d \in D : \A e \in D : d <= e
  <2> HIDE DEF D
  <2> QED BY <1>2, LeastExists
<1>4. PICK x \in S : d = n - x
  BY <1>3
<1>5. ASSUME NEW y \in S
      PROVE  x >= y
  <2>1. n - y \in D
    OBVIOUS
  <2> QED
    BY <1>3, <1>4, <2>1
<1>6. \E z \in S : \A y \in S : z >= y
  BY <1>5
<1>7. Max(S) \in S /\ \A y \in S : Max(S) >= y
  BY <1>6, Zenon DEF Max
<1> QED
  BY <1>7

LEMMA OwedIsFinite ==
    ASSUME NEW l, SoundLedger(l)
    PROVE  /\ IsFiniteSet(l.owed) /\ Cardinality(l.owed) \in Nat
           /\ IsFiniteSet(l.retained)
<1>1. /\ l.owed \in SUBSET Nat /\ l.retained \in SUBSET Nat /\ l.recorded \in Nat
      /\ l.through \in Nat
  BY DEF SoundLedger, LedgerType
<1>2. \A x \in l.owed \cup l.retained : x <= l.recorded
  BY <1>1 DEF SoundLedger
<1> QED
  BY <1>1, <1>2, FS_BoundedSetOfNaturals, FS_CardinalityType

-----------------------------------------------------------------------------
(* The application of each command keeps a ledger sound.                   *)

\* Ledger m is l with n more rows, whatever they both reserve.
Extended(l, m, n) ==
    /\ m \in LedgerType /\ m.recorded = l.recorded + n
    /\ m.owed = l.owed \cup (l.recorded + 1)..(l.recorded + n)
    /\ m.retained = l.retained /\ m.through = l.through /\ m.reclaimed = l.reclaimed

LEMMA RecordedSound ==
    ASSUME NEW l, SoundLedger(l), NEW n \in Nat, Cardinality(l.owed) + n <= OwedMax,
           NEW m, Extended(l, m, n), m.reserved = 0, m.effects = 0
    PROVE  SoundLedger(m)
<1> USE DEF Extended
<1> DEFINE new == (l.recorded + 1)..(l.recorded + n)
<1>1. /\ l.recorded \in Nat /\ l.through \in Nat /\ l.through <= l.recorded
      /\ l.owed \cup l.retained = (l.through + 1)..l.recorded
      /\ l.owed \cap l.retained = {} /\ l.reclaimed = l.through
  BY DEF SoundLedger, LedgerType
<1>2. m.owed = l.owed \cup new
  OBVIOUS
<1>3. m.owed \cup m.retained = (m.through + 1)..m.recorded
  BY <1>1, <1>2
<1>4. m.owed \cap m.retained = {}
  BY <1>1, <1>2
<1>5. IsFiniteSet(new) /\ Cardinality(new) = n
  <2>1. l.recorded + 1 \in Int /\ l.recorded + n \in Int
    BY <1>1
  <2>2. /\ IsFiniteSet(new)
        /\ Cardinality(new) = IF l.recorded + 1 > l.recorded + n THEN 0
                              ELSE (l.recorded + n) - (l.recorded + 1) + 1
    BY <2>1, FS_Interval
  <2> QED
    BY <1>1, <2>2
<1>6. l.owed \cap new = {}
  BY <1>1
<1>7. Cardinality(m.owed) = Cardinality(l.owed) + n
  <2> HIDE DEF new
  <2>1. IsFiniteSet(l.owed) /\ Cardinality(l.owed) \in Nat
    BY OwedIsFinite
  <2>2. Cardinality(l.owed \cup new) =
          Cardinality(l.owed) + Cardinality(new) - Cardinality(l.owed \cap new)
    BY <1>5, <2>1, FS_Union
  <2>3. Cardinality(l.owed \cap new) = 0
    BY <1>6, FS_EmptySet
  <2>4. Cardinality(m.owed) = Cardinality(l.owed \cup new)
    BY <1>2, Zenon
  <2> QED
    BY <1>5, <2>1, <2>2, <2>3, <2>4
<1>8. Cardinality(l.owed) \in Nat
  BY OwedIsFinite
<1> QED
  BY <1>1, <1>3, <1>4, <1>7, <1>8, LedgerAssumption DEF SoundLedger

LEMMA RecordedExtends ==
    ASSUME NEW l \in LedgerType, NEW n \in Nat
    PROVE  /\ Extended(l, Recorded(l, n), n)
           /\ Recorded(l, n).reserved = l.reserved /\ Recorded(l, n).effects = l.effects
<1>1. PICK a, b, m : /\ a = l.recorded + n /\ m = Recorded(l, n)
                     /\ b = l.owed \cup (l.recorded + 1)..(l.recorded + n)
  BY Zenon
<1>2. m = [l EXCEPT !.recorded = a, !.owed = b]
  BY <1>1 DEF Recorded
<1>3. l.recorded \in Nat /\ l.owed \in SUBSET Nat
  BY DEF LedgerType
<1>4. a \in Nat /\ b \in SUBSET Nat
  BY <1>1, <1>3
<1>5. /\ m \in LedgerType /\ m.recorded = a /\ m.owed = b
      /\ m.retained = l.retained /\ m.through = l.through /\ m.reclaimed = l.reclaimed
      /\ m.reserved = l.reserved /\ m.effects = l.effects
  BY <1>2, <1>4 DEF LedgerType
<1>6. Extended(l, m, n)
  BY <1>1, <1>5, Zenon DEF Extended
<1> QED
  BY <1>1, <1>5, <1>6

LEMMA WriteSound ==
    ASSUME NEW l, SoundLedger(l), NEW events \in 0..1
    PROVE  SoundLedger(AppliedWrite(l, events))
<1>1. CASE l.reserved = 0 /\ Admits(l, 1)
  <2>1. PICK m : m = Recorded(l, events)
    OBVIOUS
  <2>2. l \in LedgerType /\ events \in Nat /\ l.effects = 0
    BY <1>1 DEF SoundLedger, LedgerType
  <2>3. Cardinality(l.owed) + events <= OwedMax
    BY <1>1, OwedIsFinite, LedgerAssumption DEF Admits
  <2>4. Extended(l, m, events) /\ m.reserved = 0 /\ m.effects = 0
    BY <1>1, <2>1, <2>2, RecordedExtends
  <2>5. SoundLedger(m)
    BY <2>2, <2>3, <2>4, RecordedSound
  <2> QED
    BY <1>1, <2>1, <2>5 DEF AppliedWrite
<1>2. CASE ~ (l.reserved = 0 /\ Admits(l, 1))
  BY <1>2 DEF AppliedWrite
<1> QED
  BY <1>1, <1>2

LEMMA PrepareSound ==
    ASSUME NEW l, SoundLedger(l), NEW n \in Operations, NEW events \in 0..n
    PROVE  SoundLedger(AppliedPrepare(l, n, events))
<1>1. n \in Nat /\ events \in Nat /\ events <= n
  BY LedgerAssumption
<1>2. CASE l.reserved = 0 /\ Admits(l, n)
  <2>1. PICK m : m = [l EXCEPT !.reserved = n, !.effects = events]
    OBVIOUS
  <2>2. /\ m \in LedgerType /\ m.recorded = l.recorded /\ m.owed = l.owed
        /\ m.retained = l.retained /\ m.through = l.through /\ m.reclaimed = l.reclaimed
        /\ m.reserved = n /\ m.effects = events
    BY <1>1, <2>1, Zenon DEF SoundLedger, LedgerType
  <2>3. Cardinality(l.owed) + n <= OwedMax
    BY <1>2 DEF Admits
  <2>4. SoundLedger(m)
    BY <1>1, <2>2, <2>3 DEF SoundLedger
  <2> QED
    BY <1>2, <2>1, <2>4 DEF AppliedPrepare
<1>3. CASE ~ (l.reserved = 0 /\ Admits(l, n))
  BY <1>3 DEF AppliedPrepare
<1> QED
  BY <1>2, <1>3

LEMMA DecisionSound ==
    ASSUME NEW l, SoundLedger(l), NEW commit \in BOOLEAN
    PROVE  SoundLedger(AppliedDecision(l, commit))
<1>1. PICK m, d : /\ m = AppliedDecision(l, commit)
                  /\ d = IF commit THEN Recorded(l, l.effects) ELSE l
  OBVIOUS
<1>2. m = [d EXCEPT !.reserved = 0, !.effects = 0]
  BY <1>1 DEF AppliedDecision
<1>3. /\ l \in LedgerType /\ l.recorded \in Nat /\ l.effects \in Nat /\ l.reserved \in Nat
      /\ l.effects <= l.reserved /\ l.owed \in SUBSET Nat
  BY DEF SoundLedger, LedgerType
<1>4. Cardinality(l.owed) \in Nat /\ Cardinality(l.owed) + l.reserved <= OwedMax
  BY OwedIsFinite DEF SoundLedger
<1>5. \E n \in {0, l.effects} : Extended(l, d, n)
  <2>1. CASE commit
    <3>1. d = Recorded(l, l.effects)
      BY <1>1, <2>1
    <3>2. Extended(l, d, l.effects)
      BY <1>3, <3>1, RecordedExtends
    <3> QED
      BY <3>2, Zenon
  <2>2. CASE ~ commit
    <3>1. l.owed \cup (l.recorded + 1)..(l.recorded + 0) = l.owed /\ l.recorded + 0 = l.recorded
      BY <1>3
    <3>2. Extended(l, d, 0)
      BY <1>1, <1>3, <2>2, <3>1, Zenon DEF Extended
    <3> QED
      BY <3>2, Zenon
  <2> QED
    BY <2>1, <2>2
<1>6. PICK n \in {0, l.effects} : Extended(l, d, n)
  BY <1>5, Zenon
<1>7. n \in Nat /\ Cardinality(l.owed) + n <= OwedMax
  BY <1>3, <1>4, LedgerAssumption
<1>8. Extended(l, m, n) /\ m.reserved = 0 /\ m.effects = 0
  <2>1. d \in LedgerType
    BY <1>6, Zenon DEF Extended
  <2>2. /\ m \in LedgerType /\ m.recorded = d.recorded /\ m.owed = d.owed
        /\ m.retained = d.retained /\ m.through = d.through /\ m.reclaimed = d.reclaimed
        /\ m.reserved = 0 /\ m.effects = 0
    BY <1>2, <2>1, Zenon DEF LedgerType
  <2> QED
    BY <1>6, <2>2, Zenon DEF Extended
<1>9. SoundLedger(m)
  BY <1>6, <1>7, <1>8, RecordedSound
<1> QED
  BY <1>1, <1>9

-----------------------------------------------------------------------------
(* Acknowledgement and reclamation.                                        *)

\* The rows marked, before anything is reclaimed.
MarkedDelivered(l, rows) == [l EXCEPT !.owed = @ \ rows, !.retained = @ \cup rows]

LEMMA MarkedSound ==
    ASSUME NEW l, SoundLedger(l), NEW rows, rows \subseteq l.owed \cup l.retained
    PROVE  /\ SoundLedger(MarkedDelivered(l, rows)) /\ MarkedDelivered(l, rows).owed = l.owed \ rows
           /\ MarkedDelivered(l, rows).recorded = l.recorded
<1>1. PICK a, b, m : a = l.owed \ rows /\ b = l.retained \cup rows /\ m = MarkedDelivered(l, rows)
  BY Zenon
<1>2. m = [l EXCEPT !.owed = a, !.retained = b]
  BY <1>1 DEF MarkedDelivered
<1>3. l \in LedgerType /\ l.owed \in SUBSET Nat /\ l.retained \in SUBSET Nat
  BY DEF SoundLedger, LedgerType
<1>4. a \in SUBSET Nat /\ b \in SUBSET Nat
  BY <1>1, <1>3
<1>5. /\ m \in LedgerType /\ m.owed = a /\ m.retained = b
      /\ m.recorded = l.recorded /\ m.through = l.through /\ m.reclaimed = l.reclaimed
      /\ m.reserved = l.reserved /\ m.effects = l.effects
  BY <1>2, <1>3, <1>4 DEF LedgerType
<1>6. a \cup b = l.owed \cup l.retained /\ a \cap b = {}
  BY <1>1 DEF SoundLedger
<1>7. Cardinality(a) \in Nat /\ Cardinality(a) <= Cardinality(l.owed)
  BY <1>1, OwedIsFinite, FS_Subset, FS_CardinalityType
<1>8. Cardinality(a) + l.reserved <= OwedMax
  <2>1. Cardinality(l.owed) \in Nat /\ l.reserved \in Nat
    BY <1>3, OwedIsFinite DEF LedgerType
  <2> QED
    BY <1>7, <2>1, LedgerAssumption DEF SoundLedger
<1>9. SoundLedger(m)
  BY <1>5, <1>6, <1>8 DEF SoundLedger
<1> QED
  BY <1>1, <1>5, <1>9

\* What is reclaimed is the prefix of the rows that follow `through`.
LEMMA ReclaimableIsPrefix ==
    ASSUME NEW l, SoundLedger(l), Reclaimable(l) # {}
    PROVE  /\ Max(Reclaimable(l)) \in (l.through + 1)..l.recorded
           /\ Reclaimable(l) = (l.through + 1)..Max(Reclaimable(l))
           /\ Reclaimable(l) \subseteq l.retained
           /\ Cardinality(Reclaimable(l)) = Max(Reclaimable(l)) - l.through
<1> DEFINE B == BelowHead(l)
           R == Reclaimable(l)
           last == Max(R)
<1>1. /\ l.through \in Nat /\ l.recorded \in Nat /\ l.owed \in SUBSET Nat
      /\ l.retained \in SUBSET Nat /\ l.owed \cup l.retained = (l.through + 1)..l.recorded
  BY DEF SoundLedger, LedgerType
<1>2. B \subseteq l.retained /\ IsFiniteSet(B)
  <2>1. B \in SUBSET l.retained
    BY DEF BelowHead
  <2> QED
    BY <2>1, OwedIsFinite, FS_Subset
<1>3. \A x \in B : \A y \in (l.through + 1)..x : y \in B
  <2> SUFFICES ASSUME NEW x \in B, NEW y \in (l.through + 1)..x
               PROVE  y \in B
    OBVIOUS
  <2>1. x \in l.retained /\ \A o \in l.owed : x < o
    BY DEF BelowHead
  <2>2. x \in Nat /\ y \in Nat /\ y <= x /\ x \in (l.through + 1)..l.recorded
    BY <1>1, <2>1
  <2>3. y \in l.owed \cup l.retained
    BY <1>1, <2>2
  <2>4. \A o \in l.owed : y < o
    BY <1>1, <2>1, <2>2
  <2> QED
    BY <2>2, <2>3, <2>4 DEF BelowHead
<1>4. R \subseteq B
  BY DEF Reclaimable
<1>5. \A x \in R : \A y \in B : y < x => y \in R
  <2> SUFFICES ASSUME NEW x \in R, NEW y \in B, y < x
               PROVE  y \in R
    OBVIOUS
  <2> DEFINE Lower(z) == {other \in B : other < z}
  <2>1. x \in Nat /\ y \in Nat /\ B \subseteq Nat
    BY <1>1, <1>2, <1>4
  <2>2. Lower(y) \in SUBSET Lower(x) /\ Lower(x) \in SUBSET B
    BY <2>1
  <2>3. /\ Cardinality(Lower(y)) <= Cardinality(Lower(x))
        /\ Cardinality(Lower(y)) \in Nat /\ Cardinality(Lower(x)) \in Nat
    <3> HIDE DEF Lower, B
    <3> QED
      BY <1>2, <2>2, FS_Subset, FS_CardinalityType
  <2>4. Cardinality(Lower(x)) < ReclaimMax
    BY DEF Reclaimable
  <2>5. Cardinality(Lower(y)) < ReclaimMax
    BY <2>3, <2>4, LedgerAssumption
  <2> QED
    BY <2>5 DEF Reclaimable
<1> HIDE DEF B
<1>6. R \in SUBSET (0..l.recorded) /\ R # {} /\ R \subseteq (l.through + 1)..l.recorded
  BY <1>1, <1>2, <1>4
<1> HIDE DEF R
<1>7. last \in R /\ \A y \in R : y <= last
  BY <1>1, <1>6, MaxIsGreatest, Zenon
<1> HIDE DEF last
<1>8. last \in (l.through + 1)..l.recorded /\ last \in Nat
  BY <1>1, <1>6, <1>7
<1>9. R = (l.through + 1)..last
  <2>1. \A y \in R : y \in (l.through + 1)..last
    BY <1>1, <1>6, <1>7, <1>8
  <2>2. ASSUME NEW y \in (l.through + 1)..last
        PROVE  y \in R
    <3>1. y \in B
      BY <1>3, <1>4, <1>7
    <3>2. y < last \/ y = last
      BY <1>1, <1>8
    <3> QED
      BY <1>5, <1>7, <3>1, <3>2
  <2> QED
    BY <2>1, <2>2
<1>10. Cardinality((l.through + 1)..last) = last - l.through
  <2>1. l.through + 1 \in Int /\ last \in Int
    BY <1>1, <1>8
  <2>2. Cardinality((l.through + 1)..last) =
          IF l.through + 1 > last THEN 0 ELSE last - (l.through + 1) + 1
    BY <2>1, FS_Interval, Zenon
  <2> QED
    BY <1>1, <1>8, <2>2
<1>11. R \subseteq l.retained
  BY <1>2, <1>4
<1>12. Cardinality(R) = last - l.through
  BY <1>9, <1>10, Zenon
<1> QED
  BY <1>8, <1>9, <1>11, <1>12, Zenon DEF R, last

LEMMA ReclaimSound ==
    ASSUME NEW l, SoundLedger(l)
    PROVE  /\ SoundLedger(Reclaim(l))
           /\ Reclaim(l).owed = l.owed /\ Reclaim(l).recorded = l.recorded
<1>1. CASE Reclaimable(l) = {}
  BY <1>1 DEF Reclaim
<1>2. CASE Reclaimable(l) # {}
  <2>1. PICK R, last, m : R = Reclaimable(l) /\ last = Max(R) /\ m = Reclaim(l)
    OBVIOUS
  <2>2. /\ last \in (l.through + 1)..l.recorded /\ R = (l.through + 1)..last
        /\ R \subseteq l.retained /\ Cardinality(R) = last - l.through
    BY <1>2, <2>1, ReclaimableIsPrefix
  <2>3. /\ l \in LedgerType /\ l.through \in Nat /\ l.recorded \in Nat
        /\ l.owed \in SUBSET Nat /\ l.retained \in SUBSET Nat
        /\ l.owed \cup l.retained = (l.through + 1)..l.recorded
        /\ l.owed \cap l.retained = {} /\ l.reclaimed = l.through
    BY DEF SoundLedger, LedgerType
  <2>4. PICK a, b : a = l.retained \ R /\ b = l.reclaimed + Cardinality(R)
    BY Zenon
  <2>5. m = [l EXCEPT !.retained = a, !.through = last, !.reclaimed = b]
    BY <1>2, <2>1, <2>4 DEF Reclaim
  <2>6. a \in SUBSET Nat /\ last \in Nat /\ b = last /\ last <= l.recorded
    BY <2>2, <2>3, <2>4
  <2>7. /\ m \in LedgerType /\ m.retained = a /\ m.through = last /\ m.reclaimed = last
        /\ m.owed = l.owed /\ m.recorded = l.recorded
        /\ m.reserved = l.reserved /\ m.effects = l.effects
    BY <2>3, <2>5, <2>6 DEF LedgerType
  <2>8. l.owed \cup a = (last + 1)..l.recorded
    <3>1. \A x \in l.owed \cup a : x \in (last + 1)..l.recorded
      BY <2>2, <2>3, <2>4, <2>6
    <3>2. \A x \in (last + 1)..l.recorded : x \in l.owed \cup a
      BY <2>2, <2>3, <2>4, <2>6
    <3> QED
      BY <3>1, <3>2
  <2>9. l.owed \cap a = {}
    BY <2>3, <2>4
  <2>10. SoundLedger(m)
    BY <2>6, <2>7, <2>8, <2>9 DEF SoundLedger
  <2> QED
    BY <2>1, <2>7, <2>10
<1> QED
  BY <1>1, <1>2

-----------------------------------------------------------------------------
(* The inductive invariant: every ledger is sound, and an acknowledgement  *)
(* proposed or committed names confirmed rows only.                        *)

CommandSound(c) ==
    /\ c.type \in {"write", "prepare", "decision", "delivered"}
    /\ c.type = "write" => c.events \in 0..1
    /\ c.type = "prepare" => c.operations \in Operations /\ c.events \in 0..c.operations
    /\ c.type = "decision" => c.commit \in BOOLEAN
    /\ c.type = "delivered" => c.rows \subseteq confirmed

ReplicaSound(l) == SoundLedger(l) /\ (1..l.recorded) \ l.owed \subseteq confirmed

LedgerInvariant ==
    /\ log \in Seq(Commands)
    /\ \A i \in 1..Len(log) : CommandSound(log[i])
    /\ applied \in [Replica -> Nat]
    /\ ledger \in [Replica -> LedgerType]
    /\ \A r \in Replica : ReplicaSound(ledger[r])
    /\ confirmed \subseteq Nat
    /\ proposals \subseteq SUBSET confirmed

\* One command, applied to a sound ledger.
LEMMA AppliedSound ==
    ASSUME NEW l, ReplicaSound(l), NEW c, CommandSound(c)
    PROVE  ReplicaSound(Applied(l, c))
<1>1. /\ SoundLedger(l) /\ l \in LedgerType /\ l.recorded \in Nat /\ l.effects \in Nat
      /\ (1..l.recorded) \ l.owed \subseteq confirmed
  BY DEF ReplicaSound, SoundLedger, LedgerType
<1>2. ASSUME NEW n \in Nat
      PROVE  /\ Recorded(l, n) \in LedgerType
             /\ (1..Recorded(l, n).recorded) \ Recorded(l, n).owed \subseteq confirmed
  <2>1. PICK m : m = Recorded(l, n)
    OBVIOUS
  <2>2. Extended(l, m, n)
    BY <1>1, <2>1, RecordedExtends
  <2>3. (1..m.recorded) \ m.owed \subseteq confirmed
    BY <1>1, <2>2 DEF Extended
  <2>4. m \in LedgerType
    BY <2>2, Zenon DEF Extended
  <2> QED
    BY <2>1, <2>3, <2>4
<1>4. CASE c.type = "write"
  <2>1. c.events \in 0..1 /\ c.events \in Nat
    BY <1>4 DEF CommandSound
  <2>2. Applied(l, c) = AppliedWrite(l, c.events)
    BY <1>4 DEF Applied
  <2>3. SoundLedger(AppliedWrite(l, c.events))
    BY <1>1, <2>1, WriteSound
  <2>4. AppliedWrite(l, c.events) = Recorded(l, c.events) \/ AppliedWrite(l, c.events) = l
    BY DEF AppliedWrite
  <2> QED
    BY <1>1, <1>2, <2>1, <2>2, <2>3, <2>4 DEF ReplicaSound
<1>5. CASE c.type = "prepare"
  <2>1. c.operations \in Operations /\ c.events \in 0..c.operations
    BY <1>5 DEF CommandSound
  <2>2. PICK m : m = AppliedPrepare(l, c.operations, c.events)
    OBVIOUS
  <2>3. Applied(l, c) = m
    BY <1>5, <2>2 DEF Applied
  <2>4. SoundLedger(m)
    BY <1>1, <2>1, <2>2, PrepareSound
  <2>5. m.recorded = l.recorded /\ m.owed = l.owed
    BY <1>1, <2>2 DEF AppliedPrepare, LedgerType
  <2> QED
    BY <1>1, <2>3, <2>4, <2>5 DEF ReplicaSound
<1>6. CASE c.type = "decision"
  <2>1. c.commit \in BOOLEAN
    BY <1>6 DEF CommandSound
  <2>2. PICK m, d : /\ m = AppliedDecision(l, c.commit)
                    /\ d = IF c.commit THEN Recorded(l, l.effects) ELSE l
    OBVIOUS
  <2>3. Applied(l, c) = m
    BY <1>6, <2>2 DEF Applied
  <2>4. SoundLedger(m)
    BY <1>1, <2>1, <2>2, DecisionSound
  <2>5. d \in LedgerType
    BY <1>1, <1>2, <2>1, <2>2
  <2>6. m = [d EXCEPT !.reserved = 0, !.effects = 0]
    BY <2>2 DEF AppliedDecision
  <2>7. m.recorded = d.recorded /\ m.owed = d.owed
    BY <2>5, <2>6 DEF LedgerType
  <2>8. (1..d.recorded) \ d.owed \subseteq confirmed
    BY <1>1, <1>2, <2>1, <2>2
  <2> QED
    BY <2>3, <2>4, <2>7, <2>8 DEF ReplicaSound
<1>7. CASE c.type = "delivered"
  <2>1. c.rows \subseteq confirmed
    BY <1>7 DEF CommandSound
  <2>2. Applied(l, c) = AppliedDelivered(l, c.rows)
    BY <1>7 DEF Applied
  <2>3. CASE Compacted(l, c.rows) \/ Unknown(l, c.rows)
    BY <1>1, <2>2, <2>3 DEF AppliedDelivered, ReplicaSound
  <2>4. CASE ~ (Compacted(l, c.rows) \/ Unknown(l, c.rows))
    <3>1. c.rows \subseteq l.owed \cup l.retained
      BY <2>4 DEF Unknown
    <3>2. PICK m : m = MarkedDelivered(l, c.rows)
      OBVIOUS
    <3>3. SoundLedger(m) /\ m.owed = l.owed \ c.rows /\ m.recorded = l.recorded
      BY <1>1, <3>1, <3>2, MarkedSound
    <3>4. AppliedDelivered(l, c.rows) = Reclaim(m)
      BY <2>4, <3>2 DEF AppliedDelivered, MarkedDelivered
    <3>5. /\ SoundLedger(Reclaim(m)) /\ Reclaim(m).owed = l.owed \ c.rows
          /\ Reclaim(m).recorded = l.recorded
      BY <3>3, ReclaimSound
    <3> QED
      BY <1>1, <2>1, <2>2, <3>4, <3>5 DEF ReplicaSound
  <2> QED
    BY <2>3, <2>4
<1> QED
  BY <1>4, <1>5, <1>6, <1>7 DEF CommandSound

\* Rows are only ever added to those confirmed.
LEMMA ConfirmedGrows ==
    ASSUME confirmed \subseteq confirmed'
    PROVE  /\ \A c : CommandSound(c) => CommandSound(c)'
           /\ \A l : ReplicaSound(l) => ReplicaSound(l)'
BY DEF CommandSound, ReplicaSound

LEMMA CommitKeepsLedger ==
    ASSUME LedgerInvariant, NEW c \in Commands, CommandSound(c), CommitEntry(c)
    PROVE  LedgerInvariant'
<1>1. /\ log \in Seq(Commands) /\ log' = Append(log, c) /\ confirmed' = confirmed
      /\ applied' = applied /\ ledger' = ledger /\ proposals' = proposals
  BY DEF CommitEntry, LedgerInvariant
<1>2. /\ log' \in Seq(Commands) /\ Len(log') = Len(log) + 1 /\ Len(log) \in Nat
      /\ log'[Len(log) + 1] = c /\ \A i \in 1..Len(log) : log'[i] = log[i]
  BY <1>1
<1>3. \A d : CommandSound(d) => CommandSound(d)'
  BY <1>1, ConfirmedGrows
<1>4. ASSUME NEW i \in 1..Len(log')
      PROVE  CommandSound(log'[i]) 
  <2>1. i \in 1..Len(log) \/ i = Len(log) + 1
    BY <1>2
  <2> QED
    BY <1>2, <2>1 DEF LedgerInvariant
<1>5. \A i \in 1..Len(log') : CommandSound(log[i])'
  BY <1>1, <1>4 DEF CommandSound
<1>6. \A r \in Replica : ReplicaSound(ledger[r])'
  BY <1>1 DEF ReplicaSound, LedgerInvariant
<1> QED
  BY <1>1, <1>2, <1>5, <1>6 DEF LedgerInvariant

LEMMA ConstructorsSound ==
    ASSUME LedgerInvariant
    PROVE  /\ \A events \in 0..1 : Write(events) \in Commands /\ CommandSound(Write(events))
           /\ \A n \in Operations : \A events \in 0..n :
                Prepare(n, events) \in Commands /\ CommandSound(Prepare(n, events))
           /\ \A commit \in BOOLEAN : Decision(commit) \in Commands /\ CommandSound(Decision(commit))
           /\ \A rows \in proposals : Delivered(rows) \in Commands /\ CommandSound(Delivered(rows))
<1>1. ASSUME NEW events \in 0..1
      PROVE  Write(events) \in Commands /\ CommandSound(Write(events))
  <2>1. Write(events) \in Commands
    BY Zenon DEF Commands
  <2>2. CommandSound(Write(events))
    BY DEF Write, CommandSound
  <2> QED
    BY <2>1, <2>2
<1>2. ASSUME NEW commit \in BOOLEAN
      PROVE  Decision(commit) \in Commands /\ CommandSound(Decision(commit))
  <2>1. Decision(commit) \in Commands
    BY Zenon DEF Commands
  <2>2. Decision(commit).type = "decision" /\ Decision(commit).commit \in BOOLEAN
    BY DEF Decision
  <2>3. CommandSound(Decision(commit))
    BY <2>2 DEF CommandSound
  <2> QED
    BY <2>1, <2>3
<1>3. ASSUME NEW rows \in proposals
      PROVE  Delivered(rows) \in Commands /\ CommandSound(Delivered(rows))
  <2>1. rows \subseteq confirmed /\ rows \in SUBSET Nat
    BY DEF LedgerInvariant
  <2>2. Delivered(rows) \in [type : {"delivered"}, rows : SUBSET Nat]
    BY <2>1 DEF Delivered
  <2>3. Delivered(rows) \in Commands
    BY <2>2, Zenon DEF Commands
  <2>4. CommandSound(Delivered(rows))
    BY <2>1 DEF Delivered, CommandSound
  <2> QED
    BY <2>3, <2>4
<1>4. ASSUME NEW n \in Operations, NEW events \in 0..n
      PROVE  Prepare(n, events) \in Commands /\ CommandSound(Prepare(n, events))
  <2>1. Prepare(n, events) \in Commands
    <3>1. Prepare(n, events) \in {Prepare(n, e) : e \in 0..n}
      BY Zenon
    <3>2. Prepare(n, events) \in UNION {{Prepare(k, e) : e \in 0..k} : k \in Operations}
      BY <3>1, Zenon
    <3> QED
      BY <3>2, Zenon DEF Commands
  <2>2. CommandSound(Prepare(n, events))
    BY DEF Prepare, CommandSound
  <2> QED
    BY <2>1, <2>2
<1> QED
  BY <1>1, <1>2, <1>3, <1>4

\* Each replica's ledger is sound and each acknowledgement was confirmed.
THEOREM LedgerInvariantHolds == LedgerSpec => []LedgerInvariant
<1>1. LedgerInit => LedgerInvariant
  <2> SUFFICES ASSUME LedgerInit
               PROVE  LedgerInvariant
    OBVIOUS
  <2>1. PICK e : e = EmptyLedger
    OBVIOUS
  <2>2. /\ e \in LedgerType /\ e.recorded = 0 /\ e.owed = {} /\ e.retained = {}
        /\ e.through = 0 /\ e.reclaimed = 0 /\ e.reserved = 0 /\ e.effects = 0
    BY <2>1 DEF EmptyLedger, LedgerType
  <2>3. SoundLedger(e)
    <3>1. Cardinality(e.owed) = 0
      BY <2>2, FS_EmptySet
    <3> QED
      BY <2>2, <3>1, LedgerAssumption DEF SoundLedger
  <2>4. ReplicaSound(e)
    BY <2>2, <2>3 DEF ReplicaSound
  <2> QED
    BY <2>1, <2>2, <2>4 DEF LedgerInit, LedgerInvariant
<1>2. LedgerInvariant /\ [LedgerNext]_ledgerVars => LedgerInvariant'
  <2> SUFFICES ASSUME LedgerInvariant, [LedgerNext]_ledgerVars
               PROVE  LedgerInvariant'
    OBVIOUS
  <2>1. CASE UNCHANGED ledgerVars
    BY <2>1 DEF ledgerVars, LedgerInvariant, CommandSound, ReplicaSound
  <2>2. CASE CommitStatement \/ CommitTransaction \/ CommitAcknowledgement
    BY <2>2, CommitKeepsLedger, ConstructorsSound
       DEF CommitStatement, CommitTransaction, CommitAcknowledgement
  <2>3. ASSUME NEW r \in Replica, ApplyNext(r)
        PROVE  LedgerInvariant'
    <3>1. PICK c, l : /\ c = log[applied[r] + 1] /\ l = Applied(ledger[r], c)
      OBVIOUS
    <3>2. /\ applied[r] < Len(log) /\ applied' = [applied EXCEPT ![r] = @ + 1]
          /\ ledger' = [ledger EXCEPT ![r] = l]
          /\ log' = log /\ proposals' = proposals /\ confirmed' = confirmed
      BY <2>3, <3>1 DEF ApplyNext
    <3>3. applied[r] \in Nat /\ Len(log) \in Nat /\ applied \in [Replica -> Nat]
      BY DEF LedgerInvariant
    <3>4. applied[r] + 1 \in 1..Len(log)
      BY <3>2, <3>3
    <3>5. CommandSound(c) /\ ReplicaSound(ledger[r])
      BY <3>1, <3>4, Zenon DEF LedgerInvariant
    <3>6. ReplicaSound(l) /\ l \in LedgerType
      BY <3>1, <3>5, AppliedSound DEF ReplicaSound, SoundLedger
    <3>7. /\ ledger' \in [Replica -> LedgerType]
          /\ \A u \in Replica : ledger'[u] = ledger[u] \/ ledger'[u] = l
      BY <3>2, <3>6 DEF LedgerInvariant
    <3>8. \A u \in Replica : ReplicaSound(ledger'[u])
      BY <3>6, <3>7 DEF LedgerInvariant
    <3>9. \A u \in Replica : ReplicaSound(ledger[u])'
      BY <3>2, <3>8 DEF ReplicaSound
    <3>10. applied' \in [Replica -> Nat]
      BY <3>2, <3>3
    <3> QED
      BY <3>2, <3>7, <3>9, <3>10 DEF LedgerInvariant, CommandSound
  <2>4. ASSUME NEW r \in Replica, Confirm(r)
        PROVE  LedgerInvariant'
    <3>1. PICK row \in ledger[r].owed : confirmed' = confirmed \cup {row}
      BY <2>4 DEF Confirm
    <3>2. /\ log' = log /\ applied' = applied /\ ledger' = ledger /\ proposals' = proposals
      BY <2>4 DEF Confirm
    <3>3. row \in Nat
      BY DEF LedgerInvariant, LedgerType
    <3>4. confirmed \subseteq confirmed' /\ confirmed' \subseteq Nat
      BY <3>1, <3>3 DEF LedgerInvariant
    <3>5. \A i \in 1..Len(log) : CommandSound(log[i])'
      BY <3>2, <3>4, Zenon DEF LedgerInvariant, CommandSound
    <3>6. \A u \in Replica : ReplicaSound(ledger[u])'
      BY <3>2, <3>4 DEF LedgerInvariant, ReplicaSound
    <3> QED
      BY <3>2, <3>4, <3>5, <3>6 DEF LedgerInvariant
  <2>5. ASSUME NEW r \in Replica, Propose(r)
        PROVE  LedgerInvariant'
    <3>1. PICK rows \in SUBSET confirmed : proposals' = proposals \cup {rows}
      BY <2>5 DEF Propose
    <3>2. /\ log' = log /\ applied' = applied /\ ledger' = ledger /\ confirmed' = confirmed
      BY <2>5 DEF Propose
    <3> QED
      BY <3>1, <3>2 DEF LedgerInvariant, CommandSound, ReplicaSound
  <2>6. ASSUME NEW r \in Replica, NEW from \in Replica, InstallSnapshot(r, from)
        PROVE  LedgerInvariant'
    <3>1. /\ log' = log /\ confirmed' = confirmed /\ proposals' = proposals
          /\ applied' = [applied EXCEPT ![r] = applied[from]]
          /\ ledger' = [ledger EXCEPT ![r] = ledger[from]]
      BY <2>6 DEF InstallSnapshot
    <3>2. /\ ledger' \in [Replica -> LedgerType] /\ applied' \in [Replica -> Nat]
          /\ \A u \in Replica : \E v \in Replica : ledger'[u] = ledger[v]
      BY <3>1 DEF LedgerInvariant
    <3>3. \A u \in Replica : ReplicaSound(ledger'[u])
      BY <3>2 DEF LedgerInvariant
    <3>4. \A u \in Replica : ReplicaSound(ledger[u])'
      BY <3>1, <3>3 DEF ReplicaSound
    <3> QED
      BY <3>1, <3>2, <3>4 DEF LedgerInvariant, CommandSound
  <2> QED
    BY <2>1, <2>2, <2>3, <2>4, <2>5, <2>6 DEF LedgerNext
<1> QED
  BY <1>1, <1>2, PTL DEF LedgerSpec

\* No replica owes more than OWED_MAX_EVENTS, what a PREPARED transaction
\* will record included.
THEOREM OwedWithinBudgetAlways == LedgerSpec => []OwedWithinBudget
<1>1. LedgerInvariant => OwedWithinBudget
  BY DEF LedgerInvariant, ReplicaSound, SoundLedger, OwedWithinBudget
<1> QED
  BY <1>1, LedgerInvariantHolds, PTL

\* Every recorded row is owed, retained or reclaimed, and reclamation takes
\* exactly the delivered prefix.
THEOREM LedgerCompleteAlways == LedgerSpec => []LedgerComplete
<1>1. LedgerInvariant => LedgerComplete
  BY DEF LedgerInvariant, ReplicaSound, SoundLedger, LedgerComplete
<1> QED
  BY <1>1, LedgerInvariantHolds, PTL

\* A row leaves the owed rows of a replica only after it was confirmed.
THEOREM DeliveredWereConfirmedAlways == LedgerSpec => []DeliveredWereConfirmed
<1>1. LedgerInvariant => DeliveredWereConfirmed
  BY DEF LedgerInvariant, ReplicaSound, DeliveredWereConfirmed
<1> QED
  BY <1>1, LedgerInvariantHolds, PTL

-----------------------------------------------------------------------------
(* The ledgers of the replicas are points of one history, the ledgers the  *)
(* log builds from the empty one.  A row an acknowledgement names was read *)
(* from one of those points, and a later one still knows it or has         *)
(* reclaimed it.                                                           *)

\* No command takes back a position it has given.
LEMMA AppliedGrows ==
    ASSUME NEW l, ReplicaSound(l), NEW c, CommandSound(c)
    PROVE  l.recorded <= Applied(l, c).recorded
<1>1. SoundLedger(l) /\ l \in LedgerType /\ l.recorded \in Nat /\ l.effects \in Nat
  BY DEF ReplicaSound, SoundLedger, LedgerType
<1>2. ASSUME NEW n \in Nat
      PROVE  Recorded(l, n) \in LedgerType /\ l.recorded <= Recorded(l, n).recorded
  <2>1. PICK m : m = Recorded(l, n)
    OBVIOUS
  <2>2. Extended(l, m, n)
    BY <1>1, <2>1, RecordedExtends
  <2>3. m \in LedgerType /\ l.recorded <= m.recorded
    BY <1>1, <2>2 DEF Extended
  <2> QED
    BY <2>1, <2>3
<1>3. CASE c.type = "write"
  <2>1. c.events \in Nat
    BY <1>3 DEF CommandSound
  <2>2. Applied(l, c) = AppliedWrite(l, c.events)
    BY <1>3 DEF Applied
  <2>3. AppliedWrite(l, c.events) = Recorded(l, c.events) \/ AppliedWrite(l, c.events) = l
    BY DEF AppliedWrite
  <2> QED
    BY <1>1, <1>2, <2>1, <2>2, <2>3
<1>4. CASE c.type = "prepare"
  <2>1. PICK m : m = AppliedPrepare(l, c.operations, c.events)
    OBVIOUS
  <2>2. Applied(l, c) = m
    BY <1>4, <2>1 DEF Applied
  <2>3. m.recorded = l.recorded
    BY <1>1, <2>1 DEF AppliedPrepare, LedgerType
  <2> QED
    BY <1>1, <2>2, <2>3
<1>5. CASE c.type = "decision"
  <2>1. PICK m, d : /\ m = AppliedDecision(l, c.commit)
                    /\ d = IF c.commit THEN Recorded(l, l.effects) ELSE l
    OBVIOUS
  <2>2. Applied(l, c) = m
    BY <1>5, <2>1 DEF Applied
  <2>3. c.commit \in BOOLEAN
    BY <1>5 DEF CommandSound
  <2>4. d \in LedgerType /\ l.recorded <= d.recorded
    BY <1>1, <1>2, <2>1, <2>3
  <2>5. m = [d EXCEPT !.reserved = 0, !.effects = 0]
    BY <2>1 DEF AppliedDecision
  <2>6. m.recorded = d.recorded
    BY <2>4, <2>5 DEF LedgerType
  <2> QED
    BY <2>2, <2>4, <2>6
<1>6. CASE c.type = "delivered"
  <2>1. Applied(l, c) = AppliedDelivered(l, c.rows)
    BY <1>6 DEF Applied
  <2>2. CASE Compacted(l, c.rows) \/ Unknown(l, c.rows)
    BY <1>1, <2>1, <2>2 DEF AppliedDelivered
  <2>3. CASE ~ (Compacted(l, c.rows) \/ Unknown(l, c.rows))
    <3>1. c.rows \subseteq l.owed \cup l.retained
      BY <2>3 DEF Unknown
    <3>2. PICK m : m = MarkedDelivered(l, c.rows)
      OBVIOUS
    <3>3. SoundLedger(m) /\ m.recorded = l.recorded
      BY <1>1, <3>1, <3>2, MarkedSound
    <3>4. AppliedDelivered(l, c.rows) = Reclaim(m)
      BY <2>3, <3>2 DEF AppliedDelivered, MarkedDelivered
    <3>5. Reclaim(m).recorded = l.recorded
      BY <3>3, ReclaimSound
    <3> QED
      BY <1>1, <2>1, <3>4, <3>5
  <2> QED
    BY <2>2, <2>3
<1> QED
  BY <1>3, <1>4, <1>5, <1>6 DEF CommandSound

\* h[i] is the ledger after the first i commands.
Builds(h) ==
    /\ h[0] = EmptyLedger
    /\ \A i \in 0..Len(log) : ReplicaSound(h[i])
    /\ \A i \in 1..Len(log) : h[i] = Applied(h[i - 1], log[i])
    /\ \A i, j \in 0..Len(log) : i <= j => h[i].recorded <= h[j].recorded

Reached(h) ==
    \A r \in Replica : applied[r] \in 0..Len(log) /\ ledger[r] = h[applied[r]]

Names(rows, l) == \A row \in rows : row <= l.recorded

NamesKnown(h) ==
    /\ \A i \in 1..Len(log) : log[i].type = "delivered" => Names(log[i].rows, h[i - 1])
    /\ \A rows \in proposals : Names(rows, h[Len(log)])

History == \E h : Builds(h) /\ Reached(h) /\ NamesKnown(h)

\* What a sound ledger recorded it has reclaimed or knows.
LEMMA NamedIsKnown ==
    ASSUME NEW l, SoundLedger(l), NEW rows \in SUBSET Nat, Names(rows, l)
    PROVE  ~ Unknown(l, rows)
<1>1. /\ l.through \in Nat /\ l.recorded \in Nat
      /\ l.owed \cup l.retained = (l.through + 1)..l.recorded
  BY DEF SoundLedger, LedgerType
<1>2. SUFFICES ASSUME ~ Compacted(l, rows) PROVE rows \subseteq l.owed \cup l.retained
  BY DEF Unknown
<1> QED
  BY <1>1, <1>2 DEF Compacted, Names

LEMMA HistoryCommitted ==
    ASSUME LedgerInvariant, History, NEW c, CommandSound(c), CommitEntry(c),
           c.type = "delivered" => c.rows \in proposals
    PROVE  History'
<1>0. PICK n : n = Len(log)
  BY Zenon
<1>1. PICK h : Builds(h) /\ Reached(h) /\ NamesKnown(h)
  BY DEF History
<1>2. /\ log' = Append(log, c) /\ UNCHANGED <<applied, ledger, proposals, confirmed>>
      /\ log \in Seq(Commands) /\ n \in Nat
  BY <1>0 DEF CommitEntry, LedgerInvariant
<1>3. /\ Len(log') = n + 1 /\ log'[n + 1] = c
      /\ \A i \in 1..n : log'[i] = log[i]
  BY <1>0, <1>2
<1>4. PICK g : g = [i \in 0..(n + 1) |-> IF i <= n THEN h[i] ELSE Applied(h[n], c)]
  BY Zenon
<1>5. /\ \A i \in 0..n : g[i] = h[i]
      /\ g[n + 1] = Applied(g[n], c) /\ g[n] = h[n]
  BY <1>2, <1>4
<1>6. /\ h[0] = EmptyLedger /\ \A i \in 0..n : ReplicaSound(h[i])
      /\ \A i \in 1..n : h[i] = Applied(h[i - 1], log[i])
      /\ \A i, j \in 0..n : i <= j => h[i].recorded <= h[j].recorded
  BY <1>0, <1>1 DEF Builds
<1>7. ReplicaSound(g[n + 1]) /\ h[n].recorded <= g[n + 1].recorded
  BY <1>2, <1>5, <1>6, AppliedSound, AppliedGrows
<1>8. \A i \in 0..(n + 1) : i \in 0..n \/ i = n + 1
  BY <1>2
<1>9. \A i \in 0..(n + 1) : g[i].recorded \in Nat /\ ReplicaSound(g[i])
  BY <1>5, <1>6, <1>7, <1>8 DEF ReplicaSound, SoundLedger, LedgerType
<1>10. ASSUME NEW i \in 0..(n + 1), NEW j \in 0..(n + 1), i <= j
      PROVE  g[i].recorded <= g[j].recorded
  <2>1. CASE j \in 0..n
    <3>1. i \in 0..n
      BY <1>2, <1>10, <2>1
    <3> QED
      BY <1>5, <1>6, <1>10, <2>1, <3>1
  <2>2. CASE j = n + 1
    <3>1. CASE i \in 0..n
      <4>1. n \in 0..n /\ i <= n
        BY <1>2, <3>1
      <4>2. h[i].recorded <= h[n].recorded
        BY <1>6, <3>1, <4>1
      <4>3. /\ h[i].recorded \in Nat /\ h[n].recorded \in Nat
            /\ g[j].recorded \in Nat /\ g[i] = h[i]
        BY <1>5, <1>9, <3>1, <4>1
      <4> QED
        BY <1>7, <2>2, <4>2, <4>3
    <3>2. CASE i = n + 1
      BY <1>9, <2>2, <3>2
    <3> QED
      BY <1>8, <3>1, <3>2
  <2> QED
    BY <1>8, <2>1, <2>2
<1>11. ASSUME NEW i \in 1..(n + 1) PROVE g[i] = Applied(g[i - 1], log'[i])
  <2>1. CASE i = n + 1
    <3>1. i - 1 = n
      BY <1>2, <2>1
    <3> QED
      BY <1>3, <1>5, <2>1, <3>1
  <2>2. CASE i \in 1..n
    <3>1. i \in 0..n /\ i - 1 \in 0..n
      BY <1>2, <2>2
    <3>2. log'[i] = log[i]
      BY <1>3, <2>2
    <3> QED
      BY <1>5, <1>6, <2>2, <3>1, <3>2
  <2>3. i = n + 1 \/ i \in 1..n
    BY <1>2
  <2> QED
    BY <2>1, <2>2, <2>3
<1>12. g[0] = EmptyLedger
  BY <1>2, <1>5, <1>6
<1>13. Builds(g)'
  <2>1. \A i \in 0..(n + 1) : ReplicaSound(g[i])'
    BY <1>2, <1>9 DEF ReplicaSound
  <2>2. Len(log)' = n + 1
    BY <1>3
  <2> QED
    BY <1>10, <1>11, <1>12, <2>1, <2>2 DEF Builds
<1>14. Reached(g)'
  <2>1. \A r \in Replica : applied[r] \in 0..n /\ ledger[r] = h[applied[r]]
    BY <1>0, <1>1 DEF Reached
  <2>2. \A r \in Replica : applied[r] \in 0..(n + 1) /\ ledger[r] = g[applied[r]]
    BY <1>2, <1>5, <2>1
  <2> QED
    BY <1>2, <1>3, <2>2 DEF Reached
<1>15. NamesKnown(g)'
  <2>1. /\ \A i \in 1..n : log[i].type = "delivered" => Names(log[i].rows, h[i - 1])
        /\ \A rows \in proposals : Names(rows, h[n])
    BY <1>0, <1>1 DEF NamesKnown
  <2>2. ASSUME NEW i \in 1..(n + 1), log'[i].type = "delivered"
        PROVE  Names(log'[i].rows, g[i - 1])
    <3>1. CASE i \in 1..n
      <4>1. i - 1 \in 0..n /\ log'[i] = log[i]
        BY <1>2, <1>3, <3>1
      <4> QED
        BY <1>5, <2>1, <2>2, <3>1, <4>1
    <3>2. CASE i = n + 1
      <4>1. i - 1 = n /\ log'[i] = c
        BY <1>2, <1>3, <3>2
      <4> QED
        BY <1>5, <2>1, <2>2, <4>1
    <3>3. i = n + 1 \/ i \in 1..n
      BY <1>2
    <3> QED
      BY <3>1, <3>2, <3>3
  <2>3. ASSUME NEW rows \in proposals PROVE Names(rows, g[n + 1])
    <3>1. \A row \in rows : row \in Nat /\ row <= h[n].recorded
      BY <2>1, Zenon DEF LedgerInvariant, Names
    <3>2. h[n].recorded \in Nat /\ g[n + 1].recorded \in Nat
      BY <1>2, <1>5, <1>9
    <3> QED
      BY <1>7, <3>1, <3>2 DEF Names
  <2> QED
    BY <1>2, <1>3, <2>2, <2>3 DEF NamesKnown, Names
<1> QED
  BY <1>13, <1>14, <1>15 DEF History

\* Each step but a commit leaves the history as it is.
LEMMA BuildsSame ==
    ASSUME NEW h, Builds(h), log' = log, confirmed \subseteq confirmed'
    PROVE  Builds(h)'
<1>1. \A l : ReplicaSound(l) => ReplicaSound(l)'
  BY ConfirmedGrows
<1>2. \A i \in 0..Len(log) : ReplicaSound(h[i])'
  BY <1>1 DEF Builds
<1> QED
  BY <1>2 DEF Builds

LEMMA NamesSame ==
    ASSUME NEW h, NamesKnown(h), log' = log, proposals' = proposals
    PROVE  NamesKnown(h)'
BY DEF NamesKnown, Names

LEMMA HistoryApplied ==
    ASSUME LedgerInvariant, History, NEW r \in Replica, ApplyNext(r), alarms = 0
    PROVE  History' /\ alarms' = 0
<1>1. PICK h : Builds(h) /\ Reached(h) /\ NamesKnown(h)
  BY DEF History
<1>2. PICK a, c : a = applied[r] /\ c = log[a + 1]
  BY Zenon
<1>3. /\ a \in 0..Len(log) /\ ledger[r] = h[a] /\ a < Len(log) /\ Len(log) \in Nat
      /\ applied \in [Replica -> Nat] /\ ledger \in [Replica -> LedgerType]
  BY <1>1, <1>2 DEF Reached, ApplyNext, LedgerInvariant
<1>4. a + 1 \in 1..Len(log) /\ (a + 1) - 1 = a /\ a + 1 \in 0..Len(log)
  BY <1>3
<1>5. h[a + 1] = Applied(ledger[r], c) /\ ReplicaSound(ledger[r])
  BY <1>1, <1>2, <1>3, <1>4 DEF Builds
<1>6. UNCHANGED <<log, proposals, confirmed>>
  BY DEF ApplyNext
<1>7. /\ applied' = [applied EXCEPT ![r] = a + 1]
      /\ ledger' = [ledger EXCEPT ![r] = h[a + 1]]
  BY <1>2, <1>5 DEF ApplyNext
<1>8. \A u \in Replica : applied'[u] \in 0..Len(log) /\ ledger'[u] = h[applied'[u]]
  BY <1>1, <1>3, <1>4, <1>7 DEF Reached
<1>9. Reached(h)'
  BY <1>6, <1>8 DEF Reached
<1>10. Builds(h)' /\ NamesKnown(h)'
  BY <1>1, <1>6, BuildsSame, NamesSame
<1>11. ASSUME c.type = "delivered" PROVE ~ Unknown(ledger[r], c.rows)
  <2>1. Names(c.rows, ledger[r])
    BY <1>1, <1>2, <1>3, <1>4, <1>11 DEF NamesKnown
  <2>2. c.rows \in SUBSET Nat
    <3>1. CommandSound(c) /\ confirmed \subseteq Nat
      BY <1>2, <1>4 DEF LedgerInvariant
    <3>2. c.rows \subseteq confirmed
      BY <1>11, <3>1 DEF CommandSound
    <3>3. \A row \in c.rows : row \in Nat
      BY <3>1, <3>2, Zenon
    <3> QED
      BY <3>3, Zenon
  <2> QED
    BY <1>5, <2>1, <2>2, NamedIsKnown DEF ReplicaSound
<1>12. alarms' = 0
  BY <1>2, <1>11 DEF ApplyNext
<1> QED
  BY <1>9, <1>10, <1>12 DEF History

LEMMA HistoryInstalled ==
    ASSUME LedgerInvariant, History, NEW r \in Replica, NEW from \in Replica,
           InstallSnapshot(r, from)
    PROVE  History'
<1>1. PICK h : Builds(h) /\ Reached(h) /\ NamesKnown(h)
  BY DEF History
<1>2. /\ applied' = [applied EXCEPT ![r] = applied[from]]
      /\ ledger' = [ledger EXCEPT ![r] = ledger[from]]
      /\ UNCHANGED <<log, proposals, confirmed>>
      /\ applied \in [Replica -> Nat] /\ ledger \in [Replica -> LedgerType]
  BY DEF InstallSnapshot, LedgerInvariant
<1>3. \A u \in Replica : applied'[u] \in 0..Len(log) /\ ledger'[u] = h[applied'[u]]
  BY <1>1, <1>2 DEF Reached
<1>4. Reached(h)'
  BY <1>2, <1>3 DEF Reached
<1> QED
  BY <1>1, <1>2, <1>4, BuildsSame, NamesSame DEF History

\* What a lane names it read from its own ledger.
LEMMA HistoryProposed ==
    ASSUME LedgerInvariant, History, NEW r \in Replica, Propose(r)
    PROVE  History'
<1>1. PICK h : Builds(h) /\ Reached(h) /\ NamesKnown(h)
  BY DEF History
<1>2. UNCHANGED <<log, applied, ledger, confirmed>>
  BY DEF Propose
<1>3. PICK rows : /\ rows \subseteq ledger[r].owed \cup ledger[r].retained
                  /\ proposals' = proposals \cup {rows}
  BY DEF Propose
<1>4. PICK l, m : l = ledger[r] /\ m = h[Len(log)]
  BY Zenon
<1>5. /\ Len(log) \in Nat /\ applied[r] \in 0..Len(log) /\ l = h[applied[r]]
      /\ Len(log) \in 0..Len(log)
  BY <1>1, <1>4 DEF Reached, LedgerInvariant
<1>6. SoundLedger(l) /\ SoundLedger(m) /\ l.recorded <= m.recorded
  BY <1>1, <1>4, <1>5 DEF Builds, ReplicaSound
<1>7. Names(rows, m)
  <2>1. /\ l.through \in Nat /\ l.recorded \in Nat /\ m.recorded \in Nat
        /\ l.owed \cup l.retained = (l.through + 1)..l.recorded
    BY <1>6 DEF SoundLedger, LedgerType
  <2>2. \A row \in rows : row \in (l.through + 1)..l.recorded
    BY <1>3, <1>4, <2>1
  <2> QED
    BY <1>6, <2>1, <2>2 DEF Names
<1>8. NamesKnown(h)'
  <2>1. \A named \in proposals' : Names(named, h[Len(log)])
    BY <1>1, <1>3, <1>4, <1>7 DEF NamesKnown
  <2> QED
    BY <1>1, <1>2, <2>1 DEF NamesKnown, Names
<1>9. Reached(h)'
  BY <1>1, <1>2 DEF Reached
<1> QED
  BY <1>1, <1>2, <1>8, <1>9, BuildsSame DEF History

LEMMA HistoryConfirmed ==
    ASSUME History, UNCHANGED <<log, applied, ledger, proposals>>,
           confirmed \subseteq confirmed'
    PROVE  History'
<1>1. PICK h : Builds(h) /\ Reached(h) /\ NamesKnown(h)
  BY DEF History
<1>2. Reached(h)'
  BY <1>1 DEF Reached
<1> QED
  BY <1>1, <1>2, BuildsSame, NamesSame DEF History

LEMMA HistoryInit == LedgerInit => History /\ alarms = 0
<1> SUFFICES ASSUME LedgerInit PROVE History /\ alarms = 0
  OBVIOUS
<1>1. PICK e, h : e = EmptyLedger /\ h = [i \in {0} |-> e]
  BY Zenon
<1>2. Len(log) = 0 /\ 0..Len(log) = {0} /\ 1..Len(log) = {} /\ proposals = {}
  BY DEF LedgerInit
<1>3. h[0] = e /\ \A r \in Replica : applied[r] = 0 /\ ledger[r] = h[0]
  BY <1>1 DEF LedgerInit
<1>4. SoundLedger(e) /\ e.recorded = 0
  <2>1. /\ e \in LedgerType /\ e.recorded = 0 /\ e.owed = {} /\ e.retained = {}
        /\ e.through = 0 /\ e.reclaimed = 0 /\ e.reserved = 0 /\ e.effects = 0
    BY <1>1 DEF EmptyLedger, LedgerType
  <2>2. Cardinality({}) = 0
    BY FS_EmptySet
  <2> QED
    BY <2>1, <2>2, LedgerAssumption DEF SoundLedger
<1>5. ReplicaSound(h[0]) /\ h[0].recorded <= h[0].recorded
  BY <1>3, <1>4 DEF ReplicaSound
<1>6. Builds(h) /\ Reached(h) /\ NamesKnown(h)
  BY <1>1, <1>2, <1>3, <1>5 DEF Builds, Reached, NamesKnown
<1> QED
  BY <1>6 DEF History, LedgerInit

LEMMA HistoryNext ==
    ASSUME LedgerInvariant, History, alarms = 0, [LedgerNext]_ledgerVars
    PROVE  History' /\ alarms' = 0
<1>1. CASE UNCHANGED ledgerVars
  BY <1>1, HistoryConfirmed DEF ledgerVars
<1>2. ASSUME NEW c, CommandSound(c), CommitEntry(c),
             c.type = "delivered" => c.rows \in proposals
      PROVE  History' /\ alarms' = 0
  BY <1>2, HistoryCommitted DEF CommitEntry
<1>3. CASE CommitStatement
  <2>1. PICK events \in 0..1 : CommitEntry(Write(events))
    BY <1>3 DEF CommitStatement
  <2> QED
    BY <1>2, <2>1, ConstructorsSound DEF Write
<1>4. CASE CommitTransaction
  <2>1. CASE \E n \in Operations : \E events \in 0..n : CommitEntry(Prepare(n, events))
    <3>1. PICK n \in Operations : \E events \in 0..n : CommitEntry(Prepare(n, events))
      BY <2>1
    <3>2. PICK events \in 0..n : CommitEntry(Prepare(n, events))
      BY <3>1
    <3> QED
      BY <1>2, <3>2, ConstructorsSound DEF Prepare
  <2>2. CASE \E commit \in BOOLEAN : CommitEntry(Decision(commit))
    <3>1. PICK commit \in BOOLEAN : CommitEntry(Decision(commit))
      BY <2>2
    <3> QED
      BY <1>2, <3>1, ConstructorsSound DEF Decision
  <2> QED
    BY <1>4, <2>1, <2>2 DEF CommitTransaction
<1>5. CASE CommitAcknowledgement
  <2>1. PICK rows \in proposals : CommitEntry(Delivered(rows))
    BY <1>5 DEF CommitAcknowledgement
  <2> QED
    BY <1>2, <2>1, ConstructorsSound DEF Delivered
<1>6. ASSUME NEW r \in Replica, ApplyNext(r) PROVE History' /\ alarms' = 0
  BY <1>6, HistoryApplied
<1>7. ASSUME NEW r \in Replica, Confirm(r) PROVE History' /\ alarms' = 0
  <2>1. /\ UNCHANGED <<log, applied, ledger, proposals, alarms>>
        /\ confirmed \subseteq confirmed'
    BY <1>7 DEF Confirm
  <2> QED
    BY <2>1, HistoryConfirmed
<1>8. ASSUME NEW r \in Replica, Propose(r) PROVE History' /\ alarms' = 0
  <2>1. alarms' = alarms
    BY <1>8 DEF Propose
  <2> QED
    BY <1>8, <2>1, HistoryProposed
<1>9. ASSUME NEW r \in Replica, NEW from \in Replica, InstallSnapshot(r, from)
      PROVE  History' /\ alarms' = 0
  <2>1. alarms' = alarms
    BY <1>9 DEF InstallSnapshot
  <2> QED
    BY <1>9, <2>1, HistoryInstalled
<1> QED
  BY <1>1, <1>3, <1>4, <1>5, <1>6, <1>7, <1>8, <1>9, Zenon DEF LedgerNext

LEMMA HistoryHolds == LedgerSpec => [](History /\ alarms = 0)
<1>1. LedgerInvariant /\ (History /\ alarms = 0) /\ [LedgerNext]_ledgerVars
         => (History /\ alarms = 0)'
  BY HistoryNext
<1> QED
  BY <1>1, HistoryInit, LedgerInvariantHolds, PTL DEF LedgerSpec

\* An acknowledgement that commits is never refused as naming an unknown
\* row, on any replica, however far its ledger lags or however late and
\* often the proposal commits.
THEOREM NoUnknownRowAlways == LedgerSpec => []NoUnknownRow
<1>1. History /\ alarms = 0 => NoUnknownRow
  BY DEF NoUnknownRow
<1> QED
  BY <1>1, HistoryHolds, PTL

\* Replicas that have applied as many commands have the same tables, those
\* that adopted a snapshot included; one that has applied fewer has given
\* out no position the other has not.
ReplicasAgree ==
    \A r, s \in Replica :
       /\ applied[r] = applied[s] => ledger[r] = ledger[s]
       /\ applied[r] <= applied[s] => ledger[r].recorded <= ledger[s].recorded

\* The replicas of a partition build one ledger from the log.
THEOREM ReplicasAgreeAlways == LedgerSpec => []ReplicasAgree
<1>1. History => ReplicasAgree
  BY DEF History, Builds, Reached, ReplicasAgree
<1>2. History /\ alarms = 0 => ReplicasAgree
  BY <1>1
<1> QED
  BY <1>2, HistoryHolds, PTL

\* The log, the tables and the proposals keep their types, and no replica
\* has applied more than is committed.
THEOREM LedgerTypes == LedgerSpec => []LedgerTypeOK
<1>1. LedgerInvariant /\ (History /\ alarms = 0) => LedgerTypeOK
  <2> SUFFICES ASSUME LedgerInvariant, History, alarms = 0
               PROVE  LedgerTypeOK
    OBVIOUS
  <2>1. \A r \in Replica : applied[r] \in 0..Len(log)
    BY Zenon DEF History, Reached
  <2>2. applied \in [Replica -> 0..Len(log)]
    BY <2>1 DEF LedgerInvariant
  <2>3. ASSUME NEW r \in Replica
        PROVE  /\ ledger[r].recorded \in Nat /\ ledger[r].through \in Nat
               /\ ledger[r].reclaimed \in Nat /\ ledger[r].reserved \in Nat
               /\ ledger[r].effects \in 0..ledger[r].reserved
               /\ ledger[r].owed \subseteq Nat /\ ledger[r].retained \subseteq Nat
    <3>1. PICK l : l = ledger[r]
      BY Zenon
    <3>2. SoundLedger(l)
      BY <3>1, Zenon DEF LedgerInvariant, ReplicaSound
    <3>3. /\ l.recorded \in Nat /\ l.through \in Nat /\ l.reclaimed \in Nat
          /\ l.reserved \in Nat /\ l.effects \in 0..l.reserved
          /\ l.owed \subseteq Nat /\ l.retained \subseteq Nat
      BY <3>2 DEF SoundLedger, LedgerType
    <3> QED
      BY <3>1, <3>3, Zenon
  <2>4. log \in Seq(Commands) /\ confirmed \subseteq Nat /\ proposals \subseteq SUBSET Nat
    BY DEF LedgerInvariant
  <2>5. alarms \in 0..1
    OBVIOUS
  <2> QED
    BY <2>2, <2>3, <2>4, <2>5, Zenon DEF LedgerTypeOK
<1> QED
  BY <1>1, LedgerInvariantHolds, HistoryHolds, PTL
=============================================================================
