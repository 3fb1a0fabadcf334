------------------------ MODULE ReconcileQueueProofs ------------------------
(***************************************************************************)
(* Theorems about ReconcileQueue, for any set of owner keys and any        *)
(* bounds.                                                                 *)
(***************************************************************************)
EXTENDS ReconcileQueue, FiniteSetTheorems, TLAPS

-----------------------------------------------------------------------------
(* Sequences that list a set without repetition: the insertion order of    *)
(* the pending map, and the keys a drain has still to visit.               *)

Elements(s) == {s[i] : i \in 1..Len(s)}

Lists(s) ==
    s \in Seq(Key) /\ \A i, j \in 1..Len(s) : s[i] = s[j] => i = j

LEMMA JoinKeys ==
    ASSUME NEW a \in Seq(Key), NEW b \in Seq(Key)
    PROVE  a \o b \in Seq(Key) /\ Len(a \o b) = Len(a) + Len(b)
  OBVIOUS

LEMMA EmptyLists == Lists(<<>>) /\ Elements(<<>>) = {}
  BY DEF Lists, Elements

LEMMA AppendLists ==
    ASSUME NEW s, Lists(s), NEW k \in Key, k \notin Elements(s)
    PROVE  /\ Lists(Append(s, k))
           /\ Elements(Append(s, k)) = Elements(s) \cup {k}
  BY DEF Lists, Elements

LEMMA ConsLists ==
    ASSUME NEW s, Lists(s), NEW k \in Key, k \notin Elements(s)
    PROVE  /\ Lists(<<k>> \o s)
           /\ Elements(<<k>> \o s) = Elements(s) \cup {k}
  <1> DEFINE t == <<k>> \o s
  <1>1. /\ t \in Seq(Key) /\ Len(t) = Len(s) + 1 /\ t[1] = k
        /\ \A i \in 1..Len(s) : t[i + 1] = s[i]
    BY DEF Lists
  <1>2. \A i \in 1..Len(t) : i = 1 \/ (i - 1 \in 1..Len(s) /\ t[i] = s[i - 1])
    BY <1>1 DEF Lists
  <1> HIDE DEF t
  <1>3. Lists(t)
    BY <1>1, <1>2 DEF Lists, Elements
  <1>4. ASSUME NEW x PROVE x \in Elements(t) <=> x \in Elements(s) \cup {k}
    <2>1. ASSUME x \in Elements(t) PROVE x \in Elements(s) \cup {k}
      BY <1>1, <1>2, <2>1 DEF Lists, Elements
    <2>2. ASSUME x \in Elements(s) PROVE x \in Elements(t)
      <3>1. PICK i \in 1..Len(s) : x = s[i]
        BY <2>2 DEF Elements
      <3>2. i + 1 \in 1..Len(t) /\ t[i + 1] = x
        BY <1>1, <3>1 DEF Lists
      <3> QED
        BY <3>2 DEF Elements
    <2>3. k \in Elements(t)
      <3>1. 1 \in 1..Len(t) /\ t[1] = k
        BY <1>1 DEF Lists
      <3> QED
        BY <3>1 DEF Elements
    <2> QED
      BY <2>1, <2>2, <2>3
  <1> QED
    BY <1>3, <1>4 DEF t

LEMMA TailLists ==
    ASSUME NEW s, Lists(s), s # <<>>
    PROVE  /\ Head(s) \in Key /\ Head(s) \in Elements(s)
           /\ Lists(Tail(s))
           /\ Elements(Tail(s)) = Elements(s) \ {Head(s)}
  <1> DEFINE t == Tail(s)
  <1>1. /\ s \in Seq(Key) /\ Len(s) >= 1 /\ Len(s) \in Nat /\ Head(s) = s[1]
        /\ t \in Seq(Key) /\ Len(t) = Len(s) - 1
        /\ \A i \in 1..Len(t) : t[i] = s[i + 1]
    BY DEF Lists
  <1>2. Head(s) \in Key /\ Head(s) \in Elements(s)
    BY <1>1 DEF Elements
  <1> HIDE DEF t
  <1>3. Lists(t)
    BY <1>1 DEF Lists
  <1>4. ASSUME NEW x PROVE x \in Elements(t) <=> x \in Elements(s) \ {Head(s)}
    <2>1. ASSUME x \in Elements(t) PROVE x \in Elements(s) \ {Head(s)}
      BY <1>1, <2>1 DEF Lists, Elements
    <2>2. ASSUME x \in Elements(s) \ {Head(s)} PROVE x \in Elements(t)
      <3>1. PICK i \in 1..Len(s) : x = s[i]
        BY <2>2 DEF Elements
      <3>2. i # 1 /\ i - 1 \in 1..Len(t) /\ t[i - 1] = s[i]
        BY <1>1, <2>2, <3>1
      <3> QED
        BY <3>1, <3>2 DEF Elements
    <2> QED
      BY <2>1, <2>2
  <1> QED
    BY <1>2, <1>3, <1>4 DEF t

(* Without deletes the one entry of a key and keeps the order of the rest. *)
LEMMA WithoutLists ==
    ASSUME NEW s, Lists(s), NEW k
    PROVE  /\ Lists(Without(s, k))
           /\ Elements(Without(s, k)) = Elements(s) \ {k}
  <1> DEFINE at == {i \in 1..Len(s) : s[i] = k}
             n == CHOOSE i \in at : TRUE
             t == Without(s, k)
  <1>1. CASE at = {}
    <2>1. t = s
      BY <1>1 DEF Without
    <2>2. k \notin Elements(s)
      BY <1>1 DEF Elements
    <2> QED
      BY <2>1, <2>2
  <1>2. CASE at # {}
    <2>1. n \in 1..Len(s) /\ s[n] = k
      BY <1>2
    <2>2. t = SubSeq(s, 1, n - 1) \o SubSeq(s, n + 1, Len(s))
      BY <1>2, Zenon DEF Without
    <2> HIDE DEF at, n, t
    <2>3. /\ t \in Seq(Key) /\ Len(t) = Len(s) - 1 /\ Len(s) \in Nat
          /\ \A i \in 1..Len(t) : t[i] = IF i < n THEN s[i] ELSE s[i + 1]
      <3> DEFINE a == SubSeq(s, 1, n - 1)
                 b == SubSeq(s, n + 1, Len(s))
      <3>1. s \in Seq(Key) /\ Len(s) \in Nat /\ n \in Nat /\ n >= 1 /\ n =< Len(s)
        BY <2>1 DEF Lists
      <3>2. /\ a \in Seq(Key) /\ Len(a) = n - 1
            /\ \A i \in 1..(n - 1) : a[i] = s[i]
        BY <3>1
      <3>3. /\ b \in Seq(Key) /\ Len(b) = Len(s) - n
            /\ \A i \in 1..(Len(s) - n) : b[i] = s[n + i]
        BY <3>1
      <3>4. t = a \o b
        BY <2>2
      <3> HIDE DEF a, b
      <3>5. t \in Seq(Key) /\ Len(t) = Len(s) - 1
        <4>1. t \in Seq(Key) /\ Len(t) = Len(a) + Len(b)
          <5>1. a \in Seq(Key) /\ b \in Seq(Key)
            BY <3>2, <3>3
          <5> QED
            BY <5>1, <3>4, JoinKeys, Zenon
        <4> QED
          BY <3>1, <3>2, <3>3, <4>1
      <3>6. ASSUME NEW i \in 1..Len(t) PROVE t[i] = IF i < n THEN s[i] ELSE s[i + 1]
        <4>1. CASE i < n
          BY <3>1, <3>2, <3>3, <3>4, <3>5, <4>1
        <4>2. CASE ~(i < n)
          <5>1. i - (n - 1) \in 1..(Len(s) - n) /\ n + (i - (n - 1)) = i + 1
            BY <3>1, <3>5, <4>2
          <5>2. t[i] = b[i - (n - 1)]
            BY <3>1, <3>2, <3>3, <3>4, <3>5, <4>2, <5>1
          <5> QED
            BY <3>3, <4>2, <5>1, <5>2
        <4> QED
          BY <4>1, <4>2
      <3> QED
        BY <3>1, <3>5, <3>6
    <2>4. Lists(t)
      BY <2>1, <2>3 DEF Lists
    <2>5. ASSUME NEW x PROVE x \in Elements(t) <=> x \in Elements(s) \ {k}
      <3>1. ASSUME x \in Elements(t) PROVE x \in Elements(s) \ {k}
        BY <2>1, <2>3, <3>1 DEF Lists, Elements
      <3>2. ASSUME x \in Elements(s) \ {k} PROVE x \in Elements(t)
        <4>1. PICK i \in 1..Len(s) : x = s[i]
          BY <3>2 DEF Elements
        <4>2. i # n
          BY <2>1, <3>2, <4>1
        <4>3. CASE i < n
          BY <2>1, <2>3, <4>1, <4>3 DEF Elements
        <4>4. CASE i > n
          <5>1. i - 1 \in 1..Len(t) /\ t[i - 1] = s[i]
            BY <2>1, <2>3, <4>4
          <5> QED
            BY <4>1, <5>1 DEF Elements
        <4> QED
          BY <2>1, <4>1, <4>2, <4>3, <4>4
      <3> QED
        BY <3>1, <3>2
    <2> QED
      BY <2>4, <2>5 DEF t
  <1> QED
    BY <1>1, <1>2

-----------------------------------------------------------------------------
(* The inductive invariant.                                                *)

MapTypes ==
    /\ pending \in [Key -> Item] /\ retryWorkItems \in [Key -> Item]
    /\ exhaustedWorkItems \in [Key -> Item] /\ inFlight \in [Key -> Item]

FlagTypes ==
    /\ failureCount \in [Key -> 0..MaxAttempts]
    /\ fenceTokens \in [Key -> 0..MaxFence]
    /\ drain \in {"idle", "scheduled", "running"}
    /\ claimed \in 0..MaxItemsPerDrain
    /\ stopped \in BOOLEAN /\ idleWaiting \in BOOLEAN
    /\ discards \in 0..MaxDiscards

WorkTypes ==
    /\ enqueued \in 0..MaxWork
    /\ reconciled \in SUBSET Work /\ late \in SUBSET Work
    /\ answer \in [Work -> {"none", "resolved", "rejected"}]

(* The insertion order lists exactly the pending keys, and a drain visits  *)
(* keys that are pending still, each once.                                 *)
OrderSound ==
    /\ Lists(order) /\ Elements(order) = Queued
    /\ Lists(entries)
    /\ drain = "running" => Elements(entries) \subseteq Queued

Flying == {k \in Key : running[k] > 0}

(* Until a shutdown the calls of reconcileFn are those of the items in     *)
(* flight; after it they are a remainder nothing adds to.                  *)
FlightSound ==
    /\ running \in [Key -> 0..1]
    /\ IsFiniteSet(Flying) /\ Cardinality(Flying) <= MaxConcurrency
    /\ ~ stopped => Flying = Busy

StoppedSound ==
    stopped =>
       /\ drain = "idle" /\ ~ idleWaiting
       /\ \A k \in Key : pending[k] = NoItem /\ retryWorkItems[k] = NoItem
                         /\ exhaustedWorkItems[k] = NoItem /\ inFlight[k] = NoItem

(* The works of a run, and of every caller told of success, were handed    *)
(* over; those of an item given up were answered then or came late; and    *)
(* WaitersFollowTheirWork.                                                 *)
WorksSound ==
    /\ \A w \in Work : answer[w] = "resolved" => w \in reconciled
    /\ \A k \in Key : inFlight[k].works \subseteq reconciled
    /\ \A k \in Key : \A w \in exhaustedWorkItems[k].works :
          answer[w] # "none" \/ w \in late
    /\ WaitersFollowTheirWork

QueueInv ==
    /\ MapTypes /\ FlagTypes /\ WorkTypes
    /\ OneQueuedItem /\ OrderSound /\ FlightSound /\ StoppedSound
    /\ WorksSound /\ NoWakeUpLost

-----------------------------------------------------------------------------
(* What a step on one key does to each part of the invariant.  KeyStep     *)
(* names the items the key is left with; UNCHANGED is leaving it the same. *)

KeyStep(k, p, r, e, f) ==
    /\ pending' = [pending EXCEPT ![k] = p]
    /\ retryWorkItems' = [retryWorkItems EXCEPT ![k] = r]
    /\ exhaustedWorkItems' = [exhaustedWorkItems EXCEPT ![k] = e]
    /\ inFlight' = [inFlight EXCEPT ![k] = f]

LEMMA KeepsItem ==
    ASSUME NEW m \in [Key -> Item], NEW k \in Key
    PROVE  m = [m EXCEPT ![k] = m[k]]
  OBVIOUS

LEMMA SameMaps ==
    ASSUME MapTypes, NEW k \in Key,
           UNCHANGED <<pending, retryWorkItems, exhaustedWorkItems, inFlight>>
    PROVE  KeyStep(k, pending[k], retryWorkItems[k], exhaustedWorkItems[k],
                   inFlight[k])
  BY KeepsItem DEF MapTypes, KeyStep

LEMMA KeyFields ==
    ASSUME MapTypes, NEW k \in Key,
           NEW p \in Item, NEW r \in Item, NEW e \in Item, NEW f \in Item,
           KeyStep(k, p, r, e, f)
    PROVE  /\ MapTypes'
           /\ pending'[k] = p /\ retryWorkItems'[k] = r
           /\ exhaustedWorkItems'[k] = e /\ inFlight'[k] = f
           /\ \A j \in Key \ {k} :
                 /\ pending'[j] = pending[j]
                 /\ retryWorkItems'[j] = retryWorkItems[j]
                 /\ exhaustedWorkItems'[j] = exhaustedWorkItems[j]
                 /\ inFlight'[j] = inFlight[j]
  BY DEF MapTypes, KeyStep

LEMMA KeySets ==
    ASSUME MapTypes, NEW k \in Key,
           NEW p \in Item, NEW r \in Item, NEW e \in Item, NEW f \in Item,
           KeyStep(k, p, r, e, f)
    PROVE  /\ Queued' = IF Holds(p) THEN Queued \cup {k} ELSE Queued \ {k}
           /\ Busy' = IF Holds(f) THEN Busy \cup {k} ELSE Busy \ {k}
  <1>1. /\ pending'[k] = p /\ inFlight'[k] = f
        /\ \A j \in Key \ {k} : pending'[j] = pending[j] /\ inFlight'[j] = inFlight[j]
    BY KeyFields
  <1>2. \A j : j \in Queued' <=> (j \in Key /\ Holds(pending'[j]))
    BY DEF Queued, Holds
  <1>3. \A j : j \in Busy' <=> (j \in Key /\ Holds(inFlight'[j]))
    BY DEF Busy, Holds
  <1>4. \A j : j \in Queued' <=> j \in (IF Holds(p) THEN Queued \cup {k} ELSE Queued \ {k})
    BY <1>1, <1>2 DEF Queued
  <1>5. \A j : j \in Busy' <=> j \in (IF Holds(f) THEN Busy \cup {k} ELSE Busy \ {k})
    BY <1>1, <1>3 DEF Busy
  <1> QED
    BY <1>4, <1>5

OneAt(p, r, e, f) ==
    /\ ~ (Holds(p) /\ Holds(r)) /\ ~ (Holds(p) /\ Holds(e))
    /\ ~ (Holds(r) /\ Holds(e))
    /\ Holds(f) => ~ Holds(r) /\ ~ Holds(e)

LEMMA OneAtKey ==
    ASSUME OneQueuedItem, NEW k \in Key
    PROVE  OneAt(pending[k], retryWorkItems[k], exhaustedWorkItems[k], inFlight[k])
  BY DEF OneQueuedItem, OneAt

LEMMA OneItemStep ==
    ASSUME MapTypes, OneQueuedItem, NEW k \in Key,
           NEW p \in Item, NEW r \in Item, NEW e \in Item, NEW f \in Item,
           KeyStep(k, p, r, e, f), OneAt(p, r, e, f)
    PROVE  OneQueuedItem'
  <1>1. ASSUME NEW j \in Key
        PROVE  OneAt(pending'[j], retryWorkItems'[j], exhaustedWorkItems'[j],
                     inFlight'[j])
    BY KeyFields, OneAtKey
  <1> QED
    BY <1>1 DEF OneQueuedItem, OneAt, Holds

LEMMA StoppedStep ==
    ASSUME MapTypes, StoppedSound, NEW k \in Key,
           NEW p \in Item, NEW r \in Item, NEW e \in Item, NEW f \in Item,
           KeyStep(k, p, r, e, f), stopped' = stopped,
           stopped => /\ p = NoItem /\ r = NoItem /\ e = NoItem /\ f = NoItem
                      /\ drain' = drain /\ idleWaiting' = idleWaiting
    PROVE  StoppedSound'
  <1> SUFFICES ASSUME stopped
               PROVE  /\ drain' = "idle" /\ ~ idleWaiting'
                      /\ \A j \in Key :
                            /\ pending'[j] = NoItem /\ retryWorkItems'[j] = NoItem
                            /\ exhaustedWorkItems'[j] = NoItem
                            /\ inFlight'[j] = NoItem
    BY DEF StoppedSound, NoItem
  <1> QED
    BY KeyFields DEF StoppedSound

(* An answer once given stands, and the works settled have one.            *)
LEMMA SettledAnswers ==
    ASSUME WorkTypes, NEW X, NEW how \in {"resolved", "rejected"},
           answer' = Settled(X, how)
    PROVE  /\ answer' \in [Work -> {"none", "resolved", "rejected"}]
           /\ \A w \in Work :
                 /\ answer[w] # "none" => answer'[w] = answer[w]
                 /\ w \in X => answer'[w] # "none"
                 /\ answer'[w] = "resolved" =>
                       answer[w] = "resolved" \/ (w \in X /\ how = "resolved")
  BY DEF WorkTypes, Settled

LEMMA NothingSettled ==
    ASSUME WorkTypes, UNCHANGED answer
    PROVE  answer' = Settled({}, "rejected")
  BY DEF WorkTypes, Settled

LEMMA WorksStep ==
    ASSUME MapTypes, WorkTypes, WorksSound, NEW k \in Key,
           NEW p \in Item, NEW r \in Item, NEW e \in Item, NEW f \in Item,
           KeyStep(k, p, r, e, f),
           NEW X, NEW how \in {"resolved", "rejected"},
           answer' = Settled(X, how), how = "resolved" => X \subseteq reconciled,
           reconciled \subseteq reconciled', late \subseteq late',
           f.works \subseteq reconciled',
           e.works \subseteq X \cup late' \cup exhaustedWorkItems[k].works,
           HeldFor(k) \subseteq UNION {p.works, r.works, f.works, e.works, X,
                                       exhaustedWorkItems[k].works},
           enqueued' \in 0..MaxWork,
           \/ enqueued' = enqueued
           \/ /\ enqueued' = enqueued + 1
              /\ enqueued' \in UNION {p.works, r.works, f.works, e.works, X}
    PROVE  WorksSound'
  <1>0. \A w \in 1..enqueued' : w \in Work
    BY QueueAssumption DEF Work
  <1>1. /\ pending'[k] = p /\ retryWorkItems'[k] = r
        /\ exhaustedWorkItems'[k] = e /\ inFlight'[k] = f
        /\ \A j \in Key \ {k} :
              /\ pending'[j] = pending[j]
              /\ retryWorkItems'[j] = retryWorkItems[j]
              /\ exhaustedWorkItems'[j] = exhaustedWorkItems[j]
              /\ inFlight'[j] = inFlight[j]
    BY KeyFields
  <1>2. \A w \in Work :
           /\ answer[w] # "none" => answer'[w] = answer[w]
           /\ w \in X => answer'[w] # "none"
           /\ answer'[w] = "resolved" =>
                 answer[w] = "resolved" \/ (w \in X /\ how = "resolved")
    BY SettledAnswers, Zenon
  <1>3. \A w \in Work : answer'[w] = "resolved" => w \in reconciled'
    BY <1>2, Zenon DEF WorksSound
  <1>4. ASSUME NEW j \in Key PROVE inFlight'[j].works \subseteq reconciled'
    BY <1>1, Zenon DEF WorksSound
  <1>5. ASSUME NEW j \in Key, NEW w \in exhaustedWorkItems'[j].works
        PROVE  answer'[w] # "none" \/ w \in late'
    <2>1. w \in Work
      BY <1>1, <1>5, Zenon DEF MapTypes, Item
    <2>2. CASE w \in exhaustedWorkItems[j].works
      BY <1>2, <2>1, <2>2, Zenon DEF WorksSound
    <2>3. CASE w \notin exhaustedWorkItems[j].works
      BY <1>1, <1>2, <1>5, <2>1, <2>3
    <2> QED
      BY <2>2, <2>3, Zenon
  <1>6. \A j : HeldFor(j)' = UNION {pending'[j].works, retryWorkItems'[j].works,
                                    exhaustedWorkItems'[j].works, inFlight'[j].works}
    BY Zenon DEF HeldFor
  <1>7. ASSUME NEW w \in Work, w \in UNION {p.works, r.works, f.works, e.works}
        PROVE  \E j \in Key : w \in HeldFor(j)'
    BY <1>1, <1>6, <1>7
  <1>8. ASSUME NEW w \in 1..enqueued', answer'[w] = "none"
        PROVE  w \in late' \/ \E j \in Key : w \in HeldFor(j)'
    <2>1. w \in Work /\ w \notin X
      <3>1. w \in Work
        BY <1>0, <1>8, Zenon
      <3> QED
        BY <1>2, <1>8, <3>1
    <2>2. CASE w \notin 1..enqueued
      <3>1. w = enqueued' /\ enqueued' = enqueued + 1
        BY <1>8, <2>2 DEF WorkTypes
      <3> QED
        BY <1>7, <2>1, <3>1
    <2>3. CASE w \in 1..enqueued
      <3>1. answer[w] = "none"
        BY <1>2, <1>8, <2>1, Zenon
      <3>2. CASE w \in late
        BY <3>2, Zenon
      <3>3. CASE \E j \in Key : w \in HeldFor(j)
        <4>1. PICK j \in Key : w \in HeldFor(j)
          BY <3>3, Zenon
        <4>2. CASE j # k
          <5>1. HeldFor(j)' = HeldFor(j)
            BY <1>1, <1>6, <4>2, Zenon DEF HeldFor
          <5> QED
            BY <4>1, <5>1, Zenon
        <4>3. CASE j = k
          <5>1. CASE w \in exhaustedWorkItems[k].works
            BY <3>1, <5>1, Zenon DEF WorksSound
          <5>2. CASE w \notin exhaustedWorkItems[k].works
            BY <1>7, <2>1, <4>1, <4>3, <5>2, Zenon
          <5> QED
            BY <5>1, <5>2, Zenon
        <4> QED
          BY <4>2, <4>3
      <3> QED
        BY <2>3, <3>1, <3>2, <3>3 DEF WorksSound, WaitersFollowTheirWork
    <2> QED
      BY <2>2, <2>3, Zenon
  <1>9. ASSUME NEW w \in 1..enqueued', answer'[w] = "resolved" PROVE w \in reconciled'
    <2>1. w \in Work
      BY <1>0, <1>9, Zenon
    <2> QED
      BY <1>3, <1>9, <2>1, Zenon
  <1>10. WaitersFollowTheirWork'
    BY <1>8, <1>9 DEF WaitersFollowTheirWork
  <1> QED
    BY <1>3, <1>4, <1>5, <1>10 DEF WorksSound

LEMMA OrderSame ==
    ASSUME MapTypes, OrderSound, NEW k \in Key,
           NEW p \in Item, NEW r \in Item, NEW e \in Item, NEW f \in Item,
           KeyStep(k, p, r, e, f), Holds(p) <=> Holds(pending[k]), order' = order
    PROVE  Lists(order') /\ Elements(order') = Queued'
  <1>1. Queued' = Queued
    BY KeySets DEF Queued
  <1> QED
    BY <1>1 DEF OrderSound

LEMMA OrderAppend ==
    ASSUME MapTypes, OrderSound, NEW k \in Key,
           NEW p \in Item, NEW r \in Item, NEW e \in Item, NEW f \in Item,
           KeyStep(k, p, r, e, f), Holds(p),
           order' = IF Holds(pending[k]) THEN order ELSE Append(order, k)
    PROVE  Lists(order') /\ Elements(order') = Queued'
  <1>1. CASE Holds(pending[k])
    BY <1>1, OrderSame
  <1>2. CASE ~ Holds(pending[k])
    <2>1. k \notin Elements(order)
      BY <1>2 DEF OrderSound, Queued
    <2>2. Queued' = Queued \cup {k}
      BY KeySets
    <2> QED
      BY <1>2, <2>1, <2>2, AppendLists DEF OrderSound
  <1> QED
    BY <1>1, <1>2

LEMMA OrderRemove ==
    ASSUME MapTypes, OrderSound, NEW k \in Key,
           NEW p \in Item, NEW r \in Item, NEW e \in Item, NEW f \in Item,
           KeyStep(k, p, r, e, f), ~ Holds(p), order' = Without(order, k)
    PROVE  Lists(order') /\ Elements(order') = Queued'
  <1>1. Queued' = Queued \ {k}
    BY KeySets
  <1> QED
    BY <1>1, WithoutLists DEF OrderSound

LEMMA FlightSame ==
    ASSUME FlightSound, UNCHANGED <<running, stopped, inFlight>>
    PROVE  FlightSound'
  BY DEF FlightSound, Flying, Busy

LEMMA WakeSame ==
    ASSUME NoWakeUpLost, UNCHANGED <<drain, idleWaiting, stopped>>,
           Busy' = Busy, Queued' = Queued
    PROVE  NoWakeUpLost'
  BY DEF NoWakeUpLost, Available

LEMMA WakeScheduled ==
    ASSUME FlagTypes, Quiet, ScheduleDrain
    PROVE  drain' = "scheduled" /\ NoWakeUpLost'
  <1>1. drain' = "scheduled"
    BY DEF FlagTypes, Quiet, ScheduleDrain
  <1> QED
    BY <1>1 DEF NoWakeUpLost

(* The end of a drain or a run looks at what it leaves behind.             *)
LEMMA WakeResettled ==
    ASSUME FlagTypes, NEW busy, NEW queued, NEW draining \in BOOLEAN,
           Resettle(busy, queued, draining), Busy' = busy, Queued' = queued,
           stopped' = stopped
    PROVE  /\ drain' \in {"idle", "scheduled"} /\ idleWaiting' \in BOOLEAN
           /\ NoWakeUpLost'
  <1> DEFINE schedule == draining \/ Available(busy, queued)
  <1>1. Available(Busy, Queued)' <=> Available(busy, queued)
    BY DEF Available
  <1>2. /\ drain' = IF schedule THEN "scheduled" ELSE "idle"
        /\ idleWaiting' = (idleWaiting /\ (schedule \/ busy # {} \/ queued # {}))
    BY DEF Resettle
  <1>3. drain' \in {"idle", "scheduled"} /\ idleWaiting' \in BOOLEAN
    BY <1>2 DEF FlagTypes
  <1>4. ASSUME drain' = "idle"
        PROVE  ~ Available(Busy, Queued)' /\ (idleWaiting' => Busy' \cup Queued' # {})
    BY <1>1, <1>2, <1>4
  <1> QED
    BY <1>3, <1>4 DEF NoWakeUpLost

LEMMA MergedItem ==
    ASSUME NEW item \in Item, NEW w \in Work, NEW token \in 0..MaxFence
    PROVE  /\ Merged(item, w, token) \in Item /\ Holds(Merged(item, w, token))
           /\ Merged(item, w, token).works = item.works \cup {w}
  BY DEF Item, Merged, Holds

LEMMA NoItemItem == NoItem \in Item /\ ~ Holds(NoItem) /\ NoItem.works = {}
  BY QueueAssumption DEF NoItem, Item, Holds

(* The works a step on one key answers are those in X; it drops no other.  *)
WorksMoved(k, p, r, e, f, X, how) ==
    /\ answer' = Settled(X, how) /\ (how = "resolved" => X \subseteq reconciled)
    /\ reconciled' = reconciled /\ late \subseteq late' /\ late' \in SUBSET Work
    /\ f.works \subseteq reconciled
    /\ e.works \subseteq X \cup late' \cup exhaustedWorkItems[k].works
    /\ HeldFor(k) \subseteq UNION {p.works, r.works, f.works, e.works, X,
                                   exhaustedWorkItems[k].works}
    /\ enqueued' \in 0..MaxWork
    /\ \/ enqueued' = enqueued
       \/ /\ enqueued' = enqueued + 1
          /\ enqueued' \in UNION {p.works, r.works, f.works, e.works, X}

(* A stopped queue is left as it is.                                       *)
StopKept(p, r, e, f) ==
    /\ stopped' = stopped
    /\ stopped => /\ p = NoItem /\ r = NoItem /\ e = NoItem /\ f = NoItem
                  /\ drain' = drain /\ idleWaiting' = idleWaiting

OrderKept == Lists(order') /\ Elements(order') = Queued' /\ entries' = entries

(* A step outside a drain keeps the invariant when it moves the works of   *)
(* one key between its items, or answers them.                             *)
LEMMA QuietStep ==
    ASSUME QueueInv, NEW k \in Key,
           NEW p \in Item, NEW r \in Item, NEW e \in Item, NEW f \in Item,
           KeyStep(k, p, r, e, f), OneAt(p, r, e, f), StopKept(p, r, e, f),
           FlagTypes', drain' # "running", OrderKept, FlightSound', NoWakeUpLost',
           NEW X, NEW how \in {"resolved", "rejected"},
           WorksMoved(k, p, r, e, f, X, how)
    PROVE  QueueInv'
  <1>0. MapTypes /\ WorkTypes /\ OneQueuedItem /\ OrderSound /\ StoppedSound /\ WorksSound
    BY Zenon DEF QueueInv
  <1>1. MapTypes'
    BY <1>0, KeyFields, Zenon
  <1>2. WorkTypes'
    <2>1. answer' \in [Work -> {"none", "resolved", "rejected"}]
      BY <1>0, SettledAnswers, Zenon DEF WorksMoved
    <2> QED
      BY <1>0, <2>1, Zenon DEF WorkTypes, Work, WorksMoved
  <1>3. OneQueuedItem'
    BY <1>0, OneItemStep, Zenon
  <1>4. OrderSound'
    <2>1. Lists(entries)'
      BY <1>0, Zenon DEF OrderSound, Lists, OrderKept
    <2>2. Lists(order)' /\ Elements(order)' = Queued'
      BY DEF Lists, Elements, OrderKept
    <2> QED
      BY <2>1, <2>2, Zenon DEF OrderSound
  <1>5. StoppedSound'
    BY <1>0, StoppedStep, Zenon DEF StopKept
  <1>6. WorksSound'
    <2>1. reconciled \subseteq reconciled' /\ f.works \subseteq reconciled'
      BY DEF WorksMoved
    <2> QED
      BY <1>0, <2>1, WorksStep, Zenon DEF WorksMoved
  <1> QED
    BY <1>1, <1>2, <1>3, <1>4, <1>5, <1>6 DEF QueueInv

-----------------------------------------------------------------------------
(* enqueueAndWait.                                                         *)

LEMMA AtKey ==
    ASSUME MapTypes, NEW k \in Key
    PROVE  /\ pending[k] \in Item /\ retryWorkItems[k] \in Item
           /\ exhaustedWorkItems[k] \in Item /\ inFlight[k] \in Item
  BY DEF MapTypes

LEMMA FlightHanded ==
    ASSUME WorksSound, NEW k \in Key
    PROVE  inFlight[k].works \subseteq reconciled
  BY DEF WorksSound

LEMMA FenceTypes ==
    ASSUME FlagTypes, NEW k \in Key, NEW token \in 0..MaxFence, Admit(k, token)
    PROVE  fenceTokens' \in [Key -> 0..MaxFence]
  BY DEF FlagTypes, Admit

(* What an enqueue leaves alone, and the number it gives the work.         *)
Enqueuing(w) ==
    /\ Quiet /\ enqueued < MaxWork /\ w = enqueued + 1 /\ enqueued' = w
    /\ UNCHANGED <<inFlight, entries, claimed, stopped, idleWaiting, running,
                   reconciled, discards>>

LEMMA EnqueuingFacts ==
    ASSUME QueueInv, NEW w, Enqueuing(w)
    PROVE  /\ w \in Work /\ enqueued' \in 0..MaxWork
           /\ FlightSound' /\ Busy' = Busy
  <1>1. FlightSound'
    BY FlightSame DEF QueueInv, Enqueuing
  <1>2. Busy' = Busy
    BY DEF Busy, Enqueuing
  <1>3. w \in Work /\ enqueued' \in 0..MaxWork
    BY QueueAssumption DEF QueueInv, WorkTypes, Work, Enqueuing
  <1> QED
    BY <1>1, <1>2, <1>3

LEMMA EnqueueRefusedKeeps ==
    ASSUME QueueInv, NEW k \in Key, NEW w, Enqueuing(w),
           NEW token \in 0..MaxFence, EnqueueRefused(k, w, token)
    PROVE  QueueInv'
  <1>0. /\ MapTypes /\ FlagTypes /\ WorkTypes /\ OneQueuedItem /\ OrderSound
        /\ StoppedSound /\ WorksSound /\ NoWakeUpLost
    BY DEF QueueInv
  <1>1. w \in Work /\ enqueued' \in 0..MaxWork /\ FlightSound' /\ Busy' = Busy
    BY EnqueuingFacts, Zenon
  <1>2. UNCHANGED <<pending, order, retryWorkItems, exhaustedWorkItems, inFlight,
                    failureCount, fenceTokens, drain, late, entries, claimed,
                    stopped, idleWaiting, reconciled, discards>>
    BY DEF EnqueueRefused, Enqueuing
  <1> DEFINE p == pending[k]
             r == retryWorkItems[k]
             e == exhaustedWorkItems[k]
             f == inFlight[k]
  <1>3. p \in Item /\ r \in Item /\ e \in Item /\ f \in Item
    BY <1>0, AtKey, Zenon
  <1>4. KeyStep(k, p, r, e, f)
    BY <1>0, <1>2, SameMaps, Zenon
  <1>5. OneAt(p, r, e, f)
    BY <1>0, OneAtKey, Zenon
  <1>6. FlagTypes' /\ drain' # "running"
    BY <1>0, <1>2, Zenon DEF FlagTypes, Quiet, Enqueuing
  <1>7. OrderKept
    BY <1>0, <1>2, <1>3, <1>4, OrderSame DEF OrderKept
  <1>8. NoWakeUpLost'
    <2>1. Queued' = Queued
      BY <1>2, Zenon DEF Queued
    <2> QED
      BY <1>0, <1>1, <1>2, <2>1, WakeSame
  <1>9. StopKept(p, r, e, f)
    BY <1>0, <1>2, Zenon DEF StoppedSound, StopKept
  <1>10. answer' = Settled({w}, "rejected") /\ enqueued' = enqueued + 1 /\ enqueued' = w
    BY DEF EnqueueRefused, Enqueuing
  <1>11. f.works \subseteq reconciled
    BY <1>0, FlightHanded, Zenon
  <1>12. HeldFor(k) \subseteq UNION {p.works, r.works, f.works, e.works, {w}, e.works}
    BY DEF HeldFor
  <1>13. late' \in SUBSET Work
    BY <1>0, <1>2 DEF WorkTypes
  <1>14. WorksMoved(k, p, r, e, f, {w}, "rejected")
    BY <1>1, <1>2, <1>10, <1>11, <1>12, <1>13, Zenon DEF WorksMoved
  <1> HIDE DEF p, r, e, f
  <1> QED
    BY <1>1, <1>3, <1>4, <1>5, <1>6, <1>7, <1>8, <1>9, <1>14, QuietStep

(* The work becomes pending together with the item `from' that was waiting *)
(* for it: the pending one, the one behind the timer, or none.             *)
LEMMA BecomesPendingKeeps ==
    ASSUME QueueInv, NEW k \in Key, NEW w, Enqueuing(w),
           NEW token \in 0..MaxFence, Admit(k, token), ScheduleDrain,
           NEW from \in Item, NEW r \in Item, NEW e \in Item,
           KeyStep(k, Merged(from, w, token), r, e, inFlight[k]),
           ~ Holds(r), ~ Holds(e),
           pending[k].works \cup retryWorkItems[k].works \subseteq from.works,
           failureCount' \in [Key -> 0..MaxAttempts],
           order' = IF Holds(pending[k]) THEN order ELSE Append(order, k),
           UNCHANGED late
    PROVE  QueueInv'
  <1>0. /\ MapTypes /\ FlagTypes /\ WorkTypes /\ OneQueuedItem /\ OrderSound
        /\ StoppedSound /\ WorksSound /\ NoWakeUpLost
    BY Zenon DEF QueueInv
  <1>1. w \in Work /\ enqueued' \in 0..MaxWork /\ FlightSound' /\ Busy' = Busy
    BY EnqueuingFacts, Zenon
  <1>2. UNCHANGED <<late, entries, claimed, stopped, idleWaiting, reconciled, discards>>
    BY Zenon DEF Enqueuing
  <1> DEFINE p == Merged(from, w, token)
             f == inFlight[k]
  <1>3. p \in Item /\ Holds(p) /\ p.works = from.works \cup {w}
    BY <1>1, MergedItem, Zenon
  <1>4. f \in Item
    BY <1>0, AtKey, Zenon
  <1>5. OneAt(p, r, e, f)
    BY Zenon DEF OneAt
  <1>6. drain' = "scheduled" /\ NoWakeUpLost'
    BY <1>0, WakeScheduled, Zenon DEF Enqueuing
  <1>7. FlagTypes'
    BY <1>0, <1>2, <1>6, FenceTypes, Zenon DEF FlagTypes
  <1> HIDE DEF p
  <1>8. KeyStep(k, p, r, e, f)
    BY Zenon DEF p
  <1>9. OrderKept
    BY <1>0, <1>2, <1>3, <1>4, <1>8, OrderAppend, Zenon DEF OrderKept
  <1>10. StopKept(p, r, e, f)
    BY <1>2, Zenon DEF Admit, Refused, StopKept
  <1>11. answer' = Settled({}, "rejected")
    BY <1>0, NothingSettled, Zenon DEF Admit
  <1>12. enqueued' = enqueued + 1 /\ enqueued' = w
    BY Zenon DEF Enqueuing
  <1>13. f.works \subseteq reconciled
    BY <1>0, FlightHanded, Zenon
  <1>14. HeldFor(k) \subseteq UNION {p.works, r.works, f.works, e.works, {},
                                     exhaustedWorkItems[k].works}
    BY <1>3, Zenon DEF HeldFor
  <1>15. late' \in SUBSET Work
    BY <1>0, <1>2, Zenon DEF WorkTypes
  <1>16. e.works = {}
    BY Zenon DEF Holds
  <1>17. enqueued' \in UNION {p.works, r.works, f.works, e.works, {}}
    BY <1>3, <1>12, Zenon
  <1>18. WorksMoved(k, p, r, e, f, {}, "rejected")
    BY <1>1, <1>2, <1>11, <1>12, <1>13, <1>14, <1>15, <1>16, <1>17, Zenon DEF WorksMoved
  <1>19. drain' # "running"
    BY <1>6, Zenon
  <1> HIDE DEF f
  <1> QED
    BY <1>1, <1>3, <1>4, <1>5, <1>6, <1>7, <1>8, <1>9, <1>10, <1>18, <1>19, QuietStep, Zenon

LEMMA EnqueuePendingKeeps ==
    ASSUME QueueInv, NEW k \in Key, NEW w, Enqueuing(w),
           NEW token \in 0..MaxFence, EnqueuePending(k, w, token)
    PROVE  QueueInv'
  <1>0. MapTypes /\ FlagTypes /\ OneQueuedItem
    BY DEF QueueInv
  <1> DEFINE r == retryWorkItems[k]
             e == exhaustedWorkItems[k]
  <1>1. pending[k] \in Item /\ r \in Item /\ e \in Item
    BY <1>0, AtKey, Zenon
  <1>2. ~ Holds(r) /\ ~ Holds(e)
    BY <1>0, OneAtKey, Zenon DEF EnqueuePending, OneAt
  <1>3. KeyStep(k, Merged(pending[k], w, token), r, e, inFlight[k])
    BY <1>0, KeepsItem DEF EnqueuePending, Enqueuing, MapTypes, KeyStep
  <1>4. pending[k].works \cup r.works \subseteq pending[k].works
    BY <1>2, Zenon DEF Holds
  <1>5. failureCount' \in [Key -> 0..MaxAttempts]
    BY <1>0 DEF FlagTypes, EnqueuePending
  <1>6. /\ Admit(k, token) /\ ScheduleDrain /\ UNCHANGED late
        /\ order' = IF Holds(pending[k]) THEN order ELSE Append(order, k)
    BY Zenon DEF EnqueuePending
  <1> HIDE DEF e
  <1> QED
    BY <1>1, <1>2, <1>3, <1>4, <1>5, <1>6, BecomesPendingKeeps

LEMMA EnqueueRetryingKeeps ==
    ASSUME QueueInv, NEW k \in Key, NEW w, Enqueuing(w),
           NEW token \in 0..MaxFence, NEW reset \in BOOLEAN,
           EnqueueRetrying(k, w, token, reset)
    PROVE  QueueInv'
  <1>0. MapTypes /\ FlagTypes /\ OneQueuedItem
    BY Zenon DEF QueueInv
  <1> DEFINE from == retryWorkItems[k]
  <1>1. /\ from \in Item /\ exhaustedWorkItems[k] \in Item
        /\ NoItem \in Item /\ ~ Holds(NoItem)
    BY <1>0, AtKey, NoItemItem
  <1>2. PICK e \in Item :
           ~ Holds(e) /\ exhaustedWorkItems' = [exhaustedWorkItems EXCEPT ![k] = e]
    <2>1. CASE reset
      <3>1. exhaustedWorkItems' = [exhaustedWorkItems EXCEPT ![k] = NoItem]
        BY <2>1, Zenon DEF EnqueueRetrying
      <3> QED
        BY <1>1, <3>1, Zenon
    <2>2. CASE ~ reset
      <3>1. exhaustedWorkItems' = exhaustedWorkItems
        BY <2>2, Zenon DEF EnqueueRetrying
      <3>2. ~ Holds(exhaustedWorkItems[k])
        BY <1>0, OneAtKey, Zenon DEF EnqueueRetrying, OneAt
      <3>3. exhaustedWorkItems = [exhaustedWorkItems EXCEPT ![k] = exhaustedWorkItems[k]]
        BY <1>0, KeepsItem DEF MapTypes
      <3> QED
        BY <1>1, <3>1, <3>2, <3>3
    <2> QED
      BY <2>1, <2>2
  <1>4. KeyStep(k, Merged(from, w, token), NoItem, e, inFlight[k])
    <2>1. inFlight' = [inFlight EXCEPT ![k] = inFlight[k]]
      BY <1>0, KeepsItem, Zenon DEF Enqueuing, MapTypes
    <2> QED
      BY <1>2, <2>1, Zenon DEF EnqueueRetrying, KeyStep
  <1>5. pending[k].works \cup from.works \subseteq from.works
    BY Zenon DEF Holds, EnqueueRetrying
  <1>6. failureCount' \in [Key -> 0..MaxAttempts]
    BY <1>0, QueueAssumption DEF FlagTypes, EnqueueRetrying
  <1>7. /\ Admit(k, token) /\ ScheduleDrain /\ UNCHANGED late
        /\ order' = IF Holds(pending[k]) THEN order ELSE Append(order, k)
    BY Zenon DEF EnqueueRetrying
  <1> QED
    BY <1>1, <1>2, <1>4, <1>5, <1>6, <1>7, BecomesPendingKeeps

(* A reset forgets the item given up, whose works were answered or came    *)
(* late.                                                                   *)
LEMMA EnqueueResetKeeps ==
    ASSUME QueueInv, NEW k \in Key, NEW w, Enqueuing(w),
           NEW token \in 0..MaxFence, NEW reset \in BOOLEAN, reset,
           EnqueueExhausted(k, w, token, reset)
    PROVE  QueueInv'
  <1>0. MapTypes /\ FlagTypes /\ OneQueuedItem
    BY DEF QueueInv
  <1> DEFINE r == retryWorkItems[k]
  <1>1. r \in Item /\ NoItem \in Item /\ ~ Holds(NoItem)
    BY <1>0, AtKey, NoItemItem, Zenon
  <1>2. ~ Holds(r)
    BY DEF EnqueueExhausted
  <1>3. KeyStep(k, Merged(NoItem, w, token), r, NoItem, inFlight[k])
    BY <1>0, KeepsItem, Zenon DEF EnqueueExhausted, Enqueuing, MapTypes, KeyStep
  <1>4. pending[k].works \cup r.works \subseteq NoItem.works
    BY Zenon DEF Holds, EnqueueExhausted
  <1>5. failureCount' \in [Key -> 0..MaxAttempts]
    BY <1>0, QueueAssumption DEF FlagTypes, EnqueueExhausted
  <1>6. /\ Admit(k, token) /\ ScheduleDrain /\ UNCHANGED late
        /\ order' = IF Holds(pending[k]) THEN order ELSE Append(order, k)
    BY Zenon DEF EnqueueExhausted
  <1> QED
    BY <1>1, <1>2, <1>3, <1>4, <1>5, <1>6, BecomesPendingKeeps

LEMMA EnqueueLateKeeps ==
    ASSUME QueueInv, NEW k \in Key, NEW w, Enqueuing(w),
           NEW token \in 0..MaxFence, NEW reset \in BOOLEAN, ~ reset,
           EnqueueExhausted(k, w, token, reset)
    PROVE  QueueInv'
  <1>0. /\ MapTypes /\ FlagTypes /\ WorkTypes /\ OneQueuedItem /\ OrderSound
        /\ StoppedSound /\ WorksSound /\ NoWakeUpLost
    BY DEF QueueInv
  <1>1. w \in Work /\ enqueued' \in 0..MaxWork /\ FlightSound' /\ Busy' = Busy
    BY EnqueuingFacts, Zenon
  <1>2. UNCHANGED <<pending, order, retryWorkItems, inFlight, failureCount, drain,
                    entries, claimed, stopped, idleWaiting, reconciled, discards>>
    BY Zenon DEF EnqueueExhausted, Enqueuing
  <1> DEFINE p == pending[k]
             r == retryWorkItems[k]
             e == Merged(exhaustedWorkItems[k], w, token)
             f == inFlight[k]
  <1>3. p \in Item /\ r \in Item /\ exhaustedWorkItems[k] \in Item /\ f \in Item
    BY <1>0, AtKey, Zenon
  <1>4. /\ e \in Item /\ Holds(e)
        /\ e.works = exhaustedWorkItems[k].works \cup {w}
    BY <1>1, <1>3, MergedItem, Zenon
  <1>5. KeyStep(k, p, r, e, f)
    BY <1>0, <1>2, KeepsItem, Zenon DEF EnqueueExhausted, MapTypes, KeyStep
  <1>6. OneAt(p, r, e, f)
    BY <1>0, OneAtKey DEF EnqueueExhausted, OneAt
  <1>7. FlagTypes' /\ drain' # "running"
    <2>1. fenceTokens' \in [Key -> 0..MaxFence]
      BY <1>0, FenceTypes DEF EnqueueExhausted
    <2> QED
      BY <1>0, <1>2, <2>1, Zenon DEF FlagTypes, Quiet, Enqueuing
  <1>8. NoWakeUpLost'
    <2>1. Queued' = Queued
      BY <1>2, Zenon DEF Queued
    <2> QED
      BY <1>0, <1>1, <1>2, <2>1, WakeSame
  <1>9. StopKept(p, r, e, f)
    BY <1>2, Zenon DEF EnqueueExhausted, Admit, Refused, StopKept
  <1> HIDE DEF e
  <1>10. OrderKept
    BY <1>0, <1>2, <1>3, <1>4, <1>5, OrderSame, Zenon DEF OrderKept
  <1>11. WorksMoved(k, p, r, e, f, {}, "rejected")
    <2>1. answer' = Settled({}, "rejected")
      BY <1>0, NothingSettled, Zenon DEF EnqueueExhausted, Admit
    <2>2. f.works \subseteq reconciled
      BY <1>0, FlightHanded
    <2>3. late' = late \cup {w} /\ late' \in SUBSET Work
      BY <1>0, <1>1, Zenon DEF WorkTypes, EnqueueExhausted
    <2>4. HeldFor(k) \subseteq UNION {p.works, r.works, f.works, e.works, {},
                                      exhaustedWorkItems[k].works}
      BY <1>4, Zenon DEF HeldFor
    <2>5. /\ enqueued' = enqueued + 1
          /\ enqueued' \in UNION {p.works, r.works, f.works, e.works, {}}
      BY <1>4, Zenon DEF Enqueuing
    <2>6. e.works \subseteq {} \cup late' \cup exhaustedWorkItems[k].works
      BY <1>4, <2>3, Zenon
    <2> QED
      BY <1>1, <1>2, <2>1, <2>2, <2>3, <2>4, <2>5, <2>6, Zenon DEF WorksMoved
  <1> HIDE DEF p, r, f
  <1> QED
    BY <1>1, <1>3, <1>4, <1>5, <1>6, <1>7, <1>8, <1>9, <1>10, <1>11, QuietStep

LEMMA EnqueueKeeps ==
    ASSUME QueueInv, NEW k \in Key, Enqueue(k)
    PROVE  QueueInv'
  <1> DEFINE w == enqueued + 1
  <1>1. Enqueuing(w)
    BY Zenon DEF Enqueue, Enqueuing
  <1>2. PICK token \in 0..MaxFence, reset \in BOOLEAN :
           \/ EnqueueRefused(k, w, token) \/ EnqueuePending(k, w, token)
           \/ EnqueueRetrying(k, w, token, reset)
           \/ EnqueueExhausted(k, w, token, reset)
    BY DEF Enqueue
  <1> HIDE DEF w
  <1>3. CASE EnqueueRefused(k, w, token)
    BY <1>1, <1>3, EnqueueRefusedKeeps
  <1>4. CASE EnqueuePending(k, w, token)
    BY <1>1, <1>4, EnqueuePendingKeeps, Zenon
  <1>5. CASE EnqueueRetrying(k, w, token, reset)
    BY <1>1, <1>5, EnqueueRetryingKeeps
  <1>6. CASE EnqueueExhausted(k, w, token, reset)
    <2>1. CASE reset
      BY <1>1, <1>6, <2>1, EnqueueResetKeeps, Zenon
    <2>2. CASE ~ reset
      BY <1>1, <1>6, <2>2, EnqueueLateKeeps, Zenon
    <2> QED
      BY <2>1, <2>2
  <1> QED
    BY <1>2, <1>3, <1>4, <1>5, <1>6, Zenon

-----------------------------------------------------------------------------
(* The timer, promotePending, discard and awaitCurrentWorkIdle.            *)

LEMMA RetryTimerKeeps ==
    ASSUME QueueInv, NEW k \in Key, RetryTimer(k)
    PROVE  QueueInv'
  <1>0. /\ MapTypes /\ FlagTypes /\ WorkTypes /\ OneQueuedItem /\ OrderSound
        /\ FlightSound /\ StoppedSound /\ WorksSound
    BY Zenon DEF QueueInv
  <1>1. UNCHANGED <<exhaustedWorkItems, failureCount, fenceTokens, inFlight,
                    entries, claimed, stopped, idleWaiting, enqueued, running,
                    reconciled, answer, late, discards>>
    BY DEF RetryTimer
  <1> DEFINE p == [works |-> pending[k].works \cup retryWorkItems[k].works,
                   fence |-> IF retryWorkItems[k].fence # 0
                               THEN retryWorkItems[k].fence ELSE pending[k].fence]
             e == exhaustedWorkItems[k]
             f == inFlight[k]
  <1>2. /\ pending[k] \in Item /\ retryWorkItems[k] \in Item /\ e \in Item
        /\ f \in Item /\ NoItem \in Item /\ ~ Holds(NoItem)
    BY <1>0, AtKey, NoItemItem, Zenon
  <1>3. /\ p \in Item /\ Holds(p)
        /\ p.works = pending[k].works \cup retryWorkItems[k].works
    BY <1>2 DEF Item, Holds, RetryTimer
  <1>4. KeyStep(k, p, NoItem, e, f)
    <2>1. pending' = [pending EXCEPT ![k] = p]
      BY <1>0, Zenon DEF RetryTimer, MapTypes
    <2>2. retryWorkItems' = [retryWorkItems EXCEPT ![k] = NoItem]
      BY Zenon DEF RetryTimer
    <2>3. /\ exhaustedWorkItems' = [exhaustedWorkItems EXCEPT ![k] = e]
          /\ inFlight' = [inFlight EXCEPT ![k] = f]
      BY <1>0, <1>1, KeepsItem DEF MapTypes
    <2> QED
      BY <2>1, <2>2, <2>3, Zenon DEF KeyStep
  <1>5. OneAt(p, NoItem, e, f)
    BY <1>0, <1>2, OneAtKey, Zenon DEF RetryTimer, OneAt
  <1> HIDE DEF p
  <1>6. drain' = "scheduled" /\ NoWakeUpLost'
    BY <1>0, WakeScheduled DEF RetryTimer
  <1>7. FlagTypes' /\ drain' # "running"
    BY <1>0, <1>1, <1>6, Zenon DEF FlagTypes
  <1>8. OrderKept
    <2>1. order' = IF Holds(pending[k]) THEN order ELSE Append(order, k)
      BY DEF RetryTimer
    <2> QED
      BY <1>0, <1>1, <1>2, <1>3, <1>4, <2>1, OrderAppend, Zenon DEF OrderKept
  <1>9. FlightSound'
    BY <1>0, <1>1, FlightSame, Zenon
  <1>10. StopKept(p, NoItem, e, f)
    BY <1>0, <1>1, <1>2, Zenon DEF StoppedSound, StopKept, RetryTimer
  <1>11. WorksMoved(k, p, NoItem, e, f, {}, "rejected")
    <2>1. answer' = Settled({}, "rejected")
      BY <1>0, <1>1, NothingSettled, Zenon
    <2>2. f.works \subseteq reconciled
      BY <1>0, FlightHanded
    <2>3. late' \in SUBSET Work /\ enqueued' \in 0..MaxWork
      BY <1>0, <1>1, Zenon DEF WorkTypes
    <2>4. HeldFor(k) \subseteq UNION {p.works, NoItem.works, f.works, e.works, {},
                                      exhaustedWorkItems[k].works}
      BY <1>3, Zenon DEF HeldFor
    <2> QED
      BY <1>1, <2>1, <2>2, <2>3, <2>4 DEF WorksMoved
  <1> HIDE DEF e, f
  <1> QED
    BY <1>2, <1>3, <1>4, <1>5, <1>6, <1>7, <1>8, <1>9, <1>10, <1>11, QuietStep

LEMMA PromotePendingKeeps ==
    ASSUME QueueInv, NEW k \in Key, PromotePending(k)
    PROVE  QueueInv'
  <1>0. /\ MapTypes /\ FlagTypes /\ WorkTypes /\ OneQueuedItem /\ OrderSound
        /\ FlightSound /\ StoppedSound /\ WorksSound /\ NoWakeUpLost
    BY DEF QueueInv
  <1>1. UNCHANGED <<pending, retryWorkItems, exhaustedWorkItems, failureCount,
                    fenceTokens, inFlight, drain, entries, claimed, stopped,
                    idleWaiting, enqueued, running, reconciled, answer, late,
                    discards>>
    BY Zenon DEF PromotePending
  <1>2. Busy' = Busy /\ Queued' = Queued
    BY <1>1, Zenon DEF Busy, Queued
  <1>3. OrderSound'
    <2>1. k \in Queued /\ drain # "running"
      BY Zenon DEF PromotePending, Queued, Quiet
    <2>2. Lists(Without(order, k)) /\ Elements(Without(order, k)) = Queued \ {k}
      BY <1>0, WithoutLists, Zenon DEF OrderSound
    <2>3. /\ Lists(<<k>> \o Without(order, k))
          /\ Elements(<<k>> \o Without(order, k)) = (Queued \ {k}) \cup {k}
      BY <2>2, ConsLists, Zenon
    <2>4. Lists(order)' /\ Elements(order)' = Queued'
      <3>1. order' = <<k>> \o Without(order, k)
        BY DEF PromotePending
      <3>2. (Queued \ {k}) \cup {k} = Queued
        BY <2>1
      <3>3. Lists(order') /\ Elements(order') = Queued
        BY <2>3, <3>1, <3>2, Zenon
      <3> QED
        BY <1>2, <3>3, Zenon DEF Lists, Elements
    <2>5. Lists(entries)'
      BY <1>0, <1>1 DEF OrderSound, Lists
    <2> QED
      BY <1>1, <2>1, <2>4, <2>5, Zenon DEF OrderSound
  <1>4. MapTypes' /\ FlagTypes' /\ WorkTypes'
    BY <1>0, <1>1, Zenon DEF MapTypes, FlagTypes, WorkTypes
  <1>5. OneQueuedItem' /\ StoppedSound'
    BY <1>0, <1>1, Zenon DEF OneQueuedItem, StoppedSound
  <1>6. WorksSound'
    BY <1>0, <1>1 DEF WorksSound, WaitersFollowTheirWork, HeldFor
  <1>7. FlightSound' /\ NoWakeUpLost'
    BY <1>0, <1>1, <1>2, FlightSame, WakeSame, Zenon
  <1> QED
    BY <1>3, <1>4, <1>5, <1>6, <1>7 DEF QueueInv

(* A drain nobody scheduled waits for a slot, and a key in flight is left  *)
(* there when the pending work is discarded.                               *)
LEMMA DiscardKeeps ==
    ASSUME QueueInv, NEW k \in Key, Discard(k)
    PROVE  QueueInv'
  <1>0. /\ MapTypes /\ FlagTypes /\ WorkTypes /\ OneQueuedItem /\ OrderSound
        /\ FlightSound /\ StoppedSound /\ WorksSound /\ NoWakeUpLost
    BY DEF QueueInv
  <1>1. UNCHANGED <<fenceTokens, inFlight, drain, entries, claimed, stopped,
                    idleWaiting, enqueued, running, reconciled, late>>
    BY Zenon DEF Discard
  <1> DEFINE f == inFlight[k]
             X == UNION {pending[k].works, retryWorkItems[k].works,
                         exhaustedWorkItems[k].works}
  <1>2. f \in Item /\ NoItem \in Item /\ ~ Holds(NoItem) /\ NoItem.works = {}
    BY <1>0, AtKey, NoItemItem, Zenon
  <1>3. KeyStep(k, NoItem, NoItem, NoItem, f)
    BY <1>0, <1>1, KeepsItem
       DEF Discard, TakeConcurrent, ClearRetryState, MapTypes, KeyStep
  <1>4. OneAt(NoItem, NoItem, NoItem, f)
    BY <1>2, Zenon DEF OneAt
  <1>5. FlagTypes' /\ drain' # "running"
    <2>1. failureCount' \in [Key -> 0..MaxAttempts]
      BY <1>0, QueueAssumption DEF FlagTypes, Discard, ClearRetryState
    <2>2. discards' \in 0..MaxDiscards
      BY <1>0, QueueAssumption DEF FlagTypes, Discard
    <2> QED
      BY <1>0, <1>1, <2>1, <2>2, Zenon DEF FlagTypes, Discard, Quiet
  <1>6. OrderKept
    <2>1. order' = Without(order, k)
      BY Zenon DEF Discard, TakeConcurrent
    <2> QED
      BY <1>0, <1>1, <1>2, <1>3, <2>1, OrderRemove DEF OrderKept
  <1>7. FlightSound'
    BY <1>0, <1>1, FlightSame, Zenon
  <1>8. NoWakeUpLost'
    <2>1. Busy' = Busy
      BY <1>1, Zenon DEF Busy
    <2>2. Queued' = Queued \ {k}
      BY <1>0, <1>2, <1>3, KeySets
    <2>3. Available(Busy, Queued)' => Available(Busy, Queued)
      BY <1>1, <2>1, <2>2 DEF Available
    <2>4. ASSUME drain = "idle", idleWaiting PROVE Busy # {}
      <3> SUFFICES ASSUME Busy = {} PROVE FALSE
        OBVIOUS
      <3>1. Queued # {} /\ ~ stopped /\ ~ Available(Busy, Queued)
        BY <1>0, <2>4, Zenon DEF NoWakeUpLost, StoppedSound
      <3>2. Cardinality(Busy) < MaxConcurrency
        BY FS_EmptySet, QueueAssumption
      <3> QED
        BY <3>1, <3>2 DEF Available
    <2> QED
      BY <1>0, <1>1, <2>1, <2>3, <2>4 DEF NoWakeUpLost
  <1>9. StopKept(NoItem, NoItem, NoItem, f)
    BY <1>0, <1>1, Zenon DEF StoppedSound, StopKept
  <1>10. WorksMoved(k, NoItem, NoItem, NoItem, f, X, "rejected")
    <2>1. answer' = Settled(X, "rejected")
      BY Zenon DEF Discard
    <2>2. f.works \subseteq reconciled
      BY <1>0, FlightHanded, Zenon
    <2>3. late' \in SUBSET Work /\ enqueued' \in 0..MaxWork
      BY <1>0, <1>1, Zenon DEF WorkTypes
    <2>4. HeldFor(k) \subseteq UNION {NoItem.works, NoItem.works, f.works,
                                      NoItem.works, X, exhaustedWorkItems[k].works}
      BY DEF HeldFor
    <2> HIDE DEF X
    <2> QED
      BY <1>1, <1>2, <2>1, <2>2, <2>3, <2>4, Zenon DEF WorksMoved
  <1> HIDE DEF f, X
  <1> QED
    BY <1>2, <1>3, <1>4, <1>5, <1>6, <1>7, <1>8, <1>9, <1>10, QuietStep

LEMMA AwaitKeeps ==
    ASSUME QueueInv, AwaitCurrentWorkIdle
    PROVE  QueueInv'
  <1>0. /\ MapTypes /\ FlagTypes /\ WorkTypes /\ OneQueuedItem /\ OrderSound
        /\ FlightSound /\ StoppedSound /\ WorksSound /\ NoWakeUpLost
    BY DEF QueueInv
  <1>1. UNCHANGED <<pending, order, retryWorkItems, exhaustedWorkItems,
                    failureCount, fenceTokens, inFlight, drain, entries, claimed,
                    stopped, enqueued, running, reconciled, answer, late, discards>>
    BY Zenon DEF AwaitCurrentWorkIdle
  <1>2. Busy' = Busy /\ Queued' = Queued
    BY <1>1, Zenon DEF Busy, Queued
  <1>3. ~ stopped
    BY <1>0 DEF AwaitCurrentWorkIdle, StoppedSound, Busy, Queued, NoItem, Holds
  <1>4. MapTypes' /\ FlagTypes' /\ WorkTypes'
    BY <1>0, <1>1, Zenon DEF MapTypes, FlagTypes, WorkTypes, AwaitCurrentWorkIdle
  <1>5. OneQueuedItem' /\ StoppedSound'
    BY <1>0, <1>1, <1>3, Zenon DEF OneQueuedItem, StoppedSound
  <1>6. WorksSound'
    BY <1>0, <1>1 DEF WorksSound, WaitersFollowTheirWork, HeldFor
  <1>7. FlightSound'
    BY <1>0, <1>1, FlightSame, Zenon
  <1>8. OrderSound'
    BY <1>0, <1>1, <1>2, Zenon DEF OrderSound, Lists, Elements
  <1>9. NoWakeUpLost'
    BY <1>0, <1>1, <1>2 DEF NoWakeUpLost, Available, AwaitCurrentWorkIdle
  <1> QED
    BY <1>4, <1>5, <1>6, <1>7, <1>8, <1>9 DEF QueueInv

-----------------------------------------------------------------------------
(* drain.                                                                  *)

LEMMA DrainBeginKeeps ==
    ASSUME QueueInv, DrainBegin
    PROVE  QueueInv'
  <1>0. /\ MapTypes /\ FlagTypes /\ WorkTypes /\ OneQueuedItem /\ OrderSound
        /\ FlightSound /\ StoppedSound /\ WorksSound
    BY Zenon DEF QueueInv
  <1>1. UNCHANGED <<pending, order, retryWorkItems, exhaustedWorkItems,
                    failureCount, fenceTokens, inFlight, stopped, idleWaiting,
                    enqueued, running, reconciled, answer, late, discards>>
    BY Zenon DEF DrainBegin
  <1>2. drain' = "running" /\ entries' = order /\ claimed' = 0 /\ ~ stopped
    BY <1>0 DEF DrainBegin, StoppedSound
  <1>3. Queued' = Queued
    BY <1>1, Zenon DEF Queued
  <1>4. MapTypes' /\ FlagTypes' /\ WorkTypes'
    BY <1>0, <1>1, <1>2, QueueAssumption DEF MapTypes, FlagTypes, WorkTypes
  <1>5. OneQueuedItem' /\ StoppedSound'
    BY <1>0, <1>1, <1>2, Zenon DEF OneQueuedItem, StoppedSound
  <1>6. WorksSound'
    BY <1>0, <1>1 DEF WorksSound, WaitersFollowTheirWork, HeldFor
  <1>7. FlightSound'
    BY <1>0, <1>1, FlightSame, Zenon
  <1>8. OrderSound'
    BY <1>0, <1>1, <1>2, <1>3 DEF OrderSound, Lists, Elements
  <1>9. NoWakeUpLost'
    BY <1>2, Zenon DEF NoWakeUpLost
  <1> QED
    BY <1>4, <1>5, <1>6, <1>7, <1>8, <1>9 DEF QueueInv

LEMMA DrainEndKeeps ==
    ASSUME QueueInv, DrainEnd
    PROVE  QueueInv'
  <1>0. /\ MapTypes /\ FlagTypes /\ WorkTypes /\ OneQueuedItem /\ OrderSound
        /\ FlightSound /\ StoppedSound /\ WorksSound
    BY DEF QueueInv
  <1>1. UNCHANGED <<pending, order, retryWorkItems, exhaustedWorkItems,
                    failureCount, fenceTokens, inFlight, stopped, enqueued,
                    running, reconciled, answer, late, discards>>
    BY Zenon DEF DrainEnd
  <1>2. entries' = <<>> /\ claimed' = 0 /\ ~ stopped
    BY <1>0, Zenon DEF DrainEnd, StoppedSound
  <1>3. Queued' = Queued /\ Busy' = Busy
    BY <1>1 DEF Queued, Busy
  <1>4. /\ drain' \in {"idle", "scheduled"} /\ idleWaiting' \in BOOLEAN
        /\ NoWakeUpLost'
    <2>1. Resettle(Busy, Queued, FALSE)
      BY Zenon DEF DrainEnd
    <2> QED
      BY <1>0, <1>1, <1>3, <2>1, WakeResettled, Zenon
  <1>5. MapTypes' /\ FlagTypes' /\ WorkTypes'
    BY <1>0, <1>1, <1>2, <1>4, QueueAssumption DEF MapTypes, FlagTypes, WorkTypes
  <1>6. OneQueuedItem' /\ StoppedSound'
    BY <1>0, <1>1, <1>2 DEF OneQueuedItem, StoppedSound
  <1>7. WorksSound'
    BY <1>0, <1>1, Zenon DEF WorksSound, WaitersFollowTheirWork, HeldFor
  <1>8. FlightSound'
    BY <1>0, <1>1, FlightSame, Zenon
  <1>9. OrderSound'
    <2>1. Lists(order') /\ Elements(order') = Queued'
      BY <1>0, <1>1, <1>3, Zenon DEF OrderSound
    <2>2. Lists(entries') /\ Elements(entries') = {}
      BY <1>2, EmptyLists, Zenon
    <2> QED
      BY <1>4, <2>1, <2>2, Zenon DEF OrderSound
  <1> QED
    BY <1>4, <1>5, <1>6, <1>7, <1>8, <1>9 DEF QueueInv

(* What every claim leaves alone.                                          *)
Claiming(k) ==
    /\ drain = "running" /\ entries # <<>> /\ claimed < MaxItemsPerDrain
    /\ k = Head(entries) /\ claimed' = claimed + 1
    /\ UNCHANGED <<retryWorkItems, exhaustedWorkItems, failureCount,
                   fenceTokens, drain, stopped, idleWaiting, enqueued, late, discards>>

LEMMA ClaimingFacts ==
    ASSUME QueueInv, NEW k, Claiming(k)
    PROVE  /\ k \in Key /\ k \in Queued /\ ~ stopped
           /\ Lists(Tail(entries)) /\ Elements(Tail(entries)) \subseteq Queued \ {k}
           /\ FlagTypes' /\ NoWakeUpLost'
  <1>0. FlagTypes /\ OrderSound /\ StoppedSound
    BY Zenon DEF QueueInv
  <1>1. /\ Lists(entries) /\ entries # <<>> /\ k = Head(entries)
        /\ Elements(entries) \subseteq Queued
    BY <1>0, Zenon DEF OrderSound, Claiming
  <1>2. /\ k \in Key /\ k \in Elements(entries)
        /\ Lists(Tail(entries))
        /\ Elements(Tail(entries)) = Elements(entries) \ {k}
    BY <1>1, TailLists, Zenon
  <1>3. ~ stopped
    BY <1>0 DEF StoppedSound, Claiming
  <1>4. FlagTypes'
    <2>1. claimed' \in 0..MaxItemsPerDrain
      BY <1>0, QueueAssumption DEF FlagTypes, Claiming
    <2> QED
      BY <1>0, <2>1, Zenon DEF FlagTypes, Claiming
  <1>5. NoWakeUpLost'
    BY Zenon DEF NoWakeUpLost, Claiming
  <1> QED
    BY <1>1, <1>2, <1>3, <1>4, <1>5

(* The key goes to the end of the order and stays pending.                 *)
LEMMA PutBackKeeps ==
    ASSUME QueueInv, NEW k, Claiming(k),
           order' = Append(Without(order, k), k),
           entries' = Tail(entries) \/ entries' = <<>>,
           UNCHANGED <<pending, inFlight, running, reconciled, answer>>
    PROVE  QueueInv'
  <1>0. /\ MapTypes /\ FlagTypes /\ WorkTypes /\ OneQueuedItem /\ OrderSound
        /\ FlightSound /\ StoppedSound /\ WorksSound
    BY Zenon DEF QueueInv
  <1>1. UNCHANGED <<pending, retryWorkItems, exhaustedWorkItems, inFlight, drain,
                    stopped, enqueued, running, reconciled, answer, late>>
    BY Zenon DEF Claiming
  <1>2. /\ k \in Key /\ k \in Queued /\ ~ stopped
        /\ Lists(Tail(entries)) /\ Elements(Tail(entries)) \subseteq Queued \ {k}
        /\ FlagTypes' /\ NoWakeUpLost'
    BY ClaimingFacts, Zenon
  <1>3. Queued' = Queued
    BY <1>1, Zenon DEF Queued
  <1>4. OrderSound'
    <2>1. Lists(Without(order, k)) /\ Elements(Without(order, k)) = Queued \ {k}
      BY <1>0, WithoutLists, Zenon DEF OrderSound
    <2>2. Lists(order') /\ Elements(order') = (Queued \ {k}) \cup {k}
      BY <1>2, <2>1, AppendLists, Zenon
    <2>3. (Queued \ {k}) \cup {k} = Queued'
      BY <1>2, <1>3
    <2>4. Lists(entries') /\ Elements(entries') \subseteq Queued'
      <3>1. Lists(Tail(entries)) /\ Elements(Tail(entries)) \subseteq Queued
        BY <1>2
      <3>2. Lists(<<>>) /\ Elements(<<>>) \subseteq Queued
        BY EmptyLists, Zenon
      <3> QED
        BY <1>3, <3>1, <3>2, Zenon
    <2>5. Lists(order)' /\ Elements(order)' = Queued'
      BY <2>2, <2>3 DEF Lists, Elements
    <2>6. Lists(entries)' /\ Elements(entries)' \subseteq Queued'
      BY <2>4, Zenon DEF Lists, Elements
    <2> QED
      BY <2>5, <2>6, Zenon DEF OrderSound
  <1>5. MapTypes' /\ WorkTypes'
    BY <1>0, <1>1, Zenon DEF MapTypes, WorkTypes
  <1>6. OneQueuedItem' /\ StoppedSound'
    BY <1>0, <1>1, <1>2 DEF OneQueuedItem, StoppedSound
  <1>7. WorksSound'
    BY <1>0, <1>1, Zenon DEF WorksSound, WaitersFollowTheirWork, HeldFor
  <1>8. FlightSound'
    BY <1>0, <1>1, FlightSame, Zenon
  <1> QED
    BY <1>2, <1>4, <1>5, <1>6, <1>7, <1>8, Zenon DEF QueueInv

(* The claimed item leaves the pending map.                                *)
LEMMA TakenOrder ==
    ASSUME QueueInv, NEW k, Claiming(k), order' = Without(order, k),
           entries' = Tail(entries),
           NEW r \in Item, NEW e \in Item, NEW f \in Item,
           KeyStep(k, NoItem, r, e, f)
    PROVE  OrderSound'
  <1>0. MapTypes /\ OrderSound
    BY DEF QueueInv
  <1>1. /\ k \in Key /\ Lists(Tail(entries))
        /\ Elements(Tail(entries)) \subseteq Queued \ {k}
    BY ClaimingFacts, Zenon
  <1>2. NoItem \in Item /\ ~ Holds(NoItem)
    BY NoItemItem, Zenon
  <1>3. Lists(order') /\ Elements(order') = Queued'
    BY <1>0, <1>1, <1>2, OrderRemove, Zenon
  <1>4. Queued' = Queued \ {k}
    BY <1>0, <1>1, <1>2, KeySets, Zenon
  <1>5. Lists(order)' /\ Elements(order)' = Queued'
    BY <1>3 DEF Lists, Elements
  <1>6. Lists(entries') /\ Elements(entries') \subseteq Queued'
    BY <1>1, <1>4, Zenon
  <1>7. Lists(entries)' /\ Elements(entries)' \subseteq Queued'
    BY <1>6, Zenon DEF Lists, Elements
  <1> QED
    BY <1>5, <1>7, Zenon DEF OrderSound

LEMMA ClaimStaleKeeps ==
    ASSUME QueueInv, NEW k, Claiming(k), ClaimStale(k)
    PROVE  QueueInv'
  <1>0. /\ MapTypes /\ FlagTypes /\ WorkTypes /\ OneQueuedItem /\ OrderSound
        /\ FlightSound /\ StoppedSound /\ WorksSound
    BY DEF QueueInv
  <1>1. k \in Key /\ ~ stopped /\ FlagTypes' /\ NoWakeUpLost'
    BY ClaimingFacts, Zenon
  <1>2. UNCHANGED <<retryWorkItems, exhaustedWorkItems, inFlight, stopped, enqueued,
                    running, reconciled, late>>
    BY Zenon DEF Claiming, ClaimStale
  <1> DEFINE r == retryWorkItems[k]
             e == exhaustedWorkItems[k]
             f == inFlight[k]
             X == pending[k].works
  <1>3. r \in Item /\ e \in Item /\ f \in Item /\ NoItem \in Item /\ ~ Holds(NoItem)
    BY <1>0, <1>1, AtKey, NoItemItem
  <1>4. KeyStep(k, NoItem, r, e, f)
    <2>1. pending' = [pending EXCEPT ![k] = NoItem]
      BY Zenon DEF ClaimStale
    <2>2. /\ retryWorkItems' = [retryWorkItems EXCEPT ![k] = r]
          /\ exhaustedWorkItems' = [exhaustedWorkItems EXCEPT ![k] = e]
          /\ inFlight' = [inFlight EXCEPT ![k] = f]
      BY <1>0, <1>1, <1>2, KeepsItem DEF MapTypes
    <2> QED
      BY <2>1, <2>2, Zenon DEF KeyStep
  <1>5. OneAt(NoItem, r, e, f)
    BY <1>0, <1>1, <1>3, OneAtKey, Zenon DEF OneAt
  <1>6. answer' = Settled(X, "rejected")
    BY Zenon DEF ClaimStale
  <1>7. f.works \subseteq reconciled
    BY <1>0, <1>1, FlightHanded, Zenon
  <1>8. HeldFor(k) \subseteq UNION {NoItem.works, r.works, f.works, e.works, X,
                                    exhaustedWorkItems[k].works}
    BY Zenon DEF HeldFor
  <1>9. e.works \subseteq X \cup late' \cup exhaustedWorkItems[k].works
    BY Zenon
  <1>10. enqueued' = enqueued /\ enqueued' \in 0..MaxWork
    BY <1>0, <1>2, Zenon DEF WorkTypes
  <1>11. order' = Without(order, k) /\ entries' = Tail(entries)
    BY DEF ClaimStale
  <1> HIDE DEF r, e, f, X
  <1>12. OrderSound'
    BY <1>3, <1>4, <1>11, TakenOrder, Zenon
  <1>13. MapTypes' /\ OneQueuedItem'
    BY <1>0, <1>1, <1>3, <1>4, <1>5, KeyFields, OneItemStep, Zenon
  <1>14. WorkTypes'
    <2>1. answer' \in [Work -> {"none", "resolved", "rejected"}]
      BY <1>0, <1>6, SettledAnswers, Zenon
    <2> QED
      BY <1>0, <1>2, <2>1 DEF WorkTypes
  <1>15. WorksSound'
    <2>1. reconciled \subseteq reconciled' /\ late \subseteq late'
          /\ f.works \subseteq reconciled'
      BY <1>2, <1>7
    <2> QED
      BY <1>0, <1>1, <1>3, <1>4, <1>6, <1>8, <1>9, <1>10, <2>1, WorksStep
  <1>16. FlightSound' /\ StoppedSound'
    BY <1>0, <1>1, <1>2, FlightSame, Zenon DEF StoppedSound
  <1> QED
    BY <1>1, <1>12, <1>13, <1>14, <1>15, <1>16 DEF QueueInv

(* A slot is free, and the key's own run is over.                          *)
LEMMA StartFlight ==
    ASSUME QueueInv, NEW k \in Key, ~ stopped, k \in Queued, StartReconcile(k),
           stopped' = stopped
    PROVE  FlightSound'
  <1>0. /\ inFlight \in [Key -> Item] /\ pending \in [Key -> Item] /\ FlightSound
    BY DEF QueueInv, MapTypes
  <1>1. /\ running \in [Key -> 0..1] /\ IsFiniteSet(Flying) /\ Flying = Busy
    BY <1>0, Zenon DEF FlightSound
  <1>2. k \notin Flying /\ Cardinality(Flying) < MaxConcurrency
    BY <1>1, Zenon DEF StartReconcile, Busy
  <1>3. running[k] = 0
    BY <1>1, <1>2 DEF Flying
  <1>4. running' \in [Key -> 0..1] /\ running' = [running EXCEPT ![k] = 1]
    BY <1>1, <1>3 DEF StartReconcile
  <1>5. Flying' = Flying \cup {k}
    <2>1. \A j \in Key : running'[j] > 0 <=> running[j] > 0 \/ j = k
      BY <1>1, <1>4
    <2> QED
      BY <2>1, Zenon DEF Flying
  <1>6. Busy' = Busy \cup {k}
    <2>1. Holds(pending[k])
      BY Zenon DEF Queued
    <2>2. inFlight' = [inFlight EXCEPT ![k] = pending[k]]
      BY DEF StartReconcile
    <2>3. \A j \in Key : Holds(inFlight'[j]) <=> Holds(inFlight[j]) \/ j = k
      BY <1>0, <2>1, <2>2, Zenon
    <2>4. \A j : j \in Busy' <=> (j \in Key /\ Holds(inFlight'[j]))
      BY Zenon DEF Busy, Holds
    <2> QED
      BY <2>3, <2>4 DEF Busy
  <1>7. /\ IsFiniteSet(Flying \cup {k})
        /\ Cardinality(Flying \cup {k}) = Cardinality(Flying) + 1
    BY <1>1, <1>2, FS_AddElement
  <1>8. Cardinality(Flying) \in Nat
    BY <1>1, FS_CardinalityType, Zenon
  <1>9. IsFiniteSet(Flying') /\ Cardinality(Flying') <= MaxConcurrency
    BY <1>2, <1>5, <1>7, <1>8, QueueAssumption
  <1> QED
    BY <1>1, <1>4, <1>5, <1>6, <1>9, Zenon DEF FlightSound

LEMMA StartReconcileKeeps ==
    ASSUME QueueInv, NEW k, Claiming(k), StartReconcile(k)
    PROVE  QueueInv'
  <1>0. /\ MapTypes /\ FlagTypes /\ WorkTypes /\ OneQueuedItem /\ OrderSound
        /\ FlightSound /\ StoppedSound /\ WorksSound
    BY DEF QueueInv
  <1>1. k \in Key /\ k \in Queued /\ ~ stopped /\ FlagTypes' /\ NoWakeUpLost'
    BY ClaimingFacts, Zenon
  <1>2. UNCHANGED <<retryWorkItems, exhaustedWorkItems, stopped, enqueued, late, answer>>
    BY Zenon DEF Claiming, StartReconcile
  <1> DEFINE r == retryWorkItems[k]
             e == exhaustedWorkItems[k]
             f == pending[k]
  <1>3. r \in Item /\ e \in Item /\ f \in Item /\ NoItem \in Item /\ ~ Holds(NoItem)
    BY <1>0, <1>1, AtKey, NoItemItem
  <1>4. KeyStep(k, NoItem, r, e, f)
    <2>1. /\ pending' = [pending EXCEPT ![k] = NoItem]
          /\ inFlight' = [inFlight EXCEPT ![k] = f]
      BY Zenon DEF StartReconcile
    <2>2. /\ retryWorkItems' = [retryWorkItems EXCEPT ![k] = r]
          /\ exhaustedWorkItems' = [exhaustedWorkItems EXCEPT ![k] = e]
      BY <1>0, <1>1, <1>2, KeepsItem DEF MapTypes
    <2> QED
      BY <2>1, <2>2, Zenon DEF KeyStep
  <1>5. OneAt(NoItem, r, e, f)
    BY <1>0, <1>1, <1>3, OneAtKey, Zenon DEF OneAt, Queued
  <1>6. answer' = Settled({}, "rejected")
    BY <1>0, <1>2, NothingSettled, Zenon
  <1>7. reconciled' = reconciled \cup f.works
    BY Zenon DEF StartReconcile
  <1>8. HeldFor(k) \subseteq UNION {NoItem.works, r.works, f.works, e.works, {},
                                    exhaustedWorkItems[k].works}
    BY <1>1, Zenon DEF HeldFor, StartReconcile, Holds
  <1>9. e.works \subseteq {} \cup late' \cup exhaustedWorkItems[k].works
    OBVIOUS
  <1>10. enqueued' = enqueued /\ enqueued' \in 0..MaxWork
    BY <1>0, <1>2, Zenon DEF WorkTypes
  <1>11. order' = Without(order, k) /\ entries' = Tail(entries)
    BY Zenon DEF StartReconcile
  <1>12. FlightSound' /\ StoppedSound'
    BY <1>1, <1>2, StartFlight, Zenon DEF StoppedSound
  <1>13. WorkTypes'
    BY <1>0, <1>2, <1>3, <1>7, Zenon DEF WorkTypes, Item
  <1> HIDE DEF r, e, f
  <1>14. OrderSound'
    BY <1>3, <1>4, <1>11, TakenOrder, Zenon
  <1>15. MapTypes' /\ OneQueuedItem'
    BY <1>0, <1>1, <1>3, <1>4, <1>5, KeyFields, OneItemStep
  <1>16. WorksSound'
    <2>1. reconciled \subseteq reconciled' /\ late \subseteq late'
          /\ f.works \subseteq reconciled'
      BY <1>2, <1>7, Zenon
    <2> QED
      BY <1>0, <1>1, <1>3, <1>4, <1>6, <1>8, <1>9, <1>10, <2>1, WorksStep, Zenon
  <1> QED
    BY <1>1, <1>12, <1>13, <1>14, <1>15, <1>16 DEF QueueInv

LEMMA DrainClaimKeeps ==
    ASSUME QueueInv, DrainClaim
    PROVE  QueueInv'
  <1> DEFINE k == Head(entries)
  <1>1. Claiming(k)
    BY Zenon DEF DrainClaim, Claiming
  <1>2. ClaimDeferred(k) \/ ClaimNoSlot(k) \/ ClaimStale(k) \/ StartReconcile(k)
    BY Zenon DEF DrainClaim
  <1> HIDE DEF k
  <1>3. CASE ClaimDeferred(k) \/ ClaimNoSlot(k)
    BY <1>1, <1>3, PutBackKeeps DEF ClaimDeferred, ClaimNoSlot
  <1>4. CASE ClaimStale(k)
    BY <1>1, <1>4, ClaimStaleKeeps
  <1>5. CASE StartReconcile(k)
    BY <1>1, <1>5, StartReconcileKeeps, Zenon
  <1> QED
    BY <1>2, <1>3, <1>4, <1>5, Zenon

-----------------------------------------------------------------------------
(* The end of a reconcile.                                                 *)

(* What every end of a run does.                                           *)
Finishing(k) ==
    /\ Quiet /\ running[k] > 0
    /\ running' = [running EXCEPT ![k] = @ - 1]
    /\ inFlight' = Released(k)
    /\ UNCHANGED <<fenceTokens, entries, claimed, stopped, enqueued, reconciled,
                   late, discards>>

LEMMA FinishFlight ==
    ASSUME QueueInv, NEW k \in Key, Finishing(k)
    PROVE  FlightSound' /\ Busy' = Busy \ {k}
  <1>0. /\ inFlight \in [Key -> Item] /\ FlightSound
    BY DEF QueueInv, MapTypes
  <1>1. /\ running \in [Key -> 0..1] /\ IsFiniteSet(Flying)
        /\ Cardinality(Flying) <= MaxConcurrency /\ (~ stopped => Flying = Busy)
    BY <1>0, Zenon DEF FlightSound
  <1>2. running[k] = 1
    BY <1>1 DEF Finishing
  <1>3. running' \in [Key -> 0..1] /\ running' = [running EXCEPT ![k] = 0]
    BY <1>1, <1>2 DEF Finishing
  <1>4. Flying' = Flying \ {k}
    <2>1. \A j \in Key : running'[j] > 0 <=> running[j] > 0 /\ j # k
      BY <1>1, <1>3
    <2> QED
      BY <2>1, Zenon DEF Flying
  <1>5. Busy' = Busy \ {k}
    <2>1. inFlight' = [inFlight EXCEPT ![k] = NoItem] /\ ~ Holds(NoItem)
      BY NoItemItem, Zenon DEF Finishing, Released
    <2>2. \A j \in Key : Holds(inFlight'[j]) <=> Holds(inFlight[j]) /\ j # k
      BY <1>0, <2>1, Zenon
    <2>3. \A j : j \in Busy' <=> (j \in Key /\ Holds(inFlight'[j]))
      BY DEF Busy, Holds
    <2> QED
      BY <2>2, <2>3, Zenon DEF Busy
  <1>6. k \in Flying
    BY <1>2 DEF Flying
  <1>7. /\ IsFiniteSet(Flying \ {k})
        /\ Cardinality(Flying \ {k}) = Cardinality(Flying) - 1
    BY <1>1, <1>6, FS_RemoveElement
  <1>8. Cardinality(Flying) \in Nat
    BY <1>1, FS_CardinalityType, Zenon
  <1>9. IsFiniteSet(Flying') /\ Cardinality(Flying') <= MaxConcurrency
    BY <1>1, <1>4, <1>7, <1>8, QueueAssumption
  <1>10. stopped' = stopped
    BY DEF Finishing
  <1> QED
    BY <1>1, <1>3, <1>4, <1>5, <1>9, <1>10 DEF FlightSound

Ended(k, p, r, e, X, how) ==
    /\ KeyStep(k, p, r, e, NoItem) /\ OneAt(p, r, e, NoItem)
    /\ failureCount' \in [Key -> 0..MaxAttempts]
    /\ Lists(order') /\ Elements(order') = Queued'
    /\ answer' = Settled(X, how)
    /\ how = "resolved" => X \subseteq inFlight[k].works
    /\ e.works \subseteq X
    /\ inFlight[k].works \cup pending[k].works \subseteq UNION {p.works, r.works, X}

(* The run was of the item in flight: what the end of it does with that    *)
(* item's works and those enqueued meanwhile is in p, r, e and X.          *)
LEMMA EndedKeeps ==
    ASSUME QueueInv, NEW k \in Key, Finishing(k), Holds(inFlight[k]),
           NEW p \in Item, NEW r \in Item, NEW e \in Item,
           NEW X, NEW how \in {"resolved", "rejected"}, Ended(k, p, r, e, X, how),
           Resettle(Busy \ {k}, Queued', drain = "scheduled")
    PROVE  QueueInv'
  <1>0. /\ MapTypes /\ FlagTypes /\ WorkTypes /\ OneQueuedItem
        /\ StoppedSound /\ WorksSound
    BY Zenon DEF QueueInv
  <1>1. UNCHANGED <<fenceTokens, entries, claimed, stopped, enqueued, reconciled,
                    late, discards>>
    BY Zenon DEF Finishing
  <1>2. FlightSound' /\ Busy' = Busy \ {k}
    BY FinishFlight, Zenon
  <1>3. NoItem \in Item /\ NoItem.works = {}
    BY NoItemItem, Zenon
  <1>4. ~ stopped
    BY <1>0, <1>3, Zenon DEF StoppedSound, Holds
  <1>5. /\ drain' \in {"idle", "scheduled"} /\ idleWaiting' \in BOOLEAN
        /\ NoWakeUpLost'
    <2> DEFINE draining == drain = "scheduled"
    <2>1. draining \in BOOLEAN /\ Resettle(Busy \ {k}, Queued', draining)
      BY Zenon
    <2> HIDE DEF draining
    <2> QED
      BY <1>0, <1>1, <1>2, <2>1, WakeResettled, Zenon
  <1>6. FlagTypes' /\ drain' # "running"
    BY <1>0, <1>1, <1>5, Zenon DEF FlagTypes, Ended
  <1>7. OrderKept
    BY <1>1, Zenon DEF OrderKept, Ended
  <1>8. StopKept(p, r, e, NoItem)
    BY <1>1, <1>4 DEF StopKept
  <1>9. WorksMoved(k, p, r, e, NoItem, X, how)
    <2>1. inFlight[k].works \subseteq reconciled
      BY <1>0, FlightHanded, Zenon
    <2>2. late' \in SUBSET Work /\ enqueued' \in 0..MaxWork
      BY <1>0, <1>1, Zenon DEF WorkTypes
    <2>3. retryWorkItems[k].works = {}
      BY <1>0, OneAtKey DEF OneAt, Holds
    <2>4. HeldFor(k) \subseteq UNION {p.works, r.works, NoItem.works, e.works, X,
                                      exhaustedWorkItems[k].works}
      BY <2>3, Zenon DEF HeldFor, Ended
    <2>5. how = "resolved" => X \subseteq reconciled
      BY <2>1, Zenon DEF Ended
    <2> QED
      BY <1>1, <1>3, <2>2, <2>4, <2>5, Zenon DEF WorksMoved, Ended
  <1>10. KeyStep(k, p, r, e, NoItem) /\ OneAt(p, r, e, NoItem)
    BY DEF Ended
  <1> QED
    BY <1>2, <1>3, <1>5, <1>6, <1>7, <1>8, <1>9, <1>10, QuietStep

(* Succeed and Fail: the item is answered, what was enqueued meanwhile     *)
(* stays pending.                                                          *)
LEMMA SettledRunKeeps ==
    ASSUME QueueInv, NEW k \in Key, Finishing(k), Holds(inFlight[k]),
           ClearRetryState(k), NEW how \in {"resolved", "rejected"},
           answer' = Settled(inFlight[k].works, how), UNCHANGED <<pending, order>>,
           Resettle(Busy \ {k}, Queued, drain = "scheduled")
    PROVE  QueueInv'
  <1>0. MapTypes /\ FlagTypes /\ OrderSound
    BY DEF QueueInv
  <1> DEFINE p == pending[k]
             X == inFlight[k].works
  <1>1. p \in Item /\ NoItem \in Item /\ ~ Holds(NoItem) /\ NoItem.works = {}
    BY <1>0, AtKey, NoItemItem, Zenon
  <1>2. KeyStep(k, p, NoItem, NoItem, NoItem)
    BY <1>0, KeepsItem DEF ClearRetryState, Finishing, Released, MapTypes, KeyStep
  <1>3. OneAt(p, NoItem, NoItem, NoItem)
    BY <1>1, Zenon DEF OneAt
  <1>4. failureCount' \in [Key -> 0..MaxAttempts]
    BY <1>0, QueueAssumption DEF FlagTypes, ClearRetryState
  <1>5. Queued' = Queued
    BY Zenon DEF Queued
  <1>6. Lists(order') /\ Elements(order') = Queued'
    BY <1>0, <1>1, <1>2, OrderSame
  <1>7. X \cup pending[k].works \subseteq UNION {p.works, NoItem.works, X}
    BY Zenon
  <1>8. NoItem.works \subseteq X
    BY <1>1, Zenon
  <1>9. how = "resolved" => X \subseteq inFlight[k].works
    OBVIOUS
  <1>10. Ended(k, p, NoItem, NoItem, X, how)
    BY <1>2, <1>3, <1>4, <1>6, <1>7, <1>8, <1>9, Zenon DEF Ended
  <1>11. Resettle(Busy \ {k}, Queued', drain = "scheduled")
    BY <1>5, Zenon
  <1> HIDE DEF p, X
  <1> QED
    BY <1>1, <1>10, <1>11, EndedKeeps, Zenon

LEMMA FailedItemItem ==
    ASSUME MapTypes, NEW k \in Key, Holds(inFlight[k])
    PROVE  /\ FailedItem(k) \in Item /\ Holds(FailedItem(k))
           /\ FailedItem(k).works = inFlight[k].works \cup pending[k].works
  <1>1. inFlight[k] \in Item /\ pending[k] \in Item
    BY AtKey, Zenon
  <1> QED
    BY <1>1, Zenon DEF Item, FailedItem, Holds

(* TakeConcurrent leaves nothing pending.                                  *)
LEMMA ConcurrentTaken ==
    ASSUME QueueInv, NEW k \in Key, TakeConcurrent(k),
           NEW r \in Item, NEW e \in Item, KeyStep(k, NoItem, r, e, NoItem)
    PROVE  /\ Queued' = Queued \ {k}
           /\ Lists(order') /\ Elements(order') = Queued'
  <1>0. MapTypes /\ OrderSound
    BY Zenon DEF QueueInv
  <1>1. NoItem \in Item /\ ~ Holds(NoItem)
    BY NoItemItem, Zenon
  <1>2. order' = Without(order, k)
    BY DEF TakeConcurrent
  <1> QED
    BY <1>0, <1>1, <1>2, OrderRemove, KeySets

LEMMA RetryLaterKeeps ==
    ASSUME QueueInv, NEW k \in Key, Finishing(k), RetryLater(k)
    PROVE  QueueInv'
  <1>0. MapTypes /\ FlagTypes /\ WorkTypes /\ OneQueuedItem
    BY DEF QueueInv
  <1> DEFINE r == FailedItem(k)
             e == exhaustedWorkItems[k]
  <1>1. Holds(inFlight[k]) /\ Resettle(Busy \ {k}, Queued \ {k}, drain = "scheduled")
    BY Zenon DEF RetryLater
  <1>2. /\ e \in Item /\ NoItem \in Item /\ ~ Holds(NoItem) /\ NoItem.works = {}
        /\ r \in Item /\ r.works = inFlight[k].works \cup pending[k].works
    BY <1>0, <1>1, AtKey, NoItemItem, FailedItemItem, Zenon
  <1>3. KeyStep(k, NoItem, r, e, NoItem)
    BY <1>0, KeepsItem
       DEF RetryLater, TakeConcurrent, Finishing, Released, MapTypes, KeyStep
  <1>4. ~ Holds(e)
    BY <1>0, <1>1, OneAtKey, Zenon DEF OneAt
  <1>5. OneAt(NoItem, r, e, NoItem)
    BY <1>2, <1>4, Zenon DEF OneAt
  <1>6. failureCount' \in [Key -> 0..MaxAttempts]
    BY <1>0, QueueAssumption DEF FlagTypes, RetryLater
  <1>7. Queued' = Queued \ {k} /\ Lists(order') /\ Elements(order') = Queued'
    BY <1>2, <1>3, ConcurrentTaken, Zenon DEF RetryLater
  <1>8. answer' = Settled({}, "rejected")
    BY <1>0, NothingSettled, Zenon DEF RetryLater
  <1>9. e.works \subseteq {}
    BY <1>4 DEF Holds
  <1>10. inFlight[k].works \cup pending[k].works
           \subseteq UNION {NoItem.works, r.works, {}}
    BY <1>2, Zenon
  <1>11. "rejected" = "resolved" => {} \subseteq inFlight[k].works
    BY Zenon
  <1> HIDE DEF r, e
  <1>12. Ended(k, NoItem, r, e, {}, "rejected")
    BY <1>3, <1>5, <1>6, <1>7, <1>8, <1>9, <1>10, <1>11, Zenon DEF Ended
  <1>13. Resettle(Busy \ {k}, Queued', drain = "scheduled")
    BY <1>1, <1>7, Zenon
  <1> QED
    BY <1>1, <1>2, <1>12, <1>13, EndedKeeps, Zenon

LEMMA ExhaustKeeps ==
    ASSUME QueueInv, NEW k \in Key, Finishing(k), Exhaust(k)
    PROVE  QueueInv'
  <1>0. MapTypes /\ FlagTypes /\ WorkTypes /\ OneQueuedItem
    BY DEF QueueInv
  <1> DEFINE e == FailedItem(k)
             X == FailedItem(k).works
  <1>1. Holds(inFlight[k]) /\ Resettle(Busy \ {k}, Queued \ {k}, drain = "scheduled")
    BY Zenon DEF Exhaust
  <1>2. /\ NoItem \in Item /\ ~ Holds(NoItem) /\ NoItem.works = {}
        /\ e \in Item /\ e.works = inFlight[k].works \cup pending[k].works
    BY <1>0, <1>1, NoItemItem, FailedItemItem, Zenon
  <1>3. KeyStep(k, NoItem, NoItem, e, NoItem)
    BY DEF Exhaust, TakeConcurrent, Finishing, Released, KeyStep
  <1>4. OneAt(NoItem, NoItem, e, NoItem)
    BY <1>2, Zenon DEF OneAt
  <1>5. failureCount' \in [Key -> 0..MaxAttempts]
    BY <1>0, QueueAssumption DEF FlagTypes, Exhaust
  <1>6. Queued' = Queued \ {k} /\ Lists(order') /\ Elements(order') = Queued'
    BY <1>2, <1>3, ConcurrentTaken, Zenon DEF Exhaust
  <1>7. answer' = Settled(X, "rejected")
    BY Zenon DEF Exhaust
  <1>8. e.works \subseteq X
    BY Zenon
  <1>9. inFlight[k].works \cup pending[k].works
           \subseteq UNION {NoItem.works, NoItem.works, X}
    BY <1>2, Zenon
  <1>10. "rejected" = "resolved" => X \subseteq inFlight[k].works
    OBVIOUS
  <1> HIDE DEF e, X
  <1>11. Ended(k, NoItem, NoItem, e, X, "rejected")
    BY <1>3, <1>4, <1>5, <1>6, <1>7, <1>8, <1>9, <1>10, Zenon DEF Ended
  <1>12. Resettle(Busy \ {k}, Queued', drain = "scheduled")
    BY <1>1, <1>6, Zenon
  <1> QED
    BY <1>1, <1>2, <1>11, <1>12, EndedKeeps, Zenon

LEMMA FinishStoppedKeeps ==
    ASSUME QueueInv, NEW k \in Key, Finishing(k), FinishStopped(k)
    PROVE  QueueInv'
  <1>0. /\ MapTypes /\ FlagTypes /\ WorkTypes /\ OneQueuedItem /\ OrderSound
        /\ StoppedSound /\ WorksSound /\ NoWakeUpLost
    BY Zenon DEF QueueInv
  <1>1. inFlight[k] = NoItem /\ stopped
    BY <1>0, Zenon DEF StoppedSound, FinishStopped
  <1>2. inFlight' = inFlight
    <2>1. inFlight = [inFlight EXCEPT ![k] = inFlight[k]]
      BY <1>0, KeepsItem DEF MapTypes
    <2> QED
      BY <1>1, <2>1, Zenon DEF Finishing, Released
  <1>3. UNCHANGED <<pending, order, retryWorkItems, exhaustedWorkItems, inFlight,
                    failureCount, fenceTokens, drain, entries, claimed, stopped,
                    idleWaiting, enqueued, reconciled, answer, late, discards>>
    BY <1>2, Zenon DEF Finishing, FinishStopped
  <1>4. Busy' = Busy /\ Queued' = Queued
    BY <1>3, Zenon DEF Busy, Queued
  <1>5. MapTypes' /\ FlagTypes' /\ WorkTypes'
    BY <1>0, <1>3 DEF MapTypes, FlagTypes, WorkTypes
  <1>6. OneQueuedItem' /\ StoppedSound'
    BY <1>0, <1>3, Zenon DEF OneQueuedItem, StoppedSound
  <1>7. WorksSound'
    BY <1>0, <1>3, Zenon DEF WorksSound, WaitersFollowTheirWork, HeldFor
  <1>8. FlightSound'
    BY FinishFlight
  <1>9. OrderSound'
    BY <1>0, <1>3, <1>4, Zenon DEF OrderSound, Lists, Elements
  <1>10. NoWakeUpLost'
    BY <1>0, <1>3, <1>4, WakeSame, Zenon
  <1> QED
    BY <1>5, <1>6, <1>7, <1>8, <1>9, <1>10 DEF QueueInv

LEMMA FinishKeeps ==
    ASSUME QueueInv, NEW k \in Key, Finish(k)
    PROVE  QueueInv'
  <1>1. Finishing(k)
    BY DEF Finish, Finishing
  <1>2. CASE Succeed(k)
    BY <1>1, <1>2, SettledRunKeeps, Zenon DEF Succeed
  <1>3. CASE Fail(k)
    BY <1>1, <1>3, SettledRunKeeps, Zenon DEF Fail
  <1>4. CASE RetryLater(k)
    BY <1>1, <1>4, RetryLaterKeeps
  <1>5. CASE Exhaust(k)
    BY <1>1, <1>5, ExhaustKeeps, Zenon
  <1>6. CASE FinishStopped(k)
    BY <1>1, <1>6, FinishStoppedKeeps
  <1> QED
    BY <1>2, <1>3, <1>4, <1>5, <1>6, Zenon DEF Finish

-----------------------------------------------------------------------------
(* shutdown, and the theorems.                                             *)

LEMMA ShutdownKeeps ==
    ASSUME QueueInv, Shutdown
    PROVE  QueueInv'
  <1>0. /\ MapTypes /\ FlagTypes /\ WorkTypes /\ OneQueuedItem /\ OrderSound
        /\ FlightSound /\ StoppedSound /\ WorksSound
    BY DEF QueueInv
  <1>1. UNCHANGED <<entries, claimed, enqueued, running, reconciled, late, discards>>
    BY Zenon DEF Shutdown
  <1>2. /\ stopped' = TRUE /\ drain' = "idle" /\ idleWaiting' = FALSE
        /\ order' = <<>> /\ answer' = Settled(AllWorks, "rejected")
    BY DEF Shutdown
  <1>3. \A k \in Key :
           /\ pending'[k] = NoItem /\ retryWorkItems'[k] = NoItem
           /\ exhaustedWorkItems'[k] = NoItem /\ inFlight'[k] = NoItem
    BY Zenon DEF Shutdown
  <1>4. MapTypes'
    BY NoItemItem DEF MapTypes, Shutdown
  <1>5. FlagTypes'
    <2>1. 0 \in 0..MaxAttempts /\ 0 \in 0..MaxFence
      BY QueueAssumption
    <2>2. /\ failureCount' \in [Key -> 0..MaxAttempts]
          /\ fenceTokens' \in [Key -> 0..MaxFence]
      BY <2>1 DEF Shutdown
    <2>3. stopped' \in BOOLEAN /\ idleWaiting' \in BOOLEAN
      BY <1>2, Zenon
    <2>4. claimed' \in 0..MaxItemsPerDrain /\ discards' \in 0..MaxDiscards
      BY <1>0, <1>1, Zenon DEF FlagTypes
    <2> QED
      BY <1>2, <2>2, <2>3, <2>4, Zenon DEF FlagTypes
  <1>6. /\ answer' \in [Work -> {"none", "resolved", "rejected"}]
        /\ \A w \in Work :
              /\ answer[w] # "none" => answer'[w] = answer[w]
              /\ w \in AllWorks => answer'[w] # "none"
              /\ answer'[w] = "resolved" =>
                    answer[w] = "resolved" \/ (w \in AllWorks /\ "rejected" = "resolved")
    BY <1>0, <1>2, SettledAnswers, Zenon
  <1>7. WorkTypes'
    BY <1>0, <1>1, <1>6 DEF WorkTypes
  <1>8. NoItem.works = {} /\ ~ Holds(NoItem)
    BY NoItemItem, Zenon
  <1>9. OneQueuedItem'
    BY <1>3, <1>8, Zenon DEF OneQueuedItem, Holds
  <1>10. StoppedSound'
    BY <1>2, <1>3, Zenon DEF StoppedSound, NoItem
  <1>11. Queued' = {} /\ Busy' = {}
    BY <1>3, <1>8, Zenon DEF Queued, Busy, Holds
  <1>12. OrderSound'
    BY <1>0, <1>1, <1>2, <1>11, EmptyLists DEF OrderSound, Lists, Elements
  <1>13. FlightSound'
    BY <1>0, <1>1, <1>2, Zenon DEF FlightSound, Flying
  <1>14. NoWakeUpLost'
    BY <1>2 DEF NoWakeUpLost, Available
  <1>15. WorksSound'
    <2>1. \A w \in Work : answer'[w] = "resolved" => w \in reconciled'
      BY <1>0, <1>1, <1>6, Zenon DEF WorksSound
    <2>2. \A k \in Key : inFlight'[k].works \subseteq reconciled'
      BY <1>3, <1>8, Zenon
    <2>3. \A k \in Key : \A w \in exhaustedWorkItems'[k].works :
             answer'[w] # "none" \/ w \in late'
      BY <1>3, <1>8, Zenon
    <2>4. \A w \in 1..enqueued : w \in Work
      BY <1>0, QueueAssumption DEF WorkTypes, Work
    <2>5. \A k \in Key : HeldFor(k) \subseteq AllWorks
      BY Zenon DEF HeldFor, AllWorks
    <2>6. ASSUME NEW w \in 1..enqueued, answer'[w] = "none" PROVE w \in late
      BY <1>0, <1>6, <2>4, <2>5, <2>6, Zenon DEF WorksSound, WaitersFollowTheirWork
    <2>7. WaitersFollowTheirWork'
      BY <1>1, <2>1, <2>4, <2>6 DEF WaitersFollowTheirWork
    <2> QED
      BY <2>1, <2>2, <2>3, <2>7, Zenon DEF WorksSound
  <1> QED
    BY <1>4, <1>5, <1>7, <1>9, <1>10, <1>12, <1>13, <1>14, <1>15, Zenon DEF QueueInv

LEMMA QueueInitInv == QueueInit => QueueInv
  <1> SUFFICES ASSUME QueueInit PROVE QueueInv
    BY Zenon
  <1>1. \A k \in Key :
           /\ pending[k] = NoItem /\ retryWorkItems[k] = NoItem
           /\ exhaustedWorkItems[k] = NoItem /\ inFlight[k] = NoItem
    BY Zenon DEF QueueInit
  <1>2. NoItem.works = {} /\ ~ Holds(NoItem)
    BY NoItemItem, Zenon
  <1>3. MapTypes
    BY NoItemItem DEF MapTypes, QueueInit
  <1>4. FlagTypes /\ WorkTypes
    <2>1. /\ 0 \in 0..MaxAttempts /\ 0 \in 0..MaxFence /\ 0 \in 0..MaxItemsPerDrain
          /\ 0 \in 0..MaxDiscards /\ 0 \in 0..MaxWork
      BY QueueAssumption
    <2>2. /\ failureCount \in [Key -> 0..MaxAttempts]
          /\ fenceTokens \in [Key -> 0..MaxFence]
      BY <2>1, Zenon DEF QueueInit
    <2>3. answer \in [Work -> {"none", "resolved", "rejected"}]
      BY DEF QueueInit
    <2>4. FlagTypes
      <3>1. drain = "idle" /\ claimed = 0 /\ discards = 0
        BY DEF QueueInit
      <3>2. stopped \in BOOLEAN /\ idleWaiting \in BOOLEAN
        BY Zenon DEF QueueInit
      <3> QED
        BY <2>1, <2>2, <3>1, <3>2, Zenon DEF FlagTypes
    <2>5. WorkTypes
      BY <2>1, <2>3, Zenon DEF WorkTypes, QueueInit
    <2> QED
      BY <2>4, <2>5, Zenon
  <1>5. OneQueuedItem
    BY <1>1, <1>2, Zenon DEF OneQueuedItem
  <1>6. Queued = {} /\ Busy = {}
    BY <1>1, <1>2, Zenon DEF Queued, Busy
  <1>7. OrderSound
    BY <1>6, EmptyLists, Zenon DEF OrderSound, QueueInit
  <1>8. Flying = {} /\ running \in [Key -> 0..1]
    BY DEF Flying, QueueInit
  <1>9. FlightSound
    BY <1>6, <1>8, FS_EmptySet, QueueAssumption DEF FlightSound
  <1>10. StoppedSound
    BY Zenon DEF StoppedSound, QueueInit
  <1>11. WorksSound
    <2>1. \A w \in Work : answer[w] = "none"
      BY Zenon DEF QueueInit
    <2>2. 1..enqueued = {}
      BY DEF QueueInit
    <2> QED
      BY <1>1, <1>2, <2>1, <2>2 DEF WorksSound, WaitersFollowTheirWork
  <1>12. NoWakeUpLost
    BY <1>6, Zenon DEF NoWakeUpLost, Available, QueueInit
  <1> QED
    BY <1>3, <1>4, <1>5, <1>7, <1>9, <1>10, <1>11, <1>12 DEF QueueInv

LEMMA QueueStutters == QueueInv /\ UNCHANGED queueVars => QueueInv'
  <1> SUFFICES ASSUME QueueInv, UNCHANGED queueVars PROVE QueueInv'
    BY Zenon
  <1>1. UNCHANGED <<pending, order, retryWorkItems, exhaustedWorkItems,
                    failureCount, fenceTokens, inFlight, drain, entries, claimed,
                    stopped, idleWaiting, enqueued, running, reconciled, answer,
                    late, discards>>
    BY DEF queueVars
  <1>2. /\ MapTypes /\ FlagTypes /\ WorkTypes /\ OneQueuedItem /\ OrderSound
        /\ FlightSound /\ StoppedSound /\ WorksSound /\ NoWakeUpLost
    BY Zenon DEF QueueInv
  <1>3. Busy' = Busy /\ Queued' = Queued
    BY <1>1, Zenon DEF Busy, Queued
  <1>4. MapTypes' /\ FlagTypes' /\ WorkTypes'
    BY <1>1, <1>2, Zenon DEF MapTypes, FlagTypes, WorkTypes
  <1>5. OneQueuedItem' /\ StoppedSound'
    BY <1>1, <1>2, Zenon DEF OneQueuedItem, StoppedSound
  <1>6. WorksSound'
    BY <1>1, <1>2, Zenon DEF WorksSound, WaitersFollowTheirWork, HeldFor
  <1>7. FlightSound' /\ NoWakeUpLost'
    BY <1>1, <1>2, <1>3, FlightSame, WakeSame, Zenon
  <1>8. OrderSound'
    BY <1>1, <1>2, <1>3 DEF OrderSound, Lists, Elements
  <1> QED
    BY <1>4, <1>5, <1>6, <1>7, <1>8 DEF QueueInv

LEMMA QueueNextKeeps == QueueInv /\ [QueueNext]_queueVars => QueueInv'
  <1> SUFFICES ASSUME QueueInv, [QueueNext]_queueVars PROVE QueueInv'
    BY Zenon
  <1>1. CASE DrainBegin
    BY <1>1, DrainBeginKeeps
  <1>2. CASE DrainClaim
    BY <1>2, DrainClaimKeeps, Zenon
  <1>3. CASE DrainEnd
    BY <1>3, DrainEndKeeps
  <1>4. CASE AwaitCurrentWorkIdle
    BY <1>4, AwaitKeeps
  <1>5. CASE Shutdown
    BY <1>5, ShutdownKeeps
  <1>6. ASSUME NEW k \in Key, Enqueue(k) PROVE QueueInv'
    BY <1>6, EnqueueKeeps, Zenon
  <1>7. ASSUME NEW k \in Key, Finish(k) PROVE QueueInv'
    BY <1>7, FinishKeeps
  <1>8. ASSUME NEW k \in Key, RetryTimer(k) PROVE QueueInv'
    BY <1>8, RetryTimerKeeps
  <1>9. ASSUME NEW k \in Key, PromotePending(k) PROVE QueueInv'
    BY <1>9, PromotePendingKeeps
  <1>10. ASSUME NEW k \in Key, Discard(k) PROVE QueueInv'
    BY <1>10, DiscardKeeps
  <1>11. CASE UNCHANGED queueVars
    BY <1>11, QueueStutters
  <1> QED
    BY <1>1, <1>2, <1>3, <1>4, <1>5, <1>6, <1>7, <1>8, <1>9, <1>10, <1>11, Zenon
       DEF QueueNext

LEMMA QueueInvariant == QueueSpec => []QueueInv
  BY QueueInitInv, QueueNextKeeps, PTL DEF QueueSpec

(* However many keys, slots and works there are: the maps keep their       *)
(* types, a key has at most one call of reconcileFn unsettled and the      *)
(* queue at most MaxConcurrency, those a shutdown abandoned included       *)
(* (SingleFlight), and a key's queued work is in one place only            *)
(* (OneQueuedItem).                                                        *)
THEOREM QueueTypes == QueueSpec => []QueueTypeOK
  <1>1. QueueInv => QueueTypeOK
    <2> SUFFICES ASSUME QueueInv PROVE QueueTypeOK
      BY Zenon
    <2>1. SingleFlight
      <3>1. running \in [Key -> 0..1] /\ Cardinality(Flying) <= MaxConcurrency
        BY Zenon DEF QueueInv, FlightSound
      <3> QED
        BY <3>1 DEF SingleFlight, Flying
    <2> QED
      BY <2>1 DEF QueueInv, MapTypes, FlagTypes, WorkTypes, OrderSound, Lists,
                  FlightSound, QueueTypeOK
  <1> QED
    BY <1>1, QueueInvariant, PTL

(* No merge, deferral, retry, discard or shutdown of the queue loses a     *)
(* work whose caller was told nothing, and a caller is told of success     *)
(* only when its work was handed to a run.                                 *)
THEOREM WaitersTheorem == QueueSpec => []WaitersFollowTheirWork
  <1>1. QueueInv => WaitersFollowTheirWork
    BY DEF QueueInv, WorksSound
  <1> QED
    BY <1>1, QueueInvariant, PTL

(* Whenever no drain is scheduled or running nothing could be claimed, and *)
(* nobody awaits the idleness of an idle queue (scheduleDrain,             *)
(* _schedulePendingDrainIfAvailable, _notifyCurrentWorkIdle).              *)
THEOREM WakeUpTheorem == QueueSpec => []NoWakeUpLost
  <1>1. QueueInv => NoWakeUpLost
    BY DEF QueueInv
  <1> QED
    BY <1>1, QueueInvariant, PTL
=============================================================================
