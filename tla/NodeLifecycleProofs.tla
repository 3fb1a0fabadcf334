------------------------- MODULE NodeLifecycleProofs -------------------------
(***************************************************************************)
(* Whatever an update read before and however late it lands, the row's     *)
(* incarnations are fenced: proved for any number of boots, clients,       *)
(* publications and lost answers.                                          *)
(***************************************************************************)
EXTENDS NodeLifecycle, TLAPS

RowType == [boot : Nat, status : {"none", "JOINING", "ACTIVE", "STOPPED"},
            conn : {"none", "CONNECTED", "READY", "DISCONNECTED"},
            hb : Nat, lease : Int]

Kinds == {"idle", "register", "CONNECTED", "READY", "publish", "terminal", "sweep"}

Stages == {"none", "first", "second", "reuse", "reread", "readback", "read", "sent",
           "disconnecting", "reap", "reaping"}

TaskType == [kind : Kinds, boot : Nat, stage : Stages, at : Nat, seen : RowType]

\* What a task remembers of the row it read was stranded, and still is.
TaskSound(task) ==
    /\ task.at <= time
    /\ task.seen = NoNode \/ Stranded(task.seen, time)

TypedSets(sets) ==
    /\ "boot" \in DOMAIN sets => sets["boot"] \in Nat
    /\ "status" \in DOMAIN sets => sets["status"] \in {"none", "JOINING", "ACTIVE", "STOPPED"}
    /\ "conn" \in DOMAIN sets => sets["conn"] \in {"CONNECTED", "READY", "DISCONNECTED"}
    /\ "hb" \in DOMAIN sets => sets["hb"] \in Nat
    /\ "lease" \in DOMAIN sets => sets["lease"] \in Int

(* The five kinds of update: a registration, a publication, a stop, a      *)
(* reaping, and the sweep's disconnection.                                 *)

Raises(w) ==
    /\ "boot" \in DOMAIN w.expects /\ "boot" \in DOMAIN w.sets
    /\ "status" \in DOMAIN w.sets
    /\ w.expects["boot"] \in Nat /\ w.expects["boot"] < w.sets["boot"]
    /\ w.sets["status"] # "STOPPED"

Publishes(w) ==
    /\ "boot" \in DOMAIN w.expects /\ "boot" \in DOMAIN w.sets
    /\ w.expects["boot"] = w.sets["boot"]
    /\ "status" \in DOMAIN w.expects /\ w.expects["status"] # "STOPPED"
    /\ "status" \in DOMAIN w.sets => w.sets["status"] # "STOPPED"

Stops(w) ==
    /\ "boot" \in DOMAIN w.expects /\ "boot" \notin DOMAIN w.sets
    /\ w.expects["boot"] \in stopping
    /\ "status" \in DOMAIN w.sets /\ w.sets["status"] = "STOPPED"

Reaps(w) ==
    /\ "boot" \notin DOMAIN w.sets
    /\ "status" \in DOMAIN w.expects /\ w.expects["status"] = "JOINING"
    /\ "lease" \in DOMAIN w.expects
    /\ w.expects["lease"] \in Int /\ w.expects["lease"] <= time

Disconnects(w) == "boot" \notin DOMAIN w.sets /\ "status" \notin DOMAIN w.sets

Fenced(w) ==
    /\ w = [from |-> w.from, expects |-> w.expects, sets |-> w.sets]
    /\ TypedSets(w.sets)
    /\ Raises(w) \/ Publishes(w) \/ Stops(w) \/ Reaps(w) \/ Disconnects(w)

FenceInvariant ==
    /\ nodeRow \in RowType
    /\ time \in Nat \ {0} /\ latest \in Nat /\ live \subseteq Nat
    /\ tasks \in [Slots -> TaskType]
    /\ \A s \in Slots : TaskSound(tasks[s])
    /\ \A w \in writes : Fenced(w)

-----------------------------------------------------------------------------
(* The row an update leaves.                                               *)

LEMMA WithTyped ==
    ASSUME NEW row \in RowType, NEW sets, TypedSets(sets)
    PROVE  /\ With(row, sets) \in RowType
           /\ With(row, sets).boot = IF "boot" \in DOMAIN sets THEN sets["boot"] ELSE row.boot
           /\ With(row, sets).status =
                IF "status" \in DOMAIN sets THEN sets["status"] ELSE row.status
<1>1. DOMAIN row = {"boot", "status", "conn", "hb", "lease"}
  BY DEF RowType
<1>2. /\ row.boot \in Nat /\ row.hb \in Nat /\ row.lease \in Int
      /\ row.status \in {"none", "JOINING", "ACTIVE", "STOPPED"}
      /\ row.conn \in {"none", "CONNECTED", "READY", "DISCONNECTED"}
  BY DEF RowType
<1> DEFINE r == With(row, sets)
<1>3. /\ r["boot"] = IF "boot" \in DOMAIN sets THEN sets["boot"] ELSE row.boot
      /\ r["status"] = IF "status" \in DOMAIN sets THEN sets["status"] ELSE row.status
      /\ r["conn"] = IF "conn" \in DOMAIN sets THEN sets["conn"] ELSE row.conn
      /\ r["hb"] = IF "hb" \in DOMAIN sets THEN sets["hb"] ELSE row.hb
      /\ r["lease"] = IF "lease" \in DOMAIN sets THEN sets["lease"] ELSE row.lease
  BY <1>1 DEF With
<1>4. r = [boot |-> r["boot"], status |-> r["status"], conn |-> r["conn"],
           hb |-> r["hb"], lease |-> r["lease"]]
  BY <1>1 DEF With
<1>5. /\ r["boot"] \in Nat /\ r["hb"] \in Nat /\ r["lease"] \in Int
      /\ r["status"] \in {"none", "JOINING", "ACTIVE", "STOPPED"}
      /\ r["conn"] \in {"none", "CONNECTED", "READY", "DISCONNECTED"}
  BY <1>2, <1>3 DEF TypedSets
<1> QED
  BY <1>3, <1>4, <1>5 DEF RowType

\* What GenerationsFenced says of a row and the row an update leaves.
RowsFenced(row, next) ==
    (row.boot # 0 /\ next.boot # 0) =>
        /\ next.boot >= row.boot
        /\ next.boot = row.boot /\ row.status = "STOPPED" => next.status = "STOPPED"
        /\ row.status # "STOPPED" /\ next.status = "STOPPED" =>
             row.boot \in stopping \/ Stranded(row, time)

(***************************************************************************)
(* A fenced update that matches leaves a row the fence allows.             *)
(***************************************************************************)
LEMMA LandFenced ==
    ASSUME nodeRow \in RowType, time \in Nat \ {0}, NEW w, Fenced(w), Matches(w)
    PROVE  RowsFenced(nodeRow, With(nodeRow, w.sets))
<1> DEFINE next == With(nodeRow, w.sets)
<1>1. /\ next.boot = IF "boot" \in DOMAIN w.sets THEN w.sets["boot"] ELSE nodeRow.boot
      /\ next.status = IF "status" \in DOMAIN w.sets THEN w.sets["status"] ELSE nodeRow.status
      /\ TypedSets(w.sets)
  BY WithTyped DEF Fenced
<1>2. /\ "boot" \in DOMAIN w.expects => nodeRow.boot = w.expects["boot"]
      /\ "status" \in DOMAIN w.expects => nodeRow.status = w.expects["status"]
      /\ "lease" \in DOMAIN w.expects => nodeRow.lease = w.expects["lease"]
  BY DEF Matches
<1>3. nodeRow.boot \in Nat
  BY DEF RowType
<1> HIDE DEF next
<1>4. CASE Raises(w)
  <2>1. w.sets["boot"] \in Nat
    BY <1>1, <1>4 DEF Raises, TypedSets
  <2> QED BY <1>1, <1>2, <1>3, <1>4, <2>1 DEF Raises, RowsFenced, next
<1>5. CASE Publishes(w)
  BY <1>1, <1>2, <1>3, <1>5 DEF Publishes, RowsFenced, next
<1>6. CASE Stops(w)
  BY <1>1, <1>2, <1>3, <1>6 DEF Stops, RowsFenced, next
<1>7. CASE Reaps(w)
  <2>1. Stranded(nodeRow, time)
    BY <1>2, <1>7 DEF Reaps, Stranded, holdsLiveLease, LeaseNumber
  <2>2. nodeRow.status # "STOPPED"
    BY <1>2, <1>7 DEF Reaps
  <2> QED BY <1>1, <1>3, <1>7, <2>1, <2>2 DEF Reaps, RowsFenced, next
<1>8. CASE Disconnects(w)
  BY <1>1, <1>3, <1>8 DEF Disconnects, RowsFenced, next
<1> QED
  BY <1>4, <1>5, <1>6, <1>7, <1>8 DEF Fenced

-----------------------------------------------------------------------------
(* The invariant is inductive.                                             *)

\* Time and the boots that stop only grow, so what was sound stays sound.
LEMMA SoundStays ==
    ASSUME time \in Nat \ {0}, time' \in Nat \ {0}, time <= time', stopping \subseteq stopping'
    PROVE  /\ \A task \in TaskType : TaskSound(task) => TaskSound(task)'
           /\ \A w : Fenced(w) => Fenced(w)'
<1>1. ASSUME NEW task \in TaskType, TaskSound(task)
      PROVE  TaskSound(task)'
  <2>1. task.at \in Nat /\ task.seen.lease \in Int
    BY DEF TaskType, RowType
  <2> QED
    BY <1>1, <2>1 DEF TaskSound, Stranded, holdsLiveLease, LeaseNumber, NoLease
<1>2. ASSUME NEW w, Fenced(w)
      PROVE  Fenced(w)'
  <2>1. Reaps(w) => Reaps(w)'
    BY DEF Reaps
  <2>2. Stops(w) => Stops(w)'
    BY DEF Stops
  <2> QED
    BY <1>2, <2>1, <2>2 DEF Fenced, Raises, Publishes, Disconnects
<1> QED
  BY <1>1, <1>2

\* A step need only account for the tasks and the updates it adds.
LEMMA InvariantKept ==
    ASSUME FenceInvariant,
           nodeRow' \in RowType, latest' \in Nat, live' \subseteq Nat,
           time' \in Nat \ {0}, time <= time', stopping \subseteq stopping',
           tasks' \in [Slots -> TaskType],
           \A s \in Slots : tasks'[s] = tasks[s] \/ TaskSound(tasks[s])',
           \A w \in writes' : w \in writes \/ Fenced(w)'
    PROVE  FenceInvariant'
<1>1. \A s \in Slots : TaskSound(tasks[s])'
  <2> SUFFICES ASSUME NEW s \in Slots, tasks'[s] = tasks[s]
               PROVE  TaskSound(tasks[s])'
    OBVIOUS
  <2>1. tasks[s] \in TaskType /\ TaskSound(tasks[s]) /\ time \in Nat \ {0}
    BY DEF FenceInvariant
  <2>2. \A task \in TaskType : TaskSound(task) => TaskSound(task)'
    BY <2>1, SoundStays
  <2> QED
    BY <2>1, <2>2 DEF TaskSound
<1>2. \A w \in writes' : Fenced(w)'
  BY SoundStays DEF FenceInvariant
<1> QED
  BY <1>1, <1>2 DEF FenceInvariant

LEMMA IdleIsSound ==
    /\ NoNode \in RowType /\ IdleTask \in TaskType
    /\ FenceInvariant => TaskSound(IdleTask)
<1>1. NoNode \in RowType
  BY DEF NoNode, RowType, NoLease
<1>2. IdleTask \in TaskType
  BY <1>1 DEF IdleTask, TaskType, Kinds, Stages
<1>3. FenceInvariant => TaskSound(IdleTask)
  BY DEF FenceInvariant, TaskSound, IdleTask
<1> QED
  BY <1>1, <1>2, <1>3

\* A registration sends an advance from an older incarnation.
LEMMA AdvanceFenced ==
    ASSUME NEW f, NEW seen \in RowType, NEW b \in Nat, NEW at \in Nat, seen.boot < b
    PROVE  /\ Fenced([from |-> f, expects |-> AdvanceFrom(seen), sets |-> FreshRow(b, at)])
           /\ Fenced([from |-> f, expects |-> AdvanceFrom(seen),
                      sets |-> ReentryRow(seen, b, at)])
<1>1. seen.boot \in Nat /\ seen.status \in {"none", "JOINING", "ACTIVE", "STOPPED"}
  BY DEF RowType
<1>2. TypedSets(FreshRow(b, at))
  BY DEF TypedSets, FreshRow
<1>3. TypedSets(ReentryRow(seen, b, at))
  BY <1>1 DEF TypedSets, ReentryRow, NoLease
<1>4. Raises([from |-> f, expects |-> AdvanceFrom(seen), sets |-> FreshRow(b, at)])
  BY <1>1 DEF Raises, AdvanceFrom, FreshRow
<1>5. Raises([from |-> f, expects |-> AdvanceFrom(seen), sets |-> ReentryRow(seen, b, at)])
  BY <1>1 DEF Raises, AdvanceFrom, ReentryRow
<1> QED
  BY <1>2, <1>3, <1>4, <1>5 DEF Fenced

LEMMA PublicationFenced ==
    ASSUME NEW f, NEW seen \in RowType, NEW b \in Nat, NEW t \in Nat, NEW sets,
           seen.boot = b, seen.status # "STOPPED",
           \/ sets = [boot |-> b, status |-> "ACTIVE", conn |-> "READY", hb |-> t,
                      lease |-> t + ReadyLease]
           \/ sets = [boot |-> b, conn |-> "CONNECTED", hb |-> t, lease |-> NoLease]
    PROVE  Fenced([from |-> f, expects |-> SourcePredicate(seen), sets |-> sets])
<1>1. ReadyLease \in Int
  BY LifecycleAssumption
<1>2. TypedSets(sets)
  BY <1>1 DEF TypedSets, NoLease
<1>3. Publishes([from |-> f, expects |-> SourcePredicate(seen), sets |-> sets])
  BY DEF Publishes, SourcePredicate
<1> QED
  BY <1>2, <1>3 DEF Fenced

LEMMA SweepFenced ==
    ASSUME NEW f, NEW seen \in RowType, time \in Nat \ {0}
    PROVE  /\ Fenced([from |-> f, expects |-> LeasePredicate(seen),
                      sets |-> [conn |-> "DISCONNECTED", lease |-> NoLease]])
           /\ Stranded(seen, time) =>
                Fenced([from |-> f, expects |-> ReapPredicate(seen),
                        sets |-> [status |-> "STOPPED"]])
<1>1. TypedSets([conn |-> "DISCONNECTED", lease |-> NoLease])
  BY DEF TypedSets, NoLease
<1>2. TypedSets([status |-> "STOPPED"])
  BY DEF TypedSets
<1>3. Disconnects([from |-> f, expects |-> LeasePredicate(seen),
                   sets |-> [conn |-> "DISCONNECTED", lease |-> NoLease]])
  BY DEF Disconnects
<1>4. ASSUME Stranded(seen, time)
      PROVE  Reaps([from |-> f, expects |-> ReapPredicate(seen), sets |-> [status |-> "STOPPED"]])
  <2>1. seen.lease \in Int
    BY DEF RowType
  <2>2. seen.lease <= time
    BY <1>4, <2>1 DEF Stranded, holdsLiveLease, LeaseNumber, NoLease
  <2> QED
    BY <2>1, <2>2 DEF Reaps, ReapPredicate
<1> QED
  BY <1>1, <1>2, <1>3, <1>4 DEF Fenced

-----------------------------------------------------------------------------
(* One lemma for the steps of each writer.                                 *)

LEMMA SentKeeps ==
    ASSUME FenceInvariant, NEW s \in Slots, NEW task \in TaskType, TaskSound(task),
           NEW expects, NEW sets, Send(s, task, expects, sets),
           Fenced([from |-> s, expects |-> expects, sets |-> sets])',
           nodeRow' = nodeRow, latest' = latest, live' = live, time' = time,
           stopping \subseteq stopping'
    PROVE  FenceInvariant'
<1>1. /\ tasks \in [Slots -> TaskType] /\ nodeRow \in RowType
      /\ time \in Nat \ {0} /\ latest \in Nat /\ live \subseteq Nat
  BY DEF FenceInvariant
<1>2. /\ tasks' \in [Slots -> TaskType]
      /\ \A u \in Slots : tasks'[u] = tasks[u] \/ tasks'[u] = task
  BY <1>1 DEF Send
<1>3. \A u \in Slots : tasks'[u] = tasks[u] \/ TaskSound(tasks[u])'
  BY <1>2 DEF TaskSound, Stranded, holdsLiveLease
<1>4. \A w \in writes' : w \in writes \/ Fenced(w)'
  BY DEF Send
<1> QED
  BY <1>1, <1>2, <1>3, <1>4, InvariantKept

LEMMA TaskKeeps ==
    ASSUME FenceInvariant, NEW s \in Slots, NEW task \in TaskType, TaskSound(task),
           tasks' = [tasks EXCEPT ![s] = task], writes' = writes,
           nodeRow' = nodeRow, latest' = latest, live' = live, time' = time,
           stopping' = stopping
    PROVE  FenceInvariant'
<1>1. /\ tasks \in [Slots -> TaskType] /\ nodeRow \in RowType
      /\ time \in Nat \ {0} /\ latest \in Nat /\ live \subseteq Nat
  BY DEF FenceInvariant
<1>2. /\ tasks' \in [Slots -> TaskType]
      /\ \A u \in Slots : tasks'[u] = tasks[u] \/ tasks'[u] = task
  BY <1>1
<1>3. \A u \in Slots : tasks'[u] = tasks[u] \/ TaskSound(tasks[u])'
  BY <1>2 DEF TaskSound, Stranded, holdsLiveLease
<1> QED
  BY <1>1, <1>2, <1>3, InvariantKept

\* What every proof below uses of the invariant.
LEMMA InvariantFacts ==
    ASSUME FenceInvariant, NEW s \in Slots
    PROVE  /\ tasks[s] \in TaskType /\ TaskSound(tasks[s]) /\ nodeRow \in RowType
           /\ NoNode \in RowType /\ IdleTask \in TaskType /\ TaskSound(IdleTask)
           /\ time \in Nat \ {0} /\ latest \in Nat /\ live \subseteq Nat
           /\ tasks[s].boot \in Nat /\ tasks[s].at \in Nat /\ tasks[s].at <= time
           /\ nodeRow.boot \in Nat /\ tasks[s].seen \in RowType
<1>1. tasks[s] \in TaskType /\ TaskSound(tasks[s])
  BY DEF FenceInvariant
<1> QED
  BY <1>1, IdleIsSound DEF FenceInvariant, TaskSound, TaskType, RowType

LEMMA RegistrationKeeps ==
    ASSUME FenceInvariant, NEW s \in Client, Register(s) \/ Reread(s) \/ Readback(s)
    PROVE  FenceInvariant'
<1> DEFINE Sent(e, t) == Fenced([from |-> s, expects |-> e, sets |-> t])
<1>1. /\ nodeRow' = nodeRow /\ latest' = latest /\ live' = live
      /\ time' = time /\ stopping' = stopping
  BY DEF Register, Reread, Readback
<1>2. s \in Slots
  BY DEF Slots
<1>3. ASSUME NEW b \in Nat, NEW at \in Nat, at <= time, NEW stage \in Stages
      PROVE  RegisterTask(b, stage, at) \in TaskType /\ TaskSound(RegisterTask(b, stage, at))
  BY <1>2, <1>3, InvariantFacts DEF RegisterTask, TaskType, TaskSound, Kinds
<1>4. ASSUME NEW seen \in RowType, NEW b \in Nat, NEW at \in Nat, seen.boot < b,
             NEW sets \in {FreshRow(b, at), ReentryRow(seen, b, at)}, NEW task \in TaskType,
             TaskSound(task), Send(s, task, AdvanceFrom(seen), sets)
      PROVE  FenceInvariant'
  <2>1. Fenced([from |-> s, expects |-> AdvanceFrom(seen), sets |-> sets])
    BY <1>4, AdvanceFenced
  <2>2. Fenced([from |-> s, expects |-> AdvanceFrom(seen), sets |-> sets])'
    BY <1>1, <1>2, <2>1, InvariantFacts, SoundStays
  <2> QED
    BY <1>1, <1>2, <1>4, <2>2, SentKeeps
<1>5. ASSUME tasks' = tasks, writes' = writes
      PROVE  FenceInvariant'
  BY <1>1, <1>5 DEF FenceInvariant, TaskSound, Stranded, holdsLiveLease, Fenced, Raises,
     Publishes, Stops, Reaps, Disconnects
<1>6. ASSUME End(s)
      PROVE  FenceInvariant'
  BY <1>1, <1>2, <1>6, InvariantFacts, TaskKeeps DEF End
<1>7. CASE Register(s)
  <2>1. PICK b \in live \ registered : RegisterFresh(s, b) \/ RegisterReused(s, b)
    BY <1>7 DEF Register
  <2>2. b \in Nat /\ time \in Nat /\ time <= time /\ 0 <= time
    BY <1>2, InvariantFacts
  <2>3. CASE RegisterFresh(s, b)
    <3>1. PICK seen \in {nodeRow, NoNode} :
            \/ /\ seen.boot < b
               /\ Send(s, RegisterTask(b, "first", time), AdvanceFrom(seen), FreshRow(b, time))
            \/ tasks' = tasks /\ writes' = writes
      BY <2>3 DEF RegisterFresh
    <3>2. seen \in RowType
      BY <1>2, InvariantFacts
    <3>3. /\ RegisterTask(b, "first", time) \in TaskType
          /\ TaskSound(RegisterTask(b, "first", time))
      BY <1>3, <2>2 DEF Stages
    <3> QED
      BY <1>4, <1>5, <2>2, <3>1, <3>2, <3>3
  <2>4. CASE RegisterReused(s, b)
    <3>1. \/ /\ nodeRow.boot < b
             /\ Send(s, RegisterTask(b, "reuse", 0), AdvanceFrom(nodeRow),
                     ReentryRow(nodeRow, b, time))
          \/ tasks' = tasks /\ writes' = writes
      BY <2>4 DEF RegisterReused
    <3>2. nodeRow \in RowType
      BY <1>2, InvariantFacts
    <3>3. /\ RegisterTask(b, "reuse", 0) \in TaskType
          /\ TaskSound(RegisterTask(b, "reuse", 0))
      BY <1>3, <2>2 DEF Stages
    <3> QED
      BY <1>4, <1>5, <2>2, <3>1, <3>2, <3>3
  <2> QED
    BY <2>1, <2>3, <2>4
<1>8. CASE Reread(s)
  <2> DEFINE b == tasks[s].boot
             at == tasks[s].at
  <2>1. \/ /\ nodeRow.boot \in 1..(b - 1)
           /\ Send(s, RegisterTask(b, "second", 0), AdvanceFrom(nodeRow), FreshRow(b, at))
        \/ End(s)
    BY <1>8 DEF Reread
  <2>2. b \in Nat /\ at \in Nat /\ nodeRow \in RowType /\ 0 <= time /\ nodeRow.boot \in Nat
    BY <1>2, InvariantFacts
  <2>3. RegisterTask(b, "second", 0) \in TaskType /\ TaskSound(RegisterTask(b, "second", 0))
    BY <1>3, <2>2 DEF Stages
  <2> HIDE DEF b, at
  <2> QED
    BY <1>4, <1>6, <2>1, <2>2, <2>3
<1>9. CASE Readback(s)
  BY <1>6, <1>9 DEF Readback
<1> QED
  BY <1>7, <1>8, <1>9

LEMMA PublicationKeeps ==
    ASSUME FenceInvariant, NEW s \in Client, Publish(s) \/ ReadAndPlan(s)
    PROVE  FenceInvariant'
<1>1. /\ nodeRow' = nodeRow /\ latest' = latest /\ live' = live
      /\ time' = time /\ stopping' = stopping
  BY DEF Publish, ReadAndPlan
<1>2. s \in Slots
  BY DEF Slots
<1>3. CASE Publish(s)
  <2>1. PICK b \in live, state \in {"CONNECTED", "READY"} :
          tasks' = [tasks EXCEPT ![s] = [kind |-> state, boot |-> b, stage |-> "read",
                                         at |-> time, seen |-> NoNode]]
    BY <1>3 DEF Publish
  <2> DEFINE task == [kind |-> state, boot |-> b, stage |-> "read", at |-> time, seen |-> NoNode]
  <2>2. b \in Nat /\ time \in Nat /\ NoNode \in RowType
    BY <1>2, InvariantFacts
  <2>3. task \in TaskType
    BY <2>2 DEF TaskType, Kinds, Stages
  <2>4. TaskSound(task)
    BY <2>2 DEF TaskSound
  <2>5. writes' = writes
    BY <1>3 DEF Publish
  <2> HIDE DEF task
  <2>6. tasks' = [tasks EXCEPT ![s] = task]
    BY <2>1 DEF task
  <2> QED
    BY <1>1, <1>2, <2>3, <2>4, <2>5, <2>6, TaskKeeps
<1>4. CASE ReadAndPlan(s)
  <2> DEFINE sent == [IdleTask EXCEPT !.kind = "publish", !.stage = "sent"]
             old == tasks[s]
             sets == UpdateRow(old, nodeRow)
  <2>1. \/ /\ Publishable(old, nodeRow)
           /\ Send(s, sent, SourcePredicate(nodeRow), sets)
        \/ End(s)
    BY <1>4 DEF ReadAndPlan
  <2>2. sent \in TaskType /\ TaskSound(sent)
    BY <1>2, InvariantFacts DEF IdleTask, TaskType, TaskSound, Kinds, Stages
  <2>3. CASE End(s)
    BY <1>1, <1>2, <2>3, InvariantFacts, TaskKeeps DEF End
  <2>4. CASE Publishable(old, nodeRow) /\ Send(s, sent, SourcePredicate(nodeRow), sets)
    <3>1. /\ nodeRow \in RowType /\ old.boot \in Nat /\ time \in Nat /\ time \in Nat \ {0}
      BY <1>2, InvariantFacts
    <3>2. nodeRow.boot = old.boot /\ nodeRow.status # "STOPPED"
      BY <2>4 DEF Publishable
    <3>3. \/ sets = [boot |-> old.boot, status |-> "ACTIVE", conn |-> "READY", hb |-> time,
                     lease |-> time + ReadyLease]
          \/ sets = [boot |-> old.boot, conn |-> "CONNECTED", hb |-> time, lease |-> NoLease]
      BY Zenon DEF UpdateRow
    <3> HIDE DEF sent, old, sets
    <3>4. PICK e, t : e = SourcePredicate(nodeRow) /\ t = sets
      OBVIOUS
    <3>5. Fenced([from |-> s, expects |-> e, sets |-> t])
      BY <3>1, <3>2, <3>3, <3>4, PublicationFenced
    <3>6. Fenced([from |-> s, expects |-> e, sets |-> t])'
      BY <1>1, <3>1, <3>5, SoundStays
    <3> QED
      BY <1>1, <1>2, <2>2, <2>4, <3>4, <3>6, SentKeeps
  <2> QED
    BY <2>1, <2>3, <2>4
<1> QED
  BY <1>3, <1>4

LEMMA TerminationKeeps ==
    ASSUME FenceInvariant, NEW s \in Client, Terminate(s)
    PROVE  FenceInvariant'
<1>1. /\ nodeRow' = nodeRow /\ latest' = latest /\ live' = live /\ time' = time
  BY DEF Terminate
<1>2. s \in Slots
  BY DEF Slots
<1>3. PICK b \in live :
        /\ Send(s, [IdleTask EXCEPT !.kind = "terminal", !.boot = b, !.stage = "sent"],
                IncarnationWhereClause(b),
                [status |-> "STOPPED", conn |-> "DISCONNECTED", hb |-> time, lease |-> NoLease])
        /\ stopping' = stopping \cup {b}
  BY DEF Terminate
<1> DEFINE sent == [IdleTask EXCEPT !.kind = "terminal", !.boot = b, !.stage = "sent"]
           sets == [status |-> "STOPPED", conn |-> "DISCONNECTED", hb |-> time, lease |-> NoLease]
<1>4. b \in Nat /\ time \in Nat
  BY <1>2, InvariantFacts
<1>5. sent \in TaskType /\ TaskSound(sent)
  BY <1>2, <1>4, InvariantFacts DEF IdleTask, TaskType, TaskSound, Kinds, Stages
<1>6. Fenced([from |-> s, expects |-> IncarnationWhereClause(b), sets |-> sets])'
  <2>1. TypedSets(sets)
    BY <1>4 DEF TypedSets, NoLease
  <2>2. Stops([from |-> s, expects |-> IncarnationWhereClause(b), sets |-> sets])'
    BY <1>1, <1>3 DEF Stops, IncarnationWhereClause
  <2> QED
    BY <1>1, <2>1, <2>2 DEF Fenced
<1> QED
  BY <1>1, <1>2, <1>3, <1>5, <1>6, SentKeeps

LEMMA SweepKeeps ==
    ASSUME FenceInvariant, Sweep \/ DisconnectExpired \/ ReapStranded
    PROVE  FenceInvariant'
<1>1. /\ nodeRow' = nodeRow /\ latest' = latest /\ live' = live
      /\ time' = time /\ stopping' = stopping
  BY DEF Sweep, DisconnectExpired, ReapStranded
<1>2. Sweeper \in Slots
  BY DEF Slots
<1>3. ASSUME NEW seen \in RowType, seen = NoNode \/ Stranded(seen, time),
             NEW stage \in Stages
      PROVE  SweepTask(stage, seen) \in TaskType /\ TaskSound(SweepTask(stage, seen))
  BY <1>2, <1>3, InvariantFacts DEF SweepTask, IdleTask, TaskType, TaskSound, Kinds
<1>4. ASSUME NEW stranded \in RowType, stranded = NoNode \/ Stranded(stranded, time),
             Reap(stranded)
      PROVE  FenceInvariant'
  <2>1. CASE End(Sweeper)
    BY <1>1, <1>2, <2>1, InvariantFacts, TaskKeeps DEF End
  <2>2. CASE /\ stranded # NoNode
             /\ Send(Sweeper, SweepTask("reaping", NoNode), ReapPredicate(stranded),
                     [status |-> "STOPPED"])
    <3>1. PICK e, t : e = ReapPredicate(stranded) /\ t = [status |-> "STOPPED"]
      OBVIOUS
    <3>2. time \in Nat \ {0} /\ NoNode \in RowType
      BY <1>2, InvariantFacts
    <3>3. Fenced([from |-> Sweeper, expects |-> e, sets |-> t])
      BY <1>4, <2>2, <3>1, <3>2, SweepFenced
    <3>4. Fenced([from |-> Sweeper, expects |-> e, sets |-> t])'
      BY <1>1, <3>2, <3>3, SoundStays
    <3>5. SweepTask("reaping", NoNode) \in TaskType /\ TaskSound(SweepTask("reaping", NoNode))
      BY <1>3, <3>2 DEF Stages
    <3> QED
      BY <1>1, <1>2, <2>2, <3>1, <3>4, <3>5, SentKeeps
  <2> QED
    BY <1>4, <2>1, <2>2 DEF Reap
<1>5. CASE Sweep
  <2>1. PICK swept : swept = SweepTask("read", NoNode)
    OBVIOUS
  <2>2. tasks' = [tasks EXCEPT ![Sweeper] = [swept EXCEPT !.at = time]] /\ writes' = writes
    BY <1>5, <2>1 DEF Sweep
  <2>3. swept \in TaskType /\ TaskSound(swept)
    BY <1>2, <1>3, <2>1, InvariantFacts DEF Stages
  <2>4. [swept EXCEPT !.at = time] \in TaskType /\ TaskSound([swept EXCEPT !.at = time])
    BY <1>2, <2>3, InvariantFacts DEF TaskType, TaskSound
  <2> QED
    BY <1>1, <1>2, <2>2, <2>4, TaskKeeps
<1>6. CASE DisconnectExpired
  <2> DEFINE now == tasks[Sweeper].at
             stranded == IF Stranded(nodeRow, now) THEN nodeRow ELSE NoNode
  <2>1. \/ Send(Sweeper, SweepTask("disconnecting", stranded), LeasePredicate(nodeRow),
                [conn |-> "DISCONNECTED", lease |-> NoLease])
        \/ Reap(stranded)
    BY <1>6 DEF DisconnectExpired
  <2>2. /\ now \in Nat /\ now <= time /\ time \in Nat \ {0}
        /\ nodeRow \in RowType /\ NoNode \in RowType
    BY <1>2, InvariantFacts
  <2> HIDE DEF now
  <2>3. stranded \in RowType
    BY <2>2
  <2>4. stranded = NoNode \/ Stranded(stranded, time)
    <3>1. nodeRow.lease \in Int
      BY <2>2 DEF RowType
    <3>2. Stranded(nodeRow, now) => Stranded(nodeRow, time)
      BY <2>2, <3>1 DEF Stranded, holdsLiveLease, LeaseNumber
    <3> QED
      BY <3>2
  <2> HIDE DEF stranded
  <2>5. CASE Reap(stranded)
    BY <1>4, <2>3, <2>4, <2>5
  <2>6. CASE Send(Sweeper, SweepTask("disconnecting", stranded), LeasePredicate(nodeRow),
                  [conn |-> "DISCONNECTED", lease |-> NoLease])
    <3>1. PICK e, t : e = LeasePredicate(nodeRow) /\ t = [conn |-> "DISCONNECTED", lease |-> NoLease]
      OBVIOUS
    <3>2. Fenced([from |-> Sweeper, expects |-> e, sets |-> t])
      BY <2>2, <3>1, SweepFenced
    <3>3. Fenced([from |-> Sweeper, expects |-> e, sets |-> t])'
      BY <1>1, <2>2, <3>2, SoundStays
    <3>4. /\ SweepTask("disconnecting", stranded) \in TaskType
          /\ TaskSound(SweepTask("disconnecting", stranded))
      BY <1>3, <2>3, <2>4 DEF Stages
    <3> QED
      BY <1>1, <1>2, <2>6, <3>1, <3>3, <3>4, SentKeeps
  <2> QED
    BY <2>1, <2>5, <2>6
<1>7. CASE ReapStranded
  <2>1. Reap(tasks[Sweeper].seen)
    BY <1>7 DEF ReapStranded
  <2>2. /\ tasks[Sweeper].seen \in RowType
        /\ tasks[Sweeper].seen = NoNode \/ Stranded(tasks[Sweeper].seen, time)
    BY <1>2, InvariantFacts DEF TaskSound
  <2> QED
    BY <1>4, <2>1, <2>2
<1> QED
  BY <1>5, <1>6, <1>7

LEMMA AnsweredSound ==
    ASSUME FenceInvariant, NEW s \in Slots, NEW applied
    PROVE  /\ Answered(tasks[s], applied) \in TaskType /\ TaskSound(Answered(tasks[s], applied))
           /\ Unanswered(tasks[s]) \in TaskType /\ TaskSound(Unanswered(tasks[s]))
<1>1. PICK task : task = tasks[s]
  OBVIOUS
<1>2. /\ task \in TaskType /\ TaskSound(task)
      /\ IdleTask \in TaskType /\ TaskSound(IdleTask)
  BY <1>1, InvariantFacts
<1>3. ASSUME NEW stage \in Stages
      PROVE  /\ [task EXCEPT !.stage = stage] \in TaskType
             /\ TaskSound([task EXCEPT !.stage = stage])
  BY <1>2, <1>3 DEF TaskType, TaskSound
<1>4. ASSUME NEW a
      PROVE  Answered(task, a) \in TaskType /\ TaskSound(Answered(task, a))
  <2>1. \/ Answered(task, a) = IdleTask
        \/ \E stage \in {"reread", "readback", "reap"} :
              Answered(task, a) = [task EXCEPT !.stage = stage]
    BY DEF Answered
  <2> QED
    BY <1>2, <1>3, <2>1 DEF Stages
<1>5. Unanswered(task) \in TaskType /\ TaskSound(Unanswered(task))
  BY <1>2, <1>4 DEF Unanswered
<1> QED
  BY <1>1, <1>4, <1>5

LEMMA LandingKeeps ==
    ASSUME FenceInvariant, NEW w \in writes, Land(w) \/ GiveUp(w)
    PROVE  FenceInvariant'
<1>1. /\ latest' = latest /\ live' = live /\ time' = time /\ stopping' = stopping
      /\ latest \in Nat /\ live \subseteq Nat /\ time \in Nat \ {0}
      /\ nodeRow \in RowType /\ Fenced(w) /\ tasks \in [Slots -> TaskType]
  BY DEF Land, GiveUp, FenceInvariant
<1>2. nodeRow' \in RowType
  BY <1>1, WithTyped DEF Land, GiveUp, Fenced
<1>3. \A v \in writes' : v \in writes \/ Fenced(v)'
  <2>1. writes' \subseteq writes \cup {[w EXCEPT !.from = Nobody]}
    BY DEF Land, GiveUp, Abandon
  <2>2. Fenced([w EXCEPT !.from = Nobody])
    BY <1>1 DEF Fenced, Raises, Publishes, Stops, Reaps, Disconnects
  <2>3. PICK v : v = [w EXCEPT !.from = Nobody]
    OBVIOUS
  <2>4. Fenced(v)'
    BY <1>1, <2>2, <2>3, SoundStays
  <2> QED
    BY <2>1, <2>3, <2>4
<1>4. /\ tasks' \in [Slots -> TaskType]
      /\ \A u \in Slots : tasks'[u] = tasks[u] \/ (TaskSound(tasks'[u]))
  <2>1. CASE tasks' = tasks
    BY <1>1, <2>1
  <2>2. ASSUME NEW next, tasks' = [tasks EXCEPT ![w.from] = next],
               w.from \in Slots => next \in TaskType /\ TaskSound(next)
        PROVE  <1>4!1 /\ <1>4!2
    BY <1>1, <2>2
  <2>3. CASE tasks' = [tasks EXCEPT ![w.from] = Answered(tasks[w.from], Matches(w))]
    BY <2>2, <2>3, AnsweredSound
  <2>4. CASE tasks' = [tasks EXCEPT ![w.from] = Unanswered(tasks[w.from])]
    BY <2>2, <2>4, AnsweredSound
  <2> QED
    BY <2>1, <2>3, <2>4 DEF Land, GiveUp
<1>5. \A u \in Slots : tasks'[u] = tasks[u] \/ TaskSound(tasks[u])'
  BY <1>1, <1>4 DEF TaskSound, Stranded, holdsLiveLease
<1> QED
  BY <1>1, <1>2, <1>3, <1>4, <1>5, InvariantKept

LEMMA EnvironmentKeeps ==
    ASSUME FenceInvariant, Remove \/ Boot \/ TimePasses \/ (\E b \in live : Exit(b))
    PROVE  FenceInvariant'
<1>1. /\ latest \in Nat /\ live \subseteq Nat /\ time \in Nat \ {0}
      /\ nodeRow \in RowType /\ tasks \in [Slots -> TaskType]
      /\ NoNode \in RowType /\ IdleTask \in TaskType /\ TaskSound(IdleTask)
  BY IdleIsSound DEF FenceInvariant
<1>2. CASE Remove
  BY <1>1, <1>2, InvariantKept DEF Remove
<1>3. CASE Boot
  BY <1>1, <1>3, InvariantKept DEF Boot
<1>4. CASE TimePasses
  BY <1>1, <1>4, InvariantKept DEF TimePasses
<1>5. ASSUME NEW b \in live, Exit(b)
      PROVE  FenceInvariant'
  <2>1. /\ latest' = latest /\ live' \subseteq live /\ time' = time /\ stopping' = stopping
        /\ nodeRow' = nodeRow
    BY <1>5 DEF Exit
  <2>2. /\ tasks' \in [Slots -> TaskType]
        /\ \A u \in Slots : tasks'[u] = tasks[u] \/ tasks'[u] = IdleTask
    BY <1>1, <1>5 DEF Exit
  <2>3. \A u \in Slots : tasks'[u] = tasks[u] \/ TaskSound(tasks[u])'
    BY <1>1, <2>1, <2>2 DEF TaskSound, Stranded, holdsLiveLease
  <2>4. ASSUME NEW v \in writes'
        PROVE  v \in writes \/ Fenced(v)'
    <3>1. v \in writes \/ \E w \in writes : v = [w EXCEPT !.from = Nobody]
      BY <1>5 DEF Exit, Abandon
    <3>2. \A w \in writes : Fenced([w EXCEPT !.from = Nobody])
      BY DEF FenceInvariant, Fenced, Raises, Publishes, Stops, Reaps, Disconnects
    <3> QED
      BY <1>1, <2>1, <3>1, <3>2, SoundStays
  <2> QED
    BY <1>1, <2>1, <2>2, <2>3, <2>4, InvariantKept
<1> QED
  BY <1>2, <1>3, <1>4, <1>5

-----------------------------------------------------------------------------
(* The theorems.                                                           *)

\* Every update under way is one of the five kinds that cannot cross the
\* fence, and what the sweep remembers of a stranded join stays true.
THEOREM FenceInvariantHolds == LifecycleSpec => []FenceInvariant
<1>1. LifecycleInit => FenceInvariant
  <2> SUFFICES ASSUME LifecycleInit
               PROVE  FenceInvariant
    OBVIOUS
  <2>1. NoNode \in RowType /\ IdleTask \in TaskType
    BY IdleIsSound
  <2>2. \A s \in Slots : TaskSound(tasks[s])
    BY DEF LifecycleInit, TaskSound, IdleTask
  <2> QED
    BY <2>1, <2>2 DEF LifecycleInit, FenceInvariant
<1>2. FenceInvariant /\ [LifecycleNext]_lifecycleVars => FenceInvariant'
  <2> SUFFICES ASSUME FenceInvariant, [LifecycleNext]_lifecycleVars
               PROVE  FenceInvariant'
    OBVIOUS
  <2>1. CASE UNCHANGED lifecycleVars
    BY <2>1 DEF lifecycleVars, FenceInvariant, TaskSound, Stranded, holdsLiveLease, Fenced,
       Raises, Publishes, Stops, Reaps, Disconnects
  <2>2. ASSUME NEW s \in Client, Register(s) \/ Reread(s) \/ Readback(s)
        PROVE  FenceInvariant'
    BY <2>2, RegistrationKeeps
  <2>3. ASSUME NEW s \in Client, Publish(s) \/ ReadAndPlan(s)
        PROVE  FenceInvariant'
    BY <2>3, PublicationKeeps
  <2>4. ASSUME NEW s \in Client, Terminate(s)
        PROVE  FenceInvariant'
    BY <2>4, TerminationKeeps
  <2>5. CASE Sweep \/ DisconnectExpired \/ ReapStranded
    BY <2>5, SweepKeeps
  <2>6. ASSUME NEW w \in writes, Land(w) \/ GiveUp(w)
        PROVE  FenceInvariant'
    BY <2>6, LandingKeeps
  <2>7. CASE Remove \/ Boot \/ TimePasses \/ (\E b \in live : Exit(b))
    BY <2>7, EnvironmentKeeps
  <2> QED
    BY <2>1, <2>2, <2>3, <2>4, <2>5, <2>6, <2>7 DEF LifecycleNext
<1> QED
  BY <1>1, <1>2, PTL DEF LifecycleSpec

\* A late update neither lowers the row's incarnation nor revives a stopped
\* one, and only the boot itself or the reaper of a stranded join stops it.
THEOREM GenerationsFencedAlways == LifecycleSpec => GenerationsFenced
<1> DEFINE Step == RowsFenced(nodeRow, nodeRow')
<1>1. FenceInvariant /\ [LifecycleNext]_lifecycleVars => [Step]_lifecycleVars
  <2> SUFFICES ASSUME FenceInvariant, LifecycleNext
               PROVE  Step
    OBVIOUS
  <2>1. /\ nodeRow \in RowType /\ time \in Nat \ {0} /\ \A w \in writes : Fenced(w)
        /\ nodeRow.boot \in Nat
    BY DEF FenceInvariant, RowType
  <2>2. CASE nodeRow' = nodeRow
    BY <2>1, <2>2 DEF RowsFenced
  <2>3. ASSUME NEW w \in writes, Land(w)
        PROVE  Step
    <3>1. nodeRow' = nodeRow \/ (Matches(w) /\ nodeRow' = With(nodeRow, w.sets))
      BY <2>3 DEF Land
    <3> QED
      BY <2>1, <2>2, <3>1, LandFenced
  <2>4. CASE Remove
    BY <2>4 DEF Remove, RowsFenced, NoNode
  <2>5. nodeRow' = nodeRow \/ Remove \/ \E w \in writes : Land(w)
    BY Zenon DEF LifecycleNext, Register, Reread, Readback, Publish, ReadAndPlan, Terminate, Sweep,
       DisconnectExpired, ReapStranded, GiveUp, Exit, Boot, TimePasses
  <2> QED
    BY <2>2, <2>3, <2>4, <2>5
<1>2. [Step]_lifecycleVars <=>
        [(nodeRow.boot # 0 /\ nodeRow'.boot # 0) =>
            /\ nodeRow'.boot >= nodeRow.boot
            /\ nodeRow'.boot = nodeRow.boot /\ nodeRow.status = "STOPPED" =>
                 nodeRow'.status = "STOPPED"
            /\ nodeRow.status # "STOPPED" /\ nodeRow'.status = "STOPPED" =>
                 nodeRow.boot \in stopping \/ Stranded(nodeRow, time)]_lifecycleVars
  BY DEF RowsFenced
<1> HIDE DEF Step
<1> QED
  BY <1>1, <1>2, FenceInvariantHolds, PTL DEF LifecycleSpec, GenerationsFenced

-----------------------------------------------------------------------------
(***************************************************************************)
(* The lease.  What an update may do to it depends on what its sender saw: *)
(* a lease of the row's own boot counts from the heartbeat beside it, so   *)
(* an update that expects that heartbeat has seen that lease.              *)
(***************************************************************************)

\* A lease in a row that is not READY was left by an earlier boot, or it
\* was there when the join was found stranded.
RowLeased(row) ==
    /\ row.boot <= latest /\ row.hb <= time
    /\ row.conn = "READY" => row.status = "ACTIVE" /\ row.lease = row.hb + ReadyLease
    /\ row.conn # "READY" /\ row.lease # NoLease =>
         row.status = "JOINING" \/ (row.status = "STOPPED" /\ row.lease <= time)

(* The six kinds of update, by what they do to the lease.                  *)

Enters(w) ==
    /\ "boot" \in DOMAIN w.expects /\ {"boot", "status", "conn"} \subseteq DOMAIN w.sets
    /\ w.expects["boot"] \in Nat /\ w.expects["boot"] < w.sets["boot"]
    /\ w.sets["conn"] = "CONNECTED"
    /\ IF "lease" \in DOMAIN w.sets THEN w.sets["lease"] = NoLease
       ELSE w.sets["status"] = "JOINING"

Grants(w) ==
    /\ {"boot", "status", "hb"} \subseteq DOMAIN w.expects
    /\ {"boot", "status", "conn", "hb", "lease"} \subseteq DOMAIN w.sets
    /\ w.expects["status"] # "STOPPED"
    /\ w.expects["hb"] \in Nat /\ w.expects["hb"] <= w.sets["hb"]
    /\ w.sets["conn"] = "READY" /\ w.sets["status"] = "ACTIVE"
    /\ w.sets["lease"] = w.sets["hb"] + ReadyLease

Connects(w) ==
    /\ {"status", "conn"} \subseteq DOMAIN w.expects
    /\ w.expects["status"] # "STOPPED" /\ w.expects["conn"] # "READY"
    /\ {"conn", "lease"} \subseteq DOMAIN w.sets
    /\ w.sets["conn"] = "CONNECTED" /\ w.sets["lease"] = NoLease

Withdraws(w) ==
    /\ "boot" \in DOMAIN w.expects /\ w.expects["boot"] \in stopping
    /\ {"conn", "lease"} \subseteq DOMAIN w.sets
    /\ w.sets["conn"] = "DISCONNECTED" /\ w.sets["lease"] = NoLease

Strands(w) ==
    /\ {"status", "lease"} \subseteq DOMAIN w.expects
    /\ w.expects["status"] = "JOINING"
    /\ w.expects["lease"] \in Int /\ w.expects["lease"] <= time
    /\ DOMAIN w.sets = {"status"} /\ w.sets["status"] = "STOPPED"

Lapses(w) ==
    /\ "lease" \in DOMAIN w.expects
    /\ w.expects["lease"] \in Int /\ w.expects["lease"] <= time
    /\ {"conn", "lease"} \subseteq DOMAIN w.sets
    /\ w.sets["conn"] = "DISCONNECTED" /\ w.sets["lease"] = NoLease

Leased(w) ==
    /\ w.from \in Slots \cup {Nobody}
    /\ "boot" \in DOMAIN w.sets => w.sets["boot"] <= latest
    /\ "hb" \in DOMAIN w.sets => w.sets["hb"] <= time
    /\ Enters(w) \/ Grants(w) \/ Connects(w) \/ Withdraws(w) \/ Strands(w) \/ Lapses(w)

\* A registration under way is that of an incarnation that was issued.
TaskLeased(task) == task.kind = "register" => task.boot \in 1..latest

LeaseInvariant ==
    /\ live \subseteq 1..latest /\ registered \subseteq 1..latest
    /\ RowLeased(nodeRow)
    /\ \A s \in Slots : TaskLeased(tasks[s])
    /\ \A w \in writes : Leased(w)

\* What LeaseStandsUntilLapsed says of a row and the row an update leaves.
LeaseStands(row, next) ==
    (next.boot = row.boot /\ holdsLiveLease(row, time)) =>
        \/ next.lease >= row.lease
        \/ row.boot \in stopping
        \/ row.status = "JOINING" /\ next.conn # "DISCONNECTED"

LEMMA WithColumns ==
    ASSUME NEW row \in RowType, NEW sets, NEW c \in {"boot", "status", "conn", "hb", "lease"}
    PROVE  With(row, sets)[c] = IF c \in DOMAIN sets THEN sets[c] ELSE row[c]
<1>1. DOMAIN row = {"boot", "status", "conn", "hb", "lease"}
  BY DEF RowType
<1> QED
  BY <1>1 DEF With

(***************************************************************************)
(* An update that matches keeps the row's lease sound, and takes away or   *)
(* shortens no lease it may not.                                           *)
(***************************************************************************)
LEMMA LandLeased ==
    ASSUME nodeRow \in RowType, time \in Nat \ {0}, latest \in Nat, RowLeased(nodeRow),
           NEW w, Fenced(w), Leased(w), Matches(w)
    PROVE  /\ RowLeased(With(nodeRow, w.sets))
           /\ LeaseStands(nodeRow, With(nodeRow, w.sets))
<1>1. PICK next : next = With(nodeRow, w.sets)
  OBVIOUS
<1> SUFFICES RowLeased(next) /\ LeaseStands(nodeRow, next)
  BY <1>1
<1>2. PICK sets : sets = w.sets
  OBVIOUS
<1>3. TypedSets(sets)
  BY <1>2 DEF Fenced
<1>4. /\ next.boot = IF "boot" \in DOMAIN sets THEN sets["boot"] ELSE nodeRow.boot
      /\ next.status = IF "status" \in DOMAIN sets THEN sets["status"] ELSE nodeRow.status
      /\ next.conn = IF "conn" \in DOMAIN sets THEN sets["conn"] ELSE nodeRow.conn
      /\ next.hb = IF "hb" \in DOMAIN sets THEN sets["hb"] ELSE nodeRow.hb
      /\ next.lease = IF "lease" \in DOMAIN sets THEN sets["lease"] ELSE nodeRow.lease
  BY <1>1, <1>2, WithColumns
<1>5. next \in RowType
  BY <1>1, <1>2, <1>3, WithTyped
<1>6. \A c \in DOMAIN w.expects : nodeRow[c] = w.expects[c]
  BY DEF Matches
<1>7. /\ nodeRow.boot \in Nat /\ nodeRow.hb \in Nat /\ nodeRow.lease \in Int
      /\ next.boot \in Nat /\ next.hb \in Nat /\ next.lease \in Int
      /\ ReadyLease \in Nat
  BY <1>5, LifecycleAssumption DEF RowType
<1>8. next.boot <= latest /\ next.hb <= time
  BY <1>2, <1>4, <1>7 DEF Leased, RowLeased
<1>9. CASE Enters(w)
  <2>1. /\ nodeRow.boot = w.expects["boot"] /\ next.boot = w.sets["boot"]
        /\ next.conn = "CONNECTED" /\ (next.lease = NoLease \/ next.status = "JOINING")
    BY <1>2, <1>4, <1>6, <1>9, Zenon DEF Enters
  <2>2. nodeRow.boot < next.boot
    BY <1>9, <2>1 DEF Enters
  <2> QED
    BY <1>7, <1>8, <2>1, <2>2 DEF RowLeased, LeaseStands
<1>10. CASE Grants(w)
  <2>1. /\ nodeRow.hb = w.expects["hb"] /\ nodeRow.status # "STOPPED"
        /\ next.hb = w.sets["hb"] /\ next.lease = w.sets["hb"] + ReadyLease
        /\ next.conn = "READY" /\ next.status = "ACTIVE"
    BY <1>2, <1>4, <1>6, <1>10, Zenon DEF Grants
  <2>2. nodeRow.hb <= next.hb
    BY <1>10, <2>1 DEF Grants
  <2>3. next.lease = next.hb + ReadyLease
    BY <2>1
  <2> QED
    BY <1>7, <1>8, <2>1, <2>2, <2>3
       DEF RowLeased, LeaseStands, holdsLiveLease, LeaseNumber
<1>11. CASE Connects(w)
  <2>1. /\ nodeRow.conn # "READY" /\ nodeRow.status # "STOPPED"
        /\ next.conn = "CONNECTED" /\ next.lease = NoLease
    BY <1>2, <1>4, <1>6, <1>11, Zenon DEF Connects
  <2> QED
    BY <1>7, <1>8, <2>1 DEF RowLeased, LeaseStands, holdsLiveLease, LeaseNumber
<1>12. CASE Withdraws(w)
  <2>1. /\ nodeRow.boot \in stopping
        /\ next.conn = "DISCONNECTED" /\ next.lease = NoLease
    BY <1>2, <1>4, <1>6, <1>12, Zenon DEF Withdraws
  <2> QED
    BY <1>8, <2>1 DEF RowLeased, LeaseStands
<1>13. CASE Strands(w)
  <2>1. /\ nodeRow.lease = w.expects["lease"] /\ nodeRow.status = "JOINING"
        /\ next.conn = nodeRow.conn /\ next.lease = nodeRow.lease /\ next.status = "STOPPED"
    BY <1>2, <1>4, <1>6, <1>13, Zenon DEF Strands
  <2>2. nodeRow.lease <= time
    BY <1>13, <2>1 DEF Strands
  <2> QED
    BY <1>7, <1>8, <2>1, <2>2 DEF RowLeased, LeaseStands
<1>14. CASE Lapses(w)
  <2>1. /\ nodeRow.lease = w.expects["lease"]
        /\ next.conn = "DISCONNECTED" /\ next.lease = NoLease
    BY <1>2, <1>4, <1>6, <1>14, Zenon DEF Lapses
  <2>2. nodeRow.lease <= time
    BY <1>14, <2>1 DEF Lapses
  <2>3. ~ holdsLiveLease(nodeRow, time)
    BY <1>7, <2>2 DEF holdsLiveLease, LeaseNumber
  <2> QED
    BY <1>8, <2>1, <2>3 DEF RowLeased, LeaseStands
<1> QED
  BY <1>9, <1>10, <1>11, <1>12, <1>13, <1>14 DEF Leased

-----------------------------------------------------------------------------
(* The lease invariant is inductive.                                       *)

\* Time, the boots issued and the boots that stop only grow.
LEMMA LeasedStays ==
    ASSUME time \in Nat, time' \in Nat, time <= time', latest \in Nat, latest' \in Nat,
           latest <= latest', stopping \subseteq stopping', NEW w, Fenced(w), Leased(w)
    PROVE  Leased(w)'
<1>1. TypedSets(w.sets)
  BY DEF Fenced
<1>2. /\ "boot" \in DOMAIN w.sets => w.sets["boot"] <= latest'
      /\ "hb" \in DOMAIN w.sets => w.sets["hb"] <= time'
  BY <1>1 DEF Leased, TypedSets
<1>3. Withdraws(w) => Withdraws(w)'
  BY Zenon DEF Withdraws
<1>4. Strands(w) => Strands(w)'
  BY DEF Strands
<1>5. Lapses(w) => Lapses(w)'
  BY DEF Lapses
<1>6. (Enters(w) => Enters(w)') /\ (Grants(w) => Grants(w)') /\ (Connects(w) => Connects(w)')
  BY Zenon DEF Enters, Grants, Connects
<1> QED
  BY <1>2, <1>3, <1>4, <1>5, <1>6, Zenon DEF Leased

\* A sender that waits no longer changes nothing of what its update does.
LEMMA AbandonedLeased ==
    ASSUME NEW w, Fenced(w), Leased(w)
    PROVE  Leased([w EXCEPT !.from = Nobody])
<1>1. PICK f, e, t : w = [from |-> f, expects |-> e, sets |-> t]
  BY DEF Fenced
<1>2. PICK v : v = [w EXCEPT !.from = Nobody]
  BY Zenon
<1>3. v.from = Nobody /\ v.expects = w.expects /\ v.sets = w.sets
  BY <1>1, <1>2
<1>4. Leased(v)
  BY <1>3, Zenon DEF Leased, Enters, Grants, Connects, Withdraws, Strands, Lapses
<1> QED
  BY <1>2, <1>4

\* A step need only account for the row, the tasks and the updates it adds.
LEMMA LeaseKept ==
    ASSUME FenceInvariant, LeaseInvariant,
           latest' \in Nat, latest <= latest', time' \in Nat, time <= time',
           stopping \subseteq stopping',
           live' \subseteq 1..latest', registered' \subseteq 1..latest',
           nodeRow' = nodeRow \/ RowLeased(nodeRow)',
           \A s \in Slots : tasks'[s] = tasks[s] \/ TaskLeased(tasks[s])',
           \A w \in writes' : w \in writes \/ Leased(w)'
    PROVE  LeaseInvariant'
<1>1. /\ time \in Nat /\ latest \in Nat /\ nodeRow \in RowType
      /\ nodeRow.boot \in Nat /\ nodeRow.hb \in Nat /\ nodeRow.lease \in Int
  BY DEF FenceInvariant, RowType
<1>2. RowLeased(nodeRow)'
  BY <1>1 DEF LeaseInvariant, RowLeased
<1>3. \A w \in writes' : Leased(w)'
  BY <1>1, LeasedStays DEF FenceInvariant, LeaseInvariant
<1>4. ASSUME NEW s \in Slots
      PROVE  TaskLeased(tasks[s])'
  <2>1. TaskLeased(tasks[s])
    BY DEF LeaseInvariant
  <2> QED
    BY <1>1, <1>4, <2>1 DEF TaskLeased
<1> QED
  BY <1>2, <1>3, <1>4 DEF LeaseInvariant

LEMMA SentLeased ==
    ASSUME FenceInvariant, LeaseInvariant, NEW s \in Slots, NEW task, TaskLeased(task),
           NEW expects, NEW sets, Send(s, task, expects, sets),
           Leased([from |-> s, expects |-> expects, sets |-> sets])',
           nodeRow' = nodeRow, latest' = latest, live' = live, time' = time,
           registered' = registered, stopping \subseteq stopping'
    PROVE  LeaseInvariant'
<1>1. /\ tasks \in [Slots -> TaskType] /\ time \in Nat /\ latest \in Nat
      /\ live \subseteq 1..latest /\ registered \subseteq 1..latest
  BY DEF FenceInvariant, LeaseInvariant
<1>2. \A u \in Slots : tasks'[u] = tasks[u] \/ tasks'[u] = task
  BY <1>1 DEF Send
<1>3. \A u \in Slots : tasks'[u] = tasks[u] \/ TaskLeased(tasks[u])'
  BY <1>2 DEF TaskLeased
<1>4. \A w \in writes' : w \in writes \/ Leased(w)'
  BY DEF Send
<1> QED
  BY <1>1, <1>3, <1>4, LeaseKept

LEMMA TaskLeases ==
    ASSUME FenceInvariant, LeaseInvariant, NEW s \in Slots, NEW task, TaskLeased(task),
           tasks' = [tasks EXCEPT ![s] = task], writes' = writes,
           nodeRow' = nodeRow, latest' = latest, live' = live, time' = time,
           registered' \subseteq 1..latest, stopping' = stopping
    PROVE  LeaseInvariant'
<1>1. /\ tasks \in [Slots -> TaskType] /\ time \in Nat /\ latest \in Nat
      /\ live \subseteq 1..latest
  BY DEF FenceInvariant, LeaseInvariant
<1>2. \A u \in Slots : tasks'[u] = tasks[u] \/ tasks'[u] = task
  BY <1>1
<1>3. \A u \in Slots : tasks'[u] = tasks[u] \/ TaskLeased(tasks[u])'
  BY <1>2 DEF TaskLeased
<1> QED
  BY <1>1, <1>3, LeaseKept

-----------------------------------------------------------------------------
(* What each writer sends.                                                 *)

LEMMA AdvanceLeased ==
    ASSUME FenceInvariant, NEW f \in Slots, NEW seen \in RowType,
           NEW b \in 1..latest, NEW at \in Nat, at <= time, seen.boot < b
    PROVE  /\ Leased([from |-> f, expects |-> AdvanceFrom(seen), sets |-> FreshRow(b, at)])
           /\ Leased([from |-> f, expects |-> AdvanceFrom(seen),
                      sets |-> ReentryRow(seen, b, at)])
<1>1. seen.boot \in Nat /\ b \in Nat /\ b <= latest /\ time \in Nat
  BY DEF RowType, FenceInvariant
<1>2. Enters([from |-> f, expects |-> AdvanceFrom(seen), sets |-> FreshRow(b, at)])
  BY <1>1 DEF Enters, AdvanceFrom, FreshRow
<1>3. Enters([from |-> f, expects |-> AdvanceFrom(seen), sets |-> ReentryRow(seen, b, at)])
  BY <1>1 DEF Enters, AdvanceFrom, ReentryRow
<1>4. FreshRow(b, at)["boot"] = b /\ FreshRow(b, at)["hb"] = at
  BY DEF FreshRow
<1>5. ReentryRow(seen, b, at)["boot"] = b /\ ReentryRow(seen, b, at)["hb"] = at
  BY DEF ReentryRow
<1> QED
  BY <1>1, <1>2, <1>3, <1>4, <1>5 DEF Leased

\* A publication that withdraws the lease saw a row that is not READY.
LEMMA PublicationLeased ==
    ASSUME FenceInvariant, LeaseInvariant, NEW f \in Slots, NEW task \in TaskType,
           Publishable(task, nodeRow), task.kind \in {"CONNECTED", "READY"},
           isLifecycleWatermarkNewer(nodeRow, Watermark(task, nodeRow))
    PROVE  Leased([from |-> f, expects |-> SourcePredicate(nodeRow),
                   sets |-> UpdateRow(task, nodeRow)])
<1>1. /\ time \in Nat /\ latest \in Nat /\ nodeRow.boot \in Nat /\ nodeRow.hb \in Nat
      /\ nodeRow.lease \in Int /\ nodeRow.hb <= time /\ nodeRow.boot <= latest
      /\ ReadyLease \in Nat
  BY LifecycleAssumption DEF FenceInvariant, LeaseInvariant, RowLeased, RowType
<1>2. nodeRow.boot = task.boot /\ nodeRow.status # "STOPPED"
  BY DEF Publishable
<1>3. PICK w : w = [from |-> f, expects |-> SourcePredicate(nodeRow),
                    sets |-> UpdateRow(task, nodeRow)]
  BY Zenon
<1>4. w.from = f /\ w.expects = SourcePredicate(nodeRow) /\ w.sets = UpdateRow(task, nodeRow)
  BY <1>3
<1>5. /\ DOMAIN w.expects = {"boot", "status", "conn", "hb"}
      /\ w.expects["boot"] = nodeRow.boot /\ w.expects["status"] = nodeRow.status
      /\ w.expects["conn"] = nodeRow.conn /\ w.expects["hb"] = nodeRow.hb
  BY <1>4 DEF SourcePredicate
<1>6. CASE NextState(task.kind, nodeRow) = "READY"
  <2>1. w.sets = [boot |-> task.boot, status |-> "ACTIVE", conn |-> "READY", hb |-> time,
                  lease |-> time + ReadyLease]
    BY <1>4, <1>6 DEF UpdateRow
  <2>2. Grants(w)
    BY <1>1, <1>2, <1>5, <2>1 DEF Grants
  <2>3. w.sets["boot"] <= latest /\ w.sets["hb"] <= time
    BY <1>1, <1>2, <2>1
  <2> QED
    BY <1>3, <1>4, <2>2, <2>3 DEF Leased
<1>7. CASE NextState(task.kind, nodeRow) # "READY"
  <2>1. w.sets = [boot |-> task.boot, conn |-> "CONNECTED", hb |-> time, lease |-> NoLease]
    BY <1>4, <1>7 DEF UpdateRow
  <2>2. task.kind = "CONNECTED"
    BY <1>7 DEF NextState
  <2>3. Watermark(task, nodeRow).lease = NoLease
    BY <2>2 DEF Watermark
  <2>4. nodeRow.lease = NoLease
    BY <2>3 DEF isLifecycleWatermarkNewer
  <2>5. nodeRow.conn # "READY"
    BY <1>1, <2>4 DEF LeaseInvariant, RowLeased, NoLease
  <2>6. Connects(w)
    BY <1>2, <1>5, <2>1, <2>5 DEF Connects
  <2>7. w.sets["boot"] <= latest /\ w.sets["hb"] <= time
    BY <1>1, <1>2, <2>1
  <2> QED
    BY <1>3, <1>4, <2>6, <2>7 DEF Leased
<1> QED
  BY <1>6, <1>7

\* The sweep judges by a clock it read before the rows.
LEMMA SweepLeased ==
    ASSUME FenceInvariant, NEW seen \in RowType
    PROVE  /\ (\E now \in Nat : now <= time /\ isExpired(seen, now)) =>
                Leased([from |-> Sweeper, expects |-> LeasePredicate(seen),
                        sets |-> [conn |-> "DISCONNECTED", lease |-> NoLease]])
           /\ Stranded(seen, time) =>
                Leased([from |-> Sweeper, expects |-> ReapPredicate(seen),
                        sets |-> [status |-> "STOPPED"]])
<1>1. seen.lease \in Int /\ time \in Nat /\ Sweeper \in Slots
  BY DEF RowType, FenceInvariant, Slots
<1>2. ASSUME NEW now \in Nat, now <= time, isExpired(seen, now)
      PROVE  Leased([from |-> Sweeper, expects |-> LeasePredicate(seen),
                     sets |-> [conn |-> "DISCONNECTED", lease |-> NoLease]])
  <2>1. seen.lease <= time
    BY <1>1, <1>2 DEF isExpired, LeaseNumber, NoLease
  <2>2. Lapses([from |-> Sweeper, expects |-> LeasePredicate(seen),
                sets |-> [conn |-> "DISCONNECTED", lease |-> NoLease]])
    BY <1>1, <2>1 DEF Lapses, LeasePredicate
  <2> QED
    BY <1>1, <2>2 DEF Leased
<1>3. ASSUME Stranded(seen, time)
      PROVE  Leased([from |-> Sweeper, expects |-> ReapPredicate(seen),
                     sets |-> [status |-> "STOPPED"]])
  <2>1. seen.lease <= time
    BY <1>1, <1>3 DEF Stranded, holdsLiveLease, LeaseNumber, NoLease
  <2>2. Strands([from |-> Sweeper, expects |-> ReapPredicate(seen),
                 sets |-> [status |-> "STOPPED"]])
    BY <1>1, <2>1 DEF Strands, ReapPredicate
  <2> QED
    BY <1>1, <2>2 DEF Leased
<1> QED
  BY <1>2, <1>3

-----------------------------------------------------------------------------
(* One lemma for the steps of each writer.                                 *)

LEMMA RegistrationLeases ==
    ASSUME FenceInvariant, LeaseInvariant, NEW s \in Client,
           Register(s) \/ Reread(s) \/ Readback(s)
    PROVE  LeaseInvariant'
<1>1. /\ nodeRow' = nodeRow /\ latest' = latest /\ live' = live
      /\ time' = time /\ stopping' = stopping
  BY DEF Register, Reread, Readback
<1>2. s \in Slots
  BY DEF Slots
<1>3. /\ live \subseteq 1..latest /\ registered \subseteq 1..latest /\ TaskLeased(tasks[s])
      /\ latest \in Nat /\ time \in Nat
  BY <1>2, InvariantFacts DEF LeaseInvariant
<1>4. ASSUME NEW seen \in RowType, NEW b \in 1..latest, NEW at \in Nat, at <= time,
             seen.boot < b, NEW sets \in {FreshRow(b, at), ReentryRow(seen, b, at)},
             NEW stage, NEW kept, registered' = registered,
             Send(s, RegisterTask(b, stage, kept), AdvanceFrom(seen), sets)
      PROVE  LeaseInvariant'
  <2>1. PICK e : e = AdvanceFrom(seen)
    BY Zenon
  <2>2. Leased([from |-> s, expects |-> e, sets |-> sets])
    <3>1. CASE sets = FreshRow(b, at)
      BY <1>2, <1>4, <2>1, <3>1, AdvanceLeased, Zenon
    <3>2. CASE sets = ReentryRow(seen, b, at)
      BY <1>2, <1>4, <2>1, <3>2, AdvanceLeased, Zenon
    <3> QED
      BY <3>1, <3>2
  <2>3. Leased([from |-> s, expects |-> e, sets |-> sets])'
    BY <1>1, <2>2, Zenon DEF Leased, Enters, Grants, Connects, Withdraws, Strands, Lapses
  <2>4. TaskLeased(RegisterTask(b, stage, kept))
    BY DEF TaskLeased, RegisterTask
  <2> QED
    BY <1>1, <1>2, <1>4, <2>1, <2>3, <2>4, SentLeased, Zenon
<1>5. ASSUME tasks' = tasks, writes' = writes, registered' \subseteq 1..latest
      PROVE  LeaseInvariant'
  BY <1>1, <1>3, <1>5, LeaseKept
<1>6. ASSUME End(s), registered' \subseteq 1..latest
      PROVE  LeaseInvariant'
  <2>1. TaskLeased(IdleTask)
    BY DEF TaskLeased, IdleTask
  <2>2. tasks' = [tasks EXCEPT ![s] = IdleTask] /\ writes' = writes
    BY <1>6 DEF End
  <2>3. registered' \subseteq 1..latest
    BY <1>6
  <2>4. PICK task : task = IdleTask
    BY Zenon
  <2> QED
    BY <1>1, <1>2, <2>1, <2>2, <2>3, <2>4, TaskLeases, Zenon
<1>7. CASE Register(s)
  <2>1. PICK b \in live \ registered : RegisterFresh(s, b) \/ RegisterReused(s, b)
    BY <1>7 DEF Register
  <2>2. b \in 1..latest /\ time <= time /\ nodeRow \in RowType /\ NoNode \in RowType
    <3>1. nodeRow \in RowType /\ NoNode \in RowType
      BY <1>2, InvariantFacts, Zenon
    <3>2. b \in 1..latest
      BY <1>3, Zenon
    <3>3. time <= time
      BY <1>3
    <3> QED
      BY <3>1, <3>2, <3>3, Zenon
  <2>3. CASE RegisterFresh(s, b)
    <3>1. PICK seen \in {nodeRow, NoNode} :
            \/ /\ seen.boot < b
               /\ Send(s, RegisterTask(b, "first", time), AdvanceFrom(seen), FreshRow(b, time))
               /\ registered' = registered
            \/ tasks' = tasks /\ writes' = writes /\ registered' = registered \cup {b}
      BY <2>3 DEF RegisterFresh
    <3>2. seen \in RowType
      BY <2>2
    <3>3. registered \cup {b} \subseteq 1..latest
      BY <1>3, <2>2
    <3> QED
      BY <1>3, <1>4, <1>5, <2>2, <3>1, <3>2, <3>3, Zenon
  <2>4. CASE RegisterReused(s, b)
    <3>1. \/ /\ nodeRow.boot < b
             /\ Send(s, RegisterTask(b, "reuse", 0), AdvanceFrom(nodeRow),
                     ReentryRow(nodeRow, b, time))
             /\ registered' = registered
          \/ tasks' = tasks /\ writes' = writes /\ registered' = registered \cup {b}
      BY <2>4 DEF RegisterReused
    <3>2. registered \cup {b} \subseteq 1..latest
      BY <1>3, <2>2
    <3> QED
      BY <1>3, <1>4, <1>5, <2>2, <3>1, <3>2, Zenon
  <2> QED
    BY <2>1, <2>3, <2>4
<1>8. CASE Reread(s)
  <2> DEFINE b == tasks[s].boot
             at == tasks[s].at
  <2>1. \/ /\ nodeRow.boot \in 1..(b - 1)
           /\ Send(s, RegisterTask(b, "second", 0), AdvanceFrom(nodeRow), FreshRow(b, at))
           /\ registered' = registered
        \/ End(s) /\ registered' \in {registered, registered \cup {b}}
    BY <1>8 DEF Reread
  <2>2. b \in 1..latest
    BY <1>3, <1>8 DEF Reread, TaskLeased
  <2>3. at \in Nat /\ at <= time /\ nodeRow \in RowType /\ nodeRow.boot \in Nat
    BY <1>2, InvariantFacts
  <2> HIDE DEF b, at
  <2>4. nodeRow.boot \in 1..(b - 1) => nodeRow.boot < b
    BY <1>3, <2>2, <2>3
  <2>5. registered' \in {registered, registered \cup {b}} => registered' \subseteq 1..latest
    BY <1>3, <2>2
  <2> QED
    BY <1>4, <1>6, <2>1, <2>2, <2>3, <2>4, <2>5, Zenon
<1>9. CASE Readback(s)
  <2>1. End(s) /\ registered' \in {registered, registered \cup {tasks[s].boot}}
    BY <1>9 DEF Readback
  <2>2. tasks[s].boot \in 1..latest
    BY <1>3, <1>9 DEF Readback, TaskLeased
  <2>3. registered' \subseteq 1..latest
    BY <1>3, <2>1, <2>2
  <2> QED
    BY <1>6, <2>1, <2>3, Zenon
<1> QED
  BY <1>7, <1>8, <1>9

LEMMA PublicationLeases ==
    ASSUME FenceInvariant, LeaseInvariant, NEW s \in Client,
           Publish(s) \/ ReadAndPlan(s) \/ Terminate(s)
    PROVE  LeaseInvariant'
<1>1. /\ nodeRow' = nodeRow /\ latest' = latest /\ live' = live
      /\ time' = time /\ registered' = registered
  BY Zenon DEF Publish, ReadAndPlan, Terminate
<1>2. s \in Slots
  BY DEF Slots
<1>3. /\ live \subseteq 1..latest /\ registered \subseteq 1..latest
      /\ latest \in Nat /\ time \in Nat
  BY <1>2, InvariantFacts DEF LeaseInvariant
<1>4. CASE Publish(s)
  <2>1. PICK b \in live, state \in {"CONNECTED", "READY"} :
          tasks' = [tasks EXCEPT ![s] = [kind |-> state, boot |-> b, stage |-> "read",
                                         at |-> time, seen |-> NoNode]]
    BY <1>4, Zenon DEF Publish
  <2>2. PICK task : task = [kind |-> state, boot |-> b, stage |-> "read", at |-> time,
                            seen |-> NoNode]
    BY Zenon
  <2>3. TaskLeased(task)
    BY <2>2 DEF TaskLeased
  <2>4. writes' = writes /\ stopping' = stopping
    BY <1>4 DEF Publish
  <2>5. tasks' = [tasks EXCEPT ![s] = task]
    BY <2>1, <2>2
  <2> QED
    BY <1>1, <1>2, <1>3, <2>3, <2>4, <2>5, TaskLeases, Zenon
<1>5. CASE ReadAndPlan(s)
  <2>1. PICK task, sent : task = tasks[s]
                          /\ sent = [IdleTask EXCEPT !.kind = "publish", !.stage = "sent"]
    BY Zenon
  <2>2. /\ stopping' = stopping /\ task.kind \in {"CONNECTED", "READY"} /\ task \in TaskType
        /\ \/ /\ Publishable(task, nodeRow)
              /\ isLifecycleWatermarkNewer(nodeRow, Watermark(task, nodeRow))
              /\ Send(s, sent, SourcePredicate(nodeRow), UpdateRow(task, nodeRow))
           \/ End(s)
    BY <1>2, <1>5, <2>1, InvariantFacts DEF ReadAndPlan, Publishing
  <2>3. CASE End(s)
    <3>1. TaskLeased(IdleTask)
      BY DEF TaskLeased, IdleTask
    <3> QED
      BY <1>1, <1>2, <1>3, <2>2, <2>3, <3>1, TaskLeases, Zenon DEF End
  <2>4. CASE /\ Publishable(task, nodeRow)
             /\ isLifecycleWatermarkNewer(nodeRow, Watermark(task, nodeRow))
             /\ Send(s, sent, SourcePredicate(nodeRow), UpdateRow(task, nodeRow))
    <3>1. PICK e, t : e = SourcePredicate(nodeRow) /\ t = UpdateRow(task, nodeRow)
      BY Zenon
    <3>2. Leased([from |-> s, expects |-> e, sets |-> t])
      BY <1>2, <2>2, <2>4, <3>1, PublicationLeased
    <3>3. Leased([from |-> s, expects |-> e, sets |-> t])'
      BY <1>1, <2>2, <3>2, Zenon DEF Leased, Enters, Grants, Connects, Withdraws, Strands, Lapses
    <3>4. TaskLeased(sent)
      BY <2>1 DEF TaskLeased, IdleTask
    <3> QED
      BY <1>1, <1>2, <2>2, <2>4, <3>1, <3>3, <3>4, SentLeased, Zenon
  <2> QED
    BY <2>2, <2>3, <2>4
<1>6. CASE Terminate(s)
  <2>1. PICK b \in live :
          /\ Send(s, [IdleTask EXCEPT !.kind = "terminal", !.boot = b, !.stage = "sent"],
                  IncarnationWhereClause(b),
                  [status |-> "STOPPED", conn |-> "DISCONNECTED", hb |-> time,
                   lease |-> NoLease])
          /\ stopping' = stopping \cup {b}
    BY <1>6, Zenon DEF Terminate
  <2>2. PICK task, e, t :
          /\ task = [IdleTask EXCEPT !.kind = "terminal", !.boot = b, !.stage = "sent"]
          /\ e = IncarnationWhereClause(b)
          /\ t = [status |-> "STOPPED", conn |-> "DISCONNECTED", hb |-> time,
                  lease |-> NoLease]
    BY Zenon
  <2>3. PICK w : w = [from |-> s, expects |-> e, sets |-> t]
    BY Zenon
  <2>4. w.from = s /\ w.expects = [boot |-> b] /\ w.sets = t
    BY <2>2, <2>3 DEF IncarnationWhereClause
  <2>5. Withdraws(w)'
    BY <2>1, <2>2, <2>4 DEF Withdraws
  <2>6. "boot" \notin DOMAIN w.sets /\ w.sets["hb"] <= time'
    BY <1>1, <1>3, <2>2, <2>4
  <2>7. Leased(w)'
    BY <1>2, <2>4, <2>5, <2>6 DEF Leased
  <2>8. TaskLeased(task)
    BY <2>2 DEF TaskLeased, IdleTask
  <2> QED
    BY <1>1, <1>2, <2>1, <2>2, <2>3, <2>7, <2>8, SentLeased, Zenon
<1> QED
  BY <1>4, <1>5, <1>6

LEMMA SweepLeases ==
    ASSUME FenceInvariant, LeaseInvariant, Sweep \/ DisconnectExpired \/ ReapStranded
    PROVE  LeaseInvariant'
<1>1. /\ nodeRow' = nodeRow /\ latest' = latest /\ live' = live
      /\ time' = time /\ registered' = registered /\ stopping' = stopping
  BY Zenon DEF Sweep, DisconnectExpired, ReapStranded
<1>2. Sweeper \in Slots
  BY DEF Slots
<1>3. /\ registered \subseteq 1..latest /\ nodeRow \in RowType /\ NoNode \in RowType
      /\ time \in Nat /\ tasks[Sweeper].at \in Nat /\ tasks[Sweeper].at <= time
  BY <1>2, InvariantFacts DEF LeaseInvariant
<1>4. ASSUME NEW stage, NEW seen
      PROVE  TaskLeased(SweepTask(stage, seen))
  BY DEF TaskLeased, SweepTask, IdleTask
<1>5. ASSUME NEW e, NEW t, Leased([from |-> Sweeper, expects |-> e, sets |-> t]),
             NEW stage, NEW seen, Send(Sweeper, SweepTask(stage, seen), e, t)
      PROVE  LeaseInvariant'
  <2>1. PICK task : task = SweepTask(stage, seen)
    BY Zenon
  <2>2. Leased([from |-> Sweeper, expects |-> e, sets |-> t])'
    BY <1>1, <1>5, Zenon DEF Leased, Enters, Grants, Connects, Withdraws, Strands, Lapses
  <2>3. TaskLeased(task) /\ Send(Sweeper, task, e, t) /\ stopping \subseteq stopping'
    BY <1>1, <1>4, <1>5, <2>1, Zenon
  <2> QED
    BY <1>1, <1>2, <2>2, <2>3, SentLeased, Zenon
<1>6. ASSUME End(Sweeper)
      PROVE  LeaseInvariant'
  <2>1. TaskLeased(IdleTask)
    BY DEF TaskLeased, IdleTask
  <2> QED
    BY <1>1, <1>2, <1>3, <1>6, <2>1, TaskLeases, Zenon DEF End
<1>7. ASSUME NEW stranded \in RowType, stranded = NoNode \/ Stranded(stranded, time),
             Reap(stranded)
      PROVE  LeaseInvariant'
  <2>1. \/ /\ Stranded(stranded, time)
           /\ Send(Sweeper, SweepTask("reaping", NoNode), ReapPredicate(stranded),
                   [status |-> "STOPPED"])
        \/ End(Sweeper)
    BY <1>7, Zenon DEF Reap
  <2>2. ASSUME Stranded(stranded, time)
        PROVE  Leased([from |-> Sweeper, expects |-> ReapPredicate(stranded),
                       sets |-> [status |-> "STOPPED"]])
    BY <1>7, <2>2, SweepLeased, Zenon
  <2> QED
    BY <1>5, <1>6, <2>1, <2>2, Zenon
<1>8. CASE Sweep
  <2>1. PICK task : task = [SweepTask("read", NoNode) EXCEPT !.at = time]
    BY Zenon
  <2>2. tasks' = [tasks EXCEPT ![Sweeper] = task] /\ writes' = writes
    BY <1>8, <2>1, Zenon DEF Sweep
  <2>3. TaskLeased(task)
    BY <2>1 DEF TaskLeased, SweepTask, IdleTask
  <2> QED
    BY <1>1, <1>2, <1>3, <2>2, <2>3, TaskLeases, Zenon
<1>9. CASE DisconnectExpired
  <2>1. PICK now, stranded : /\ now = tasks[Sweeper].at
                             /\ stranded = IF Stranded(nodeRow, now) THEN nodeRow ELSE NoNode
    BY Zenon
  <2>2. \/ /\ isExpired(nodeRow, now)
           /\ Send(Sweeper, SweepTask("disconnecting", stranded), LeasePredicate(nodeRow),
                   [conn |-> "DISCONNECTED", lease |-> NoLease])
        \/ Reap(stranded)
    BY <1>9, <2>1, Zenon DEF DisconnectExpired
  <2>3. now \in Nat /\ now <= time
    BY <1>3, <2>1
  <2>4. nodeRow.lease \in Int
    BY <1>3 DEF RowType
  <2>5. Stranded(nodeRow, now) => Stranded(nodeRow, time)
    BY <1>3, <2>3, <2>4 DEF Stranded, holdsLiveLease, LeaseNumber
  <2>6. stranded \in RowType /\ (stranded = NoNode \/ Stranded(stranded, time))
    BY <1>3, <2>1, <2>5, Zenon
  <2>7. ASSUME isExpired(nodeRow, now)
        PROVE  Leased([from |-> Sweeper, expects |-> LeasePredicate(nodeRow),
                       sets |-> [conn |-> "DISCONNECTED", lease |-> NoLease]])
    BY <1>3, <2>3, <2>7, SweepLeased, Zenon
  <2> QED
    BY <1>5, <1>7, <2>2, <2>6, <2>7, Zenon
<1>10. CASE ReapStranded
  <2>1. Reap(tasks[Sweeper].seen)
    BY <1>10 DEF ReapStranded
  <2>2. /\ tasks[Sweeper].seen \in RowType
        /\ tasks[Sweeper].seen = NoNode \/ Stranded(tasks[Sweeper].seen, time)
    BY <1>2, InvariantFacts DEF TaskSound
  <2> QED
    BY <1>7, <2>1, <2>2, Zenon
<1> QED
  BY <1>8, <1>9, <1>10

\* An answer does not turn a task into a registration, nor change its boot.
LEMMA AnsweredLeased ==
    ASSUME NEW task \in TaskType, TaskLeased(task), NEW applied
    PROVE  TaskLeased(Answered(task, applied)) /\ TaskLeased(Unanswered(task))
<1>1. TaskLeased(IdleTask)
  BY DEF TaskLeased, IdleTask
<1>2. ASSUME NEW stage
      PROVE  TaskLeased([task EXCEPT !.stage = stage])
  <2>1. /\ [task EXCEPT !.stage = stage].kind = task.kind
        /\ [task EXCEPT !.stage = stage].boot = task.boot
    BY DEF TaskType
  <2> QED
    BY <2>1 DEF TaskLeased
<1>3. ASSUME NEW a
      PROVE  TaskLeased(Answered(task, a))
  <2>1. \/ Answered(task, a) = IdleTask
        \/ \E stage \in {"reread", "readback", "reap"} :
              Answered(task, a) = [task EXCEPT !.stage = stage]
    BY DEF Answered
  <2> QED
    BY <1>1, <1>2, <2>1, Zenon
<1> QED
  BY <1>1, <1>3, Zenon DEF Unanswered

LEMMA LandingLeases ==
    ASSUME FenceInvariant, LeaseInvariant, NEW w \in writes, Land(w) \/ GiveUp(w)
    PROVE  LeaseInvariant'
<1>1. /\ latest' = latest /\ live' = live /\ time' = time /\ stopping' = stopping
  BY Zenon DEF Land, GiveUp
<1>2. /\ latest \in Nat /\ time \in Nat \ {0} /\ nodeRow \in RowType
      /\ live \subseteq 1..latest /\ registered \subseteq 1..latest
      /\ Fenced(w) /\ Leased(w) /\ RowLeased(nodeRow) /\ tasks \in [Slots -> TaskType]
      /\ \A s \in Slots : TaskLeased(tasks[s])
  BY Zenon DEF FenceInvariant, LeaseInvariant
<1>3. nodeRow' = nodeRow \/ RowLeased(nodeRow)'
  <2>1. nodeRow' = nodeRow \/ (Matches(w) /\ nodeRow' = With(nodeRow, w.sets))
    BY Zenon DEF Land, GiveUp
  <2>2. Matches(w) => RowLeased(With(nodeRow, w.sets))
    BY <1>2, LandLeased, Zenon
  <2> QED
    BY <1>1, <2>1, <2>2, Zenon DEF RowLeased
<1>4. \A v \in writes' : v \in writes \/ Leased(v)'
  <2>1. PICK v : v = [w EXCEPT !.from = Nobody]
    BY Zenon
  <2>2. writes' \subseteq writes \cup {v}
    BY <2>1 DEF Land, GiveUp, Abandon
  <2>3. Leased(v)
    BY <1>2, <2>1, AbandonedLeased, Zenon
  <2>4. Leased(v)'
    BY <1>1, <2>3, Zenon DEF Leased, Enters, Grants, Connects, Withdraws, Strands, Lapses
  <2> QED
    BY <2>2, <2>4, Zenon
<1>5. \A u \in Slots : tasks'[u] = tasks[u] \/ TaskLeased(tasks[u])'
  <2>1. CASE tasks' = tasks
    BY <2>1, Zenon
  <2>2. ASSUME NEW next, tasks' = [tasks EXCEPT ![w.from] = next],
               w.from \in Slots => TaskLeased(next)
        PROVE  <1>5
    <3> SUFFICES ASSUME NEW u \in Slots
                 PROVE  tasks'[u] = tasks[u] \/ TaskLeased(tasks[u])'
      OBVIOUS
    <3>1. tasks'[u] = IF u = w.from THEN next ELSE tasks[u]
      BY <1>2, <2>2
    <3> QED
      BY <1>1, <2>2, <3>1, Zenon DEF TaskLeased
  <2>3. w.from \in Slots => /\ TaskLeased(Answered(tasks[w.from], Matches(w)))
                            /\ TaskLeased(Unanswered(tasks[w.from]))
    <3>1. ASSUME NEW s \in Slots
          PROVE  tasks[s] \in TaskType /\ TaskLeased(tasks[s])
      BY <1>2
    <3> QED
      BY <3>1, AnsweredLeased, Zenon
  <2>4. CASE tasks' = [tasks EXCEPT ![w.from] = Answered(tasks[w.from], Matches(w))]
    BY <2>2, <2>3, <2>4, Zenon
  <2>5. CASE tasks' = [tasks EXCEPT ![w.from] = Unanswered(tasks[w.from])]
    BY <2>2, <2>3, <2>5, Zenon
  <2> QED
    BY <2>1, <2>4, <2>5 DEF Land, GiveUp
<1>6. registered' \subseteq 1..latest
  <2>1. CASE registered' = registered
    BY <1>2, <2>1
  <2>2. CASE /\ w.from # Nobody /\ tasks[w.from].kind = "register"
             /\ registered' = registered \cup {tasks[w.from].boot}
    <3>1. w.from \in Slots
      BY <1>2, <2>2 DEF Leased
    <3>2. PICK b : b = tasks[w.from].boot
      BY Zenon
    <3>3. b \in 1..latest
      BY <1>2, <2>2, <3>1, <3>2, Zenon DEF TaskLeased
    <3>4. registered' = registered \cup {b}
      BY <2>2, <3>2, Zenon
    <3>5. registered \subseteq 1..latest
      BY <1>2
    <3> QED
      BY <3>3, <3>4, <3>5, Zenon
  <2> QED
    BY <2>1, <2>2, Zenon DEF Land, GiveUp
<1> QED
  BY <1>1, <1>2, <1>3, <1>4, <1>5, <1>6, LeaseKept

LEMMA EnvironmentLeases ==
    ASSUME FenceInvariant, LeaseInvariant,
           Remove \/ Boot \/ TimePasses \/ (\E b \in live : Exit(b))
    PROVE  LeaseInvariant'
<1>1. /\ latest \in Nat /\ time \in Nat /\ time \in Nat \ {0}
      /\ live \subseteq 1..latest /\ registered \subseteq 1..latest
      /\ tasks \in [Slots -> TaskType]
  BY Zenon DEF FenceInvariant, LeaseInvariant
<1>2. CASE Remove
  <2>1. RowLeased(NoNode)
    BY <1>1 DEF RowLeased, NoNode
  <2>2. /\ nodeRow' = NoNode /\ latest' = latest /\ live' = live /\ time' = time
        /\ stopping' = stopping /\ registered' = registered /\ tasks' = tasks /\ writes' = writes
    BY <1>2 DEF Remove
  <2>3. RowLeased(nodeRow)'
    BY <2>1, <2>2, Zenon DEF RowLeased
  <2> QED
    BY <1>1, <2>2, <2>3, LeaseKept
<1>3. CASE Boot
  <2>1. 1..latest \subseteq 1..(latest + 1) /\ latest + 1 \in 1..(latest + 1)
    BY <1>1
  <2> QED
    BY <1>1, <1>3, <2>1, LeaseKept DEF Boot
<1>4. CASE TimePasses
  BY <1>1, <1>4, LeaseKept DEF TimePasses
<1>5. ASSUME NEW b \in live, Exit(b)
      PROVE  LeaseInvariant'
  <2>1. /\ latest' = latest /\ live' \subseteq live /\ registered' \subseteq registered
        /\ time' = time /\ stopping' = stopping /\ nodeRow' = nodeRow
    BY <1>5 DEF Exit
  <2>2. \A u \in Slots : tasks'[u] = tasks[u] \/ tasks'[u] = IdleTask
    BY <1>5 DEF Exit
  <2>3. \A u \in Slots : tasks'[u] = tasks[u] \/ TaskLeased(tasks[u])'
    BY <2>2 DEF TaskLeased, IdleTask
  <2>4. ASSUME NEW v \in writes'
        PROVE  v \in writes \/ Leased(v)'
    <3>1. v \in writes \/ \E w \in writes : v = [w EXCEPT !.from = Nobody]
      BY <1>5 DEF Exit, Abandon
    <3>2. \A w \in writes : Leased([w EXCEPT !.from = Nobody])
      BY AbandonedLeased, Zenon DEF FenceInvariant, LeaseInvariant
    <3>3. v \in writes \/ Leased(v)
      BY <3>1, <3>2, Zenon
    <3> QED
      BY <2>1, <3>3, Zenon
         DEF Leased, Enters, Grants, Connects, Withdraws, Strands, Lapses
  <2>5. live' \subseteq 1..latest' /\ registered' \subseteq 1..latest'
    BY <1>1, <2>1, Zenon
  <2>6. latest <= latest' /\ time <= time' /\ latest' \in Nat /\ time' \in Nat
    BY <1>1, <2>1
  <2> QED
    BY <2>1, <2>3, <2>4, <2>5, <2>6, LeaseKept, Zenon
<1> QED
  BY <1>2, <1>3, <1>4, <1>5

\* A lease in the row was granted to the boot the row names, from the
\* heartbeat beside it, or was left there by an earlier boot; and every
\* update under way is one of the six kinds, sent by one that saw it so.
THEOREM LeaseInvariantHolds == LifecycleSpec => []LeaseInvariant
<1>1. LifecycleInit => LeaseInvariant
  <2> SUFFICES ASSUME LifecycleInit
               PROVE  LeaseInvariant
    OBVIOUS
  <2>1. RowLeased(nodeRow)
    BY DEF LifecycleInit, RowLeased, NoNode
  <2>2. \A s \in Slots : TaskLeased(tasks[s])
    BY DEF LifecycleInit, TaskLeased, IdleTask
  <2> QED
    BY <2>1, <2>2 DEF LifecycleInit, LeaseInvariant
<1>2. FenceInvariant /\ LeaseInvariant /\ [LifecycleNext]_lifecycleVars => LeaseInvariant'
  <2> SUFFICES ASSUME FenceInvariant, LeaseInvariant, [LifecycleNext]_lifecycleVars
               PROVE  LeaseInvariant'
    OBVIOUS
  <2>1. CASE UNCHANGED lifecycleVars
    <3>1. /\ nodeRow' = nodeRow /\ latest' = latest /\ live' = live /\ time' = time
          /\ stopping' = stopping /\ registered' = registered /\ tasks' = tasks
          /\ writes' = writes
      BY <2>1 DEF lifecycleVars
    <3>2. latest \in Nat /\ time \in Nat
      BY DEF FenceInvariant
    <3> QED
      BY <3>1, <3>2, LeaseKept DEF LeaseInvariant
  <2>2. ASSUME NEW s \in Client, Register(s) \/ Reread(s) \/ Readback(s)
        PROVE  LeaseInvariant'
    BY <2>2, RegistrationLeases
  <2>3. ASSUME NEW s \in Client, Publish(s) \/ ReadAndPlan(s) \/ Terminate(s)
        PROVE  LeaseInvariant'
    BY <2>3, PublicationLeases
  <2>4. CASE Sweep \/ DisconnectExpired \/ ReapStranded
    BY <2>4, SweepLeases
  <2>5. ASSUME NEW w \in writes, Land(w) \/ GiveUp(w)
        PROVE  LeaseInvariant'
    BY <2>5, LandingLeases
  <2>6. CASE Remove \/ Boot \/ TimePasses \/ (\E b \in live : Exit(b))
    BY <2>6, EnvironmentLeases
  <2> QED
    BY <2>1, <2>2, <2>3, <2>4, <2>5, <2>6, Zenon DEF LifecycleNext
<1> QED
  BY <1>1, <1>2, FenceInvariantHolds, PTL DEF LifecycleSpec

\* A lease that has not lapsed is given up only by the boot that holds it,
\* or replaced by the boot that joins over it.
THEOREM LeaseStandsAlways == LifecycleSpec => LeaseStandsUntilLapsed
<1> DEFINE Step == LeaseStands(nodeRow, nodeRow')
<1>1. FenceInvariant /\ LeaseInvariant /\ [LifecycleNext]_lifecycleVars => [Step]_lifecycleVars
  <2> SUFFICES ASSUME FenceInvariant, LeaseInvariant, LifecycleNext
               PROVE  Step
    OBVIOUS
  <2>1. /\ nodeRow \in RowType /\ time \in Nat \ {0} /\ latest \in Nat
        /\ RowLeased(nodeRow) /\ \A w \in writes : Fenced(w) /\ Leased(w)
    BY Zenon DEF FenceInvariant, LeaseInvariant
  <2>2. nodeRow.lease \in Int
    BY <2>1 DEF RowType
  <2>3. CASE nodeRow' = nodeRow
    BY <2>2, <2>3 DEF LeaseStands
  <2>4. ASSUME NEW w \in writes, Land(w)
        PROVE  Step
    <3>1. nodeRow' = nodeRow \/ (Matches(w) /\ nodeRow' = With(nodeRow, w.sets))
      BY <2>4 DEF Land
    <3>2. Matches(w) => LeaseStands(nodeRow, With(nodeRow, w.sets))
      BY <2>1, LandLeased, Zenon
    <3> QED
      BY <2>3, <3>1, <3>2, Zenon
  <2>5. CASE Remove
    <3>1. nodeRow.status = "STOPPED"
      BY <2>5 DEF Remove
    <3>2. ~ holdsLiveLease(nodeRow, time)
      BY <2>1, <2>2, <3>1 DEF RowLeased, holdsLiveLease, LeaseNumber
    <3> QED
      BY <3>2 DEF LeaseStands
  <2>6. nodeRow' = nodeRow \/ Remove \/ \E w \in writes : Land(w)
    BY Zenon DEF LifecycleNext, Register, Reread, Readback, Publish, ReadAndPlan, Terminate, Sweep,
       DisconnectExpired, ReapStranded, GiveUp, Exit, Boot, TimePasses
  <2> QED
    BY <2>3, <2>4, <2>5, <2>6
<1>2. [Step]_lifecycleVars <=>
        [(nodeRow'.boot = nodeRow.boot /\ holdsLiveLease(nodeRow, time)) =>
            \/ nodeRow'.lease >= nodeRow.lease
            \/ nodeRow.boot \in stopping
            \/ nodeRow.status = "JOINING" /\ nodeRow'.conn # "DISCONNECTED"]_lifecycleVars
  BY Zenon DEF LeaseStands
<1> HIDE DEF Step
<1> QED
  BY <1>1, <1>2, FenceInvariantHolds, LeaseInvariantHolds, PTL
     DEF LifecycleSpec, LeaseStandsUntilLapsed

\* Every state is well-formed: the row, the boots that run or registered,
\* and the senders are those that can exist, and a READY row is ACTIVE and
\* holds a lease.
THEOREM LifecycleTypes == LifecycleSpec => []LifecycleTypeOK
<1>1. FenceInvariant /\ LeaseInvariant => LifecycleTypeOK
  <2> SUFFICES ASSUME FenceInvariant, LeaseInvariant
               PROVE  LifecycleTypeOK
    OBVIOUS
  <2>1. /\ nodeRow.boot \in Nat /\ nodeRow.hb \in Nat /\ ReadyLease \in Nat /\ latest \in Nat
        /\ nodeRow.status \in {"none", "JOINING", "ACTIVE", "STOPPED"}
    BY LifecycleAssumption DEF FenceInvariant, RowType
  <2>2. nodeRow.boot \in 0..latest
    BY <2>1 DEF LeaseInvariant, RowLeased
  <2>3. nodeRow.conn = "READY" => nodeRow.status = "ACTIVE" /\ nodeRow.lease # NoLease
    BY <2>1 DEF LeaseInvariant, RowLeased, NoLease
  <2>4. \A w \in writes : w.from \in Slots \cup {Nobody}
    BY DEF LeaseInvariant, Leased
  <2> QED
    BY <2>1, <2>2, <2>3, <2>4 DEF LifecycleTypeOK, LeaseInvariant
<1> QED
  BY <1>1, FenceInvariantHolds, LeaseInvariantHolds, PTL
=============================================================================
