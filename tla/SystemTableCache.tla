-------------------------- MODULE SystemTableCache --------------------------
(***************************************************************************)
(* The copy of a system table every node keeps in memory, fed by CDC       *)
(* events (cache/system-table-cache.js in its CDC_MERGE mode, with         *)
(* -row-merge.js and -tombstone-store.js).                                 *)
(*                                                                         *)
(* The partition's leader stamps each event with the HLC of the write it   *)
(* is about (stampOriginHlc), here the number of the commit.  Events reach *)
(* a cache in any order, more than once, or never.  The row an event       *)
(* carries is the whole row as stored (fetchUpdatedRow, fetchInsertRow),   *)
(* of which the model keeps the stamp and one column that may be NULL.     *)
(***************************************************************************)
EXTENDS Integers, Sequences

CONSTANTS
    RowKey,
    MaxTombstones,  \* TOMBSTONE_MAX_PER_TABLE
    MaxCommits      \* bound: writes committed by the partition

ASSUME CacheAssumption == MaxTombstones \in Nat /\ MaxCommits \in Nat

VARIABLES
    commits,     \* how many writes the partition has committed
    source,      \* the partition's rows
    events,      \* the events it emitted
    cache,       \* the node's rows
    tombstones,  \* the deletions it remembers, oldest record first
    newest,      \* per key, the newest event ever applied to the cache
    forgotten    \* keys a tombstone of which was evicted

cacheVars == <<commits, source, events, cache, tombstones, newest, forgotten>>

Null == 0

NoRow == [hlc |-> 0, column |-> Null]

Present(row) == row.hlc # 0

CacheInit ==
    /\ commits = 0
    /\ source = [k \in RowKey |-> NoRow] /\ events = {}
    /\ cache = [k \in RowKey |-> NoRow] /\ tombstones = <<>>
    /\ newest = [k \in RowKey |-> [op |-> "none", row |-> NoRow]]
    /\ forgotten = {}

-----------------------------------------------------------------------------
(* The partition: a committed write and the event it is emitted as.        *)

Emit(k, op, row) ==
    /\ commits < MaxCommits
    /\ commits' = commits + 1
    /\ source' = [source EXCEPT ![k] = IF op = "delete" THEN NoRow ELSE row]
    /\ events' = events \cup {[key |-> k, op |-> op, row |-> row]}
    /\ UNCHANGED <<cache, tombstones, newest, forgotten>>

\* The column is written, here with the number of the commit, or cleared.
NewRows == {[hlc |-> commits + 1, column |-> c] : c \in {Null, commits + 1}}

CommitRow(k) ==
    \E row \in NewRows :
       \/ ~ Present(source[k]) /\ Emit(k, "insert", row)
       \/ Present(source[k]) /\ Emit(k, "update", row)
       \/ Emit(k, "upsert", row)

CommitDelete(k) ==
    /\ Present(source[k])
    /\ Emit(k, "delete", [hlc |-> commits + 1, column |-> Null])

-----------------------------------------------------------------------------
(* The tombstones.                                                         *)

Tombstone(k) == {t \in 1..Len(tombstones) : tombstones[t].key = k}

\* The store after its tombstone of k, if there is one, is deleted.
WithoutKey(k) ==
    LET t == CHOOSE t \in Tombstone(k) : TRUE
    IN  IF Tombstone(k) = {} THEN tombstones
        ELSE SubSeq(tombstones, 1, t - 1) \o SubSeq(tombstones, t + 1, Len(tombstones))

\* writeSupersedesTombstone: the stamps decide, when both are there.
Supersedes(row, k) == \A t \in Tombstone(k) : row.hlc > tombstones[t].hlc

(***************************************************************************)
(* record, and the cap prune applies (the oldest record goes first): a     *)
(* deletion not newer than the one remembered changes nothing.             *)
(***************************************************************************)
RecordTombstone(k, row) ==
    IF ~ Supersedes(row, k) THEN UNCHANGED <<tombstones, forgotten>>
    ELSE LET kept == Append(WithoutKey(k), [key |-> k, hlc |-> row.hlc])
         IN  IF Len(kept) <= MaxTombstones
               THEN tombstones' = kept /\ UNCHANGED forgotten
               ELSE /\ tombstones' = Tail(kept)
                    /\ forgotten' = forgotten \cup {Head(kept).key}

(***************************************************************************)
(* TOMBSTONE_TTL_MS has passed: the next look at the tombstone evicts it.  *)
(***************************************************************************)
ExpireTombstone(k) ==
    /\ Tombstone(k) # {}
    /\ tombstones' = WithoutKey(k)
    /\ forgotten' = forgotten \cup {k}
    /\ UNCHANGED <<commits, source, events, cache, newest>>

-----------------------------------------------------------------------------
(* applySystemTableChange.                                                 *)

\* isStaleForExistingRecord
Stale(k, row) == Present(cache[k]) /\ row.hlc < cache[k].hlc

(***************************************************************************)
(* applyStaleRowBackfill: a column the newer row does not have (NULL does  *)
(* not count as having it) is taken from the older one, the stamp is not.  *)
(***************************************************************************)
Backfilled(k, row) ==
    [cache[k] EXCEPT !.column = IF @ = Null THEN row.column ELSE @]

\* A mutant: a deletion that is missing its row leaves nothing behind.
ApplyDeleteOfPresent(k, row) ==
    IF ~ Present(cache[k]) \/ Stale(k, row)
      THEN UNCHANGED <<cache, tombstones, forgotten>>
      ELSE cache' = [cache EXCEPT ![k] = NoRow] /\ RecordTombstone(k, row)

\* DELETE: of no row, of a row that is newer, or of the row.
ApplyDelete(k, row) ==
    \/ /\ ~ Present(cache[k])
       /\ RecordTombstone(k, row)
       /\ UNCHANGED cache
    \/ Stale(k, row) /\ UNCHANGED <<cache, tombstones, forgotten>>
    \/ /\ Present(cache[k]) /\ ~ Stale(k, row)
       /\ cache' = [cache EXCEPT ![k] = NoRow]
       /\ RecordTombstone(k, row)

(***************************************************************************)
(* INSERT, UPDATE and UPSERT: cacheWriteIsFenced first, then the same LWW  *)
(* comparison (an INSERT of a key that is there, and an UPDATE of one that *)
(* is not, are taken as the other).                                        *)
(***************************************************************************)
ApplyWrite(k, row) ==
    \/ ~ Supersedes(row, k) /\ UNCHANGED <<cache, tombstones, forgotten>>
    \/ /\ Supersedes(row, k)
       /\ tombstones' = WithoutKey(k)
       /\ cache' = [cache EXCEPT ![k] = IF Stale(k, row) THEN Backfilled(k, row)
                                        ELSE row]
       /\ UNCHANGED forgotten

ApplySystemTableChange(event) ==
    LET k == event.key IN
    /\ IF event.op = "delete" THEN ApplyDelete(k, event.row)
                              ELSE ApplyWrite(k, event.row)
    /\ newest' = [newest EXCEPT ![k] =
          IF event.row.hlc > @.row.hlc THEN [op |-> event.op, row |-> event.row]
          ELSE @]
    /\ UNCHANGED <<commits, source, events>>

CacheNext ==
    \/ \E k \in RowKey : CommitRow(k) \/ CommitDelete(k) \/ ExpireTombstone(k)
    \/ \E event \in events : ApplySystemTableChange(event)

CacheSpec == CacheInit /\ [][CacheNext]_cacheVars

-----------------------------------------------------------------------------
(* Properties.                                                             *)

(***************************************************************************)
(* The order of delivery does not matter: whatever events about a key have *)
(* arrived, in whatever order and however often, the cache holds the row   *)
(* of the newest of them, and no row when that one is a deletion.  A       *)
(* column that version cleared is the exception, see ColumnsFollowNewest;  *)
(* and a key is promised nothing once a tombstone of it was evicted, by    *)
(* age or by the cap, before the write it fences came.                     *)
(***************************************************************************)
CacheIsNewestDelivered ==
    \A k \in RowKey \ forgotten :
       IF newest[k].op \in {"none", "delete"} THEN ~ Present(cache[k])
       ELSE /\ cache[k].hlc = newest[k].row.hlc
            /\ newest[k].row.column # Null => cache[k] = newest[k].row

(***************************************************************************)
(* "making the cache LWW compare and DELETE-tombstone fence                *)
(* order-insensitive and skew-immune" (the doc of stampOriginHlc): every   *)
(* column of a cached row is the one of the newest version delivered.      *)
(***************************************************************************)
ColumnsFollowNewest ==
    \A k \in RowKey \ forgotten :
       newest[k].op \notin {"none", "delete"} => cache[k] = newest[k].row

(***************************************************************************)
(* Type correctness.  A key has one tombstone at most, and none while it   *)
(* has a row.                                                              *)
(***************************************************************************)
CacheTypeOK ==
    /\ commits \in 0..MaxCommits
    /\ \A k \in RowKey :
          /\ {source[k], cache[k], newest[k].row} \subseteq
                [hlc : 0..commits, column : 0..commits]
          /\ newest[k].op \in {"none", "insert", "update", "upsert", "delete"}
          /\ \A t, u \in Tombstone(k) : t = u
          /\ Present(cache[k]) => Tombstone(k) = {}
    /\ \A event \in events :
          event.key \in RowKey /\ event.row.hlc \in 1..commits
    /\ Len(tombstones) <= MaxTombstones
    /\ forgotten \subseteq RowKey
=============================================================================
