------------------------------ MODULE RoutingTable ------------------------------
(***************************************************************************)
(* A router's routing table for the collection, refreshed from the chunk   *)
(* catalog while commits, drops and re-shardings go on.                    *)
(*                                                                         *)
(* A refresh reads the config.collections entry, then config.chunks in     *)
(* ascending version order, and builds a ChunkManager from the result.     *)
(* The cursor may yield between any two documents, so each read is a step  *)
(* of its own.  makeUpdated is a left fold over the documents; the model   *)
(* applies each one when it is read.                                       *)
(***************************************************************************)
EXTENDS ChunkCatalog

CONSTANT MaxRefreshAttempts  \* kMaxInconsistentRoutingInfoRefreshAttempts

ASSUME AttemptsAssumption == MaxRefreshAttempts \in Nat \ {0}

VARIABLES
    table,  \* the ChunkManager operations route with: the last one the cache gave out
    entry,  \* the cached routingInfo, moved out while a refresh runs
    scan    \* the refresh in progress

routerVars == <<table, entry, scan>>
allVars == <<chunks, coll, table, entry, scan>>

\* No ChunkManager: the collection is taken to be unsharded, or is not cached.
NoTable == [epoch |-> 0, chunks |-> {}]

Table == [epoch: Nat, chunks: SUBSET Chunk]

Position == [major: UInt32, minor: UInt32]

Idle ==
    [reading |-> FALSE, epoch |-> 0, map |-> {}, pos |-> [major |-> 0, minor |-> 0],
     any |-> FALSE, conflict |-> FALSE, attempt |-> 0]

\* Types of the routing table, of its cache entry and of the refresh, whose attempts are
\* bounded by kMaxInconsistentRoutingInfoRefreshAttempts.
RouterTypeOK ==
    /\ table \in Table
    /\ entry \in Table
    /\ scan \in [reading: BOOLEAN, epoch: Nat, map: SUBSET Chunk, pos: Position,
                 any: BOOLEAN, conflict: BOOLEAN, attempt: 0 .. MaxRefreshAttempts]

RouterInit ==
    /\ Init
    /\ table = NoTable
    /\ entry = NoTable
    /\ scan = Idle

-----------------------------------------------------------------------------
(* ChunkManager *)

\* Mutant: only chunks that lie inside the new one are erased.
ApplyInner(map, c) == {d \in map : ~(c.min <= d.min /\ d.max <= c.max)} \cup {c}

\* One iteration of makeUpdated: the chunks with min < their max <= max are erased.
Apply(map, c) == {d \in map : ~(c.min < d.max /\ d.max <= c.max)} \cup {c}

\* The chunk before c in the map, which is ordered by max.
Previous(map, c) ==
    {p \in map : p.max < c.max /\ \A d \in map : d.max < c.max => d.max <= p.max}

\* The checks of _constructChunkMapViews: consecutive chunks of one shard form a range, and
\* the ranges must meet; the first must start at MinKey and the last end at MaxKey.
RangesMeet(map) ==
    /\ \A c \in map : IF Previous(map, c) = {}
                      THEN c.min = 0
                      ELSE \A p \in Previous(map, c) : p.shard = c.shard \/ p.max = c.min
    /\ \E c \in map : c.max = MaxKey

-----------------------------------------------------------------------------
(* ConfigServerCatalogCacheLoader *)

Published == coll.state \in {"sharded", "dropping"}

\* Mutant: the epochs are not compared, so the table of a dropped incarnation is updated.
BeginScanAlwaysIncremental(existing, attempt) ==
    \E v \in IF existing.chunks # {} THEN Newest(existing.chunks) ELSE {Idle.pos} :
       scan' = [reading |-> TRUE, epoch |-> coll.epoch, map |-> existing.chunks,
                pos |-> [major |-> v.major, minor |-> v.minor],
                any |-> FALSE, conflict |-> FALSE, attempt |-> attempt]

\* getChangedChunks up to the first document: the collection's epoch decides between a diff
\* from the cached version and a full load.
BeginScan(existing, attempt) ==
    \E v \in IF existing.epoch = coll.epoch THEN Newest(existing.chunks) ELSE {Idle.pos} :
       scan' = [reading |-> TRUE, epoch |-> coll.epoch,
                map |-> IF existing.epoch = coll.epoch THEN existing.chunks ELSE {},
                pos |-> [major |-> v.major, minor |-> v.minor],
                any |-> FALSE, conflict |-> FALSE, attempt |-> attempt]

\* NamespaceNotFound: the collection is not sharded.
FoundUnsharded ==
    /\ table' = NoTable
    /\ entry' = NoTable
    /\ scan' = Idle

\* Schedules a refresh from `existing', or from nothing.
ScheduleRefresh(existing, attempt) ==
    IF Published
    THEN BeginScan(existing, attempt) /\ entry' = NoTable /\ UNCHANGED table
    ELSE FoundUnsharded

StartRefresh ==
    /\ ~scan.reading
    /\ ScheduleRefresh(entry, 1)
    /\ UNCHANGED <<chunks, coll>>

\* What the cursor still has to return: lastmod at or above the start, then above the last
\* document returned.
Unread == {c \in chunks : IF scan.any THEN Later(c, scan.pos) ELSE ~Later(scan.pos, c)}

ReadChunk ==
    /\ scan.reading
    /\ \E c \in Unread :
          /\ \A d \in Unread : ~Later(c, d)
          /\ scan' = [scan EXCEPT !.map = Apply(scan.map, c),
                                  !.pos = [major |-> c.major, minor |-> c.minor],
                                  !.any = TRUE,
                                  !.conflict = @ \/ c.epoch # scan.epoch]
    /\ UNCHANGED <<chunks, coll, table, entry>>

\* Mutant: the retries are not counted.
RetryForever == ScheduleRefresh(NoTable, scan.attempt + 1)

\* onRefreshFailed with ConflictingOperationInProgress: a retry from nothing, or the end of
\* this refresh; the moved out routingInfo is not put back.
OnRefreshFailed ==
    IF scan.attempt < MaxRefreshAttempts
    THEN ScheduleRefresh(NoTable, scan.attempt + 1)
    ELSE scan' = Idle /\ UNCHANGED <<table, entry>>

\* The cursor is exhausted: refreshCallback builds the ChunkManager, or fails.
FinishRefresh ==
    /\ scan.reading
    /\ Unread = {}
    /\ IF scan.any /\ ~scan.conflict /\ RangesMeet(scan.map)
       THEN /\ table' = [epoch |-> scan.epoch, chunks |-> scan.map]
            /\ entry' = table'
            /\ scan' = Idle
       ELSE OnRefreshFailed
    /\ UNCHANGED <<chunks, coll>>

\* Reading the catalog, or finding a shard of the new table, fails with another error.
RefreshFails ==
    /\ scan.reading
    /\ scan' = Idle
    /\ UNCHANGED <<chunks, coll, table, entry>>

RouterNext ==
    \/ Next /\ UNCHANGED routerVars
    \/ StartRefresh
    \/ ReadChunk
    \/ FinishRefresh
    \/ RefreshFails

RouterSpec == RouterInit /\ [][RouterNext]_allVars

-----------------------------------------------------------------------------
(* Properties *)

\* A refresh that ends while the collection it read is still sharded gives the router the
\* catalog of that very moment, although commits went on while the cursor moved and most of
\* the chunks of an incremental refresh were never read.
RefreshIsExact ==
    [][table' # table /\ coll.state = "sharded" /\ table'.epoch = coll.epoch
          => table'.chunks = chunks]_allVars

TableOn(s) == {c \in table.chunks : c.shard = s}

\* Mutant: the version check compares epochs only.
AcceptsSameEpoch(s) == table.epoch = coll.epoch

\* _checkShardVersionOk on shard s, whose metadata is the catalog's, for a request with the
\* version ChunkManager::getVersion(s): epochs and major versions must be equal.
Accepts(s) ==
    /\ table.epoch = coll.epoch
    /\ \E c \in Newest(TableOn(s)), d \in Newest(OnShard(s)) : c.major = d.major

\* Shard versioning: a router with a stale table never has a request accepted by a shard that
\* does not own the keys the router sends there.
StaleRoutersAreRefused ==
    coll.state = "sharded" =>
        \A c \in table.chunks, d \in chunks :
            Accepts(c.shard) => Disjoint(c, d) \/ c.shard = d.shard
=============================================================================
