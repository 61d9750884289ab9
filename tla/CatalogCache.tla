------------------------------ MODULE CatalogCache ------------------------------
(***************************************************************************)
(* The CatalogCache of one router, for one collection of one database.     *)
(*                                                                         *)
(* Client threads look the collection up, join or schedule a refresh and   *)
(* wait for its notification; the loader's callbacks complete refreshes on *)
(* other threads; invalidations and purges arrive at any time.  Whatever   *)
(* the code does under one hold of _mutex is one action.                   *)
(*                                                                         *)
(* A routing table is abstracted to the catalog version it was read at     *)
(* (module RoutingTable shows how a table is built).  A notification is    *)
(* the set of threads that wait on it.  `entries' holds one                *)
(* CollectionRoutingInfoEntry per DatabaseInfoEntry object: objects that   *)
(* were purged live on while a thread or a refresh refers to them.         *)
(***************************************************************************)
EXTENDS Integers

CONSTANTS
    Threads,             \* client threads
    DbIds,               \* DatabaseInfoEntry objects
    TaskIds,             \* refreshes in flight
    MaxRefreshAttempts,  \* kMaxInconsistentRoutingInfoRefreshAttempts
    VersionBound,        \* bound on the catalog's versions
    DropBound,           \* bound on the drops of the collection
    FaultBound           \* bound on failures, interrupts, purges and spurious invalidations

\* No database, in place of a member of DbIds.
NoDb == "none"

ASSUME CacheAssumption ==
    /\ NoDb \notin DbIds
    /\ MaxRefreshAttempts \in Nat \ {0}
    /\ VersionBound \in Nat
    /\ DropBound \in Nat
    /\ FaultBound \in Nat

VARIABLES
    config,   \* the catalog on the config servers
    current,  \* the object _databases holds for the database, or NoDb
    entries,  \* the collection's entry in every object
    tasks,    \* the refreshes in flight
    pc,       \* where each thread is in getCollectionRoutingInfo
    db,       \* the object each thread found
    ccri,     \* the CachedCollectionRoutingInfo each thread holds
    faults,
    crashed   \* an invariant() failed or a null pointer was used

vars == <<config, current, entries, tasks, pc, db, ccri, faults, crashed>>

NoTask == [db |-> NoDb, attempt |-> 0, result |-> "idle", version |-> 0]

Unsharded == 0
NoInfo == -1

\* The version a reader of the catalog finds.
Found == IF config.sharded THEN config.version ELSE Unsharded

MakeEntry(present, needsRefresh, refreshing, waiters, routingInfo) ==
    [present |-> present, needsRefresh |-> needsRefresh, refreshing |-> refreshing,
     waiters |-> waiters, routingInfo |-> routingInfo]

\* No entry in the map, and a default constructed one.
NoEntry == MakeEntry(FALSE, TRUE, FALSE, {}, Unsharded)
NewEntry == MakeEntry(TRUE, TRUE, FALSE, {}, Unsharded)

Entry ==
    [present: BOOLEAN, needsRefresh: BOOLEAN, refreshing: BOOLEAN, waiters: SUBSET Threads,
     routingInfo: Nat]

Task ==
    [db: DbIds, attempt: 1 .. MaxRefreshAttempts, version: Nat,
     result: {"scheduled", "ok", "notFound", "conflict", "error"}]

\* The types, with what CollectionRoutingInfoEntry's comments say of its fields: a
\* notification only while needsRefresh is set, and a table otherwise.
CacheTypeOK ==
    /\ config \in [sharded: BOOLEAN, version: Nat, drops: Nat]
    /\ current \in DbIds \cup {NoDb}
    /\ entries \in [DbIds -> Entry]
    /\ tasks \in [TaskIds -> Task \cup {NoTask}]
    /\ pc \in [Threads -> {"idle", "get", "look", "wait"}]
    /\ db \in [Threads -> DbIds \cup {NoDb}]
    /\ ccri \in [Threads -> Nat \cup {NoInfo}]
    /\ faults \in Nat
    /\ crashed \in BOOLEAN
    /\ \A d \in DbIds : entries[d].present =>
          IF entries[d].needsRefresh THEN entries[d].routingInfo \in Nat
          ELSE ~entries[d].refreshing /\ entries[d].routingInfo > 0

Init ==
    /\ config = [sharded |-> TRUE, version |-> 1, drops |-> 0]
    /\ current = NoDb
    /\ entries = [d \in DbIds |-> NoEntry]
    /\ tasks = [k \in TaskIds |-> NoTask]
    /\ pc = [t \in Threads |-> "idle"]
    /\ db = [t \in Threads |-> NoDb]
    /\ ccri = [t \in Threads |-> NoInfo]
    /\ faults = 0
    /\ crashed = FALSE

\* An event that the properties only meet finitely often.
Fault == faults < FaultBound /\ faults' = faults + 1

\* Thread t leaves getCollectionRoutingInfo with `info', NoInfo when it failed.
Return(t, info) ==
    /\ pc' = [pc EXCEPT ![t] = "idle"]
    /\ ccri' = [ccri EXCEPT ![t] = info]
    /\ db' = [db EXCEPT ![t] = NoDb]

-----------------------------------------------------------------------------
(* The catalog: commits, drops and shardCollection *)

ChangeCatalog ==
    /\ \/ /\ config.version < VersionBound
          /\ config' = [sharded |-> TRUE, version |-> config.version + 1, drops |-> config.drops]
       \/ /\ config.sharded
          /\ config.drops < DropBound
          /\ config' = [sharded |-> FALSE, version |-> config.version, drops |-> config.drops + 1]
    /\ UNCHANGED <<current, entries, tasks, pc, db, ccri, faults, crashed>>

-----------------------------------------------------------------------------
(* getCollectionRoutingInfo *)

\* Objects nobody refers to any more.
Free ==
    {d \in DbIds : /\ d # current
                   /\ \A t \in Threads : db[t] # d
                   /\ \A k \in TaskIds : tasks[k].db # d}

\* _getDatabase: the cached object, or one loaded under the mutex with an entry for every
\* sharded collection; or the load fails.
GetDatabase(t) ==
    /\ pc[t] = "get" \/ (pc[t] = "idle" /\ ccri[t] = NoInfo)
    /\ \/ /\ IF current # NoDb
             THEN UNCHANGED <<current, entries>>
             ELSE \E d \in Free :
                     /\ current' = d
                     /\ entries' = [entries EXCEPT ![d] = IF config.sharded THEN NewEntry
                                                          ELSE NoEntry]
          /\ pc' = [pc EXCEPT ![t] = "look"]
          /\ db' = [db EXCEPT ![t] = current']
          /\ UNCHANGED <<ccri, faults>>
       \/ /\ current = NoDb
          /\ Fault
          /\ Return(t, NoInfo)
          /\ UNCHANGED <<current, entries>>
    /\ UNCHANGED <<config, tasks, crashed>>

Scheduled(d, attempt) ==
    [db |-> d, attempt |-> attempt, result |-> "scheduled", version |-> 0]

Schedule(d) ==
    \E k \in TaskIds : tasks[k] = NoTask /\ tasks' = [tasks EXCEPT ![k] = Scheduled(d, 1)]

\* Mutant: the notification of a refresh in flight is not looked for.
AlwaysSchedule(d) == Schedule(d)

\* A refresh is scheduled unless the entry has the notification of one in flight.
JoinOrSchedule(d) ==
    IF entries[d].refreshing THEN UNCHANGED tasks ELSE Schedule(d)

\* The rest of the loop's body.  The entry answers; a missing one means unsharded.
AnswerFromEntry(t) ==
    /\ ~(entries[db[t]].present /\ entries[db[t]].needsRefresh)
    /\ Return(t, entries[db[t]].routingInfo)
    /\ UNCHANGED <<entries, tasks, faults>>

\* The table is moved out of the entry to the refresh, and the thread waits.
AwaitRefresh(t) ==
    LET e == entries[db[t]] IN
    /\ e.present /\ e.needsRefresh
    /\ JoinOrSchedule(db[t])
    /\ entries' = [entries EXCEPT ![db[t]] =
                      MakeEntry(TRUE, TRUE, TRUE, e.waiters \cup {t}, Unsharded)]
    /\ pc' = [pc EXCEPT ![t] = "wait"]
    /\ db' = [db EXCEPT ![t] = NoDb]
    /\ UNCHANGED <<ccri, faults>>

\* Scheduling throws, which ends in onRefreshFailed, or the primary shard of an unsharded
\* collection is not found.
LookupFails(t) ==
    LET e == entries[db[t]] IN
    /\ ~e.present \/ (e.needsRefresh /\ ~e.refreshing)
    /\ Fault
    /\ entries' = [entries EXCEPT ![db[t]] = IF e.present THEN NewEntry ELSE e]
    /\ Return(t, NoInfo)
    /\ UNCHANGED tasks

Lookup(t) ==
    /\ pc[t] = "look"
    /\ AnswerFromEntry(t) \/ AwaitRefresh(t) \/ LookupFails(t)
    /\ UNCHANGED <<config, current, crashed>>

\* waitFor throws: the operation was killed or its deadline passed.
Interrupt(t) ==
    /\ pc[t] = "wait"
    /\ Fault
    /\ Return(t, NoInfo)
    /\ entries' = [d \in DbIds |-> [entries[d] EXCEPT !.waiters = @ \ {t}]]
    /\ UNCHANGED <<config, current, tasks, crashed>>

-----------------------------------------------------------------------------
(* _scheduleCollectionRefresh *)

\* The loader reads the catalog: the collection, NamespaceNotFound, an inconsistent set of
\* chunks (only while the catalog changes) or another error.
LoaderRead(k) ==
    /\ tasks[k].result = "scheduled"
    /\ \/ /\ tasks' = [tasks EXCEPT ![k] =
                          [db |-> tasks[k].db, attempt |-> tasks[k].attempt,
                           result |-> IF config.sharded THEN "ok" ELSE "notFound",
                           version |-> Found]]
          /\ UNCHANGED faults
       \/ /\ Fault
          /\ \E r \in {"conflict", "error"} : tasks' = [tasks EXCEPT ![k].result = r]
    /\ UNCHANGED <<config, current, entries, pc, db, ccri, crashed>>

\* invariant(it != collections.end()) or the null notification.
Crash ==
    /\ crashed' = TRUE
    /\ UNCHANGED <<config, current, entries, tasks, pc, db, ccri, faults>>

\* Mutant: notify_one instead of notify_all.
NotifyOne(waiters, ok) ==
    \E one \in SUBSET waiters :
        /\ \A s, t \in one : s = t
        /\ waiters # {} => one # {}
        /\ pc' = [t \in Threads |-> IF t \notin one THEN pc[t]
                                   ELSE IF ok THEN "get" ELSE "idle"]

\* Notification::set with an error or OK: every waiter goes on.
Notify(waiters, ok) ==
    /\ pc' = [t \in Threads |-> IF t \notin waiters THEN pc[t]
                               ELSE IF ok THEN "get" ELSE "idle"]

\* Mutant: a failure is not passed on to the waiters.
CompleteSilently(k, ok) ==
    /\ Notify(IF ok THEN entries[tasks[k].db].waiters ELSE {}, ok)
    /\ entries' = [entries EXCEPT ![tasks[k].db] =
                      IF ~ok THEN NewEntry
                      ELSE IF tasks[k].result = "notFound" THEN NoEntry
                      ELSE MakeEntry(TRUE, FALSE, FALSE, {}, tasks[k].version)]
    /\ tasks' = [tasks EXCEPT ![k] = NoTask]

\* The end of refreshCallback, with the new table or without one, and of onRefreshFailed,
\* which leaves needsRefresh as it is.
Complete(k, ok) ==
    LET d == tasks[k].db
        e == entries[d]
    IN
    /\ Notify(e.waiters, ok)
    /\ entries' = [entries EXCEPT ![d] =
                      IF ~ok THEN MakeEntry(TRUE, e.needsRefresh, FALSE, {}, e.routingInfo)
                      ELSE IF tasks[k].result = "notFound" THEN NoEntry
                      ELSE MakeEntry(TRUE, FALSE, FALSE, {}, tasks[k].version)]
    /\ tasks' = [tasks EXCEPT ![k] = NoTask]

\* Mutant: the attempts are not counted.
RetriesAlways(k) == tasks[k].result = "conflict"

\* onRefreshFailed tries again after ConflictingOperationInProgress.
Retries(k) == tasks[k].result = "conflict" /\ tasks[k].attempt < MaxRefreshAttempts

\* refreshCallback and onRefreshFailed.  Scheduling the next attempt may throw too.
RefreshCallback(k) ==
    LET e == entries[tasks[k].db] IN
    /\ tasks[k].result \notin {"idle", "scheduled"}
    /\ \/ /\ e.present /\ Retries(k)
          /\ tasks' = [tasks EXCEPT ![k] = Scheduled(tasks[k].db, tasks[k].attempt + 1)]
          /\ UNCHANGED <<config, current, entries, pc, db, ccri, faults, crashed>>
       \/ /\ e.present /\ e.refreshing
          /\ IF Retries(k) THEN Fault ELSE UNCHANGED faults
          /\ Complete(k, tasks[k].result \in {"ok", "notFound"})
          /\ UNCHANGED <<config, current, db, ccri, crashed>>
       \/ /\ ~e.present \/ (~e.refreshing /\ ~Retries(k))
          /\ Crash

-----------------------------------------------------------------------------
(* Invalidation and purging *)

\* invalidateShardedCollection: the entry, created if missing, is marked; without the
\* database nothing happens.
InvalidateShardedCollection ==
    entries' = [d \in DbIds |->
                  IF d # current THEN entries[d]
                  ELSE MakeEntry(TRUE, TRUE, entries[d].refreshing, entries[d].waiters,
                                 entries[d].routingInfo)]

\* getCollectionRoutingInfoWithRefresh, up to its call of getCollectionRoutingInfo.
GetWithRefresh(t) ==
    /\ pc[t] = "idle" /\ ccri[t] = NoInfo
    /\ Fault
    /\ InvalidateShardedCollection
    /\ pc' = [pc EXCEPT ![t] = "get"]
    /\ UNCHANGED <<config, current, tasks, db, ccri, crashed>>

\* Mutant: a table other than the refused one is taken for stale, and the refused one not.
NewerIsStale(info) == entries[current].routingInfo # info

\* The last test of onStaleConfigError: the cached table is the one that was refused.
CachedIsRefused(info) == entries[current].routingInfo = info

\* onStaleConfigError, when a shard refuses the version of the table thread t routed with.
\* A refusal although the table is the catalog's counts as a fault.
OnStaleConfigError(t) ==
    /\ pc[t] = "idle" /\ ccri[t] # NoInfo
    /\ IF ccri[t] = Found THEN Fault ELSE UNCHANGED faults
    /\ IF ccri[t] = Unsharded
       THEN InvalidateShardedCollection
       ELSE IF /\ current # NoDb
               /\ entries[current].present
               /\ ~entries[current].needsRefresh
               /\ CachedIsRefused(ccri[t])
            THEN InvalidateShardedCollection
            ELSE UNCHANGED entries
    /\ ccri' = [ccri EXCEPT ![t] = NoInfo]
    /\ UNCHANGED <<config, current, tasks, pc, db, crashed>>

\* The operation that used the table is over.
Finish(t) ==
    /\ pc[t] = "idle" /\ ccri[t] # NoInfo
    /\ ccri' = [ccri EXCEPT ![t] = NoInfo]
    /\ UNCHANGED <<config, current, entries, tasks, pc, db, faults, crashed>>

\* purgeDatabase and purgeAllDatabases: the object stays with those who refer to it.
PurgeDatabase ==
    /\ current # NoDb
    /\ Fault
    /\ current' = NoDb
    /\ UNCHANGED <<config, entries, tasks, pc, db, ccri, crashed>>

\* purgeCollection (flushRouterConfig with a collection): the entry is erased, whatever waits
\* on it.
PurgeCollection ==
    /\ current # NoDb
    /\ Fault
    /\ entries' = [entries EXCEPT ![current] = NoEntry]
    /\ UNCHANGED <<config, current, tasks, pc, db, ccri, crashed>>

-----------------------------------------------------------------------------
Next ==
    /\ ~crashed
    /\ \/ ChangeCatalog
       \/ PurgeDatabase
       \/ \E t \in Threads :
             GetDatabase(t) \/ Lookup(t) \/ Interrupt(t) \/ GetWithRefresh(t)
                \/ OnStaleConfigError(t) \/ Finish(t)
       \/ \E k \in TaskIds : LoaderRead(k) \/ RefreshCallback(k)

Spec == Init /\ [][Next]_vars

\* With flushRouterConfig on single collections.
FlushNext == Next \/ (~crashed /\ PurgeCollection)

FlushSpec == Init /\ [][FlushNext]_vars

\* Threads run, the loader answers and its callback runs; a shard that is sent a stale version
\* again and again refuses it sometimes.
FairSpec ==
    /\ Spec
    /\ \A t \in Threads : /\ WF_vars(GetDatabase(t))
                          /\ WF_vars(Lookup(t))
                          /\ SF_vars(OnStaleConfigError(t))
    /\ \A k \in TaskIds : WF_vars(LoaderRead(k)) /\ WF_vars(RefreshCallback(k))

-----------------------------------------------------------------------------
(* Properties *)

\* The invariants of onRefreshFailed and refreshCallback hold, and the notification they set
\* is there: a callback finds the entry its refresh was scheduled for, although the database
\* may have been purged and loaded again and the entry invalidated meanwhile.
NoCrash == ~crashed

\* A thread that waits is waiting on a notification some refresh in flight will set.
NoLostWaiter ==
    \A t \in Threads : pc[t] = "wait" =>
        \E d \in DbIds : t \in entries[d].waiters /\ \E k \in TaskIds : tasks[k].db = d

\* getCollectionRoutingInfo always returns from its wait, whatever the refresh ends with.
WaitersAreReleased == \A t \in Threads : pc[t] = "wait" ~> pc[t] # "wait"

\* The stale-version retry converges: once the catalog and the faults have come to rest, every
\* thread gets the catalog's own version, although invalidations can be lost on the way.
RouterConverges == \A t \in Threads : []<>(ccri[t] = Found)
=============================================================================
