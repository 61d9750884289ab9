--------------------------- MODULE CatalogCacheProofs ---------------------------
(***************************************************************************)
(* Proofs that the catalog cache never trips its own invariants and never  *)
(* loses a waiter, for any number of threads, purges and invalidations, as *)
(* long as single collections are not purged (Spec, not FlushSpec).        *)
(*                                                                         *)
(* The strengthening says who refers to whom: an entry has a notification  *)
(* exactly while one refresh for it is in flight (Refs), and a thread waits*)
(* exactly on one notification (Waits).                                    *)
(***************************************************************************)
EXTENDS CatalogCache, TLAPS

Refs ==
    /\ \A d \in DbIds : ~entries[d].present => ~entries[d].refreshing
    /\ \A d \in DbIds : entries[d].refreshing => \E k \in TaskIds : tasks[k].db = d
    /\ \A k \in TaskIds : tasks[k].db # NoDb => entries[tasks[k].db].refreshing
    /\ \A j, k \in TaskIds : tasks[k].db # NoDb /\ tasks[j].db = tasks[k].db => j = k

Waits ==
    /\ \A d \in DbIds : \A t \in entries[d].waiters : entries[d].refreshing /\ pc[t] = "wait"
    /\ \A c, d \in DbIds : \A t \in entries[c].waiters : t \in entries[d].waiters => c = d
    /\ \A t \in Threads : pc[t] = "wait" => \E d \in DbIds : t \in entries[d].waiters
    /\ \A t \in Threads : pc[t] = "look" => db[t] \in DbIds

CacheInv == CacheTypeOK /\ NoCrash /\ Refs /\ Waits

\* The entries that the code default constructs carry no notification.
LEMMA FreshEntries ==
    ASSUME NEW e \in {NewEntry, NoEntry}
    PROVE  /\ e \in Entry
           /\ ~e.refreshing /\ e.waiters = {} /\ e.needsRefresh /\ e.routingInfo \in Nat
  <1>1. CASE e = NewEntry
    BY <1>1 DEF NewEntry, MakeEntry, Entry, Unsharded
  <1>2. CASE e = NoEntry
    BY <1>2 DEF NoEntry, MakeEntry, Entry, Unsharded
  <1> QED  BY <1>1, <1>2

LEMMA InitInv == Init => CacheInv
  <1> SUFFICES ASSUME Init PROVE CacheInv
    OBVIOUS
  <1>1. NoEntry = [present |-> FALSE, needsRefresh |-> TRUE, refreshing |-> FALSE,
                   waiters |-> {}, routingInfo |-> 0]
    BY DEF NoEntry, MakeEntry, Unsharded
  <1>2. CacheTypeOK
    BY <1>1 DEF Init, CacheTypeOK, NoTask, Entry, NoInfo
  <1>3. Refs /\ Waits /\ NoCrash
    BY <1>1 DEF Init, Refs, Waits, NoCrash, NoTask
  <1> QED  BY <1>2, <1>3 DEF CacheInv

\* The steps that leave the entries and the refreshes alone.
LEMMA QuietStep ==
    ASSUME CacheInv, ChangeCatalog \/ PurgeDatabase \/ \E t \in Threads : Finish(t)
    PROVE  CacheInv'
  <1>1. CASE ChangeCatalog
    <2>1. config' \in [sharded: BOOLEAN, version: Nat, drops: Nat]
      <3>1. config \in [sharded: BOOLEAN, version: Nat, drops: Nat]
        BY DEF CacheInv, CacheTypeOK
      <3>2. /\ config.version \in Nat /\ config.version + 1 \in Nat
            /\ config.drops \in Nat /\ config.drops + 1 \in Nat
        BY <3>1
      <3>3. \/ config' = [sharded |-> TRUE, version |-> config.version + 1,
                          drops |-> config.drops]
            \/ config' = [sharded |-> FALSE, version |-> config.version,
                          drops |-> config.drops + 1]
        BY <1>1 DEF ChangeCatalog
      <3>4. CASE config' = [sharded |-> TRUE, version |-> config.version + 1,
                            drops |-> config.drops]
        BY <3>2, <3>4
      <3>5. CASE config' = [sharded |-> FALSE, version |-> config.version,
                            drops |-> config.drops + 1]
        BY <3>2, <3>5
      <3> QED  BY <3>3, <3>4, <3>5
    <2> QED
      BY <1>1, <2>1 DEF ChangeCatalog, CacheInv, CacheTypeOK, NoCrash, Refs, Waits
  <1>2. CASE PurgeDatabase
    BY <1>2 DEF PurgeDatabase, Fault, CacheInv, CacheTypeOK, NoCrash, Refs, Waits
  <1>3. CASE \E t \in Threads : Finish(t)
    BY <1>3 DEF Finish, CacheInv, CacheTypeOK, NoCrash, Refs, Waits, NoInfo
  <1> QED  BY <1>1, <1>2, <1>3

\* A step that leaves the entries alone and every refresh with its database keeps Refs.
LEMMA SameTasks ==
    ASSUME Refs, UNCHANGED entries, \A j \in TaskIds : tasks'[j].db = tasks[j].db
    PROVE  Refs'
  <1>1. \A d \in DbIds : ~entries'[d].present => ~entries'[d].refreshing
    BY DEF Refs
  <1>2. ASSUME NEW d \in DbIds, entries'[d].refreshing
        PROVE  \E j \in TaskIds : tasks'[j].db = d
    <2>1. PICK j \in TaskIds : tasks[j].db = d
      BY <1>2 DEF Refs
    <2> QED  BY <2>1
  <1>3. \A j \in TaskIds : tasks'[j].db # NoDb => entries'[tasks'[j].db].refreshing
    BY DEF Refs
  <1>4. \A i, j \in TaskIds : tasks'[j].db # NoDb /\ tasks'[i].db = tasks'[j].db => i = j
    BY DEF Refs
  <1> QED  BY <1>1, <1>2, <1>3, <1>4 DEF Refs

LEMMA LoaderReadStep ==
    ASSUME CacheInv, NEW k \in TaskIds, LoaderRead(k)
    PROVE  CacheInv'
  <1>1. tasks[k] \in Task
    BY DEF CacheInv, CacheTypeOK, LoaderRead, NoTask
  <1>2. PICK r \in {"ok", "notFound", "conflict", "error"}, v \in Nat :
            tasks' = [tasks EXCEPT ![k] =
                        [db |-> tasks[k].db, attempt |-> tasks[k].attempt, result |-> r,
                         version |-> v]]
    BY <1>1 DEF LoaderRead, Task, CacheInv, CacheTypeOK, Found, Unsharded
  <1>3. \A j \in TaskIds : tasks'[j].db = tasks[j].db
    BY <1>2 DEF CacheInv, CacheTypeOK
  <1>4. faults' \in Nat
    BY DEF LoaderRead, Fault, CacheInv, CacheTypeOK
  <1>5. tasks' \in [TaskIds -> Task \cup {NoTask}]
    BY <1>1, <1>2 DEF CacheInv, CacheTypeOK, Task
  <1>6. UNCHANGED <<config, current, entries, pc, db, ccri, crashed>>
    BY DEF LoaderRead
  <1>7. CacheTypeOK' /\ NoCrash'
    BY <1>4, <1>5, <1>6 DEF CacheInv, CacheTypeOK, NoCrash
  <1>8. Refs'
    BY <1>3, <1>6, SameTasks DEF CacheInv
  <1>9. Waits'
    BY <1>6 DEF CacheInv, Waits
  <1> QED  BY <1>7, <1>8, <1>9 DEF CacheInv

\* _getDatabase reuses no object that a refresh or a waiter refers to.
LEMMA GetDatabaseStep ==
    ASSUME CacheInv, NEW t \in Threads, GetDatabase(t)
    PROVE  CacheInv'
  <1> USE DEF CacheInv
  <1>1. CASE Return(t, NoInfo) /\ Fault /\ UNCHANGED <<config, current, entries, tasks, crashed>>
    <2>1. pc[t] # "wait"
      BY DEF GetDatabase
    <2>2. CacheTypeOK' /\ NoCrash' /\ Refs'
      BY <1>1 DEF Return, Fault, CacheTypeOK, NoCrash, Refs, NoInfo
    <2>3. Waits'
      BY <1>1, <2>1 DEF Return, CacheTypeOK, Waits
    <2> QED  BY <2>2, <2>3
  <1>2. CASE /\ current' \in DbIds
             /\ \/ UNCHANGED entries
                \/ /\ current' \in Free
                   /\ \E e \in {NewEntry, NoEntry} : entries' = [entries EXCEPT ![current'] = e]
             /\ pc' = [pc EXCEPT ![t] = "look"]
             /\ db' = [db EXCEPT ![t] = current']
             /\ UNCHANGED <<config, tasks, ccri, faults, crashed>>
    <2> DEFINE d == current'
    <2>1. pc[t] # "wait"
      BY DEF GetDatabase
    <2>2. CASE UNCHANGED entries
      BY <1>2, <2>1, <2>2 DEF CacheTypeOK, NoCrash, Refs, Waits
    <2>3. CASE /\ d \in Free
               /\ \E e \in {NewEntry, NoEntry} : entries' = [entries EXCEPT ![d] = e]
      <3>1. PICK e \in {NewEntry, NoEntry} : entries' = [entries EXCEPT ![d] = e]
        BY <2>3
      <3>2. /\ e \in Entry
            /\ ~e.refreshing /\ e.waiters = {} /\ e.needsRefresh /\ e.routingInfo \in Nat
        BY FreshEntries
      <3>3. d \in DbIds /\ \A k \in TaskIds : tasks[k].db # d
        BY <1>2, <2>3 DEF Free
      <3>4. ~entries[d].refreshing /\ entries[d].waiters = {}
        BY <3>3 DEF Refs, Waits, CacheTypeOK, Entry
      <3> HIDE DEF d
      <3>5. \A c \in DbIds : entries'[c] = IF c = d THEN e ELSE entries[c]
        BY <3>1 DEF CacheTypeOK
      <3>6. CacheTypeOK' /\ NoCrash'
        BY <1>2, <3>1, <3>2, <3>3 DEF CacheTypeOK, NoCrash, d
      <3>7. Refs'
        BY <1>2, <3>2, <3>3, <3>4, <3>5 DEF Refs, CacheTypeOK, Task, NoTask
      <3>8. Waits'
        <4>1. \A c \in DbIds : entries'[c].waiters = entries[c].waiters
          BY <3>2, <3>4, <3>5
        <4>2. \A s \in Threads : pc'[s] = "wait" <=> pc[s] = "wait"
          BY <1>2, <2>1 DEF CacheTypeOK
        <4>3. \A c \in DbIds : entries[c].waiters \subseteq Threads
          BY DEF CacheTypeOK, Entry
        <4>4. \A c \in DbIds : \A s \in entries[c].waiters :
                 entries[c].refreshing => entries'[c].refreshing
          BY <3>4, <3>5
        <4>5. \A s \in Threads : pc'[s] = "look" => db'[s] \in DbIds
          BY <1>2 DEF Waits, CacheTypeOK
        <4> QED  BY <4>1, <4>2, <4>3, <4>4, <4>5, Zenon DEF Waits
      <3> QED  BY <3>6, <3>7, <3>8
    <2> QED  BY <1>2, <2>2, <2>3
  <1> QED  BY <1>1, <1>2 DEF GetDatabase, CacheTypeOK, Free

\* What CacheTypeOK says of an entry beyond its type.
EntryOK(e) ==
    e.present => IF e.needsRefresh THEN e.routingInfo \in Nat
                 ELSE ~e.refreshing /\ e.routingInfo > 0

\* invalidateShardedCollection keeps notifications and waiters.
LEMMA InvalidateKeeps ==
    ASSUME CacheInv, InvalidateShardedCollection
    PROVE  /\ entries' \in [DbIds -> Entry]
           /\ \A d \in DbIds : /\ EntryOK(entries'[d])
                               /\ entries'[d].waiters = entries[d].waiters
                               /\ entries'[d].refreshing <=> entries[d].refreshing
                               /\ ~entries'[d].present => ~entries'[d].refreshing
  <1> SUFFICES ASSUME NEW d \in DbIds
               PROVE  /\ entries'[d] \in Entry
                      /\ EntryOK(entries'[d])
                      /\ entries'[d].waiters = entries[d].waiters
                      /\ entries'[d].refreshing <=> entries[d].refreshing
                      /\ ~entries'[d].present => ~entries'[d].refreshing
    BY DEF InvalidateShardedCollection
  <1>1. entries[d] \in Entry
    BY DEF CacheInv, CacheTypeOK
  <1>2. CASE d # current
    <2>1. entries'[d] = entries[d]
      BY <1>2 DEF InvalidateShardedCollection
    <2> QED  BY <1>1, <2>1 DEF CacheInv, CacheTypeOK, Refs, EntryOK
  <1>3. CASE d = current
    <2>1. entries'[d] = [present |-> TRUE, needsRefresh |-> TRUE,
                         refreshing |-> entries[d].refreshing, waiters |-> entries[d].waiters,
                         routingInfo |-> entries[d].routingInfo]
      BY <1>3 DEF InvalidateShardedCollection, MakeEntry
    <2> QED  BY <1>1, <2>1 DEF Entry, EntryOK
  <1> QED  BY <1>2, <1>3

\* The parts of the invariant that a change of the marks alone leaves alone.
LEMMA SameReferences ==
    ASSUME CacheInv, UNCHANGED tasks,
           \A d \in DbIds : /\ entries'[d].waiters = entries[d].waiters
                            /\ entries'[d].refreshing <=> entries[d].refreshing
                            /\ ~entries'[d].present => ~entries'[d].refreshing,
           \A t \in Threads : (pc'[t] = "wait") <=> (pc[t] = "wait"),
           \A t \in Threads : pc'[t] = "look" => db'[t] \in DbIds
    PROVE  Refs' /\ Waits'
  <1>1. \A c \in DbIds : entries[c].waiters \subseteq Threads
    BY DEF CacheInv, CacheTypeOK, Entry
  <1>2. \A k \in TaskIds : tasks[k].db # NoDb => tasks[k].db \in DbIds
    BY DEF CacheInv, CacheTypeOK, Task, NoTask
  <1>3. Refs'
    <2>1. \A d \in DbIds : entries'[d].refreshing => \E k \in TaskIds : tasks'[k].db = d
      BY DEF CacheInv, Refs
    <2>2. \A k \in TaskIds : tasks'[k].db # NoDb => entries'[tasks'[k].db].refreshing
      BY <1>2 DEF CacheInv, Refs
    <2>3. \A j, k \in TaskIds : tasks'[k].db # NoDb /\ tasks'[j].db = tasks'[k].db => j = k
      BY DEF CacheInv, Refs
    <2> QED  BY <2>1, <2>2, <2>3 DEF Refs
  <1>4. Waits'
    <2>1. \A d \in DbIds : \A t \in entries'[d].waiters :
             entries'[d].refreshing /\ pc'[t] = "wait"
      BY <1>1 DEF CacheInv, Waits
    <2>2. \A c, d \in DbIds : \A t \in entries'[c].waiters : t \in entries'[d].waiters => c = d
      BY DEF CacheInv, Waits
    <2>3. \A t \in Threads : pc'[t] = "wait" => \E d \in DbIds : t \in entries'[d].waiters
      BY DEF CacheInv, Waits
    <2> QED  BY <2>1, <2>2, <2>3 DEF Waits
  <1> QED  BY <1>3, <1>4

LEMMA GetWithRefreshStep ==
    ASSUME CacheInv, NEW t \in Threads, GetWithRefresh(t)
    PROVE  CacheInv'
  <1>1. Refs' /\ Waits'
    <2>1. pc' = [pc EXCEPT ![t] = "get"] /\ pc[t] = "idle" /\ UNCHANGED <<tasks, db>>
      BY DEF GetWithRefresh
    <2>2. \A s \in Threads : /\ (pc'[s] = "wait") <=> (pc[s] = "wait")
                             /\ pc'[s] = "look" => db'[s] \in DbIds
      BY <2>1 DEF CacheInv, CacheTypeOK, Waits
    <2> QED  BY <2>1, <2>2, InvalidateKeeps, SameReferences DEF GetWithRefresh
  <1>2. Found \in Nat
    BY DEF CacheInv, CacheTypeOK, Found, Unsharded
  <1>3. CacheTypeOK' /\ NoCrash'
    BY <1>2, InvalidateKeeps DEF GetWithRefresh, Fault, CacheInv, CacheTypeOK, NoCrash, EntryOK
  <1> QED  BY <1>1, <1>3 DEF CacheInv

LEMMA OnStaleConfigErrorStep ==
    ASSUME CacheInv, NEW t \in Threads, OnStaleConfigError(t)
    PROVE  CacheInv'
  <1>1. CASE UNCHANGED entries
    BY <1>1 DEF OnStaleConfigError, Fault, CacheInv, CacheTypeOK, NoCrash, Refs, Waits, NoInfo
  <1>2. CASE InvalidateShardedCollection
    <2>1. UNCHANGED <<config, current, tasks, pc, db, crashed>> /\ faults' \in Nat
      BY DEF OnStaleConfigError, Fault, CacheInv, CacheTypeOK
    <2>2. Refs' /\ Waits'
      BY <1>2, <2>1, InvalidateKeeps, SameReferences DEF CacheInv, Waits
    <2>3. ccri' \in [Threads -> Nat \cup {NoInfo}]
      BY DEF OnStaleConfigError, CacheInv, CacheTypeOK
    <2>4. CacheTypeOK' /\ NoCrash'
      BY <1>2, <2>1, <2>3, InvalidateKeeps DEF CacheInv, CacheTypeOK, NoCrash, EntryOK
    <2> QED  BY <2>2, <2>4 DEF CacheInv
  <1> QED  BY <1>1, <1>2 DEF OnStaleConfigError

LEMMA AnswerStep ==
    ASSUME CacheInv, NEW t \in Threads, pc[t] = "look", AnswerFromEntry(t),
           UNCHANGED <<config, current, crashed>>
    PROVE  CacheInv'
  <1>1. entries[db[t]].routingInfo \in Nat
    BY DEF CacheInv, CacheTypeOK, Waits, Entry
  <1>2. \A s \in Threads : /\ (pc'[s] = "wait") <=> (pc[s] = "wait")
                           /\ pc'[s] = "look" => db'[s] \in DbIds
    BY DEF AnswerFromEntry, Return, CacheInv, CacheTypeOK, Waits
  <1>3. CacheTypeOK' /\ NoCrash'
    BY <1>1 DEF AnswerFromEntry, Return, CacheInv, CacheTypeOK, NoCrash
  <1>4. UNCHANGED <<entries, tasks>>
    BY DEF AnswerFromEntry
  <1>5. Refs' /\ Waits'
    BY <1>2, <1>4, SameReferences DEF CacheInv, Refs
  <1> QED  BY <1>3, <1>5 DEF CacheInv

LEMMA LookupFailsStep ==
    ASSUME CacheInv, NEW t \in Threads, pc[t] = "look", LookupFails(t),
           UNCHANGED <<config, current, crashed>>
    PROVE  CacheInv'
  <1>1. \A s \in Threads : /\ (pc'[s] = "wait") <=> (pc[s] = "wait")
                           /\ pc'[s] = "look" => db'[s] \in DbIds
    BY DEF LookupFails, Return, CacheInv, CacheTypeOK, Waits
  <1>2. /\ pc' \in [Threads -> {"idle", "get", "look", "wait"}]
        /\ db' \in [Threads -> DbIds \cup {NoDb}]
        /\ ccri' \in [Threads -> Nat \cup {NoInfo}]
        /\ faults' \in Nat
    BY DEF LookupFails, Return, Fault, CacheInv, CacheTypeOK
  <1>3. PICK d \in DbIds : d = db[t]
    BY DEF CacheInv, Waits
  <1>4. entries \in [DbIds -> Entry] /\ entries[d] \in Entry /\ EntryOK(entries[d])
    BY <1>3 DEF CacheInv, CacheTypeOK, EntryOK
  <1>5. PICK e \in Entry :
            /\ entries' = [entries EXCEPT ![d] = e]
            /\ EntryOK(e) /\ e.waiters = {} /\ ~e.refreshing
    <2>1. ~entries[d].refreshing
      BY <1>3 DEF LookupFails, CacheInv, Refs
    <2>2. entries[d].waiters = {}
      BY <1>4, <2>1 DEF CacheInv, Waits, Entry
    <2>3. CASE ~entries[d].present
      BY <1>3, <1>4, <2>1, <2>2, <2>3 DEF LookupFails
    <2>4. CASE entries[d].present
      <3>1. entries' = [entries EXCEPT ![d] = NewEntry]
        BY <1>3, <2>4 DEF LookupFails
      <3>2. EntryOK(NewEntry) /\ NewEntry.waiters = {} /\ ~NewEntry.refreshing /\ NewEntry \in Entry
        BY FreshEntries DEF EntryOK
      <3> QED  BY <3>1, <3>2
    <2> QED  BY <2>3, <2>4
  <1>6. ~entries[d].refreshing /\ entries[d].waiters = {}
    <2>1. ~entries[d].refreshing
      BY <1>3 DEF LookupFails, CacheInv, Refs
    <2> QED  BY <1>4, <2>1 DEF CacheInv, Waits, Entry
  <1>7. \A c \in DbIds : entries'[c] = IF c = d THEN e ELSE entries[c]
    BY <1>4, <1>5
  <1>8. \A c \in DbIds : /\ entries'[c].waiters = entries[c].waiters
                         /\ entries'[c].refreshing <=> entries[c].refreshing
                         /\ ~entries'[c].present => ~entries'[c].refreshing
    <2> SUFFICES ASSUME NEW c \in DbIds
                 PROVE  /\ entries'[c].waiters = entries[c].waiters
                        /\ entries'[c].refreshing <=> entries[c].refreshing
                        /\ ~entries'[c].present => ~entries'[c].refreshing
      OBVIOUS
    <2>1. CASE c = d
      BY <1>5, <1>6, <1>7, <2>1
    <2>2. CASE c # d
      <3>1. entries'[c] = entries[c]
        BY <1>7, <2>2
      <3> QED  BY <3>1 DEF CacheInv, Refs
    <2> QED  BY <2>1, <2>2
  <1>9. Refs' /\ Waits'
    BY <1>1, <1>8, SameReferences DEF LookupFails
  <1>10. CacheTypeOK' /\ NoCrash'
    <2>1. entries' \in [DbIds -> Entry] /\ UNCHANGED tasks
      BY <1>4, <1>5 DEF LookupFails
    <2>2. \A c \in DbIds : EntryOK(entries'[c])
      BY <1>5, <1>7 DEF CacheInv, CacheTypeOK, EntryOK
    <2> QED  BY <1>2, <2>1, <2>2 DEF CacheInv, CacheTypeOK, NoCrash, EntryOK
  <1> QED  BY <1>9, <1>10 DEF CacheInv

LEMMA AwaitRefreshStep ==
    ASSUME CacheInv, NEW t \in Threads, pc[t] = "look", AwaitRefresh(t),
           UNCHANGED <<config, current, crashed>>
    PROVE  CacheInv'
  <1>1. PICK d \in DbIds : d = db[t]
    BY DEF CacheInv, Waits
  <1>2. entries \in [DbIds -> Entry] /\ entries[d] \in Entry
    BY DEF CacheInv, CacheTypeOK
  <1>3. PICK e \in Entry :
            /\ entries' = [entries EXCEPT ![d] = e]
            /\ EntryOK(e) /\ e.present /\ e.refreshing /\ e.waiters = entries[d].waiters \cup {t}
    <2>1. entries' = [entries EXCEPT ![d] =
                         [present |-> TRUE, needsRefresh |-> TRUE, refreshing |-> TRUE,
                          waiters |-> entries[d].waiters \cup {t}, routingInfo |-> 0]]
      BY <1>1 DEF AwaitRefresh, MakeEntry, Unsharded
    <2> DEFINE e == [present |-> TRUE, needsRefresh |-> TRUE, refreshing |-> TRUE,
                     waiters |-> entries[d].waiters \cup {t}, routingInfo |-> 0]
    <2>2. e \in Entry
      BY <1>2 DEF Entry
    <2>3. EntryOK(e) /\ e.present /\ e.refreshing /\ e.waiters = entries[d].waiters \cup {t}
      BY DEF EntryOK
    <2> HIDE DEF e
    <2> QED  BY <2>1, <2>2, <2>3 DEF e
  <1>4. \A c \in DbIds : entries'[c] = IF c = d THEN e ELSE entries[c]
    BY <1>2, <1>3
  <1>5. /\ entries' \in [DbIds -> Entry]
        /\ \A c \in DbIds : EntryOK(entries'[c])
    BY <1>2, <1>3, <1>4 DEF CacheInv, CacheTypeOK, EntryOK
  <1>6. \A k \in TaskIds : tasks[k].db \in DbIds \cup {NoDb}
    BY DEF CacheInv, CacheTypeOK, Task, NoTask
  <1>7. /\ tasks' \in [TaskIds -> Task \cup {NoTask}]
        /\ Refs'
    <2>1. CASE entries[d].refreshing
      <3>1. UNCHANGED tasks
        BY <1>1, <2>1 DEF AwaitRefresh, JoinOrSchedule
      <3>2. \A c \in DbIds : entries'[c].refreshing <=> entries[c].refreshing
        BY <1>3, <1>4, <2>1
      <3>3. \A c \in DbIds : ~entries'[c].present => ~entries'[c].refreshing
        BY <1>3, <1>4 DEF CacheInv, Refs
      <3>4. Refs'
        BY <1>6, <3>1, <3>2, <3>3 DEF CacheInv, Refs
      <3> QED  BY <3>1, <3>4 DEF CacheInv, CacheTypeOK
    <2>2. CASE ~entries[d].refreshing
      <3>1. PICK k \in TaskIds : tasks[k] = NoTask /\ tasks' = [tasks EXCEPT ![k] = Scheduled(d, 1)]
        BY <1>1, <2>2 DEF AwaitRefresh, JoinOrSchedule, Schedule
      <3>2. Scheduled(d, 1) \in Task /\ Scheduled(d, 1).db = d
        BY CacheAssumption DEF Scheduled, Task
      <3>3. tasks[k].db = NoDb /\ tasks \in [TaskIds -> Task \cup {NoTask}]
        BY <3>1 DEF NoTask, CacheInv, CacheTypeOK
      <3>4. \A j \in TaskIds : tasks'[j].db = IF j = k THEN d ELSE tasks[j].db
        BY <3>1, <3>2, <3>3
      <3>5. \A j \in TaskIds : tasks[j].db # d
        BY <2>2, CacheAssumption DEF CacheInv, Refs
      <3>6. Refs'
        <4>1. \A c \in DbIds : ~entries'[c].present => ~entries'[c].refreshing
          BY <1>3, <1>4 DEF CacheInv, Refs
        <4>2. ASSUME NEW c \in DbIds, entries'[c].refreshing
              PROVE  \E j \in TaskIds : tasks'[j].db = c
          <5>1. CASE c = d
            BY <3>4, <5>1
          <5>2. CASE c # d
            <6>1. PICK j \in TaskIds : tasks[j].db = c
              BY <1>4, <4>2, <5>2 DEF CacheInv, Refs
            <6> QED  BY <3>3, <3>4, <6>1, CacheAssumption
          <5> QED  BY <5>1, <5>2
        <4>3. ASSUME NEW j \in TaskIds, tasks'[j].db # NoDb
              PROVE  entries'[tasks'[j].db].refreshing
          <5>1. CASE j = k
            BY <1>3, <1>4, <3>4, <5>1
          <5>2. CASE j # k
            <6>1. tasks'[j].db = tasks[j].db /\ tasks[j].db \in DbIds
              BY <1>6, <3>4, <4>3, <5>2
            <6>2. entries[tasks[j].db].refreshing
              BY <4>3, <6>1 DEF CacheInv, Refs
            <6> QED  BY <1>3, <1>4, <6>1, <6>2
          <5> QED  BY <5>1, <5>2
        <4>4. ASSUME NEW i \in TaskIds, NEW j \in TaskIds,
                     tasks'[j].db # NoDb, tasks'[i].db = tasks'[j].db
              PROVE  i = j
          <5>1. CASE i = k \/ j = k
            BY <3>4, <3>5, <4>4, <5>1
          <5>2. CASE i # k /\ j # k
            <6>1. tasks[j].db # NoDb /\ tasks[i].db = tasks[j].db
              BY <3>4, <4>4, <5>2
            <6> QED  BY <6>1 DEF CacheInv, Refs
          <5> QED  BY <5>1, <5>2
        <4> QED  BY <4>1, <4>2, <4>3, <4>4 DEF Refs
      <3> QED  BY <3>1, <3>2, <3>3, <3>6
    <2> QED  BY <2>1, <2>2
  <1>8. CacheTypeOK' /\ NoCrash'
    BY <1>5, <1>7 DEF AwaitRefresh, CacheInv, CacheTypeOK, NoCrash, EntryOK
  <1>9. Waits'
    <2>1. \A c \in DbIds : entries[c].waiters \subseteq Threads /\ t \notin entries[c].waiters
      BY DEF CacheInv, CacheTypeOK, Entry, Waits
    <2>2. \A s \in Threads : pc'[s] = IF s = t THEN "wait" ELSE pc[s]
      BY DEF AwaitRefresh, CacheInv, CacheTypeOK
    <2>3. \A s \in Threads : s # t => db'[s] = db[s]
      BY DEF AwaitRefresh, CacheInv, CacheTypeOK
    <2>4. \A c \in DbIds : \A s \in entries'[c].waiters : entries'[c].refreshing /\ pc'[s] = "wait"
      BY <1>3, <1>4, <2>1, <2>2, SMTT(40) DEF CacheInv, Waits
    <2>5. \A b, c \in DbIds : \A s \in entries'[b].waiters : s \in entries'[c].waiters => b = c
      BY <1>3, <1>4, <2>1 DEF CacheInv, Waits
    <2>6. \A s \in Threads : pc'[s] = "wait" => \E c \in DbIds : s \in entries'[c].waiters
      BY <1>3, <1>4, <2>2 DEF CacheInv, Waits
    <2>7. \A s \in Threads : pc'[s] = "look" => db'[s] \in DbIds
      BY <2>2, <2>3 DEF CacheInv, Waits
    <2> QED  BY <2>4, <2>5, <2>6, <2>7 DEF Waits
  <1> QED  BY <1>7, <1>8, <1>9 DEF CacheInv

LEMMA LookupStep ==
    ASSUME CacheInv, NEW t \in Threads, Lookup(t)
    PROVE  CacheInv'
  BY AnswerStep, AwaitRefreshStep, LookupFailsStep DEF Lookup

LEMMA InterruptStep ==
    ASSUME CacheInv, NEW t \in Threads, Interrupt(t)
    PROVE  CacheInv'
  <1>1. \A d \in DbIds :
            /\ entries'[d] \in Entry
            /\ entries'[d].waiters = entries[d].waiters \ {t}
            /\ entries'[d].refreshing = entries[d].refreshing
            /\ entries'[d].present = entries[d].present
            /\ entries'[d].needsRefresh = entries[d].needsRefresh
            /\ entries'[d].routingInfo = entries[d].routingInfo
    BY DEF Interrupt, CacheInv, CacheTypeOK, Entry
  <1>2. /\ entries' \in [DbIds -> Entry]
        /\ \A d \in DbIds : EntryOK(entries'[d])
    BY <1>1 DEF Interrupt, CacheInv, CacheTypeOK, EntryOK
  <1>3. CacheTypeOK' /\ NoCrash'
    BY <1>2 DEF Interrupt, Return, Fault, CacheInv, CacheTypeOK, NoCrash, EntryOK, NoInfo
  <1>4. Refs'
    <2>1. UNCHANGED tasks /\ \A k \in TaskIds : tasks[k].db \in DbIds \cup {NoDb}
      BY DEF Interrupt, CacheInv, CacheTypeOK, Task, NoTask
    <2> QED  BY <1>1, <2>1 DEF CacheInv, Refs
  <1>5. Waits'
    <2>1. \A c \in DbIds : entries[c].waiters \subseteq Threads
      BY DEF CacheInv, CacheTypeOK, Entry
    <2>2. \A s \in Threads : /\ pc'[s] = IF s = t THEN "idle" ELSE pc[s]
                             /\ s # t => db'[s] = db[s]
      BY DEF Interrupt, Return, CacheInv, CacheTypeOK
    <2> QED  BY <1>1, <2>1, <2>2 DEF CacheInv, Waits
  <1> QED  BY <1>3, <1>4, <1>5 DEF CacheInv

\* A table that was read has a version.
Versions ==
    /\ config.version > 0
    /\ \A k \in TaskIds : tasks[k].result = "ok" => tasks[k].version > 0

\* The end of a refresh, and its references.
LEMMA CompleteStep ==
    ASSUME CacheInv, Versions, NEW k \in TaskIds, tasks[k].result \notin {"idle", "scheduled"},
           NEW ok \in BOOLEAN, ok <=> tasks[k].result \in {"ok", "notFound"}, Complete(k, ok),
           faults' \in Nat, UNCHANGED <<config, current, db, ccri, crashed>>
    PROVE  CacheInv'
  <1>1. PICK d \in DbIds : d = tasks[k].db /\ tasks[k] \in Task
    BY DEF CacheInv, CacheTypeOK, Task, NoTask
  <1>2. /\ entries \in [DbIds -> Entry] /\ entries[d] \in Entry /\ EntryOK(entries[d])
        /\ entries[d].refreshing
    <2>1. entries[d].refreshing
      BY <1>1, CacheAssumption DEF CacheInv, Refs
    <2> QED  BY <2>1 DEF CacheInv, CacheTypeOK, EntryOK
  <1>3. entries[d].present /\ entries[d].needsRefresh /\ entries[d].routingInfo \in Nat
    BY <1>2 DEF CacheInv, Refs, Entry, EntryOK
  <1>4. PICK e \in Entry :
            /\ entries' = [entries EXCEPT ![d] = e]
            /\ EntryOK(e) /\ ~e.refreshing /\ e.waiters = {}
    <2>1. CASE ~ok
      <3> DEFINE e == [present |-> TRUE, needsRefresh |-> entries[d].needsRefresh,
                       refreshing |-> FALSE, waiters |-> {},
                       routingInfo |-> entries[d].routingInfo]
      <3>1. entries' = [entries EXCEPT ![d] = e]
        BY <1>1, <2>1 DEF Complete, MakeEntry
      <3>2. e \in Entry /\ EntryOK(e) /\ ~e.refreshing /\ e.waiters = {}
        BY <1>2, <1>3 DEF Entry, EntryOK
      <3> HIDE DEF e
      <3> QED  BY <3>1, <3>2
    <2>2. CASE ok /\ tasks[k].result = "notFound"
      <3>1. entries' = [entries EXCEPT ![d] = NoEntry]
        BY <1>1, <2>2 DEF Complete
      <3>2. NoEntry \in Entry /\ EntryOK(NoEntry) /\ ~NoEntry.refreshing /\ NoEntry.waiters = {}
        BY FreshEntries DEF EntryOK
      <3> QED  BY <3>1, <3>2
    <2>3. CASE ok /\ tasks[k].result = "ok"
      <3> DEFINE v == tasks[k].version
                 e == [present |-> TRUE, needsRefresh |-> FALSE, refreshing |-> FALSE,
                       waiters |-> {}, routingInfo |-> v]
      <3>1. entries' = [entries EXCEPT ![d] = e]
        BY <1>1, <2>3 DEF Complete, MakeEntry
      <3>2. v \in Nat /\ v > 0
        BY <1>1, <2>3 DEF Versions, Task
      <3> HIDE DEF v
      <3>3. e \in Entry /\ EntryOK(e) /\ ~e.refreshing /\ e.waiters = {}
        BY <3>2 DEF Entry, EntryOK
      <3> HIDE DEF e
      <3> QED  BY <3>1, <3>3
    <2> QED  BY <2>1, <2>2, <2>3
  <1>5. \A c \in DbIds : entries'[c] = IF c = d THEN e ELSE entries[c]
    BY <1>2, <1>4
  <1>6. /\ entries' \in [DbIds -> Entry]
        /\ \A c \in DbIds : EntryOK(entries'[c])
    BY <1>2, <1>4, <1>5 DEF CacheInv, CacheTypeOK, EntryOK
  <1>7. /\ tasks' \in [TaskIds -> Task \cup {NoTask}]
        /\ \A j \in TaskIds : tasks'[j].db = IF j = k THEN NoDb ELSE tasks[j].db
    BY DEF Complete, CacheInv, CacheTypeOK, NoTask
  <1>8. /\ pc' \in [Threads -> {"idle", "get", "look", "wait"}]
        /\ \A t \in Threads : /\ t \in entries[d].waiters => pc'[t] \in {"get", "idle"}
                              /\ t \notin entries[d].waiters => pc'[t] = pc[t]
    BY <1>1 DEF Complete, Notify, CacheInv, CacheTypeOK
  <1>9. CacheTypeOK' /\ NoCrash'
    BY <1>6, <1>7, <1>8 DEF CacheInv, CacheTypeOK, NoCrash, EntryOK
  <1>10. Refs'
    <2>1. \A j \in TaskIds : tasks[j].db \in DbIds \cup {NoDb}
      BY DEF CacheInv, CacheTypeOK, Task, NoTask
    <2>2. \A j \in TaskIds : j # k => tasks[j].db # d
      BY <1>1, CacheAssumption DEF CacheInv, Refs
    <2>3. \A c \in DbIds : ~entries'[c].present => ~entries'[c].refreshing
      BY <1>4, <1>5, SMTT(40) DEF CacheInv, Refs
    <2>4. ASSUME NEW c \in DbIds, entries'[c].refreshing
          PROVE  \E j \in TaskIds : tasks'[j].db = c
      <3>1. c # d /\ entries[c].refreshing
        BY <1>4, <1>5, <2>4
      <3>2. PICK j \in TaskIds : tasks[j].db = c
        BY <3>1 DEF CacheInv, Refs
      <3> QED  BY <1>1, <1>7, <3>1, <3>2
    <2>5. \A j \in TaskIds : tasks'[j].db # NoDb => entries'[tasks'[j].db].refreshing
      BY <1>4, <1>5, <1>7, <2>1, <2>2, SMTT(40) DEF CacheInv, Refs
    <2>6. ASSUME NEW i \in TaskIds, NEW j \in TaskIds,
                 tasks'[j].db # NoDb, tasks'[i].db = tasks'[j].db
          PROVE  i = j
      <3>1. tasks[j].db # NoDb /\ tasks[i].db = tasks[j].db
        BY <1>7, <2>6
      <3> QED  BY <3>1 DEF CacheInv, Refs
    <2> QED  BY <2>3, <2>4, <2>5, <2>6 DEF Refs
  <1>11. Waits'
    <2>1. \A c \in DbIds : entries[c].waiters \subseteq Threads
      BY DEF CacheInv, CacheTypeOK, Entry
    <2>2. ASSUME NEW c \in DbIds, NEW s \in entries'[c].waiters
          PROVE  entries'[c].refreshing /\ pc'[s] = "wait"
      <3>1. c # d /\ entries'[c] = entries[c]
        BY <1>4, <1>5
      <3>2. entries[c].refreshing /\ pc[s] = "wait" /\ s \notin entries[d].waiters
        BY <3>1 DEF CacheInv, Waits
      <3>3. s \in Threads
        BY <2>1, <3>1
      <3> QED  BY <1>8, <3>1, <3>2, <3>3
    <2>3. \A b, c \in DbIds : \A s \in entries'[b].waiters : s \in entries'[c].waiters => b = c
      <3>1. \A c \in DbIds : entries'[c].waiters = IF c = d THEN {} ELSE entries[c].waiters
        BY <1>4, <1>5
      <3>2. \A b, c \in DbIds : \A s \in entries[b].waiters : s \in entries[c].waiters => b = c
        BY DEF CacheInv, Waits
      <3> QED  BY <3>1, <3>2
    <2>4. ASSUME NEW s \in Threads, pc'[s] = "wait"
          PROVE  \E c \in DbIds : s \in entries'[c].waiters
      <3>1. s \notin entries[d].waiters /\ pc[s] = "wait"
        BY <1>8, <2>4
      <3>2. PICK c \in DbIds : s \in entries[c].waiters
        BY <3>1 DEF CacheInv, Waits
      <3> QED  BY <1>5, <3>1, <3>2
    <2>5. \A s \in Threads : pc'[s] = "look" => db'[s] \in DbIds
      BY <1>8 DEF CacheInv, Waits
    <2> QED  BY <2>2, <2>3, <2>4, <2>5 DEF Waits
  <1> QED  BY <1>9, <1>10, <1>11 DEF CacheInv

\* A callback finds its entry and the notification in it.
LEMMA RefreshCallbackStep ==
    ASSUME CacheInv, Versions, NEW k \in TaskIds, RefreshCallback(k)
    PROVE  CacheInv'
  <1>1. PICK d \in DbIds : d = tasks[k].db /\ tasks[k] \in Task
    BY SMTT(40) DEF RefreshCallback, CacheInv, CacheTypeOK, Task, NoTask
  <1>2. entries[tasks[k].db].refreshing /\ entries[tasks[k].db].present
    BY <1>1, CacheAssumption DEF CacheInv, Refs
  <1>3. CASE /\ Retries(k)
             /\ tasks' = [tasks EXCEPT ![k] = Scheduled(tasks[k].db, tasks[k].attempt + 1)]
             /\ UNCHANGED <<config, current, entries, pc, db, ccri, faults, crashed>>
    <2>1. Scheduled(tasks[k].db, tasks[k].attempt + 1) \in Task
      BY <1>1, <1>3, CacheAssumption DEF Retries, Scheduled, Task
    <2>2. /\ tasks' \in [TaskIds -> Task \cup {NoTask}]
          /\ \A j \in TaskIds : tasks'[j].db = tasks[j].db
      BY <1>3, <2>1 DEF CacheInv, CacheTypeOK, Scheduled
    <2>3. CacheTypeOK' /\ NoCrash'
      BY <1>3, <2>2 DEF CacheInv, CacheTypeOK, NoCrash
    <2>4. Refs'
      BY <1>3, <2>2, SameTasks DEF CacheInv
    <2>5. Waits'
      BY <1>3 DEF CacheInv, Waits
    <2> QED  BY <2>3, <2>4, <2>5 DEF CacheInv
  <1>4. CASE /\ IF Retries(k) THEN Fault ELSE UNCHANGED faults
             /\ Complete(k, tasks[k].result \in {"ok", "notFound"})
             /\ UNCHANGED <<config, current, db, ccri, crashed>>
    <2>1. faults' \in Nat
      BY <1>4 DEF Fault, CacheInv, CacheTypeOK
    <2>2. tasks[k].result \notin {"idle", "scheduled"}
      BY DEF RefreshCallback
    <2> DEFINE ok == tasks[k].result \in {"ok", "notFound"}
    <2>3. ok \in BOOLEAN
      OBVIOUS
    <2> QED  BY <1>4, <2>1, <2>2, <2>3, CompleteStep
  <1> QED  BY <1>2, <1>3, <1>4 DEF RefreshCallback

LEMMA VersionsStep ==
    ASSUME CacheInv, Versions, Next
    PROVE  Versions'
  <1>1. tasks \in [TaskIds -> Task \cup {NoTask}]
    BY DEF CacheInv, CacheTypeOK
  <1>2. CASE UNCHANGED <<config, tasks>>
    BY <1>2 DEF Versions
  <1>3. CASE ChangeCatalog
    BY <1>3 DEF ChangeCatalog, Versions, CacheInv, CacheTypeOK
  <1>4. ASSUME NEW t \in Threads, Lookup(t), ~UNCHANGED tasks
        PROVE  Versions'
    <2>1. UNCHANGED config
      BY <1>4 DEF Lookup
    <2>2. Schedule(db[t])
      BY <1>4 DEF Lookup, AnswerFromEntry, AwaitRefresh, LookupFails, JoinOrSchedule
    <2> QED  BY <1>1, <2>1, <2>2 DEF Schedule, Scheduled, Versions
  <1>5. ASSUME NEW k \in TaskIds, LoaderRead(k)
        PROVE  Versions'
    <2>1. CASE tasks' = [tasks EXCEPT ![k] =
                          [db |-> tasks[k].db, attempt |-> tasks[k].attempt,
                           result |-> IF config.sharded THEN "ok" ELSE "notFound",
                           version |-> Found]]
      BY <1>1, <1>5, <2>1 DEF LoaderRead, Versions, Found
    <2>2. CASE \E r \in {"conflict", "error"} : tasks' = [tasks EXCEPT ![k].result = r]
      <3>1. PICK r \in {"conflict", "error"} : tasks' = [tasks EXCEPT ![k].result = r]
        BY <2>2
      <3>2. tasks[k] \in Task
        BY <1>1, <1>5 DEF LoaderRead, NoTask
      <3>3. /\ tasks'[k].result = r
            /\ \A j \in TaskIds : j # k => tasks'[j] = tasks[j]
        BY <1>1, <3>1, <3>2 DEF Task
      <3> QED  BY <1>5, <3>3 DEF LoaderRead, Versions
    <2> QED  BY <1>5, <2>1, <2>2 DEF LoaderRead
  <1>6. ASSUME NEW k \in TaskIds, RefreshCallback(k)
        PROVE  Versions'
    <2>1. CASE UNCHANGED tasks
      BY <1>6, <2>1 DEF RefreshCallback, Crash, Versions
    <2>2. CASE tasks' = [tasks EXCEPT ![k] = NoTask]
      BY <1>1, <1>6, <2>2 DEF RefreshCallback, Crash, NoTask, Versions
    <2>3. CASE tasks' = [tasks EXCEPT ![k] = Scheduled(tasks[k].db, tasks[k].attempt + 1)]
      BY <1>1, <1>6, <2>3 DEF RefreshCallback, Crash, Scheduled, Versions
    <2> QED  BY <1>6, <2>1, <2>2, <2>3 DEF RefreshCallback, Complete, Crash
  <1>7. ASSUME NEW t \in Threads,
               GetDatabase(t) \/ Interrupt(t) \/ GetWithRefresh(t) \/ OnStaleConfigError(t) \/ Finish(t)
        PROVE  UNCHANGED <<config, tasks>>
    BY <1>7 DEF GetDatabase, Interrupt, GetWithRefresh, OnStaleConfigError, Finish
  <1>8. PurgeDatabase => UNCHANGED <<config, tasks>>
    BY DEF PurgeDatabase
  <1>9. \A t \in Threads : Lookup(t) => UNCHANGED config
    BY DEF Lookup
  <1> QED
    BY <1>2, <1>3, <1>4, <1>5, <1>6, <1>7, <1>8, <1>9 DEF Next

LEMMA CacheInvStep ==
    ASSUME CacheInv, Versions, [Next]_vars
    PROVE  CacheInv' /\ Versions'
  <1>1. CASE UNCHANGED vars
    BY <1>1 DEF vars, CacheInv, CacheTypeOK, NoCrash, Refs, Waits, Versions
  <1>2. CASE Next
    BY <1>2, QuietStep, GetDatabaseStep, LookupStep, InterruptStep, GetWithRefreshStep,
       OnStaleConfigErrorStep, LoaderReadStep, RefreshCallbackStep, VersionsStep DEF Next
  <1> QED  BY <1>1, <1>2

\* The references between threads, entries and refreshes are consistent in every reachable
\* state of the catalog cache.
THEOREM CacheInvHolds == Spec => [](CacheInv /\ Versions)
  <1>1. Init => CacheInv /\ Versions
    BY InitInv DEF Init, Versions, NoTask
  <1>2. (CacheInv /\ Versions) /\ [Next]_vars => (CacheInv /\ Versions)'
    BY CacheInvStep
  <1> QED  BY <1>1, <1>2, PTL DEF Spec

\* The fields of a collection's entry keep to what their comments say of them.
THEOREM CacheTypeCorrect == Spec => []CacheTypeOK
  <1>1. CacheInv => CacheTypeOK
    BY DEF CacheInv
  <1> QED  BY <1>1, CacheInvHolds, PTL

\* No callback of a refresh fails the invariants of onRefreshFailed and refreshCallback or
\* sets a notification that is not there, whatever is invalidated or purged with its database.
THEOREM NoCrashAlways == Spec => []NoCrash
  <1>1. CacheInv => NoCrash
    BY DEF CacheInv
  <1> QED  BY <1>1, CacheInvHolds, PTL

\* Every thread that waits in getCollectionRoutingInfo waits on a notification that a refresh
\* in flight will set.
THEOREM NoLostWaiterAlways == Spec => []NoLostWaiter
  <1>1. CacheInv => NoLostWaiter
    <2> SUFFICES ASSUME CacheInv, NEW t \in Threads, pc[t] = "wait"
                 PROVE  \E d \in DbIds : t \in entries[d].waiters
                                         /\ \E k \in TaskIds : tasks[k].db = d
      BY DEF NoLostWaiter
    <2> QED  BY DEF CacheInv, Waits, Refs
  <1> QED  BY <1>1, CacheInvHolds, PTL
=============================================================================
