---------------------------- MODULE MetadataManager ----------------------------
(***************************************************************************)
(* What one shard knows of the chunks of one collection, and the deletion  *)
(* of the documents it no longer owns.                                     *)
(*                                                                         *)
(* MetadataManager keeps a list of ownership snapshots.  Its last element  *)
(* is the active one; the others stay for the queries that started under   *)
(* them.  Ranges to delete wait on a snapshot until its queries end, then  *)
(* in the queues of CollectionRangeDeleter, which a background task        *)
(* empties.  The module also holds the callers: queries, refreshes, the    *)
(* donor after its commit, the recipient of a chunk, cleanupOrphaned.      *)
(*                                                                         *)
(* Keys are 1 .. MaxKey - 1; a range is [min, max).  A key has at most one *)
(* document on the shard, and clients delete none, so that whatever is     *)
(* missing was removed by the range deleter.                               *)
(***************************************************************************)
EXTENDS Integers, Sequences, FiniteSets, SequencesExt

CONSTANTS
    MaxKey,         \* the exclusive upper bound of the keys
    Ranges,         \* the chunk ranges that migrate, as [min |-> , max |-> ]
    Queries,        \* clients that run queries
    Shares,         \* what the shard may own when the collection is sharded
    VersionBound,   \* collection versions per incarnation
    EpochBound,     \* incarnations of the collection
    DeletionBound,  \* range deletions that are pending at a time
    CallBound,      \* migrations to this shard, drops and calls of cleanupOrphaned
    FaultBound      \* failed donor refreshes and refreshes late by an incarnation

VARIABLES
    config,   \* the config server's record of this shard's chunks
    mgr,      \* the MetadataManager object
    docs,     \* keys with a document on this shard
    query,    \* the snapshot each client's query runs under
    fetched,  \* a refresh that has read the config server and not yet installed
    recv,     \* the recipient's migration thread
    offers,   \* ranges fully received whose donor has not yet decided
    donor,    \* the donor's thread after its commit on the config server
    janitor,  \* the cleanupOrphaned command
    calls,    \* calls so far
    faults,   \* faults so far
    alive     \* FALSE once an invariant of the code has failed

vars == <<config, mgr, docs, query, fetched, recv, offers, donor, janitor, calls, faults, alive>>

Keys == 1 .. MaxKey - 1
KeysOf(r) == r.min .. r.max - 1
Overlap(r, s) == r.min < s.max /\ s.min < r.max

(* A CollectionMetadata has an epoch and a version and owns some keys;     *)
(* epoch 0 stands for boost::none.                                         *)
NoMetadata == [epoch |-> 0, version |-> 0, owned |-> {}]

(* A Deletion: its range, whether it is deferred, and its notification,    *)
(* which is pending as long as the deletion is in a queue.                 *)
Deletion(r, delayed, note) == [range |-> r, delayed |-> delayed, note |-> note]

Tracker(md) == [metadata |-> md, orphans |-> <<>>, users |-> {}]

NoTask == [epoch |-> 0, range |-> [min |-> 0, max |-> 0], note |-> 0, wrote |-> "ok"]
NoRecv == [pc |-> "idle", range |-> [min |-> 0, max |-> 0], epoch |-> 0, cloned |-> {}]
NoDonor == [pc |-> "idle", range |-> [min |-> 0, max |-> 0]]

(***************************************************************************)
(* The MetadataManager object: the list of trackers, the ranges being      *)
(* received, the two queues of the range deleter, the scheduled clean-up   *)
(* tasks per epoch, the task that is waiting for majority replication, and *)
(* the notification that the recipient's thread waits on.                  *)
(***************************************************************************)
EmptyManager ==
    [metadata |-> <<>>, receiving |-> {}, orphans |-> <<>>, delayedOrphans |-> <<>>,
     tasks |-> [e \in 1 .. EpochBound |-> 0], task |-> NoTask,
     watch |-> [note |-> 0, status |-> "pending"]]

Active(m) == IF m.metadata = <<>> THEN NoMetadata ELSE Last(m.metadata).metadata

Notify(m, notes, status) ==
    IF m.watch.note \in notes THEN [m EXCEPT !.watch.status = status] ELSE m

Schedule(m, e, by) == [m EXCEPT !.tasks[e] = @ + by]

(* CollectionRangeDeleter::add and the scheduling of _pushListToClean: a   *)
(* task is scheduled unless one is taken to be under way already.          *)
PushListToClean(m, list) ==
    LET now       == SelectSeq(list, LAMBDA d : ~d.delayed)
        later     == SelectSeq(list, LAMBDA d : d.delayed)
        schedule  == /\ m.orphans = <<>>
                     /\ \/ now # <<>>
                        \/ m.delayedOrphans = <<>> /\ later # <<>>
        queued    == [m EXCEPT !.orphans = @ \o now, !.delayedOrphans = @ \o later]
    IN  IF schedule THEN Schedule(queued, Active(m).epoch, 1) ELSE queued

(* _retireExpiredMetadata: unused trackers leave the list from the front   *)
(* only; an unused one in the middle drops its chunks but keeps its place. *)
\* Mutant: every tracker but the last used one leaves.
LastUnused(m) ==
    LET size == Len(m.metadata)
    IN  CHOOSE i \in 1 .. size : /\ i = size \/ m.metadata[i].users # {}
                                 /\ \A j \in i + 1 .. size - 1 : m.metadata[j].users = {}
FirstInUse(m) ==
    LET size == Len(m.metadata)
    IN  CHOOSE i \in 1 .. size : /\ i = size \/ m.metadata[i].users # {}
                                 /\ \A j \in 1 .. i - 1 : m.metadata[j].users = {}
Blanked(list, i) == i < Len(list) /\ list[i].users = {}
RetireExpiredMetadata(m) ==
    IF m.metadata = <<>> THEN m
    ELSE LET size  == Len(m.metadata)
             first == FirstInUse(m)
             freed == FoldLeft(LAMBDA acc, t : PushListToClean(acc, t.orphans), m,
                               SubSeq(m.metadata, 1, first - 1))
             rest  == SubSeq(m.metadata, first, size)
         IN  [freed EXCEPT !.metadata = [i \in DOMAIN rest |->
                IF Blanked(rest, i) THEN [rest[i] EXCEPT !.metadata = NoMetadata] ELSE rest[i]]]

SetActiveMetadata(m, md) == RetireExpiredMetadata([m EXCEPT !.metadata = Append(@, Tracker(md))])

NotesOf(list) == {list[i].note : i \in DOMAIN list}

(* The notifications of the deletions in all queues: those still pending. *)
PendingNotes(m) ==
    UNION ({NotesOf(m.orphans), NotesOf(m.delayedOrphans)}
           \cup {NotesOf(m.metadata[i].orphans) : i \in DOMAIN m.metadata})

(* _clearAllCleanups: every pending deletion is abandoned. *)
ClearAllCleanups(m) ==
    [Notify(m, PendingNotes(m), "failed") EXCEPT
        !.orphans = <<>>, !.delayedOrphans = <<>>,
        !.metadata = [i \in DOMAIN @ |-> [@[i] EXCEPT !.orphans = <<>>]]]

(* The ranges being received that a newer version does not yet own. *)
\* Mutant: a refresh forgets the ranges being received.
ForgetReceiving(receiving, remote) == {}
StillReceiving(receiving, remote) == {r \in receiving : KeysOf(r) \cap remote.owned = {}}

(* refreshActiveMetadata, with NoMetadata for a null argument. *)
RefreshActiveMetadata(m, remote) ==
    LET active == Active(m) IN
    CASE m.metadata = <<>> /\ remote = NoMetadata -> m
      [] m.metadata # <<>> /\ remote = NoMetadata ->
            [ClearAllCleanups(m) EXCEPT !.receiving = {}, !.metadata = <<>>]
      [] m.metadata = <<>> /\ remote # NoMetadata -> SetActiveMetadata(m, remote)
      [] OTHER ->
            IF active.epoch # remote.epoch
            THEN ClearAllCleanups(SetActiveMetadata([m EXCEPT !.receiving = {}], remote))
            ELSE IF active.version >= remote.version THEN m
            ELSE SetActiveMetadata([m EXCEPT !.receiving = StillReceiving(@, remote)], remote)

(* _findNewestOverlappingMetadata: the index of the newest tracker that a  *)
(* query on the range might use, 0 if there is none.                       *)
FindNewestOverlappingMetadata(m, r) ==
    LET size == Len(m.metadata)
        hits == {i \in 1 .. size : /\ KeysOf(r) \cap m.metadata[i].metadata.owned # {}
                                   /\ i = size \/ m.metadata[i].users # {}}
    IN  IF hits = {} THEN 0 ELSE CHOOSE i \in hits : \A j \in hits : j <= i

OverlapsInUseChunk(m, r) == FindNewestOverlappingMetadata(m, r) # 0

(* A notification nobody refers to, for a new Deletion. *)
FreeNotes(m) == (1 .. DeletionBound) \ (PendingNotes(m) \cup {m.task.note, m.watch.note})
NextNote(m) == CHOOSE n \in FreeNotes(m) : \A k \in FreeNotes(m) : n <= k

PushRangeToClean(m, r, delayed) == PushListToClean(m, <<Deletion(r, delayed, NextNote(m))>>)

(* beginReceive, when the range is not in use.  receiving is indexed by    *)
(* the lower bound, and emplace keeps an entry that is already there.      *)
BeginReceive(m, r) ==
    PushRangeToClean([m EXCEPT !.receiving =
        IF \E s \in @ : s.min = r.min THEN @ ELSE @ \cup {r}], r, FALSE)

(* forgetReceive, after its two invariants. *)
ForgetReceiveOK(m, r) == ~OverlapsInUseChunk(m, r) /\ \E s \in m.receiving : s.min = r.min
ForgetReceive(m, r) ==
    PushRangeToClean([m EXCEPT !.receiving = {s \in @ : s.min # r.min}], r, FALSE)

(* cleanUpRange: refused on a range that is owned or being received,       *)
(* queued when no query can depend on it, else left with the newest        *)
(* snapshot that does.                                                     *)
CleanUpRange(m, r, delayed) ==
    LET i == FindNewestOverlappingMetadata(m, r) IN
    IF i = Len(m.metadata) \/ \E s \in m.receiving : Overlap(r, s) THEN m
    ELSE IF i = 0 THEN PushRangeToClean(m, r, delayed)
    ELSE [m EXCEPT !.metadata[i].orphans =
            Append(@, Deletion(r, delayed, NextNote(m)))]

(* trackOrphanedDataCleanup: the notification of the newest deletion that  *)
(* overlaps the range, looked for in the snapshots, then in the queues; 0  *)
(* when there is none.                                                     *)
TrackOrphanedDataCleanup(m, r) ==
    LET all  == m.delayedOrphans \o m.orphans
                \o FlattenSeq([i \in DOMAIN m.metadata |-> m.metadata[i].orphans])
        hits == {i \in DOMAIN all : Overlap(all[i].range, r)}
    IN  IF hits = {} THEN 0 ELSE all[CHOOSE i \in hits : \A j \in hits : j <= i].note

(* getNextOrphanRange: from the first key at or after the given one that   *)
(* neither a chunk nor a range being received covers, as far as their      *)
(* bounds allow on both sides.                                             *)
Covered(m) == Active(m).owned \cup UNION {KeysOf(r) : r \in m.receiving}
NextOrphanRanges(m) ==
    {r \in [min : Keys, max : 2 .. MaxKey] :
        /\ r.min < r.max
        /\ KeysOf(r) \cap Covered(m) = {}
        /\ r.min = 1 \/ r.min - 1 \in Covered(m)
        /\ r.max = MaxKey \/ r.max \in Covered(m)}

--------------------------------------------------------------------------------
Init ==
    /\ config \in [epoch : {1}, version : {1}, owned : Shares]
    /\ mgr = EmptyManager
    /\ docs = config.owned
    /\ query = [q \in Queries |-> NoMetadata]
    /\ fetched = NoMetadata
    /\ recv = NoRecv
    /\ offers = {}
    /\ donor = NoDonor
    /\ janitor = "idle"
    /\ calls = 0
    /\ faults = 0
    /\ alive = TRUE

(* An invariant of the code failed: the process is gone. *)
Crash == alive' = FALSE /\ UNCHANGED <<config, mgr, docs, query, fetched, recv, offers,
                                       donor, janitor, calls, faults>>

CanDelete(m) == FreeNotes(m) # {}
CanChange == config.version < VersionBound

(***************************************************************************)
(* Queries: getActiveMetadata and the destructor of                        *)
(* ScopedCollectionMetadata.                                               *)
(***************************************************************************)
StartQuery(q) ==
    /\ query[q] = NoMetadata /\ mgr.metadata # <<>>
    /\ query' = [query EXCEPT ![q] = Active(mgr)]
    /\ mgr' = [mgr EXCEPT !.metadata[Len(mgr.metadata)].users = @ \cup {q}]
    /\ UNCHANGED <<config, docs, fetched, recv, offers, donor, janitor, calls, faults, alive>>

EndQuery(q) ==
    /\ query[q] # NoMetadata
    /\ query' = [query EXCEPT ![q] = NoMetadata]
    /\ mgr' = RetireExpiredMetadata(
                [mgr EXCEPT !.metadata = [i \in DOMAIN @ |-> [@[i] EXCEPT !.users = @ \ {q}]]])
    /\ UNCHANGED <<config, docs, fetched, recv, offers, donor, janitor, calls, faults, alive>>

(***************************************************************************)
(* ShardingState::_refreshMetadata: the routing table is read first and    *)
(* installed later under the collection lock, so it may arrive late.       *)
(***************************************************************************)
Fetch ==
    /\ fetched = NoMetadata
    /\ fetched' = config
    /\ UNCHANGED <<config, mgr, docs, query, recv, offers, donor, janitor, calls, faults, alive>>

Install ==
    /\ fetched # NoMetadata
    /\ faults' = IF fetched.epoch = config.epoch THEN faults ELSE faults + 1
    /\ faults' <= FaultBound
    /\ mgr' = RefreshActiveMetadata(mgr, fetched)
    /\ fetched' = NoMetadata
    /\ UNCHANGED <<config, docs, query, recv, offers, donor, janitor, calls, alive>>

(* The collection is dropped and sharded again.  dropCollection removes    *)
(* its documents and makes every shard forget its chunks; it holds the     *)
(* collection's distributed lock, as every donor does.                     *)
\* Mutant: dropCollection takes no distributed lock.
NoLockTaken == TRUE
DistLockFree == donor.pc = "idle"
DropAndRecreate(owned) ==
    /\ config.epoch < EpochBound /\ DistLockFree
    /\ calls < CallBound /\ calls' = calls + 1
    /\ config' = [epoch |-> config.epoch + 1, version |-> 1, owned |-> owned]
    /\ docs' = owned
    /\ mgr' = RefreshActiveMetadata(mgr, NoMetadata)
    /\ offers' = {}
    /\ UNCHANGED <<query, fetched, recv, donor, janitor, faults, alive>>

(***************************************************************************)
(* CollectionRangeDeleter::cleanUpNextRange, run by a scheduled task that  *)
(* carries the epoch it was scheduled for.  One task runs at a time.       *)
(***************************************************************************)
TaskWakes(e) == mgr.tasks[e] > 0 /\ mgr.task = NoTask

(* The task finds the collection forgotten, dropped and sharded again, or  *)
(* without deletions, and is not scheduled again.                          *)
TaskStops(e) ==
    /\ TaskWakes(e)
    /\ \/ Active(mgr).epoch # e
       \/ mgr.orphans = <<>> /\ mgr.delayedOrphans = <<>>
    /\ mgr' = LET m == Schedule(mgr, e, -1)
              IN  IF m.metadata = <<>> THEN ClearAllCleanups(m) ELSE m
    /\ UNCHANGED <<config, docs, query, fetched, recv, offers, donor, janitor, calls, faults, alive>>

(* The queue the task works on: with no immediate deletion left, the first *)
(* deferred one whose time has come is moved over.                         *)
Ready(e) ==
    /\ TaskWakes(e)
    /\ Active(mgr).epoch = e
    /\ mgr.orphans # <<>> \/ mgr.delayedOrphans # <<>>
WithFront(m) ==
    IF m.orphans # <<>> THEN m
    ELSE [m EXCEPT !.orphans = <<Head(m.delayedOrphans)>>, !.delayedOrphans = Tail(@)]

(* The record for the secondaries cannot be written: all is abandoned. *)
OpLogWriteFails(e) ==
    /\ Ready(e) /\ mgr.orphans = <<>>
    /\ mgr' = ClearAllCleanups(Schedule(mgr, e, -1))
    /\ UNCHANGED <<config, docs, query, fetched, recv, offers, donor, janitor, calls, faults, alive>>

(* A batch (of one document) is deleted, and the task scheduled again. *)
DeleteBatch(e) ==
    /\ Ready(e)
    /\ LET m == WithFront(mgr) IN
        /\ \E k \in KeysOf(Head(m.orphans).range) \cap docs : docs' = docs \ {k}
        /\ mgr' = m
    /\ UNCHANGED <<config, query, fetched, recv, offers, donor, janitor, calls, faults, alive>>

(* Nothing is left, or the shard key index is gone: the task waits for     *)
(* majority replication without holding a lock.                            *)
EndOfRange(e) ==
    /\ Ready(e)
    /\ LET m == WithFront(mgr)
           d == Head(m.orphans)
       IN  \E wrote \in {"ok", "failed"} :
            /\ wrote = "ok" => KeysOf(d.range) \cap docs = {}
            /\ mgr' = [Schedule(m, e, -1) EXCEPT !.task =
                        [epoch |-> e, range |-> d.range, note |-> d.note, wrote |-> wrote]]
    /\ UNCHANGED <<config, docs, query, fetched, recv, offers, donor, janitor, calls, faults, alive>>

(* The task is scheduled again for the next range. *)
\* Mutant: deferred deletions are not looked at.
ContinuesIfQueued(m, e) == IF m.orphans = <<>> THEN m ELSE Schedule(m, e, 1)
TaskContinues(m, e) == Schedule(m, e, 1)

(* CollectionRangeDeleter::_pop *)
Pop(m, status) ==
    [Notify(m, {Head(m.orphans).note}, status) EXCEPT !.orphans = Tail(@)]

(* Replication was awaited, with or without success.  A failure leaves the *)
(* queue alone if the range has been notified meanwhile; a success pops    *)
(* whatever is at its front.                                               *)
FinishRange(replicated) ==
    /\ mgr.task # NoTask
    /\ LET task    == mgr.task
           m       == [mgr EXCEPT !.task = NoTask]
           pending == task.note \in PendingNotes(mgr)
           front   == IF m.orphans = <<>> THEN 0 ELSE Head(m.orphans).note
           stopped == Active(m).epoch # task.epoch
           next(n) == TaskContinues(n, task.epoch)
       IN  IF ~stopped /\ (IF replicated THEN front = 0 ELSE pending /\ front # task.note)
           THEN Crash
           ELSE /\ mgr' = IF stopped THEN IF m.metadata = <<>> THEN ClearAllCleanups(m) ELSE m
                          ELSE IF replicated THEN next(Pop(m, task.wrote))
                          ELSE IF pending THEN next(Pop(m, "failed"))
                          ELSE next(m)
                /\ UNCHANGED <<config, docs, query, fetched, recv, offers, donor, janitor, calls, faults, alive>>

DeleterStep ==
    \/ \E e \in 1 .. EpochBound :
        TaskStops(e) \/ OpLogWriteFails(e) \/ DeleteBatch(e) \/ EndOfRange(e)
    \/ \E replicated \in BOOLEAN : FinishRange(replicated)

(***************************************************************************)
(* The recipient: _recvChunkStart, then the migration thread of            *)
(* MigrationDestinationManager as far as it touches the metadata.          *)
(***************************************************************************)
RecvStart(r) ==
    /\ recv.pc = "idle" /\ donor.pc = "idle"
    /\ KeysOf(r) \cap config.owned = {} /\ \A s \in offers : ~Overlap(r, s)
    /\ CanChange /\ calls < CallBound /\ calls' = calls + 1
    /\ mgr' = RefreshActiveMetadata(mgr, config)
    /\ recv' = [NoRecv EXCEPT !.pc = "note", !.range = r, !.epoch = config.epoch]
    /\ UNCHANGED <<config, docs, query, fetched, offers, donor, janitor, faults, alive>>

(* DeleteNotification::waitStatus by the recipient's thread *)
Watch(m, note) == [m EXCEPT !.watch = [note |-> note, status |-> "pending"]]

(* _notePending *)
NotePending ==
    /\ recv.pc = "note" /\ CanDelete(mgr)
    /\ IF Active(mgr).epoch # recv.epoch \/ OverlapsInUseChunk(mgr, recv.range)
       THEN recv' = NoRecv /\ UNCHANGED mgr
       ELSE /\ mgr' = Watch(BeginReceive(mgr, recv.range), NextNote(mgr))
            /\ recv' = [recv EXCEPT !.pc = "wait"]
    /\ UNCHANGED <<config, docs, query, fetched, offers, donor, janitor, calls, faults, alive>>

(* The awaited deletion is notified.  Before cloning starts the chunk is   *)
(* not "marked pending", so a failure forgets nothing.                     *)
RecvWaited ==
    /\ recv.pc = "wait"
    /\ mgr.watch.status # "pending"
    /\ recv' = IF mgr.watch.status = "ok" THEN [recv EXCEPT !.pc = "clean"] ELSE NoRecv
    /\ mgr' = Watch(mgr, 0)
    /\ UNCHANGED <<config, docs, query, fetched, offers, donor, janitor, calls, faults, alive>>

(* CollectionShardingState::waitForClean *)
\* Mutant: earlier deletions of the range are not awaited.
CloneAtOnce ==
    /\ recv.pc = "clean"
    /\ recv' = IF Active(mgr).epoch # recv.epoch THEN NoRecv ELSE [recv EXCEPT !.pc = "clone"]
    /\ UNCHANGED <<config, mgr, docs, query, fetched, offers, donor, janitor, calls, faults, alive>>
WaitForClean ==
    /\ recv.pc = "clean"
    /\ LET n == TrackOrphanedDataCleanup(mgr, recv.range) IN
       recv' = IF Active(mgr).epoch # recv.epoch THEN NoRecv
               ELSE [recv EXCEPT !.pc = IF n # 0 THEN "wait" ELSE "clone"]
    /\ mgr' = IF recv'.pc = "wait"
              THEN Watch(mgr, TrackOrphanedDataCleanup(mgr, recv.range)) ELSE mgr
    /\ UNCHANGED <<config, docs, query, fetched, offers, donor, janitor, calls, faults, alive>>

Clone ==
    /\ recv.pc = "clone" /\ recv.epoch = config.epoch
    /\ \E k \in KeysOf(recv.range) \ recv.cloned :
        /\ recv' = [recv EXCEPT !.cloned = @ \cup {k}]
        /\ docs' = docs \cup {k}
    /\ UNCHANGED <<config, mgr, query, fetched, offers, donor, janitor, calls, faults, alive>>

(* The thread ends in DONE; the donor decides whether the chunk moves. *)
RecvDone ==
    /\ recv.pc = "clone" /\ recv.epoch = config.epoch
    /\ recv.cloned = KeysOf(recv.range)
    /\ offers' = offers \cup {recv.range}
    /\ recv' = NoRecv
    /\ UNCHANGED <<config, mgr, docs, query, fetched, donor, janitor, calls, faults, alive>>

(* The thread fails or is aborted: _forgetPending. *)
RecvFails ==
    /\ recv.pc = "clone" /\ CanDelete(mgr)
    /\ IF Active(mgr).epoch = recv.epoch /\ ~ForgetReceiveOK(mgr, recv.range)
       THEN Crash
       ELSE /\ mgr' = IF Active(mgr).epoch # recv.epoch THEN mgr ELSE ForgetReceive(mgr, recv.range)
            /\ recv' = NoRecv
            /\ UNCHANGED <<config, docs, query, fetched, offers, donor, janitor, calls, faults, alive>>

(* The donor of a received range commits on the config server, or not. *)
OfferDecided(r) ==
    /\ r \in offers
    /\ offers' = offers \ {r}
    /\ \/ CanChange /\ config' = [config EXCEPT !.version = @ + 1, !.owned = @ \cup KeysOf(r)]
       \/ UNCHANGED config
    /\ UNCHANGED <<mgr, docs, query, fetched, recv, donor, janitor, calls, faults, alive>>

(***************************************************************************)
(* The donor, from its commit on the config server.  The registry keeps a  *)
(* shard from donating and receiving at the same time.                     *)
(***************************************************************************)
DonateCommit(r) ==
    /\ recv.pc = "idle" /\ donor.pc = "idle" /\ CanChange
    /\ Active(mgr) = config /\ KeysOf(r) \subseteq config.owned
    /\ config' = [config EXCEPT !.version = @ + 1, !.owned = @ \ KeysOf(r)]
    /\ donor' = [pc |-> "refresh", range |-> r]
    /\ UNCHANGED <<mgr, docs, query, fetched, recv, offers, janitor, calls, faults, alive>>

(* The refresh after the commit; when it fails the metadata is discarded   *)
(* and the range is not scheduled for deletion.                            *)
DonorRefresh ==
    /\ donor.pc = "refresh"
    /\ \/ /\ mgr' = RefreshActiveMetadata(mgr, config)
          /\ donor' = [donor EXCEPT !.pc = "cleanup"]
          /\ UNCHANGED faults
       \/ /\ faults < FaultBound /\ faults' = faults + 1
          /\ mgr' = RefreshActiveMetadata(mgr, NoMetadata)
          /\ donor' = NoDonor
    /\ UNCHANGED <<config, docs, query, fetched, recv, offers, janitor, calls, alive>>

DonorCleanUp(delayed) ==
    /\ donor.pc = "cleanup" /\ CanDelete(mgr)
    /\ IF mgr.metadata = <<>> THEN Crash
       ELSE /\ mgr' = CleanUpRange(mgr, donor.range, delayed)
            /\ donor' = NoDonor
            /\ UNCHANGED <<config, docs, query, fetched, recv, offers, janitor, calls, faults, alive>>

(* cleanupOrphaned: a refresh, then the clean-up of one orphaned range. *)
JanitorRefresh ==
    /\ janitor = "idle" /\ calls < CallBound
    /\ mgr' = RefreshActiveMetadata(mgr, config)
    /\ janitor' = "refreshed" /\ calls' = calls + 1
    /\ UNCHANGED <<config, docs, query, fetched, recv, offers, donor, faults, alive>>

JanitorCleanUp ==
    /\ janitor = "refreshed"
    /\ \/ /\ mgr.metadata = <<>> \/ NextOrphanRanges(mgr) = {}
          /\ UNCHANGED mgr
       \/ /\ mgr.metadata # <<>> /\ CanDelete(mgr)
          /\ \E r \in NextOrphanRanges(mgr) : mgr' = CleanUpRange(mgr, r, FALSE)
    /\ janitor' = "idle"
    /\ UNCHANGED <<config, docs, query, fetched, recv, offers, donor, calls, faults, alive>>

--------------------------------------------------------------------------------
QueryStep == \E q \in Queries : StartQuery(q) \/ EndQuery(q)
RecvStep == NotePending \/ RecvWaited \/ WaitForClean \/ Clone \/ RecvDone \/ RecvFails
DonorStep == DonorRefresh \/ \E delayed \in BOOLEAN : DonorCleanUp(delayed)

Next ==
    /\ alive
    /\ \/ QueryStep \/ Fetch \/ Install
       \/ \E owned \in Shares : DropAndRecreate(owned)
       \/ DeleterStep
       \/ \E r \in Ranges : RecvStart(r) \/ OfferDecided(r) \/ DonateCommit(r)
       \/ RecvStep \/ DonorStep
       \/ JanitorRefresh \/ JanitorCleanUp

Spec == Init /\ [][Next]_vars

--------------------------------------------------------------------------------
(* A query sees every document of the chunks it started with: a range that *)
(* leaves the shard is deleted only when no query of an older snapshot is  *)
(* left, also when snapshots end out of order and when the range comes     *)
(* back.  Not so once the metadata was discarded under the query.          *)
SnapshotsKeepDocuments ==
    faults = 0 => \A q \in Queries :
        query[q].epoch = config.epoch => query[q].owned \subseteq docs

(* No document of a chunk that the config server assigns to the shard is   *)
(* deleted, nor one of a chunk it has received that may still be           *)
(* committed, whatever deletions of the same range were queued earlier.    *)
OwnedDocumentsExist ==
    faults = 0 => /\ config.owned \subseteq docs
                  /\ \A r \in offers : KeysOf(r) \subseteq docs

(* Cloning starts in an empty range and loses nothing to the range         *)
(* deleter: the documents in the range are those cloned so far.            *)
CloneIntoCleanRange ==
    (faults = 0 /\ recv.pc = "clone" /\ recv.epoch = config.epoch)
        => docs \cap KeysOf(recv.range) = recv.cloned

(* The invariants of forgetReceive, cleanUpRange and cleanUpNextRange      *)
(* hold, and no element is popped from an empty queue.                     *)
NoInvariantFails == faults = 0 => alive

(* No wake-up is lost: while ranges are queued for deletion, a clean-up    *)
(* task of the current incarnation is scheduled or at work, although       *)
(* _pushListToClean schedules none when the queue is not empty.            *)
QueuedDeletionsHaveTask ==
    (mgr.orphans # <<>> \/ mgr.delayedOrphans # <<>>)
        => \/ mgr.tasks[Active(mgr).epoch] > 0
           \/ mgr.task.epoch = Active(mgr).epoch

================================================================================
