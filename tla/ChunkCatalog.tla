------------------------------ MODULE ChunkCatalog ------------------------------
(***************************************************************************)
(* The chunk catalog of one sharded collection, as the config server keeps *)
(* it: the documents of config.chunks and the config.collections entry.    *)
(*                                                                         *)
(* A chunk commit (split, merge, migration) is one action: each of them    *)
(* holds _kChunkOpLock in exclusive mode from the read of the newest       *)
(* version to the applyOps that writes the new documents atomically.  A    *)
(* request that a handler refuses changes nothing and is a stutter.        *)
(* Sharding the collection and dropping it write one document at a time.   *)
(*                                                                         *)
(* Shard keys are the naturals 0 .. MaxKey: 0 stands for the key pattern's *)
(* globalMin and MaxKey for its globalMax, so MaxKey bounds a chunk but is *)
(* never a chunk's minimum.                                                *)
(***************************************************************************)
EXTENDS Integers, Sequences

CONSTANTS
    Shards,          \* ids of the shards
    MaxKey,          \* the key space is 0 .. MaxKey
    UInt32Max,       \* largest value of either half of a ChunkVersion
    MajorBound,      \* bound: a chunk commit happens only below this major version
    EpochBound,      \* bound: how often the collection is sharded
    SplitPointBound  \* bound: number of split points of a request

ASSUME ConstantsAssumption ==
    /\ MaxKey \in Nat \ {0}
    /\ UInt32Max \in Nat \ {0}
    /\ MajorBound \in Nat
    /\ EpochBound \in Nat
    /\ SplitPointBound \in Nat

VARIABLES
    chunks,  \* the documents of config.chunks for this namespace
    coll     \* its config.collections entry and the phase of shardCollection / drop

vars == <<chunks, coll>>

Keys == 0 .. MaxKey

UInt32 == 0 .. UInt32Max

Chunk ==
    [min: Keys, max: Keys, shard: Shards, major: UInt32, minor: UInt32, epoch: Nat]

\* The document a commit or shardCollection writes.
ChunkDoc(min, max, shard, major, minor, epoch) ==
    [min |-> min, max |-> max, shard |-> shard,
     major |-> major, minor |-> minor, epoch |-> epoch]

CollStates == {"unsharded", "creating", "sharded", "dropping"}

\* Every document has bounds of the key space and a version both halves of which fit a
\* uint32_t, whatever the commits add to them; the entry is in a known phase.
TypeOK ==
    /\ chunks \subseteq Chunk
    /\ coll \in [state: CollStates, epoch: Nat]

-----------------------------------------------------------------------------
(* ChunkVersion and the queries on config.chunks *)

\* operator> on the combined major/minor word; the epoch takes no part in it.
Later(c, d) == c.major > d.major \/ (c.major = d.major /\ c.minor > d.minor)

SameVersion(c, d) == c.major = d.major /\ c.minor = d.minor /\ c.epoch = d.epoch

\* Mutant: the find has lost its sort.
NewestUnsorted(S) == S

\* The documents a find sorted by lastmod descending, limit 1, may return.
Newest(S) == {c \in S : \A d \in S : ~Later(d, c)}

OnShard(s) == {c \in chunks : c.shard = s}

\* Mutant: the migrated chunk keeps the major version.
IncMajorDropped(n) == n

\* A uint32_t incremented without a check wraps, as `majorVersion() + 1' does.
IncUInt32(n) == IF n = UInt32Max THEN 0 ELSE n + 1

\* Mutant: incMinor without its uassert.
IncMinorUnchecked(minor, n) == TRUE

\* The uassert of incMinor lets n increments pass.
CanIncMinor(minor, n) == minor + n <= UInt32Max

\* applyOps entries with upsert, each addressed by _id, which is made of the minimum.
Upsert(docs) == {c \in chunks : \A d \in docs : d.min # c.min} \cup docs

\* Mutant: repeated split points are let through, and so are keys out of order.
AnyOrder(b) == TRUE

\* The order checks on the bounds of a split or merge request.
StrictlyIncreasing(b) == \A i, j \in 1 .. Len(b) : i < j => b[i] < b[j]

-----------------------------------------------------------------------------
(* shardCollection *)

\* checkForExistingChunks, then the first insert of createFirstChunks: version (1, 0)
\* of a new epoch, on the primary shard.
CreateFirstChunk(primary, max) ==
    /\ coll.state = "unsharded"
    /\ chunks = {}
    /\ coll.epoch < EpochBound
    /\ chunks' = {ChunkDoc(0, max, primary, 1, 0, coll.epoch + 1)}
    /\ coll' = [state |-> "creating", epoch |-> coll.epoch + 1]

\* A later iteration of the loop: the next range, one minor version up, on a shard of
\* the round robin.
CreateNextChunk(shard, max) ==
    /\ coll.state = "creating"
    /\ \E last \in Newest(chunks) :
          /\ last.max < max
          /\ CanIncMinor(last.minor, 1)
          /\ chunks' = chunks \cup {ChunkDoc(last.max, max, shard, last.major,
                                             last.minor + 1, last.epoch)}
    /\ UNCHANGED coll

\* Mutant: the entry is written before the loop is done.
PublishEarly ==
    /\ coll.state = "creating"
    /\ coll' = [coll EXCEPT !.state = "sharded"]
    /\ UNCHANGED chunks

\* The loop has reached globalMax: the config.collections entry is written and the
\* epoch becomes known to routers and shards.
PublishCollection ==
    /\ coll.state = "creating"
    /\ \E last \in Newest(chunks) : last.max = MaxKey
    /\ coll' = [coll EXCEPT !.state = "sharded"]
    /\ UNCHANGED chunks

-----------------------------------------------------------------------------
(* dropCollection, once the shards have dropped their data *)

StartDrop ==
    /\ coll.state = "sharded"
    /\ coll' = [coll EXCEPT !.state = "dropping"]
    /\ UNCHANGED chunks

\* One document of the multi-delete; the drop may stop after any of them.
RemoveChunk(c) ==
    /\ coll.state = "dropping"
    /\ chunks' = chunks \ {c}
    /\ UNCHANGED coll

MarkDropped ==
    /\ coll.state = "dropping"
    /\ chunks = {}
    /\ coll' = [coll EXCEPT !.state = "unsharded"]
    /\ UNCHANGED chunks

-----------------------------------------------------------------------------
(* The chunk commits.  The distributed lock keeps them out of shardCollection.  A drop   *)
(* that failed half way leaves the lock free and the remaining chunks open to commits.   *)

\* commitChunkSplit: `points' comes from the requesting shard, in the order it was sent.
CommitChunkSplit(shard, epoch, min, max, points) ==
    LET bounds == <<min>> \o points \o <<max>>
        pieces == 1 .. Len(points) + 1
    IN  /\ coll.state \in {"sharded", "dropping"}
        /\ StrictlyIncreasing(bounds)
        /\ \E c \in chunks : /\ c.min = min
                             /\ c.max = max
                             /\ c.epoch = epoch
                             /\ c.shard = shard
        /\ \E cv \in Newest(chunks), sv \in Newest(OnShard(shard)) :
              LET bump  == SameVersion(sv, cv)
                  major == IF bump THEN cv.major + 1 ELSE cv.major
                  minor == IF bump THEN 0 ELSE cv.minor
              IN  /\ cv.epoch = epoch
                  /\ cv.major < MajorBound
                  /\ bump => cv.major # UInt32Max
                  /\ CanIncMinor(minor, Len(points) + 1)
                  /\ chunks' = Upsert({ChunkDoc(bounds[i], bounds[i + 1], shard,
                                                major, minor + i, epoch) : i \in pieces})
        /\ UNCHANGED coll

\* commitChunkMerge: every [bounds[i], bounds[i + 1]) is a chunk of the shard.
CommitChunkMerge(shard, epoch, bounds) ==
    LET last == Len(bounds)
    IN  /\ coll.state \in {"sharded", "dropping"}
        /\ last >= 3
        /\ StrictlyIncreasing(bounds)
        /\ \A i \in 1 .. last - 1 :
              \E c \in chunks : /\ c.min = bounds[i]
                                /\ c.max = bounds[i + 1]
                                /\ c.epoch = epoch
                                /\ c.shard = shard
        /\ \E cv \in Newest(chunks) :
              /\ cv.epoch = epoch
              /\ cv.major < MajorBound
              /\ CanIncMinor(cv.minor, 1)
              /\ chunks' = {c \in chunks : \A i \in 1 .. last - 1 : c.min # bounds[i]}
                           \cup {ChunkDoc(bounds[1], bounds[last], shard,
                                          cv.major, cv.minor + 1, epoch)}
        /\ UNCHANGED coll

\* Mutant: the donor never names a control chunk.
NoControlChunk(from, migrated) == {{}}

\* The control chunk a donor names in its commit request: another chunk it owns, none
\* when it gives its last chunk away.
ControlChunk(from, migrated) ==
    LET others == OnShard(from) \ {migrated}
    IN  IF others = {} THEN {{}} ELSE {{c} : c \in others}

CommitChunkMigration(from, to, epoch) ==
    /\ coll.state \in {"sharded", "dropping"}
    /\ \E migrated \in OnShard(from), cv \in Newest(chunks) :
         \E control \in ControlChunk(from, migrated) :
            LET major == IncUInt32(cv.major)
            IN  /\ cv.epoch = epoch
                /\ cv.major < MajorBound
                /\ chunks' = (chunks \ ({migrated} \cup control))
                      \cup {ChunkDoc(migrated.min, migrated.max, to, major, 0, cv.epoch)}
                      \cup {ChunkDoc(c.min, c.max, from, major, 1, cv.epoch) : c \in control}
    /\ UNCHANGED coll

-----------------------------------------------------------------------------

Init ==
    /\ chunks = {}
    /\ coll = [state |-> "unsharded", epoch |-> 0]

\* The requests: split point lists in any order, boundary lists of at least two chunks.  A
\* request of a range that is no chunk is refused, so ranges to split are drawn from chunks.
SplitPointLists == UNION {[1 .. n -> Keys] : n \in 1 .. SplitPointBound}
BoundaryLists == UNION {[1 .. n -> Keys] : n \in 3 .. SplitPointBound + 2}

Next ==
    \/ \E s \in Shards, max \in 1 .. MaxKey : CreateFirstChunk(s, max)
    \/ \E s \in Shards, max \in 1 .. MaxKey : CreateNextChunk(s, max)
    \/ PublishCollection
    \/ StartDrop
    \/ \E c \in chunks : RemoveChunk(c)
    \/ MarkDropped
    \/ \E c \in chunks, s \in Shards, e \in 1 .. EpochBound, p \in SplitPointLists :
          CommitChunkSplit(s, e, c.min, c.max, p)
    \/ \E s \in Shards, e \in 1 .. EpochBound, b \in BoundaryLists :
          CommitChunkMerge(s, e, b)
    \/ \E from \in Shards, e \in 1 .. EpochBound :
          \E to \in Shards \ {from} : CommitChunkMigration(from, to, e)

Spec == Init /\ [][Next]_vars

-----------------------------------------------------------------------------
(* Properties *)

Disjoint(c, d) == c.max <= d.min \/ d.max <= c.min

\* No two documents of config.chunks ever claim the same key, in any phase: not while
\* createFirstChunks inserts, not half way through a drop, and not after any split, merge
\* or migration commit, however stale the request was.
NoOverlap == \A c, d \in chunks : c = d \/ Disjoint(c, d)

\* While the collection is sharded its chunks tile the key space: one starts at globalMin,
\* and each ends at globalMax or where another starts.  A router refuses the table
\* otherwise (the gap checks of ChunkManager::_constructChunkMapViews).
NoGaps ==
    coll.state = "sharded" =>
        /\ \E c \in chunks : c.min = 0
        /\ \A c \in chunks : c.max = MaxKey \/ \E d \in chunks : d.min = c.max

\* The versions the commit handlers generate under _kChunkOpLock are never reused, so a
\* version names one chunk and applyChunkOpsDeprecated may look for it to find out whether
\* a write whose reply was lost went through.
VersionsUnique == \A c, d \in chunks : SameVersion(c, d) => c = d

\* Every document a commit writes carries a version above all the versions of the catalog
\* before it.  The diff query of the routing table refresh (lastmod >= the cached version,
\* ascending) finds every change only because of this.
CommitsAreNewer ==
    coll.state \in {"sharded", "dropping"} =>
        \A c \in chunks' \ chunks : \A d \in chunks : Later(c, d)

CommitsAlwaysNewer == [][CommitsAreNewer]_vars

\* When the owner of a key changes, the new owner, and the old owner unless it is left
\* without chunks, end up with a major version above every earlier one: a router that
\* still has the old table fails the shard version check at both.
OwnershipChangeBumpsMajor ==
    \A c \in chunks, d \in chunks' :
        ~Disjoint(c, d) /\ c.shard # d.shard /\ coll.state = "sharded" =>
            /\ \A b \in chunks : d.major > b.major
            /\ \/ \A e \in chunks' : e.shard # c.shard
               \/ \E e \in chunks' : e.shard = c.shard /\ \A b \in chunks : e.major > b.major

OwnershipChangeAlwaysBumpsMajor == [][OwnershipChangeBumpsMajor]_vars
=============================================================================
