--------------------------- MODULE ChunkCatalogProofs ---------------------------
(***************************************************************************)
(* Proofs about the chunk catalog, for any set of shards, any key space    *)
(* and any bounds.  The properties that compare versions assume that no    *)
(* commit starts at the largest major version (NoWrap): there the migrated *)
(* chunk's version wraps to zero.                                          *)
(***************************************************************************)
EXTENDS ChunkCatalog, WellFoundedInduction, TLAPS

NoWrap == MajorBound <= UInt32Max

\* Chunks are not empty ranges and belong to the current incarnation.
WellFormed == \A c \in chunks : c.min < c.max /\ c.epoch = coll.epoch

\* While createFirstChunks runs, versions order the chunks as keys do, and only the newest
\* chunk may still lack a successor.
CreationOrder ==
    coll.state = "creating" =>
        /\ \E c \in chunks : c.min = 0
        /\ \A c, d \in chunks : c = d \/ Later(c, d) \/ Later(d, c)
        /\ \A c, d \in chunks : Later(d, c) => c.max <= d.min
        /\ \A c \in chunks : \/ c \in Newest(chunks)
                             \/ \E d \in chunks : d.min = c.max

IndInv ==
    /\ TypeOK
    /\ WellFormed
    /\ NoOverlap
    /\ NoGaps
    /\ CreationOrder
    /\ coll.state = "unsharded" => chunks = {}

-----------------------------------------------------------------------------

\* A non-empty set of naturals has a least element.
LEMMA LeastNat ==
    ASSUME NEW T \in SUBSET Nat, T # {}
    PROVE  \E x \in T : \A y \in T : x <= y
<1>1. IsWellFoundedOn(OpToRel(<, Nat), Nat)
  BY NatLessThanWellFounded
<1>2. \E x \in T : \A y \in T : ~(<<y, x>> \in OpToRel(<, Nat))
  BY <1>1, WFMin
<1>3. \A x, y \in Nat : <<y, x>> \in OpToRel(<, Nat) <=> y < x
  BY DEF OpToRel
<1>4. PICK x \in T : \A y \in T : ~(<<y, x>> \in OpToRel(<, Nat))
  BY <1>2
<1>5. \A y \in T : ~(y < x)
  BY <1>3, <1>4, Zenon
<1>6. \A y \in T : x <= y
  BY <1>5
<1> QED  BY <1>6

\* The fields of a chunk document, and its type.
LEMMA DocFields ==
    ASSUME NEW min, NEW max, NEW shard, NEW major, NEW minor, NEW epoch
    PROVE  LET d == ChunkDoc(min, max, shard, major, minor, epoch)
           IN  /\ d.min = min /\ d.max = max /\ d.shard = shard
               /\ d.major = major /\ d.minor = minor /\ d.epoch = epoch
               /\ min \in Keys /\ max \in Keys /\ shard \in Shards /\ major \in UInt32
                  /\ minor \in UInt32 /\ epoch \in Nat => d \in Chunk
  BY DEF ChunkDoc, Chunk

\* In a strictly increasing list of keys, a key between the first and the last element
\* falls between two neighbours.
LEMMA Between ==
    ASSUME NEW n \in Nat, n >= 2, NEW b \in [1 .. n -> Nat], NEW k \in Nat,
           \A i, j \in 1 .. n : i < j => b[i] < b[j],
           b[1] <= k, k < b[n]
    PROVE  \E i \in 1 .. n - 1 : b[i] <= k /\ k < b[i + 1]
<1> DEFINE T == {i \in 1 .. n : k < b[i]}
<1>1. T \in SUBSET Nat /\ n \in T
  OBVIOUS
<1>2. PICK x \in T : \A y \in T : x <= y
  BY <1>1, LeastNat
<1>3. x \in 1 .. n /\ x # 1 /\ x - 1 \notin T
  BY <1>2
<1>4. x - 1 \in 1 .. n - 1 /\ b[x - 1] <= k /\ k < b[(x - 1) + 1]
  BY <1>2, <1>3
<1> QED  BY <1>4

-----------------------------------------------------------------------------
(* What the commits do *)

\* The chunk c0 was replaced by n > 1 consecutive pieces of it, bounded by b, with
\* increasing versions above every earlier one.
SplitDid(s, e, c0, n, major, minor, b) ==
    /\ n > 1
    /\ \A i, j \in 1 .. n + 1 : i < j => b[i] < b[j]
    /\ b[1] = c0.min /\ b[n + 1] = c0.max
    /\ c0.shard = s /\ c0.epoch = e
    /\ minor + n <= UInt32Max
    /\ \A d \in chunks, i \in 1 .. n :
          Later(ChunkDoc(b[i], b[i + 1], s, major, minor + i, e), d)
    /\ chunks' = Upsert({ChunkDoc(b[i], b[i + 1], s, major, minor + i, e) : i \in 1 .. n})
    /\ coll' = coll /\ coll.state \in {"sharded", "dropping"}

\* A split commit replaced a chunk of the requesting shard by pieces of it.
LEMMA SplitEffect ==
    ASSUME IndInv, NEW s \in Shards, NEW e \in Nat, NEW c0 \in chunks,
           NEW p \in SplitPointLists, CommitChunkSplit(s, e, c0.min, c0.max, p)
    PROVE  \E n \in Nat, major, minor \in UInt32 : \E b \in [1 .. n + 1 -> Keys] :
              SplitDid(s, e, c0, n, major, minor, b)
<1> DEFINE n == Len(p) + 1
           b == <<c0.min>> \o p \o <<c0.max>>
<1>1. PICK m \in 1 .. SplitPointBound : p \in [1 .. m -> Keys]
  BY DEF SplitPointLists
<1>2. p \in Seq(Keys) /\ Len(p) = m /\ m \in Nat
  BY <1>1, ConstantsAssumption
<1>3. c0.min \in Keys /\ c0.max \in Keys /\ chunks \subseteq Chunk
  BY DEF IndInv, TypeOK, Chunk
<1>4. /\ n \in Nat /\ n > 1 /\ Len(b) = n + 1 /\ b \in Seq(Keys)
      /\ b[1] = c0.min /\ b[n + 1] = c0.max
  <2> DEFINE q == <<c0.min>> \o p
  <2>1. <<c0.min>> \in Seq(Keys) /\ <<c0.max>> \in Seq(Keys)
    BY <1>3
  <2>2. q \in Seq(Keys) /\ Len(q) = m + 1 /\ q[1] = c0.min
    BY <1>2, <2>1
  <2> HIDE DEF q
  <2>3. LET r == q \o <<c0.max>>
        IN  r \in Seq(Keys) /\ Len(r) = m + 2 /\ r[1] = c0.min /\ r[m + 2] = c0.max
    BY <1>2, <2>1, <2>2
  <2> QED  BY <1>1, <1>2, <2>3 DEF q
<1>5. b \in [1 .. n + 1 -> Keys]
  <2> HIDE DEF b, n
  <2> QED  BY <1>4
<1>6. \A i, j \in 1 .. n + 1 : i < j => b[i] < b[j]
  BY <1>4 DEF CommitChunkSplit, StrictlyIncreasing
<1>7. c0.shard = s /\ c0.epoch = e
  <2>1. PICK c \in chunks : c.min = c0.min /\ c.max = c0.max /\ c.epoch = e /\ c.shard = s
    BY DEF CommitChunkSplit
  <2>2. c = c0
    <3>1. c0.min < c0.max /\ c0.min \in Nat /\ c0.max \in Nat
      BY <1>3 DEF IndInv, WellFormed, Keys
    <3> QED  BY <2>1, <3>1 DEF IndInv, NoOverlap, Disjoint
  <2> QED  BY <2>1, <2>2
<1>8. PICK cv \in Newest(chunks), sv \in Newest(OnShard(s)) :
        LET bump  == SameVersion(sv, cv)
            major == IF bump THEN cv.major + 1 ELSE cv.major
            minor == IF bump THEN 0 ELSE cv.minor
        IN  /\ bump => cv.major # UInt32Max
            /\ CanIncMinor(minor, n)
            /\ chunks' = Upsert({ChunkDoc(b[i], b[i + 1], s, major, minor + i, e) : i \in 1 .. n})
  BY DEF CommitChunkSplit
<1> DEFINE bump  == SameVersion(sv, cv)
           major == IF bump THEN cv.major + 1 ELSE cv.major
           minor == IF bump THEN 0 ELSE cv.minor
<1>9. /\ cv.major \in UInt32 /\ cv.minor \in UInt32
      /\ \A d \in chunks : d.major \in UInt32 /\ d.minor \in UInt32 /\ ~Later(d, cv)
  BY <1>3 DEF Newest, Chunk
<1>10. major \in UInt32 /\ minor \in UInt32 /\ minor + n <= UInt32Max
  BY <1>8, <1>9, ConstantsAssumption DEF UInt32, CanIncMinor
<1>11. \A d \in chunks, i \in 1 .. n :
          Later(ChunkDoc(b[i], b[i + 1], s, major, minor + i, e), d)
  <2> HIDE DEF b, n
  <2> SUFFICES ASSUME NEW d \in chunks, NEW i \in 1 .. n
               PROVE  major > d.major \/ (major = d.major /\ minor + i > d.minor)
    BY DEF Later, ChunkDoc
  <2> QED  BY <1>4, <1>9, ConstantsAssumption DEF Later, UInt32
<1> QED
  <2> HIDE DEF b, n, major, minor
  <2>1. coll' = coll /\ coll.state \in {"sharded", "dropping"}
    BY DEF CommitChunkSplit
  <2>2. chunks' = Upsert({ChunkDoc(b[i], b[i + 1], s, major, minor + i, e) : i \in 1 .. n})
    BY <1>8 DEF major, minor
  <2>3. SplitDid(s, e, c0, n, major, minor, b)
    BY <1>4, <1>6, <1>7, <1>10, <1>11, <2>1, <2>2 DEF SplitDid
  <2> QED  BY <1>4, <1>5, <1>10, <2>3

\* A split leaves a chunk alone exactly when it is not the one split, and the kept chunks
\* share no key with the pieces.
LEMMA SplitKeeps ==
    ASSUME IndInv, NEW n \in Nat, n > 1, NEW b \in [1 .. n + 1 -> Keys], NEW c0 \in chunks,
           \A i, j \in 1 .. n + 1 : i < j => b[i] < b[j],
           b[1] = c0.min, b[n + 1] = c0.max,
           NEW c \in chunks
    PROVE  /\ c # c0 <=> \A i \in 1 .. n : b[i] # c.min
           /\ c # c0 => \A i \in 1 .. n : c.max <= b[i] \/ b[i + 1] <= c.min
<1>1. /\ \A i \in 1 .. n + 1 : b[i] \in Nat /\ c0.min <= b[i] /\ b[i] <= c0.max
      /\ \A i \in 1 .. n : b[i] < c0.max
  <2>1. \A i \in 1 .. n + 1 : b[i] \in Nat
    BY DEF Keys
  <2>2. \A i \in 1 .. n + 1 : i = 1 \/ b[1] < b[i]
    BY <2>1
  <2>3. \A i \in 1 .. n + 1 : i = n + 1 \/ b[i] < b[n + 1]
    BY <2>1
  <2> QED  BY <2>1, <2>2, <2>3
<1>2. c.min \in Nat /\ c.max \in Nat /\ c.min < c.max /\ c0.min \in Nat /\ c0.max \in Nat
  BY DEF IndInv, TypeOK, WellFormed, Chunk, Keys
<1>3. c # c0 => c.max <= c0.min \/ c0.max <= c.min
  BY DEF IndInv, NoOverlap, Disjoint
<1>4. c # c0 => \A i \in 1 .. n : b[i] # c.min
  BY <1>1, <1>2, <1>3
<1>5. c = c0 => b[1] = c.min
  OBVIOUS
<1>6. ASSUME c # c0, NEW i \in 1 .. n
      PROVE  c.max <= b[i] \/ b[i + 1] <= c.min
  <2>1. i + 1 \in 1 .. n + 1 /\ i \in 1 .. n + 1
    OBVIOUS
  <2> QED  BY <1>1, <1>2, <1>3, <1>6, <2>1
<1> QED  BY <1>4, <1>5, <1>6

\* A split commit preserves the invariant.
LEMMA SplitStep ==
    ASSUME IndInv, NEW s \in Shards, NEW e \in Nat, NEW c0 \in chunks,
           NEW p \in SplitPointLists, CommitChunkSplit(s, e, c0.min, c0.max, p)
    PROVE  IndInv'
<1>1. PICK n \in Nat, major, minor \in UInt32 : \E b \in [1 .. n + 1 -> Keys] :
              SplitDid(s, e, c0, n, major, minor, b)
  BY SplitEffect
<1>2. PICK b \in [1 .. n + 1 -> Keys] :
              SplitDid(s, e, c0, n, major, minor, b)
  BY <1>1
<1> USE <1>2 DEF SplitDid, ChunkDoc
<1> DEFINE piece(i) == ChunkDoc(b[i], b[i + 1], s, major, minor + i, e)
           pieces == {piece(i) : i \in 1 .. n}
<1>3. \A c \in chunks : /\ c # c0 <=> \A i \in 1 .. n : b[i] # c.min
                        /\ c # c0 => \A i \in 1 .. n : c.max <= b[i] \/ b[i + 1] <= c.min
  BY <1>2, SplitKeeps
<1>4. \A d : d \in chunks' <=> (d \in chunks /\ d # c0) \/ \E i \in 1 .. n : d = piece(i)
  <2>1. \A d \in pieces : \E i \in 1 .. n : d = piece(i)
    OBVIOUS
  <2>2. \A i \in 1 .. n : piece(i).min = b[i] /\ piece(i) \in pieces
    OBVIOUS
  <2>3. chunks' = {c \in chunks : \A d \in pieces : d.min # c.min} \cup pieces
    BY <1>2 DEF Upsert
  <2> HIDE DEF pieces, piece
  <2>4. \A c \in chunks : (\A d \in pieces : d.min # c.min) <=> c # c0
    BY <2>1, <2>2, <1>3
  <2> QED  BY <2>1, <2>2, <2>3, <2>4
<1>5. \A i \in 1 .. n : /\ b[i] \in Keys /\ b[i + 1] \in Keys /\ b[i] < b[i + 1]
                        /\ minor + i \in UInt32
                        /\ piece(i) \in Chunk
  <2> SUFFICES ASSUME NEW i \in 1 .. n
               PROVE  /\ b[i] \in Keys /\ b[i + 1] \in Keys /\ b[i] < b[i + 1]
                      /\ minor + i \in UInt32
                      /\ piece(i) \in Chunk
    OBVIOUS
  <2>1. i \in 1 .. n + 1 /\ i + 1 \in 1 .. n + 1 /\ i < i + 1
    OBVIOUS
  <2>2. b[i] \in Keys /\ b[i + 1] \in Keys /\ b[i] < b[i + 1]
    BY <1>2, <2>1
  <2>3. minor + i \in UInt32
    BY <1>2, ConstantsAssumption DEF UInt32
  <2> QED  BY <2>2, <2>3 DEF Chunk
<1>6. TypeOK'
  BY <1>2, <1>4, <1>5 DEF IndInv, TypeOK
<1>7. WellFormed'
  BY <1>2, <1>4, <1>5 DEF IndInv, WellFormed
<1>8. NoOverlap'
  <2> SUFFICES ASSUME NEW c \in chunks', NEW d \in chunks', c # d
               PROVE  c.max <= d.min \/ d.max <= c.min
    BY DEF NoOverlap, Disjoint
  <2>1. CASE c \in chunks /\ d \in chunks
    BY <2>1 DEF IndInv, NoOverlap, Disjoint
  <2>2. CASE d \in chunks /\ d # c0 /\ \E i \in 1 .. n : c = piece(i)
    BY <2>2, <1>3
  <2>3. CASE c \in chunks /\ c # c0 /\ \E i \in 1 .. n : d = piece(i)
    BY <2>3, <1>3
  <2>4. ASSUME NEW i \in 1 .. n, NEW j \in 1 .. n, i < j
        PROVE  b[i + 1] <= b[j]
    <3>1. i + 1 \in 1 .. n + 1 /\ j \in 1 .. n + 1 /\ (i + 1 = j \/ i + 1 < j)
      BY <2>4
    <3>2. b[j] \in Nat /\ b[i + 1] \in Nat
      BY <3>1 DEF Keys
    <3> QED  BY <1>2, <3>1, <3>2
  <2>5. ASSUME NEW i \in 1 .. n, NEW j \in 1 .. n, c = piece(i), d = piece(j)
        PROVE  c.max <= d.min \/ d.max <= c.min
    <3>1. i < j \/ j < i
      BY <2>5
    <3> QED  BY <2>4, <2>5, <3>1
  <2> QED  BY <1>4, <2>1, <2>2, <2>3, <2>5
<1>9. NoGaps'
  <2> SUFFICES ASSUME coll.state = "sharded"
               PROVE  /\ \E c \in chunks' : c.min = 0
                      /\ \A c \in chunks' : c.max = MaxKey \/ \E d \in chunks' : d.min = c.max
    BY <1>2 DEF NoGaps
  <2>1. \A k : (\E c \in chunks : c.min = k) => \E c \in chunks' : c.min = k
    <3> SUFFICES ASSUME NEW c \in chunks
                 PROVE  \E d \in chunks' : d.min = c.min
      OBVIOUS
    <3>1. piece(1) \in chunks' /\ piece(1).min = c0.min
      BY <1>2, <1>4
    <3> QED  BY <1>4, <3>1
  <2>2. \A c \in chunks : c.max = MaxKey \/ \E d \in chunks : d.min = c.max
    BY DEF IndInv, NoGaps
  <2>3. ASSUME NEW i \in 1 .. n
        PROVE  b[i + 1] = MaxKey \/ \E d \in chunks' : d.min = b[i + 1]
    <3>1. CASE i = n
      BY <3>1, <1>2, <2>1, <2>2
    <3>2. CASE i # n
      <4>1. i + 1 \in 1 .. n
        BY <3>2
      <4>2. piece(i + 1) \in chunks' /\ piece(i + 1).min = b[i + 1]
        BY <4>1, <1>4
      <4> QED  BY <4>2
    <3> QED  BY <3>1, <3>2
  <2>4. \E c \in chunks : c.min = 0
    BY DEF IndInv, NoGaps
  <2>5. \A i \in 1 .. n : piece(i).max = b[i + 1]
    OBVIOUS
  <2> HIDE DEF piece, SplitDid
  <2>6. ASSUME NEW c \in chunks'
        PROVE  c.max = MaxKey \/ \E d \in chunks' : d.min = c.max
    <3>1. CASE c \in chunks
      BY <3>1, <2>1, <2>2
    <3>2. CASE \E i \in 1 .. n : c = piece(i)
      BY <3>2, <2>3, <2>5
    <3> QED  BY <1>4, <3>1, <3>2
  <2> QED  BY <2>1, <2>4, <2>6
<1>10. CreationOrder' /\ (coll.state = "unsharded" => chunks = {})'
  BY <1>2 DEF CreationOrder
<1> QED  BY <1>6, <1>7, <1>8, <1>9, <1>10 DEF IndInv

\* The merge of consecutive chunks, bounded by b, into one with version (major, minor).
MergeDid(s, e, n, b, major, minor) ==
    /\ n > 1
    /\ \A i, j \in 1 .. n + 1 : i < j => b[i] < b[j]
    /\ \A i \in 1 .. n : \E c \in chunks : /\ c.min = b[i] /\ c.max = b[i + 1]
                                          /\ c.epoch = e /\ c.shard = s
    /\ \A d \in chunks : \/ major > d.major
                         \/ major = d.major /\ minor > d.minor
    /\ chunks' = {c \in chunks : \A i \in 1 .. n : c.min # b[i]}
                 \cup {ChunkDoc(b[1], b[n + 1], s, major, minor, e)}
    /\ coll' = coll /\ coll.state \in {"sharded", "dropping"}

\* A merge commit replaced at least two consecutive chunks of the shard by one.
LEMMA MergeEffect ==
    ASSUME IndInv, NEW s \in Shards, NEW e \in Nat, NEW bs \in BoundaryLists,
           CommitChunkMerge(s, e, bs)
    PROVE  \E n \in Nat, major, minor \in UInt32 : \E b \in [1 .. n + 1 -> Keys] :
              MergeDid(s, e, n, b, major, minor)
<1>1. PICK m \in 3 .. SplitPointBound + 2 : bs \in [1 .. m -> Keys]
  BY DEF BoundaryLists
<1>2. m \in Nat /\ m >= 3 /\ Len(bs) = m /\ m - 1 \in Nat /\ bs \in [1 .. (m - 1) + 1 -> Keys]
  BY <1>1, ConstantsAssumption
<1>3. PICK cv \in Newest(chunks) :
        /\ CanIncMinor(cv.minor, 1)
        /\ chunks' = {c \in chunks : \A i \in 1 .. m - 1 : c.min # bs[i]}
                     \cup {ChunkDoc(bs[1], bs[m], s, cv.major, cv.minor + 1, e)}
  BY <1>2 DEF CommitChunkMerge
<1>4. /\ cv.major \in UInt32 /\ cv.minor \in UInt32
      /\ \A d \in chunks : d.major \in UInt32 /\ d.minor \in UInt32 /\ ~Later(d, cv)
  BY DEF Newest, IndInv, TypeOK, Chunk
<1>5. /\ cv.minor + 1 \in UInt32
      /\ \A d \in chunks : \/ cv.major > d.major
                           \/ cv.major = d.major /\ cv.minor + 1 > d.minor
  BY <1>3, <1>4, ConstantsAssumption DEF UInt32, CanIncMinor, Later
<1>6. /\ \A i, j \in 1 .. m : i < j => bs[i] < bs[j]
      /\ \A i \in 1 .. m - 1 : \E c \in chunks : /\ c.min = bs[i] /\ c.max = bs[i + 1]
                                                /\ c.epoch = e /\ c.shard = s
      /\ coll' = coll /\ coll.state \in {"sharded", "dropping"}
  BY <1>2 DEF CommitChunkMerge, StrictlyIncreasing
<1>7. m = (m - 1) + 1 /\ m - 1 > 1
  BY <1>2
<1>8. MergeDid(s, e, m - 1, bs, cv.major, cv.minor + 1)
  BY <1>3, <1>5, <1>6, <1>7 DEF MergeDid
<1> QED  BY <1>2, <1>4, <1>5, <1>8

\* A chunk that starts at none of the merged chunks shares no key with any of them; one
\* that does is one of them.
LEMMA MergeKeeps ==
    ASSUME IndInv, NEW s \in Shards, NEW e \in Nat, NEW n \in Nat,
           NEW major \in UInt32, NEW minor \in UInt32,
           NEW b \in [1 .. n + 1 -> Keys], MergeDid(s, e, n, b, major, minor),
           NEW c \in chunks
    PROVE  IF \A i \in 1 .. n : c.min # b[i]
           THEN c.max <= b[1] \/ b[n + 1] <= c.min
           ELSE c.shard = s /\ \E i \in 1 .. n : c.min = b[i] /\ c.max = b[i + 1]
<1> USE DEF MergeDid
<1>1. c.min \in Nat /\ c.max \in Nat /\ c.min < c.max
  BY DEF IndInv, TypeOK, WellFormed, Chunk, Keys
<1>2. /\ b \in [1 .. n + 1 -> Nat] /\ n + 1 \in Nat /\ n + 1 >= 2
      /\ \A i \in 1 .. n : i \in 1 .. n + 1 /\ i + 1 \in 1 .. n + 1 /\ b[i] < b[i + 1]
  BY DEF Keys
<1>3. ASSUME NEW i \in 1 .. n
      PROVE  \/ c.max <= b[i] \/ b[i + 1] <= c.min
             \/ c.shard = s /\ c.min = b[i] /\ c.max = b[i + 1]
  <2>1. PICK d \in chunks : d.min = b[i] /\ d.max = b[i + 1] /\ d.shard = s
    OBVIOUS
  <2>2. c = d \/ c.max <= d.min \/ d.max <= c.min
    BY DEF IndInv, NoOverlap, Disjoint
  <2> QED  BY <2>1, <2>2
<1>4. CASE \E i \in 1 .. n : c.min = b[i]
  <2>1. PICK i \in 1 .. n : c.min = b[i]
    BY <1>4
  <2>2. b[i] \in Nat /\ b[i + 1] \in Nat /\ b[i] < b[i + 1]
    BY <1>2
  <2>3. c.shard = s /\ c.min = b[i] /\ c.max = b[i + 1]
    <3> HIDE DEF MergeDid
    <3> QED  BY <1>1, <1>3, <2>1, <2>2
  <2> QED  BY <2>1, <2>3
<1>5. CASE \A i \in 1 .. n : c.min # b[i]
  <2> SUFFICES ASSUME ~(c.max <= b[1] \/ b[n + 1] <= c.min)
               PROVE  FALSE
    BY <1>5
  <2>1. b[1] \in Nat /\ b[n + 1] \in Nat /\ 1 \in 1 .. n
    BY <1>2
  <2>2. CASE c.min < b[1]
    BY <1>1, <1>2, <1>3, <1>5, <2>1, <2>2
  <2>3. CASE b[1] <= c.min
    <3>1. PICK i \in 1 .. (n + 1) - 1 : b[i] <= c.min /\ c.min < b[i + 1]
      <4>1. c.min < b[n + 1]
        BY <1>1, <2>1
      <4> HIDE DEF MergeDid
      <4>2. \A i, j \in 1 .. n + 1 : i < j => b[i] < b[j]
        BY DEF MergeDid
      <4> QED  BY <1>1, <1>2, <2>3, <4>1, <4>2, Between
    <3>2. i \in 1 .. n /\ b[i] \in Nat /\ b[i + 1] \in Nat
      BY <3>1, <1>2
    <3> QED  BY <1>1, <1>3, <1>5, <3>1, <3>2
  <2> QED  BY <1>1, <2>1, <2>2, <2>3
<1> QED  BY <1>4, <1>5

\* The chunk a merge commit writes overlaps only chunks of its own shard.
LEMMA MergeMovesNothing ==
    ASSUME IndInv, NEW s \in Shards, NEW e \in Nat, NEW bs \in BoundaryLists,
           CommitChunkMerge(s, e, bs), NEW c \in chunks, NEW d \in chunks', d \notin chunks
    PROVE  Disjoint(c, d) \/ c.shard = d.shard
<1>1. PICK n \in Nat, major, minor \in UInt32 : \E b \in [1 .. n + 1 -> Keys] :
              MergeDid(s, e, n, b, major, minor)
  BY MergeEffect
<1>2. PICK b \in [1 .. n + 1 -> Keys] : MergeDid(s, e, n, b, major, minor)
  BY <1>1
<1>3. d = ChunkDoc(b[1], b[n + 1], s, major, minor, e)
  BY <1>2 DEF MergeDid
<1>4. d.min = b[1] /\ d.max = b[n + 1] /\ d.shard = s
  BY <1>3 DEF ChunkDoc
<1>5. \A x \in chunks : IF \A i \in 1 .. n : x.min # b[i]
                        THEN x.max <= b[1] \/ b[n + 1] <= x.min
                        ELSE x.shard = s
  BY <1>2, MergeKeeps
<1> QED  BY <1>4, <1>5 DEF Disjoint

\* A merge commit preserves the invariant.
LEMMA MergeStep ==
    ASSUME IndInv, NEW s \in Shards, NEW e \in Nat, NEW bs \in BoundaryLists,
           CommitChunkMerge(s, e, bs)
    PROVE  IndInv'
<1> USE DEF ChunkDoc
<1>1. PICK n \in Nat, major, minor \in UInt32 : \E b \in [1 .. n + 1 -> Keys] :
              MergeDid(s, e, n, b, major, minor)
  BY MergeEffect
<1>2. PICK b \in [1 .. n + 1 -> Keys] : MergeDid(s, e, n, b, major, minor)
  BY <1>1
<1> DEFINE merged == ChunkDoc(b[1], b[n + 1], s, major, minor, e)
           kept(c) == \A i \in 1 .. n : c.min # b[i]
<1>3. /\ coll' = coll /\ coll.state \in {"sharded", "dropping"} /\ n > 1
      /\ \A d : d \in chunks' <=> (d \in chunks /\ kept(d)) \/ d = merged
  BY <1>2 DEF MergeDid
<1>4. \A c \in chunks : IF kept(c) THEN c.max <= b[1] \/ b[n + 1] <= c.min
                       ELSE \E i \in 1 .. n : c.min = b[i] /\ c.max = b[i + 1]
  BY <1>2, MergeKeeps
<1>5. /\ b[1] \in Keys /\ b[n + 1] \in Keys /\ b[1] < b[n + 1] /\ e = coll.epoch
      /\ \A i \in 1 .. n : b[i] \in Nat /\ b[1] <= b[i]
  <2>1. 1 \in 1 .. n /\ 1 \in 1 .. n + 1 /\ n + 1 \in 1 .. n + 1 /\ 1 < n + 1
    BY <1>3
  <2>2. b[1] < b[n + 1] /\ \A i \in 1 .. n : i = 1 \/ b[1] < b[i]
    BY <1>2, <2>1 DEF MergeDid
  <2>3. \A i \in 1 .. n + 1 : b[i] \in Nat
    BY DEF Keys
  <2>4. \A i \in 1 .. n : b[i] \in Nat /\ b[1] <= b[i]
    BY <2>2, <2>3
  <2>5. PICK c \in chunks : c.epoch = e
    BY <1>2, <2>1 DEF MergeDid
  <2>6. e = coll.epoch
    BY <2>5 DEF IndInv, WellFormed
  <2> QED  BY <2>1, <2>2, <2>4, <2>6
<1>6. merged \in Chunk
  BY <1>5 DEF Chunk
<1>7. TypeOK'
  BY <1>3, <1>6 DEF IndInv, TypeOK
<1>8. WellFormed'
  BY <1>3, <1>5 DEF IndInv, WellFormed
<1>9. NoOverlap'
  BY <1>3, <1>4 DEF IndInv, NoOverlap, Disjoint
<1>10. NoGaps'
  <2> SUFFICES ASSUME coll.state = "sharded"
               PROVE  /\ \E c \in chunks' : c.min = 0
                      /\ \A c \in chunks' : c.max = MaxKey \/ \E d \in chunks' : d.min = c.max
    BY <1>3 DEF NoGaps
  <2>1. /\ \E c \in chunks : c.min = 0
        /\ \A c \in chunks : c.max = MaxKey \/ \E d \in chunks : d.min = c.max
    BY DEF IndInv, NoGaps
  <2>2. merged \in chunks' /\ merged.min = b[1] /\ merged.max = b[n + 1]
    BY <1>3
  <2>3. \E c \in chunks' : c.min = 0
    <3>1. PICK c \in chunks : c.min = 0
      BY <2>1
    <3>2. CASE kept(c)
      BY <3>1, <3>2, <1>3
    <3>3. CASE ~kept(c)
      BY <3>1, <3>3, <1>5, <2>2
    <3> QED  BY <3>2, <3>3
  <2>4. ASSUME NEW c \in chunks, c.max <= b[1] \/ b[n + 1] <= c.max
        PROVE  c.max = MaxKey \/ \E d \in chunks' : d.min = c.max
    <3> SUFFICES ASSUME NEW d \in chunks, d.min = c.max
                 PROVE  \E dd \in chunks' : dd.min = c.max
      BY <2>1
    <3>1. CASE kept(d)
      BY <3>1, <1>3
    <3>2. CASE ~kept(d)
      <4>1. PICK i \in 1 .. n : d.min = b[i]
        BY <3>2
      <4>2. b[i] < b[n + 1] /\ b[i] \in Nat /\ b[n + 1] \in Nat /\ b[1] \in Nat /\ b[1] <= b[i]
        <5>1. i \in 1 .. n + 1 /\ n + 1 \in 1 .. n + 1 /\ i < n + 1
          OBVIOUS
        <5> QED  BY <5>1, <1>2, <1>5 DEF MergeDid, Keys
      <4>3. d.min = b[1]
        BY <2>4, <4>1, <4>2
      <4> QED  BY <4>3, <2>2
    <3> QED  BY <3>1, <3>2
  <2>5. \A c \in chunks : kept(c) => c.max <= b[1] \/ b[n + 1] <= c.max
    <3>1. \A c \in chunks : c.min \in Nat /\ c.max \in Nat /\ c.min < c.max
      BY DEF IndInv, TypeOK, WellFormed, Chunk, Keys
    <3>2. b[1] \in Nat /\ b[n + 1] \in Nat
      BY <1>5 DEF Keys
    <3> QED  BY <3>1, <3>2, <1>4
  <2>6. merged.max = MaxKey \/ \E d \in chunks' : d.min = merged.max
    <3>1. n \in 1 .. n
      BY <1>3
    <3>2. PICK c \in chunks : c.max = b[n + 1]
      BY <1>2, <3>1 DEF MergeDid
    <3>3. b[n + 1] <= c.max
      BY <3>2, <1>5 DEF Keys
    <3> QED  BY <2>2, <2>4, <3>2, <3>3
  <2> HIDE DEF merged, kept
  <2> QED  BY <1>3, <2>3, <2>4, <2>5, <2>6
<1>11. CreationOrder' /\ (coll.state = "unsharded" => chunks = {})'
  BY <1>3 DEF CreationOrder
<1> QED  BY <1>7, <1>8, <1>9, <1>10, <1>11 DEF IndInv

\* The chunk `mig' went to shard `to' and the chunks of `control', at most one, all of the
\* donor, were given the same new major version.
MigrationDid(from, to, mig, control, cv) ==
    /\ cv.major < MajorBound
    /\ mig \in chunks /\ mig.shard = from
    /\ control \subseteq chunks
    /\ \A c \in control : c.shard = from /\ c # mig
    /\ \A c, d \in control : c = d
    /\ control = {} => \A c \in chunks : c.shard = from => c = mig
    /\ chunks' = (chunks \ ({mig} \cup control))
                  \cup {ChunkDoc(mig.min, mig.max, to, IncUInt32(cv.major), 0, cv.epoch)}
                  \cup {ChunkDoc(c.min, c.max, from, IncUInt32(cv.major), 1, cv.epoch) : c \in control}
    /\ coll' = coll /\ coll.state \in {"sharded", "dropping"}

\* A migration commit moved one chunk and gave the donor a control chunk if it had one.
LEMMA MigrationEffect ==
    ASSUME NEW from, NEW to, NEW e, CommitChunkMigration(from, to, e)
    PROVE  \E mig \in chunks, cv \in Newest(chunks), control \in SUBSET chunks :
              MigrationDid(from, to, mig, control, cv)
<1>1. PICK mig \in OnShard(from), cv \in Newest(chunks) :
        \E control \in ControlChunk(from, mig) :
            /\ cv.major < MajorBound
            /\ chunks' = (chunks \ ({mig} \cup control))
                  \cup {ChunkDoc(mig.min, mig.max, to, IncUInt32(cv.major), 0, cv.epoch)}
                  \cup {ChunkDoc(c.min, c.max, from, IncUInt32(cv.major), 1, cv.epoch) : c \in control}
  BY DEF CommitChunkMigration
<1>2. PICK control \in ControlChunk(from, mig) :
            /\ cv.major < MajorBound
            /\ chunks' = (chunks \ ({mig} \cup control))
                  \cup {ChunkDoc(mig.min, mig.max, to, IncUInt32(cv.major), 0, cv.epoch)}
                  \cup {ChunkDoc(c.min, c.max, from, IncUInt32(cv.major), 1, cv.epoch) : c \in control}
  BY <1>1
<1>3. coll' = coll /\ coll.state \in {"sharded", "dropping"}
  BY DEF CommitChunkMigration
<1>4. /\ control \subseteq OnShard(from) \ {mig}
      /\ \A c, d \in control : c = d
      /\ control = {} => OnShard(from) \ {mig} = {}
  BY DEF ControlChunk
<1>5. mig \in chunks /\ mig.shard = from /\ control \in SUBSET chunks
  BY <1>4 DEF OnShard
<1>6. /\ \A c \in control : c.shard = from /\ c # mig
      /\ control = {} => \A c \in chunks : c.shard = from => c = mig
  BY <1>4 DEF OnShard
<1>7. MigrationDid(from, to, mig, control, cv)
  BY <1>2, <1>3, <1>4, <1>5, <1>6 DEF MigrationDid
<1> QED  BY <1>5, <1>7

\* A migration commit preserves the invariant.
LEMMA MigrationStep ==
    ASSUME IndInv, NEW from \in Shards, NEW to \in Shards, NEW e,
           CommitChunkMigration(from, to, e)
    PROVE  IndInv'
<1>1. PICK mig \in chunks, cv \in Newest(chunks), control \in SUBSET chunks :
        MigrationDid(from, to, mig, control, cv)
  BY MigrationEffect
<1> DEFINE major == IncUInt32(cv.major)
           moved == ChunkDoc(mig.min, mig.max, to, major, 0, cv.epoch)
           bumped(c) == ChunkDoc(c.min, c.max, from, major, 1, cv.epoch)
<1>2. cv \in Chunk /\ cv.epoch = coll.epoch /\ mig \in Chunk /\ chunks \subseteq Chunk
  BY DEF Newest, IndInv, TypeOK, WellFormed
<1>3. major \in UInt32 /\ cv.epoch \in Nat
  BY <1>2, ConstantsAssumption DEF IncUInt32, UInt32, Chunk
<1> HIDE DEF major
<1>4. /\ moved \in Chunk /\ moved.min = mig.min /\ moved.max = mig.max /\ moved.epoch = coll.epoch
      /\ \A c \in control : /\ bumped(c) \in Chunk /\ bumped(c).min = c.min
                            /\ bumped(c).max = c.max /\ bumped(c).epoch = coll.epoch
  <2>1. 0 \in UInt32 /\ 1 \in UInt32
    BY ConstantsAssumption DEF UInt32
  <2>2. /\ mig.min \in Keys /\ mig.max \in Keys
        /\ \A c \in control : c.min \in Keys /\ c.max \in Keys
    BY <1>2 DEF Chunk
  <2> QED  BY <1>2, <1>3, <2>1, <2>2, DocFields
<1>5. \A d : d \in chunks' <=> \/ d \in chunks /\ d # mig /\ d \notin control
                              \/ d = moved
                              \/ \E c \in control : d = bumped(c)
  BY <1>1 DEF MigrationDid, major
<1>6. /\ mig \in chunks /\ mig \notin control /\ control \subseteq chunks
      /\ \A c, d \in control : c = d
      /\ coll' = coll /\ coll.state \in {"sharded", "dropping"}
  BY <1>1 DEF MigrationDid
<1> HIDE DEF moved, bumped
<1>7. TypeOK'
  BY <1>2, <1>4, <1>5, <1>6 DEF IndInv, TypeOK
<1>8. WellFormed'
  BY <1>4, <1>5, <1>6 DEF IndInv, WellFormed
<1>9. NoOverlap'
  <2>1. \A c, d \in chunks : c = d \/ c.max <= d.min \/ d.max <= c.min
    BY DEF IndInv, NoOverlap, Disjoint
  <2> SUFFICES ASSUME NEW c \in chunks', NEW d \in chunks', c # d
               PROVE  c.max <= d.min \/ d.max <= c.min
    BY DEF NoOverlap, Disjoint
  <2>2. CASE c \in chunks /\ c # mig /\ c \notin control
    BY <2>1, <2>2, <1>4, <1>5, <1>6
  <2>3. CASE c = moved
    BY <2>1, <2>3, <1>4, <1>5, <1>6
  <2>4. CASE \E k \in control : c = bumped(k)
    BY <2>1, <2>4, <1>4, <1>5, <1>6
  <2> QED  BY <1>5, <2>2, <2>3, <2>4
<1>10. NoGaps'
  <2>1. \A c \in chunks : \E d \in chunks' : d.min = c.min
    BY <1>4, <1>5
  <2>2. \A d \in chunks' : \E c \in chunks : d.max = c.max
    BY <1>4, <1>5, <1>6
  <2> QED  BY <2>1, <2>2, <1>6 DEF IndInv, NoGaps
<1>11. CreationOrder' /\ (coll.state = "unsharded" => chunks = {})'
  BY <1>6 DEF CreationOrder
<1> QED  BY <1>7, <1>8, <1>9, <1>10, <1>11 DEF IndInv

-----------------------------------------------------------------------------
(* shardCollection and drop *)

\* The first insert of createFirstChunks preserves the invariant.
LEMMA CreateFirstStep ==
    ASSUME IndInv, NEW s \in Shards, NEW max \in 1 .. MaxKey, CreateFirstChunk(s, max)
    PROVE  IndInv'
<1> USE DEF ChunkDoc
<1> DEFINE first == ChunkDoc(0, max, s, 1, 0, coll.epoch + 1)
<1>1. chunks' = {first} /\ coll' = [state |-> "creating", epoch |-> coll.epoch + 1]
  BY DEF CreateFirstChunk
<1>2. coll.epoch + 1 \in Nat
  BY DEF IndInv, TypeOK
<1>3. first \in Chunk /\ first.min < first.max
  BY <1>2, ConstantsAssumption DEF Chunk, Keys, UInt32
<1>4. TypeOK' /\ WellFormed' /\ NoOverlap' /\ NoGaps'
  BY <1>1, <1>2, <1>3 DEF TypeOK, CollStates, WellFormed, NoOverlap, NoGaps
<1>5. first.min = 0 /\ ~Later(first, first)
  BY DEF Later
<1>6. CreationOrder'
  <2> HIDE DEF first
  <2> QED  BY <1>1, <1>5 DEF CreationOrder, Newest
<1>7. (coll.state = "unsharded" => chunks = {})'
  BY <1>1
<1> QED  BY <1>4, <1>6, <1>7 DEF IndInv

\* A later insert of createFirstChunks preserves the invariant: the newest chunk is the
\* rightmost, so the chunk added after it overlaps none.
LEMMA CreateNextStep ==
    ASSUME IndInv, NEW s \in Shards, NEW max \in 1 .. MaxKey, CreateNextChunk(s, max)
    PROVE  IndInv'
<1>1. PICK last \in Newest(chunks) :
        /\ last.max < max
        /\ CanIncMinor(last.minor, 1)
        /\ chunks' = chunks \cup {ChunkDoc(last.max, max, s, last.major, last.minor + 1, last.epoch)}
  BY DEF CreateNextChunk
<1> DEFINE new == ChunkDoc(last.max, max, s, last.major, last.minor + 1, last.epoch)
<1>2. last \in chunks /\ last \in Chunk /\ \A c \in chunks : ~Later(c, last)
  BY DEF Newest, IndInv, TypeOK
<1>3. /\ new.min = last.max /\ new.max = max /\ new.epoch = last.epoch
      /\ new.major = last.major /\ new.minor = last.minor + 1
  BY DocFields
<1>4. coll' = coll /\ coll.state = "creating" /\ chunks' = chunks \cup {new}
  BY <1>1 DEF CreateNextChunk
<1> HIDE DEF new
<1>5. new \in Chunk /\ new.min < new.max /\ new.epoch = coll.epoch
  <2>1. last.minor + 1 \in UInt32 /\ max \in Keys
    BY <1>1, <1>2, ConstantsAssumption DEF UInt32, CanIncMinor, Chunk, Keys
  <2>2. last.epoch = coll.epoch
    BY <1>2 DEF IndInv, WellFormed
  <2>3. new \in Chunk
    BY <1>2, <2>1, DocFields DEF new, Chunk
  <2> QED  BY <1>1, <1>3, <2>2, <2>3
<1>6. /\ \A c, d \in chunks : c = d \/ Later(c, d) \/ Later(d, c)
      /\ \A c, d \in chunks : Later(d, c) => c.max <= d.min
      /\ \E c \in chunks : c.min = 0
      /\ \A c \in chunks : c \in Newest(chunks) \/ \E d \in chunks : d.min = c.max
  BY <1>4 DEF IndInv, CreationOrder
<1>7. \A c \in chunks : c # last => Later(last, c) /\ c.max <= last.min
  BY <1>2, <1>6
<1>8. \A c \in chunks : Later(new, c) /\ ~Later(c, new) /\ c.max <= new.min
  <2>1. \A c \in chunks : /\ c.major \in Nat /\ c.minor \in Nat /\ c.min \in Nat
                         /\ c.max \in Nat /\ c.min < c.max
    BY ConstantsAssumption DEF IndInv, TypeOK, WellFormed, Chunk, UInt32, Keys
  <2>2. new.min = last.max /\ new.major = last.major /\ new.minor = last.minor + 1
    BY <1>3
  <2>3. \A c \in chunks : c = last \/ Later(last, c)
    BY <1>7
  <2>4. \A c \in chunks : Later(new, c) /\ ~Later(c, new)
    BY <1>2, <2>1, <2>2, <2>3 DEF Later
  <2>5. \A c \in chunks : c.max <= new.min
    BY <1>2, <1>7, <2>1, <2>2
  <2> QED  BY <2>4, <2>5
<1>9. TypeOK' /\ WellFormed' /\ NoGaps'
  BY <1>4, <1>5 DEF IndInv, TypeOK, WellFormed, NoGaps
<1>10. NoOverlap'
  BY <1>4, <1>8 DEF IndInv, NoOverlap, Disjoint
<1>11. CreationOrder'
  <2>1. ~Later(new, new) /\ new.min = last.max
    BY <1>3, <1>5 DEF Later, Chunk, UInt32
  <2>2. new \in Newest(chunks')
    BY <1>4, <1>8, <2>1 DEF Newest
  <2>3. \A c \in Newest(chunks) : c = last
    BY <1>2, <1>6 DEF Newest
  <2>4. \A c \in chunks' : c \in Newest(chunks') \/ \E d \in chunks' : d.min = c.max
    BY <1>4, <1>6, <2>1, <2>2, <2>3
  <2>5. /\ \A c, d \in chunks' : c = d \/ Later(c, d) \/ Later(d, c)
        /\ \A c, d \in chunks' : Later(d, c) => c.max <= d.min
        /\ \E c \in chunks' : c.min = 0
    BY <1>4, <1>6, <1>8, <2>1
  <2>6. Newest(chunks') = Newest(chunks)'
    BY DEF Newest
  <2> QED  BY <2>4, <2>5, <2>6 DEF CreationOrder
<1>12. (coll.state = "unsharded" => chunks = {})'
  BY <1>4
<1> QED  BY <1>9, <1>10, <1>11, <1>12 DEF IndInv

\* The end of shardCollection preserves the invariant: only the newest chunk may lack a
\* successor, and it ends at globalMax.
LEMMA PublishStep ==
    ASSUME IndInv, PublishCollection
    PROVE  IndInv'
<1>1. /\ coll' = [coll EXCEPT !.state = "sharded"] /\ chunks' = chunks
      /\ coll.state = "creating"
  BY DEF PublishCollection
<1>2. coll' = [state |-> "sharded", epoch |-> coll.epoch] /\ coll.epoch \in Nat
  BY <1>1 DEF IndInv, TypeOK
<1>3. PICK last \in Newest(chunks) : last.max = MaxKey
  BY DEF PublishCollection
<1>4. /\ \E c \in chunks : c.min = 0
      /\ \A c \in chunks : c \in Newest(chunks) \/ \E d \in chunks : d.min = c.max
      /\ \A c \in Newest(chunks) : c = last
  BY <1>1 DEF IndInv, CreationOrder, Newest
<1>5. NoGaps'
  BY <1>1, <1>3, <1>4 DEF NoGaps
<1>6. TypeOK' /\ WellFormed' /\ NoOverlap'
  BY <1>1, <1>2 DEF IndInv, TypeOK, CollStates, WellFormed, NoOverlap
<1>7. CreationOrder' /\ (coll.state = "unsharded" => chunks = {})'
  BY <1>2 DEF CreationOrder
<1> QED  BY <1>5, <1>6, <1>7 DEF IndInv

\* The steps of dropCollection preserve the invariant.
LEMMA DropStep ==
    ASSUME IndInv, StartDrop \/ (\E c \in chunks : RemoveChunk(c)) \/ MarkDropped
    PROVE  IndInv'
<1>1. /\ chunks' \subseteq chunks
      /\ coll' \in [state: CollStates, epoch: Nat] /\ coll'.epoch = coll.epoch
      /\ coll'.state \in {"dropping", "unsharded"}
      /\ coll'.state = "unsharded" => chunks' = {}
  <2>1. coll = [state |-> coll.state, epoch |-> coll.epoch] /\ coll.epoch \in Nat
    BY DEF IndInv, TypeOK
  <2>2. CASE StartDrop
    BY <2>1, <2>2 DEF StartDrop, CollStates
  <2>3. CASE \E c \in chunks : RemoveChunk(c)
    BY <2>1, <2>3 DEF RemoveChunk, CollStates
  <2>4. CASE MarkDropped
    BY <2>1, <2>4 DEF MarkDropped, CollStates
  <2> QED  BY <2>2, <2>3, <2>4
<1>2. TypeOK' /\ WellFormed' /\ NoOverlap'
  BY <1>1 DEF IndInv, TypeOK, WellFormed, NoOverlap
<1>3. NoGaps' /\ CreationOrder' /\ (coll.state = "unsharded" => chunks = {})'
  BY <1>1 DEF NoGaps, CreationOrder
<1> QED  BY <1>2, <1>3 DEF IndInv

-----------------------------------------------------------------------------
(* The theorems *)

\* Every step preserves the strengthened invariant.
LEMMA IndInvStep == IndInv /\ [Next]_vars => IndInv'
<1> SUFFICES ASSUME IndInv, [Next]_vars
             PROVE  IndInv'
  OBVIOUS
<1>0. 1 .. EpochBound \subseteq Nat
  BY ConstantsAssumption
<1>1. ASSUME NEW s \in Shards, NEW max \in 1 .. MaxKey, CreateFirstChunk(s, max)
      PROVE  IndInv'
  BY <1>1, CreateFirstStep
<1>2. ASSUME NEW s \in Shards, NEW max \in 1 .. MaxKey, CreateNextChunk(s, max)
      PROVE  IndInv'
  BY <1>2, CreateNextStep
<1>3. CASE PublishCollection
  BY <1>3, PublishStep
<1>4. CASE StartDrop \/ (\E c \in chunks : RemoveChunk(c)) \/ MarkDropped
  BY <1>4, DropStep
<1>5. ASSUME NEW c \in chunks, NEW s \in Shards, NEW e \in 1 .. EpochBound,
             NEW p \in SplitPointLists, CommitChunkSplit(s, e, c.min, c.max, p)
      PROVE  IndInv'
  BY <1>0, <1>5, SplitStep
<1>6. ASSUME NEW s \in Shards, NEW e \in 1 .. EpochBound, NEW b \in BoundaryLists,
             CommitChunkMerge(s, e, b)
      PROVE  IndInv'
  BY <1>0, <1>6, MergeStep
<1>7. ASSUME NEW from \in Shards, NEW e \in 1 .. EpochBound, NEW to \in Shards \ {from},
             CommitChunkMigration(from, to, e)
      PROVE  IndInv'
  BY <1>7, MigrationStep
<1>8. CASE UNCHANGED vars
  <2>1. chunks' = chunks /\ coll' = coll
    BY <1>8 DEF vars
  <2> QED  BY <2>1 DEF IndInv, TypeOK, WellFormed, NoOverlap, NoGaps, CreationOrder, Newest
<1> QED  BY <1>1, <1>2, <1>3, <1>4, <1>5, <1>6, <1>7, <1>8 DEF Next

\* The strengthened invariant holds in every reachable state.
THEOREM IndInvHolds == Spec => []IndInv
<1>1. Init => IndInv
  BY DEF Init, IndInv, TypeOK, CollStates, WellFormed, NoOverlap, NoGaps, CreationOrder
<1> QED  BY <1>1, IndInvStep, PTL DEF Spec

\* Every document of config.chunks always has bounds of the key space and a version that
\* fits its 64 bits, whatever splits, merges, migrations, drops and re-shardings happen.
THEOREM TypeCorrect == Spec => []TypeOK
<1>1. IndInv => TypeOK
  BY DEF IndInv
<1> QED  BY <1>1, IndInvHolds, PTL

\* No two chunks ever claim the same key, in any phase of the collection's life.
THEOREM NoOverlapAlways == Spec => []NoOverlap
<1>1. IndInv => NoOverlap
  BY DEF IndInv
<1> QED  BY <1>1, IndInvHolds, PTL

\* While the collection is sharded its chunks leave no gap in the key space.
THEOREM NoGapsAlways == Spec => []NoGaps
<1>1. IndInv => NoGaps
  BY DEF IndInv
<1> QED  BY <1>1, IndInvHolds, PTL

-----------------------------------------------------------------------------
(* Versions, as long as the major version does not wrap *)

\* The new documents of a commit have versions above all the old ones and different from
\* one another.
CommitVersions ==
    /\ \A c \in chunks' \ chunks : \A d \in chunks : Later(c, d)
    /\ \A c, d \in chunks' \ chunks : SameVersion(c, d) => c = d

\* The versions a split writes.
LEMMA SplitVersions ==
    ASSUME IndInv, NEW s \in Shards, NEW e \in Nat, NEW c0 \in chunks,
           NEW p \in SplitPointLists, CommitChunkSplit(s, e, c0.min, c0.max, p)
    PROVE  CommitVersions
<1>1. PICK n \in Nat, major, minor \in UInt32 : \E b \in [1 .. n + 1 -> Keys] :
              SplitDid(s, e, c0, n, major, minor, b)
  BY SplitEffect
<1>2. PICK b \in [1 .. n + 1 -> Keys] : SplitDid(s, e, c0, n, major, minor, b)
  BY <1>1
<1> DEFINE piece(i) == ChunkDoc(b[i], b[i + 1], s, major, minor + i, e)
<1>3. \A c \in chunks' \ chunks : \E i \in 1 .. n : c = piece(i)
  BY <1>2 DEF SplitDid, Upsert
<1>4. \A i \in 1 .. n, d \in chunks : Later(piece(i), d)
  BY <1>2 DEF SplitDid
<1>5. \A i, j \in 1 .. n : SameVersion(piece(i), piece(j)) => i = j
  <2>1. \A i, j \in 1 .. n : minor + i = minor + j => i = j
    BY DEF UInt32
  <2>2. \A i \in 1 .. n : piece(i).minor = minor + i
    BY DEF ChunkDoc
  <2> QED  BY <2>1, <2>2 DEF SameVersion
<1> HIDE DEF piece
<1> QED  BY <1>3, <1>4, <1>5 DEF CommitVersions

\* The version a merge writes.
LEMMA MergeVersions ==
    ASSUME IndInv, NEW s \in Shards, NEW e \in Nat, NEW bs \in BoundaryLists,
           CommitChunkMerge(s, e, bs)
    PROVE  CommitVersions
<1>1. PICK n \in Nat, major, minor \in UInt32 : \E b \in [1 .. n + 1 -> Keys] :
              MergeDid(s, e, n, b, major, minor)
  BY MergeEffect
<1>2. PICK b \in [1 .. n + 1 -> Keys] : MergeDid(s, e, n, b, major, minor)
  BY <1>1
<1> DEFINE merged == ChunkDoc(b[1], b[n + 1], s, major, minor, e)
<1>3. \A c \in chunks' \ chunks : c = merged
  BY <1>2 DEF MergeDid
<1>4. \A d \in chunks : Later(merged, d)
  BY <1>2 DEF MergeDid, Later, ChunkDoc
<1> HIDE DEF merged
<1> QED  BY <1>3, <1>4 DEF CommitVersions

\* The new major version of a migration is above every earlier one, unless it wraps.
LEMMA MigrationMajor ==
    ASSUME NoWrap, IndInv, NEW cv \in Newest(chunks), cv.major < MajorBound
    PROVE  /\ IncUInt32(cv.major) \in Nat
           /\ \A d \in chunks : IncUInt32(cv.major) > d.major
<1>1. /\ cv.major \in UInt32 /\ cv.minor \in UInt32
      /\ \A d \in chunks : d.major \in UInt32 /\ d.minor \in UInt32 /\ ~Later(d, cv)
  BY DEF Newest, IndInv, TypeOK, Chunk
<1>2. \A d \in chunks : d.major <= cv.major /\ d.major \in Nat
  BY <1>1, ConstantsAssumption DEF Later, UInt32
<1>3. cv.major \in Nat /\ cv.major # UInt32Max
  BY <1>1, ConstantsAssumption DEF NoWrap, UInt32
<1> QED  BY <1>2, <1>3 DEF IncUInt32

\* The versions a migration writes.
LEMMA MigrationVersions ==
    ASSUME NoWrap, IndInv, NEW from \in Shards, NEW to \in Shards, NEW e,
           CommitChunkMigration(from, to, e)
    PROVE  CommitVersions
<1>1. PICK mig \in chunks, cv \in Newest(chunks), control \in SUBSET chunks :
        MigrationDid(from, to, mig, control, cv)
  BY MigrationEffect
<1> DEFINE major == IncUInt32(cv.major)
           moved == ChunkDoc(mig.min, mig.max, to, major, 0, cv.epoch)
           bumped(c) == ChunkDoc(c.min, c.max, from, major, 1, cv.epoch)
<1>2. /\ \A c \in chunks' \ chunks : c = moved \/ \E k \in control : c = bumped(k)
      /\ \A c, d \in control : c = d
  BY <1>1 DEF MigrationDid
<1>3. \A d \in chunks : major > d.major
  BY <1>1, MigrationMajor DEF MigrationDid
<1>4. /\ moved.major = major /\ moved.minor = 0
      /\ \A c : bumped(c).major = major /\ bumped(c).minor = 1
  BY DEF ChunkDoc
<1> HIDE DEF major, moved, bumped
<1>5. \A c \in chunks' \ chunks : \A d \in chunks : Later(c, d)
  BY <1>2, <1>3, <1>4 DEF Later
<1>6. \A c, d \in chunks' \ chunks : SameVersion(c, d) => c = d
  BY <1>2, <1>4 DEF SameVersion
<1> QED  BY <1>5, <1>6 DEF CommitVersions

\* A step that starts in a sharded or half dropped collection writes new versions only.
LEMMA StepVersions ==
    ASSUME NoWrap, IndInv, [Next]_vars, coll.state \in {"sharded", "dropping"}
    PROVE  CommitVersions
<1>0. 1 .. EpochBound \subseteq Nat
  BY ConstantsAssumption
<1>1. ASSUME NEW c \in chunks, NEW s \in Shards, NEW e \in 1 .. EpochBound,
             NEW p \in SplitPointLists, CommitChunkSplit(s, e, c.min, c.max, p)
      PROVE  CommitVersions
  BY <1>0, <1>1, SplitVersions
<1>2. ASSUME NEW s \in Shards, NEW e \in 1 .. EpochBound, NEW b \in BoundaryLists,
             CommitChunkMerge(s, e, b)
      PROVE  CommitVersions
  BY <1>0, <1>2, MergeVersions
<1>3. ASSUME NEW from \in Shards, NEW e \in 1 .. EpochBound, NEW to \in Shards \ {from},
             CommitChunkMigration(from, to, e)
      PROVE  CommitVersions
  BY <1>3, MigrationVersions
<1>4. CASE \/ StartDrop \/ MarkDropped \/ (\E c \in chunks : RemoveChunk(c)) \/ UNCHANGED vars
  <2>1. chunks' \subseteq chunks
    BY <1>4 DEF StartDrop, MarkDropped, RemoveChunk, vars
  <2> QED  BY <2>1 DEF CommitVersions
<1>5. /\ \A s \in Shards, max \in 1 .. MaxKey : ~CreateFirstChunk(s, max)
      /\ \A s \in Shards, max \in 1 .. MaxKey : ~CreateNextChunk(s, max)
      /\ ~PublishCollection
  BY DEF CreateFirstChunk, CreateNextChunk, PublishCollection
<1> QED  BY <1>1, <1>2, <1>3, <1>4, <1>5 DEF Next

\* A version, once written by a commit, never names two chunks.
THEOREM VersionsUniqueAlways ==
    ASSUME NoWrap
    PROVE  Spec => []VersionsUnique
<1>1. Init => VersionsUnique
  BY DEF Init, VersionsUnique
<1>2. ASSUME IndInv, VersionsUnique, [Next]_vars
      PROVE  VersionsUnique'
  <2>1. IndInv'
    BY <1>2, IndInvStep
  <2>2. \A c, d : (c \in chunks \cup chunks' /\ d \in chunks \cup chunks')
                   => (Later(c, d) => ~SameVersion(c, d) /\ ~SameVersion(d, c))
    <3>1. \A c \in chunks \cup chunks' : c.major \in Nat /\ c.minor \in Nat
      BY <1>2, <2>1, ConstantsAssumption DEF IndInv, TypeOK, Chunk, UInt32
    <3> QED  BY <3>1 DEF Later, SameVersion
  <2>3. CASE coll'.state = "creating"
    BY <2>1, <2>2, <2>3 DEF IndInv, CreationOrder, VersionsUnique
  <2>4. CASE coll.state \in {"sharded", "dropping"}
    <3>1. CommitVersions
      BY <1>2, <2>4, StepVersions
    <3> QED  BY <1>2, <2>2, <3>1 DEF CommitVersions, VersionsUnique
  <2>5. CASE chunks' = chunks
    BY <1>2, <2>5 DEF VersionsUnique
  <2>6. \/ coll'.state = "creating"
        \/ coll.state \in {"sharded", "dropping"}
        \/ chunks' = chunks
    <3>1. /\ \A s, max : CreateFirstChunk(s, max) => coll'.state = "creating"
          /\ \A s, max : CreateNextChunk(s, max) => coll'.state = "creating"
      BY DEF CreateFirstChunk, CreateNextChunk
    <3>2. PublishCollection => chunks' = chunks
      BY DEF PublishCollection
    <3>3. /\ StartDrop \/ MarkDropped => coll.state \in {"sharded", "dropping"}
          /\ \A c : RemoveChunk(c) => coll.state \in {"sharded", "dropping"}
      BY DEF StartDrop, MarkDropped, RemoveChunk
    <3>4. \A s, e, min, max, p :
             CommitChunkSplit(s, e, min, max, p) => coll.state \in {"sharded", "dropping"}
      BY DEF CommitChunkSplit
    <3>5. \A s, e, b : CommitChunkMerge(s, e, b) => coll.state \in {"sharded", "dropping"}
      BY DEF CommitChunkMerge
    <3>6. \A from, to, e :
             CommitChunkMigration(from, to, e) => coll.state \in {"sharded", "dropping"}
      BY DEF CommitChunkMigration
    <3> QED  BY <1>2, <3>1, <3>2, <3>3, <3>4, <3>5, <3>6 DEF Next, vars
  <2> QED  BY <2>3, <2>4, <2>5, <2>6
<1> QED  BY <1>1, <1>2, IndInvHolds, PTL DEF Spec

\* Every document a commit writes is newer than everything in the catalog before it: the
\* diff query of a routing table refresh misses no change.
THEOREM CommitsNewer ==
    ASSUME NoWrap
    PROVE  Spec => CommitsAlwaysNewer
<1>1. ASSUME IndInv, [Next]_vars
      PROVE  [CommitsAreNewer]_vars
  BY <1>1, StepVersions DEF CommitsAreNewer, CommitVersions
<1> QED  BY <1>1, IndInvHolds, PTL DEF Spec, CommitsAlwaysNewer

\* A key changes its owner only in a migration, which raises the major version of the new
\* owner and of the old owner, if that still owns chunks, above every earlier one.
THEOREM OwnershipChange ==
    ASSUME NoWrap
    PROVE  Spec => OwnershipChangeAlwaysBumpsMajor
<1> USE DEF OwnershipChangeBumpsMajor
<1>1. ASSUME IndInv, [Next]_vars
      PROVE  OwnershipChangeBumpsMajor
  <2>0. 1 .. EpochBound \subseteq Nat
    BY ConstantsAssumption
  <2> SUFFICES ASSUME NEW c \in chunks, NEW d \in chunks', ~Disjoint(c, d),
                      c.shard # d.shard, coll.state = "sharded"
               PROVE  /\ \A b \in chunks : d.major > b.major
                      /\ \/ \A e \in chunks' : e.shard # c.shard
                         \/ \E e \in chunks' : /\ e.shard = c.shard
                                              /\ \A b \in chunks : e.major > b.major
    OBVIOUS
  <2>1. d \notin chunks
    BY <1>1 DEF IndInv, NoOverlap
  <2>2. ASSUME NEW c0 \in chunks, NEW s \in Shards, NEW e \in 1 .. EpochBound,
               NEW p \in SplitPointLists, CommitChunkSplit(s, e, c0.min, c0.max, p)
        PROVE  FALSE
    <3>1. PICK n \in Nat, major, minor \in UInt32 : \E b \in [1 .. n + 1 -> Keys] :
              SplitDid(s, e, c0, n, major, minor, b)
      BY <1>1, <2>0, <2>2, SplitEffect
    <3>2. PICK b \in [1 .. n + 1 -> Keys] : SplitDid(s, e, c0, n, major, minor, b)
      BY <3>1
    <3>3. PICK i \in 1 .. n : d = ChunkDoc(b[i], b[i + 1], s, major, minor + i, e)
      BY <2>1, <3>2 DEF SplitDid, Upsert
    <3>4. d.min = b[i] /\ d.max = b[i + 1] /\ d.shard = s
      BY <3>3 DEF ChunkDoc
    <3>5. c = c0
      <4>1. /\ n > 1 /\ b[1] = c0.min /\ b[n + 1] = c0.max
            /\ \A x, y \in 1 .. n + 1 : x < y => b[x] < b[y]
        BY <3>2 DEF SplitDid
      <4>2. c # c0 => \A j \in 1 .. n : c.max <= b[j] \/ b[j + 1] <= c.min
        BY <1>1, <4>1, SplitKeeps
      <4> QED  BY <3>4, <4>2 DEF Disjoint
    <3> QED  BY <3>2, <3>4, <3>5 DEF SplitDid
  <2>3. ASSUME NEW s \in Shards, NEW e \in 1 .. EpochBound, NEW bs \in BoundaryLists,
               CommitChunkMerge(s, e, bs)
        PROVE  FALSE
    <3>1. e \in Nat
      BY <2>0
    <3>2. Disjoint(c, d) \/ c.shard = d.shard
      BY <1>1, <2>1, <2>3, <3>1, MergeMovesNothing
    <3> QED  BY <3>2
  <2>4. ASSUME NEW from \in Shards, NEW ep \in 1 .. EpochBound, NEW to \in Shards \ {from},
               CommitChunkMigration(from, to, ep)
        PROVE  /\ \A b \in chunks : d.major > b.major
               /\ \/ \A e \in chunks' : e.shard # c.shard
                  \/ \E e \in chunks' : /\ e.shard = c.shard
                                       /\ \A b \in chunks : e.major > b.major
    <3>1. PICK mig \in chunks, cv \in Newest(chunks), control \in SUBSET chunks :
            MigrationDid(from, to, mig, control, cv)
      BY <2>4, MigrationEffect
    <3> DEFINE major == IncUInt32(cv.major)
               moved == ChunkDoc(mig.min, mig.max, to, major, 0, cv.epoch)
               bumped(k) == ChunkDoc(k.min, k.max, from, major, 1, cv.epoch)
    <3>2. /\ moved.min = mig.min /\ moved.max = mig.max
          /\ moved.shard = to /\ moved.major = major
          /\ \A k : /\ bumped(k).min = k.min /\ bumped(k).max = k.max
                   /\ bumped(k).shard = from /\ bumped(k).major = major
      BY DEF ChunkDoc
    <3>3. \A b \in chunks : major > b.major
      BY <1>1, <3>1, MigrationMajor DEF MigrationDid
    <3>4. /\ \A x : x \in chunks' <=> \/ x \in chunks /\ x # mig /\ x \notin control
                                     \/ x = moved
                                     \/ \E k \in control : x = bumped(k)
          /\ mig.shard = from
          /\ \A k \in control : k \in chunks /\ k.shard = from
          /\ control = {} => \A x \in chunks : x.shard = from => x = mig
      BY <3>1 DEF MigrationDid
    <3> HIDE DEF major, moved, bumped
    <3>5. \A x, y \in chunks : x = y \/ Disjoint(x, y)
      BY <1>1 DEF IndInv, NoOverlap
    <3>6. \A k \in control : d # bumped(k)
      BY <3>2, <3>4, <3>5 DEF Disjoint
    <3>7. d = moved /\ c.shard = from
      BY <2>1, <3>2, <3>4, <3>5, <3>6 DEF Disjoint
    <3>8. CASE control = {}
      BY <3>2, <3>3, <3>4, <3>7, <3>8
    <3>9. CASE control # {}
      BY <3>2, <3>3, <3>4, <3>7, <3>9
    <3> QED  BY <3>8, <3>9
  <2>5. CASE chunks' \subseteq chunks
    BY <2>1, <2>5
  <2>6. CASE \/ StartDrop \/ MarkDropped \/ (\E x \in chunks : RemoveChunk(x))
             \/ PublishCollection \/ UNCHANGED vars
    BY <2>5, <2>6 DEF StartDrop, MarkDropped, RemoveChunk, PublishCollection, vars
  <2>7. /\ \A s \in Shards, max \in 1 .. MaxKey : ~CreateFirstChunk(s, max)
        /\ \A s \in Shards, max \in 1 .. MaxKey : ~CreateNextChunk(s, max)
    BY DEF CreateFirstChunk, CreateNextChunk
  <2> QED  BY <1>1, <2>2, <2>3, <2>4, <2>6, <2>7 DEF Next
<1>2. OwnershipChangeBumpsMajor => [OwnershipChangeBumpsMajor]_vars
  OBVIOUS
<1> QED  BY <1>1, <1>2, IndInvHolds, PTL DEF Spec, OwnershipChangeAlwaysBumpsMajor
=============================================================================
