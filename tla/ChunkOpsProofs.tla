---------------------------- MODULE ChunkOpsProofs ----------------------------
(***************************************************************************)
(* Proofs about splits and merges under the distributed lock, for every    *)
(* key space, number of servers, crashes, failing calls, elections and     *)
(* retries: no two servers work under the lock, no lock is leaked, and     *)
(* what an operation reports is what took place.                           *)
(*                                                                         *)
(* The lock's part of the invariant is DistLockProofs'.  An operation's    *)
(* part says what it knows of its chunks, which nobody changes meanwhile.  *)
(***************************************************************************)
EXTENDS ChunkOps, DistLockProofs

Requests ==
    {r \in [kind : {"split"}, min : Keys, at : Keys, max : Keys] : r.min < r.at /\ r.at < r.max}
    \cup {r \in [kind : {"merge"}, min : Keys, max : Keys] : r.min < r.max}
Op == [request : Requests \cup {Nobody}, chunkBoundaries : SUBSET Keys, tries : Nat,
       took : BOOLEAN, result : {"none", "ok", "failed", "unknown"}]

OpTypes == bounds \subseteq Keys /\ op \in [Clients -> Op]

Early == {"idle", "release", "held"} \cup Seeking

Reported(c) ==
    /\ op[c].result = "ok" => TookPlace(c)
    /\ op[c].result = "failed" => ~op[c].took

Knows(c) ==
    /\ op[c].request \in Requests
    /\ op[c].request.kind = "merge" => {op[c].request.min, op[c].request.max} \subseteq op[c].chunkBoundaries
    /\ op[c].took => TookPlace(c)
    /\ op[c].result \in {"none", "ok"}
    /\ op[c].result = "ok" => TookPlace(c)

OpOk(c) ==
    /\ client[c].pc \in Early => op[c].result = "none" /\ ~op[c].took
    /\ client[c].pc \in {"commit", "verify"} => Knows(c)
    /\ client[c].pc = "unlock" => Reported(c)

IndInv == LockInv /\ OpTypes /\ \A c \in Clients : OpOk(c)

--------------------------------------------------------------------------------
(* While a server works under the lock, no other server's operation is     *)
(* past the acquisition: there is one collection.                          *)
LEMMA OneWorks ==
    ASSUME LockInv, NEW c \in Clients, NEW d \in Clients, d # c, client[c].pc \in Holding
    PROVE  client[d].pc \in {"idle", "release"} \cup Seeking
  <1>1. MutualExclusion /\ Counted /\ LockTypes
    BY LockInvSuffices DEF LockInv
  <1>2. Holds(c)
    BY DEF Holds, Holding
  <1>3. ~Holds(d)
    BY <1>1, <1>2, OneCollection DEF MutualExclusion, Counted, At, Holds
  <1> QED  BY <1>3 DEF Holds, Seeking

(* The commit leaves the chunks that were asked for. *)
LEMMA CommittedTookPlace ==
    ASSUME NEW c \in Clients, OpTypes, Knows(c), Accepts(c), bounds' = Committed(op[c].request),
           op'[c].request = op[c].request
    PROVE  TookPlace(c)' /\ bounds' \subseteq Keys
  <1> DEFINE r == op[c].request
  <1>0. r \in Requests /\ bounds \subseteq Keys /\ Keys \subseteq Int
    BY DEF Knows, OpTypes, Keys
  <1>1. CASE r.kind = "split"
    <2>1. r.min \in Keys /\ r.at \in Keys /\ r.max \in Keys /\ r.min < r.at /\ r.at < r.max
      BY <1>0, <1>1 DEF Requests
    <2>2. Between(r) = {r.min, r.max} /\ bounds' = bounds \cup {r.at}
      BY <1>1 DEF Accepts, IsChunk, Committed
    <2>3. {k \in bounds' : r.min <= k /\ k <= r.max} = {r.min, r.at, r.max}
      <3>1. \A k \in bounds : r.min <= k /\ k <= r.max <=> k = r.min \/ k = r.max
        BY <2>2 DEF Between
      <3>2. r.min \in bounds /\ r.max \in bounds
        BY <2>2 DEF Between
      <3>3. r.min <= r.at /\ r.at <= r.max
        BY <2>1, MaxKeyAssumption DEF Keys
      <3> QED  BY <2>2, <3>1, <3>2, <3>3
    <2> QED  BY Zenon, <1>0, <1>1, <2>1, <2>2, <2>3 DEF TookPlace, Between
  <1>2. CASE r.kind = "merge"
    <2>1. r.min \in Keys /\ r.max \in Keys /\ r.min < r.max
      BY <1>0, <1>2 DEF Requests
    <2>2. r.min \in Between(r) /\ r.max \in Between(r) /\ bounds' = bounds \ (Between(r) \ {r.min, r.max})
      BY <1>2 DEF Accepts, Committed, Knows
    <2>3. {k \in bounds' : r.min <= k /\ k <= r.max} = {r.min, r.max}
      BY <1>0, <2>1, <2>2 DEF Between
    <2> QED  BY Zenon, <1>0, <1>2, <2>2, <2>3 DEF TookPlace, Between
  <1> QED  BY <1>0, <1>1, <1>2 DEF Requests

(* A step of c that leaves the chunks alone leaves the others' operations. *)
LEMMA OthersKeep ==
    ASSUME NEW c \in Clients, NEW d \in Clients, OpOk(d), client'[d].pc = client[d].pc, op'[d] = op[d],
           UNCHANGED bounds
    PROVE  OpOk(d)'
  BY Zenon DEF OpOk, Reported, Knows, TookPlace, Between

(* The acquisition and the release of the lock are not about chunks. *)
LEMMA LockStepIsEarly ==
    ASSUME LockTypes, NEW c \in Clients, LockStep(c)
    PROVE  client'[c].pc \in Early /\ \A d \in Clients \ {c} : client'[d] = client[d]
  <1>0. client \in [Clients -> Client] /\ client[c] \in Client
    BY DEF LockTypes
  <1>1. ASSUME NEW pc \in Early, Goto(c, pc)
        PROVE  client'[c].pc \in Early /\ \A d \in Clients \ {c} : client'[d] = client[d]
    BY <1>0, <1>1 DEF Goto, Client
  <1>2. ASSUME End(c)
        PROVE  client'[c].pc \in Early /\ \A d \in Clients \ {c} : client'[d] = client[d]
    BY <1>2, EndKeeps DEF Keeps, Early
  <1>3. CASE GrabLock(c)
    BY <1>1, <1>2, <1>3 DEF GrabLock, Early, Seeking
  <1>4. CASE ReleaseAndRetry(c)
    <2>1. CASE client' = [client EXCEPT ![c].pc = "grab", ![c].retries = @ + 1]
      BY <1>0, <2>1 DEF Client, Early, Seeking
    <2> QED  BY <1>2, <1>4, <2>1 DEF ReleaseAndRetry
  <1>5. CASE IsLockExpired(c)
    <2>1. CASE \E x : client' = [client EXCEPT ![c].pc = "overtake", ![c].seen = x]
      BY <1>0, <2>1 DEF Client, Early, Seeking
    <2>2. CASE \E x, y : client' = [client EXCEPT ![c].pc = "idle", ![c].pingHistory[x] = y]
      BY <1>0, <2>2 DEF Client, Early
    <2> DEFINE n == client[c].name
               l == locks[n]
               h == client[c].pingHistory[n]
               g == IF h # Nobody /\ h.seen = Seen(l) THEN h ELSE [seen |-> Seen(l), at |-> now]
    <2>3. \/ client' = [client EXCEPT ![c].pc = "overtake", ![c].seen = l.ts]
          \/ client' = [client EXCEPT ![c].pc = "idle", ![c].pingHistory[n] = g]
      BY Zenon, <1>5 DEF IsLockExpired
    <2> HIDE DEF n, l, g
    <2> QED  BY Zenon, <2>1, <2>2, <2>3
  <1>6. CASE OvertakeLock(c)
    BY <1>1, <1>2, <1>6 DEF OvertakeLock, Early
  <1>7. CASE Unlock(c)
    BY <1>2, <1>7 DEF Unlock
  <1> QED  BY <1>3, <1>4, <1>5, <1>6, <1>7 DEF LockStep

(* An operation that has not begun is an operation. *)
LEMMA NoOpIsOp == NoOp \in Op
  BY DEF NoOp, Op

(* The invariant holds initially. *)
LEMMA Initially == Init => IndInv
  <1> SUFFICES ASSUME Init PROVE IndInv
    OBVIOUS
  <1>1. LockInv
    BY LockInitially DEF Init
  <1>2. OpTypes
    BY NoOpIsOp, MaxKeyAssumption DEF Init, OpTypes, Keys
  <1>3. \A c \in Clients : client[c].pc = "idle" /\ op[c].result = "none" /\ ~op[c].took
    BY DEF Init, LockInit, NewClient, NoOp
  <1>4. \A c \in Clients : OpOk(c)
    BY <1>3 DEF OpOk
  <1> QED  BY <1>1, <1>2, <1>4 DEF IndInv

(* A server's operation starts over, or is lost. *)
LEMMA ForgetKeeps ==
    ASSUME OpTypes, \A d \in Clients : OpOk(d), NEW c \in Clients,
           client'[c].pc \in Early, \A d \in Clients \ {c} : client'[d] = client[d],
           op' = [op EXCEPT ![c] = NoOp], UNCHANGED bounds
    PROVE  OpTypes' /\ \A d \in Clients : OpOk(d)'
  <1>1. OpTypes' /\ op'[c] = NoOp /\ \A d \in Clients \ {c} : op'[d] = op[d]
    BY NoOpIsOp DEF OpTypes
  <1>2. OpOk(c)'
    BY <1>1 DEF OpOk, NoOp, Early, Seeking
  <1>3. \A d \in Clients \ {c} : OpOk(d)'
    BY <1>1, OthersKeep
  <1> QED  BY <1>1, <1>2, <1>3

(* Steps on which no operation depends. *)
LEMMA IdleKeeps ==
    ASSUME OpTypes, \A d \in Clients : OpOk(d), UNCHANGED <<op, bounds>>,
           \A d \in Clients : client'[d].pc = client[d].pc \/ (client[d].pc = "idle" /\ client'[d].pc = "grab")
    PROVE  OpTypes' /\ \A d \in Clients : OpOk(d)'
  <1>1. OpTypes'
    BY DEF OpTypes
  <1>2. ASSUME NEW d \in Clients PROVE OpOk(d)'
    <2>1. CASE client'[d].pc = client[d].pc
      BY <2>1, OthersKeep
    <2>2. CASE client[d].pc = "idle" /\ client'[d].pc = "grab"
      BY <2>2 DEF OpOk, Early, Seeking
    <2> QED  BY <2>1, <2>2
  <1> QED  BY <1>1, <1>2

(* Steps that change no operation. *)
LEMMA UnchangedKeeps ==
    ASSUME OpTypes, \A d \in Clients : OpOk(d), UNCHANGED <<client, op, bounds>>
    PROVE  OpTypes' /\ \A d \in Clients : OpOk(d)'
  <1>1. \A d \in Clients : client'[d].pc = client[d].pc \/ (client[d].pc = "idle" /\ client'[d].pc = "grab")
    BY Zenon
  <1> QED  BY <1>1, IdleKeeps

--------------------------------------------------------------------------------
(* A step under the lock: the server's own operation is all there is to    *)
(* show.                                                                   *)
LEMMA WorkerKeeps ==
    ASSUME IndInv, NEW c \in Clients, client[c].pc \in Holding, NEW pc \in Holding, Goto(c, pc),
           UNCHANGED <<locks, pings, unlockList, counters>>,
           op' \in [Clients -> Op], \A d \in Clients \ {c} : op'[d] = op[d],
           bounds' \subseteq Keys, OpOk(c)'
    PROVE  IndInv'
  <1>0. LockInv /\ LockTypes /\ OpTypes /\ \A d \in Clients : OpOk(d)
    BY DEF IndInv, LockInv
  <1>1. LockInv'
    BY <1>0, HolderKeeps
  <1>2. \A d \in Clients \ {c} : client'[d] = client[d]
    BY Zenon, <1>0, GotoKeeps DEF Keeps, Pcs
  <1>3. ASSUME NEW d \in Clients \ {c} PROVE OpOk(d)'
    <2>1. client[d].pc \in {"idle", "release"} \cup Seeking
      BY <1>0, OneWorks
    <2> QED  BY <1>0, <1>2, <2>1 DEF OpOk, Early, Seeking
  <1> QED  BY <1>1, <1>3 DEF IndInv, OpTypes

(* The commit is sent, or the request refused. *)
Asks(c, r, between) ==
    \/ /\ Goto(c, "commit")
       /\ op' = [op EXCEPT ![c] = [op[c] EXCEPT !.request = r, !.chunkBoundaries = between]]
    \/ Goto(c, "unlock") /\ UNCHANGED op

(* A request that is sent or refused keeps the invariant. *)
LEMMA AsksKeeps ==
    ASSUME IndInv, NEW c \in Clients, At(c, "held"),
           UNCHANGED <<locks, pings, unlockList, counters, bounds>>,
           NEW r \in Requests, NEW between \in SUBSET Keys,
           r.kind = "merge" => {r.min, r.max} \subseteq between,
           Asks(c, r, between)
    PROVE  IndInv'
  <1>0. /\ LockTypes /\ OpTypes /\ op[c] \in Op /\ op[c].result = "none" /\ ~op[c].took
        /\ client[c].pc \in Holding
    BY DEF IndInv, LockInv, OpTypes, OpOk, At, Early, Holding
  <1>1. CASE Goto(c, "commit") /\ op' = [op EXCEPT ![c] = [op[c] EXCEPT !.request = r, !.chunkBoundaries = between]]
    <2> DEFINE o == [op[c] EXCEPT !.request = r, !.chunkBoundaries = between]
    <2>1. o \in Op /\ o.request = r /\ o.chunkBoundaries = between /\ o.result = "none" /\ ~o.took
      BY Zenon, <1>0 DEF Op
    <2>2. op' = [op EXCEPT ![c] = o]
      BY <1>1
    <2> HIDE DEF o
    <2>3. op' \in [Clients -> Op] /\ op'[c] = o /\ \A d \in Clients \ {c} : op'[d] = op[d]
      BY <1>0, <2>1, <2>2 DEF OpTypes
    <2>4. client'[c].pc = "commit"
      BY <1>0, <1>1, GotoKeeps DEF Pcs, Holding
    <2>5. OpOk(c)'
      BY <2>1, <2>3, <2>4 DEF OpOk, Knows, Early, Seeking
    <2> QED  BY <1>0, <1>1, <2>3, <2>5, WorkerKeeps DEF Holding, OpTypes
  <1>2. CASE Goto(c, "unlock") /\ UNCHANGED op
    <2>1. client'[c].pc = "unlock"
      BY <1>0, <1>2, GotoKeeps DEF Pcs, Holding
    <2>2. OpOk(c)'
      BY <1>0, <1>2, <2>1 DEF OpOk, Reported, Early, Seeking
    <2> QED  BY <1>0, <1>2, <2>2, WorkerKeeps DEF Holding, OpTypes
  <1> QED  BY <1>1, <1>2 DEF Asks

(* splitChunk keeps the invariant. *)
LEMMA SplitChunkKeeps ==
    ASSUME IndInv, NEW c \in Clients, NEW min \in Keys, NEW max \in Keys, NEW at \in (min + 1) .. (max - 1),
           SplitChunk(c, Split(min, at, max))
    PROVE  IndInv'
  <1> DEFINE r == Split(min, at, max)
  <1>1. at \in Keys /\ min < at /\ at < max
    BY MaxKeyAssumption DEF Keys
  <1>2. r \in Requests /\ r.kind = "split"
    BY <1>1 DEF Requests, Split
  <1>3. op[c] \in Op /\ op[c].chunkBoundaries \in SUBSET Keys
    BY DEF IndInv, OpTypes, Op
  <1> HIDE DEF r
  <1>4. [op EXCEPT ![c].request = r]
            = [op EXCEPT ![c] = [op[c] EXCEPT !.request = r, !.chunkBoundaries = op[c].chunkBoundaries]]
    BY Zenon, <1>3 DEF Op
  <1>5. At(c, "held") /\ UNCHANGED <<locks, pings, unlockList, counters, bounds>>
    BY Zenon DEF SplitChunk
  <1>6. \/ Goto(c, "commit") /\ op' = [op EXCEPT ![c].request = r]
        \/ Goto(c, "unlock") /\ UNCHANGED op
    BY Zenon DEF SplitChunk, r
  <1>7. Asks(c, r, op[c].chunkBoundaries)
    BY Zenon, <1>4, <1>6 DEF Asks
  <1> QED  BY <1>2, <1>3, <1>5, <1>7, AsksKeeps

(* mergeChunks keeps the invariant: it knows the boundaries it asks to merge. *)
LEMMA MergeChunksKeeps ==
    ASSUME IndInv, NEW c \in Clients, NEW min \in Keys, NEW max \in Keys, min < max,
           MergeChunks(c, Merge(min, max))
    PROVE  IndInv'
  <1> DEFINE r == Merge(min, max)
  <1>1. r \in Requests /\ r.min = min /\ r.max = max
    BY DEF Requests, Merge
  <1>2. op[c] \in Op /\ Between(r) \in SUBSET Keys
    BY DEF IndInv, OpTypes, Between
  <1>3. {min, max} \subseteq bounds => {r.min, r.max} \subseteq Between(r)
    BY <1>1, MaxKeyAssumption DEF Between, Keys
  <1> HIDE DEF r
  <1>4. [op EXCEPT ![c].request = r, ![c].chunkBoundaries = Between(r)]
            = [op EXCEPT ![c] = [op[c] EXCEPT !.request = r, !.chunkBoundaries = Between(r)]]
    BY Zenon, <1>2 DEF Op
  <1>5. At(c, "held") /\ UNCHANGED <<locks, pings, unlockList, counters, bounds>>
    BY Zenon DEF MergeChunks
  <1>6. \/ /\ {r.min, r.max} \subseteq bounds /\ Goto(c, "commit")
           /\ op' = [op EXCEPT ![c].request = r, ![c].chunkBoundaries = Between(r)]
        \/ Goto(c, "unlock") /\ UNCHANGED op
    BY Zenon DEF MergeChunks, r
  <1>7. CASE /\ {r.min, r.max} \subseteq bounds /\ Goto(c, "commit")
             /\ op' = [op EXCEPT ![c].request = r, ![c].chunkBoundaries = Between(r)]
    <2>1. Asks(c, r, Between(r))
      BY Zenon, <1>4, <1>7 DEF Asks
    <2> QED  BY <1>1, <1>2, <1>3, <1>5, <1>7, <2>1, AsksKeeps
  <1>8. CASE Goto(c, "unlock") /\ UNCHANGED op
    <2>1. {r.min, r.max} \in SUBSET Keys /\ Asks(c, r, {r.min, r.max})
      BY <1>1, <1>8 DEF Asks
    <2> QED  BY <1>1, <1>5, <2>1, AsksKeeps
  <1> QED  BY <1>6, <1>7, <1>8

(* The outcomes of a commit: whether it was executed, and what is known of *)
(* that.                                                                   *)
Outcome(c, executed, pc, tries, result) ==
    /\ executed => Accepts(c)
    /\ bounds' = IF executed THEN Committed(op[c].request) ELSE bounds
    /\ Goto(c, pc)
    /\ op' = [op EXCEPT ![c] = [op[c] EXCEPT !.took = @ \/ executed, !.tries = tries, !.result = result]]
    /\ result = "ok" => executed \/ op[c].result = "ok"
    /\ pc # "unlock" => result # "unknown"

(* Every outcome keeps the invariant. *)
LEMMA OutcomeKeeps ==
    ASSUME IndInv, NEW c \in Clients, At(c, "commit"), UNCHANGED <<locks, pings, unlockList, counters>>,
           NEW executed \in BOOLEAN, NEW pc \in {"commit", "verify", "unlock"}, NEW tries \in Nat,
           NEW result \in {"none", "ok", "unknown"}, Outcome(c, executed, pc, tries, result)
    PROVE  IndInv'
  <1> DEFINE took == op[c].took \/ executed
             o == [op[c] EXCEPT !.took = took, !.tries = tries, !.result = result]
  <1>0. LockTypes /\ OpTypes /\ op[c] \in Op /\ Knows(c) /\ client[c].pc \in Holding
    BY DEF IndInv, LockInv, OpTypes, OpOk, At, Holding
  <1>1. took \in BOOLEAN
    OBVIOUS
  <1>2. op' = [op EXCEPT ![c] = o]
    BY DEF Outcome
  <1> HIDE DEF took
  <1>3. /\ o \in Op /\ o.took = took /\ o.result = result
        /\ o.request = op[c].request /\ o.chunkBoundaries = op[c].chunkBoundaries
    BY Zenon, <1>0, <1>1 DEF Op
  <1> HIDE DEF o
  <1>4. op' \in [Clients -> Op] /\ op'[c] = o /\ \A d \in Clients \ {c} : op'[d] = op[d]
    BY <1>0, <1>2, <1>3 DEF OpTypes
  <1>5. client'[c].pc = pc
    BY <1>0, GotoKeeps DEF Pcs, Holding, Outcome
  <1>6. bounds' \subseteq Keys /\ (executed \/ TookPlace(c) => TookPlace(c)')
    <2>1. CASE executed
      BY <1>0, <1>3, <1>4, <2>1, CommittedTookPlace DEF Outcome
    <2>2. CASE ~executed
      BY <1>0, <1>3, <1>4, <2>2 DEF OpTypes, TookPlace, Between, Outcome
    <2> QED  BY <2>1, <2>2
  <1>7. took \/ result = "ok" => TookPlace(c)'
    BY <1>0, <1>6 DEF Knows, took, Outcome
  <1>8. OpOk(c)'
    <2>1. pc # "unlock" => Knows(c)'
      <3>1. /\ op'[c].request = op[c].request /\ op'[c].chunkBoundaries = op[c].chunkBoundaries
            /\ op'[c].took = took /\ op'[c].result = result
        BY <1>3, <1>4
      <3>2. pc # "unlock" => result \in {"none", "ok"}
        BY DEF Outcome
      <3> QED  BY <1>0, <1>7, <3>1, <3>2 DEF Knows
    <2>2. Reported(c)'
      BY <1>3, <1>4, <1>7 DEF Reported
    <2> QED  BY <1>5, <2>1, <2>2 DEF OpOk, Early, Seeking
  <1> QED  BY <1>0, <1>4, <1>6, <1>8, WorkerKeeps DEF Holding, Outcome

(* The commit, answered or not, has one of these outcomes. *)
LEMMA CommitKeeps ==
    ASSUME IndInv, NEW c \in Clients, Commit(c)
    PROVE  IndInv'
  <1> DEFINE r == op[c].request
  <1>0. /\ op \in [Clients -> Op] /\ op[c] \in Op /\ op[c].took \in BOOLEAN /\ op[c].tries \in Nat
        /\ op[c].result \in {"none", "ok"}
    BY Zenon DEF IndInv, OpTypes, Op, OpOk, Knows, Commit, At
  <1>1. At(c, "commit") /\ UNCHANGED <<locks, pings, unlockList, counters>>
    BY Zenon DEF Commit
  <1>2. CASE /\ bounds' = IF Accepts(c) THEN Committed(r) ELSE bounds
             /\ Goto(c, IF Accepts(c) /\ r.kind = "split" THEN "unlock" ELSE "verify")
             /\ op' = [op EXCEPT ![c].took = op[c].took \/ Accepts(c),
                                 ![c].result = IF Accepts(c) THEN "ok" ELSE @]
    <2> DEFINE pc == IF Accepts(c) /\ r.kind = "split" THEN "unlock" ELSE "verify"
    <2>1. CASE Accepts(c)
      <3>1. op' = [op EXCEPT ![c] = [op[c] EXCEPT !.took = @ \/ TRUE, !.tries = op[c].tries, !.result = "ok"]]
        BY Zenon, <1>0, <1>2, <2>1 DEF Op
      <3>2. Outcome(c, TRUE, pc, op[c].tries, "ok")
        BY Zenon, <1>0, <1>2, <2>1, <3>1 DEF Outcome
      <3> QED  BY Zenon, <1>0, <1>1, <3>2, OutcomeKeeps
    <2>2. CASE ~Accepts(c)
      <3>1. op' = [op EXCEPT ![c] = [op[c] EXCEPT !.took = @ \/ FALSE, !.tries = op[c].tries, !.result = op[c].result]]
        BY Zenon, <1>0, <1>2, <2>2 DEF Op
      <3>2. Outcome(c, FALSE, pc, op[c].tries, op[c].result)
        BY Zenon, <1>0, <1>2, <2>2, <3>1 DEF Outcome
      <3> QED  BY Zenon, <1>0, <1>1, <3>2, OutcomeKeeps
    <2> QED  BY <2>1, <2>2
  <1>3. CASE Accepts(c) /\ bounds' = Committed(r) /\ Goto(c, "verify") /\ op' = [op EXCEPT ![c].took = TRUE]
    <2>1. Outcome(c, TRUE, "verify", op[c].tries, op[c].result)
      BY Zenon, <1>0, <1>3 DEF Op, Outcome
    <2> QED  BY Zenon, <1>0, <1>1, <2>1, OutcomeKeeps
  <1>4. ASSUME NEW executed \in BOOLEAN, NEW last \in BOOLEAN, executed => Accepts(c),
               bounds' = IF executed THEN Committed(r) ELSE bounds,
               op' = [op EXCEPT ![c].took = @ \/ executed, ![c].tries = @ + 1,
                                ![c].result = IF last THEN "unknown" ELSE @],
               Goto(c, IF last THEN "unlock" ELSE "commit")
        PROVE  IndInv'
    <2> DEFINE tries == op[c].tries + 1
               result == IF last THEN "unknown" ELSE op[c].result
    <2>1. tries \in Nat /\ result \in {"none", "ok", "unknown"}
      BY <1>0
    <2>2. (result = "ok" => op[c].result = "ok") /\ (~last => result # "unknown")
      BY <1>0
    <2>3. Outcome(c, executed, IF last THEN "unlock" ELSE "commit", tries, result)
      BY <1>0, <1>4, <2>2 DEF Op, Outcome
    <2> HIDE DEF tries, result
    <2> QED  BY <1>1, <2>1, <2>3, OutcomeKeeps
  <1> QED  BY Zenon, <1>2, <1>3, <1>4 DEF Commit

(* The look at the refreshed metadata tells what took place. *)
LEMMA VerifyKeeps ==
    ASSUME IndInv, NEW c \in Clients, Verify(c)
    PROVE  IndInv'
  <1>0. /\ LockTypes /\ OpTypes /\ op[c] \in Op /\ op[c].took \in BOOLEAN /\ Knows(c) /\ client[c].pc \in Holding
        /\ Goto(c, "unlock") /\ UNCHANGED <<locks, pings, unlockList, counters, bounds>>
    BY DEF IndInv, LockInv, OpTypes, Op, OpOk, Verify, At, Holding
  <1>1. PICK result \in {"ok", "failed", "unknown"} :
          /\ op' = [op EXCEPT ![c].result = result]
          /\ result = "ok" => op[c].result = "ok" \/ TookPlace(c)
          /\ result = "failed" => ~TookPlace(c)
    BY <1>0 DEF Verify, OpTypes
  <1>2. /\ op' \in [Clients -> Op] /\ \A d \in Clients \ {c} : op'[d] = op[d]
        /\ op'[c].result = result /\ op'[c].took = op[c].took /\ op'[c].request = op[c].request
    BY <1>0, <1>1 DEF OpTypes, Op
  <1>3. client'[c].pc = "unlock"
    BY <1>0, GotoKeeps DEF Pcs, Holding
  <1>4. TookPlace(c) => TookPlace(c)'
    BY <1>0, <1>2 DEF TookPlace, Between
  <1>5. OpOk(c)'
    BY <1>0, <1>1, <1>2, <1>3, <1>4 DEF OpOk, Knows, Reported, Early, Seeking
  <1> QED  BY <1>0, <1>2, <1>5, WorkerKeeps DEF Holding, OpTypes

--------------------------------------------------------------------------------
(* Every step of the specification keeps the invariant. *)
LEMMA NextKeeps == IndInv /\ [Next]_vars => IndInv'
  <1> SUFFICES ASSUME IndInv, [Next]_vars PROVE IndInv'
    OBVIOUS
  <1>0. LockInv /\ LockTypes /\ OpTypes /\ \A d \in Clients : OpOk(d)
    BY DEF IndInv, LockInv
  <1>1. ASSUME NEW c \in Clients, NEW n \in Names, Begin(c, n), UNCHANGED <<bounds, op>> PROVE IndInv'
    <2>1. \A d \in Clients : client'[d].pc = client[d].pc \/ (client[d].pc = "idle" /\ client'[d].pc = "grab")
      BY <1>0, <1>1 DEF Begin, At, LockTypes, Client
    <2>2. LockInv'
      BY <1>0, <1>1, BeginKeeps
    <2>3. OpTypes' /\ \A d \in Clients : OpOk(d)'
      BY <1>0, <1>1, <2>1, IdleKeeps
    <2> QED  BY <2>2, <2>3 DEF IndInv
  <1>2. ASSUME NEW c \in Clients, LockStep(c), op' = [op EXCEPT ![c] = NoOp], UNCHANGED bounds PROVE IndInv'
    <2>1. client'[c].pc \in Early /\ \A d \in Clients \ {c} : client'[d] = client[d]
      BY <1>0, <1>2, LockStepIsEarly
    <2>2. LockInv'
      BY <1>0, <1>2, LockStepKeeps
    <2>3. OpTypes' /\ \A d \in Clients : OpOk(d)'
      BY Zenon, <1>0, <1>2, <2>1, ForgetKeeps
    <2> QED  BY <2>2, <2>3 DEF IndInv
  <1>3. ASSUME NEW c \in Clients, PingerUnlocks(c), UNCHANGED <<bounds, op>> PROVE IndInv'
    <2>1. LockInv' /\ UNCHANGED client
      BY Zenon, <1>0, <1>3, PingerUnlocksKeeps DEF PingerUnlocks
    <2>2. OpTypes' /\ \A d \in Clients : OpOk(d)'
      BY <1>0, <1>3, <2>1, UnchangedKeeps
    <2> QED  BY <2>1, <2>2 DEF IndInv
  <1>4. ASSUME NEW c \in Clients, Crashes(c) PROVE IndInv'
    <2>1. client'[c].pc \in Early /\ \A d \in Clients \ {c} : client'[d] = client[d]
      BY <1>0, <1>4 DEF Crashes, ClientCrash, LockTypes, NewClient, Early
    <2>2. LockInv'
      BY <1>0, <1>4, ClientCrashKeeps DEF Crashes
    <2>3. OpTypes' /\ \A d \in Clients : OpOk(d)'
      BY Zenon, <1>0, <1>4, <2>1, ForgetKeeps DEF Crashes
    <2> QED  BY <2>2, <2>3 DEF IndInv
  <1>5. ASSUME Elapse \/ ConfigElection, UNCHANGED <<bounds, op>> PROVE IndInv'
    <2>1. UNCHANGED client
      BY <1>5 DEF Elapse, ConfigElection
    <2>2. LockInv'
      BY <1>0, <1>5, ElapseKeeps, ConfigElectionKeeps
    <2>3. OpTypes' /\ \A d \in Clients : OpOk(d)'
      BY <1>0, <1>5, <2>1, UnchangedKeeps
    <2> QED  BY <2>2, <2>3 DEF IndInv
  <1>6. CASE UNCHANGED vars
    <2>1. UNCHANGED <<locks, pings, client, unlockList, now, crashes, term, bounds, op>>
      BY <1>6 DEF vars, lockVars
    <2>2. LockInv'
      BY <1>0, <2>1, TermKeeps DEF LockTypes
    <2>3. OpTypes' /\ \A d \in Clients : OpOk(d)'
      BY <1>0, <2>1, UnchangedKeeps
    <2> QED  BY <2>2, <2>3 DEF IndInv
  <1>7. CASE Next
    BY <1>1, <1>2, <1>3, <1>4, <1>5, <1>7, SplitChunkKeeps, MergeChunksKeeps, CommitKeeps, VerifyKeeps DEF Next
  <1> QED  BY <1>6, <1>7

(* The invariant holds always. *)
LEMMA Invariance == Spec => []IndInv
  BY Initially, NextKeeps, PTL DEF Spec

(* No two servers split or merge under the collection's lock at the same   *)
(* time, however many crash, are overtaken or repeat their calls           *)
(* (ReplSetDistLockManager::lockWithSessionID and isLockExpired).          *)
THEOREM OperationsExclude == Spec => []MutualExclusion
  <1>1. IndInv => MutualExclusion
    BY LockInvSuffices DEF IndInv
  <1> QED  BY <1>1, Invariance, PTL

(* A lock in the name of a process that runs is in use or will be released *)
(* (ReplSetDistLockManager::queueUnlock, doTask).                          *)
THEOREM LocksAreReleased == Spec => []NoLockIsLeaked
  <1>1. IndInv => NoLockIsLeaked
    BY LockInvSuffices DEF IndInv
  <1> QED  BY <1>1, Invariance, PTL

(* What splitChunk and mergeChunks report is what took place, also when    *)
(* the answer to their commit was lost (the checks of the refreshed        *)
(* metadata after an error).                                               *)
THEOREM ReportsAreTrue == Spec => []ReportedAsItWas
  <1>1. IndInv => ReportedAsItWas
    BY DEF IndInv, OpOk, Reported, ReportedAsItWas, At
  <1> QED  BY <1>1, Invariance, PTL
================================================================================
