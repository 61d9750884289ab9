------------------------------- MODULE ChunkOps -------------------------------
(***************************************************************************)
(* splitChunk and mergeChunks on the servers of a shard, under the         *)
(* collection's distributed lock, and their commit on the config server,   *)
(* whose answer may be lost so that the command is sent again and then     *)
(* refused.  The operation must find out whether it took place.            *)
(***************************************************************************)
EXTENDS DistLock

CONSTANTS
    kOnErrorNumRetries,  \* tries of a call to the config server
    MaxKey               \* the collection's keys are 0 .. MaxKey

ASSUME MaxKeyAssumption == MaxKey \in Nat

(* The chunks are those of one collection, all under the same lock. *)
ASSUME OneCollection == \A m, n \in Names : m = n

VARIABLES
    bounds,  \* config.chunks: where a chunk begins or ends
    op       \* what a server is asked to do, and how far it is

vars == <<lockVars, bounds, op>>

Keys == 0 .. MaxKey

(* A split of [min, max) at a key, or a merge of the chunks from min to max. *)
Split(min, at, max) == [kind |-> "split", min |-> min, at |-> at, max |-> max]
Merge(min, max) == [kind |-> "merge", min |-> min, max |-> max]

NoOp == [request |-> Nobody, chunkBoundaries |-> {}, tries |-> 0, took |-> FALSE, result |-> "none"]

Init ==
    /\ LockInit
    /\ bounds = {0, MaxKey}
    /\ op = [c \in Clients |-> NoOp]

Between(r) == {k \in bounds : r.min <= k /\ k <= r.max}
IsChunk(r) == Between(r) = {r.min, r.max}

--------------------------------------------------------------------------------
(* The lock is taken before the request is looked at.  splitChunk sends    *)
(* the commit at once, unless a split point is of the wrong type.          *)
SplitChunk(c, r) ==
    /\ At(c, "held")
    /\ \/ Goto(c, "commit") /\ op' = [op EXCEPT ![c].request = r]
       \/ Goto(c, "unlock") /\ UNCHANGED op
    /\ UNCHANGED <<locks, pings, unlockList, counters, faults, bounds>>

(* mergeChunks refreshes first, which may fail, and requires the range to  *)
(* start and end at chunks and to have more than one.                      *)
MergeChunks(c, r) ==
    /\ At(c, "held")
    /\ \/ /\ {r.min, r.max} \subseteq bounds /\ ~IsChunk(r)
          /\ Goto(c, "commit")
          /\ op' = [op EXCEPT ![c].request = r, ![c].chunkBoundaries = Between(r)]
       \/ Goto(c, "unlock") /\ UNCHANGED op
    /\ UNCHANGED <<locks, pings, unlockList, counters, faults, bounds>>

(* The commit on the config server, which requires the chunks to be what   *)
(* the request says they are.                                              *)
Accepts(c) ==
    LET r == op[c].request
    IN  IF r.kind = "split" THEN IsChunk(r) ELSE Between(r) = op[c].chunkBoundaries
Committed(r) == IF r.kind = "split" THEN bounds \cup {r.at} ELSE bounds \ (Between(r) \ {r.min, r.max})

(* runCommandWithFixedRetryAttempts for a split, and runCommand, which     *)
(* tries again until it is interrupted, for a merge.                       *)
Commit(c) ==
    LET r == op[c].request
        took == op[c].took \/ Accepts(c)
        done == Accepts(c) /\ r.kind = "split"
    IN  /\ At(c, "commit")
        /\ \/ (* answered *)
              /\ bounds' = IF Accepts(c) THEN Committed(r) ELSE bounds
              /\ Goto(c, IF done THEN "unlock" ELSE "verify")
              /\ op' = [op EXCEPT ![c].took = took, ![c].result = IF Accepts(c) THEN "ok" ELSE @]
              /\ UNCHANGED faults
           \/ (* answered, but not replicated *)
              /\ faults < FaultBound /\ faults' = faults + 1
              /\ Accepts(c) /\ bounds' = Committed(r)
              /\ Goto(c, "verify") /\ op' = [op EXCEPT ![c].took = TRUE]
           \/ (* no answer, executed or not *)
              /\ faults < FaultBound /\ faults' = faults + 1
              /\ \E executed, last \in BOOLEAN :
                    /\ executed => Accepts(c)
                    /\ r.kind = "split" /\ op[c].tries + 1 = kOnErrorNumRetries => last
                    /\ bounds' = IF executed THEN Committed(r) ELSE bounds
                    /\ op' = [op EXCEPT ![c].took = @ \/ executed, ![c].tries = @ + 1,
                                        ![c].result = IF last THEN "unknown" ELSE @]
                    /\ Goto(c, IF last THEN "unlock" ELSE "commit")
        /\ UNCHANGED <<locks, pings, unlockList, counters>>

(* refreshMetadataNow and, after an error, the look at the chunks it       *)
(* finds.  A merge refreshes in any case.                                  *)
TookPlace(c) ==
    LET r == op[c].request
    IN  IF r.kind = "split" THEN Between(r) = {r.min, r.at, r.max} ELSE Between(r) = {r.min, r.max}
\* Mutant: the error is reported without a look at the metadata.
FailAtOnce(c) ==
    /\ At(c, "verify")
    /\ op' = [op EXCEPT ![c].result = IF @ = "ok" THEN @ ELSE "failed"]
    /\ Goto(c, "unlock")
    /\ UNCHANGED <<locks, pings, unlockList, counters, faults, bounds>>
Verify(c) ==
    /\ At(c, "verify")
    /\ \/ /\ op' = [op EXCEPT ![c].result = IF @ = "ok" \/ TookPlace(c) THEN "ok" ELSE "failed"]
          /\ UNCHANGED faults
       \/ /\ faults < FaultBound /\ faults' = faults + 1
          /\ op' = [op EXCEPT ![c].result = "unknown"]
    /\ Goto(c, "unlock")
    /\ UNCHANGED <<locks, pings, unlockList, counters, bounds>>

Crashes(c) ==
    /\ ClientCrash(c)
    /\ op' = [op EXCEPT ![c] = NoOp]
    /\ UNCHANGED bounds

Next ==
    \/ \E c \in Clients :
        \/ \E n \in Names : Begin(c, n) /\ UNCHANGED <<bounds, op>>
        \/ LockStep(c) /\ op' = [op EXCEPT ![c] = NoOp] /\ UNCHANGED bounds
        \/ PingerUnlocks(c) /\ UNCHANGED <<bounds, op>>
        \/ \E min, max \in Keys :
            \/ \E at \in (min + 1) .. (max - 1) : SplitChunk(c, Split(min, at, max))
            \/ min < max /\ MergeChunks(c, Merge(min, max))
        \/ Commit(c) \/ Verify(c) \/ Crashes(c)
    \/ (Elapse \/ ConfigElection) /\ UNCHANGED <<bounds, op>>

Spec == Init /\ [][Next]_vars

--------------------------------------------------------------------------------
(* An operation that reports success has its chunks in the catalog, and    *)
(* one that reports failure did not take place, also when the answer to    *)
(* its commit was lost and the commit was refused when it was repeated.    *)
ReportedAsItWas ==
    \A c \in Clients : At(c, "unlock") =>
        /\ op[c].result = "ok" => TookPlace(c)
        /\ op[c].result = "failed" => ~op[c].took

================================================================================
