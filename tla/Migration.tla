------------------------------- MODULE Migration -------------------------------
(***************************************************************************)
(* Migrations of chunks from donor shards to one recipient shard: the      *)
(* donor's thread (MigrationSourceManager with its cloner), the            *)
(* recipient's state object and thread (MigrationDestinationManager), the  *)
(* commit on the config server, client writes on both sides, crashes, and  *)
(* messages that are lost or late.                                         *)
(*                                                                         *)
(* Each donor has one chunk to give, holding at most one document, whose   *)
(* value is the number of the write that made it (0: no document).  Once   *)
(* moved a chunk stays, so that the config server's record of it, and its  *)
(* opTime, is 0 before the commit and 1 after.                             *)
(***************************************************************************)
EXTENDS Integers, Sequences, SequencesExt

CONSTANTS
    Donors,        \* shards that donate their chunk
    AttemptBound,  \* migrations a donor tries
    WriteBound,    \* client writes, the initial one included
    CrashBound,    \* crashes of donors and of the recipient
    LateBound,     \* requests executed after their sender gave up on them
    Overtaking     \* TRUE: commit handlers may run in another order than the commits

VARIABLES
    cfg,       \* the config server: 0 the chunk is at its donor, 1 at the recipient
    donor,     \* a donor's volatile state
    recovery,  \* a donor's minOpTime recovery document, on disk
    dDoc,      \* the document of the chunk on the donor
    rDoc,      \* and on the recipient
    recv,      \* the recipient's MigrationDestinationManager and its thread
    owns,      \* the chunks the recipient knows to own
    waiters,   \* sessions whose _recvChunkCommit waits on the recipient
    msgs,      \* requests under way
    acked,     \* client writes so far
    crashes, late,
    alive      \* FALSE once an invariant of the code has failed

vars == <<cfg, donor, recovery, dDoc, rDoc, recv, owns, waiters, msgs, acked, crashes, late, alive>>
bounds == <<crashes, late>>

NoSession == <<>>
Session(c) == <<c, donor[c].attempt>>

(* A shard just started, whose metadata is unknown and that has no          *)
(* migration; known is the config server opTime it has seen.                *)
Restarted(n) ==
    [pc |-> "recover", attempt |-> n, known |-> 0, meta |-> "unknown", crit |-> "none",
     cloner |-> "none", cloneLocs |-> FALSE, reload |-> FALSE, deleted |-> FALSE,
     hooks |-> <<>>, committed |-> FALSE]

NoRecv == [session |-> NoSession, state |-> "READY", pc |-> "idle",
           transferAfterCommit |-> FALSE, finish |-> FALSE, marked |-> FALSE]

Init ==
    /\ cfg = [c \in Donors |-> 0]
    /\ donor = [c \in Donors |-> Restarted(0)]
    /\ recovery = [c \in Donors |-> [updaters |-> 0, minOpTime |-> 0]]
    /\ dDoc = [c \in Donors |-> 1]
    /\ rDoc = [c \in Donors |-> 0]
    /\ recv = NoRecv
    /\ owns = {} /\ waiters = {} /\ msgs = {}
    /\ acked = 1 /\ crashes = 0 /\ late = 0
    /\ alive = TRUE

--------------------------------------------------------------------------------
(***************************************************************************)
(* Clients.  A donor takes writes while it believes to own the chunk and   *)
(* is not in the critical section; the recipient once it knows of the      *)
(* move.  The donor's cloner learns of a write from a commit handler that  *)
(* runs after the storage has committed it, with the lock still held.      *)
(***************************************************************************)
TakesWrites(c) == donor[c].meta = "own" /\ donor[c].crit = "none"
TakesReads(c) == donor[c].meta = "own" /\ donor[c].crit # "reads"

(* onInsertOp, onUpdateOp, onDeleteOp; a removal is taken off cloneLocs at *)
(* once by DeleteNotificationStage.                                        *)
Track(d, op) ==
    IF d.cloner = "none" THEN d
    ELSE [d EXCEPT !.hooks = Append(@, op), !.cloneLocs = @ /\ op # "d"]

Values(doc) == {<<"u", acked + 1>>} \cup (IF doc = 0 THEN {} ELSE {<<"d", 0>>})

DonorWrite(c) ==
    /\ TakesWrites(c) /\ acked < WriteBound
    /\ \E w \in Values(dDoc[c]) :
        /\ dDoc' = [dDoc EXCEPT ![c] = w[2]]
        /\ donor' = [donor EXCEPT ![c] = Track(@, w[1])]
    /\ acked' = acked + 1
    /\ UNCHANGED <<cfg, recovery, rDoc, recv, owns, waiters, msgs, bounds, alive>>

(* LogOpForShardingHandler::commit *)
LogOp(c) ==
    /\ \E i \in DOMAIN donor[c].hooks :
        /\ i # 1 => Overtaking
        /\ donor' = [donor EXCEPT ![c].hooks = RemoveAt(@, i),
                                  ![c].reload = @ \/ donor[c].hooks[i] = "u",
                                  ![c].deleted = @ \/ donor[c].hooks[i] = "d"]
    /\ UNCHANGED <<cfg, recovery, dDoc, rDoc, recv, owns, waiters, msgs, acked, bounds, alive>>

RecipientWrite(c) ==
    /\ c \in owns /\ acked < WriteBound
    /\ \E w \in Values(rDoc[c]) : rDoc' = [rDoc EXCEPT ![c] = w[2]]
    /\ acked' = acked + 1
    /\ UNCHANGED <<cfg, donor, recovery, dDoc, recv, owns, waiters, msgs, bounds, alive>>

(***************************************************************************)
(* Refreshes read the config server's replicas at the opTime the shard has *)
(* seen or later, so possibly before the latest commit.                    *)
(***************************************************************************)
Readable(c) == donor[c].known .. cfg[c]
Meta(v) == IF v = 0 THEN "own" ELSE "gone"
Newer(d, v) == IF d.meta = "gone" THEN d ELSE [d EXCEPT !.meta = Meta(v), !.known = IF v > @ THEN v ELSE @]

(* A versioned operation finds the metadata unknown or older than its own; *)
(* it waits out a critical section first.                                  *)
DonorRefresh(c) ==
    /\ donor[c].pc # "recover" /\ donor[c].crit = "none" /\ donor[c].hooks = <<>>
    /\ \E v \in Readable(c) : donor' = [donor EXCEPT ![c] = Newer(@, v)]
    /\ UNCHANGED <<cfg, recovery, dDoc, rDoc, recv, owns, waiters, msgs, acked, bounds, alive>>

RecipientRefresh(c) ==
    /\ cfg[c] = 1 /\ owns' = owns \cup {c}
    /\ UNCHANGED <<cfg, donor, recovery, dDoc, rDoc, recv, waiters, msgs, acked, bounds, alive>>

--------------------------------------------------------------------------------
(***************************************************************************)
(* The donor's thread: MoveChunkCommand::_runImpl.                         *)
(***************************************************************************)
At(c, pc) == donor[c].pc = pc
Goto(c, pc) == donor' = [donor EXCEPT ![c].pc = pc]

(* The collection's X lock: no write is between its version check and its  *)
(* commit handler.                                                         *)
ExclusiveLock(c) == donor[c].hooks = <<>>

(* The constructor refreshes and requires ownership; startClone registers  *)
(* the cloner.                                                             *)
Begin(c) ==
    /\ At(c, "idle") /\ donor[c].attempt < AttemptBound /\ ExclusiveLock(c)
    /\ donor[c].meta # "gone" /\ 0 \in Readable(c)
    /\ donor' = [donor EXCEPT ![c].pc = "scan", ![c].attempt = @ + 1, ![c].meta = "own",
                              ![c].cloner = "new", ![c].committed = FALSE]
    /\ UNCHANGED <<cfg, recovery, dDoc, rDoc, recv, owns, waiters, msgs, acked, bounds, alive>>

(* _storeCurrentLocs, then _recvChunkStart is sent. *)
StoreCurrentLocs(c) ==
    /\ At(c, "scan")
    /\ donor' = [donor EXCEPT ![c].pc = "starting", ![c].cloneLocs = dDoc[c] # 0]
    /\ msgs' = msgs \cup {<<"start", Session(c)>>}
    /\ UNCHANGED <<cfg, recovery, dDoc, rDoc, recv, owns, waiters, acked, bounds, alive>>

(* awaitUntilCriticalSectionIsAppropriate: "steady" is looked at before    *)
(* the session id of the answer is.                                        *)
CaughtUp(c) ==
    /\ At(c, "cloning") /\ recv.state = "STEADY" /\ ~donor[c].cloneLocs
    /\ Goto(c, "caughtup")
    /\ UNCHANGED <<cfg, recovery, dDoc, rDoc, recv, owns, waiters, msgs, acked, bounds, alive>>

(* startMetadataOp and endMetadataOp, which record the opTime as well *)
ModifyRecoveryDocument(c, by) ==
    recovery' = [recovery EXCEPT ![c] = [updaters |-> @.updaters + by, minOpTime |-> donor[c].known]]

StartMetadataOp(c) ==
    /\ At(c, "caughtup")
    /\ ModifyRecoveryDocument(c, 1)
    /\ Goto(c, "enter")
    /\ UNCHANGED <<cfg, dDoc, rDoc, recv, owns, waiters, msgs, acked, bounds, alive>>

EnterCriticalSection(c) ==
    /\ At(c, "enter") /\ ExclusiveLock(c)
    /\ donor' = [donor EXCEPT ![c].pc = "critical", ![c].crit = "writes"]
    /\ UNCHANGED <<cfg, recovery, dDoc, rDoc, recv, owns, waiters, msgs, acked, bounds, alive>>

(* commitClone; its answer is handled by CommitAnswered. *)
CommitClone(c) ==
    /\ At(c, "critical")
    /\ Goto(c, "commitclone")
    /\ msgs' = msgs \cup {<<"commit", Session(c)>>}
    /\ UNCHANGED <<cfg, recovery, dDoc, rDoc, recv, owns, waiters, acked, bounds, alive>>

(* The answer to _recvChunkCommit reaches the donor, if that still waits. *)
CommitAnswered(s, ok) ==
    donor' = IF donor[s[1]].pc = "commitclone" /\ donor[s[1]].attempt = s[2]
             THEN [donor EXCEPT ![s[1]].pc = IF ok THEN "cloned" ELSE "failed",
                                ![s[1]].cloner = IF ok THEN "done" ELSE @]
             ELSE donor

(* commitChunkMetadataOnConfig: reads wait too, then the commit is sent. *)
SendConfigCommit(c) ==
    /\ At(c, "cloned") /\ ExclusiveLock(c)
    /\ donor' = [donor EXCEPT ![c].pc = "committing", ![c].crit = "reads"]
    /\ msgs' = msgs \cup {<<"move", Session(c)>>}
    /\ UNCHANGED <<cfg, recovery, dDoc, rDoc, recv, owns, waiters, acked, bounds, alive>>

(* The config server executes the request; a repeated one is refused, as   *)
(* the chunk is no longer at the donor.                                    *)
ConfigCommit(c, n) ==
    /\ <<"move", <<c, n>>>> \in msgs /\ cfg[c] = 0
    /\ cfg' = [cfg EXCEPT ![c] = 1]
    /\ late' = IF donor[c].pc = "committing" /\ donor[c].attempt = n THEN late ELSE late + 1
    /\ late' <= LateBound
    /\ UNCHANGED <<donor, recovery, dDoc, rDoc, recv, owns, waiters, msgs, acked, crashes, alive>>

(* The answer: success, or an error whether or not the commit took place. *)
ConfigAnswers(c) ==
    /\ At(c, "committing")
    /\ \/ /\ cfg[c] = 1
          /\ donor' = [donor EXCEPT ![c].pc = "refresh", ![c].known = 1, ![c].committed = TRUE]
       \/ Goto(c, "validating")
    /\ UNCHANGED <<cfg, recovery, dDoc, rDoc, recv, owns, waiters, msgs, acked, bounds, alive>>

(* A majority write to the config server yields its latest opTime.  When   *)
(* that fails the node crashes, or is no longer primary: Crash.            *)
Validate(c) ==
    /\ At(c, "validating")
    /\ donor' = [donor EXCEPT ![c].pc = "refresh", ![c].known = cfg[c]]
    /\ UNCHANGED <<cfg, recovery, dDoc, rDoc, recv, owns, waiters, msgs, acked, bounds, alive>>

(* Up to two refreshes, of which the first may have joined one that was    *)
(* under way before the commit.                                            *)
\* Mutant: one refresh has to do.
NoRetry(c) == "failed"
\* Mutant: the number of refreshes is not bounded.
KeepRefreshing(c) == IF At(c, "refresh") THEN "refresh again" ELSE "refresh"
StillOwned(c) == IF At(c, "refresh") THEN "refresh again" ELSE "failed"
RefreshAfterCommit(c) ==
    /\ donor[c].pc \in {"refresh", "refresh again"}
    /\ \E v \in (IF At(c, "refresh") THEN 0 .. cfg[c] ELSE Readable(c)) :
        /\ donor' = [donor EXCEPT ![c] =
                [Newer(@, v) EXCEPT !.pc = IF donor[c].meta = "gone" \/ v = 1 THEN "succeeded"
                                           ELSE StillOwned(c)]]
        /\ alive' = ~(donor'[c].pc = "failed" /\ donor[c].committed)
    /\ UNCHANGED <<cfg, recovery, dDoc, rDoc, recv, owns, waiters, msgs, acked, bounds>>

RefreshFails(c) ==
    /\ donor[c].pc \in {"refresh", "refresh again"}
    /\ ExclusiveLock(c)
    /\ donor' = [donor EXCEPT ![c].pc = "failed", ![c].meta = "unknown"]
    /\ UNCHANGED <<cfg, recovery, dDoc, rDoc, recv, owns, waiters, msgs, acked, bounds, alive>>

(* An RPC of the donor fails or times out, or a check refuses to go on. *)
GiveUp(c) ==
    /\ donor[c].pc \in {"scan", "starting", "cloning", "caughtup", "critical", "commitclone", "cloned"}
    /\ Goto(c, "failed")
    /\ UNCHANGED <<cfg, recovery, dDoc, rDoc, recv, owns, waiters, msgs, acked, bounds, alive>>

(* _cleanup: the cloner goes and the critical section ends under the lock; *)
(* the recipient is told to abort if it was told to start.                 *)
\* Mutant: the range is cleaned up after a failure too.
AlwaysCleanUp(c) == IF donor[c].crit = "none" THEN "idle" ELSE "end"
AfterCleanup(c) ==
    IF At(c, "succeeded") THEN "end" ELSE IF donor[c].crit = "none" THEN "idle" ELSE "end failed"
Cleanup(c) ==
    /\ donor[c].pc \in {"failed", "succeeded"} /\ ExclusiveLock(c)
    /\ donor' = [donor EXCEPT ![c] =
            [@ EXCEPT !.crit = "none", !.pc = AfterCleanup(c), !.cloner = "none",
                      !.cloneLocs = FALSE, !.reload = FALSE, !.deleted = FALSE]]
    /\ msgs' = IF donor[c].cloner = "cloning" THEN msgs \cup {<<"abort", Session(c)>>} ELSE msgs
    /\ UNCHANGED <<cfg, recovery, dDoc, rDoc, recv, owns, waiters, acked, bounds, alive>>

EndMetadataOp(c) ==
    /\ donor[c].pc \in {"end", "end failed"}
    /\ ModifyRecoveryDocument(c, -1)
    /\ Goto(c, IF At(c, "end") THEN "cleanup range" ELSE "idle")
    /\ UNCHANGED <<cfg, dDoc, rDoc, recv, owns, waiters, msgs, acked, bounds, alive>>

(* cleanUpRange and the range deleter *)
CleanUpRange(c) ==
    /\ At(c, "cleanup range")
    /\ dDoc' = [dDoc EXCEPT ![c] = 0]
    /\ Goto(c, "idle")
    /\ UNCHANGED <<cfg, recovery, rDoc, recv, owns, waiters, msgs, acked, bounds, alive>>

(* ShardingStateRecovery::recover: with an operation recorded as under     *)
(* way, a majority write to the config server yields its latest opTime.    *)
\* Mutant: operations under way at the crash are not looked at.
TrustMinOpTime(c) == recovery[c].minOpTime
RecoveredOpTime(c) == IF recovery[c].updaters = 0 THEN recovery[c].minOpTime ELSE cfg[c]
Recover(c) ==
    /\ At(c, "recover")
    /\ donor' = [donor EXCEPT ![c].pc = "idle", ![c].known = RecoveredOpTime(c)]
    /\ recovery' = [recovery EXCEPT ![c] = [updaters |-> 0, minOpTime |-> donor'[c].known]]
    /\ UNCHANGED <<cfg, dDoc, rDoc, recv, owns, waiters, msgs, acked, bounds, alive>>

Crash(c) ==
    /\ crashes < CrashBound /\ crashes' = crashes + 1
    /\ donor' = [donor EXCEPT ![c] = Restarted(@.attempt)]
    /\ UNCHANGED <<cfg, recovery, dDoc, rDoc, recv, owns, waiters, msgs, acked, late, alive>>

--------------------------------------------------------------------------------
(***************************************************************************)
(* The recipient's commands.                                               *)
(***************************************************************************)
(* _recvChunkStart: refused while a chunk is being received.  The answer   *)
(* reaches the donor, or it does not and the donor gives up.               *)
RecvChunkStart(s) ==
    /\ <<"start", s>> \in msgs /\ msgs' = msgs \ {<<"start", s>>}
    /\ LET waits   == Session(s[1]) = s /\ donor[s[1]].pc = "starting"
           refused == recv.session # NoSession
       IN  /\ late' = IF waits THEN late ELSE late + 1
           /\ late' <= LateBound
           /\ recv' = IF refused THEN recv ELSE [NoRecv EXCEPT !.session = s, !.pc = "begin"]
           /\ \/ waits /\ donor' = [donor EXCEPT ![s[1]].pc = IF refused THEN "failed" ELSE "cloning",
                                                 ![s[1]].cloner = IF refused THEN @ ELSE "cloning"]
              \/ UNCHANGED donor
    /\ UNCHANGED <<cfg, recovery, dDoc, rDoc, owns, waiters, acked, crashes, alive>>

(* startCommit up to its wait *)
StartCommit(s) ==
    /\ <<"commit", s>> \in msgs /\ msgs' = msgs \ {<<"commit", s>>}
    /\ IF recv.state = "STEADY" /\ recv.session = s
       THEN /\ recv' = [recv EXCEPT !.state = "COMMIT_START", !.finish = TRUE]
            /\ waiters' = waiters \cup {s}
            /\ UNCHANGED donor
       ELSE CommitAnswered(s, FALSE) /\ UNCHANGED <<recv, waiters>>
    /\ UNCHANGED <<cfg, recovery, dDoc, rDoc, owns, acked, bounds, alive>>

(* The wait of startCommit ends once no session is active, or after 30     *)
(* seconds.                                                                *)
StartCommitReturns(s) ==
    /\ s \in waiters /\ recv.session = NoSession
    /\ waiters' = waiters \ {s}
    /\ CommitAnswered(s, recv.state = "DONE")
    /\ UNCHANGED <<cfg, recovery, dDoc, rDoc, recv, owns, msgs, acked, bounds, alive>>

StartCommitTimesOut(s) ==
    /\ s \in waiters /\ recv.session # NoSession
    /\ waiters' = waiters \ {s}
    /\ recv' = [recv EXCEPT !.state = "FAIL"]
    /\ CommitAnswered(s, FALSE)
    /\ UNCHANGED <<cfg, recovery, dDoc, rDoc, owns, msgs, acked, bounds, alive>>

RecvChunkAbort(s) ==
    /\ <<"abort", s>> \in msgs /\ msgs' = msgs \ {<<"abort", s>>}
    /\ recv' = IF recv.session = s THEN [recv EXCEPT !.state = "ABORT"] ELSE recv
    /\ UNCHANGED <<cfg, donor, recovery, dDoc, rDoc, owns, waiters, acked, bounds, alive>>

(***************************************************************************)
(* The recipient's thread, _migrateDriver.  Its setState calls overwrite   *)
(* whatever state abort or startCommit have set meanwhile.                 *)
(***************************************************************************)
Chunk == recv.session[1]
RecvAt(pc) == recv.pc = pc
Failed == [recv EXCEPT !.state = "FAIL", !.pc = "end"]
SetState(state, pc) == [recv EXCEPT !.state = state, !.pc = pc]
RecvGoto(pc) == [recv EXCEPT !.pc = pc]
RecvOnly == UNCHANGED <<cfg, donor, recovery, dDoc, rDoc, owns, waiters, msgs, acked, bounds, alive>>

(* AutoGetActiveCloner: the donor has a registered cloner of this session. *)
ClonerActive == donor[Chunk].cloner # "none" /\ Session(Chunk) = recv.session

DriverBegins ==
    /\ RecvAt("begin")
    /\ recv' = RecvGoto(IF recv.state = "ABORT" THEN "end" ELSE "clean")
    /\ RecvOnly

(* _notePending and the waits for the deletion of what is in the range; if *)
(* they succeed, cloning starts.                                           *)
DriverCleans ==
    /\ RecvAt("clean")
    /\ \/ /\ Chunk \notin owns /\ rDoc' = [rDoc EXCEPT ![Chunk] = 0]
          /\ recv' = [SetState("CLONE", "clone") EXCEPT !.marked = TRUE]
       \/ UNCHANGED rDoc /\ recv' = Failed
    /\ UNCHANGED <<cfg, donor, recovery, dDoc, owns, waiters, msgs, acked, bounds, alive>>

(* _migrateClone and the insertion of its batch.  After an empty batch the *)
(* thread catches up with the modifications.                               *)
DriverClones ==
    /\ RecvAt("clone")
    /\ IF ClonerActive /\ ~(donor[Chunk].cloneLocs /\ recv.state = "ABORT")
       THEN /\ recv' = IF donor[Chunk].cloneLocs THEN recv ELSE SetState("CATCHUP", "catchup")
            /\ rDoc' = IF donor[Chunk].cloneLocs THEN [rDoc EXCEPT ![Chunk] = dDoc[Chunk]] ELSE rDoc
            /\ donor' = [donor EXCEPT ![Chunk].cloneLocs = FALSE]
       ELSE recv' = Failed /\ UNCHANGED <<rDoc, donor>>
    /\ UNCHANGED <<cfg, recovery, dDoc, owns, waiters, msgs, acked, bounds, alive>>

(***************************************************************************)
(* _transferMods: nextModsBatch hands out the deleted ids, then as far as  *)
(* the size permits the documents to reload; _applyMigrateOp applies them  *)
(* in that order.  With an empty batch the thread goes to pc.              *)
(***************************************************************************)
TransferMods(pc) ==
    LET d == donor[Chunk] IN
    IF ~ClonerActive THEN recv' = Failed /\ UNCHANGED <<donor, rDoc, alive>>
    ELSE \E all \in (IF d.deleted THEN BOOLEAN ELSE {TRUE}) :
        LET reload == all /\ d.reload /\ dDoc[Chunk] # 0 IN
        /\ alive' = ~d.cloneLocs
        /\ donor' = [donor EXCEPT ![Chunk].deleted = FALSE, ![Chunk].reload = @ /\ ~all]
        /\ rDoc' = [rDoc EXCEPT ![Chunk] = IF reload THEN dDoc[Chunk] ELSE IF d.deleted THEN 0 ELSE @]
        /\ recv' = IF d.deleted \/ reload THEN RecvGoto(IF pc = "flush" THEN "catchup" ELSE "loop")
                   ELSE RecvGoto(pc)

DriverCatchesUp ==
    /\ RecvAt("catchup")
    /\ TransferMods("flush")
    /\ UNCHANGED <<cfg, recovery, dDoc, owns, waiters, msgs, acked, bounds>>

(* The wait for replication; the state is looked at first. *)
DriverFlushes ==
    /\ RecvAt("flush")
    /\ recv' = RecvGoto(IF recv.state = "ABORT" THEN "end" ELSE "flushed")
    /\ RecvOnly

DriverIsSteady ==
    /\ RecvAt("flushed")
    /\ recv' = SetState("STEADY", "loop")
    /\ RecvOnly

(* The head of the loop of step 5, up to its _transferMods. *)
DriverLoops ==
    /\ RecvAt("loop")
    /\ recv' = CASE recv.state \in {"STEADY", "COMMIT_START"} ->
                        [recv EXCEPT !.pc = "transfer", !.transferAfterCommit =
                            @ \/ recv.state = "COMMIT_START"]
                 [] recv.state = "FAIL" -> Failed
                 [] OTHER -> RecvGoto("join")
    /\ RecvOnly

DriverTransfers ==
    /\ RecvAt("transfer")
    /\ TransferMods("check")
    /\ UNCHANGED <<cfg, recovery, dDoc, owns, waiters, msgs, acked, bounds>>

(* The rest of the loop, after an empty batch. *)
\* Mutant: no transfer is required after the commit has started.
CommitStarted == recv.state = "COMMIT_START"
AllTransferred == recv.state = "COMMIT_START" /\ recv.transferAfterCommit
DriverChecks ==
    /\ RecvAt("check")
    /\ recv' = RecvGoto(CASE recv.state = "ABORT" -> "end"
                          [] AllTransferred -> "join"
                          [] OTHER -> "loop")
    /\ RecvOnly

(* The session migration is joined.  It can only have ended well after     *)
(* startCommit told it to finish.                                          *)
DriverJoins ==
    /\ RecvAt("join")
    /\ recv' \in {Failed} \cup (IF recv.finish THEN {SetState("DONE", "end")} ELSE {})
    /\ RecvOnly

(* A call to the donor, or the thread itself, fails. *)
DriverFails ==
    /\ recv.pc \in {"clone", "catchup", "flush", "transfer"}
    /\ recv' = Failed
    /\ RecvOnly

(* _migrateThread: _forgetPending unless the state is DONE *)
DriverEnds ==
    /\ RecvAt("end")
    /\ rDoc' = IF recv.state # "DONE" /\ recv.marked THEN [rDoc EXCEPT ![Chunk] = 0] ELSE rDoc
    /\ alive' = ~(recv.state # "DONE" /\ recv.marked /\ Chunk \in owns)
    /\ recv' = RecvGoto("reset")
    /\ UNCHANGED <<cfg, donor, recovery, dDoc, owns, waiters, msgs, acked, bounds>>

\* Mutant: the session is not reset.
KeepSession ==
    /\ RecvAt("reset")
    /\ recv' = RecvGoto("idle")
    /\ RecvOnly
DriverResets ==
    /\ RecvAt("reset")
    /\ recv' = [recv EXCEPT !.session = NoSession, !.pc = "idle"]
    /\ RecvOnly

RecipientCrash ==
    /\ crashes < CrashBound /\ crashes' = crashes + 1
    /\ recv' = NoRecv /\ owns' = {} /\ waiters' = {}
    /\ UNCHANGED <<cfg, donor, recovery, dDoc, rDoc, msgs, acked, late, alive>>

--------------------------------------------------------------------------------
Sessions == Donors \X (1 .. AttemptBound)

DonorStep(c) ==
    \/ StoreCurrentLocs(c) \/ CaughtUp(c) \/ StartMetadataOp(c) \/ EnterCriticalSection(c)
    \/ CommitClone(c) \/ SendConfigCommit(c) \/ ConfigAnswers(c) \/ Validate(c)
    \/ RefreshAfterCommit(c) \/ RefreshFails(c) \/ GiveUp(c) \/ Cleanup(c) \/ EndMetadataOp(c)
    \/ CleanUpRange(c) \/ Recover(c)

Driver ==
    \/ DriverBegins \/ DriverCleans \/ DriverClones \/ DriverCatchesUp
    \/ DriverFlushes \/ DriverIsSteady \/ DriverLoops \/ DriverTransfers
    \/ DriverChecks \/ DriverJoins \/ DriverFails \/ DriverEnds \/ DriverResets

Next ==
    /\ alive
    /\ \/ \E c \in Donors :
            \/ DonorWrite(c) \/ LogOp(c) \/ RecipientWrite(c)
            \/ DonorRefresh(c) \/ RecipientRefresh(c)
            \/ Begin(c) \/ DonorStep(c) \/ Crash(c)
       \/ \E s \in Sessions :
            \/ ConfigCommit(s[1], s[2])
            \/ RecvChunkStart(s) \/ StartCommit(s) \/ StartCommitReturns(s)
            \/ StartCommitTimesOut(s) \/ RecvChunkAbort(s)
       \/ Driver \/ RecipientCrash

Spec == Init /\ [][Next]_vars

(***************************************************************************)
(* Threads that are able to go on do, and commit handlers run.  Every call *)
(* of the donor is answered or fails.                                      *)
(***************************************************************************)
Fairness ==
    /\ \A c \in Donors : WF_vars(alive /\ DonorStep(c)) /\ WF_vars(alive /\ LogOp(c))
    /\ WF_vars(alive /\ Driver)

FairSpec == Spec /\ Fairness

--------------------------------------------------------------------------------

(* Clients do not notice a migration: with the document of a chunk taken   *)
(* from the shard that the config server says owns it, every step is a     *)
(* client's write or nothing.  No acknowledged write is lost, none comes   *)
(* back, whatever crashes and whatever calls fail at whatever step; it     *)
(* takes LateBound = 0 and Overtaking = FALSE, and one donor.              *)
Store == INSTANCE ChunkStore WITH
    Chunks <- Donors, store <- [c \in Donors |-> IF cfg[c] = 0 THEN dDoc[c] ELSE rDoc[c]]
ImplementsChunkStore == Store!Spec

(* A donor answers reads of the chunk from its own documents only while it *)
(* owns it, also when it restarts on an old replica of the config server.  *)
NoStaleReads == \A c \in Donors : TakesReads(c) => cfg[c] = 0

(* The donor asks the config server to move the chunk only when what the   *)
(* recipient has is what the donor has.                                    *)
CommitIsComplete ==
    \A c \in Donors : donor[c].pc \in {"cloned", "committing"} /\ cfg[c] = 0 => rDoc[c] = dDoc[c]

(* The invariants of nextModsBatch, forgetReceive and startCommit hold,    *)
(* and a committed move is seen by the second refresh.                     *)
NoInvariantFails == alive /\ (recv.state = "STEADY" => recv.session # NoSession)

(* The critical section, which blocks writes and then reads, ends. *)
CriticalSectionEnds ==
    \A c \in Donors : donor[c].crit # "none" ~> (donor[c].crit = "none" \/ ~alive)

(* A recipient does not keep the session of a donor that has given up or   *)
(* crashed, even if the abort is lost or overwritten.                      *)
SessionEnds == \A s \in Sessions : recv.session = s ~> (recv.session # s \/ ~alive)

================================================================================
