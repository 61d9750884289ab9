--------------------------- MODULE MigrationManager ---------------------------
(***************************************************************************)
(* Migrations as the balancer on the config server's primary schedules     *)
(* them: the documents of config.migrations, the distributed lock it takes *)
(* for a collection with one session id for all, the moveChunk commands to *)
(* the donor shards, and the recovery of all this by the next primary.     *)
(*                                                                         *)
(* Each chunk is on a donor of its own (its shard 0); a migration is the   *)
(* pair of a chunk and a destination.  Other servers take the lock for     *)
(* operations of their own (DistLock).                                     *)
(***************************************************************************)
EXTENDS DistLock, FiniteSets

CONSTANTS
    Nodes,       \* config servers
    Auto,        \* requests of balancer rounds
    Manual,      \* requests of moveChunk commands
    Chunks,
    CollectionOf,  \* the collection of a chunk
    Wants,         \* the migrations a request may ask for
    TermBound,     \* elections of a config server
    StaleUnlocks,  \* TRUE: the pinger may repeat an unlock of a lock that is in use again
    EarlyAnswers,  \* TRUE: a recovered migration may end before the next one of the collection
                   \* is scheduled
    RefreshFails   \* TRUE: the routing table may not be readable in a recovery

VARIABLES
    primary,  \* the config servers' primary, if there is one
    mgr,      \* each config server's Balancer and MigrationManager
    docs,     \* config.migrations
    req,      \* the threads of requests
    calls,    \* moveChunk commands and how far they are
    shard,    \* what the donor of each chunk does
    at,       \* the shard that has the chunk
    queued,   \* unlocks that a config server's pinger is to repeat
    alive     \* FALSE once an invariant of the code has failed

mgrVars == <<primary, mgr, docs, req, calls, shard, at, queued, alive>>
vars == <<lockVars, mgrVars>>

Requests == Auto \cup Manual
None == <<>>
Resting == [to |-> 0, watched |-> FALSE]

(* Balancer and MigrationManager of a server that has not been primary, or *)
(* has stopped them.                                                       *)
Stopped == [balancer |-> "stopped", interrupt |-> FALSE, thread |-> "none",
            state |-> "Stopped", recoveryMap |-> {}, nss |-> None,
            recovered |-> {}, active |-> {}]
NoRequest == [pc |-> "idle", node |-> None, killed |-> FALSE, status |-> "none", migration |-> None]

Init ==
    /\ LockInit
    /\ primary = None
    /\ mgr = [n \in Nodes |-> Stopped]
    /\ docs = {}
    /\ req = [r \in Requests |-> NoRequest]
    /\ calls = {}
    /\ shard = [k \in Chunks |-> Resting]
    /\ at = [k \in Chunks |-> 0]
    /\ queued = [n \in Nodes |-> {}]
    /\ alive = TRUE

(* An active migration is that of a request or of a recovered document. *)
Recovered(n, d) == <<n, d>>
MigrationOf(m) == IF m \in Requests THEN req[m].migration ELSE m[2]
Chunk(m) == MigrationOf(m)[1]
Collection(m) == CollectionOf[Chunk(m)]
Destination(m) == MigrationOf(m)[2]
ActiveOn(n, c) == {m \in mgr[n].active : Collection(m) = c}
Of(ds, c) == {d \in ds : CollectionOf[d[1]] = c}
\* Mutant: the documents of the whole collection are removed.
WithoutCollection(k) == {d \in docs : CollectionOf[d[1]] # CollectionOf[k]}
Without(k) == {d \in docs : d[1] # k}
BalancerSession(n) == <<"balancer", n>>
UnlockAll == [c \in Names |-> [locks[c] EXCEPT !.locked = @ /\ locks[c].process # ConfigServer]]

(* A command whose answer nobody awaits matters until it arrives. *)
NotAwaited(ms) == {x \in calls : x[1] \in ms => x[2] = "sent"}

lockRest == <<pings, client, unlockList, now, crashes>>

--------------------------------------------------------------------------------
(***************************************************************************)
(* The lock, as the MigrationManager takes it under its mutex: it is free, *)
(* or held in this session and overtaken at once, or else busy.  A call    *)
(* that fails is followed by a queued unlock; on a server that is no       *)
(* longer primary it always fails.                                         *)
(***************************************************************************)
Acquire(n, c, works) ==
    /\ works /\ CanOvertake(c, BalancerSession(n))
    /\ locks' = Taken(c, BalancerSession(n), ConfigServer)
    /\ UNCHANGED <<queued, faults>>

AcquireFails(n, c, works) ==
    \/ /\ works /\ ~CanOvertake(c, BalancerSession(n))
       /\ UNCHANGED <<locks, queued, faults>>
    \/ /\ IF works /\ CanOvertake(c, BalancerSession(n))
          THEN Fails(Taken(c, BalancerSession(n), ConfigServer))
          ELSE ~works /\ UNCHANGED <<locks, faults>>
       /\ queued' = [queued EXCEPT ![n] = @ \cup {c}]

Unlocks(n, c) ==
    IF primary = n THEN locks' = Unlocked(c, BalancerSession(n)) /\ UNCHANGED queued
    ELSE UNCHANGED locks /\ queued' = [queued EXCEPT ![n] = @ \cup {c}]
Release(n, c) ==
    \/ Unlocks(n, c) /\ UNCHANGED faults
    \/ /\ primary = n /\ Fails(Unlocked(c, BalancerSession(n)))
       /\ queued' = [queued EXCEPT ![n] = @ \cup {c}]

(* A migration of the collection is active, or is still to be recovered. *)
InUse(n, c) == ActiveOn(n, c) # {} \/ Of(mgr[n].recoveryMap, c) # {}

(* The pinger; as a secondary it forgets the unlock. *)
PingerUnlocksConfig(n) ==
    /\ \E c \in queued[n] :
        /\ InUse(n, c) => StaleUnlocks
        /\ locks' = IF primary = n THEN Unlocked(c, BalancerSession(n)) ELSE locks
        /\ queued' = [queued EXCEPT ![n] = @ \ {c}]
    /\ UNCHANGED <<lockRest, faults, term, primary, mgr, docs, req, calls, shard, at, alive>>

(***************************************************************************)
(* A config server becomes primary, with the global lock held: all locks   *)
(* of config servers are released, and those of the recorded migrations    *)
(* taken.  If one is held by somebody else, or the documents cannot be     *)
(* read, the migrations are abandoned.                                     *)
(***************************************************************************)
\* Mutant: locks that others hold are taken for free.
AnyHolder == TRUE
LocksAreFree == \A d \in docs : ~UnlockAll[CollectionOf[d[1]]].locked
RelockRecorded(n) ==
    [c \in Names |-> IF Of(docs, c) # {}
                     THEN [locked |-> TRUE, ts |-> BalancerSession(n), process |-> ConfigServer]
                     ELSE UnlockAll[c]]

StepUp(n) ==
    /\ primary = None /\ mgr[n].balancer = "stopped" /\ term < TermBound
    /\ primary' = n /\ term' = term + 1
    /\ alive' = (mgr[n].state = "Stopped" /\ mgr[n].recoveryMap = {})
    /\ \/ /\ LocksAreFree
          /\ locks' = RelockRecorded(n)
          /\ mgr' = [mgr EXCEPT ![n] = [Stopped EXCEPT !.balancer = "running", !.thread = "recover",
                                                       !.state = "Recovering", !.recoveryMap = docs]]
          /\ UNCHANGED <<docs, faults>>
       \/ /\ IF LocksAreFree THEN faults < FaultBound /\ faults' = faults + 1 ELSE UNCHANGED faults
          /\ locks' = UnlockAll /\ docs' = {}
          /\ mgr' = [mgr EXCEPT ![n] = [Stopped EXCEPT !.balancer = "running", !.thread = "recover",
                                                       !.state = "Enabled"]]
    /\ UNCHANGED <<lockRest, req, calls, shard, at, queued>>

Ended(r) == [NoRequest EXCEPT !.pc = "done", !.migration = req[r].migration]

(* The threads' operations are killed, and with interruptBalancer another  *)
(* thread is to stop the MigrationManager.                                 *)
StepDown(n) ==
    /\ primary = n /\ primary' = None
    /\ mgr' = [mgr EXCEPT ![n].balancer = "stopping", ![n].interrupt = TRUE]
    /\ req' = [r \in Requests |-> IF req[r].node # n THEN req[r]
                                 ELSE IF req[r].pc = "process" THEN Ended(r)
                                 ELSE [req[r] EXCEPT !.killed = TRUE]]
    /\ UNCHANGED <<lockVars, docs, calls, shard, at, queued, alive>>

InterruptAndDisableMigrations(n) ==
    /\ mgr[n].interrupt
    /\ alive' = (mgr[n].state \in {"Enabled", "Recovering"})
    /\ mgr' = [mgr EXCEPT ![n].interrupt = FALSE, ![n].state = "Stopping"]
    /\ UNCHANGED <<lockVars, primary, docs, req, calls, shard, at, queued>>

(* The end of the balancer's thread: it joins the thread that interrupts,  *)
(* and then drainActiveMigrations.                                         *)
\* Mutant: the interrupting thread is not joined.
NotJoined(n) == TRUE
InterruptJoined(n) == ~mgr[n].interrupt
DrainActiveMigrations(n) ==
    /\ mgr[n].thread = "rounds" /\ mgr[n].balancer = "stopping" /\ InterruptJoined(n)
    /\ \A r \in Auto : req[r].node # n
    /\ mgr[n].active = {}
    /\ alive' = (mgr[n].state = "Stopping")
    /\ mgr' = [mgr EXCEPT ![n] = [Stopped EXCEPT !.recoveryMap = mgr[n].recoveryMap]]
    /\ UNCHANGED <<lockVars, primary, docs, req, calls, shard, at, queued>>

ConfigCrash(n) ==
    /\ faults < FaultBound /\ faults' = faults + 1
    /\ primary' = IF primary = n THEN None ELSE primary
    /\ mgr' = [mgr EXCEPT ![n] = Stopped]
    /\ req' = [r \in Requests |-> IF req[r].node = n THEN Ended(r) ELSE req[r]]
    /\ queued' = [queued EXCEPT ![n] = {}]
    /\ calls' = NotAwaited(mgr[n].active)
    /\ UNCHANGED <<lockRest, locks, term, docs, shard, at, alive>>

(***************************************************************************)
(* The requests: executeMigrationsForAutoBalance by the balancer's thread, *)
(* and executeManualMigration.  The calls of a killed request fail.        *)
(***************************************************************************)
RequestEnds(r) == req' = [req EXCEPT ![r] = Ended(r)]

(* ScopedMigrationRequest::writeMigration: if the chunk already moves to   *)
(* the same shard the request joins that migration, and shares its         *)
(* document.                                                               *)
\* Mutant: the chunk's document is not looked for.
AnyDestination(d) == TRUE
NoConflict(d) == \A e \in docs : e[1] = d[1] => e = d
WriteMigration(r, n, d) ==
    /\ req[r].pc = "idle"
    /\ docs' = IF NoConflict(d) THEN docs \cup {d} ELSE docs
    /\ req' = [req EXCEPT ![r].pc = IF NoConflict(d) THEN "schedule" ELSE "done",
                          ![r].node = IF NoConflict(d) THEN n ELSE None, ![r].migration = d]
    /\ UNCHANGED <<lockVars, primary, mgr, calls, shard, at, queued, alive>>

StartAuto(r, n, d) ==
    /\ r \in Auto /\ mgr[n].thread = "rounds" /\ mgr[n].balancer = "running"
    /\ WriteMigration(r, n, d)

StartManual(r, n, d) ==
    /\ r \in Manual /\ primary = n /\ mgr[n].state # "Recovering"
    /\ WriteMigration(r, n, d)

(* A killed request has nothing left to do: it cannot remove its document. *)
Responded(r, status) ==
    req' = [req EXCEPT ![r] = IF req[r].killed THEN Ended(r)
                              ELSE [req[r] EXCEPT !.pc = "process", !.status = status]]

(* _schedule, under the mutex: m is on the list of its collection, the     *)
(* lock is held, and the command is sent.                                  *)
Activate(n, m, works) ==
    /\ IF ActiveOn(n, Collection(m)) # {}
       THEN UNCHANGED <<locks, queued, faults>>
       ELSE Acquire(n, Collection(m), works)
    /\ calls' = calls \cup {<<m, "sent">>}
CannotActivate(n, m, works) ==
    /\ ActiveOn(n, Collection(m)) = {}
    /\ AcquireFails(n, Collection(m), works)
    /\ UNCHANGED calls

CanSchedule(n) == mgr[n].state \in {"Enabled", "Recovering"}

(* findHost refuses a killed operation.  It may be killed between this and *)
(* the mutex, which does not last until the server is elected again.       *)
Schedule(r) ==
    LET n == req[r].node
        works == ~req[r].killed
        passes == CanSchedule(n) /\ (works \/ primary # n)
    IN  /\ req[r].pc = "schedule"
        /\ \/ /\ passes /\ Activate(n, r, works)
              /\ mgr' = [mgr EXCEPT ![n].active = @ \cup {r}]
              /\ req' = [req EXCEPT ![r].pc = "wait"]
           \/ /\ passes /\ CannotActivate(n, r, works)
              /\ Responded(r, "answered")
              /\ UNCHANGED mgr
           \/ /\ CanSchedule(n) => ~works
              /\ Responded(r, "interrupted")
              /\ UNCHANGED <<locks, queued, faults, calls, mgr>>
        /\ UNCHANGED <<lockRest, term, primary, docs, shard, at, alive>>

(* _processRemoteCommandResponse: the document is kept for the next        *)
(* primary if the balancer was interrupted.                                *)
ProcessRemoteCommandResponse(r) ==
    LET n == req[r].node
    IN  /\ req[r].pc = "process"
        /\ docs' = IF \/ req[r].status = "interrupted"
                      \/ req[r].status = "canceled" /\ ~CanSchedule(n)
                   THEN docs ELSE Without(Chunk(r))
        /\ RequestEnds(r)
        /\ UNCHANGED <<lockVars, primary, mgr, calls, shard, at, queued, alive>>

(***************************************************************************)
(* The donor's primary: ActiveMigrationsRegistry admits one migration; the *)
(* same command joins it, any other is refused.  The answer goes to those  *)
(* who still wait for it.  A migration is watched if it starts while the   *)
(* primary waits for it, until a connection to the donor breaks or a       *)
(* recovery cannot schedule it.                                            *)
(***************************************************************************)
ActiveMigrations == UNION {mgr[n].active : n \in Nodes}
Answer(m, how) == IF m \in ActiveMigrations THEN {<<m, how>>} ELSE {}

RegisterDonateChunk(m) ==
    LET k == Chunk(m)
        start == shard[k].to = 0 /\ at[k] = 0
        watched == \E n \in Nodes : primary = n /\ m \in mgr[n].active
    IN  /\ <<m, "sent">> \in calls
        /\ shard' = IF start THEN [shard EXCEPT ![k] = [to |-> Destination(m), watched |-> watched]]
                    ELSE shard
        /\ calls' = (calls \ {<<m, "sent">>}) \cup
                       Answer(m, IF start \/ shard[k].to = Destination(m) THEN "joined" ELSE "answered")
        /\ UNCHANGED <<lockVars, primary, mgr, docs, req, at, queued, alive>>

MigrationEnds(k) ==
    LET joined == {x \in calls : x[2] = "joined" /\ Chunk(x[1]) = k}
    IN  /\ shard[k].to # 0
        /\ shard' = [shard EXCEPT ![k] = Resting]
        /\ at' \in {at, [at EXCEPT ![k] = shard[k].to]}
        /\ calls' = (calls \ joined) \cup {<<x[1], "answered">> : x \in joined}
        /\ UNCHANGED <<lockVars, primary, mgr, docs, req, queued, alive>>

(* _complete, under the mutex: the lock is released with the collection's  *)
(* last migration, and then the thread that waits is told.                 *)
\* Mutant: the lock is released with any migration.
Always(n, m) == TRUE
IsLast(n, m) == ActiveOn(n, Collection(m)) = {m}
Complete(n, m, status) ==
    /\ m \in mgr[n].active
    /\ mgr[n].nss = Collection(m) /\ status = "answered" => EarlyAnswers
    /\ mgr' = [mgr EXCEPT ![n].active = @ \ {m}]
    /\ IF m \in Requests THEN Responded(m, status) ELSE UNCHANGED req
    /\ UNCHANGED <<lockRest, term, primary, docs, at, alive>>

Answered(n, m) ==
    /\ <<m, "answered">> \in calls
    /\ Complete(n, m, "answered")
    /\ IF IsLast(n, m) THEN Release(n, Collection(m)) ELSE UNCHANGED <<locks, queued, faults>>
    /\ calls' = calls \ {<<m, "answered">>}
    /\ UNCHANGED shard

Canceled(n, m) ==
    /\ mgr[n].state = "Stopping"
    /\ Complete(n, m, "canceled")
    /\ IF IsLast(n, m) THEN Unlocks(n, Collection(m)) ELSE UNCHANGED <<locks, queued>>
    /\ calls' = NotAwaited({m})
    /\ UNCHANGED <<shard, faults>>

(* The connection to the donor breaks; the command may still arrive. *)
ConnectionLost(n, m) ==
    /\ faults < FaultBound /\ faults' = faults + 1
    /\ Complete(n, m, "answered")
    /\ IF IsLast(n, m) THEN Unlocks(n, Collection(m)) ELSE UNCHANGED <<locks, queued>>
    /\ shard' = [shard EXCEPT ![Chunk(m)].watched = FALSE]
    /\ calls' = NotAwaited({m})

(***************************************************************************)
(* finishRecovery, by the balancer's thread.                               *)
(***************************************************************************)
BeginFinishRecovery(n) ==
    /\ mgr[n].thread = "recover"
    /\ alive' = (mgr[n].state = "Enabled" => mgr[n].recoveryMap = {})
    /\ mgr' = [mgr EXCEPT ![n].thread = IF mgr[n].state = "Recovering" THEN "recovering" ELSE "rounds",
                          ![n].recoveryMap = IF mgr[n].state = "Recovering" THEN @ ELSE {}]
    /\ UNCHANGED <<lockVars, primary, docs, req, calls, shard, at, queued>>

Works(n) == primary = n /\ mgr[n].balancer = "running"

(* The collection's routing table is read before its first migration.  If  *)
(* it cannot be, _abandonActiveMigrationsAndEnableManager follows upon the *)
(* destructors of the requests scheduled so far.                           *)
RefreshForRecovery(n, c) ==
    /\ mgr[n].thread = "recovering" /\ mgr[n].nss = None /\ Of(mgr[n].recoveryMap, c) # {}
    /\ mgr' = [mgr EXCEPT ![n].nss = c]
    /\ UNCHANGED <<lockVars, primary, docs, req, calls, shard, at, queued, alive>>

AbandonRecovery(n) ==
    LET recovering == mgr[n].state = "Recovering"
    IN  /\ mgr[n].thread = "recovering" /\ mgr[n].nss = None /\ mgr[n].recoveryMap # {}
        /\ Works(n) => RefreshFails
        /\ locks' = IF recovering /\ Works(n) THEN UnlockAll ELSE locks
        /\ docs' = IF Works(n) THEN {} ELSE docs
        /\ mgr' = [mgr EXCEPT ![n].recoveryMap = {}, ![n].recovered = {}, ![n].thread = "rounds",
                              ![n].state = IF recovering THEN "Enabled" ELSE @]
        /\ UNCHANGED <<lockRest, term, faults, primary, req, calls, shard, at, queued, alive>>

RecoverMigration(n, d) ==
    LET m == Recovered(n, d)
        next == [mgr EXCEPT ![n].recoveryMap = @ \ {d}]
        scheduled == [next EXCEPT ![n].recovered = @ \cup {d}]
    IN  /\ mgr[n].nss = CollectionOf[d[1]]
        /\ \/ /\ at[d[1]] # 0
              /\ docs' = IF Works(n) THEN Without(d[1]) ELSE docs
              /\ mgr' = next
              /\ UNCHANGED <<locks, queued, faults, calls, shard>>
           \/ /\ at[d[1]] = 0 /\ CanSchedule(n) /\ Activate(n, m, Works(n))
              /\ mgr' = [scheduled EXCEPT ![n].active = @ \cup {m}]
              /\ UNCHANGED <<docs, shard>>
           \/ /\ at[d[1]] = 0 /\ CanSchedule(n) /\ CannotActivate(n, m, Works(n))
              /\ mgr' = scheduled
              /\ shard' = [shard EXCEPT ![d[1]].watched = FALSE]
              /\ UNCHANGED docs
           \/ /\ at[d[1]] = 0 /\ (CanSchedule(n) => ~Works(n))
              /\ mgr' = scheduled
              /\ UNCHANGED <<locks, queued, faults, calls, docs, shard>>
        /\ UNCHANGED <<lockRest, term, primary, req, at, alive>>

(* The lock is not kept if there was nothing to schedule. *)
NothingScheduled(n, c) == Of(mgr[n].recovered, c) = {}
CollectionRecovered(n, c) ==
    /\ mgr[n].nss = c /\ Of(mgr[n].recoveryMap, c) = {}
    /\ IF NothingScheduled(n, c) THEN Release(n, c) ELSE UNCHANGED <<locks, queued, faults>>
    /\ mgr' = [mgr EXCEPT ![n].nss = None]
    /\ UNCHANGED <<lockRest, term, primary, docs, req, calls, shard, at, alive>>

EnableManager(n) ==
    /\ mgr[n].thread = "recovering" /\ mgr[n].nss = None /\ mgr[n].recoveryMap = {}
    /\ mgr' = [mgr EXCEPT ![n].thread = "await",
                          ![n].state = IF @ = "Recovering" THEN "Enabled" ELSE @]
    /\ UNCHANGED <<lockVars, primary, docs, req, calls, shard, at, queued, alive>>

(* All recovered migrations have ended; their documents are removed. *)
FinishRecovery(n) ==
    /\ mgr[n].thread = "await"
    /\ \A d \in mgr[n].recovered : ~Recovered(n, d) \in mgr[n].active
    /\ docs' = IF Works(n) THEN {d \in docs : \A e \in mgr[n].recovered : e[1] # d[1]} ELSE docs
    /\ mgr' = [mgr EXCEPT ![n].thread = "rounds", ![n].recovered = {}]
    /\ UNCHANGED <<lockVars, primary, req, calls, shard, at, queued, alive>>

(* Another server takes and releases the lock, in one step each here: how  *)
(* it does is DistLock's matter.                                           *)
ServerLocks(s, c) ==
    /\ At(s, "idle") /\ CanGrab(c) /\ primary # None
    /\ locks' = Taken(c, Session(s), Process(s))
    /\ client' = [client EXCEPT ![s].pc = "held", ![s].name = c]
    /\ UNCHANGED <<pings, unlockList, counters, faults, mgrVars>>
ServerUnlocks(s) ==
    /\ At(s, "held") /\ primary # None
    /\ locks' = Unlocked(client[s].name, Session(s))
    /\ End(s)
    /\ UNCHANGED <<pings, unlockList, counters, faults, mgrVars>>

ConfigStep(n) ==
    \/ StepUp(n) \/ StepDown(n) \/ ConfigCrash(n) \/ PingerUnlocksConfig(n)
    \/ InterruptAndDisableMigrations(n) \/ DrainActiveMigrations(n)
    \/ BeginFinishRecovery(n) \/ AbandonRecovery(n) \/ EnableManager(n) \/ FinishRecovery(n)
    \/ \E d \in mgr[n].recoveryMap : RecoverMigration(n, d)
    \/ \E c \in Names : RefreshForRecovery(n, c) \/ CollectionRecovered(n, c)
    \/ \E r \in Requests : \E d \in Wants[r] : StartAuto(r, n, d) \/ StartManual(r, n, d)
    \/ \E m \in mgr[n].active : Canceled(n, m) \/ Answered(n, m) \/ ConnectionLost(n, m)
Next ==
    \/ \E n \in Nodes : ConfigStep(n)
    \/ \E r \in Requests : Schedule(r) \/ ProcessRemoteCommandResponse(r)
    \/ \E x \in calls : RegisterDonateChunk(x[1])
    \/ \E k \in Chunks : MigrationEnds(k)
    \/ \E s \in Clients : ServerUnlocks(s) \/ \E c \in Names : ServerLocks(s, c)

Spec == Init /\ [][Next]_vars

--------------------------------------------------------------------------------
(* Types of the variables. *)
ManagerTypeOK ==
    /\ primary \in Nodes \cup {None}
    /\ docs \subseteq UNION {Wants[r] : r \in Requests}
    /\ \A d, e \in docs : d[1] = e[1] => d = e
    /\ \A n \in Nodes : mgr[n].state = "Stopped" => mgr[n].active = {}

(* The balancer has the lock of a collection while a migration of it is    *)
(* active on the primary, or is waiting to be recovered: no election, call *)
(* that fails or other request takes it away, as long as no unlock that    *)
(* was queued before is repeated then (StaleUnlocks) and no recovered      *)
(* migration ends before the next one is scheduled (EarlyAnswers).         *)
LockHeldWhileMigrating ==
    \A n \in Nodes, c \in Names :
        primary = n /\ InUse(n, c) => locks[c].locked /\ locks[c].ts = BalancerSession(n)

(* A migration that is active on the primary is in config.migrations, so   *)
(* that the next primary recovers it (no two requests ask for the same     *)
(* migration).                                                             *)
ActiveMigrationsAreRecorded ==
    \A n \in Nodes : primary = n =>
        \A m \in mgr[n].active : MigrationOf(m) \in docs

(* While a donor moves the chunk of a recorded migration no other server   *)
(* works under the collection's lock, also when the config server's        *)
(* primary fails; unless a connection to the donor was lost or the         *)
(* recovery gave the migration up.  It takes EarlyAnswers = FALSE.         *)
FailoverKeepsOthersOut ==
    \A k \in Chunks : shard[k].watched /\ <<k, shard[k].to>> \in docs =>
        \A s \in Clients : Holds(s) => client[s].name # CollectionOf[k]

(* No invariant() of the Balancer or the MigrationManager fails. *)
NoInvariantFails == alive

================================================================================
