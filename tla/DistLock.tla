------------------------------- MODULE DistLock -------------------------------
(***************************************************************************)
(* The distributed lock of a collection: the document in config.locks, and *)
(* the servers that take it for an operation, with a session id of its     *)
(* own, give it back, and overtake it when its holder has not pinged for   *)
(* the expiration time (ReplSetDistLockManager, DistLockCatalogImpl).      *)
(*                                                                         *)
(* What is done under the lock is the matter of the modules that extend    *)
(* this one, which take a client from "held" to "unlock".                  *)
(***************************************************************************)
EXTENDS Integers

CONSTANTS
    Names,         \* the locks, one per collection
    Clients,       \* servers that take locks
    kMaxNumLockAcquireRetries,
    AttemptBound,  \* operations of a server that take a lock
    CrashBound,    \* crashes of servers
    FaultBound,    \* calls to the config server that fail, and its elections
    ElapseBound    \* times that the expiration time elapses

ASSUME CrashBoundAssumption == CrashBound \in Nat

VARIABLES
    locks,       \* config.locks
    pings,       \* config.lockpings: the time of the last ping of a process
    client,      \* a server's operation, and the locks it has seen held
    unlockList,  \* the unlocks that a server's pinger is to repeat
    now,         \* time, in units of the expiration time
    term,        \* the election of the config server's primary
    faults, crashes

lockVars == <<locks, pings, client, unlockList, now, term, faults, crashes>>
counters == <<now, term, crashes>>

(* A server that restarts is another process: its id has a random part.    *)
(* The config servers share one id.                                        *)
ConfigServer == <<"ConfigServer", 0>>
Processes == (Clients \X (0 .. CrashBound)) \cup {ConfigServer}
Process(c) == <<c, client[c].incarnation>>
Running == {Process(c) : c \in Clients} \cup {ConfigServer}
Session(c) == <<c, client[c].attempt>>
Nobody == <<>>

NewClient(attempt, incarnation) ==
    [pc |-> "idle", name |-> Nobody, attempt |-> attempt, incarnation |-> incarnation,
     retries |-> 0, seen |-> Nobody, pingHistory |-> [n \in Names |-> Nobody]]

LockInit ==
    /\ locks = [n \in Names |-> [locked |-> FALSE, ts |-> Nobody, process |-> Nobody]]
    /\ pings = [p \in Processes |-> 0]
    /\ client = [c \in Clients |-> NewClient(0, 0)]
    /\ unlockList = [c \in Clients |-> {}]
    /\ now = 0 /\ term = 0 /\ faults = 0 /\ crashes = 0

--------------------------------------------------------------------------------
(***************************************************************************)
(* DistLockCatalogImpl: each is one findAndModify on the config server.    *)
(***************************************************************************)
CanGrab(n) == ~locks[n].locked
CanOvertake(n, ts) == ~locks[n].locked \/ locks[n].ts = ts
Taken(n, ts, process) == [locks EXCEPT ![n] = [locked |-> TRUE, ts |-> ts, process |-> process]]
Unlocked(n, ts) == [locks EXCEPT ![n].locked = @ /\ locks[n].ts # ts]

(* A call that fails, although it may have been executed. *)
Fails(executed) ==
    /\ faults < FaultBound /\ faults' = faults + 1
    /\ locks' \in {locks, executed}

At(c, pc) == client[c].pc = pc
Goto(c, pc) == client' = [client EXCEPT ![c].pc = pc]
End(c) == client' = [client EXCEPT ![c].pc = "idle", ![c].seen = Nobody, ![c].retries = 0]
\* Mutant: an unlock after a failed call is not repeated.
NothingQueued(c, n) == UNCHANGED unlockList
QueueUnlock(c, n) == unlockList' = [unlockList EXCEPT ![c] = @ \cup {<<Session(c), n>>}]

(***************************************************************************)
(* lockWithSessionID with kSingleLockAttemptTimeout.                       *)
(***************************************************************************)
Begin(c, n) ==
    /\ At(c, "idle") /\ client[c].attempt < AttemptBound
    /\ client' = [client EXCEPT ![c].pc = "grab", ![c].name = n, ![c].retries = 0,
                                ![c].attempt = @ + 1]
    /\ UNCHANGED <<locks, pings, unlockList, counters, faults>>

RetriesLeft(c) == client[c].retries < kMaxNumLockAcquireRetries

(* A retriable error is followed by an unlock and another try, any other   *)
(* error by an unlock that is left to the pinger.                          *)
GrabLock(c) ==
    LET n == client[c].name
        grabbed == IF CanGrab(n) THEN Taken(n, Session(c), Process(c)) ELSE locks
    IN  /\ At(c, "grab")
        /\ \/ /\ CanGrab(n) /\ locks' = grabbed
              /\ Goto(c, "held")
              /\ UNCHANGED <<unlockList, faults>>
           \/ /\ ~CanGrab(n)
              /\ Goto(c, "check")
              /\ UNCHANGED <<locks, unlockList, faults>>
           \/ /\ RetriesLeft(c) /\ Fails(grabbed)
              /\ Goto(c, "release")
              /\ UNCHANGED unlockList
           \/ /\ Fails(grabbed) /\ QueueUnlock(c, n)
              /\ End(c)
        /\ UNCHANGED <<pings, counters>>

ReleaseAndRetry(c) ==
    LET n == client[c].name
        released == Unlocked(n, Session(c))
    IN  /\ At(c, "release")
        /\ \/ /\ locks' = released
              /\ client' = [client EXCEPT ![c].pc = "grab", ![c].retries = @ + 1]
              /\ UNCHANGED <<unlockList, faults>>
           \/ /\ Fails(released) /\ QueueUnlock(c, n)
              /\ End(c)
        /\ UNCHANGED <<pings, counters>>

(* isLockExpired: the same holder's ping is seen twice, the expiration     *)
(* time apart, under the same primary.  Otherwise the lock is busy, and    *)
(* what was seen is kept.                                                  *)
Seen(l) == [ping |-> pings[l.process], ts |-> l.ts, term |-> term]
\* Mutant: only the session is compared, not the ping.
AnyPing(h, l) == h # Nobody /\ h.seen.ts = l.ts /\ h.at < now
Expired(h, l) == h # Nobody /\ h.seen = Seen(l) /\ h.at < now
IsLockExpired(c) ==
    LET n == client[c].name
        l == locks[n]
        h == client[c].pingHistory[n]
        known == h # Nobody /\ h.seen = Seen(l)
    IN  /\ At(c, "check")
        /\ client' = IF Expired(h, l) \/ l.ts = Session(c)
                     THEN [client EXCEPT ![c].pc = "overtake", ![c].seen = l.ts]
                     ELSE [client EXCEPT ![c].pc = "idle", ![c].pingHistory[n] =
                                IF known THEN @ ELSE [seen |-> Seen(l), at |-> now]]
        /\ UNCHANGED <<locks, pings, unlockList, counters, faults>>

OvertakeLock(c) ==
    LET n == client[c].name
        can == CanOvertake(n, client[c].seen)
        overtaken == IF can THEN Taken(n, Session(c), Process(c)) ELSE locks
    IN  /\ At(c, "overtake")
        /\ \/ /\ locks' = overtaken
              /\ IF can THEN Goto(c, "held") ELSE End(c)
              /\ UNCHANGED <<unlockList, faults>>
           \/ /\ Fails(overtaken) /\ QueueUnlock(c, n)
              /\ End(c)
        /\ UNCHANGED <<pings, counters>>

(* ScopedDistLock's destructor *)
Unlock(c) ==
    LET n == client[c].name
        released == Unlocked(n, Session(c))
    IN  /\ At(c, "unlock")
        /\ \/ locks' = released /\ UNCHANGED <<unlockList, faults>>
           \/ Fails(released) /\ QueueUnlock(c, n)
        /\ End(c)
        /\ UNCHANGED <<pings, counters>>

(* doTask: an unlock that fails again is queued again. *)
PingerUnlocks(c) ==
    /\ \E u \in unlockList[c] :
        /\ locks' = Unlocked(u[2], u[1])
        /\ unlockList' = [unlockList EXCEPT ![c] = @ \ {u}]
    /\ UNCHANGED <<pings, client, counters, faults>>

(* The expiration time, thirty ping intervals, elapses: every process that *)
(* runs has pinged.                                                        *)
Elapse ==
    /\ now < ElapseBound /\ now' = now + 1
    /\ pings' = [p \in Processes |-> IF p \in Running THEN now' ELSE pings[p]]
    /\ UNCHANGED <<locks, client, unlockList, term, faults, crashes>>

ConfigElection ==
    /\ faults < FaultBound /\ faults' = faults + 1
    /\ term' = term + 1
    /\ UNCHANGED <<locks, pings, client, unlockList, now, crashes>>

ClientCrash(c) ==
    /\ crashes < CrashBound /\ crashes' = crashes + 1
    /\ client' = [client EXCEPT ![c] = NewClient(@.attempt, @.incarnation + 1)]
    /\ unlockList' = [unlockList EXCEPT ![c] = {}]
    /\ UNCHANGED <<locks, pings, now, term, faults>>

LockStep(c) ==
    \/ GrabLock(c) \/ ReleaseAndRetry(c) \/ IsLockExpired(c) \/ OvertakeLock(c)
    \/ Unlock(c)

--------------------------------------------------------------------------------
Holds(c) == ~client[c].pc \in {"idle", "grab", "release", "check", "overtake"}

(* No two servers work under the same lock: one that is alive is never     *)
(* overtaken, whatever calls fail and whoever crashes.                     *)
MutualExclusion ==
    \A c, d \in Clients : Holds(c) /\ Holds(d) /\ client[c].name = client[d].name => c = d

(* A lock held by a process that runs is in use, is being acquired or      *)
(* released, or will be released by the pinger.  It would otherwise stay,  *)
(* as the pings go on and it never expires.                                *)
NoLockIsLeaked ==
    \A n \in Names, c \in Clients :
        locks[n].locked /\ locks[n].process = Process(c) =>
            \/ locks[n].ts = Session(c) /\ ~At(c, "idle")
            \/ <<locks[n].ts, n>> \in unlockList[c]

================================================================================
