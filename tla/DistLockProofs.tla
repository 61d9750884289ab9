---------------------------- MODULE DistLockProofs ----------------------------
(***************************************************************************)
(* What every step of the distributed lock preserves, for every number of  *)
(* locks, servers, crashes, failing calls, elections and retries.          *)
(*                                                                         *)
(* A session <<c, k>> is the k-th operation of server c; it is current as  *)
(* long as c is at work on it.  The strengthening of MutualExclusion and   *)
(* NoLockIsLeaked follows the sessions wherever they are kept: in the      *)
(* lock, in the ping histories, in what an overtaker has seen and in the   *)
(* queued unlocks.                                                         *)
(***************************************************************************)
EXTENDS DistLock, TLAPS

Sessions == Clients \X Nat
Seeking == {"grab", "check", "overtake"}
Holding == {"held", "commit", "verify", "unlock"}
Pcs == {"idle", "release"} \cup Seeking \cup Holding
Lock == [locked : BOOLEAN, ts : Sessions \cup {Nobody}, process : Processes \cup {Nobody}]
PingInfo == [ping : Nat, ts : Sessions \cup {Nobody}, term : Nat]
History == [seen : PingInfo, at : Nat]
Client == [pc : Pcs, name : Names \cup {Nobody}, attempt : Nat, incarnation : Nat,
           retries : Nat, seen : Sessions \cup {Nobody}, pingHistory : [Names -> History \cup {Nobody}]]

LockTypes ==
    /\ locks \in [Names -> Lock]
    /\ pings \in [Processes -> Nat]
    /\ client \in [Clients -> Client]
    /\ unlockList \in [Clients -> SUBSET (Sessions \X Names)]
    /\ now \in Nat /\ term \in Nat /\ crashes \in 0 .. CrashBound

Begun(s) == s \in Sessions /\ s[2] <= client[s[1]].attempt
Current(s) == s[2] = client[s[1]].attempt /\ ~At(s[1], "idle")

(* Incarnations are counted by the crashes, pings are not in the future,   *)
(* and an operation is about a lock.                                       *)
Counted ==
    /\ \A c \in Clients : client[c].incarnation <= crashes
    /\ \A p \in Processes : pings[p] <= now
    /\ \A c \in Clients : ~At(c, "idle") => client[c].name \in Names

(* The lock's session was begun by the lock's process, or by an earlier    *)
(* incarnation of it, and if it is current then for this lock.             *)
Owned(n) ==
    /\ locks[n].locked => locks[n].ts # Nobody
    /\ locks[n].ts # Nobody =>
        /\ Begun(locks[n].ts)
        /\ \E i \in 0 .. client[locks[n].ts[1]].incarnation : locks[n].process = <<locks[n].ts[1], i>>
        /\ Current(locks[n].ts) =>
            /\ locks[n].process = Process(locks[n].ts[1])
            /\ n = client[locks[n].ts[1]].name

(* A ping seen before the expiration time elapsed is not the last one of a *)
(* process whose session is still current.                                 *)
PingsMoveOn(c) ==
    \A n \in Names :
        LET h == client[c].pingHistory[n]
        IN  h # Nobody =>
                /\ Begun(h.seen.ts)
                /\ h.at <= now /\ h.seen.ping <= h.at
                /\ Current(h.seen.ts) /\ h.at < now => h.seen.ping < pings[Process(h.seen.ts[1])]

(* Whoever is about to overtake a lock has seen the session of an          *)
(* operation that is over, or its own.                                     *)
OvertakesTheDead(c) ==
    /\ At(c, "check") => locks[client[c].name].ts # Nobody
    /\ At(c, "overtake") =>
        /\ Begun(client[c].seen)
        /\ Current(client[c].seen) => client[c].seen[1] = c

(* Queued unlocks are those of the server's operations that are over. *)
QueuedAreOver(c) ==
    \A u \in unlockList[c] :
        /\ u[1][1] = c
        /\ u[1][2] <= client[c].attempt
        /\ u[1][2] = client[c].attempt => At(c, "idle")

HolderHasLock(c) ==
    Holds(c) => locks[client[c].name].locked /\ locks[client[c].name].ts = Session(c)

(* An operation that waits for the lock does not have it. *)
SeekerHasNone(c) ==
    \A n \in Names : client[c].pc \in Seeking /\ locks[n].locked => locks[n].ts # Session(c)

(* NoLockIsLeaked, for one server. *)
LeaksNone(c) ==
    \A n \in Names :
        locks[n].locked /\ locks[n].process = Process(c) =>
            \/ locks[n].ts = Session(c) /\ ~At(c, "idle")
            \/ <<locks[n].ts, n>> \in unlockList[c]

InOrder(c) ==
    /\ PingsMoveOn(c) /\ OvertakesTheDead(c) /\ QueuedAreOver(c)
    /\ HolderHasLock(c) /\ SeekerHasNone(c) /\ LeaksNone(c)

LockInv ==
    /\ LockTypes /\ Counted
    /\ \A n \in Names : Owned(n)
    /\ \A c \in Clients : InOrder(c)

--------------------------------------------------------------------------------
(* The steps of an operation of c: it stays the operation it is, and takes *)
(* a lock only from an operation that is over.                             *)
Works(c) ==
    /\ ~At(c, "idle")
    /\ \A d \in Clients \ {c} : client'[d] = client[d] /\ unlockList'[d] = unlockList[d]
    /\ client'[c].name = client[c].name
    /\ client'[c].attempt = client[c].attempt
    /\ client'[c].incarnation = client[c].incarnation
    /\ UNCHANGED <<pings, now, term, crashes>>

TakesFairly(c) ==
    LET n == client[c].name
    IN  /\ \A d \in Clients \ {c} : Holds(d) => ~(locks[n].locked /\ locks[n].ts = Session(d))
        /\ locks' = Taken(n, Session(c), Process(c))

ChangesLock(c) ==
    \/ UNCHANGED locks
    \/ TakesFairly(c)
    \/ locks' = Unlocked(client[c].name, Session(c))

(* Sessions and processes are pairs, and there are enough processes. *)
LEMMA Ids ==
    ASSUME LockTypes, Counted, NEW c \in Clients
    PROVE  /\ Session(c) \in Sessions
           /\ Process(c) \in Processes
           /\ Session(c) # Nobody
           /\ client[c] \in Client
           /\ ~At(c, "idle") => client[c].name \in Names
  <1>1. client[c] \in Client /\ client[c].attempt \in Nat /\ client[c].incarnation \in Nat
    BY DEF LockTypes, Client
  <1>2. client[c].incarnation \in 0 .. CrashBound
    BY <1>1, CrashBoundAssumption DEF LockTypes, Counted
  <1> QED  BY <1>1, <1>2 DEF Session, Sessions, Process, Processes, Nobody, Counted

(* How the lock documents change. *)
LEMMA LockDocuments ==
    ASSUME LockTypes, Counted, NEW c \in Clients, ~At(c, "idle"), ChangesLock(c)
    PROVE  /\ locks' \in [Names -> Lock]
           /\ \A n \in Names :
                \/ locks'[n] = locks[n]
                \/ /\ n = client[c].name
                   /\ locks'[n].locked /\ locks'[n].ts = Session(c) /\ locks'[n].process = Process(c)
                   /\ \A d \in Clients \ {c} : Holds(d) => ~(locks[n].locked /\ locks[n].ts = Session(d))
                \/ /\ n = client[c].name
                   /\ ~locks'[n].locked /\ locks[n].ts = Session(c)
                   /\ locks'[n].ts = locks[n].ts /\ locks'[n].process = locks[n].process
  <1>1. Session(c) \in Sessions /\ Process(c) \in Processes /\ client[c].name \in Names
    BY Ids
  <1>2. CASE UNCHANGED locks
    BY <1>2 DEF LockTypes
  <1>3. CASE TakesFairly(c)
    BY <1>1, <1>3 DEF TakesFairly, Taken, LockTypes, Lock
  <1>4. CASE locks' = Unlocked(client[c].name, Session(c))
    <2> DEFINE n == client[c].name
               b == locks[n].locked /\ locks[n].ts # Session(c)
    <2>1. locks' = [locks EXCEPT ![n].locked = b]
      BY <1>4 DEF Unlocked
    <2>2. locks \in [Names -> Lock] /\ locks[n] \in Lock /\ locks[n].locked \in BOOLEAN /\ b \in BOOLEAN
      BY <1>1 DEF LockTypes, Lock
    <2> HIDE DEF b
    <2>3. /\ locks' \in [Names -> Lock]
          /\ \A m \in Names \ {n} : locks'[m] = locks[m]
          /\ locks'[n] = [locks[n] EXCEPT !.locked = b]
      BY <1>1, <2>1, <2>2 DEF Lock
    <2>4. CASE locks[n].ts = Session(c)
      <3>1. ~b
        BY <2>4 DEF b
      <3> QED  BY <1>1, <2>2, <2>3, <2>4, <3>1 DEF Lock
    <2>5. CASE locks[n].ts # Session(c)
      <3>1. b = locks[n].locked
        BY <2>2, <2>5 DEF b
      <3>2. locks'[n] = locks[n]
        BY <2>2, <2>3, <3>1 DEF Lock
      <3> QED  BY <2>3, <3>2
    <2> QED  BY <2>4, <2>5
  <1> QED  BY <1>2, <1>3, <1>4 DEF ChangesLock

(* A lock that nobody takes keeps its owner. *)
LEMMA OwnedKeeps ==
    ASSUME NEW m \in Names, NEW s, s = locks[m].ts, Owned(m),
           locks'[m].ts = s, locks'[m].process = locks[m].process, locks'[m].locked => locks[m].locked,
           s # Nobody => client'[s[1]].incarnation = client[s[1]].incarnation,
           s # Nobody => Begun(s)' /\ (Current(s)' =>
               Current(s) /\ Process(s[1])' = Process(s[1]) /\ client'[s[1]].name = client[s[1]].name)
    PROVE  Owned(m)'
  <1>1. CASE s = Nobody
    BY Zenon, <1>1 DEF Owned
  <1>2. CASE s # Nobody
    <2>1. PICK j \in 0 .. client[s[1]].incarnation : locks[m].process = <<s[1], j>>
      BY Zenon, <1>2 DEF Owned
    <2>2. j \in 0 .. client'[s[1]].incarnation
      BY <1>2, <2>1
    <2>3. Current(s)' => locks'[m].process = Process(s[1])' /\ m = client'[s[1]].name
      BY Zenon, <1>2 DEF Owned
    <2> QED  BY Zenon, <1>2, <2>1, <2>2, <2>3 DEF Owned
  <1> QED  BY <1>1, <1>2

(* A step of c's operation leaves every other server in order. *)
LEMMA WorkKeepsOthers ==
    ASSUME LockInv, NEW c \in Clients, Works(c), ChangesLock(c), LockTypes'
    PROVE  /\ Counted'
           /\ \A n \in Names : Owned(n)'
           /\ \A d \in Clients \ {c} : InOrder(d)'
           /\ client'[c].pingHistory = client[c].pingHistory => PingsMoveOn(c)'
           /\ \A n \in Names : locks[n].ts # Nobody => locks'[n].ts # Nobody
  <1>0. LockTypes /\ Counted /\ (\A n \in Names : Owned(n)) /\ (\A d \in Clients : InOrder(d))
    BY DEF LockInv
  <1>1. \A d \in Clients :
          /\ client'[d].name = client[d].name
          /\ client'[d].attempt = client[d].attempt
          /\ client'[d].incarnation = client[d].incarnation
          /\ Session(d)' = Session(d) /\ Process(d)' = Process(d)
          /\ Session(d) \in Sessions /\ Session(d) # Nobody
    BY Zenon, <1>0, Ids DEF Works, Session, Process
  <1>2. \A s : Begun(s) => Begun(s)' /\ (Current(s)' => Current(s))
    BY <1>1 DEF Begun, Current, At, Works, Sessions
  <1>3. \A d \in Clients \ {c} : client'[d] = client[d] /\ unlockList'[d] = unlockList[d] /\ Session(d) # Session(c) /\ Process(d) # Process(c)
    BY DEF Works, Session, Process
  <1>4. \A n \in Names :
          \/ locks'[n] = locks[n]
          \/ /\ n = client[c].name
             /\ locks'[n].locked /\ locks'[n].ts = Session(c) /\ locks'[n].process = Process(c)
             /\ \A d \in Clients \ {c} : Holds(d) => ~(locks[n].locked /\ locks[n].ts = Session(d))
          \/ /\ n = client[c].name
             /\ ~locks'[n].locked /\ locks[n].ts = Session(c)
             /\ locks'[n].ts = locks[n].ts /\ locks'[n].process = locks[n].process
    BY <1>0, LockDocuments DEF Works
  <1>5. Counted'
    BY <1>0, <1>1, <1>3 DEF Counted, At, Works
  <1>6. ASSUME NEW n \in Names PROVE Owned(n)'
    <2>1. CASE locks'[n].ts = Session(c) /\ locks'[n].process = Process(c) /\ n = client[c].name
      <3>1. Begun(Session(c))' /\ Session(c)[1] = c /\ client[c].incarnation \in Nat
        BY <1>0, <1>1 DEF Begun, Session, Sessions, LockTypes, Client
      <3> QED  BY <1>1, <2>1, <3>1 DEF Owned, Process, Current
    <2>2. CASE locks'[n].ts = locks[n].ts /\ locks'[n].process = locks[n].process /\ (locks'[n].locked => locks[n].locked)
      <3>1. Owned(n)
        BY <1>0
      <3>2. CASE locks[n].ts = Nobody
        BY <2>2, <3>1, <3>2 DEF Owned
      <3>3. CASE locks[n].ts # Nobody
        <4>1. Begun(locks[n].ts) /\ locks[n].ts[1] \in Clients
          BY <3>1, <3>3 DEF Owned, Begun, Sessions
        <4> QED  BY <1>1, <1>2, <2>2, <3>1, <3>3, <4>1 DEF Owned
      <3> QED  BY <3>2, <3>3
    <2> QED  BY <1>4, <2>1, <2>2
  <1>7. ASSUME NEW d \in Clients, client'[d].pingHistory = client[d].pingHistory PROVE PingsMoveOn(d)'
    <2>1. SUFFICES ASSUME NEW n \in Names, NEW h, h = client[d].pingHistory[n], h # Nobody
                   PROVE  /\ Begun(h.seen.ts)'
                          /\ h.at <= now /\ h.seen.ping <= h.at
                          /\ Current(h.seen.ts)' /\ h.at < now => h.seen.ping < pings[Process(h.seen.ts[1])']
      BY <1>7 DEF PingsMoveOn, Works
    <2>2. /\ Begun(h.seen.ts) /\ h.at <= now /\ h.seen.ping <= h.at
          /\ Current(h.seen.ts) /\ h.at < now => h.seen.ping < pings[Process(h.seen.ts[1])]
      BY Zenon, <1>0, <2>1 DEF InOrder, PingsMoveOn
    <2>3. h.seen.ts[1] \in Clients
      BY <2>2 DEF Begun, Sessions
    <2> QED  BY <1>1, <1>2, <2>2, <2>3
  <1>8. ASSUME NEW d \in Clients \ {c} PROVE InOrder(d)'
    <2>0. InOrder(d) /\ client'[d] = client[d] /\ unlockList'[d] = unlockList[d]
      BY <1>0, <1>3
    <2>1. OvertakesTheDead(d)'
      <3>1. At(d, "check") => client[d].name \in Names
        BY <1>0 DEF Counted, At
      <3> QED  BY <1>1, <1>2, <1>4, <2>0, <3>1 DEF InOrder, OvertakesTheDead, At
    <2>2. QueuedAreOver(d)'
      BY <2>0 DEF InOrder, QueuedAreOver, At
    <2>3. HolderHasLock(d)'
      <3>1. Holds(d) => client[d].name \in Names
        BY <1>0 DEF Counted, At, Holds
      <3> QED  BY <1>1, <1>3, <1>4, <2>0, <3>1 DEF InOrder, HolderHasLock, Holds
    <2>4. SeekerHasNone(d)'
      BY <1>1, <1>3, <1>4, <2>0 DEF InOrder, SeekerHasNone
    <2>5. LeaksNone(d)'
      BY <1>1, <1>3, <1>4, <2>0 DEF InOrder, LeaksNone, At
    <2> QED  BY <1>7, <2>0, <2>1, <2>2, <2>3, <2>4, <2>5 DEF InOrder
  <1> QED  BY <1>1, <1>4, <1>5, <1>6, <1>7, <1>8

(* A step after which c is still at work: what it knows of the lock is all *)
(* there is to show.                                                       *)
LEMMA WorkGoesOn ==
    ASSUME LockInv, NEW c \in Clients, Works(c), ChangesLock(c), LockTypes',
           UNCHANGED unlockList, client'[c].pingHistory = client[c].pingHistory, ~At(c, "idle")',
           OvertakesTheDead(c)', HolderHasLock(c)', SeekerHasNone(c)'
    PROVE  LockInv'
  <1>0. LockTypes /\ Counted /\ InOrder(c)
    BY DEF LockInv
  <1>1. /\ Counted' /\ (\A n \in Names : Owned(n)') /\ (\A d \in Clients \ {c} : InOrder(d)')
        /\ PingsMoveOn(c)'
    BY WorkKeepsOthers
  <1>2. QueuedAreOver(c)'
    BY <1>0 DEF InOrder, QueuedAreOver, Works
  <1>3. Session(c)' = Session(c) /\ Process(c)' = Process(c)
    BY DEF Works, Session, Process
  <1>4. LeaksNone(c)'
    BY <1>0, <1>3, LockDocuments DEF InOrder, LeaksNone, Works
  <1> QED  BY <1>1, <1>2, <1>4 DEF LockInv, InOrder

(* A step with which c's operation is over: it does not have the lock, or  *)
(* its unlock is queued.                                                   *)
LEMMA WorkEnds ==
    ASSUME LockInv, NEW c \in Clients, Works(c), ChangesLock(c), LockTypes',
           PingsMoveOn(c)', At(c, "idle")',
           \/ QueueUnlock(c, client[c].name)
           \/ UNCHANGED unlockList /\ \A n \in Names : locks'[n].locked => locks'[n].ts # Session(c)
    PROVE  LockInv'
  <1>0. LockTypes /\ Counted /\ InOrder(c) /\ \A n \in Names : Owned(n)
    BY DEF LockInv
  <1>1. Counted' /\ (\A n \in Names : Owned(n)') /\ (\A d \in Clients \ {c} : InOrder(d)')
    BY WorkKeepsOthers
  <1>2. Session(c)' = Session(c) /\ Process(c)' = Process(c)
    BY DEF Works, Session, Process
  <1>3. unlockList'[c] \in {unlockList[c], unlockList[c] \cup {<<Session(c), client[c].name>>}}
    BY <1>0 DEF QueueUnlock, LockTypes
  <1>4. QueuedAreOver(c)'
    <2>1. Session(c)[1] = c /\ Session(c)[2] = client[c].attempt /\ client[c].attempt \in Nat
      BY <1>0 DEF Session, LockTypes, Client
    <2> QED  BY <1>0, <1>3, <2>1 DEF InOrder, QueuedAreOver, Works
  <1>5. OvertakesTheDead(c)' /\ HolderHasLock(c)' /\ SeekerHasNone(c)'
    BY DEF OvertakesTheDead, HolderHasLock, SeekerHasNone, Holds, At, Seeking
  <1>6. LeaksNone(c)'
    <2>1. SUFFICES ASSUME NEW n \in Names, locks'[n].locked, locks'[n].process = Process(c)
                   PROVE  <<locks'[n].ts, n>> \in unlockList'[c]
      BY <1>2 DEF LeaksNone
    <2>2. CASE locks'[n].ts = Session(c)
      <3>1. QueueUnlock(c, client[c].name) /\ unlockList'[c] = unlockList[c] \cup {<<Session(c), client[c].name>>}
        BY <1>0, <2>1, <2>2 DEF QueueUnlock, LockTypes
      <3>2. locks'[n] = locks[n] => n = client[c].name
        <4>1. Session(c) # Nobody /\ Current(Session(c)) /\ Session(c)[1] = c
          BY <1>0, Ids DEF Current, Session, Works
        <4> QED  BY <1>0, <2>2, <4>1 DEF Owned
      <3>3. n = client[c].name
        BY <1>0, <3>2, LockDocuments DEF Works
      <3> QED  BY <2>2, <3>1, <3>3
    <2>3. CASE locks'[n].ts # Session(c)
      <3>1. locks'[n] = locks[n]
        BY <1>0, <2>3, LockDocuments DEF Works
      <3>2. <<locks[n].ts, n>> \in unlockList[c]
        BY <1>0, <2>1, <2>3, <3>1 DEF InOrder, LeaksNone
      <3> QED  BY <1>3, <3>1, <3>2
    <2> QED  BY <2>2, <2>3
  <1> QED  BY <1>1, <1>4, <1>5, <1>6 DEF LockInv, InOrder

--------------------------------------------------------------------------------
(* How the record of a server changes. *)
Keeps(c) ==
    /\ client' \in [Clients -> Client]
    /\ \A d \in Clients \ {c} : client'[d] = client[d]
    /\ client'[c].name = client[c].name
    /\ client'[c].attempt = client[c].attempt
    /\ client'[c].incarnation = client[c].incarnation

(* A move of the program counter changes nothing else. *)
LEMMA GotoKeeps ==
    ASSUME LockTypes, NEW c \in Clients, NEW pc \in Pcs, Goto(c, pc)
    PROVE  /\ Keeps(c) /\ client'[c].pc = pc
           /\ client'[c].pingHistory = client[c].pingHistory /\ client'[c].seen = client[c].seen
  BY Zenon DEF LockTypes, Client, Goto, Keeps

(* The end of an operation keeps what the server has seen of the locks. *)
LEMMA EndKeeps ==
    ASSUME LockTypes, NEW c \in Clients, End(c)
    PROVE  Keeps(c) /\ client'[c].pc = "idle" /\ client'[c].pingHistory = client[c].pingHistory
  <1> DEFINE r == [client[c] EXCEPT !.pc = "idle", !.seen = Nobody, !.retries = 0]
  <1>0. client \in [Clients -> Client] /\ client[c] \in Client
    BY DEF LockTypes
  <1>1. client' = [client EXCEPT ![c] = r]
    BY Zenon, <1>0 DEF End
  <1>2. /\ r \in Client /\ r.pc = "idle" /\ r.pingHistory = client[c].pingHistory
        /\ r.name = client[c].name /\ r.attempt = client[c].attempt /\ r.incarnation = client[c].incarnation
    BY Zenon, <1>0 DEF Client, Pcs
  <1> HIDE DEF r
  <1> QED  BY <1>0, <1>1, <1>2 DEF Keeps

(* A queued unlock is the server's own. *)
LEMMA QueueKeeps ==
    ASSUME LockTypes, Counted, NEW c \in Clients, ~At(c, "idle"), QueueUnlock(c, client[c].name)
    PROVE  /\ unlockList' \in [Clients -> SUBSET (Sessions \X Names)]
           /\ \A d \in Clients \ {c} : unlockList'[d] = unlockList[d]
  <1>1. Session(c) \in Sessions /\ client[c].name \in Names
    BY Ids
  <1> QED  BY <1>1 DEF LockTypes, QueueUnlock

(* The steps of an operation that ends with a failed call. *)
LEMMA FailKeeps ==
    ASSUME LockInv, NEW c \in Clients, ~At(c, "idle"), ChangesLock(c),
           QueueUnlock(c, client[c].name), End(c), UNCHANGED <<pings, counters>>
    PROVE  LockInv'
  <1>0. LockTypes /\ Counted
    BY DEF LockInv
  <1>1. Keeps(c) /\ client'[c].pc = "idle" /\ client'[c].pingHistory = client[c].pingHistory
    BY <1>0, EndKeeps
  <1>2. Works(c)
    BY <1>0, <1>1, QueueKeeps DEF Works, Keeps, counters
  <1>3. LockTypes'
    BY <1>0, <1>1, QueueKeeps, LockDocuments DEF LockTypes, Keeps, counters
  <1>4. PingsMoveOn(c)'
    BY <1>1, <1>2, <1>3, WorkKeepsOthers
  <1> QED  BY <1>1, <1>2, <1>3, <1>4, WorkEnds DEF At

(* Taking the lock for c's operation. *)
LEMMA TakeKeeps ==
    ASSUME LockInv, NEW c \in Clients, ~At(c, "idle"), TakesFairly(c),
           Goto(c, "held"), UNCHANGED unlockList, UNCHANGED <<pings, counters>>
    PROVE  LockInv'
  <1>0. LockTypes /\ Counted /\ ChangesLock(c)
    BY DEF LockInv, ChangesLock
  <1>1. Keeps(c) /\ client'[c].pc = "held" /\ client'[c].pingHistory = client[c].pingHistory
    BY <1>0, GotoKeeps DEF Pcs, Holding
  <1>2. Works(c)
    BY <1>1 DEF Works, Keeps, counters
  <1>3. LockTypes'
    BY <1>0, <1>1, LockDocuments DEF LockTypes, Keeps, counters
  <1>4. HolderHasLock(c)'
    <2>1. client[c].name \in Names
      BY <1>0, Ids
    <2>2. locks' = Taken(client[c].name, Session(c), Process(c))
      BY DEF TakesFairly
    <2> QED  BY <1>0, <1>1, <2>1, <2>2 DEF HolderHasLock, Session, Keeps, Taken, LockTypes
  <1>5. OvertakesTheDead(c)' /\ SeekerHasNone(c)' /\ ~At(c, "idle")'
    BY <1>1 DEF OvertakesTheDead, SeekerHasNone, At, Seeking
  <1> QED  BY <1>0, <1>1, <1>2, <1>3, <1>4, <1>5, WorkGoesOn

(* grabLock, its retry and its queued unlock keep the invariant. *)
LEMMA GrabLockKeeps ==
    ASSUME LockInv, NEW c \in Clients, GrabLock(c)
    PROVE  LockInv'
  <1> DEFINE n == client[c].name
             grabbed == IF CanGrab(n) THEN Taken(n, Session(c), Process(c)) ELSE locks
  <1>0. /\ LockTypes /\ Counted /\ Owned(n) /\ InOrder(c)
        /\ n \in Names /\ client[c].pc = "grab" /\ ~At(c, "idle") /\ UNCHANGED <<pings, counters>>
    BY Zenon DEF LockInv, GrabLock, At, Counted
  <1>1. CanGrab(n) /\ locks' = grabbed => TakesFairly(c)
    BY DEF TakesFairly, CanGrab
  <1>2. Fails(grabbed) => ChangesLock(c)
    BY <1>1 DEF Fails, ChangesLock
  <1>3. CASE CanGrab(n) /\ locks' = grabbed /\ Goto(c, "held") /\ UNCHANGED <<unlockList, faults>>
    BY <1>0, <1>1, <1>3, TakeKeeps
  <1>4. CASE ~CanGrab(n) /\ Goto(c, "check") /\ UNCHANGED <<locks, unlockList, faults>>
    <2>1. Keeps(c) /\ client'[c].pc = "check" /\ client'[c].pingHistory = client[c].pingHistory
      BY <1>0, <1>4, GotoKeeps DEF Pcs, Seeking
    <2>2. Works(c) /\ ChangesLock(c) /\ LockTypes'
      BY <1>0, <1>4, <2>1 DEF Works, Keeps, counters, ChangesLock, LockTypes
    <2>3. OvertakesTheDead(c)' /\ HolderHasLock(c)' /\ ~At(c, "idle")'
      BY Zenon, <1>0, <1>4, <2>1 DEF OvertakesTheDead, HolderHasLock, Holds, At, CanGrab, Owned, Keeps
    <2>4. SeekerHasNone(c)'
      BY Zenon, <1>0, <1>4, <2>1 DEF SeekerHasNone, InOrder, Session, Keeps, Seeking
    <2> QED  BY <1>4, <2>1, <2>2, <2>3, <2>4, WorkGoesOn
  <1>5. CASE Fails(grabbed) /\ Goto(c, "release") /\ UNCHANGED unlockList
    <2>1. Keeps(c) /\ client'[c].pc = "release" /\ client'[c].pingHistory = client[c].pingHistory
      BY <1>0, <1>5, GotoKeeps DEF Pcs
    <2>2. Works(c) /\ LockTypes'
      BY <1>0, <1>2, <1>5, <2>1, LockDocuments DEF Works, Keeps, counters, LockTypes
    <2>3. OvertakesTheDead(c)' /\ HolderHasLock(c)' /\ SeekerHasNone(c)' /\ ~At(c, "idle")'
      BY Zenon, <2>1 DEF OvertakesTheDead, HolderHasLock, SeekerHasNone, Holds, At, Seeking
    <2> QED  BY Zenon, <1>2, <1>5, <2>1, <2>2, <2>3, WorkGoesOn
  <1>6. CASE Fails(grabbed) /\ QueueUnlock(c, n) /\ End(c)
    BY Zenon, <1>0, <1>2, <1>6, FailKeeps
  <1> QED  BY <1>3, <1>4, <1>5, <1>6 DEF GrabLock

(* After an unlock no lock document is locked by the session. *)
LEMMA Released ==
    ASSUME LockInv, NEW c \in Clients, ~At(c, "idle"), locks' = Unlocked(client[c].name, Session(c))
    PROVE  \A n \in Names : locks'[n].locked => locks'[n].ts # Session(c)
  <1>0. /\ LockTypes /\ Counted /\ (\A n \in Names : Owned(n))
        /\ client[c].name \in Names /\ Session(c) # Nobody
    BY Ids DEF LockInv
  <1>1. SUFFICES ASSUME NEW n \in Names, locks'[n].ts = Session(c)
                 PROVE  ~locks'[n].locked
    OBVIOUS
  <1>2. CASE n = client[c].name
    BY Zenon, <1>0, <1>1, <1>2 DEF Unlocked, LockTypes, Lock
  <1>3. CASE n # client[c].name
    <2>1. locks'[n] = locks[n]
      BY <1>0, <1>3 DEF Unlocked, LockTypes
    <2>2. Current(Session(c)) /\ Session(c)[1] = c
      BY DEF Current, Session
    <2> QED  BY <1>0, <1>1, <1>3, <2>1, <2>2 DEF Owned
  <1> QED  BY <1>2, <1>3

(* The unlock between two tries keeps the invariant. *)
LEMMA ReleaseAndRetryKeeps ==
    ASSUME LockInv, NEW c \in Clients, ReleaseAndRetry(c)
    PROVE  LockInv'
  <1> DEFINE n == client[c].name
             released == Unlocked(n, Session(c))
  <1>0. /\ LockTypes /\ Counted /\ client[c].pc = "release" /\ ~At(c, "idle")
        /\ UNCHANGED <<pings, counters>>
    BY DEF LockInv, ReleaseAndRetry, At
  <1>1. CASE /\ locks' = released
             /\ client' = [client EXCEPT ![c].pc = "grab", ![c].retries = @ + 1]
             /\ UNCHANGED <<unlockList, faults>>
    <2>1. Keeps(c) /\ client'[c].pc = "grab" /\ client'[c].pingHistory = client[c].pingHistory
      <3> DEFINE k == client[c].retries + 1
                 r == [client[c] EXCEPT !.pc = "grab", !.retries = k]
      <3>1. client \in [Clients -> Client] /\ client[c] \in Client
        BY <1>0 DEF LockTypes
      <3>2. client' = [client EXCEPT ![c] = r]
        BY <1>1, <3>1 DEF Client
      <3>3. k \in Nat
        BY <3>1 DEF Client
      <3> HIDE DEF k
      <3>4. /\ r \in Client /\ r.pc = "grab" /\ r.pingHistory = client[c].pingHistory
            /\ r.name = client[c].name /\ r.attempt = client[c].attempt /\ r.incarnation = client[c].incarnation
        BY Zenon, <3>1, <3>3 DEF Client, Pcs, Seeking
      <3> HIDE DEF r
      <3> QED  BY <3>1, <3>2, <3>4 DEF Keeps
    <2>2. Works(c) /\ ChangesLock(c) /\ LockTypes'
      BY <1>0, <1>1, <2>1, LockDocuments DEF Works, Keeps, counters, ChangesLock, LockTypes
    <2>3. OvertakesTheDead(c)' /\ HolderHasLock(c)' /\ ~At(c, "idle")'
      BY <2>1 DEF OvertakesTheDead, HolderHasLock, Holds, At
    <2>4. SeekerHasNone(c)'
      BY <1>0, <1>1, <2>1, Released DEF SeekerHasNone, Session, Keeps
    <2> QED  BY Zenon, <1>1, <2>1, <2>2, <2>3, <2>4, WorkGoesOn
  <1>2. CASE Fails(released) /\ QueueUnlock(c, n) /\ End(c)
    <2>1. ChangesLock(c)
      BY <1>2 DEF Fails, ChangesLock
    <2> QED  BY <1>0, <1>2, <2>1, FailKeeps
  <1> QED  BY <1>1, <1>2 DEF ReleaseAndRetry

(* A lock that a current session of another server holds does not expire:  *)
(* that server's process has pinged since the ping in the history.         *)
LEMMA ExpiredIsOver ==
    ASSUME LockInv, NEW c \in Clients, NEW n \in Names, locks[n].ts # Nobody,
           Expired(client[c].pingHistory[n], locks[n])
    PROVE  ~Current(locks[n].ts)
  <1> DEFINE h == client[c].pingHistory[n]
             l == locks[n]
  <1>0. LockTypes /\ Owned(n) /\ PingsMoveOn(c)
    BY DEF LockInv, InOrder
  <1>1. SUFFICES ASSUME Current(l.ts) PROVE FALSE
    OBVIOUS
  <1>2. h # Nobody /\ h.at < now /\ h.seen.ts = l.ts /\ h.seen.ping = pings[l.process]
    BY DEF Expired, Seen
  <1>3. l.process = Process(l.ts[1]) /\ Begun(l.ts)
    BY <1>0, <1>1 DEF Owned
  <1>4. h.seen.ping < pings[Process(h.seen.ts[1])]
    BY Zenon, <1>0, <1>1, <1>2 DEF PingsMoveOn
  <1>5. h.seen.ping \in Nat
    <2>1. client[c].pingHistory[n] \in History
      BY <1>0, <1>2 DEF LockTypes, Client
    <2> QED  BY <2>1 DEF History, PingInfo
  <1>6. pings[l.process] = pings[Process(h.seen.ts[1])]
    BY <1>2, <1>3
  <1> QED  BY <1>2, <1>4, <1>5, <1>6

(* isLockExpired keeps the invariant: whoever goes on has seen a dead session. *)
LEMMA IsLockExpiredKeeps ==
    ASSUME LockInv, NEW c \in Clients, IsLockExpired(c)
    PROVE  LockInv'
  <1> DEFINE n == client[c].name
             l == locks[n]
             h == client[c].pingHistory[n]
             g == IF h # Nobody /\ h.seen = Seen(l) THEN h ELSE [seen |-> Seen(l), at |-> now]
  <1>0. /\ LockTypes /\ Counted /\ Owned(n) /\ InOrder(c)
        /\ n \in Names /\ client[c].pc = "check" /\ ~At(c, "idle") /\ l.ts # Nobody
        /\ UNCHANGED <<locks, pings, unlockList, counters>>
    BY DEF LockInv, IsLockExpired, At, Counted, InOrder, OvertakesTheDead
  <1>1. Begun(l.ts) /\ l \in Lock /\ h \in History \cup {Nobody}
    BY Zenon, <1>0 DEF Owned, LockTypes, Client
  <1>2. ChangesLock(c)
    BY Zenon, <1>0 DEF ChangesLock
  <1>3. CASE /\ Expired(h, l) \/ l.ts = Session(c)
             /\ client' = [client EXCEPT ![c].pc = "overtake", ![c].seen = l.ts]
    <2>1. /\ Keeps(c) /\ client'[c].pc = "overtake" /\ client'[c].seen = l.ts
          /\ client'[c].pingHistory = client[c].pingHistory
      <3> DEFINE r == [client[c] EXCEPT !.pc = "overtake", !.seen = l.ts]
      <3>1. client \in [Clients -> Client] /\ client[c] \in Client /\ l.ts \in Sessions \cup {Nobody}
        BY <1>0, <1>1 DEF LockTypes, Lock
      <3>2. client' = [client EXCEPT ![c] = r]
        BY Zenon, <1>3, <3>1 DEF Client
      <3>3. /\ r \in Client /\ r.pc = "overtake" /\ r.seen = l.ts /\ r.pingHistory = client[c].pingHistory
            /\ r.name = client[c].name /\ r.attempt = client[c].attempt /\ r.incarnation = client[c].incarnation
        BY Zenon, <3>1 DEF Client, Pcs, Seeking
      <3> HIDE DEF r
      <3> QED  BY <3>1, <3>2, <3>3 DEF Keeps
    <2>2. Works(c) /\ LockTypes'
      BY Zenon, <1>0, <2>1 DEF Works, Keeps, counters, LockTypes
    <2>3. HolderHasLock(c)' /\ ~At(c, "idle")'
      BY <2>1 DEF HolderHasLock, Holds, At
    <2>4. SeekerHasNone(c)'
      BY <1>0, <2>1 DEF SeekerHasNone, InOrder, Session, Keeps, Seeking
    <2>5. OvertakesTheDead(c)'
      <3>1. Current(l.ts) => l.ts[1] = c
        BY <1>0, <1>3, ExpiredIsOver DEF Session
      <3>2. \A s : Begun(s) => Begun(s)' /\ (Current(s)' => Current(s))
        BY <1>0, <2>1 DEF Begun, Current, At, Keeps, Sessions
      <3> QED  BY Zenon, <1>1, <2>1, <3>1, <3>2 DEF OvertakesTheDead, At
    <2> QED  BY Zenon, <1>0, <1>2, <2>1, <2>2, <2>3, <2>4, <2>5, WorkGoesOn
  <1>4. CASE client' = [client EXCEPT ![c].pc = "idle", ![c].pingHistory[n] = g]
    <2>1. Seen(l) \in PingInfo /\ Seen(l).ping <= now /\ Seen(l).ts = l.ts
      <3>1. l.process \in Processes
        <4>1. PICK i \in 0 .. client[l.ts[1]].incarnation : l.process = <<l.ts[1], i>>
          BY Zenon, <1>0 DEF Owned
        <4>2. l.process # Nobody
          BY <4>1 DEF Nobody
        <4> QED  BY Zenon, <1>1, <4>2 DEF Lock
      <3> QED  BY Zenon, <1>0, <1>1, <3>1 DEF Seen, PingInfo, Lock, LockTypes, Counted
    <2>2. g \in History \cup {Nobody}
      BY Zenon, <1>0, <1>1, <2>1 DEF History, LockTypes
    <2>3. /\ Keeps(c) /\ client'[c].pc = "idle"
          /\ client'[c].pingHistory = [client[c].pingHistory EXCEPT ![n] = g]
      <3> DEFINE f == [client[c].pingHistory EXCEPT ![n] = g]
                 r == [client[c] EXCEPT !.pc = "idle", !.pingHistory = f]
      <3>1. client \in [Clients -> Client] /\ client[c] \in Client
        BY <1>0 DEF LockTypes
      <3> HIDE DEF g
      <3>2. client' = [client EXCEPT ![c] = r]
        BY Zenon, <1>4, <3>1 DEF Client
      <3>3. f \in [Names -> History \cup {Nobody}]
        BY <1>0, <2>2, <3>1 DEF Client
      <3> HIDE DEF f
      <3>4. /\ r \in Client /\ r.pc = "idle" /\ r.pingHistory = f
            /\ r.name = client[c].name /\ r.attempt = client[c].attempt /\ r.incarnation = client[c].incarnation
        BY Zenon, <3>1, <3>3 DEF Client, Pcs
      <3> HIDE DEF r
      <3> QED  BY <3>1, <3>2, <3>4 DEF Keeps, f
    <2>4. Works(c) /\ LockTypes' /\ At(c, "idle")'
      BY Zenon, <1>0, <2>3 DEF Works, Keeps, counters, LockTypes, At
    <2>5. PingsMoveOn(c)'
      <3>1. SUFFICES ASSUME NEW m \in Names, NEW x, x = client'[c].pingHistory[m], x # Nobody
                     PROVE  /\ Begun(x.seen.ts)'
                            /\ x.at <= now /\ x.seen.ping <= x.at
                            /\ Current(x.seen.ts)' /\ x.at < now => x.seen.ping < pings[Process(x.seen.ts[1])']
        BY Zenon, <1>0 DEF PingsMoveOn, counters
      <3>2. \A s : Begun(s) =>
                /\ Begun(s)' /\ (Current(s)' => Current(s)) /\ s[1] \in Clients
                /\ Process(s[1])' = Process(s[1])
        BY Zenon, <1>0, <2>3 DEF Begun, Current, At, Keeps, Sessions, Process
      <3>3. CASE x = client[c].pingHistory[m]
        <4>1. /\ Begun(x.seen.ts) /\ x.at <= now /\ x.seen.ping <= x.at
              /\ Current(x.seen.ts) /\ x.at < now => x.seen.ping < pings[Process(x.seen.ts[1])]
          BY Zenon, <1>0, <3>1, <3>3 DEF InOrder, PingsMoveOn
        <4> QED  BY <3>2, <4>1
      <3>4. CASE x = [seen |-> Seen(l), at |-> now]
        <4>1. x.seen = Seen(l) /\ x.at = now /\ now \in Nat
          BY <1>0, <3>4 DEF LockTypes
        <4>2. Begun(x.seen.ts) /\ x.seen.ping <= now
          BY <1>1, <2>1, <4>1
        <4>3. Begun(x.seen.ts)'
          BY Zenon, <3>2, <4>2
        <4> QED  BY <4>1, <4>2, <4>3
      <3>5. x = client[c].pingHistory[m] \/ (m = n /\ x = g)
        BY Zenon, <1>0, <2>3, <3>1 DEF LockTypes, Client
      <3> QED  BY Zenon, <3>3, <3>4, <3>5
    <2>6. \A m \in Names : locks'[m].locked => locks'[m].ts # Session(c)
      BY <1>0 DEF InOrder, SeekerHasNone, Seeking
    <2> QED  BY Zenon, <1>0, <1>2, <2>4, <2>5, <2>6, WorkEnds
  <1>5. \/ /\ Expired(h, l) \/ l.ts = Session(c)
           /\ client' = [client EXCEPT ![c].pc = "overtake", ![c].seen = l.ts]
        \/ client' = [client EXCEPT ![c].pc = "idle", ![c].pingHistory[n] = g]
    BY Zenon DEF IsLockExpired
  <1> QED  BY <1>3, <1>4, <1>5

(* overtakeLock keeps the invariant: no holder loses its lock. *)
LEMMA OvertakeLockKeeps ==
    ASSUME LockInv, NEW c \in Clients, OvertakeLock(c)
    PROVE  LockInv'
  <1> DEFINE n == client[c].name
             can == CanOvertake(n, client[c].seen)
             overtaken == IF can THEN Taken(n, Session(c), Process(c)) ELSE locks
  <1>0. /\ LockTypes /\ Counted /\ (\A d \in Clients : InOrder(d))
        /\ n \in Names /\ client[c].pc = "overtake" /\ ~At(c, "idle") /\ UNCHANGED <<pings, counters>>
    BY DEF LockInv, OvertakeLock, At, Counted
  <1>1. can /\ locks' = overtaken => TakesFairly(c)
    <2>1. SUFFICES ASSUME can, locks' = overtaken, NEW d \in Clients \ {c}, Holds(d),
                          locks[n].locked, locks[n].ts = Session(d)
                   PROVE  FALSE
      BY Zenon DEF TakesFairly
    <2>2. client[c].seen = Session(d)
      BY <2>1 DEF CanOvertake
    <2>3. Current(Session(d)) /\ Session(d)[1] = d
      BY <2>1 DEF Current, Session, Holds, At
    <2> QED  BY Zenon, <1>0, <2>2, <2>3 DEF InOrder, OvertakesTheDead, At
  <1>2. CASE can /\ locks' = overtaken /\ Goto(c, "held") /\ UNCHANGED <<unlockList, faults>>
    BY <1>0, <1>1, <1>2, TakeKeeps
  <1>3. CASE ~can /\ locks' = overtaken /\ End(c) /\ UNCHANGED <<unlockList, faults>>
    <2>1. Keeps(c) /\ client'[c].pc = "idle" /\ client'[c].pingHistory = client[c].pingHistory
      BY Zenon, <1>0, <1>3, EndKeeps
    <2>2. Works(c) /\ ChangesLock(c) /\ LockTypes' /\ At(c, "idle")'
      BY <1>0, <1>3, <2>1 DEF Works, Keeps, counters, ChangesLock, LockTypes, At
    <2>3. PingsMoveOn(c)'
      BY Zenon, <2>1, <2>2, WorkKeepsOthers
    <2>4. \A m \in Names : locks'[m].locked => locks'[m].ts # Session(c)
      BY Zenon, <1>0, <1>3 DEF InOrder, SeekerHasNone, Seeking
    <2> QED  BY <1>3, <2>2, <2>3, <2>4, WorkEnds
  <1>4. CASE Fails(overtaken) /\ QueueUnlock(c, n) /\ End(c)
    <2>1. ChangesLock(c)
      BY <1>1, <1>4 DEF Fails, ChangesLock
    <2> QED  BY Zenon, <1>0, <1>4, <2>1, FailKeeps
  <1> QED  BY <1>2, <1>3, <1>4 DEF OvertakeLock

(* The unlock of ScopedDistLock keeps the invariant. *)
LEMMA UnlockKeeps ==
    ASSUME LockInv, NEW c \in Clients, Unlock(c)
    PROVE  LockInv'
  <1> DEFINE n == client[c].name
             released == Unlocked(n, Session(c))
  <1>0. LockTypes /\ Counted /\ ~At(c, "idle") /\ End(c) /\ UNCHANGED <<pings, counters>>
    BY DEF LockInv, Unlock, At
  <1>1. CASE locks' = released /\ UNCHANGED <<unlockList, faults>>
    <2>1. Keeps(c) /\ client'[c].pc = "idle" /\ client'[c].pingHistory = client[c].pingHistory
      BY <1>0, EndKeeps
    <2>2. Works(c) /\ ChangesLock(c) /\ LockTypes' /\ At(c, "idle")'
      BY Zenon, <1>0, <1>1, <2>1, LockDocuments DEF Works, Keeps, counters, ChangesLock, LockTypes, At
    <2>3. PingsMoveOn(c)'
      BY <2>1, <2>2, WorkKeepsOthers
    <2>4. \A m \in Names : locks'[m].locked => locks'[m].ts # Session(c)
      BY <1>0, <1>1, Released
    <2> QED  BY <1>1, <2>2, <2>3, <2>4, WorkEnds
  <1>2. CASE Fails(released) /\ QueueUnlock(c, n)
    <2>1. ChangesLock(c)
      BY <1>2 DEF Fails, ChangesLock
    <2> QED  BY <1>0, <1>2, <2>1, FailKeeps
  <1> QED  BY <1>1, <1>2 DEF Unlock

(* What is done under the lock leaves the lock alone. *)
LEMMA HolderKeeps ==
    ASSUME LockInv, NEW c \in Clients, client[c].pc \in Holding, NEW pc \in Holding, Goto(c, pc),
           UNCHANGED <<locks, pings, unlockList, counters>>
    PROVE  LockInv'
  <1>0. LockTypes /\ Counted /\ InOrder(c) /\ ~At(c, "idle")
    BY DEF LockInv, At, Holding
  <1>1. Keeps(c) /\ client'[c].pc = pc /\ client'[c].pingHistory = client[c].pingHistory
    BY Zenon, <1>0, GotoKeeps DEF Pcs
  <1>2. Works(c) /\ ChangesLock(c) /\ LockTypes'
    BY <1>0, <1>1 DEF Works, Keeps, counters, ChangesLock, LockTypes
  <1>3. OvertakesTheDead(c)' /\ SeekerHasNone(c)' /\ ~At(c, "idle")'
    BY Zenon, <1>1 DEF OvertakesTheDead, SeekerHasNone, At, Seeking, Holding
  <1>4. HolderHasLock(c)'
    BY <1>0, <1>1 DEF InOrder, HolderHasLock, Holds, Holding, Session, Keeps
  <1> QED  BY Zenon, <1>0, <1>1, <1>2, <1>3, <1>4, WorkGoesOn

--------------------------------------------------------------------------------
(* The invariant holds while no operation has begun. *)
LEMMA LockInitially == LockInit => LockInv
  <1> SUFFICES ASSUME LockInit PROVE LockInv
    OBVIOUS
  <1> DEFINE new == NewClient(0, 0)
  <1>1. /\ new \in Client /\ new.pc = "idle" /\ new.incarnation = 0
        /\ new.pingHistory = [n \in Names |-> Nobody]
    BY DEF NewClient, Client, Pcs
  <1> HIDE DEF new
  <1>2. client = [c \in Clients |-> new] /\ unlockList = [c \in Clients |-> {}]
    BY DEF LockInit, new
  <1>3. LockTypes
    BY <1>1, <1>2, CrashBoundAssumption DEF LockInit, LockTypes, Lock
  <1>4. Counted
    BY <1>1, <1>2, CrashBoundAssumption DEF LockInit, Counted, At
  <1>5. \A n \in Names : Owned(n)
    BY Zenon DEF LockInit, Owned
  <1>6. ASSUME NEW c \in Clients PROVE InOrder(c)
    <2>0. client[c] = new /\ unlockList[c] = {}
      BY Zenon, <1>2
    <2>1. PingsMoveOn(c)
      BY Zenon, <1>1, <2>0 DEF PingsMoveOn
    <2>2. OvertakesTheDead(c) /\ QueuedAreOver(c) /\ HolderHasLock(c) /\ SeekerHasNone(c)
      BY <1>1, <2>0 DEF OvertakesTheDead, QueuedAreOver, HolderHasLock, SeekerHasNone, At, Holds, Seeking
    <2>3. LeaksNone(c)
      BY DEF LockInit, LeaksNone
    <2> QED  BY <2>1, <2>2, <2>3 DEF InOrder
  <1> QED  BY <1>3, <1>4, <1>5, <1>6 DEF LockInv

(* A new operation has a session that nobody has kept. *)
LEMMA BeginKeeps ==
    ASSUME LockInv, NEW c \in Clients, NEW n \in Names, Begin(c, n)
    PROVE  LockInv'
  <1>0. /\ LockTypes /\ Counted /\ (\A m \in Names : Owned(m)) /\ (\A d \in Clients : InOrder(d))
        /\ client[c].pc = "idle" /\ UNCHANGED <<locks, pings, unlockList, now, term, crashes>>
    BY DEF LockInv, Begin, At, counters
  <1>1. /\ client' \in [Clients -> Client]
        /\ \A d \in Clients \ {c} : client'[d] = client[d]
        /\ client'[c].pc = "grab" /\ client'[c].name = n
        /\ client'[c].attempt = client[c].attempt + 1
        /\ client'[c].incarnation = client[c].incarnation
        /\ client'[c].pingHistory = client[c].pingHistory
    <2> DEFINE k == client[c].attempt + 1
               r == [client[c] EXCEPT !.pc = "grab", !.name = n, !.retries = 0, !.attempt = k]
    <2>1. client \in [Clients -> Client] /\ client[c] \in Client
      BY <1>0 DEF LockTypes
    <2>2. client' = [client EXCEPT ![c] = r]
      BY <2>1 DEF Begin, Client
    <2>3. k \in Nat
      BY <2>1 DEF Client
    <2> HIDE DEF k
    <2>4. /\ r \in Client /\ r.pc = "grab" /\ r.name = n /\ r.attempt = k
          /\ r.incarnation = client[c].incarnation /\ r.pingHistory = client[c].pingHistory
      BY Zenon, <2>1, <2>3 DEF Client, Pcs, Seeking
    <2> HIDE DEF r
    <2> QED  BY <2>1, <2>2, <2>4 DEF k
  <1>2. client[c].attempt \in Nat
    BY <1>0 DEF LockTypes, Client
  <1>3. \A s : Begun(s) =>
          /\ Begun(s)' /\ s[1] \in Clients /\ s # Session(c)'
          /\ Current(s)' => Current(s) /\ s[1] # c
          /\ Process(s[1])' = Process(s[1])
    BY <1>1, <1>2 DEF Begun, Current, At, Sessions, Session, Process
  <1>4. LockTypes' /\ Counted'
    BY <1>0, <1>1 DEF LockTypes, Counted, At
  <1>5. ASSUME NEW m \in Names PROVE Owned(m)'
    <2>1. PICK s : s = locks[m].ts /\ locks'[m] = locks[m] /\ Owned(m)
      BY Zenon, <1>0
    <2>2. s # Nobody => Begun(s)
      BY Zenon, <2>1 DEF Owned
    <2>3. s # Nobody => client'[s[1]].incarnation = client[s[1]].incarnation
      BY Zenon, <1>1, <1>3, <2>2
    <2>4. s # Nobody => Begun(s)' /\ (Current(s)' =>
            Current(s) /\ Process(s[1])' = Process(s[1]) /\ client'[s[1]].name = client[s[1]].name)
      BY Zenon, <1>1, <1>3, <2>2
    <2> QED  BY Zenon, <2>1, <2>3, <2>4, OwnedKeeps
  <1>6. ASSUME NEW d \in Clients PROVE InOrder(d)'
    <2>1. PingsMoveOn(d)'
      <3>1. SUFFICES ASSUME NEW m \in Names, NEW h, h = client[d].pingHistory[m], h # Nobody
                     PROVE  /\ Begun(h.seen.ts)'
                            /\ h.at <= now /\ h.seen.ping <= h.at
                            /\ Current(h.seen.ts)' /\ h.at < now => h.seen.ping < pings[Process(h.seen.ts[1])']
        BY Zenon, <1>0, <1>1 DEF PingsMoveOn
      <3>2. /\ Begun(h.seen.ts) /\ h.at <= now /\ h.seen.ping <= h.at
            /\ Current(h.seen.ts) /\ h.at < now => h.seen.ping < pings[Process(h.seen.ts[1])]
        BY Zenon, <1>0, <3>1 DEF InOrder, PingsMoveOn
      <3> QED  BY <1>3, <3>2
    <2>2. OvertakesTheDead(d)'
      BY Zenon, <1>0, <1>1, <1>3 DEF InOrder, OvertakesTheDead, At
    <2>3. QueuedAreOver(d)'
      <3>1. \A u \in unlockList[d] : u[1][2] \in Nat
        BY <1>0 DEF LockTypes, Sessions
      <3>2. SUFFICES ASSUME NEW u \in unlockList[d]
                     PROVE  /\ u[1][1] = d /\ u[1][2] <= client'[d].attempt
                            /\ u[1][2] = client'[d].attempt => client'[d].pc = "idle"
        BY Zenon, <1>0 DEF QueuedAreOver, At
      <3>3. /\ u[1][1] = d /\ u[1][2] <= client[d].attempt
            /\ u[1][2] = client[d].attempt => client[d].pc = "idle"
        BY Zenon, <1>0 DEF InOrder, QueuedAreOver, At
      <3>4. CASE d = c
        <4>1. u[1][2] \in Nat /\ u[1][2] <= client[c].attempt /\ u[1][1] = c
          BY Zenon, <3>1, <3>3, <3>4
        <4>2. u[1][2] <= client[c].attempt + 1 /\ u[1][2] # client[c].attempt + 1
          BY <1>2, <4>1
        <4> QED  BY Zenon, <1>1, <3>4, <4>1, <4>2
      <3>5. CASE d # c
        BY Zenon, <1>1, <3>3, <3>5
      <3> QED  BY <3>4, <3>5
    <2>4. HolderHasLock(d)'
      BY Zenon, <1>0, <1>1 DEF InOrder, HolderHasLock, Holds, Session
    <2>5. SeekerHasNone(d)'
      <3>1. CASE d = c
        BY Zenon, <1>0, <1>3, <3>1 DEF Owned, SeekerHasNone
      <3>2. CASE d # c
        BY Zenon, <1>0, <1>1, <3>2 DEF InOrder, SeekerHasNone, Session
      <3> QED  BY <3>1, <3>2
    <2>6. LeaksNone(d)'
      <3>1. Process(d)' = Process(d)
        BY <1>1 DEF Process
      <3> QED  BY Zenon, <1>0, <1>1, <3>1 DEF InOrder, LeaksNone, Session, At
    <2> QED  BY <2>1, <2>2, <2>3, <2>4, <2>5, <2>6 DEF InOrder
  <1> QED  BY <1>4, <1>5, <1>6 DEF LockInv

(* The pinger (doTask) unlocks only sessions that are over. *)
LEMMA PingerUnlocksKeeps ==
    ASSUME LockInv, NEW c \in Clients, PingerUnlocks(c)
    PROVE  LockInv'
  <1>0. /\ LockTypes /\ Counted /\ (\A m \in Names : Owned(m)) /\ (\A d \in Clients : InOrder(d))
        /\ UNCHANGED <<pings, client, now, term, crashes>>
    BY DEF LockInv, PingerUnlocks, counters
  <1>1. PICK u \in unlockList[c] :
          /\ locks' = Unlocked(u[2], u[1])
          /\ unlockList' = [unlockList EXCEPT ![c] = @ \ {u}]
    BY Zenon DEF PingerUnlocks
  <1>2. u = <<u[1], u[2]>> /\ u[1] \in Sessions /\ u[2] \in Names
    BY <1>0 DEF LockTypes
  <1>3. /\ locks' \in [Names -> Lock]
        /\ \A m \in Names :
            /\ locks'[m].ts = locks[m].ts /\ locks'[m].process = locks[m].process
            /\ locks'[m].locked => locks[m].locked /\ <<locks[m].ts, m>> # u
            /\ locks[m].ts # u[1] => locks'[m].locked = locks[m].locked
    <2> DEFINE n == u[2]
               b == locks[n].locked /\ locks[n].ts # u[1]
    <2>1. locks' = [locks EXCEPT ![n].locked = b]
      BY <1>1 DEF Unlocked
    <2>2. locks \in [Names -> Lock] /\ locks[n] \in Lock /\ b \in BOOLEAN
      BY <1>0, <1>2 DEF LockTypes
    <2> HIDE DEF b
    <2>3. /\ locks' \in [Names -> Lock]
          /\ \A m \in Names \ {n} : locks'[m] = locks[m]
          /\ locks'[n].locked = b /\ locks'[n].ts = locks[n].ts /\ locks'[n].process = locks[n].process
      BY <1>2, <2>1, <2>2 DEF Lock
    <2>4. b => locks[n].locked /\ <<locks[n].ts, n>> # u
      BY <1>2 DEF b
    <2>5. locks[n].ts # u[1] => b = locks[n].locked
      BY <2>2 DEF b, Lock
    <2>6. \A m \in Names \ {n} : <<locks[m].ts, m>> # u
      BY <1>2
    <2> QED  BY Zenon, <2>3, <2>4, <2>5, <2>6
  <1>4. /\ unlockList' \in [Clients -> SUBSET (Sessions \X Names)]
        /\ \A d \in Clients : unlockList'[d] = IF d = c THEN unlockList[c] \ {u} ELSE unlockList[d]
    BY <1>0, <1>1 DEF LockTypes
  <1>5. \A d \in Clients : \A pc : (At(d, pc)' <=> At(d, pc)) /\ Session(d)' = Session(d) /\ Process(d)' = Process(d)
    BY <1>0 DEF At, Session, Process
  <1>6. \A s : (Begun(s)' <=> Begun(s)) /\ (Begun(s) => (Current(s)' <=> Current(s)) /\ s[1] \in Clients)
    BY Zenon, <1>0, <1>5 DEF Begun, Current, Sessions
  <1>7. LockTypes' /\ Counted'
    BY Zenon, <1>0, <1>3, <1>4 DEF LockTypes, Counted, At
  <1>8. ASSUME NEW m \in Names PROVE Owned(m)'
    <2>1. PICK s : /\ s = locks[m].ts /\ Owned(m)
                   /\ locks'[m].ts = s /\ locks'[m].process = locks[m].process
                   /\ locks'[m].locked => locks[m].locked
      BY Zenon, <1>0, <1>3
    <2>2. s # Nobody => Begun(s)
      BY Zenon, <2>1 DEF Owned
    <2>3. s # Nobody => Begun(s)' /\ (Current(s)' =>
            Current(s) /\ Process(s[1])' = Process(s[1]) /\ client'[s[1]].name = client[s[1]].name)
      BY Zenon, <1>0, <1>5, <1>6, <2>2
    <2>4. client'[s[1]].incarnation = client[s[1]].incarnation
      BY Zenon, <1>0
    <2> QED  BY Zenon, <2>1, <2>3, <2>4, OwnedKeeps
  <1>9. ASSUME NEW d \in Clients PROVE InOrder(d)'
    <2>0. InOrder(d)
      BY Zenon, <1>0
    <2>1. PingsMoveOn(d)'
      BY Zenon, <1>0, <2>0 DEF InOrder, PingsMoveOn, Begun, Current, At, Process
    <2>2. OvertakesTheDead(d)'
      <3>1. At(d, "check") => client[d].name \in Names
        BY Zenon, <1>0 DEF Counted, At
      <3> QED  BY Zenon, <1>0, <1>3, <1>5, <1>6, <2>0, <3>1 DEF InOrder, OvertakesTheDead
    <2>3. QueuedAreOver(d)'
      BY Zenon, <1>0, <1>4, <1>5, <2>0 DEF InOrder, QueuedAreOver
    <2>4. HolderHasLock(d)'
      <3>1. SUFFICES ASSUME Holds(d) PROVE locks'[client[d].name].locked /\ locks'[client[d].name].ts = Session(d)
        BY Zenon, <1>0, <1>5 DEF HolderHasLock, Holds
      <3>2. client[d].name \in Names /\ ~At(d, "idle")
        BY <1>0, <3>1 DEF Counted, At, Holds
      <3>3. u[1] # Session(d)
        BY <1>0, <3>2 DEF InOrder, QueuedAreOver, Session
      <3> QED  BY Zenon, <1>3, <2>0, <3>1, <3>2, <3>3 DEF InOrder, HolderHasLock
    <2>5. SeekerHasNone(d)'
      BY Zenon, <1>0, <1>3, <1>5, <2>0 DEF InOrder, SeekerHasNone
    <2>6. LeaksNone(d)'
      <3>1. SUFFICES ASSUME NEW m \in Names, locks'[m].locked, locks'[m].process = Process(d)'
                     PROVE  \/ locks'[m].ts = Session(d)' /\ ~At(d, "idle")'
                            \/ <<locks'[m].ts, m>> \in unlockList'[d]
        BY Zenon DEF LeaksNone
      <3>2. /\ locks[m].locked /\ <<locks[m].ts, m>> # u
            /\ locks'[m].ts = locks[m].ts /\ locks[m].process = Process(d)
        BY Zenon, <1>3, <1>5, <3>1
      <3>3. (locks[m].ts = Session(d) /\ ~At(d, "idle")) \/ <<locks[m].ts, m>> \in unlockList[d]
        BY Zenon, <2>0, <3>2 DEF InOrder, LeaksNone
      <3>4. <<locks[m].ts, m>> \in unlockList[d] => <<locks[m].ts, m>> \in unlockList'[d]
        BY <1>4, <3>2
      <3> QED  BY Zenon, <1>5, <3>2, <3>3, <3>4
    <2> QED  BY Zenon, <2>1, <2>2, <2>3, <2>4, <2>5, <2>6 DEF InOrder
  <1> QED  BY <1>7, <1>8, <1>9 DEF LockInv

(* When the expiration time elapses every running process has pinged. *)
LEMMA ElapseKeeps ==
    ASSUME LockInv, Elapse
    PROVE  LockInv'
  <1>0. /\ LockTypes /\ Counted /\ (\A m \in Names : Owned(m)) /\ (\A d \in Clients : InOrder(d))
        /\ UNCHANGED <<locks, client, unlockList, term, crashes>> /\ now' = now + 1 /\ now \in Nat
    BY DEF LockInv, Elapse, LockTypes
  <1>1. /\ pings' \in [Processes -> Nat]
        /\ \A p \in Processes : pings'[p] = (IF p \in Running THEN now + 1 ELSE pings[p]) /\ pings'[p] <= now + 1
    <2>1. \A p \in Processes : pings[p] \in Nat /\ pings[p] <= now
      BY <1>0 DEF LockTypes, Counted
    <2>2. pings' = [p \in Processes |-> IF p \in Running THEN now + 1 ELSE pings[p]]
      BY <1>0 DEF Elapse
    <2> QED  BY <1>0, <2>1, <2>2
  <1>2. \A c \in Clients : pings'[Process(c)] = now + 1
    BY <1>0, <1>1, Ids DEF Running
  <1>3. LockTypes' /\ Counted'
    BY <1>0, <1>1 DEF LockTypes, Counted, At
  <1>4. ASSUME NEW m \in Names PROVE Owned(m)'
    BY Zenon, <1>0 DEF Owned, Begun, Current, Process, At
  <1>5. ASSUME NEW c \in Clients PROVE InOrder(c)'
    <2>0. InOrder(c)
      BY <1>0
    <2>1. PingsMoveOn(c)'
      <3>1. SUFFICES ASSUME NEW m \in Names, NEW h, h = client[c].pingHistory[m], h # Nobody
                     PROVE  /\ Begun(h.seen.ts)
                            /\ h.at <= now + 1 /\ h.seen.ping <= h.at
                            /\ h.seen.ping < pings'[Process(h.seen.ts[1])]
        BY Zenon, <1>0 DEF PingsMoveOn, Begun, Current, Process, At
      <3>2. Begun(h.seen.ts) /\ h.at <= now /\ h.seen.ping <= h.at
        BY Zenon, <2>0, <3>1 DEF InOrder, PingsMoveOn
      <3>3. h.seen.ts[1] \in Clients
        BY <3>2 DEF Begun, Sessions
      <3>4. h.at \in Nat /\ h.seen.ping \in Nat
        <4>1. client[c].pingHistory[m] \in History
          BY <1>0, <3>1 DEF LockTypes, Client
        <4> QED  BY <3>1, <4>1 DEF History, PingInfo
      <3>5. pings'[Process(h.seen.ts[1])] = now + 1
        BY <1>2, <3>3
      <3> QED  BY <1>0, <3>2, <3>4, <3>5
    <2>2. OvertakesTheDead(c)' /\ QueuedAreOver(c)' /\ HolderHasLock(c)' /\ SeekerHasNone(c)' /\ LeaksNone(c)'
      BY Zenon, <1>0, <2>0 DEF InOrder, OvertakesTheDead, QueuedAreOver, HolderHasLock, SeekerHasNone, LeaksNone,
                        Begun, Current, Process, Session, Holds, At
    <2> QED  BY <2>1, <2>2 DEF InOrder
  <1> QED  BY <1>3, <1>4, <1>5 DEF LockInv

(* Nothing depends on the config server's election. *)
LEMMA TermKeeps ==
    ASSUME LockInv, UNCHANGED <<locks, pings, client, unlockList, now, crashes>>, term' \in Nat
    PROVE  LockInv'
  <1>0. LockTypes /\ Counted /\ (\A m \in Names : Owned(m)) /\ (\A d \in Clients : InOrder(d))
    BY DEF LockInv
  <1>1. LockTypes' /\ Counted'
    BY <1>0 DEF LockTypes, Counted, At
  <1>2. ASSUME NEW m \in Names PROVE Owned(m)'
    BY Zenon, <1>0 DEF Owned, Begun, Current, Process, At
  <1>3. ASSUME NEW c \in Clients PROVE InOrder(c)'
    BY Zenon, <1>0 DEF InOrder, PingsMoveOn, OvertakesTheDead, QueuedAreOver, HolderHasLock, SeekerHasNone, LeaksNone,
                Begun, Current, Process, Session, Holds, At
  <1> QED  BY <1>1, <1>2, <1>3 DEF LockInv

(* An election of the config server keeps the invariant. *)
LEMMA ConfigElectionKeeps ==
    ASSUME LockInv, ConfigElection
    PROVE  LockInv'
  BY TermKeeps DEF LockInv, LockTypes, ConfigElection

(* After a crash no session of the server is current. *)
LEMMA ClientCrashKeeps ==
    ASSUME LockInv, NEW c \in Clients, ClientCrash(c)
    PROVE  LockInv'
  <1>0. /\ LockTypes /\ Counted /\ (\A m \in Names : Owned(m)) /\ (\A d \in Clients : InOrder(d))
        /\ UNCHANGED <<locks, pings, now, term>> /\ crashes < CrashBound /\ crashes' = crashes + 1
    BY DEF LockInv, ClientCrash
  <1> DEFINE i == client[c].incarnation
             r == NewClient(client[c].attempt, i + 1)
  <1>1. client[c].attempt \in Nat /\ i \in Nat
    BY <1>0 DEF LockTypes, Client
  <1>2. /\ r \in Client /\ r.pc = "idle" /\ r.attempt = client[c].attempt /\ r.incarnation = i + 1
        /\ \A n \in Names : r.pingHistory[n] = Nobody
    <2> DEFINE k == i + 1
               f == [n \in Names |-> Nobody]
    <2>1. k \in Nat /\ f \in [Names -> History \cup {Nobody}] /\ \A n \in Names : f[n] = Nobody
      BY <1>1
    <2>2. r = [pc |-> "idle", name |-> Nobody, attempt |-> client[c].attempt, incarnation |-> k,
               retries |-> 0, seen |-> Nobody, pingHistory |-> f]
      BY DEF NewClient
    <2> HIDE DEF k, f, r
    <2>3. /\ r \in Client /\ r.pc = "idle" /\ r.attempt = client[c].attempt /\ r.incarnation = k
          /\ r.pingHistory = f
      BY <1>1, <2>1, <2>2 DEF Client, Pcs
    <2> QED  BY <2>1, <2>3 DEF k
  <1>3. /\ client' \in [Clients -> Client] /\ client'[c] = r
        /\ \A d \in Clients \ {c} : client'[d] = client[d]
    <2>1. client' = [client EXCEPT ![c] = r]
      BY DEF ClientCrash
    <2> HIDE DEF r
    <2> QED  BY <1>0, <1>2, <2>1 DEF LockTypes
  <1> HIDE DEF r
  <1>4. /\ unlockList' \in [Clients -> SUBSET (Sessions \X Names)] /\ unlockList'[c] = {}
        /\ \A d \in Clients \ {c} : unlockList'[d] = unlockList[d]
    BY <1>0 DEF LockTypes, ClientCrash
  <1>5. \A s : Begun(s) =>
          /\ Begun(s)' /\ s[1] \in Clients
          /\ Current(s)' => Current(s) /\ s[1] # c /\ Process(s[1])' = Process(s[1])
    BY <1>2, <1>3 DEF Begun, Current, At, Sessions, Process
  <1>6. LockTypes'
    BY <1>0, <1>3, <1>4, CrashBoundAssumption DEF LockTypes
  <1>7. Counted'
    <2>1. \A d \in Clients : client'[d].incarnation <= crashes + 1
      BY <1>0, <1>2, <1>3, CrashBoundAssumption DEF Counted, LockTypes, Client
    <2> QED  BY <1>0, <1>2, <1>3, <2>1 DEF Counted, At
  <1>8. ASSUME NEW m \in Names PROVE Owned(m)'
    <2>1. CASE locks[m].ts = Nobody
      BY Zenon, <1>0, <2>1 DEF Owned
    <2>2. CASE locks[m].ts # Nobody
      <3> DEFINE d == locks[m].ts[1]
      <3>1. Begun(locks[m].ts) /\ d \in Clients
        BY Zenon, <1>0, <1>5, <2>2 DEF Owned
      <3>2. PICK j \in 0 .. client[d].incarnation : locks[m].process = <<d, j>>
        BY Zenon, <1>0, <2>2 DEF Owned
      <3>3. j \in 0 .. client'[d].incarnation
        BY <1>1, <1>2, <1>3, <3>1, <3>2
      <3>4. Current(locks[m].ts)' => locks[m].process = Process(d)' /\ m = client'[d].name
        BY Zenon, <1>0, <1>3, <1>5, <2>2, <3>1 DEF Owned
      <3> QED  BY Zenon, <1>0, <1>5, <2>2, <3>1, <3>2, <3>3, <3>4 DEF Owned
    <2> QED  BY <2>1, <2>2
  <1>9. ASSUME NEW d \in Clients PROVE InOrder(d)'
    <2>0. InOrder(d)
      BY <1>0
    <2>1. CASE d = c
      <3>1. PingsMoveOn(c)' /\ QueuedAreOver(c)'
        BY Zenon, <1>2, <1>3, <1>4 DEF PingsMoveOn, QueuedAreOver
      <3>2. OvertakesTheDead(c)' /\ HolderHasLock(c)' /\ SeekerHasNone(c)'
        BY Zenon, <1>2, <1>3 DEF OvertakesTheDead, HolderHasLock, SeekerHasNone, Holds, At, Seeking
      <3>3. ASSUME NEW m \in Names, locks[m].locked PROVE locks[m].process # <<c, i + 1>>
        <4>1. PICK j \in 0 .. client[locks[m].ts[1]].incarnation : locks[m].process = <<locks[m].ts[1], j>>
          BY Zenon, <1>0, <3>3 DEF Owned
        <4> QED  BY <1>1, <4>1
      <3>4. LeaksNone(c)'
        BY Zenon, <1>0, <1>2, <1>3, <3>3 DEF LeaksNone, Process
      <3> QED  BY <2>1, <3>1, <3>2, <3>4 DEF InOrder
    <2>2. CASE d # c
      <3>0. client'[d] = client[d] /\ unlockList'[d] = unlockList[d]
        BY <1>3, <1>4, <2>2
      <3>1. PingsMoveOn(d)'
        <4>1. SUFFICES ASSUME NEW m \in Names, NEW h, h = client[d].pingHistory[m], h # Nobody
                       PROVE  /\ Begun(h.seen.ts)'
                              /\ h.at <= now /\ h.seen.ping <= h.at
                              /\ Current(h.seen.ts)' /\ h.at < now => h.seen.ping < pings[Process(h.seen.ts[1])']
          BY Zenon, <1>0, <3>0 DEF PingsMoveOn
        <4>2. /\ Begun(h.seen.ts) /\ h.at <= now /\ h.seen.ping <= h.at
              /\ Current(h.seen.ts) /\ h.at < now => h.seen.ping < pings[Process(h.seen.ts[1])]
          BY Zenon, <2>0, <4>1 DEF InOrder, PingsMoveOn
        <4> QED  BY Zenon, <1>5, <4>2
      <3>2. OvertakesTheDead(d)'
        BY Zenon, <1>0, <1>5, <2>0, <3>0 DEF InOrder, OvertakesTheDead, At
      <3>3. QueuedAreOver(d)' /\ HolderHasLock(d)' /\ SeekerHasNone(d)' /\ LeaksNone(d)'
        <4>1. QueuedAreOver(d)'
          BY Zenon, <2>0, <3>0 DEF InOrder, QueuedAreOver, At
        <4>2. Session(d)' = Session(d) /\ Process(d)' = Process(d) /\ UNCHANGED locks
          BY <1>0, <3>0 DEF Session, Process
        <4>3. HolderHasLock(d)'
          BY Zenon, <2>0, <3>0, <4>2 DEF InOrder, HolderHasLock, Holds
        <4>4. SeekerHasNone(d)'
          BY Zenon, <2>0, <3>0, <4>2 DEF InOrder, SeekerHasNone
        <4>5. LeaksNone(d)'
          BY Zenon, <2>0, <3>0, <4>2 DEF InOrder, LeaksNone, At
        <4> QED  BY <4>1, <4>3, <4>4, <4>5
      <3> QED  BY <3>1, <3>2, <3>3 DEF InOrder
    <2> QED  BY <2>1, <2>2
  <1> QED  BY <1>6, <1>7, <1>8, <1>9 DEF LockInv

(* No step on the lock breaks the invariant. *)
LEMMA LockStepKeeps ==
    ASSUME LockInv, NEW c \in Clients, LockStep(c)
    PROVE  LockInv'
  BY GrabLockKeeps, ReleaseAndRetryKeeps, IsLockExpiredKeeps, OvertakeLockKeeps, UnlockKeeps DEF LockStep

(* The holder is named in the lock, so that there is one, and NoLockIsLeaked *)
(* is part of the invariant.                                                 *)
LEMMA LockInvSuffices == LockInv => MutualExclusion /\ NoLockIsLeaked
  <1> SUFFICES ASSUME LockInv PROVE MutualExclusion /\ NoLockIsLeaked
    OBVIOUS
  <1>1. \A c \in Clients : HolderHasLock(c) /\ LeaksNone(c)
    BY DEF LockInv, InOrder
  <1>2. MutualExclusion
    BY <1>1 DEF MutualExclusion, HolderHasLock, Session
  <1>3. NoLockIsLeaked
    BY <1>1 DEF NoLockIsLeaked, LeaksNone
  <1> QED  BY <1>2, <1>3
================================================================================
