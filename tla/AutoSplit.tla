------------------------------- MODULE AutoSplit -------------------------------
(***************************************************************************)
(* Hotness aware auto-split in a router, for one Chunk object of its       *)
(* routing table: the statistics that writes keep in the Chunk without a   *)
(* lock, and the attempts to split it at points moved towards the average  *)
(* of the written keys (the build's DYNAMIC tuning).                       *)
(*                                                                         *)
(* A key "user<digits>" is its sequence of digits, compared as strings     *)
(* are.  The code reads the first ten digits as a number and writes the    *)
(* new number back without leading zeros; here it is PrefixDigits digits   *)
(* in base Base, and the ratio 0.1 of the shift is 1 / Base.               *)
(***************************************************************************)
EXTENDS Integers, FiniteSets, Sequences, SequencesExt

CONSTANTS
    Threads,          \* client threads of the router
    SplitTickets,     \* maxParallelSplits
    SplitThreshold,   \* bytes that make shouldSplit true
    TopThreshold,     \* the same for a chunk at either end of the key space
    Base,             \* radix of the digits
    PrefixDigits,     \* digits read as a number
    WordModulus,      \* 2^64
    IndexModulus,     \* 2^8, the range of the right loop's uint8_t index
    PointBound,       \* bound: split points that splitVector returns
    WriteBound        \* bound: operations that touch the chunk

ASSUME AutoSplitAssumption ==
    /\ SplitTickets \in Nat \ {0}
    /\ TopThreshold \in Nat /\ SplitThreshold \in Nat
    /\ TopThreshold <= SplitThreshold
    /\ Base \in Nat \ {0, 1}
    /\ PrefixDigits \in Nat \ {0}
    /\ WordModulus > Base ^ (PrefixDigits + 1)
    /\ IndexModulus \in Nat \ {0}

VARIABLES
    chunk,    \* bounds of the chunk, and whether it has been split
    bytes, sum, cnt,  \* _dataWrittenBytes, split_sum, cnt
    tickets,  \* free tickets of the AutoSplitThrottle
    writes,   \* operations so far
    pc,       \* where each thread is
    old,      \* the statistics when the thread entered
    try       \* the attempt of each thread

vars == <<chunk, bytes, sum, cnt, tickets, writes, pc, old, try>>

-----------------------------------------------------------------------------
(* Keys *)

KeyNumbers == Base ^ (PrefixDigits - 1) .. Base ^ PrefixDigits - 1

\* operator<< of a number: its digits, no leading zeros.
Text(k) ==
    LET n == CHOOSE n \in 1 .. k + 1 : k < Base ^ n /\ (n > 1 => k >= Base ^ (n - 1))
    IN  [i \in 1 .. n |-> (k \div Base ^ (n - i)) % Base]

\* Keys of documents: a prefix without leading zeros and one more digit.
SortedKeys ==
    [i \in 1 .. Cardinality(KeyNumbers) |-> Append(Text(Base ^ (PrefixDigits - 1) + i - 1), 0)]
Keys == Range(SortedKeys)

\* substr(0, 10) and operator>>.
Prefix(key) ==
    LET digits == IF Len(key) < PrefixDigits THEN Len(key) ELSE PrefixDigits
        value[i \in 0 .. digits] == IF i = 0 THEN 0 ELSE Base * value[i - 1] + key[i]
    IN  value[digits]

\* The prefix of a key is replaced by the text of k.
Rewrite(key, k) == Text(k) \o SubSeq(key, PrefixDigits + 1, Len(key))

KeyLess(a, b) ==
    \E m \in 0 .. Len(a) :
        /\ m < Len(b)
        /\ SubSeq(a, 1, m) = SubSeq(b, 1, m)
        /\ m < Len(a) => a[m + 1] < b[m + 1]

Ascending(keys) == \A i \in 1 .. Len(keys) - 1 : KeyLess(keys[i], keys[i + 1])

Inside(key) ==
    /\ chunk.minIsInf \/ KeyLess(chunk.min, key)
    /\ chunk.maxIsInf \/ KeyLess(key, chunk.max)

-----------------------------------------------------------------------------
NoTry == [avg |-> 0, n |-> 0, i |-> 0, shift |-> 0, points |-> <<>>,
          from |-> <<>>, to |-> <<>>, interval |-> 0]

Working == {"split", "select", "right", "left", "send", "sent"}

Init ==
    /\ chunk \in {c \in [min: Keys, max: Keys, minIsInf: BOOLEAN, maxIsInf: BOOLEAN,
                         split: {FALSE}] :
                       /\ KeyLess(c.min, c.max)
                       /\ c.minIsInf => Prefix(c.min) = Base ^ (PrefixDigits - 1)
                       /\ c.maxIsInf => Prefix(c.max) = Base ^ PrefixDigits - 1}
    /\ bytes \in 0 .. TopThreshold
    /\ sum = 0
    /\ cnt = 0
    /\ tickets = SplitTickets
    /\ writes = 0
    /\ pc = [t \in Threads |-> "idle"]
    /\ old = [t \in Threads |-> [cnt |-> 0, sum |-> 0, bytes |-> 0]]
    /\ try = [t \in Threads |-> NoTry]

Goto(t, label) == pc' = [pc EXCEPT ![t] = label]

-----------------------------------------------------------------------------
(* splitIfNeeded: the statistics.  They are plain integers that any thread may update, so  *)
(* an update may be based on a value that was read before another thread's update.         *)

Enter(t, label) ==
    /\ pc[t] = "idle"
    /\ ~chunk.split
    /\ writes < WriteBound
    /\ writes' = writes + 1
    /\ old' = [old EXCEPT ![t] = [cnt |-> cnt, sum |-> sum, bytes |-> bytes]]
    /\ Goto(t, label)
    /\ UNCHANGED <<chunk, bytes, sum, cnt, tickets, try>>

\* Mutant: the operation is not counted.
AddNoCnt(t) ==
    /\ pc[t] = "cnt"
    /\ Goto(t, "sum")
    /\ UNCHANGED <<chunk, bytes, sum, cnt, tickets, writes, old, try>>

AddCnt(t) ==
    /\ pc[t] = "cnt"
    /\ \E c \in {cnt, old[t].cnt} : cnt' = c + 1
    /\ Goto(t, "sum")
    /\ UNCHANGED <<chunk, bytes, sum, tickets, writes, old, try>>

\* The batch's first document has the key that is added, whichever chunk this is.  Without
\* documents the number is uninitialised.
AddSplitSum(t) ==
    /\ pc[t] = "sum"
    /\ \E s \in {sum, old[t].sum}, k \in KeyNumbers \cup {0, WordModulus - 1} :
          sum' = (s + k) % WordModulus
    /\ Goto(t, "bytes")
    /\ UNCHANGED <<chunk, bytes, cnt, tickets, writes, old, try>>

AddBytesWritten(t) ==
    /\ pc[t] = "bytes"
    /\ \E b \in {bytes, old[t].bytes} : bytes' = b + 1
    /\ Goto(t, "check")
    /\ UNCHANGED <<chunk, sum, cnt, tickets, writes, old, try>>

-----------------------------------------------------------------------------
(* updateChunkWriteStatsAndSplitIfNeeded *)

ShouldSplit ==
    bytes >= IF chunk.minIsInf \/ chunk.maxIsInf THEN TopThreshold ELSE SplitThreshold

\* shouldSplit, getShouldAutoSplit and tryAcquire.
Check(t) ==
    /\ pc[t] = "check"
    /\ \/ Goto(t, "idle") /\ UNCHANGED tickets
       \/ ShouldSplit /\ tickets > 0 /\ tickets' = tickets - 1 /\ Goto(t, "split")
    /\ UNCHANGED <<chunk, bytes, sum, cnt, writes, old, try>>

\* The destructor of the TicketHolderReleaser, on every way out.
Leave(t) ==
    /\ tickets' = tickets + 1
    /\ Goto(t, "idle")
    /\ try' = [try EXCEPT ![t] = NoTry]

\* Mutant: an exception leaves without giving the ticket back.
LeakOnFailure(t) ==
    /\ bytes' = 0
    /\ Goto(t, "idle")
    /\ try' = [try EXCEPT ![t] = NoTry]
    /\ UNCHANGED tickets

\* The catch block.
Fail(t) ==
    /\ bytes' = 0
    /\ Leave(t)

\* refreshAndCheck throws or finds auto-split disabled, or the average is computed; an
\* integer division by zero ends the process.
Average(t) ==
    /\ pc[t] = "split"
    /\ \/ Fail(t)
       \/ Leave(t) /\ UNCHANGED bytes
       \/ /\ cnt = 0
          /\ Goto(t, "crashed")
          /\ UNCHANGED <<bytes, tickets, try>>
       \/ /\ cnt # 0
          /\ try' = [try EXCEPT ![t] = [NoTry EXCEPT !.avg = sum \div cnt]]
          /\ Goto(t, "select")
          /\ UNCHANGED <<bytes, tickets>>
    /\ UNCHANGED <<chunk, sum, cnt, writes, old>>

\* What splitVector may answer that leads to a split: keys inside the chunk, in order.
KeyVectors ==
    {SelectSeq(SortedKeys, LAMBDA k : k \in S) :
        S \in {S \in SUBSET Keys : Cardinality(S) \in 2 .. PointBound}}
SplitVectors == {p \in KeyVectors : Inside(Head(p)) /\ Inside(Last(p))}

\* findExtremeKeyForShard on the unbounded side: a key at or beyond the split points, whose
\* prefixes are numbers.
LowKeys(numbers) ==
    IF chunk.minIsInf THEN {k \in Keys : Prefix(k) <= numbers[1]} ELSE {chunk.min}
HighKeys(numbers) ==
    IF chunk.maxIsInf THEN {k \in Keys : Prefix(k) >= Last(numbers)} ELSE {chunk.max}

\* Mutant: the ratio is applied to the upper bound.
ShiftOfMax(low, high) == Prefix(high)

\* chunk_range * shift_params.
Shift(low, high) == (Prefix(high) - Prefix(low)) \div Base

\* selectChunkSplitPoints, the points up to the average, and the shift.  With at most one
\* point the bytes are cleared, as after an error.
SelectSplitPoints(t) ==
    /\ pc[t] = "select"
    /\ \/ Fail(t)
       \/ \E points \in SplitVectors :
          LET numbers == [j \in 1 .. Len(points) |-> Prefix(points[j])]
              n == Len(SelectSeq(numbers, LAMBDA k : k <= try[t].avg))
          IN  \E low \in LowKeys(numbers), high \in HighKeys(numbers) :
                 /\ try' = [try EXCEPT ![t] =
                              [avg |-> @.avg, n |-> n, i |-> n % IndexModulus,
                               shift |-> Shift(low, high), points |-> points,
                               from |-> numbers, to |-> numbers,
                               interval |-> Shift(low, high)]]
                 /\ Goto(t, "right")
                 /\ UNCHANGED <<bytes, tickets>>
    /\ UNCHANGED <<chunk, sum, cnt, writes, old>>

\* Mutant: the interval is not halved from one point to the next.
KeepShift(s) == s

\* right_shift / 2 and left_shift / 2.
Halve(s) == s \div 2

\* i++ on a uint8_t.
NextIndex(i) == (i + 1) % IndexModulus

\* One pass of a tuning loop over point i: the last digit is erased, then the prefix moves
\* by delta.  Erasing digits of a key that is too short is undefined.
Tune(t, i, delta, shift, next) ==
    LET key == Front(try[t].points[i + 1])
        k   == (Prefix(key) + delta) % WordModulus
    IN  \/ /\ try' = [try EXCEPT ![t].points[i + 1] = Rewrite(key, k),
                                 ![t].to[i + 1] = k, ![t].shift = shift, ![t].i = next]
           /\ UNCHANGED pc
        \/ Len(key) < PrefixDigits /\ Goto(t, "crashed") /\ UNCHANGED try

TuneRight(t) ==
    /\ pc[t] = "right"
    /\ LET i == try[t].i
            s == try[t].shift
        IN  IF i < Len(try[t].points)
            THEN Tune(t, i, -s, Halve(s), NextIndex(i))
            ELSE /\ try' = [try EXCEPT ![t].i = try[t].n - 1, ![t].shift = try[t].interval]
                 /\ Goto(t, "left")
    /\ UNCHANGED <<chunk, bytes, sum, cnt, tickets, writes, old>>

TuneLeft(t) ==
    /\ pc[t] = "left"
    /\ LET i == try[t].i
            s == try[t].shift
        IN  IF i < 0
            THEN Goto(t, "send") /\ UNCHANGED try
            ELSE IF Prefix(Front(try[t].points[i + 1])) = try[t].avg
                 THEN Tune(t, i, 0, s, i - 1)
                 ELSE Tune(t, i, s, Halve(s), i - 1)
    /\ UNCHANGED <<chunk, bytes, sum, cnt, tickets, writes, old>>

\* The bytes are cleared unless the chunk is at an end of the key space; there the first (or
\* else the last) point becomes the extreme key of the shard, if one is found.  The sort that
\* follows is commented out.
Send(t) ==
    /\ pc[t] = "send"
    /\ \/ Fail(t)
       \/ /\ bytes' = IF chunk.minIsInf \/ chunk.maxIsInf THEN bytes ELSE 0
          /\ \/ UNCHANGED try
             \/ /\ chunk.minIsInf
                /\ \E k \in LowKeys(try[t].from) : try' = [try EXCEPT ![t].points[1] = k]
             \/ /\ chunk.maxIsInf /\ ~chunk.minIsInf
                /\ \E k \in HighKeys(try[t].from) :
                      try' = [try EXCEPT ![t].points[Len(try[t].points)] = k]
          /\ Goto(t, "sent")
          /\ UNCHANGED tickets
    /\ UNCHANGED <<chunk, sum, cnt, writes, old>>

\* splitChunkAtMultiplePoints, and what follows it.  The config server commits only ascending
\* points inside a chunk that is still whole; the router may see an error even then.
Finish(t) ==
    /\ pc[t] = "sent"
    /\ \/ Fail(t) /\ UNCHANGED chunk
       \/ /\ ~chunk.split
          /\ Ascending(try[t].points)
          /\ \A k \in Range(try[t].points) : Inside(k)
          /\ chunk' = [chunk EXCEPT !.split = TRUE]
          /\ Fail(t) \/ (Leave(t) /\ UNCHANGED bytes)
    /\ UNCHANGED <<sum, cnt, writes, old>>

-----------------------------------------------------------------------------
\* A batch write counts the operation; findAndModify goes straight to the bytes.
BatchWrite(t) == Enter(t, "cnt")
FindAndModify(t) == Enter(t, "bytes")

Attempt(t) ==
    \/ Average(t) \/ SelectSplitPoints(t) \/ TuneRight(t) \/ TuneLeft(t)
    \/ Send(t) \/ Finish(t)

Running == \A t \in Threads : pc[t] # "crashed"

Next ==
    /\ Running
    /\ \E t \in Threads :
          \/ BatchWrite(t) \/ AddCnt(t) \/ AddSplitSum(t) \/ AddBytesWritten(t) \/ Check(t)
          \/ Attempt(t)

FmNext == Next \/ (Running /\ \E t \in Threads : FindAndModify(t))

\* The remote calls have a time limit and the loops are local, so an attempt keeps going.
Fairness == \A t \in Threads : WF_vars(Running /\ Attempt(t))

Spec == Init /\ [][Next]_vars
FairSpec == Spec /\ Fairness
FmSpec == Init /\ [][FmNext]_vars

-----------------------------------------------------------------------------
\* Once a batch write has been counted the count is positive for good, although lost updates
\* may set it back: only an attempt that findAndModify starts on a chunk without batch writes
\* can meet a count of zero.
CountStaysPositive ==
    cnt = 0 => sum = 0 /\ \A t \in Threads : pc[t] # "sum" /\ try[t] = NoTry

\* Every ticket of the throttle is free or held by one attempt, whichever way attempts end:
\* otherwise auto-split would stop for good in this router.
TicketsConserved ==
    tickets + Cardinality({t \in Threads : pc[t] \in Working \cup {"crashed"}}) = SplitTickets

\* On each side of the average the moved points keep the numeric order that splitVector gave
\* them, and no subtraction wraps around: only points of different sides may cross, or a point
\* the one that stays on the average.
SidesKeepOrder ==
    \A t \in Threads : pc[t] \in {"send", "sent"} =>
        LET to == try[t].to
            left == {j \in 1 .. try[t].n : try[t].from[j] # try[t].avg}
            right == try[t].n + 1 .. Len(to)
        IN  \A side \in {left, right} : \A i, j \in side : i < j => to[i] < to[j]

\* Dynamic tuning: the point that is next to the average on its side moves by the whole shift
\* and every other one by half of what its neighbour towards the average moved; a point on
\* the average stays and does not count.
DynamicTuning ==
    \A t \in Threads : pc[t] \in {"send", "sent"} =>
        LET from == try[t].from
            n    == try[t].n
            between(j) == IF j > n THEN n + 1 .. j - 1
                          ELSE {m \in j + 1 .. n : from[m] # try[t].avg}
            interval(j) == try[t].interval \div 2 ^ Cardinality(between(j))
        IN  \A j \in 1 .. Len(from) : try[t].to[j] =
                CASE j > n -> from[j] - interval(j)
                  [] from[j] = try[t].avg -> from[j]
                  [] OTHER -> from[j] + interval(j)

\* "Make sure splitKeys is in ascending order": the points sent to be committed are.
SplitKeysAscending == \A t \in Threads : pc[t] = "sent" => Ascending(try[t].points)

\* An attempt to split comes to an end and its thread goes back to its client.
AttemptsEnd == \A t \in Threads : pc[t] \in Working ~> pc[t] = "idle"
=============================================================================
