------------------------------ MODULE ChunkStore ------------------------------
(***************************************************************************)
(* What clients see of the chunks of a sharded collection, whatever shard  *)
(* holds them: a document per chunk that acknowledged writes change.       *)
(* Migrations are no part of it: they must not be noticeable.              *)
(***************************************************************************)
EXTENDS Naturals

CONSTANT Chunks

VARIABLES
    store,  \* the document of each chunk: the write that made it, 0 for none
    acked   \* acknowledged writes

Init ==
    /\ store = [c \in Chunks |-> 1]
    /\ acked = 1

(* An insert or update of the chunk's document, and its removal. *)
Put(c) == store' = [store EXCEPT ![c] = acked'] /\ acked' = acked + 1
Remove(c) == store[c] # 0 /\ store' = [store EXCEPT ![c] = 0] /\ acked' = acked + 1

Next == \E c \in Chunks : Put(c) \/ Remove(c)

Spec == Init /\ [][Next]_<<store, acked>>
===============================================================================
