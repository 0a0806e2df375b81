---------------------------- MODULE SnapshotStore ----------------------------
(***************************************************************************)
(* What the incremental cache promises the Lean processes that read it: a  *)
(* map from fingerprints to whole snapshots, each committed and evicted at *)
(* once, and never while somebody reads it.                                *)
(***************************************************************************)
CONSTANTS Clients, Keys, Contents, NoContent

VARIABLES store, readers

StoreInit ==
    /\ store = [k \in Keys |-> NoContent]
    /\ readers = [k \in Keys |-> {}]

Commit(k) ==
    /\ store[k] = NoContent
    /\ \E x \in Contents : store' = [store EXCEPT ![k] = x]
    /\ UNCHANGED readers

Evict(k) ==
    /\ store[k] # NoContent
    /\ readers[k] = {}
    /\ store' = [store EXCEPT ![k] = NoContent]
    /\ UNCHANGED readers

Open(k, c) ==
    /\ store[k] # NoContent
    /\ c \notin readers[k]
    /\ readers' = [readers EXCEPT ![k] = @ \cup {c}]
    /\ UNCHANGED store

Close(k, c) ==
    /\ c \in readers[k]
    /\ readers' = [readers EXCEPT ![k] = @ \ {c}]
    /\ UNCHANGED store

StoreNext ==
    \E k \in Keys :
        \/ Commit(k) \/ Evict(k)
        \/ \E c \in Clients : Open(k, c) \/ Close(k, c)

StoreSpec == StoreInit /\ [][StoreNext]_<<store, readers>>

==============================================================================
