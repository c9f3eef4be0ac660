------------------------------ MODULE KVStore ------------------------------
(***************************************************************************)
(* The backend contract of spec.md section 4: "Writes are atomic at key    *)
(* granularity; failed writes leave no visible object.  Reads of a missing *)
(* key yield NotFound."  A key is absent or holds a whole value; a put or  *)
(* a delete changes it in one step; a read returns what the key holds.     *)
(* A failed or interrupted operation is a stuttering step.                 *)
(***************************************************************************)
CONSTANTS
    Keys,      \* the keys the contract is stated for
    Vals,      \* the values a put may store
    Clients,   \* the callers of the backend
    NotFound,  \* the read of a missing key
    NoRead     \* a caller that has not read one of Keys since

VARIABLES
    store,     \* store[k]: the value of k, or NotFound
    got        \* got[c]: what c's last read of one of Keys returned

vars == <<store, got>>

Init ==
    /\ store \in [Keys -> Vals \cup {NotFound}]
    /\ got = [c \in Clients |-> NoRead]

Put(k, v) ==
    /\ store' = [store EXCEPT ![k] = v]
    /\ UNCHANGED got

Delete(k) ==
    /\ store' = [store EXCEPT ![k] = NotFound]
    /\ UNCHANGED got

Get(c, k) ==
    /\ got' = [got EXCEPT ![c] = store[k]]
    /\ UNCHANGED store

\* c reads a key the contract is not stated for.
Forget(c) ==
    /\ got' = [got EXCEPT ![c] = NoRead]
    /\ UNCHANGED store

Next ==
    \/ \E k \in Keys : Delete(k) \/ \E v \in Vals : Put(k, v)
    \/ \E c \in Clients : Forget(c) \/ \E k \in Keys : Get(c, k)

Spec == Init /\ [][Next]_vars
=============================================================================
