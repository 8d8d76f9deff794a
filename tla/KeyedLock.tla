------------------------------ MODULE KeyedLock ------------------------------
(***************************************************************************)
(* A lock per key, as the callers of FuzzyMutexAsync.LockAsync rely on it: *)
(* a client gets the key nobody has, and gives back a key it has.          *)
(***************************************************************************)
CONSTANTS Clients, Keys

VARIABLE owners    \* for every key, the clients that have it

Init == owners = [k \in Keys |-> {}]

Acquire(c, k) == /\ owners[k] = {}
                 /\ owners' = [owners EXCEPT ![k] = {c}]

Release(c, k) == /\ c \in owners[k]
                 /\ owners' = [owners EXCEPT ![k] = @ \ {c}]

Next == \E c \in Clients, k \in Keys : Acquire(c, k) \/ Release(c, k)

Spec == Init /\ [][Next]_owners
==============================================================================
