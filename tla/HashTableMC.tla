---------------------------- MODULE HashTableMC -----------------------------
(* Calls for the model-checked instances of HashTable.                     *)
EXTENDS HashTable

CONSTANTS k1, k2, k3, k4, k5, v1, v2, t1, t2

\* k1, k2 and k3 share a bucket, k4 and k5 the other.
TwoBuckets == [k \in Keys |-> IF k \in {k4, k5} THEN 1 ELSE 0]

CallsOn(ops, keys, vals) ==
    {[op |-> o, key |-> k, val |-> v] : o \in ops, k \in keys, v \in vals}

\* One thread does everything in the bucket of k1, k2 and k3, and looks up one
\* of the keys that the other thread creates in the other bucket.
OwnerCalls == [t \in Threads |->
    IF t = t1
    THEN CallsOn({"create", "delete"}, {k1, k2, k3}, {v1})
            \cup CallsOn({"put"}, {k1}, {v2}) \cup CallsOn({"get"}, {k2, k4}, {v1})
    ELSE CallsOn({"create"}, {k4, k5}, {v2})]

\* Two threads create the same keys.
RacingCalls == [t \in Threads |-> CallsOn({"create"}, {k1, k2}, {v1})]
=============================================================================
