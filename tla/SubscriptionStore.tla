-------------------------- MODULE SubscriptionStore --------------------------
(***************************************************************************)
(* What a client may expect of the registry: a set of sensors and a set of *)
(* subscriptions (sensorgroups), each a list of sensors that exist. Every  *)
(* operation is atomic, and removing a sensor removes it from every list,  *)
(* where it stands at most once.                                           *)
(***************************************************************************)
EXTENDS Sequences, SequencesExt

CONSTANTS Sensors, Groups

VARIABLES
    registered,   \* the sensors that exist
    lists         \* for each subscribed group, the sensors it publishes

storeVars == <<registered, lists>>

Init == registered = {} /\ lists = [g \in {} |-> <<>>]

Register(s) ==
    /\ registered' = registered \cup {s}
    /\ UNCHANGED lists

Unregister(s) ==
    /\ registered' = registered \ {s}
    /\ lists' = [g \in DOMAIN lists |-> RemoveFirst(lists[g], s)]

Subscribe(g) ==
    /\ g \notin DOMAIN lists
    /\ DOMAIN lists' = DOMAIN lists \cup {g}
    /\ \A h \in DOMAIN lists : lists'[h] = lists[h]
    /\ lists'[g] \in Seq(registered) /\ IsInjective(lists'[g])
    /\ UNCHANGED registered

Unsubscribe(g) ==
    /\ g \in DOMAIN lists
    /\ lists' = [h \in DOMAIN lists \ {g} |-> lists[h]]
    /\ UNCHANGED registered

Next ==
    \/ \E s \in Sensors : Register(s) \/ Unregister(s)
    \/ \E g \in Groups : Subscribe(g) \/ Unsubscribe(g)

Spec == Init /\ [][Next]_storeVars
=============================================================================
