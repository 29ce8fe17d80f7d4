------------------------------ MODULE Registry ------------------------------
(***************************************************************************)
(* The registry of can-monitor: the table of sensors, the table of         *)
(* sensorgroups (each with its list of sensor ids) and the status, changed *)
(* by the REST handlers and read by the main loop.                         *)
(*                                                                         *)
(* libmicrohttpd runs every connection in a thread of its own and nothing  *)
(* in the program locks the tables, so a handler is modelled as a process  *)
(* that takes one step per access to a table (hts_get, hts_put,            *)
(* hts_delete, htsg_...) or to status. The main loop and the handler of    *)
(* GET sensorgroups walk the table of groups and look up each listed       *)
(* sensor; neither tests the result of hts_get for NULL.                   *)
(*                                                                         *)
(* A group is identified with its bucket: the instance has NGroups ids, no *)
(* two of which hash to the same bucket, numbered in bucket order.         *)
(***************************************************************************)
EXTENDS Integers, Sequences, SequencesExt

CONSTANTS
    Sensors,   \* sensor ids
    NGroups,   \* number of sensorgroup ids
    Conns,     \* connections, i.e. handler threads
    Main,      \* the thread of main()
    Requests   \* [Conns -> the requests that connection may carry]

Groups  == 1 .. NGroups
Threads == Conns \cup {Main}

\* An item of a group's sensor-list: only the id, a full configuration, a full
\* configuration with wrong settings, one with a missing or -1 setting, or
\* some but not all of the keys.
ItemKinds == {"id", "full", "badSettings", "badValue", "malformed"}
Item      == [kind : ItemKinds, id : Sensors]

\* valid: all keys are there and (for a sensor) the settings are the three
\* known ones.
SensorBody == [id : Sensors, valid : BOOLEAN]
GroupBody  == [id : Groups, valid : BOOLEAN, items : Seq(Item)]

\* query: the values of the id keys of the query, in the order of the list
\* that the handler walks.
SensorRequest ==
         [op : {"postSensor"}, body : SensorBody]
    \cup [op : {"putSensor"}, query : Seq(Sensors), body : SensorBody]
    \cup [op : {"deleteSensor"}, query : Seq(Sensors)]
GroupRequest ==
         [op : {"postGroup"}, body : GroupBody]
    \cup [op : {"putGroup"}, query : Seq(Groups), body : GroupBody]
    \cup [op : {"deleteGroup"}, query : Seq(Groups)]
PlainRequest == [op : {"getGroups", "start", "stop"}]
Request      == SensorRequest \cup GroupRequest \cup PlainRequest

ASSUME RegistryAssumption ==
    /\ NGroups \in Nat
    /\ Main \notin Conns
    /\ Requests \in [Conns -> SUBSET Request]

VARIABLES
    sensors,   \* keys of sensors_table
    inGroups,  \* keys of sensorgroup_table
    list,      \* sensor_list[0 .. sensorcount-1] of the group of each bucket
    freed,     \* keys whose node points to memory already freed
    status,    \* the global status
    crashed,   \* the process died on a bad pointer
    pc,        \* where each handler is
    req,       \* the request it serves, or served last
    k,         \* its loop index: query, item or bucket
    built,     \* the sensor_list it is building
    reply,     \* its answer
    walk       \* the walk of each thread over sensorgroup_table

tables == <<sensors, inGroups, list, freed>>
locals == <<pc, req, k, built, reply>>
vars   == <<tables, status, crashed, locals, walk>>

Statuses == {"unconfigured", "configured", "running"}
Pcs == {"idle", "create", "put", "delete", "unlist", "subscribe", "item",
        "itemPut", "rollback", "unsubscribe", "check", "set", "read"}

\* at: the bucket, 0 when not walking; entry: the next list entry, 0 before
\* the group is entered; gone: its group has left the table, and list then
\* holds what the group, still in memory, lists.
Walk == [at : 0 .. NGroups + 1, entry : Nat, gone : BOOLEAN, list : Seq(Sensors)]
NoWalk    == [at |-> 0, entry |-> 0, gone |-> FALSE, list |-> <<>>]
AtHead(b) == [at |-> b, entry |-> 0, gone |-> FALSE, list |-> <<>>]

TypeOK ==
    /\ sensors \subseteq Sensors
    /\ inGroups \subseteq Groups
    /\ list \in [Groups -> Seq(Sensors)]
    /\ freed \subseteq Sensors \cup Groups
    /\ status \in Statuses
    /\ crashed \in BOOLEAN
    /\ pc \in [Conns -> Pcs]
    /\ req \in [Conns -> Request]
    /\ k \in [Conns -> Nat]
    /\ built \in [Conns -> Seq(Sensors)]
    /\ reply \in [Conns -> {"none", "OK", "ERROR"}]
    /\ walk \in [Threads -> Walk]

Init ==
    /\ sensors = {}
    /\ inGroups = {}
    /\ list = [g \in Groups |-> <<>>]
    /\ freed = {}
    /\ status = "unconfigured"
    /\ crashed = FALSE
    /\ pc = [c \in Conns |-> "idle"]
    /\ req = [c \in Conns |-> [op |-> "getGroups"]]
    /\ k = [c \in Conns |-> 1]
    /\ built = [c \in Conns |-> <<>>]
    /\ reply = [c \in Conns |-> "none"]
    /\ walk = [t \in Threads |-> NoWalk]

-----------------------------------------------------------------------------
(* Control of a handler.                                                   *)

Entry(op) ==
    CASE op = "postSensor"                     -> "create"
      [] op \in {"putSensor", "deleteSensor"}  -> "delete"
      [] op = "postGroup"                      -> "subscribe"
      [] op \in {"putGroup", "deleteGroup"}    -> "unsubscribe"
      [] op = "getGroups"                      -> "read"
      [] op \in {"start", "stop"}              -> "check"

Goto(c, label) ==
    /\ pc' = [pc EXCEPT ![c] = label]
    /\ UNCHANGED <<req, reply>>

Answer(c, r) ==
    /\ pc' = [pc EXCEPT ![c] = "idle"]
    /\ reply' = [reply EXCEPT ![c] = r]
    /\ UNCHANGED req

SetK(c, n) == k' = [k EXCEPT ![c] = n]

\* rest_server calls a handler with the parsed query and body.
Receive(c) ==
    /\ pc[c] = "idle"
    /\ \E r \in Requests[c] :
        /\ req' = [req EXCEPT ![c] = r]
        /\ pc' = [pc EXCEPT ![c] = Entry(r.op)]
        /\ walk' = [walk EXCEPT ![c] = IF r.op = "getGroups" THEN AtHead(1) ELSE @]
    /\ SetK(c, 1)
    /\ built' = [built EXCEPT ![c] = <<>>]
    /\ reply' = [reply EXCEPT ![c] = "none"]
    /\ UNCHANGED <<tables, status, crashed>>

-----------------------------------------------------------------------------
(* The tables.                                                             *)

\* hts_put. When the key is there, node_handler_sensors frees the sensor it
\* has just stored in the node.
Put(s) ==
    /\ sensors' = sensors \cup {s}
    /\ freed' = IF s \in sensors THEN freed \cup {s} ELSE freed

\* hts_delete.
Delete(s) ==
    /\ sensors' = sensors \ {s}
    /\ freed' = freed \ {s}

-----------------------------------------------------------------------------
(* create_sensors_configuration.                                           *)

\* A fault: the id is not looked up first.
CreateAnySensor(c) ==
    /\ pc[c] = "create"
    /\ IF req[c].body.valid THEN Goto(c, "put") ELSE Answer(c, "ERROR")
    /\ UNCHANGED <<tables, status, crashed, k, built, walk>>

CreateSensor(c) ==
    /\ pc[c] = "create"
    /\ IF req[c].body.valid /\ req[c].body.id \notin sensors
       THEN Goto(c, "put")
       ELSE Answer(c, "ERROR")
    /\ UNCHANGED <<tables, status, crashed, k, built, walk>>

PutSensor(c) ==
    /\ pc[c] = "put"
    /\ Put(req[c].body.id)
    /\ Goto(c, "check")
    /\ UNCHANGED <<inGroups, list, status, crashed, k, built, walk>>

(* The tail of both create handlers, and cmd_execute_configuration: status *)
(* is tested in one step and assigned in another.                          *)

MaySet(op) ==
    CASE op = "start" -> status = "configured"
      [] op = "stop"  -> status = "running"
      [] OTHER        -> status # "running"

CheckStatus(c) ==
    /\ pc[c] = "check"
    /\ IF MaySet(req[c].op)
       THEN Goto(c, "set")
       ELSE Answer(c, IF req[c].op \in {"start", "stop"} THEN "ERROR" ELSE "OK")
    /\ UNCHANGED <<tables, status, crashed, k, built, walk>>

SetStatus(c) ==
    /\ pc[c] = "set"
    /\ status' = IF req[c].op = "start" THEN "running" ELSE "configured"
    /\ Answer(c, "OK")
    /\ UNCHANGED <<tables, crashed, k, built, walk>>

-----------------------------------------------------------------------------
(* delete_sensors_configuration, alone or as the first half of             *)
(* update_sensors_configuration.                                           *)

DeleteSensor(c) ==
    /\ pc[c] = "delete"
    /\ k[c] \in DOMAIN req[c].query
    /\ Delete(req[c].query[k[c]])
    /\ IF req[c].query[k[c]] \in sensors
       THEN Goto(c, "delete") /\ SetK(c, k[c] + 1)
       ELSE Answer(c, "ERROR") /\ UNCHANGED k
    /\ UNCHANGED <<inGroups, list, status, crashed, built, walk>>

EndDelete(c) ==
    /\ pc[c] = "delete"
    /\ k[c] \notin DOMAIN req[c].query
    /\ IF req[c].query = <<>>
       THEN Answer(c, "ERROR") /\ UNCHANGED k
       ELSE Goto(c, "unlist") /\ SetK(c, 1)
    /\ UNCHANGED <<tables, status, crashed, built, walk>>

\* A fault: the loop over the buckets does not advance.
UnlistForever(c) ==
    /\ pc[c] = "unlist"
    /\ k[c] \in Groups
    /\ list' = IF k[c] \in inGroups
               THEN [list EXCEPT ![k[c]] = RemoveFirst(@, Last(req[c].query))]
               ELSE list
    /\ UNCHANGED <<sensors, inGroups, freed, status, crashed, locals, walk>>

\* In the group of this bucket, shift the list over the first entry that
\* equals id, which is by now the last id of the query.
Unlist(c) ==
    /\ pc[c] = "unlist"
    /\ k[c] \in Groups
    /\ list' = IF k[c] \in inGroups
               THEN [list EXCEPT ![k[c]] = RemoveFirst(@, Last(req[c].query))]
               ELSE list
    /\ SetK(c, k[c] + 1)
    /\ UNCHANGED <<sensors, inGroups, freed, status, crashed, pc, req, built, reply, walk>>

\* A fault: the loop over the buckets ends one too early.
EndUnlistEarly(c) ==
    /\ pc[c] = "unlist"
    /\ k[c] >= NGroups
    /\ IF req[c].op = "putSensor" THEN Goto(c, "create") ELSE Answer(c, "OK")
    /\ UNCHANGED <<tables, status, crashed, k, built, walk>>

EndUnlist(c) ==
    /\ pc[c] = "unlist"
    /\ k[c] \notin Groups
    /\ IF req[c].op = "putSensor" THEN Goto(c, "create") ELSE Answer(c, "OK")
    /\ UNCHANGED <<tables, status, crashed, k, built, walk>>

-----------------------------------------------------------------------------
(* create_sensorgroups_subscription.                                       *)

BeginGroup(c) ==
    /\ pc[c] = "subscribe"
    /\ IF req[c].body.valid /\ req[c].body.id \notin inGroups
       THEN Goto(c, "item") /\ SetK(c, 1)
       ELSE Answer(c, "ERROR") /\ UNCHANGED k
    /\ UNCHANGED <<tables, status, crashed, built, walk>>

AtItem(c, kinds) ==
    /\ pc[c] = "item"
    /\ k[c] \in DOMAIN req[c].body.items
    /\ req[c].body.items[k[c]].kind \in kinds

ItemId(c)   == req[c].body.items[k[c]].id
AddItem(c)  == /\ built' = [built EXCEPT ![c] = Append(@, ItemId(c))]
               /\ SetK(c, k[c] + 1)

\* A fault: the id is listed without a look at the table of sensors.
ListAnyItem(c) ==
    /\ AtItem(c, {"id"})
    /\ AddItem(c)
    /\ Goto(c, "item")
    /\ UNCHANGED <<tables, status, crashed, walk>>

\* An item with only the id of a sensor.
ListItem(c) ==
    /\ AtItem(c, {"id"})
    /\ IF ItemId(c) \in sensors
       THEN AddItem(c) /\ Goto(c, "item")
       ELSE Answer(c, "ERROR") /\ UNCHANGED <<k, built>>
    /\ UNCHANGED <<tables, status, crashed, walk>>

RejectItem(c) ==
    /\ AtItem(c, {"malformed"})
    /\ Answer(c, "ERROR")
    /\ UNCHANGED <<tables, status, crashed, k, built, walk>>

\* A fault: a sensor with the id of the item is left in the table.
KeepItem(c) ==
    /\ AtItem(c, {"full", "badSettings", "badValue"})
    /\ CASE AtItem(c, {"full"})        -> Goto(c, "itemPut")
         [] AtItem(c, {"badSettings"}) -> Answer(c, "ERROR")
         [] AtItem(c, {"badValue"})    -> Goto(c, "rollback")
    /\ UNCHANGED <<tables, status, crashed, k, built, walk>>

\* An item with a full configuration: a sensor with that id is deleted first,
\* and the settings are looked at only then.
DropItem(c) ==
    /\ AtItem(c, {"full", "badSettings", "badValue"})
    /\ Delete(ItemId(c))
    /\ CASE AtItem(c, {"full"})        -> Goto(c, "itemPut")
         [] AtItem(c, {"badSettings"}) -> Answer(c, "ERROR")
         [] AtItem(c, {"badValue"})    -> Goto(c, "rollback")
    /\ UNCHANGED <<inGroups, list, status, crashed, k, built, walk>>

PutItem(c) ==
    /\ pc[c] = "itemPut"
    /\ Put(ItemId(c))
    /\ AddItem(c)
    /\ Goto(c, "item")
    /\ UNCHANGED <<inGroups, list, status, crashed, walk>>

\* A missing setting deletes the sensors of all the items before this one.
Rollback(c) ==
    /\ pc[c] = "rollback"
    /\ built[c] # <<>>
    /\ Delete(Head(built[c]))
    /\ built' = [built EXCEPT ![c] = Tail(@)]
    /\ UNCHANGED <<inGroups, list, status, crashed, pc, req, k, reply, walk>>

\* A fault: the rolled back request is answered as if it had been served.
EndRollbackOK(c) ==
    /\ pc[c] = "rollback"
    /\ built[c] = <<>>
    /\ Answer(c, "OK")
    /\ UNCHANGED <<tables, status, crashed, k, built, walk>>

EndRollback(c) ==
    /\ pc[c] = "rollback"
    /\ built[c] = <<>>
    /\ Answer(c, "ERROR")
    /\ UNCHANGED <<tables, status, crashed, k, built, walk>>

\* htsg_put, with the same treatment of a key that is there as hts_put.
PutGroup(c) ==
    LET g == req[c].body.id
    IN  /\ pc[c] = "item"
        /\ k[c] \notin DOMAIN req[c].body.items
        /\ inGroups' = inGroups \cup {g}
        /\ list' = [list EXCEPT ![g] = built[c]]
        /\ freed' = IF g \in inGroups THEN freed \cup {g} ELSE freed
        /\ Goto(c, "check")
        /\ UNCHANGED <<sensors, status, crashed, k, built, walk>>

-----------------------------------------------------------------------------
(* delete_sensorgroups_subscription, alone or as the first half of         *)
(* update_sensorgroups_subscription.                                       *)

\* htsg_delete: the group leaves the table, but not the memory of a thread
\* that is reading it.
Detach(g) ==
    walk' = [t \in Threads |->
               IF walk[t].at = g /\ walk[t].entry > 0 /\ ~walk[t].gone
               THEN [walk[t] EXCEPT !.gone = TRUE, !.list = list[g]]
               ELSE walk[t]]

DeleteGroup(c) ==
    /\ pc[c] = "unsubscribe"
    /\ k[c] \in DOMAIN req[c].query
    /\ LET g == req[c].query[k[c]]
       IN  IF g \in inGroups
           THEN /\ inGroups' = inGroups \ {g}
                /\ freed' = freed \ {g}
                /\ Detach(g)
                /\ Goto(c, "unsubscribe")
                /\ SetK(c, k[c] + 1)
           ELSE /\ Answer(c, "ERROR")
                /\ UNCHANGED <<inGroups, freed, walk, k>>
    /\ UNCHANGED <<sensors, list, status, crashed, built>>

EndDeleteGroup(c) ==
    /\ pc[c] = "unsubscribe"
    /\ k[c] \notin DOMAIN req[c].query
    /\ IF req[c].op = "putGroup" /\ req[c].query # <<>>
       THEN Goto(c, "subscribe")
       ELSE Answer(c, IF req[c].query = <<>> THEN "ERROR" ELSE "OK")
    /\ UNCHANGED <<tables, status, crashed, k, built, walk>>

-----------------------------------------------------------------------------
(* Walks over the table of groups: read_sensorgroups_subscription in a     *)
(* handler, and the publishing part of the main loop.                      *)

Entries(t) == IF walk[t].gone THEN walk[t].list ELSE list[walk[t].at]
Reading(t) == walk[t].at \in Groups /\ walk[t].entry > 0
NextEntry(t) == Entries(t)[walk[t].entry]

\* The main loop looks at status once, before it walks.
StartSweep ==
    /\ walk[Main].at = 0
    /\ status = "running"
    /\ walk' = [walk EXCEPT ![Main] = AtHead(1)]
    /\ UNCHANGED <<tables, status, crashed, locals>>

\* The main loop enters only a group whose publication is due.
EnterGroup(t) ==
    /\ walk[t].at \in inGroups
    /\ walk[t].entry = 0
    /\ walk' = [walk EXCEPT ![t].entry = 1]
    /\ UNCHANGED <<tables, status, crashed, locals>>

\* A fault: the loop over the buckets does not stop at the last one.
SkipPastEnd(t) ==
    /\ walk[t].at > 0
    /\ walk[t].entry = 0
    /\ walk[t].at \in inGroups => t = Main
    /\ walk' = [walk EXCEPT ![t] = AtHead(walk[t].at + 1)]
    /\ UNCHANGED <<tables, status, crashed, locals>>

SkipGroup(t) ==
    /\ walk[t].at \in Groups
    /\ walk[t].entry = 0
    /\ walk[t].at \in inGroups => t = Main
    /\ walk' = [walk EXCEPT ![t] = AtHead(walk[t].at + 1)]
    /\ UNCHANGED <<tables, status, crashed, locals>>

ReadEntry(t) ==
    /\ Reading(t)
    /\ walk[t].entry <= Len(Entries(t))
    /\ NextEntry(t) \in sensors
    /\ walk' = [walk EXCEPT ![t].entry = @ + 1]
    /\ UNCHANGED <<tables, status, crashed, locals>>

\* A fault: the walk does not move on to the next node.
LeaveToSame(t) ==
    /\ Reading(t)
    /\ walk[t].entry > Len(Entries(t))
    /\ walk' = [walk EXCEPT ![t] = AtHead(walk[t].at)]
    /\ UNCHANGED <<tables, status, crashed, locals>>

LeaveGroup(t) ==
    /\ Reading(t)
    /\ walk[t].entry > Len(Entries(t))
    /\ walk' = [walk EXCEPT ![t] = AtHead(walk[t].at + 1)]
    /\ UNCHANGED <<tables, status, crashed, locals>>

EndSweep ==
    /\ walk[Main].at = NGroups + 1
    /\ walk' = [walk EXCEPT ![Main] = NoWalk]
    /\ UNCHANGED <<tables, status, crashed, locals>>

EndRead(c) ==
    /\ pc[c] = "read"
    /\ walk[c].at = NGroups + 1
    /\ walk' = [walk EXCEPT ![c] = NoWalk]
    /\ Answer(c, "OK")
    /\ UNCHANGED <<tables, status, crashed, k, built>>

\* hts_get answered NULL, and its result is dereferenced.
ReadMissing(t) ==
    /\ Reading(t)
    /\ walk[t].entry <= Len(Entries(t))
    /\ NextEntry(t) \notin sensors
    /\ crashed' = TRUE
    /\ UNCHANGED <<tables, status, locals, walk>>

\* Thread t is about to read freed memory: a group or a sensor whose node
\* outlived it, or the next field of the node of a group deleted under it.
AtFreed(t) ==
    \/ walk[t].at \in freed /\ ~walk[t].gone
    \/ Reading(t) /\ IF walk[t].entry <= Len(Entries(t))
                     THEN NextEntry(t) \in freed
                     ELSE walk[t].gone
    \/ t \in Conns /\ pc[t] = "unlist" /\ k[t] \in inGroups \cap freed

\* Such a read may go well, or kill the process.
TouchFreed(t) ==
    /\ AtFreed(t)
    /\ crashed' = TRUE
    /\ UNCHANGED <<tables, status, locals, walk>>

-----------------------------------------------------------------------------
Handler(c) ==
    \/ CreateSensor(c) \/ PutSensor(c) \/ CheckStatus(c) \/ SetStatus(c)
    \/ DeleteSensor(c) \/ EndDelete(c) \/ Unlist(c) \/ EndUnlist(c)
    \/ BeginGroup(c) \/ ListItem(c) \/ RejectItem(c) \/ DropItem(c) \/ PutItem(c)
    \/ Rollback(c) \/ EndRollback(c) \/ PutGroup(c)
    \/ DeleteGroup(c) \/ EndDeleteGroup(c) \/ EndRead(c)

WalkStep(t) ==
    \/ EnterGroup(t) \/ SkipGroup(t) \/ ReadEntry(t) \/ LeaveGroup(t)
    \/ ReadMissing(t) \/ TouchFreed(t)

Serve(c)  == ~crashed /\ (Handler(c) \/ WalkStep(c))
Accept(c) == ~crashed /\ Receive(c)
Sweep     == ~crashed /\ (StartSweep \/ EndSweep \/ WalkStep(Main))

\* A process that died stays dead.
Dead == crashed /\ UNCHANGED vars

Next ==
    \/ \E c \in Conns : Accept(c) \/ Serve(c)
    \/ Sweep
    \/ Dead

Spec == Init /\ [][Next]_vars

\* Every thread that can take a step is scheduled: handler threads and the
\* main loop run on their own and wait for nothing here.
FairSpec == Spec /\ WF_vars(Sweep) /\ \A c \in Conns : WF_vars(Serve(c))

-----------------------------------------------------------------------------
(* Properties.                                                             *)

Quiet == \A c \in Conns : pc[c] = "idle"

\* Between requests, every sensor that a group lists is registered:
\* create_data_payload and read_sensorgroups_subscription rely on it when they
\* dereference what hts_get returns.
ListsResolve ==
    Quiet => \A g \in inGroups : ToSet(list[g]) \subseteq sensors

\* No walk over the groups, by the main loop or by GET sensorgroups, ever
\* meets a missing sensor or freed memory.
NoCrash == ~crashed

\* hts_put and htsg_put are called only with keys that are not in the table,
\* so that no node is left pointing at the sensor or group node_handler freed.
NoDangling == freed = {}

\* An answer OK means that the request took effect: the sensor or group sent
\* is in the table, what was to be deleted is not, and a new group resolves.
AckMeansDone ==
    \A c \in Conns :
        (pc[c] = "idle" /\ reply[c] = "OK") =>
            CASE req[c].op \in {"postSensor", "putSensor"} ->
                    req[c].body.id \in sensors
              [] req[c].op = "deleteSensor" ->
                    ToSet(req[c].query) \cap sensors = {}
              [] req[c].op \in {"postGroup", "putGroup"} ->
                    /\ req[c].body.id \in inGroups
                    /\ Len(list[req[c].body.id]) = Len(req[c].body.items)
                    /\ ToSet(list[req[c].body.id]) \subseteq sensors
              [] req[c].op = "deleteGroup" -> ToSet(req[c].query) \cap inGroups = {}
              [] OTHER -> TRUE

\* The subscription store a client sees, each operation taking effect at once:
\* a sensor that is being replaced is there, and a sensor that was deleted has
\* left the lists the handler has still to visit.
PendingItems == {ItemId(c) : c \in {d \in Conns : pc[d] = "itemPut"}}
Unlisting(g) ==
    {c \in Conns : \/ pc[c] = "delete" /\ k[c] > 1
                   \/ pc[c] = "unlist" /\ k[c] <= g}
VisibleList(g) ==
    IF Unlisting(g) = {}
    THEN list[g]
    ELSE RemoveFirst(list[g], Last(req[CHOOSE c \in Unlisting(g) : TRUE].query))

Store == INSTANCE SubscriptionStore WITH
            registered <- sensors \cup PendingItems,
            lists      <- [g \in inGroups |-> VisibleList(g)]

\* The registry implements the store: it changes by one whole operation of
\* the store at a time, whatever the main loop reads meanwhile.
StoreSpec == Store!Spec

\* Every request is answered, unless the process dies: no loop of a handler
\* runs for ever.
RequestsAnswered == \A c \in Conns : pc[c] # "idle" ~> (pc[c] = "idle" \/ crashed)

\* Under a stream of requests the main loop still finishes each sweep.
SweepsEnd == walk[Main].at # 0 ~> (walk[Main].at = 0 \/ crashed)
=============================================================================
