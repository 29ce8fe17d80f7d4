------------------------ MODULE RegistryClients_proofs -----------------------
(***************************************************************************)
(* What the registry guarantees depends on its clients: any number that    *)
(* create ids of their own, one that sends anything, one that is careful,  *)
(* and any number that only add.                                           *)
(***************************************************************************)
EXTENDS Registry_proofs

-----------------------------------------------------------------------------
(* One client, whatever it sends.                                           *)

\* A handler that is about to put a key has seen that it is not there, or has
\* deleted it.
FreshAt(c) ==
    /\ pc[c] = "put" => req[c].body.id \notin sensors
    /\ pc[c] = "itemPut" => ItemId(c) \notin sensors
    /\ pc[c] \in {"item", "itemPut"} => req[c].body.id \notin inGroups

FreshInv(c) == TypeInv /\ NoDangling /\ FreshAt(c)

LEMMA FreshHandler ==
    ASSUME NEW c \in Conns, FreshInv(c), Handler(c)
    PROVE  FreshInv(c)'
<1>1. TypeInv /\ TypeInv'
    BY TypeHandler, ControlHandler DEF FreshInv, TypeInv
<1>2. /\ pc \in [Conns -> Pcs] /\ k \in [Conns -> Nat] /\ req \in [Conns -> Request]
      /\ freed = {} /\ FreshAt(c)
    BY <1>1 DEF TypeInv, TypeOK, FreshInv, NoDangling
<1>3. ASSUME freed' = {}, pc'[c] \notin {"put", "item", "itemPut"}
      PROVE  FreshInv(c)'
    BY <1>1, <1>3 DEF FreshInv, FreshAt, NoDangling
<1>4. ASSUME freed' = {}, pc'[c] \in {"item", "rollback"}, pc[c] \in {"item", "itemPut"},
             UNCHANGED <<req, inGroups>>
      PROVE  FreshInv(c)'
    BY <1>1, <1>2, <1>4 DEF FreshInv, FreshAt, NoDangling
<1>5. CASE CreateSensor(c)
    <2>1. pc'[c] = "put" => req'[c].body.id \notin sensors'
        BY <1>2, <1>5 DEF CreateSensor, Goto, Answer, tables
    <2>2. pc'[c] \in {"put", "idle"} /\ freed' = {}
        BY <1>2, <1>5 DEF CreateSensor, Goto, Answer, tables
    <2> QED BY <1>1, <2>1, <2>2 DEF FreshInv, FreshAt, NoDangling
<1>6. CASE PutSensor(c)
    BY <1>2, <1>3, <1>6 DEF PutSensor, Put, Goto, FreshAt
<1>7. CASE CheckStatus(c) \/ SetStatus(c)
    BY <1>2, <1>3, <1>7 DEF CheckStatus, SetStatus, Goto, Answer, tables
<1>8. CASE DeleteSensor(c)
    BY <1>2, <1>3, <1>8 DEF DeleteSensor, Delete, Goto, Answer
<1>9. CASE EndDelete(c)
    BY <1>2, <1>3, <1>9 DEF EndDelete, Goto, Answer, tables
<1>10. CASE Unlist(c) \/ EndUnlist(c)
    BY <1>2, <1>3, <1>10 DEF Unlist, EndUnlist, Goto, Answer, tables
<1>11. CASE BeginGroup(c)
    <2>1. /\ pc'[c] \in {"item", "idle"} /\ freed' = {}
          /\ pc'[c] = "item" => req'[c].body.id \notin inGroups'
        BY <1>2, <1>11 DEF BeginGroup, Goto, Answer, tables
    <2> QED BY <1>1, <2>1 DEF FreshInv, FreshAt, NoDangling
<1>12. CASE ListItem(c)
    <2>1. pc[c] = "item" /\ freed' = {} /\ UNCHANGED <<req, inGroups>>
        BY <1>2, <1>12 DEF ListItem, AtItem, Goto, Answer, tables
    <2>2. pc'[c] \in {"item", "idle"}
        BY <1>2, <1>12 DEF ListItem, Goto, Answer
    <2> QED BY <1>3, <1>4, <2>1, <2>2
<1>13. CASE RejectItem(c)
    BY <1>2, <1>3, <1>13 DEF RejectItem, Answer, tables
<1>14. CASE DropItem(c)
    <2>1. /\ pc[c] = "item" /\ sensors' = sensors \ {ItemId(c)} /\ freed' = {}
          /\ UNCHANGED <<inGroups, k, req>>
        BY <1>2, <1>14 DEF DropItem, AtItem, Delete, Goto, Answer
    <2>2. pc'[c] \in {"itemPut", "rollback", "idle"}
        BY <1>2, <1>14 DEF DropItem, AtItem, Goto, Answer
    <2>3. ItemId(c)' \notin sensors'
        BY <2>1 DEF ItemId
    <2> QED BY <1>1, <1>2, <2>1, <2>2, <2>3 DEF FreshInv, FreshAt, NoDangling
<1>15. CASE PutItem(c)
    <2>1. pc[c] = "itemPut" /\ freed' = {} /\ UNCHANGED <<req, inGroups>> /\ pc'[c] = "item"
        BY <1>2, <1>15 DEF PutItem, Put, Goto, FreshAt
    <2> QED BY <1>4, <2>1
<1>16. CASE Rollback(c)
    BY <1>2, <1>3, <1>16 DEF Rollback, Delete
<1>17. CASE EndRollback(c)
    BY <1>2, <1>3, <1>17 DEF EndRollback, Answer, tables
<1>18. CASE PutGroup(c)
    BY <1>2, <1>3, <1>18 DEF PutGroup, Goto, FreshAt
<1>19. CASE DeleteGroup(c)
    BY <1>2, <1>3, <1>19 DEF DeleteGroup, Goto, Answer
<1>20. CASE EndDeleteGroup(c) \/ EndRead(c)
    BY <1>2, <1>3, <1>20 DEF EndDeleteGroup, EndRead, Goto, Answer, tables
<1> QED BY <1>5, <1>6, <1>7, <1>8, <1>9, <1>10, <1>11, <1>12, <1>13, <1>14, <1>15, <1>16,
           <1>17, <1>18, <1>19, <1>20 DEF Handler

LEMMA FreshReceive ==
    ASSUME NEW c \in Conns, FreshInv(c), Receive(c)
    PROVE  FreshInv(c)'
<1>1. TypeInv /\ TypeInv'
    BY TypeReceive DEF FreshInv
<1>2. PICK r \in Requests[c] : pc' = [pc EXCEPT ![c] = Entry(r.op)]
    BY DEF Receive
<1>3. r \in Request
    BY RegistryAssumption
<1>4. pc'[c] \notin {"put", "item", "itemPut"}
    BY <1>1, <1>2, <1>3, RequestFields DEF Entry, TypeInv, TypeOK
<1> QED BY <1>1, <1>4 DEF FreshInv, FreshAt, NoDangling, Receive, tables

\* A step of a walk, or none, leaves the tables and the handlers alone.
LEMMA WalkFrame ==
    ASSUME NEW t \in Threads, WalkStep(t) \/ StartSweep \/ EndSweep
    PROVE  UNCHANGED <<tables, locals>>
BY DEF WalkStep, EnterGroup, SkipGroup, ReadEntry, LeaveGroup, ReadMissing, TouchFreed,
       StartSweep, EndSweep

LEMMA TypeFrame == ASSUME TypeInv, UNCHANGED vars PROVE TypeInv'
BY DEF TypeInv, TypeOK, Control, ControlAt, vars, tables, locals

\* With one client, a step is one of that client's, one of a walk that
\* leaves the tables and the client alone, or none.
LEMMA OneClientSteps ==
    ASSUME TypeInv, NEW c, Conns = {c}, [Next]_vars
    PROVE  \/ Receive(c) \/ Handler(c)
           \/ TypeInv' /\ UNCHANGED <<tables, locals>>
<1>1. c \in Conns /\ c \in Threads /\ Main \in Threads
    BY DEF Threads
<1>2. CASE UNCHANGED vars
    BY <1>2, TypeFrame DEF vars
<1>3. ASSUME NEW t \in Threads, WalkStep(t) \/ StartSweep \/ EndSweep
      PROVE  TypeInv' /\ UNCHANGED <<tables, locals>>
    BY <1>3, TypeWalk, WalkFrame
<1>4. CASE \E d \in Conns : Accept(d) \/ Serve(d)
    BY <1>1, <1>3, <1>4 DEF Accept, Serve
<1>5. CASE Sweep
    BY <1>1, <1>3, <1>5 DEF Sweep
<1> QED BY <1>2, <1>4, <1>5 DEF Next, Dead

-----------------------------------------------------------------------------
(* Any number of clients, whatever they delete, as long as no two of them   *)
(* create the same id.                                                      *)

\* The sensors a request may put, and the group it may put.
SensorsMade(r) ==
    CASE r.op \in SensorOps -> {r.body.id}
      [] r.op \in GroupOps  -> {r.body.items[i].id :
                                    i \in {j \in DOMAIN r.body.items :
                                               r.body.items[j].kind = "full"}}
      [] OTHER              -> {}
GroupsMade(r) == IF r.op \in GroupOps THEN {r.body.id} ELSE {}

\* A request for a sensor may put the sensor of its body.
LEMMA SensorMade == ASSUME NEW r, r.op \in SensorOps PROVE SensorsMade(r) = {r.body.id}
BY DEF SensorsMade, SensorOps, GroupOps

\* No id is created over two connections.
OwnIds ==
    \A c, d \in Conns : c # d =>
        \A r \in Requests[c], q \in Requests[d] :
            /\ SensorsMade(r) \cap SensorsMade(q) = {}
            /\ GroupsMade(r) \cap GroupsMade(q) = {}

\* Only a full item is put.
FullAt(c) == pc[c] = "itemPut" => req[c].body.items[k[c]].kind = "full"

OwnInv ==
    /\ TypeInv
    /\ NoDangling
    /\ \A c \in Conns : FreshAt(c) /\ FullAt(c)

LEMMA FullHandler ==
    ASSUME TypeInv, NEW c \in Conns, Handler(c)
    PROVE  FullAt(c)'
<1>1. pc \in [Conns -> Pcs] /\ TypeOK
    BY DEF TypeInv, TypeOK
<1>2. CASE DropItem(c)
    <2>1. UNCHANGED <<k, req>> /\ pc[c] = "item"
        BY <1>2 DEF DropItem, AtItem, Goto, Answer
    <2>2. CASE AtItem(c, {"full"})
        BY <2>1, <2>2 DEF AtItem, FullAt
    <2>3. CASE ~AtItem(c, {"full"})
        <3>1. pc'[c] \in {"idle", "rollback"}
            BY <1>1, <1>2, <2>3 DEF DropItem, Goto, Answer, AtItem
        <3> QED BY <3>1 DEF FullAt
    <2> QED BY <2>2, <2>3
<1>3. CASE ~DropItem(c)
    <2>1. pc'[c] # "itemPut"
        BY <1>1, <1>3 DEF Handler, CreateSensor, PutSensor, CheckStatus, SetStatus, DeleteSensor,
            EndDelete, Unlist, EndUnlist, BeginGroup, ListItem, RejectItem, PutItem, Rollback,
            EndRollback, PutGroup, DeleteGroup, EndDeleteGroup, EndRead, Goto, Answer
    <2> QED BY <2>1 DEF FullAt
<1> QED BY <1>2, <1>3

\* A handler adds to the tables what its request makes, and nothing else.
LEMMA HandlerMakes ==
    ASSUME TypeInv, NEW c \in Conns, FullAt(c), Handler(c)
    PROVE  /\ sensors' \subseteq sensors \cup SensorsMade(req[c])
           /\ inGroups' \subseteq inGroups \cup GroupsMade(req[c])
           /\ sensors' # sensors \/ inGroups' # inGroups => pc[c] # "idle"
<1>1. ControlAt(c)
    BY DEF TypeInv, Control
<1>2. CASE PutSensor(c)
    <2>1. SensorsMade(req[c]) = {req[c].body.id}
        BY <1>1, <1>2, SensorMade DEF PutSensor, ControlAt
    <2> QED BY <1>2, <2>1 DEF PutSensor, Put
<1>3. CASE PutItem(c)
    <2>1. /\ pc[c] = "itemPut" /\ sensors' = sensors \cup {ItemId(c)}
          /\ UNCHANGED inGroups
        BY <1>3 DEF PutItem, Put
    <2>2. /\ req[c].op \in GroupOps /\ k[c] \in DOMAIN req[c].body.items
          /\ req[c].body.items[k[c]].kind = "full"
        BY <1>1, <2>1 DEF ControlAt, FullAt
    <2>3. ItemId(c) \in SensorsMade(req[c])
        BY <2>2 DEF SensorsMade, ItemId, SensorOps, GroupOps
    <2> QED BY <2>1, <2>3
<1>4. CASE PutGroup(c)
    BY <1>1, <1>4 DEF PutGroup, ControlAt, GroupsMade
<1>5. CASE DeleteSensor(c) \/ DropItem(c) \/ Rollback(c) \/ DeleteGroup(c)
    BY <1>5 DEF DeleteSensor, DropItem, AtItem, Rollback, DeleteGroup, Delete
<1>6. CASE CreateSensor(c) \/ CheckStatus(c) \/ SetStatus(c) \/ EndDelete(c) \/ Unlist(c)
           \/ EndUnlist(c) \/ BeginGroup(c) \/ ListItem(c) \/ RejectItem(c) \/ EndRollback(c)
           \/ EndDeleteGroup(c) \/ EndRead(c)
    BY <1>6 DEF CreateSensor, CheckStatus, SetStatus, EndDelete, Unlist, EndUnlist, BeginGroup,
        ListItem, RejectItem, EndRollback, EndDeleteGroup, EndRead, tables
<1> QED BY <1>2, <1>3, <1>4, <1>5, <1>6 DEF Handler

\* What another client adds is not what this one is about to put.
LEMMA OthersStayFresh ==
    ASSUME OwnIds, OwnInv, NEW c \in Conns, Handler(c), NEW d \in Conns, d # c
    PROVE  FreshAt(d)' /\ FullAt(d)'
<1>1. /\ TypeInv /\ TypeOK /\ ControlAt(c) /\ ControlAt(d)
      /\ FreshAt(d) /\ FullAt(d) /\ FullAt(c)
    BY DEF OwnInv, TypeInv, Control
<1>2. pc'[d] = pc[d] /\ req'[d] = req[d] /\ k'[d] = k[d]
    BY <1>1, OthersStay
<1>3. ItemId(d)' = ItemId(d)
    BY <1>2 DEF ItemId
<1>4. /\ sensors' \subseteq sensors \cup SensorsMade(req[c])
      /\ inGroups' \subseteq inGroups \cup GroupsMade(req[c])
      /\ sensors' # sensors \/ inGroups' # inGroups => pc[c] # "idle"
    BY <1>1, HandlerMakes
<1>5. ASSUME pc[c] # "idle", pc[d] # "idle"
      PROVE  /\ SensorsMade(req[c]) \cap SensorsMade(req[d]) = {}
             /\ GroupsMade(req[c]) \cap GroupsMade(req[d]) = {}
    BY <1>1, <1>5 DEF OwnIds, ControlAt
<1>6. ASSUME pc[d] = "put" PROVE req[d].body.id \notin sensors'
    <2>1. req[d].body.id \in SensorsMade(req[d]) /\ req[d].body.id \notin sensors
        BY <1>1, <1>6, SensorMade DEF ControlAt, FreshAt
    <2> QED BY <1>4, <1>5, <1>6, <2>1
<1>7. ASSUME pc[d] = "itemPut" PROVE ItemId(d) \notin sensors'
    <2>1. /\ req[d].op \in GroupOps /\ k[d] \in DOMAIN req[d].body.items
          /\ req[d].body.items[k[d]].kind = "full"
        BY <1>1, <1>7 DEF ControlAt, FullAt
    <2>2. ItemId(d) \in SensorsMade(req[d]) /\ ItemId(d) \notin sensors
        BY <1>1, <1>7, <2>1 DEF SensorsMade, ItemId, SensorOps, GroupOps, FreshAt
    <2> QED BY <1>4, <1>5, <1>7, <2>2
<1>8. ASSUME pc[d] \in {"item", "itemPut"} PROVE req[d].body.id \notin inGroups'
    <2>1. req[d].body.id \in GroupsMade(req[d]) /\ req[d].body.id \notin inGroups
        BY <1>1, <1>8 DEF ControlAt, GroupsMade, FreshAt
    <2> QED BY <1>4, <1>5, <1>8, <2>1
<1> QED BY <1>1, <1>2, <1>3, <1>6, <1>7, <1>8 DEF FreshAt, FullAt

LEMMA OwnReceive ==
    ASSUME OwnInv, NEW c \in Conns, Receive(c)
    PROVE  OwnInv'
<1>1. TypeInv /\ FreshInv(c)
    BY DEF OwnInv, FreshInv
<1>2. FreshInv(c)'
    BY <1>1, FreshReceive
<1>3. FullAt(c)'
    <2>1. PICK r \in Requests[c] : pc' = [pc EXCEPT ![c] = Entry(r.op)]
        BY DEF Receive
    <2>2. r \in Request
        BY RegistryAssumption
    <2>3. pc'[c] # "itemPut"
        BY <1>1, <2>1, <2>2, RequestFields DEF Entry, TypeInv, TypeOK
    <2> QED BY <2>3 DEF FullAt
<1>4. ASSUME NEW d \in Conns, d # c PROVE FreshAt(d)' /\ FullAt(d)'
    <2>1. pc'[d] = pc[d] /\ req'[d] = req[d] /\ k'[d] = k[d]
        BY <1>1, <1>4, OthersStay DEF TypeInv
    <2> QED BY <2>1 DEF OwnInv, FreshAt, FullAt, ItemId, Receive, tables
<1> QED BY <1>2, <1>3, <1>4 DEF OwnInv, FreshInv

\* NoDangling holds of any number of clients that delete and command what
\* they like, as long as no two of them create the same id: between the look
\* at a key and hts_put or htsg_put no other handler adds it.
THEOREM OwnersFreeNothing == ASSUME OwnIds PROVE Spec => []NoDangling
<1>1. Init => OwnInv
    BY TypeInit DEF Init, OwnInv, FreshAt, FullAt, NoDangling
<1>2. OwnInv /\ [Next]_vars => OwnInv'
    <2> SUFFICES ASSUME OwnInv, [Next]_vars PROVE OwnInv'
        OBVIOUS
    <2>1. ASSUME TypeInv', UNCHANGED <<tables, locals>> PROVE OwnInv'
        BY <2>1 DEF OwnInv, FreshAt, FullAt, NoDangling, ItemId, tables, locals
    <2>2. CASE UNCHANGED vars
        BY <2>1, <2>2, TypeFrame DEF OwnInv, vars
    <2>3. ASSUME NEW t \in Threads, WalkStep(t) \/ StartSweep \/ EndSweep PROVE OwnInv'
        BY <2>1, <2>3, TypeWalk, WalkFrame DEF OwnInv
    <2>4. ASSUME NEW c \in Conns, Handler(c) PROVE OwnInv'
        <3>1. FreshInv(c)'
            BY <2>4, FreshHandler DEF OwnInv, FreshInv
        <3>2. FullAt(c)'
            BY <2>4, FullHandler DEF OwnInv
        <3>3. \A d \in Conns : d # c => FreshAt(d)' /\ FullAt(d)'
            BY <2>4, OthersStayFresh
        <3> QED BY <3>1, <3>2, <3>3 DEF OwnInv, FreshInv
    <2>5. CASE \E c \in Conns : Accept(c) \/ Serve(c)
        BY <2>3, <2>4, <2>5, OwnReceive DEF Accept, Serve, Threads
    <2>6. CASE Sweep
        BY <2>3, <2>6 DEF Sweep, Threads
    <2>7. CASE Dead
        BY <2>2, <2>7 DEF Dead
    <2> QED BY <2>2, <2>5, <2>6, <2>7 DEF Next
<1>3. OwnInv => NoDangling
    BY DEF OwnInv
<1> QED BY <1>1, <1>2, <1>3, PTL DEF Spec

\* So it does of one client, whatever it sends: each hts_put and htsg_put
\* finds its key absent, so node_handler frees nothing that a node still
\* points at.
THEOREM OneClientFreesNothing ==
    ASSUME NEW c, Conns = {c}
    PROVE  Spec => []NoDangling
BY OwnersFreeNothing DEF OwnIds

(* What an OK of a single client stands for.                               *)

\* The group sent is there, with one entry per item, each registered.
Subscribed(c) ==
    /\ req[c].body.id \in inGroups
    /\ Len(list[req[c].body.id]) = Len(req[c].body.items)
    /\ ToSet(list[req[c].body.id]) \subseteq sensors

\* The request has taken effect, as AckMeansDone says it of an answer OK.
Effect(c) ==
    /\ req[c].op \in SensorOps => req[c].body.id \in sensors
    /\ req[c].op = "deleteSensor" => ToSet(req[c].query) \cap sensors = {}
    /\ req[c].op \in GroupOps => Subscribed(c)
    /\ req[c].op = "deleteGroup" => ToSet(req[c].query) \cap inGroups = {}

\* The loop over the query has left nothing behind it in the table.
Behind(c, keys) == \A i \in DOMAIN req[c].query : i < k[c] => req[c].query[i] \notin keys

\* The list being built has an entry for each item before this one.
BuiltSoFar(c, keys) ==
    /\ k[c] = Len(built[c]) + 1
    /\ k[c] <= Len(req[c].body.items) + 1
    /\ ToSet(built[c]) \subseteq keys

DoneAt(c) ==
    /\ pc[c] = "idle" /\ reply[c] = "OK" => Effect(c)
    /\ pc[c] \in {"check", "set"} =>
          req[c].op \in SensorOps \cup GroupOps \cup {"start", "stop"} /\ Effect(c)
    /\ pc[c] = "read" => req[c].op = "getGroups"
    /\ pc[c] = "delete" => k[c] >= 1 /\ Behind(c, sensors)
    /\ pc[c] = "unlist" => ToSet(req[c].query) \cap sensors = {}
    /\ pc[c] = "unsubscribe" => k[c] >= 1 /\ Behind(c, inGroups) /\ built[c] = <<>>
    /\ pc[c] = "subscribe" => built[c] = <<>>
    /\ pc[c] = "item" => BuiltSoFar(c, sensors)
    /\ pc[c] = "itemPut" => BuiltSoFar(c, sensors \cup {ItemId(c)})

DoneInv(c) == TypeInv /\ DoneAt(c)

\* At the end of the loop nothing that the query names is left.
LEMMA AllBehind ==
    ASSUME NEW c \in Conns, NEW S, req[c].query \in Seq(S), k[c] \in Nat, k[c] >= 1,
           k[c] \notin DOMAIN req[c].query, NEW keys, Behind(c, keys)
    PROVE  ToSet(req[c].query) \cap keys = {}
<1>1. \A i \in DOMAIN req[c].query : i < k[c]
    OBVIOUS
<1> QED BY <1>1 DEF Behind, ToSet

LEMMA DoneHandler ==
    ASSUME NEW c \in Conns, DoneInv(c), Handler(c)
    PROVE  DoneInv(c)'
<1>1. TypeInv /\ TypeInv'
    BY TypeHandler, ControlHandler DEF DoneInv, TypeInv
<1>2. /\ pc \in [Conns -> Pcs] /\ k \in [Conns -> Nat] /\ req \in [Conns -> Request]
      /\ reply \in [Conns -> {"none", "OK", "ERROR"}] /\ built \in [Conns -> Seq(Sensors)]
      /\ list \in [Groups -> Seq(Sensors)]
    BY <1>1 DEF TypeInv, TypeOK
<1>3. ControlAt(c) /\ DoneAt(c) /\ req[c] \in Request
    BY <1>1, <1>2 DEF TypeInv, Control, DoneInv
<1>4. ASSUME pc'[c] \in {"create", "put", "rollback"} \/ (pc'[c] = "idle" /\ reply'[c] = "ERROR")
      PROVE  DoneInv(c)'
    BY <1>1, <1>4 DEF DoneInv, DoneAt
<1>5. ASSUME pc'[c] = "idle", Effect(c)'
      PROVE  DoneInv(c)'
    BY <1>1, <1>5 DEF DoneInv, DoneAt
<1>6. ASSUME pc'[c] \in {"check", "set"}, Effect(c)', req' = req,
             req[c].op \in SensorOps \cup GroupOps \cup {"start", "stop"}
      PROVE  DoneInv(c)'
    BY <1>1, <1>6 DEF DoneInv, DoneAt
<1>7. CASE CreateSensor(c)
    <2>1. pc'[c] = "put" \/ (pc'[c] = "idle" /\ reply'[c] = "ERROR")
        BY <1>2, <1>7 DEF CreateSensor, Goto, Answer
    <2> QED BY <1>4, <2>1
<1>8. CASE PutSensor(c)
    <2>1. /\ pc[c] = "put" /\ pc'[c] = "check" /\ req' = req
          /\ sensors' = sensors \cup {req[c].body.id}
        BY <1>2, <1>8 DEF PutSensor, Put, Goto
    <2>2. req[c].op \in SensorOps
        BY <1>3, <2>1 DEF ControlAt
    <2>3. Effect(c)'
        BY <2>1, <2>2 DEF Effect, SensorOps, GroupOps
    <2> QED BY <1>6, <2>1, <2>2, <2>3
<1>9. CASE CheckStatus(c)
    <2>1. /\ pc[c] = "check" /\ UNCHANGED <<sensors, inGroups, list, req>>
          /\ pc'[c] \in {"set", "idle"}
        BY <1>2, <1>9 DEF CheckStatus, Goto, Answer, tables
    <2>2. Effect(c)' /\ req[c].op \in SensorOps \cup GroupOps \cup {"start", "stop"}
        BY <1>3, <2>1 DEF DoneAt, Effect, Subscribed
    <2> QED BY <1>5, <1>6, <2>1, <2>2
<1>10. CASE SetStatus(c)
    <2>1. /\ pc[c] = "set" /\ UNCHANGED <<sensors, inGroups, list, req>> /\ pc'[c] = "idle"
        BY <1>2, <1>10 DEF SetStatus, Answer, tables
    <2>2. Effect(c)'
        BY <1>3, <2>1 DEF DoneAt, Effect, Subscribed
    <2> QED BY <1>5, <2>1, <2>2
<1>11. CASE DeleteSensor(c)
    <2> DEFINE s == req[c].query[k[c]]
    <2>1. /\ pc[c] = "delete" /\ k[c] \in DOMAIN req[c].query /\ sensors' = sensors \ {s}
          /\ req' = req
        BY <1>2, <1>11 DEF DeleteSensor, Delete, Goto, Answer
    <2>2. CASE s \in sensors
        <3>1. pc'[c] = "delete" /\ k'[c] = k[c] + 1
            BY <1>2, <1>11, <2>2 DEF DeleteSensor, Goto, SetK
        <3>2. k[c] \in Nat /\ k[c] >= 1 /\ Behind(c, sensors) /\ req[c].query \in Seq(Sensors)
            BY <1>2, <1>3, <2>1, RequestFields DEF DoneAt, ControlAt
        <3>3. \A i \in DOMAIN req[c].query : i < k[c] + 1 => i < k[c] \/ i = k[c]
            BY <3>2
        <3>4. Behind(c, sensors)'
            BY <2>1, <3>1, <3>2, <3>3 DEF Behind
        <3> QED BY <1>1, <3>1, <3>2, <3>4 DEF DoneInv, DoneAt
    <2>3. CASE s \notin sensors
        BY <1>2, <1>4, <1>11, <2>3 DEF DeleteSensor, Answer
    <2> QED BY <2>2, <2>3
<1>12. CASE EndDelete(c)
    <2>1. /\ pc[c] = "delete" /\ k[c] \notin DOMAIN req[c].query
          /\ UNCHANGED <<sensors, inGroups, list, req>>
          /\ (pc'[c] = "idle" /\ reply'[c] = "ERROR") \/ pc'[c] = "unlist"
        BY <1>2, <1>12 DEF EndDelete, Goto, Answer, tables
    <2>2. ToSet(req[c].query) \cap sensors = {}
        <3>1. /\ req[c].query \in Seq(Sensors) /\ k[c] \in Nat /\ k[c] >= 1
              /\ Behind(c, sensors)
            BY <1>2, <1>3, <2>1, RequestFields DEF ControlAt, DoneAt
        <3> QED BY <2>1, <3>1, AllBehind
    <2> QED BY <1>1, <1>4, <2>1, <2>2 DEF DoneInv, DoneAt
<1>13. CASE Unlist(c)
    <2>1. pc'[c] = "unlist" /\ UNCHANGED <<req, sensors>> /\ pc[c] = "unlist"
        BY <1>2, <1>13 DEF Unlist
    <2> QED BY <1>1, <1>3, <2>1 DEF DoneInv, DoneAt
<1>14. CASE EndUnlist(c)
    <2>1. /\ pc[c] = "unlist" /\ UNCHANGED <<sensors, req>>
          /\ pc'[c] = "create" \/ (pc'[c] = "idle" /\ req[c].op # "putSensor")
        BY <1>2, <1>14 DEF EndUnlist, Goto, Answer, tables
    <2>2. CASE pc'[c] = "idle"
        <3>1. req[c].op = "deleteSensor" /\ ToSet(req[c].query) \cap sensors = {}
            BY <1>3, <2>1, <2>2 DEF ControlAt, DoneAt
        <3>2. Effect(c)'
            BY <2>1, <3>1 DEF Effect, SensorOps, GroupOps
        <3> QED BY <1>5, <2>2, <3>2
    <2> QED BY <1>4, <2>1, <2>2
<1>15. CASE BeginGroup(c)
    <2>1. /\ pc[c] = "subscribe" /\ UNCHANGED <<req, built, sensors>>
          /\ (pc'[c] = "idle" /\ reply'[c] = "ERROR") \/ (pc'[c] = "item" /\ k'[c] = 1)
        BY <1>2, <1>15 DEF BeginGroup, Goto, Answer, SetK, tables
    <2>2. CASE pc'[c] = "item"
        <3>1. built'[c] = <<>> /\ k'[c] = 1 /\ req[c].body.items \in Seq(Item)
            BY <1>3, <2>1, <2>2, RequestFields DEF DoneAt, ControlAt
        <3>2. ToSet(<<>>) = {} /\ Len(<<>>) = 0
            BY DEF ToSet
        <3>3. BuiltSoFar(c, sensors)'
            BY <2>1, <3>1, <3>2 DEF BuiltSoFar
        <3> QED BY <1>1, <2>2, <3>3 DEF DoneInv, DoneAt
    <2> QED BY <1>4, <2>1, <2>2
<1>16. ASSUME pc[c] \in {"item", "itemPut"}, k[c] \in DOMAIN req[c].body.items,
              BuiltSoFar(c, sensors'), ItemId(c) \in sensors',
              req' = req, pc'[c] = "item",
              k'[c] = k[c] + 1, built'[c] = Append(built[c], ItemId(c))
       PROVE  DoneInv(c)'
    <2>1. ItemId(c) \in Sensors /\ req[c].body.items \in Seq(Item)
        BY <1>1, <1>3, <1>16, ItemType, RequestFields DEF ControlAt
    <2>2. /\ built[c] \in Seq(Sensors) /\ Len(built'[c]) = Len(built[c]) + 1
          /\ ToSet(built'[c]) \subseteq ToSet(built[c]) \cup {ItemId(c)}
        BY <1>2, <1>16, <2>1 DEF ToSet
    <2>3. k[c] \in Nat /\ k[c] <= Len(req[c].body.items) /\ Len(req[c].body.items) \in Nat
        BY <1>2, <1>16, <2>1
    <2>4. BuiltSoFar(c, sensors)'
        <3>1. k[c] = Len(built[c]) + 1 /\ ToSet(built[c]) \subseteq sensors'
            BY <1>16 DEF BuiltSoFar
        <3>2. k'[c] = Len(built'[c]) + 1 /\ ToSet(built'[c]) \subseteq sensors'
            BY <1>16, <2>2, <3>1
        <3>3. k'[c] <= Len(req'[c].body.items) + 1
            BY <1>16, <2>3
        <3> QED BY <3>2, <3>3 DEF BuiltSoFar
    <2> QED BY <1>1, <1>16, <2>4 DEF DoneInv, DoneAt
<1>17. CASE ListItem(c)
    <2>1. pc[c] = "item" /\ k[c] \in DOMAIN req[c].body.items /\ sensors' = sensors /\ req' = req
        BY <1>17 DEF ListItem, AtItem, tables, Goto, Answer
    <2>2. CASE ItemId(c) \in sensors
        <3>1. /\ pc'[c] = "item" /\ k'[c] = k[c] + 1
              /\ built'[c] = Append(built[c], ItemId(c))
            BY <1>2, <1>17, <2>2 DEF ListItem, AddItem, SetK, Goto
        <3>2. BuiltSoFar(c, sensors')
            BY <1>3, <2>1 DEF DoneAt
        <3> QED BY <1>16, <2>1, <2>2, <3>1, <3>2
    <2>3. CASE ItemId(c) \notin sensors
        BY <1>2, <1>4, <1>17, <2>3 DEF ListItem, Answer
    <2> QED BY <2>2, <2>3
<1>18. CASE RejectItem(c)
    BY <1>2, <1>4, <1>18 DEF RejectItem, Answer
<1>19. CASE DropItem(c)
    <2>1. /\ pc[c] = "item" /\ sensors' = sensors \ {ItemId(c)}
          /\ UNCHANGED <<k, req, built>>
        BY <1>19 DEF DropItem, AtItem, Delete, Goto, Answer
    <2>2. pc'[c] \in {"itemPut", "rollback"} \/ (pc'[c] = "idle" /\ reply'[c] = "ERROR")
        BY <1>2, <1>19 DEF DropItem, AtItem, Goto, Answer
    <2>3. BuiltSoFar(c, sensors \cup {ItemId(c)})'
        BY <1>3, <2>1 DEF DoneAt, BuiltSoFar, ItemId
    <2> QED BY <1>1, <1>4, <2>2, <2>3 DEF DoneInv, DoneAt
<1>20. CASE PutItem(c)
    <2>1. /\ pc[c] = "itemPut" /\ sensors' = sensors \cup {ItemId(c)} /\ req' = req
          /\ pc'[c] = "item" /\ k'[c] = k[c] + 1 /\ built'[c] = Append(built[c], ItemId(c))
        BY <1>2, <1>20 DEF PutItem, Put, AddItem, SetK, Goto
    <2>2. BuiltSoFar(c, sensors') /\ k[c] \in DOMAIN req[c].body.items
        BY <1>3, <2>1 DEF DoneAt, ControlAt
    <2> QED BY <1>16, <2>1, <2>2
<1>21. CASE Rollback(c)
    BY <1>2, <1>4, <1>21 DEF Rollback
<1>22. CASE EndRollback(c)
    BY <1>2, <1>4, <1>22 DEF EndRollback, Answer
<1>23. CASE PutGroup(c)
    <2> DEFINE g == req[c].body.id
    <2>1. /\ pc[c] = "item" /\ k[c] \notin DOMAIN req[c].body.items /\ pc'[c] = "check"
          /\ inGroups' = inGroups \cup {g} /\ list' = [list EXCEPT ![g] = built[c]]
          /\ UNCHANGED <<sensors, req>>
        BY <1>2, <1>23 DEF PutGroup, Goto
    <2>2. g \in Groups /\ req[c].body.items \in Seq(Item) /\ req[c].op \in GroupOps
        BY <1>3, <2>1, RequestFields DEF ControlAt
    <2>3. BuiltSoFar(c, sensors) /\ list'[g] = built[c]
        BY <1>2, <1>3, <2>1, <2>2 DEF DoneAt
    <2>4. Len(built[c]) = Len(req[c].body.items)
        <3>1. Len(built[c]) \in Nat /\ Len(req[c].body.items) \in Nat
            BY <1>2, <2>2
        <3>2. ~(k[c] \in 1 .. Len(req[c].body.items))
            BY <2>1, <2>2
        <3> QED BY <2>3, <3>1, <3>2 DEF BuiltSoFar
    <2>5. Effect(c)'
        BY <2>1, <2>2, <2>3, <2>4 DEF Effect, Subscribed, BuiltSoFar, SensorOps, GroupOps
    <2> QED BY <1>6, <2>1, <2>2, <2>5
<1>24. CASE DeleteGroup(c)
    <2> DEFINE g == req[c].query[k[c]]
    <2>1. /\ pc[c] = "unsubscribe" /\ k[c] \in DOMAIN req[c].query
          /\ UNCHANGED <<req, built>>
        BY <1>24 DEF DeleteGroup, Goto, Answer
    <2>2. CASE g \in inGroups
        <3>1. pc'[c] = "unsubscribe" /\ k'[c] = k[c] + 1 /\ inGroups' = inGroups \ {g}
            BY <1>2, <1>24, <2>2 DEF DeleteGroup, Goto, SetK
        <3>2. /\ k[c] \in Nat /\ k[c] >= 1 /\ Behind(c, inGroups) /\ built[c] = <<>>
              /\ req[c].query \in Seq(Groups)
            BY <1>2, <1>3, <2>1, RequestFields DEF DoneAt, ControlAt
        <3>3. \A i \in DOMAIN req[c].query : i < k[c] + 1 => i < k[c] \/ i = k[c]
            BY <3>2
        <3>4. Behind(c, inGroups)'
            BY <2>1, <3>1, <3>2, <3>3 DEF Behind
        <3> QED BY <1>1, <2>1, <3>1, <3>2, <3>4 DEF DoneInv, DoneAt
    <2>3. CASE g \notin inGroups
        BY <1>2, <1>4, <1>24, <2>3 DEF DeleteGroup, Answer
    <2> QED BY <2>2, <2>3
<1>25. CASE EndDeleteGroup(c)
    <2>1. /\ pc[c] = "unsubscribe" /\ k[c] \notin DOMAIN req[c].query
          /\ UNCHANGED <<inGroups, req, built>>
          /\ \/ pc'[c] = "subscribe"
             \/ pc'[c] = "idle" /\ reply'[c] = "ERROR"
             \/ pc'[c] = "idle" /\ req[c].query # <<>> /\ req[c].op # "putGroup"
        BY <1>2, <1>25 DEF EndDeleteGroup, Goto, Answer, tables
    <2>2. ToSet(req[c].query) \cap inGroups = {} /\ built[c] = <<>>
        <3>1. /\ req[c].query \in Seq(Groups) /\ k[c] \in Nat /\ k[c] >= 1
              /\ Behind(c, inGroups) /\ built[c] = <<>>
            BY <1>2, <1>3, <2>1, RequestFields DEF ControlAt, DoneAt
        <3> QED BY <2>1, <3>1, AllBehind
    <2>3. CASE pc'[c] = "idle" /\ req[c].op # "putGroup"
        <3>1. req[c].op = "deleteGroup"
            BY <1>3, <2>1, <2>3 DEF ControlAt
        <3>2. Effect(c)'
            BY <2>1, <2>2, <3>1 DEF Effect, SensorOps, GroupOps
        <3> QED BY <1>5, <2>3, <3>2
    <2>4. CASE pc'[c] = "subscribe"
        BY <1>1, <2>1, <2>2, <2>4 DEF DoneInv, DoneAt
    <2> QED BY <1>4, <2>1, <2>3, <2>4
<1>26. CASE EndRead(c)
    <2>1. pc[c] = "read" /\ pc'[c] = "idle" /\ req' = req
        BY <1>2, <1>26 DEF EndRead, Answer
    <2>2. Effect(c)'
        BY <1>3, <2>1 DEF DoneAt, Effect, SensorOps, GroupOps
    <2> QED BY <1>5, <2>1, <2>2
<1> QED BY <1>7, <1>8, <1>9, <1>10, <1>11, <1>12, <1>13, <1>14, <1>15, <1>17, <1>18, <1>19,
           <1>20, <1>21, <1>22, <1>23, <1>24, <1>25, <1>26 DEF Handler

LEMMA DoneReceive ==
    ASSUME NEW c \in Conns, DoneInv(c), Receive(c)
    PROVE  DoneInv(c)'
<1>1. TypeInv /\ TypeInv'
    BY TypeReceive DEF DoneInv
<1>2. PICK r \in Requests[c] : req' = [req EXCEPT ![c] = r] /\ pc' = [pc EXCEPT ![c] = Entry(r.op)]
    BY DEF Receive
<1>3. r \in Request
    BY RegistryAssumption
<1>4. /\ pc'[c] = Entry(r.op) /\ req'[c] = r /\ k'[c] = 1 /\ built'[c] = <<>>
    BY <1>1, <1>2 DEF Receive, SetK, TypeInv, TypeOK
<1>5. /\ Entry(r.op) \in {"create", "delete", "subscribe", "unsubscribe", "read", "check"}
      /\ Entry(r.op) = "read" => r.op = "getGroups"
      /\ Entry(r.op) = "check" => r.op \in {"start", "stop"}
    BY <1>3, RequestFields DEF Entry
<1>6. ASSUME NEW keys PROVE Entry(r.op) \in {"delete", "unsubscribe"} => Behind(c, keys)'
    <2>1. Entry(r.op) \in {"delete", "unsubscribe"} =>
             r.query \in Seq(Sensors) \/ r.query \in Seq(Groups)
        BY <1>3, RequestFields DEF Entry
    <2> QED BY <1>4, <2>1 DEF Behind
<1>7. Entry(r.op) = "check" => Effect(c)'
    BY <1>4, <1>5 DEF Effect, SensorOps, GroupOps
<1> QED BY <1>1, <1>4, <1>5, <1>6, <1>7 DEF DoneInv, DoneAt

\* AckMeansDone holds of one client, whatever it sends: an answer OK to a PUT
\* or POST means that the sensor is in the table, or the group with an entry
\* for each item, all registered; to a DELETE, that none of the ids is left.
THEOREM OneClientAckMeansDone ==
    ASSUME NEW c, Conns = {c}
    PROVE  Spec => []AckMeansDone
<1>1. c \in Conns
    OBVIOUS
<1>2. Init => DoneInv(c)
    BY <1>1, TypeInit DEF Init, DoneInv, DoneAt
<1>3. DoneInv(c) /\ [Next]_vars => DoneInv(c)'
    <2> SUFFICES ASSUME DoneInv(c), [Next]_vars PROVE DoneInv(c)'
        OBVIOUS
    <2>1. CASE TypeInv' /\ UNCHANGED <<tables, locals>>
        BY <2>1 DEF DoneInv, DoneAt, Effect, Subscribed, Behind, BuiltSoFar, ItemId, tables, locals
    <2> QED BY <1>1, <2>1, DoneHandler, DoneReceive, OneClientSteps DEF DoneInv
<1>4. DoneInv(c) => AckMeansDone
    BY <1>1 DEF DoneInv, DoneAt, AckMeansDone, Effect, Subscribed, SensorOps, GroupOps
<1> QED BY <1>2, <1>3, <1>4, PTL DEF Spec

-----------------------------------------------------------------------------
(* One careful client: the lists of the groups resolve, whenever no request *)
(* is being served.                                                         *)

\* A request that names at most one sensor to delete, and whose sensor-list
\* has no sensor twice and no full configuration with wrong settings.
CarefulRequest(r) ==
    /\ r.op \in {"putSensor", "deleteSensor"} => Len(r.query) <= 1
    /\ r.op \in GroupOps =>
          \A i \in DOMAIN r.body.items :
              /\ r.body.items[i].kind \in {"id", "full", "malformed"}
              /\ \A j \in DOMAIN r.body.items :
                    r.body.items[i].id = r.body.items[j].id => i = j

CarefulClients == \A c \in Conns : \A r \in Requests[c] : CarefulRequest(r)

\* The sensors that group g may list although they are not in the table: the
\* one whose deletion is not finished, or the one being replaced.
Missing(c, g) ==
    CASE pc[c] = "delete" /\ k[c] > 1   -> {Last(req[c].query)}
      [] pc[c] = "unlist" /\ k[c] <= g  -> {Last(req[c].query)}
      [] pc[c] = "itemPut"              -> {ItemId(c)}
      [] OTHER                          -> {}

\* The list being built has registered sensors, none twice and none of the
\* items still to come.
Building(c) ==
    /\ IsInjective(built[c])
    /\ ToSet(built[c]) \subseteq sensors
    /\ \A j \in DOMAIN req[c].body.items :
          j >= k[c] => req[c].body.items[j].id \notin ToSet(built[c])

CarefulAt(c) ==
    /\ pc[c] # "rollback"
    /\ pc[c] = "delete" => k[c] = 1 \/ (k[c] = 2 /\ req[c].query # <<>>)
    /\ pc[c] = "unlist" => k[c] >= 1
    /\ pc[c] = "subscribe" => built[c] = <<>>
    /\ pc[c] = "unsubscribe" => built[c] = <<>>
    /\ pc[c] \in {"item", "itemPut"} => Building(c)

Resolves(c, g) ==
    /\ IsInjective(list[g])
    /\ ToSet(list[g]) \subseteq sensors \cup Missing(c, g)

CarefulInv(c) ==
    /\ TypeInv
    /\ CarefulAt(c)
    /\ \A g \in inGroups : Resolves(c, g)

LEMMA EmptyList == IsInjective(<<>>) /\ ToSet(<<>>) = {}
BY DEF IsInjective, ToSet

LEMMA CarefulInit == ASSUME NEW c \in Conns PROVE Init => CarefulInv(c)
BY TypeInit DEF Init, CarefulInv, CarefulAt

\* A list of at most one entry.
LEMMA OneEntry ==
    ASSUME NEW q \in Seq(Sensors), NEW i \in DOMAIN q, Len(q) <= 1
    PROVE  i = 1 /\ Len(q) = 1 /\ q[i] = Last(q) /\ q # <<>>
<1>1. Len(q) = 1
    OBVIOUS
<1> QED BY <1>1 DEF Last

\* Appending a sensor that is not in the list yet.
LEMMA AppendFresh ==
    ASSUME NEW s \in Seq(Sensors), NEW e \in Sensors, IsInjective(s), e \notin ToSet(s)
    PROVE  /\ IsInjective(Append(s, e))
           /\ ToSet(Append(s, e)) = ToSet(s) \cup {e}
<1>1. /\ Append(s, e) \in Seq(Sensors) /\ Len(Append(s, e)) = Len(s) + 1
      /\ \A i \in 1 .. Len(s) : Append(s, e)[i] = s[i]
      /\ Append(s, e)[Len(s) + 1] = e
    OBVIOUS
<1>2. \A i \in 1 .. Len(s) : s[i] # e
    BY DEF ToSet
<1>3. IsInjective(Append(s, e))
    BY <1>1, <1>2 DEF IsInjective
<1>4. ToSet(Append(s, e)) = ToSet(s) \cup {e}
    BY <1>1 DEF ToSet
<1> QED BY <1>3, <1>4

\* What a step has to show when it leaves the table of groups alone, its
\* lists included.
LEMMA SameGroups ==
    ASSUME NEW c \in Conns, \A g \in inGroups : Resolves(c, g),
           inGroups' \subseteq inGroups, list' = list,
           \A g \in inGroups : sensors \cup Missing(c, g) \subseteq sensors' \cup Missing(c, g)'
    PROVE  \A g \in inGroups' : Resolves(c, g)'
BY DEF Resolves

LEMMA CarefulHandler ==
    ASSUME CarefulClients, NEW c \in Conns, CarefulInv(c), Handler(c)
    PROVE  CarefulInv(c)'
<1>1. TypeInv /\ TypeInv'
    BY TypeHandler, ControlHandler DEF CarefulInv, TypeInv
<1>2. /\ pc \in [Conns -> Pcs] /\ built \in [Conns -> Seq(Sensors)] /\ k \in [Conns -> Nat]
      /\ list \in [Groups -> Seq(Sensors)] /\ req \in [Conns -> Request]
      /\ inGroups \subseteq Groups /\ sensors \subseteq Sensors
    BY <1>1 DEF TypeInv, TypeOK
<1>3. ControlAt(c) /\ CarefulAt(c) /\ \A g \in inGroups : Resolves(c, g)
    BY <1>1 DEF TypeInv, Control, CarefulInv
<1>4. pc[c] # "idle" => req[c] \in Request /\ CarefulRequest(req[c])
    BY <1>2, <1>3 DEF CarefulClients, ControlAt
<1>5. ASSUME UNCHANGED <<sensors, inGroups, list>>,
             pc'[c] \notin {"delete", "unlist", "rollback", "item", "itemPut", "subscribe", "unsubscribe"},
             \A g \in inGroups : Missing(c, g) = {}
      PROVE  CarefulInv(c)'
    BY <1>1, <1>3, <1>5, SameGroups DEF CarefulInv, CarefulAt
<1>6. CASE CreateSensor(c)
    BY <1>2, <1>5, <1>6 DEF CreateSensor, Goto, Answer, tables, Missing
<1>7. CASE PutSensor(c)
    <2>1. /\ pc[c] = "put" /\ pc'[c] = "check" /\ sensors \subseteq sensors'
          /\ UNCHANGED <<inGroups, list>>
        BY <1>2, <1>7 DEF PutSensor, Put, Goto
    <2>2. \A g \in inGroups : Missing(c, g) = {}
        BY <2>1 DEF Missing
    <2> QED BY <1>1, <1>3, <2>1, <2>2, SameGroups DEF CarefulInv, CarefulAt
<1>8. CASE CheckStatus(c)
    BY <1>2, <1>5, <1>8 DEF CheckStatus, Goto, Answer, tables, Missing
<1>9. CASE SetStatus(c)
    BY <1>2, <1>5, <1>9 DEF SetStatus, Answer, tables, Missing
<1>10. CASE DeleteSensor(c)
    <2> DEFINE s == req[c].query[k[c]]
    <2>1. /\ pc[c] = "delete" /\ k[c] \in DOMAIN req[c].query /\ sensors' = sensors \ {s}
          /\ UNCHANGED <<inGroups, list, built, req>>
        BY <1>2, <1>10 DEF DeleteSensor, Delete, Goto, Answer
    <2>2. req[c].query \in Seq(Sensors) /\ Len(req[c].query) <= 1
        BY <1>3, <1>4, <2>1, RequestFields DEF ControlAt, CarefulRequest
    <2>3. k[c] = 1 /\ Len(req[c].query) = 1 /\ s = Last(req[c].query) /\ req[c].query # <<>>
        BY <2>1, <2>2, OneEntry
    <2>4. \A g \in inGroups : Missing(c, g) = {}
        BY <2>1, <2>3 DEF Missing
    <2>5. CASE s \in sensors
        <3>1. pc'[c] = "delete" /\ k'[c] = 2
            BY <1>2, <1>10, <2>3, <2>5 DEF DeleteSensor, Goto, SetK
        <3>2. \A g \in inGroups : Missing(c, g)' = {s}
            BY <2>1, <2>3, <3>1 DEF Missing
        <3>3. CarefulAt(c)'
            BY <2>1, <2>3, <3>1 DEF CarefulAt
        <3>4. \A g \in inGroups : sensors \cup Missing(c, g) \subseteq sensors' \cup Missing(c, g)'
            BY <2>1, <2>4, <3>2
        <3> QED BY <1>1, <1>3, <2>1, <3>3, <3>4, SameGroups DEF CarefulInv
    <2>6. CASE s \notin sensors
        <3>1. pc'[c] = "idle" /\ sensors' = sensors
            BY <1>2, <1>10, <2>1, <2>6 DEF DeleteSensor, Answer
        <3> QED BY <1>5, <2>1, <2>4, <3>1
    <2> QED BY <2>5, <2>6
<1>11. CASE EndDelete(c)
    <2>1. /\ pc[c] = "delete" /\ k[c] \notin DOMAIN req[c].query
          /\ UNCHANGED <<sensors, inGroups, list, req>>
        BY <1>11 DEF EndDelete, Goto, Answer, tables
    <2>2. CASE req[c].query = <<>>
        <3>1. pc'[c] = "idle" /\ k[c] = 1
            BY <1>2, <1>3, <1>11, <2>1, <2>2 DEF EndDelete, Answer, CarefulAt
        <3>2. \A g \in inGroups : Missing(c, g) = {}
            BY <2>1, <3>1 DEF Missing
        <3> QED BY <1>5, <2>1, <3>1, <3>2
    <2>3. CASE req[c].query # <<>>
        <3>1. pc'[c] = "unlist" /\ k'[c] = 1
            BY <1>2, <1>11, <2>3 DEF EndDelete, Goto, SetK
        <3>2. CarefulAt(c)'
            BY <3>1 DEF CarefulAt
        <3>3. \A g \in Groups : 1 <= g
            BY RegistryAssumption DEF Groups
        <3>4. \A g \in inGroups : Missing(c, g)' = {Last(req[c].query)}
            BY <1>2, <2>1, <3>1, <3>3 DEF Missing
        <3>5. \A g \in inGroups : Missing(c, g) \subseteq {Last(req[c].query)}
            BY <2>1 DEF Missing
        <3> QED BY <1>1, <1>3, <2>1, <3>2, <3>4, <3>5, SameGroups DEF CarefulInv
    <2> QED BY <2>2, <2>3
<1>12. CASE Unlist(c)
    <2> DEFINE s == Last(req[c].query)
    <2>1. /\ pc[c] = "unlist" /\ k[c] \in Groups /\ k'[c] = k[c] + 1
          /\ UNCHANGED <<sensors, inGroups, pc, req>>
          /\ list' = IF k[c] \in inGroups
                     THEN [list EXCEPT ![k[c]] = RemoveFirst(list[k[c]], s)]
                     ELSE list
        BY <1>2, <1>12 DEF Unlist, SetK
    <2>2. CarefulAt(c)'
        BY <1>2, <1>3, <2>1 DEF CarefulAt
    <2>3. ASSUME NEW g \in inGroups PROVE Resolves(c, g)'
        <3>1. g \in Groups /\ Groups \subseteq Nat /\ list[g] \in Seq(Sensors)
            BY <1>2, RegistryAssumption DEF Groups
        <3>2. IsInjective(list[g]) /\ ToSet(list[g]) \subseteq sensors \cup {s}
            BY <1>3, <2>1 DEF Resolves, Missing
        <3>3. CASE g = k[c]
            <4>1. list'[g] = RemoveFirst(list[g], s)
                BY <1>2, <2>1, <3>1, <3>3
            <4>2. IsInjective(list'[g]) /\ ToSet(list'[g]) = ToSet(list[g]) \ {s}
                BY <3>1, <3>2, <4>1, RemoveFirstInjective
            <4> QED BY <2>1, <3>2, <4>2 DEF Resolves
        <3>4. CASE g # k[c]
            <4>1. list'[g] = list[g]
                BY <1>2, <2>1, <3>1, <3>4
            <4>2. k[c] <= g => k[c] + 1 <= g
                BY <1>2, <3>1, <3>4
            <4>3. Missing(c, g) \subseteq Missing(c, g)'
                BY <2>1, <4>2 DEF Missing
            <4> QED BY <1>3, <2>1, <4>1, <4>3 DEF Resolves
        <3> QED BY <3>3, <3>4
    <2> QED BY <1>1, <2>1, <2>2, <2>3 DEF CarefulInv
<1>13. CASE EndUnlist(c)
    <2>1. /\ pc[c] = "unlist" /\ k[c] \notin Groups /\ pc'[c] \in {"create", "idle"}
          /\ UNCHANGED <<sensors, inGroups, list>>
        BY <1>2, <1>13 DEF EndUnlist, Goto, Answer, tables
    <2>2. \A g \in inGroups : ~(k[c] <= g)
        BY <1>2, <1>3, <2>1, RegistryAssumption DEF CarefulAt, Groups
    <2>3. \A g \in inGroups : Missing(c, g) = {}
        BY <2>1, <2>2 DEF Missing
    <2> QED BY <1>5, <2>1, <2>3
<1>14. CASE BeginGroup(c)
    <2>1. pc[c] = "subscribe" /\ UNCHANGED <<sensors, inGroups, list, built, req>>
        BY <1>14 DEF BeginGroup, Goto, Answer, tables
    <2>2. \A g \in inGroups : Missing(c, g) = {}
        BY <2>1 DEF Missing
    <2>3. CASE pc'[c] = "idle"
        BY <1>5, <2>1, <2>2, <2>3
    <2>4. CASE pc'[c] = "item"
        <3>1. built'[c] = <<>>
            BY <1>3, <2>1 DEF CarefulAt
        <3>2. CarefulAt(c)'
            BY <2>4, <3>1, EmptyList DEF CarefulAt, Building
        <3> QED BY <1>1, <1>3, <2>1, <2>2, <3>2, SameGroups DEF CarefulInv
    <2> QED BY <1>2, <1>14, <2>3, <2>4 DEF BeginGroup, Goto, Answer
<1>15. ASSUME pc[c] \in {"item", "itemPut"}, k[c] \in DOMAIN req[c].body.items,
              UNCHANGED <<inGroups, list, req>>, pc'[c] = "item",
              sensors' = sensors \cup {ItemId(c)},
              k'[c] = k[c] + 1, built'[c] = Append(built[c], ItemId(c))
       PROVE  CarefulInv(c)'
    <2>a. ItemId(c) \in Sensors
        BY <1>1, <1>15, ItemType
    <2>b. req[c] \in Request /\ CarefulRequest(req[c]) /\ req[c].op \in GroupOps
        BY <1>3, <1>4, <1>15 DEF ControlAt
    <2>1. /\ ItemId(c) \in Sensors /\ Building(c) /\ built[c] \in Seq(Sensors)
          /\ req[c].body.items \in Seq(Item) /\ CarefulRequest(req[c]) /\ req[c].op \in GroupOps
        <3>1. Building(c)
            BY <1>3, <1>15 DEF CarefulAt
        <3>2. req[c].body.items \in Seq(Item)
            BY <2>b, RequestFields
        <3> QED BY <1>2, <2>a, <2>b, <3>1, <3>2
    <2>2. ItemId(c) \notin ToSet(built[c])
        <3>1. Building(c) /\ k[c] >= k[c]
            BY <1>2, <2>1
        <3> QED BY <1>15, <3>1 DEF Building, ItemId
    <2>3. IsInjective(built'[c]) /\ ToSet(built'[c]) = ToSet(built[c]) \cup {ItemId(c)}
        BY <1>15, <2>1, <2>2, AppendFresh DEF Building
    <2>4. ASSUME NEW j \in DOMAIN req[c].body.items, j >= k[c] + 1
          PROVE  req[c].body.items[j].id \notin ToSet(built'[c])
        <3>1. j >= k[c] /\ j # k[c]
            BY <1>2, <2>1, <2>4
        <3>2. req[c].body.items[j].id # ItemId(c)
            BY <1>15, <2>1, <3>1 DEF CarefulRequest, ItemId
        <3> QED BY <2>1, <2>3, <3>1, <3>2 DEF Building
    <2>5. CarefulAt(c)'
        BY <1>15, <2>1, <2>3, <2>4 DEF CarefulAt, Building
    <2>6. \A g \in inGroups : Missing(c, g) \subseteq {ItemId(c)}
        BY <1>15 DEF Missing
    <2> QED BY <1>1, <1>3, <1>15, <2>5, <2>6, SameGroups DEF CarefulInv
<1>16. CASE ListItem(c)
    <2>1. pc[c] = "item" /\ k[c] \in DOMAIN req[c].body.items
        BY <1>16 DEF ListItem, AtItem
    <2>2. CASE ItemId(c) \in sensors
        BY <1>2, <1>15, <1>16, <2>1, <2>2 DEF ListItem, AddItem, SetK, Goto, tables
    <2>3. CASE ItemId(c) \notin sensors
        BY <1>2, <1>5, <1>16, <2>1, <2>3 DEF ListItem, Answer, tables, Missing
    <2> QED BY <2>2, <2>3
<1>17. CASE RejectItem(c)
    BY <1>2, <1>5, <1>17 DEF RejectItem, AtItem, Answer, tables, Missing
<1>18. CASE DropItem(c)
    <2>1. /\ pc[c] = "item" /\ k[c] \in DOMAIN req[c].body.items
          /\ req[c].body.items[k[c]].kind \in {"full", "badSettings", "badValue"}
          /\ sensors' = sensors \ {ItemId(c)}
          /\ UNCHANGED <<inGroups, list, k, built>>
        BY <1>18 DEF DropItem, AtItem, Delete
    <2>2. req[c].body.items[k[c]].kind = "full"
        BY <1>3, <1>4, <2>1 DEF CarefulRequest, ControlAt
    <2>3. pc'[c] = "itemPut" /\ req' = req
        BY <1>2, <1>18, <2>1, <2>2 DEF DropItem, AtItem, Goto
    <2>4. Building(c) /\ ItemId(c) \notin ToSet(built[c])
        BY <1>2, <1>3, <2>1 DEF CarefulAt, Building, ItemId
    <2>5. Building(c)'
        BY <2>1, <2>3, <2>4 DEF Building
    <2>6. CarefulAt(c)'
        BY <2>3, <2>5 DEF CarefulAt
    <2>7. \A g \in inGroups : Missing(c, g) = {} /\ Missing(c, g)' = {ItemId(c)}
        BY <2>1, <2>3 DEF Missing, ItemId
    <2> QED BY <1>1, <1>3, <2>1, <2>6, <2>7, SameGroups DEF CarefulInv
<1>19. CASE PutItem(c)
    <2>1. pc[c] = "itemPut" /\ k[c] \in DOMAIN req[c].body.items
        BY <1>3, <1>19 DEF PutItem, ControlAt
    <2> QED BY <1>2, <1>15, <1>19, <2>1 DEF PutItem, Put, AddItem, SetK, Goto
<1>20. CASE PutGroup(c)
    <2> DEFINE n == req[c].body.id
    <2>1. /\ pc[c] = "item" /\ pc'[c] = "check" /\ inGroups' = inGroups \cup {n}
          /\ list' = [list EXCEPT ![n] = built[c]] /\ sensors' = sensors
        BY <1>2, <1>20 DEF PutGroup, Goto
    <2>2. n \in Groups /\ Building(c)
        BY <1>3, <1>4, <2>1, RequestFields DEF ControlAt, CarefulAt
    <2>3. CarefulAt(c)'
        BY <2>1 DEF CarefulAt
    <2>4. ASSUME NEW g \in inGroups' PROVE Resolves(c, g)'
        <3>1. CASE g = n
            BY <1>2, <2>1, <2>2, <3>1 DEF Resolves, Building
        <3>2. CASE g # n
            <4>1. g \in inGroups /\ list'[g] = list[g] /\ Missing(c, g) = {}
                BY <1>2, <2>1, <2>4, <3>2 DEF Missing
            <4> QED BY <1>3, <2>1, <4>1 DEF Resolves
        <3> QED BY <3>1, <3>2
    <2> QED BY <1>1, <2>3, <2>4 DEF CarefulInv
<1>21. CASE DeleteGroup(c)
    <2>1. /\ pc[c] = "unsubscribe" /\ pc'[c] \in {"unsubscribe", "idle"}
          /\ inGroups' \subseteq inGroups /\ UNCHANGED <<sensors, list, built>>
        BY <1>2, <1>21 DEF DeleteGroup, Goto, Answer
    <2>2. CarefulAt(c)' /\ \A g \in inGroups : Missing(c, g) = {}
        BY <1>3, <2>1 DEF CarefulAt, Missing
    <2> QED BY <1>1, <1>3, <2>1, <2>2, SameGroups DEF CarefulInv
<1>22. CASE EndDeleteGroup(c)
    <2>1. /\ pc[c] = "unsubscribe" /\ pc'[c] \in {"subscribe", "idle"}
          /\ UNCHANGED <<sensors, inGroups, list, built>>
        BY <1>2, <1>22 DEF EndDeleteGroup, Goto, Answer, tables
    <2>2. CarefulAt(c)' /\ \A g \in inGroups : Missing(c, g) = {}
        BY <1>3, <2>1 DEF CarefulAt, Missing
    <2> QED BY <1>1, <1>3, <2>1, <2>2, SameGroups DEF CarefulInv
<1>23. CASE EndRead(c)
    BY <1>2, <1>5, <1>23 DEF EndRead, Answer, tables, Missing
<1>24. ~(Rollback(c) \/ EndRollback(c))
    BY <1>3 DEF CarefulAt, Rollback, EndRollback
<1> QED BY <1>6, <1>7, <1>8, <1>9, <1>10, <1>11, <1>12, <1>13, <1>14, <1>16, <1>17, <1>18,
           <1>19, <1>20, <1>21, <1>22, <1>23, <1>24 DEF Handler

LEMMA CarefulReceive ==
    ASSUME NEW c \in Conns, CarefulInv(c), Receive(c)
    PROVE  CarefulInv(c)'
<1>1. TypeInv /\ TypeInv'
    BY TypeReceive DEF CarefulInv
<1>2. PICK r \in Requests[c] : req' = [req EXCEPT ![c] = r] /\ pc' = [pc EXCEPT ![c] = Entry(r.op)]
    BY DEF Receive
<1>3. r \in Request
    BY RegistryAssumption
<1>4. Entry(r.op) \in {"create", "delete", "subscribe", "unsubscribe", "read", "check"}
    BY <1>3, RequestFields DEF Entry
<1>5. /\ UNCHANGED <<sensors, inGroups, list>> /\ pc'[c] = Entry(r.op) /\ k'[c] = 1
      /\ built'[c] = <<>> /\ pc[c] = "idle"
    BY <1>1, <1>2 DEF Receive, SetK, TypeInv, TypeOK, tables
<1>6. CarefulAt(c)'
    BY <1>4, <1>5 DEF CarefulAt
<1>7. \A g \in inGroups : Missing(c, g) = {}
    BY <1>5 DEF Missing
<1> QED BY <1>1, <1>5, <1>6, <1>7, SameGroups DEF CarefulInv

LEMMA CarefulFrame ==
    ASSUME NEW c \in Conns, CarefulInv(c), TypeInv', UNCHANGED <<tables, locals>>
    PROVE  CarefulInv(c)'
BY DEF CarefulInv, CarefulAt, Building, Resolves, Missing, ItemId, tables, locals

\* ListsResolve holds of a single careful client, for any sensors and groups
\* and any sequence of its requests: a DELETE leaves no trace of the sensor in
\* the lists, and a sensor replaced by a new sensorgroup is there again.
THEOREM CarefulClientResolves ==
    ASSUME CarefulClients, NEW c, Conns = {c}
    PROVE  Spec => []ListsResolve
<1>1. c \in Conns
    OBVIOUS
<1>2. Init => CarefulInv(c)
    BY <1>1, CarefulInit
<1>3. CarefulInv(c) /\ [Next]_vars => CarefulInv(c)'
    <2> SUFFICES ASSUME CarefulInv(c), [Next]_vars PROVE CarefulInv(c)'
        OBVIOUS
    <2> QED BY <1>1, CarefulHandler, CarefulReceive, CarefulFrame, OneClientSteps DEF CarefulInv
<1>4. CarefulInv(c) => ListsResolve
    BY <1>1 DEF CarefulInv, ListsResolve, Quiet, Resolves, Missing
<1> QED BY <1>2, <1>3, <1>4, PTL DEF Spec

\* The operation of c is halfway: it has deleted the sensor, and has still to
\* cut it out of the list of g.
Half(c, g) ==
    \/ pc[c] = "delete" /\ k[c] > 1
    \/ pc[c] = "unlist" /\ k[c] <= g

\* What the store shows of one client.
View(c) ==
    /\ PendingItems = IF pc[c] = "itemPut" THEN {ItemId(c)} ELSE {}
    /\ \A g \in inGroups :
          VisibleList(g) =
             IF Half(c, g) THEN RemoveFirst(list[g], Last(req[c].query)) ELSE list[g]

LEMMA OneClientView == ASSUME NEW c, Conns = {c} PROVE View(c) /\ View(c)'
<1>1. View(c)
    <2>1. PendingItems = IF pc[c] = "itemPut" THEN {ItemId(c)} ELSE {}
        BY DEF PendingItems
    <2>2. ASSUME NEW g PROVE Unlisting(g) = IF Half(c, g) THEN {c} ELSE {}
        BY DEF Unlisting, Half
    <2>3. (CHOOSE d \in {c} : TRUE) = c
        OBVIOUS
    <2>4. ASSUME NEW g \in inGroups
          PROVE  VisibleList(g) =
                    IF Half(c, g) THEN RemoveFirst(list[g], Last(req[c].query)) ELSE list[g]
        <3>1. CASE Half(c, g)
            BY <2>2, <2>3, <3>1 DEF VisibleList
        <3>2. CASE ~Half(c, g)
            BY <2>2, <3>2 DEF VisibleList
        <3> QED BY <3>1, <3>2
    <2> QED BY <2>1, <2>4 DEF View
<1>2. View(c)'
    BY <1>1, PTL
<1> QED BY <1>1, <1>2

\* A step stutters in the store when it registers nothing, removes nothing and
\* shows the same lists.
LEMMA StoreStutters ==
    ASSUME NEW c, Conns = {c}, View(c), View(c)', inGroups' = inGroups,
           (sensors \cup PendingItems)' = sensors \cup PendingItems,
           \A g \in inGroups : VisibleList(g)' = VisibleList(g)
    PROVE  UNCHANGED Store!storeVars
BY DEF Store!storeVars

\* The list operators of SubscriptionStore are those of Registry.
LEMMA StoreLists ==
    /\ \A l, s : Store!RemoveFirst(l, s) = RemoveFirst(l, s)
    /\ \A l : Store!IsInjective(l) = IsInjective(l)
<1>1. \A l, s : Store!RemoveFirst(l, s) = RemoveFirst(l, s)
    BY DEF Store!RemoveFirst, RemoveFirst, Store!SelectInSeq, SelectInSeq, Store!RemoveAt,
           RemoveAt, Store!Min, Min
<1>2. \A l : Store!IsInjective(l) = IsInjective(l)
    BY DEF Store!IsInjective, IsInjective
<1> QED BY <1>1, <1>2

\* Each step of a handler is one operation of the store or none.
LEMMA StoreHandler ==
    ASSUME CarefulClients, NEW c, Conns = {c}, CarefulInv(c), FreshAt(c), Handler(c)
    PROVE  [Store!Next]_(Store!storeVars)
<1>1. c \in Conns /\ TypeInv /\ View(c) /\ View(c)'
    BY OneClientView DEF CarefulInv
<1>2. /\ pc \in [Conns -> Pcs] /\ built \in [Conns -> Seq(Sensors)] /\ k \in [Conns -> Nat]
      /\ list \in [Groups -> Seq(Sensors)] /\ req \in [Conns -> Request]
      /\ inGroups \subseteq Groups /\ Groups \subseteq Nat /\ sensors \subseteq Sensors
    BY <1>1, RegistryAssumption DEF TypeInv, TypeOK, Groups
<1>3. ControlAt(c) /\ CarefulAt(c)
    BY <1>1 DEF TypeInv, Control, CarefulInv
<1>4. pc[c] # "idle" => req[c] \in Request /\ CarefulRequest(req[c])
    BY <1>1, <1>2, <1>3 DEF CarefulClients, ControlAt
<1>5. ASSUME UNCHANGED <<sensors, inGroups, list, req>>,
             pc[c] # "itemPut", pc'[c] # "itemPut",
             \A g \in inGroups : Half(c, g)' <=> Half(c, g)
      PROVE  UNCHANGED Store!storeVars
    <2>1. \A g \in inGroups : VisibleList(g)' = VisibleList(g)
        BY <1>1, <1>5 DEF View
    <2>2. PendingItems = {} /\ PendingItems' = {}
        BY <1>1, <1>5 DEF View
    <2> QED BY <1>1, <1>5, <2>1, <2>2, StoreStutters
<1>6. ASSUME UNCHANGED <<sensors, inGroups, list, req>>,
             pc[c] \notin {"delete", "unlist", "itemPut"},
             pc'[c] \notin {"delete", "unlist", "itemPut"}
      PROVE  UNCHANGED Store!storeVars
    BY <1>5, <1>6 DEF Half
\* A sensor is registered, by a request or by an item of a sensor-list.
<1>7. ASSUME NEW s \in Sensors,
             (sensors \cup PendingItems)' = sensors \cup PendingItems \cup {s},
             UNCHANGED <<inGroups, list>>,
             pc[c] \notin {"delete", "unlist"}, pc'[c] \notin {"delete", "unlist"}
      PROVE  Store!Next
    <2>1. \A g \in inGroups : VisibleList(g)' = VisibleList(g)
        BY <1>1, <1>7 DEF View, Half
    <2>2. Store!Register(s)
        BY <1>7, <2>1 DEF Store!Register
    <2> QED BY <2>2 DEF Store!Next
<1>8. CASE CreateSensor(c)
    BY <1>2, <1>6, <1>8 DEF CreateSensor, Goto, Answer, tables
<1>9. CASE PutSensor(c)
    <2>1. /\ pc[c] = "put" /\ pc'[c] = "check" /\ sensors' = sensors \cup {req[c].body.id}
          /\ UNCHANGED <<inGroups, list>>
        BY <1>2, <1>9 DEF PutSensor, Put, Goto
    <2>2. req[c].body.id \in Sensors
        BY <1>3, <1>4, <2>1, RequestFields DEF ControlAt
    <2>3. PendingItems = {} /\ PendingItems' = {}
        BY <1>1, <2>1 DEF View
    <2> QED BY <1>7, <2>1, <2>2, <2>3
<1>10. CASE CheckStatus(c) \/ SetStatus(c)
    BY <1>2, <1>6, <1>10 DEF CheckStatus, SetStatus, Goto, Answer, tables
\* A sensor is unregistered when it leaves the table; the lists follow.
<1>11. CASE DeleteSensor(c)
    <2> DEFINE s == req[c].query[k[c]]
    <2>1. /\ pc[c] = "delete" /\ k[c] \in DOMAIN req[c].query /\ sensors' = sensors \ {s}
          /\ UNCHANGED <<inGroups, list, req>>
        BY <1>2, <1>11 DEF DeleteSensor, Delete, Goto, Answer
    <2>2. req[c].query \in Seq(Sensors) /\ Len(req[c].query) <= 1
        BY <1>3, <1>4, <2>1, RequestFields DEF ControlAt, CarefulRequest
    <2>3. k[c] = 1 /\ s = Last(req[c].query) /\ s \in Sensors
        BY <2>1, <2>2, OneEntry
    <2>4. CASE s \in sensors
        <3>1. pc'[c] = "delete" /\ k'[c] = 2
            BY <1>2, <1>11, <2>3, <2>4 DEF DeleteSensor, Goto, SetK
        <3>2. PendingItems = {} /\ PendingItems' = {}
            BY <1>1, <2>1, <3>1 DEF View
        <3>3. \A g \in inGroups : Half(c, g)' /\ ~Half(c, g)
            BY <2>1, <2>3, <3>1 DEF Half
        <3>4. \A g \in inGroups : VisibleList(g)' = RemoveFirst(VisibleList(g), s)
            BY <1>1, <2>1, <2>3, <3>3 DEF View
        <3>5. Store!Unregister(s)
            BY <2>1, <3>2, <3>4, StoreLists DEF Store!Unregister
        <3> QED BY <2>3, <3>5 DEF Store!Next
    <2>5. CASE s \notin sensors
        <3>1. pc'[c] = "idle" /\ sensors' = sensors
            BY <1>2, <1>11, <2>1, <2>5 DEF DeleteSensor, Answer
        <3> QED BY <1>5, <2>1, <2>3, <3>1 DEF Half
    <2> QED BY <2>4, <2>5
<1>12. CASE EndDelete(c)
    <2>1. /\ pc[c] = "delete" /\ k[c] \notin DOMAIN req[c].query
          /\ UNCHANGED <<sensors, inGroups, list, req>>
        BY <1>12 DEF EndDelete, Goto, Answer, tables
    <2>2. CASE req[c].query = <<>>
        <3>1. pc'[c] = "idle" /\ k[c] = 1
            BY <1>2, <1>3, <1>12, <2>1, <2>2 DEF EndDelete, Answer, CarefulAt
        <3> QED BY <1>5, <2>1, <3>1 DEF Half
    <2>3. CASE req[c].query # <<>>
        <3>1. pc'[c] = "unlist" /\ k'[c] = 1
            BY <1>2, <1>12, <2>3 DEF EndDelete, Goto, SetK
        <3>2. k[c] = 2
            <4>1. req[c].query \in Seq(Sensors)
                BY <1>3, <1>4, <2>1, RequestFields DEF ControlAt
            <4>2. 1 \in DOMAIN req[c].query
                BY <2>3, <4>1
            <4> QED BY <1>3, <2>1, <4>2 DEF CarefulAt
        <3>3. \A g \in inGroups : 1 <= g
            BY <1>2 DEF Groups
        <3>4. \A g \in inGroups : Half(c, g)' /\ Half(c, g)
            BY <2>1, <3>1, <3>2, <3>3 DEF Half
        <3> QED BY <1>5, <2>1, <3>1, <3>4
    <2> QED BY <2>2, <2>3
<1>13. CASE Unlist(c)
    <2> DEFINE s == Last(req[c].query)
    <2>1. /\ pc[c] = "unlist" /\ pc' = pc /\ k[c] \in Groups /\ k'[c] = k[c] + 1
          /\ UNCHANGED <<sensors, inGroups, req>>
          /\ list' = IF k[c] \in inGroups
                     THEN [list EXCEPT ![k[c]] = RemoveFirst(list[k[c]], s)]
                     ELSE list
        BY <1>2, <1>13 DEF Unlist, SetK
    <2>2. PendingItems = {} /\ PendingItems' = {}
        BY <1>1, <2>1 DEF View
    <2>3. ASSUME NEW g \in inGroups PROVE VisibleList(g)' = VisibleList(g)
        <3>1. /\ VisibleList(g) = IF k[c] <= g THEN RemoveFirst(list[g], s) ELSE list[g]
              /\ VisibleList(g)' = IF k[c] + 1 <= g THEN RemoveFirst(list'[g], s) ELSE list'[g]
            BY <1>1, <2>1 DEF View, Half
        <3>2. CASE g = k[c]
            <4>1. list'[g] = RemoveFirst(list[g], s) /\ k[c] <= g /\ ~(k[c] + 1 <= g)
                BY <1>2, <2>1, <3>2
            <4> QED BY <3>1, <4>1
        <3>3. CASE g # k[c]
            <4>1. list'[g] = list[g] /\ (k[c] <= g <=> k[c] + 1 <= g)
                BY <1>2, <2>1, <3>3
            <4> QED BY <3>1, <4>1
        <3> QED BY <3>2, <3>3
    <2> QED BY <1>1, <2>1, <2>2, <2>3, StoreStutters
<1>14. CASE EndUnlist(c)
    <2>1. /\ pc[c] = "unlist" /\ k[c] \notin Groups /\ pc'[c] \in {"create", "idle"}
          /\ UNCHANGED <<sensors, inGroups, list, req>>
        BY <1>2, <1>14 DEF EndUnlist, Goto, Answer, tables
    <2>2. \A g \in inGroups : ~(k[c] <= g)
        BY <1>2, <1>3, <2>1, RegistryAssumption DEF CarefulAt, Groups
    <2> QED BY <1>5, <2>1, <2>2 DEF Half
<1>15. CASE BeginGroup(c)
    BY <1>2, <1>6, <1>15 DEF BeginGroup, Goto, Answer, tables
<1>16. CASE ListItem(c) \/ RejectItem(c)
    BY <1>2, <1>6, <1>16 DEF ListItem, RejectItem, AtItem, Goto, Answer, tables
<1>17. CASE DropItem(c)
    <2>1. /\ pc[c] = "item" /\ k[c] \in DOMAIN req[c].body.items
          /\ req[c].body.items[k[c]].kind \in {"full", "badSettings", "badValue"}
          /\ sensors' = sensors \ {ItemId(c)}
          /\ UNCHANGED <<inGroups, list, k>>
        BY <1>17 DEF DropItem, AtItem, Delete
    <2>2. req[c].body.items[k[c]].kind = "full"
        BY <1>3, <1>4, <2>1 DEF CarefulRequest, ControlAt
    <2>3. pc'[c] = "itemPut" /\ req' = req
        BY <1>2, <1>17, <2>1, <2>2 DEF DropItem, AtItem, Goto
    <2>4. PendingItems = {} /\ PendingItems' = {ItemId(c)} /\ ItemId(c) \in Sensors
        BY <1>1, <2>1, <2>3, ItemType DEF View, ItemId
    <2> QED BY <1>7, <2>1, <2>3, <2>4
<1>18. CASE PutItem(c)
    <2>1. /\ pc[c] = "itemPut" /\ pc'[c] = "item" /\ sensors' = sensors \cup {ItemId(c)}
          /\ UNCHANGED <<inGroups, list>>
        BY <1>2, <1>18 DEF PutItem, Put, Goto
    <2>2. PendingItems = {ItemId(c)} /\ PendingItems' = {}
        BY <1>1, <2>1 DEF View
    <2>3. ItemId(c) \in Sensors
        BY <1>1, <1>3, <2>1, ItemType DEF ControlAt
    <2> QED BY <1>7, <2>1, <2>2, <2>3
\* A group enters the table with the list built for it.
<1>19. CASE PutGroup(c)
    <2> DEFINE n == req[c].body.id
    <2>1. /\ pc[c] = "item" /\ pc'[c] = "check" /\ inGroups' = inGroups \cup {n}
          /\ list' = [list EXCEPT ![n] = built[c]] /\ sensors' = sensors
        BY <1>2, <1>19 DEF PutGroup, Goto
    <2>2. n \in Groups /\ Building(c) /\ n \notin inGroups
        BY <1>3, <1>4, <2>1, RequestFields DEF ControlAt, CarefulAt, FreshAt
    <2>3. built[c] \in Seq(sensors)
        BY <1>2, <2>2 DEF Building, ToSet
    <2>4. PendingItems = {} /\ PendingItems' = {}
        BY <1>1, <2>1 DEF View
    <2>5. /\ \A g \in inGroups' : VisibleList(g)' = list'[g]
          /\ \A g \in inGroups : VisibleList(g) = list[g] /\ list'[g] = list[g]
          /\ list'[n] = built[c]
        <3>1. \A g \in inGroups' : VisibleList(g)' = list'[g]
            BY <1>1, <2>1 DEF View, Half
        <3>2. \A g \in inGroups : VisibleList(g) = list[g]
            BY <1>1, <2>1 DEF View, Half
        <3>3. list'[n] = built[c] /\ \A g \in inGroups : list'[g] = list[g]
            BY <1>2, <2>1, <2>2
        <3> QED BY <3>1, <3>2, <3>3
    <2>6. Store!Subscribe(n)
        <3>1. /\ [g \in inGroups |-> VisibleList(g)]' = [g \in inGroups' |-> VisibleList(g)']
              /\ (sensors \cup PendingItems)' = sensors \cup PendingItems
              /\ sensors \cup PendingItems = sensors
            BY <2>1, <2>4
        <3>2. Store!IsInjective(built[c])
            BY <2>2, StoreLists DEF Building
        <3> QED BY <2>1, <2>2, <2>3, <2>5, <3>1, <3>2 DEF Store!Subscribe
    <2> QED BY <2>2, <2>6 DEF Store!Next
<1>20. CASE DeleteGroup(c)
    <2> DEFINE n == req[c].query[k[c]]
    <2>1. /\ pc[c] = "unsubscribe" /\ k[c] \in DOMAIN req[c].query
          /\ UNCHANGED <<sensors, list, req>>
        BY <1>20 DEF DeleteGroup, Goto, Answer
    <2>2. CASE n \in inGroups
        <3>1. pc'[c] = "unsubscribe" /\ inGroups' = inGroups \ {n}
            BY <1>2, <1>20, <2>2 DEF DeleteGroup, Goto
        <3>2. PendingItems = {} /\ PendingItems' = {}
            BY <1>1, <2>1, <3>1 DEF View
        <3>3. \A g \in inGroups' : VisibleList(g)' = VisibleList(g)
            BY <1>1, <2>1, <3>1 DEF View, Half
        <3>4. Store!Unsubscribe(n)
            BY <2>1, <2>2, <3>1, <3>2, <3>3 DEF Store!Unsubscribe
        <3> QED BY <1>2, <2>2, <3>4 DEF Store!Next
    <2>3. CASE n \notin inGroups
        <3>1. pc'[c] = "idle" /\ inGroups' = inGroups
            BY <1>2, <1>20, <2>3 DEF DeleteGroup, Answer
        <3> QED BY <1>6, <2>1, <3>1
    <2> QED BY <2>2, <2>3
<1>21. CASE EndDeleteGroup(c) \/ EndRead(c)
    BY <1>2, <1>6, <1>21 DEF EndDeleteGroup, EndRead, Goto, Answer, tables
<1>22. ~(Rollback(c) \/ EndRollback(c))
    BY <1>3 DEF CarefulAt, Rollback, EndRollback
<1> QED BY <1>8, <1>9, <1>10, <1>11, <1>12, <1>13, <1>14, <1>15, <1>16, <1>17, <1>18, <1>19,
           <1>20, <1>21, <1>22 DEF Handler

LEMMA StoreReceive ==
    ASSUME NEW c, Conns = {c}, CarefulInv(c), Receive(c)
    PROVE  UNCHANGED Store!storeVars
<1>1. View(c) /\ View(c)' /\ pc \in [Conns -> Pcs]
    BY OneClientView DEF CarefulInv, TypeInv, TypeOK
<1>2. PICK r \in Requests[c] : pc' = [pc EXCEPT ![c] = Entry(r.op)]
    BY DEF Receive
<1>3. r \in Request
    BY RegistryAssumption
<1>4. /\ pc[c] = "idle" /\ pc'[c] \notin {"itemPut", "unlist"} /\ k'[c] = 1
      /\ UNCHANGED <<sensors, inGroups, list>>
    BY <1>1, <1>2, <1>3, RequestFields DEF Entry, Receive, SetK, CarefulInv, TypeInv, TypeOK, tables
<1>5. \A g \in inGroups : VisibleList(g)' = VisibleList(g)
    BY <1>1, <1>4 DEF View, Half
<1>6. PendingItems = {} /\ PendingItems' = {}
    BY <1>1, <1>4 DEF View
<1> QED BY <1>1, <1>4, <1>5, <1>6, StoreStutters

\* The registry of a single careful client implements SubscriptionStore: a
\* DELETE takes effect when the sensor leaves the table, though the loop over
\* the groups has still to cut it out of their lists; an item with a full
\* configuration when the sensor it replaces is deleted; a sensorgroup when it
\* enters the table; and all other steps, those of the main loop included,
\* are invisible.
THEOREM CarefulClientSeesStore ==
    ASSUME CarefulClients, NEW c, Conns = {c}
    PROVE  Spec => StoreSpec
<1> DEFINE Inv == CarefulInv(c) /\ FreshInv(c)
<1>1. c \in Conns
    OBVIOUS
<1>2. Init => Inv
    BY <1>1, CarefulInit, TypeInit DEF Init, FreshInv, FreshAt, NoDangling
<1>3. Inv /\ [Next]_vars => Inv'
    <2> SUFFICES ASSUME Inv, [Next]_vars PROVE Inv'
        OBVIOUS
    <2>1. CASE TypeInv' /\ UNCHANGED <<tables, locals>>
        <3>1. CarefulInv(c)'
            BY <1>1, <2>1, CarefulFrame
        <3>2. FreshInv(c)'
            BY <2>1 DEF FreshInv, FreshAt, NoDangling, ItemId, tables, locals
        <3> QED BY <3>1, <3>2
    <2>2. CASE Handler(c)
        BY <1>1, <2>2, CarefulHandler, FreshHandler
    <2>3. CASE Receive(c)
        BY <1>1, <2>3, CarefulReceive, FreshReceive
    <2> QED BY <2>1, <2>2, <2>3, OneClientSteps DEF FreshInv
<1>4. Init => Store!Init
    <2> SUFFICES ASSUME Init PROVE Store!Init
        OBVIOUS
    <2>1. sensors \cup PendingItems = {} /\ inGroups = {}
        BY DEF Init, PendingItems
    <2> QED BY <2>1 DEF Store!Init
<1>5. Inv /\ [Next]_vars => [Store!Next]_(Store!storeVars)
    <2> SUFFICES ASSUME Inv, [Next]_vars PROVE [Store!Next]_(Store!storeVars)
        OBVIOUS
    <2>1. CASE UNCHANGED <<tables, locals>>
        <3>1. View(c) /\ View(c)'
            BY OneClientView
        <3>2. /\ UNCHANGED <<sensors, inGroups>>
              /\ PendingItems' = PendingItems
              /\ \A g \in inGroups : VisibleList(g)' = VisibleList(g)
            BY <2>1, <3>1 DEF View, Half, ItemId, tables, locals
        <3> QED BY <3>1, <3>2, StoreStutters
    <2>2. CASE Handler(c)
        BY <2>2, StoreHandler DEF FreshInv
    <2>3. CASE Receive(c)
        BY <2>3, StoreReceive
    <2> QED BY <2>1, <2>2, <2>3, OneClientSteps DEF FreshInv
<1> QED BY <1>2, <1>3, <1>4, <1>5, PTL DEF Spec, StoreSpec, Store!Spec

-----------------------------------------------------------------------------
(* Any number of clients that only add, read and command: no walk over the *)
(* groups can crash when no two of them create the same id. Registry then  *)
(* needs no lock.                                                          *)

\* A request that deletes nothing: no PUT, no DELETE, and no full sensor
\* configuration among the items of a group.
Adds(r) ==
    /\ r.op \in {"postSensor", "postGroup", "getGroups", "start", "stop"}
    /\ r.op = "postGroup" =>
          \A i \in DOMAIN r.body.items : r.body.items[i].kind \in {"id", "malformed"}

\* No sensor and no group is created over two connections.
Apart(c, d) ==
    \A r \in Requests[c], q \in Requests[d] :
        (r.op = q.op /\ r.op \in {"postSensor", "postGroup"}) => r.body.id # q.body.id

OnlyAdding ==
    /\ \A c \in Conns : \A r \in Requests[c] : Adds(r)
    /\ \A c, d \in Conns : c # d => Apart(c, d)

\* What holds at each step of a handler of such a request.
AddingAt(c) ==
    /\ pc[c] \in {"idle", "create", "put", "subscribe", "item", "check", "set", "read"}
    /\ pc[c] = "put" => req[c].body.id \notin sensors
    /\ pc[c] = "item" => req[c].body.id \notin inGroups
    /\ ToSet(built[c]) \subseteq sensors

\* Every list in memory names sensors that are there, nothing was freed.
AddingInv ==
    /\ TypeInv
    /\ NoCrash /\ NoDangling
    /\ \A g \in Groups : ToSet(list[g]) \subseteq sensors
    /\ \A t \in Threads : ~walk[t].gone
    /\ \A c \in Conns : AddingAt(c)

LEMMA AddingInit == Init => AddingInv
<1> SUFFICES ASSUME Init PROVE AddingInv
    OBVIOUS
<1>1. TypeInv
    BY TypeInit
<1>2. ToSet(<<>>) = {}
    BY DEF ToSet
<1> QED BY <1>1, <1>2 DEF Init, AddingInv, NoCrash, NoDangling, AddingAt, NoWalk

\* A handler that is not idle serves a request that only adds.
LEMMA AddingRequest ==
    ASSUME OnlyAdding, TypeInv, NEW c \in Conns, pc[c] # "idle"
    PROVE  Adds(req[c]) /\ req[c] \in Requests[c]
BY DEF OnlyAdding, TypeInv, Control, ControlAt

\* Appending a sensor that is there keeps the entries among the sensors.
LEMMA AppendEntries ==
    ASSUME NEW s \in Seq(Sensors), NEW e \in Sensors
    PROVE  ToSet(Append(s, e)) \subseteq ToSet(s) \cup {e}
BY DEF ToSet

\* The entries a walk looks up are in the list of a group.
LEMMA AddingWalk ==
    ASSUME AddingInv, NEW t \in Threads
    PROVE  ~ReadMissing(t) /\ ~TouchFreed(t)
<1>1. ~walk[t].gone /\ freed = {} /\ walk[t] \in Walk /\ list \in [Groups -> Seq(Sensors)]
    BY DEF AddingInv, NoDangling, TypeInv, TypeOK
<1>2. ASSUME Reading(t), walk[t].entry <= Len(Entries(t))
      PROVE  NextEntry(t) \in sensors
    <2>1. walk[t].at \in Groups /\ walk[t].entry > 0 /\ Entries(t) = list[walk[t].at]
        BY <1>1, <1>2 DEF Reading, Entries
    <2>2. walk[t].entry \in Nat
        BY <1>1 DEF Walk
    <2>3. walk[t].entry \in DOMAIN list[walk[t].at]
        BY <1>1, <1>2, <2>1, <2>2
    <2>4. NextEntry(t) \in ToSet(list[walk[t].at])
        BY <2>1, <2>3 DEF NextEntry, ToSet
    <2> QED BY <2>1, <2>4 DEF AddingInv
<1> QED BY <1>1, <1>2 DEF ReadMissing, TouchFreed, AtFreed

\* Every step of a handler keeps AddingInv.
LEMMA AddingHandler ==
    ASSUME OnlyAdding, AddingInv, NEW c \in Conns, Handler(c)
    PROVE  AddingInv'
<1>1. TypeInv /\ TypeInv'
    BY TypeHandler, ControlHandler DEF AddingInv, TypeInv
<1>2. /\ pc[c] \in {"idle", "create", "put", "subscribe", "item", "check", "set", "read"}
      /\ AddingAt(c)
    BY DEF AddingInv, AddingAt
<1>3. ASSUME NEW d \in Conns, d # c
      PROVE  pc'[d] = pc[d] /\ req'[d] = req[d] /\ built'[d] = built[d]
    BY <1>1, <1>3, OthersStay DEF TypeInv
<1>4. /\ pc \in [Conns -> Pcs] /\ built \in [Conns -> Seq(Sensors)]
      /\ list \in [Groups -> Seq(Sensors)] /\ req \in [Conns -> Request]
      /\ walk \in [Threads -> Walk] /\ c \in Threads
    BY <1>1 DEF TypeInv, TypeOK, Threads
<1>5. ASSUME UNCHANGED <<tables, crashed, built, walk, req>>,
             pc'[c] \in {"idle", "create", "put", "subscribe", "item", "check", "set", "read"},
             pc'[c] = "put" => req[c].body.id \notin sensors,
             pc'[c] = "item" => req[c].body.id \notin inGroups
      PROVE  AddingInv'
    <2>1. \A d \in Conns : AddingAt(d)'
        BY <1>2, <1>3, <1>5 DEF AddingInv, AddingAt, tables
    <2> QED BY <1>1, <1>5, <2>1 DEF AddingInv, NoCrash, NoDangling, tables
<1>6. CASE CreateSensor(c)
    BY <1>4, <1>5, <1>6 DEF CreateSensor, Goto, Answer
<1>7. CASE PutSensor(c)
    <2> DEFINE s == req[c].body.id
    <2>1. pc[c] = "put" /\ s \notin sensors
        BY <1>2, <1>7 DEF PutSensor, AddingAt
    <2>2. /\ sensors' = sensors \cup {s} /\ freed' = freed /\ pc'[c] = "check"
          /\ UNCHANGED <<inGroups, list, crashed, req, built, walk>>
        BY <1>4, <1>7, <2>1 DEF PutSensor, Put, Goto
    <2>3. ASSUME NEW d \in Conns, d # c, pc[d] = "put" PROVE req[d].body.id # s
        <3>1. Adds(req[c]) /\ Adds(req[d]) /\ req[c] \in Requests[c] /\ req[d] \in Requests[d]
            BY <1>1, <2>1, <2>3, AddingRequest
        <3>2. req[c].op = "postSensor" /\ req[d].op = "postSensor"
            BY <1>1, <2>1, <2>3, <3>1 DEF TypeInv, Control, ControlAt, Adds, SensorOps
        <3> QED BY <2>3, <3>1, <3>2 DEF OnlyAdding, Apart
    <2>4. ASSUME NEW d \in Conns PROVE AddingAt(d)'
        <3>1. CASE d = c
            BY <1>2, <2>2, <3>1 DEF AddingAt
        <3>2. CASE d # c
            BY <1>3, <2>2, <2>3, <3>2 DEF AddingInv, AddingAt
        <3> QED BY <3>1, <3>2
    <2> QED BY <1>1, <2>2, <2>4 DEF AddingInv, NoCrash, NoDangling
<1>8. CASE CheckStatus(c)
    BY <1>4, <1>5, <1>8 DEF CheckStatus, Goto, Answer
<1>9. CASE SetStatus(c)
    BY <1>4, <1>5, <1>9 DEF SetStatus, Answer
<1>10. CASE BeginGroup(c)
    BY <1>4, <1>5, <1>10 DEF BeginGroup, Goto, Answer
<1>11. CASE ListItem(c)
    <2>1. pc[c] = "item" /\ ItemId(c) \in Sensors
        BY <1>1, <1>11, ItemType DEF ListItem, AtItem
    <2>2. CASE ItemId(c) \in sensors
        <3>1. /\ UNCHANGED <<tables, crashed, walk, req>> /\ pc'[c] = "item"
              /\ built' = [built EXCEPT ![c] = Append(built[c], ItemId(c))]
            BY <1>4, <1>11, <2>2 DEF ListItem, AddItem, Goto
        <3>2. built'[c] = Append(built[c], ItemId(c)) /\ built[c] \in Seq(Sensors)
            BY <1>4, <3>1
        <3>3. ToSet(built'[c]) \subseteq sensors
            BY <1>2, <2>1, <2>2, <3>2, AppendEntries DEF AddingAt
        <3>4. \A d \in Conns : AddingAt(d)'
            BY <1>2, <1>3, <2>1, <3>1, <3>3 DEF AddingInv, AddingAt, tables
        <3> QED BY <1>1, <3>1, <3>4 DEF AddingInv, NoCrash, NoDangling, tables
    <2>3. CASE ItemId(c) \notin sensors
        BY <1>4, <1>5, <1>11, <2>3 DEF ListItem, Answer
    <2> QED BY <2>2, <2>3
<1>12. CASE RejectItem(c)
    BY <1>4, <1>5, <1>12 DEF RejectItem, Answer
<1>13. CASE PutGroup(c)
    <2> DEFINE g == req[c].body.id
    <2>1. pc[c] = "item" /\ g \notin inGroups
        BY <1>2, <1>13 DEF PutGroup, AddingAt
    <2>2. /\ inGroups' = inGroups \cup {g} /\ freed' = freed /\ pc'[c] = "check"
          /\ list' = [list EXCEPT ![g] = built[c]]
          /\ UNCHANGED <<sensors, crashed, req, built, walk>>
        BY <1>4, <1>13, <2>1 DEF PutGroup, Goto
    <2>3. ASSUME NEW d \in Conns, d # c, pc[d] = "item" PROVE req[d].body.id # g
        <3>1. Adds(req[c]) /\ Adds(req[d]) /\ req[c] \in Requests[c] /\ req[d] \in Requests[d]
            BY <1>1, <2>1, <2>3, AddingRequest
        <3>2. req[c].op = "postGroup" /\ req[d].op = "postGroup"
            BY <1>1, <2>1, <2>3, <3>1 DEF TypeInv, Control, ControlAt, Adds, GroupOps
        <3> QED BY <2>3, <3>1, <3>2 DEF OnlyAdding, Apart
    <2>4. ASSUME NEW d \in Conns PROVE AddingAt(d)'
        <3>1. CASE d = c
            BY <1>2, <2>2, <3>1 DEF AddingAt
        <3>2. CASE d # c
            BY <1>3, <2>2, <2>3, <3>2 DEF AddingInv, AddingAt
        <3> QED BY <3>1, <3>2
    <2>5. \A h \in Groups : ToSet(list'[h]) \subseteq sensors'
        BY <1>2, <1>4, <2>2 DEF AddingInv, AddingAt
    <2> QED BY <1>1, <2>2, <2>4, <2>5 DEF AddingInv, NoCrash, NoDangling
<1>14. CASE EndRead(c)
    <2>1. /\ UNCHANGED <<tables, crashed, built, req>> /\ pc'[c] = "idle"
          /\ walk' = [walk EXCEPT ![c] = NoWalk]
        BY <1>4, <1>14 DEF EndRead, Answer
    <2>2. \A d \in Conns : AddingAt(d)'
        BY <1>2, <1>3, <2>1 DEF AddingInv, AddingAt, tables
    <2>3. \A t \in Threads : ~walk'[t].gone
        BY <1>4, <2>1 DEF AddingInv, NoWalk
    <2> QED BY <1>1, <2>1, <2>2, <2>3 DEF AddingInv, NoCrash, NoDangling, tables
<1>15. CASE DropItem(c)
    <2>1. pc[c] = "item" /\ k[c] \in DOMAIN req[c].body.items
             /\ req[c].body.items[k[c]].kind \in {"full", "badSettings", "badValue"}
        BY <1>15 DEF DropItem, AtItem
    <2>2. Adds(req[c]) /\ req[c].op \in GroupOps
        BY <1>1, <2>1, AddingRequest DEF TypeInv, Control, ControlAt
    <2> QED BY <2>1, <2>2 DEF Adds, GroupOps
<1>16. ~(\/ DeleteSensor(c) \/ EndDelete(c) \/ Unlist(c) \/ EndUnlist(c) \/ PutItem(c)
         \/ Rollback(c) \/ EndRollback(c) \/ DeleteGroup(c) \/ EndDeleteGroup(c))
    BY <1>2 DEF DeleteSensor, EndDelete, Unlist, EndUnlist, PutItem, Rollback, EndRollback,
                DeleteGroup, EndDeleteGroup
<1> QED BY <1>6, <1>7, <1>8, <1>9, <1>10, <1>11, <1>12, <1>13, <1>14, <1>15, <1>16 DEF Handler

\* So do the arrival of a request and the steps of the walks.
LEMMA AddingReceive ==
    ASSUME OnlyAdding, AddingInv, NEW c \in Conns, Receive(c)
    PROVE  AddingInv'
<1>1. TypeInv /\ TypeInv'
    BY TypeReceive DEF AddingInv
<1>2. /\ pc \in [Conns -> Pcs] /\ built \in [Conns -> Seq(Sensors)]
      /\ req \in [Conns -> Request] /\ walk \in [Threads -> Walk] /\ c \in Threads
    BY <1>1 DEF TypeInv, TypeOK, Threads
<1>3. PICK r \in Requests[c] :
        /\ req' = [req EXCEPT ![c] = r]
        /\ pc' = [pc EXCEPT ![c] = Entry(r.op)]
        /\ walk' = [walk EXCEPT ![c] = IF r.op = "getGroups" THEN AtHead(1) ELSE @]
    BY DEF Receive
<1>4. Entry(r.op) \in {"create", "subscribe", "read", "check"}
    BY DEF OnlyAdding, Adds, Entry
<1>5. /\ UNCHANGED <<tables, crashed>> /\ built'[c] = <<>> /\ pc'[c] = Entry(r.op)
    BY <1>2, <1>3 DEF Receive
<1>6. ToSet(<<>>) = {}
    BY DEF ToSet
<1>7. AddingAt(c)'
    BY <1>4, <1>5, <1>6 DEF AddingAt
<1>8. ASSUME NEW d \in Conns, d # c PROVE AddingAt(d)'
    BY <1>1, <1>5, <1>8, OthersStay DEF TypeInv, AddingInv, AddingAt, tables
<1>9. \A t \in Threads : ~walk'[t].gone
    BY <1>2, <1>3 DEF AddingInv, AtHead
<1> QED BY <1>1, <1>5, <1>7, <1>8, <1>9 DEF AddingInv, NoCrash, NoDangling, tables

LEMMA AddingWalkStep ==
    ASSUME AddingInv, NEW t \in Threads, WalkStep(t) \/ StartSweep \/ EndSweep
    PROVE  AddingInv'
<1>1. TypeInv /\ TypeInv'
    BY TypeWalk DEF AddingInv
<1>2. walk \in [Threads -> Walk] /\ Main \in Threads /\ ~walk[t].gone
    BY <1>1 DEF TypeInv, TypeOK, Threads, AddingInv
<1>3. /\ UNCHANGED <<tables, locals, crashed>>
      /\ \A u \in Threads : ~walk'[u].gone
    <2>1. CASE EnterGroup(t) \/ ReadEntry(t)
        BY <1>2, <2>1 DEF EnterGroup, ReadEntry, AddingInv, Walk
    <2>2. CASE SkipGroup(t) \/ LeaveGroup(t)
        BY <1>2, <2>2 DEF SkipGroup, LeaveGroup, AtHead, AddingInv
    <2>3. CASE StartSweep \/ EndSweep
        BY <1>2, <2>3 DEF StartSweep, EndSweep, AtHead, NoWalk, AddingInv
    <2> QED BY <2>1, <2>2, <2>3, AddingWalk DEF WalkStep
<1> QED BY <1>1, <1>3 DEF AddingInv, NoCrash, NoDangling, AddingAt, tables, locals

\* AddingInv holds of any number of clients that only add.
LEMMA AddingAlways == ASSUME OnlyAdding PROVE Spec => []AddingInv
<1>1. Init => AddingInv
    BY AddingInit
<1>2. AddingInv /\ [Next]_vars => AddingInv'
    <2> SUFFICES ASSUME AddingInv, [Next]_vars PROVE AddingInv'
        OBVIOUS
    <2>1. CASE UNCHANGED vars
        BY <2>1 DEF AddingInv, TypeInv, TypeOK, Control, ControlAt, NoCrash, NoDangling, AddingAt,
                    vars, tables, locals
    <2>2. ASSUME NEW c \in Conns, Accept(c) PROVE AddingInv'
        BY <2>2, AddingReceive DEF Accept
    <2>3. ASSUME NEW c \in Conns, Serve(c) PROVE AddingInv'
        BY <2>3, AddingHandler, AddingWalkStep DEF Serve, Threads
    <2>4. CASE Sweep
        BY <2>4, AddingWalkStep DEF Sweep, Threads
    <2>5. CASE Dead
        BY <2>1, <2>5 DEF Dead
    <2> QED BY <2>1, <2>2, <2>3, <2>4, <2>5 DEF Next
<1> QED BY <1>1, <1>2, PTL DEF Spec

\* NoCrash holds of any number of clients that only add, each creating ids of
\* its own: no step of GET sensorgroups or of the main loop meets a missing
\* sensor or a freed group, at any interleaving.
THEOREM AddingIsSafe == ASSUME OnlyAdding PROVE Spec => []NoCrash
<1>1. AddingInv => NoCrash
    BY DEF AddingInv
<1> QED BY <1>1, AddingAlways, PTL

\* So does NoDangling: such clients have ids of their own.
THEOREM AddingFreesNothing == ASSUME OnlyAdding PROVE Spec => []NoDangling
<1>1. OwnIds
    <2> SUFFICES ASSUME NEW c \in Conns, NEW d \in Conns, c # d,
                        NEW r \in Requests[c], NEW q \in Requests[d]
                 PROVE  /\ SensorsMade(r) \cap SensorsMade(q) = {}
                        /\ GroupsMade(r) \cap GroupsMade(q) = {}
        BY DEF OwnIds
    <2>1. Adds(r) /\ Adds(q) /\ Apart(c, d)
        BY DEF OnlyAdding
    <2>2. ASSUME NEW x, Adds(x)
          PROVE  /\ SensorsMade(x) = IF x.op = "postSensor" THEN {x.body.id} ELSE {}
                 /\ GroupsMade(x) = IF x.op = "postGroup" THEN {x.body.id} ELSE {}
        BY <2>2 DEF Adds, SensorsMade, GroupsMade, SensorOps, GroupOps
    <2> QED BY <2>1, <2>2 DEF Apart
<1> QED BY <1>1, OwnersFreeNothing

\* A handler of a request that only adds takes nothing out of the tables, and
\* leaves the lists of the groups that are there alone.
LEMMA AddingGrows ==
    ASSUME OnlyAdding, AddingInv, NEW c \in Conns, Handler(c)
    PROVE  /\ sensors \subseteq sensors' /\ inGroups \subseteq inGroups'
           /\ \A g \in inGroups : list'[g] = list[g]
<1>1. /\ pc[c] \in {"idle", "create", "put", "subscribe", "item", "check", "set", "read"}
      /\ AddingAt(c) /\ list \in [Groups -> Seq(Sensors)] /\ inGroups \subseteq Groups
    BY DEF AddingInv, AddingAt, TypeInv, TypeOK
<1>2. CASE PutSensor(c)
    BY <1>2 DEF PutSensor, Put
<1>3. CASE PutGroup(c)
    BY <1>1, <1>3 DEF PutGroup, AddingAt
<1>4. CASE DropItem(c)
    <2>1. pc[c] = "item" /\ k[c] \in DOMAIN req[c].body.items
             /\ req[c].body.items[k[c]].kind \in {"full", "badSettings", "badValue"}
        BY <1>4 DEF DropItem, AtItem
    <2>2. Adds(req[c]) /\ req[c].op \in GroupOps
        BY <2>1, AddingRequest DEF AddingInv, TypeInv, Control, ControlAt
    <2> QED BY <2>1, <2>2 DEF Adds, GroupOps
<1>5. CASE CreateSensor(c) \/ CheckStatus(c) \/ SetStatus(c) \/ BeginGroup(c) \/ ListItem(c)
           \/ RejectItem(c) \/ EndRead(c)
    BY <1>5 DEF CreateSensor, CheckStatus, SetStatus, BeginGroup, ListItem, RejectItem, EndRead,
                tables
<1>6. ~(\/ DeleteSensor(c) \/ EndDelete(c) \/ Unlist(c) \/ EndUnlist(c) \/ PutItem(c)
        \/ Rollback(c) \/ EndRollback(c) \/ DeleteGroup(c) \/ EndDeleteGroup(c))
    BY <1>1 DEF DeleteSensor, EndDelete, Unlist, EndUnlist, PutItem, Rollback, EndRollback,
                DeleteGroup, EndDeleteGroup
<1> QED BY <1>2, <1>3, <1>4, <1>5, <1>6 DEF Handler

\* What was done for a client, and that it asked to add something.
AddedAt(c) == DoneAt(c) /\ (reply[c] = "OK" => Adds(req[c]))

AddedInv == AddingInv /\ \A c \in Conns : AddedAt(c)

\* It stays done when another client adds something.
LEMMA AddedStays ==
    ASSUME AddingInv, NEW c \in Conns, AddedAt(c), OnlyAdding,
           sensors \subseteq sensors', inGroups \subseteq inGroups',
           \A g \in inGroups : list'[g] = list[g],
           pc'[c] = pc[c], req'[c] = req[c], k'[c] = k[c], built'[c] = built[c],
           reply'[c] = reply[c]
    PROVE  AddedAt(c)'
<1>1. /\ pc[c] \in {"idle", "create", "put", "subscribe", "item", "check", "set", "read"}
      /\ DoneAt(c)
    BY DEF AddingInv, AddingAt, AddedAt
<1>2. ASSUME Effect(c), Adds(req[c]) PROVE Effect(c)'
    <2>1. Subscribed(c) => Subscribed(c)'
        BY DEF Subscribed
    <2> QED BY <1>2, <2>1 DEF Effect, Adds
<1>3. pc[c] # "idle" => Adds(req[c])
    BY AddingRequest DEF AddingInv
<1>4. BuiltSoFar(c, sensors) => BuiltSoFar(c, sensors)'
    BY DEF BuiltSoFar
<1> QED BY <1>1, <1>2, <1>3, <1>4 DEF AddedAt, DoneAt

LEMMA AddedHandler ==
    ASSUME OnlyAdding, AddedInv, NEW c \in Conns, Handler(c)
    PROVE  AddedInv'
<1>1. AddingInv /\ AddingInv' /\ TypeInv
    BY AddingHandler DEF AddedInv, AddingInv
<1>2. AddedAt(c)'
    <2>1. DoneAt(c)'
        BY <1>1, DoneHandler DEF AddedInv, AddedAt, DoneInv
    <2>2. pc[c] # "idle" /\ req'[c] = req[c]
        BY <1>1 DEF Handler, CreateSensor, PutSensor, CheckStatus, SetStatus, DeleteSensor,
            EndDelete, Unlist, EndUnlist, BeginGroup, ListItem, RejectItem, DropItem, PutItem,
            Rollback, EndRollback, PutGroup, DeleteGroup, EndDeleteGroup, EndRead, AtItem, Goto,
            Answer
    <2> QED BY <1>1, <2>1, <2>2, AddingRequest DEF AddedAt
<1>3. ASSUME NEW d \in Conns, d # c PROVE AddedAt(d)'
    BY <1>1, <1>3, AddingGrows, OthersStay, AddedStays DEF AddedInv, TypeInv
<1> QED BY <1>1, <1>2, <1>3 DEF AddedInv

LEMMA AddedReceive ==
    ASSUME OnlyAdding, AddedInv, NEW c \in Conns, Receive(c)
    PROVE  AddedInv'
<1>1. AddingInv /\ AddingInv' /\ TypeInv
    BY AddingReceive DEF AddedInv, AddingInv
<1>2. AddedAt(c)'
    <2>1. DoneAt(c)'
        BY <1>1, DoneReceive DEF AddedInv, AddedAt, DoneInv
    <2>2. reply'[c] = "none"
        BY <1>1 DEF Receive, TypeInv, TypeOK
    <2> QED BY <2>1, <2>2 DEF AddedAt
<1>3. UNCHANGED tables
    BY DEF Receive
<1>4. ASSUME NEW d \in Conns, d # c PROVE AddedAt(d)'
    BY <1>1, <1>3, <1>4, OthersStay, AddedStays DEF AddedInv, TypeInv, tables
<1> QED BY <1>1, <1>2, <1>4 DEF AddedInv

\* And AckMeansDone: an OK to one of these clients stays true whatever the
\* others add meanwhile.
THEOREM AddingAckMeansDone == ASSUME OnlyAdding PROVE Spec => []AckMeansDone
<1>1. Init => AddedInv
    BY AddingInit DEF Init, AddedInv, AddedAt, DoneAt
<1>2. AddedInv /\ [Next]_vars => AddedInv'
    <2> SUFFICES ASSUME AddedInv, [Next]_vars PROVE AddedInv'
        OBVIOUS
    <2>1. ASSUME AddingInv', UNCHANGED <<tables, locals>> PROVE AddedInv'
        <3>1. ASSUME NEW c \in Conns PROVE AddedAt(c)'
            BY <2>1, AddedStays DEF AddedInv, tables, locals
        <3> QED BY <2>1, <3>1 DEF AddedInv
    <2>2. ASSUME NEW t \in Threads, WalkStep(t) \/ StartSweep \/ EndSweep PROVE AddedInv'
        BY <2>1, <2>2, AddingWalkStep, WalkFrame DEF AddedInv
    <2>3. ASSUME NEW c \in Conns, Accept(c) PROVE AddedInv'
        BY <2>3, AddedReceive DEF Accept
    <2>4. ASSUME NEW c \in Conns, Serve(c) PROVE AddedInv'
        BY <2>2, <2>4, AddedHandler DEF Serve, Threads
    <2>5. CASE Sweep
        BY <2>2, <2>5 DEF Sweep, Threads
    <2>6. CASE UNCHANGED vars
        <3>1. AddingInv'
            BY <2>6, TypeFrame DEF AddedInv, AddingInv, NoCrash, NoDangling, AddingAt, vars,
                                   tables, locals
        <3> QED BY <2>1, <2>6, <3>1 DEF vars
    <2> QED BY <2>3, <2>4, <2>5, <2>6 DEF Next, Dead
<1>3. AddedInv => AckMeansDone
    BY DEF AddedInv, AddedAt, DoneAt, AckMeansDone, Effect, Subscribed, SensorOps, GroupOps
<1> QED BY <1>1, <1>2, <1>3, PTL DEF Spec
=============================================================================
