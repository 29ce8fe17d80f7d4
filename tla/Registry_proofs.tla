--------------------------- MODULE Registry_proofs ---------------------------
(***************************************************************************)
(* Theorems about Registry, for any sensors, groups and connections.       *)
(***************************************************************************)
EXTENDS Registry, DataLemmas

SensorOps == {"postSensor", "putSensor"}
GroupOps  == {"postGroup", "putGroup"}

(* Which requests a handler can be serving at its steps.                   *)
ControlAt(c) ==
    /\ pc[c] \in {"create", "put"} => req[c].op \in SensorOps
    /\ pc[c] \in {"delete", "unlist"} => req[c].op \in {"putSensor", "deleteSensor"}
    /\ pc[c] \in {"subscribe", "item", "itemPut", "rollback"} => req[c].op \in GroupOps
    /\ pc[c] = "unsubscribe" => req[c].op \in {"putGroup", "deleteGroup"}
    /\ pc[c] = "itemPut" => k[c] \in DOMAIN req[c].body.items
    /\ pc[c] # "idle" => req[c] \in Requests[c]

Control == \A c \in Conns : ControlAt(c)
TypeInv == TypeOK /\ Control

\* The fields a request has, by its operation.
LEMMA RequestFields ==
    ASSUME NEW r \in Request
    PROVE  /\ r.op \in {"postSensor", "putSensor", "deleteSensor", "postGroup",
                        "putGroup", "deleteGroup", "getGroups", "start", "stop"}
           /\ r.op \in SensorOps => r.body.id \in Sensors
           /\ r.op \in GroupOps => /\ r.body.id \in Groups
                                   /\ r.body.items \in Seq(Item)
           /\ r.op \in {"putSensor", "deleteSensor"} => r.query \in Seq(Sensors)
           /\ r.op \in {"putGroup", "deleteGroup"} => r.query \in Seq(Groups)
<1>1. CASE r \in SensorRequest
    BY <1>1 DEF SensorRequest, SensorBody, SensorOps, GroupOps
<1>2. CASE r \in GroupRequest
    BY <1>2 DEF GroupRequest, GroupBody, SensorOps, GroupOps
<1>3. CASE r \in PlainRequest
    BY <1>3 DEF PlainRequest, SensorOps, GroupOps
<1> QED BY <1>1, <1>2, <1>3 DEF Request

\* TypeOK and Control hold initially.
LEMMA TypeInit == Init => TypeInv
<1> SUFFICES ASSUME Init PROVE TypeInv
    OBVIOUS
<1>1. [op |-> "getGroups"] \in Request
    BY DEF Request, PlainRequest
<1>2. NoWalk \in Walk
    BY RegistryAssumption DEF NoWalk, Walk
<1>3. TypeOK
    <2> USE DEF Init
    <2>1. list \in [Groups -> Seq(Sensors)] /\ built \in [Conns -> Seq(Sensors)]
        OBVIOUS
    <2>2. walk \in [Threads -> Walk] /\ req \in [Conns -> Request]
        BY <1>1, <1>2
    <2>3. pc \in [Conns -> Pcs] /\ status \in Statuses
        BY DEF Pcs, Statuses
    <2> QED BY <2>1, <2>2, <2>3 DEF TypeOK
<1>4. Control
    BY DEF Init, Control, ControlAt
<1> QED BY <1>3, <1>4 DEF TypeInv

\* A step of a handler leaves the other handlers where they are.
LEMMA OthersStay ==
    ASSUME TypeOK, NEW c \in Conns, Handler(c) \/ Receive(c), NEW d \in Conns, d # c
    PROVE  /\ pc'[d] = pc[d] /\ req'[d] = req[d] /\ k'[d] = k[d] /\ built'[d] = built[d]
           /\ reply'[d] = reply[d]
<1> USE DEF TypeOK
<1>1. CASE CreateSensor(c)
    BY <1>1 DEF CreateSensor, Goto, Answer, SetK, AddItem, locals
<1>2. CASE PutSensor(c)
    BY <1>2 DEF PutSensor, Goto, Answer, SetK, AddItem, locals
<1>3. CASE CheckStatus(c)
    BY <1>3 DEF CheckStatus, Goto, Answer, SetK, AddItem, locals
<1>4. CASE SetStatus(c)
    BY <1>4 DEF SetStatus, Goto, Answer, SetK, AddItem, locals
<1>5. CASE DeleteSensor(c)
    BY <1>5 DEF DeleteSensor, Goto, Answer, SetK, AddItem, locals
<1>6. CASE EndDelete(c)
    BY <1>6 DEF EndDelete, Goto, Answer, SetK, AddItem, locals
<1>7. CASE Unlist(c)
    BY <1>7 DEF Unlist, Goto, Answer, SetK, AddItem, locals
<1>8. CASE EndUnlist(c)
    BY <1>8 DEF EndUnlist, Goto, Answer, SetK, AddItem, locals
<1>9. CASE BeginGroup(c)
    BY <1>9 DEF BeginGroup, Goto, Answer, SetK, AddItem, locals
<1>10. CASE ListItem(c)
    BY <1>10 DEF ListItem, Goto, Answer, SetK, AddItem, locals, AtItem
<1>11. CASE RejectItem(c)
    BY <1>11 DEF RejectItem, Goto, Answer, SetK, AddItem, locals, AtItem
<1>12. CASE DropItem(c)
    BY <1>12 DEF DropItem, Goto, Answer, SetK, AddItem, locals, AtItem, Item, ItemKinds
<1>13. CASE PutItem(c)
    BY <1>13 DEF PutItem, Goto, Answer, SetK, AddItem, locals
<1>14. CASE Rollback(c)
    BY <1>14 DEF Rollback, Goto, Answer, SetK, AddItem, locals
<1>15. CASE EndRollback(c)
    BY <1>15 DEF EndRollback, Goto, Answer, SetK, AddItem, locals
<1>16. CASE PutGroup(c)
    BY <1>16 DEF PutGroup, Goto, Answer, SetK, AddItem, locals
<1>17. CASE DeleteGroup(c)
    BY <1>17 DEF DeleteGroup, Goto, Answer, SetK, AddItem, locals
<1>18. CASE EndDeleteGroup(c)
    BY <1>18 DEF EndDeleteGroup, Goto, Answer, SetK, AddItem, locals
<1>19. CASE EndRead(c)
    BY <1>19 DEF EndRead, Goto, Answer, SetK, AddItem, locals
<1>20. CASE Receive(c)
    BY <1>20 DEF Receive, Goto, Answer, SetK, AddItem, locals
<1> QED BY <1>1, <1>2, <1>3, <1>4, <1>5, <1>6, <1>7, <1>8, <1>9, <1>10, <1>11, <1>12, <1>13, <1>14, <1>15, <1>16, <1>17, <1>18, <1>19, <1>20 DEF Handler

\* Every step of a handler keeps Control.
LEMMA ControlHandler ==
    ASSUME TypeInv, NEW c \in Conns, Handler(c)
    PROVE  Control'
<1>1. ControlAt(c) /\ req[c] \in Request /\ pc \in [Conns -> Pcs] /\ k \in [Conns -> Nat]
         /\ req \in [Conns -> Request]
    BY DEF TypeInv, TypeOK, Control
<1>2. ControlAt(c)'
    <2> USE <1>1 DEF ControlAt
    <2>1. CASE CreateSensor(c)
        BY <2>1, RequestFields DEF CreateSensor, Goto, Answer, SetK, AddItem, SensorOps, GroupOps, locals
    <2>2. CASE PutSensor(c)
        BY <2>2, RequestFields DEF PutSensor, Goto, Answer, SetK, AddItem, SensorOps, GroupOps, locals
    <2>3. CASE CheckStatus(c)
        BY <2>3, RequestFields DEF CheckStatus, Goto, Answer, SetK, AddItem, SensorOps, GroupOps, locals
    <2>4. CASE SetStatus(c)
        BY <2>4, RequestFields DEF SetStatus, Goto, Answer, SetK, AddItem, SensorOps, GroupOps, locals
    <2>5. CASE DeleteSensor(c)
        BY <2>5, RequestFields DEF DeleteSensor, Goto, Answer, SetK, AddItem, SensorOps, GroupOps, locals
    <2>6. CASE EndDelete(c)
        BY <2>6, RequestFields DEF EndDelete, Goto, Answer, SetK, AddItem, SensorOps, GroupOps, locals
    <2>7. CASE Unlist(c)
        BY <2>7, RequestFields DEF Unlist, Goto, Answer, SetK, AddItem, SensorOps, GroupOps, locals
    <2>8. CASE EndUnlist(c)
        BY <2>8, RequestFields DEF EndUnlist, Goto, Answer, SetK, AddItem, SensorOps, GroupOps, locals
    <2>9. CASE BeginGroup(c)
        BY <2>9, RequestFields DEF BeginGroup, Goto, Answer, SetK, AddItem, SensorOps, GroupOps, locals
    <2>10. CASE ListItem(c)
        BY <2>10, RequestFields DEF ListItem, Goto, Answer, SetK, AddItem, SensorOps, GroupOps, locals, AtItem
    <2>11. CASE RejectItem(c)
        BY <2>11, RequestFields DEF RejectItem, Goto, Answer, SetK, AddItem, SensorOps, GroupOps, locals, AtItem
    <2>12. CASE DropItem(c)
        BY <2>12, RequestFields DEF DropItem, Goto, Answer, SetK, AddItem, SensorOps, GroupOps, locals, AtItem, Item, ItemKinds
    <2>13. CASE PutItem(c)
        BY <2>13, RequestFields DEF PutItem, Goto, Answer, SetK, AddItem, SensorOps, GroupOps, locals
    <2>14. CASE Rollback(c)
        BY <2>14, RequestFields DEF Rollback, Goto, Answer, SetK, AddItem, SensorOps, GroupOps, locals
    <2>15. CASE EndRollback(c)
        BY <2>15, RequestFields DEF EndRollback, Goto, Answer, SetK, AddItem, SensorOps, GroupOps, locals
    <2>16. CASE PutGroup(c)
        BY <2>16, RequestFields DEF PutGroup, Goto, Answer, SetK, AddItem, SensorOps, GroupOps, locals
    <2>17. CASE DeleteGroup(c)
        BY <2>17, RequestFields DEF DeleteGroup, Goto, Answer, SetK, AddItem, SensorOps, GroupOps, locals
    <2>18. CASE EndDeleteGroup(c)
        BY <2>18, RequestFields DEF EndDeleteGroup, Goto, Answer, SetK, AddItem, SensorOps, GroupOps, locals
    <2>19. CASE EndRead(c)
        BY <2>19, RequestFields DEF EndRead, Goto, Answer, SetK, AddItem, SensorOps, GroupOps, locals
    <2> QED BY <2>1, <2>2, <2>3, <2>4, <2>5, <2>6, <2>7, <2>8, <2>9, <2>10, <2>11, <2>12, <2>13, <2>14, <2>15, <2>16, <2>17, <2>18, <2>19 DEF Handler
<1>3. ASSUME NEW d \in Conns, d # c PROVE ControlAt(d)'
    BY <1>3, OthersStay DEF TypeInv, Control, ControlAt
<1> QED BY <1>2, <1>3 DEF Control

\* The walks a thread can be at.
LEMMA WalkHeads == NoWalk \in Walk /\ \A b \in 1 .. NGroups + 1 : AtHead(b) \in Walk
BY RegistryAssumption DEF NoWalk, AtHead, Walk

LEMMA WalkFields ==
    ASSUME NEW w \in Walk, NEW l \in Seq(Sensors)
    PROVE  /\ w.at \in 0 .. NGroups + 1 /\ w.entry \in Nat
           /\ w.gone \in BOOLEAN /\ w.list \in Seq(Sensors)
           /\ [w EXCEPT !.entry = 1] \in Walk
           /\ [w EXCEPT !.entry = @ + 1] \in Walk
           /\ [w EXCEPT !.gone = TRUE, !.list = l] \in Walk
<1>1. /\ w.at \in 0 .. NGroups + 1 /\ w.entry \in Nat
      /\ w.gone \in BOOLEAN /\ w.list \in Seq(Sensors)
    BY DEF Walk
<1>2. [w EXCEPT !.entry = 1] \in Walk
    BY DEF Walk
<1>3. [w EXCEPT !.entry = @ + 1] \in Walk
    BY <1>1 DEF Walk
<1>4. [w EXCEPT !.gone = TRUE, !.list = l] \in Walk
    BY DEF Walk
<1> QED BY <1>1, <1>2, <1>3, <1>4

\* The item a handler looks at names a sensor.
LEMMA ItemType ==
    ASSUME TypeInv, NEW c \in Conns, pc[c] \in {"item", "itemPut"},
           k[c] \in DOMAIN req[c].body.items
    PROVE  ItemId(c) \in Sensors
<1>1. req[c].body.items \in Seq(Item)
    BY RequestFields DEF TypeInv, TypeOK, Control, ControlAt
<1>2. req[c].body.items[k[c]] \in Item
    BY <1>1
<1> QED BY <1>2 DEF Item, ItemId

\* What a handler may do to its loop index and to the list it builds.
LEMMA CounterType ==
    ASSUME NEW f \in [Conns -> Nat], NEW c \in Conns
    PROVE  [f EXCEPT ![c] = 1] \in [Conns -> Nat] /\ [f EXCEPT ![c] = f[c] + 1] \in [Conns -> Nat]
OBVIOUS

LEMMA BuiltType ==
    ASSUME NEW f \in [Conns -> Seq(Sensors)], NEW c \in Conns, NEW s \in Sensors
    PROVE  [f EXCEPT ![c] = Append(f[c], s)] \in [Conns -> Seq(Sensors)]
OBVIOUS

\* Every step of a handler keeps TypeOK.
LEMMA TypeHandler ==
    ASSUME TypeInv, NEW c \in Conns, Handler(c)
    PROVE  TypeOK'
<1> USE DEF TypeInv, TypeOK, tables, locals, Goto, Answer, SetK
<1>r. ControlAt(c) /\ req[c] \in Request
    BY DEF Control
<1>k. k \in [Conns -> Nat]
    OBVIOUS
<1>b. built \in [Conns -> Seq(Sensors)]
    OBVIOUS
<1>1. CASE CreateSensor(c)
    BY <1>1, <1>r, RequestFields DEF CreateSensor, Pcs, ControlAt
<1>2. CASE PutSensor(c)
    BY <1>2, <1>r, RequestFields DEF PutSensor, Pcs, ControlAt, Put
<1>3. CASE CheckStatus(c)
    BY <1>3, <1>r, RequestFields DEF CheckStatus, Pcs, ControlAt
<1>4. CASE SetStatus(c)
    BY <1>4, <1>r, RequestFields DEF SetStatus, Pcs, ControlAt, Statuses
<1>5. CASE EndUnlist(c)
    BY <1>5, <1>r, RequestFields DEF EndUnlist, Pcs, ControlAt
<1>6. CASE RejectItem(c)
    BY <1>6, <1>r, RequestFields DEF RejectItem, Pcs, ControlAt, AtItem
<1>7. CASE DropItem(c)
    BY <1>7, <1>r, RequestFields DEF DropItem, Pcs, ControlAt, AtItem, ItemKinds, ItemId, Delete
<1>8. CASE EndRollback(c)
    BY <1>8, <1>r, RequestFields DEF EndRollback, Pcs, ControlAt
<1>9. CASE EndDeleteGroup(c)
    BY <1>9, <1>r, RequestFields DEF EndDeleteGroup, Pcs, ControlAt
<1>10. CASE Unlist(c)
    <2>1. RemoveFirst(list[k[c]], Last(req[c].query)) \in Seq(Sensors) \/ k[c] \notin Groups
        BY RemoveFirstType
    <2>2. list' \in [Groups -> Seq(Sensors)]
        BY <1>10, <2>1 DEF Unlist
    <2> QED BY <1>10, <2>2 DEF Unlist
<1>11. CASE ListItem(c)
    <2>1. ItemId(c) \in Sensors
        BY <1>11, ItemType DEF ListItem, AtItem
    <2>2. built' \in [Conns -> Seq(Sensors)] /\ k' \in [Conns -> Nat]
        <3> HIDE DEF TypeInv, TypeOK
        <3>1. \/ k' = k /\ built' = built
              \/ /\ k' = [k EXCEPT ![c] = k[c] + 1]
                 /\ built' = [built EXCEPT ![c] = Append(built[c], ItemId(c))]
            BY <1>11 DEF ListItem, AddItem
        <3>2. k' \in [Conns -> Nat]
            BY <1>k, <3>1, CounterType
        <3>3. [built EXCEPT ![c] = Append(built[c], ItemId(c))] \in [Conns -> Seq(Sensors)]
            BY <1>b, <2>1, BuiltType
        <3>4. built' \in [Conns -> Seq(Sensors)]
            BY <1>b, <3>1, <3>3
        <3> QED BY <3>2, <3>4
    <2> QED BY <1>11, <2>2 DEF ListItem, Pcs
<1>12. CASE PutItem(c)
    <2>1. ItemId(c) \in Sensors
        BY <1>12, <1>r, ItemType DEF PutItem, ControlAt
    <2>2. built' \in [Conns -> Seq(Sensors)] /\ k' \in [Conns -> Nat]
        BY <1>12, <2>1 DEF PutItem, AddItem
    <2>3. sensors' \subseteq Sensors /\ freed' \subseteq Sensors \cup Groups
        BY <1>12, <2>1 DEF PutItem, Put
    <2> QED BY <1>12, <2>2, <2>3 DEF PutItem, Pcs
<1>13. CASE Rollback(c)
    BY <1>13 DEF Rollback, Delete
<1>14. CASE PutGroup(c)
    <2>1. req[c].body.id \in Groups
        BY <1>14, <1>r, RequestFields DEF PutGroup, ControlAt
    <2>2. /\ list' \in [Groups -> Seq(Sensors)]
          /\ inGroups' \subseteq Groups /\ freed' \subseteq Sensors \cup Groups
        BY <1>14, <2>1 DEF PutGroup
    <2> QED BY <1>14, <2>2 DEF PutGroup, Pcs
<1>15. CASE DeleteGroup(c)
    <2> DEFINE g == req[c].query[k[c]]
    <2>1. g \in Groups
        BY <1>15, <1>r, RequestFields DEF DeleteGroup, ControlAt
    <2>2. walk' \in [Threads -> Walk]
        <3>1. ASSUME NEW t \in Threads
              PROVE  [walk[t] EXCEPT !.gone = TRUE, !.list = list[g]] \in Walk
            BY <2>1, WalkFields
        <3>2. Detach(g) => walk' \in [Threads -> Walk]
            BY <3>1 DEF Detach
        <3> QED BY <1>15, <3>2 DEF DeleteGroup
    <2>k. k' \in [Conns -> Nat]
        <3> HIDE DEF TypeInv, TypeOK
        <3>1. k' = k \/ k' = [k EXCEPT ![c] = k[c] + 1]
            BY <1>15 DEF DeleteGroup
        <3> QED BY <1>k, <3>1, CounterType
    <2>3. /\ inGroups' \subseteq Groups /\ freed' \subseteq Sensors \cup Groups
          /\ pc' \in [Conns -> Pcs]
          /\ reply' \in [Conns -> {"none", "OK", "ERROR"}] /\ req' = req
        BY <1>15 DEF DeleteGroup, Pcs
    <2> QED BY <1>15, <2>k, <2>2, <2>3 DEF DeleteGroup
<1>16. CASE EndRead(c)
    <2>2. walk' \in [Threads -> Walk]
        BY <1>16, WalkHeads DEF EndRead
    <2> QED BY <1>16, <2>2 DEF EndRead, Pcs
<1>17. CASE DeleteSensor(c)
    <2>1. k' \in [Conns -> Nat]
        <3> HIDE DEF TypeInv, TypeOK
        <3>1. k' = k \/ k' = [k EXCEPT ![c] = 1] \/ k' = [k EXCEPT ![c] = k[c] + 1]
            BY <1>17 DEF DeleteSensor
        <3> QED BY <1>k, <3>1, CounterType
    <2>2. pc' \in [Conns -> Pcs] /\ reply' \in [Conns -> {"none", "OK", "ERROR"}] /\ req' = req
        BY <1>17 DEF DeleteSensor, Pcs
    <2>3. sensors' \subseteq Sensors /\ freed' \subseteq Sensors \cup Groups
        BY <1>17 DEF DeleteSensor, Delete
    <2> QED BY <1>17, <2>1, <2>2, <2>3 DEF DeleteSensor
<1>18. CASE EndDelete(c)
    <2>1. k' \in [Conns -> Nat]
        <3> HIDE DEF TypeInv, TypeOK
        <3>1. k' = k \/ k' = [k EXCEPT ![c] = 1] \/ k' = [k EXCEPT ![c] = k[c] + 1]
            BY <1>18 DEF EndDelete
        <3> QED BY <1>k, <3>1, CounterType
    <2>2. pc' \in [Conns -> Pcs] /\ reply' \in [Conns -> {"none", "OK", "ERROR"}] /\ req' = req
        BY <1>18 DEF EndDelete, Pcs
    <2>3. sensors' \subseteq Sensors /\ freed' \subseteq Sensors \cup Groups
        BY <1>18 DEF EndDelete
    <2> QED BY <1>18, <2>1, <2>2, <2>3 DEF EndDelete
<1>19. CASE BeginGroup(c)
    <2>1. k' \in [Conns -> Nat]
        <3> HIDE DEF TypeInv, TypeOK
        <3>1. k' = k \/ k' = [k EXCEPT ![c] = 1] \/ k' = [k EXCEPT ![c] = k[c] + 1]
            BY <1>19 DEF BeginGroup
        <3> QED BY <1>k, <3>1, CounterType
    <2>2. pc' \in [Conns -> Pcs] /\ reply' \in [Conns -> {"none", "OK", "ERROR"}] /\ req' = req
        BY <1>19 DEF BeginGroup, Pcs
    <2>3. sensors' \subseteq Sensors /\ freed' \subseteq Sensors \cup Groups
        BY <1>19 DEF BeginGroup
    <2> QED BY <1>19, <2>1, <2>2, <2>3 DEF BeginGroup
<1> QED BY <1>1, <1>2, <1>3, <1>4, <1>5, <1>6, <1>7, <1>8, <1>9, <1>10, <1>11, <1>12, <1>13, <1>14, <1>15, <1>16, <1>17, <1>18, <1>19 DEF Handler

\* So do the arrival of a request and the steps of a walk.
LEMMA TypeReceive ==
    ASSUME TypeInv, NEW c \in Conns, Receive(c)
    PROVE  TypeInv'
<1>1. PICK r \in Requests[c] :
        /\ req' = [req EXCEPT ![c] = r]
        /\ pc' = [pc EXCEPT ![c] = Entry(r.op)]
        /\ walk' = [walk EXCEPT ![c] = IF r.op = "getGroups" THEN AtHead(1) ELSE @]
    BY DEF Receive
<1>2. r \in Request /\ r.op \in {"postSensor", "putSensor", "deleteSensor", "postGroup",
                                 "putGroup", "deleteGroup", "getGroups", "start", "stop"}
    BY RegistryAssumption, RequestFields
<1>3. Entry(r.op) \in Pcs
    BY <1>2 DEF Entry, Pcs
<1>4. AtHead(1) \in Walk
    BY RegistryAssumption DEF AtHead, Walk
<1>5. TypeOK'
    <2> USE DEF TypeInv, TypeOK, tables
    <2>1. walk' \in [Threads -> Walk]
        BY <1>1, <1>4
    <2>2. req' \in [Conns -> Request] /\ pc' \in [Conns -> Pcs]
        BY <1>1, <1>2, <1>3
    <2> QED BY <2>1, <2>2 DEF Receive, SetK
<1>6. ControlAt(c)'
    BY <1>1, <1>2 DEF TypeInv, TypeOK, ControlAt, Entry, SensorOps, GroupOps
<1>7. ASSUME NEW d \in Conns, d # c PROVE ControlAt(d)'
    BY <1>7, OthersStay DEF TypeInv, Control, ControlAt
<1> QED BY <1>5, <1>6, <1>7 DEF TypeInv, Control

LEMMA TypeWalk ==
    ASSUME TypeInv, NEW t \in Threads, WalkStep(t) \/ StartSweep \/ EndSweep
    PROVE  TypeInv'
<1>1. UNCHANGED <<sensors, inGroups, list, freed, status, pc, req, k, built, reply>>
    BY DEF WalkStep, EnterGroup, SkipGroup, ReadEntry, LeaveGroup, ReadMissing, TouchFreed,
           StartSweep, EndSweep, tables, locals
<1>2. Control'
    BY <1>1 DEF TypeInv, Control, ControlAt
<1>3. crashed' \in BOOLEAN
    BY DEF TypeInv, TypeOK, WalkStep, EnterGroup, SkipGroup, ReadEntry, LeaveGroup, ReadMissing,
           TouchFreed, StartSweep, EndSweep
<1>4. walk' \in [Threads -> Walk]
    <2>0. walk \in [Threads -> Walk] /\ NGroups \in Nat
        BY RegistryAssumption DEF TypeInv, TypeOK
    <2>1. /\ walk[t].at \in 0 .. NGroups + 1
          /\ [walk[t] EXCEPT !.entry = 1] \in Walk
          /\ [walk[t] EXCEPT !.entry = walk[t].entry + 1] \in Walk
        <3>1. walk[t] \in Walk /\ <<>> \in Seq(Sensors)
            BY <2>0
        <3> QED BY <3>1, WalkFields
    <2>2. CASE EnterGroup(t)
        BY <2>0, <2>1, <2>2 DEF EnterGroup
    <2>3. CASE SkipGroup(t)
        <3>1. AtHead(walk[t].at + 1) \in Walk
            BY <2>0, <2>3, WalkHeads DEF SkipGroup, Groups
        <3> QED BY <2>0, <2>3, <3>1 DEF SkipGroup
    <2>4. CASE ReadEntry(t)
        BY <2>0, <2>1, <2>4 DEF ReadEntry
    <2>5. CASE LeaveGroup(t)
        <3>1. AtHead(walk[t].at + 1) \in Walk
            BY <2>0, <2>5, WalkHeads DEF LeaveGroup, Reading, Groups
        <3> QED BY <2>0, <2>5, <3>1 DEF LeaveGroup
    <2>6. CASE ReadMissing(t) \/ TouchFreed(t)
        BY <2>0, <2>6 DEF ReadMissing, TouchFreed
    <2>7. CASE StartSweep
        <3>1. AtHead(1) \in Walk
            BY <2>0, WalkHeads
        <3> QED BY <2>0, <2>7, <3>1 DEF StartSweep
    <2>8. CASE EndSweep
        BY <2>0, <2>8, WalkHeads DEF EndSweep
    <2> QED BY <2>2, <2>3, <2>4, <2>5, <2>6, <2>7, <2>8 DEF WalkStep
<1> QED BY <1>1, <1>2, <1>3, <1>4 DEF TypeInv, TypeOK

\* TypeOK holds of any number of connections: no walk leaves the table, no loop
\* of a handler the items, queries and buckets it runs over. With it goes
\* Control: a handler is at a step of the operation it serves.
THEOREM TypeCorrect == Spec => []TypeOK
<1>1. Init => TypeInv
    BY TypeInit
<1>2. TypeInv /\ [Next]_vars => TypeInv'
    <2> SUFFICES ASSUME TypeInv, [Next]_vars PROVE TypeInv'
        OBVIOUS
    <2>1. CASE UNCHANGED vars
        BY <2>1 DEF TypeInv, TypeOK, Control, ControlAt, vars, tables, locals
    <2>2. ASSUME NEW c \in Conns, Accept(c) PROVE TypeInv'
        BY <2>2, TypeReceive DEF Accept
    <2>3. ASSUME NEW c \in Conns, Serve(c) PROVE TypeInv'
        BY <2>3, TypeHandler, ControlHandler, TypeWalk DEF Serve, TypeInv, Threads
    <2>4. CASE Sweep
        BY <2>4, TypeWalk DEF Sweep, Threads
    <2>5. CASE Dead
        BY <2>1, <2>5 DEF Dead
    <2> QED BY <2>1, <2>2, <2>3, <2>4, <2>5 DEF Next
<1>3. TypeInv => TypeOK
    BY DEF TypeInv
<1> QED BY <1>1, <1>2, <1>3, PTL DEF Spec
=============================================================================
