----------------------------- MODULE RegistryMC -----------------------------
(* Requests for the model-checked instances of Registry.                   *)
EXTENDS Registry

CONSTANTS s1, s2, c1, c2

PostSensor(ids, valid) ==
    {[op |-> "postSensor", body |-> [id |-> s, valid |-> v]] : s \in ids, v \in valid}
DeleteSensors(queries) == {[op |-> "deleteSensor", query |-> q] : q \in queries}
PutSensors(queries, ids, valid) ==
    {[op |-> "putSensor", query |-> q, body |-> [id |-> s, valid |-> v]] :
        q \in queries, s \in ids, v \in valid}
PostGroups(ids, valid, lists) ==
    {[op |-> "postGroup", body |-> [id |-> g, valid |-> v, items |-> l]] :
        g \in ids, v \in valid, l \in lists}
DeleteGroups(queries) == {[op |-> "deleteGroup", query |-> q] : q \in queries}
PutGroups(queries, ids, lists) ==
    {[op |-> "putGroup", query |-> q, body |-> [id |-> g, valid |-> TRUE, items |-> l]] :
        q \in queries, g \in ids, l \in lists}
Plain(ops) == {[op |-> o] : o \in ops}

I(kind, s) == [kind |-> kind, id |-> s]
Singles(S) == {<<>>} \cup {<<x>> : x \in S}

-----------------------------------------------------------------------------
\* A client with one connection that names one sensor per DELETE or PUT, never
\* lists a sensor twice and sends full configurations only when they are right.
CarefulLists == {<<I("id", s1)>>, <<I("id", s1), I("id", s2)>>,
                 <<I("full", s2), I("id", s1)>>, <<I("full", s1), I("malformed", s2)>>}
CarefulRequests == [c \in Conns |->
    PostSensor(Sensors, {TRUE})
        \cup DeleteSensors(Singles(Sensors))
        \cup PutSensors({<<s1>>}, {s2}, BOOLEAN)
        \cup PostGroups(Groups, {TRUE}, CarefulLists)
        \cup PutGroups({<<1>>}, {2}, {<<I("full", s2), I("id", s1)>>})
        \cup DeleteGroups({<<1>>})
        \cup Plain({"start", "stop"})]

\* Anything a client may send over one connection.
AnyLists == {<<>>, <<I("id", s1), I("id", s1)>>, <<I("id", s1), I("full", s1)>>,
             <<I("full", s1), I("badValue", s2)>>, <<I("id", s2), I("badSettings", s1)>>,
             <<I("badValue", s1)>>, <<I("malformed", s2)>>}
AnyRequests == [c \in Conns |->
    PostSensor(Sensors, BOOLEAN)
        \cup DeleteSensors(Singles(Sensors) \cup {<<s1, s2>>, <<s2, s2>>})
        \cup PutSensors({<<>>, <<s2>>, <<s1, s2>>}, {s1}, BOOLEAN)
        \cup PostGroups(Groups, BOOLEAN, AnyLists)
        \cup PutGroups({<<>>, <<1>>}, {1}, {<<I("full", s1), I("badValue", s2)>>, <<I("id", s2)>>})
        \cup DeleteGroups(Singles(Groups) \cup {<<1, 1>>})
        \cup Plain({"getGroups", "start", "stop"})]

\* Clients that only add, each with ids of its own, and read and command.
AddingRequests == [c \in Conns |->
    PostSensor({IF c = c1 THEN s1 ELSE s2}, BOOLEAN)
        \cup PostGroups({IF c = c1 THEN 1 ELSE 2}, BOOLEAN,
                        {<<I("id", s1)>>, <<I("id", s2), I("id", s1)>>, <<I("id", s2), I("id", s2)>>})
        \cup Plain({"getGroups", "start", "stop"})]

\* One client whose DELETE names two sensors.
TwoIdRequests == [c \in Conns |->
    PostSensor(Sensors, {TRUE})
        \cup PostGroups({1}, {TRUE}, {<<I("id", s1), I("id", s2)>>})
        \cup DeleteSensors({<<s1, s2>>})]
=============================================================================
