----------------------------- MODULE ServiceMC ------------------------------
(* Command lines and requests for the model-checked instance of Service.   *)
EXTENDS Service

CONSTANTS c1, c2, null

Word(options) == [options |-> options, eq |-> FALSE, empty |-> FALSE]
Assign(options, empty) == [options |-> options, eq |-> TRUE, empty |-> empty]
EmptyWord == [options |-> {}, eq |-> FALSE, empty |-> TRUE]

\* Each kind of argument alone, and with another one before and behind it.
Arguments == {Word({"help"}), Word({"name"}), Word({"config"}), Word({}), EmptyWord,
              Assign({"name", "config"}, FALSE), Assign({"config"}, FALSE),
              Assign({"name"}, TRUE)}
CommandLines == UNION {[1 .. n -> Arguments] : n \in 0 .. 3}

-----------------------------------------------------------------------------
Can(id, list) == [complete |-> TRUE, id |-> id, type |-> "can", settings |-> list]
Incomplete == [Can("b", <<>>) EXCEPT !.complete = FALSE]

Ask(method, url) ==
    [method |-> method, url |-> url, query |-> <<>>, chunks |-> 0, json |-> FALSE,
     body |-> Incomplete]
Send(method, url, chunks) ==
    [Ask(method, url) EXCEPT !.chunks = chunks, !.json = TRUE]

\* Slashes too many in front, in the middle and at the end of a URL.
Doubled(url) == <<Slash, Slash, Slash>> \o Tail(url)
Closed(url)  == url \o <<Slash>>

Ids == <<[key |-> "id", value |-> "s1"], [key |-> "other", value |-> "x"],
         [key |-> "id", value |-> "s2"]>>

Key(k, v) == [key |-> k, value |-> v]
CanBodies == {
    Can("a", <<Key("bitrate", 1), Key("canport", "can2")>>),
    Can("b", <<Key("canport", "can1"), Key("canport", "can1")>>),
    Can("b", <<Key("bitrate", 2), Key("bitrate", 2)>>)}
Unknown    == Can("b", <<Key("canport", "can1"), Key("none", null)>>)
PutCan(body) ==
    [Send("PUT", Specific \o Connection, 1) EXCEPT !.body = body]

\* One connection changes the CAN connection that the other one reads.
Two == {c1, c2}
CanPlan == [c \in Two |->
    IF c = c1 THEN {PutCan(b) : b \in CanBodies} ELSE {Ask("GET", Specific \o Connection)}]

\* One connection creates and deletes sensors; the other one asks for anything,
\* and commands.
AnyPlan == [c \in Two |->
    IF c = c1
    THEN {Send("POST", Specific \o SensorsConf, 2),
          [Ask("DELETE", Doubled(Specific) \o SensorsConf) EXCEPT !.query = Ids]}
    ELSE {Ask("GET", Doubled(Ping)), Ask("GET", Closed(Info)), Ask("GET", Specific \o AgentStatus),
          Ask("POST", Status), Ask("GET", Status), Ask("GET", <<Slash, "adms", Slash, "v2">>),
          Ask("GET", <<Slash>>), Ask("GET", <<Slash, Slash>>), Ask("PATCH", <<>>),
          Send("PUT", Specific \o CmdExecute, 1), Ask("PUT", Specific \o Setup)}]

\* Both change the CAN connection at once, to no good.
OddPlan == [c \in Two |-> {PutCan(IF c = c1 THEN Unknown ELSE Incomplete)}]

ThreePlans == {CanPlan, AnyPlan, OddPlan}
=============================================================================
