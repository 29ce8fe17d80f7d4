------------------------------ MODULE Monitor -------------------------------
(***************************************************************************)
(* The life of the process: main() from the start of its REST server to    *)
(* its exit, the REST handlers, the callback of the MQTT client and the    *)
(* signal handler. They share status, restart_mqtt, restart_http, the      *)
(* broker settings and the tables, without any lock: a step reads or       *)
(* writes one of them.                                                     *)
(*                                                                         *)
(* Broker settings and REST ports are numbered in the order in which       *)
(* clients ask for them; 0 stands for those of the start.                  *)
(***************************************************************************)
EXTENDS Integers

CONSTANTS
    Conns,      \* connections, i.e. handler threads
    Worlds,     \* the surroundings the monitor may find itself in, see World
    MaxSetups,  \* bound: changes of the broker that clients ask for
    MaxMoves,   \* bound: changes of the REST port that clients ask for
    MaxLost,    \* bound: connections to the broker that get lost
    MaxFails    \* bound: attempts to connect that fail

AllOps == {"create", "read", "start", "stop", "setupMqtt", "setupHttp"}

\* Whether one thing comes at a time, see Undisturbed; what clients ask for;
\* how many changes and faults there are at most.
World == [calm : BOOLEAN, ops : SUBSET AllOps, setups : 0 .. MaxSetups,
          moves : 0 .. MaxMoves, lost : 0 .. MaxLost, fails : 0 .. MaxFails]

ASSUME MonitorAssumption ==
    /\ {MaxSetups, MaxMoves, MaxLost, MaxFails} \subseteq Nat
    /\ Worlds \subseteq World

VARIABLES
    world,        \* the surroundings, which stay as they are
    status,       \* the global status
    flags,        \* the requests for a restart: restart_mqtt # 0, restart_http # 0
    settings,     \* the broker's host and port, mqtt_qos, rest_server_port
    tables,       \* both tables
    client,       \* mqtt_client: the broker it was made for, and whether connected
    announced,    \* the last discovery: the broker it went to, what it says
    server,       \* the REST server: its state and its port
    own,          \* service->daemon points to that server
    process,
    mpc,          \* where main() is
    mqttQoS,      \* the parameter of initialize_mqtt
    cb,           \* where connlost() is
    pc,           \* where each handler is
    req,          \* the request it serves, or served last
    saved,        \* its old_status
    asked,        \* how often clients asked for a change, and the faults so far
    told,         \* the last start or stop answered OK
    acked,        \* the last change of the broker answered OK
    signalled     \* SIGINT was handled

faultVars == <<asked, signalled>>
shared    == <<status, flags, settings>>
mqtt      == <<client, announced, mqttQoS, cb>>
http      == <<server, own>>
handlers  == <<pc, req, saved, told, acked>>
rest      == <<tables, mqtt, http, process>>
vars      == <<world, shared, rest, mpc, handlers, faultVars>>

Statuses == {"unconfigured", "configured", "running", "exit_ms"}
Setups   == 0 .. MaxSetups
Ports    == 0 .. MaxMoves
Unsent   == [over |-> -1, host |-> -1, qos |-> -1]

TypeOK ==
    /\ world \in Worlds
    /\ status \in Statuses
    /\ flags \subseteq {"mqtt", "http"}
    /\ {own, signalled} \subseteq BOOLEAN
    /\ settings \in [host : Setups, qos : Setups, port : Ports]
    /\ mqttQoS \in Setups
    /\ tables \in {"none", "made", "freed"}
    /\ client \in [host : Setups, up : BOOLEAN]
    /\ announced \in [over : Setups, host : Setups, qos : Setups] \cup {Unsent}
    /\ server \in [state : {"up", "closing", "down"}, port : Ports]
    /\ process \in {"alive", "crashed", "ended"}
    /\ mpc \in {"install", "reset", "resetHttp", "create", "qos", "connect", "clear",
                "announce", "tables", "loop", "mqtt", "http", "stop", "join", "listen",
                "clearHttp", "free", "clean", "lastStop", "lastJoin"}
    /\ cb \in {"idle", "flag"}
    /\ pc \in [Conns -> {"idle", "access", "check", "set", "save", "pause", "paused",
                         "host", "qos", "flag", "restore", "port", "flagHttp"}]
    /\ req \in [Conns -> [op : AllOps, n : Nat]]
    /\ saved \in [Conns -> Statuses]
    /\ asked \in [setups : Setups, moves : Ports, lost : 0 .. MaxLost, fails : 0 .. MaxFails]
    /\ told \in {"start", "stop"}
    /\ acked \in Setups

\* main() is past adeptness_service_start: the REST server is up.
Init ==
    /\ world \in Worlds
    /\ status = "unconfigured"
    /\ flags = {}
    /\ settings = [host |-> 0, qos |-> 0, port |-> 0]
    /\ tables = "none"
    /\ client = [host |-> 0, up |-> FALSE]
    /\ announced = Unsent
    /\ server = [state |-> "up", port |-> 0]
    /\ own = TRUE
    /\ process = "alive"
    /\ mpc = "install"
    /\ mqttQoS = 0
    /\ cb = "idle"
    /\ pc = [c \in Conns |-> "idle"]
    /\ req = [c \in Conns |-> [op |-> "start", n |-> 0]]
    /\ saved = [c \in Conns |-> "unconfigured"]
    /\ asked = [setups |-> 0, moves |-> 0, lost |-> 0, fails |-> 0]
    /\ told = "stop"
    /\ acked = 0
    /\ signalled = FALSE

Served      == \A c \in Conns : pc[c] = "idle"
Started     == tables # "none"
Settled     == mpc = "loop" /\ flags = {} /\ cb = "idle" /\ Served

\* In a calm world the surroundings cause one thing at a time: clients wait for
\* the start and for each other's answers and send nothing after SIGINT, which
\* comes between two requests; a change of the settings or a loss of the
\* connection comes when the previous one has been dealt with.
Undisturbed(condition) == world.calm => Started /\ ~signalled /\ condition
-----------------------------------------------------------------------------
(* main(): start.                                                          *)

At(here, next) == mpc = here /\ mpc' = next

InstallSignals ==
    /\ At("install", "reset")
    /\ UNCHANGED <<shared, rest, handlers, faultVars>>

ResetStatus ==
    /\ At("reset", "resetHttp")
    /\ status' = "unconfigured"
    /\ UNCHANGED <<flags, settings, rest, handlers, faultVars>>

ResetHttp ==
    /\ At("resetHttp", "create")
    /\ flags' = flags \ {"http"}
    /\ UNCHANGED <<status, settings, rest, handlers, faultVars>>

MakeTables ==
    /\ At("tables", "loop")
    /\ tables' = "made"
    /\ UNCHANGED <<shared, mqtt, http, process, handlers, faultVars>>

-----------------------------------------------------------------------------
(* initialize_mqtt, and the discovery that follows it.                     *)

\* The arguments are read and MQTTClient_create takes the host.
CreateClient ==
    /\ At("create", "qos")
    /\ mqttQoS' = settings.qos
    /\ client' = [host |-> settings.host, up |-> FALSE]
    /\ UNCHANGED <<shared, tables, announced, cb, http, process, handlers, faultVars>>

\* mqtt_qos = mqttQoS
SetQos ==
    /\ At("qos", "connect")
    /\ settings' = [settings EXCEPT !.qos = mqttQoS]
    /\ UNCHANGED <<status, flags, rest, handlers, faultVars>>

Connect ==
    /\ At("connect", "clear")
    /\ client' = [client EXCEPT !.up = TRUE]
    /\ UNCHANGED <<shared, tables, announced, mqttQoS, cb, http, process, handlers, faultVars>>

\* A fault: the flag is taken down although the client is not connected.
GiveUpConnect ==
    /\ At("connect", "clear")
    /\ asked.fails < world.fails
    /\ asked' = [asked EXCEPT !.fails = @ + 1]
    /\ UNCHANGED <<shared, rest, handlers, signalled>>

FailConnect ==
    /\ At("connect", "announce")
    /\ asked.fails < world.fails
    /\ asked' = [asked EXCEPT !.fails = @ + 1]
    /\ UNCHANGED <<shared, rest, handlers, signalled>>

ClearMqtt ==
    /\ At("clear", "announce")
    /\ flags' = flags \ {"mqtt"}
    /\ UNCHANGED <<status, settings, rest, handlers, faultVars>>

\* publish() drops its message when the client is not connected.
Announce ==
    /\ At("announce", IF Started THEN "http" ELSE "tables")
    /\ announced' = IF client.up
                    THEN [over |-> client.host, host |-> settings.host, qos |-> settings.qos]
                    ELSE announced
    /\ UNCHANGED <<shared, tables, client, mqttQoS, cb, http, process, handlers, faultVars>>

-----------------------------------------------------------------------------
(* main(): the loop. Reading CAN frames and publishing the groups leave    *)
(* all this state alone.                                                   *)

\* A fault: the loop does not end while there is no connection.
TestExitConnected ==
    /\ mpc = "loop"
    /\ mpc' = IF status = "exit_ms" /\ client.up THEN "free" ELSE "mqtt"
    /\ UNCHANGED <<shared, rest, handlers, faultVars>>

TestExit ==
    /\ mpc = "loop"
    /\ mpc' = IF status = "exit_ms" THEN "free" ELSE "mqtt"
    /\ UNCHANGED <<shared, rest, handlers, faultVars>>

\* A fault: a client that is connected is left alone.
TestMqttDown ==
    /\ mpc = "mqtt"
    /\ IF "mqtt" \in flags /\ ~client.up
       THEN mpc' = "create" /\ client' = [client EXCEPT !.up = FALSE]
       ELSE mpc' = "http" /\ UNCHANGED client
    /\ UNCHANGED <<shared, tables, announced, mqttQoS, cb, http, process, handlers, faultVars>>

\* The flag is tested and clean_mqtt() disconnects.
TestMqtt ==
    /\ mpc = "mqtt"
    /\ IF "mqtt" \in flags
       THEN mpc' = "create" /\ client' = [client EXCEPT !.up = FALSE]
       ELSE mpc' = "http" /\ UNCHANGED client
    /\ UNCHANGED <<shared, tables, announced, mqttQoS, cb, http, process, handlers, faultVars>>

TestHttp ==
    /\ mpc = "http"
    /\ mpc' = IF "http" \in flags THEN "stop" ELSE "loop"
    /\ UNCHANGED <<shared, rest, handlers, faultVars>>

\* adeptness_service_stop(service): MHD_stop_daemon takes no connection any
\* more and waits for the handlers at work. After a move, service->daemon has
\* been freed: it is of use only if malloc gave that memory to the new server,
\* else the second free of it, or what it points to, ends the process.
StopServer ==
    /\ mpc \in {"stop", "lastStop"}
    /\ IF own
       THEN /\ mpc' = IF mpc = "stop" THEN "join" ELSE "lastJoin"
            /\ server' = [server EXCEPT !.state = "closing"]
            /\ UNCHANGED process
       ELSE process' = "crashed" /\ UNCHANGED <<mpc, server>>
    /\ UNCHANGED <<shared, tables, mqtt, own, handlers, faultVars>>

Join ==
    /\ At("join", "listen")
    /\ Served
    /\ server' = [server EXCEPT !.state = "down"]
    /\ UNCHANGED <<shared, tables, mqtt, own, process, handlers, faultVars>>

\* A fault: the server is started again as it was.
ListenAgain ==
    /\ At("listen", "clearHttp")
    /\ server' = [server EXCEPT !.state = "up"]
    /\ own' \in BOOLEAN
    /\ UNCHANGED <<shared, tables, mqtt, process, handlers, faultVars>>

\* The new service is a variable of the block, which main() then loses.
Listen ==
    /\ At("listen", "clearHttp")
    /\ server' = [state |-> "up", port |-> settings.port]
    /\ own' \in BOOLEAN
    /\ UNCHANGED <<shared, tables, mqtt, process, handlers, faultVars>>

\* The port is taken: ERR_CHECK returns from main().
FailListen ==
    /\ mpc = "listen"
    /\ process' = "ended"
    /\ UNCHANGED <<shared, tables, mqtt, http, mpc, handlers, faultVars>>

ClearHttp ==
    /\ At("clearHttp", "loop")
    /\ flags' = flags \ {"http"}
    /\ UNCHANGED <<status, settings, rest, handlers, faultVars>>

-----------------------------------------------------------------------------
(* main(): exit.                                                           *)

FreeTables ==
    /\ At("free", "clean")
    /\ tables' = "freed"
    /\ UNCHANGED <<shared, mqtt, http, process, handlers, faultVars>>

\* A fault: the service is freed before it is stopped.
FreeServiceFirst ==
    /\ At("clean", "lastStop")
    /\ client' = [client EXCEPT !.up = FALSE]
    /\ own' = FALSE
    /\ UNCHANGED <<shared, tables, announced, mqttQoS, cb, server, process, handlers,
                   faultVars>>

LastClean ==
    /\ At("clean", "lastStop")
    /\ client' = [client EXCEPT !.up = FALSE]
    /\ UNCHANGED <<shared, tables, announced, mqttQoS, cb, http, process, handlers, faultVars>>

LastJoin ==
    /\ mpc = "lastJoin"
    /\ Served
    /\ process' = "ended"
    /\ server' = [server EXCEPT !.state = "down"]
    /\ UNCHANGED <<shared, tables, mqtt, own, mpc, handlers, faultVars>>

MainStep ==
    \/ InstallSignals \/ ResetStatus \/ ResetHttp \/ MakeTables
    \/ CreateClient \/ SetQos \/ Connect \/ FailConnect \/ ClearMqtt \/ Announce
    \/ TestExit \/ TestMqtt \/ TestHttp
    \/ StopServer \/ Join \/ Listen \/ FailListen \/ ClearHttp
    \/ FreeTables \/ LastClean \/ LastJoin

-----------------------------------------------------------------------------
(* Signals and the callback of the MQTT client.                            *)

\* int_handler, which main() installs.
Signal ==
    /\ ~signalled
    /\ mpc # "install"
    /\ Undisturbed(Served)
    /\ signalled' = TRUE
    /\ status' = "exit_ms"
    /\ UNCHANGED <<flags, settings, rest, mpc, handlers, asked>>

\* connlost: first MQTTClient_disconnect, then the flag.
ConnLost ==
    /\ cb = "idle"
    /\ client.up
    /\ asked.lost < world.lost
    /\ Undisturbed(Settled)
    /\ client' = [client EXCEPT !.up = FALSE]
    /\ cb' = "flag"
    /\ asked' = [asked EXCEPT !.lost = @ + 1]
    /\ UNCHANGED <<shared, tables, announced, mqttQoS, http, process, mpc, handlers,
                   signalled>>

\* A fault: only the disconnect is done.
ForgetLost ==
    /\ cb = "flag"
    /\ cb' = "idle"
    /\ UNCHANGED <<shared, tables, client, announced, mqttQoS, http, process, mpc,
                   handlers, faultVars>>

RaiseLost ==
    /\ cb = "flag"
    /\ cb' = "idle"
    /\ flags' = flags \cup {"mqtt"}
    /\ UNCHANGED <<status, settings, tables, client, announced, mqttQoS, http, process,
                   mpc, handlers, faultVars>>

-----------------------------------------------------------------------------
(* The REST handlers.                                                      *)

Entry(op) ==
    CASE op \in {"create", "read"} -> "access"
      [] op \in {"start", "stop"}  -> "check"
      [] op = "setupMqtt"          -> "save"
      [] op = "setupHttp"          -> "port"

IsSetup(op) == op \in {"setupMqtt", "setupHttp"}

\* How often clients have asked for it, this time included.
Count(op) ==
    CASE op = "setupMqtt" -> [asked EXCEPT !.setups = @ + 1]
      [] op = "setupHttp" -> [asked EXCEPT !.moves = @ + 1]
      [] OTHER            -> asked
Number(op) ==
    CASE op = "setupMqtt" -> asked.setups + 1
      [] op = "setupHttp" -> asked.moves + 1
      [] OTHER            -> 0

Receive(c) ==
    /\ pc[c] = "idle"
    /\ server.state = "up"
    /\ \E op \in world.ops :
        /\ op = "setupMqtt" => asked.setups < world.setups
        /\ op = "setupHttp" => asked.moves < world.moves
        /\ Undisturbed(Served /\ (IsSetup(op) => Settled))
        /\ pc' = [pc EXCEPT ![c] = Entry(op)]
        /\ req' = [req EXCEPT ![c] = [op |-> op, n |-> Number(op)]]
        /\ asked' = Count(op)
    /\ UNCHANGED <<shared, rest, mpc, saved, told, acked, signalled>>

Goto(c, label) ==
    /\ pc' = [pc EXCEPT ![c] = label]
    /\ UNCHANGED <<req, saved>>

\* What follows the accesses to the tables: a create goes on to the status.
AfterAccess(c) == Goto(c, IF req[c].op = "create" THEN "check" ELSE "idle")

\* hts_get and hts_put test the table for NULL, the loops of GET do not.
Access(c) ==
    /\ pc[c] = "access"
    /\ tables = "none" => req[c].op = "create"
    /\ AfterAccess(c)
    /\ UNCHANGED <<shared, rest, mpc, told, acked, faultVars>>

\* The tables are not there yet, or no longer. Freed memory may still serve.
AccessCrash(c) ==
    /\ pc[c] = "access"
    /\ tables = "freed" \/ (tables = "none" /\ req[c].op = "read")
    /\ process' = "crashed"
    /\ UNCHANGED <<shared, tables, mqtt, http, mpc, handlers, faultVars>>

\* status is what the request asks to change.
MaySet(c) ==
    CASE req[c].op = "create" -> status # "running"
      [] req[c].op = "start"  -> status = "configured"
      [] req[c].op = "stop"   -> status = "running"

\* A fault: a command that comes too early or too late is an error state.
CheckOrError(c) ==
    /\ pc[c] = "check"
    /\ Goto(c, IF MaySet(c) THEN "set" ELSE "idle")
    /\ status' = IF MaySet(c) THEN status ELSE "error"
    /\ UNCHANGED <<flags, settings, rest, mpc, told, acked, faultVars>>

Check(c) ==
    /\ pc[c] = "check"
    /\ Goto(c, IF MaySet(c) THEN "set" ELSE "idle")
    /\ UNCHANGED <<shared, rest, mpc, told, acked, faultVars>>

SetStatus(c) ==
    /\ pc[c] = "set"
    /\ Goto(c, "idle")
    /\ status' = IF req[c].op = "start" THEN "running" ELSE "configured"
    /\ told' = IF req[c].op = "create" THEN told ELSE req[c].op
    /\ UNCHANGED <<flags, settings, rest, mpc, acked, faultVars>>

\* ms_status old_status = status
Save(c) ==
    /\ pc[c] = "save"
    /\ pc' = [pc EXCEPT ![c] = "pause"]
    /\ saved' = [saved EXCEPT ![c] = status]
    /\ UNCHANGED <<shared, rest, mpc, req, told, acked, faultVars>>

\* if (status == running) status = configured, the test and the write apart.
Pause(c) ==
    /\ pc[c] \in {"pause", "paused"}
    /\ IF pc[c] = "pause" /\ status = "running"
       THEN Goto(c, "paused") /\ UNCHANGED status
       ELSE /\ Goto(c, "host")
            /\ status' = IF pc[c] = "paused" THEN "configured" ELSE status
    /\ UNCHANGED <<flags, settings, rest, mpc, told, acked, faultVars>>

SetHost(c) ==
    /\ pc[c] = "host"
    /\ Goto(c, "qos")
    /\ settings' = [settings EXCEPT !.host = req[c].n]
    /\ UNCHANGED <<status, flags, rest, mpc, told, acked, faultVars>>

SetBrokerQos(c) ==
    /\ pc[c] = "qos"
    /\ Goto(c, "flag")
    /\ settings' = [settings EXCEPT !.qos = req[c].n]
    /\ UNCHANGED <<status, flags, rest, mpc, told, acked, faultVars>>

RaiseMqtt(c) ==
    /\ pc[c] = "flag"
    /\ Goto(c, "restore")
    /\ flags' = flags \cup {"mqtt"}
    /\ UNCHANGED <<status, settings, rest, mpc, told, acked, faultVars>>

\* A fault: the status of before is not put back.
LeavePaused(c) ==
    /\ pc[c] = "restore"
    /\ Goto(c, "idle")
    /\ acked' = req[c].n
    /\ UNCHANGED <<shared, rest, mpc, told, faultVars>>

Restore(c) ==
    /\ pc[c] = "restore"
    /\ Goto(c, "idle")
    /\ status' = IF saved[c] = "running" THEN "running" ELSE status
    /\ acked' = req[c].n
    /\ UNCHANGED <<flags, settings, rest, mpc, told, faultVars>>

\* A fault: the answer waits until the server has moved.
AwaitMove(c) ==
    /\ pc[c] \in {"port", "flagHttp"}
    /\ Goto(c, IF pc[c] = "port" THEN "flagHttp" ELSE "idle")
    /\ IF pc[c] = "port"
       THEN settings' = [settings EXCEPT !.port = req[c].n] /\ flags' = flags \cup {"http"}
       ELSE "http" \notin flags /\ UNCHANGED <<settings, flags>>
    /\ UNCHANGED <<status, rest, mpc, told, acked, faultVars>>

\* The branch of the endpoint type "http": the port, then the flag.
SetupHttp(c) ==
    /\ pc[c] \in {"port", "flagHttp"}
    /\ Goto(c, IF pc[c] = "port" THEN "flagHttp" ELSE "idle")
    /\ IF pc[c] = "port"
       THEN settings' = [settings EXCEPT !.port = req[c].n] /\ UNCHANGED flags
       ELSE flags' = flags \cup {"http"} /\ UNCHANGED settings
    /\ UNCHANGED <<status, rest, mpc, told, acked, faultVars>>

HandlerStep(c) ==
    \/ Access(c) \/ AccessCrash(c) \/ Check(c) \/ SetStatus(c)
    \/ Save(c) \/ Pause(c) \/ SetHost(c) \/ SetBrokerQos(c) \/ RaiseMqtt(c) \/ Restore(c)
    \/ SetupHttp(c)

Alive == process = "alive"
\* What every step of a live process leaves alone.
Going == Alive /\ UNCHANGED world

Next ==
    \/ Going /\ MainStep
    \/ Going /\ Signal
    \/ Going /\ ConnLost
    \/ Going /\ RaiseLost
    \/ \E c \in Conns : Going /\ Receive(c)
    \/ \E c \in Conns : Going /\ HandlerStep(c)

Spec == Init /\ [][Next]_vars

\* Every thread that can run runs: preemptive threads, no lock among them.
FairSpec ==
    /\ Spec
    /\ WF_vars(Going /\ MainStep)
    /\ WF_vars(Going /\ RaiseLost)
    /\ \A c \in Conns : WF_vars(Going /\ HandlerStep(c))

-----------------------------------------------------------------------------
(* Properties.                                                             *)

\* Between two requests in a calm world, the monitor runs exactly when the
\* last order that was answered OK is "start": changing the broker pauses and
\* resumes it (impl.c:97-117), creating sensors leaves it running (sensor.c:130).
RunningAsTold ==
    world.calm /\ Started /\ ~signalled /\ Served
        => ((status = "running") <=> (told = "start"))

\* In a calm world, when no change of the REST port is pending, the server
\* listens on the port that was asked for last (impl.c:79-82,
\* CanMonitor.c:653-660).
ListensAsTold ==
    world.calm /\ Alive /\ "http" \notin flags /\ Served => server.port = settings.port

\* In a calm world the process crashes only after the REST port was changed,
\* which is what makes service->daemon a pointer to freed memory
\* (CanMonitor.c:655).
CrashNeedsMove == world.calm /\ process = "crashed" => asked.moves > 0

\* Main leaves its loop and the process ends after SIGINT (CanMonitor.c:44-53).
SignalEnds == signalled ~> ~Alive

\* In a calm world it does.
CalmSignalEnds == world.calm /\ signalled ~> ~Alive

\* The settings of the accepted change v of the broker are announced to that
\* broker, unless another change is asked for or the process is told to end.
Announced(v) ==
    announced = [over |-> v, host |-> v, qos |-> v] \/ asked.setups > v \/ signalled \/ ~Alive

\* An accepted change of the broker takes effect.
SetupTakesEffect == \A v \in 1 .. MaxSetups : acked = v ~> Announced(v)

\* In a calm world it does.
CalmSetupTakesEffect ==
    \A v \in 1 .. MaxSetups : world.calm /\ acked = v ~> Announced(v)

\* In a calm world a lost connection is made again (mqtt_utils.c:11-20: "Set
\* flag and wake main process").
CalmReconnects == world.calm /\ cb = "flag" ~> client.up \/ signalled \/ ~Alive

\* A handler at work answers, whatever main does in the meantime, even when
\* main waits for it to stop the REST server.
RequestsAnswered == \A c \in Conns : pc[c] # "idle" ~> pc[c] = "idle" \/ ~Alive

\* A flag that is up makes main connect, or the process ends: no flag stays.
RestartHonoured == "mqtt" \in flags ~> "mqtt" \notin flags \/ ~Alive
=============================================================================
