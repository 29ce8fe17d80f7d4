--------------------------- MODULE Monitor_proofs ---------------------------
(***************************************************************************)
(* Theorems about Monitor, for any connections, worlds and bounds.         *)
(***************************************************************************)
EXTENDS Monitor, TLAPS

(* What each handler serves at its steps, and that it carries a number     *)
(* that clients have got to.                                               *)
ControlAt(c) ==
    /\ pc[c] = "access" => req[c].op \in {"create", "read"}
    /\ pc[c] \in {"check", "set"} => req[c].op \in {"create", "start", "stop"}
    /\ pc[c] \in {"save", "pause", "paused", "host", "qos", "flag", "restore"} =>
           req[c].op = "setupMqtt"
    /\ pc[c] \in {"port", "flagHttp"} => req[c].op = "setupHttp"
    /\ req[c].op = "setupMqtt" => req[c].n \in Setups
    /\ req[c].op = "setupHttp" => req[c].n \in Ports

Control == \A c \in Conns : ControlAt(c)
TypeInv == TypeOK /\ Control

-----------------------------------------------------------------------------
(* The inductive invariant of the calm world.                              *)

Beginning == {"install", "reset", "resetHttp", "create", "qos", "connect", "clear",
              "announce", "tables"}
Moving    == {"stop", "join", "listen", "clearHttp"}

\* service->daemon dangles only after a move, which some request asked for.
MovedIfAsked ==
    \/ ~own \/ mpc \in Moving \/ "http" \in flags
    \/ \E c \in Conns : pc[c] \in {"port", "flagHttp"}
    => asked.moves > 0

\* While main() starts, nobody has asked for anything.
QuietStart ==
    /\ mpc \in {"install", "reset", "resetHttp", "tables"} => tables = "none"
    /\ tables = "none" => /\ mpc \in Beginning
                          /\ Served /\ ~signalled /\ cb = "idle"
                          /\ flags = {} /\ status = "unconfigured" /\ told = "stop"
                          /\ server.port = settings.port

\* SIGINT is the last thing that happens to the monitor.
QuietEnd ==
    /\ status = "exit_ms" => signalled
    /\ signalled => Served
    /\ mpc \in {"free", "clean", "lastStop", "lastJoin"} => signalled
    /\ tables = "freed" => mpc \in {"clean", "lastStop", "lastJoin"}

OneAtATime == \A c, d \in Conns : pc[c] # "idle" /\ pc[d] # "idle" => c = d

AsTold == (status = "running") <=> (told = "start")
Pausing == {"host", "qos", "flag", "restore"}

\* The status agrees with the last order, or the handler that changes the
\* broker has saved the one that does.
StatusAt(c) ==
    /\ pc[c] = "set" /\ req[c].op = "create" => status # "running"
    /\ pc[c] = "pause" => saved[c] = status
    /\ pc[c] = "paused" => saved[c] = "running" /\ status = "running"
    /\ pc[c] \in Pausing =>
           status # "running" /\ ((saved[c] = "running") <=> (told = "start"))

StatusKept ==
    ~signalled => /\ (\A c \in Conns : pc[c] \notin Pausing) => AsTold
                  /\ \A c \in Conns : StatusAt(c)

\* The server is on the port of the settings, unless a handler has changed the
\* settings and main() has not followed yet.
PortKept ==
    /\ "http" \notin flags /\ (\A c \in Conns : pc[c] # "flagHttp")
           => server.port = settings.port
    /\ "http" \in flags => \A c \in Conns : pc[c] \notin {"port", "flagHttp"}
    /\ mpc \in Moving => "http" \in flags
    /\ mpc = "clearHttp" => server.port = settings.port

CalmInv ==
    /\ MovedIfAsked
    /\ world.calm => /\ QuietStart /\ QuietEnd /\ OneAtATime
                     /\ StatusKept /\ PortKept
                     /\ CrashNeedsMove

-----------------------------------------------------------------------------
(* Types, and what each handler serves.                                    *)

\* TypeInv holds initially.
LEMMA TypeInit == Init => TypeInv
<1> SUFFICES ASSUME Init PROVE TypeInv
    OBVIOUS
<1>1. Worlds \subseteq World /\ 0 \in Setups /\ 0 \in Ports
      /\ 0 \in 0 .. MaxLost /\ 0 \in 0 .. MaxFails
    BY MonitorAssumption DEF Setups, Ports
<1>2. TypeOK
    BY <1>1 DEF Init, TypeOK, Statuses, AllOps
<1>3. Control
    BY <1>1 DEF Init, Control, ControlAt
<1> QED BY <1>2, <1>3 DEF TypeInv

\* The bounds of the counters are those of the settings.
LEMMA WorldBounds ==
    ASSUME world \in Worlds
    PROVE  /\ world.setups \in Setups /\ world.moves \in Ports
           /\ world.lost \in 0 .. MaxLost /\ world.fails \in 0 .. MaxFails
           /\ world.ops \subseteq AllOps /\ world.calm \in BOOLEAN
BY MonitorAssumption DEF World, Setups, Ports

\* The steps of main() keep the types.
LEMMA MainTypes == TypeOK /\ Going /\ MainStep => TypeOK'
<1> SUFFICES ASSUME TypeOK, UNCHANGED world, MainStep PROVE TypeOK'
    BY DEF Going
<1> USE MonitorAssumption, WorldBounds DEF TypeOK, shared, mqtt, http, rest, handlers, faultVars,
        At, Setups, Ports, Statuses
<1>1. CASE InstallSignals \/ ResetStatus \/ ResetHttp \/ MakeTables
    BY <1>1 DEF InstallSignals, ResetStatus, ResetHttp, MakeTables
<1>2. CASE CreateClient
    BY <1>2 DEF CreateClient
<1>3. CASE SetQos
    BY <1>3 DEF SetQos
<1>4. CASE Connect
    BY <1>4 DEF Connect
<1>5. CASE FailConnect
    BY <1>5 DEF FailConnect
<1>6. CASE ClearMqtt
    BY <1>6 DEF ClearMqtt
<1>7. CASE Announce
    BY <1>7 DEF Announce
<1>8. CASE TestExit \/ TestHttp
    BY <1>8 DEF TestExit, TestHttp
<1>9. CASE TestMqtt
    BY <1>9 DEF TestMqtt
<1>10. CASE StopServer
    BY <1>10 DEF StopServer
<1>11. CASE Join
    BY <1>11 DEF Join
<1>12. CASE Listen
    BY <1>12 DEF Listen
<1>13. CASE FailListen \/ ClearHttp \/ FreeTables
    BY <1>13 DEF FailListen, ClearHttp, FreeTables
<1>14. CASE LastClean
    BY <1>14 DEF LastClean
<1>15. CASE LastJoin
    BY <1>15 DEF LastJoin
<1> QED BY <1>1, <1>2, <1>3, <1>4, <1>5, <1>6, <1>7, <1>8, <1>9, <1>10, <1>11, <1>12,
           <1>13, <1>14, <1>15 DEF MainStep

\* So do SIGINT and the callback of the MQTT client.
LEMMA OutsideTypes == TypeOK /\ Going /\ (Signal \/ ConnLost \/ RaiseLost) => TypeOK'
<1> SUFFICES ASSUME TypeOK, UNCHANGED world, Signal \/ ConnLost \/ RaiseLost PROVE TypeOK'
    BY DEF Going
<1> USE MonitorAssumption, WorldBounds DEF TypeOK, shared, mqtt, http, rest, handlers,
        Setups, Ports, Statuses
<1>1. CASE Signal
    BY <1>1 DEF Signal
<1>2. CASE ConnLost
    <2>1. asked.lost + 1 \in 0 .. MaxLost
        BY <1>2 DEF ConnLost
    <2>2. asked' \in [setups : Setups, moves : Ports, lost : 0 .. MaxLost, fails : 0 .. MaxFails]
          /\ client' \in [host : Setups, up : BOOLEAN] /\ cb' = "flag"
        BY <1>2, <2>1 DEF ConnLost
    <2>3. UNCHANGED <<shared, tables, announced, mqttQoS, http, process, mpc, handlers, signalled>>
        BY <1>2 DEF ConnLost
    <2> QED BY <2>2, <2>3
<1>3. CASE RaiseLost
    BY <1>3 DEF RaiseLost, faultVars
<1> QED BY <1>1, <1>2, <1>3

\* Nothing but the handlers moves the handlers.
LEMMA HandlersStay ==
    ASSUME MainStep \/ Signal \/ ConnLost \/ RaiseLost
    PROVE  UNCHANGED handlers
BY DEF MainStep, InstallSignals, ResetStatus, ResetHttp, MakeTables, CreateClient, SetQos,
       Connect, FailConnect, ClearMqtt, Announce, TestExit, TestMqtt, TestHttp, StopServer,
       Join, Listen, FailListen, ClearHttp, FreeTables, LastClean, LastJoin, Signal,
       ConnLost, RaiseLost

\* The number of the request that comes is within the bound.
LEMMA NumberIsBounded ==
    ASSUME TypeInv, NEW op \in AllOps,
           op = "setupMqtt" => asked.setups < world.setups,
           op = "setupHttp" => asked.moves < world.moves
    PROVE  /\ Number(op) \in Nat
           /\ op = "setupMqtt" => Number(op) \in Setups
           /\ op = "setupHttp" => Number(op) \in Ports
           /\ Count(op) \in [setups : Setups, moves : Ports, lost : 0 .. MaxLost,
                             fails : 0 .. MaxFails]
<1> USE MonitorAssumption, WorldBounds DEF TypeInv, TypeOK, Number, Count, Setups, Ports
<1>1. CASE op = "setupMqtt"
    BY <1>1
<1>2. CASE op = "setupHttp"
    BY <1>2
<1>3. CASE op \notin {"setupMqtt", "setupHttp"}
    BY <1>3
<1> QED BY <1>1, <1>2, <1>3

\* A new request starts where its operation does.
LEMMA ReceiveTypes == ASSUME TypeInv, Going, NEW c \in Conns, Receive(c) PROVE TypeInv'
<1> USE DEF TypeInv
<1>1. PICK op \in world.ops :
        /\ op = "setupMqtt" => asked.setups < world.setups
        /\ op = "setupHttp" => asked.moves < world.moves
        /\ pc' = [pc EXCEPT ![c] = Entry(op)]
        /\ req' = [req EXCEPT ![c] = [op |-> op, n |-> Number(op)]]
        /\ asked' = Count(op)
    BY DEF Receive
<1>2. op \in AllOps
    BY WorldBounds DEF TypeOK
<1> DEFINE n == Number(op)
<1>3. /\ n \in Nat
      /\ op = "setupMqtt" => n \in Setups
      /\ op = "setupHttp" => n \in Ports
      /\ Count(op) \in [setups : Setups, moves : Ports, lost : 0 .. MaxLost,
                        fails : 0 .. MaxFails]
    BY <1>1, <1>2, NumberIsBounded
<1>4. /\ Entry(op) \in {"access", "check", "save", "port"}
      /\ Entry(op) = "access" <=> op \in {"create", "read"}
      /\ Entry(op) = "check" <=> op \in {"start", "stop"}
      /\ Entry(op) = "save" <=> op = "setupMqtt"
      /\ Entry(op) = "port" <=> op = "setupHttp"
    BY <1>2 DEF Entry, AllOps
<1>5. UNCHANGED <<world, shared, rest, mpc, saved, told, acked, signalled>>
    BY DEF Receive, Going
<1> HIDE DEF n
<1>6. TypeOK'
    BY <1>1, <1>2, <1>3, <1>4, <1>5 DEF TypeOK, shared, rest, mqtt, http, n
<1>7. ASSUME NEW d \in Conns PROVE ControlAt(d)'
    <2>1. CASE d = c
        BY <1>1, <1>2, <1>3, <1>4, <2>1 DEF TypeOK, ControlAt, n
    <2>2. CASE d # c
        <3>1. pc'[d] = pc[d] /\ req'[d] = req[d] /\ ControlAt(d)
            BY <1>1, <2>2 DEF TypeOK, Control
        <3> QED BY <3>1 DEF ControlAt
    <2> QED BY <2>1, <2>2
<1> QED BY <1>6, <1>7 DEF Control

\* The other steps of a handler.
LEMMA HandlerTypes == ASSUME TypeInv, Going, NEW c \in Conns, HandlerStep(c) PROVE TypeInv'
<1> USE DEF Goto
<1>1. req' = req /\ UNCHANGED world
    BY DEF HandlerStep, Access, AfterAccess, AccessCrash, Check, SetStatus, Save, Pause, SetHost,
           SetBrokerQos, RaiseMqtt, Restore, SetupHttp, handlers, Going
<1>2. req[c].n \in Nat /\ req[c].op \in AllOps /\ ControlAt(c)
    BY DEF TypeInv, TypeOK, Control
<1>3. TypeOK'
    <2> USE MonitorAssumption, <1>1, <1>2 DEF TypeInv, TypeOK, shared, mqtt, http, rest, handlers,
            faultVars, Setups, Ports, Statuses
    <2>1. CASE Access(c)
        BY <2>1 DEF Access, AfterAccess
    <2>10. CASE AccessCrash(c)
        BY <2>10 DEF AccessCrash
    <2>2. CASE Check(c)
        BY <2>2 DEF Check
    <2>3. CASE SetStatus(c)
        BY <2>3 DEF SetStatus, ControlAt
    <2>4. CASE Save(c)
        BY <2>4 DEF Save
    <2>5. CASE Pause(c)
        BY <2>5 DEF Pause
    <2>6. CASE SetHost(c) \/ SetBrokerQos(c)
        BY <2>6 DEF SetHost, SetBrokerQos, ControlAt
    <2>7. CASE RaiseMqtt(c)
        BY <2>7 DEF RaiseMqtt
    <2>8. CASE Restore(c)
        BY <2>8 DEF Restore, ControlAt
    <2>9. CASE SetupHttp(c)
        BY <2>9 DEF SetupHttp, ControlAt
    <2> QED BY <2>1, <2>2, <2>3, <2>4, <2>5, <2>6, <2>7, <2>8, <2>9, <2>10 DEF HandlerStep
<1>4. \A d \in Conns : d # c => pc'[d] = pc[d]
    BY DEF TypeInv, TypeOK, HandlerStep, Access, AfterAccess, AccessCrash, Check, SetStatus, Save,
           Pause, SetHost, SetBrokerQos, RaiseMqtt, Restore, SetupHttp, handlers
<1>5. ControlAt(c)'
    <2> USE <1>1, <1>2 DEF TypeInv, TypeOK, ControlAt, handlers
    <2>1. CASE Access(c) \/ AccessCrash(c)
        BY <2>1 DEF Access, AfterAccess, AccessCrash
    <2>2. CASE Check(c) \/ SetStatus(c)
        BY <2>2 DEF Check, SetStatus
    <2>3. CASE Save(c) \/ Pause(c) \/ SetHost(c) \/ SetBrokerQos(c)
        BY <2>3 DEF Save, Pause, SetHost, SetBrokerQos
    <2>4. CASE RaiseMqtt(c) \/ Restore(c) \/ SetupHttp(c)
        BY <2>4 DEF RaiseMqtt, Restore, SetupHttp
    <2> QED BY <2>1, <2>2, <2>3, <2>4 DEF HandlerStep
<1>6. Control'
    BY <1>1, <1>4, <1>5 DEF TypeInv, Control, ControlAt
<1> QED BY <1>3, <1>6 DEF TypeInv

\* Every step of the process.
LEMMA TypeStep == TypeInv /\ [Next]_vars => TypeInv'
<1> SUFFICES ASSUME TypeInv, [Next]_vars PROVE TypeInv'
    OBVIOUS
<1>1. CASE Going /\ (MainStep \/ Signal \/ ConnLost \/ RaiseLost)
    <2>1. TypeOK'
        BY <1>1, MainTypes, OutsideTypes DEF TypeInv
    <2>2. UNCHANGED <<pc, req>>
        BY <1>1, HandlersStay DEF handlers
    <2>3. Control'
        BY <2>2 DEF TypeInv, Control, ControlAt
    <2> QED BY <2>1, <2>3 DEF TypeInv
<1>2. CASE \E c \in Conns : Going /\ Receive(c)
    BY <1>2, ReceiveTypes
<1>3. CASE \E c \in Conns : Going /\ HandlerStep(c)
    BY <1>3, HandlerTypes
<1>4. CASE UNCHANGED vars
    BY <1>4 DEF vars, shared, rest, mqtt, http, handlers, faultVars, TypeInv, TypeOK, Control,
                ControlAt
<1> QED BY <1>1, <1>2, <1>3, <1>4 DEF Next

\* The variables of the monitor hold what their types say, whatever the
\* surroundings do, for any connections and bounds (CanMonitor.c, impl.c).
THEOREM TypeCorrect == Spec => []TypeOK
<1>1. TypeInv => TypeOK
    BY DEF TypeInv
<1> QED BY <1>1, TypeInit, TypeStep, PTL DEF Spec

-----------------------------------------------------------------------------
(* The calm world.                                                         *)

\* CalmInv holds initially.
LEMMA CalmInit == Init => CalmInv
<1> SUFFICES ASSUME Init PROVE CalmInv
    OBVIOUS
<1> USE DEF Init
<1>1. MovedIfAsked
    BY DEF MovedIfAsked, Moving
<1>2. QuietStart /\ QuietEnd
    BY DEF QuietStart, QuietEnd, Served, Beginning
<1>3. OneAtATime /\ CrashNeedsMove
    BY DEF OneAtATime, CrashNeedsMove
<1>4. StatusKept
    BY DEF StatusKept, StatusAt, AsTold, Pausing
<1>5. PortKept
    BY DEF PortKept, Moving
<1> QED BY <1>1, <1>2, <1>3, <1>4, <1>5 DEF CalmInv

\* What the steps of main() may change, and when.
LEMMA MainChanges ==
    ASSUME TypeOK, MainStep
    PROVE  /\ UNCHANGED <<pc, req, saved, told, cb, signalled>>
           /\ asked'.moves = asked.moves /\ settings'.port = settings.port
           /\ flags' \subseteq flags
           /\ "http" \in flags \ flags' => mpc \in {"resetHttp", "clearHttp"}
           /\ status' = status \/ (mpc = "reset" /\ status' = "unconfigured")
           /\ ~own' => ~own \/ mpc \in Moving
           /\ process' = process \/ process' = "ended" \/ ~own
           /\ server'.port = server.port
              \/ (mpc = "listen" /\ mpc' = "clearHttp" /\ server'.port = settings.port)
<1> USE DEF MainStep, InstallSignals, ResetStatus, ResetHttp, MakeTables, CreateClient, SetQos,
        Connect, FailConnect, ClearMqtt, Announce, TestExit, TestMqtt, TestHttp, StopServer,
        Join, Listen, FailListen, ClearHttp, FreeTables, LastClean, LastJoin, Moving,
        shared, rest, mqtt, http, handlers, faultVars, At, TypeOK
<1>1. UNCHANGED <<pc, req, saved, told, cb, signalled>>
    OBVIOUS
<1>2. asked'.moves = asked.moves
    OBVIOUS
<1>3. settings'.port = settings.port
    OBVIOUS
<1>4. flags' \subseteq flags
    OBVIOUS
<1>5. "http" \in flags \ flags' => mpc \in {"resetHttp", "clearHttp"}
    OBVIOUS
<1>6. status' = status \/ (mpc = "reset" /\ status' = "unconfigured")
    OBVIOUS
<1>7. ~own' => ~own \/ mpc \in Moving
    OBVIOUS
<1>8. process' = process \/ process' = "ended" \/ ~own
    OBVIOUS
<1>9. server'.port = server.port
      \/ (mpc = "listen" /\ mpc' = "clearHttp" /\ server'.port = settings.port)
    OBVIOUS
<1> QED BY <1>1, <1>2, <1>3, <1>4, <1>5, <1>6, <1>7, <1>8, <1>9

Leaving == {"free", "clean", "lastStop", "lastJoin"}

\* Where main() goes.
LEMMA MainGoes ==
    ASSUME TypeOK, MainStep
    PROVE  /\ mpc' \in Moving => mpc \in Moving \/ (mpc = "http" /\ "http" \in flags)
           /\ mpc' = "clearHttp" => mpc = "listen" /\ server'.port = settings.port
           /\ mpc \in {"resetHttp", "clearHttp"} => mpc' \notin Moving
           /\ mpc' \in Leaving => mpc \in Leaving \/ status = "exit_ms"
           /\ mpc \in {"clean", "lastStop", "lastJoin"} =>
                  mpc' \in {"clean", "lastStop", "lastJoin"}
           /\ tables' = "freed" =>
                  tables = "freed" \/ mpc' = "clean"
           /\ tables' = "none" => tables = "none"
           /\ mpc \in Beginning /\ tables' = "none" => mpc' \in Beginning
           /\ mpc' \in {"install", "reset", "resetHttp", "tables"} /\ tables' # "none" =>
                  mpc \in {"install", "reset", "resetHttp"} /\ tables # "none"
<1> USE DEF MainStep, InstallSignals, ResetStatus, ResetHttp, MakeTables, CreateClient, SetQos,
        Connect, FailConnect, ClearMqtt, Announce, TestExit, TestMqtt, TestHttp, StopServer,
        Join, Listen, FailListen, ClearHttp, FreeTables, LastClean, LastJoin, Moving,
        Leaving, Beginning, rest, At, TypeOK, Started
<1>1. mpc' \in Moving => mpc \in Moving \/ (mpc = "http" /\ "http" \in flags)
    OBVIOUS
<1>2. /\ mpc' = "clearHttp" => mpc = "listen" /\ server'.port = settings.port
      /\ mpc \in {"resetHttp", "clearHttp"} => mpc' \notin Moving
    OBVIOUS
<1>3. mpc' \in Leaving => mpc \in Leaving \/ status = "exit_ms"
    OBVIOUS
<1>4. mpc \in {"clean", "lastStop", "lastJoin"} => mpc' \in {"clean", "lastStop", "lastJoin"}
    OBVIOUS
<1>5. /\ tables' = "freed" => tables = "freed" \/ mpc' = "clean"
      /\ tables' = "none" => tables = "none"
    OBVIOUS
<1>6. mpc \in Beginning /\ tables' = "none" => mpc' \in Beginning
    OBVIOUS
<1>7. mpc' \in {"install", "reset", "resetHttp", "tables"} /\ tables' # "none" =>
          mpc \in {"install", "reset", "resetHttp"} /\ tables # "none"
    OBVIOUS
<1> QED BY <1>1, <1>2, <1>3, <1>4, <1>5, <1>6, <1>7

\* main() gets to a move only from a request that is pending.
LEMMA MainMoves == TypeOK /\ MovedIfAsked /\ MainStep => MovedIfAsked'
BY MainChanges, MainGoes DEF MovedIfAsked, Moving

\* In a calm world main() keeps every part of the invariant.
LEMMA MainCalm ==
    ASSUME TypeOK, MovedIfAsked, QuietStart, QuietEnd, OneAtATime, StatusKept, PortKept,
           CrashNeedsMove, world.calm, Going, MainStep
    PROVE  (QuietStart /\ QuietEnd /\ OneAtATime /\ StatusKept /\ PortKept /\ CrashNeedsMove)'
<1>1. QuietStart'
    <2>1. mpc' \in {"install", "reset", "resetHttp", "tables"} => tables' = "none"
        BY MainGoes DEF QuietStart
    <2>2. ASSUME tables' = "none"
          PROVE  /\ mpc' \in Beginning
                 /\ Served' /\ ~signalled' /\ cb' = "idle"
                 /\ flags' = {} /\ status' = "unconfigured" /\ told' = "stop"
                 /\ server'.port = settings'.port
        <3>1. tables = "none"
            BY <2>2, MainGoes
        <3>2. mpc \in Beginning /\ mpc # "listen"
            BY <3>1 DEF QuietStart, Beginning
        <3> QED BY <2>2, <3>1, <3>2, MainGoes, MainChanges DEF QuietStart, Served
    <2> QED BY <2>1, <2>2 DEF QuietStart
<1>2. QuietEnd'
    BY MainGoes, MainChanges DEF QuietEnd, Served, Leaving
<1>3. OneAtATime'
    BY MainChanges DEF OneAtATime
<1>4. StatusKept'
    <2>1. CASE status' = status
        BY <2>1, MainChanges DEF StatusKept, StatusAt, AsTold
    <2>2. CASE mpc = "reset" /\ status' = "unconfigured"
        <3>1. Served /\ told = "stop"
            BY <2>2 DEF QuietStart
        <3> QED BY <2>2, <3>1, MainChanges DEF StatusKept, StatusAt, AsTold, Served, Pausing
    <2> QED BY <2>1, <2>2, MainChanges
<1>5. PortKept'
    <2>1. "http" \in flags \ flags' => server.port = settings.port
        BY MainChanges DEF QuietStart, PortKept
    <2>2. /\ "http" \notin flags' /\ (\A c \in Conns : pc'[c] # "flagHttp")
                 => server'.port = settings'.port
          /\ "http" \in flags' => \A c \in Conns : pc'[c] \notin {"port", "flagHttp"}
        BY <2>1, MainChanges DEF PortKept
    <2>3. mpc' \in Moving => "http" \in flags'
        BY MainChanges, MainGoes DEF PortKept
    <2>4. mpc' = "clearHttp" => server'.port = settings'.port
        BY MainChanges, MainGoes DEF PortKept
    <2> QED BY <2>2, <2>3, <2>4 DEF PortKept
<1>6. CrashNeedsMove'
    BY MainChanges DEF CrashNeedsMove, MovedIfAsked, Going, TypeOK
<1> QED BY <1>1, <1>2, <1>3, <1>4, <1>5, <1>6

\* SIGINT comes when no handler is at work, and the connection to the broker has
\* no part in the invariant.
LEMMA OutsideCalm ==
    ASSUME TypeOK, CalmInv, Going, Signal \/ ConnLost \/ RaiseLost
    PROVE  CalmInv'
<1> USE DEF shared, mqtt, http, rest, handlers, faultVars
<1>1. /\ UNCHANGED <<world, pc, req, saved, told, mpc, tables, own, server, settings, process>>
      /\ asked'.moves = asked.moves
      /\ flags' \ {"mqtt"} = flags \ {"mqtt"}
    BY DEF Signal, ConnLost, RaiseLost, Going, TypeOK
<1>2. MovedIfAsked'
    BY <1>1 DEF CalmInv, MovedIfAsked
<1> SUFFICES ASSUME world.calm
             PROVE  (QuietStart /\ QuietEnd /\ OneAtATime /\ StatusKept /\ PortKept
                     /\ CrashNeedsMove)'
    BY <1>1, <1>2 DEF CalmInv
<1> USE DEF CalmInv
<1>3. Signal => Served /\ Started /\ signalled' /\ status' = "exit_ms" /\ UNCHANGED <<flags, cb>>
    BY DEF Signal, Undisturbed
<1>4. ~Signal => UNCHANGED <<status, signalled>>
    BY DEF ConnLost, RaiseLost
<1>5. ~Signal => Started
    BY DEF ConnLost, RaiseLost, Undisturbed, QuietStart, Started
<1>6. QuietStart'
    BY <1>1, <1>3, <1>5 DEF QuietStart, Started
<1>7. QuietEnd'
    BY <1>1, <1>3, <1>4 DEF QuietEnd, Served
<1>8. OneAtATime' /\ CrashNeedsMove'
    BY <1>1 DEF OneAtATime, CrashNeedsMove
<1>9. StatusKept'
    BY <1>1, <1>3, <1>4 DEF StatusKept, StatusAt, AsTold
<1>10. PortKept'
    BY <1>1 DEF PortKept
<1> QED BY <1>6, <1>7, <1>8, <1>9, <1>10

\* In a calm world a request comes when no other is being served.
LEMMA ReceiveCalm ==
    ASSUME TypeInv, CalmInv, Going, NEW c \in Conns, Receive(c)
    PROVE  CalmInv'
<1>1. PICK op \in AllOps :
        /\ op \in world.ops
        /\ Undisturbed(Served /\ (IsSetup(op) => Settled))
        /\ pc' = [pc EXCEPT ![c] = Entry(op)]
        /\ req' = [req EXCEPT ![c] = [op |-> op, n |-> Number(op)]]
        /\ asked' = Count(op)
    BY WorldBounds DEF Receive, TypeInv, TypeOK
<1>2. UNCHANGED <<world, shared, rest, mpc, saved, told, signalled>>
    BY DEF Receive, Going
<1>3. /\ Entry(op) \in {"access", "check", "save", "port"}
      /\ Entry(op) = "port" => IsSetup(op)
      /\ Entry(op) = "port" => asked'.moves = asked.moves + 1
      /\ Entry(op) # "port" => asked'.moves = asked.moves
    BY <1>1 DEF Entry, AllOps, IsSetup, Count, TypeInv, TypeOK
<1>4. \A d \in Conns : pc'[d] = IF d = c THEN Entry(op) ELSE pc[d]
    BY <1>1 DEF TypeInv, TypeOK
<1>5. asked.moves \in Nat
    BY MonitorAssumption DEF TypeInv, TypeOK, Ports
<1> USE DEF shared, mqtt, http, rest
<1>6. MovedIfAsked'
    <2>1. CASE Entry(op) = "port"
        BY <1>3, <1>5, <2>1 DEF MovedIfAsked
    <2>2. CASE Entry(op) # "port"
        BY <1>2, <1>3, <1>4, <2>2 DEF MovedIfAsked, CalmInv
    <2> QED BY <2>1, <2>2
<1> SUFFICES ASSUME world.calm
             PROVE  (QuietStart /\ QuietEnd /\ OneAtATime /\ StatusKept /\ PortKept
                     /\ CrashNeedsMove)'
    BY <1>2, <1>6 DEF CalmInv
<1> USE DEF CalmInv
<1>7. Started /\ ~signalled /\ Served /\ (IsSetup(op) => Settled)
    BY <1>1 DEF Undisturbed
<1>8. \A d \in Conns : d # c => pc'[d] = "idle"
    BY <1>4, <1>7 DEF Served
<1>9. QuietStart' /\ QuietEnd' /\ CrashNeedsMove'
    BY <1>2, <1>3, <1>5, <1>7 DEF QuietStart, QuietEnd, Started, CrashNeedsMove
<1>10. OneAtATime'
    BY <1>8 DEF OneAtATime
<1>11. StatusKept'
    <2>1. AsTold
        BY <1>7 DEF StatusKept, Served, Pausing
    <2>2. \A d \in Conns : pc'[d] \in {"idle", "access", "check", "save", "port"}
        BY <1>3, <1>4, <1>8
    <2> QED BY <1>2, <2>1, <2>2 DEF StatusKept, StatusAt, AsTold, Pausing
<1>12. PortKept'
    <2>1. CASE Entry(op) = "port"
        <3>1. flags = {} /\ mpc = "loop" /\ server.port = settings.port
            BY <1>3, <1>7, <2>1 DEF Settled, Served, PortKept
        <3> QED BY <1>2, <3>1 DEF PortKept, Moving
    <2>2. CASE Entry(op) # "port"
        <3>1. \A d \in Conns : pc[d] = "idle" /\ pc'[d] \notin {"port", "flagHttp"}
            BY <1>3, <1>4, <1>7, <1>8, <2>2 DEF Served
        <3> QED BY <1>2, <3>1 DEF PortKept
    <2> QED BY <2>1, <2>2
<1> QED BY <1>9, <1>10, <1>11, <1>12

\* What the steps of a handler may change.
LEMMA HandlerChanges ==
    ASSUME TypeInv, Going, NEW c \in Conns, HandlerStep(c)
    PROVE  /\ UNCHANGED <<world, tables, client, announced, mqttQoS, cb, server, own, mpc, req,
                          asked, signalled>>
           /\ pc[c] # "idle" /\ \A d \in Conns : d # c => pc'[d] = pc[d]
           /\ process' = process \/ (pc[c] = "access" /\ tables \in {"none", "freed"})
           /\ flags' \ {"mqtt"} = flags \ {"mqtt"}
              \/ (pc[c] = "flagHttp" /\ pc'[c] = "idle" /\ flags' = flags \cup {"http"})
           /\ pc'[c] \in {"port", "flagHttp"} =>
                  pc[c] = "port" /\ pc'[c] = "flagHttp" /\ flags' = flags
           /\ settings'.port = settings.port \/ pc[c] = "port"
<1> USE DEF HandlerStep, Access, AfterAccess, AccessCrash, Check, SetStatus, Save, Pause, SetHost,
        SetBrokerQos, RaiseMqtt, Restore, SetupHttp, Goto, handlers, shared, rest, mqtt, http,
        faultVars, TypeInv, TypeOK, Going
<1>1. UNCHANGED <<world, tables, client, announced, mqttQoS, cb, server, own, mpc, req, asked,
                  signalled>>
    OBVIOUS
<1>2. pc[c] # "idle" /\ \A d \in Conns : d # c => pc'[d] = pc[d]
    OBVIOUS
<1>3. process' = process \/ (pc[c] = "access" /\ tables \in {"none", "freed"})
    OBVIOUS
<1>4. flags' \ {"mqtt"} = flags \ {"mqtt"}
      \/ (pc[c] = "flagHttp" /\ pc'[c] = "idle" /\ flags' = flags \cup {"http"})
    OBVIOUS
<1>5. pc'[c] \in {"port", "flagHttp"} =>
          pc[c] = "port" /\ pc'[c] = "flagHttp" /\ flags' = flags
    OBVIOUS
<1>6. settings'.port = settings.port \/ pc[c] = "port"
    OBVIOUS
<1> QED BY <1>1, <1>2, <1>3, <1>4, <1>5, <1>6

\* While one handler is at work and SIGINT has not come, the status stays what
\* the last order made it, or is on its way back to it.
LEMMA HandlerStatus ==
    ASSUME TypeInv, Going, NEW c \in Conns, HandlerStep(c), ~signalled, StatusKept,
           status # "exit_ms",
           \A d \in Conns : d # c => pc[d] = "idle"
    PROVE  StatusKept' /\ status' # "exit_ms"
<1>1. /\ pc[c] # "idle" /\ req' = req /\ ControlAt(c)
      /\ \A d \in Conns : d # c => pc'[d] = "idle"
    BY HandlerChanges DEF TypeInv, Control
<1>2. pc[c] \notin Pausing => AsTold
    BY DEF StatusKept, Pausing
<1>3. StatusAt(c)
    BY DEF StatusKept
<1> SUFFICES (pc'[c] \notin Pausing => AsTold') /\ StatusAt(c)' /\ status' # "exit_ms"
    BY <1>1 DEF StatusKept, StatusAt, Pausing
<1>12. /\ \A label : pc' = [pc EXCEPT ![c] = label] => pc'[c] = label
       /\ saved' = [saved EXCEPT ![c] = status] => saved'[c] = status
    BY DEF TypeInv, TypeOK
<1> USE <1>1, <1>2, <1>3, <1>12 DEF Goto, AsTold, StatusAt, Pausing, ControlAt, shared
<1>4. CASE Access(c) \/ AccessCrash(c)
    BY <1>4 DEF Access, AfterAccess, AccessCrash, handlers
<1>5. CASE Check(c)
    BY <1>5 DEF Check, MaySet
<1>6. CASE SetStatus(c)
    BY <1>6 DEF SetStatus
<1>7. CASE Save(c)
    BY <1>7 DEF Save
<1>8. CASE Pause(c)
    BY <1>8 DEF Pause
<1>9. CASE SetHost(c) \/ SetBrokerQos(c) \/ RaiseMqtt(c)
    BY <1>9 DEF SetHost, SetBrokerQos, RaiseMqtt
<1>10. CASE Restore(c)
    BY <1>10 DEF Restore
<1>11. CASE SetupHttp(c)
    BY <1>11 DEF SetupHttp
<1> QED BY <1>4, <1>5, <1>6, <1>7, <1>8, <1>9, <1>10, <1>11 DEF HandlerStep

\* The steps of a handler keep the invariant.
LEMMA HandlerCalm ==
    ASSUME TypeInv, CalmInv, Going, NEW c \in Conns, HandlerStep(c)
    PROVE  CalmInv'
<1>1. MovedIfAsked'
    BY HandlerChanges DEF CalmInv, MovedIfAsked
<1> SUFFICES ASSUME world.calm
             PROVE  (QuietStart /\ QuietEnd /\ OneAtATime /\ StatusKept /\ PortKept
                     /\ CrashNeedsMove)'
    BY <1>1, HandlerChanges DEF CalmInv
<1> USE DEF CalmInv
<1>2. pc[c] # "idle" /\ \A d \in Conns : d # c => pc[d] = "idle" /\ pc'[d] = "idle"
    BY HandlerChanges DEF OneAtATime
<1>3. ~signalled /\ tables \notin {"none", "freed"} /\ status # "exit_ms"
    BY <1>2 DEF QuietStart, QuietEnd, Served
<1>4. StatusKept' /\ status' # "exit_ms"
    BY <1>2, <1>3, HandlerStatus
<1>5. QuietStart' /\ QuietEnd'
    BY <1>3, <1>4, HandlerChanges DEF QuietStart, QuietEnd
<1>6. OneAtATime'
    BY <1>2 DEF OneAtATime
<1>7. CrashNeedsMove'
    BY <1>3, HandlerChanges DEF CrashNeedsMove
<1>8. PortKept'
    <2>1. CASE pc[c] = "flagHttp" /\ pc'[c] = "idle" /\ flags' = flags \cup {"http"}
        <3>1. mpc \notin Moving
            BY <2>1 DEF PortKept
        <3> QED BY <1>2, <2>1, <3>1, HandlerChanges DEF PortKept, Moving
    <2>2. CASE flags' \ {"mqtt"} = flags \ {"mqtt"}
        <3>1. CASE pc[c] = "port"
            <4>1. mpc \notin Moving /\ "http" \notin flags'
                BY <2>2, <3>1 DEF PortKept
            <4>2. pc'[c] = "flagHttp"
                BY <3>1 DEF HandlerStep, Access, AccessCrash, Check, SetStatus, Save, Pause,
                            SetHost, SetBrokerQos, RaiseMqtt, Restore, SetupHttp, Goto, TypeInv,
                            TypeOK
            <4> QED BY <4>1, <4>2, HandlerChanges DEF PortKept, Moving
        <3>2. CASE pc[c] # "port"
            <4>1. pc'[c] \notin {"port", "flagHttp"} /\ settings'.port = settings.port
                BY <3>2, HandlerChanges
            <4>2. CASE pc[c] = "flagHttp"
                BY <2>2, <4>2 DEF HandlerStep, Access, AccessCrash, Check, SetStatus, Save,
                       Pause, SetHost, SetBrokerQos, RaiseMqtt, Restore, SetupHttp, PortKept
            <4>3. CASE pc[c] # "flagHttp"
                <5>1. \A d \in Conns : pc[d] # "flagHttp"
                    BY <1>2, <4>3
                <5>2. /\ "http" \in flags' <=> "http" \in flags
                      /\ UNCHANGED <<mpc, server>>
                    BY <2>2, HandlerChanges
                <5>3. \A d \in Conns : pc'[d] \notin {"port", "flagHttp"}
                    BY <1>2, <4>1
                <5> QED BY <4>1, <5>1, <5>2, <5>3 DEF PortKept
            <4> QED BY <4>2, <4>3
        <3> QED BY <3>1, <3>2
    <2> QED BY <2>1, <2>2, HandlerChanges
<1> QED BY <1>4, <1>5, <1>6, <1>7, <1>8

\* Every step of the process keeps CalmInv.
LEMMA CalmStep == TypeInv /\ CalmInv /\ [Next]_vars => CalmInv'
<1> SUFFICES ASSUME TypeInv, CalmInv, [Next]_vars PROVE CalmInv'
    OBVIOUS
<1>1. CASE Going /\ MainStep
    <2>1. MovedIfAsked'
        BY <1>1, MainMoves DEF TypeInv, CalmInv
    <2>2. world' = world
        BY <1>1 DEF Going
    <2> QED BY <1>1, <2>1, <2>2, MainCalm DEF TypeInv, CalmInv
<1>2. CASE Going /\ (Signal \/ ConnLost \/ RaiseLost)
    BY <1>2, OutsideCalm DEF TypeInv
<1>3. CASE \E c \in Conns : Going /\ Receive(c)
    BY <1>3, ReceiveCalm
<1>4. CASE \E c \in Conns : Going /\ HandlerStep(c)
    BY <1>4, HandlerCalm
<1>5. CASE UNCHANGED vars
    BY <1>5 DEF vars, shared, rest, mqtt, http, handlers, faultVars, CalmInv, MovedIfAsked,
                QuietStart, QuietEnd, OneAtATime, StatusKept, StatusAt, AsTold, PortKept,
                CrashNeedsMove, Served
<1> QED BY <1>1, <1>2, <1>3, <1>4, <1>5 DEF Next

\* In any state the process can get to.
LEMMA AlwaysCalm == Spec => [](TypeInv /\ CalmInv)
<1>1. Init => TypeInv /\ CalmInv
    BY TypeInit, CalmInit
<1>2. (TypeInv /\ CalmInv) /\ [Next]_vars => (TypeInv /\ CalmInv)'
    BY TypeStep, CalmStep
<1> QED BY <1>1, <1>2, PTL DEF Spec

\* Between two requests in a calm world the monitor runs exactly when the last
\* order answered OK is "start": pausing and resuming around a change of the
\* broker (impl.c:97-117) leaves no other trace in the status.
THEOREM RunsAsTold == Spec => []RunningAsTold
<1>1. TypeInv /\ CalmInv => RunningAsTold
    BY DEF CalmInv, StatusKept, AsTold, Pausing, RunningAsTold, Served
<1> QED BY <1>1, AlwaysCalm, PTL

\* In a calm world the server listens where the settings say, as soon as no
\* move is pending (impl.c:79-82, CanMonitor.c:653-660).
THEOREM ListensAtThePort == Spec => []ListensAsTold
<1>1. TypeInv /\ CalmInv => ListensAsTold
    BY DEF CalmInv, PortKept, ListensAsTold, Served
<1> QED BY <1>1, AlwaysCalm, PTL

\* In a calm world only a process whose REST port was changed can crash:
\* nothing else makes service->daemon dangle, and no handler meets tables that
\* are not there (CanMonitor.c:655, sensor.c, sensorgroup.c).
THEOREM OnlyMovesCrash == Spec => []CrashNeedsMove
<1>1. TypeInv /\ CalmInv => CrashNeedsMove
    BY DEF CalmInv, CrashNeedsMove
<1> QED BY <1>1, AlwaysCalm, PTL
=============================================================================
