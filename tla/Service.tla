------------------------------- MODULE Service -------------------------------
(***************************************************************************)
(* The process as its clients see it: Startup, then RestServer, whose      *)
(* requests for the CAN connection CanConnection serves step by step. The  *)
(* other operations are one step each here: what they do to the tables is  *)
(* the subject of Registry, and their races for the status of Monitor.     *)
(***************************************************************************)
EXTENDS Startup, RestServer, CanConnection

\* The connections' threads call the operations. What a body says of the CAN
\* connection has a list of settings; one that says nothing of it is not complete.
ASSUME ServiceAssumption ==
    /\ Callers = Conns
    /\ \A r \in Requests : r.body.settings \in Seq(ToSet(r.body.settings))

vars == <<startVars, restVars, canVars>>

Init == StartInit /\ RestInit /\ CanInit

\* Whether the operation that c has called is that on the CAN connection.
OnCan(c, method) == RestOf(c) = Connection /\ req[c].method = method

\* What the status may be after an operation that is answered OK: creating
\* sensors or groups configures the monitor unless it runs, orders start and
\* stop it.
NewStatus(c) ==
    CASE RestOf(c) \in {SensorsConf, Sensorgroups} /\ req[c].method \in {"POST", "PUT"} ->
            {IF status = "running" THEN status ELSE "configured"}
      [] RestOf(c) = CmdExecute ->
            CASE status = "configured" -> {"running"}
              [] status = "running"    -> {"configured"}
              [] OTHER                 -> {}
      [] OTHER -> {status}

\* read_monitoring_agent_status has something to say as long as there is no SIGINT.
ReadStatus(c) ==
    /\ RestOf(c) = AgentStatus
    /\ Return(c, IF status = "exit_ms" THEN "ERROR" ELSE "OK", status)

OtherOperation(c) ==
    /\ RestOf(c) # AgentStatus
    /\ \/ \E new \in NewStatus(c) : Return(c, "OK", new)
       \/ Return(c, "ERROR", status)

Operate(c) ==
    /\ ~OnCan(c, "PUT") /\ ~OnCan(c, "GET")
    /\ ReadStatus(c) \/ OtherOperation(c)
    /\ UNCHANGED canVars

Put(c) ==
    /\ OnCan(c, "PUT")
    /\ \/ PutStep(c, req[c].body) /\ UNCHANGED restVars
       \/ \E r \in {"OK", "ERROR"} :
            EndPut(c, req[c].body, r) /\ Return(c, r, status)

Get(c) ==
    /\ OnCan(c, "GET")
    /\ \/ GetStep(c) /\ UNCHANGED restVars
       \/ \E r \in {"OK", "ERROR"} : EndGet(c, r) /\ Return(c, r, status)

Operation(c) ==
    /\ pc[c] = "operation"
    /\ UNCHANGED <<plan, startVars>>
    /\ Operate(c) \/ Put(c) \/ Get(c)

\* The steps of the server, and which of them the process, the threads, the
\* lock and the clients bring about.
Serving == stage = "ready" /\ duty # "ended" /\ ~crashed
Server(A) == Serving /\ A /\ UNCHANGED <<plan, startVars, canVars>>

\* main() gives the CAN connection and the status their first values.
Defaults == Serving /\ SetStatus /\ SetDefaults /\ UNCHANGED <<plan, startVars>>

Locking(c) == List(c) \/ LockToFind(c)

Next ==
    \/ StartStep /\ UNCHANGED <<restVars, canVars>>
    \/ Server(MainStep)
    \/ Defaults
    \/ Server(Signal)
    \/ \E c \in Conns :
        \/ Server(Accept(c))
        \/ Server(Upload(c))
        \/ Server(LoseUpload(c))
        \/ Server(Locking(c))
        \/ Server(ThreadStep(c))
        \/ Serving /\ Operation(c)

Spec == Init /\ [][Next]_vars

\* What the thread of c does by itself: not what its client has to send. The
\* daemon closes its connection when it is stopped.
OnItsOwn(c) ==
    \/ Server(ThreadStep(c))
    \/ Serving /\ Operation(c)
    \/ daemon = "closing" /\ Server(LoseUpload(c))

\* Threads run, and one gets a mutex that is free again and again.
FairSpec ==
    /\ Spec
    /\ WF_vars(StartStep /\ UNCHANGED <<restVars, canVars>>)
    /\ WF_vars(Server(MainStep) \/ Defaults)
    /\ \A c \in Conns :
        /\ SF_vars(Server(Locking(c)))
        /\ WF_vars(OnItsOwn(c))

-----------------------------------------------------------------------------
(* Properties.                                                             *)

TypeOK == StartTypeOK /\ RestTypeOK /\ CanTypeOK

\* Every request that has come in whole is answered, while the process lives
\* (rest-server.c:151-237).
Answered ==
    \A c \in Conns : pc[c] \in {"list", "find"} ~> pc[c] = "reply" \/ ~Serving

\* Once main() stops the server the process ends, whatever its connections are
\* at: the daemon waits for threads that do not wait for main()
\* (rest-server.c:283-298).
Stops == duty = "stop" ~> ~Serving
=============================================================================
