----------------------------- MODULE RestServer -----------------------------
(***************************************************************************)
(* The REST server: main() starts it, registers its handlers under a lock, *)
(* and stops it; the daemon of libmicrohttpd has a thread per connection,  *)
(* in which http_handler collects a request, looks for its handler under   *)
(* the lock and calls it. What the operations behind a handler do is left  *)
(* to Call and Return.                                                     *)
(***************************************************************************)
EXTENDS Dispatch, FiniteSets

CONSTANTS
    Conns,     \* connections
    Main,      \* the thread of main()
    Nobody,    \* holds a lock that is free
    Plans      \* what clients may be up to: the requests of each connection

\* A request has a method, a URL, the pairs of its query and a body, which comes
\* in chunks and is JSON or not. Between two names of a URL there is a slash.
RestAssumption ==
    /\ Main \notin Conns /\ Nobody \notin Conns \cup {Main}
    /\ \A p \in Plans : \A c \in Conns : \A r \in p[c] :
        /\ r.chunks \in Nat /\ r.json \in BOOLEAN
        /\ r.url \in Seq(ToSet(r.url))
        /\ \A i \in 2 .. Len(r.url) : Slash \in {r.url[i - 1], r.url[i]}
        /\ r.query \in Seq(ToSet(r.query))
        /\ \A i \in DOMAIN r.query : DOMAIN r.query[i] = {"key", "value"}

ASSUME RestAssumption

VARIABLES
    plan,       \* the plan of the clients, which stays as it is
    status,     \* the global status
    signalled,  \* SIGINT was handled
    duty,       \* where main() is
    daemon,     \* the daemon of libmicrohttpd
    handlers,   \* svr->handlers
    freed,      \* those of them that were freed
    lock,       \* who holds svr->lock
    pc,         \* where each connection's thread is
    req,        \* its request
    got,        \* m_data: the number of the chunk at each place of it
    nurl,       \* the normalized URL
    pos,        \* its place in the list of handlers
    hit,        \* the handlers it has found: none or one
    reply       \* the code of its reply, and what a reply of status says

mainVars == <<duty, daemon, handlers, freed>>
connVars == <<pc, req, got, nurl, pos, hit, reply>>
restVars == <<plan, status, signalled, lock, mainVars, connVars>>

NoReply == [code |-> 0, says |-> "nothing"]
NoRequest == [method |-> "GET", url |-> <<>>, query |-> <<>>, chunks |-> 0, json |-> FALSE]

RestInit ==
    /\ plan \in Plans
    /\ status = "unconfigured"
    /\ signalled = FALSE
    /\ duty = "start"
    /\ daemon = "none"
    /\ handlers = <<>>
    /\ freed = {}
    /\ lock = Nobody
    /\ pc = [c \in Conns |-> "idle"]
    /\ req = [c \in Conns |-> NoRequest]
    /\ got = [c \in Conns |-> <<>>]
    /\ nurl = [c \in Conns |-> <<>>]
    /\ pos = [c \in Conns |-> 0]
    /\ hit = [c \in Conns |-> {}]
    /\ reply = [c \in Conns |-> NoReply]

Ready == {"unconfigured", "configured", "running"}

\* All that clients may ask for.
Requests == UNION {p[c] : p \in Plans, c \in Conns}

-----------------------------------------------------------------------------
(* main(): adeptness_service_start and adeptness_service_stop.             *)

Duty(here, next) == duty = here /\ duty' = next

StartDaemon ==
    /\ Duty("start", "register")
    /\ daemon' = "up"
    /\ UNCHANGED <<status, signalled, lock, handlers, freed, connVars>>

\* The port is taken: the server is freed and main() returns.
FailDaemon ==
    /\ Duty("start", "ended")
    /\ UNCHANGED <<status, signalled, lock, daemon, handlers, freed, connVars>>

\* Its place when the last handler is registered.
Registered ==
    Duty("register", IF Len(handlers) + 1 = Len(Handlers) THEN "defaults" ELSE "register")

\* A fault: the handler becomes the last one of the list.
RegisterLast ==
    /\ Registered
    /\ lock = Nobody
    /\ handlers' = Append(handlers, Handlers[Len(handlers) + 1])
    /\ UNCHANGED <<status, signalled, lock, daemon, freed, connVars>>

\* The handler becomes the first one of the list, under the lock, which nothing
\* else can want for longer.
Register ==
    /\ Registered
    /\ lock = Nobody
    /\ handlers' = <<Handlers[Len(handlers) + 1]>> \o handlers
    /\ UNCHANGED <<status, signalled, lock, daemon, freed, connVars>>

\* SIGINT, which is handled when the handlers are registered.
Signal ==
    /\ duty \in {"defaults", "serve"} /\ ~signalled
    /\ signalled' = TRUE
    /\ status' = "exit_ms"
    /\ UNCHANGED <<lock, mainVars, connVars>>

\* What requests have made of the status until now is lost.
SetStatus ==
    /\ Duty("defaults", "serve")
    /\ status' = "unconfigured"
    /\ UNCHANGED <<signalled, lock, daemon, handlers, freed, connVars>>

TestExit ==
    /\ Duty("serve", "stop")
    /\ status = "exit_ms"
    /\ UNCHANGED <<status, signalled, lock, daemon, handlers, freed, connVars>>

\* A fault: the server is locked while it is stopped.
StopLocked ==
    /\ Duty("stop", "join")
    /\ lock = Nobody
    /\ lock' = Main
    /\ daemon' = "closing"
    /\ UNCHANGED <<status, signalled, handlers, freed, connVars>>

\* MHD_stop_daemon: no new connection, and those that are uploading are closed.
Stop ==
    /\ Duty("stop", "join")
    /\ daemon' = "closing"
    /\ UNCHANGED <<status, signalled, lock, handlers, freed, connVars>>

\* A fault: nobody waits for the threads.
JoinNobody ==
    /\ Duty("join", "free")
    /\ daemon' = "stopped"
    /\ UNCHANGED <<status, signalled, lock, handlers, freed, connVars>>

\* It waits for the threads of the connections.
Join ==
    /\ Duty("join", "free")
    /\ \A c \in Conns : pc[c] = "idle"
    /\ daemon' = "stopped"
    /\ UNCHANGED <<status, signalled, lock, handlers, freed, connVars>>

FreeHandler ==
    /\ Duty("free", IF Len(handlers) = 1 THEN "ended" ELSE "free")
    /\ freed' = freed \cup {Head(handlers)}
    /\ handlers' = Tail(handlers)
    /\ UNCHANGED <<status, signalled, lock, daemon, connVars>>

MainStep ==
    \/ StartDaemon \/ FailDaemon \/ Register
    \/ TestExit \/ Stop \/ Join \/ FreeHandler

-----------------------------------------------------------------------------
(* http_handler.                                                           *)

Goto(c, here, next) == pc[c] = here /\ pc' = [pc EXCEPT ![c] = next]

Shared == <<status, signalled, lock, mainVars>>

\* A client connects, or sends its next request; the first call of http_handler
\* makes its context.
Accept(c) ==
    /\ Goto(c, "idle", "upload")
    /\ daemon = "up"
    /\ \E r \in plan[c] : req' = [req EXCEPT ![c] = r]
    /\ UNCHANGED <<Shared, got, nurl, pos, hit, reply>>

\* A fault: each chunk is copied to the start of m_data; 0 is what was there.
UploadFirst(c) ==
    /\ pc[c] = "upload" /\ Len(got[c]) < req[c].chunks
    /\ LET n == Len(got[c]) + 1 IN
        got' = [got EXCEPT ![c] = [i \in 1 .. n |-> IF i = 1 THEN n ELSE 0]]
    /\ UNCHANGED <<Shared, pc, req, nurl, pos, hit, reply>>

Upload(c) ==
    /\ pc[c] = "upload" /\ Len(got[c]) < req[c].chunks
    /\ got' = [got EXCEPT ![c] = Append(@, Len(@) + 1)]
    /\ UNCHANGED <<Shared, pc, req, nurl, pos, hit, reply>>

\* The thread has nothing more to do for its request.
Forget(c) ==
    /\ req' = [req EXCEPT ![c] = NoRequest]
    /\ got' = [got EXCEPT ![c] = <<>>]
    /\ nurl' = [nurl EXCEPT ![c] = <<>>]
    /\ pos' = [pos EXCEPT ![c] = 0]
    /\ hit' = [hit EXCEPT ![c] = {}]
    /\ reply' = [reply EXCEPT ![c] = NoReply]

\* The client goes away, or the daemon closes the connection: http_handler is
\* not called again, and nobody frees the context.
LoseUpload(c) ==
    /\ Goto(c, "upload", "idle")
    /\ Len(got[c]) < req[c].chunks
    /\ Forget(c)
    /\ UNCHANGED Shared

Replies(c, here, answer) ==
    /\ Goto(c, here, "reply")
    /\ reply' = [reply EXCEPT ![c] = answer]

Code(n) == [code |-> n, says |-> "nothing"]

\* The last call, with the whole body.
Complete(c) ==
    /\ pc[c] = "upload" /\ Len(got[c]) = req[c].chunks
    /\ IF ~IsRoot(req[c].url)
       THEN /\ Goto(c, "upload", "find")
            /\ nurl' = [nurl EXCEPT ![c] = Normalize(req[c].url)]
            /\ UNCHANGED reply
       ELSE /\ IF req[c].method = "GET" THEN Goto(c, "upload", "list") /\ UNCHANGED reply
                                        ELSE Replies(c, "upload", Code(405))
            /\ UNCHANGED nurl
    /\ UNCHANGED <<Shared, req, got, pos, hit>>

\* Both walks over the list of handlers, under the lock.
List(c) ==
    /\ lock = Nobody
    /\ Replies(c, "list", Code(200))
    /\ UNCHANGED <<Shared, req, got, nurl, pos, hit>>

LockToFind(c) ==
    /\ Goto(c, "find", "walk")
    /\ lock = Nobody
    /\ lock' = c
    /\ pos' = [pos EXCEPT ![c] = 1]
    /\ UNCHANGED <<status, signalled, mainVars, req, got, nurl, hit, reply>>

AtEnd(c) == pos[c] > Len(handlers)
AtHit(c) == ~AtEnd(c) /\ Matches(handlers[pos[c]], nurl[c])

\* A fault: the walk goes on at the end of the list.
WalkPast(c) ==
    /\ pc[c] = "walk"
    /\ ~AtHit(c)
    /\ pos' = [pos EXCEPT ![c] = @ + 1]
    /\ UNCHANGED <<Shared, pc, req, got, nurl, hit, reply>>

Walk(c) ==
    /\ pc[c] = "walk"
    /\ ~AtEnd(c) /\ ~AtHit(c)
    /\ pos' = [pos EXCEPT ![c] = @ + 1]
    /\ UNCHANGED <<Shared, pc, req, got, nurl, hit, reply>>

EndWalk(c) ==
    /\ Goto(c, "walk", "unlock")
    /\ AtEnd(c) \/ AtHit(c)
    /\ hit' = [hit EXCEPT ![c] = IF AtHit(c) THEN {handlers[pos[c]]} ELSE {}]
    /\ pos' = [pos EXCEPT ![c] = 0]
    /\ UNCHANGED <<Shared, req, got, nurl, reply>>

\* A fault: the lock is given back only with a handler.
UnlockHit(c) ==
    /\ lock' = IF hit[c] = {} THEN lock ELSE Nobody
    /\ IF hit[c] = {} THEN Replies(c, "unlock", Code(404))
                      ELSE Goto(c, "unlock", "call") /\ UNCHANGED reply
    /\ UNCHANGED <<status, signalled, mainVars, req, got, nurl, pos, hit>>

Unlock(c) ==
    /\ lock' = Nobody
    /\ IF hit[c] = {} THEN Replies(c, "unlock", Code(404))
                      ELSE Goto(c, "unlock", "call") /\ UNCHANGED reply
    /\ UNCHANGED <<status, signalled, mainVars, req, got, nurl, pos, hit>>

-----------------------------------------------------------------------------
(* The handlers, which may find the status changed under them.             *)

Found(c)    == CHOOSE h \in hit[c] : TRUE
RestOf(c)   == Remainder(Found(c), nurl[c])
BadBody(c)  == req[c].method \in {"PUT", "POST"} /\ (req[c].chunks = 0 \/ ~req[c].json)
Allowed(c)  == hit[c] # {} /\ req[c].method \in Methods(Found(c))

\* A method that the handler does not take; ping, info and metrics, which
\* only read; and the answers of the specific handler without an operation.
Direct(c) ==
    /\ Replies(c, "call",
        Code(IF ~Allowed(c) THEN 405
             ELSE IF Found(c) # Specific THEN 200
             ELSE IF BadBody(c) THEN 400
             ELSE CodeOf("RESOURCE_NOT_FOUND")))
    /\ ~Allowed(c) \/ Found(c) \in {Ping, Info, Metrics}
       \/ (Found(c) = Specific
           /\ (BadBody(c) \/ RestOf(c) \notin Served(req[c].method)))
    /\ UNCHANGED <<Shared, req, got, nurl, pos, hit>>

\* adeptness_status_handler reads the status once for what it says,
Says(s) == IF s \in Ready THEN "ready" ELSE "Unknown error"

StatusBody(c) ==
    /\ Allowed(c) /\ Found(c) = Status
    /\ Goto(c, "call", "status")
    /\ reply' = [reply EXCEPT ![c].says = Says(status)]
    /\ UNCHANGED <<Shared, req, got, nurl, pos, hit>>

\* A fault: a monitor without sensors is no longer ready.
StatusCodeConfigured(c) ==
    /\ Replies(c, "status",
               [reply[c] EXCEPT !.code = IF status \in Ready \ {"unconfigured"}
                                         THEN 200 ELSE 409])
    /\ UNCHANGED <<Shared, req, got, nurl, pos, hit>>

\* and once more for the code.
StatusCode(c) ==
    /\ Replies(c, "status", [reply[c] EXCEPT !.code = IF status \in Ready THEN 200 ELSE 409])
    /\ UNCHANGED <<Shared, req, got, nurl, pos, hit>>

\* The specific handler calls an operation, with the pairs of the query.
Call(c) ==
    /\ Allowed(c) /\ Found(c) = Specific
    /\ ~BadBody(c) /\ RestOf(c) \in Served(req[c].method)
    /\ Goto(c, "call", "operation")
    /\ UNCHANGED <<Shared, req, got, nurl, pos, hit, reply>>

\* The operation gives response r and leaves the status as new.
Return(c, r, new) ==
    /\ Replies(c, "operation", Code(CodeOf(r)))
    /\ status' = new
    /\ UNCHANGED <<signalled, lock, mainVars, req, got, nurl, pos, hit>>

\* MHD_queue_response, and the context is freed.
Reply(c) ==
    /\ Goto(c, "reply", "idle")
    /\ Forget(c)
    /\ UNCHANGED Shared

\* The steps for which the thread needs neither the client nor the lock.
ThreadStep(c) ==
    \/ Complete(c) \/ Walk(c) \/ EndWalk(c) \/ Unlock(c)
    \/ Direct(c) \/ StatusBody(c) \/ StatusCode(c) \/ Call(c) \/ Reply(c)

-----------------------------------------------------------------------------
(* Properties.                                                             *)

MainTypeOK ==
    /\ status \in Ready \cup {"exit_ms"} /\ signalled \in BOOLEAN
    /\ duty \in {"start", "register", "defaults", "serve", "stop", "join", "free", "ended"}
    /\ daemon \in {"none", "up", "closing", "stopped"}
    /\ handlers \in Seq(ToSet(Handlers))
    /\ freed \subseteq ToSet(Handlers)
    /\ lock \in Conns \cup {Main, Nobody}

Labels == {"idle", "upload", "list", "find", "walk", "unlock", "call", "status",
           "operation", "reply"}
Codes   == {0, 200, 400, 404, 405, 409}
Bodies  == {"nothing", "ready", "Unknown error"}
Answers == [code : Codes, says : Bodies]

ConnTypeOK ==
    /\ pc \in [Conns -> Labels]
    /\ req \in [Conns -> Requests \cup {NoRequest}]
    /\ got \in [Conns -> Seq(Nat)]
    /\ DOMAIN nurl = Conns
    /\ pos \in [Conns -> 0 .. Len(Handlers) + 1]
    /\ hit \in [Conns -> SUBSET ToSet(Handlers)]
    /\ reply \in [Conns -> Answers]

RestTypeOK == plan \in Plans /\ MainTypeOK /\ ConnTypeOK

\* The names in a URL; the URL h names a directory or a place.
Names(url) == Keep(url, {i \in DOMAIN url : url[i] # Slash})
Covers(h, url) ==
    LET inside == Len(Names(url)) > Len(Names(h)) \/ Last(url) = Slash
    IN  /\ Head(url) = Slash
        /\ IsPrefix(Names(h), Names(url))
        /\ IF Last(h) = Slash THEN inside ELSE ~inside

\* A request is served by the handler with the longest URL that covers its own,
\* whatever slashes it has too many, of those that are registered when the
\* thread looks for it (rest-server.c:66-85, 187-195, adeptnessSvc.c:359-364).
RightHandler ==
    \A c \in Conns : pc[c] = "unlock" =>
        LET fit == {h \in ToSet(handlers) : Covers(h, req[c].url)}
        IN  hit[c] = {h \in fit : \A k \in fit : Len(k) <= Len(h)}

\* The handlers a thread may still read.
Reads(c) ==
    CASE pc[c] = "walk"                         -> {handlers[i] : i \in pos[c] .. Len(handlers)}
      [] pc[c] \in {"unlock", "call", "status"} -> hit[c]
      [] OTHER                                  -> {}

\* No thread reads a handler that was freed, although it holds one after it
\* gave the lock back; and none is left that may ask for the lock
\* (rest-server.c:195-204, 286-297).
NoFreedUse ==
    /\ \A c \in Conns : Reads(c) \cap freed = {}
    /\ freed # {} => \A c \in Conns : pc[c] \notin {"list", "find", "walk", "unlock"}

\* An operation gets the whole body, in order, and every id of the query
\* (rest-server.c:98-117, 143-150).
WholeRequest ==
    \A c \in Conns : pc[c] = "operation" =>
        /\ got[c] = [i \in 1 .. req[c].chunks |-> i]
        /\ \A a \in ToSet(req[c].query) :
            a.key = "id" => a \in ToSet(QueryPairs(req[c].query))

\* What an answer to status says and its code agree, although the status is
\* read twice: only SIGINT, or a handler that undoes it, comes in between
\* (adeptnessSvc.c:159, 179).
StatusAgrees ==
    \A c \in Conns :
        pc[c] = "reply" /\ reply[c].says # "nothing" /\ ~signalled
            => (reply[c].code = 200) <=> (reply[c].says = "ready")
=============================================================================
