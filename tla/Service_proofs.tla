---------------------------- MODULE Service_proofs ----------------------------
(***************************************************************************)
(* What holds of the service however many connections there are, whatever  *)
(* they ask and however their threads interleave: types, no use of a freed *)
(* handler, whole requests that reach the right handler, an answer of      *)
(* status that agrees with itself, and what a GET of the CAN connection    *)
(* shows after PUTs that cross.                                            *)
(***************************************************************************)
EXTENDS Service, DataLemmas, TLAPS

\* No thread is at work on a request.
AllIdle == \A c \in Conns : pc[c] = "idle"

\* Handlers are freed by a main() that has joined every thread, and the daemon
\* starts no more of them: this is inductive.
FreedWhenIdle ==
    /\ duty = "free" \/ freed # {} => daemon = "stopped" /\ AllIdle
    /\ duty \in {"start", "register", "defaults", "serve", "stop", "join"} => freed = {}

\* The start of the process has none of this state.
LEMMA InitFreed == Init => FreedWhenIdle
BY DEF Init, RestInit, FreedWhenIdle, AllIdle

\* main() frees handlers after it has joined the threads, not before.
LEMMA MainFreed ==
    ASSUME FreedWhenIdle, MainStep
    PROVE  FreedWhenIdle'
<1> USE DEF FreedWhenIdle, AllIdle, Duty, connVars
<1>1. CASE StartDaemon
  BY <1>1 DEF StartDaemon
<1>2. CASE FailDaemon
  BY <1>2 DEF FailDaemon
<1>3. CASE Register
  BY <1>3 DEF Register, Registered
<1>4. CASE TestExit
  BY <1>4 DEF TestExit
<1>5. CASE Stop
  BY <1>5 DEF Stop
<1>6. CASE Join
  BY <1>6 DEF Join
<1>7. CASE FreeHandler
  BY <1>7 DEF FreeHandler
<1> QED
  BY <1>1, <1>2, <1>3, <1>4, <1>5, <1>6, <1>7 DEF MainStep

\* A thread that takes a step is at work, so nothing was freed; and one starts to
\* work only while the daemon takes connections.
LEMMA ThreadFreed ==
    ASSUME FreedWhenIdle, NEW c \in Conns,
           pc[c] # "idle" \/ daemon = "up",
           UNCHANGED mainVars
    PROVE  FreedWhenIdle'
<1>1. ~(duty = "free" \/ freed # {})
  BY DEF FreedWhenIdle, AllIdle
<1> QED
  BY <1>1 DEF FreedWhenIdle, mainVars

\* The steps of one thread are of that kind.
LEMMA ThreadMoves ==
    ASSUME NEW c \in Conns,
           \/ Accept(c) \/ Upload(c) \/ LoseUpload(c) \/ Locking(c)
           \/ ThreadStep(c) \/ Operation(c)
    PROVE  /\ pc[c] # "idle" \/ daemon = "up"
           /\ UNCHANGED mainVars
<1> USE DEF Goto, Shared, mainVars, Replies, restVars
<1>1. CASE Accept(c)
  BY <1>1 DEF Accept
<1>2. CASE Upload(c)
  BY <1>2 DEF Upload
<1>3. CASE LoseUpload(c)
  BY <1>3 DEF LoseUpload
<1>4. CASE Locking(c)
  BY <1>4 DEF Locking, List, LockToFind
<1>5. CASE ThreadStep(c)
  <2>1. CASE Complete(c)
    BY <2>1 DEF Complete
  <2>2. CASE Walk(c)
    BY <2>2 DEF Walk
  <2>3. CASE EndWalk(c)
    BY <2>3 DEF EndWalk
  <2>4. CASE Unlock(c)
    BY <2>4 DEF Unlock
  <2>5. CASE Direct(c)
    BY <2>5 DEF Direct
  <2>6. CASE StatusBody(c)
    BY <2>6 DEF StatusBody
  <2>7. CASE StatusCode(c)
    BY <2>7 DEF StatusCode
  <2>8. CASE Call(c)
    BY <2>8 DEF Call
  <2>9. CASE Reply(c)
    BY <2>9 DEF Reply
  <2> QED
    BY <1>5, <2>1, <2>2, <2>3, <2>4, <2>5, <2>6, <2>7, <2>8, <2>9 DEF ThreadStep
<1>6. CASE Operation(c)
  <2>1. pc[c] = "operation"
    BY <1>6 DEF Operation
  <2>2. CASE UNCHANGED restVars
    BY <2>1, <2>2 DEF connVars
  <2>3. CASE \E r \in {"OK", "ERROR"} : \E new : Return(c, r, new)
    BY <2>1, <2>3 DEF Return
  <2>4. UNCHANGED restVars \/ \E r \in {"OK", "ERROR"} : \E new : Return(c, r, new)
    BY <1>6 DEF Operation, Operate, ReadStatus, OtherOperation, Put, Get
  <2> QED
    BY <2>2, <2>3, <2>4
<1> QED
  BY <1>1, <1>2, <1>3, <1>4, <1>5, <1>6

\* Every step of the process keeps it.
LEMMA StepFreed == FreedWhenIdle /\ [Next]_vars => FreedWhenIdle'
<1> SUFFICES ASSUME FreedWhenIdle, [Next]_vars
             PROVE  FreedWhenIdle'
  OBVIOUS
<1>1. CASE UNCHANGED restVars
  BY <1>1 DEF FreedWhenIdle, AllIdle, restVars, mainVars, connVars
<1>2. CASE MainStep
  BY <1>2, MainFreed
<1>3. CASE Defaults
  BY <1>3 DEF Defaults, SetStatus, Duty, FreedWhenIdle, AllIdle, connVars
<1>4. CASE Signal
  BY <1>4 DEF Signal, FreedWhenIdle, AllIdle, mainVars, connVars
<1>5. CASE \E c \in Conns : \/ Accept(c) \/ Upload(c) \/ LoseUpload(c)
                            \/ Locking(c) \/ ThreadStep(c) \/ Operation(c)
  <2>1. PICK c \in Conns : \/ Accept(c) \/ Upload(c) \/ LoseUpload(c)
                           \/ Locking(c) \/ ThreadStep(c) \/ Operation(c)
    BY <1>5
  <2> QED
    BY <2>1, ThreadMoves, ThreadFreed
<1>6. \/ UNCHANGED restVars \/ MainStep \/ Defaults \/ Signal
      \/ \E c \in Conns : \/ Accept(c) \/ Upload(c) \/ LoseUpload(c)
                          \/ Locking(c) \/ ThreadStep(c) \/ Operation(c)
  BY DEF Next, Server, vars
<1> QED
  BY <1>1, <1>2, <1>3, <1>4, <1>5, <1>6

\* A thread that is at no request reads no handler.
LEMMA IdleReadsNothing ==
    ASSUME NEW c \in Conns, pc[c] = "idle"
    PROVE  Reads(c) = {}
BY DEF Reads

\* What is inductive is enough.
LEMMA FreedEnough == FreedWhenIdle => NoFreedUse
<1> SUFFICES ASSUME FreedWhenIdle
             PROVE  NoFreedUse
  OBVIOUS
<1>1. CASE freed = {}
  BY <1>1 DEF NoFreedUse
<1>2. CASE freed # {}
  <2>1. \A c \in Conns : pc[c] = "idle"
    BY <1>2 DEF FreedWhenIdle, AllIdle
  <2>2. \A c \in Conns : Reads(c) = {}
    BY <2>1, IdleReadsNothing
  <2> QED
    BY <2>1, <2>2 DEF NoFreedUse
<1> QED
  BY <1>1, <1>2

\* Whatever requests come, and however many at once, no thread of the server
\* reads a handler that main() has freed, although it keeps one after it has
\* given the lock back (rest-server.c:187-204, 283-298).
THEOREM HandlersOutliveThreads == Spec => []NoFreedUse
<1>1. Init => FreedWhenIdle
  BY InitFreed
<1>2. FreedWhenIdle /\ [Next]_vars => FreedWhenIdle'
  BY StepFreed
<1>3. FreedWhenIdle => NoFreedUse
  BY FreedEnough
<1> QED
  BY <1>1, <1>2, <1>3, PTL DEF Spec

-----------------------------------------------------------------------------
(* The CAN connection. Any number of threads may write and read it.        *)

\* No PUT is at work.
NoPut == \A c \in Callers : at[c] \notin Putting

\* One PUT at most is at work, and it has found a port before it ends well.
OnePut ==
    /\ \A c, d \in Callers : at[c] \in Putting /\ at[d] \in Putting => c = d
    /\ \A c \in Callers : at[c] = "up" => can.port # NoValue

\* What the way in which the settings were written last says of them: this is
\* inductive.
PortKnown ==
    /\ DOMAIN can = DOMAIN Unset
    /\ DOMAIN last = {"how", "shown"}
    /\ DOMAIN at = Callers
    /\ last.how = "none" =>
        can.id = NoValue /\ NoPut /\ (\A c \in Callers : at[c] # "readPort")
    /\ last.how = "accepted" => can.port # NoValue /\ NoPut
    /\ last.how = "rejected" => NoPut
    /\ last.how = "busy" => OnePut

\* It holds before main() and any request.
LEMMA InitPort == Init => PortKnown
BY DEF Init, CanInit, PortKnown, NoPut, OnePut, Unset, Putting

\* A PUT that begins is alone, or its settings mix with those of another one.
LEMMA BeginsKnown ==
    ASSUME PortKnown, NEW c \in Callers, at[c] = "idle", Begins,
           NEW next, next # "up", at' = [at EXCEPT ![c] = next],
           DOMAIN can' = DOMAIN Unset
    PROVE  PortKnown'
<1>1. last'.how = "mixed" \/ (last'.how = "busy" /\ NoPut)
  BY DEF Begins, Writes, NoPut
<1>2. DOMAIN last' = {"how", "shown"} /\ DOMAIN at' = Callers
  BY DEF Begins, Writes, PortKnown
<1>3. CASE last'.how = "mixed"
  BY <1>2, <1>3 DEF PortKnown
<1>4. CASE last'.how = "busy" /\ NoPut
  <2>1. \A d \in Callers : d # c => at'[d] \notin Putting
    BY <1>4 DEF NoPut, PortKnown
  <2>2. \A d \in Callers : at'[d] # "up"
    BY <2>1 DEF PortKnown, Putting
  <2>3. OnePut'
    BY <2>1, <2>2 DEF OnePut
  <2> QED
    BY <1>2, <1>4, <2>3 DEF PortKnown
<1> QED
  BY <1>1, <1>3, <1>4

\* A step in the middle of a PUT leaves the way in which it is written: it is the
\* only one, or there is nothing to show.
LEMMA MiddleKnown ==
    ASSUME PortKnown, NEW c \in Callers, at[c] \in Putting,
           Writes(last.how), at' = [at EXCEPT ![c] = at'[c]],
           at'[c] \in Putting, at'[c] = "up" => can'.port # NoValue,
           DOMAIN can' = DOMAIN Unset
    PROVE  PortKnown'
<1>1. last'.how = last.how /\ last.how \notin {"none", "accepted", "rejected"}
  BY DEF Writes, PortKnown, NoPut
<1>2. DOMAIN last' = {"how", "shown"} /\ DOMAIN at' = Callers
  BY DEF Writes, PortKnown
<1>3. CASE last.how = "busy"
  <2>1. \A d \in Callers : d # c => at'[d] = at[d] /\ at[d] \notin Putting
    BY <1>3 DEF PortKnown, OnePut
  <2>2. OnePut'
    BY <2>1 DEF OnePut, Putting
  <2> QED
    BY <1>1, <1>2, <1>3, <2>2 DEF PortKnown
<1> QED
  BY <1>1, <1>2, <1>3 DEF PortKnown

\* Every step of a PUT up to its end.
LEMMA PutKnown ==
    ASSUME PortKnown, NEW c \in Callers, NEW b, PutStep(c, b)
    PROVE  PortKnown' /\ UNCHANGED crashed
<1>0. UNCHANGED crashed
  BY DEF PutStep, PutId, PutIncomplete, ClearPort, ClearRate, PutSetting,
         RejectSetting, CheckBoth, Begins, Writes
<1>1. CASE PutId(c, b)
  <2>1. DOMAIN can' = DOMAIN Unset
    BY <1>1 DEF PutId, PortKnown
  <2>2. CASE at' = [at EXCEPT ![c] = "port"]
    BY <1>0, <1>1, <2>1, <2>2, BeginsKnown DEF PutId, Step
  <2>3. CASE at' = [at EXCEPT ![c] = "reject"]
    BY <1>0, <1>1, <2>1, <2>3, BeginsKnown DEF PutId, Step
  <2> QED
    BY <1>0, <1>1, <2>2, <2>3 DEF PutId, Step
<1>2. CASE PutIncomplete(c, b)
  <2>1. DOMAIN can' = DOMAIN Unset
    BY <1>2 DEF PutIncomplete, PortKnown
  <2> QED
    BY <1>0, <1>2, <2>1, BeginsKnown DEF PutIncomplete, Step
<1>3. CASE ClearPort(c)
  BY <1>0, <1>3, MiddleKnown DEF ClearPort, Step, Putting, PortKnown
<1>4. CASE ClearRate(c)
  BY <1>0, <1>4, MiddleKnown DEF ClearRate, Step, Putting, PortKnown
<1>5. CASE PutSetting(c, b)
  <2>1. DOMAIN can' = DOMAIN Unset
    BY <1>5 DEF PutSetting, PortKnown
  <2>2. at' = [at EXCEPT ![c] = at'[c]] /\ at'[c] \in {"check", "setting"}
    BY <1>5 DEF PutSetting, PortKnown
  <2> QED
    BY <1>0, <1>5, <2>1, <2>2, MiddleKnown DEF PutSetting, Putting
<1>6. CASE RejectSetting(c, b)
  BY <1>0, <1>6, MiddleKnown DEF RejectSetting, Step, Putting, PortKnown
<1>7. CASE CheckBoth(c)
  <2>1. DOMAIN can' = DOMAIN Unset
    BY <1>7 DEF CheckBoth, PortKnown
  <2>2. /\ at' = [at EXCEPT ![c] = at'[c]] /\ at'[c] \in {"reject", "up"}
        /\ at'[c] = "up" => can'.port # NoValue
    BY <1>7 DEF CheckBoth, Step, PortKnown
  <2> QED
    BY <1>0, <1>7, <2>1, <2>2, MiddleKnown DEF CheckBoth, Step, Putting
<1> QED
  BY <1>1, <1>2, <1>3, <1>4, <1>5, <1>6, <1>7 DEF PutStep

\* The end of a PUT that was alone tells how it ended.
LEMMA EndPutKnown ==
    ASSUME PortKnown, NEW c \in Callers, NEW b, NEW r, EndPut(c, b, r)
    PROVE  PortKnown' /\ UNCHANGED crashed
<1>1. /\ UNCHANGED <<can, crashed>>
      /\ DOMAIN at' = Callers /\ at[c] \in Putting
      /\ \A d \in Callers : at'[d] = IF d = c THEN "idle" ELSE at[d]
  BY DEF EndPut, Step, PortKnown, Putting
<1>2. CASE last.how # "busy"
  <2>1. last' = last
    BY <1>2 DEF EndPut
  <2> QED
    BY <1>1, <1>2, <2>1 DEF PortKnown, NoPut
<1>3. CASE last.how = "busy"
  <2>1. NoPut'
    BY <1>1, <1>3 DEF PortKnown, OnePut, NoPut, Putting
  <2>2. \/ last'.how = "rejected"
        \/ last'.how = "accepted" /\ at[c] = "up"
    BY <1>3 DEF EndPut, Step
  <2>3. DOMAIN last' = {"how", "shown"}
    BY <1>3 DEF EndPut
  <2>4. last'.how = "accepted" => can'.port # NoValue
    BY <1>1, <1>3, <2>2 DEF PortKnown, OnePut
  <2> QED
    BY <1>1, <2>1, <2>2, <2>3, <2>4 DEF PortKnown
<1> QED
  BY <1>1, <1>2, <1>3

\* A GET writes no setting, and looks for the port only when there is an id.
LEMMA GetKnown ==
    ASSUME PortKnown, CrashNeedsReject, NEW c \in Callers,
           GetStep(c) \/ \E r \in {"OK", "ERROR"} : EndGet(c, r)
    PROVE  PortKnown' /\ CrashNeedsReject'
<1>1. /\ UNCHANGED <<can, last>>
      /\ DOMAIN at' = Callers /\ at'[c] \notin Putting
      /\ \A d \in Callers : d # c => at'[d] = at[d]
  BY DEF GetStep, ReadId, ReadPort, ReadRate, EndGet, Step, PortKnown, Putting
<1>2. at'[c] = "readPort" => can.id # NoValue
  BY DEF GetStep, ReadId, ReadPort, ReadRate, EndGet, Step, PortKnown
<1>3. PortKnown'
  BY <1>1, <1>2 DEF PortKnown, NoPut, OnePut, Putting
<1>4. CASE ReadPort(c)
  BY <1>1, <1>3, <1>4 DEF ReadPort, Step, PortKnown, CrashNeedsReject
<1>5. CASE UNCHANGED crashed
  BY <1>1, <1>3, <1>5 DEF CrashNeedsReject
<1> QED
  BY <1>4, <1>5 DEF GetStep, ReadId, ReadRate, EndGet

\* The defaults come with a port, whatever PUT they come across.
LEMMA DefaultsKnown ==
    ASSUME PortKnown, SetDefaults
    PROVE  PortKnown' /\ UNCHANGED crashed /\ last'.how = "defaults"
BY DEF SetDefaults, Writes, PortKnown

\* What the server does with the CAN connection.
LEMMA OperationKnown ==
    ASSUME PortKnown, CrashNeedsReject, Serving, Conns = Callers,
           NEW c \in Conns, Operation(c)
    PROVE  PortKnown' /\ CrashNeedsReject'
<1>1. CASE Operate(c)
  BY <1>1 DEF Operate, canVars, PortKnown, NoPut, OnePut, CrashNeedsReject
<1>2. CASE Put(c)
  <2>1. PortKnown' /\ UNCHANGED crashed
    BY <1>2, PutKnown, EndPutKnown DEF Put
  <2> QED
    BY <2>1 DEF Serving, CrashNeedsReject
<1>3. CASE Get(c)
  BY <1>3, GetKnown DEF Get
<1> QED
  BY <1>1, <1>2, <1>3 DEF Operation

\* Every step of the process keeps it.
LEMMA StepPort ==
    ASSUME Conns = Callers, PortKnown, CrashNeedsReject, [Next]_vars
    PROVE  PortKnown' /\ CrashNeedsReject'
<1>1. CASE UNCHANGED canVars
  BY <1>1 DEF canVars, PortKnown, NoPut, OnePut, CrashNeedsReject
<1>2. CASE Defaults
  BY <1>2, DefaultsKnown DEF Defaults, CrashNeedsReject
<1>3. CASE \E c \in Conns : Serving /\ Operation(c)
  BY <1>3, OperationKnown
<1>4. UNCHANGED canVars \/ Defaults \/ \E c \in Conns : Serving /\ Operation(c)
  BY DEF Next, Server, vars
<1> QED
  BY <1>1, <1>2, <1>3, <1>4

\* However many PUTs and GETs of the CAN connection cross each other and the
\* defaults of main(), a GET copies NULL only while a PUT is at work, or after one
\* that was rejected or mixed with another write (impl.c:140-280,
\* CanMonitor.c:602-603).
THEOREM CrashIsRejected == Spec => []CrashNeedsReject
<1>1. Init => PortKnown /\ CrashNeedsReject
  BY InitPort DEF Init, CanInit, CrashNeedsReject
<1>2. PortKnown /\ CrashNeedsReject /\ [Next]_vars => PortKnown' /\ CrashNeedsReject'
  BY StepPort, ServiceAssumption
<1> QED
  BY <1>1, <1>2, PTL DEF Spec

-----------------------------------------------------------------------------
(* Types. A thread that walks is at a place of the list of handlers, which *)
(* main() never makes longer than all of them.                             *)

\* What main() keeps of its list, and the threads of their places in it.
ListKept ==
    /\ Len(handlers) <= Len(Handlers)
    /\ duty = "start" => handlers = <<>>
    /\ duty = "register" => Len(handlers) < Len(Handlers)
    /\ duty \in {"defaults", "serve", "stop", "join", "free"} => handlers # <<>>

WalksKept == \A c \in Conns : pc[c] = "walk" => pos[c] # 0

RestInv == RestTypeOK /\ ListKept /\ WalksKept

\* The handlers are five.
LEMMA FiveHandlers ==
    /\ Len(Handlers) = 5
    /\ \A i \in 1 .. 5 : Handlers[i] \in ToSet(Handlers)
    /\ ToSet(Handlers) = {Specific, Ping, Info, Metrics, Status}
<1>1. Len(Handlers) = 5 /\ DOMAIN Handlers = 1 .. 5
    BY DEF Handlers
<1>2. ToSet(Handlers) = {Handlers[i] : i \in 1 .. 5}
    BY <1>1 DEF ToSet
<1>3. \A i \in 1 .. 5 : Handlers[i] \in {Specific, Ping, Info, Metrics, Status}
    BY DEF Handlers
<1>4. /\ Handlers[1] = Specific /\ Handlers[2] = Ping /\ Handlers[3] = Info
      /\ Handlers[4] = Metrics /\ Handlers[5] = Status
    BY DEF Handlers
<1>5. \A h \in {Specific, Ping, Info, Metrics, Status} : \E i \in 1 .. 5 : h = Handlers[i]
    BY <1>4
<1> QED BY <1>1, <1>2, <1>3, <1>5

\* The options, the file and the environment.
LEMMA StartTypes == StartTypeOK /\ StartStep => StartTypeOK'
BY DEF StartTypeOK, StartStep, GiveUp, TakeOption, ReadEnvironment, ReadFile, NewService, Exit,
       Continue

\* RestInv holds initially.
LEMMA RestInvInit == RestInit => RestInv
<1> SUFFICES ASSUME RestInit PROVE RestInv
    OBVIOUS
<1>1. <<>> \in Seq(Nat) /\ <<>> \in Seq(ToSet(Handlers)) /\ Len(<<>>) = 0
    OBVIOUS
<1>2. plan \in Plans /\ MainTypeOK
    BY <1>1 DEF RestInit, MainTypeOK, Ready
<1>3. ConnTypeOK
    <2>1. 0 \in 0 .. Len(Handlers) + 1
        BY FiveHandlers
    <2> QED BY <1>1, <2>1 DEF RestInit, ConnTypeOK, NoReply, Labels, Answers, Codes, Bodies
<1>4. ListKept /\ WalksKept
    BY <1>1, FiveHandlers DEF RestInit, ListKept, WalksKept
<1> QED BY <1>2, <1>3, <1>4 DEF RestInv, RestTypeOK

\* main() keeps its list in order,
LEMMA MainList ==
    ASSUME MainTypeOK, ListKept, MainStep \/ SetStatus \/ Signal
    PROVE  /\ handlers' \in Seq(ToSet(Handlers)) /\ freed' \subseteq ToSet(Handlers)
           /\ ListKept'
<1>0. handlers \in Seq(ToSet(Handlers)) /\ freed \subseteq ToSet(Handlers)
    BY DEF MainTypeOK
<1>1. CASE Register
    <2> DEFINE h == Handlers[Len(handlers) + 1]
    <2>1. /\ duty = "register"
          /\ duty' = IF Len(handlers) + 1 = Len(Handlers) THEN "defaults" ELSE "register"
        <3>1. Registered
            BY <1>1 DEF Register
        <3> QED BY <3>1 DEF Registered, Duty
    <2>2. Len(handlers) \in 0 .. 4 /\ h \in ToSet(Handlers)
        <3>1. Len(handlers) \in Nat /\ Len(Handlers) = 5
            BY <1>0, FiveHandlers
        <3>2. \A n \in Nat : n < 5 => n \in 0 .. 4 /\ n + 1 \in 1 .. 5
            OBVIOUS
        <3> HIDE DEF h
        <3>3. Len(handlers) \in 0 .. 4 /\ Len(handlers) + 1 \in 1 .. 5
            BY <2>1, <3>1, <3>2 DEF ListKept
        <3>4. \A i \in 1 .. 5 : Handlers[i] \in ToSet(Handlers)
            BY FiveHandlers
        <3>5. h = Handlers[Len(handlers) + 1]
            BY DEF h
        <3> QED BY <3>3, <3>4, <3>5
    <2>3. handlers' = <<h>> \o handlers /\ freed' = freed
        BY <1>1 DEF Register
    <2> HIDE DEF h
    <2>4. handlers' \in Seq(ToSet(Handlers)) /\ Len(handlers') = Len(handlers) + 1
        BY <1>0, <2>2, <2>3
    <2> QED BY <1>0, <2>1, <2>3, <2>4, FiveHandlers DEF ListKept
<1>2. CASE FreeHandler
    <2>1. handlers # <<>> /\ duty = "free" /\ Len(handlers) <= 5
        BY <1>2, FiveHandlers DEF FreeHandler, Duty, ListKept
    <2>2. /\ handlers' \in Seq(ToSet(Handlers)) /\ Len(handlers') = Len(handlers) - 1
          /\ freed' \subseteq ToSet(Handlers)
          /\ duty' = IF Len(handlers) = 1 THEN "ended" ELSE "free"
        BY <1>0, <1>2, <2>1 DEF FreeHandler, Duty
    <2> QED BY <1>0, <2>1, <2>2, FiveHandlers DEF ListKept
<1>3. CASE UNCHANGED <<handlers, freed>> /\ ~Register /\ ~FreeHandler
    <2>1. /\ duty' = "start" => duty = "start"
          /\ duty' = "register" => duty = "start"
          /\ duty' \in {"defaults", "serve", "stop", "join", "free"} =>
                 duty \in {"defaults", "serve", "stop", "join", "free"}
        BY <1>3 DEF MainStep, StartDaemon, FailDaemon, TestExit, Stop, Join, SetStatus, Signal,
                    Duty, mainVars
    <2> QED BY <1>0, <1>3, <2>1, FiveHandlers DEF ListKept
<1> QED BY <1>1, <1>2, <1>3 DEF MainStep, StartDaemon, FailDaemon, TestExit, Stop, Join,
                                SetStatus, Signal, mainVars

\* and all the rest.
LEMMA RestInvMain == RestInv /\ UNCHANGED plan /\ (MainStep \/ SetStatus \/ Signal) => RestInv'
<1> SUFFICES ASSUME RestInv, UNCHANGED plan, MainStep \/ SetStatus \/ Signal PROVE RestInv'
    OBVIOUS
<1>0. MainTypeOK /\ ConnTypeOK /\ ListKept /\ WalksKept /\ plan \in Plans
    BY DEF RestInv, RestTypeOK
<1>1. UNCHANGED connVars
    BY DEF MainStep, StartDaemon, FailDaemon, Register, TestExit, Stop, Join, FreeHandler,
           SetStatus, Signal
<1>2. ConnTypeOK' /\ WalksKept'
    BY <1>0, <1>1 DEF ConnTypeOK, WalksKept, connVars
<1>3. MainTypeOK'
    <2>1. status' \in Ready \cup {"exit_ms"} /\ signalled' \in BOOLEAN /\ lock' = lock
        BY <1>0 DEF MainStep, StartDaemon, FailDaemon, Register, TestExit, Stop, Join,
               FreeHandler, SetStatus, Signal, MainTypeOK, Ready
    <2>2. /\ duty' \in {"start", "register", "defaults", "serve", "stop", "join", "free", "ended"}
          /\ daemon' \in {"none", "up", "closing", "stopped"}
        BY <1>0 DEF MainStep, StartDaemon, FailDaemon, Register, TestExit, Stop, Join,
               FreeHandler, SetStatus, Signal, MainTypeOK, Duty, Registered, mainVars
    <2> QED BY <1>0, <2>1, <2>2, MainList DEF MainTypeOK
<1>4. ListKept'
    BY <1>0, MainList
<1> QED BY <1>0, <1>2, <1>3, <1>4 DEF RestInv, RestTypeOK

\* What an answer becomes is an answer.
LEMMA AnswerUpdates ==
    ASSUME NEW a \in Answers
    PROVE  /\ \A s \in Bodies : [a EXCEPT !.says = s] \in Answers
           /\ \A n \in Codes : [a EXCEPT !.code = n] \in Answers
           /\ \A n \in Codes : Code(n) \in Answers
           /\ NoReply \in Answers
<1>1. "nothing" \in Bodies /\ 0 \in Codes
    BY DEF Bodies, Codes
<1> QED BY <1>1 DEF Answers, Code, NoReply

\* What a thread makes of its own variables is within their types.
LEMMA ThreadTypes ==
    ASSUME RestInv, NEW c \in Conns,
           Upload(c) \/ LoseUpload(c) \/ Locking(c) \/ ThreadStep(c)
    PROVE  ConnTypeOK' /\ WalksKept'
<1>1. /\ pc \in [Conns -> Labels] /\ WalksKept
      /\ DOMAIN nurl = Conns
      /\ Len(handlers) \in Nat /\ handlers \in Seq(ToSet(Handlers))
      /\ Len(handlers) <= 5 /\ Len(Handlers) = 5
    BY FiveHandlers DEF RestInv, RestTypeOK, MainTypeOK, ConnTypeOK, ListKept
<1>2. req \in [Conns -> Requests \cup {NoRequest}]
    BY DEF RestInv, RestTypeOK, ConnTypeOK
<1>3. got \in [Conns -> Seq(Nat)]
    BY DEF RestInv, RestTypeOK, ConnTypeOK
<1>4. pos \in [Conns -> 0 .. 6]
    BY <1>1 DEF RestInv, RestTypeOK, ConnTypeOK
<1>5. hit \in [Conns -> SUBSET ToSet(Handlers)]
    BY DEF RestInv, RestTypeOK, ConnTypeOK
<1>6. reply \in [Conns -> Answers]
    BY DEF RestInv, RestTypeOK, ConnTypeOK
<1>13. reply' \in [Conns -> Answers]
    <2>0. reply[c] \in Answers
        BY <1>6
    <2>1. reply' = reply \/ \E a \in Answers : reply' = [reply EXCEPT ![c] = a]
        <3>1. CASE StatusBody(c)
            <4>1. [reply[c] EXCEPT !.says = Says(status)] \in Answers
                <5>1. Says(status) \in Bodies
                    BY DEF Says, Bodies
                <5> QED BY <2>0, <5>1, AnswerUpdates
            <4>2. reply' = [reply EXCEPT ![c] = [reply[c] EXCEPT !.says = Says(status)]]
                BY <1>6, <3>1 DEF StatusBody
            <4> QED BY <4>1, <4>2
        <3>2. CASE StatusCode(c)
            <4> DEFINE n == IF status \in Ready THEN 200 ELSE 409
            <4>1. n \in Codes
                BY DEF Codes
            <4>2. reply' = [reply EXCEPT ![c] = [reply[c] EXCEPT !.code = n]]
                BY <3>2 DEF StatusCode, Replies
            <4> HIDE DEF n
            <4> QED BY <2>0, <4>1, <4>2, AnswerUpdates
        <3>3. CASE Direct(c)
            <4> DEFINE n == IF ~Allowed(c) THEN 405
                            ELSE IF Found(c) # Specific THEN 200
                            ELSE IF BadBody(c) THEN 400
                            ELSE CodeOf("RESOURCE_NOT_FOUND")
            <4>1. n \in Codes
                BY DEF CodeOf, Codes
            <4>2. reply' = [reply EXCEPT ![c] = Code(n)]
                BY <3>3 DEF Direct, Replies
            <4> HIDE DEF n
            <4> QED BY <2>0, <4>1, <4>2, AnswerUpdates
        <3>4. CASE Complete(c) \/ Unlock(c) \/ List(c)
            <4>1. {200, 404, 405} \subseteq Codes
                BY DEF Codes
            <4>2. reply' = reply \/ \E n \in {200, 404, 405} : reply' = [reply EXCEPT ![c] = Code(n)]
                BY <3>4 DEF Complete, Unlock, List, Replies
            <4> QED BY <2>0, <4>1, <4>2, AnswerUpdates
        <3>5. CASE Reply(c) \/ LoseUpload(c)
            <4>1. reply' = [reply EXCEPT ![c] = NoReply]
                BY <3>5 DEF Reply, LoseUpload, Forget
            <4> QED BY <2>0, <4>1, AnswerUpdates
        <3>6. CASE Upload(c) \/ LockToFind(c) \/ Walk(c) \/ EndWalk(c) \/ Call(c)
            BY <3>6 DEF Upload, LockToFind, Walk, EndWalk, Call
        <3> QED BY <3>1, <3>2, <3>3, <3>4, <3>5, <3>6 DEF ThreadStep, Locking
    <2> QED BY <1>6, <2>1
<1> USE DEF Locking, List, LockToFind, ThreadStep, Upload, LoseUpload, Forget, Complete, Walk,
        EndWalk, Unlock, Direct, StatusBody, StatusCode, Call, Reply, Goto, Replies
<1>7. pc' \in [Conns -> Labels]
    <2>1. pc' = pc \/ \E label \in Labels : pc' = [pc EXCEPT ![c] = label]
        BY DEF Labels
    <2> QED BY <1>1, <2>1
<1>8. req' \in [Conns -> Requests \cup {NoRequest}]
    BY <1>2
<1>9. got' \in [Conns -> Seq(Nat)]
    <2>1. \/ got' = got
          \/ got' = [got EXCEPT ![c] = <<>>]
          \/ got' = [got EXCEPT ![c] = Append(got[c], Len(got[c]) + 1)]
        OBVIOUS
    <2>2. Append(got[c], Len(got[c]) + 1) \in Seq(Nat) /\ <<>> \in Seq(Nat)
        BY <1>3
    <2> QED BY <1>3, <2>1, <2>2
<1>10. DOMAIN nurl' = Conns
    BY <1>1
<1>11. pos' \in [Conns -> 0 .. 6] /\ WalksKept'
    <2>1. CASE Walk(c)
        <3>1. pos[c] + 1 \in 1 .. 6 /\ pos' = [pos EXCEPT ![c] = pos[c] + 1] /\ pc' = pc
            BY <1>1, <1>4, <2>1 DEF AtEnd
        <3> QED BY <1>1, <1>4, <3>1 DEF WalksKept
    <2>2. CASE LockToFind(c)
        <3>1. pos' = [pos EXCEPT ![c] = 1] /\ pc' = [pc EXCEPT ![c] = "walk"]
            BY <2>2
        <3> QED BY <1>1, <1>4, <3>1 DEF WalksKept
    <2>3. CASE ~Walk(c) /\ ~LockToFind(c)
        <3>1. pos' = pos \/ pos' = [pos EXCEPT ![c] = 0]
            BY <2>3
        <3>2. pc' = pc \/ \E label \in Labels \ {"walk"} : pc' = [pc EXCEPT ![c] = label]
            BY <2>3 DEF Labels
        <3>3. pos' # pos => pc' # pc /\ pc[c] \in {"upload", "walk", "reply"}
            BY <1>1, <2>3
        <3>4. CASE pos' = pos
            BY <1>1, <1>4, <3>2, <3>4 DEF WalksKept
        <3>5. CASE pos' # pos
            <4>1. PICK label \in Labels \ {"walk"} : pc' = [pc EXCEPT ![c] = label]
                BY <3>2, <3>3, <3>5
            <4>2. pos' = [pos EXCEPT ![c] = 0]
                BY <3>1, <3>5
            <4> QED BY <1>1, <1>4, <4>1, <4>2 DEF WalksKept
        <3> QED BY <3>4, <3>5
    <2> QED BY <2>1, <2>2, <2>3
<1>12. hit' \in [Conns -> SUBSET ToSet(Handlers)]
    <2>1. CASE EndWalk(c)
        <3>1. (IF AtHit(c) THEN {handlers[pos[c]]} ELSE {}) \in SUBSET ToSet(Handlers)
            <4>1. CASE AtHit(c)
                <5>1. pos[c] \in 1 .. Len(handlers)
                    BY <1>1, <1>4, <2>1, <4>1 DEF AtHit, AtEnd, WalksKept
                <5> QED BY <1>1, <4>1, <5>1
            <4>2. CASE ~AtHit(c)
                BY <4>2
            <4> QED BY <4>1, <4>2
        <3> HIDE DEF Handlers
        <3> QED BY <1>5, <2>1, <3>1
    <2>2. CASE ~EndWalk(c)
        <3>1. hit' = hit \/ hit' = [hit EXCEPT ![c] = {}]
            BY <2>2
        <3> QED BY <1>5, <3>1
    <2> QED BY <2>1, <2>2
<1> QED BY <1>1, <1>7, <1>8, <1>9, <1>10, <1>11, <1>12, <1>13 DEF ConnTypeOK

\* An operation leaves the status, or configures, starts or stops the monitor.
LEMMA NewStatusType ==
    ASSUME NEW c \in Conns, NEW new \in NewStatus(c)
    PROVE  new = status \/ new \in {"configured", "running"}
BY DEF NewStatus

\* What the other steps of a thread do to the variables that all share.
LEMMA ThreadShared ==
    ASSUME RestInv, NEW c \in Conns,
           \/ Accept(c) \/ Upload(c) \/ LoseUpload(c) \/ Locking(c) \/ ThreadStep(c)
    PROVE  UNCHANGED <<status, signalled, mainVars>> /\ lock' \in {lock, c, Nobody}
<1>1. CASE Accept(c) \/ Upload(c) \/ LoseUpload(c) \/ Locking(c)
    BY <1>1 DEF Accept, Upload, LoseUpload, Locking, List, LockToFind, Shared
<1>2. CASE ThreadStep(c)
    BY <1>2 DEF ThreadStep, Complete, Walk, EndWalk, Unlock, Direct, StatusBody, StatusCode, Call,
                Reply, Shared
<1> QED BY <1>1, <1>2

\* An operation that returns.
LEMMA Returns ==
    ASSUME RestInv, NEW c \in Conns, NEW r \in {"OK", "ERROR"}, NEW new, Return(c, r, new)
    PROVE  /\ UNCHANGED <<signalled, lock, mainVars, req, got, nurl, pos, hit>>
           /\ status' = new
           /\ pc[c] = "operation" /\ pc' = [pc EXCEPT ![c] = "reply"]
           /\ reply' = [reply EXCEPT ![c] = Code(IF r = "OK" THEN 200 ELSE 409)]
BY DEF Return, Replies, Goto, CodeOf

\* An operation at work leaves the server alone, or returns.
LEMMA OperationReturns ==
    ASSUME NEW c \in Conns, Operation(c)
    PROVE  \/ UNCHANGED restVars
           \/ \E r \in {"OK", "ERROR"} : \E new : /\ Return(c, r, new)
                                                  /\ new = status \/ new \in {"configured", "running"}
<1>1. CASE Operate(c)
    BY <1>1, NewStatusType DEF Operate, ReadStatus, OtherOperation
<1>2. CASE Put(c) \/ Get(c)
    BY <1>2 DEF Put, Get
<1> QED BY <1>1, <1>2 DEF Operation

\* Every step of a thread keeps RestInv.
LEMMA RestInvThread ==
    ASSUME RestInv, UNCHANGED plan, NEW c \in Conns,
           \/ Accept(c) \/ Upload(c) \/ LoseUpload(c) \/ Locking(c) \/ ThreadStep(c)
           \/ Operation(c)
    PROVE  RestInv'
<1>0. plan \in Plans /\ MainTypeOK /\ ConnTypeOK /\ ListKept /\ WalksKept
    BY DEF RestInv, RestTypeOK
<1>1. CASE Operation(c)
    <2>1. CASE UNCHANGED restVars
        BY <1>0, <2>1 DEF RestInv, RestTypeOK, MainTypeOK, ConnTypeOK, ListKept, WalksKept,
                          restVars, mainVars, connVars
    <2>2. CASE \E r \in {"OK", "ERROR"} : \E new :
                 /\ Return(c, r, new)
                 /\ new = status \/ new \in {"configured", "running"}
        <3>0. PICK r \in {"OK", "ERROR"} : \E new :
                 /\ Return(c, r, new)
                 /\ new = status \/ new \in {"configured", "running"}
            BY <2>2
        <3>1. PICK new :
                 /\ Return(c, r, new)
                 /\ new = status \/ new \in {"configured", "running"}
            BY <3>0
        <3> DEFINE n == IF r = "OK" THEN 200 ELSE 409
        <3>2. n \in Codes
            BY DEF Codes
        <3>3. /\ UNCHANGED <<signalled, lock, mainVars, req, got, nurl, pos, hit>>
              /\ status' = new
              /\ pc' = [pc EXCEPT ![c] = "reply"]
              /\ reply' = [reply EXCEPT ![c] = Code(n)]
            BY <3>1, Returns
        <3> HIDE DEF n
        <3>4. MainTypeOK' /\ ListKept'
            BY <1>0, <3>1, <3>3 DEF MainTypeOK, ListKept, mainVars, Ready
        <3>5. Code(n) \in Answers
            BY <1>0, <3>2 DEF Code, Answers, Bodies
        <3>6. ConnTypeOK'
            BY <1>0, <3>3, <3>5 DEF ConnTypeOK, Labels
        <3>7. WalksKept'
            BY <1>0, <3>3 DEF WalksKept, ConnTypeOK
        <3> QED BY <1>0, <3>4, <3>6, <3>7 DEF RestInv, RestTypeOK
    <2> QED BY <1>1, <2>1, <2>2, OperationReturns
<1>2. CASE \/ Accept(c) \/ Upload(c) \/ LoseUpload(c) \/ Locking(c) \/ ThreadStep(c)
    <2>1. MainTypeOK' /\ ListKept'
        BY <1>0, <1>2, ThreadShared DEF MainTypeOK, ListKept, mainVars
    <2>2. ConnTypeOK' /\ WalksKept'
        <3>1. CASE Accept(c)
            <4>1. PICK r \in plan[c] : req' = [req EXCEPT ![c] = r]
                BY <3>1 DEF Accept
            <4>2. r \in Requests
                BY <1>0, <4>1 DEF Requests
            <4>3. /\ pc' = [pc EXCEPT ![c] = "upload"]
                  /\ UNCHANGED <<got, nurl, pos, hit, reply>>
                BY <3>1 DEF Accept, Goto
            <4>4. ConnTypeOK'
                BY <1>0, <4>1, <4>2, <4>3 DEF ConnTypeOK, Labels
            <4>5. WalksKept'
                BY <1>0, <4>3 DEF WalksKept, ConnTypeOK
            <4> QED BY <4>4, <4>5
        <3> QED BY <1>2, <3>1, ThreadTypes
    <2> QED BY <1>0, <2>1, <2>2 DEF RestInv, RestTypeOK
<1> QED BY <1>1, <1>2

\* A step of one thread leaves the variables of the others alone.
LEMMA OthersStay ==
    ASSUME RestInv, NEW c \in Conns, NEW d \in Conns, d # c,
           \/ Accept(c) \/ Upload(c) \/ LoseUpload(c) \/ Locking(c) \/ ThreadStep(c)
           \/ Operation(c)
    PROVE  /\ pc'[d] = pc[d] /\ req'[d] = req[d] /\ got'[d] = got[d] /\ nurl'[d] = nurl[d]
           /\ pos'[d] = pos[d] /\ hit'[d] = hit[d] /\ reply'[d] = reply[d]
<1>1. /\ DOMAIN pc = Conns /\ DOMAIN req = Conns /\ DOMAIN got = Conns /\ DOMAIN nurl = Conns
      /\ DOMAIN pos = Conns /\ DOMAIN hit = Conns /\ DOMAIN reply = Conns
    BY DEF RestInv, RestTypeOK, ConnTypeOK
<1>2. CASE Accept(c) \/ Upload(c) \/ LoseUpload(c) \/ Locking(c)
    BY <1>1, <1>2 DEF Accept, Upload, LoseUpload, Locking, List, LockToFind, Goto, Forget, Replies
<1>3. CASE ThreadStep(c)
    BY <1>1, <1>3 DEF ThreadStep, Complete, Walk, EndWalk, Unlock, Direct, StatusBody, StatusCode,
                      Call, Reply, Goto, Forget, Replies
<1>4. CASE Operation(c)
    <2>1. CASE UNCHANGED restVars
        BY <2>1 DEF restVars, connVars
    <2>2. CASE \E r \in {"OK", "ERROR"} : \E new : Return(c, r, new)
        BY <1>1, <2>2, Returns
    <2> QED BY <1>4, <2>1, <2>2, OperationReturns
<1> QED BY <1>2, <1>3, <1>4

\* A thread goes into an operation by a call, and out of it by a return.
LEMMA OperationsBegin ==
    ASSUME RestInv, NEW c \in Conns,
           \/ Accept(c) \/ Upload(c) \/ LoseUpload(c) \/ Locking(c) \/ ThreadStep(c)
    PROVE  /\ pc[c] # "operation"
           /\ pc'[c] = "idle" \/ req'[c] = req[c] \/ (pc[c] = "idle" /\ req'[c] \in Requests)
           /\ pc[c] = "idle" => pc'[c] = "upload" /\ req'[c] \in Requests
<1>1. DOMAIN pc = Conns /\ DOMAIN req = Conns /\ plan \in Plans
    BY DEF RestInv, RestTypeOK, ConnTypeOK
<1>2. CASE Accept(c)
    BY <1>1, <1>2 DEF Accept, Goto, Requests
<1>3. CASE Upload(c) \/ LoseUpload(c) \/ Locking(c)
    BY <1>1, <1>3 DEF Upload, LoseUpload, Locking, List, LockToFind, Goto, Forget, Replies
<1>4. CASE ThreadStep(c)
    BY <1>1, <1>4 DEF ThreadStep, Complete, Walk, EndWalk, Unlock, Direct, StatusBody, StatusCode,
                      Call, Reply, Goto, Forget, Replies
<1> QED BY <1>2, <1>3, <1>4

-----------------------------------------------------------------------------
(* Where a thread is at an operation on the CAN connection.                *)

Getting == {"readPort", "readRate", "shown", "nothing"}

\* A thread is at a PUT or a GET of the CAN connection while its handler has
\* called that operation; a PUT has two settings, or is rejected.
AtWorkOn(c) ==
    /\ pc[c] # "idle" => req[c] \in Requests
    /\ at[c] # "idle" => pc[c] = "operation"
    /\ at[c] \in Putting => OnCan(c, "PUT")
    /\ at[c] \in Getting => OnCan(c, "GET")
    /\ at[c] \in Putting \ {"reject"} => Len(req[c].body.settings) = 2
    /\ at[c] = "setting" => index[c] \in 1 .. 2

AtWork == CanTypeOK /\ \A c \in Conns : AtWorkOn(c)

\* The steps of a PUT.
LEMMA PutMoves ==
    ASSUME CanTypeOK, NEW c \in Callers, NEW b, PutStep(c, b),
           at[c] \in Putting \ {"reject"} => Len(b.settings) = 2,
           at[c] = "setting" => index[c] \in 1 .. 2
    PROVE  /\ CanTypeOK'
           /\ at'[c] \in Putting /\ at[c] \notin Getting
           /\ \A d \in Callers : d # c => at'[d] = at[d] /\ index'[d] = index[d]
           /\ at'[c] \in Putting \ {"reject"} => Len(b.settings) = 2
           /\ at'[c] = "setting" => index'[c] \in 1 .. 2
<1>0. /\ at \in [Callers -> Places] /\ index \in [Callers -> 1 .. 3]
      /\ DOMAIN can = DOMAIN Unset
      /\ DOMAIN seen = Callers /\ crashed \in BOOLEAN /\ last.how \in Hows
    BY DEF CanTypeOK
<1>1. torn' \in [Callers -> BOOLEAN] /\ UNCHANGED <<seen, crashed>> /\ last'.how \in Hows
    <2>1. Writes(last.how) \/ Writes("mixed") \/ Writes("busy")
        BY DEF PutStep, PutId, PutIncomplete, ClearPort, ClearRate, PutSetting, RejectSetting,
               CheckBoth, Begins
    <2>2. ASSUME NEW how \in Hows, Writes(how)
          PROVE  /\ torn' = [d \in Callers |-> TRUE] /\ last'.how = how
                 /\ UNCHANGED <<seen, crashed>>
        BY <2>2 DEF Writes
    <2>3. "mixed" \in Hows /\ "busy" \in Hows
        BY DEF Hows
    <2> QED BY <1>0, <2>1, <2>2, <2>3
<1>2. DOMAIN can' = DOMAIN Unset
    BY <1>0 DEF PutStep, PutId, PutIncomplete, ClearPort, ClearRate, PutSetting, RejectSetting,
                CheckBoth
<1>3. ASSUME NEW here \in Putting, at' = [at EXCEPT ![c] = here],
             NEW n \in 1 .. 3, index' = [index EXCEPT ![c] = n] \/ (n = index[c] /\ index' = index)
      PROVE  /\ CanTypeOK'
             /\ at'[c] = here /\ index'[c] = n
             /\ \A d \in Callers : d # c => at'[d] = at[d] /\ index'[d] = index[d]
    <2>1. at' \in [Callers -> Places]
        BY <1>0, <1>3 DEF Places
    <2>2. index' \in [Callers -> 1 .. 3]
        BY <1>0, <1>3
    <2>3. CanTypeOK'
        BY <1>0, <1>1, <1>2, <2>1, <2>2 DEF CanTypeOK
    <2> QED BY <1>0, <1>3, <2>3
<1> SUFFICES \E here \in Putting : \E n \in 1 .. 3 :
                 /\ at' = [at EXCEPT ![c] = here]
                 /\ index' = [index EXCEPT ![c] = n] \/ (n = index[c] /\ index' = index)
                 /\ at[c] \notin Getting
                 /\ here \in Putting \ {"reject"} => Len(b.settings) = 2
                 /\ here = "setting" => n \in 1 .. 2
    BY <1>3
<1>4. index[c] \in 1 .. 3
    BY <1>0
<1>5. CASE PutId(c, b) \/ PutIncomplete(c, b)
    BY <1>4, <1>5 DEF PutId, PutIncomplete, Step, Putting, Getting
<1>6. CASE ClearPort(c) \/ ClearRate(c)
    <2>1. 1 \in 1 .. 3 /\ 1 \in 1 .. 2
        OBVIOUS
    <2> QED BY <1>4, <1>6, <2>1 DEF ClearPort, ClearRate, Step, Putting, Getting
<1>7. CASE PutSetting(c, b)
    <2>1. /\ at[c] = "setting" /\ index[c] \in 1 .. 2 /\ Len(b.settings) = 2
          /\ index' = [index EXCEPT ![c] = index[c] + 1]
          /\ at' = [at EXCEPT ![c] = IF index[c] = 2 THEN "check" ELSE "setting"]
        BY <1>0, <1>7 DEF PutSetting, Putting
    <2>2. index[c] + 1 \in 1 .. 3 /\ (index[c] # 2 => index[c] + 1 \in 1 .. 2)
        BY <2>1
    <2>3. CASE index[c] = 2
        BY <2>1, <2>2, <2>3 DEF Putting, Getting
    <2>4. CASE index[c] # 2
        BY <2>1, <2>2, <2>4 DEF Putting, Getting
    <2> QED BY <2>3, <2>4
<1>8. CASE RejectSetting(c, b) \/ CheckBoth(c)
    BY <1>4, <1>8 DEF RejectSetting, CheckBoth, Step, Putting, Getting
<1> QED BY <1>5, <1>6, <1>7, <1>8 DEF PutStep

\* The end of a PUT, and the steps of a GET.
LEMMA OtherMoves ==
    ASSUME CanTypeOK, NEW c \in Callers,
           \/ \E r \in {"OK", "ERROR"} : EndGet(c, r) \/ \E b : EndPut(c, b, r)
           \/ GetStep(c)
    PROVE  /\ CanTypeOK'
           /\ at'[c] \in Getting \cup {"idle"}
           /\ GetStep(c) => at'[c] \in Getting /\ at[c] \notin Putting
           /\ \A d \in Callers : d # c => at'[d] = at[d] /\ index'[d] = index[d]
<1>0. /\ at \in [Callers -> Places] /\ index \in [Callers -> 1 .. 3]
      /\ DOMAIN can = DOMAIN Unset /\ torn \in [Callers -> BOOLEAN]
      /\ DOMAIN seen = Callers /\ crashed \in BOOLEAN /\ last.how \in Hows
    BY DEF CanTypeOK
<1>1. /\ DOMAIN can' = DOMAIN Unset /\ DOMAIN seen' = Callers /\ crashed' \in BOOLEAN
    BY <1>0 DEF EndPut, EndGet, GetStep, ReadId, ReadPort, ReadRate
<1>2. last'.how \in Hows
    <2>1. last' = last \/ last'.how = "rejected" \/ last'.how = "accepted"
        BY DEF EndPut, EndGet, GetStep, ReadId, ReadPort, ReadRate
    <2> QED BY <1>0, <2>1 DEF Hows
<1>3. torn' \in [Callers -> BOOLEAN]
    <2>1. torn' = torn \/ \E t \in BOOLEAN : torn' = [torn EXCEPT ![c] = t]
        BY DEF EndPut, EndGet, GetStep, ReadId, ReadPort, ReadRate
    <2> QED BY <1>0, <2>1
<1>4. \E here \in Getting \cup {"idle"} :
          /\ at' = [at EXCEPT ![c] = here]
          /\ GetStep(c) => here \in Getting /\ at[c] \notin Putting
    BY DEF EndPut, EndGet, GetStep, ReadId, ReadPort, ReadRate, Step, Getting, Putting
<1>5. index' = index \/ index' = [index EXCEPT ![c] = 1]
    BY DEF EndPut, EndGet, GetStep, ReadId, ReadPort, ReadRate
<1>6. at' \in [Callers -> Places]
    BY <1>0, <1>4 DEF Places, Getting
<1>7. index' \in [Callers -> 1 .. 3]
    <2>1. 1 \in 1 .. 3
        OBVIOUS
    <2> QED BY <1>0, <1>5, <2>1
<1>8. CanTypeOK'
    BY <1>1, <1>2, <1>3, <1>6, <1>7 DEF CanTypeOK
<1> QED BY <1>0, <1>4, <1>5, <1>8

\* A thread is at one kind of operation.
LEMMA Kinds ==
    /\ Putting \cap Getting = {} /\ "idle" \notin Putting \cup Getting
    /\ Places = Putting \cup Getting \cup {"idle"}
BY DEF Putting, Getting, Places

\* The start.
LEMMA AtWorkInit == Callers = Conns /\ Init => AtWork
<1> SUFFICES ASSUME Callers = Conns, Init PROVE AtWork
    OBVIOUS
<1>1. CanTypeOK
    <2>1. 1 \in 1 .. 3 /\ "idle" \in Places /\ "none" \in Hows
        BY DEF Places, Hows
    <2> QED BY <2>1 DEF Init, CanInit, CanTypeOK, Unset
<1>2. \A c \in Conns : pc[c] = "idle" /\ at[c] = "idle"
    BY DEF Init, CanInit, RestInit
<1> QED BY <1>1, <1>2, Kinds DEF AtWork, AtWorkOn

\* A step that moves neither an operation nor a thread that is at one.
LEMMA AtWorkStays ==
    ASSUME AtWork, NEW c \in Conns, at'[c] = at[c], index'[c] = index[c],
           \/ UNCHANGED <<pc[c], req[c], nurl[c], hit[c]>>
           \/ at[c] = "idle" /\ (pc'[c] = "idle" \/ req'[c] \in Requests)
    PROVE  AtWorkOn(c)'
BY Kinds DEF AtWork, AtWorkOn, OnCan, RestOf, Found

\* A step of a thread that is at no operation.
LEMMA AtWorkThread ==
    ASSUME RestInv, AtWork, Callers = Conns, UNCHANGED canVars, NEW c \in Conns,
           \/ Accept(c) \/ Upload(c) \/ LoseUpload(c) \/ Locking(c) \/ ThreadStep(c)
    PROVE  AtWork'
<1>1. CanTypeOK'
    BY DEF AtWork, CanTypeOK, canVars
<1>2. \A d \in Conns : at'[d] = at[d] /\ index'[d] = index[d]
    BY DEF canVars
<1>3. ASSUME NEW d \in Conns, d # c PROVE AtWorkOn(d)'
    BY <1>2, <1>3, OthersStay, AtWorkStays
<1>4. AtWorkOn(c)'
    <2>1. AtWorkOn(c)
        BY DEF AtWork
    <2>2. at[c] = "idle"
        BY <2>1, OperationsBegin DEF AtWorkOn
    <2>3. pc'[c] = "idle" \/ req'[c] \in Requests
        BY <2>1, OperationsBegin DEF AtWorkOn
    <2> QED BY <1>2, <2>2, <2>3, AtWorkStays
<1> QED BY <1>1, <1>3, <1>4 DEF AtWork

\* A step of an operation.
LEMMA AtWorkOperation ==
    ASSUME RestInv, AtWork, Callers = Conns, NEW c \in Conns, Operation(c)
    PROVE  AtWork'
<1>0. /\ CanTypeOK /\ AtWorkOn(c) /\ pc[c] = "operation" /\ req[c] \in Requests
      /\ DOMAIN pc = Conns
    BY DEF AtWork, AtWorkOn, Operation, RestInv, RestTypeOK, ConnTypeOK
<1>1. ASSUME CanTypeOK', AtWorkOn(c)',
             \A d \in Conns : d # c => at'[d] = at[d] /\ index'[d] = index[d]
      PROVE  AtWork'
    <2>1. ASSUME NEW d \in Conns, d # c PROVE AtWorkOn(d)'
        BY <1>1, <2>1, OthersStay, AtWorkStays
    <2> QED BY <1>1, <2>1 DEF AtWork
<1>2. ASSUME NEW r \in {"OK", "ERROR"}, NEW new, Return(c, r, new), at'[c] = "idle"
      PROVE  AtWorkOn(c)'
    <2>1. req'[c] = req[c]
        BY <1>2, Returns
    <2> QED BY <1>0, <1>2, <2>1, Kinds DEF AtWorkOn
<1>3. CASE Operate(c)
    <2>1. at[c] = "idle" /\ UNCHANGED canVars
        BY <1>0, <1>3, Kinds DEF Operate, AtWorkOn, CanTypeOK
    <2>2. CanTypeOK' /\ at'[c] = "idle"
        BY <1>0, <2>1 DEF canVars, CanTypeOK
    <2>3. \E r \in {"OK", "ERROR"} : \E new : Return(c, r, new)
        BY <1>3 DEF Operate, ReadStatus, OtherOperation
    <2> QED BY <1>1, <1>2, <2>1, <2>2, <2>3 DEF canVars
<1>4. CASE Put(c)
    <2>1. CASE PutStep(c, req[c].body) /\ UNCHANGED restVars
        <3>1. OnCan(c, "PUT")' /\ UNCHANGED <<pc, req>>
            BY <1>4, <2>1 DEF Put, OnCan, RestOf, Found, restVars, connVars
        <3>2. /\ CanTypeOK'
              /\ at'[c] \in Putting
              /\ \A d \in Callers : d # c => at'[d] = at[d] /\ index'[d] = index[d]
              /\ at'[c] \in Putting \ {"reject"} => Len(req[c].body.settings) = 2
              /\ at'[c] = "setting" => index'[c] \in 1 .. 2
            BY <1>0, <2>1, PutMoves DEF AtWorkOn
        <3>3. AtWorkOn(c)'
            BY <1>0, <3>1, <3>2, Kinds DEF AtWorkOn
        <3> QED BY <1>1, <3>2, <3>3
    <2>2. CASE \E r \in {"OK", "ERROR"} : EndPut(c, req[c].body, r) /\ Return(c, r, status)
        <3>1. PICK r \in {"OK", "ERROR"} : EndPut(c, req[c].body, r) /\ Return(c, r, status)
            BY <2>2
        <3>2. at'[c] = "idle"
            BY <1>0, <3>1 DEF EndPut, Step, CanTypeOK
        <3>3. AtWorkOn(c)'
            BY <1>2, <3>1, <3>2
        <3> QED BY <1>0, <1>1, <3>1, <3>3, OtherMoves
    <2> QED BY <1>4, <2>1, <2>2 DEF Put
<1>5. CASE Get(c)
    <2>1. CASE GetStep(c) /\ UNCHANGED restVars
        <3>1. OnCan(c, "GET")' /\ UNCHANGED <<pc, req>>
            BY <1>5, <2>1 DEF Get, OnCan, RestOf, Found, restVars, connVars
        <3>2. /\ CanTypeOK' /\ at'[c] \in Getting
              /\ \A d \in Callers : d # c => at'[d] = at[d] /\ index'[d] = index[d]
            BY <1>0, <2>1, OtherMoves
        <3>3. AtWorkOn(c)'
            <4>1. at'[c] \notin Putting /\ at'[c] # "setting"
                BY <3>2, Kinds DEF Putting
            <4> QED BY <1>0, <3>1, <3>2, <4>1 DEF AtWorkOn
        <3> QED BY <1>0, <1>1, <3>2, <3>3
    <2>2. CASE \E r \in {"OK", "ERROR"} : EndGet(c, r) /\ Return(c, r, status)
        <3>1. PICK r \in {"OK", "ERROR"} : EndGet(c, r) /\ Return(c, r, status)
            BY <2>2
        <3>2. at'[c] = "idle"
            BY <1>0, <3>1 DEF EndGet, Step, CanTypeOK
        <3>3. AtWorkOn(c)'
            BY <1>2, <3>1, <3>2
        <3> QED BY <1>0, <1>1, <3>1, <3>3, OtherMoves
    <2> QED BY <1>5, <2>1, <2>2 DEF Get
<1> QED BY <1>3, <1>4, <1>5 DEF Operation

\* Whatever the process does, it is where the types say.
TypeInv == StartTypeOK /\ RestInv /\ AtWork

\* The start.
LEMMA TypeInvInit == Init => TypeInv
<1> SUFFICES ASSUME Init PROVE TypeInv
    OBVIOUS
<1>1. RestInv /\ AtWork
    BY RestInvInit, AtWorkInit, ServiceAssumption DEF Init
<1>2. StartTypeOK
    BY DEF Init, StartInit, StartTypeOK
<1> QED BY <1>1, <1>2 DEF TypeInv

\* A step changes the options, the server, or a thread's operation.
LEMMA TypeInvStep == TypeInv /\ [Next]_vars => TypeInv'
<1> SUFFICES ASSUME TypeInv, [Next]_vars PROVE TypeInv'
    OBVIOUS
<1>0. StartTypeOK /\ RestInv /\ AtWork /\ Callers = Conns /\ CanTypeOK
    BY ServiceAssumption DEF TypeInv, AtWork
<1>1. ASSUME UNCHANGED <<canVars, connVars>> PROVE AtWork'
    <2>1. \A c \in Conns : /\ at'[c] = at[c] /\ index'[c] = index[c]
                           /\ UNCHANGED <<pc[c], req[c], nurl[c], hit[c]>>
        BY <1>1 DEF canVars, connVars
    <2>2. CanTypeOK'
        BY <1>0, <1>1 DEF CanTypeOK, canVars
    <2> QED BY <1>0, <2>1, <2>2, AtWorkStays DEF AtWork
<1>2. ASSUME UNCHANGED startVars PROVE StartTypeOK'
    BY <1>0, <1>2 DEF StartTypeOK, startVars
<1>3. ASSUME UNCHANGED restVars PROVE RestInv'
    BY <1>0, <1>3 DEF RestInv, RestTypeOK, MainTypeOK, ConnTypeOK, ListKept, WalksKept,
                      restVars, mainVars, connVars
<1>4. CASE (StartStep /\ UNCHANGED <<restVars, canVars>>) \/ UNCHANGED vars
    BY <1>0, <1>1, <1>2, <1>3, <1>4, StartTypes DEF TypeInv, vars, restVars
<1>5. CASE Server(MainStep) \/ Server(Signal)
    <2>1. UNCHANGED <<canVars, connVars>>
        BY <1>5 DEF Server, MainStep, StartDaemon, FailDaemon, Register, TestExit, Stop, Join,
                    FreeHandler, Signal
    <2>2. RestInv'
        BY <1>0, <1>5, RestInvMain DEF Server
    <2> QED BY <1>1, <1>2, <1>5, <2>1, <2>2 DEF Server, TypeInv
<1>6. CASE Defaults
    <2>1. RestInv' /\ UNCHANGED <<startVars, connVars>>
        BY <1>0, <1>6, RestInvMain DEF Defaults, SetStatus
    <2>2. CanTypeOK' /\ UNCHANGED <<at, index>>
        <3>1. "defaults" \in Hows
            BY DEF Hows
        <3>2. /\ DOMAIN can' = DOMAIN can /\ last'.how = "defaults"
              /\ torn' = [c \in Callers |-> TRUE]
              /\ UNCHANGED <<at, index, seen, crashed>>
            BY <1>6 DEF Defaults, SetDefaults, Writes
        <3> QED BY <1>0, <3>1, <3>2 DEF CanTypeOK
    <2>3. \A c \in Conns : /\ at'[c] = at[c] /\ index'[c] = index[c]
                           /\ UNCHANGED <<pc[c], req[c], nurl[c], hit[c]>>
        BY <2>1, <2>2 DEF connVars
    <2> QED BY <1>0, <1>2, <2>1, <2>2, <2>3, AtWorkStays DEF AtWork, TypeInv
<1>7. CASE \E c \in Conns : \/ Server(Accept(c)) \/ Server(Upload(c)) \/ Server(LoseUpload(c))
                            \/ Server(Locking(c)) \/ Server(ThreadStep(c))
    BY <1>0, <1>2, <1>7, RestInvThread, AtWorkThread DEF Server, TypeInv
<1>8. CASE \E c \in Conns : Operation(c)
    BY <1>0, <1>2, <1>8, RestInvThread, AtWorkOperation DEF Operation, TypeInv
<1> QED BY <1>4, <1>5, <1>6, <1>7, <1>8 DEF Next

\* The process has a value of its kind in every variable, whatever requests come
\* over however many connections: no walk leaves the list of handlers
\* (rest-server.c:187-195), no PUT its two settings (impl.c:197-241).
THEOREM TypeCorrect == Spec => []TypeOK
<1>1. TypeInv => TypeOK
    BY DEF TypeInv, AtWork, RestInv, TypeOK
<1> QED BY <1>1, TypeInvInit, TypeInvStep, PTL DEF Spec

-----------------------------------------------------------------------------
(* What a GET of the CAN connection shows: what the last PUT asked for.    *)

\* The value of the last one with that key among the first n settings of b.
AskedTo(b, n, key, default) ==
    LET of == {i \in 1 .. n : b.settings[i].key = key}
    IN  IF of = {} THEN default ELSE b.settings[Max(of)].value

Fields(r) == [id |-> r.id, port |-> r.port, rate |-> r.rate]

\* What a PUT that is alone has written so far.
WrittenBy(c) ==
    LET b == req[c].body
        done == IF at[c] = "setting" THEN index[c] - 1 ELSE 2
    IN  /\ at[c] \in Putting \ {"reject"} => can.id = b.id
        /\ at[c] = "rate" => can.port = NoValue
        /\ at[c] \in {"setting", "check", "up"} =>
               /\ can.port = AskedTo(b, done, "canport", NoValue)
               /\ can.rate = AskedTo(b, done, "bitrate", 0)

\* What a GET has read is still what there is, unless something was written.
ReadBy(c) ==
    ~torn[c] =>
        /\ at[c] \in {"readPort", "readRate", "shown"} => seen[c].id = can.id
        /\ at[c] \in {"readRate", "shown"} => seen[c].port = can.port
        /\ at[c] = "shown" => seen[c].rate = can.rate

Shows ==
    /\ can = Fields(can)
    /\ last.how = "accepted" => can = last.shown
    /\ last.how = "busy" => \A c \in Callers : WrittenBy(c)
    /\ \A c \in Callers : seen[c] = Fields(seen[c]) /\ ReadBy(c)

\* No setting asks for nothing.
LEMMA AskedNone ==
    ASSUME NEW b, NEW key, NEW default
    PROVE  AskedTo(b, 0, key, default) = default
<1>1. {i \in 1 .. 0 : b.settings[i].key = key} = {}
    OBVIOUS
<1> QED BY <1>1 DEF AskedTo

\* One setting more is the last one that counts, if it has the key.
LEMMA AskedNext ==
    ASSUME NEW b, NEW n \in Nat, NEW key, NEW default
    PROVE  AskedTo(b, n + 1, key, default) =
               IF b.settings[n + 1].key = key THEN b.settings[n + 1].value
                                              ELSE AskedTo(b, n, key, default)
<1> DEFINE of == {i \in 1 .. n + 1 : b.settings[i].key = key}
<1>1. CASE b.settings[n + 1].key = key
    <2>1. n + 1 \in of /\ \A i \in of : n + 1 >= i
        BY <1>1
    <2>2. \A m \in of : (\A i \in of : m >= i) => m = n + 1
        BY <2>1
    <2>3. Max(of) = n + 1
        BY <2>1, <2>2 DEF Max
    <2>4. of # {}
        BY <2>1
    <2> QED BY <1>1, <2>3, <2>4 DEF AskedTo
<1>2. CASE b.settings[n + 1].key # key
    <2>1. of = {i \in 1 .. n : b.settings[i].key = key}
        BY <1>2
    <2> QED BY <1>2, <2>1 DEF AskedTo
<1> QED BY <1>1, <1>2

\* All that is asked for in two settings.
LEMMA AskedAll ==
    ASSUME NEW b, Len(b.settings) = 2, NEW key, NEW default
    PROVE  Asked(b, key, default) = AskedTo(b, 2, key, default)
BY DEF Asked, AskedTo

\* A field that is written leaves the others.
LEMMA FieldsKept ==
    ASSUME NEW r, r = Fields(r), NEW v
    PROVE  /\ [r EXCEPT !.id = v] = [id |-> v, port |-> r.port, rate |-> r.rate]
           /\ [r EXCEPT !.port = v] = [id |-> r.id, port |-> v, rate |-> r.rate]
           /\ [r EXCEPT !.rate = v] = [id |-> r.id, port |-> r.port, rate |-> v]
<1>1. \A i, p, q : [[id |-> i, port |-> p, rate |-> q] EXCEPT !.id = v]
                       = [id |-> v, port |-> p, rate |-> q]
    OBVIOUS
<1>2. \A i, p, q : [[id |-> i, port |-> p, rate |-> q] EXCEPT !.port = v]
                       = [id |-> i, port |-> v, rate |-> q]
    OBVIOUS
<1>3. \A i, p, q : [[id |-> i, port |-> p, rate |-> q] EXCEPT !.rate = v]
                       = [id |-> i, port |-> p, rate |-> v]
    OBVIOUS
<1>4. PICK i, p, q : r = [id |-> i, port |-> p, rate |-> q]
    BY DEF Fields
<1> QED BY <1>1, <1>2, <1>3, <1>4

\* Nothing is there before main() and any request.
LEMMA ShowsInit == Init => Shows
<1> SUFFICES ASSUME Init PROVE Shows
    OBVIOUS
<1>1. Unset = Fields(Unset)
    BY DEF Unset, Fields
<1>2. /\ can = Unset /\ last.how = "none"
      /\ \A c \in Callers : seen[c] = Unset /\ at[c] = "idle"
    BY DEF Init, CanInit
<1> QED BY <1>1, <1>2 DEF Shows, ReadBy

\* A step of a PUT that is alone writes what it is asked for.
LEMMA WritesAsked ==
    ASSUME CanTypeOK, PortKnown, can = Fields(can), NEW c \in Callers,
           last.how = "busy" => WrittenBy(c), UNCHANGED req,
           PutStep(c, req[c].body), last'.how = "busy",
           at[c] \in Putting \ {"reject"} => Len(req[c].body.settings) = 2,
           at[c] = "setting" => index[c] \in 1 .. 2
    PROVE  WrittenBy(c)'
<1> DEFINE b == req[c].body
<1>0. /\ at \in [Callers -> Places] /\ index \in [Callers -> 1 .. 3] /\ req' = req
      /\ PutStep(c, b)
    BY DEF CanTypeOK
<1>1. CASE PutId(c, b)
    <2>1. can' = [id |-> b.id, port |-> can.port, rate |-> can.rate]
        BY <1>1, FieldsKept DEF PutId
    <2>2. at'[c] \in {"port", "reject"}
        BY <1>0, <1>1 DEF PutId, Step
    <2>3. can' = Fields(can')
        BY <2>1 DEF Fields
    <2>4. can'.id = req'[c].body.id
        BY <1>0, <2>1
    <2> QED BY <2>2, <2>3, <2>4 DEF WrittenBy
<1>2. CASE PutIncomplete(c, b)
    <2>1. at'[c] = "reject" /\ can' = can
        BY <1>0, <1>2 DEF PutIncomplete, Step
    <2> QED BY <2>1 DEF WrittenBy, Fields
<1>3. ASSUME ~PutId(c, b), ~PutIncomplete(c, b)
      PROVE  /\ last.how = "busy"
             /\ at[c] \in Putting \ {"reject"} /\ can.id = b.id /\ Len(b.settings) = 2
    <2>1. last'.how = last.how /\ at[c] \in Putting \ {"reject"}
        BY <1>0, <1>3 DEF PutStep, ClearPort, ClearRate, PutSetting, RejectSetting, CheckBoth,
                          Writes, Step, Putting
    <2> QED BY <2>1 DEF WrittenBy
<1> HIDE DEF b
<1>b. b = req[c].body /\ b = req'[c].body
    BY <1>0 DEF b
<1>4. CASE ClearPort(c)
    <2>1. can' = [id |-> can.id, port |-> NoValue, rate |-> can.rate]
        BY <1>4, FieldsKept DEF ClearPort
    <2>2. at'[c] = "rate" /\ at[c] = "port"
        BY <1>0, <1>4 DEF ClearPort, Step
    <2>3. can' = Fields(can') /\ can'.port = NoValue /\ can'.id = can.id
        BY <2>1 DEF Fields
    <2>4. can.id = b.id
        BY <1>3, <2>2 DEF PutId, PutIncomplete, Step
    <2> QED BY <1>b, <2>2, <2>3, <2>4 DEF WrittenBy
<1>5. CASE ClearRate(c)
    <2>1. can' = [id |-> can.id, port |-> can.port, rate |-> 0]
        BY <1>5, FieldsKept DEF ClearRate
    <2>2. at'[c] = "setting" /\ at[c] = "rate" /\ index'[c] = 1
        BY <1>0, <1>5 DEF ClearRate, Step
    <2>3. can' = Fields(can') /\ can'.port = can.port /\ can'.rate = 0 /\ can'.id = can.id
        BY <2>1 DEF Fields
    <2>4. can.id = b.id /\ last.how = "busy"
        BY <1>3, <2>2 DEF PutId, PutIncomplete, Step
    <2>5. can.port = NoValue
        BY <2>2, <2>4 DEF WrittenBy
    <2>6. /\ AskedTo(b, 0, "canport", NoValue) = NoValue
          /\ AskedTo(b, 0, "bitrate", 0) = 0
        BY AskedNone
    <2> QED BY <1>b, <2>2, <2>3, <2>4, <2>5, <2>6 DEF WrittenBy
<1>6. CASE PutSetting(c, b)
    <2>1. /\ at[c] = "setting" /\ index[c] \in 1 .. 2
          /\ index'[c] = index[c] + 1
        BY <1>0, <1>6 DEF PutSetting
    <2>2. can.id = b.id /\ last.how = "busy" /\ Len(b.settings) = 2
        BY <1>3, <2>1 DEF PutId, PutIncomplete, Step
    <2>3. at'[c] = IF index[c] = 2 THEN "check" ELSE "setting"
        BY <1>0, <1>6, <2>2 DEF PutSetting
    <2> DEFINE n == index[c] - 1
    <2>4. /\ can.port = AskedTo(b, n, "canport", NoValue)
          /\ can.rate = AskedTo(b, n, "bitrate", 0)
        BY <1>b, <2>1, <2>2 DEF WrittenBy
    <2>5. n \in Nat /\ n + 1 = index[c]
        BY <2>1
    <2> HIDE DEF n
    <2>6. /\ AskedTo(b, n + 1, "canport", NoValue) =
                 IF b.settings[index[c]].key = "canport" THEN b.settings[index[c]].value
                 ELSE can.port
          /\ AskedTo(b, n + 1, "bitrate", 0) =
                 IF b.settings[index[c]].key = "bitrate" THEN b.settings[index[c]].value
                 ELSE can.rate
        <3>1. \A key, default :
                  AskedTo(b, n + 1, key, default) =
                      IF b.settings[n + 1].key = key THEN b.settings[n + 1].value
                                                     ELSE AskedTo(b, n, key, default)
            BY <2>5, AskedNext
        <3> QED BY <2>4, <2>5, <3>1
    <2>7. /\ can' = Fields(can') /\ can'.id = can.id
          /\ can'.port = AskedTo(b, n + 1, "canport", NoValue)
          /\ can'.rate = AskedTo(b, n + 1, "bitrate", 0)
        <3>1. CASE b.settings[index[c]].key = "canport"
            <4>1. can' = [id |-> can.id, port |-> b.settings[index[c]].value, rate |-> can.rate]
                BY <1>6, <3>1, FieldsKept DEF PutSetting
            <4> QED BY <2>6, <3>1, <4>1 DEF Fields
        <3>2. CASE b.settings[index[c]].key = "bitrate"
            <4>1. can' = [id |-> can.id, port |-> can.port, rate |-> b.settings[index[c]].value]
                BY <1>6, <3>2, FieldsKept DEF PutSetting
            <4> QED BY <2>6, <3>2, <4>1 DEF Fields
        <3> QED BY <1>6, <3>1, <3>2 DEF PutSetting
    <2>8. (IF at'[c] = "setting" THEN index'[c] - 1 ELSE 2) = n + 1
        BY <2>1, <2>3, <2>5
    <2>9. at'[c] # "rate"
        BY <2>3
    <2> QED BY <1>b, <2>2, <2>7, <2>8, <2>9 DEF WrittenBy
<1>7. CASE RejectSetting(c, b)
    <2>1. at'[c] = "reject" /\ can' = can
        BY <1>0, <1>7 DEF RejectSetting, Step
    <2> QED BY <2>1 DEF WrittenBy, Fields
<1>8. CASE CheckBoth(c)
    <2>1. at[c] = "check" /\ at'[c] \in {"reject", "up"} /\ can' = can
        BY <1>0, <1>8 DEF CheckBoth, Step
    <2>2. can.id = b.id /\ last.how = "busy"
        BY <1>3, <2>1 DEF PutId, PutIncomplete, Step
    <2>3. /\ can.port = AskedTo(b, 2, "canport", NoValue)
          /\ can.rate = AskedTo(b, 2, "bitrate", 0)
        BY <1>b, <2>1, <2>2 DEF WrittenBy
    <2> QED BY <1>b, <2>1, <2>2, <2>3 DEF WrittenBy, Fields
<1> QED BY <1>0, <1>1, <1>2, <1>4, <1>5, <1>6, <1>7, <1>8 DEF PutStep

\* Every step of a PUT leaves three settings, and every GET at work torn.
LEMMA PutWrites ==
    ASSUME can = Fields(can), NEW c \in Callers, NEW b, PutStep(c, b)
    PROVE  /\ can' = Fields(can')
           /\ torn' = [d \in Callers |-> TRUE] /\ seen' = seen
           /\ Begins \/ (Writes(last.how) /\ at[c] \in Putting)
<1>1. Begins \/ (Writes(last.how) /\ at[c] \in Putting)
    BY DEF PutStep, PutId, PutIncomplete, ClearPort, ClearRate, PutSetting, RejectSetting,
           CheckBoth, Step, Putting
<1>2. torn' = [d \in Callers |-> TRUE] /\ seen' = seen
    <2>1. \E how : Writes(how)
        BY <1>1 DEF Begins
    <2> QED BY <2>1 DEF Writes
<1>3. \/ can' = can
      \/ \E v : can' = [can EXCEPT !.id = v]
      \/ \E v : can' = [can EXCEPT !.port = v]
      \/ \E v : can' = [can EXCEPT !.rate = v]
    BY DEF PutStep, PutId, PutIncomplete, ClearPort, ClearRate, PutSetting, RejectSetting,
           CheckBoth
<1>4. can' = Fields(can')
    BY <1>3, FieldsKept DEF Fields
<1> QED BY <1>1, <1>2, <1>4

\* A step of a PUT keeps what the GETs show.
LEMMA ShowsPut ==
    ASSUME CanTypeOK, PortKnown, Shows, NEW c \in Callers,
           UNCHANGED req, PutStep(c, req[c].body),
           at[c] \in Putting \ {"reject"} => Len(req[c].body.settings) = 2,
           at[c] = "setting" => index[c] \in 1 .. 2
    PROVE  Shows'
<1>1. /\ can' = Fields(can')
      /\ torn' = [d \in Callers |-> TRUE] /\ seen' = seen
      /\ Begins \/ (Writes(last.how) /\ at[c] \in Putting)
    BY PutWrites DEF Shows
<1>2. last'.how # "accepted" /\ (last'.how = "busy" => \A d \in Callers : d # c => at[d] \notin Putting)
    <2>1. CASE Begins
        <3>1. last'.how = IF \E d \in Callers : at[d] \in Putting THEN "mixed" ELSE "busy"
            BY <2>1 DEF Begins, Writes
        <3> QED BY <3>1
    <2>2. CASE Writes(last.how) /\ at[c] \in Putting
        <3>1. last'.how = last.how
            BY <2>2 DEF Writes
        <3> QED BY <2>2, <3>1 DEF PortKnown, NoPut, OnePut
    <2> QED BY <1>1, <2>1, <2>2
<1>3. ASSUME last'.how = "busy", NEW d \in Callers
      PROVE  WrittenBy(d)'
    <2>1. CASE d = c
        BY <1>3, <2>1, WritesAsked DEF Shows
    <2>2. CASE d # c
        <3>1. at'[d] = at[d] /\ at[d] \notin Putting
            BY <1>2, <1>3, <2>2, PutMoves
        <3> QED BY <3>1 DEF WrittenBy, Putting
    <2> QED BY <2>1, <2>2
<1>4. \A d \in Callers : seen'[d] = Fields(seen'[d]) /\ ReadBy(d)'
    BY <1>1 DEF Shows, ReadBy
<1> QED BY <1>1, <1>2, <1>3, <1>4 DEF Shows

\* The end of a PUT that was alone: all that it was asked is written.
LEMMA ShowsEndPut ==
    ASSUME CanTypeOK, PortKnown, Shows, NEW c \in Callers, NEW r \in {"OK", "ERROR"},
           EndPut(c, req[c].body, r),
           at[c] \in Putting \ {"reject"} => Len(req[c].body.settings) = 2
    PROVE  Shows'
<1> DEFINE b == req[c].body
<1>0. at \in [Callers -> Places] /\ at[c] \in Putting
    BY DEF CanTypeOK, EndPut, Step, Putting
<1>1. /\ UNCHANGED <<can, seen, torn>>
      /\ \A d \in Callers : at'[d] = IF d = c THEN "idle" ELSE at[d]
    BY <1>0 DEF EndPut, Step
<1>2. last'.how # "busy" /\ last.how # "accepted"
    BY <1>0 DEF EndPut, PortKnown, NoPut
<1>3. last'.how = "accepted" => can = last'.shown
    <2> SUFFICES ASSUME last'.how = "accepted" PROVE can = last'.shown
        OBVIOUS
    <2>1. /\ last.how = "busy" /\ at[c] = "up"
          /\ last'.shown = [id |-> b.id, port |-> Asked(b, "canport", NoValue),
                            rate |-> Asked(b, "bitrate", 0)]
        BY <1>2 DEF EndPut, Step
    <2>2. Len(b.settings) = 2
        BY <2>1 DEF Putting
    <2>3. /\ can.id = b.id
          /\ can.port = AskedTo(b, 2, "canport", NoValue)
          /\ can.rate = AskedTo(b, 2, "bitrate", 0)
        BY <2>1 DEF Shows, WrittenBy, Putting
    <2>4. can = [id |-> can.id, port |-> can.port, rate |-> can.rate]
        BY DEF Shows, Fields
    <2> HIDE DEF b
    <2> QED BY <2>1, <2>2, <2>3, <2>4, AskedAll
<1>4. \A d \in Callers : seen'[d] = Fields(seen'[d]) /\ ReadBy(d)'
    BY <1>1 DEF Shows, ReadBy
<1> QED BY <1>1, <1>2, <1>3, <1>4 DEF Shows

\* A GET reads what there is.
LEMMA ShowsGet ==
    ASSUME CanTypeOK, Shows, NEW c \in Callers, \A d \in Callers : req'[d] = req[d],
           GetStep(c) \/ \E r \in {"OK", "ERROR"} : EndGet(c, r)
    PROVE  Shows'
<1>0. /\ at \in [Callers -> Places] /\ DOMAIN seen = Callers
      /\ torn \in [Callers -> BOOLEAN] /\ index \in [Callers -> 1 .. 3]
    BY DEF CanTypeOK
<1>1. /\ UNCHANGED <<can, last, index>>
      /\ \A d \in Callers : d # c => at'[d] = at[d] /\ seen'[d] = seen[d] /\ torn'[d] = torn[d]
      /\ at'[c] \notin Putting
    BY <1>0 DEF GetStep, ReadId, ReadPort, ReadRate, EndGet, Step, Putting
<1>2. seen'[c] = Fields(seen'[c])
    <2>1. seen[c] = Fields(seen[c])
        BY DEF Shows
    <2>2. \/ seen'[c] = Unset
          \/ \E v : seen'[c] = [seen[c] EXCEPT !.id = v]
          \/ \E v : seen'[c] = [seen[c] EXCEPT !.port = v]
          \/ \E v : seen'[c] = [seen[c] EXCEPT !.rate = v]
        BY <1>0 DEF GetStep, ReadId, ReadPort, ReadRate, EndGet
    <2> QED BY <2>1, <2>2, FieldsKept DEF Fields, Unset
<1>3. ReadBy(c)'
    <2>0. seen[c] = Fields(seen[c]) /\ ReadBy(c)
        BY DEF Shows
    <2>1. CASE ReadId(c)
        <3>1. at'[c] \in {"nothing", "readPort"} /\ seen'[c] = [seen[c] EXCEPT !.id = can.id]
            BY <1>0, <2>1 DEF ReadId, Step
        <3>2. seen'[c].id = can.id
            BY <2>0, <3>1, FieldsKept
        <3> QED BY <1>1, <3>1, <3>2 DEF ReadBy
    <2>2. CASE ReadPort(c)
        <3>1. /\ at[c] = "readPort" /\ at'[c] = "readRate" /\ torn' = torn
              /\ seen'[c] = [seen[c] EXCEPT !.port = can.port]
            BY <1>0, <2>2 DEF ReadPort, Step
        <3>2. seen'[c].port = can.port /\ seen'[c].id = seen[c].id
            BY <2>0, <3>1, FieldsKept
        <3> QED BY <1>1, <2>0, <3>1, <3>2 DEF ReadBy
    <2>3. CASE ReadRate(c)
        <3>1. /\ at[c] = "readRate" /\ at'[c] = "shown" /\ torn' = torn
              /\ seen'[c] = [seen[c] EXCEPT !.rate = can.rate]
            BY <1>0, <2>3 DEF ReadRate, Step
        <3>2. /\ seen'[c].rate = can.rate /\ seen'[c].id = seen[c].id
              /\ seen'[c].port = seen[c].port
            BY <2>0, <3>1, FieldsKept
        <3> QED BY <1>1, <2>0, <3>1, <3>2 DEF ReadBy
    <2>4. CASE \E r \in {"OK", "ERROR"} : EndGet(c, r)
        <3>1. at'[c] = "idle"
            BY <1>0, <2>4 DEF EndGet, Step
        <3> QED BY <3>1 DEF ReadBy
    <2> QED BY <2>1, <2>2, <2>3, <2>4 DEF GetStep
<1>4. ASSUME NEW d \in Callers, d # c PROVE seen'[d] = Fields(seen'[d]) /\ ReadBy(d)'
    BY <1>1, <1>4 DEF Shows, ReadBy
<1>5. ASSUME last'.how = "busy", NEW d \in Callers PROVE WrittenBy(d)'
    <2>1. CASE d = c
        BY <1>1, <2>1 DEF WrittenBy, Putting
    <2>2. CASE d # c
        BY <1>1, <1>5, <2>2 DEF Shows, WrittenBy
    <2> QED BY <2>1, <2>2
<1> QED BY <1>1, <1>2, <1>3, <1>4, <1>5 DEF Shows

\* A step that leaves the settings alone, and the requests of those at work.
LEMMA ShowsStays ==
    ASSUME Shows, UNCHANGED canVars,
           \A c \in Callers : at[c] = "idle" \/ req'[c] = req[c]
    PROVE  Shows'
<1>1. UNCHANGED <<can, at, index, seen, torn, last>>
    BY DEF canVars
<1>2. ASSUME NEW c \in Callers, WrittenBy(c) PROVE WrittenBy(c)'
    BY <1>1, <1>2 DEF WrittenBy, Putting
<1>3. \A c \in Callers : seen'[c] = Fields(seen'[c]) /\ ReadBy(c)'
    BY <1>1 DEF Shows, ReadBy
<1> QED BY <1>1, <1>2, <1>3 DEF Shows

\* What is inductive of the CAN connection.
ShownInv == TypeInv /\ PortKnown /\ CrashNeedsReject /\ Shows

\* Every step keeps what the GETs show.
LEMMA ShowsStep == ShownInv /\ [Next]_vars => Shows'
<1> SUFFICES ASSUME ShownInv, [Next]_vars PROVE Shows'
    OBVIOUS
<1>0. /\ CanTypeOK /\ PortKnown /\ Shows /\ RestInv /\ Callers = Conns
      /\ \A c \in Conns : AtWorkOn(c)
    BY ServiceAssumption DEF ShownInv, TypeInv, AtWork
<1>1. CASE UNCHANGED vars \/ UNCHANGED <<restVars, canVars>>
    BY <1>0, <1>1, ShowsStays DEF vars, restVars, connVars
<1>2. CASE Server(MainStep) \/ Server(Signal)
    <2>1. UNCHANGED req
        BY <1>2 DEF Server, MainStep, StartDaemon, FailDaemon, Register, TestExit, Stop, Join,
                    FreeHandler, Signal, connVars
    <2> QED BY <1>0, <1>2, <2>1, ShowsStays DEF Server
<1>3. CASE Defaults
    <2>1. /\ can' = [[can EXCEPT !.port = "can0"] EXCEPT !.rate = 125] /\ last'.how = "defaults"
          /\ torn' = [c \in Callers |-> TRUE] /\ seen' = seen
        BY <1>3 DEF Defaults, SetDefaults, Writes
    <2>2. can' = Fields(can')
        <3>1. can = Fields(can)
            BY <1>0 DEF Shows
        <3>2. [can EXCEPT !.port = "can0"] = [id |-> can.id, port |-> "can0", rate |-> can.rate]
            BY <3>1, FieldsKept
        <3>3. can' = [id |-> can.id, port |-> "can0", rate |-> 125]
            BY <2>1, <3>2
        <3> QED BY <3>3 DEF Fields
    <2>3. \A c \in Callers : seen'[c] = Fields(seen'[c]) /\ ReadBy(c)'
        BY <1>0, <2>1 DEF Shows, ReadBy
    <2> QED BY <2>1, <2>2, <2>3 DEF Shows
<1>4. CASE \E c \in Conns : \/ Server(Accept(c)) \/ Server(Upload(c)) \/ Server(LoseUpload(c))
                            \/ Server(Locking(c)) \/ Server(ThreadStep(c))
    <2>1. PICK c \in Conns : \/ Server(Accept(c)) \/ Server(Upload(c)) \/ Server(LoseUpload(c))
                             \/ Server(Locking(c)) \/ Server(ThreadStep(c))
        BY <1>4
    <2>2. /\ UNCHANGED canVars
          /\ Accept(c) \/ Upload(c) \/ LoseUpload(c) \/ Locking(c) \/ ThreadStep(c)
        BY <2>1 DEF Server
    <2>3. pc[c] # "operation"
        BY <1>0, <2>2, OperationsBegin
    <2>4. at[c] = "idle"
        BY <1>0, <2>3 DEF AtWorkOn
    <2>5. \A d \in Conns : d # c => req'[d] = req[d]
        BY <1>0, <2>2, OthersStay
    <2> QED BY <1>0, <2>2, <2>4, <2>5, ShowsStays
<1>5. CASE \E c \in Conns : Operation(c)
    <2>1. PICK c \in Conns : Operation(c)
        BY <1>5
    <2>2. req' = req
        BY <1>0, <2>1, OperationReturns, Returns DEF restVars, connVars
    <2>3. CASE Operate(c)
        BY <1>0, <2>2, <2>3, ShowsStays DEF Operate
    <2>4. CASE Put(c)
        BY <1>0, <2>2, <2>4, ShowsPut, ShowsEndPut DEF Put, AtWorkOn
    <2>5. CASE Get(c)
        <3>1. GetStep(c) \/ \E r \in {"OK", "ERROR"} : EndGet(c, r)
            BY <2>5 DEF Get
        <3>2. \A d \in Callers : req'[d] = req[d]
            BY <2>2
        <3> QED BY <1>0, <3>1, <3>2, ShowsGet
    <2> QED BY <2>1, <2>3, <2>4, <2>5 DEF Operation
<1> QED BY <1>1, <1>2, <1>3, <1>4, <1>5 DEF Next

\* However many PUTs and GETs of the CAN connection cross each other, and whenever
\* main() sets its defaults: a GET that no write comes across shows what the last
\* PUT that was alone and was answered OK asked for, all of it, the last one of two
\* settings with the same key (impl.c:140-280, CanMonitor.c:602-603).
THEOREM GetsShowPuts == Spec => []AckedShown
<1>1. Init => ShownInv
    <2>1. Init => CrashNeedsReject
        BY DEF Init, CanInit, CrashNeedsReject
    <2> QED BY <2>1, TypeInvInit, InitPort, ShowsInit DEF ShownInv
<1>2. ShownInv /\ [Next]_vars => ShownInv'
    BY TypeInvStep, StepPort, ShowsStep, ServiceAssumption DEF ShownInv
<1>3. ShownInv => AckedShown
    <2> SUFFICES ASSUME ShownInv, NEW c \in Callers,
                        at[c] = "shown", ~torn[c], last.how = "accepted"
                 PROVE  seen[c] = last.shown
        BY DEF AckedShown
    <2>1. /\ can = Fields(can) /\ can = last.shown
          /\ seen[c] = Fields(seen[c]) /\ ReadBy(c)
        BY DEF ShownInv, Shows
    <2>2. seen[c].id = can.id /\ seen[c].port = can.port /\ seen[c].rate = can.rate
        BY <2>1 DEF ReadBy
    <2> QED BY <2>1, <2>2 DEF Fields
<1> QED BY <1>1, <1>2, <1>3, PTL DEF Spec

-----------------------------------------------------------------------------
(* What an operation gets of its request, and what a reply to status says. *)

\* The list that queryIterator makes, pair by pair.
LEMMA QueryPairsDef ==
    ASSUME NEW q, Len(q) \in Nat
    PROVE  \E pairs :
               /\ pairs = [n \in 0 .. Len(q) |->
                              IF n = 0 THEN <<>>
                              ELSE IF q[n].key = "id" THEN <<q[n]>> \o pairs[n - 1]
                              ELSE pairs[n - 1]]
               /\ QueryPairs(q) = pairs[Len(q)]
<1> DEFINE F(f, k) == IF k = 0 THEN <<>>
                      ELSE IF q[k].key = "id" THEN <<q[k]>> \o f[k - 1] ELSE f[k - 1]
           Is(f, m) == f = [k \in 0 .. m |-> F(f, k)]
           pairs == CHOOSE f : Is(f, Len(q))
<1>1. QueryPairs(q) = pairs[Len(q)]
    BY DEF QueryPairs
<1> HIDE DEF F
<1> DEFINE S == {m \in Nat : \E f : Is(f, m)}
<1>2. 0 \in S
    <2> DEFINE f == [k \in 0 .. 0 |-> <<>>]
    <2>1. \A k \in 0 .. 0 : F(f, k) = <<>>
        BY DEF F
    <2>2. Is(f, 0)
        BY <2>1
    <2> QED BY <2>2
<1>3. ASSUME NEW m \in Nat, m \in S PROVE m + 1 \in S
    <2>1. PICK f : Is(f, m)
        BY <1>3
    <2> DEFINE g == [k \in 0 .. m + 1 |-> IF k <= m THEN f[k] ELSE F(f, m + 1)]
    <2>2. ASSUME NEW k \in 0 .. m + 1 PROVE F(g, k) = F(f, k)
        <3>1. CASE k = 0
            BY <3>1 DEF F
        <3>2. CASE k # 0
            <4>1. k - 1 \in 0 .. m + 1 /\ k - 1 <= m
                BY <3>2
            <4>2. g[k - 1] = f[k - 1]
                BY <4>1
            <4> QED BY <3>2, <4>2 DEF F
        <3> QED BY <3>1, <3>2
    <2>3. ASSUME NEW k \in 0 .. m + 1 PROVE g[k] = F(g, k)
        <3>1. CASE k <= m
            <4>1. k \in 0 .. m
                BY <3>1
            <4>2. f[k] = F(f, k)
                BY <2>1, <4>1
            <4> QED BY <2>2, <3>1, <4>2
        <3>2. CASE ~(k <= m)
            <4>1. k = m + 1
                BY <3>2
            <4> QED BY <2>2, <3>2, <4>1
        <3> QED BY <3>1, <3>2
    <2>4. g = [k \in 0 .. m + 1 |-> F(g, k)]
        BY <2>3
    <2> HIDE DEF g
    <2> QED BY <2>4
<1>4. Len(q) \in S
    <2>1. Nat \subseteq S
        <3> HIDE DEF S
        <3> QED BY <1>2, <1>3, SetInduction
    <2> QED BY <2>1
<1>5. Is(pairs, Len(q))
    BY <1>4
<1> HIDE DEF pairs
<1>6. pairs = [n \in 0 .. Len(q) |->
                  IF n = 0 THEN <<>>
                  ELSE IF q[n].key = "id" THEN <<q[n]>> \o pairs[n - 1]
                  ELSE pairs[n - 1]]
    BY <1>5 DEF F
<1> QED BY <1>1, <1>6

\* Every pair whose key is id comes to the list, and stays in it.
LEMMA EveryIdFound ==
    ASSUME NEW q, q \in Seq(ToSet(q)), NEW a \in ToSet(q), a.key = "id"
    PROVE  a \in ToSet(QueryPairs(q))
<1>1. Len(q) \in Nat /\ \A i \in 1 .. Len(q) : q[i] \in ToSet(q)
    OBVIOUS
<1>2. PICK p : /\ p = [n \in 0 .. Len(q) |->
                          IF n = 0 THEN <<>>
                          ELSE IF q[n].key = "id" THEN <<q[n]>> \o p[n - 1]
                          ELSE p[n - 1]]
               /\ QueryPairs(q) = p[Len(q)]
    BY <1>1, QueryPairsDef
<1>3. PICK i \in 1 .. Len(q) : a = q[i]
    BY DEF ToSet
<1> DEFINE Has(n) == \E j \in 1 .. Len(p[n]) : p[n][j] = a
           S == {n \in Nat : n <= Len(q) => p[n] \in Seq(ToSet(q)) /\ (n >= i => Has(n))}
<1>4. 0 \in S
    BY <1>1, <1>2, <1>3
<1>5. ASSUME NEW n \in Nat, n \in S PROVE n + 1 \in S
    <2> SUFFICES ASSUME n + 1 <= Len(q)
                 PROVE  p[n + 1] \in Seq(ToSet(q)) /\ (n + 1 >= i => Has(n + 1))
        OBVIOUS
    <2>1. p[n] \in Seq(ToSet(q)) /\ (n >= i => Has(n)) /\ n + 1 \in 1 .. Len(q)
        BY <1>1, <1>5
    <2>2. p[n + 1] = IF q[n + 1].key = "id" THEN <<q[n + 1]>> \o p[n] ELSE p[n]
        <3>1. n + 1 \in 0 .. Len(q) /\ n + 1 # 0 /\ (n + 1) - 1 = n
            BY <2>1
        <3> QED BY <1>2, <3>1
    <2>3. CASE q[n + 1].key = "id"
        <3> DEFINE x == q[n + 1]
        <3>1. x \in ToSet(q)
            BY <1>1, <2>1
        <3>2. p[n + 1] = <<x>> \o p[n]
            BY <2>2, <2>3
        <3>3. n + 1 = i => x = a
            BY <1>3
        <3> HIDE DEF x
        <3>4. /\ p[n + 1] \in Seq(ToSet(q)) /\ Len(p[n + 1]) = Len(p[n]) + 1
              /\ p[n + 1][1] = x
              /\ \A j \in 1 .. Len(p[n]) : p[n + 1][j + 1] = p[n][j]
            BY <2>1, <3>1, <3>2
        <3>5. Len(p[n]) \in Nat
            BY <2>1
        <3>6. CASE n + 1 = i
            <4>1. p[n + 1][1] = a /\ 1 \in 1 .. Len(p[n + 1])
                BY <3>3, <3>4, <3>5, <3>6
            <4> QED BY <3>4, <4>1
        <3>7. CASE n >= i
            <4>1. PICK j \in 1 .. Len(p[n]) : p[n][j] = a
                BY <2>1, <3>7
            <4>2. j + 1 \in 1 .. Len(p[n + 1]) /\ p[n + 1][j + 1] = a
                BY <3>4, <3>5, <4>1
            <4> QED BY <3>4, <4>2
        <3>8. CASE ~(n + 1 >= i)
            BY <3>4, <3>8
        <3>9. n + 1 = i \/ n >= i \/ ~(n + 1 >= i)
            BY <1>3
        <3> QED BY <3>6, <3>7, <3>8, <3>9
    <2>4. CASE q[n + 1].key # "id"
        <3>1. n + 1 # i
            BY <1>3, <2>4
        <3>2. n + 1 >= i => n >= i
            BY <1>3, <3>1
        <3> QED BY <2>1, <2>2, <2>4, <3>2
    <2> QED BY <2>3, <2>4
<1>6. Nat \subseteq S
    <2> HIDE DEF S
    <2> QED BY <1>4, <1>5, SetInduction
<1>7. Has(Len(q)) /\ p[Len(q)] \in Seq(ToSet(q))
    BY <1>1, <1>3, <1>6
<1>8. PICK j \in 1 .. Len(p[Len(q)]) : p[Len(q)][j] = a
    BY <1>7
<1>9. j \in DOMAIN QueryPairs(q) /\ QueryPairs(q)[j] = a
    BY <1>2, <1>7, <1>8
<1> QED BY <1>9 DEF ToSet

\* The chunks of a body that have come are in order, and all of them have when the
\* handler looks at the request.
GotAt(c) ==
    /\ got[c] = [i \in 1 .. Len(got[c]) |-> i]
    /\ pc[c] = "idle" => got[c] = <<>>
    /\ pc[c] \notin {"idle", "upload"} => Len(got[c]) = req[c].chunks

\* Until SIGINT the monitor is ready, and every answer to status says so.
ReadyAt(c) ==
    /\ pc[c] \notin {"status", "reply"} => reply[c] = NoReply
    /\ pc[c] = "status" /\ ~signalled => reply[c].says = "ready"
    /\ pc[c] = "reply" /\ reply[c].says # "nothing" /\ ~signalled =>
           reply[c].says = "ready" /\ reply[c].code = 200

AnswersInOrder ==
    /\ ~signalled => status \in Ready
    /\ \A c \in Conns : GotAt(c) /\ ReadyAt(c)

InOrderInv == TypeInv /\ AnswersInOrder

\* The start.
LEMMA InOrderInit == Init => AnswersInOrder
<1> SUFFICES ASSUME Init PROVE AnswersInOrder
    OBVIOUS
<1>1. <<>> = [i \in 1 .. Len(<<>>) |-> i]
    OBVIOUS
<1>2. /\ status = "unconfigured"
      /\ \A c \in Conns : got[c] = <<>> /\ pc[c] = "idle" /\ reply[c] = NoReply
    BY DEF Init, RestInit
<1> QED BY <1>1, <1>2 DEF AnswersInOrder, GotAt, ReadyAt, Ready

\* One chunk more is the next one.
LEMMA NextChunk ==
    ASSUME NEW g \in Seq(Nat), g = [i \in 1 .. Len(g) |-> i]
    PROVE  Append(g, Len(g) + 1) = [i \in 1 .. Len(Append(g, Len(g) + 1)) |-> i]
<1> DEFINE h == Append(g, Len(g) + 1)
<1>1. h \in Seq(Nat) /\ Len(h) = Len(g) + 1 /\ Len(g) \in Nat
    OBVIOUS
<1>2. \A i \in 1 .. Len(g) + 1 : h[i] = IF i <= Len(g) THEN g[i] ELSE Len(g) + 1
    OBVIOUS
<1>3. \A i \in 1 .. Len(g) : g[i] = i
    OBVIOUS
<1>4. ASSUME NEW i \in 1 .. Len(h) PROVE h[i] = i
    BY <1>1, <1>2, <1>3
<1>5. DOMAIN h = 1 .. Len(h)
    BY <1>1
<1> HIDE DEF h
<1>6. h = [i \in DOMAIN h |-> h[i]]
    BY <1>1
<1>7. h = [i \in 1 .. Len(h) |-> i]
    BY <1>4, <1>5, <1>6
<1> QED BY <1>7 DEF h

\* A thread gets its body chunk by chunk, and forgets it at the end.
LEMMA GotThread ==
    ASSUME RestInv, NEW c \in Conns, GotAt(c),
           \/ Accept(c) \/ Upload(c) \/ LoseUpload(c) \/ Locking(c) \/ ThreadStep(c)
    PROVE  GotAt(c)'
<1>0. /\ DOMAIN pc = Conns /\ DOMAIN req = Conns /\ got \in [Conns -> Seq(Nat)]
    BY DEF RestInv, RestTypeOK, ConnTypeOK
<1>1. CASE Accept(c)
    <2>1. got'[c] = <<>> /\ pc'[c] = "upload"
        BY <1>0, <1>1 DEF Accept, Goto, GotAt
    <2> QED BY <2>1 DEF GotAt
<1>2. CASE Upload(c)
    <2>1. got[c] = [i \in 1 .. Len(got[c]) |-> i] /\ got[c] \in Seq(Nat)
        BY <1>0 DEF GotAt
    <2>2. /\ got'[c] = Append(got[c], Len(got[c]) + 1)
          /\ pc'[c] = "upload"
        BY <1>0, <1>2 DEF Upload
    <2>3. got'[c] = [i \in 1 .. Len(got'[c]) |-> i]
        BY <2>1, <2>2, NextChunk
    <2> QED BY <2>2, <2>3 DEF GotAt
<1>3. CASE LoseUpload(c) \/ Reply(c)
    <2>1. got'[c] = <<>> /\ pc'[c] = "idle"
        BY <1>0, <1>3 DEF LoseUpload, Reply, Goto, Forget
    <2>2. <<>> = [i \in 1 .. Len(<<>>) |-> i]
        OBVIOUS
    <2> QED BY <2>1, <2>2 DEF GotAt
<1>4. CASE Complete(c)
    <2>1. got' = got /\ req' = req /\ Len(got[c]) = req[c].chunks /\ pc'[c] # "idle"
        BY <1>0, <1>4 DEF Complete, Goto, Replies
    <2> QED BY <2>1 DEF GotAt
<1>5. CASE \/ Locking(c) \/ Walk(c) \/ EndWalk(c) \/ Unlock(c)
           \/ Direct(c) \/ StatusBody(c) \/ StatusCode(c) \/ Call(c)
    <2>1. got' = got /\ req' = req /\ pc[c] \notin {"idle", "upload"} /\ pc'[c] # "idle"
        BY <1>0, <1>5 DEF Locking, List, LockToFind, Walk, EndWalk, Unlock, Direct, StatusBody,
                          StatusCode, Call, Goto, Replies
    <2> QED BY <2>1 DEF GotAt
<1> QED BY <1>1, <1>2, <1>3, <1>4, <1>5 DEF ThreadStep

\* Only the status handler says something, and it looks at the status twice.
LEMMA ReadyThread ==
    ASSUME RestInv, NEW c \in Conns, ReadyAt(c), ~signalled => status \in Ready,
           \/ Accept(c) \/ Upload(c) \/ LoseUpload(c) \/ Locking(c) \/ ThreadStep(c)
    PROVE  ReadyAt(c)'
<1>0. /\ DOMAIN pc = Conns /\ reply \in [Conns -> Answers] /\ DOMAIN reply = Conns
      /\ reply[c] \in Answers
    BY DEF RestInv, RestTypeOK, ConnTypeOK
<1>1. signalled' = signalled
    BY ThreadShared
<1>2. CASE Accept(c) \/ Upload(c) \/ LockToFind(c) \/ Walk(c) \/ EndWalk(c) \/ Call(c)
    <2>1. reply'[c] = reply[c] /\ pc[c] \notin {"status", "reply"} /\ pc'[c] \notin {"status", "reply"}
        BY <1>0, <1>2 DEF Accept, Upload, LockToFind, Walk, EndWalk, Call, Goto
    <2> QED BY <2>1 DEF ReadyAt
<1>3. CASE LoseUpload(c) \/ Reply(c)
    <2>1. reply'[c] = NoReply /\ pc'[c] = "idle"
        BY <1>0, <1>3 DEF LoseUpload, Reply, Forget, Goto
    <2> QED BY <2>1 DEF ReadyAt
<1>4. CASE Complete(c) \/ List(c) \/ Unlock(c) \/ Direct(c)
    <2>1. \/ /\ reply'[c] = reply[c]
             /\ pc[c] \notin {"status", "reply"} /\ pc'[c] \notin {"status", "reply"}
          \/ pc'[c] = "reply" /\ \E n : reply'[c] = Code(n)
        BY <1>0, <1>4 DEF Complete, List, Unlock, Direct, Goto, Replies
    <2>2. CASE pc'[c] = "reply" /\ \E n : reply'[c] = Code(n)
        <3>1. pc'[c] = "reply" /\ reply'[c].says = "nothing"
            BY <2>2 DEF Code
        <3> QED BY <3>1 DEF ReadyAt
    <2>3. CASE pc'[c] # "reply"
        BY <2>1, <2>3 DEF ReadyAt
    <2> QED BY <2>1, <2>2, <2>3
<1>5. CASE StatusBody(c)
    <2>1. reply'[c] = [reply[c] EXCEPT !.says = Says(status)] /\ pc'[c] = "status"
        BY <1>0, <1>5 DEF StatusBody, Goto
    <2>2. ~signalled => Says(status) = "ready"
        BY DEF Says
    <2>3. reply'[c].says = Says(status)
        BY <1>0, <2>1 DEF Answers
    <2> QED BY <1>1, <2>1, <2>2, <2>3 DEF ReadyAt
<1>6. CASE StatusCode(c)
    <2> DEFINE n == IF status \in Ready THEN 200 ELSE 409
    <2>1. reply'[c] = [reply[c] EXCEPT !.code = n] /\ pc'[c] = "reply" /\ pc[c] = "status"
        BY <1>0, <1>6 DEF StatusCode, Goto, Replies
    <2>2. ~signalled => n = 200 /\ reply[c].says = "ready"
        BY <2>1 DEF ReadyAt
    <2> HIDE DEF n
    <2>3. reply'[c].says = reply[c].says /\ reply'[c].code = n
        BY <1>0, <2>1 DEF Answers
    <2> QED BY <1>1, <2>1, <2>2, <2>3 DEF ReadyAt
<1> QED BY <1>2, <1>3, <1>4, <1>5, <1>6 DEF ThreadStep, Locking

\* Every step keeps both.
LEMMA InOrderStep == InOrderInv /\ [Next]_vars => AnswersInOrder'
<1> SUFFICES ASSUME InOrderInv, [Next]_vars PROVE AnswersInOrder'
    OBVIOUS
<1>0. RestInv /\ AnswersInOrder
    BY DEF InOrderInv, TypeInv
<1>1. ASSUME UNCHANGED connVars, signalled' = signalled \/ signalled',
             ~signalled' => status' \in Ready
      PROVE  AnswersInOrder'
    <2>1. UNCHANGED <<pc, req, got, reply>>
        BY <1>1 DEF connVars
    <2>2. ASSUME NEW c \in Conns PROVE GotAt(c)' /\ ReadyAt(c)'
        BY <1>0, <1>1, <2>1 DEF AnswersInOrder, GotAt, ReadyAt
    <2> QED BY <1>1, <2>2 DEF AnswersInOrder
<1>2. CASE UNCHANGED restVars
    BY <1>0, <1>1, <1>2 DEF restVars, AnswersInOrder
<1>3. CASE Server(MainStep) \/ Server(Signal) \/ Defaults
    <2>1. UNCHANGED connVars
        BY <1>3 DEF Server, Defaults, SetStatus, MainStep, StartDaemon, FailDaemon, Register,
                    TestExit, Stop, Join, FreeHandler, Signal
    <2>2. \/ signalled'
          \/ signalled' = signalled /\ (status' = status \/ status' = "unconfigured")
        BY <1>3 DEF Server, Defaults, SetStatus, MainStep, StartDaemon, FailDaemon, Register,
                    TestExit, Stop, Join, FreeHandler, Signal
    <2> QED BY <1>0, <1>1, <2>1, <2>2 DEF AnswersInOrder, Ready
<1>4. ASSUME NEW c \in Conns, \/ Accept(c) \/ Upload(c) \/ LoseUpload(c) \/ Locking(c)
                              \/ ThreadStep(c) \/ Operation(c),
             signalled' = signalled, ~signalled' => status' \in Ready,
             GotAt(c)' /\ ReadyAt(c)'
      PROVE  AnswersInOrder'
    <2>1. ASSUME NEW d \in Conns, d # c PROVE GotAt(d)' /\ ReadyAt(d)'
        <3>1. /\ pc'[d] = pc[d] /\ req'[d] = req[d] /\ got'[d] = got[d] /\ reply'[d] = reply[d]
            BY <1>0, <1>4, <2>1, OthersStay
        <3> QED BY <1>0, <1>4, <3>1 DEF AnswersInOrder, GotAt, ReadyAt
    <2> QED BY <1>4, <2>1 DEF AnswersInOrder
<1>5. CASE \E c \in Conns : \/ Server(Accept(c)) \/ Server(Upload(c)) \/ Server(LoseUpload(c))
                            \/ Server(Locking(c)) \/ Server(ThreadStep(c))
    <2>1. PICK c \in Conns : \/ Accept(c) \/ Upload(c) \/ LoseUpload(c) \/ Locking(c)
                             \/ ThreadStep(c)
        BY <1>5 DEF Server
    <2>2. UNCHANGED <<status, signalled>>
        BY <1>0, <2>1, ThreadShared
    <2>3. GotAt(c)' /\ ReadyAt(c)'
        BY <1>0, <2>1, GotThread, ReadyThread DEF AnswersInOrder
    <2> QED BY <1>0, <1>4, <2>1, <2>2, <2>3 DEF AnswersInOrder
<1>6. CASE \E c \in Conns : Operation(c)
    <2>1. PICK c \in Conns : Operation(c)
        BY <1>6
    <2>2. CASE \E r \in {"OK", "ERROR"} : \E new :
                   Return(c, r, new) /\ (new = status \/ new \in {"configured", "running"})
        <3>0. PICK r \in {"OK", "ERROR"} : \E new :
                   Return(c, r, new) /\ (new = status \/ new \in {"configured", "running"})
            BY <2>2
        <3>1. PICK new :
                   Return(c, r, new) /\ (new = status \/ new \in {"configured", "running"})
            BY <3>0
        <3>2. /\ UNCHANGED <<signalled, req, got>> /\ status' = new
              /\ pc[c] = "operation" /\ pc' = [pc EXCEPT ![c] = "reply"]
              /\ reply' = [reply EXCEPT ![c] = Code(IF r = "OK" THEN 200 ELSE 409)]
            BY <1>0, <3>1, Returns
        <3>3. pc'[c] = "reply" /\ reply'[c].says = "nothing"
            BY <1>0, <3>2 DEF RestInv, RestTypeOK, ConnTypeOK, Code
        <3>4. GotAt(c)' /\ ReadyAt(c)'
            BY <1>0, <3>2, <3>3 DEF AnswersInOrder, GotAt, ReadyAt
        <3>5. ~signalled' => status' \in Ready
            BY <1>0, <3>1, <3>2 DEF AnswersInOrder, Ready
        <3> QED BY <1>4, <2>1, <3>2, <3>4, <3>5
    <2> QED BY <1>2, <2>1, <2>2, OperationReturns
<1> QED BY <1>2, <1>3, <1>5, <1>6 DEF Next, vars

\* What is inductive of the answers holds in every state.
LEMMA InOrderAlways == Spec => []InOrderInv
<1>1. Init => InOrderInv
    BY InOrderInit, TypeInvInit DEF InOrderInv
<1>2. InOrderInv /\ [Next]_vars => InOrderInv'
    BY InOrderStep, TypeInvStep DEF InOrderInv
<1> QED BY <1>1, <1>2, PTL DEF Spec

\* Whatever the requests, and however their chunks interleave with those of others,
\* an operation gets its whole body, in order, and every id that its query names
\* (rest-server.c:98-117, 143-150).
THEOREM RequestsComeWhole == Spec => []WholeRequest
<1>1. InOrderInv => WholeRequest
    <2> SUFFICES ASSUME InOrderInv, NEW c \in Conns, pc[c] = "operation"
                 PROVE  /\ got[c] = [i \in 1 .. req[c].chunks |-> i]
                        /\ \A a \in ToSet(req[c].query) :
                               a.key = "id" => a \in ToSet(QueryPairs(req[c].query))
        BY DEF WholeRequest
    <2>1. GotAt(c) /\ AtWorkOn(c)
        BY DEF InOrderInv, AnswersInOrder, TypeInv, AtWork
    <2>2. req[c] \in Requests
        BY <2>1 DEF AtWorkOn
    <2>3. req[c].query \in Seq(ToSet(req[c].query))
        BY <2>2, RestAssumption DEF Requests, RestAssumption
    <2>4. got[c] = [i \in 1 .. req[c].chunks |-> i]
        BY <2>1 DEF GotAt
    <2> QED BY <2>3, <2>4, EveryIdFound
<1> QED BY <1>1, InOrderAlways, PTL

\* Although the handler of status reads it twice, and other threads configure, start
\* and stop the monitor in between, its answer does not contradict itself before
\* SIGINT (adeptnessSvc.c:159, 179).
THEOREM StatusIsOne == Spec => []StatusAgrees
<1>1. InOrderInv => StatusAgrees
    BY DEF InOrderInv, AnswersInOrder, ReadyAt, StatusAgrees
<1> QED BY <1>1, InOrderAlways, PTL

-----------------------------------------------------------------------------
(* URLs. Which handler a request reaches.                                  *)

\* f is what Keep keeps of the first n parts, for each n.
Keeps(url, places, f) ==
    /\ f[0] = <<>>
    /\ \A n \in 1 .. Len(url) :
           f[n] = IF n \in places THEN Append(f[n - 1], url[n]) ELSE f[n - 1]

LEMMA KeepDef ==
    ASSUME NEW url, Len(url) \in Nat, NEW places
    PROVE  \E f : Keeps(url, places, f) /\ Keep(url, places) = f[Len(url)]
<1> DEFINE F(f, k) == IF k = 0 THEN <<>>
                      ELSE IF k \in places THEN Append(f[k - 1], url[k]) ELSE f[k - 1]
           Is(f, m) == f = [k \in 0 .. m |-> F(f, k)]
           kept == CHOOSE f : Is(f, Len(url))
<1>1. Keep(url, places) = kept[Len(url)]
    BY DEF Keep
<1> HIDE DEF F
<1> DEFINE S == {m \in Nat : \E f : Is(f, m)}
<1>2. 0 \in S
    <2> DEFINE f == [k \in 0 .. 0 |-> <<>>]
    <2>1. \A k \in 0 .. 0 : F(f, k) = <<>>
        BY DEF F
    <2>2. Is(f, 0)
        BY <2>1
    <2> QED BY <2>2
<1>3. ASSUME NEW m \in Nat, m \in S PROVE m + 1 \in S
    <2>1. PICK f : Is(f, m)
        BY <1>3
    <2> DEFINE g == [k \in 0 .. m + 1 |-> IF k <= m THEN f[k] ELSE F(f, m + 1)]
    <2>2. ASSUME NEW k \in 0 .. m + 1 PROVE F(g, k) = F(f, k)
        <3>1. CASE k = 0
            BY <3>1 DEF F
        <3>2. CASE k # 0
            <4>1. k - 1 \in 0 .. m + 1 /\ k - 1 <= m
                BY <3>2
            <4>2. g[k - 1] = f[k - 1]
                BY <4>1
            <4> QED BY <3>2, <4>2 DEF F
        <3> QED BY <3>1, <3>2
    <2>3. ASSUME NEW k \in 0 .. m + 1 PROVE g[k] = F(g, k)
        <3>1. CASE k <= m
            <4>1. k \in 0 .. m
                BY <3>1
            <4>2. f[k] = F(f, k)
                BY <2>1, <4>1
            <4> QED BY <2>2, <3>1, <4>2
        <3>2. CASE ~(k <= m)
            <4>1. k = m + 1
                BY <3>2
            <4> QED BY <2>2, <3>2, <4>1
        <3> QED BY <3>1, <3>2
    <2>4. g = [k \in 0 .. m + 1 |-> F(g, k)]
        BY <2>3
    <2> HIDE DEF g
    <2> QED BY <2>4
<1>4. Len(url) \in S
    <2>1. Nat \subseteq S
        <3> HIDE DEF S
        <3> QED BY <1>2, <1>3, SetInduction
    <2> QED BY <2>1
<1>5. Is(kept, Len(url))
    BY <1>4
<1> HIDE DEF kept
<1>6. \A k \in 0 .. Len(url) : kept[k] = F(kept, k)
    BY <1>5
<1>7. kept[0] = <<>>
    BY <1>6 DEF F
<1>8. \A n \in 1 .. Len(url) :
         kept[n] = IF n \in places THEN Append(kept[n - 1], url[n]) ELSE kept[n - 1]
    BY <1>6 DEF F
<1> QED BY <1>1, <1>7, <1>8 DEF Keeps

\* A URL as clients send it: names have a slash between them.
IsUrl(u) == u \in Seq(ToSet(u)) /\ \A i \in 2 .. Len(u) : Slash \in {u[i - 1], u[i]}

\* What the first n parts of a URL are normalized to, and their names.
Shape(u, n, N, M) ==
    /\ N \in Seq(ToSet(u)) /\ M \in Seq(ToSet(u))
    /\ Len(N) = 2 * Len(M) + (IF n > 0 /\ u[n] = Slash THEN 1 ELSE 0)
    /\ \A i \in 1 .. Len(M) : N[2 * i - 1] = Slash /\ N[2 * i] = M[i]
    /\ n > 0 /\ u[n] = Slash => N[2 * Len(M) + 1] = Slash

\* In a normalized URL every second place is a slash, and names are between.
LEMMA UrlShape ==
    ASSUME NEW u, IsUrl(u), u # <<>>, u[1] = Slash
    PROVE  Shape(u, Len(u), Normalize(u), Names(u))
<1> DEFINE P == DOMAIN u \ Repeated(u)
           Q == {i \in DOMAIN u : u[i] # Slash}
<1>0. u \in Seq(ToSet(u)) /\ Len(u) \in Nat /\ DOMAIN u = 1 .. Len(u) /\ Len(u) >= 1
    BY DEF IsUrl
<1>1. PICK f : Keeps(u, P, f) /\ Normalize(u) = f[Len(u)]
    <2>1. Normalize(u) = Keep(u, P)
        BY DEF Normalize
    <2> HIDE DEF P
    <2> QED BY <1>0, <2>1, KeepDef
<1>2. PICK g : Keeps(u, Q, g) /\ Names(u) = g[Len(u)]
    <2>1. Names(u) = Keep(u, Q)
        BY DEF Names
    <2> HIDE DEF Q
    <2> QED BY <1>0, <2>1, KeepDef
<1> DEFINE S == {n \in Nat : n <= Len(u) => Shape(u, n, f[n], g[n])}
<1>3. 0 \in S
    <2>1. f[0] = <<>> /\ g[0] = <<>>
        BY <1>1, <1>2 DEF Keeps
    <2>2. Shape(u, 0, <<>>, <<>>)
        BY DEF Shape
    <2> QED BY <2>1, <2>2
<1>4. ASSUME NEW n \in Nat, n \in S PROVE n + 1 \in S
    <2> SUFFICES ASSUME n + 1 <= Len(u)
                 PROVE  Shape(u, n + 1, f[n + 1], g[n + 1])
        OBVIOUS
    <2> DEFINE N == f[n]
               M == g[n]
               x == u[n + 1]
    <2>1. Shape(u, n, N, M) /\ n + 1 \in 1 .. Len(u) /\ (n + 1) - 1 = n /\ x \in ToSet(u)
        BY <1>0, <1>4 DEF ToSet
    <2>2. /\ f[n + 1] = IF n + 1 \in P THEN Append(N, x) ELSE N
          /\ g[n + 1] = IF n + 1 \in Q THEN Append(M, x) ELSE M
        <3> HIDE DEF P, Q
        <3> QED BY <1>1, <1>2, <2>1 DEF Keeps
    <2>3. n + 1 \in P <=> ~(n > 0 /\ x = Slash /\ u[n] = Slash)
        BY <1>0, <2>1 DEF Repeated
    <2>4. n + 1 \in Q <=> x # Slash
        BY <1>0, <2>1
    <2>5. x # Slash => n > 0 /\ u[n] = Slash
        <3>1. CASE n = 0
            BY <3>1
        <3>2. CASE n # 0
            <4>1. n + 1 \in 2 .. Len(u)
                BY <1>0, <2>1, <3>2
            <4>2. Slash \in {u[(n + 1) - 1], x}
                BY <4>1 DEF IsUrl
            <4> QED BY <2>1, <3>2, <4>2
        <3> QED BY <3>1, <3>2
    <2>6. N \in Seq(ToSet(u)) /\ M \in Seq(ToSet(u)) /\ Len(N) \in Nat /\ Len(M) \in Nat
        <3> HIDE DEF N, M
        <3>1. N \in Seq(ToSet(u)) /\ M \in Seq(ToSet(u))
            BY <2>1 DEF Shape
        <3> QED BY <3>1
    <2>7. n + 1 > 0
        OBVIOUS
    <2> DEFINE NN == Append(N, x)
               MM == Append(M, x)
    <2>8. /\ NN \in Seq(ToSet(u)) /\ Len(NN) = Len(N) + 1 /\ NN[Len(N) + 1] = x
          /\ \A i \in 1 .. Len(N) : NN[i] = N[i]
        BY <2>1, <2>6
    <2>9. /\ MM \in Seq(ToSet(u)) /\ Len(MM) = Len(M) + 1 /\ MM[Len(M) + 1] = x
          /\ \A i \in 1 .. Len(M) : MM[i] = M[i]
        BY <2>1, <2>6
    <2> HIDE DEF N, M, x, P, Q, NN, MM
    <2>10. CASE x # Slash
        <3>1. f[n + 1] = NN /\ g[n + 1] = MM
            BY <2>2, <2>3, <2>4, <2>10 DEF NN, MM
        <3>2. Len(N) = 2 * Len(M) + 1 /\ N[2 * Len(M) + 1] = Slash
            BY <2>1, <2>5, <2>10 DEF Shape
        <3>3. Len(NN) = 2 * Len(MM)
            BY <2>6, <2>8, <2>9, <3>2
        <3>4. ASSUME NEW i \in 1 .. Len(MM)
              PROVE  NN[2 * i - 1] = Slash /\ NN[2 * i] = MM[i]
            <4>1. CASE i = Len(M) + 1
                <5>1. 2 * i - 1 = 2 * Len(M) + 1 /\ 2 * i = Len(N) + 1 /\ 2 * i - 1 \in 1 .. Len(N)
                    BY <2>6, <3>2, <4>1
                <5>2. NN[2 * i] = x /\ MM[i] = x
                    BY <2>8, <2>9, <4>1, <5>1
                <5>3. NN[2 * i - 1] = N[2 * i - 1]
                    BY <2>8, <5>1 DEF NN
                <5>4. N[2 * i - 1] = Slash
                    BY <3>2, <5>1
                <5> QED BY <5>2, <5>3, <5>4
            <4>2. CASE i \in 1 .. Len(M)
                <5>1. 2 * i - 1 \in 1 .. Len(N) /\ 2 * i \in 1 .. Len(N)
                    BY <2>6, <3>2, <4>2
                <5>2. N[2 * i - 1] = Slash /\ N[2 * i] = M[i]
                    BY <2>1, <4>2 DEF Shape
                <5> QED BY <2>8, <2>9, <4>2, <5>1, <5>2
            <4>3. i = Len(M) + 1 \/ i \in 1 .. Len(M)
                BY <2>6, <2>9
            <4> QED BY <4>1, <4>2, <4>3
        <3>5. u[n + 1] # Slash
            BY <2>10 DEF x
        <3>6. Shape(u, n + 1, NN, MM)
            <4>1. Len(MM) \in Nat /\ Len(NN) = 2 * Len(MM) + 0
                BY <2>6, <2>9, <3>3
            <4> QED BY <2>8, <2>9, <3>4, <3>5, <4>1 DEF Shape
        <3> QED BY <3>1, <3>6
    <2>11. CASE x = Slash /\ n > 0 /\ u[n] = Slash
        <3>1. f[n + 1] = N /\ g[n + 1] = M
            BY <2>2, <2>3, <2>4, <2>11
        <3>2. u[n + 1] = Slash
            BY <2>11 DEF x
        <3> QED BY <2>1, <2>7, <2>11, <3>1, <3>2 DEF Shape
    <2>12. CASE x = Slash /\ ~(n > 0 /\ u[n] = Slash)
        <3>1. f[n + 1] = NN /\ g[n + 1] = M
            BY <2>2, <2>3, <2>4, <2>12 DEF NN
        <3>2. Len(N) = 2 * Len(M)
            BY <2>1, <2>6, <2>12 DEF Shape
        <3>3. Len(NN) = 2 * Len(M) + 1 /\ NN[2 * Len(M) + 1] = Slash
            BY <2>6, <2>8, <2>12, <3>2
        <3>4. ASSUME NEW i \in 1 .. Len(M)
              PROVE  NN[2 * i - 1] = Slash /\ NN[2 * i] = M[i]
            <4>1. 2 * i - 1 \in 1 .. Len(N) /\ 2 * i \in 1 .. Len(N)
                BY <2>6, <3>2
            <4>2. N[2 * i - 1] = Slash /\ N[2 * i] = M[i]
                BY <2>1 DEF Shape
            <4> QED BY <2>8, <4>1, <4>2
        <3>5. u[n + 1] = Slash
            BY <2>12 DEF x
        <3> QED BY <2>6, <2>7, <2>8, <3>1, <3>3, <3>4, <3>5 DEF Shape
    <2> QED BY <2>10, <2>11, <2>12
<1>5. Nat \subseteq S
    <2> HIDE DEF S
    <2> QED BY <1>3, <1>4, SetInduction
<1> QED BY <1>0, <1>1, <1>2, <1>5

\* Normalizing keeps what a URL begins with.
LEMMA FirstKept ==
    ASSUME NEW u, IsUrl(u), u # <<>>
    PROVE  Normalize(u) \in Seq(ToSet(u)) /\ Len(Normalize(u)) >= 1 /\ Normalize(u)[1] = u[1]
<1> DEFINE P == DOMAIN u \ Repeated(u)
<1>0. u \in Seq(ToSet(u)) /\ Len(u) \in Nat /\ DOMAIN u = 1 .. Len(u) /\ Len(u) >= 1
    BY DEF IsUrl
<1>1. PICK f : Keeps(u, P, f) /\ Normalize(u) = f[Len(u)]
    <2>1. Normalize(u) = Keep(u, P)
        BY DEF Normalize
    <2> HIDE DEF P
    <2> QED BY <1>0, <2>1, KeepDef
<1> DEFINE Has(n) == f[n] \in Seq(ToSet(u)) /\ Len(f[n]) >= 1 /\ f[n][1] = u[1]
           S == {n \in Nat : n + 1 <= Len(u) => Has(n + 1)}
<1>2. 0 \in S
    <2>1. 1 \in P /\ 1 \in 1 .. Len(u) /\ u[1] \in ToSet(u)
        BY <1>0 DEF Repeated, ToSet
    <2>2. f[1] = Append(<<>>, u[1])
        <3>1. 1 - 1 = 0
            OBVIOUS
        <3> HIDE DEF P
        <3> QED BY <1>1, <2>1, <3>1 DEF Keeps
    <2>3. /\ Append(<<>>, u[1]) \in Seq(ToSet(u)) /\ Len(Append(<<>>, u[1])) = 1
          /\ Append(<<>>, u[1])[1] = u[1]
        BY <2>1
    <2>4. Has(1)
        BY <2>2, <2>3
    <2> QED BY <2>4
<1>3. ASSUME NEW n \in Nat, n \in S PROVE n + 1 \in S
    <2> SUFFICES ASSUME n + 2 <= Len(u) PROVE Has(n + 2)
        OBVIOUS
    <2>1. Has(n + 1) /\ n + 2 \in 1 .. Len(u) /\ (n + 2) - 1 = n + 1 /\ u[n + 2] \in ToSet(u)
        BY <1>0, <1>3 DEF ToSet
    <2>2. f[n + 2] = Append(f[n + 1], u[n + 2]) \/ f[n + 2] = f[n + 1]
        <3> HIDE DEF P
        <3> QED BY <1>1, <2>1 DEF Keeps
    <2> DEFINE N == f[n + 1]
               NN == Append(N, u[n + 2])
    <2>3. NN \in Seq(ToSet(u)) /\ Len(NN) = Len(N) + 1 /\ NN[1] = N[1]
        BY <2>1
    <2>4. f[n + 2] = NN \/ f[n + 2] = N
        BY <2>2
    <2>5. N \in Seq(ToSet(u)) /\ Len(N) \in Nat /\ Len(N) >= 1 /\ N[1] = u[1]
        BY <2>1
    <2> HIDE DEF N, NN
    <2> QED BY <2>3, <2>4, <2>5
<1>4. Len(u) - 1 \in S
    <2>1. Nat \subseteq S
        <3> HIDE DEF S
        <3> QED BY <1>2, <1>3, SetInduction
    <2> QED BY <1>0, <2>1
<1> QED BY <1>0, <1>1, <1>4
\* A prefix, entry by entry.
LEMMA PrefixEntries ==
    ASSUME NEW S, NEW T, NEW s \in Seq(S), NEW t \in Seq(T)
    PROVE  IsPrefix(s, t) <=> Len(s) <= Len(t) /\ \A i \in 1 .. Len(s) : s[i] = t[i]
<1>1. CASE Len(s) <= Len(t)
    <2> DEFINE a == SubSeq(s, 1, Len(s))
               b == SubSeq(t, 1, Len(s))
    <2>1. /\ a \in Seq(S) /\ Len(a) = Len(s) /\ \A i \in 1 .. Len(s) : a[i] = s[i]
          /\ b \in Seq(T) /\ Len(b) = Len(s) /\ \A i \in 1 .. Len(s) : b[i] = t[i]
        BY <1>1
    <2>2. a = [i \in 1 .. Len(s) |-> a[i]] /\ b = [i \in 1 .. Len(s) |-> b[i]]
        BY <2>1
    <2>3. a = b <=> \A i \in 1 .. Len(s) : a[i] = b[i]
        BY <2>2
    <2> HIDE DEF a, b
    <2>4. IsPrefix(s, t) <=> a = b
        BY <1>1 DEF IsPrefix, a, b
    <2> QED BY <1>1, <2>1, <2>3, <2>4
<1>2. CASE ~(Len(s) <= Len(t))
    BY <1>2 DEF IsPrefix
<1> QED BY <1>1, <1>2

\* What a list is after an entry was added.
LEMMA LastAdded ==
    ASSUME NEW S, NEW s \in Seq(S), NEW e \in S, NEW t, t = Append(s, e), NEW n, Len(s) = n
    PROVE  /\ t \in Seq(S) /\ Len(t) = n + 1 /\ t[n + 1] = e
           /\ \A i \in 1 .. n : t[i] = s[i]
BY AppendProperties

\* The URLs of the handlers, entry by entry, and their names.
Words == {Slash, "adms", "v2", "ping", "microservice-info", "performance", "status"}

LEMMA SpecificIs ==
    /\ Specific \in Seq(Words) /\ Len(Specific) = 5
    /\ Specific[1] = Slash /\ Specific[2] = "adms" /\ Specific[3] = Slash
    /\ Specific[4] = "v2" /\ Specific[5] = Slash
    /\ Last(Specific) = Slash
    /\ "adms" # Slash /\ "v2" # Slash
<1>1. Slash \in Words /\ "adms" \in Words /\ "v2" \in Words
    BY DEF Words
<1>2. /\ Specific \in Seq(Words) /\ Len(Specific) = 5
      /\ Specific[1] = Slash /\ Specific[2] = "adms" /\ Specific[3] = Slash
      /\ Specific[4] = "v2" /\ Specific[5] = Slash
    BY <1>1 DEF Specific
<1>3. "adms" # Slash /\ "v2" # Slash
    BY DEF Slash
<1>4. Last(Specific) = Slash
    BY <1>2 DEF Last
<1> QED BY <1>2, <1>3, <1>4

LEMMA SpecificNames ==
    /\ Names(Specific) \in Seq(Words) /\ Len(Names(Specific)) = 2
    /\ Names(Specific)[1] = "adms" /\ Names(Specific)[2] = "v2"
<1> DEFINE Q == {i \in DOMAIN Specific : Specific[i] # Slash}
<1>1. PICK g : Keeps(Specific, Q, g) /\ Names(Specific) = g[Len(Specific)]
    <2>1. Names(Specific) = Keep(Specific, Q) /\ Len(Specific) \in Nat
        BY SpecificIs DEF Names
    <2> HIDE DEF Q
    <2> QED BY <2>1, KeepDef
<1>2. Q = {2, 4}
    BY SpecificIs
<1> HIDE DEF Q
<1>3. /\ g[0] = <<>>
      /\ \A n \in 1 .. 5 :
            g[n] = IF n \in {2, 4} THEN Append(g[n - 1], Specific[n]) ELSE g[n - 1]
    BY <1>1, <1>2, SpecificIs DEF Keeps
<1>4. g[1] = g[0] /\ g[3] = g[2] /\ g[5] = g[4]
    BY <1>3
<1>5. g[2] = Append(g[1], "adms") /\ g[4] = Append(g[3], "v2")
    BY <1>3, SpecificIs
<1>6. <<>> \in Seq(Words) /\ Len(<<>>) = 0 /\ "adms" \in Words /\ "v2" \in Words
    BY DEF Words
<1>7. g[2] = Append(<<>>, "adms") /\ g[4] = Append(g[2], "v2")
    BY <1>3, <1>4, <1>5
<1>8. g[2] \in Seq(Words) /\ Len(g[2]) = 1 /\ g[2][1] = "adms"
    <2>1. g[2] \in Seq(Words) /\ Len(g[2]) = 0 + 1 /\ g[2][0 + 1] = "adms"
        BY <1>6, <1>7, LastAdded
    <2> QED BY <2>1
<1>9. g[4] \in Seq(Words) /\ Len(g[4]) = 2 /\ g[4][1] = "adms" /\ g[4][2] = "v2"
    <2>1. /\ g[4] \in Seq(Words) /\ Len(g[4]) = 1 + 1 /\ g[4][1 + 1] = "v2"
          /\ \A i \in 1 .. 1 : g[4][i] = g[2][i]
        BY <1>6, <1>7, <1>8, LastAdded
    <2> QED BY <1>8, <2>1
<1> QED BY <1>1, <1>4, <1>9, SpecificIs

\* The URL of a handler of one place.
Place(x) == Specific \o <<x>>

LEMMA PlaceIs ==
    ASSUME NEW x \in Words, x # Slash, NEW h, h = Place(x)
    PROVE  /\ h \in Seq(Words) /\ Len(h) = 6
           /\ \A i \in 1 .. 5 : h[i] = Specific[i]
           /\ h[6] = x /\ Last(h) = x
           /\ Names(h) \in Seq(Words) /\ Len(Names(h)) = 3
           /\ Names(h)[1] = "adms" /\ Names(h)[2] = "v2" /\ Names(h)[3] = x
<1> DEFINE one == <<x>>
<1>1. one \in Seq(Words) /\ Len(one) = 1 /\ one[1] = x
    OBVIOUS
<1> HIDE DEF one
<1>2. h = Specific \o one
    BY DEF Place, one
<1>3. /\ h \in Seq(Words) /\ Len(h) = 6
      /\ \A i \in 1 .. 5 : h[i] = Specific[i]
      /\ h[6] = x
    <2>1. Specific \in Seq(Words) /\ Len(Specific) = 5
        BY SpecificIs
    <2>2. one \in Seq(Words)
        BY <1>1
    <2>3. /\ h \in Seq(Words) /\ Len(h) = Len(Specific) + Len(one)
          /\ \A i \in 1 .. Len(Specific) + Len(one) : h[i] =
                 IF i <= Len(Specific) THEN Specific[i] ELSE one[i - Len(Specific)]
        <3> DEFINE s == Specific
                   both == s \o one
        <3>1. s \in Seq(Words) /\ one \in Seq(Words)
            BY <2>1, <2>2
        <3> HIDE DEF s
        <3>2. /\ both \in Seq(Words) /\ Len(both) = Len(s) + Len(one)
              /\ \A i \in 1 .. Len(s) + Len(one) : both[i] =
                     IF i <= Len(s) THEN s[i] ELSE one[i - Len(s)]
            BY <3>1, ConcatProperties
        <3> QED BY <1>2, <3>2 DEF s
    <2>4. /\ h \in Seq(Words) /\ Len(h) = 6
          /\ \A i \in 1 .. 6 : h[i] = IF i <= 5 THEN Specific[i] ELSE one[i - 5]
        BY <1>1, <2>1, <2>3
    <2>5. h[6] = one[1] /\ \A i \in 1 .. 5 : h[i] = Specific[i]
        BY <2>4
    <2> QED BY <1>1, <2>4, <2>5
<1>4. DOMAIN h = 1 .. 6 /\ Last(h) = x
    BY <1>3 DEF Last
<1> DEFINE Q == {i \in DOMAIN h : h[i] # Slash}
<1>5. PICK g : Keeps(h, Q, g) /\ Names(h) = g[Len(h)]
    <2>1. Names(h) = Keep(h, Q) /\ Len(h) \in Nat
        BY <1>3 DEF Names
    <2> HIDE DEF Q
    <2> QED BY <2>1, KeepDef
<1>6. h[1] = Slash /\ h[2] = "adms" /\ h[3] = Slash /\ h[4] = "v2" /\ h[5] = Slash
    BY <1>3, SpecificIs
<1>7. Q = {2, 4, 6}
    BY <1>3, <1>4, <1>6, SpecificIs
<1> HIDE DEF Q
<1>8. /\ g[0] = <<>>
      /\ \A n \in 1 .. 6 :
            g[n] = IF n \in {2, 4, 6} THEN Append(g[n - 1], h[n]) ELSE g[n - 1]
    BY <1>3, <1>5, <1>7 DEF Keeps
<1>9. g[1] = g[0] /\ g[3] = g[2] /\ g[5] = g[4]
    BY <1>8
<1>10. g[2] = Append(g[1], "adms") /\ g[4] = Append(g[3], "v2") /\ g[6] = Append(g[5], x)
    BY <1>3, <1>6, <1>8
<1>11. <<>> \in Seq(Words) /\ Len(<<>>) = 0 /\ "adms" \in Words /\ "v2" \in Words
    BY DEF Words
<1>12. g[2] = Append(<<>>, "adms") /\ g[4] = Append(g[2], "v2") /\ g[6] = Append(g[4], x)
    BY <1>8, <1>9, <1>10
<1>13. g[2] \in Seq(Words) /\ Len(g[2]) = 1 /\ g[2][1] = "adms"
    <2>1. g[2] \in Seq(Words) /\ Len(g[2]) = 0 + 1 /\ g[2][0 + 1] = "adms"
        BY <1>11, <1>12, LastAdded
    <2> QED BY <2>1
<1>14. g[4] \in Seq(Words) /\ Len(g[4]) = 2 /\ g[4][1] = "adms" /\ g[4][2] = "v2"
    <2>1. /\ g[4] \in Seq(Words) /\ Len(g[4]) = 1 + 1 /\ g[4][1 + 1] = "v2"
          /\ \A i \in 1 .. 1 : g[4][i] = g[2][i]
        BY <1>11, <1>12, <1>13, LastAdded
    <2> QED BY <1>13, <2>1
<1>15. g[6] \in Seq(Words) /\ Len(g[6]) = 3 /\ g[6][1] = "adms" /\ g[6][2] = "v2" /\ g[6][3] = x
    <2>1. /\ g[6] \in Seq(Words) /\ Len(g[6]) = 2 + 1 /\ g[6][2 + 1] = x
          /\ \A i \in 1 .. 2 : g[6][i] = g[4][i]
        BY <1>12, <1>14, LastAdded
    <2> QED BY <1>14, <2>1
<1> QED BY <1>3, <1>4, <1>5, <1>15

\* A URL that does not begin with a slash reaches no handler, and none covers it.
LEMMA NoSlashNoMatch ==
    ASSUME NEW u, IsUrl(u), u # <<>>, u[1] # Slash,
           NEW h, h \in Seq(Words), Len(h) >= 1, h[1] = Slash
    PROVE  ~Matches(h, Normalize(u)) /\ ~Covers(h, u)
<1> DEFINE N == Normalize(u)
<1>1. N \in Seq(ToSet(u)) /\ Len(N) >= 1 /\ N[1] = u[1]
    BY FirstKept
<1> HIDE DEF N
<1>2. N # h
    BY <1>1
<1>3. ~IsPrefix(h, N)
    <2>1. 1 \in 1 .. Len(h)
        OBVIOUS
    <2> QED BY <1>1, <2>1, PrefixEntries
<1>4. ~Covers(h, u)
    BY DEF Covers, IsUrl
<1> QED BY <1>2, <1>3, <1>4 DEF Matches, N

\* The handler of the whole service takes a URL when its names begin with those
\* of the service and go on, or end in a slash.
LEMMA SpecificCovers ==
    ASSUME NEW u, IsUrl(u), u # <<>>, u[1] = Slash
    PROVE  Matches(Specific, Normalize(u)) <=> Covers(Specific, u)
<1> DEFINE N == Normalize(u)
           M == Names(u)
<1>1. Shape(u, Len(u), N, M)
    BY UrlShape
<1>2. Len(u) > 0 /\ Len(u) \in Nat /\ Head(u) = Slash
    BY DEF IsUrl
<1> HIDE DEF N, M
<1>3. /\ N \in Seq(ToSet(u)) /\ M \in Seq(ToSet(u)) /\ Len(N) \in Nat /\ Len(M) \in Nat
      /\ Len(N) = 2 * Len(M) + (IF Last(u) = Slash THEN 1 ELSE 0)
      /\ \A i \in 1 .. Len(M) : N[2 * i - 1] = Slash /\ N[2 * i] = M[i]
      /\ Last(u) = Slash => N[2 * Len(M) + 1] = Slash
    BY <1>1, <1>2 DEF Shape, Last
<1>4. IsPrefix(Specific, N) <=> Len(N) >= 5 /\ \A i \in 1 .. 5 : Specific[i] = N[i]
    <2>1. IsPrefix(Specific, N) <=>
              Len(Specific) <= Len(N) /\ \A i \in 1 .. Len(Specific) : Specific[i] = N[i]
        <3>1. Specific \in Seq(Words) /\ N \in Seq(ToSet(u))
            BY <1>3, SpecificIs
        <3> QED BY <3>1, PrefixEntries
    <2> QED BY <1>3, <2>1, SpecificIs
<1> DEFINE R == Names(Specific)
<1>5. IsPrefix(R, M) <=> Len(M) >= 2 /\ M[1] = "adms" /\ M[2] = "v2"
    <2>1. R \in Seq(Words) /\ Len(R) = 2 /\ R[1] = "adms" /\ R[2] = "v2"
        BY SpecificNames
    <2> HIDE DEF R
    <2>2. IsPrefix(R, M) <=> Len(R) <= Len(M) /\ \A i \in 1 .. Len(R) : R[i] = M[i]
        <3>1. R \in Seq(Words) /\ M \in Seq(ToSet(u))
            BY <1>3, <2>1
        <3> QED BY <3>1, PrefixEntries
    <2> QED BY <1>3, <2>1, <2>2
<1>6. Covers(Specific, u) <=> /\ IsPrefix(R, M)
                              /\ Len(M) > 2 \/ Last(u) = Slash
    BY <1>2, SpecificIs, SpecificNames DEF Covers, M
<1>7. Len(N) >= 5 <=> Len(M) > 2 \/ (Len(M) = 2 /\ Last(u) = Slash)
    <2>1. \A m \in Nat : /\ 2 * m + 1 >= 5 <=> m > 2 \/ m = 2
                         /\ 2 * m + 0 >= 5 <=> m > 2
        OBVIOUS
    <2> QED BY <1>3, <2>1
<1>8. ASSUME Len(N) >= 5 PROVE (\A i \in 1 .. 5 : Specific[i] = N[i]) <=> M[1] = "adms" /\ M[2] = "v2"
    <2>1. 1 \in 1 .. Len(M) /\ 2 \in 1 .. Len(M) /\ (3 \in 1 .. Len(M) \/ (Len(M) = 2 /\ Last(u) = Slash))
        BY <1>3, <1>7, <1>8
    <2>2. N[1] = Slash /\ N[2] = M[1] /\ N[3] = Slash /\ N[4] = M[2] /\ N[5] = Slash
        <3>1. /\ 2 * 1 - 1 = 1 /\ 2 * 1 = 2 /\ 2 * 2 - 1 = 3 /\ 2 * 2 = 4 /\ 2 * 3 - 1 = 5
              /\ 2 * 2 + 1 = 5
            OBVIOUS
        <3> QED BY <1>3, <2>1, <3>1
    <2> QED BY <2>2, SpecificIs
<1>9. Matches(Specific, N) <=> IsPrefix(Specific, N)
    BY SpecificIs DEF Matches
<1> QED BY <1>3, <1>4, <1>5, <1>6, <1>7, <1>8, <1>9 DEF N

\* A handler of one place takes a URL when their names are the same, and no
\* slash ends it.
LEMMA PlaceCovers ==
    ASSUME NEW u, IsUrl(u), u # <<>>, u[1] = Slash, NEW x \in Words, x # Slash,
           NEW h, h = Place(x)
    PROVE  Matches(h, Normalize(u)) <=> Covers(h, u)
<1> DEFINE N == Normalize(u)
           M == Names(u)
           R == Names(h)
<1>0. /\ h \in Seq(Words) /\ Len(h) = 6 /\ \A i \in 1 .. 5 : h[i] = Specific[i]
      /\ h[6] = x /\ Last(h) = x
    <2> HIDE DEF R
    <2> QED BY PlaceIs
<1>4. /\ R \in Seq(Words) /\ Len(R) = 3
      /\ R[1] = "adms" /\ R[2] = "v2" /\ R[3] = x
    BY PlaceIs
<1>1. Shape(u, Len(u), N, M)
    BY UrlShape
<1>2. Len(u) > 0 /\ Len(u) \in Nat /\ Head(u) = Slash
    BY DEF IsUrl
<1> HIDE DEF N, M, R
<1>3. /\ N \in Seq(ToSet(u)) /\ M \in Seq(ToSet(u)) /\ Len(N) \in Nat /\ Len(M) \in Nat
      /\ Len(N) = 2 * Len(M) + (IF Last(u) = Slash THEN 1 ELSE 0)
      /\ \A i \in 1 .. Len(M) : N[2 * i - 1] = Slash /\ N[2 * i] = M[i]
    BY <1>1, <1>2 DEF Shape, Last
<1>5. N = h <=> Len(N) = 6 /\ \A i \in 1 .. 6 : N[i] = h[i]
    <2>1. N = [i \in 1 .. Len(N) |-> N[i]] /\ h = [i \in 1 .. 6 |-> h[i]]
        BY <1>0, <1>3
    <2> QED BY <1>0, <2>1
<1>6. IsPrefix(R, M) <=> Len(M) >= 3 /\ M[1] = "adms" /\ M[2] = "v2" /\ M[3] = x
    <2>1. IsPrefix(R, M) <=> Len(R) <= Len(M) /\ \A i \in 1 .. Len(R) : R[i] = M[i]
        <3>1. R \in Seq(Words) /\ M \in Seq(ToSet(u))
            BY <1>3, <1>4
        <3> QED BY <3>1, PrefixEntries
    <2> QED BY <1>3, <1>4, <2>1
<1>7. Covers(h, u) <=> IsPrefix(R, M) /\ ~(Len(M) > 3 \/ Last(u) = Slash)
    BY <1>0, <1>2, <1>4 DEF Covers, M, R
<1>8. Len(N) = 6 <=> Len(M) = 3 /\ Last(u) # Slash
    <2>1. \A m \in Nat : 2 * m + 1 # 6 /\ (2 * m + 0 = 6 <=> m = 3)
        OBVIOUS
    <2> QED BY <1>3, <2>1
<1>9. ASSUME Len(N) = 6
      PROVE  (\A i \in 1 .. 6 : N[i] = h[i]) <=> M[1] = "adms" /\ M[2] = "v2" /\ M[3] = x
    <2>1. Len(M) = 3
        BY <1>8, <1>9
    <2>2. /\ N[1] = Slash /\ N[2] = M[1] /\ N[3] = Slash /\ N[4] = M[2] /\ N[5] = Slash
          /\ N[6] = M[3]
        <3>1. /\ 2 * 1 - 1 = 1 /\ 2 * 1 = 2 /\ 2 * 2 - 1 = 3 /\ 2 * 2 = 4 /\ 2 * 3 - 1 = 5
              /\ 2 * 3 = 6
            OBVIOUS
        <3>2. 1 \in 1 .. Len(M) /\ 2 \in 1 .. Len(M) /\ 3 \in 1 .. Len(M)
            BY <2>1
        <3> QED BY <1>3, <3>1, <3>2
    <2>3. h[1] = Slash /\ h[2] = "adms" /\ h[3] = Slash /\ h[4] = "v2" /\ h[5] = Slash
        BY <1>0, SpecificIs
    <2> QED BY <1>0, <2>2, <2>3
<1>10. Matches(h, N) <=> N = h
    BY <1>0 DEF Matches
<1> QED BY <1>3, <1>5, <1>6, <1>7, <1>8, <1>9, <1>10 DEF N

\* The test of http_handler, on the normalized URL, finds the handlers whose URL
\* covers the request's.
LEMMA MatchesCovers ==
    ASSUME NEW u, IsUrl(u), u # <<>>, NEW h \in ToSet(Handlers)
    PROVE  Matches(h, Normalize(u)) <=> Covers(h, u)
<1>1. h \in {Specific, Ping, Info, Metrics, Status}
    BY FiveHandlers
<1>2. CASE h = Specific
    BY <1>2, SpecificCovers, NoSlashNoMatch, SpecificIs
<1>3. CASE h # Specific
    <2>1. PICK x \in {"ping", "microservice-info", "performance", "status"} : h = Place(x)
        BY <1>1, <1>3 DEF Place, Ping, Info, Metrics, Status
    <2>2. x \in Words /\ x # Slash
        BY DEF Words, Slash
    <2>3. h \in Seq(Words) /\ Len(h) >= 1 /\ h[1] = Slash
        BY <2>1, <2>2, PlaceIs, SpecificIs
    <2> QED BY <2>1, <2>2, <2>3, PlaceCovers, NoSlashNoMatch
<1> QED BY <1>2, <1>3


\* The other handlers have longer URLs, which end in a name.
LEMMA ListedUrls ==
    /\ Len(Specific) = 5 /\ Last(Specific) = Slash
    /\ \A h \in {Ping, Info, Metrics, Status} : h # Specific /\ Len(h) = 6 /\ Last(h) # Slash
<1>1. ASSUME NEW h \in {Ping, Info, Metrics, Status}
      PROVE  h # Specific /\ Len(h) = 6 /\ Last(h) # Slash
    <2>1. PICK x \in {"ping", "microservice-info", "performance", "status"} : h = Place(x)
        BY DEF Place, Ping, Info, Metrics, Status
    <2>2. x \in Words /\ x # Slash
        BY DEF Words, Slash
    <2>3. Len(h) = 6 /\ Last(h) = x
        BY <2>1, <2>2, PlaceIs
    <2> QED BY <2>2, <2>3, SpecificIs
<1> QED BY <1>1, SpecificIs

-----------------------------------------------------------------------------
(* The walk over the list of handlers.                                     *)

\* The first handler of the list that matches the URL, if any does.
FirstFit(list, u, found) ==
    \/ found = {} /\ \A i \in 1 .. Len(list) : ~Matches(list[i], u)
    \/ \E i \in 1 .. Len(list) :
          /\ found = {list[i]} /\ Matches(list[i], u)
          /\ \A j \in 1 .. i - 1 : ~Matches(list[j], u)

\* The handler that was registered last comes first.
InOrder ==
    freed = {} => \A i \in 1 .. Len(handlers) : handlers[i] = Handlers[Len(handlers) + 1 - i]

\* A thread that looks for its handler holds the lock, and no handler that it has
\* passed matches.
WalkAt(c) ==
    /\ pc[c] \in {"find", "walk", "unlock"} =>
           ~IsRoot(req[c].url) /\ nurl[c] = Normalize(req[c].url)
    /\ pc[c] \in {"walk", "unlock"} => lock = c
    /\ pc[c] = "walk" =>
           \A i \in 1 .. Len(handlers) : i < pos[c] => ~Matches(handlers[i], nurl[c])
    /\ pc[c] = "unlock" => FirstFit(handlers, nurl[c], hit[c])

WalksRight == InOrder /\ \A c \in Conns : WalkAt(c)

RightInv == TypeInv /\ FreedWhenIdle /\ WalksRight

\* It holds at the start.
LEMMA WalksInit == Init => WalksRight
BY DEF Init, RestInit, WalksRight, InOrder, WalkAt

\* main() adds a handler at the front, when no thread holds the lock; and it frees
\* them when none is left.
LEMMA WalksMain ==
    ASSUME RightInv, MainStep \/ SetStatus \/ Signal
    PROVE  WalksRight'
<1>0. /\ MainTypeOK /\ ListKept /\ InOrder /\ \A c \in Conns : WalkAt(c)
      /\ UNCHANGED connVars
    BY DEF RightInv, TypeInv, RestInv, RestTypeOK, WalksRight, MainStep, StartDaemon, FailDaemon,
           Register, TestExit, Stop, Join, FreeHandler, SetStatus, Signal
<1>1. UNCHANGED <<pc, req, nurl, pos, hit, lock>>
    BY <1>0 DEF connVars, MainStep, StartDaemon, FailDaemon, Register, TestExit, Stop, Join,
           FreeHandler, SetStatus, Signal
<1>2. CASE Register
    <2> DEFINE n == Len(handlers)
               h == Handlers[n + 1]
    <2>1. /\ handlers \in Seq(ToSet(Handlers)) /\ n \in Nat /\ n < 5 /\ freed' = freed
          /\ handlers' = <<h>> \o handlers /\ lock = Nobody
        <3>1. Len(handlers) < Len(Handlers) /\ handlers \in Seq(ToSet(Handlers))
            BY <1>0, <1>2 DEF Register, Registered, Duty, ListKept, MainTypeOK
        <3>2. freed' = freed /\ handlers' = <<h>> \o handlers /\ lock = Nobody
            BY <1>2 DEF Register
        <3> QED BY <3>1, <3>2, FiveHandlers
    <2>2. h \in ToSet(Handlers)
        BY <2>1, FiveHandlers
    <2> DEFINE one == <<h>>
    <2> HIDE DEF h
    <2>3. one \in Seq(ToSet(Handlers)) /\ Len(one) = 1 /\ one[1] = h
        BY <2>2
    <2> HIDE DEF one, n
    <2>4. /\ Len(one \o handlers) = n + 1
          /\ \A i \in 1 .. n + 1 :
                (one \o handlers)[i] = IF i <= 1 THEN one[i] ELSE handlers[i - 1]
        <3>1. one \in Seq(ToSet(Handlers)) /\ handlers \in Seq(ToSet(Handlers))
            BY <2>1, <2>3
        <3>2. /\ Len(one \o handlers) = Len(one) + Len(handlers)
              /\ \A i \in 1 .. Len(one) + Len(handlers) : (one \o handlers)[i] =
                     IF i <= Len(one) THEN one[i] ELSE handlers[i - Len(one)]
            BY <3>1, ConcatProperties
        <3> QED BY <2>1, <2>3, <3>2 DEF n
    <2>5. handlers' = one \o handlers
        BY <2>1 DEF one
    <2>6. InOrder'
        <3> SUFFICES ASSUME freed = {}, NEW i \in 1 .. n + 1
                     PROVE  handlers'[i] = Handlers[n + 1 + 1 - i]
            BY <2>1, <2>4, <2>5 DEF InOrder
        <3>1. CASE i = 1
            <4>1. n + 1 + 1 - i = n + 1
                BY <2>1, <3>1
            <4>2. handlers'[i] = h
                BY <2>1, <2>3, <2>4, <2>5, <3>1
            <4> QED BY <4>1, <4>2 DEF h
        <3>2. CASE i # 1
            <4>1. i - 1 \in 1 .. n /\ n + 1 - (i - 1) = n + 1 + 1 - i
                BY <2>1, <3>2
            <4>2. handlers'[i] = handlers[i - 1]
                BY <2>1, <2>4, <2>5, <3>2
            <4>3. handlers[i - 1] = Handlers[n + 1 - (i - 1)]
                BY <1>0, <4>1 DEF InOrder, n
            <4> QED BY <4>1, <4>2, <4>3
        <3> QED BY <3>1, <3>2
    <2>7. ASSUME NEW c \in Conns PROVE WalkAt(c)'
        <3>1. lock # c
            BY <2>1, RestAssumption DEF RestAssumption
        <3>2. WalkAt(c) /\ pc[c] \notin {"walk", "unlock"}
            BY <1>0, <3>1 DEF WalkAt
        <3> QED BY <1>1, <3>2 DEF WalkAt
    <2> QED BY <2>6, <2>7 DEF WalksRight
<1>3. CASE FreeHandler
    <2>1. freed' # {} /\ AllIdle
        BY <1>3 DEF FreeHandler, Duty, RightInv, FreedWhenIdle
    <2>2. ASSUME NEW c \in Conns PROVE WalkAt(c)'
        BY <1>1, <2>1 DEF AllIdle, WalkAt
    <2> QED BY <2>1, <2>2 DEF WalksRight, InOrder
<1>4. CASE UNCHANGED <<handlers, freed>>
    <2>1. ASSUME NEW c \in Conns PROVE WalkAt(c)'
        BY <1>0, <1>1, <1>4 DEF WalkAt
    <2> QED BY <1>0, <1>4, <2>1 DEF WalksRight, InOrder
<1> QED BY <1>2, <1>3, <1>4 DEF MainStep, StartDaemon, FailDaemon, TestExit, Stop, Join,
                                SetStatus, Signal, mainVars

\* What a step of a thread does to the lock: it takes it when nobody has it, and
\* gives it back.
LEMMA LockMoves ==
    ASSUME RestInv, NEW c \in Conns,
           \/ Accept(c) \/ Upload(c) \/ LoseUpload(c) \/ Locking(c) \/ ThreadStep(c)
           \/ Operation(c)
    PROVE  /\ UNCHANGED <<handlers, freed>>
           /\ \/ lock' = lock
              \/ lock = Nobody
              \/ pc[c] = "unlock"
<1>1. CASE Accept(c) \/ Upload(c) \/ LoseUpload(c) \/ Locking(c)
    BY <1>1 DEF Accept, Upload, LoseUpload, Locking, List, LockToFind, Shared, mainVars
<1>2. CASE ThreadStep(c)
    BY <1>2 DEF ThreadStep, Complete, Walk, EndWalk, Unlock, Direct, StatusBody, StatusCode, Call,
                Reply, Shared, mainVars, Goto, Replies
<1>3. CASE Operation(c)
    <2>1. CASE UNCHANGED restVars
        BY <2>1 DEF restVars, mainVars
    <2>2. CASE \E r \in {"OK", "ERROR"} : \E new : Return(c, r, new)
        BY <2>2, Returns DEF mainVars
    <2> QED BY <1>3, <2>1, <2>2, OperationReturns
<1> QED BY <1>1, <1>2, <1>3

\* A thread that walks goes on past a handler that does not match, and stops at
\* the first one that does.
LEMMA WalkMoves ==
    ASSUME RestInv, NEW c \in Conns, WalkAt(c),
           \/ Accept(c) \/ Upload(c) \/ LoseUpload(c) \/ Locking(c) \/ ThreadStep(c)
           \/ Operation(c)
    PROVE  WalkAt(c)'
<1>0. /\ DOMAIN pc = Conns /\ DOMAIN req = Conns /\ DOMAIN nurl = Conns /\ DOMAIN pos = Conns
      /\ DOMAIN hit = Conns /\ pos[c] \in Nat /\ UNCHANGED <<handlers, freed>>
      /\ handlers \in Seq(ToSet(Handlers)) /\ Len(handlers) \in Nat
      /\ pc[c] = "walk" => pos[c] # 0
    <2>1. pos[c] \in Nat
        <3>1. pos[c] \in 0 .. Len(Handlers) + 1 /\ Len(Handlers) = 5
            BY FiveHandlers DEF RestInv, RestTypeOK, ConnTypeOK
        <3> QED BY <3>1
    <2> QED BY <2>1, LockMoves DEF RestInv, RestTypeOK, ConnTypeOK, MainTypeOK, WalksKept
<1>1. CASE Complete(c)
    <2>1. CASE ~IsRoot(req[c].url)
        <3>1. /\ pc'[c] = "find" /\ nurl'[c] = Normalize(req[c].url) /\ req' = req
            BY <1>0, <1>1, <2>1 DEF Complete, Goto
        <3> QED BY <2>1, <3>1 DEF WalkAt
    <2>2. CASE IsRoot(req[c].url)
        <3>1. pc'[c] \in {"list", "reply"}
            BY <1>0, <1>1, <2>2 DEF Complete, Goto, Replies
        <3> QED BY <3>1 DEF WalkAt
    <2> QED BY <2>1, <2>2
<1>2. CASE LockToFind(c)
    <2>1. /\ pc[c] = "find" /\ pc'[c] = "walk" /\ pos'[c] = 1 /\ lock' = c
          /\ req' = req /\ nurl' = nurl
        BY <1>0, <1>2 DEF LockToFind, Goto
    <2> QED BY <1>0, <2>1 DEF WalkAt
<1>3. CASE Walk(c)
    <2>1. /\ pc[c] = "walk" /\ pc' = pc /\ pos'[c] = pos[c] + 1 /\ lock' = lock
          /\ req' = req /\ nurl' = nurl /\ pos[c] <= Len(handlers)
          /\ ~Matches(handlers[pos[c]], nurl[c])
        BY <1>0, <1>3 DEF Walk, AtEnd, AtHit, Shared
    <2>2. ASSUME NEW i \in 1 .. Len(handlers), i < pos[c] + 1
          PROVE  ~Matches(handlers[i], nurl[c])
        <3>1. i < pos[c] \/ i = pos[c]
            BY <1>0, <2>2
        <3> QED BY <2>1, <3>1 DEF WalkAt
    <2> QED BY <1>0, <2>1, <2>2 DEF WalkAt
<1>4. CASE EndWalk(c)
    <2> DEFINE p == pos[c]
    <2>1. /\ pc[c] = "walk" /\ pc'[c] = "unlock" /\ lock' = lock /\ req' = req /\ nurl' = nurl
          /\ AtEnd(c) \/ AtHit(c)
          /\ hit'[c] = IF AtHit(c) THEN {handlers[p]} ELSE {}
        BY <1>0, <1>4 DEF EndWalk, Goto, Shared
    <2>2. \A i \in 1 .. Len(handlers) : i < p => ~Matches(handlers[i], nurl[c])
        BY <2>1 DEF WalkAt
    <2>3. FirstFit(handlers, nurl[c], hit'[c])
        <3>1. CASE AtHit(c)
            <4>1. p \in 1 .. Len(handlers) /\ Matches(handlers[p], nurl[c]) /\ hit'[c] = {handlers[p]}
                BY <1>0, <2>1, <3>1 DEF AtHit, AtEnd
            <4>2. \A j \in 1 .. p - 1 : ~Matches(handlers[j], nurl[c])
                BY <1>0, <2>2, <4>1
            <4> HIDE DEF p
            <4> QED BY <4>1, <4>2 DEF FirstFit
        <3>2. CASE ~AtHit(c)
            <4>1. hit'[c] = {} /\ p > Len(handlers)
                BY <2>1, <3>2 DEF AtEnd
            <4>2. \A i \in 1 .. Len(handlers) : ~Matches(handlers[i], nurl[c])
                BY <1>0, <2>2, <4>1
            <4> QED BY <4>1, <4>2 DEF FirstFit
        <3> QED BY <3>1, <3>2
    <2> QED BY <1>0, <2>1, <2>3 DEF WalkAt
<1>5. CASE \/ Accept(c) \/ Upload(c) \/ LoseUpload(c) \/ List(c) \/ Unlock(c)
           \/ Direct(c) \/ StatusBody(c) \/ StatusCode(c) \/ Call(c) \/ Reply(c)
    <2>1. pc'[c] \notin {"find", "walk", "unlock"}
        BY <1>0, <1>5 DEF Accept, Upload, LoseUpload, List, Unlock, Direct, StatusBody, StatusCode,
                          Call, Reply, Goto, Replies
    <2> QED BY <2>1 DEF WalkAt
<1>6. CASE Operation(c)
    <2>1. pc[c] = "operation"
        BY <1>6 DEF Operation
    <2>2. CASE UNCHANGED restVars
        <3>1. pc' = pc
            BY <2>2 DEF restVars, connVars
        <3> QED BY <2>1, <3>1 DEF WalkAt
    <2>3. CASE \E r \in {"OK", "ERROR"} : \E new : Return(c, r, new)
        <3>1. pc'[c] = "reply"
            BY <1>0, <2>3, Returns
        <3> QED BY <3>1 DEF WalkAt
    <2> QED BY <1>6, <2>2, <2>3, OperationReturns
<1> QED BY <1>1, <1>2, <1>3, <1>4, <1>5, <1>6 DEF ThreadStep, Locking

\* Every step keeps the walks right.
LEMMA WalksStep == RightInv /\ [Next]_vars => WalksRight'
<1> SUFFICES ASSUME RightInv, [Next]_vars PROVE WalksRight'
    OBVIOUS
<1>0. RestInv /\ InOrder /\ \A c \in Conns : WalkAt(c)
    BY DEF RightInv, TypeInv, WalksRight
<1>1. CASE UNCHANGED restVars
    <2>1. UNCHANGED <<pc, req, nurl, pos, hit, lock, handlers, freed>>
        BY <1>1 DEF restVars, connVars, mainVars
    <2> QED BY <1>0, <2>1 DEF WalksRight, InOrder, WalkAt
<1>2. CASE MainStep \/ SetStatus \/ Signal
    BY <1>2, WalksMain
<1>3. ASSUME NEW c \in Conns,
             \/ Accept(c) \/ Upload(c) \/ LoseUpload(c) \/ Locking(c) \/ ThreadStep(c)
             \/ Operation(c)
      PROVE  WalksRight'
    <2>1. UNCHANGED <<handlers, freed>>
        BY <1>0, <1>3, LockMoves
    <2>2. WalkAt(c)'
        BY <1>0, <1>3, WalkMoves
    <2>3. ASSUME NEW d \in Conns, d # c PROVE WalkAt(d)'
        <3>1. /\ pc'[d] = pc[d] /\ req'[d] = req[d] /\ nurl'[d] = nurl[d]
              /\ pos'[d] = pos[d] /\ hit'[d] = hit[d]
            BY <1>0, <1>3, <2>3, OthersStay
        <3>2. lock = d => lock' = lock
            <4>1. lock = d => lock # Nobody /\ lock # c
                BY <2>3, RestAssumption DEF RestAssumption
            <4>2. pc[c] = "unlock" => lock = c
                BY <1>0 DEF WalkAt
            <4> QED BY <1>0, <1>3, <4>1, <4>2, LockMoves
        <3>3. WalkAt(d)
            BY <1>0
        <3> QED BY <2>1, <3>1, <3>2, <3>3 DEF WalkAt
    <2>4. InOrder'
        BY <1>0, <2>1 DEF InOrder
    <2> QED BY <2>2, <2>3, <2>4 DEF WalksRight
<1> QED BY <1>1, <1>2, <1>3 DEF Next, Server, Defaults, vars

\* Of the handlers that match, the first one of the list has the longest URL.
LEMMA FirstIsLongest ==
    ASSUME RightInv, NEW c \in Conns, pc[c] = "unlock"
    PROVE  LET fit == {h \in ToSet(handlers) : Covers(h, req[c].url)}
           IN  hit[c] = {h \in fit : \A k \in fit : Len(k) <= Len(h)}
<1> DEFINE u   == req[c].url
           n   == Len(handlers)
           fit == {h \in ToSet(handlers) : Covers(h, u)}
<1>1. /\ handlers \in Seq(ToSet(Handlers)) /\ n \in Nat /\ n <= 5
      /\ ~IsRoot(u) /\ nurl[c] = Normalize(u) /\ FirstFit(handlers, Normalize(u), hit[c])
    <2>1. RestInv /\ WalkAt(c)
        BY DEF RightInv, TypeInv, WalksRight
    <2> QED BY <2>1, FiveHandlers DEF RestInv, RestTypeOK, MainTypeOK, ListKept, WalkAt
<1>2. IsUrl(u) /\ u # <<>>
    <2>1. req[c] \in Requests
        BY DEF RightInv, TypeInv, AtWork, AtWorkOn
    <2>2. IsUrl(u)
        BY <2>1, RestAssumption DEF Requests, RestAssumption, IsUrl
    <2> QED BY <1>1, <2>2 DEF IsRoot
<1>3. \A i \in 1 .. n : handlers[i] = Handlers[n + 1 - i]
    <2>1. freed = {}
        BY DEF RightInv, FreedWhenIdle, AllIdle
    <2> QED BY <2>1 DEF RightInv, WalksRight, InOrder
<1> HIDE DEF u, n
<1>4. fit = {h \in ToSet(handlers) : Matches(h, Normalize(u))}
    <2>1. ToSet(handlers) \subseteq ToSet(Handlers)
        BY <1>1 DEF ToSet
    <2> QED BY <1>2, <2>1, MatchesCovers
<1>5. ToSet(handlers) = {handlers[i] : i \in 1 .. n}
    BY <1>1 DEF ToSet, n
<1>6. CASE hit[c] = {} /\ \A i \in 1 .. n : ~Matches(handlers[i], Normalize(u))
    <2>1. fit = {}
        BY <1>4, <1>5, <1>6
    <2> QED BY <1>6, <2>1 DEF u
<1>7. ASSUME NEW i \in 1 .. n, hit[c] = {handlers[i]}, Matches(handlers[i], Normalize(u)),
             \A j \in 1 .. i - 1 : ~Matches(handlers[j], Normalize(u))
      PROVE  hit[c] = {h \in fit : \A k \in fit : Len(k) <= Len(h)}
    <2> DEFINE g == handlers[i]
    <2>1. g \in fit
        BY <1>4, <1>5, <1>7
    <2>2. ASSUME NEW k \in fit, k # g PROVE k = Specific /\ g # Specific
        <3>1. PICK j \in 1 .. n : k = handlers[j]
            BY <1>5
        <3>2. j > i
            BY <1>1, <1>4, <1>7, <2>2, <3>1
        <3>3. n + 1 - i \in 2 .. 5 /\ n + 1 - j \in 1 .. 5
            BY <1>1, <3>2
        <3>4. g \in {Ping, Info, Metrics, Status}
            BY <1>3, <3>3 DEF Handlers
        <3>5. g # Specific /\ Last(g) # Slash /\ g = Normalize(u)
            BY <1>7, <3>4, ListedUrls DEF Matches
        <3>6. k \in {Specific, Ping, Info, Metrics, Status}
            BY <1>3, <3>1, <3>3 DEF Handlers
        <3>7. k # Specific => k = Normalize(u)
            BY <1>4, <3>6, ListedUrls DEF Matches
        <3> QED BY <2>2, <3>5, <3>7
    <2>3. g \in {Specific, Ping, Info, Metrics, Status}
        <3>1. g \in ToSet(Handlers)
            BY <1>1 DEF n
        <3> HIDE DEF g
        <3> QED BY <3>1, FiveHandlers
    <2>4. ASSUME NEW k \in fit, k # g PROVE Len(k) = 5 /\ Len(g) = 6
        BY <2>2, <2>3, <2>4, ListedUrls
    <2>5. Len(g) \in Nat
        BY <2>3, ListedUrls
    <2>6. \A k \in fit : Len(k) <= Len(g) /\ (k # g => ~(Len(g) <= Len(k)))
        <3> SUFFICES ASSUME NEW k \in fit
                     PROVE  Len(k) <= Len(g) /\ (k # g => ~(Len(g) <= Len(k)))
            OBVIOUS
        <3>1. CASE k = g
            BY <2>5, <3>1
        <3>2. CASE k # g
            <4>1. Len(k) = 5 /\ Len(g) = 6
                BY <2>4, <3>2
            <4> HIDE DEF g
            <4> QED BY <3>2, <4>1
        <3> QED BY <3>1, <3>2
    <2> HIDE DEF g, fit
    <2>7. hit[c] = {g}
        BY <1>7 DEF g
    <2> QED BY <2>1, <2>6, <2>7
<1> QED BY <1>1, <1>6, <1>7 DEF FirstFit, u, n

\* Every request is served by the registered handler with the longest URL that
\* covers its own, for any URLs and any number of connections, and however far the
\* registration is: the list has the longer ones first, and the lock keeps it as
\* it is during a walk (rest-server.c:66-85, 187-195, adeptnessSvc.c:359-364).
THEOREM LongestHandlerServes == Spec => []RightHandler
<1>1. Init => RightInv
    BY TypeInvInit, InitFreed, WalksInit DEF RightInv
<1>2. RightInv /\ [Next]_vars => RightInv'
    BY TypeInvStep, StepFreed, WalksStep DEF RightInv
<1>3. RightInv => RightHandler
    BY FirstIsLongest DEF RightHandler
<1> QED BY <1>1, <1>2, <1>3, PTL DEF Spec
=============================================================================
