# can-monitor: TLA+ models, model checking and proofs

can-monitor is a C daemon. It reads CAN frames, keeps the last value of each configured
*sensor*, and publishes over MQTT, at a rate of its own, each *sensorgroup* (a list of sensor
ids) that clients have subscribed to. Clients configure it over REST. Paths below are relative to
`src/src/CanMonitor/`.

## 1. The system

### Threads

| thread | code | shared state it touches |
|---|---|---|
| main | `CanMonitor.c:527-736` | all of it |
| a REST handler per connection (`MHD_USE_THREAD_PER_CONNECTION`) | `common/rest-server.c:119-238`, `common/adeptnessSvc.c:189-343`, `rest_server/rest_server_impl.c`, `implementation/*.c` | tables, `status`, restart flags, broker settings, port |
| callback of the MQTT client | `connlost`, `mqtt/mqtt_utils.c:11-20` | the client, `restart_mqtt` |
| signal handler | `int_handler`, `CanMonitor.c:51-53` | `status` |

Nothing locks any of this state: the one mutex of the program guards the list of URL handlers.
Every model below therefore takes one step per access to shared state and interleaves freely.

### Components

| component | state | operations | what makes it correct |
|---|---|---|---|
| sensor configuration (`implementation/sensor.c`) | `sensors_table` | POST, PUT, DELETE, GET | a listed sensor exists; an OK is true |
| sensorgroup subscriptions (`implementation/sensorgroup.c`) | `sensorgroup_table`, each group's `sensor_list` | POST (with embedded sensor configurations and their rollback), PUT, DELETE, GET | the same; a rejected request changes nothing |
| tables (`implementation/tables`) | chains of nodes per bucket | create, put, get, delete, free | a dictionary: unique keys, no node lost, no freed value |
| main loop (`CanMonitor.c:640-720`) | `last_publish_time` | read a frame, walk the groups, publish | never meets a missing sensor; ends each walk |
| lifecycle (`CanMonitor.c:527-735`) | `status`, restart flags, the service | start, reconnect, move the port, exit | SIGINT ends it; a change that was accepted takes effect |
| setup and orders (`implementation/impl.c`) | `status`, `mqtt_*`, `rest_server_port`, `can_conf_id`, `canport`, `bitrate` | change of broker or port, start, stop, connection configuration, status | runs exactly when told to |
| MQTT (`mqtt/`) | the client, `mqtt_qos` | connect, reconnect, publish | announces each configuration it is given |
| CAN frames (`CanMonitor.c:409-517`) | a sensor's value and timestamp | mask, cast, store | the bits of the variable, value and time together |
| REST server (`common/rest-server.c`, `adeptnessSvc.c`, `rest_server/`) | the daemon, its handler list and lock, a context per request | start, registration, dispatch, stop | every request reaches the right handler whole, and is answered; stop waits for handlers |
| configuration of the process (`CanMonitor.c:83-199`, `:542-574`) | options, settings | read options, file or environment | comes to an end |

Hard behaviours: walks of the main loop over lists that handlers change under it; a test and its
assignment in different steps (`status`, "does this id exist"); flags that are raised by one
thread and taken down by another; requests that fail halfway; the order of start and exit.
`PROJECT.json` lists these hazards line by line, each with the properties that are about it.

## 2. Modules

```
SubscriptionStore  <--refines--  Registry  <-- RegistryMC (instances for TLC)
                                 Registry_proofs <-- RegistryClients_proofs
Dictionary         <--refines--  HashTable <-- HashTableMC, HashTable_proofs
                                 Monitor   <-- MonitorMC, Monitor_proofs
                                 Publisher <-- PublisherMC, Publisher_proofs
Startup, RestServer (Dispatch), CanConnection  <--compose--  Service <-- ServiceMC, Service_proofs
CanFrame <--extends--  Measurement <-- MeasurementMC, Measurement_proofs
DataLemmas         <-- Registry_proofs, Measurement_proofs, Service_proofs
```

**Registry** is the core. `sensors` and `inGroups` are the keys of the two tables, `list` the
sensor lists, `freed` the keys whose node points to freed memory; `pc`, `req`, `k`, `built` and
`reply` are the locals of each handler, `walk` the cursor of each walk over the groups. A handler
takes one step per `hts_*`/`htsg_*` call or access to `status`; the main loop and GET of the
groups take one step per group and per listed sensor. A group stands for its bucket: no two group
ids of an instance share one. `hts_put` of a key that is there is modelled with its `free` of the
value just stored, a NULL that is dereferenced and a read of freed memory with `crashed` (the
latter may also go well). Requests are records with only what the handlers tell apart: the
`kind` of an item says whether it has only an id, a whole and right configuration, wrong settings,
a missing value, or too few keys.

**SubscriptionStore** is what a client may expect of it: sensors come and go, groups are
subscribed and unsubscribed, one whole operation at a time, and a sensor that goes leaves every
list. The refinement mapping counts a sensor that is being replaced as registered, and takes a
deleted sensor out of the lists that the handler has still to visit.

**HashTable** is the tables at the level of nodes and pointers, a step per pointer read or written;
the two copies (`hashtable_sensors.c`, `hashtable_sensorgroups.c`) are one module. `create` is the
handlers' "get, and put if NULL". **Dictionary** is the atomic dictionary it implements: a get takes
effect when it reads the head of the chain, a put or delete when it links or unlinks.

**Monitor** is the life of the process: `mpc` is where `main()` is, from the first REST server to
the exit; `flags` are `restart_mqtt` and `restart_http`; `settings` the broker's host, its qos and
the port, numbered by the requests that set them; `client`, `announced`, `server` what the outside
sees; `own` whether `service->daemon` still denotes the server (after a move it is a freed pointer,
usable only if malloc reuses that memory). `told`, `acked` and `signalled` record what was answered
or asked, for the properties only. `world` says what the surroundings of a behaviour may do (which
operations, how many changes, losses and failures, and whether they come one at a time) and stays as it
is, so that one run covers a calm world and any other.

**Publisher** is when a group is published: `clock` is the wall clock, which passes and may be set,
`last` and `rate` are the fields of the groups, `taken` is `current_time` between the look at the clock
and the stamp. The difference of the times is unsigned (`Wrap`, 2^64 in the code). `waited` and
`jumps` measure real time and the times the clock was set, for the properties only.

**Startup** is `main()` up to the creation of the service: options, then file or environment.
**RestServer** is the server: `duty` is where `main()` is with it, `handlers` the list that it
registers and frees, `pc`, `got`, `nurl`, `pos`, `hit` and `reply` the locals of `http_handler` in each
connection's thread; the walk over the list is a step per handler, under `lock`. **Dispatch** is its
part without state: URLs (a sequence of slashes and names), the match of a handler, the operation a
handler calls, the codes. **CanConnection** is the one set of globals that an operation writes piece by
piece (`canport`, `bitrate`, `can_conf_id`), a step per global; bodies are records of the right types.
**Service** composes the three: a request for the CAN connection is served by the steps of
CanConnection, any other one in one step whose effect on `status` is that of the handlers; what
those do to the tables is the subject of Registry, and their races for `status` of Monitor.

**CanFrame** is the arithmetic of a frame: `mask_can_frame` step by step on words of
`ByteBits * Bytes` bits (64 in the code), with its unsigned counts modulo `Wrap`, and both outcomes
that a shift by 64 or more has on real machines; and `var_cast`, where a text stands for its type and
bits. `Variable` is the reference: the bits `init .. end` as they come on the bus.

**Measurement** is the life of a value: the main loop reads a frame and walks the table (`todo` is
what is left of it), copies a matching sensor out (`copy`), and back field by field (`pending`),
while handlers create and remove sensors and a GET reads a value and then its timestamp. Sensors are
never freed by the code, so a pointer is an index into all that were ever made; the node that leads
to one is freed, and using it afterwards may do harm (`undefined`, after which nothing is claimed).
Time counts frames. `log`, `last` and `stored` are for the properties only.

Operators under a comment "A fault" are not part of any specification: each is the wrong version
of the definition after it, and shows that a property notices it. `PROJECT.json` pairs them.

## 3. Runs

| run | surroundings | checks |
|---|---|---|
| `registry_careful` | one connection, 2 sensors, 2 groups; at most one id per DELETE or PUT, no sensor twice in a list, full configurations right; main loop walking | `ListsResolve`, `NoDangling`, and `StoreSpec` (refinement) |
| `registry_any` | one connection, 2 sensors, 1 group, any request | `TypeOK`, `AckMeansDone`; `RequestsAnswered`, `SweepsEnd` |
| `registry_adding` | two connections that only add, each its own ids | `NoCrash`, `NoDangling` |
| `registry_two_ids` | a DELETE with two ids | `ListsResolve` **violated** |
| `hashtable_owner` | one thread changes a bucket of three keys, another fills the next bucket | `TypeOK`, `KeysUnique`, `NodesPlaced`, `DictionarySpec` (refinement), `CallsReturn` |
| `hashtable_racing` | two threads create the same keys | `KeysUnique` **violated** |
| `monitor` | in a calm world, two changes of broker and of port, a lost connection, a failed one; in any world, everything at any time, a change of broker and of port, a lost connection | `TypeOK`, `RunningAsTold`, `ListensAsTold`, `CrashNeedsMove`; `CalmSignalEnds`, `CalmSetupTakesEffect`, `CalmReconnects`, `RequestsAnswered`, `RestartHonoured` |
| `monitor_exit` | creates at any time | `SignalEnds` **violated** |
| `monitor_discovery` | changes of the broker at any time | `SetupTakesEffect` **violated** |
| `measurement` | two ids, two sensors ever created, two frames, one reader | `TypeOK`, `LastFrameShown`, `AnswersRecent`; `FramesArrive` |
| `publisher` | two groups that come and go, messages that get lost, a clock that is set | `TypeOK`, `Prompt`; `Quota` |
| `service` | all command lines of up to three arguments of eight kinds, two connections | `TypeOK`, `RightHandler`, `NoFreedUse`, `WholeRequest`, `StatusAgrees`, `AckedShown`, `CrashNeedsReject`; `ArgumentsEnd`, `Answered`, `Stops` |

What the violated ones show:

* `registry_two_ids` - `sensor.c:192` announces the removal from the groups' lists, and the loop
  removes the last id of the query only. The next walk over the group dereferences NULL.
* `hashtable_racing` - keys are documented as unique (`hashtable_sensors.h:11`); the test and the
  insertion are apart, and nothing is locked.
* `monitor_exit` - a create that ends after SIGINT sets `status` to `configured` (`sensor.c:130-133`)
  and the loop never sees `exit_ms`.
* `monitor_discovery` - `restart_mqtt = 0` (`mqtt_utils.c:48`) wipes out a request that came while
  main was connecting: README.md:183 promises a discovery message for each change.

Two more disagreements have no run of their own. `hashtable_sensors.c:107` frees the value that line 106
has just stored (HashTable and Registry model it: `dangling`, `freed`); only a create that races another
one gets there. README.md:126 documents GET of the setup, which the dispatch does not know:
`rest_server_impl.c:6-32` answers it with RESOURCE_NOT_FOUND, and so does `Served`.

What the passing ones show of cases that a reader may doubt:

* `Quota` and `Prompt` - the period is counted from the look at the clock, so a slow broker does not
  make a group late twice, and a lost message is not repeated before its time. A clock that is set back
  costs no wait: the unsigned difference is huge, and the group is published at once. `Prompt` allows a
  group its rate and a round of the loop, and as much again for each time the clock was set.
* `NoFreedUse` - `http_handler` gives the lock back and then uses the handler it found, and the exit frees
  the handlers without the lock: only that the daemon has joined its threads keeps this right.
* `RightHandler` - the handler is the longest registered URL that covers the request's, whatever slashes
  the URL repeats. It holds since the specific handler, whose URL is a prefix of the others, is
  registered first and so is the last one of the list; while the registration goes on, a request
  for `ping` reaches the specific handler, and is answered 404.
* `AckedShown` and `CrashNeedsReject` - a PUT of the CAN connection writes its globals before it knows
  whether it will be accepted. What a GET shows is right after a PUT that was answered OK and that
  nothing crossed, and a GET copies NULL only during a PUT, or after one that was rejected or crossed
  another write. The defaults of `main()` (`CanMonitor.c:602-603`) are such a write: they come when the
  server is up, and undo a PUT that was answered OK before.
* `StatusAgrees` - the handler of `status` reads it once for the text and once for the code. All that
  happens in between, apart from SIGINT, keeps it among the three that count as ready.

### Bounds

Two sensors and two groups let a deleted sensor be in one list, in both, before or after another,
and let a sensor be replaced while another group lists it. A list has at most two items because
the code treats each item alone, apart from the rollback, which needs one item before the bad one.
Three keys in a bucket give a delete at the head, in the middle and at the end of a chain; a second
bucket lets insertions meet. `Nodes` bounds memory, and running out of it is an outcome of malloc
that the code ignores too. In Monitor `MaxSetups`, `MaxMoves`, `MaxLost` and `MaxFails` bound what
the surroundings cause: two changes are needed to see one overwrite the other and to see the
server stopped through the stale pointer. Deadlock is not checked in Monitor's runs, since the
process ends, nor in Measurement's, whose frames are bounded.

In Publisher the rates are 1 and 3 units of time, the clock starts well after 0 and goes up to `MaxClock`, which is below
`Wrap`; from one look at the clock to the next takes `Busy` units at most. Two groups let one wait for the publication of the other; `MaxEvents`
changes suffice to set the clock back in the middle of a period and to subscribe again.

Service takes one of three plans of the clients, in `plan`: one connection changes the CAN connection while
the other reads it; one creates and deletes sensors while the other asks for anything, and commands; both
change the CAN connection. Two connections let each walk, call or reply while the other does. A body comes in
up to two chunks. Requests come before, during and after the registration and up to the stop. Deadlock is not checked
in the runs of Publisher, whose clock ends, and Service, whose process does.

In Measurement bytes have two bits and frames up to two bytes: a variable across both bytes, one
wider than its type, an unknown type, and frames too short for the variable, so that counts wrap. Two
frames are needed to see an old value next to a new timestamp, two sensors to see one replaced, or
another added in the part of the walk still to come. Every other size is covered by the theorem.

### Fairness

Weak fairness of each thread of the program: threads are preemptive, and no step waits for
another thread but the stop of the REST server, which waits for the handlers at work, and the lock of the
list of handlers. That one has strong fairness: a thread gets a mutex that is free again and again,
which a POSIX mutex promises only of a scheduler that is fair; the critical sections are short and few,
and `Answered` is meant under that. Clients,
the broker, lost connections and SIGINT have none. In Monitor a failing connection fails
`MaxFails` times at most, so "takes effect" means: once the broker answers. Calls to malloc,
to libmicrohttpd and to the MQTT library are taken to return.

### What a calm world assumes

In a calm world (`world.calm`), clients wait for the start, send nothing after SIGINT, and SIGINT comes between
two requests; a change of the settings or a lost connection comes when the loop has dealt with the
previous one. The code needs all of this: without it the windows listed as hazards open
(`CanMonitor.c:598`, `:630`, `:660`, `:722`, `mqtt_utils.c:41`, `:48`, `impl.c:116`, `sensor.c:130`).
`CrashNeedsMove` says that even then the process crashes only by the pointer that a move of the
port leaves behind (`CanMonitor.c:655`).

## 4. Proofs

TLAPS checks every theorem below for every value of the constants that satisfies the assumptions of its
module: `RegistryAssumption` (a number of groups, `Main` not a connection, well-formed requests),
`HashTableAssumption` (a bucket for each key, a finite memory, NULL is no node and no value, each thread has calls to
make), `MonitorAssumption` (bounds are numbers, surroundings are well-formed), `CanFrameAssumption` (sizes above
0, counts wrap past a word), `MeasurementAssumption` (bits of a range are numbers, an integer type is no wider than a
word, a frame holds at most `Bytes` bytes), `PublisherAssumption` (a number of groups, rates above 0, a clock below
`Wrap`), `RestAssumption` and `ServiceAssumption` (names differ, requests are well-formed, the connections are
what calls the operations on the CAN connection). TLC evaluates each of them in the run of that module.

An invariant of a run is seldom inductive. What makes it so is named in the proof module, and was
model-checked before it was proved.

### Registry: what its clients decide (`Registry_proofs`, `RegistryClients_proofs`)

No property of the tables holds of every client, since nothing is locked, so each theorem says of which.

* `TypeCorrect`, any clients: `TypeOK`. `TypeInv` adds that the request of a handler has the fields
  its `pc` uses, and that a cursor inside a group is at a group.
* Any number of clients that send and delete what they like, no two of which create the same id (`OwnIds`):
  `OwnersFreeNothing` (`NoDangling`). `FreshAt`: a handler about to put has seen its key absent, or has deleted it;
  another handler only adds what its own request makes (`HandlerMakes`), so the key stays absent. One client
  (`OneClientFreesNothing`) and clients that only add (`AddingFreesNothing`) are corollaries. Without `OwnIds` two
  handlers may both see a key absent and both put it, as `hashtable_racing` shows node by node.
* One client, whatever it sends: `OneClientAckMeansDone` (`AckMeansDone`). `DoneInv`: what a handler has done so far
  is still there, by `pc`.
* One careful client (`CarefulClients`: what `registry_careful` sends): `CarefulClientResolves` (`ListsResolve`).
  In the middle of a request lists do not resolve, so `CarefulInv` says what may be missing, by `pc`: the
  sensor being deleted in the groups the handler has still to visit, or the one being replaced. It also needs
  that no list has a sensor twice, since the code removes only the first occurrence.
* The same client sees a store: **`CarefulClientSeesStore`** is the refinement `Spec => StoreSpec`, step by step. The
  mapping (`View`) counts a sensor that is being replaced as registered, and takes a deleted one out of the lists
  still to be visited. So a DELETE takes effect when the sensor leaves the table, a sensorgroup when it enters
  its own, and the loop that cuts the sensor out of the lists is invisible. Proved from `CarefulInv` and `FreshInv`.
* Any number of clients that delete nothing, no two of which create the same id (`OnlyAdding`):
  `AddingIsSafe` (`NoCrash`) and `AddingAckMeansDone` (`AckMeansDone`). `AddingInv`:
  every list in memory, and every list a handler is building, names registered sensors, and a handler about
  to put has seen its id absent, which `Apart` keeps true. `AddedInv` adds what each handler has done.

### HashTable (`HashTable_proofs`)

`TypeCorrect` holds of any threads and calls; `TypeInv` adds that a put at work has a node. The rest does not: nothing locks
a chain, and `hashtable_racing` shows two creates insert one key twice. What the chains need is that each bucket has one
writer, while anybody may read it (`OneWriter`: whatever a thread does to a bucket that it does not own is `get`). The code keeps
to that when one connection at a time sends changes, with the main loop reading. Then, for any number of
threads, keys, buckets and nodes:

* `OneWriterKeepsKeysUnique` (`KeysUnique`) and `OneWriterLosesNoNode` (`NodesPlaced`), from `Invar`: on each chain nodes are in
  use, belong to its bucket, have different keys, and one way leads to each (`Good`); every other node in use is in the hands
  of one thread (`Placed`); and what a thread is about to do is right (`Works`): its search has not passed its key, the node
  that it links is on no chain and points to the head, the one before the node that it unlinks is still the one before it.
* **`OneWriterHasDictionary`** is the refinement `Spec => DictionarySpec`, step by step. A get takes effect when it reads the head of the
  chain, and so does a create that will find its key; put, delete and any other create when they link, assign or unlink. Reading the head
  early is right only if nothing that the reader may still meet is taken away: with `ReadersSeeGrowth` a bucket that others read
  is only added to, at the head and so behind the readers (`Reads`). Without that condition a reader may stand on a node
  while it is freed.

A chain is the least set that has its head and with each node the next (`ChainFrom`), so that no recursion is needed. The
lemmas about it say how linking (`FromPush`), and unlinking at the head (`FromPop`) or further on (`FromCut`), change the chains, and that
a step elsewhere does not (`FromSame`).

### Monitor (`Monitor_proofs`)

`TypeCorrect` in any world; and in a calm one, with any number of connections, changes, losses and failures, `RunsAsTold`
(`RunningAsTold`), `ListensAtThePort` (`ListensAsTold`) and `OnlyMovesCrash` (`CrashNeedsMove`). They share one inductive
invariant, `CalmInv`, whose parts need each other: nobody has asked for anything while `main()` starts (`QuietStart`), SIGINT
comes last (`QuietEnd`), one handler at a time is at work, and so the status that it saves to restore it later is
still the one that was ordered (`StatusKept`), and the port of the settings is that of the server or a move is on
its way (`PortKept`). `MovedIfAsked`, in any world: `service->daemon` dangles only after a move.

### Values (`Measurement_proofs`)

* `MaskReturnsBits`: for every size of byte and word, every frame, and every range
  that fits in it and has fewer bits than a word (`Fits`), `mask_can_frame` has one outcome,
  `Variable`. No shift is undefined and no count wraps there (`ShiftsDefined`); one minus a power of
  two is a row of ones (`MaskIsOnes`); the loop joins the bytes (`UniDataJoins`, by induction); and
  the joined word, counted from the other end, is the frame (`JoinedIsFrameBit`). Outside `Fits` the
  code promises nothing: in particular a range of 64 bits, the only one a `Double` can have, shifts by
  64, and the value is then 0 on the usual processors.
* `SensorsShowLastFrame` (`LastFrameShown`) rests on it, for any number of sensors, frames and clients. `ShownInv`
  says of a sensor still ahead of the walk that it is to show this frame, or that it shows an earlier one and is to
  (`Awaits`); of the copy that it shows this frame, and of each field already copied back that it is in the sensor
  (`CopyIsNow`); of all others that they show theirs (`Shown`). That no two ids share a sensor is not needed.
* `GetsAnswerRecent` (`AnswersRecent`): a GET may take its value from one frame and its time from another. `RecentInv`
  bounds both by the last frame that had been stored in full when the GET began, and uses that stored
  frames are never taken back (`HistoryKept`).
* `TypeCorrect`: `TypeOK`; `Points` adds that a GET or a store at work has a sensor.

### Publisher (`Publisher_proofs`)

`TypeCorrect`; `NeverTooOften`: `Spec => Quota`, an action property, from `ClockTellsWait`: as long as nobody sets the clock, it
shows how long a group has waited since its publication, the stamp, or, while the publication is in hand, the time main has taken.
`NeverTooLate`: `Prompt`. `PromptInv` counts the looks at the clock that main has finished since it last looked at the
group (`Looks`), each of which took `Busy` at most, and charges each setting of the clock one rate and one round. One
hypothesis is added, `r <= Wrap - MaxClock` for the rates: a clock set back makes the unsigned difference huge, at least
`Wrap - MaxClock`, and the group due. In the code rates have 32 bits, the difference 64, and the clock counts milliseconds
since 1970, which leaves more than the rates need.

### Service (`Service_proofs`)

For any number of connections and any requests:

* `TypeCorrect`: `TypeOK`, of the three modules that Service composes, with what a thread at work has in hand (`AtWork`).
* `HandlersOutliveThreads`: `NoFreedUse`. `FreedWhenIdle`: once a handler may be freed, every thread has been joined
  and the daemon starts no other. The lock plays no part in it.
* `RequestsComeWhole` (`WholeRequest`) and `StatusIsOne` (`StatusAgrees`), from `AnswersInOrder`: the chunks that have come are in
  order, and all of them have when the handler looks; the query is cut into pairs without losing one (`EveryIdFound`, by
  induction over its parts); and until SIGINT the status is one of the three that count as ready.
* `CrashIsRejected`: `CrashNeedsReject`, for any number of PUTs and GETs of the CAN connection at once. `PortKnown` ties the
  way in which the settings were written last to them: when it is a PUT that was alone, no other is at work, and one that is
  about to end well has found a port.
* `GetsShowPuts` (`AckedShown`): `Shows` says how far a PUT that is alone has got, setting by setting, the last one of a key
  counting (`WrittenBy`), and that what a GET has read is still what there is unless a write came in between (`ReadBy`).
* `LongestHandlerServes`: `RightHandler`. It has two halves. About URLs: normalized, one that begins with a slash is a slash and a
  name in turn (`UrlShape`, by induction over its parts), so that the tests of `http_handler` find exactly the handlers whose URL
  covers the request's (`MatchesCovers`). About threads: who walks holds the lock, has passed no handler that matches, and the list has
  the last registered handler first (`WalksRight`), so that the specific one, whose URL is the shortest, comes last
  (`FirstIsLongest`). The assumption is that two names of a URL have a slash between them.

`DataLemmas` has induction on sets of numbers, derived from the library's well-founded orders in a form that the provers can
use, and the facts about `RemoveFirst`, `Append` and injective sequences.

### Only model-checked

* Liveness (`RequestsAnswered`, `SweepsEnd`, `CallsReturn`, `FramesArrive`, `ArgumentsEnd`, `Answered` and `Stops` of Service,
  and Monitor's): out of the prover's reach.

## 5. Not modelled

Texts of `Double` and `string` values; a walk that goes on through a freed node whose memory another node
was given (it ends the model); what the handlers of the sensors and groups do inside Service, where each is
one step (Registry has their steps); values of the settings, and settings of the wrong type; JSON and the texts of payloads
and replies; metrics, which read resource usage and keep no state; sizes of buffers, among them those of
`var_cast` (`CanMonitor.c:454`) and of the lists (`sensorgroup.c:171`); which of extended and standard
frames a sensor means (`CanMonitor.c:678`): both are frames of its id, and no document says otherwise. A
context of a request that is never completed (`rest-server.c:134`) is lost: leaks of memory are not counted.

## 6. Plan

* hts_free node by node, against a handler at work.
