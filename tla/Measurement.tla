----------------------------- MODULE Measurement -----------------------------
(***************************************************************************)
(* The values of the sensors: the main loop reads a frame and stores what  *)
(* it says in each sensor with that CAN id, while handlers of the REST     *)
(* server add and remove sensors and read values, and nothing is locked.   *)
(*                                                                         *)
(* A sensor id leads to a node of the table, which points to a sensor. The *)
(* sensors are a sequence in the order of their creation, since the code   *)
(* never frees one; a pointer is an index of it. Removing a sensor frees   *)
(* its node. Time is the number of frames read so far. The id of a frame   *)
(* is what is left after CAN_EFF_MASK or CAN_SFF_MASK, in either format.   *)
(***************************************************************************)
EXTENDS CanFrame, FiniteSets

CONSTANTS
    Ids,         \* sensor ids
    Conns,       \* connections that read values
    Configs,     \* [can_id, init_bit, end_bit, type]
    Frames,      \* [can_id, data]
    MaxSensors,  \* bounds the sensors ever created
    MaxFrames    \* bounds the frames ever read

\* A sensor of an integer type is at most as wide as a word.
ASSUME MeasurementAssumption ==
    /\ \A c \in Configs : /\ c.init_bit \in Nat
                          /\ c.end_bit \in Nat
                          /\ c.type \in DOMAIN Octets => Octets[c.type] <= Bytes
    /\ Frames # {}
    /\ \A f \in Frames : f.data \in Seq(Byte) /\ Len(f.data) <= Bytes

Null   == 0
NoText == [type |-> "", bits |-> <<>>]

VARIABLES
    table,      \* [Ids -> the sensor of that id, or Null]
    sensors,    \* all the sensors ever created
    frame,      \* the last frame read
    now,        \* the number of frames read
    mpc,        \* "read" between frames, "walk" over the table, "store"
    todo,       \* ids in the part of the table still to be walked
    at,         \* the sensor that was copied out
    copy,       \* the value and timestamp of the copy
    pending,    \* what of it is still to be copied back
    get,        \* [Conns -> the GET of that connection]
    undefined   \* the walk used a node that had been freed, and was harmed

\* For the properties only.
VARIABLES
    log,        \* every frame read
    last,       \* for each sensor, the number of the last frame meant for it
    stored      \* for each sensor, the last frame copied back in full

loop    == <<mpc, at, copy, pending>>
history == <<log, last, stored>>
vars    == <<table, sensors, frame, now, loop, todo, get, undefined, history>>

Pointers == 0 .. Len(sensors)
Listed   == {i \in Ids : table[i] # Null}
NoGet    == [pc |-> "idle", at |-> Null, value |-> NoText, timestamp |-> 0, since |-> 0]
NoCopy   == [value |-> NoText, timestamp |-> 0]

Init ==
    /\ table = [i \in Ids |-> Null]
    /\ sensors = <<>>
    /\ frame = CHOOSE f \in Frames : TRUE
    /\ now = 0
    /\ mpc = "read"
    /\ todo = {}
    /\ at = Null
    /\ copy = NoCopy
    /\ pending = {}
    /\ get = [c \in Conns |-> NoGet]
    /\ undefined = FALSE
    /\ log = <<>>
    /\ last = <<>>
    /\ stored = <<>>

-----------------------------------------------------------------------------
(* The main loop                                                           *)

Matches(s, f) == s.can_id = f.can_id

ReadFrame ==
    /\ mpc = "read"
    /\ now < MaxFrames
    /\ frame' \in Frames
    /\ now' = now + 1
    /\ mpc' = "walk"
    /\ todo' = Listed
    /\ log' = Append(log, frame')
    /\ last' = [s \in DOMAIN last |->
                   IF \E i \in Listed : table[i] = s /\ Matches(sensors[s], frame')
                   THEN now' ELSE last[s]]
    /\ UNCHANGED <<table, sensors, at, copy, pending, get, undefined, stored>>

\* A fault: the rest of the table is left out.
RestNone(i) == {}

\* What is left of the table after the node of i.
Rest(i) == todo \ {i}

\* A sensor with another CAN id.
Pass(i) ==
    /\ mpc = "walk"
    /\ i \in todo
    /\ ~Matches(sensors[table[i]], frame)
    /\ todo' = Rest(i)
    /\ UNCHANGED <<table, sensors, frame, now, loop, get, undefined, history>>

\* A fault: the timestamp is left as it was.
ParsedTimeless(s) ==
    {[value |-> VarCast(w, s.type), timestamp |-> s.timestamp] :
        w \in MaskCanFrame(frame.data, s.init_bit, s.end_bit)}

\* What the copy of a sensor may hold after mask_can_frame and var_cast.
Parsed(s) ==
    {[value |-> VarCast(w, s.type), timestamp |-> now] :
        w \in MaskCanFrame(frame.data, s.init_bit, s.end_bit)}

Parse(i) ==
    /\ mpc = "walk"
    /\ i \in todo
    /\ Matches(sensors[table[i]], frame)
    /\ todo' = Rest(i)
    /\ mpc' = "store"
    /\ at' = table[i]
    /\ copy' \in Parsed(sensors[table[i]])
    /\ pending' = {"value", "timestamp"}
    /\ UNCHANGED <<table, sensors, frame, now, get, undefined, history>>

\* memcpy back to the node's sensor, in any order; the other fields are as
\* they were. The copy is freed then.
Store(field) ==
    /\ field \in pending
    /\ sensors' = [sensors EXCEPT ![at][field] = copy[field]]
    /\ pending' = pending \ {field}
    /\ IF pending' = {}
       THEN /\ mpc' = "walk"
            /\ at' = Null
            /\ copy' = NoCopy
            /\ stored' = [stored EXCEPT ![at] = now]
       ELSE UNCHANGED <<mpc, at, copy, stored>>
    /\ UNCHANGED <<table, frame, now, todo, get, undefined, log, last>>

\* The node was freed: from here on anything may happen, or nothing at all,
\* which is Store.
UseFreed ==
    /\ mpc = "store"
    /\ at \notin {table[i] : i \in Ids}
    /\ undefined' = TRUE
    /\ UNCHANGED <<table, sensors, frame, now, loop, todo, get, history>>

\* A fault: the walk ends at any node.
EndWalkEarly ==
    /\ mpc = "walk"
    /\ mpc' = "read"
    /\ UNCHANGED <<table, sensors, frame, now, todo, at, copy, pending, get, undefined, history>>

EndWalk ==
    /\ mpc = "walk"
    /\ todo = {}
    /\ mpc' = "read"
    /\ UNCHANGED <<table, sensors, frame, now, todo, at, copy, pending, get, undefined, history>>

Main == ReadFrame \/ EndWalk \/ UseFreed
            \/ \E i \in Ids : Pass(i) \/ Parse(i)
            \/ \E field \in {"value", "timestamp"} : Store(field)

-----------------------------------------------------------------------------
(* Handlers that change the table                                          *)

\* The new node may be in the part of the table still to be walked.
Create(i) ==
    /\ table[i] = Null
    /\ Len(sensors) < MaxSensors
    /\ \E c \in Configs, ahead \in BOOLEAN :
        /\ ahead => mpc # "read"
        /\ sensors' = Append(sensors,
               [can_id |-> c.can_id, init_bit |-> c.init_bit, end_bit |-> c.end_bit,
                type |-> c.type, value |-> NoText, timestamp |-> 0])
        /\ table' = [table EXCEPT ![i] = Len(sensors')]
        /\ todo' = IF ahead THEN todo \cup {i} ELSE todo
        /\ last' = Append(last, IF ahead /\ Matches(c, frame) THEN now ELSE 0)
        /\ stored' = Append(stored, 0)
    /\ UNCHANGED <<frame, now, loop, get, undefined, log>>

Delete(i) ==
    /\ i \in Listed
    /\ table' = [table EXCEPT ![i] = Null]
    /\ todo' = todo \ {i}
    /\ UNCHANGED <<sensors, frame, now, loop, get, undefined, history>>

-----------------------------------------------------------------------------
(* GET of the values. A GET of a sensor that is not there changes nothing. *)

Lookup(c) ==
    /\ get[c].pc \in {"idle", "done"}
    /\ \E i \in Listed :
        get' = [get EXCEPT ![c] = [NoGet EXCEPT !.pc = "value", !.at = table[i],
                                                !.since = stored[table[i]]]]
    /\ UNCHANGED <<table, sensors, frame, now, loop, todo, undefined, history>>

GetValue(c) ==
    /\ get[c].pc = "value"
    /\ get' = [get EXCEPT ![c].pc = "timestamp", ![c].value = sensors[get[c].at].value]
    /\ UNCHANGED <<table, sensors, frame, now, loop, todo, undefined, history>>

GetTimestamp(c) ==
    /\ get[c].pc = "timestamp"
    /\ get' = [get EXCEPT ![c].pc = "done", ![c].timestamp = sensors[get[c].at].timestamp]
    /\ UNCHANGED <<table, sensors, frame, now, loop, todo, undefined, history>>

Handlers ==
    \/ \E i \in Ids : Create(i) \/ Delete(i)
    \/ \E c \in Conns : Lookup(c) \/ GetValue(c) \/ GetTimestamp(c)

Next == ~undefined /\ (Main \/ Handlers)

\* The main loop is never blocked: the socket does not block, nothing is locked.
Fairness == WF_vars(~undefined /\ Main)

Spec == Init /\ [][Next]_vars /\ Fairness

-----------------------------------------------------------------------------
(* Properties                                                              *)

Text   == {NoText, Unread}
              \cup UNION {[type : {t}, bits : [0 .. ByteBits * Octets[t] - 1 -> Bit]] :
                              t \in {c.type : c \in Configs} \cap DOMAIN Octets}
Sensor == [can_id : {c.can_id : c \in Configs}, init_bit : Nat, end_bit : Nat,
           type : {c.type : c \in Configs}, value : Text, timestamp : 0 .. now]

\* Every variable is of its type; todo, cur and pending agree with mpc
\* (parse_can_frame, read_sensor_measurements).
TypeOK ==
    /\ table \in [Ids -> Pointers]
    /\ sensors \in Seq(Sensor)
    /\ frame \in Frames
    /\ mpc \in {"read", "walk", "store"}
    /\ todo \subseteq Listed
    /\ mpc = "read" => todo = {}
    /\ at \in Pointers
    /\ copy \in [value : Text, timestamp : 0 .. now]
    /\ pending \subseteq {"value", "timestamp"}
    /\ pending # {} <=> mpc = "store"
    /\ get \in [Conns -> [pc : {"idle", "value", "timestamp", "done"}, at : Pointers,
                          value : Text, timestamp : 0 .. now, since : 0 .. now]]
    /\ undefined \in BOOLEAN
    /\ log \in Seq(Frames) /\ Len(log) = now
    /\ last \in [DOMAIN sensors -> 0 .. now]
    /\ stored \in [DOMAIN sensors -> 0 .. now]

\* Text v is what sensor s is to show of frame n; a bit range that does not
\* fit in the frame has no right value, and no frame has the initial one.
Shows(s, v, n) ==
    IF n = 0 THEN v = NoText
    ELSE /\ log[n].can_id = s.can_id
         /\ Fits(log[n].data, s.init_bit, s.end_bit) =>
                v = VarCast(Variable(log[n].data, s.init_bit, s.end_bit), s.type)

Storing(p) == mpc = "store" /\ at = p

\* A sensor that the walk is done with shows the bits init_bit .. end_bit of
\* the last frame with its CAN id, and the time of that same frame, whatever
\* sensors came and went during the walk (parse_can_frame, mask_can_frame).
LastFrameShown ==
    \A i \in Listed \ todo : ~Storing(table[i]) =>
        LET p == table[i] IN
        /\ sensors[p].timestamp = last[p]
        /\ Shows(sensors[p], sensors[p].value, last[p])

\* A GET answers with a value that was in a frame for this sensor, and with
\* the time of such a frame, neither from before the frame that the sensor
\* showed when the GET began, though the two may be of different frames, and
\* the sensor removed meanwhile (read_sensor_measurements).
AnswersRecent ==
    \A c \in Conns : get[c].pc = "done" =>
        LET s == sensors[get[c].at] IN
        /\ \E n \in get[c].since .. now : Shows(s, get[c].value, n)
        /\ get[c].timestamp >= get[c].since
        /\ get[c].timestamp > 0 => log[get[c].timestamp].can_id = s.can_id

Meant(p, n)   == p \in DOMAIN last /\ last[p] = n
Reached(p, n) == p \in DOMAIN stored /\ stored[p] >= n
Removed(p)    == \A i \in Ids : table[i] # p

\* Every frame reaches each sensor it is meant for, unless the sensor is
\* removed, however the table changes during the walk (parse_can_frame).
FramesArrive ==
    \A p \in 1 .. MaxSensors, n \in 1 .. MaxFrames :
        Meant(p, n) ~> (Reached(p, n) \/ Removed(p) \/ undefined)
=============================================================================
