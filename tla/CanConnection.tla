---------------------------- MODULE CanConnection ----------------------------
(***************************************************************************)
(* The settings of the CAN connection: the globals can_conf_id, canport    *)
(* and bitrate, which a PUT writes and a GET reads one by one, with no     *)
(* lock. A PUT that is rejected leaves what it has written until then.     *)
(* can_up, which only chooses what a PUT prints, is left out.              *)
(***************************************************************************)
EXTENDS Naturals, Sequences, SequencesExt

CONSTANTS
    Callers,  \* the threads that call these operations
    NoValue   \* the pointer NULL

\* The body of a PUT names an id, a type and settings; each is a key with a value.
\* One that lacks the id, the type or the settings is not complete.

VARIABLES
    can,      \* can_conf_id, canport and bitrate
    at,       \* where each caller is
    index,    \* the setting its PUT looks at
    seen,     \* what its GET has read
    torn,     \* a PUT was at work during that GET
    last,     \* how the settings were written last, and what a GET should show
    crashed   \* a GET copied NULL

canVars == <<can, at, index, seen, torn, last, crashed>>

Unset == [id |-> NoValue, port |-> NoValue, rate |-> 0]

CanInit ==
    /\ can = Unset
    /\ at = [c \in Callers |-> "idle"]
    /\ index = [c \in Callers |-> 1]
    /\ seen = [c \in Callers |-> Unset]
    /\ torn = [c \in Callers |-> FALSE]
    /\ last = [how |-> "none", shown |-> Unset]
    /\ crashed = FALSE

Step(c, here, next) == at[c] = here /\ at' = [at EXCEPT ![c] = next]

\* Every GET at work may now show a part of what is written.
Writes(how) ==
    /\ last' = [how |-> how, shown |-> Unset]
    /\ torn' = [c \in Callers |-> TRUE]
    /\ UNCHANGED <<seen, crashed>>

-----------------------------------------------------------------------------
(* main() sets a port and a bit rate, when the server is up already.       *)

SetDefaults ==
    /\ can' = [can EXCEPT !.port = "can0", !.rate = 125]
    /\ Writes("defaults")
    /\ UNCHANGED <<at, index>>

-----------------------------------------------------------------------------
(* update_connection_configuration: one step per global it writes. The     *)
(* defaults may come across it.                                            *)

Putting == {"port", "rate", "setting", "check", "up", "reject"}

\* One PUT is at work, or several, whose settings mix.
Begins == Writes(IF \E d \in Callers : at[d] \in Putting THEN "mixed" ELSE "busy")

PutId(c, b) ==
    /\ b.complete
    /\ Step(c, "idle", IF b.type = "can" /\ Len(b.settings) = 2 THEN "port" ELSE "reject")
    /\ can' = [can EXCEPT !.id = b.id]
    /\ Begins
    /\ UNCHANGED index

PutIncomplete(c, b) ==
    /\ ~b.complete
    /\ Step(c, "idle", "reject")
    /\ Begins
    /\ UNCHANGED <<can, index>>

ClearPort(c) ==
    /\ Step(c, "port", "rate")
    /\ can' = [can EXCEPT !.port = NoValue]
    /\ Writes(last.how)
    /\ UNCHANGED index

\* A fault: the bit rate of before stays.
KeepRate(c) ==
    /\ Step(c, "rate", "setting")
    /\ index' = [index EXCEPT ![c] = 1]
    /\ Writes(last.how)
    /\ UNCHANGED can

ClearRate(c) ==
    /\ Step(c, "rate", "setting")
    /\ can' = [can EXCEPT !.rate = 0]
    /\ index' = [index EXCEPT ![c] = 1]
    /\ Writes(last.how)

PutSetting(c, b) ==
    /\ at[c] = "setting"
    /\ LET s == b.settings[index[c]] IN
        /\ s.key \in {"canport", "bitrate"}
        /\ can' = IF s.key = "canport" THEN [can EXCEPT !.port = s.value]
                                       ELSE [can EXCEPT !.rate = s.value]
    /\ index' = [index EXCEPT ![c] = @ + 1]
    /\ at' = [at EXCEPT ![c] = IF index[c] = Len(b.settings) THEN "check" ELSE "setting"]
    /\ Writes(last.how)

RejectSetting(c, b) ==
    /\ Step(c, "setting", "reject")
    /\ b.settings[index[c]].key \notin {"canport", "bitrate"}
    /\ Writes(last.how)
    /\ UNCHANGED <<can, index>>

\* A fault: only the bit rate is looked at.
CheckRate(c) ==
    /\ Step(c, "check", IF can.rate = 0 THEN "reject" ELSE "up")
    /\ Writes(last.how)
    /\ UNCHANGED <<can, index>>

CheckBoth(c) ==
    /\ Step(c, "check", IF can.port = NoValue \/ can.rate = 0 THEN "reject" ELSE "up")
    /\ Writes(last.how)
    /\ UNCHANGED <<can, index>>

\* The value of the last setting of b with that key.
Asked(b, key, default) ==
    LET of == {i \in 1 .. Len(b.settings) : b.settings[i].key = key}
    IN  IF of = {} THEN default ELSE b.settings[Max(of)].value

\* The PUT ends with response r.
EndPut(c, b, r) ==
    /\ \/ Step(c, "up", "idle") /\ r = "OK"
       \/ Step(c, "reject", "idle") /\ r = "ERROR"
    /\ index' = [index EXCEPT ![c] = 1]
    /\ last' = IF last.how # "busy" THEN last
               ELSE IF r = "ERROR" THEN [how |-> "rejected", shown |-> Unset]
               ELSE [how |-> "accepted",
                     shown |-> [id |-> b.id, port |-> Asked(b, "canport", NoValue),
                                rate |-> Asked(b, "bitrate", 0)]]
    /\ UNCHANGED <<can, seen, torn, crashed>>

PutStep(c, b) ==
    \/ PutId(c, b) \/ PutIncomplete(c, b) \/ ClearPort(c) \/ ClearRate(c)
    \/ PutSetting(c, b) \/ RejectSetting(c, b) \/ CheckBoth(c)

-----------------------------------------------------------------------------
(* read_connection_configuration: one step per global it reads.            *)

ReadId(c) ==
    /\ Step(c, "idle", IF can.id = NoValue THEN "nothing" ELSE "readPort")
    /\ seen' = [seen EXCEPT ![c].id = can.id]
    /\ torn' = [torn EXCEPT ![c] = \E d \in Callers : at[d] \in Putting]
    /\ UNCHANGED <<can, index, last, crashed>>

\* strdup(canport)
ReadPort(c) ==
    /\ Step(c, "readPort", "readRate")
    /\ seen' = [seen EXCEPT ![c].port = can.port]
    /\ crashed' = (can.port = NoValue)
    /\ UNCHANGED <<can, index, torn, last>>

ReadRate(c) ==
    /\ Step(c, "readRate", "shown")
    /\ seen' = [seen EXCEPT ![c].rate = can.rate]
    /\ UNCHANGED <<can, index, torn, last, crashed>>

\* The GET ends with response r.
EndGet(c, r) ==
    /\ \/ Step(c, "shown", "idle") /\ r = "OK"
       \/ Step(c, "nothing", "idle") /\ r = "ERROR"
    /\ seen' = [seen EXCEPT ![c] = Unset]
    /\ torn' = [torn EXCEPT ![c] = FALSE]
    /\ UNCHANGED <<can, index, last, crashed>>

GetStep(c) == ReadId(c) \/ ReadPort(c) \/ ReadRate(c)

-----------------------------------------------------------------------------
(* Properties.                                                             *)

Places == {"idle", "readPort", "readRate", "shown", "nothing"} \cup Putting
Hows   == {"none", "defaults", "busy", "mixed", "accepted", "rejected"}

CanTypeOK ==
    /\ DOMAIN can = DOMAIN Unset /\ crashed \in BOOLEAN
    /\ at \in [Callers -> Places] /\ index \in [Callers -> 1 .. 3]
    /\ DOMAIN seen = Callers /\ torn \in [Callers -> BOOLEAN]
    /\ last.how \in Hows

\* A GET that no PUT comes across shows all the settings of the last PUT, when
\* that was answered OK and neither another one nor the defaults came across it,
\* and nothing of an earlier one (impl.c:140-180, 214-251).
AckedShown ==
    \A c \in Callers :
        at[c] = "shown" /\ ~torn[c] /\ last.how = "accepted" => seen[c] = last.shown

\* A GET copies a NULL string only while a PUT is at work, or after one that was
\* rejected or mixed with another one or the defaults: an accepted one leaves a
\* port (impl.c:160, 214, 247; CanMonitor.c:602).
CrashNeedsReject == crashed => last.how \notin {"none", "accepted"}
=============================================================================
