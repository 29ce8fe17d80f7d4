------------------------------ MODULE Publisher ------------------------------
(***************************************************************************)
(* When a running monitor publishes a sensorgroup. At each group of its    *)
(* walk the main loop looks at the wall clock, and publishes when the time *)
(* since the last publication, an unsigned number, is at least the group's *)
(* rate. The message may get lost, and the clock may be set, forwards or   *)
(* backwards.                                                              *)
(*                                                                         *)
(* Groups are numbered in the order of the table. What handlers do to the  *)
(* table under the walk is the subject of Registry: here a group comes and *)
(* goes in one step, while the walk is at another. Orders to start and to  *)
(* stop are the subject of Monitor.                                        *)
(***************************************************************************)
EXTENDS Integers

CONSTANTS
    Groups,    \* number of groups
    Rates,     \* values of publish_rate, in ms
    Wrap,      \* times are unsigned numbers modulo Wrap, 2^64 in the code
    Dates,     \* the clock at the start, in ms since 1970
    Jumps,     \* by how much the clock may be set
    Busy,      \* the most time between two looks at the clock; see Tick
    MaxClock,  \* bound: the clock is watched up to here
    MaxEvents  \* bound: changes of the groups and of the clock

Group == 1 .. Groups

ASSUME PublisherAssumption ==
    /\ Groups \in Nat \ {0}
    /\ Rates \subseteq Nat \ {0}
    /\ Jumps \subseteq Int
    /\ {Wrap, Busy, MaxClock, MaxEvents} \subseteq Nat
    /\ MaxClock < Wrap
    /\ Dates \subseteq 0 .. MaxClock

VARIABLES
    clock,     \* what gettimeofday answers
    spent,     \* time since main last looked at the clock
    events,    \* how often anything came from outside
    rate,      \* publish_rate of each group, 0 when it is not subscribed
    last,      \* last_publish_time of each group
    pc,        \* where main is in its loop
    at,        \* the group the walk is at
    taken,     \* current_time, from the look to the stamp
    arrived,   \* whether the message arrived, from publish() to the stamp
    published, \* whether a group was published since it was subscribed
    waited,    \* time since its last publication, or since it was subscribed
    jumps      \* how often the clock was set in that time

group   == <<rate, last>>
main    == <<pc, at, taken, arrived>>
history == <<published, waited, jumps>>
vars    == <<clock, spent, events, group, main, history>>

Zero == [g \in Group |-> 0]

Subscribed == {g \in Group : rate[g] # 0}

Init ==
    /\ clock \in Dates
    /\ spent = 0
    /\ events = 0
    /\ rate \in [Group -> Rates \cup {0}]
    /\ last = Zero
    /\ pc = "loop"
    /\ at = 1
    /\ taken = 0
    /\ arrived = TRUE
    /\ published = [g \in Group |-> FALSE]
    /\ waited = Zero
    /\ jumps = Zero

-----------------------------------------------------------------------------
(* The surroundings.                                                       *)

Event == events < MaxEvents /\ events' = events + 1

\* Time passes. Between one look at the clock and the next, main spends Busy
\* at most: publish() waits for 1000 ms at most, usleep for 0.1 ms.
Tick ==
    /\ spent < Busy
    /\ clock < MaxClock
    /\ clock' = clock + 1
    /\ spent' = spent + 1
    /\ waited' = [g \in Group |-> waited[g] + 1]
    /\ UNCHANGED <<events, group, main, published, jumps>>

\* Somebody, or NTP, sets the clock.
SetClock ==
    /\ Event
    /\ \E d \in Jumps :
        /\ clock + d \in 0 .. MaxClock
        /\ clock' = clock + d
    /\ jumps' = [g \in Group |-> jumps[g] + 1]
    /\ UNCHANGED <<spent, group, main, published, waited>>

\* A POST, a PUT, or, with rate 0, a DELETE of a group. A new one was never
\* published: its last_publish_time is 0.
Subscribe ==
    \E g \in Group, r \in Rates \cup {0} :
        /\ Event
        /\ at # g \/ pc = "loop"
        /\ rate' = [rate EXCEPT ![g] = r]
        /\ last' = [last EXCEPT ![g] = 0]
        /\ published' = [published EXCEPT ![g] = FALSE]
        /\ waited' = [waited EXCEPT ![g] = 0]
        /\ jumps' = [jumps EXCEPT ![g] = 0]
        /\ UNCHANGED <<clock, spent, main>>

-----------------------------------------------------------------------------
(* The main loop.                                                          *)

\* A fault: the walk goes on to the next place, past the end of the table.
GoOnPast(g) == pc' = "look" /\ at' = g + 1

\* The group after g in the walk, if there is one.
GoOn(g) ==
    \/ /\ \A h \in Subscribed : h <= g
       /\ pc' = "loop" /\ at' = 1
    \/ \E h \in Subscribed :
        /\ h > g
        /\ \A k \in Subscribed : k > g => h <= k
        /\ pc' = "look" /\ at' = h

\* One turn of the loop: the walk and usleep.
Turn ==
    /\ pc = "loop"
    /\ spent' = 0
    /\ GoOn(0)
    /\ UNCHANGED <<clock, events, group, taken, arrived, history>>

\* A fault: signed times are compared.
DueSigned(g) == clock - last[g] >= rate[g]

\* uint64_t current_ms, last_published_ms
Due(g) == (clock - last[g]) % Wrap >= rate[g]

NotDue ==
    /\ pc = "look"
    /\ ~Due(at)
    /\ spent' = 0
    /\ GoOn(at)
    /\ UNCHANGED <<clock, events, group, taken, arrived, history>>

Decide ==
    /\ pc = "look"
    /\ Due(at)
    /\ pc' = "publish"
    /\ spent' = 0
    /\ taken' = clock
    /\ published' = [published EXCEPT ![at] = TRUE]
    /\ waited' = [waited EXCEPT ![at] = 0]
    /\ jumps' = [jumps EXCEPT ![at] = 0]
    /\ UNCHANGED <<clock, events, group, at, arrived>>

\* The answers of MQTTClient_publishMessage and _waitForCompletion are ignored.
Publish ==
    /\ pc = "publish"
    /\ pc' = "stamp"
    /\ arrived' \in BOOLEAN
    /\ UNCHANGED <<clock, spent, events, group, at, taken, history>>

\* A fault: a lost message is to be published again at once.
StampArrived ==
    /\ pc = "stamp"
    /\ last' = IF arrived THEN [last EXCEPT ![at] = taken] ELSE last
    /\ taken' = 0
    /\ arrived' = TRUE
    /\ GoOn(at)
    /\ UNCHANGED <<clock, spent, events, rate, history>>

\* The time of the look at the clock is what counts, not that of the answer.
Stamp ==
    /\ pc = "stamp"
    /\ last' = [last EXCEPT ![at] = taken]
    /\ taken' = 0
    /\ arrived' = TRUE
    /\ GoOn(at)
    /\ UNCHANGED <<clock, spent, events, rate, history>>

Next ==
    \/ Tick \/ SetClock \/ Subscribe
    \/ Turn \/ NotDue \/ Decide \/ Publish \/ Stamp

Spec == Init /\ [][Next]_vars

-----------------------------------------------------------------------------
(* Properties.                                                             *)

TypeOK ==
    /\ clock \in 0 .. MaxClock
    /\ spent \in Nat
    /\ events \in Nat
    /\ rate \in [Group -> Rates \cup {0}]
    /\ last \in [Group -> 0 .. MaxClock]
    /\ pc \in {"loop", "look", "publish", "stamp"}
    /\ at \in Group
    /\ taken \in 0 .. MaxClock
    /\ arrived \in BOOLEAN
    /\ published \in [Group -> BOOLEAN]
    /\ waited \in [Group -> Nat]
    /\ jumps \in [Group -> Nat]

\* Between two messages of a group at least its rate passes, however long main
\* took to come back to it and whether or not the first one arrived; only a
\* clock that is set in between makes the second one early
\* (CanMonitor.c:694-713).
QuotaKept ==
    \A g \in Group :
        pc = "look" /\ pc' = "publish" /\ at = g /\ published[g] /\ jumps[g] = 0
            => waited[g] >= rate[g]

Quota == [][QuotaKept]_vars

\* How long main may take to come back to a group.
Round == (Groups + 1) * Busy

\* No group waits much longer than its rate for its next message, whatever the
\* others do and whether or not the last one arrived. A clock that is set
\* costs one more rate at most: time that went back is a long time, not a
\* negative one (CanMonitor.c:699-701).
Prompt ==
    \A g \in Subscribed : waited[g] <= (1 + jumps[g]) * (rate[g] + Round)
=============================================================================
