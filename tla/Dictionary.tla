----------------------------- MODULE Dictionary -----------------------------
(***************************************************************************)
(* A dictionary shared by threads. A thread calls an operation, which      *)
(* takes effect at one instant before the thread gets its answer.          *)
(***************************************************************************)
CONSTANTS Keys, Values, None, Threads, Calls

VARIABLES
    dict,     \* [Keys -> Values \cup {None}]
    call,     \* the last call of each thread
    pending,  \* the threads whose call has not taken effect
    answer    \* the answer to the last call, None while it is pending

dictVars == <<dict, call, pending, answer>>

Init ==
    /\ dict = [k \in Keys |-> None]
    /\ call \in [Threads -> Calls]
    /\ pending = {}
    /\ answer = [t \in Threads |-> None]

Call(t) ==
    /\ t \notin pending
    /\ \E c \in Calls : call' = [call EXCEPT ![t] = c]
    /\ pending' = pending \cup {t}
    /\ answer' = [answer EXCEPT ![t] = None]
    /\ UNCHANGED dict

Answer(t, v) ==
    /\ t \in pending
    /\ pending' = pending \ {t}
    /\ answer' = [answer EXCEPT ![t] = v]
    /\ UNCHANGED call

Get(t) ==
    /\ call[t].op = "get"
    /\ Answer(t, dict[call[t].key])
    /\ UNCHANGED dict

\* A put may also run out of memory: it then answers None and does nothing.
Put(t) ==
    /\ call[t].op \in {"put", "create"}
    /\ call[t].op = "create" => dict[call[t].key] = None
    /\ \/ /\ Answer(t, call[t].val)
          /\ dict' = [dict EXCEPT ![call[t].key] = call[t].val]
       \/ Answer(t, None) /\ UNCHANGED dict

\* A create of a key that is there answers what is there.
CreateFound(t) ==
    /\ call[t].op = "create"
    /\ dict[call[t].key] # None
    /\ Answer(t, dict[call[t].key])
    /\ UNCHANGED dict

Delete(t) ==
    /\ call[t].op = "delete"
    /\ Answer(t, dict[call[t].key])
    /\ dict' = [dict EXCEPT ![call[t].key] = None]

Next == \E t \in Threads : Call(t) \/ Get(t) \/ Put(t) \/ CreateFound(t) \/ Delete(t)

Spec == Init /\ [][Next]_dictVars
=============================================================================
