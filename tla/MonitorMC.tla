----------------------------- MODULE MonitorMC ------------------------------
(* Connections and surroundings for the model-checked instances of Monitor. *)
EXTENDS Monitor

CONSTANT c1

OneClient  == {c1}

\* One thing at a time, and anything at any time. In the second world nobody
\* creates, starts or stops: that only multiplies the states of the status.
CalmWorld == [calm |-> TRUE, ops |-> AllOps,
              setups |-> 2, moves |-> 2, lost |-> 1, fails |-> 1]
AnyWorld  == [calm |-> FALSE, ops |-> {"read", "setupMqtt", "setupHttp"},
              setups |-> 1, moves |-> 1, lost |-> 1, fails |-> 0]
BothWorlds == {CalmWorld, AnyWorld}

\* For the two violations: nothing but creating sensors, nothing but changing
\* the broker.
NoFaults      == [calm |-> FALSE, ops |-> {}, setups |-> 0, moves |-> 0,
                  lost |-> 0, fails |-> 0]
CreatingWorld == {[NoFaults EXCEPT !.ops = {"create"}]}
SetupWorld    == {[NoFaults EXCEPT !.ops = {"setupMqtt"}, !.setups = 2]}
=============================================================================
