------------------------------- MODULE Startup -------------------------------
(***************************************************************************)
(* main() up to the start of its REST server: the options, and where the   *)
(* settings come from, a file or the environment. What they are is left    *)
(* out.                                                                    *)
(*                                                                         *)
(* An argument is what test_arg can tell of it: the options whose names it *)
(* is, or abbreviates up to its "=", whether it has an "=", and whether    *)
(* what follows (or the word itself, when it is a value) is empty.         *)
(***************************************************************************)
EXTENDS Naturals, Sequences

CONSTANT Commands  \* command lines: sequences of arguments

Argument == [options : SUBSET {"help", "name", "config"}, eq : BOOLEAN, empty : BOOLEAN]

ASSUME StartupAssumption == Commands \subseteq Seq(Argument)

VARIABLES
    stage,   \* how far main() is
    todo,    \* the arguments it has not looked at
    named,   \* st.svcname is not empty
    config   \* config_file # NULL

startVars == <<stage, todo, named, config>>

StartInit ==
    /\ stage = "arguments"
    /\ todo \in Commands
    /\ named = TRUE
    /\ config = FALSE

Exit == stage' = "ended" /\ UNCHANGED <<todo, named, config>>

\* The option that test_arg finds in the next argument: the name is tried first.
Option ==
    LET found == Head(todo).options IN
    IF "help" \in found THEN "help"
    ELSE IF "name" \in found THEN "name"
    ELSE IF "config" \in found THEN "config"
    ELSE "unknown"

Missing == IF Head(todo).eq THEN Head(todo).empty ELSE Len(todo) = 1

\* --help, an unknown option, or one whose value is missing.
GiveUp ==
    /\ stage = "arguments" /\ todo # <<>>
    /\ Option \in {"help", "unknown"} \/ Missing
    /\ Exit

\* A fault: the position is not moved on after "=".
TakeOptionStay ==
    /\ stage = "arguments" /\ todo # <<>>
    /\ Option \in {"name", "config"} /\ ~Missing
    /\ named' = IF Option = "name" THEN Head(todo).eq \/ ~todo[2].empty ELSE named
    /\ config' = (config \/ Option = "config")
    /\ todo' = IF Head(todo).eq THEN todo ELSE Tail(Tail(todo))
    /\ UNCHANGED stage

TakeOption ==
    /\ stage = "arguments" /\ todo # <<>>
    /\ Option \in {"name", "config"} /\ ~Missing
    /\ named' = IF Option = "name" THEN Head(todo).eq \/ ~todo[2].empty ELSE named
    /\ config' = (config \/ Option = "config")
    /\ todo' = IF Head(todo).eq THEN Tail(todo) ELSE Tail(Tail(todo))
    /\ UNCHANGED stage

Continue == stage' = "service" /\ UNCHANGED <<todo, named, config>>

\* Every variable must be there.
ReadEnvironment ==
    /\ stage = "arguments" /\ todo = <<>> /\ ~config
    /\ Continue \/ Exit

\* The file must be there. When it is no JSON, or lacks a string, strdup copies
\* NULL; a number that it lacks is 0.
ReadFile ==
    /\ stage = "arguments" /\ todo = <<>> /\ config
    /\ \/ Continue
       \/ Exit
       \/ stage' = "crashed" /\ UNCHANGED <<todo, named, config>>

\* adeptness_service_new. config_file is not looked at again.
NewService ==
    /\ stage = "service"
    /\ IF named
       THEN stage' = "ready" /\ config' = FALSE /\ UNCHANGED <<todo, named>>
       ELSE Exit

StartStep == GiveUp \/ TakeOption \/ ReadEnvironment \/ ReadFile \/ NewService

-----------------------------------------------------------------------------
(* Properties.                                                             *)

StartTypeOK ==
    /\ stage \in {"arguments", "service", "ready", "ended", "crashed"}
    /\ named \in BOOLEAN /\ config \in BOOLEAN

\* Whatever the command line, main() comes to an end with it (CanMonitor.c:542-561).
ArgumentsEnd == <>(stage # "arguments")
=============================================================================
