------------------------------ MODULE HashTable ------------------------------
(***************************************************************************)
(* The chained hash tables of sensors (hts_...) and of sensorgroups        *)
(* (htsg_...), two copies of the same code, at the level of their nodes.   *)
(*                                                                         *)
(* Several threads call get, put and delete, and create, which stands for  *)
(* the handlers' own "get, and put when it answers NULL". Nothing is       *)
(* locked, so a thread takes one step per pointer it reads or writes.      *)
(* Node addresses are never compared with anything but NULL, so that       *)
(* malloc may as well take any free node: the choice is made once.         *)
(***************************************************************************)
EXTENDS Integers, FiniteSets

CONSTANTS
    Keys,
    Values,   \* what a key is mapped to: a pointer to a sensor or sensorgroup
    None,     \* the answer NULL
    Size,     \* number of buckets
    Hash,     \* [Keys -> 0 .. Size - 1], the function hash()
    Nodes,    \* memory for nodes
    Null,     \* the NULL node
    Threads,
    Calls     \* [Threads -> the calls that thread may make]

Buckets == 0 .. Size - 1
Call    == [op : {"get", "put", "create", "delete"}, key : Keys, val : Values]

ASSUME HashTableAssumption ==
    /\ Size \in Nat \ {0}
    /\ Keys # {}
    /\ Hash \in [Keys -> Buckets]
    /\ Null \notin Nodes
    /\ None \notin Values
    /\ IsFiniteSet(Nodes)
    /\ Calls \in [Threads -> (SUBSET Call) \ {{}}]

VARIABLES
    array,     \* [Buckets -> the first node of the chain, or Null]
    heap,      \* [Nodes -> the fields of that node]
    used,      \* nodes that malloc gave out and nobody freed
    dangling,  \* nodes in whose value free() was called
    pc,        \* where each thread is
    call,      \* the call it makes, or made last
    new,       \* its new node
    tmp,       \* its cursor
    prev,      \* the node before it, in a delete
    res        \* what its last call returned

memory == <<array, heap, used, dangling>>
vars   == <<memory, pc, call, new, tmp, prev, res>>

NoNode == [key |-> CHOOSE k \in Keys : TRUE, val |-> None, next |-> Null]

Init ==
    /\ array = [b \in Buckets |-> Null]
    /\ heap = [n \in Nodes |-> NoNode]
    /\ used = {}
    /\ dangling = {}
    /\ pc = [t \in Threads |-> "idle"]
    /\ call = [t \in Threads |-> CHOOSE c \in Calls[t] : TRUE]
    /\ new = [t \in Threads |-> Null]
    /\ tmp = [t \in Threads |-> Null]
    /\ prev = [t \in Threads |-> Null]
    /\ res = [t \in Threads |-> None]

Bucket(t) == Hash[call[t].key]
Match(t)  == tmp[t] # Null /\ heap[tmp[t]].key = call[t].key
AtEnd(t)  == tmp[t] = Null

Goto(t, label) == pc' = [pc EXCEPT ![t] = label] /\ UNCHANGED <<call, res>>

\* Between calls the cursors of a thread are dead.
Return(t, v) ==
    /\ pc' = [pc EXCEPT ![t] = "idle"]
    /\ res' = [res EXCEPT ![t] = v]
    /\ new' = [new EXCEPT ![t] = Null]
    /\ tmp' = [tmp EXCEPT ![t] = Null]
    /\ prev' = [prev EXCEPT ![t] = Null]
    /\ UNCHANGED call

Invoke(t) ==
    /\ pc[t] = "idle"
    /\ \E c \in Calls[t] :
        /\ call' = [call EXCEPT ![t] = c]
        /\ pc' = [pc EXCEPT ![t] = IF c.op = "create" THEN "get" ELSE c.op]
    /\ res' = [res EXCEPT ![t] = None]
    /\ UNCHANGED <<memory, new, tmp, prev>>

\* tmp = array[i], at the head of each of the three loops.
ReadHead(t) ==
    /\ pc[t] \in {"get", "head", "delete"}
    /\ tmp' = [tmp EXCEPT ![t] = array[Bucket(t)]]
    /\ Goto(t, CASE pc[t] = "get"    -> "getScan"
                 [] pc[t] = "head"   -> "putScan"
                 [] pc[t] = "delete" -> "deleteScan")
    /\ UNCHANGED <<memory, new, prev>>

\* A fault: the loop looks at the same node again.
ScanSame(t) ==
    /\ pc[t] \in {"getScan", "putScan", "deleteScan"}
    /\ ~AtEnd(t) /\ ~Match(t)
    /\ prev' = IF pc[t] = "deleteScan" THEN [prev EXCEPT ![t] = tmp[t]] ELSE prev
    /\ UNCHANGED <<memory, pc, call, new, tmp, res>>

Scan(t) ==
    /\ pc[t] \in {"getScan", "putScan", "deleteScan"}
    /\ ~AtEnd(t) /\ ~Match(t)
    /\ tmp' = [tmp EXCEPT ![t] = heap[tmp[t]].next]
    /\ prev' = IF pc[t] = "deleteScan" THEN [prev EXCEPT ![t] = tmp[t]] ELSE prev
    /\ UNCHANGED <<memory, pc, call, new, res>>

\* A fault: the node is returned, not its value.
EndGetNode(t) ==
    /\ pc[t] = "getScan"
    /\ AtEnd(t) \/ Match(t)
    /\ IF AtEnd(t) /\ call[t].op = "create"
       THEN Goto(t, "put") /\ UNCHANGED <<new, tmp, prev>>
       ELSE Return(t, IF AtEnd(t) THEN None ELSE tmp[t])
    /\ UNCHANGED memory

\* The end of hts_get; a create goes on to hts_put when the answer is NULL.
EndGet(t) ==
    /\ pc[t] = "getScan"
    /\ AtEnd(t) \/ Match(t)
    /\ IF AtEnd(t) /\ call[t].op = "create"
       THEN Goto(t, "put") /\ UNCHANGED <<new, tmp, prev>>
       ELSE Return(t, IF AtEnd(t) THEN None ELSE heap[tmp[t]].val)
    /\ UNCHANGED memory

-----------------------------------------------------------------------------
(* hts_put and node_handler_sensors.                                       *)

Malloc(t) ==
    LET n == CHOOSE m \in Nodes \ used : TRUE
    IN  /\ pc[t] = "put"
        /\ used # Nodes
        /\ used' = used \cup {n}
        /\ heap' = [heap EXCEPT ![n].key = call[t].key, ![n].val = call[t].val]
        /\ new' = [new EXCEPT ![t] = n]
        /\ Goto(t, "test")
        /\ UNCHANGED <<array, dangling, tmp, prev>>

\* malloc failed; the handlers ignore it.
NoMemory(t) ==
    /\ pc[t] = "put"
    /\ Return(t, None)
    /\ UNCHANGED memory

TestHead(t) ==
    /\ pc[t] = "test"
    /\ Goto(t, IF array[Bucket(t)] = Null THEN "first" ELSE "head")
    /\ UNCHANGED <<memory, new, tmp, prev>>

\* A fault: the node is linked in without the loop over the chain.
SetNextUnseen(t) ==
    /\ pc[t] \in {"first", "putScan"}
    /\ heap' = [heap EXCEPT ![new[t]].next = array[Bucket(t)]]
    /\ Goto(t, "link")
    /\ UNCHANGED <<array, used, dangling, new, tmp, prev>>

\* A fault: the node is linked in as if the chain were empty.
SetNextNull(t) ==
    /\ pc[t] = "first" \/ (pc[t] = "putScan" /\ AtEnd(t))
    /\ heap' = [heap EXCEPT ![new[t]].next = Null]
    /\ Goto(t, "link")
    /\ UNCHANGED <<array, used, dangling, new, tmp, prev>>

SetNext(t) ==
    /\ pc[t] = "first" \/ (pc[t] = "putScan" /\ AtEnd(t))
    /\ heap' = [heap EXCEPT ![new[t]].next =
                    IF pc[t] = "first" THEN Null ELSE array[Bucket(t)]]
    /\ Goto(t, "link")
    /\ UNCHANGED <<array, used, dangling, new, tmp, prev>>

Link(t) ==
    /\ pc[t] = "link"
    /\ array' = [array EXCEPT ![Bucket(t)] = new[t]]
    /\ Return(t, call[t].val)
    /\ UNCHANGED <<heap, used, dangling>>

\* The key is there: its node gets the new value, which is then freed along
\* with the new node.
Reassign(t) ==
    /\ pc[t] = "putScan"
    /\ Match(t)
    /\ heap' = [heap EXCEPT ![tmp[t]].val = heap[new[t]].val, ![new[t]] = NoNode]
    /\ dangling' = dangling \cup {tmp[t]}
    /\ used' = used \ {new[t]}
    /\ Return(t, call[t].val)
    /\ UNCHANGED array

-----------------------------------------------------------------------------
(* hts_delete.                                                             *)

\* A fault: the head of the chain is set, whichever node is deleted.
UnlinkHead(t) ==
    /\ pc[t] = "deleteScan"
    /\ Match(t)
    /\ array' = [array EXCEPT ![Bucket(t)] = heap[tmp[t]].next]
    /\ res' = [res EXCEPT ![t] = heap[tmp[t]].val]
    /\ pc' = [pc EXCEPT ![t] = "free"]
    /\ UNCHANGED <<heap, used, dangling, call, new, tmp, prev>>

Unlink(t) ==
    /\ pc[t] = "deleteScan"
    /\ Match(t)
    /\ IF prev[t] = Null
       THEN array' = [array EXCEPT ![Bucket(t)] = heap[tmp[t]].next] /\ UNCHANGED heap
       ELSE heap' = [heap EXCEPT ![prev[t]].next = heap[tmp[t]].next] /\ UNCHANGED array
    /\ res' = [res EXCEPT ![t] = heap[tmp[t]].val]
    /\ pc' = [pc EXCEPT ![t] = "free"]
    /\ UNCHANGED <<used, dangling, call, new, tmp, prev>>

FreeNode(t) ==
    /\ pc[t] = "free"
    /\ used' = used \ {tmp[t]}
    /\ dangling' = dangling \ {tmp[t]}
    /\ heap' = [heap EXCEPT ![tmp[t]] = NoNode]
    /\ Return(t, res[t])
    /\ UNCHANGED array

DeleteMissing(t) ==
    /\ pc[t] = "deleteScan"
    /\ AtEnd(t)
    /\ Return(t, None)
    /\ UNCHANGED memory

-----------------------------------------------------------------------------
Step(t) ==
    \/ ReadHead(t) \/ Scan(t) \/ EndGet(t)
    \/ Malloc(t) \/ NoMemory(t) \/ TestHead(t) \/ SetNext(t) \/ Link(t) \/ Reassign(t)
    \/ Unlink(t) \/ FreeNode(t) \/ DeleteMissing(t)

Next == \E t \in Threads : Invoke(t) \/ Step(t)

Spec == Init /\ [][Next]_vars

\* A thread inside a call is never blocked.
FairSpec == Spec /\ \A t \in Threads : WF_vars(Step(t))

-----------------------------------------------------------------------------
(* Properties.                                                             *)

\* A set of nodes with the node after each of them.
Closed(S) == \A n \in S : heap[n].next \in S \cup {Null}

\* The nodes of the chain that starts at n.
ChainFrom(n) ==
    {m \in Nodes : \A S \in SUBSET Nodes : n \in S \cup {Null} /\ Closed(S) => m \in S}

Chain(b) == ChainFrom(array[b])

TypeOK ==
    /\ array \in [Buckets -> Nodes \cup {Null}]
    /\ heap \in [Nodes -> [key : Keys, val : Values \cup {None}, next : Nodes \cup {Null}]]
    /\ used \subseteq Nodes
    /\ dangling \subseteq Nodes
    /\ pc \in [Threads -> {"idle", "get", "getScan", "put", "test", "head", "first",
                           "putScan", "link", "delete", "deleteScan", "free"}]
    /\ call \in [Threads -> Call]
    /\ new \in [Threads -> Nodes \cup {Null}]
    /\ tmp \in [Threads -> Nodes \cup {Null}]
    /\ prev \in [Threads -> Nodes \cup {Null}]
    /\ res \in [Threads -> Values \cup {None}]

\* "The key is unique in the HashTable": no chain has two nodes of one key.
KeysUnique ==
    \A b \in Buckets : \A m, n \in Chain(b) : heap[m].key = heap[n].key => m = n

\* Every node in use is on the chain of its key's bucket, or in the hands of
\* the thread that is linking it or has just unlinked it: no insertion loses a
\* node that was there, and no chain shares a node with another.
InHand == {new[t] : t \in Threads} \cup {tmp[t] : t \in {u \in Threads : pc[u] = "free"}}
NodesPlaced ==
    \A n \in used \ InHand :
        {b \in Buckets : n \in Chain(b)} = {Hash[heap[n].key]}

\* What hts_get finds when it goes on from node n.
Found(n, k) ==
    LET hits == {m \in ChainFrom(n) : heap[m].key = k}
    IN  IF hits = {} THEN None ELSE heap[CHOOSE m \in hits : TRUE].val

\* A get has taken effect once it read the head of the chain, unless it is the
\* get of a create that will not find its key; the others at their last write.
Scanned(t) ==
    /\ pc[t] = "getScan"
    /\ call[t].op = "create" => Found(tmp[t], call[t].key) # None
Contents == [k \in Keys |-> Found(array[Hash[k]], k)]
Pending  == {t \in Threads : pc[t] \notin {"idle", "free"} /\ ~Scanned(t)}
Answers  == [t \in Threads |-> IF Scanned(t) THEN Found(tmp[t], call[t].key) ELSE res[t]]

Dict == INSTANCE Dictionary WITH
    Calls <- Call, dict <- Contents, pending <- Pending, answer <- Answers

\* The table is a dictionary: each call takes effect at one instant, and gets
\* the answer of that instant.
DictionarySpec == Dict!Spec

\* Every call returns: no chain ever has a loop.
CallsReturn == \A t \in Threads : pc[t] # "idle" ~> pc[t] = "idle"
=============================================================================
