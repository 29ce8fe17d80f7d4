--------------------------- MODULE HashTable_proofs ---------------------------
(***************************************************************************)
(* The tables are right for one writer per bucket, whoever reads: types,   *)
(* unique keys, and no node lost.                                          *)
(***************************************************************************)
EXTENDS HashTable, TLAPS

-----------------------------------------------------------------------------
(* Chains, in any heap                                                     *)

Pointer == Nodes \cup {Null}

Linked(h) == \A n \in Nodes : h[n].next \in Pointer

ClosedIn(h, S) == \A n \in S : h[n].next \in S \cup {Null}

\* The nodes of the chain that starts at n.
From(h, n) ==
    {m \in Nodes : \A S \in SUBSET Nodes : n \in S \cup {Null} /\ ClosedIn(h, S) => m \in S}

LEMMA ChainIsFrom == \A n : ChainFrom(n) = From(heap, n)
BY DEF ChainFrom, From, Closed, ClosedIn

LEMMA ChainIsFromNext == \A n : ChainFrom(n)' = From(heap', n')
BY DEF ChainFrom, From, Closed, ClosedIn

\* A chain has its first node, and with each node the next one.
LEMMA FromClosed ==
    ASSUME NEW h, Linked(h), NEW n \in Pointer
    PROVE  /\ From(h, n) \subseteq Nodes
           /\ n \in From(h, n) \cup {Null}
           /\ ClosedIn(h, From(h, n))
<1>1. From(h, n) \subseteq Nodes /\ n \in From(h, n) \cup {Null}
  BY DEF From, Pointer
<1>2. ASSUME NEW m \in From(h, n), h[m].next # Null
      PROVE  h[m].next \in From(h, n)
  <2>1. m \in Nodes /\ h[m].next \in Nodes
    BY <1>1, <1>2 DEF Linked, Pointer
  <2>2. ASSUME NEW S \in SUBSET Nodes, n \in S \cup {Null}, ClosedIn(h, S)
        PROVE  h[m].next \in S
    <3>1. m \in S
      BY <2>2 DEF From
    <3> QED
      BY <1>2, <2>2, <3>1 DEF ClosedIn
  <2> QED
    BY <2>1, <2>2 DEF From
<1> QED
  BY <1>1, <1>2 DEF ClosedIn

\* No smaller set has.
LEMMA FromLeast ==
    ASSUME NEW h, NEW n, NEW S \in SUBSET Nodes, n \in S \cup {Null}, ClosedIn(h, S)
    PROVE  From(h, n) \subseteq S
BY DEF From

LEMMA FromNull ==
    ASSUME NEW h PROVE From(h, Null) = {}
<1>1. {} \in SUBSET Nodes /\ Null \in {} \cup {Null}
  OBVIOUS
<1>2. ClosedIn(h, {})
  BY DEF ClosedIn
<1>3. From(h, Null) \subseteq {}
  BY <1>1, <1>2, FromLeast
<1> QED
  BY <1>3

\* A chain is a node and the chain after it.
LEMMA FromNode ==
    ASSUME HashTableAssumption, NEW h, Linked(h), NEW n \in Nodes
    PROVE  From(h, n) = {n} \cup From(h, h[n].next)
<1> DEFINE R == From(h, n)
           T == From(h, h[n].next)
<1>1. h[n].next \in Pointer /\ n \in Pointer /\ n # Null
  BY DEF Linked, Pointer, HashTableAssumption
<1>2. R \in SUBSET Nodes /\ n \in R /\ ClosedIn(h, R)
  BY <1>1, FromClosed
<1>3. T \in SUBSET Nodes /\ h[n].next \in T \cup {Null} /\ ClosedIn(h, T)
  BY <1>1, FromClosed
<1> HIDE DEF R, T
<1>4. T \subseteq R
  <2>1. h[n].next \in R \cup {Null}
    BY <1>2 DEF ClosedIn
  <2> QED
    BY <1>2, <2>1, FromLeast DEF T
<1>5. ClosedIn(h, {n} \cup T)
  BY <1>3 DEF ClosedIn
<1>6. R \subseteq {n} \cup T
  <2>1. {n} \cup T \in SUBSET Nodes
    BY <1>3
  <2> QED
    BY <1>5, <2>1, FromLeast DEF R
<1> QED
  BY <1>2, <1>4, <1>6 DEF R, T

\* Nothing outside a chain is part of it.
LEMMA FromSame ==
    ASSUME NEW h, NEW g, Linked(h), Linked(g), NEW n \in Pointer,
           \A m \in From(h, n) : g[m].next = h[m].next
    PROVE  From(g, n) = From(h, n)
<1> DEFINE R == From(h, n)
           Q == From(g, n)
<1>1. R \in SUBSET Nodes /\ n \in R \cup {Null} /\ ClosedIn(h, R)
  BY FromClosed
<1>2. Q \in SUBSET Nodes /\ n \in Q \cup {Null} /\ ClosedIn(g, Q)
  BY FromClosed
<1>3. \A m \in R : g[m].next = h[m].next
  OBVIOUS
<1> HIDE DEF R, Q
<1>4. ClosedIn(g, R)
  BY <1>1, <1>3 DEF ClosedIn
<1>5. Q \subseteq R
  BY <1>1, <1>4, FromLeast DEF Q
<1>6. ClosedIn(h, Q)
  BY <1>2, <1>3, <1>5 DEF ClosedIn
<1>7. R \subseteq Q
  BY <1>2, <1>6, FromLeast DEF R
<1> QED
  BY <1>5, <1>7 DEF R, Q

\* One way leads to each node of the chain that starts at a, none to a itself.
Straight(h, a) ==
    /\ \A m \in From(h, a) : h[m].next # a
    /\ \A m, n \in From(h, a) : h[m].next = h[n].next /\ h[m].next # Null => m = n

\* A new first node.
LEMMA FromPush ==
    ASSUME HashTableAssumption, NEW h, Linked(h), NEW a \in Pointer, NEW n \in Nodes,
           n \notin From(h, a), h[n].next = a, Straight(h, a)
    PROVE  From(h, n) = {n} \cup From(h, a) /\ Straight(h, n)
<1>1. From(h, n) = {n} \cup From(h, a)
  BY FromNode
<1>2. a \in From(h, a) \cup {Null} /\ ClosedIn(h, From(h, a)) /\ n # Null
  BY FromClosed DEF HashTableAssumption
<1>3. a # n
  BY <1>2
<1>4. \A m \in From(h, n) : h[m].next # n
  BY <1>1, <1>2, <1>3 DEF ClosedIn
<1>5. \A m \in From(h, a) : h[m].next # a
  BY DEF Straight
<1>6. \A l, m \in From(h, n) : h[l].next = h[m].next /\ h[l].next # Null => l = m
  BY <1>1, <1>5 DEF Straight
<1> QED
  BY <1>1, <1>4, <1>6 DEF Straight

\* The first node is cut off.
LEMMA FromPop ==
    ASSUME HashTableAssumption, NEW h, Linked(h), NEW a \in Nodes, Straight(h, a)
    PROVE  From(h, h[a].next) = From(h, a) \ {a} /\ Straight(h, h[a].next)
<1> DEFINE R == From(h, a)
           b == h[a].next
<1>1. R = {a} \cup From(h, b)
  BY FromNode
<1>2. R \in SUBSET Nodes /\ ClosedIn(h, R) /\ a \in R
  BY FromClosed DEF Pointer, HashTableAssumption
<1>3. ClosedIn(h, R \ {a}) /\ b \in (R \ {a}) \cup {Null}
  BY <1>2 DEF ClosedIn, Straight
<1>4. From(h, b) \subseteq R \ {a}
  BY <1>2, <1>3, FromLeast
<1>5. From(h, b) = R \ {a}
  BY <1>1, <1>4
<1>6. ASSUME NEW m \in From(h, b), h[m].next = b
      PROVE  FALSE
  <2>1. b # Null
    <3>1. CASE b = Null
      BY <1>6, <3>1, FromNull
    <3> QED
      BY <3>1
  <2>2. m \in R /\ a \in R /\ m # a
    BY <1>2, <1>5, <1>6
  <2> QED
    BY <1>6, <2>1, <2>2 DEF Straight
<1>7. \A l, m \in From(h, b) : h[l].next = h[m].next /\ h[l].next # Null => l = m
  BY <1>5 DEF Straight
<1> QED
  BY <1>5, <1>6, <1>7 DEF Straight

\* What comes after a node of a chain is part of the chain.
LEMMA FromLater ==
    ASSUME NEW h, Linked(h), NEW a \in Pointer, NEW n \in From(h, a) \cup {Null}
    PROVE  n \in Pointer /\ From(h, n) \subseteq From(h, a)
<1>1. From(h, a) \in SUBSET Nodes /\ ClosedIn(h, From(h, a))
  BY FromClosed
<1>2. From(h, n) \subseteq From(h, a)
  BY <1>1, FromLeast
<1> QED
  BY <1>1, <1>2 DEF Pointer

\* No node of a straight chain is the one after it.
LEMMA NoLoop ==
    ASSUME NEW h, Linked(h), NEW a \in Pointer, Straight(h, a), NEW n \in From(h, a)
    PROVE  h[n].next # n
<1> DEFINE R == From(h, a)
<1>1. R \in SUBSET Nodes /\ a \in R \cup {Null} /\ ClosedIn(h, R)
  BY FromClosed
<1>2. SUFFICES ASSUME h[n].next = n PROVE FALSE
  OBVIOUS
<1>3. n # a
  BY <1>2 DEF Straight
<1>4. CASE n = Null
  <2>1. Null \in Nodes
    BY <1>1, <1>4
  <2>2. ClosedIn(h, R \ {n})
    BY <1>1, <1>4 DEF ClosedIn
  <2>3. From(h, a) \subseteq R \ {n}
    BY <1>1, <1>3, <2>2, FromLeast
  <2> QED
    BY <2>3
<1>5. CASE n # Null
  <2>1. \A m \in R \ {n} : h[m].next # n
    BY <1>2, <1>5 DEF Straight
  <2>2. ClosedIn(h, R \ {n})
    BY <1>1, <2>1 DEF ClosedIn
  <2>3. From(h, a) \subseteq R \ {n}
    BY <1>1, <1>3, <2>2, FromLeast
  <2> QED
    BY <2>3
<1> QED
  BY <1>4, <1>5

\* The node x after p is cut out.
LEMMA FromCut ==
    ASSUME HashTableAssumption, NEW h, Linked(h), NEW a \in Pointer, Straight(h, a),
           NEW p \in From(h, a), NEW x \in From(h, a), h[p].next = x,
           NEW g, Linked(g), g[p].next = h[x].next,
           \A m \in From(h, a) \ {p} : g[m].next = h[m].next
    PROVE  From(g, a) = From(h, a) \ {x} /\ Straight(g, a)
<1> DEFINE R == From(h, a)
           Q == From(g, a)
<1>1. R \in SUBSET Nodes /\ a \in R \cup {Null} /\ ClosedIn(h, R)
  BY FromClosed
<1>2. Q \in SUBSET Nodes /\ a \in Q \cup {Null} /\ ClosedIn(g, Q)
  BY FromClosed
<1>3. x # Null /\ x # p /\ h[x].next # x /\ x # a
  BY <1>1, NoLoop DEF Straight, HashTableAssumption
<1>4. \A m \in R \ {p} : h[m].next # x
  BY <1>3 DEF Straight
<1>5. \A m \in R \ {x} : h[m].next # Null => h[m].next # h[x].next
  BY DEF Straight
<1>6. /\ p \in R /\ x \in R
      /\ \A m \in R \ {p} : g[m].next = h[m].next
  OBVIOUS
<1>7. \A m \in R : h[m].next # a
  BY DEF Straight
<1>8. \A l, m \in R : h[l].next = h[m].next /\ h[l].next # Null => l = m
  BY DEF Straight
<1> HIDE DEF R, Q
<1>9. Q \subseteq R \ {x}
  <2>1. ASSUME NEW m \in R \ {x} PROVE g[m].next \in (R \ {x}) \cup {Null}
    <3>1. CASE m = p
      BY <1>1, <1>3, <1>6, <3>1 DEF ClosedIn
    <3>2. CASE m # p
      BY <1>1, <1>4, <1>6, <3>2 DEF ClosedIn
    <3> QED
      BY <3>1, <3>2
  <2>2. ClosedIn(g, R \ {x}) /\ R \ {x} \in SUBSET Nodes /\ a \in (R \ {x}) \cup {Null}
    BY <1>1, <1>3, <2>1 DEF ClosedIn
  <2> QED
    BY <2>2, FromLeast DEF Q
<1>10. p \in Q
  <2>1. SUFFICES ASSUME p \notin Q PROVE FALSE
    OBVIOUS
  <2>2. ClosedIn(h, Q)
    BY <1>2, <1>6, <1>9, <2>1 DEF ClosedIn
  <2>3. R \subseteq Q
    BY <1>2, <2>2, FromLeast DEF R
  <2> QED
    BY <1>6, <2>1, <2>3
<1>11. R \subseteq Q \cup {x}
  <2>1. h[x].next \in Q \cup {Null}
    BY <1>2, <1>10 DEF ClosedIn
  <2>2. ASSUME NEW m \in Q, m # p PROVE h[m].next \in Q \cup {Null}
    BY <1>2, <1>6, <1>9, <2>2 DEF ClosedIn
  <2>3. ClosedIn(h, Q \cup {x}) /\ Q \cup {x} \in SUBSET Nodes /\ a \in Q \cup {x} \cup {Null}
    BY <1>1, <1>2, <1>6, <2>1, <2>2 DEF ClosedIn
  <2> QED
    BY <2>3, FromLeast DEF R
<1>12. Q = R \ {x}
  BY <1>9, <1>11
<1>13. \A m \in Q : g[m].next # a
  BY <1>6, <1>7, <1>12
<1>14. \A l, m \in Q : g[l].next = g[m].next /\ g[l].next # Null => l = m
  BY <1>5, <1>6, <1>8, <1>12
<1> QED
  BY <1>12, <1>13, <1>14 DEF Straight, Q, R

-----------------------------------------------------------------------------
(* Types, whatever the threads call                                        *)

Putting == {"test", "head", "first", "putScan", "link"}

\* Inside a put there is a new node.
TypeInv == TypeOK /\ \A t \in Threads : pc[t] \in Putting => new[t] \in Nodes

Fields == [key : Keys, val : Values \cup {None}, next : Pointer]
Labels == {"idle", "get", "getScan", "put", "test", "head", "first",
           "putScan", "link", "delete", "deleteScan", "free"}

LEMMA Typed ==
    ASSUME TypeOK
    PROVE  /\ array \in [Buckets -> Pointer] /\ heap \in [Nodes -> Fields]
           /\ used \subseteq Nodes /\ dangling \subseteq Nodes
           /\ pc \in [Threads -> Labels] /\ call \in [Threads -> Call]
           /\ new \in [Threads -> Pointer] /\ tmp \in [Threads -> Pointer]
           /\ prev \in [Threads -> Pointer] /\ res \in [Threads -> Values \cup {None}]
           /\ Linked(heap)
           /\ \A b \in Buckets : array[b] \in Pointer
           /\ \A t \in Threads :
                /\ call[t].key \in Keys /\ call[t].val \in Values
                /\ Bucket(t) \in Buckets /\ Bucket(t) = Hash[call[t].key]
                /\ new[t] \in Pointer /\ tmp[t] \in Pointer /\ prev[t] \in Pointer
BY HashTableAssumption DEF TypeOK, Fields, Labels, Linked, Pointer, Call, Bucket

\* The invariant's parts:

\* no node of the chain from p is free, in another bucket, or of a key twice;
Good(h, p, b, U) ==
    /\ From(h, p) \subseteq U
    /\ \A m \in From(h, p) : Hash[h[m].key] = b
    /\ \A l, m \in From(h, p) : h[l].key = h[m].key => l = m
    /\ Straight(h, p)

\* the search along the chain from p, now at x, has not passed key k;
Seeks(h, p, k, x) ==
    /\ x \in From(h, p) \cup {Null}
    /\ \A m \in From(h, p) : h[m].key = k => m \in From(h, x)

\* n is on no chain;
Apart(h, a, n) == \A b \in Buckets : n \notin From(h, a[b])

\* the node that the thread has to itself;
Hand(at, n, x) == IF at = "free" THEN x ELSE n

\* a thread at the label, in a call c, with the cursors n (new), x (tmp), y (prev).
Works(h, a, U, at, c, n, x, y) ==
    /\ at \in Putting \cup {"put"} => c.op \in {"put", "create"}
    /\ at \in {"delete", "deleteScan", "free"} => c.op = "delete"
    /\ at \in Putting => n \in U /\ h[n].key = c.key
    /\ at \notin Putting => n = Null
    /\ at = "first" => a[Hash[c.key]] = Null
    /\ at \in {"putScan", "deleteScan"} => Seeks(h, a[Hash[c.key]], c.key, x)
    /\ at = "link" => /\ h[n].next = a[Hash[c.key]]
                      /\ \A m \in From(h, a[Hash[c.key]]) : h[m].key # c.key
    /\ at = "deleteScan" => IF y = Null THEN x = a[Hash[c.key]]
                            ELSE y \in From(h, a[Hash[c.key]]) /\ h[y].next = x
    /\ at = "free" => x \in U
    /\ at \notin {"deleteScan", "free"} => y = Null
    /\ Hand(at, n, x) # Null => Apart(h, a, Hand(at, n, x))

HandOf(t) == Hand(pc[t], new[t], tmp[t])

Placed == \A n \in used : (\A t \in Threads : HandOf(t) # n)
                             => n \in From(heap, array[Hash[heap[n].key]])

Invar ==
    /\ TypeOK
    /\ \A b \in Buckets : Good(heap, array[b], b, used)
    /\ Placed
    /\ \A t \in Threads : /\ call[t] \in Calls[t]
                          /\ Works(heap, array, used, pc[t], call[t], new[t], tmp[t], prev[t])
    /\ \A t, u \in Threads : t # u => HandOf(t) # HandOf(u) \/ HandOf(t) = Null

\* What Goto and Return leave a thread with.
LEMMA GotoTyped ==
    ASSUME TypeInv, NEW t \in Threads, NEW label \in Labels, Goto(t, label)
    PROVE  /\ pc' \in [Threads -> Labels] /\ call' \in [Threads -> Call]
           /\ res' \in [Threads -> Values \cup {None}]
           /\ pc'[t] = label /\ \A u \in Threads \ {t} : pc'[u] = pc[u]
BY DEF TypeInv, TypeOK, Goto, Labels

LEMMA ReturnTyped ==
    ASSUME TypeInv, NEW t \in Threads, NEW v \in Values \cup {None}, Return(t, v)
    PROVE  /\ pc' \in [Threads -> Labels] /\ call' \in [Threads -> Call]
           /\ res' \in [Threads -> Values \cup {None}]
           /\ new' \in [Threads -> Pointer] /\ tmp' \in [Threads -> Pointer]
           /\ prev' \in [Threads -> Pointer]
           /\ pc'[t] = "idle" /\ \A u \in Threads \ {t} : pc'[u] = pc[u] /\ new'[u] = new[u]
BY DEF TypeInv, TypeOK, Return, Labels, Pointer

THEOREM TypeCorrect == Spec => []TypeOK
<1>1. Init => TypeInv
  <2> SUFFICES ASSUME Init PROVE TypeInv
    OBVIOUS
  <2>1. call \in [Threads -> Call]
    <3>1. \A t \in Threads : \E c \in Calls[t] : TRUE
      BY HashTableAssumption
    <3>2. \A t \in Threads : (CHOOSE c \in Calls[t] : TRUE) \in Calls[t]
      BY <3>1
    <3> QED
      BY <3>2, HashTableAssumption DEF Init
  <2>2. NoNode \in [key : Keys, val : Values \cup {None}, next : Nodes \cup {Null}]
    <3>1. (CHOOSE k \in Keys : TRUE) \in Keys
      BY HashTableAssumption
    <3> QED
      BY <3>1 DEF NoNode
  <2> QED
    BY <2>1, <2>2 DEF Init, TypeInv, TypeOK, Putting
<1>2. TypeInv /\ [Next]_vars => TypeInv'
  <2> SUFFICES ASSUME TypeInv, [Next]_vars PROVE TypeInv'
    OBVIOUS
  <2> DEFINE Field == [key : Keys, val : Values \cup {None}, next : Nodes \cup {Null}]
  <2>0. TypeOK /\ NoNode \in Field
    <3>1. (CHOOSE k \in Keys : TRUE) \in Keys
      BY HashTableAssumption
    <3> QED
      BY <3>1 DEF NoNode, TypeInv
  <2>1. CASE UNCHANGED vars
    BY <2>1 DEF TypeInv, TypeOK, vars, memory
  <2>2. ASSUME NEW t \in Threads, Invoke(t) PROVE TypeInv'
    <3>1. PICK c \in Calls[t] : /\ call' = [call EXCEPT ![t] = c]
                                /\ pc' = [pc EXCEPT ![t] =
                                     IF c.op = "create" THEN "get" ELSE c.op]
      BY <2>2 DEF Invoke
    <3>2. c \in Call /\ c.op \in {"get", "put", "create", "delete"}
      BY HashTableAssumption DEF Call
    <3>3. UNCHANGED <<memory, new, tmp, prev>> /\ res' = [res EXCEPT ![t] = None]
      BY <2>2 DEF Invoke
    <3>4. call' \in [Threads -> Call]
      BY <2>0, <3>1, <3>2 DEF TypeOK
    <3>5. \A u \in Threads : pc'[u] = pc[u] \/ pc'[u] \in {"get", "put", "delete"}
      BY <2>0, <3>1, <3>2 DEF TypeOK
    <3>6. pc' \in [Threads -> Labels]
      BY <2>0, <3>1, <3>5 DEF TypeOK, Labels
    <3> QED
      BY <3>3, <3>4, <3>5, <3>6 DEF TypeInv, TypeOK, memory, Putting, Labels
  <2>3. ASSUME NEW t \in Threads, ReadHead(t) PROVE TypeInv'
    <3>1. PICK label \in {"getScan", "putScan", "deleteScan"} :
             Goto(t, label) /\ (label = "putScan" => pc[t] = "head")
      BY <2>3 DEF ReadHead
    <3>2. tmp' \in [Threads -> Nodes \cup {Null}]
      BY <2>0, <2>3, Typed DEF TypeOK, ReadHead
    <3>3. UNCHANGED <<memory, new, prev>>
      BY <2>3 DEF ReadHead
    <3>4. label \in Labels
      BY DEF Labels
    <3> QED
      BY <3>1, <3>2, <3>3, <3>4, GotoTyped DEF TypeInv, TypeOK, memory, Labels, Putting
  <2>4. ASSUME NEW t \in Threads, Scan(t) PROVE TypeInv'
    <3>1. tmp[t] \in Nodes
      BY <2>0, <2>4 DEF TypeOK, Scan, AtEnd
    <3>2. heap[tmp[t]].next \in Nodes \cup {Null}
      BY <2>0, <3>1 DEF TypeOK
    <3>3. tmp' \in [Threads -> Nodes \cup {Null}] /\ prev' \in [Threads -> Nodes \cup {Null}]
      BY <2>0, <2>4, <3>1, <3>2 DEF TypeOK, Scan
    <3> QED
      BY <2>4, <3>3 DEF TypeInv, TypeOK, Scan, memory
  <2>5. ASSUME NEW t \in Threads, EndGet(t) PROVE TypeInv'
    <3>1. CASE AtEnd(t) /\ call[t].op = "create"
      <4>1. Goto(t, "put") /\ UNCHANGED <<new, tmp, prev>> /\ UNCHANGED memory
        BY <2>5, <3>1 DEF EndGet
      <4>2. "put" \in Labels
        BY DEF Labels
      <4> QED
        BY <4>1, <4>2, GotoTyped DEF TypeInv, TypeOK, memory, Labels, Putting
    <3>2. CASE ~(AtEnd(t) /\ call[t].op = "create")
      <4> DEFINE v == IF AtEnd(t) THEN None ELSE heap[tmp[t]].val
      <4>1. Return(t, v) /\ UNCHANGED memory
        BY <2>5, <3>2 DEF EndGet
      <4>2. v \in Values \cup {None}
        BY <2>0 DEF TypeOK, AtEnd
      <4> HIDE DEF v
      <4> QED
        BY <4>1, <4>2, ReturnTyped DEF TypeInv, TypeOK, memory, Labels, Putting, Pointer
    <3> QED
      BY <3>1, <3>2
  <2>6. ASSUME NEW t \in Threads, Malloc(t) PROVE TypeInv'
    <3>1. PICK n \in Nodes \ used :
             /\ used' = used \cup {n}
             /\ heap' = [heap EXCEPT ![n].key = call[t].key, ![n].val = call[t].val]
             /\ new' = [new EXCEPT ![t] = n]
      <4>1. \E m \in Nodes \ used : TRUE
        BY <2>0, <2>6 DEF TypeOK, Malloc
      <4>2. (CHOOSE m \in Nodes \ used : TRUE) \in Nodes \ used
        BY <4>1
      <4> QED
        BY <2>6, <4>2 DEF Malloc
    <3>2. Goto(t, "test") /\ UNCHANGED <<array, dangling, tmp, prev>>
      BY <2>6 DEF Malloc
    <3>3. heap' \in [Nodes -> Field]
      <4>1. call[t].key \in Keys /\ call[t].val \in Values
        BY <2>0, Typed
      <4> QED
        BY <2>0, <3>1, <4>1 DEF TypeOK
    <3>4. new' \in [Threads -> Nodes \cup {Null}] /\ used' \subseteq Nodes /\ new'[t] \in Nodes
      BY <2>0, <3>1 DEF TypeOK
    <3>5. \A u \in Threads \ {t} : new'[u] = new[u]
      BY <2>0, <3>1 DEF TypeOK
    <3>6. "test" \in Labels
      BY DEF Labels
    <3> QED
      BY <3>2, <3>3, <3>4, <3>5, <3>6, GotoTyped DEF TypeInv, TypeOK, Labels
  <2>7. ASSUME NEW t \in Threads, NoMemory(t) PROVE TypeInv'
    BY <2>7, ReturnTyped DEF TypeInv, TypeOK, NoMemory, memory, Labels, Putting, Pointer
  <2>8. ASSUME NEW t \in Threads, TestHead(t) PROVE TypeInv'
    <3>1. PICK label \in {"first", "head"} : Goto(t, label)
      BY <2>8 DEF TestHead
    <3>2. UNCHANGED <<memory, new, tmp, prev>> /\ pc[t] = "test"
      BY <2>8 DEF TestHead
    <3>3. label \in Labels
      BY DEF Labels
    <3>4. /\ pc' \in [Threads -> Labels] /\ call' \in [Threads -> Call]
          /\ res' \in [Threads -> Values \cup {None}]
          /\ pc'[t] = label /\ \A u \in Threads \ {t} : pc'[u] = pc[u]
      BY <3>1, <3>3, GotoTyped
    <3>5. new[t] \in Nodes
      BY <3>2 DEF TypeInv, Putting
    <3>6. TypeOK'
      BY <2>0, <3>2, <3>4 DEF TypeOK, memory, Labels
    <3>7. \A u \in Threads : pc'[u] \in Putting => new'[u] \in Nodes
      BY <3>2, <3>4, <3>5 DEF TypeInv
    <3> QED
      BY <3>6, <3>7 DEF TypeInv
  <2>9. ASSUME NEW t \in Threads, SetNext(t) PROVE TypeInv'
    <3>1. array[Bucket(t)] \in Nodes \cup {Null}
      BY <2>0, Typed DEF Pointer
    <3>2. heap' \in [Nodes -> Field]
      <4>1. PICK p \in Nodes \cup {Null} : heap' = [heap EXCEPT ![new[t]].next = p]
        BY <2>9, <3>1 DEF SetNext
      <4>2. new[t] \in Nodes
        BY <2>9 DEF TypeInv, SetNext, Putting
      <4> QED
        BY <2>0, <4>1, <4>2 DEF TypeOK
    <3>3. /\ Goto(t, "link") /\ UNCHANGED <<array, used, dangling, new, tmp, prev>>
          /\ pc[t] \in Putting
      BY <2>9 DEF SetNext, Putting
    <3>4. "link" \in Labels
      BY DEF Labels
    <3> QED
      BY <3>2, <3>3, <3>4, GotoTyped DEF TypeInv, TypeOK, Labels, Putting
  <2>10. ASSUME NEW t \in Threads, Link(t) PROVE TypeInv'
    <3>1. array' \in [Buckets -> Nodes \cup {Null}]
      BY <2>0, <2>10 DEF TypeOK, Link
    <3>2. Return(t, call[t].val) /\ UNCHANGED <<heap, used, dangling>>
      BY <2>10 DEF Link
    <3>3. call[t].val \in Values \cup {None}
      BY <2>0, Typed
    <3> QED
      BY <3>1, <3>2, <3>3, ReturnTyped DEF TypeInv, TypeOK, Labels, Putting, Pointer
  <2>11. ASSUME NEW t \in Threads, Reassign(t) PROVE TypeInv'
    <3>1. tmp[t] \in Nodes /\ new[t] \in Nodes
      BY <2>0, <2>11 DEF TypeInv, TypeOK, Reassign, Match, Putting
    <3>2. heap[new[t]].val \in Values \cup {None}
      BY <2>0, <3>1 DEF TypeOK
    <3>3. heap' \in [Nodes -> Field]
      BY <2>0, <2>11, <3>1, <3>2 DEF TypeOK, Reassign
    <3>4. used' \subseteq Nodes /\ dangling' \subseteq Nodes
      BY <2>0, <2>11, <3>1 DEF TypeOK, Reassign
    <3>5. Return(t, call[t].val) /\ UNCHANGED array
      BY <2>11 DEF Reassign
    <3>6. call[t].val \in Values \cup {None}
      BY <2>0, Typed
    <3> QED
      BY <3>3, <3>4, <3>5, <3>6, ReturnTyped DEF TypeInv, TypeOK, Labels, Putting, Pointer
  <2>12. ASSUME NEW t \in Threads, Unlink(t) PROVE TypeInv'
    <3>1. tmp[t] \in Nodes
      BY <2>0, <2>12 DEF TypeOK, Unlink, Match
    <3>2. heap[tmp[t]].next \in Nodes \cup {Null} /\ heap[tmp[t]].val \in Values \cup {None}
      BY <2>0, <3>1 DEF TypeOK
    <3>3. array' \in [Buckets -> Nodes \cup {Null}]
      BY <2>0, <2>12, <3>2 DEF TypeOK, Unlink
    <3>4. heap' \in [Nodes -> Field]
      BY <2>0, <2>12, <3>2 DEF TypeOK, Unlink
    <3>5. res' \in [Threads -> Values \cup {None}]
      BY <2>0, <2>12, <3>2 DEF TypeOK, Unlink
    <3>6. pc' \in [Threads -> Labels] /\ \A u \in Threads : pc'[u] = pc[u] \/ pc'[u] = "free"
      BY <2>0, <2>12 DEF TypeOK, Unlink, Labels
    <3> QED
      BY <2>12, <3>3, <3>4, <3>5, <3>6 DEF TypeInv, TypeOK, Unlink, Labels, Putting
  <2>13. ASSUME NEW t \in Threads, FreeNode(t) PROVE TypeInv'
    <3>1. heap' \in [Nodes -> Field] /\ used' \subseteq Nodes /\ dangling' \subseteq Nodes
      BY <2>0, <2>13 DEF TypeOK, FreeNode
    <3>2. Return(t, res[t]) /\ UNCHANGED array /\ res[t] \in Values \cup {None}
      BY <2>0, <2>13 DEF TypeOK, FreeNode
    <3> QED
      BY <3>1, <3>2, ReturnTyped DEF TypeInv, TypeOK, Labels, Putting, Pointer
  <2>14. ASSUME NEW t \in Threads, DeleteMissing(t) PROVE TypeInv'
    BY <2>14, ReturnTyped DEF TypeInv, TypeOK, DeleteMissing, memory, Labels, Putting, Pointer
  <2> QED
    BY <2>1, <2>2, <2>3, <2>4, <2>5, <2>6, <2>7, <2>8, <2>9, <2>10, <2>11, <2>12, <2>13, <2>14
    DEF Next, Step
<1> QED
  BY <1>1, <1>2, PTL DEF Spec, TypeInv

-----------------------------------------------------------------------------
(* One writer per bucket                                                   *)

\* Whatever a thread does to a bucket that it does not own is to get.
OneWriter(owner) ==
    /\ owner \in [Buckets -> Threads]
    /\ \A t \in Threads : \A c \in Calls[t] : c.op # "get" => owner[Hash[c.key]] = t

Writing == Putting \cup {"put", "delete", "deleteScan", "free"}

\* A chain whose nodes keep their key and the next node is as good as before.
LEMMA GoodKept ==
    ASSUME NEW h, Linked(h), NEW g, Linked(g), NEW p \in Pointer, NEW b, NEW U, NEW W,
           Good(h, p, b, U), From(h, p) \subseteq W,
           \A m \in From(h, p) : g[m].next = h[m].next /\ g[m].key = h[m].key
    PROVE  From(g, p) = From(h, p) /\ Good(g, p, b, W)
<1>1. From(g, p) = From(h, p)
  BY FromSame
<1> QED
  BY <1>1 DEF Good, Straight

\* A thread goes on as if its bucket and the node in its hand are untouched.
LEMMA WorksKept ==
    ASSUME HashTableAssumption, NEW h, Linked(h), NEW g, Linked(g), NEW a, NEW d,
           NEW U \in SUBSET Nodes, NEW W, NEW at, NEW c, NEW n, NEW x, NEW y,
           a[Hash[c.key]] \in Pointer,
           Works(h, a, U, at, c, n, x, y),
           at \in Writing =>
               /\ d[Hash[c.key]] = a[Hash[c.key]]
               /\ \A m \in From(h, a[Hash[c.key]]) :
                      g[m].next = h[m].next /\ g[m].key = h[m].key,
           Hand(at, n, x) # Null => /\ Hand(at, n, x) \in W
                                    /\ g[Hand(at, n, x)] = h[Hand(at, n, x)]
                                    /\ Apart(g, d, Hand(at, n, x))
    PROVE  Works(g, d, W, at, c, n, x, y)
<1> DEFINE p == a[Hash[c.key]]
<1>1. at \in Writing => From(g, p) = From(h, p)
  BY FromSame
<1>2. ASSUME at \in {"putScan", "deleteScan"}
      PROVE  Seeks(g, d[Hash[c.key]], c.key, x)
  <2>1. at \in Writing /\ Seeks(h, p, c.key, x)
    BY <1>2 DEF Writing, Putting, Works
  <2>2. x \in From(h, p) \cup {Null}
    BY <2>1 DEF Seeks
  <2>3. x \in Pointer /\ From(h, x) \subseteq From(h, p)
    BY <2>2, FromLater
  <2>4. From(g, x) = From(h, x)
    BY <2>1, <2>3, FromSame
  <2> QED
    BY <1>1, <2>1, <2>4 DEF Seeks
<1>3. at = "link" => /\ g[n].next = d[Hash[c.key]]
                     /\ \A m \in From(g, d[Hash[c.key]]) : g[m].key # c.key
  <2>1. SUFFICES ASSUME at = "link"
                 PROVE  /\ g[n].next = d[Hash[c.key]]
                        /\ \A m \in From(g, d[Hash[c.key]]) : g[m].key # c.key
    OBVIOUS
  <2>2. Hand(at, n, x) = n /\ at \in Writing
    BY <2>1 DEF Hand, Writing, Putting
  <2>3. n # Null
    BY <2>1 DEF Works, Putting, HashTableAssumption
  <2> QED
    BY <1>1, <2>1, <2>2, <2>3 DEF Works
<1>4. at \in Putting => n \in W /\ g[n].key = c.key
  <2>1. SUFFICES ASSUME at \in Putting PROVE n \in W /\ g[n].key = c.key
    OBVIOUS
  <2>2. Hand(at, n, x) = n /\ n # Null
    BY <2>1 DEF Hand, Works, Putting, HashTableAssumption
  <2> QED
    BY <2>1, <2>2 DEF Works
<1>5. at = "free" => x \in W
  <2>1. SUFFICES ASSUME at = "free" PROVE x \in W
    OBVIOUS
  <2>2. Hand(at, n, x) = x /\ x # Null
    BY <2>1 DEF Hand, Works, HashTableAssumption
  <2> QED
    BY <2>2
<1>6. at = "deleteScan" => IF y = Null THEN x = d[Hash[c.key]]
                           ELSE y \in From(g, d[Hash[c.key]]) /\ g[y].next = x
  BY <1>1 DEF Works, Writing
<1>7. at = "first" => d[Hash[c.key]] = Null
  BY DEF Works, Writing, Putting
<1> QED
  BY <1>2, <1>3, <1>4, <1>5, <1>6, <1>7 DEF Works

\* The other threads stay where they are.
Others(t) ==
    \A u \in Threads \ {t} :
        /\ pc'[u] = pc[u] /\ call'[u] = call[u]
        /\ new'[u] = new[u] /\ tmp'[u] = tmp[u] /\ prev'[u] = prev[u]

\* What is in a hand is in use and on no chain.
LEMMA Hands ==
    ASSUME Invar, NEW t \in Threads, HandOf(t) # Null
    PROVE  HandOf(t) \in used /\ HandOf(t) \in Nodes /\ Apart(heap, array, HandOf(t))
<1>1. Works(heap, array, used, pc[t], call[t], new[t], tmp[t], prev[t])
  BY DEF Invar
<1>2. HandOf(t) \in used
  BY <1>1 DEF Works, HandOf, Hand
<1> QED
  BY <1>1, <1>2 DEF Works, HandOf, Invar, TypeOK

\* No bucket is written by two threads.
LEMMA WritersApart ==
    ASSUME Invar, NEW owner, OneWriter(owner), NEW t \in Threads, NEW u \in Threads,
           pc[t] \in Writing, pc[u] \in Writing, Bucket(t) = Bucket(u)
    PROVE  t = u
<1>1. ASSUME NEW v \in Threads, pc[v] \in Writing PROVE owner[Bucket(v)] = v
  <2>1. Works(heap, array, used, pc[v], call[v], new[v], tmp[v], prev[v])
    BY DEF Invar
  <2>2. call[v].op # "get"
    BY <1>1, <2>1 DEF Works, Writing
  <2> QED
    BY <2>2 DEF Invar, OneWriter, Bucket
<1> QED
  BY <1>1

\* A step of t keeps the invariant when it leaves the chains good and each node
\* placed, t itself is right, no hand but that of t is touched, and no bucket
\* but the one t is writing.
LEMMA StepKeeps ==
    ASSUME Invar, TypeOK', NEW owner, OneWriter(owner), NEW t \in Threads, Others(t),
           \A b \in Buckets : Good(heap', array'[b], b, used'),
           Placed',
           call'[t] \in Calls[t],
           Works(heap', array', used', pc'[t], call'[t], new'[t], tmp'[t], prev'[t]),
           \A b \in Buckets :
               \/ pc[t] \in Writing /\ b = Bucket(t)
               \/ /\ array'[b] = array[b]
                  /\ \A m \in From(heap, array[b]) :
                         heap'[m].next = heap[m].next /\ heap'[m].key = heap[m].key,
           \A u \in Threads \ {t} : HandOf(u) # Null =>
               /\ HandOf(u) # HandOf(t)'
               /\ HandOf(u) \in used' /\ heap'[HandOf(u)] = heap[HandOf(u)]
               /\ Apart(heap', array', HandOf(u))
    PROVE  Invar'
<1>1. Linked(heap) /\ used \in SUBSET Nodes
  BY Typed DEF Invar
<1>2. Linked(heap')
  BY HashTableAssumption DEF TypeOK, Linked, Pointer
<1>3. ASSUME NEW u \in Threads \ {t}
      PROVE  HandOf(u)' = HandOf(u)
  BY DEF HandOf, Others
<1>4. ASSUME NEW u \in Threads
      PROVE  /\ call'[u] \in Calls[u]
             /\ Works(heap', array', used', pc'[u], call'[u], new'[u], tmp'[u], prev'[u])
  <2>1. CASE u = t
    BY <2>1
  <2>2. CASE u # t
    <3>1. /\ pc'[u] = pc[u] /\ call'[u] = call[u]
          /\ new'[u] = new[u] /\ tmp'[u] = tmp[u] /\ prev'[u] = prev[u]
      BY <2>2 DEF Others
    <3>2. /\ call[u] \in Calls[u]
          /\ Works(heap, array, used, pc[u], call[u], new[u], tmp[u], prev[u])
      BY DEF Invar
    <3>3. Bucket(u) \in Buckets /\ Bucket(u) = Hash[call[u].key] /\ array[Bucket(u)] \in Pointer
      BY Typed DEF Invar
    <3>4. pc[u] \in Writing =>
              /\ array'[Bucket(u)] = array[Bucket(u)]
              /\ \A m \in From(heap, array[Bucket(u)]) :
                     heap'[m].next = heap[m].next /\ heap'[m].key = heap[m].key
      BY <2>2, <3>3, WritersApart
    <3> DEFINE B == Hash[call[u].key]
               H == Hand(pc[u], new[u], tmp[u])
    <3>5. /\ array[B] \in Pointer
          /\ pc[u] \in Writing =>
                /\ array'[B] = array[B]
                /\ \A m \in From(heap, array[B]) :
                       heap'[m].next = heap[m].next /\ heap'[m].key = heap[m].key
      BY <3>3, <3>4
    <3>6. H # Null => H \in used' /\ heap'[H] = heap[H] /\ Apart(heap', array', H)
      BY <2>2 DEF HandOf
    <3>7. Works(heap', array', used', pc[u], call[u], new[u], tmp[u], prev[u])
      BY <1>1, <1>2, <3>2, <3>5, <3>6, WorksKept, HashTableAssumption
    <3> QED
      BY <3>1, <3>2, <3>7
  <2> QED
    BY <2>1, <2>2
<1>5. \A u, v \in Threads : u # v => HandOf(u)' # HandOf(v)' \/ HandOf(u)' = Null
  <2> SUFFICES ASSUME NEW u \in Threads, NEW v \in Threads, u # v
               PROVE  HandOf(u)' # HandOf(v)' \/ HandOf(u)' = Null
    OBVIOUS
  <2>1. CASE u = t
    BY <1>3, <2>1
  <2>2. CASE v = t
    BY <1>3, <2>2
  <2>3. CASE u # t /\ v # t
    BY <1>3, <2>3 DEF Invar
  <2> QED
    BY <2>1, <2>2, <2>3
<1> QED
  BY <1>4, <1>5 DEF Invar

\* A step that leaves the memory and the hands alone.
LEMMA QuietStep ==
    ASSUME Invar, TypeOK', NEW owner, OneWriter(owner), NEW t \in Threads, Others(t),
           UNCHANGED memory, HandOf(t)' = HandOf(t), call'[t] \in Calls[t],
           Works(heap, array, used, pc'[t], call'[t], new'[t], tmp'[t], prev'[t])
    PROVE  Invar'
<1>1. heap' = heap /\ array' = array /\ used' = used
  BY DEF memory
<1>2. \A u \in Threads : HandOf(u)' = HandOf(u)
  BY DEF HandOf, Others
<1>3. Placed'
  BY <1>1, <1>2 DEF Invar, Placed
<1>4. \A u \in Threads \ {t} : HandOf(u) # Null =>
          /\ HandOf(u) # HandOf(t)'
          /\ HandOf(u) \in used' /\ heap'[HandOf(u)] = heap[HandOf(u)]
          /\ Apart(heap', array', HandOf(u))
  BY <1>1, Hands DEF Invar
<1>5. \A b \in Buckets : Good(heap', array'[b], b, used')
  BY <1>1 DEF Invar
<1>6. Works(heap', array', used', pc'[t], call'[t], new'[t], tmp'[t], prev'[t])
  BY <1>1
<1>7. \A b \in Buckets :
          /\ array'[b] = array[b]
          /\ \A m \in From(heap, array[b]) :
                 heap'[m].next = heap[m].next /\ heap'[m].key = heap[m].key
  BY <1>1
<1> QED
  BY <1>3, <1>4, <1>5, <1>6, <1>7, StepKeeps

\* What holds of a thread's own call.
LEMMA Mine ==
    ASSUME Invar, NEW t \in Threads
    PROVE  /\ Works(heap, array, used, pc[t], call[t], new[t], tmp[t], prev[t])
           /\ call[t] \in Calls[t] /\ Linked(heap)
           /\ Bucket(t) \in Buckets /\ Bucket(t) = Hash[call[t].key]
           /\ array[Bucket(t)] \in Pointer
           /\ Good(heap, array[Bucket(t)], Bucket(t), used)
           /\ HandOf(t) = Hand(pc[t], new[t], tmp[t])
BY Typed DEF Invar, HandOf

LEMMA GotoEffect ==
    ASSUME TypeOK, NEW t \in Threads, NEW label, Goto(t, label)
    PROVE  /\ pc'[t] = label /\ call' = call
           /\ UNCHANGED <<new, tmp, prev>> => Others(t)
           /\ UNCHANGED <<tmp, prev>> /\ (\A u \in Threads \ {t} : new'[u] = new[u]) => Others(t)
           /\ UNCHANGED <<new, prev>> /\ (\A u \in Threads \ {t} : tmp'[u] = tmp[u]) => Others(t)
BY DEF TypeOK, Goto, Others

LEMMA ReturnEffect ==
    ASSUME TypeOK, NEW t \in Threads, NEW v, Return(t, v)
    PROVE  /\ pc'[t] = "idle" /\ call' = call
           /\ new'[t] = Null /\ tmp'[t] = Null /\ prev'[t] = Null
           /\ HandOf(t)' = Null
           /\ Others(t)
BY DEF TypeOK, Return, Others, HandOf, Hand

\* A thread between calls keeps nothing.
LEMMA IdleWorks ==
    ASSUME NEW h, NEW a, NEW U, NEW c, NEW x
    PROVE  Works(h, a, U, "idle", c, Null, x, Null)
BY DEF Works, Hand, Putting

LEMMA InvokeKeeps ==
    ASSUME Invar, TypeOK', NEW owner, OneWriter(owner), NEW t \in Threads, Invoke(t)
    PROVE  Invar'
<1>1. PICK c \in Calls[t] : /\ call' = [call EXCEPT ![t] = c]
                            /\ pc' = [pc EXCEPT ![t] = IF c.op = "create" THEN "get" ELSE c.op]
  BY DEF Invoke
<1>2. c.op \in {"get", "put", "create", "delete"}
  BY HashTableAssumption DEF Call
<1>3. /\ pc[t] = "idle" /\ UNCHANGED memory
      /\ new' = new /\ tmp' = tmp /\ prev' = prev
  BY DEF Invoke
<1>4. Others(t) /\ call'[t] = c /\ pc'[t] = IF c.op = "create" THEN "get" ELSE c.op
  BY <1>1, <1>3 DEF Invar, TypeOK, Others
<1>5. new[t] = Null /\ prev[t] = Null
  BY <1>3, Mine DEF Works, Putting
<1>6. HandOf(t)' = HandOf(t)
  BY <1>2, <1>3, <1>4 DEF HandOf, Hand
<1>7. Works(heap, array, used, pc'[t], call'[t], new'[t], tmp'[t], prev'[t])
  BY <1>2, <1>3, <1>4, <1>5 DEF Works, Hand, Putting
<1> QED
  BY <1>1, <1>3, <1>4, <1>6, <1>7, QuietStep

LEMMA ReadHeadKeeps ==
    ASSUME Invar, TypeOK', NEW owner, OneWriter(owner), NEW t \in Threads, ReadHead(t)
    PROVE  Invar'
<1>1. PICK label \in {"getScan", "putScan", "deleteScan"} :
          /\ Goto(t, label)
          /\ <<pc[t], label>> \in {<<"get", "getScan">>, <<"head", "putScan">>,
                                   <<"delete", "deleteScan">>}
  BY DEF ReadHead
<1>2. /\ UNCHANGED memory /\ new' = new /\ prev' = prev
      /\ tmp' = [tmp EXCEPT ![t] = array[Bucket(t)]]
  BY DEF ReadHead
<1>3. TypeOK
  BY DEF Invar
<1>4. tmp'[t] = array[Bucket(t)] /\ \A u \in Threads \ {t} : tmp'[u] = tmp[u]
  BY <1>2, <1>3 DEF TypeOK
<1>5. Others(t) /\ pc'[t] = label /\ call' = call
  BY <1>1, <1>2, <1>3, <1>4, GotoEffect
<1>6. HandOf(t)' = HandOf(t)
  BY <1>1, <1>2, <1>5 DEF HandOf, Hand
<1> DEFINE p == array[Bucket(t)]
<1>7. Seeks(heap, p, call[t].key, p)
  BY Mine, FromClosed DEF Seeks
<1>8. Works(heap, array, used, label, call[t], new[t], p, prev[t])
  BY <1>1, <1>7, Mine DEF Works, Hand, Putting
<1> QED
  BY <1>2, <1>4, <1>5, <1>6, <1>8, Mine, QuietStep

LEMMA ScanKeeps ==
    ASSUME Invar, TypeOK', NEW owner, OneWriter(owner), NEW t \in Threads, Scan(t)
    PROVE  Invar'
<1> DEFINE p == array[Bucket(t)]
           x == tmp[t]
           y == IF pc[t] = "deleteScan" THEN x ELSE prev[t]
<1>1. pc[t] \in {"getScan", "putScan", "deleteScan"} /\ x # Null /\ heap[x].key # call[t].key
  BY DEF Scan, AtEnd, Match
<1>2. /\ UNCHANGED memory /\ pc' = pc /\ call' = call /\ new' = new
      /\ tmp' = [tmp EXCEPT ![t] = heap[x].next]
      /\ prev' = IF pc[t] = "deleteScan" THEN [prev EXCEPT ![t] = x] ELSE prev
  BY DEF Scan
<1>3. tmp'[t] = heap[x].next /\ prev'[t] = y /\ Others(t)
  BY <1>2 DEF Invar, TypeOK, Others
<1>4. HandOf(t)' = HandOf(t)
  BY <1>1, <1>2 DEF HandOf, Hand
<1>5. ASSUME pc[t] \in {"putScan", "deleteScan"}
      PROVE  Seeks(heap, p, call[t].key, heap[x].next) /\ x \in From(heap, p)
  <2>1. Seeks(heap, p, call[t].key, x)
    BY <1>5, Mine DEF Works
  <2>2. x \in From(heap, p) /\ x \in Nodes
    BY <1>1, <2>1 DEF Seeks, From
  <2>3. From(heap, x) = {x} \cup From(heap, heap[x].next)
    BY <2>2, Mine, FromNode, HashTableAssumption
  <2>4. heap[x].next \in From(heap, p) \cup {Null}
    BY <2>2, Mine, FromClosed DEF ClosedIn
  <2> QED
    BY <1>1, <2>1, <2>2, <2>3, <2>4 DEF Seeks
<1>6. Works(heap, array, used, pc[t], call[t], new[t], heap[x].next, y)
  BY <1>1, <1>5, Mine DEF Works, Hand, Putting
<1> QED
  BY <1>2, <1>3, <1>4, <1>6, Mine, QuietStep

LEMMA EndGetKeeps ==
    ASSUME Invar, TypeOK', NEW owner, OneWriter(owner), NEW t \in Threads, EndGet(t)
    PROVE  Invar'
<1>1. pc[t] = "getScan" /\ UNCHANGED memory
  BY DEF EndGet
<1>2. new[t] = Null /\ prev[t] = Null /\ HandOf(t) = Null
  BY <1>1, Mine DEF Works, Hand, Putting
<1>3. TypeOK
  BY DEF Invar
<1>4. CASE AtEnd(t) /\ call[t].op = "create"
  <2>1. Goto(t, "put") /\ UNCHANGED <<new, tmp, prev>>
    BY <1>4 DEF EndGet
  <2>2. Others(t) /\ pc'[t] = "put" /\ call' = call
    BY <1>3, <2>1, GotoEffect
  <2>3. HandOf(t)' = Null
    BY <1>2, <2>1, <2>2 DEF HandOf, Hand
  <2>4. Works(heap, array, used, "put", call[t], new[t], tmp[t], prev[t])
    BY <1>2, <1>4 DEF Works, Hand, Putting
  <2> QED
    BY <1>1, <1>2, <2>1, <2>2, <2>3, <2>4, Mine, QuietStep
<1>5. CASE ~(AtEnd(t) /\ call[t].op = "create")
  <2>1. PICK v : Return(t, v)
    BY <1>5 DEF EndGet
  <2> QED
    BY <1>1, <1>2, <1>3, <2>1, ReturnEffect, IdleWorks, Mine, QuietStep
<1> QED
  BY <1>4, <1>5

LEMMA NoMemoryKeeps ==
    ASSUME Invar, TypeOK', NEW owner, OneWriter(owner), NEW t \in Threads,
           NoMemory(t) \/ DeleteMissing(t)
    PROVE  Invar'
<1>1. pc[t] \in {"put", "deleteScan"} /\ UNCHANGED memory /\ TypeOK
  BY DEF NoMemory, DeleteMissing, Invar
<1>2. HandOf(t) = Null
  BY <1>1, Mine DEF Works, Hand, Putting
<1>3. Return(t, None)
  BY DEF NoMemory, DeleteMissing
<1> QED
  BY <1>1, <1>2, <1>3, ReturnEffect, IdleWorks, Mine, QuietStep

LEMMA TestHeadKeeps ==
    ASSUME Invar, TypeOK', NEW owner, OneWriter(owner), NEW t \in Threads, TestHead(t)
    PROVE  Invar'
<1>1. PICK label \in {"first", "head"} :
          Goto(t, label) /\ (label = "first" => array[Bucket(t)] = Null)
  BY DEF TestHead
<1>2. /\ pc[t] = "test" /\ UNCHANGED memory /\ TypeOK
      /\ new' = new /\ tmp' = tmp /\ prev' = prev
  BY DEF TestHead, Invar
<1>3. Others(t) /\ pc'[t] = label /\ call' = call
  BY <1>1, <1>2, GotoEffect
<1>4. HandOf(t)' = HandOf(t)
  BY <1>1, <1>2, <1>3 DEF HandOf, Hand
<1>5. Works(heap, array, used, label, call[t], new[t], tmp[t], prev[t])
  BY <1>1, <1>2, Mine DEF Works, Hand, Putting
<1> QED
  BY <1>2, <1>3, <1>4, <1>5, Mine, QuietStep

\* A step that keeps the keys and next fields of the nodes on chains.
LEMMA ChainsKept ==
    ASSUME Invar, TypeOK', array' = array,
           \A b \in Buckets : \A m \in From(heap, array[b]) :
               /\ m \in used'
               /\ heap'[m].next = heap[m].next /\ heap'[m].key = heap[m].key
    PROVE  \A b \in Buckets : /\ From(heap', array'[b]) = From(heap, array[b])
                              /\ Good(heap', array'[b], b, used')
<1> SUFFICES ASSUME NEW b \in Buckets
             PROVE  /\ From(heap', array[b]) = From(heap, array[b])
                    /\ Good(heap', array[b], b, used')
  OBVIOUS
<1>1. Linked(heap) /\ array[b] \in Pointer
  BY Typed DEF Invar
<1>2. Linked(heap')
  BY HashTableAssumption DEF TypeOK, Linked, Pointer
<1>3. Good(heap, array[b], b, used)
  BY DEF Invar
<1>4. From(heap, array[b]) \subseteq used'
  OBVIOUS
<1> QED
  BY <1>1, <1>2, <1>3, <1>4, GoodKept

\* The chains stay as they are.
Untouched == \A b \in Buckets :
    array'[b] = array[b] /\ \A m \in From(heap, array[b]) : heap'[m] = heap[m]

\* What the other threads have in hand stays as it is.
HandsKept(t) == \A u \in Threads \ {t} :
    HandOf(u) # Null => heap'[HandOf(u)] = heap[HandOf(u)]

LEMMA MallocKeeps ==
    ASSUME Invar, TypeOK', NEW owner, OneWriter(owner), NEW t \in Threads, Malloc(t)
    PROVE  Invar' /\ Untouched /\ HandsKept(t)
<1>1. PICK n \in Nodes \ used :
         /\ used' = used \cup {n}
         /\ heap' = [heap EXCEPT ![n].key = call[t].key, ![n].val = call[t].val]
         /\ new' = [new EXCEPT ![t] = n]
  <2>1. \E m \in Nodes \ used : TRUE
    BY DEF Invar, TypeOK, Malloc
  <2>2. (CHOOSE m \in Nodes \ used : TRUE) \in Nodes \ used
    BY <2>1
  <2> QED
    BY <2>2 DEF Malloc
<1>2. /\ pc[t] = "put" /\ Goto(t, "test") /\ TypeOK
      /\ array' = array /\ tmp' = tmp /\ prev' = prev
  BY DEF Malloc, Invar
<1>3. /\ heap'[n].key = call[t].key
      /\ \A m \in Nodes \ {n} : heap'[m] = heap[m]
  BY <1>1, <1>2 DEF TypeOK
<1>4. new'[t] = n /\ \A u \in Threads \ {t} : new'[u] = new[u]
  BY <1>1, <1>2 DEF TypeOK
<1>5. pc'[t] = "test" /\ call' = call /\ Others(t)
  BY <1>2, <1>4, GotoEffect
<1>6. \A b \in Buckets : From(heap, array[b]) \subseteq used
  BY DEF Invar, Good
<1>7. \A b \in Buckets : \A m \in From(heap, array[b]) :
          m \in used' /\ heap'[m] = heap[m]
  BY <1>1, <1>2, <1>3, <1>6 DEF TypeOK
<1>8. \A b \in Buckets : /\ From(heap', array'[b]) = From(heap, array[b])
                         /\ Good(heap', array'[b], b, used')
  BY <1>2, <1>7, ChainsKept
<1>9. HandOf(t) = Null /\ HandOf(t)' = n /\ \A u \in Threads \ {t} : HandOf(u)' = HandOf(u)
  <2>1. HandOf(t) = Null
    BY <1>2, Mine DEF Works, Hand, Putting
  <2> QED
    BY <1>4, <1>5, <2>1 DEF HandOf, Hand, Others
<1>10. Placed'
  <2> SUFFICES ASSUME NEW m \in used', \A u \in Threads : HandOf(u)' # m
               PROVE  m \in From(heap', array'[Hash[heap'[m].key]])
    BY DEF Placed
  <2>1. m \in used /\ m # n /\ m \in Nodes /\ m # Null
    BY <1>1, <1>2, <1>9, HashTableAssumption DEF TypeOK
  <2>2. \A u \in Threads : HandOf(u) # m
    BY <1>9, <2>1
  <2>3. m \in From(heap, array[Hash[heap[m].key]])
    BY <2>1, <2>2 DEF Invar, Placed
  <2>4. Hash[heap[m].key] \in Buckets
    BY <1>2, <2>1, HashTableAssumption DEF TypeOK
  <2> QED
    BY <1>3, <1>8, <2>1, <2>3, <2>4
<1>11. Apart(heap', array', n)
  BY <1>6, <1>8 DEF Apart
<1>12. Works(heap', array', used', "test", call[t], n, tmp[t], prev[t])
  <2>1. call[t].op \in {"put", "create"} /\ prev[t] = Null
    BY <1>2, Mine DEF Works, Putting
  <2> QED
    BY <1>1, <1>3, <1>11, <2>1 DEF Works, Hand, Putting
<1>13. \A u \in Threads \ {t} : HandOf(u) # Null =>
           /\ HandOf(u) # HandOf(t)'
           /\ HandOf(u) \in used' /\ heap'[HandOf(u)] = heap[HandOf(u)]
           /\ Apart(heap', array', HandOf(u))
  BY <1>1, <1>3, <1>8, <1>9, Hands DEF Apart
<1>14. \A b \in Buckets :
           /\ array'[b] = array[b]
           /\ \A m \in From(heap, array[b]) :
                  heap'[m].next = heap[m].next /\ heap'[m].key = heap[m].key
  BY <1>2, <1>7
<1>15. /\ \A b \in Buckets : Good(heap', array'[b], b, used')
       /\ call'[t] \in Calls[t]
       /\ Works(heap', array', used', pc'[t], call'[t], new'[t], tmp'[t], prev'[t])
  BY <1>2, <1>4, <1>5, <1>8, <1>12, Mine
<1> QED
  <2>1. Invar'
    BY <1>5, <1>10, <1>13, <1>14, <1>15, StepKeeps
  <2> QED
    BY <1>2, <1>7, <1>13, <2>1 DEF Untouched, HandsKept

LEMMA SetNextKeeps ==
    ASSUME Invar, TypeOK', NEW owner, OneWriter(owner), NEW t \in Threads, SetNext(t)
    PROVE  Invar' /\ Untouched /\ HandsKept(t)
<1> DEFINE n == new[t]
           p == array[Bucket(t)]
<1>1. /\ pc[t] \in {"first", "putScan"} /\ (pc[t] = "putScan" => tmp[t] = Null)
      /\ Goto(t, "link") /\ TypeOK
      /\ array' = array /\ used' = used /\ new' = new /\ tmp' = tmp /\ prev' = prev
  BY DEF SetNext, AtEnd, Invar
<1>2. HandOf(t) = n /\ n \in used /\ n \in Nodes /\ n # Null /\ Apart(heap, array, n)
  <2>1. HandOf(t) = n
    BY <1>1 DEF HandOf, Hand
  <2>2. n \in used /\ n # Null
    BY <1>1, Mine, HashTableAssumption DEF Works, Putting, TypeOK
  <2> QED
    BY <2>1, <2>2, Hands
<1>3. heap' = [heap EXCEPT ![n].next = p]
  <2>1. heap' = [heap EXCEPT ![n].next = IF pc[t] = "first" THEN Null ELSE p]
    BY DEF SetNext
  <2>2. pc[t] = "first" => p = Null
    BY Mine DEF Works
  <2> QED
    BY <2>1, <2>2
<1>4. /\ heap'[n].next = p
      /\ \A m \in Nodes : heap'[m].key = heap[m].key
      /\ \A m \in Nodes \ {n} : heap'[m] = heap[m]
  BY <1>1, <1>2, <1>3 DEF TypeOK
<1>5. pc'[t] = "link" /\ call' = call /\ Others(t)
  BY <1>1, GotoEffect
<1>6. \A b \in Buckets : From(heap, array[b]) \subseteq used /\ n \notin From(heap, array[b])
  BY <1>2 DEF Invar, Good, Apart
<1>7. \A b \in Buckets : \A m \in From(heap, array[b]) :
          m \in used' /\ heap'[m] = heap[m]
  BY <1>1, <1>4, <1>6 DEF TypeOK
<1>8. \A b \in Buckets : /\ From(heap', array'[b]) = From(heap, array[b])
                         /\ Good(heap', array'[b], b, used')
  BY <1>1, <1>7, ChainsKept
<1>9. HandOf(t)' = n /\ \A u \in Threads \ {t} : HandOf(u)' = HandOf(u)
  BY <1>1, <1>5 DEF HandOf, Hand, Others
<1>10. Placed'
  <2> SUFFICES ASSUME NEW m \in used', \A u \in Threads : HandOf(u)' # m
               PROVE  m \in From(heap', array'[Hash[heap'[m].key]])
    BY DEF Placed
  <2>1. m \in used /\ m \in Nodes /\ \A u \in Threads : HandOf(u) # m
    BY <1>1, <1>2, <1>9 DEF TypeOK
  <2>2. m \in From(heap, array[Hash[heap[m].key]])
    BY <2>1 DEF Invar, Placed
  <2>3. Hash[heap[m].key] \in Buckets
    BY <1>1, <2>1, HashTableAssumption DEF TypeOK
  <2> QED
    BY <1>4, <1>8, <2>1, <2>2, <2>3
<1>11. \A m \in From(heap, p) : heap[m].key # call[t].key
  <2>1. CASE pc[t] = "first"
    <3>1. p = Null
      BY <2>1, Mine DEF Works
    <3> QED
      BY <3>1, FromNull
  <2>2. CASE pc[t] = "putScan"
    <3>1. Seeks(heap, p, call[t].key, Null)
      BY <1>1, <2>2, Mine DEF Works
    <3> QED
      BY <3>1, FromNull DEF Seeks
  <2> QED
    BY <1>1, <2>1, <2>2
<1>12. Works(heap', array', used', "link", call[t], n, tmp[t], prev[t])
  <2>1. call[t].op \in {"put", "create"} /\ prev[t] = Null /\ heap[n].key = call[t].key
    BY <1>1, Mine DEF Works, Putting
  <2>2. From(heap', array'[Bucket(t)]) = From(heap, p) /\ From(heap, p) \subseteq Nodes
    BY <1>8, Mine, FromClosed
  <2>3. \A m \in From(heap', array'[Bucket(t)]) : heap'[m].key # call[t].key
    BY <1>4, <1>11, <2>2
  <2>4. Apart(heap', array', n)
    BY <1>2, <1>8 DEF Apart
  <2> QED
    BY <1>1, <1>2, <1>4, <2>1, <2>3, <2>4, Mine DEF Works, Hand, Putting
<1>13. \A u \in Threads \ {t} : HandOf(u) # Null =>
           /\ HandOf(u) # HandOf(t)'
           /\ HandOf(u) \in used' /\ heap'[HandOf(u)] = heap[HandOf(u)]
           /\ Apart(heap', array', HandOf(u))
  <2> SUFFICES ASSUME NEW u \in Threads \ {t}, HandOf(u) # Null
               PROVE  /\ HandOf(u) # n
                      /\ HandOf(u) \in used' /\ heap'[HandOf(u)] = heap[HandOf(u)]
                      /\ Apart(heap', array', HandOf(u))
    BY <1>9
  <2>1. HandOf(u) # n
    BY <1>2 DEF Invar
  <2> QED
    BY <1>1, <1>4, <1>8, <2>1, Hands DEF Apart
<1>14. \A b \in Buckets :
           /\ array'[b] = array[b]
           /\ \A m \in From(heap, array[b]) :
                  heap'[m].next = heap[m].next /\ heap'[m].key = heap[m].key
  BY <1>1, <1>7
<1>15. /\ \A b \in Buckets : Good(heap', array'[b], b, used')
       /\ call'[t] \in Calls[t]
       /\ Works(heap', array', used', pc'[t], call'[t], new'[t], tmp'[t], prev'[t])
  BY <1>1, <1>5, <1>8, <1>12, Mine
<1> QED
  <2>1. Invar'
    BY <1>5, <1>10, <1>13, <1>14, <1>15, StepKeeps
  <2> QED
    BY <1>1, <1>7, <1>13, <2>1 DEF Untouched, HandsKept

LEMMA LinkKeeps ==
    ASSUME Invar, TypeOK', NEW owner, OneWriter(owner), NEW t \in Threads, Link(t)
    PROVE  /\ Invar' /\ HandsKept(t)
           /\ heap' = heap /\ \A b \in Buckets \ {Bucket(t)} : array'[b] = array[b]
           /\ From(heap', array'[Bucket(t)]) = {new[t]} \cup From(heap, array[Bucket(t)])
           /\ \A m \in From(heap, array[Bucket(t)]) : heap[m].key # call[t].key
           /\ new[t] \in Nodes /\ heap[new[t]].key = call[t].key
<1> DEFINE n == new[t]
           B == Bucket(t)
           p == array[B]
<1>1. /\ pc[t] = "link" /\ array' = [array EXCEPT ![B] = n] /\ Return(t, call[t].val)
      /\ TypeOK /\ heap' = heap /\ used' = used
  BY DEF Link, Invar
<1>2. HandOf(t) = n /\ n \in used /\ n \in Nodes /\ n # Null /\ Apart(heap, array, n)
  <2>1. HandOf(t) = n
    BY <1>1 DEF HandOf, Hand
  <2>2. n \in used /\ n # Null
    BY <1>1, Mine, HashTableAssumption DEF Works, Putting, TypeOK
  <2> QED
    BY <2>1, <2>2, Hands
<1>3. /\ heap[n].key = call[t].key /\ heap[n].next = p
      /\ \A m \in From(heap, p) : heap[m].key # call[t].key
  BY <1>1, Mine DEF Works, Putting
<1>4. array'[B] = n /\ \A b \in Buckets \ {B} : array'[b] = array[b]
  BY <1>1, Mine DEF TypeOK
<1>5. From(heap, n) = {n} \cup From(heap, p) /\ Straight(heap, n)
  BY <1>2, <1>3, Mine, FromPush, HashTableAssumption DEF Apart, Good
<1>6. Good(heap, n, B, used)
  <2>1. Good(heap, p, B, used)
    BY Mine
  <2>2. Hash[heap[n].key] = B
    BY <1>3, Mine
  <2>3. \A l, m \in From(heap, n) : heap[l].key = heap[m].key => l = m
    BY <1>3, <1>5, <2>1 DEF Good
  <2> QED
    BY <1>2, <1>5, <2>1, <2>2, <2>3 DEF Good
<1>7. \A b \in Buckets : Good(heap', array'[b], b, used')
  BY <1>1, <1>4, <1>6 DEF Invar
<1>8. \A b \in Buckets : /\ From(heap, array[b]) \subseteq From(heap', array'[b])
                         /\ From(heap', array'[b]) \subseteq {n} \cup From(heap, array[b])
  BY <1>1, <1>4, <1>5
<1>9. HandOf(t)' = Null /\ Others(t) /\ \A u \in Threads \ {t} : HandOf(u)' = HandOf(u)
  BY <1>1, ReturnEffect DEF HandOf, Others
<1>10. Placed'
  <2> SUFFICES ASSUME NEW m \in used', \A u \in Threads : HandOf(u)' # m
               PROVE  m \in From(heap', array'[Hash[heap'[m].key]])
    BY DEF Placed
  <2>1. m \in used /\ m \in Nodes
    BY <1>1 DEF TypeOK
  <2>2. CASE m = n
    BY <1>1, <1>3, <1>4, <1>5, <2>2, Mine
  <2>3. CASE m # n
    <3>1. m \in From(heap, array[Hash[heap[m].key]])
      BY <1>2, <1>9, <2>1, <2>3 DEF Invar, Placed
    <3>2. Hash[heap[m].key] \in Buckets
      BY <1>1, <2>1, HashTableAssumption DEF TypeOK
    <3> QED
      BY <1>1, <1>8, <3>1, <3>2
  <2> QED
    BY <2>2, <2>3
<1>11. /\ call'[t] \in Calls[t]
       /\ Works(heap', array', used', pc'[t], call'[t], new'[t], tmp'[t], prev'[t])
  BY <1>1, ReturnEffect, IdleWorks, Mine
<1>12. \A u \in Threads \ {t} : HandOf(u) # Null =>
           /\ HandOf(u) # HandOf(t)'
           /\ HandOf(u) \in used' /\ heap'[HandOf(u)] = heap[HandOf(u)]
           /\ Apart(heap', array', HandOf(u))
  <2> SUFFICES ASSUME NEW u \in Threads \ {t}, HandOf(u) # Null
               PROVE  /\ HandOf(u) # Null
                      /\ HandOf(u) \in used' /\ heap'[HandOf(u)] = heap[HandOf(u)]
                      /\ Apart(heap', array', HandOf(u))
    BY <1>9
  <2>1. HandOf(u) # n
    BY <1>2 DEF Invar
  <2> QED
    BY <1>1, <1>8, <2>1, Hands DEF Apart
<1>13. \A b \in Buckets :
           \/ pc[t] \in Writing /\ b = Bucket(t)
           \/ /\ array'[b] = array[b]
              /\ \A m \in From(heap, array[b]) :
                     heap'[m].next = heap[m].next /\ heap'[m].key = heap[m].key
  BY <1>1, <1>4 DEF Writing, Putting
<1> QED
  <2>1. Invar'
    BY <1>7, <1>9, <1>10, <1>11, <1>12, <1>13, StepKeeps
  <2> QED
    BY <1>1, <1>2, <1>3, <1>4, <1>5, <1>12, <2>1 DEF HandsKept

\* A step that frees the node in the hand of t, and keeps the chains.
LEMMA FreeKeeps ==
    ASSUME Invar, TypeOK', NEW owner, OneWriter(owner), NEW t \in Threads,
           NEW n \in Nodes, HandOf(t) = n, used' = used \ {n}, array' = array,
           \A m \in Nodes \ {n} :
               heap'[m].next = heap[m].next /\ heap'[m].key = heap[m].key,
           \A u \in Threads \ {t} : HandOf(u) # Null => heap'[HandOf(u)] = heap[HandOf(u)],
           NEW v, Return(t, v)
    PROVE  Invar'
<1>1. TypeOK /\ n # Null
  BY HashTableAssumption DEF Invar
<1>2. Apart(heap, array, n)
  BY <1>1, Hands
<1>3. \A b \in Buckets : From(heap, array[b]) \subseteq used \ {n}
  BY <1>2 DEF Invar, Good, Apart
<1>4. \A b \in Buckets : \A m \in From(heap, array[b]) :
          m \in used' /\ heap'[m].next = heap[m].next /\ heap'[m].key = heap[m].key
  BY <1>1, <1>3 DEF TypeOK
<1>5. \A b \in Buckets : /\ From(heap', array'[b]) = From(heap, array[b])
                         /\ Good(heap', array'[b], b, used')
  BY <1>4, ChainsKept
<1>6. HandOf(t)' = Null /\ Others(t) /\ \A u \in Threads \ {t} : HandOf(u)' = HandOf(u)
  BY <1>1, ReturnEffect DEF HandOf, Others
<1>7. Placed'
  <2> SUFFICES ASSUME NEW m \in used', \A u \in Threads : HandOf(u)' # m
               PROVE  m \in From(heap', array'[Hash[heap'[m].key]])
    BY DEF Placed
  <2>1. m \in used /\ m # n /\ m \in Nodes /\ \A u \in Threads : HandOf(u) # m
    BY <1>1, <1>6 DEF TypeOK
  <2>2. m \in From(heap, array[Hash[heap[m].key]])
    BY <2>1 DEF Invar, Placed
  <2>3. Hash[heap[m].key] \in Buckets
    BY <1>1, <2>1, HashTableAssumption DEF TypeOK
  <2> QED
    BY <1>5, <2>1, <2>2, <2>3
<1>8. \A u \in Threads \ {t} : HandOf(u) # Null =>
          /\ HandOf(u) # HandOf(t)'
          /\ HandOf(u) \in used' /\ heap'[HandOf(u)] = heap[HandOf(u)]
          /\ Apart(heap', array', HandOf(u))
  <2> SUFFICES ASSUME NEW u \in Threads \ {t}, HandOf(u) # Null
               PROVE  /\ HandOf(u) # Null
                      /\ HandOf(u) \in used' /\ heap'[HandOf(u)] = heap[HandOf(u)]
                      /\ Apart(heap', array', HandOf(u))
    BY <1>6
  <2>1. HandOf(u) # n
    BY <1>1 DEF Invar
  <2> QED
    BY <1>5, <2>1, Hands DEF Apart
<1>9. /\ call'[t] \in Calls[t]
      /\ Works(heap', array', used', pc'[t], call'[t], new'[t], tmp'[t], prev'[t])
  BY <1>1, ReturnEffect, IdleWorks, Mine
<1> QED
  BY <1>4, <1>5, <1>6, <1>7, <1>8, <1>9, StepKeeps

LEMMA ReassignKeeps ==
    ASSUME Invar, TypeOK', NEW owner, OneWriter(owner), NEW t \in Threads, Reassign(t)
    PROVE  /\ Invar' /\ HandsKept(t)
           /\ tmp[t] \in From(heap, array[Bucket(t)])
           /\ \A b \in Buckets : \A m \in From(heap, array[b]) :
                  /\ heap'[m].next = heap[m].next /\ heap'[m].key = heap[m].key
                  /\ heap'[m].val = IF m = tmp[t] THEN heap[new[t]].val ELSE heap[m].val
<1> DEFINE n == new[t]
           x == tmp[t]
<1>1. /\ pc[t] = "putScan" /\ x # Null /\ Return(t, call[t].val) /\ TypeOK
      /\ heap' = [heap EXCEPT ![x].val = heap[n].val, ![n] = NoNode]
      /\ used' = used \ {n} /\ array' = array
  BY DEF Reassign, Match, Invar
<1>2. HandOf(t) = n /\ n \in used /\ n \in Nodes
  BY <1>1, Mine DEF HandOf, Hand, Works, Putting, TypeOK
<1>3. x \in From(heap, array[Bucket(t)]) /\ x \in Nodes
  <2>1. Seeks(heap, array[Bucket(t)], call[t].key, x)
    BY <1>1, Mine DEF Works
  <2> QED
    BY <1>1, <2>1 DEF Seeks, From
<1>4. /\ \A m \in Nodes \ {n} : heap'[m].next = heap[m].next /\ heap'[m].key = heap[m].key
      /\ \A m \in Nodes \ {n, x} : heap'[m] = heap[m]
  BY <1>1, <1>2, <1>3 DEF TypeOK
<1>5. \A u \in Threads \ {t} : HandOf(u) # Null => heap'[HandOf(u)] = heap[HandOf(u)]
  <2> SUFFICES ASSUME NEW u \in Threads \ {t}, HandOf(u) # Null
               PROVE  heap'[HandOf(u)] = heap[HandOf(u)]
    OBVIOUS
  <2>1. HandOf(u) # n
    BY <1>2 DEF Invar
  <2>2. HandOf(u) # x /\ HandOf(u) \in Nodes
    BY <1>3, Hands, Mine DEF Apart
  <2> QED
    BY <1>4, <2>1, <2>2
<1>6. Invar'
  BY <1>1, <1>2, <1>4, <1>5, FreeKeeps
<1>7. ASSUME NEW b \in Buckets, NEW m \in From(heap, array[b])
      PROVE  /\ heap'[m].next = heap[m].next /\ heap'[m].key = heap[m].key
             /\ heap'[m].val = IF m = x THEN heap[n].val ELSE heap[m].val
  <2>1. m \in Nodes /\ n # Null
    BY <1>2, HashTableAssumption DEF From
  <2>2. m # n
    BY <1>2, <2>1, Hands DEF Apart
  <2>3. n # x
    BY <1>2, <1>3, <2>1, Hands, Mine DEF Apart
  <2>4. heap'[x].val = heap[n].val
    BY <1>1, <1>2, <1>3, <2>3 DEF TypeOK
  <2> QED
    BY <1>4, <2>1, <2>2, <2>4
<1> QED
  BY <1>3, <1>5, <1>6, <1>7 DEF HandsKept

LEMMA FreeNodeKeeps ==
    ASSUME Invar, TypeOK', NEW owner, OneWriter(owner), NEW t \in Threads, FreeNode(t)
    PROVE  Invar' /\ Untouched /\ HandsKept(t)
<1> DEFINE n == tmp[t]
<1>1. /\ pc[t] = "free" /\ Return(t, res[t]) /\ TypeOK
      /\ heap' = [heap EXCEPT ![n] = NoNode] /\ used' = used \ {n} /\ array' = array
  BY DEF FreeNode, Invar
<1>2. HandOf(t) = n /\ n \in Nodes
  BY <1>1, Mine DEF HandOf, Hand, Works, TypeOK
<1>3. \A m \in Nodes \ {n} : heap'[m] = heap[m]
  BY <1>1, <1>2 DEF TypeOK
<1>4. \A u \in Threads \ {t} : HandOf(u) # Null => heap'[HandOf(u)] = heap[HandOf(u)]
  BY <1>2, <1>3, Hands DEF Invar
<1>5. Untouched
  <2>1. Apart(heap, array, n) /\ \A b \in Buckets : From(heap, array[b]) \subseteq Nodes
    BY <1>2, Hands, HashTableAssumption DEF From
  <2> QED
    BY <1>1, <1>3, <2>1 DEF Untouched, Apart
<1>6. Invar'
  BY <1>1, <1>2, <1>3, <1>4, FreeKeeps
<1> QED
  BY <1>4, <1>5, <1>6 DEF HandsKept

LEMMA UnlinkKeeps ==
    ASSUME Invar, TypeOK', NEW owner, OneWriter(owner), NEW t \in Threads, Unlink(t)
    PROVE  /\ Invar' /\ HandsKept(t)
           /\ tmp[t] \in From(heap, array[Bucket(t)])
           /\ \A b \in Buckets : From(heap', array'[b]) = From(heap, array[b]) \ {tmp[t]}
           /\ \A b \in Buckets \ {Bucket(t)} :
                  /\ array'[b] = array[b]
                  /\ \A m \in From(heap, array[b]) : heap'[m] = heap[m]
           /\ \A m \in Nodes : heap'[m].key = heap[m].key /\ heap'[m].val = heap[m].val
<1> DEFINE x == tmp[t]
           y == prev[t]
           B == Bucket(t)
           p == array[B]
<1>1. /\ pc[t] = "deleteScan" /\ pc' = [pc EXCEPT ![t] = "free"] /\ x # Null
      /\ used' = used /\ call' = call /\ new' = new /\ tmp' = tmp /\ prev' = prev
      /\ TypeOK
  BY DEF Unlink, Match, Invar
<1>2. pc'[t] = "free" /\ Others(t)
  BY <1>1 DEF TypeOK, Others
<1>3. x \in From(heap, p) /\ x \in Nodes /\ x \in used
  <2>1. Seeks(heap, p, call[t].key, x)
    BY <1>1, Mine DEF Works
  <2> QED
    BY <1>1, <2>1, Mine DEF Seeks, From, Good
<1>4. new[t] = Null /\ call[t].op = "delete" /\ HandOf(t) = Null
  BY <1>1, Mine DEF Works, Hand, Putting
<1>5. /\ Linked(heap') /\ Linked(heap) /\ p \in Pointer
      /\ Good(heap, p, B, used)
  BY Mine, HashTableAssumption DEF TypeOK, Linked, Pointer
<1>6. /\ \A m \in Nodes : heap'[m].key = heap[m].key /\ heap'[m].val = heap[m].val
      /\ \A b \in Buckets \ {B} :
             /\ array'[b] = array[b]
             /\ \A m \in From(heap, array[b]) : heap'[m] = heap[m]
      /\ \A u \in Threads \ {t} : HandOf(u) # Null => heap'[HandOf(u)] = heap[HandOf(u)]
      /\ From(heap', array'[B]) = From(heap, p) \ {x}
      /\ Straight(heap', array'[B])
  <2>1. CASE y = Null
    <3>1. array' = [array EXCEPT ![B] = heap[x].next] /\ heap' = heap
      BY <2>1 DEF Unlink
    <3>2. p = x
      BY <1>1, <2>1, Mine DEF Works
    <3>3. /\ From(heap, heap[p].next) = From(heap, p) \ {p}
          /\ Straight(heap, heap[p].next)
      BY <1>3, <1>5, <3>2, FromPop, HashTableAssumption DEF Good
    <3>4. array'[B] = heap[p].next /\ \A b \in Buckets \ {B} : array'[b] = array[b]
      BY <1>1, <3>1, <3>2, Mine DEF TypeOK
    <3> QED
      BY <3>1, <3>2, <3>3, <3>4
  <2>2. CASE y # Null
    <3>1. heap' = [heap EXCEPT ![y].next = heap[x].next] /\ array' = array
      BY <2>2 DEF Unlink
    <3>2. y \in From(heap, p) /\ heap[y].next = x
      BY <1>1, <2>2, Mine DEF Works
    <3>3. y \in Nodes
      BY <3>2 DEF From
    <3>4. /\ heap'[y].next = heap[x].next
          /\ \A m \in Nodes : heap'[m].key = heap[m].key /\ heap'[m].val = heap[m].val
          /\ \A m \in Nodes \ {y} : heap'[m] = heap[m]
      BY <1>1, <3>1, <3>3 DEF TypeOK
    <3>5. \A m \in From(heap, p) \ {y} : heap'[m].next = heap[m].next
      BY <3>4 DEF From
    <3>6. Straight(heap, p)
      BY <1>5 DEF Good
    <3>7. From(heap', p) = From(heap, p) \ {x} /\ Straight(heap', p)
      BY <1>3, <1>5, <3>2, <3>4, <3>5, <3>6, FromCut, HashTableAssumption
    <3>8. ASSUME NEW b \in Buckets \ {B}, NEW m \in From(heap, array[b])
          PROVE  heap'[m] = heap[m]
      <4>1. Good(heap, array[b], b, used)
        BY DEF Invar
      <4>2. m # y
        BY <1>5, <3>2, <4>1 DEF Good
      <4>3. m \in Nodes
        BY DEF From
      <4> QED
        BY <3>4, <4>2, <4>3
    <3>9. ASSUME NEW u \in Threads \ {t}, HandOf(u) # Null
          PROVE  heap'[HandOf(u)] = heap[HandOf(u)]
      <4>1. HandOf(u) \in Nodes /\ HandOf(u) # y
        BY <3>2, <3>9, Hands, Mine DEF Apart
      <4> QED
        BY <3>4, <4>1
    <3> QED
      BY <3>1, <3>4, <3>7, <3>8, <3>9
  <2> QED
    BY <2>1, <2>2
<1>7. \A b \in Buckets :
          /\ From(heap', array'[b]) = From(heap, array[b]) \ {x}
          /\ Good(heap', array'[b], b, used')
  <2> SUFFICES ASSUME NEW b \in Buckets
               PROVE  /\ From(heap', array'[b]) = From(heap, array[b]) \ {x}
                      /\ Good(heap', array'[b], b, used')
    OBVIOUS
  <2>1. CASE b = B
    <3>1. From(heap, p) \subseteq Nodes
      BY DEF From
    <3> QED
      BY <1>1, <1>5, <1>6, <2>1, <3>1 DEF Good
  <2>2. CASE b # B
    <3>1. Good(heap, array[b], b, used) /\ array[b] \in Pointer
      BY Typed DEF Invar
    <3>2. From(heap, array[b]) \subseteq used'
      BY <1>1, <3>1 DEF Good
    <3>3. \A m \in From(heap, array[b]) :
              heap'[m].next = heap[m].next /\ heap'[m].key = heap[m].key
      BY <1>6, <2>2
    <3>4. /\ From(heap', array[b]) = From(heap, array[b])
          /\ Good(heap', array[b], b, used')
      BY <1>5, <3>1, <3>2, <3>3, GoodKept
    <3>5. x \notin From(heap, array[b])
      BY <1>3, <1>5, <2>2, <3>1 DEF Good
    <3> QED
      BY <1>6, <2>2, <3>4, <3>5
  <2> QED
    BY <2>1, <2>2
<1>8. HandOf(t)' = x /\ \A u \in Threads \ {t} : HandOf(u)' = HandOf(u)
  BY <1>1, <1>2 DEF HandOf, Hand, Others
<1>9. Placed'
  <2> SUFFICES ASSUME NEW m \in used', \A u \in Threads : HandOf(u)' # m
               PROVE  m \in From(heap', array'[Hash[heap'[m].key]])
    BY DEF Placed
  <2>1. m \in used /\ m \in Nodes /\ m # x /\ m # Null
    BY <1>1, <1>8, HashTableAssumption DEF TypeOK
  <2>2. \A u \in Threads : HandOf(u) # m
    BY <1>4, <1>8, <2>1
  <2>3. m \in From(heap, array[Hash[heap[m].key]])
    BY <2>1, <2>2 DEF Invar, Placed
  <2>4. Hash[heap[m].key] \in Buckets
    BY <1>1, <2>1, HashTableAssumption DEF TypeOK
  <2> QED
    BY <1>6, <1>7, <2>1, <2>3, <2>4
<1>10. Works(heap', array', used', "free", call[t], Null, x, y)
  BY <1>1, <1>3, <1>4, <1>7 DEF Works, Hand, Putting, Apart
<1>11. \A u \in Threads \ {t} : HandOf(u) # Null =>
           /\ HandOf(u) # HandOf(t)'
           /\ HandOf(u) \in used' /\ heap'[HandOf(u)] = heap[HandOf(u)]
           /\ Apart(heap', array', HandOf(u))
  <2> SUFFICES ASSUME NEW u \in Threads \ {t}, HandOf(u) # Null
               PROVE  /\ HandOf(u) # x
                      /\ HandOf(u) \in used' /\ heap'[HandOf(u)] = heap[HandOf(u)]
                      /\ Apart(heap', array', HandOf(u))
    BY <1>8
  <2>1. HandOf(u) # x
    BY <1>3, Hands, Mine DEF Apart
  <2> QED
    BY <1>1, <1>6, <1>7, <2>1, Hands DEF Apart
<1>12. \A b \in Buckets :
           \/ pc[t] \in Writing /\ b = Bucket(t)
           \/ /\ array'[b] = array[b]
              /\ \A m \in From(heap, array[b]) :
                     heap'[m].next = heap[m].next /\ heap'[m].key = heap[m].key
  BY <1>1, <1>6 DEF Writing
<1>13. /\ \A b \in Buckets : Good(heap', array'[b], b, used')
       /\ call'[t] \in Calls[t]
       /\ Works(heap', array', used', pc'[t], call'[t], new'[t], tmp'[t], prev'[t])
  BY <1>1, <1>2, <1>4, <1>7, <1>10, Mine
<1> QED
  <2>1. Invar'
    BY <1>2, <1>9, <1>11, <1>12, <1>13, StepKeeps
  <2> QED
    BY <1>3, <1>6, <1>7, <1>11, <2>1 DEF HandsKept

-----------------------------------------------------------------------------

LEMMA InvarInit ==
    ASSUME Init, TypeOK
    PROVE  Invar
<1>1. used = {} /\ \A b \in Buckets : array[b] = Null
  BY DEF Init
<1>2. ASSUME NEW b \in Buckets
      PROVE  From(heap, array[b]) = {} /\ Good(heap, array[b], b, used)
  <2>1. From(heap, array[b]) = {}
    BY <1>1, FromNull
  <2> QED
    BY <2>1 DEF Good, Straight
<1>3. ASSUME NEW t \in Threads
      PROVE  /\ call[t] \in Calls[t] /\ HandOf(t) = Null
             /\ Works(heap, array, used, pc[t], call[t], new[t], tmp[t], prev[t])
  <2>1. \E c \in Calls[t] : TRUE
    BY HashTableAssumption
  <2>2. (CHOOSE c \in Calls[t] : TRUE) \in Calls[t]
    BY <2>1
  <2>3. pc[t] = "idle" /\ new[t] = Null /\ prev[t] = Null /\ call[t] \in Calls[t]
    BY <2>2 DEF Init
  <2> QED
    BY <2>3, IdleWorks DEF HandOf, Hand
<1> QED
  BY <1>1, <1>2, <1>3 DEF Invar, Placed

LEMMA InvarKept ==
    ASSUME Invar, TypeOK', NEW owner, OneWriter(owner), [Next]_vars
    PROVE  Invar'
<1>1. CASE UNCHANGED vars
  BY <1>1 DEF Invar, TypeOK, Placed, HandOf, vars, memory
<1>2. CASE Next
  <2>1. PICK t \in Threads : Invoke(t) \/ Step(t)
    BY <1>2 DEF Next
  <2>2. CASE Invoke(t)
    BY <2>2, InvokeKeeps
  <2>3. CASE ReadHead(t)
    BY <2>3, ReadHeadKeeps
  <2>4. CASE Scan(t)
    BY <2>4, ScanKeeps
  <2>5. CASE EndGet(t)
    BY <2>5, EndGetKeeps
  <2>6. CASE Malloc(t)
    BY <2>6, MallocKeeps
  <2>7. CASE NoMemory(t) \/ DeleteMissing(t)
    BY <2>7, NoMemoryKeeps
  <2>8. CASE TestHead(t)
    BY <2>8, TestHeadKeeps
  <2>9. CASE SetNext(t)
    BY <2>9, SetNextKeeps
  <2>10. CASE Link(t)
    BY <2>10, LinkKeeps
  <2>11. CASE Reassign(t)
    BY <2>11, ReassignKeeps
  <2>12. CASE Unlink(t)
    BY <2>12, UnlinkKeeps
  <2>13. CASE FreeNode(t)
    BY <2>13, FreeNodeKeeps
  <2> QED
    BY <2>1, <2>2, <2>3, <2>4, <2>5, <2>6, <2>7, <2>8, <2>9, <2>10, <2>11, <2>12, <2>13
    DEF Step
<1> QED
  BY <1>1, <1>2

LEMMA InvarHolds ==
    ASSUME NEW owner, OneWriter(owner)
    PROVE  Spec => []Invar
<1>1. Init /\ TypeOK => Invar
  BY InvarInit
<1>2. Invar /\ TypeOK' /\ [Next]_vars => Invar'
  BY InvarKept
<1> QED
  BY <1>1, <1>2, TypeCorrect, PTL DEF Spec

\* With one writer per bucket no chain has two nodes of one key, whatever other
\* threads read meanwhile (hts_put and htsg_put link a node only after the loop
\* has not met its key).
THEOREM OneWriterKeepsKeysUnique ==
    ASSUME NEW owner, OneWriter(owner)
    PROVE  Spec => []KeysUnique
<1>1. Invar => KeysUnique
  BY ChainIsFrom DEF Invar, Good, KeysUnique, Chain
<1> QED
  BY <1>1, InvarHolds, PTL

\* With one writer per bucket each node in use is on the chain of its key and on
\* no other, but for the one a thread is linking or freeing: neither an insertion
\* nor a deletion loses a node of the chain.
THEOREM OneWriterLosesNoNode ==
    ASSUME NEW owner, OneWriter(owner)
    PROVE  Spec => []NodesPlaced
<1>1. ASSUME Invar PROVE NodesPlaced
  <2> SUFFICES ASSUME NEW n \in used \ InHand
               PROVE  {b \in Buckets : n \in Chain(b)} = {Hash[heap[n].key]}
    BY DEF NodesPlaced
  <2>1. \A t \in Threads : HandOf(t) # n
    BY DEF InHand, HandOf, Hand
  <2>2. n \in From(heap, array[Hash[heap[n].key]])
    BY <1>1, <2>1 DEF Invar, Placed
  <2>3. Hash[heap[n].key] \in Buckets
    BY <1>1, HashTableAssumption DEF Invar, TypeOK
  <2>4. \A b \in Buckets : n \in From(heap, array[b]) => Hash[heap[n].key] = b
    BY <1>1 DEF Invar, Good
  <2>5. \A b \in Buckets : Chain(b) = From(heap, array[b])
    BY ChainIsFrom DEF Chain
  <2> QED
    BY <2>2, <2>3, <2>4, <2>5
<1> QED
  BY <1>1, InvarHolds, PTL

-----------------------------------------------------------------------------
(* What a search finds                                                     *)

Hits(h, n, k) == {m \in From(h, n) : h[m].key = k}

FoundIn(h, n, k) == IF Hits(h, n, k) = {} THEN None
                    ELSE h[CHOOSE m \in Hits(h, n, k) : TRUE].val

LEMMA FoundIs == \A n, k : Found(n, k) = FoundIn(heap, n, k)
<1> SUFFICES ASSUME NEW n, NEW k PROVE Found(n, k) = FoundIn(heap, n, k)
  OBVIOUS
<1> DEFINE S == {m \in ChainFrom(n) : heap[m].key = k}
<1>1. S = Hits(heap, n, k)
  BY ChainIsFrom DEF Hits
<1>2. Found(n, k) = IF S = {} THEN None ELSE heap[CHOOSE m \in S : TRUE].val
  BY DEF Found
<1> HIDE DEF S
<1> QED
  BY <1>1, <1>2 DEF FoundIn

LEMMA FoundHits ==
    ASSUME NEW h, NEW g, NEW n, NEW l, NEW k, Hits(g, l, k) = Hits(h, n, k),
           \A m \in Hits(h, n, k) : g[m].val = h[m].val
    PROVE  FoundIn(g, l, k) = FoundIn(h, n, k)
<1>1. CASE Hits(h, n, k) = {}
  BY <1>1 DEF FoundIn
<1>2. CASE Hits(h, n, k) # {}
  <2>1. (CHOOSE m \in Hits(h, n, k) : TRUE) \in Hits(h, n, k)
    BY <1>2
  <2> QED
    BY <1>2, <2>1 DEF FoundIn
<1> QED
  BY <1>1, <1>2

LEMMA FoundMiss ==
    ASSUME NEW h, NEW n, NEW k, \A m \in From(h, n) : h[m].key # k
    PROVE  FoundIn(h, n, k) = None
BY DEF FoundIn, Hits

LEMMA FoundHit ==
    ASSUME NEW h, NEW n, NEW k, NEW m \in From(h, n), h[m].key = k,
           \A l \in From(h, n) : h[l].key = k => l = m
    PROVE  FoundIn(h, n, k) = h[m].val
<1>1. Hits(h, n, k) = {m}
  BY DEF Hits
<1> QED
  BY <1>1 DEF FoundIn

\* A search that is under way finds the same when its chain stays.
LEMMA SearchSame ==
    ASSUME NEW h, Linked(h), NEW g, Linked(g), NEW a \in Pointer,
           \A m \in From(h, a) : g[m] = h[m],
           NEW x \in From(h, a) \cup {Null}
    PROVE  From(g, x) = From(h, x) /\ \A k : FoundIn(g, x, k) = FoundIn(h, x, k)
<1>1. x \in Pointer /\ From(h, x) \subseteq From(h, a)
  BY FromLater
<1>2. \A m \in From(h, x) : g[m] = h[m]
  BY <1>1
<1>3. From(g, x) = From(h, x)
  BY <1>1, <1>2, FromSame
<1>4. ASSUME NEW k PROVE FoundIn(g, x, k) = FoundIn(h, x, k)
  <2>1. Hits(g, x, k) = Hits(h, x, k)
    BY <1>2, <1>3 DEF Hits
  <2>2. \A m \in Hits(h, x, k) : g[m].val = h[m].val
    BY <1>2 DEF Hits
  <2> QED
    BY <2>1, <2>2, FoundHits
<1> QED
  BY <1>3, <1>4

-----------------------------------------------------------------------------
(* The table is a dictionary                                               *)

\* A thread that gets in a bucket of another meets there only creates.
ReadersSeeGrowth(owner) ==
    \A t \in Threads : \A c \in Calls[t] : owner[Hash[c.key]] # t =>
        \A d \in Calls[owner[Hash[c.key]]] :
            Hash[d.key] = Hash[c.key] => d.op \in {"get", "create"}

\* The search of a thread has found its answer.
Scans(h, at, c, x) == at = "getScan" /\ (c.op = "create" => FoundIn(h, x, c.key) # None)

Pends(h, at, c, x) == at \notin {"idle", "free"} /\ ~Scans(h, at, c, x)

Told(h, at, c, x, r) == IF Scans(h, at, c, x) THEN FoundIn(h, x, c.key) ELSE r

View ==
    /\ Contents = [k \in Keys |-> FoundIn(heap, array[Hash[k]], k)]
    /\ Pending = {t \in Threads : Pends(heap, pc[t], call[t], tmp[t])}
    /\ Answers = [t \in Threads |-> Told(heap, pc[t], call[t], tmp[t], res[t])]

LEMMA TableView == View /\ View'
<1>1. View
  <2>1. Contents = [k \in Keys |-> FoundIn(heap, array[Hash[k]], k)]
    BY FoundIs DEF Contents
  <2>2. \A t : Scanned(t) <=> Scans(heap, pc[t], call[t], tmp[t])
    BY FoundIs DEF Scanned, Scans
  <2>3. Pending = {t \in Threads : Pends(heap, pc[t], call[t], tmp[t])}
    BY <2>2 DEF Pending, Pends
  <2>4. Answers = [t \in Threads |-> Told(heap, pc[t], call[t], tmp[t], res[t])]
    BY <2>2, FoundIs DEF Answers, Told
  <2> QED
    BY <2>1, <2>3, <2>4 DEF View
<1>2. View'
  BY <1>1, PTL
<1> QED
  BY <1>1, <1>2

\* A get is on its chain; a create that puts has not found its key; what is
\* put has the value of the call.
Reads(h, a, at, c, n, x) ==
    /\ at \in {"get", "getScan"} => c.op \in {"get", "create"}
    /\ at = "getScan" => /\ x \in From(h, a[Hash[c.key]]) \cup {Null}
                         /\ c.op = "create" => Seeks(h, a[Hash[c.key]], c.key, x)
    /\ at \in Putting \cup {"put"} /\ c.op = "create" =>
           \A m \in From(h, a[Hash[c.key]]) : h[m].key # c.key
    /\ at \in Putting => h[n].val = c.val

DictInv ==
    /\ \A b \in Buckets : \A m \in From(heap, array[b]) : heap[m].val \in Values
    /\ \A t \in Threads : Reads(heap, array, pc[t], call[t], new[t], tmp[t])

\* What a step of t may do to a bucket.
Spares(t) ==
    \A b \in Buckets :
        \/ array'[b] = array[b] /\ \A m \in From(heap, array[b]) : heap'[m] = heap[m]
        \/ /\ pc[t] \in Writing /\ b = Bucket(t)
           /\ call[t].op = "create" =>
                  \A m \in From(heap, array[b]) :
                      m \in From(heap', array'[b]) /\ heap'[m] = heap[m]

\* The other threads see nothing of a step that spares their buckets.
LEMMA OthersRead ==
    ASSUME Invar, DictInv, TypeOK', NEW owner, OneWriter(owner), ReadersSeeGrowth(owner),
           NEW t \in Threads, Others(t), HandsKept(t), Spares(t), NEW u \in Threads \ {t}
    PROVE  /\ Reads(heap', array', pc'[u], call'[u], new'[u], tmp'[u])
           /\ Scans(heap', pc'[u], call'[u], tmp'[u]) <=> Scans(heap, pc[u], call[u], tmp[u])
           /\ pc[u] = "getScan" =>
                  FoundIn(heap', tmp[u], call[u].key) = FoundIn(heap, tmp[u], call[u].key)
<1> DEFINE B == Hash[call[u].key]
           p == array[B]
           q == array'[B]
           x == tmp[u]
<1>1. /\ pc'[u] = pc[u] /\ call'[u] = call[u] /\ new'[u] = new[u] /\ tmp'[u] = tmp[u]
      /\ Reads(heap, array, pc[u], call[u], new[u], x)
  BY DEF Others, DictInv
<1>2. /\ Works(heap, array, used, pc[u], call[u], new[u], x, prev[u])
      /\ Linked(heap) /\ p \in Pointer /\ B \in Buckets /\ Bucket(u) = B
      /\ call[u] \in Calls[u]
  BY Mine
<1>3. Linked(heap')
  BY HashTableAssumption DEF TypeOK, Linked, Pointer
<1>4. pc[u] \in Putting => heap'[new[u]].val = call[u].val
  <2> SUFFICES ASSUME pc[u] \in Putting PROVE heap'[new[u]].val = call[u].val
    OBVIOUS
  <2>1. HandOf(u) = new[u] /\ new[u] # Null
    BY <1>2, HashTableAssumption DEF HandOf, Hand, Putting, Works, Invar, TypeOK
  <2>2. heap'[new[u]] = heap[new[u]]
    BY <2>1 DEF HandsKept
  <2> QED
    BY <1>1, <2>2 DEF Reads
<1>5. pc[u] = "getScan" => x \in From(heap, p) \cup {Null}
  BY <1>1 DEF Reads
<1>6. CASE q = p /\ \A m \in From(heap, p) : heap'[m] = heap[m]
  <2>1. From(heap', q) = From(heap, p)
    BY <1>2, <1>3, <1>6, FromSame
  <2>2. pc[u] = "getScan" => /\ From(heap', x) = From(heap, x)
                             /\ FoundIn(heap', x, call[u].key) = FoundIn(heap, x, call[u].key)
    BY <1>2, <1>3, <1>5, <1>6, SearchSame
  <2>3. Reads(heap', array', pc[u], call[u], new[u], x)
    <3>1. pc[u] = "getScan" =>
              /\ x \in From(heap', q) \cup {Null}
              /\ call[u].op = "create" => Seeks(heap', q, call[u].key, x)
      BY <1>1, <1>6, <2>1, <2>2 DEF Reads, Seeks
    <3>2. pc[u] \in Putting \cup {"put"} /\ call[u].op = "create" =>
              \A m \in From(heap', q) : heap'[m].key # call[u].key
      BY <1>1, <1>6, <2>1 DEF Reads
    <3> QED
      BY <1>1, <1>4, <3>1, <3>2 DEF Reads
  <2>4. Scans(heap', pc[u], call[u], x) <=> Scans(heap, pc[u], call[u], x)
    BY <2>2 DEF Scans
  <2> QED
    BY <1>1, <2>2, <2>3, <2>4
<1>7. CASE /\ pc[t] \in Writing /\ B = Bucket(t)
           /\ call[t].op = "create" =>
                  \A m \in From(heap, p) : m \in From(heap', q) /\ heap'[m] = heap[m]
  <2>1. pc[u] \notin Writing
    BY <1>2, <1>7, WritersApart
  <2>2. owner[B] = t /\ call[t].op # "get" /\ call[t] \in Calls[t] /\ Hash[call[t].key] = B
    <3>1. Works(heap, array, used, pc[t], call[t], new[t], tmp[t], prev[t])
      BY Mine
    <3>2. call[t].op # "get"
      BY <1>7, <3>1 DEF Works, Writing
    <3>3. call[t] \in Calls[t] /\ Hash[call[t].key] = B
      BY <1>7, Mine
    <3> QED
      BY <3>2, <3>3 DEF OneWriter
  <2>3. pc[u] = "getScan" => call[u].op = "get" /\ call[t].op = "create"
    BY <1>1, <1>2, <2>2 DEF Reads, OneWriter, ReadersSeeGrowth
  <2>4. pc[u] = "getScan" =>
            /\ x \in From(heap', q) \cup {Null}
            /\ FoundIn(heap', x, call[u].key) = FoundIn(heap, x, call[u].key)
    BY <1>2, <1>3, <1>5, <1>7, <2>3, SearchSame
  <2>5. Reads(heap', array', pc[u], call[u], new[u], x)
    BY <1>1, <2>1, <2>3, <2>4 DEF Reads, Writing
  <2> QED
    BY <1>1, <2>4, <2>5 DEF Scans
<1>8. \/ q = p /\ \A m \in From(heap, p) : heap'[m] = heap[m]
      \/ /\ pc[t] \in Writing /\ B = Bucket(t)
         /\ call[t].op = "create" =>
                \A m \in From(heap, p) : m \in From(heap', q) /\ heap'[m] = heap[m]
  BY <1>2 DEF Spares
<1> QED
  BY <1>6, <1>7, <1>8

\* A step of t seen in the dictionary: only t and its bucket may change.
LEMMA StepSeen ==
    ASSUME Invar, DictInv, TypeOK', NEW owner, OneWriter(owner), ReadersSeeGrowth(owner),
           NEW t \in Threads, Others(t), HandsKept(t), Spares(t),
           \A u \in Threads \ {t} : res'[u] = res[u],
           \A b \in Buckets : \A m \in From(heap', array'[b]) : heap'[m].val \in Values,
           Reads(heap', array', pc'[t], call'[t], new'[t], tmp'[t])
    PROVE  /\ DictInv'
           /\ Pending' = (Pending \ {t}) \cup
                         {u \in {t} : Pends(heap', pc'[t], call'[t], tmp'[t])}
           /\ Answers' = [Answers EXCEPT ![t] =
                              Told(heap', pc'[t], call'[t], tmp'[t], res'[t])]
<1>1. DictInv'
  BY OthersRead DEF DictInv
<1>2. ASSUME NEW u \in Threads \ {t}
      PROVE  /\ Pends(heap', pc'[u], call'[u], tmp'[u]) <=> Pends(heap, pc[u], call[u], tmp[u])
             /\ Told(heap', pc'[u], call'[u], tmp'[u], res'[u])
                    = Told(heap, pc[u], call[u], tmp[u], res[u])
  <2>1. /\ Scans(heap', pc'[u], call'[u], tmp'[u]) <=> Scans(heap, pc[u], call[u], tmp[u])
        /\ pc[u] = "getScan" =>
               FoundIn(heap', tmp[u], call[u].key) = FoundIn(heap, tmp[u], call[u].key)
    BY OthersRead
  <2>2. pc'[u] = pc[u] /\ call'[u] = call[u] /\ tmp'[u] = tmp[u]
    BY DEF Others
  <2>3. Scans(heap, pc[u], call[u], tmp[u]) => pc[u] = "getScan"
    BY DEF Scans
  <2> QED
    BY <2>1, <2>2, <2>3 DEF Pends, Told
<1>3. Pending' = (Pending \ {t}) \cup {u \in {t} : Pends(heap', pc'[t], call'[t], tmp'[t])}
  BY <1>2, TableView DEF View
<1>4. Answers' = [Answers EXCEPT ![t] = Told(heap', pc'[t], call'[t], tmp'[t], res'[t])]
  BY <1>2, TableView DEF View
<1> QED
  BY <1>1, <1>3, <1>4

\* Where the chains stay the dictionary does.
LEMMA ContentsSame ==
    ASSUME Invar, TypeOK', NEW b \in Buckets, array'[b] = array[b],
           \A m \in From(heap, array[b]) : heap'[m] = heap[m]
    PROVE  /\ From(heap', array'[b]) = From(heap, array[b])
           /\ \A k \in Keys : Hash[k] = b => Contents'[k] = Contents[k]
<1>1. Linked(heap) /\ array[b] \in Pointer
  BY Typed DEF Invar
<1>2. Linked(heap')
  BY HashTableAssumption DEF TypeOK, Linked, Pointer
<1>3. From(heap', array'[b]) = From(heap, array[b])
  BY <1>1, <1>2, FromSame
<1>4. \A k \in Keys : Hits(heap', array'[b], k) = Hits(heap, array[b], k)
  BY <1>3 DEF Hits
<1>5. \A k \in Keys : \A m \in Hits(heap, array[b], k) : heap'[m].val = heap[m].val
  BY DEF Hits
<1>6. \A k \in Keys : FoundIn(heap', array'[b], k) = FoundIn(heap, array[b], k)
  BY <1>4, <1>5, FoundHits
<1> QED
  BY <1>3, <1>6, TableView DEF View

LEMMA UntouchedContents ==
    ASSUME Invar, DictInv, TypeOK', Untouched
    PROVE  /\ Contents' = Contents
           /\ \A b \in Buckets : From(heap', array'[b]) = From(heap, array[b])
           /\ \A b \in Buckets : \A m \in From(heap', array'[b]) : heap'[m].val \in Values
<1>1. \A b \in Buckets :
          /\ From(heap', array'[b]) = From(heap, array[b])
          /\ \A k \in Keys : Hash[k] = b => Contents'[k] = Contents[k]
  BY ContentsSame DEF Untouched
<1>2. \A k \in Keys : Contents'[k] = Contents[k]
  BY <1>1, HashTableAssumption
<1>3. Contents' = Contents
  BY <1>2, TableView DEF View
<1> QED
  BY <1>1, <1>3 DEF DictInv, Untouched

Ready(owner) == Invar /\ DictInv /\ OneWriter(owner) /\ ReadersSeeGrowth(owner)

\* A step that leaves the chains alone.
LEMMA UntouchedSeen ==
    ASSUME NEW owner, Ready(owner), TypeOK', NEW t \in Threads,
           Others(t), HandsKept(t), Untouched,
           \A u \in Threads \ {t} : res'[u] = res[u],
           Reads(heap', array', pc'[t], call'[t], new'[t], tmp'[t])
    PROVE  /\ DictInv' /\ Contents' = Contents
           /\ Pending' = (Pending \ {t}) \cup
                         {u \in {t} : Pends(heap', pc'[t], call'[t], tmp'[t])}
           /\ Answers' = [Answers EXCEPT ![t] =
                              Told(heap', pc'[t], call'[t], tmp'[t], res'[t])]
<1>1. Spares(t)
  BY DEF Spares, Untouched
<1> QED
  BY <1>1, UntouchedContents, StepSeen DEF Ready

\* One that the thread does not see either.
LEMMA Unseen ==
    ASSUME NEW owner, Ready(owner), TypeOK', NEW t \in Threads,
           Others(t), HandsKept(t), Untouched, call' = call,
           \A u \in Threads \ {t} : res'[u] = res[u],
           Reads(heap', array', pc'[t], call'[t], new'[t], tmp'[t]),
           Pends(heap', pc'[t], call'[t], tmp'[t]) <=> Pends(heap, pc[t], call[t], tmp[t]),
           Told(heap', pc'[t], call'[t], tmp'[t], res'[t])
               = Told(heap, pc[t], call[t], tmp[t], res[t])
    PROVE  DictInv' /\ UNCHANGED Dict!dictVars
<1>1. /\ DictInv' /\ Contents' = Contents
      /\ Pending' = (Pending \ {t}) \cup
                    {u \in {t} : Pends(heap', pc'[t], call'[t], tmp'[t])}
      /\ Answers' = [Answers EXCEPT ![t] =
                         Told(heap', pc'[t], call'[t], tmp'[t], res'[t])]
  BY UntouchedSeen
<1>2. t \in Pending <=> Pends(heap, pc[t], call[t], tmp[t])
  BY TableView DEF View
<1>3. Pending' = Pending
  BY <1>1, <1>2
<1>4. Answers' = Answers
  BY <1>1, TableView DEF View
<1> QED
  BY <1>1, <1>3, <1>4 DEF Dict!dictVars

LEMMA MemoryQuiet ==
    ASSUME UNCHANGED memory, NEW t \in Threads
    PROVE  Untouched /\ HandsKept(t)
BY DEF memory, Untouched, HandsKept

\* A thread that is not at its search tells what it has in res.
LEMMA NotScanning ==
    ASSUME NEW h, NEW at \in Labels \ {"getScan"}, NEW c, NEW x, NEW r
    PROVE  /\ Pends(h, at, c, x) <=> at \notin {"idle", "free"}
           /\ Told(h, at, c, x, r) = r
BY DEF Pends, Told, Scans

LEMMA IdleReads ==
    ASSUME NEW h, NEW a, NEW c, NEW n, NEW x
    PROVE  Reads(h, a, "idle", c, n, x) /\ Reads(h, a, "free", c, n, x)
BY DEF Reads, Putting

\* The answer to t comes: what is to be shown of an operation of the dictionary.
LEMMA Answered ==
    ASSUME NEW t \in Threads, NEW v, call' = call, pc[t] \in Labels \ {"idle", "free", "getScan"},
           Pending' = Pending \ {t}, Answers' = [Answers EXCEPT ![t] = v]
    PROVE  Dict!Answer(t, v)
<1>1. t \in Pending
  BY NotScanning, TableView DEF View
<1> QED
  BY <1>1 DEF Dict!Answer

LEMMA InvokeSeen ==
    ASSUME NEW owner, Ready(owner), TypeOK', NEW t \in Threads, Invoke(t)
    PROVE  DictInv' /\ [Dict!Next]_(Dict!dictVars)
<1>1. PICK c \in Calls[t] : /\ call' = [call EXCEPT ![t] = c]
                            /\ pc' = [pc EXCEPT ![t] = IF c.op = "create" THEN "get" ELSE c.op]
  BY DEF Invoke
<1>2. c \in Call /\ c.op \in {"get", "put", "create", "delete"}
  BY HashTableAssumption DEF Call
<1>3. /\ pc[t] = "idle" /\ UNCHANGED memory /\ res' = [res EXCEPT ![t] = None]
      /\ new' = new /\ tmp' = tmp /\ prev' = prev
  BY DEF Invoke
<1>4. TypeOK
  BY DEF Ready, Invar
<1>5. /\ Others(t) /\ call'[t] = c /\ pc'[t] \in {"get", "put", "delete"}
      /\ pc'[t] = "get" => c.op \in {"get", "create"}
      /\ pc'[t] = "put" => c.op = "put"
      /\ res'[t] = None /\ \A u \in Threads \ {t} : res'[u] = res[u]
  BY <1>1, <1>2, <1>3, <1>4 DEF TypeOK, Others
<1>6. Reads(heap', array', pc'[t], call'[t], new'[t], tmp'[t])
  BY <1>5 DEF Reads, Putting
<1>7. pc'[t] \in Labels \ {"getScan"}
  BY <1>5 DEF Labels
<1>8. /\ DictInv' /\ Contents' = Contents
      /\ Pending' = Pending \cup {t}
      /\ Answers' = [Answers EXCEPT ![t] = None]
  BY <1>3, <1>5, <1>6, <1>7, MemoryQuiet, UntouchedSeen, NotScanning
<1>9. t \notin Pending
  BY <1>3, TableView DEF View, Pends
<1>10. Dict!Call(t)
  BY <1>1, <1>2, <1>8, <1>9 DEF Dict!Call
<1> QED
  BY <1>8, <1>10 DEF Dict!Next

\* A key that no node of its bucket has is not in the dictionary.
LEMMA Absent ==
    ASSUME Invar, NEW t \in Threads,
           \A m \in From(heap, array[Bucket(t)]) : heap[m].key # call[t].key
    PROVE  Contents[call[t].key] = None
<1>1. call[t].key \in Keys /\ Bucket(t) = Hash[call[t].key]
  BY Typed DEF Invar
<1>2. FoundIn(heap, array[Bucket(t)], call[t].key) = None
  BY FoundMiss
<1> QED
  BY <1>1, <1>2, TableView DEF View

\* One that a node of its bucket has is there with the value of that node.
LEMMA Present ==
    ASSUME Invar, NEW t \in Threads, NEW m \in From(heap, array[Bucket(t)]),
           heap[m].key = call[t].key
    PROVE  Contents[call[t].key] = heap[m].val
<1>1. call[t].key \in Keys /\ Bucket(t) = Hash[call[t].key]
  BY Typed DEF Invar
<1>2. FoundIn(heap, array[Bucket(t)], call[t].key) = heap[m].val
  BY FoundHit, Mine DEF Good
<1> QED
  BY <1>1, <1>2, TableView DEF View

LEMMA ReadHeadSeen ==
    ASSUME NEW owner, Ready(owner), TypeOK', NEW t \in Threads, ReadHead(t)
    PROVE  DictInv' /\ [Dict!Next]_(Dict!dictVars)
<1> DEFINE p == array[Bucket(t)]
           k == call[t].key
<1>1. PICK label \in {"getScan", "putScan", "deleteScan"} :
          /\ Goto(t, label)
          /\ <<pc[t], label>> \in {<<"get", "getScan">>, <<"head", "putScan">>,
                                   <<"delete", "deleteScan">>}
  BY DEF ReadHead
<1>2. /\ UNCHANGED memory /\ new' = new /\ prev' = prev /\ res' = res
      /\ tmp' = [tmp EXCEPT ![t] = p] /\ heap' = heap /\ array' = array
  BY <1>1 DEF ReadHead, Goto, memory
<1>3. TypeOK /\ Invar
  BY DEF Ready, Invar
<1>4. tmp'[t] = p /\ \A u \in Threads \ {t} : tmp'[u] = tmp[u]
  BY <1>2, <1>3 DEF TypeOK
<1>5. Others(t) /\ pc'[t] = label /\ call' = call
  BY <1>1, <1>2, <1>3, <1>4, GotoEffect
<1>6. Reads(heap, array, pc[t], call[t], new[t], tmp[t]) /\ k \in Keys /\ Bucket(t) = Hash[k]
  BY <1>3, Typed DEF Ready, DictInv
<1>7. Seeks(heap, p, k, p)
  BY <1>3, Mine, FromClosed DEF Seeks
<1>8. Reads(heap', array', pc'[t], call'[t], new'[t], tmp'[t])
  <2>1. Reads(heap, array, label, call[t], new[t], p)
    BY <1>1, <1>6, <1>7 DEF Reads, Seeks, Putting
  <2> QED
    BY <1>2, <1>4, <1>5, <2>1
<1>9. Untouched /\ HandsKept(t)
  BY <1>2, MemoryQuiet
<1>10. pc[t] \in Labels \ {"getScan", "idle", "free"}
  BY <1>1 DEF Labels
<1>11. /\ Pends(heap, pc[t], call[t], tmp[t])
       /\ Told(heap, pc[t], call[t], tmp[t], res[t]) = res[t]
  BY <1>10, NotScanning
<1>12. CASE ~Scans(heap, label, call[t], p)
  <2>1. Pends(heap', pc'[t], call'[t], tmp'[t])
    BY <1>1, <1>2, <1>4, <1>5, <1>12 DEF Pends
  <2>2. Told(heap', pc'[t], call'[t], tmp'[t], res'[t]) = res[t]
    BY <1>2, <1>4, <1>5, <1>12 DEF Told
  <2> QED
    BY <1>2, <1>5, <1>8, <1>9, <1>11, <2>1, <2>2, Unseen
<1>13. CASE Scans(heap, label, call[t], p)
  <2> DEFINE v == FoundIn(heap, p, k)
  <2>1. /\ ~Pends(heap', pc'[t], call'[t], tmp'[t])
        /\ Told(heap', pc'[t], call'[t], tmp'[t], res'[t]) = v
    BY <1>2, <1>4, <1>5, <1>13 DEF Pends, Told
  <2>2. Contents[k] = v
    BY <1>6, TableView DEF View
  <2> HIDE DEF v
  <2>3. /\ DictInv' /\ Contents' = Contents /\ Pending' = Pending \ {t}
        /\ Answers' = [Answers EXCEPT ![t] = v]
    BY <1>2, <1>5, <1>8, <1>9, <2>1, UntouchedSeen
  <2>4. Dict!Answer(t, Contents[k])
    BY <1>5, <1>10, <2>2, <2>3, Answered
  <2>5. pc[t] = "get" /\ call[t].op \in {"get", "create"}
    BY <1>1, <1>6, <1>13 DEF Scans, Reads
  <2>6. CASE call[t].op = "get"
    BY <2>3, <2>4, <2>6 DEF Dict!Get, Dict!Next
  <2>7. CASE call[t].op = "create"
    <3>1. Contents[k] # None
      BY <1>13, <2>2, <2>7 DEF Scans, v
    <3> QED
      BY <2>3, <2>4, <2>7, <3>1 DEF Dict!CreateFound, Dict!Next
  <2> QED
    BY <2>3, <2>5, <2>6, <2>7
<1> QED
  BY <1>12, <1>13

LEMMA ScanSeen ==
    ASSUME NEW owner, Ready(owner), TypeOK', NEW t \in Threads, Scan(t)
    PROVE  DictInv' /\ [Dict!Next]_(Dict!dictVars)
<1> DEFINE p == array[Bucket(t)]
           x == tmp[t]
           z == heap[x].next
           k == call[t].key
<1>1. pc[t] \in {"getScan", "putScan", "deleteScan"} /\ x # Null /\ heap[x].key # k
  BY DEF Scan, AtEnd, Match
<1>2. /\ UNCHANGED memory /\ pc' = pc /\ call' = call /\ new' = new /\ res' = res
      /\ tmp' = [tmp EXCEPT ![t] = z] /\ heap' = heap /\ array' = array
      /\ prev' = IF pc[t] = "deleteScan" THEN [prev EXCEPT ![t] = x] ELSE prev
  BY DEF Scan, memory
<1>3. TypeOK /\ Invar
  BY DEF Ready, Invar
<1>4. tmp'[t] = z /\ Others(t) /\ x \in Nodes
  BY <1>1, <1>2, <1>3 DEF TypeOK, Others
<1>5. Reads(heap, array, pc[t], call[t], new[t], x) /\ Bucket(t) = Hash[k]
  BY <1>3, Typed DEF Ready, DictInv
<1>6. From(heap, x) = {x} \cup From(heap, z)
  BY <1>3, <1>4, Mine, FromNode, HashTableAssumption
<1>7. FoundIn(heap, z, k) = FoundIn(heap, x, k)
  <2>1. Hits(heap, z, k) = Hits(heap, x, k)
    BY <1>1, <1>6 DEF Hits
  <2> QED
    BY <2>1, FoundHits
<1>8. Reads(heap, array, pc[t], call[t], new[t], z)
  <2>1. ASSUME pc[t] = "getScan"
        PROVE  /\ z \in From(heap, p) \cup {Null}
               /\ call[t].op = "create" => Seeks(heap, p, k, z)
    <3>1. x \in From(heap, p)
      BY <1>1, <1>5, <2>1 DEF Reads
    <3>2. z \in From(heap, p) \cup {Null}
      BY <1>3, <3>1, Mine, FromClosed DEF ClosedIn
    <3>3. call[t].op = "create" => Seeks(heap, p, k, x)
      BY <1>5, <2>1 DEF Reads
    <3> QED
      BY <1>1, <1>6, <3>2, <3>3 DEF Seeks
  <2> QED
    BY <1>5, <2>1 DEF Reads
<1>9. Scans(heap, pc[t], call[t], z) <=> Scans(heap, pc[t], call[t], x)
  BY <1>7 DEF Scans
<1>10. /\ Pends(heap', pc'[t], call'[t], tmp'[t]) <=> Pends(heap, pc[t], call[t], x)
       /\ Told(heap', pc'[t], call'[t], tmp'[t], res'[t]) = Told(heap, pc[t], call[t], x, res[t])
  BY <1>2, <1>4, <1>7, <1>9 DEF Pends, Told
<1>11. Untouched /\ HandsKept(t)
  BY <1>2, MemoryQuiet
<1> QED
  BY <1>2, <1>4, <1>8, <1>10, <1>11, Unseen

LEMMA EndGetSeen ==
    ASSUME NEW owner, Ready(owner), TypeOK', NEW t \in Threads, EndGet(t)
    PROVE  DictInv' /\ [Dict!Next]_(Dict!dictVars)
<1> DEFINE p == array[Bucket(t)]
           x == tmp[t]
           k == call[t].key
<1>1. pc[t] = "getScan" /\ UNCHANGED memory /\ heap' = heap /\ array' = array
  BY DEF EndGet, memory
<1>2. TypeOK /\ Invar
  BY DEF Ready, Invar
<1>3. Reads(heap, array, pc[t], call[t], new[t], x) /\ Bucket(t) = Hash[k]
  BY <1>2, Typed DEF Ready, DictInv
<1>4. Untouched /\ HandsKept(t)
  BY <1>1, MemoryQuiet
<1>5. x = Null => From(heap, x) = {} /\ FoundIn(heap, x, k) = None
  BY FromNull, FoundMiss
<1>6. CASE AtEnd(t) /\ call[t].op = "create"
  <2>1. Goto(t, "put") /\ UNCHANGED <<new, tmp, prev>> /\ res' = res /\ x = Null
    BY <1>6 DEF EndGet, Goto, AtEnd
  <2>2. Others(t) /\ pc'[t] = "put" /\ call' = call
    BY <1>2, <2>1, GotoEffect
  <2>3. Reads(heap, array, "put", call[t], new[t], x)
    <3>1. Seeks(heap, p, k, x)
      BY <1>1, <1>3, <1>6 DEF Reads
    <3>2. \A m \in From(heap, p) : heap[m].key # k
      BY <1>5, <2>1, <3>1 DEF Seeks
    <3> QED
      BY <1>3, <1>6, <3>2 DEF Reads, Putting
  <2>4. ~Scans(heap, pc[t], call[t], x)
    BY <1>5, <1>6, <2>1 DEF Scans
  <2>5. "put" \in Labels \ {"getScan"}
    BY DEF Labels
  <2>6. /\ Pends(heap', pc'[t], call'[t], tmp'[t]) <=> Pends(heap, pc[t], call[t], x)
        /\ Told(heap', pc'[t], call'[t], tmp'[t], res'[t])
               = Told(heap, pc[t], call[t], x, res[t])
    BY <1>1, <2>1, <2>2, <2>4, <2>5, NotScanning DEF Pends, Told
  <2> QED
    BY <1>1, <1>4, <2>1, <2>2, <2>3, <2>6, Unseen
<1>7. CASE ~(AtEnd(t) /\ call[t].op = "create")
  <2> DEFINE v == IF AtEnd(t) THEN None ELSE heap[x].val
  <2>1. Return(t, v)
    BY <1>7 DEF EndGet
  <2>2. FoundIn(heap, x, k) = v /\ Scans(heap, pc[t], call[t], x)
    <3>1. CASE AtEnd(t)
      BY <1>1, <1>3, <1>5, <1>7, <3>1 DEF AtEnd, Scans
    <3>2. CASE ~AtEnd(t)
      <4>1. x # Null /\ heap[x].key = k
        BY <3>2 DEF EndGet, Match, AtEnd
      <4>2. x \in From(heap, p) /\ x \in Nodes
        BY <1>1, <1>2, <1>3, <4>1 DEF Reads, TypeOK
      <4>3. From(heap, x) \subseteq From(heap, p) /\ x \in From(heap, x)
        BY <1>2, <4>1, <4>2, Mine, FromLater, FromNode, HashTableAssumption
      <4>4. FoundIn(heap, x, k) = heap[x].val
        BY <1>2, <4>1, <4>3, Mine, FoundHit DEF Good
      <4>5. heap[x].val \in Values
        BY <1>2, <4>2, Mine DEF Ready, DictInv
      <4> QED
        BY <1>1, <3>2, <4>4, <4>5, HashTableAssumption DEF Scans
    <3> QED
      BY <3>1, <3>2
  <2> HIDE DEF v
  <2>3. res'[t] = v /\ \A u \in Threads \ {t} : res'[u] = res[u]
    BY <1>2, <2>1 DEF TypeOK, Return
  <2>4. pc'[t] = "idle" /\ call' = call /\ Others(t)
    BY <1>2, <2>1, ReturnEffect
  <2>5. "idle" \in Labels \ {"getScan"}
    BY DEF Labels
  <2>6. /\ Pends(heap', pc'[t], call'[t], tmp'[t]) <=> Pends(heap, pc[t], call[t], x)
        /\ Told(heap', pc'[t], call'[t], tmp'[t], res'[t])
               = Told(heap, pc[t], call[t], x, res[t])
    BY <2>2, <2>3, <2>4, <2>5, NotScanning DEF Pends, Told
  <2> QED
    BY <1>4, <2>3, <2>4, <2>6, IdleReads, Unseen
<1> QED
  BY <1>6, <1>7

LEMMA BeforeLinkSeen ==
    ASSUME NEW owner, Ready(owner), TypeOK', NEW t \in Threads,
           Malloc(t) \/ TestHead(t) \/ SetNext(t)
    PROVE  DictInv' /\ [Dict!Next]_(Dict!dictVars)
<1> DEFINE k == call[t].key
<1>1. TypeOK /\ Invar
  BY DEF Ready, Invar
<1>2. PICK label \in {"test", "first", "head", "link"} :
          /\ Goto(t, label)
          /\ label = "test" => pc[t] = "put"
          /\ label # "test" => pc[t] \in Putting /\ new' = new
  BY DEF Malloc, TestHead, SetNext, Putting
<1>3. pc[t] \in Putting \cup {"put"} /\ tmp' = tmp /\ prev' = prev /\ res' = res
  BY <1>2 DEF Malloc, TestHead, SetNext, Putting, Goto
<1>4. \A u \in Threads \ {t} : new'[u] = new[u]
  BY <1>1 DEF TypeOK, Malloc, TestHead, SetNext
<1>5. pc'[t] = label /\ call' = call /\ Others(t)
  BY <1>1, <1>2, <1>3, <1>4, GotoEffect
<1>6. Untouched /\ HandsKept(t)
  BY MallocKeeps, SetNextKeeps, MemoryQuiet DEF Ready, TestHead
<1>7. Reads(heap, array, pc[t], call[t], new[t], tmp[t]) /\ Bucket(t) = Hash[k]
      /\ Bucket(t) \in Buckets
  BY <1>1, Typed DEF Ready, DictInv
<1>8. heap'[new'[t]].val = call[t].val
  <2>1. CASE Malloc(t)
    <3>1. PICK n \in Nodes :
             /\ heap' = [heap EXCEPT ![n].key = call[t].key, ![n].val = call[t].val]
             /\ new' = [new EXCEPT ![t] = n]
      <4>1. \E m \in Nodes \ used : TRUE
        BY <1>1, <2>1 DEF TypeOK, Malloc
      <4>2. (CHOOSE m \in Nodes \ used : TRUE) \in Nodes \ used
        BY <4>1
      <4> QED
        BY <2>1, <4>2 DEF Malloc
    <3> QED
      BY <1>1, <3>1 DEF TypeOK
  <2>2. CASE TestHead(t)
    BY <1>7, <2>2 DEF Reads, Putting, TestHead, memory
  <2>3. CASE SetNext(t)
    <3>1. heap[new[t]].val = call[t].val
      BY <1>7, <2>3 DEF Reads, Putting, SetNext
    <3>2. new[t] \in Nodes
      BY <1>1, <2>3, Mine DEF Works, Putting, SetNext, TypeOK
    <3>3. PICK z : heap' = [heap EXCEPT ![new[t]].next = z]
      BY <2>3 DEF SetNext
    <3>4. heap'[new[t]].val = heap[new[t]].val
      BY <1>1, <3>2, <3>3 DEF TypeOK
    <3> QED
      BY <2>3, <3>1, <3>4 DEF SetNext
  <2> QED
    BY <2>1, <2>2, <2>3
<1>9. Reads(heap', array', label, call[t], new'[t], tmp[t])
  <2>1. From(heap', array'[Hash[k]]) = From(heap, array[Hash[k]])
    BY <1>1, <1>6, <1>7, UntouchedContents DEF Ready
  <2>2. call[t].op = "create" => \A m \in From(heap', array'[Hash[k]]) : heap'[m].key # k
    BY <1>3, <1>6, <1>7, <2>1 DEF Reads, Untouched
  <2> QED
    BY <1>2, <1>8, <2>2 DEF Reads, Putting
<1>10. label \in Labels \ {"getScan", "idle", "free"} /\ pc[t] \in Labels \ {"getScan", "idle", "free"}
  BY <1>3 DEF Labels, Putting
<1>11. /\ Pends(heap', pc'[t], call'[t], tmp'[t]) <=> Pends(heap, pc[t], call[t], tmp[t])
       /\ Told(heap', pc'[t], call'[t], tmp'[t], res'[t])
              = Told(heap, pc[t], call[t], tmp[t], res[t])
  BY <1>3, <1>5, <1>10, NotScanning
<1> QED
  BY <1>3, <1>5, <1>6, <1>9, <1>11, Unseen

LEMMA FreeNodeSeen ==
    ASSUME NEW owner, Ready(owner), TypeOK', NEW t \in Threads, FreeNode(t)
    PROVE  DictInv' /\ [Dict!Next]_(Dict!dictVars)
<1>1. TypeOK /\ Invar
  BY DEF Ready, Invar
<1>2. pc[t] = "free" /\ Return(t, res[t])
  BY DEF FreeNode
<1>3. pc'[t] = "idle" /\ call' = call /\ Others(t)
  BY <1>1, <1>2, ReturnEffect
<1>4. res' = res
  BY <1>1, <1>2 DEF TypeOK, Return
<1>5. Untouched /\ HandsKept(t)
  BY FreeNodeKeeps DEF Ready
<1>6. {"idle", "free"} \subseteq Labels \ {"getScan"}
  BY DEF Labels
<1>7. /\ Pends(heap', pc'[t], call'[t], tmp'[t]) <=> Pends(heap, pc[t], call[t], tmp[t])
      /\ Told(heap', pc'[t], call'[t], tmp'[t], res'[t])
             = Told(heap, pc[t], call[t], tmp[t], res[t])
  BY <1>2, <1>3, <1>4, <1>6, NotScanning
<1> QED
  BY <1>3, <1>4, <1>5, <1>7, IdleReads, Unseen

LEMMA NothingDoneSeen ==
    ASSUME NEW owner, Ready(owner), TypeOK', NEW t \in Threads, NoMemory(t) \/ DeleteMissing(t)
    PROVE  DictInv' /\ [Dict!Next]_(Dict!dictVars)
<1> DEFINE k == call[t].key
           p == array[Bucket(t)]
<1>1. TypeOK /\ Invar
  BY DEF Ready, Invar
<1>2. pc[t] \in {"put", "deleteScan"} /\ Return(t, None) /\ UNCHANGED memory
  BY DEF NoMemory, DeleteMissing
<1>3. pc'[t] = "idle" /\ call' = call /\ Others(t)
  BY <1>1, <1>2, ReturnEffect
<1>4. res'[t] = None /\ \A u \in Threads \ {t} : res'[u] = res[u]
  BY <1>1, <1>2 DEF TypeOK, Return
<1>5. Untouched /\ HandsKept(t)
  BY <1>2, MemoryQuiet
<1>6. "idle" \in Labels \ {"getScan"} /\ pc[t] \in Labels \ {"getScan", "idle", "free"}
  BY <1>2 DEF Labels
<1>7. /\ DictInv' /\ Contents' = Contents /\ Pending' = Pending \ {t}
      /\ Answers' = [Answers EXCEPT ![t] = None]
  BY <1>3, <1>4, <1>5, <1>6, IdleReads, NotScanning, UntouchedSeen
<1>8. Dict!Answer(t, None)
  BY <1>3, <1>6, <1>7, Answered
<1>9. Works(heap, array, used, pc[t], call[t], new[t], tmp[t], prev[t])
  BY <1>1, Mine
<1>10. CASE NoMemory(t)
  <2>1. call[t].op \in {"put", "create"} /\ pc[t] = "put"
    BY <1>9, <1>10 DEF NoMemory, Works
  <2>2. call[t].op = "create" => \A m \in From(heap, p) : heap[m].key # k
    BY <1>1, <2>1, Mine DEF Ready, DictInv, Reads
  <2>3. call[t].op = "create" => Contents[k] = None
    BY <1>1, <2>2, Absent
  <2> QED
    BY <1>7, <1>8, <2>1, <2>3 DEF Dict!Put, Dict!Next
<1>11. CASE DeleteMissing(t)
  <2>1. call[t].op = "delete" /\ Seeks(heap, p, k, Null)
    BY <1>1, <1>9, <1>11, Mine DEF DeleteMissing, AtEnd, Works
  <2>2. \A m \in From(heap, p) : heap[m].key # k
    BY <2>1, FromNull DEF Seeks
  <2>3. Contents[k] = None
    BY <1>1, <2>2, Absent
  <2>4. Contents' = [Contents EXCEPT ![k] = None]
    BY <1>7, <2>3, TableView DEF View
  <2> QED
    BY <1>7, <1>8, <2>1, <2>3, <2>4 DEF Dict!Delete, Dict!Next
<1> QED
  BY <1>10, <1>11

\* A thread writes to its bucket, and is done.
LEMMA WriteSeen ==
    ASSUME NEW owner, Ready(owner), TypeOK', NEW t \in Threads, Others(t), HandsKept(t),
           Spares(t), call' = call, pc[t] \in {"link", "putScan", "deleteScan"},
           pc'[t] \in {"idle", "free"}, NEW v, res' = [res EXCEPT ![t] = v],
           \A b \in Buckets \ {Bucket(t)} :
               array'[b] = array[b] /\ \A m \in From(heap, array[b]) : heap'[m] = heap[m],
           \A m \in From(heap', array'[Bucket(t)]) : heap'[m].val \in Values,
           NEW w, FoundIn(heap', array'[Bucket(t)], call[t].key) = w,
           \A j \in Keys \ {call[t].key} :
               FoundIn(heap', array'[Bucket(t)], j) = FoundIn(heap, array[Bucket(t)], j)
    PROVE  /\ DictInv' /\ Dict!Answer(t, v)
           /\ Contents' = [Contents EXCEPT ![call[t].key] = w]
<1> DEFINE k == call[t].key
           B == Bucket(t)
<1>1. TypeOK /\ Invar /\ B = Hash[k] /\ k \in Keys /\ B \in Buckets
  BY Typed DEF Ready, Invar
<1>2. res'[t] = v /\ \A u \in Threads \ {t} : res'[u] = res[u]
  BY <1>1 DEF TypeOK
<1>3. \A b \in Buckets \ {B} :
          /\ From(heap', array'[b]) = From(heap, array[b])
          /\ \A j \in Keys : Hash[j] = b => Contents'[j] = Contents[j]
  BY <1>1, ContentsSame
<1>4. \A b \in Buckets : \A m \in From(heap', array'[b]) : heap'[m].val \in Values
  <2> SUFFICES ASSUME NEW b \in Buckets, NEW m \in From(heap', array'[b])
               PROVE  heap'[m].val \in Values
    OBVIOUS
  <2>1. CASE b = B
    BY <2>1
  <2>2. CASE b # B
    <3>1. m \in From(heap, array[b])
      BY <1>3, <2>2
    <3>2. heap'[m] = heap[m] /\ heap[m].val \in Values
      BY <2>2, <3>1 DEF Ready, DictInv
    <3> QED
      BY <3>2
  <2> QED
    BY <2>1, <2>2
<1>5. {"idle", "free"} \subseteq Labels \ {"getScan"}
  BY DEF Labels
<1>6. Reads(heap', array', pc'[t], call'[t], new'[t], tmp'[t])
  BY IdleReads
<1>7. /\ DictInv' /\ Pending' = Pending \ {t}
      /\ Answers' = [Answers EXCEPT ![t] = v]
  <2>1. /\ ~Pends(heap', pc'[t], call'[t], tmp'[t])
        /\ Told(heap', pc'[t], call'[t], tmp'[t], res'[t]) = v
    BY <1>2, <1>5, NotScanning
  <2>2. /\ DictInv'
        /\ Pending' = (Pending \ {t}) \cup
                      {u \in {t} : Pends(heap', pc'[t], call'[t], tmp'[t])}
        /\ Answers' = [Answers EXCEPT ![t] =
                           Told(heap', pc'[t], call'[t], tmp'[t], res'[t])]
    BY <1>2, <1>4, <1>6, StepSeen DEF Ready
  <2> QED
    BY <2>1, <2>2
<1>8. pc[t] \in Labels \ {"idle", "free", "getScan"}
  BY DEF Labels
<1>9. Dict!Answer(t, v)
  BY <1>7, <1>8, Answered
<1>10. \A j \in Keys : Contents'[j] = IF j = k THEN w ELSE Contents[j]
  <2> SUFFICES ASSUME NEW j \in Keys PROVE Contents'[j] = IF j = k THEN w ELSE Contents[j]
    OBVIOUS
  <2>1. CASE Hash[j] = B
    BY <1>1, <2>1, TableView DEF View
  <2>2. CASE Hash[j] # B
    BY <1>1, <1>3, <2>2, HashTableAssumption
  <2> QED
    BY <2>1, <2>2
<1>11. Contents' = [Contents EXCEPT ![k] = w]
  BY <1>10, TableView DEF View
<1> QED
  BY <1>7, <1>9, <1>11

LEMMA LinkSeen ==
    ASSUME NEW owner, Ready(owner), TypeOK', NEW t \in Threads, Link(t)
    PROVE  DictInv' /\ [Dict!Next]_(Dict!dictVars)
<1> DEFINE k == call[t].key
           n == new[t]
           B == Bucket(t)
           R == From(heap, array[B])
           S == From(heap', array'[B])
<1>1. TypeOK /\ Invar /\ B = Hash[k] /\ B \in Buckets /\ call[t].val \in Values
  BY Typed DEF Ready, Invar
<1>2. pc[t] = "link" /\ Return(t, call[t].val)
  BY DEF Link
<1>3. /\ pc'[t] = "idle" /\ call' = call /\ Others(t)
      /\ res' = [res EXCEPT ![t] = call[t].val]
  BY <1>1, <1>2, ReturnEffect DEF Return
<1>4. /\ HandsKept(t) /\ heap' = heap /\ \A b \in Buckets \ {B} : array'[b] = array[b]
      /\ S = {n} \cup R /\ \A m \in R : heap[m].key # k
      /\ n \in Nodes /\ heap[n].key = k
  BY LinkKeeps DEF Ready
<1>5. Works(heap, array, used, pc[t], call[t], n, tmp[t], prev[t])
      /\ Reads(heap, array, pc[t], call[t], n, tmp[t])
  BY <1>1, Mine DEF Ready, DictInv
<1>6. heap[n].val = call[t].val /\ call[t].op \in {"put", "create"}
  BY <1>2, <1>5 DEF Works, Reads, Putting
<1>7. Spares(t)
  BY <1>2, <1>4 DEF Spares, Writing, Putting
<1>8. \A m \in S : heap'[m].val \in Values
  BY <1>1, <1>4, <1>6 DEF Ready, DictInv
<1>9. FoundIn(heap', array'[B], k) = call[t].val
  <2>1. n \in S /\ heap'[n].key = k /\ \A l \in S : heap'[l].key = k => l = n
    BY <1>4
  <2>2. FoundIn(heap', array'[B], k) = heap'[n].val
    BY <2>1, FoundHit
  <2> QED
    BY <1>4, <1>6, <2>2
<1>10. \A j \in Keys \ {k} : FoundIn(heap', array'[B], j) = FoundIn(heap, array[B], j)
  <2> SUFFICES ASSUME NEW j \in Keys \ {k}
               PROVE  FoundIn(heap', array'[B], j) = FoundIn(heap, array[B], j)
    OBVIOUS
  <2>1. Hits(heap', array'[B], j) = Hits(heap, array[B], j)
    BY <1>4 DEF Hits
  <2> QED
    BY <1>4, <2>1, FoundHits
<1>11. /\ DictInv' /\ Dict!Answer(t, call[t].val)
       /\ Contents' = [Contents EXCEPT ![k] = call[t].val]
  BY <1>2, <1>3, <1>4, <1>7, <1>8, <1>9, <1>10, WriteSeen
<1>12. Contents[k] = None
  BY <1>1, <1>4, Absent
<1> QED
  BY <1>6, <1>11, <1>12 DEF Dict!Put, Dict!Next

LEMMA ReassignSeen ==
    ASSUME NEW owner, Ready(owner), TypeOK', NEW t \in Threads, Reassign(t)
    PROVE  DictInv' /\ [Dict!Next]_(Dict!dictVars)
<1> DEFINE k == call[t].key
           n == new[t]
           x == tmp[t]
           B == Bucket(t)
           R == From(heap, array[B])
           v == call[t].val
<1>1. TypeOK /\ Invar /\ B = Hash[k] /\ B \in Buckets /\ v \in Values
  BY Typed DEF Ready, Invar
<1>2. pc[t] = "putScan" /\ Return(t, v) /\ heap[x].key = k /\ array' = array
  BY DEF Reassign, Match
<1>3. pc'[t] = "idle" /\ call' = call /\ Others(t) /\ res' = [res EXCEPT ![t] = v]
  BY <1>1, <1>2, ReturnEffect DEF Return
<1>4. /\ HandsKept(t) /\ x \in R
      /\ \A b \in Buckets : \A m \in From(heap, array[b]) :
             /\ heap'[m].next = heap[m].next /\ heap'[m].key = heap[m].key
             /\ heap'[m].val = IF m = x THEN heap[n].val ELSE heap[m].val
  BY ReassignKeeps DEF Ready
<1>5. /\ Works(heap, array, used, pc[t], call[t], n, x, prev[t])
      /\ Reads(heap, array, pc[t], call[t], n, x)
      /\ Good(heap, array[B], B, used)
  BY <1>1, Mine DEF Ready, DictInv
<1>6. heap[n].val = v /\ call[t].op = "put"
  BY <1>1, <1>2, <1>4, <1>5 DEF Works, Reads, Putting
<1>7. \A b \in Buckets \ {B} : \A m \in From(heap, array[b]) : heap'[m] = heap[m]
  <2> SUFFICES ASSUME NEW b \in Buckets \ {B}, NEW m \in From(heap, array[b])
               PROVE  heap'[m] = heap[m]
    OBVIOUS
  <2>1. Good(heap, array[b], b, used) /\ m \in Nodes
    BY <1>1 DEF Invar, From
  <2>2. m # x
    BY <1>4, <1>5, <2>1 DEF Good
  <2>3. m # n
    <3>1. HandOf(t) = n /\ n # Null
      BY <1>1, <1>2, <1>5, HashTableAssumption DEF HandOf, Hand, Works, Putting, TypeOK
    <3>2. Apart(heap, array, n)
      BY <1>1, <3>1, Hands
    <3> QED
      BY <3>2 DEF Apart
  <2> QED
    BY <1>1, <2>1, <2>2, <2>3 DEF Reassign, TypeOK
<1>8. Spares(t)
  BY <1>2, <1>6, <1>7 DEF Spares, Writing, Putting
<1>9. From(heap', array'[B]) = R
  <2>1. Linked(heap')
    BY HashTableAssumption DEF TypeOK, Linked, Pointer
  <2> QED
    BY <1>1, <1>2, <1>4, <2>1, Mine, FromSame
<1>10. \A m \in R : heap[m].val \in Values
  BY <1>1 DEF Ready, DictInv
<1>11. \A m \in From(heap', array'[B]) : heap'[m].val \in Values
  BY <1>1, <1>4, <1>6, <1>9, <1>10
<1>12. FoundIn(heap', array'[B], k) = v
  <2>1. /\ x \in From(heap', array'[B]) /\ heap'[x].key = k /\ heap'[x].val = v
        /\ \A l \in From(heap', array'[B]) : heap'[l].key = k => l = x
    BY <1>1, <1>2, <1>4, <1>5, <1>6, <1>9 DEF Good
  <2>2. FoundIn(heap', array'[B], k) = heap'[x].val
    BY <2>1, FoundHit
  <2> QED
    BY <2>1, <2>2
<1>13. \A j \in Keys \ {k} : FoundIn(heap', array'[B], j) = FoundIn(heap, array[B], j)
  <2> SUFFICES ASSUME NEW j \in Keys \ {k}
               PROVE  FoundIn(heap', array'[B], j) = FoundIn(heap, array[B], j)
    OBVIOUS
  <2>1. Hits(heap', array'[B], j) = Hits(heap, array[B], j)
    BY <1>1, <1>4, <1>9 DEF Hits
  <2>2. \A m \in Hits(heap, array[B], j) : heap'[m].val = heap[m].val
    BY <1>1, <1>2, <1>4 DEF Hits
  <2> QED
    BY <2>1, <2>2, FoundHits
<1>14. \A b \in Buckets \ {B} :
           array'[b] = array[b] /\ \A m \in From(heap, array[b]) : heap'[m] = heap[m]
  BY <1>2, <1>7
<1>15. /\ DictInv' /\ Dict!Answer(t, v)
       /\ Contents' = [Contents EXCEPT ![k] = v]
  <2> HIDE DEF v
  <2> QED
    BY <1>2, <1>3, <1>4, <1>8, <1>11, <1>12, <1>13, <1>14, WriteSeen
<1> QED
  BY <1>6, <1>15 DEF Dict!Put, Dict!Next

LEMMA UnlinkSeen ==
    ASSUME NEW owner, Ready(owner), TypeOK', NEW t \in Threads, Unlink(t)
    PROVE  DictInv' /\ [Dict!Next]_(Dict!dictVars)
<1> DEFINE k == call[t].key
           x == tmp[t]
           B == Bucket(t)
           R == From(heap, array[B])
           S == From(heap', array'[B])
           v == heap[x].val
<1>1. TypeOK /\ Invar /\ B = Hash[k] /\ B \in Buckets
  BY Typed DEF Ready, Invar
<1>2. /\ pc[t] = "deleteScan" /\ heap[x].key = k /\ res' = [res EXCEPT ![t] = v]
      /\ pc' = [pc EXCEPT ![t] = "free"] /\ call' = call
      /\ new' = new /\ tmp' = tmp /\ prev' = prev
  BY DEF Unlink, Match
<1>3. pc'[t] = "free" /\ Others(t)
  BY <1>1, <1>2 DEF TypeOK, Others
<1>4. /\ HandsKept(t) /\ x \in R /\ S = R \ {x}
      /\ \A b \in Buckets \ {B} :
             array'[b] = array[b] /\ \A m \in From(heap, array[b]) : heap'[m] = heap[m]
      /\ \A m \in Nodes : heap'[m].key = heap[m].key /\ heap'[m].val = heap[m].val
  BY <1>1, UnlinkKeeps DEF Ready
<1>5. /\ Works(heap, array, used, pc[t], call[t], new[t], x, prev[t])
      /\ Good(heap, array[B], B, used) /\ R \subseteq Nodes
  BY <1>1, Mine, FromClosed
<1>6. call[t].op = "delete"
  BY <1>2, <1>5 DEF Works
<1>7. Spares(t)
  BY <1>2, <1>4, <1>6 DEF Spares, Writing
<1>8. \A m \in S : heap'[m].val \in Values
  BY <1>1, <1>4, <1>5 DEF Ready, DictInv
<1>9. FoundIn(heap', array'[B], k) = None
  <2>1. \A m \in S : heap'[m].key # k
    BY <1>2, <1>4, <1>5 DEF Good
  <2> QED
    BY <2>1, FoundMiss
<1>10. \A j \in Keys \ {k} : FoundIn(heap', array'[B], j) = FoundIn(heap, array[B], j)
  <2> SUFFICES ASSUME NEW j \in Keys \ {k}
               PROVE  FoundIn(heap', array'[B], j) = FoundIn(heap, array[B], j)
    OBVIOUS
  <2>1. Hits(heap', array'[B], j) = Hits(heap, array[B], j)
    BY <1>2, <1>4, <1>5 DEF Hits
  <2>2. \A m \in Hits(heap, array[B], j) : heap'[m].val = heap[m].val
    BY <1>4, <1>5 DEF Hits
  <2> QED
    BY <2>1, <2>2, FoundHits
<1>11. /\ DictInv' /\ Dict!Answer(t, v)
       /\ Contents' = [Contents EXCEPT ![k] = None]
  BY <1>2, <1>3, <1>4, <1>7, <1>8, <1>9, <1>10, WriteSeen
<1>12. Contents[k] = v
  BY <1>1, <1>2, <1>4, Present
<1> QED
  BY <1>6, <1>11, <1>12 DEF Dict!Delete, Dict!Next

LEMMA DictKept ==
    ASSUME NEW owner, Ready(owner), TypeOK', [Next]_vars
    PROVE  DictInv' /\ [Dict!Next]_(Dict!dictVars)
<1>1. CASE UNCHANGED vars
  <2>1. /\ heap' = heap /\ array' = array /\ pc' = pc /\ call' = call
        /\ new' = new /\ tmp' = tmp /\ res' = res
    BY <1>1 DEF vars, memory
  <2>2. DictInv'
    BY <2>1 DEF Ready, DictInv
  <2>3. Contents' = Contents /\ Pending' = Pending /\ Answers' = Answers
    BY <2>1, TableView DEF View
  <2> QED
    BY <2>1, <2>2, <2>3 DEF Dict!dictVars
<1>2. CASE Next
  <2>1. PICK t \in Threads : Invoke(t) \/ Step(t)
    BY <1>2 DEF Next
  <2>2. CASE Invoke(t)
    BY <2>2, InvokeSeen
  <2>3. CASE ReadHead(t)
    BY <2>3, ReadHeadSeen
  <2>4. CASE Scan(t)
    BY <2>4, ScanSeen
  <2>5. CASE EndGet(t)
    BY <2>5, EndGetSeen
  <2>6. CASE Malloc(t) \/ TestHead(t) \/ SetNext(t)
    BY <2>6, BeforeLinkSeen
  <2>7. CASE NoMemory(t) \/ DeleteMissing(t)
    BY <2>7, NothingDoneSeen
  <2>8. CASE Link(t)
    BY <2>8, LinkSeen
  <2>9. CASE Reassign(t)
    BY <2>9, ReassignSeen
  <2>10. CASE Unlink(t)
    BY <2>10, UnlinkSeen
  <2>11. CASE FreeNode(t)
    BY <2>11, FreeNodeSeen
  <2> QED
    BY <2>1, <2>2, <2>3, <2>4, <2>5, <2>6, <2>7, <2>8, <2>9, <2>10, <2>11 DEF Step
<1> QED
  BY <1>1, <1>2

LEMMA DictInit ==
    ASSUME Init, TypeOK
    PROVE  DictInv /\ Dict!Init
<1>1. (\A b \in Buckets : array[b] = Null) /\ \A t \in Threads : pc[t] = "idle" /\ res[t] = None
  BY DEF Init
<1>2. \A k \in Keys : FoundIn(heap, array[Hash[k]], k) = None
  BY <1>1, FromNull, FoundMiss, HashTableAssumption
<1>3. "idle" \in Labels \ {"getScan"}
  BY DEF Labels
<1>4. Contents = [k \in Keys |-> None]
  BY <1>2, TableView DEF View
<1>5. Pending = {} /\ Answers = [t \in Threads |-> None]
  BY <1>1, <1>3, NotScanning, TableView DEF View
<1>6. DictInv
  BY <1>1, FromNull, IdleReads DEF DictInv
<1> QED
  BY <1>4, <1>5, <1>6 DEF Dict!Init, TypeOK

\* With one writer per bucket, and readers that meet only creates in the buckets
\* of others, the table is a dictionary: a get takes effect when it reads the
\* head of the chain, a put or a delete when it links, assigns or unlinks.
THEOREM OneWriterHasDictionary ==
    ASSUME NEW owner, OneWriter(owner), ReadersSeeGrowth(owner)
    PROVE  Spec => DictionarySpec
<1>1. Init /\ TypeOK => DictInv /\ Dict!Init
  BY DictInit
<1>2. Invar /\ DictInv /\ TypeOK' /\ [Next]_vars => DictInv' /\ [Dict!Next]_(Dict!dictVars)
  BY DictKept DEF Ready
<1> QED
  BY <1>1, <1>2, InvarHolds, TypeCorrect, PTL DEF Spec, DictionarySpec, Dict!Spec
=============================================================================
