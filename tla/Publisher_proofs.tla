-------------------------- MODULE Publisher_proofs --------------------------
(* No group is published more often than its rate allows, nor does it wait  *)
(* longer than its rate and a round of the main loop.                       *)
EXTENDS Publisher, TLAPS

\* The publication of g that main has begun and not yet stamped.
InHand(g) == pc \in {"publish", "stamp"} /\ at = g

\* As long as nobody sets the clock, it shows how long a group has waited
\* since its publication, of which main still holds the time while it is in
\* hand. This and the types of what it speaks of are inductive.
ClockTellsWait ==
    \A g \in Group :
        published[g] /\ jumps[g] = 0
            => clock = (IF InHand(g) THEN taken ELSE last[g]) + waited[g]

Inv == TypeOK /\ ClockTellsWait

\* What the assumption says of the numbers.
LEMMA Numbers ==
    ASSUME PublisherAssumption
    PROVE  /\ Groups \in Nat /\ 1 <= Groups
           /\ MaxClock \in Nat /\ Wrap \in Nat /\ MaxClock < Wrap
           /\ \A d \in Jumps : d \in Int
BY DEF PublisherAssumption

\* The walk only stops at groups.
LEMMA GoOnStays ==
    ASSUME PublisherAssumption, TypeOK, GoOn(at) \/ GoOn(0)
    PROVE  pc' \in {"loop", "look"} /\ at' \in Group
BY Numbers DEF GoOn, Subscribed, Group

\* Main's walk, the clock and the clients' orders keep the types.
LEMMA TypeStep ==
    ASSUME PublisherAssumption, TypeOK, [Next]_vars
    PROVE  TypeOK'
<1> USE DEF TypeOK, Group, Event, group, main, history
<1>1. CASE Tick
  <2>1. clock' \in 0 .. MaxClock /\ spent' \in Nat
    BY <1>1, Numbers DEF Tick
  <2>2. waited' \in [Group -> Nat]
    <3>1. waited' = [g \in Group |-> waited[g] + 1]
      BY <1>1 DEF Tick
    <3>2. \A g \in Group : waited[g] + 1 \in Nat
      OBVIOUS
    <3> QED
      BY <3>1, <3>2
  <2>3. UNCHANGED <<events, group, main, published, jumps>>
    BY <1>1 DEF Tick
  <2> QED
    BY <2>1, <2>2, <2>3
<1>2. CASE SetClock
  <2>1. clock' \in 0 .. MaxClock
    BY <1>2, Numbers DEF SetClock
  <2>2. jumps' \in [Group -> Nat]
    <3>1. jumps' = [g \in Group |-> jumps[g] + 1]
      BY <1>2 DEF SetClock
    <3>2. \A g \in Group : jumps[g] + 1 \in Nat
      OBVIOUS
    <3> QED
      BY <3>1, <3>2
  <2>3. UNCHANGED <<spent, group, main, published, waited>>
    BY <1>2 DEF SetClock
  <2>4. events' \in Nat
    BY <1>2 DEF SetClock
  <2> QED
    BY <2>1, <2>2, <2>3, <2>4
<1>3. CASE Subscribe
  <2>0. PICK h \in Group, r \in Rates \cup {0} :
          /\ rate' = [rate EXCEPT ![h] = r]
          /\ last' = [last EXCEPT ![h] = 0]
          /\ published' = [published EXCEPT ![h] = FALSE]
          /\ waited' = [waited EXCEPT ![h] = 0]
          /\ jumps' = [jumps EXCEPT ![h] = 0]
          /\ events' = events + 1 /\ UNCHANGED <<clock, spent, main>>
    BY <1>3 DEF Subscribe
  <2>1. rate' \in [Group -> Rates \cup {0}]
    BY <2>0
  <2>2. last' \in [Group -> 0 .. MaxClock]
    BY <2>0, Numbers
  <2>3. published' \in [Group -> BOOLEAN]
    BY <2>0
  <2>4. waited' \in [Group -> Nat]
    BY <2>0
  <2>5. jumps' \in [Group -> Nat]
    BY <2>0
  <2>6. events' \in Nat
    BY <2>0
  <2> QED
    BY <2>0, <2>1, <2>2, <2>3, <2>4, <2>5, <2>6
<1>4. CASE Turn
  BY <1>4, GoOnStays, Numbers DEF Turn
<1>5. CASE NotDue
  BY <1>5, GoOnStays, Numbers DEF NotDue
<1>6. CASE Decide
  BY <1>6 DEF Decide
<1>7. CASE Publish
  BY <1>7 DEF Publish
<1>8. CASE Stamp
  <2>1. last' \in [Group -> 0 .. MaxClock]
    BY <1>8 DEF Stamp
  <2>2. taken' \in 0 .. MaxClock
    BY <1>8, Numbers DEF Stamp
  <2> QED
    BY <1>8, <2>1, <2>2, GoOnStays DEF Stamp
<1>9. CASE UNCHANGED vars
  BY <1>9 DEF vars
<1> QED
  BY <1>1, <1>2, <1>3, <1>4, <1>5, <1>6, <1>7, <1>8, <1>9 DEF Next

\* Only a publication begins to count, and its stamp keeps what main held.
LEMMA ClockStep ==
    ASSUME PublisherAssumption, Inv, [Next]_vars
    PROVE  ClockTellsWait'
<1> USE DEF Inv, TypeOK, Group, Event, group, main, history, ClockTellsWait,
            InHand
<1>1. CASE Tick
  <2> SUFFICES ASSUME NEW g \in Group, published'[g], jumps'[g] = 0
               PROVE  clock' = (IF InHand(g)' THEN taken' ELSE last'[g])
                               + waited'[g]
    BY DEF ClockTellsWait
  <2>1. clock = (IF InHand(g) THEN taken ELSE last[g]) + waited[g]
    BY <1>1 DEF Tick
  <2>2. /\ clock' = clock + 1 /\ waited'[g] = waited[g] + 1
        /\ taken' = taken /\ last' = last /\ pc' = pc /\ at' = at
    BY <1>1 DEF Tick
  <2>3. /\ clock \in Int /\ waited[g] \in Int
        /\ taken \in Int /\ last[g] \in Int
    BY Numbers
  <2>4. InHand(g)' <=> InHand(g)
    BY <2>2
  <2> HIDE DEF InHand
  <2>5. CASE InHand(g)
    BY <2>1, <2>2, <2>3, <2>4, <2>5
  <2>6. CASE ~InHand(g)
    BY <2>1, <2>2, <2>3, <2>4, <2>6
  <2> QED
    BY <2>5, <2>6
<1>2. CASE SetClock
  <2> SUFFICES ASSUME NEW g \in Group
               PROVE  jumps'[g] # 0
    BY DEF ClockTellsWait
  <2>1. jumps'[g] = jumps[g] + 1
    BY <1>2 DEF SetClock
  <2> QED
    BY <2>1
<1>3. CASE Subscribe
  <2> SUFFICES ASSUME NEW g \in Group, published'[g], jumps'[g] = 0
               PROVE  clock' = (IF InHand(g)' THEN taken' ELSE last'[g])
                               + waited'[g]
    BY DEF ClockTellsWait
  <2>1. PICK h \in Group :
          /\ published' = [published EXCEPT ![h] = FALSE]
          /\ last' = [last EXCEPT ![h] = 0]
          /\ waited' = [waited EXCEPT ![h] = 0]
          /\ jumps' = [jumps EXCEPT ![h] = 0]
          /\ UNCHANGED <<clock, main>>
    BY <1>3 DEF Subscribe
  <2>2. g # h
    BY <2>1
  <2>3. /\ published[g] /\ jumps[g] = 0
        /\ waited'[g] = waited[g] /\ last'[g] = last[g]
    BY <2>1, <2>2
  <2>4. InHand(g)' <=> InHand(g)
    BY <2>1
  <2> QED
    BY <2>1, <2>3, <2>4
<1>4. CASE Turn
  BY <1>4, GoOnStays, Numbers DEF Turn
<1>5. CASE NotDue
  BY <1>5, GoOnStays, Numbers DEF NotDue
<1>6. CASE Decide
  <2> SUFFICES ASSUME NEW g \in Group, published'[g], jumps'[g] = 0
               PROVE  clock' = (IF InHand(g)' THEN taken' ELSE last'[g])
                               + waited'[g]
    BY DEF ClockTellsWait
  <2>1. /\ clock' = clock /\ taken' = clock /\ last' = last /\ at' = at
        /\ pc = "look" /\ pc' = "publish"
        /\ clock \in Int
    BY <1>6 DEF Decide
  <2>2. CASE g = at
    <3>1. waited'[g] = 0
      BY <1>6, <2>2 DEF Decide
    <3>2. InHand(g)'
      BY <2>1, <2>2
    <3> QED
      BY <2>1, <3>1, <3>2
  <2>3. CASE g # at
    <3>1. published[g] /\ jumps[g] = 0 /\ waited'[g] = waited[g]
      BY <1>6, <2>3 DEF Decide
    <3>2. ~InHand(g) /\ ~InHand(g)'
      BY <2>1, <2>3
    <3>3. clock = last[g] + waited[g]
      BY <3>1, <3>2
    <3> QED
      BY <2>1, <3>1, <3>2, <3>3
  <2> QED
    BY <2>2, <2>3
<1>7. CASE Publish
  BY <1>7 DEF Publish
<1>8. CASE Stamp
  BY <1>8, GoOnStays, Numbers DEF Stamp
<1>9. CASE UNCHANGED vars
  BY <1>9 DEF vars
<1> QED
  BY <1>1, <1>2, <1>3, <1>4, <1>5, <1>6, <1>7, <1>8, <1>9 DEF Next

\* A number below Wrap is its own remainder.
LEMMA NoWrap ==
    ASSUME NEW w \in Nat, NEW n \in 0 .. w - 1
    PROVE  n % w = n
OBVIOUS

\* The time that Due compares with the rate is the time waited.
LEMMA QuotaStep ==
    ASSUME PublisherAssumption, Inv, [Next]_vars
    PROVE  QuotaKept
<1> SUFFICES ASSUME NEW g \in Group, pc = "look", pc' = "publish", at = g,
                    published[g], jumps[g] = 0
             PROVE  waited[g] >= rate[g]
  BY DEF QuotaKept
<1>1. Due(g)
  <2>1. CASE Decide
    BY <2>1 DEF Decide
  <2>2. CASE NotDue
    BY <2>2, GoOnStays DEF NotDue, Inv
  <2>3. CASE Tick \/ SetClock \/ Subscribe \/ Turn \/ Publish \/ Stamp
             \/ UNCHANGED vars
    BY <2>3 DEF Tick, SetClock, Subscribe, Turn, Publish, Stamp, vars, main
  <2> QED
    BY <2>1, <2>2, <2>3 DEF Next
<1>2. clock - last[g] = waited[g] /\ waited[g] \in Nat /\ clock < Wrap
      /\ Wrap \in Nat /\ clock \in Nat /\ last[g] \in Nat
  BY PublisherAssumption
     DEF Inv, TypeOK, ClockTellsWait, InHand, PublisherAssumption
<1>3. (clock - last[g]) % Wrap = waited[g]
  BY <1>2, NoWrap
<1> QED
  BY <1>1, <1>3 DEF Due

\* The types of the state, for any number of groups, any rates and however
\* the clock is set.
THEOREM TypeCorrect == Spec => []TypeOK
<1>1. Init => TypeOK
  BY PublisherAssumption
     DEF Init, TypeOK, Zero, Group, PublisherAssumption
<1>2. TypeOK /\ [Next]_vars => TypeOK'
  BY TypeStep, PublisherAssumption
<1> QED
  BY <1>1, <1>2, PTL DEF Spec

\* For any number of groups, any rates and however the clock is set: between
\* two messages of a group at least its rate passes, unless the clock was set
\* in between.
THEOREM NeverTooOften == Spec => Quota
<1>1. Init => Inv
  BY PublisherAssumption
     DEF Init, Inv, TypeOK, ClockTellsWait, Zero, Group, PublisherAssumption
<1>2. Inv /\ [Next]_vars => Inv'
  BY TypeStep, ClockStep, PublisherAssumption DEF Inv
<1>3. Inv /\ [Next]_vars => [QuotaKept]_vars
  BY QuotaStep, PublisherAssumption
<1> QED
  BY <1>1, <1>2, <1>3, PTL DEF Spec, Quota

-----------------------------------------------------------------------------
(* How long a group waits.                                                 *)

\* The time of the last publication that main has in hand or has stamped.
Held(g) == IF InHand(g) THEN taken ELSE last[g]

\* How many looks at the clock main has finished, at the most, since it last
\* looked whether g was due: those at the groups after g, the turn of the loop
\* and those at the groups before g.
Looks(g) ==
    CASE pc = "loop" -> Groups - g
      [] pc = "look" -> IF at > g THEN at - g - 1 ELSE Groups - g + at
      [] OTHER       -> IF at >= g THEN at - g ELSE Groups - g + at + 1

\* At most so much time has passed since then.
Since(g) == Looks(g) * Busy + spent

Budget(g) == jumps[g] * (rate[g] + Round)

\* Each setting of the clock costs a rate and a round. What a group has waited
\* beyond that is what the clock shows, unless main has not looked at g since
\* the clock was set: then part of the last round is still to come.
Waits(g) ==
    /\ waited[g] <= Budget(g) + rate[g] + Since(g)
    /\ \/ clock >= Held(g) /\ waited[g] <= Budget(g) + (clock - Held(g))
       \/ waited[g] + Round <= Budget(g) + Since(g)

PromptInv == TypeOK /\ spent <= Busy /\ \A g \in Subscribed : Waits(g)

\* A number of looks that grows is a time that grows by as many times Busy.
LEMMA Product ==
    ASSUME NEW i \in Int, NEW j \in Int, NEW n \in Nat
    PROVE  /\ i * n \in Int
           /\ i <= j => i * n <= j * n
           /\ i < j => i * n + n <= j * n
<1>1. i * n \in Int /\ j * n = i * n + (j - i) * n
    OBVIOUS
<1>2. i <= j => (j - i) * n >= 0
    OBVIOUS
<1>3. i < j => (j - i) * n = n + (j - i - 1) * n /\ (j - i - 1) * n >= 0
    OBVIOUS
<1>4. (j - i) * n \in Int /\ (j - i - 1) * n \in Int
    OBVIOUS
<1> QED BY <1>1, <1>2, <1>3, <1>4

\* The numbers in it are numbers, and no time since a look is over a round.
Measured(g) ==
    /\ g \in 1 .. Groups /\ Busy \in Nat /\ Round \in Nat
    /\ Looks(g) \in 0 .. Groups /\ Since(g) \in 0 .. Round
    /\ jumps[g] \in Nat /\ rate[g] \in Nat /\ Budget(g) \in Nat /\ waited[g] \in Nat
    /\ clock \in Nat /\ Held(g) \in 0 .. MaxClock /\ MaxClock \in Nat

LEMMA WaitNumbers ==
    ASSUME PublisherAssumption, TypeOK, spent <= Busy, NEW g \in Group
    PROVE  Measured(g)
<1>1. /\ g \in 1 .. Groups /\ Groups \in Nat /\ Busy \in Nat /\ MaxClock \in Nat
      /\ Rates \subseteq Nat
    BY DEF PublisherAssumption, Group
<1>2. /\ jumps[g] \in Nat /\ rate[g] \in Nat /\ waited[g] \in Nat /\ clock \in Nat
      /\ Held(g) \in 0 .. MaxClock /\ at \in 1 .. Groups /\ spent \in 0 .. Busy
    <2>1. jumps[g] \in Nat /\ waited[g] \in Nat /\ rate[g] \in Rates \cup {0}
        BY DEF TypeOK
    <2>2. clock \in Nat /\ at \in 1 .. Groups /\ spent \in 0 .. Busy
        BY <1>1 DEF TypeOK, Group
    <2>3. Held(g) \in 0 .. MaxClock
        BY DEF TypeOK, Held
    <2>4. rate[g] \in Nat
        <3>1. CASE rate[g] \in Rates
            BY <1>1, <3>1
        <3>2. CASE rate[g] = 0
            BY <3>2
        <3> QED BY <2>1, <3>1, <3>2
    <2> QED BY <2>1, <2>2, <2>3, <2>4
<1>3. Looks(g) \in 0 .. Groups
    BY <1>1, <1>2 DEF Looks
<1>4. Round = Groups * Busy + Busy /\ Groups * Busy \in Nat
    BY <1>1 DEF Round
<1>5. 0 <= Looks(g) * Busy /\ Looks(g) * Busy <= Groups * Busy /\ Looks(g) * Busy \in Int
    <2>1. 0 * Busy = 0 /\ Looks(g) \in Int /\ Groups \in Int /\ 0 \in Int
        BY <1>1, <1>3
    <2> QED BY <1>1, <1>3, <2>1, Product
<1>6. Since(g) \in 0 .. Round
    BY <1>1, <1>2, <1>4, <1>5 DEF Since
<1>7. Budget(g) \in Nat
    <2>1. rate[g] + Round \in Nat
        BY <1>1, <1>2, <1>4
    <2> QED BY <1>2, <2>1 DEF Budget
<1> QED BY <1>1, <1>2, <1>3, <1>4, <1>6, <1>7 DEF Measured

\* A look at the clock that main has finished counts, and the time since it
\* looked at g does not go back, unless it looks at g.
LEMMA LooksGrow ==
    ASSUME PublisherAssumption, TypeOK, spent <= Busy, NEW g \in Subscribed,
           Turn \/ (NotDue /\ at # g) \/ (Decide /\ at # g) \/ Publish \/ Stamp
    PROVE  spent' <= Busy /\ Since(g) <= Since(g)'
<1>1. /\ g \in 1 .. Groups /\ Groups \in Nat /\ Busy \in Nat /\ at \in 1 .. Groups
      /\ spent \in 0 .. Busy /\ g \in Group
      /\ pc \in {"loop", "look", "publish", "stamp"}
    BY DEF Subscribed, TypeOK, PublisherAssumption, Group
<1>2. ASSUME spent' = 0, Looks(g)' \in Int, Looks(g) < Looks(g)'
      PROVE  spent' <= Busy /\ Since(g) <= Since(g)'
    <2>1. Looks(g) \in Int
        BY WaitNumbers, <1>1 DEF Measured
    <2>2. /\ Looks(g) * Busy + Busy <= Looks(g)' * Busy
          /\ Looks(g) * Busy \in Int /\ Looks(g)' * Busy \in Int
        BY <1>1, <1>2, <2>1, Product
    <2> QED BY <1>1, <1>2, <2>2 DEF Since
<1>3. ASSUME spent' = spent, Looks(g)' \in Int, Looks(g) <= Looks(g)'
      PROVE  spent' <= Busy /\ Since(g) <= Since(g)'
    <2>1. Looks(g) \in Int
        BY WaitNumbers, <1>1 DEF Measured
    <2>2. /\ Looks(g) * Busy <= Looks(g)' * Busy
          /\ Looks(g) * Busy \in Int /\ Looks(g)' * Busy \in Int
        BY <1>1, <1>3, <2>1, Product
    <2> QED BY <1>1, <1>3, <2>2 DEF Since
<1>4. ASSUME GoOn(0)
      PROVE  pc' = "look" /\ at' \in 1 .. g
    BY <1>1, <1>4 DEF GoOn, Subscribed, Group
<1>5. ASSUME GoOn(at)
      PROVE  \/ pc' = "loop" /\ at >= g
             \/ pc' = "look" /\ at' \in 1 .. Groups /\ at' > at /\ (at < g => at' <= g)
    BY <1>1, <1>5 DEF GoOn, Subscribed, Group
<1>6. CASE Turn
    <2>1. pc = "loop" /\ spent' = 0 /\ pc' = "look" /\ at' \in 1 .. g
        BY <1>4, <1>6 DEF Turn
    <2>2. Looks(g)' \in Int /\ Looks(g) < Looks(g)'
        BY <1>1, <2>1 DEF Looks
    <2> QED BY <1>2, <2>1, <2>2
<1>7. CASE NotDue /\ at # g
    <2>1. /\ pc = "look" /\ spent' = 0
          /\ \/ pc' = "loop" /\ at >= g
             \/ pc' = "look" /\ at' \in 1 .. Groups /\ at' > at /\ (at < g => at' <= g)
        BY <1>5, <1>7 DEF NotDue
    <2>2. Looks(g)' \in Int /\ Looks(g) < Looks(g)'
        BY <1>1, <1>7, <2>1 DEF Looks
    <2> QED BY <1>2, <2>1, <2>2
<1>8. CASE Decide /\ at # g
    <2>1. pc = "look" /\ spent' = 0 /\ pc' = "publish" /\ at' = at
        BY <1>8 DEF Decide
    <2>2. Looks(g)' \in Int /\ Looks(g) < Looks(g)'
        BY <1>1, <1>8, <2>1 DEF Looks
    <2> QED BY <1>2, <2>1, <2>2
<1>9. CASE Publish
    <2>1. pc = "publish" /\ spent' = spent /\ pc' = "stamp" /\ at' = at
        BY <1>9 DEF Publish
    <2>2. Looks(g)' \in Int /\ Looks(g) <= Looks(g)'
        BY <1>1, <2>1 DEF Looks
    <2> QED BY <1>3, <2>1, <2>2
<1>10. CASE Stamp
    <2>1. /\ pc = "stamp" /\ spent' = spent
          /\ \/ pc' = "loop" /\ at >= g
             \/ pc' = "look" /\ at' \in 1 .. Groups /\ at' > at /\ (at < g => at' <= g)
        BY <1>5, <1>10 DEF Stamp
    <2>2. Looks(g)' \in Int /\ Looks(g) <= Looks(g)'
        BY <1>1, <2>1 DEF Looks
    <2> QED BY <1>3, <2>1, <2>2
<1> QED BY <1>6, <1>7, <1>8, <1>9, <1>10

LEMMA WaitNumbersNext ==
    ASSUME PublisherAssumption, NEW g \in Group
    PROVE  (TypeOK /\ spent <= Busy => Measured(g))'
<1>1. TypeOK /\ spent <= Busy => Measured(g)
    BY WaitNumbers
<1> QED BY <1>1, PTL

\* Waits(g) survives a step that only lets the time since the last look grow.
LEMMA WaitsKept ==
    ASSUME PublisherAssumption, TypeOK, spent <= Busy, TypeOK', spent' <= Busy,
           NEW g \in Group, Waits(g),
           clock' = clock, Held(g)' = Held(g), waited'[g] = waited[g],
           jumps'[g] = jumps[g], rate'[g] = rate[g], Since(g) <= Since(g)'
    PROVE  Waits(g)'
<1>1. Measured(g) /\ Measured(g)'
    BY WaitNumbers, WaitNumbersNext
<1>2. /\ waited[g] \in Int /\ Since(g) \in Int /\ Since(g)' \in Int /\ Budget(g) \in Int
      /\ rate[g] \in Int /\ Held(g) \in Int /\ clock \in Int /\ Round \in Int
    BY <1>1 DEF Measured
<1>3. Budget(g)' = Budget(g)
    BY DEF Budget
<1> QED BY <1>2, <1>3 DEF Waits

\* A group that is subscribed or published anew has waited for no time.
LEMMA WaitsAnew ==
    ASSUME PublisherAssumption, TypeOK', spent' <= Busy, NEW g \in Group,
           waited'[g] = 0, jumps'[g] = 0, clock' >= Held(g)'
    PROVE  Waits(g)'
<1>1. Measured(g)'
    BY WaitNumbersNext
<1>2. /\ Since(g)' \in Nat /\ Budget(g)' \in Nat /\ rate'[g] \in Nat
      /\ Held(g)' \in Int /\ clock' \in Int
    BY <1>1 DEF Measured
<1> QED BY <1>2 DEF Waits

\* With rates below the time that the clock can go back, a group whose stamp
\* lies in the future is due.
LEMMA DueWhenBack ==
    ASSUME PublisherAssumption, \A r \in Rates : r <= Wrap - MaxClock, TypeOK,
           at \in Subscribed, ~Due(at)
    PROVE  clock >= last[at] /\ clock - last[at] < rate[at]
<1>1. /\ clock \in 0 .. MaxClock /\ last[at] \in 0 .. MaxClock /\ rate[at] \in Rates
      /\ MaxClock \in Nat /\ Wrap \in Nat /\ MaxClock < Wrap
    BY Numbers DEF TypeOK, Subscribed
<1>2. rate[at] <= Wrap - MaxClock /\ rate[at] \in Nat
    BY <1>1 DEF PublisherAssumption
<1>3. CASE clock < last[at]
    <2>1. (clock - last[at]) + Wrap \in 0 .. Wrap - 1
        BY <1>1, <1>3
    <2>2. (clock - last[at]) % Wrap = (clock - last[at]) + Wrap
        BY <1>1, <1>3, <2>1
    <2> QED BY <1>1, <1>2, <2>2 DEF Due
<1>4. CASE clock >= last[at]
    <2>1. clock - last[at] \in 0 .. Wrap - 1
        BY <1>1, <1>4
    <2>2. (clock - last[at]) % Wrap = clock - last[at]
        BY <1>1, <2>1, NoWrap
    <2> QED BY <1>1, <1>2, <1>4, <2>2 DEF Due
<1> QED BY <1>1, <1>3, <1>4

\* Every step keeps what a group has waited within its bounds.
LEMMA PromptStep ==
    ASSUME PublisherAssumption, \A r \in Rates : r <= Wrap - MaxClock, PromptInv, [Next]_vars
    PROVE  PromptInv'
<1>1. TypeOK /\ TypeOK' /\ spent <= Busy /\ \A g \in Subscribed : Waits(g)
    BY TypeStep DEF PromptInv
<1>2. Subscribed \subseteq Group /\ Subscribed' \subseteq Group
    BY DEF Subscribed
<1>3. /\ spent \in Nat /\ Busy \in Nat /\ waited \in [Group -> Nat] /\ jumps \in [Group -> Nat]
      /\ clock \in Nat /\ last \in [Group -> 0 .. MaxClock] /\ at \in Group
      /\ rate \in [Group -> Rates \cup {0}]
    BY <1>1 DEF TypeOK, PublisherAssumption
<1>4. CASE Tick
    <2>1. /\ spent' = spent + 1 /\ spent' <= Busy /\ clock' = clock + 1
          /\ UNCHANGED <<rate, last, pc, at, taken, jumps>>
        BY <1>3, <1>4 DEF Tick, group, main
    <2>2. ASSUME NEW g \in Subscribed' PROVE Waits(g)'
        <3>1. g \in Subscribed /\ g \in Group /\ Waits(g)
            BY <1>1, <1>2, <2>1 DEF Subscribed
        <3>2. Measured(g)
            BY <1>1, <3>1, WaitNumbers
        <3>3. Looks(g)' = Looks(g) /\ Held(g)' = Held(g) /\ Budget(g)' = Budget(g)
            BY <2>1 DEF Looks, Held, InHand, Budget
        <3>4. /\ Looks(g) * Busy \in Int /\ Since(g) = Looks(g) * Busy + spent
              /\ Since(g)' = Looks(g) * Busy + spent'
            BY <3>2, <3>3 DEF Since, Measured
        <3>5. Since(g)' = Since(g) + 1
            BY <1>3, <2>1, <3>4
        <3>6. waited'[g] = waited[g] + 1
            BY <1>3, <1>4, <3>1 DEF Tick
        <3>7. /\ waited[g] \in Int /\ Since(g) \in Int /\ Budget(g) \in Int /\ clock \in Int
              /\ rate[g] \in Int /\ Held(g) \in Int /\ Round \in Int
            BY <3>2 DEF Measured
        <3> QED BY <2>1, <3>1, <3>3, <3>5, <3>6, <3>7 DEF Waits
    <2> QED BY <1>1, <2>1, <2>2 DEF PromptInv
<1>5. CASE SetClock
    <2>1. UNCHANGED <<spent, rate, last, pc, at, taken, waited>>
        BY <1>5 DEF SetClock, group, main
    <2>2. ASSUME NEW g \in Subscribed' PROVE Waits(g)'
        <3>1. g \in Subscribed /\ g \in Group /\ Waits(g)
            BY <1>1, <1>2, <2>1 DEF Subscribed
        <3>2. Measured(g)
            BY <1>1, <3>1, WaitNumbers
        <3>3. Since(g)' = Since(g) /\ jumps'[g] = jumps[g] + 1
            BY <1>3, <1>5, <2>1, <3>1 DEF SetClock, Since, Looks
        <3>4. jumps[g] \in Int /\ rate[g] + Round \in Int
            BY <3>2 DEF Measured
        <3>5. Budget(g)' = Budget(g) + (rate[g] + Round)
            BY <2>1, <3>3, <3>4 DEF Budget, Round
        <3>6. /\ waited[g] \in Int /\ Since(g) \in Nat /\ Budget(g) \in Int
              /\ rate[g] \in Nat /\ Round \in Nat
            BY <3>2 DEF Measured
        <3> QED BY <2>1, <3>1, <3>3, <3>5, <3>6 DEF Waits, Round
    <2> QED BY <1>1, <2>1, <2>2 DEF PromptInv
<1>6. CASE Subscribe
    <2>1. PICK h \in Group, r \in Rates \cup {0} :
            /\ at # h \/ pc = "loop"
            /\ rate' = [rate EXCEPT ![h] = r]
            /\ last' = [last EXCEPT ![h] = 0]
            /\ waited' = [waited EXCEPT ![h] = 0]
            /\ jumps' = [jumps EXCEPT ![h] = 0]
            /\ UNCHANGED <<clock, spent, pc, at, taken>>
        BY <1>6 DEF Subscribe, main
    <2>2. ASSUME NEW g \in Subscribed', g # h PROVE Waits(g)'
        <3>1. /\ rate'[g] = rate[g] /\ last'[g] = last[g] /\ waited'[g] = waited[g]
              /\ jumps'[g] = jumps[g]
            BY <1>2, <1>3, <2>1, <2>2
        <3>2. g \in Subscribed /\ g \in Group
            BY <1>2, <2>2, <3>1 DEF Subscribed
        <3>3. Since(g)' = Since(g) /\ Held(g)' = Held(g) /\ Measured(g)
            BY <1>1, <2>1, <3>1, <3>2, WaitNumbers DEF Since, Looks, Held, InHand
        <3> QED BY <1>1, <2>1, <3>1, <3>2, <3>3, WaitsKept DEF Measured
    <2>3. Waits(h)'
        <3>1. waited'[h] = 0 /\ jumps'[h] = 0 /\ Held(h)' = 0
            BY <1>3, <2>1 DEF Held, InHand
        <3> QED BY <1>1, <1>3, <2>1, <3>1, WaitsAnew
    <2> QED BY <1>1, <2>1, <2>2, <2>3 DEF PromptInv
\* The other steps of main keep the clock, the rates and what was waited for.
<1>7. ASSUME NEW g \in Subscribed,
             Turn \/ (NotDue /\ at # g) \/ (Decide /\ at # g) \/ Publish \/ Stamp
      PROVE  spent' <= Busy /\ Waits(g)'
    <2>1. g \in Group /\ Waits(g) /\ spent' <= Busy /\ Since(g) <= Since(g)'
        BY <1>1, <1>2, <1>7, LooksGrow
    <2>2. /\ UNCHANGED <<clock, rate>> /\ waited'[g] = waited[g] /\ jumps'[g] = jumps[g]
        BY <1>3, <1>7, <2>1 DEF Turn, NotDue, Decide, Publish, Stamp, group, history
    <2>3. Held(g)' = Held(g)
        <3>1. CASE Turn \/ (NotDue /\ at # g)
            BY <1>7, <3>1, GoOnStays, <1>1 DEF Turn, NotDue, Held, InHand, group
        <3>2. CASE Decide /\ at # g
            BY <3>2 DEF Decide, Held, InHand, group
        <3>3. CASE Publish
            BY <3>3 DEF Publish, Held, InHand, group
        <3>4. CASE Stamp
            <4>1. pc = "stamp" /\ pc' \in {"loop", "look"} /\ last' = [last EXCEPT ![at] = taken]
                BY <1>1, <3>4, GoOnStays DEF Stamp
            <4> QED BY <1>3, <2>1, <4>1 DEF Held, InHand
        <3> QED BY <1>7, <3>1, <3>2, <3>3, <3>4
    <2> QED BY <1>1, <2>1, <2>2, <2>3, WaitsKept
<1>8. CASE Turn \/ Publish \/ Stamp
    <2>1. Subscribed' = Subscribed /\ spent' <= Busy
        <3>1. rate' = rate /\ spent' \in {0, spent}
            BY <1>8 DEF Turn, Publish, Stamp, group
        <3> QED BY <1>1, <1>3, <3>1 DEF Subscribed
    <2> QED BY <1>1, <1>7, <1>8, <2>1 DEF PromptInv
<1>9. CASE NotDue
    <2>1. Subscribed' = Subscribed /\ spent' = 0 /\ spent' <= Busy
        BY <1>3, <1>9 DEF NotDue, Subscribed, group
    <2>2. ASSUME NEW g \in Subscribed, g = at PROVE Waits(g)'
        <3>1. pc = "look" /\ pc' \in {"look", "loop"} /\ ~Due(g) /\ g \in Group /\ Waits(g)
            BY <1>1, <1>2, <1>9, <2>2, GoOnStays DEF NotDue
        <3>2. /\ UNCHANGED <<clock, rate, waited, jumps>>
              /\ Held(g)' = last[g] /\ Held(g) = last[g]
            BY <1>9, <3>1 DEF NotDue, group, history, Held, InHand
        <3>3. clock >= last[g] /\ clock - last[g] < rate[g]
            BY <1>1, <2>2, <3>1, DueWhenBack
        <3>4. Measured(g) /\ Measured(g)'
            BY <1>1, <2>1, <3>1, WaitNumbers, WaitNumbersNext
        <3>5. /\ waited[g] \in Int /\ Since(g) \in 0 .. Round /\ Since(g)' \in Nat
              /\ Budget(g) \in Int /\ clock \in Int /\ rate[g] \in Nat
              /\ Held(g) \in Int /\ Round \in Nat
            BY <3>4 DEF Measured
        <3>6. waited[g] <= Budget(g) + rate[g] /\ waited[g] <= Budget(g) + (clock - last[g])
            BY <3>1, <3>2, <3>3, <3>5 DEF Waits
        <3>7. Budget(g)' = Budget(g)
            BY <3>2 DEF Budget, Round
        <3> QED BY <3>2, <3>3, <3>5, <3>6, <3>7 DEF Waits
    <2> QED BY <1>1, <1>7, <1>9, <2>1, <2>2 DEF PromptInv
<1>10. CASE Decide
    <2>1. /\ Subscribed' = Subscribed /\ spent' = 0 /\ spent' <= Busy
        BY <1>3, <1>10 DEF Decide, Subscribed, group
    <2>2. ASSUME NEW g \in Subscribed, g = at PROVE Waits(g)'
        <3>1. waited'[g] = 0 /\ jumps'[g] = 0 /\ Held(g)' = clock /\ clock' = clock
            BY <1>3, <1>10, <2>2 DEF Decide, Held, InHand
        <3> QED BY <1>1, <1>2, <1>3, <2>1, <3>1, WaitsAnew
    <2> QED BY <1>1, <1>7, <1>10, <2>1, <2>2 DEF PromptInv
<1>11. CASE UNCHANGED vars
    BY <1>1, <1>11 DEF PromptInv, Waits, Budget, Since, Looks, Held, InHand, Subscribed, Round,
                       vars, group, main, history
<1> QED BY <1>4, <1>5, <1>6, <1>8, <1>9, <1>10, <1>11 DEF Next

\* For any number of groups, any clock and whatever gets lost: no group waits
\* longer for a message than its rate and one round of main, once more for
\* each time the clock was set meanwhile. The rates, 32 bits in the code, lie
\* below the part of the 64 bits of Wrap that the clock never reaches.
THEOREM NeverTooLate ==
    ASSUME \A r \in Rates : r <= Wrap - MaxClock
    PROVE  Spec => []Prompt
<1>1. Init => PromptInv
    <2> SUFFICES ASSUME Init PROVE PromptInv
        OBVIOUS
    <2>1. TypeOK /\ spent = 0 /\ Busy \in Nat
        BY PublisherAssumption DEF Init, TypeOK, Zero, Group, PublisherAssumption
    <2>2. ASSUME NEW g \in Subscribed PROVE Waits(g)
        <3>1. g \in Group /\ Measured(g)
            BY <2>1, PublisherAssumption, WaitNumbers DEF Subscribed
        <3>2. waited[g] = 0 /\ jumps[g] = 0 /\ Held(g) = 0
            BY <3>1 DEF Init, Zero, Held, InHand
        <3>3. Since(g) \in Nat /\ Budget(g) \in Nat /\ rate[g] \in Nat /\ clock \in Nat
            BY <3>1 DEF Measured
        <3> QED BY <3>2, <3>3 DEF Waits
    <2> QED BY <2>1, <2>2 DEF PromptInv
<1>2. PromptInv /\ [Next]_vars => PromptInv'
    BY PromptStep, PublisherAssumption
<1>3. PromptInv => Prompt
    <2> SUFFICES ASSUME PromptInv, NEW g \in Subscribed
                 PROVE  waited[g] <= (1 + jumps[g]) * (rate[g] + Round)
        BY DEF Prompt
    <2>1. Waits(g) /\ Measured(g)
        BY PublisherAssumption, WaitNumbers DEF PromptInv, Subscribed
    <2>2. /\ waited[g] \in Int /\ Since(g) \in 0 .. Round /\ Budget(g) \in Int
          /\ rate[g] \in Int /\ Round \in Int /\ jumps[g] \in Int
        BY <2>1 DEF Measured
    <2>3. waited[g] <= Budget(g) + rate[g] + Round
        BY <2>1, <2>2 DEF Waits
    <2>4. (1 + jumps[g]) * (rate[g] + Round) = Budget(g) + (rate[g] + Round)
        <3>1. ASSUME NEW i \in Int, NEW n \in Int PROVE (1 + i) * n = i * n + n
            OBVIOUS
        <3>2. rate[g] + Round \in Int
            BY <2>2
        <3> QED BY <2>2, <3>1, <3>2 DEF Budget
    <2> QED BY <2>2, <2>3, <2>4
<1> QED BY <1>1, <1>2, <1>3, PTL DEF Spec
=============================================================================
