-------------------------- MODULE Measurement_proofs --------------------------
(***************************************************************************)
(* What mask_can_frame computes, what the sensors show and what a GET of   *)
(* their values answers, for any sensors, connections and frames.          *)
(***************************************************************************)
EXTENDS Measurement, DataLemmas

-----------------------------------------------------------------------------
(* What mask_can_frame computes, for every size of byte and word           *)

LEMMA WordType == Word \in Nat \ {0}
BY CanFrameAssumption DEF Word

\* A count below the modulus is what it is.
LEMMA SmallMod ==
    ASSUME NEW n \in Nat, n < Wrap
    PROVE  n % Wrap = n
BY CanFrameAssumption

\* For a variable that fits, no shift is undefined and no count wraps.
LEMMA ShiftsDefined ==
    ASSUME NEW data \in Seq(Byte), Len(data) <= Bytes,
           NEW init \in Nat, NEW end \in Nat, Fits(data, init, end)
    PROVE  /\ VarLength(init, end) = end - init + 1
           /\ MaskShift(data, init, end) = ByteBits * Len(data) - 1 - end
           /\ MaskShift(data, init, end) \in Nat
           /\ MaskShift(data, init, end) + VarLength(init, end) <= Word
<1> DEFINE total == ByteBits * Len(data)
<1>1. Len(data) \in Nat
  OBVIOUS
<1>2. total \in Nat /\ total <= Word
  BY <1>1, CanFrameAssumption DEF Word
<1> HIDE DEF total
<1>3. end - init + 1 \in Nat /\ end - init + 1 < Wrap
  BY CanFrameAssumption, WordType DEF Fits
<1>4. VarLength(init, end) = end - init + 1
  BY <1>3, SmallMod DEF VarLength
<1>5. end < total
  BY DEF Fits, total
<1>6. total - VarLength(init, end) - init = total - 1 - end
  BY <1>2, <1>4
<1>7. total - 1 - end \in Nat /\ total - 1 - end < Wrap
  BY <1>2, <1>5, CanFrameAssumption, WordType
<1>8. MaskShift(data, init, end) = total - 1 - end
  BY <1>6, <1>7, SmallMod DEF MaskShift, total
<1>9. MaskShift(data, init, end) + VarLength(init, end) <= Word
  <2>1. end - init + 1 + (total - 1 - end) = total - init
    BY <1>2
  <2> QED
    BY <2>1, <1>2, <1>4, <1>8, WordType
<1> QED
  BY <1>4, <1>7, <1>8, <1>9 DEF total

\* The mask before it is moved: as many ones as the variable has bits.
Ones(n) == [i \in Positions |-> IF i < n THEN 1 ELSE 0]

LEMMA MaskIsOnes ==
    ASSUME NEW n \in Nat, n < Word
    PROVE  Minus1(Left(One, n)) = Ones(n)
<1> DEFINE w == Left(One, n)
<1>1. \A i \in Positions : w[i] = IF i = n THEN 1 ELSE 0
  BY WordType DEF Left, One, Positions
<1>2. n \in Positions
  BY WordType DEF Positions
<1> HIDE DEF w
<1>3. ASSUME NEW i \in Positions
      PROVE  (IF \E j \in 0 .. i - 1 : w[j] = 1 THEN w[i] ELSE 1 - w[i])
                 = IF i < n THEN 1 ELSE 0
  <2>1. 0 .. i - 1 \subseteq Positions
    BY WordType DEF Positions
  <2>2. (\E j \in 0 .. i - 1 : w[j] = 1) <=> n < i
    BY <1>1, <1>2, <2>1, WordType DEF Positions
  <2>3. i \in Int
    BY WordType DEF Positions
  <2> QED
    BY <1>1, <2>2, <2>3
<1> QED
  BY <1>3 DEF Minus1, Ones, w

\* The n bits of u from number shift on.
Picked(u, n, shift) ==
    [i \in Positions |-> IF i < n THEN u[i + shift] ELSE 0]

LEMMA MaskedBits ==
    ASSUME NEW u, NEW n \in Nat, NEW shift \in Nat, shift + n <= Word
    PROVE  Right(And(Left(Ones(n), shift), u), shift) = Picked(u, n, shift)
<1> DEFINE v == And(Left(Ones(n), shift), u)
<1>1. ASSUME NEW i \in Positions, i + shift < Word
      PROVE  v[i + shift] = IF i < n THEN u[i + shift] ELSE 0
  <2>1. i + shift \in Positions /\ i \in Int
    BY <1>1, WordType DEF Positions
  <2>2. Left(Ones(n), shift)[i + shift] = IF i < n THEN 1 ELSE 0
    <3>1. i + shift >= shift /\ (i + shift) - shift = i
      BY WordType DEF Positions
    <3>2. Left(Ones(n), shift)[i + shift] = Ones(n)[i]
      BY <2>1, <3>1 DEF Left
    <3> QED
      BY <3>2 DEF Ones
  <2> QED
    BY <2>1, <2>2 DEF And
<1> HIDE DEF v
<1>2. ASSUME NEW i \in Positions
      PROVE  (IF i + shift < Word THEN v[i + shift] ELSE 0)
                 = IF i < n THEN u[i + shift] ELSE 0
  BY <1>1, WordType DEF Positions
<1> QED
  BY <1>2 DEF Right, Picked, v

-----------------------------------------------------------------------------
(* The loop that reads the data                                            *)

\* The recursive definition of the loop defines what it says.
LEMMA ReadDataDef ==
    ASSUME NEW data, Len(data) \in Nat
    PROVE  ReadData(data) = [n \in 0 .. Len(data) |->
               IF n = 0 THEN Zero
               ELSE Or(Left(ReadData(data)[n - 1], ByteBits), Widen(data[n]))]
<1> DEFINE F(f, k) == IF k = 0 THEN Zero ELSE Or(Left(f[k - 1], ByteBits), Widen(data[k]))
           Is(f, m) == f = [k \in 0 .. m |-> F(f, k)]
<1>1. ReadData(data) = CHOOSE f : Is(f, Len(data))
  BY DEF ReadData
<1> HIDE DEF F
<1> DEFINE S == {m \in Nat : \E f : Is(f, m)}
<1>2. 0 \in S
  <2> DEFINE f == [k \in 0 .. 0 |-> Zero]
  <2>1. \A k \in 0 .. 0 : F(f, k) = Zero
    BY DEF F
  <2>2. Is(f, 0)
    BY <2>1
  <2> QED
    BY <2>2
<1>3. ASSUME NEW m \in Nat, m \in S PROVE m + 1 \in S
  <2>1. PICK f : Is(f, m)
    BY <1>3
  <2> DEFINE g == [k \in 0 .. m + 1 |-> IF k <= m THEN f[k] ELSE F(f, m + 1)]
  <2>2. ASSUME NEW k \in 0 .. m + 1 PROVE F(g, k) = F(f, k)
    <3>1. CASE k = 0
      BY <3>1 DEF F
    <3>2. CASE k # 0
      <4>1. k - 1 \in 0 .. m + 1 /\ k - 1 <= m
        BY <3>2
      <4>2. g[k - 1] = f[k - 1]
        BY <4>1
      <4> QED
        BY <3>2, <4>2 DEF F
    <3> QED
      BY <3>1, <3>2
  <2>3. ASSUME NEW k \in 0 .. m + 1 PROVE g[k] = F(g, k)
    <3>1. CASE k <= m
      <4>1. k \in 0 .. m
        BY <3>1
      <4>2. f[k] = F(f, k)
        BY <2>1, <4>1
      <4> QED
        BY <2>2, <3>1, <4>2
    <3>2. CASE ~(k <= m)
      <4>1. k = m + 1
        BY <3>2
      <4> QED
        BY <2>2, <3>2, <4>1
    <3> QED
      BY <3>1, <3>2
  <2>4. Is(g, m + 1)
    <3>1. g = [k \in 0 .. m + 1 |-> g[k]]
      OBVIOUS
    <3> HIDE DEF g
    <3> QED
      BY <2>3, <3>1
  <2> HIDE DEF g
  <2>5. \E h : Is(h, m + 1)
    BY <2>4
  <2> QED
    BY <2>5
<1>4. \E f : Is(f, Len(data))
  <2>1. Nat \subseteq S
    <3> HIDE DEF S
    <3> QED
      BY <1>2, <1>3, SetInduction
  <2> QED
    BY <2>1
<1> QED
  BY <1>1, <1>4 DEF F

LEMMA Division ==
    ASSUME NEW b \in Nat \ {0}, NEW q \in Int, NEW r \in 0 .. b - 1,
           NEW a, a = b * q + r
    PROVE  a \div b = q /\ a % b = r
<1> DEFINE d == a \div b
           m == a % b
<1>1. a \in Int /\ d \in Int /\ m \in 0 .. b - 1 /\ a = b * d + m
  OBVIOUS
<1> HIDE DEF d, m
<1>2. b * (q - d) = m - r
  BY <1>1
<1>3. CASE q - d >= 1
  <2>1. b * (q - d) >= b
    BY <1>1, <1>3
  <2> QED
    BY <1>1, <1>2, <2>1
<1>4. CASE q - d <= -1
  <2>1. b * (q - d) <= -b
    BY <1>1, <1>4
  <2> QED
    BY <1>1, <1>2, <2>1
<1>5. CASE q = d
  BY <1>1, <1>5 DEF d, m
<1>6. q - d >= 1 \/ q - d <= -1 \/ q = d
  BY <1>1
<1> QED
  BY <1>3, <1>4, <1>5, <1>6

LEMMA Divided ==
    ASSUME NEW b \in Nat \ {0}, NEW a \in Nat
    PROVE  /\ a \div b \in Nat
           /\ a % b \in 0 .. b - 1
           /\ a = b * (a \div b) + (a % b)
OBVIOUS

\* The first n bytes of the data in a word, the n-th in its lowest bits.
Joined(data, n) ==
    [i \in Positions |-> IF i < ByteBits * n
                         THEN data[n - i \div ByteBits][i % ByteBits] ELSE 0]

\* The bit of a joined word is a bit of the data.
LEMMA JoinedIsBit ==
    ASSUME NEW data \in Seq(Byte), NEW n \in 0 .. Len(data), NEW i \in Positions
    PROVE  Joined(data, n)[i] \in Bit
<1>1. CASE i < ByteBits * n
  <2>1. i \in Nat /\ ByteBits \in Nat \ {0}
    BY CanFrameAssumption DEF Positions
  <2> DEFINE q == i \div ByteBits
             r == i % ByteBits
  <2>2. q \in Nat /\ r \in 0 .. ByteBits - 1 /\ i = ByteBits * q + r
    BY <2>1, Divided
  <2> HIDE DEF q, r
  <2>3. q < n
    <3>1. CASE q >= n
      <4>1. ByteBits * q >= ByteBits * n
        BY <2>1, <2>2, <3>1
      <4> QED
        BY <1>1, <2>1, <2>2, <4>1
    <3> QED
      BY <2>2, <3>1
  <2>4. n - q \in 1 .. Len(data)
    BY <2>2, <2>3
  <2>5. data[n - q] \in Byte
    BY <2>4
  <2>6. data[n - q][r] \in Bit
    BY <2>2, <2>5 DEF Byte
  <2> QED
    BY <1>1, <2>6 DEF Joined, q, r
<1>2. CASE ~(i < ByteBits * n)
  BY <1>2 DEF Joined, Bit
<1> QED
  BY <1>1, <1>2

LEMMA JoinByte ==
    ASSUME NEW data \in Seq(Byte), NEW n \in 1 .. Len(data)
    PROVE  Or(Left(Joined(data, n - 1), ByteBits), Widen(data[n])) = Joined(data, n)
<1> DEFINE prev == Joined(data, n - 1)
           left == Left(prev, ByteBits)
<1>1. n - 1 \in 0 .. Len(data) /\ n \in Nat
  OBVIOUS
<1>2. ByteBits \in Nat \ {0}
  BY CanFrameAssumption
<1>3. ASSUME NEW i \in Positions
      PROVE  (IF left[i] = 1 THEN 1 ELSE Widen(data[n])[i]) = Joined(data, n)[i]
  <2>1. i \in Nat
    BY DEF Positions
  <2>2. CASE i < ByteBits
    <3>1. left[i] = 0 /\ Widen(data[n])[i] = data[n][i]
      BY <1>2, <2>1, <2>2 DEF Left, Widen
    <3>2. i \div ByteBits = 0 /\ i % ByteBits = i
      BY <1>2, <2>1, <2>2
    <3>3. i < ByteBits * n
      <4>1. ByteBits * n >= ByteBits
        BY <1>2
      <4> QED
        BY <1>2, <2>1, <2>2, <4>1
    <3>4. Joined(data, n)[i] = data[n][i]
      BY <3>2, <3>3, <1>1 DEF Joined
    <3> QED
      BY <3>1, <3>4
  <2>3. CASE i >= ByteBits
    <3> DEFINE h == i - ByteBits
               q == h \div ByteBits
               r == h % ByteBits
    <3>1. h \in Positions /\ h \in Nat
      BY <1>2, <2>1, <2>3, WordType DEF Positions
    <3>2. left[i] = prev[h] /\ Widen(data[n])[i] = 0
      BY <1>2, <2>1, <2>3 DEF Left, Widen
    <3>3. prev[h] \in Bit
      BY <1>1, <3>1, JoinedIsBit
    <3>4. q \in Nat /\ r \in 0 .. ByteBits - 1 /\ h = ByteBits * q + r
      BY <1>2, <3>1, Divided
    <3>5. i \div ByteBits = q + 1 /\ i % ByteBits = r
      <4> DEFINE p == q + 1
      <4>1. p \in Int /\ i = ByteBits * p + r
        BY <1>2, <2>1, <3>4
      <4> HIDE DEF p, q, r
      <4>2. i \div ByteBits = p /\ i % ByteBits = r
        BY <1>2, <3>4, <4>1, Division
      <4> QED
        BY <4>2 DEF p
    <3>6. h < ByteBits * (n - 1) <=> i < ByteBits * n
      BY <1>1, <1>2, <2>1
    <3>7. prev[h] = Joined(data, n)[i]
      <4>1. (n - 1) - q = n - (q + 1)
        BY <1>1, <3>4
      <4>2. prev[h] = IF h < ByteBits * (n - 1) THEN data[(n - 1) - q][r] ELSE 0
        BY <3>1 DEF Joined
      <4>3. Joined(data, n)[i] = IF i < ByteBits * n THEN data[n - (q + 1)][r] ELSE 0
        BY <3>5 DEF Joined
      <4> HIDE DEF h, q, r, prev
      <4> QED
        BY <3>6, <4>1, <4>2, <4>3
    <3> QED
      BY <3>2, <3>3, <3>7 DEF Bit
  <2> QED
    BY <1>2, <2>1, <2>2, <2>3
<1> HIDE DEF left
<1> QED
  BY <1>3 DEF Or, Joined, left

LEMMA UniDataJoins ==
    ASSUME NEW data \in Seq(Byte)
    PROVE  UniData(data) = Joined(data, Len(data))
<1> DEFINE read == ReadData(data)
           S    == {n \in Nat : n <= Len(data) => read[n] = Joined(data, n)}
<1>1. Len(data) \in Nat
  OBVIOUS
<1>2. read = [n \in 0 .. Len(data) |->
                 IF n = 0 THEN Zero ELSE Or(Left(read[n - 1], ByteBits), Widen(data[n]))]
  BY <1>1, ReadDataDef
<1> HIDE DEF read
<1>3. 0 \in S
  <2>1. read[0] = Zero
    BY <1>1, <1>2
  <2>2. \A i \in Positions : ~(i < ByteBits * 0)
    BY CanFrameAssumption DEF Positions
  <2>3. Joined(data, 0) = Zero
    BY <2>2 DEF Joined, Zero
  <2> QED
    BY <2>1, <2>3
<1>4. ASSUME NEW n \in Nat, n \in S PROVE n + 1 \in S
  <2>1. CASE n + 1 <= Len(data)
    <3>1. read[n] = Joined(data, n)
      BY <1>1, <1>4, <2>1
    <3>2. n + 1 \in 1 .. Len(data) /\ (n + 1) - 1 = n
      BY <1>1, <2>1
    <3>3. read[n + 1] = Or(Left(read[n], ByteBits), Widen(data[n + 1]))
      BY <1>2, <3>2
    <3>4. read[n + 1] = Joined(data, n + 1)
      BY <3>1, <3>2, <3>3, JoinByte
    <3> QED
      BY <3>4
  <2> QED
    BY <2>1
<1>5. Nat \subseteq S
  <2> HIDE DEF S
  <2> QED
    BY <1>3, <1>4, SetInduction
<1> QED
  BY <1>1, <1>5 DEF UniData, read

\* Counted from the other end, a bit is in another byte and place.
LEMMA JoinedIsFrameBit ==
    ASSUME NEW data \in Seq(Byte), Len(data) <= Bytes,
           NEW k \in Nat, k < ByteBits * Len(data)
    PROVE  Joined(data, Len(data))[ByteBits * Len(data) - 1 - k] = FrameBit(data, k)
<1> DEFINE len == Len(data)
           q == k \div ByteBits
           r == k % ByteBits
           i == ByteBits * len - 1 - k
<1>1. len \in Nat /\ ByteBits \in Nat \ {0}
  BY CanFrameAssumption
<1>2. q \in Nat /\ r \in 0 .. ByteBits - 1 /\ k = ByteBits * q + r
  BY <1>1, Divided
<1>3. FrameBit(data, k) = data[q + 1][ByteBits - 1 - r]
  BY DEF FrameBit
<1>4. ByteBits * len \in Nat /\ ByteBits * len <= Word
  BY <1>1, CanFrameAssumption DEF Word
<1>5. i \in Positions /\ i < ByteBits * len
  BY <1>1, <1>4, WordType DEF Positions
<1>6. Joined(data, len)[i] = data[len - i \div ByteBits][i % ByteBits]
  BY <1>5 DEF Joined
<1> HIDE DEF q, r, len
<1>7. i = ByteBits * (len - 1 - q) + (ByteBits - 1 - r)
  BY <1>1, <1>2
<1> HIDE DEF i
<1>8. i \div ByteBits = len - 1 - q /\ i % ByteBits = ByteBits - 1 - r
  <2> DEFINE p == len - 1 - q
             s == ByteBits - 1 - r
  <2>1. s \in 0 .. ByteBits - 1 /\ p \in Int /\ i = ByteBits * p + s
    BY <1>1, <1>2, <1>7
  <2> HIDE DEF p, s
  <2>2. i \div ByteBits = p /\ i % ByteBits = s
    BY <1>1, <2>1, Division
  <2> QED
    BY <2>2 DEF p, s
<1>9. len - (len - 1 - q) = q + 1
  BY <1>1, <1>2
<1> QED
  BY <1>3, <1>6, <1>8, <1>9 DEF i, len

-----------------------------------------------------------------------------

\* For a variable that fits in the frame and has fewer bits than a word,
\* mask_can_frame has one outcome, and it is the bits init_bit .. end_bit of
\* the data as they come on the bus, the last one lowest.
THEOREM MaskReturnsBits ==
    ASSUME NEW data \in Seq(Byte), Len(data) <= Bytes,
           NEW init \in Nat, NEW end \in Nat, Fits(data, init, end)
    PROVE  MaskCanFrame(data, init, end) = {Variable(data, init, end)}
<1> DEFINE n     == VarLength(init, end)
           shift == MaskShift(data, init, end)
           u     == UniData(data)
<1>1. /\ n = end - init + 1
      /\ shift = ByteBits * Len(data) - 1 - end
      /\ shift \in Nat
      /\ shift + n <= Word
  BY ShiftsDefined
<1>2. n \in Nat \ {0} /\ n < Word /\ shift < Word
  BY <1>1, WordType DEF Fits
<1>3. MaskCanFrame(data, init, end)
        = UNION {ShiftRight(And(m, u), shift) :
              m \in UNION {ShiftLeft(Minus1(m), shift) : m \in ShiftLeft(One, n)}}
  BY DEF MaskCanFrame
<1> HIDE DEF n, shift, u
<1>4. ShiftLeft(One, n) = {Left(One, n)}
  BY <1>2 DEF ShiftLeft
<1>5. UNION {ShiftLeft(Minus1(m), shift) : m \in ShiftLeft(One, n)}
        = {Left(Ones(n), shift)}
  BY <1>2, <1>4, MaskIsOnes DEF ShiftLeft
<1>6. MaskCanFrame(data, init, end) = {Right(And(Left(Ones(n), shift), u), shift)}
  BY <1>2, <1>3, <1>5 DEF ShiftRight
<1>7. MaskCanFrame(data, init, end) = {Picked(u, n, shift)}
  <2>1. Right(And(Left(Ones(n), shift), u), shift) = Picked(u, n, shift)
    BY <1>1, <1>2, MaskedBits
  <2> QED
    BY <1>6, <2>1
<1>8. ASSUME NEW i \in Positions
      PROVE  (IF i < n THEN u[i + shift] ELSE 0)
                 = IF i <= end - init THEN FrameBit(data, end - i) ELSE 0
  <2>1. i \in Nat /\ (i < n <=> i <= end - init)
    BY <1>1, WordType DEF Positions
  <2>2. CASE i <= end - init
    <3>1. end - i \in Nat /\ end - i < ByteBits * Len(data)
      BY <2>1, <2>2, CanFrameAssumption DEF Fits
    <3>2. i + shift = ByteBits * Len(data) - 1 - (end - i)
      BY <1>1, <2>1, CanFrameAssumption
    <3>3. u[i + shift] = FrameBit(data, end - i)
      BY <3>1, <3>2, UniDataJoins, JoinedIsFrameBit DEF u
    <3> QED
      BY <2>1, <2>2, <3>3
  <2> QED
    BY <2>1, <2>2
<1>9. Picked(u, n, shift) = Variable(data, init, end)
  BY <1>8 DEF Picked, Variable
<1> QED
  BY <1>7, <1>9

-----------------------------------------------------------------------------
(* Types                                                                   *)

Fields == {"value", "timestamp"}
Types  == {c.type : c \in Configs}

\* A sensor whose time is not after n.
SensorUpTo(n) ==
    [can_id : {c.can_id : c \in Configs}, init_bit : Nat, end_bit : Nat,
     type : Types, value : Text, timestamp : 0 .. n]

GetUpTo(p, n) == [pc : {"idle", "value", "timestamp", "done"}, at : 0 .. p,
                  value : Text, timestamp : 0 .. n, since : 0 .. n]

\* What is at work on a sensor points to one.
Points ==
    /\ mpc = "store" => at # Null
    /\ \A c \in Conns : get[c].pc # "idle" => get[c].at # Null

TypeInv == TypeOK /\ Points

LEMMA UpTo ==
    /\ Sensor = SensorUpTo(now)
    /\ [pc : {"idle", "value", "timestamp", "done"}, at : Pointers, value : Text,
        timestamp : 0 .. now, since : 0 .. now] = GetUpTo(Len(sensors), now)
BY DEF Sensor, SensorUpTo, GetUpTo, Pointers, Types

\* What TypeOK says, entry by entry.
LEMMA Typed ==
    ASSUME TypeOK
    PROVE  /\ now \in Nat /\ Len(sensors) \in Nat
           /\ DOMAIN sensors = 1 .. Len(sensors)
           /\ \A p \in DOMAIN sensors : sensors[p] \in SensorUpTo(now)
           /\ \A i \in Ids : table[i] \in 0 .. Len(sensors)
           /\ \A i \in Listed : table[i] \in DOMAIN sensors
           /\ \A n \in 1 .. now : log[n] \in Frames
           /\ \A c \in Conns : get[c] \in GetUpTo(Len(sensors), now)
<1>1. sensors \in Seq(Sensor) /\ log \in Seq(Frames) /\ Len(log) = now
  BY DEF TypeOK
<1>2. now \in Nat /\ Len(sensors) \in Nat /\ DOMAIN sensors = 1 .. Len(sensors)
  BY <1>1
<1>3. \A p \in DOMAIN sensors : sensors[p] \in Sensor
  BY <1>1
<1>4. \A n \in 1 .. now : log[n] \in Frames
  BY <1>1
<1>5. table \in [Ids -> 0 .. Len(sensors)]
  BY DEF TypeOK, Pointers
<1>6. \A c \in Conns : get[c] \in GetUpTo(Len(sensors), now)
  BY UpTo DEF TypeOK
<1> QED
  BY <1>2, <1>3, <1>4, <1>5, <1>6, UpTo DEF Listed, Null

\* Every bit of a word that mask_can_frame may store is a bit.
LEMMA MaskedType ==
    ASSUME NEW data \in Seq(Byte), Len(data) <= Bytes, NEW init \in Nat, NEW end \in Nat,
           NEW w \in MaskCanFrame(data, init, end)
    PROVE  w \in Words
<1> DEFINE u     == UniData(data)
           shift == MaskShift(data, init, end)
<1>1. u \in [Positions -> Bit]
  <2>1. u = Joined(data, Len(data))
    BY UniDataJoins
  <2>2. \A i \in Positions : u[i] \in Bit
    BY <2>1, JoinedIsBit
  <2>3. u = [i \in Positions |-> u[i]]
    BY <2>1 DEF Joined
  <2> QED
    BY <2>2, <2>3
<1>2. shift \in Nat
  <2>1. VarLength(init, end) \in Int
    BY CanFrameAssumption, WordType DEF VarLength
  <2>2. ByteBits * Len(data) \in Int
    BY CanFrameAssumption
  <2>3. ByteBits * Len(data) - VarLength(init, end) - init \in Int
    BY <2>1, <2>2
  <2> QED
    BY <2>3, CanFrameAssumption, WordType DEF MaskShift
<1> HIDE DEF u, shift
<1>3. PICK m : w \in ShiftRight(And(m, u), shift)
  BY DEF MaskCanFrame, u, shift
<1>4. \A i \in Positions : And(m, u)[i] \in Bit
  BY <1>1 DEF And, Bit
<1>5. PICK n \in Nat : w = Right(And(m, u), n) \/ w = Zero
  BY <1>2, <1>3, WordType DEF ShiftRight
<1>6. \A i \in Positions : i + n < Word => i + n \in Positions
  BY <1>5, WordType DEF Positions
<1>7. CASE w = Right(And(m, u), n)
  BY <1>4, <1>6, <1>7 DEF Right, Words, Bit
<1>8. CASE w = Zero
  BY <1>8 DEF Zero, Words, Bit
<1> QED
  BY <1>5, <1>7, <1>8

LEMMA NoWider ==
    ASSUME NEW k \in Nat, NEW b \in Nat, NEW m \in Nat, k <= m
    PROVE  b * k <= b * m
OBVIOUS

\* A word is cast to a text of the type, or left unread.
LEMMA CastType ==
    ASSUME MeasurementAssumption, NEW w \in Words, NEW type \in Types
    PROVE  VarCast(w, type) \in Text
<1>1. CASE type \in DOMAIN Octets
  <2> DEFINE k == Octets[type]
  <2>1. k \in Nat
    BY <1>1 DEF Octets
  <2>2. k <= Bytes
    BY <1>1 DEF MeasurementAssumption, Types
  <2> HIDE DEF k
  <2>3. ByteBits * k <= Word /\ ByteBits * k \in Int
    BY <2>1, <2>2, NoWider, CanFrameAssumption DEF Word
  <2>4. \A i \in 0 .. ByteBits * k - 1 : i \in Positions
    BY <2>3, WordType DEF Positions
  <2>5. [i \in 0 .. ByteBits * k - 1 |-> w[i]] \in [0 .. ByteBits * k - 1 -> Bit]
    BY <2>4 DEF Words
  <2>6. VarCast(w, type) = [type |-> type, bits |-> [i \in 0 .. ByteBits * k - 1 |-> w[i]]]
    BY <1>1 DEF VarCast, k
  <2>7. VarCast(w, type) \in [type : {type}, bits : [0 .. ByteBits * k - 1 -> Bit]]
    BY <2>5, <2>6
  <2> QED
    BY <1>1, <2>7 DEF Text, Types, k
<1>2. CASE type \notin DOMAIN Octets
  BY <1>2 DEF VarCast, Text
<1> QED
  BY <1>1, <1>2

LEMMA NoTextType == NoText \in Text
BY DEF Text

\* What a copy may hold after a frame was parsed.
LEMMA ParsedType ==
    ASSUME MeasurementAssumption, TypeOK, NEW p \in DOMAIN sensors, NEW c \in Parsed(sensors[p])
    PROVE  c.timestamp = now /\ c \in [value : Text, timestamp : 0 .. now]
<1> DEFINE s == sensors[p]
<1>1. frame \in Frames
  BY DEF TypeOK
<1>2. frame.data \in Seq(Byte) /\ Len(frame.data) <= Bytes
  BY <1>1 DEF MeasurementAssumption
<1>3. s.init_bit \in Nat /\ s.end_bit \in Nat /\ s.type \in Types /\ now \in Nat
  BY Typed DEF SensorUpTo
<1>4. PICK w \in MaskCanFrame(frame.data, s.init_bit, s.end_bit) :
        c = [value |-> VarCast(w, s.type), timestamp |-> now]
  BY DEF Parsed
<1>5. w \in Words
  BY <1>2, <1>3, MaskedType
<1>6. VarCast(w, s.type) \in Text
  BY <1>3, <1>5, CastType
<1> QED
  BY <1>3, <1>4, <1>6

\* A list is a function on the numbers up to its length.
LEMMA ListIsFunction ==
    ASSUME NEW S
    PROVE  /\ \A n \in Nat : \A s \in [1 .. n -> S] : s \in Seq(S) /\ Len(s) = n
           /\ \A s \in Seq(S) : s \in [1 .. Len(s) -> S]
OBVIOUS

\* What memcpy leaves: one field of one sensor is that of the copy.
LEMMA StoreEffect ==
    ASSUME TypeOK, NEW field \in Fields, Store(field)
    PROVE  /\ DOMAIN sensors' = DOMAIN sensors /\ Len(sensors') = Len(sensors)
           /\ \A p \in DOMAIN sensors : sensors'[p] =
                 [can_id |-> sensors[p].can_id, init_bit |-> sensors[p].init_bit,
                  end_bit |-> sensors[p].end_bit, type |-> sensors[p].type,
                  value |-> IF p = at /\ field = "value" THEN copy.value ELSE sensors[p].value,
                  timestamp |-> IF p = at /\ field = "timestamp"
                                THEN copy.timestamp ELSE sensors[p].timestamp]
           /\ sensors' \in Seq(SensorUpTo(now))
           /\ mpc = "store" /\ field \in pending
<1> DEFINE new(p) ==
        [can_id |-> sensors[p].can_id, init_bit |-> sensors[p].init_bit,
         end_bit |-> sensors[p].end_bit, type |-> sensors[p].type,
         value |-> IF p = at /\ field = "value" THEN copy.value ELSE sensors[p].value,
         timestamp |-> IF p = at /\ field = "timestamp"
                       THEN copy.timestamp ELSE sensors[p].timestamp]
<1>1. sensors' = [sensors EXCEPT ![at][field] = copy[field]] /\ mpc = "store" /\ field \in pending
  BY DEF Store, TypeOK
<1>2. sensors \in Seq(Sensor) /\ copy \in [value : Text, timestamp : 0 .. now]
  BY DEF TypeOK
<1>3. sensors' = [p \in DOMAIN sensors |->
                    IF p = at THEN [sensors[p] EXCEPT ![field] = copy[field]] ELSE sensors[p]]
  BY <1>1
<1>4. DOMAIN sensors' = DOMAIN sensors
  BY <1>3
<1>5. ASSUME NEW p \in DOMAIN sensors
      PROVE  sensors'[p] = new(p) /\ new(p) \in SensorUpTo(now)
  <2>1. sensors[p] \in SensorUpTo(now)
    BY Typed
  <2>2. CASE field = "value"
    BY <1>2, <1>3, <2>1, <2>2 DEF SensorUpTo
  <2>3. CASE field = "timestamp"
    BY <1>2, <1>3, <2>1, <2>3 DEF SensorUpTo
  <2> QED
    BY <2>2, <2>3 DEF Fields
<1>6. sensors' \in [1 .. Len(sensors) -> SensorUpTo(now)]
  <2>1. DOMAIN sensors = 1 .. Len(sensors) /\ Len(sensors) \in Nat
    BY Typed
  <2> QED
    BY <1>3, <1>5, <2>1
<1>7. sensors' \in Seq(SensorUpTo(now)) /\ Len(sensors') = Len(sensors)
  <2>1. Len(sensors) \in Nat
    BY Typed
  <2> QED
    BY <1>6, <2>1
<1> QED
  BY <1>1, <1>4, <1>5, <1>7

\* What a new sensor leaves of the tables.
LEMMA CreateEffect ==
    ASSUME MeasurementAssumption, TypeOK, NEW i \in Ids, Create(i)
    PROVE  \E c \in Configs, ahead \in BOOLEAN :
              LET p == Len(sensors) + 1 IN
              /\ ahead => mpc # "read"
              /\ DOMAIN sensors' = 1 .. p /\ Len(sensors') = p
              /\ p \notin DOMAIN sensors
              /\ \A q \in DOMAIN sensors : sensors'[q] = sensors[q]
              /\ sensors'[p] = [can_id |-> c.can_id, init_bit |-> c.init_bit,
                                end_bit |-> c.end_bit, type |-> c.type,
                                value |-> NoText, timestamp |-> 0]
              /\ sensors' \in Seq(SensorUpTo(now))
              /\ table[i] = Null /\ table' = [table EXCEPT ![i] = p]
              /\ todo' = IF ahead THEN todo \cup {i} ELSE todo
              /\ DOMAIN last' = 1 .. p /\ DOMAIN stored' = 1 .. p
              /\ last' \in [1 .. p -> 0 .. now] /\ stored' \in [1 .. p -> 0 .. now]
              /\ \A q \in DOMAIN sensors : last'[q] = last[q] /\ stored'[q] = stored[q]
              /\ last'[p] = IF ahead /\ Matches(c, frame) THEN now ELSE 0
              /\ stored'[p] = 0
              /\ UNCHANGED <<frame, now, loop, get, undefined, log>>
<1>1. PICK c \in Configs, ahead \in BOOLEAN :
        /\ ahead => mpc # "read"
        /\ sensors' = Append(sensors,
               [can_id |-> c.can_id, init_bit |-> c.init_bit, end_bit |-> c.end_bit,
                type |-> c.type, value |-> NoText, timestamp |-> 0])
        /\ table' = [table EXCEPT ![i] = Len(sensors')]
        /\ todo' = IF ahead THEN todo \cup {i} ELSE todo
        /\ last' = Append(last, IF ahead /\ Matches(c, frame) THEN now ELSE 0)
        /\ stored' = Append(stored, 0)
  BY DEF Create
<1> DEFINE s == [can_id |-> c.can_id, init_bit |-> c.init_bit, end_bit |-> c.end_bit,
                 type |-> c.type, value |-> NoText, timestamp |-> 0]
           n == IF ahead /\ Matches(c, frame) THEN now ELSE 0
           p == Len(sensors) + 1
<1>2. /\ now \in Nat /\ Len(sensors) \in Nat /\ DOMAIN sensors = 1 .. Len(sensors)
      /\ sensors \in Seq(SensorUpTo(now))
  BY Typed, UpTo DEF TypeOK
<1>3. s \in SensorUpTo(now)
  BY <1>2, NoTextType DEF SensorUpTo, Types, MeasurementAssumption
<1>4. n \in 0 .. now
  BY <1>2
<1>5. last \in Seq(0 .. now) /\ stored \in Seq(0 .. now)
      /\ Len(last) = Len(sensors) /\ Len(stored) = Len(sensors)
  <2>1. last \in [1 .. Len(sensors) -> 0 .. now] /\ stored \in [1 .. Len(sensors) -> 0 .. now]
    BY <1>2 DEF TypeOK
  <2> QED
    BY <1>2, <2>1, ListIsFunction
<1>6. sensors' = Append(sensors, s) /\ last' = Append(last, n) /\ stored' = Append(stored, 0)
  BY <1>1
<1> HIDE DEF s, n
<1>7. /\ Len(sensors') = p /\ DOMAIN sensors' = 1 .. p /\ sensors' \in Seq(SensorUpTo(now))
      /\ \A q \in DOMAIN sensors : sensors'[q] = sensors[q]
      /\ sensors'[p] = s
  BY <1>2, <1>3, <1>6
<1>8. /\ last' \in Seq(0 .. now) /\ Len(last') = p
      /\ \A q \in DOMAIN sensors : last'[q] = last[q]
      /\ last'[p] = n
  BY <1>2, <1>4, <1>5, <1>6
<1>9. /\ stored' \in Seq(0 .. now) /\ Len(stored') = p
      /\ \A q \in DOMAIN sensors : stored'[q] = stored[q]
      /\ stored'[p] = 0
  BY <1>2, <1>5, <1>6
<1>10. last' \in [1 .. p -> 0 .. now] /\ stored' \in [1 .. p -> 0 .. now]
  BY <1>8, <1>9, ListIsFunction
<1>11. p \notin DOMAIN sensors
  BY <1>2
<1>12. table[i] = Null /\ UNCHANGED <<frame, now, loop, get, undefined, log>>
  BY DEF Create
<1> HIDE DEF p
<1>13. table' = [table EXCEPT ![i] = p]
  BY <1>1, <1>7
<1>14. DOMAIN last' = 1 .. p /\ DOMAIN stored' = 1 .. p
  BY <1>10
<1> QED
  <2> SUFFICES
        LET q == Len(sensors) + 1 IN
              /\ ahead => mpc # "read"
              /\ DOMAIN sensors' = 1 .. q /\ Len(sensors') = q
              /\ q \notin DOMAIN sensors
              /\ \A r \in DOMAIN sensors : sensors'[r] = sensors[r]
              /\ sensors'[q] = s
              /\ sensors' \in Seq(SensorUpTo(now))
              /\ table[i] = Null /\ table' = [table EXCEPT ![i] = q]
              /\ todo' = IF ahead THEN todo \cup {i} ELSE todo
              /\ DOMAIN last' = 1 .. q /\ DOMAIN stored' = 1 .. q
              /\ last' \in [1 .. q -> 0 .. now] /\ stored' \in [1 .. q -> 0 .. now]
              /\ \A r \in DOMAIN sensors : last'[r] = last[r] /\ stored'[r] = stored[r]
              /\ last'[q] = n
              /\ stored'[q] = 0
              /\ UNCHANGED <<frame, now, loop, get, undefined, log>>
    BY DEF s, n
  <2> QED
    BY <1>1, <1>7, <1>8, <1>9, <1>10, <1>11, <1>12, <1>13, <1>14 DEF p

\* Every action keeps the types, and what is at work keeps pointing to a sensor.
LEMMA TypeStep ==
    ASSUME MeasurementAssumption, TypeInv, [Next]_vars
    PROVE  TypeInv'
<1>0. TypeOK /\ Points
  BY DEF TypeInv
<1>t. /\ now \in Nat /\ Len(sensors) \in Nat /\ DOMAIN sensors = 1 .. Len(sensors)
      /\ \A i \in Listed : table[i] \in DOMAIN sensors
      /\ \A p \in DOMAIN sensors : sensors[p] \in SensorUpTo(now)
      /\ \A c \in Conns : get[c] \in GetUpTo(Len(sensors), now)
  BY <1>0, Typed
<1>u. /\ Sensor' = SensorUpTo(now')
      /\ [pc : {"idle", "value", "timestamp", "done"}, at : Pointers', value : Text,
          timestamp : 0 .. now', since : 0 .. now'] = GetUpTo(Len(sensors'), now')
  BY DEF Sensor, SensorUpTo, GetUpTo, Pointers, Types
<1> DEFINE GetType == [pc : {"idle", "value", "timestamp", "done"}, at : Pointers, value : Text,
                       timestamp : 0 .. now, since : 0 .. now]
\* Only the GETs change.
<1>g. ASSUME UNCHANGED <<table, sensors, frame, now, loop, todo, undefined, history>>,
             \A c \in Conns : /\ get'[c] \in GetUpTo(Len(sensors), now)
                              /\ get'[c].pc # "idle" => get'[c].at # Null,
             get' = [c \in Conns |-> get'[c]]
      PROVE  TypeInv'
  <2>1. get' \in [Conns -> GetUpTo(Len(sensors), now)]
    BY <1>g
  <2>2. GetUpTo(Len(sensors), now) = GetUpTo(Len(sensors'), now')
    BY <1>g
  <2>3. TypeOK'
    BY <1>0, <1>g, <2>1, <2>2, <1>u
    DEF TypeOK, Pointers, Listed, loop, history, Sensor
  <2>4. Points'
    BY <1>0, <1>g DEF Points, loop
  <2> QED
    BY <2>3, <2>4 DEF TypeInv
<1>1. CASE ReadFrame
  <2>1. now' = now + 1 /\ now' \in Nat /\ 0 .. now \subseteq 0 .. now'
    BY <1>1, <1>t DEF ReadFrame
  <2>2. /\ frame' \in Frames /\ mpc = "read" /\ mpc' = "walk" /\ todo' = Listed
        /\ log' = Append(log, frame')
        /\ UNCHANGED <<table, sensors, at, copy, pending, get, undefined, stored>>
    BY <1>1 DEF ReadFrame
  <2>3. log' \in Seq(Frames) /\ Len(log') = now'
    BY <1>0, <2>1, <2>2 DEF TypeOK
  <2>4. last' \in [DOMAIN sensors -> 0 .. now']
    <3>1. last' = [s \in DOMAIN last |->
                   IF \E i \in Listed : table[i] = s /\ Matches(sensors[s], frame')
                   THEN now' ELSE last[s]]
      BY <1>1 DEF ReadFrame
    <3>2. last \in [DOMAIN sensors -> 0 .. now]
      BY <1>0 DEF TypeOK
    <3> QED
      BY <3>1, <3>2, <2>1, <1>t
  <2>5. sensors' \in Seq(SensorUpTo(now'))
    <3>1. SensorUpTo(now) \subseteq SensorUpTo(now')
      BY <2>1 DEF SensorUpTo
    <3>2. sensors \in [1 .. Len(sensors) -> SensorUpTo(now')]
      BY <3>1, <1>0, <1>t, UpTo, ListIsFunction DEF TypeOK
    <3> QED
      BY <3>2, <2>2, <1>t, ListIsFunction
  <2>6. get' \in [Conns -> GetUpTo(Len(sensors'), now')]
    <3>1. GetUpTo(Len(sensors), now) \subseteq GetUpTo(Len(sensors), now')
      BY <2>1 DEF GetUpTo
    <3>2. get' = get /\ Len(sensors') = Len(sensors) /\ get = [c \in Conns |-> get[c]]
      BY <1>0, <2>2 DEF TypeOK
    <3> QED
      BY <3>1, <3>2, <1>t
  <2>7. copy' \in [value : Text, timestamp : 0 .. now']
    BY <1>0, <2>1, <2>2 DEF TypeOK
  <2>8. stored' \in [DOMAIN sensors' -> 0 .. now']
    BY <1>0, <2>1, <2>2 DEF TypeOK
  <2>9. /\ table' \in [Ids -> Pointers'] /\ todo' \subseteq Listed' /\ at' \in Pointers'
        /\ pending' \subseteq {"value", "timestamp"} /\ (pending' # {} <=> mpc' = "store")
        /\ undefined' \in BOOLEAN
    BY <1>0, <2>2 DEF TypeOK, Pointers, Listed
  <2>10. Points'
    BY <1>0, <2>2 DEF Points
  <2>11. TypeOK'
    BY <2>2, <2>3, <2>4, <2>5, <2>6, <2>7, <2>8, <2>9, <1>u DEF TypeOK
  <2> QED
    BY <2>10, <2>11 DEF TypeInv
<1>2. CASE EndWalk
  BY <1>0, <1>2 DEF EndWalk, TypeInv, TypeOK, Points, Pointers, Listed, Sensor, history
<1>3. CASE UseFreed
  BY <1>0, <1>3 DEF UseFreed, TypeInv, TypeOK, Points, Pointers, Listed, loop, history, Sensor
<1>4. ASSUME NEW i \in Ids, Pass(i)
      PROVE  TypeInv'
  BY <1>0, <1>4 DEF Pass, Rest, TypeInv, TypeOK, Points, Pointers, Listed, loop, history, Sensor
<1>5. ASSUME NEW i \in Ids, Parse(i)
      PROVE  TypeInv'
  <2>1. i \in Listed /\ table[i] \in DOMAIN sensors
    BY <1>0, <1>5, <1>t DEF Parse, TypeOK
  <2>2. copy' \in [value : Text, timestamp : 0 .. now]
    BY <1>0, <1>5, <2>1, ParsedType DEF Parse
  <2>3. /\ todo' = todo \ {i} /\ mpc' = "store" /\ at' = table[i] /\ at' # Null
        /\ pending' = {"value", "timestamp"}
        /\ UNCHANGED <<table, sensors, frame, now, get, undefined, history>>
    BY <1>5, <1>t, <2>1 DEF Parse, Rest, Null
  <2>4. at' \in Pointers
    BY <2>1, <2>3, <1>t DEF Pointers
  <2> QED
    BY <1>0, <2>2, <2>3, <2>4 DEF TypeInv, TypeOK, Points, Pointers, Listed, history, Sensor
<1>6. ASSUME NEW field \in Fields, Store(field)
      PROVE  TypeInv'
  <2>1. /\ DOMAIN sensors' = DOMAIN sensors /\ Len(sensors') = Len(sensors)
        /\ sensors' \in Seq(SensorUpTo(now)) /\ mpc = "store" /\ field \in pending
    BY <1>0, <1>6, StoreEffect
  <2>2. /\ pending' = pending \ {field}
        /\ UNCHANGED <<table, frame, now, todo, get, undefined, log, last>>
        /\ IF pending' = {}
           THEN /\ mpc' = "walk" /\ at' = Null /\ copy' = NoCopy
                /\ stored' = [stored EXCEPT ![at] = now]
           ELSE UNCHANGED <<mpc, at, copy, stored>>
    BY <1>6 DEF Store
  <2>3. stored' \in [DOMAIN sensors -> 0 .. now]
    BY <1>0, <1>t, <2>2 DEF TypeOK
  <2>4. copy' \in [value : Text, timestamp : 0 .. now]
    BY <1>0, <1>t, <2>2, NoTextType DEF TypeOK, NoCopy
  <2>5. at' \in Pointers
    BY <1>0, <1>t, <2>2 DEF TypeOK, Pointers, Null
  <2>6. pending' # {} <=> mpc' = "store"
    BY <2>1, <2>2
  <2>7. Pointers' = Pointers /\ Listed' = Listed /\ SensorUpTo(now') = SensorUpTo(now)
    BY <2>1, <2>2 DEF Pointers, Listed
  <2>8. TypeOK'
    BY <1>0, <1>u, <2>1, <2>2, <2>3, <2>4, <2>5, <2>6, <2>7 DEF TypeOK
  <2>9. Points'
    BY <1>0, <2>2 DEF Points
  <2> QED
    BY <2>8, <2>9 DEF TypeInv
<1>7. ASSUME NEW i \in Ids, Create(i)
      PROVE  TypeInv'
  <2> DEFINE p == Len(sensors) + 1
  <2>1. PICK ahead \in BOOLEAN :
          /\ ahead => mpc # "read"
          /\ DOMAIN sensors' = 1 .. p /\ Len(sensors') = p
          /\ sensors' \in Seq(SensorUpTo(now))
          /\ table[i] = Null /\ table' = [table EXCEPT ![i] = p]
          /\ todo' = IF ahead THEN todo \cup {i} ELSE todo
          /\ last' \in [1 .. p -> 0 .. now] /\ stored' \in [1 .. p -> 0 .. now]
          /\ UNCHANGED <<frame, now, loop, get, undefined, log>>
    BY <1>0, <1>7, CreateEffect
  <2>2. Pointers' = 0 .. p /\ Pointers \subseteq 0 .. p /\ p \in 0 .. p /\ p # Null
    BY <2>1, <1>t DEF Pointers, Null
  <2>3. table' \in [Ids -> Pointers']
    BY <1>0, <2>1, <2>2 DEF TypeOK
  <2>4. Listed' = Listed \cup {i}
    BY <1>0, <2>1, <2>2 DEF Listed, TypeOK
  <2>5. todo' \subseteq Listed' /\ (mpc' = "read" => todo' = {})
    BY <1>0, <2>1, <2>4 DEF TypeOK, loop
  <2>6. get' \in [Conns -> GetUpTo(Len(sensors'), now')]
    <3>1. GetUpTo(Len(sensors), now) \subseteq GetUpTo(p, now)
      BY <1>t DEF GetUpTo
    <3>2. get' = get /\ get = [c \in Conns |-> get[c]] /\ Len(sensors') = p /\ now' = now
      BY <1>0, <2>1 DEF TypeOK
    <3> QED
      BY <3>1, <3>2, <1>t
  <2>7. at' \in Pointers'
    BY <1>0, <2>1, <2>2 DEF TypeOK, loop
  <2> HIDE DEF p
  <2>8. TypeOK'
    BY <1>0, <1>u, <2>1, <2>3, <2>5, <2>6, <2>7 DEF TypeOK, loop
  <2>9. Points'
    BY <1>0, <2>1 DEF Points, loop
  <2> QED
    BY <2>8, <2>9 DEF TypeInv
<1>8. ASSUME NEW i \in Ids, Delete(i)
      PROVE  TypeInv'
  <2>1. /\ table' = [table EXCEPT ![i] = Null] /\ todo' = todo \ {i}
        /\ UNCHANGED <<sensors, frame, now, loop, get, undefined, history>>
    BY <1>8 DEF Delete
  <2>2. table' \in [Ids -> Pointers']
    BY <1>0, <1>t, <2>1 DEF TypeOK, Pointers, Null
  <2>3. todo' \subseteq Listed' /\ Pointers' = Pointers
    BY <1>0, <2>1 DEF TypeOK, Listed, Pointers
  <2>4. TypeOK'
    BY <1>0, <2>1, <2>2, <2>3 DEF TypeOK, loop, history, Sensor
  <2>5. Points'
    BY <1>0, <2>1 DEF Points, loop
  <2> QED
    BY <2>4, <2>5 DEF TypeInv
<1>9. ASSUME NEW c \in Conns, Lookup(c) \/ GetValue(c) \/ GetTimestamp(c)
      PROVE  TypeInv'
  <2>0. UNCHANGED <<table, sensors, frame, now, loop, todo, undefined, history>>
    BY <1>9 DEF Lookup, GetValue, GetTimestamp
  <2>1. get' = [get EXCEPT ![c] = get'[c]] /\ get = [d \in Conns |-> get[d]]
    BY <1>0, <1>9 DEF Lookup, GetValue, GetTimestamp, TypeOK
  <2>2. CASE Lookup(c)
    <3>1. PICK i \in Listed :
            get' = [get EXCEPT ![c] = [NoGet EXCEPT !.pc = "value", !.at = table[i],
                                                    !.since = stored[table[i]]]]
      BY <2>2 DEF Lookup
    <3>2. table[i] \in DOMAIN sensors /\ table[i] # Null /\ stored[table[i]] \in 0 .. now
      BY <1>0, <1>t DEF TypeOK, Null
    <3>3. get'[c] = [pc |-> "value", at |-> table[i], value |-> NoText, timestamp |-> 0,
                     since |-> stored[table[i]]]
      BY <3>1, <2>1 DEF NoGet
    <3>4. get'[c] \in GetUpTo(Len(sensors), now) /\ get'[c].at # Null
      BY <3>2, <3>3, <1>t, NoTextType DEF GetUpTo
    <3> QED
      BY <1>0, <1>t, <1>g, <2>0, <2>1, <3>4 DEF Points
  <2>3. CASE GetValue(c)
    <3>1. get[c].at \in DOMAIN sensors /\ get[c].pc = "value"
      BY <1>0, <1>t, <2>3 DEF Points, GetValue, Null, GetUpTo
    <3>2. get'[c] = [pc |-> "timestamp", at |-> get[c].at, value |-> sensors[get[c].at].value,
                     timestamp |-> get[c].timestamp, since |-> get[c].since]
      BY <1>t, <2>1, <2>3 DEF GetValue, GetUpTo
    <3>3. get'[c] \in GetUpTo(Len(sensors), now) /\ get'[c].at # Null
      BY <3>1, <3>2, <1>t DEF GetUpTo, SensorUpTo, Null
    <3> QED
      BY <1>0, <1>t, <1>g, <2>0, <2>1, <3>3 DEF Points
  <2>4. CASE GetTimestamp(c)
    <3>1. get[c].at \in DOMAIN sensors /\ get[c].pc = "timestamp"
      BY <1>0, <1>t, <2>4 DEF Points, GetTimestamp, Null, GetUpTo
    <3>2. get'[c] = [pc |-> "done", at |-> get[c].at, value |-> get[c].value,
                     timestamp |-> sensors[get[c].at].timestamp, since |-> get[c].since]
      BY <1>t, <2>1, <2>4 DEF GetTimestamp, GetUpTo
    <3>3. get'[c] \in GetUpTo(Len(sensors), now) /\ get'[c].at # Null
      BY <3>1, <3>2, <1>t DEF GetUpTo, SensorUpTo, Null
    <3> QED
      BY <1>0, <1>t, <1>g, <2>0, <2>1, <3>3 DEF Points
  <2> QED
    BY <1>9, <2>2, <2>3, <2>4
<1>10. CASE UNCHANGED vars
  BY <1>0, <1>10 DEF vars, TypeInv, TypeOK, Points, Pointers, Listed, loop, history, Sensor
<1> QED
  BY <1>1, <1>2, <1>3, <1>4, <1>5, <1>6, <1>7, <1>8, <1>9, <1>10
  DEF Next, Main, Handlers, Fields

\* The first state is of its type.
LEMMA TypeFromInit ==
    ASSUME MeasurementAssumption, Init
    PROVE  TypeInv
<1>1. frame \in Frames
  BY DEF Init, MeasurementAssumption
<1>2. sensors \in Seq(Sensor) /\ log \in Seq(Frames) /\ Len(log) = 0 /\ Len(sensors) = 0
  BY DEF Init
<1>3. last \in [DOMAIN sensors -> 0 .. now] /\ stored \in [DOMAIN sensors -> 0 .. now]
  <2>1. <<>> \in Seq(0 .. now) /\ Len(<<>>) = 0
    OBVIOUS
  <2>2. DOMAIN <<>> = 1 .. 0
    OBVIOUS
  <2> QED
    BY <2>1, <2>2, ListIsFunction DEF Init
<1>4. table \in [Ids -> Pointers] /\ Listed = {}
  BY <1>2 DEF Init, Pointers, Null, Listed
<1>5. copy \in [value : Text, timestamp : 0 .. now]
  BY NoTextType DEF Init, NoCopy
<1>6. get \in [Conns -> GetUpTo(Len(sensors), now)]
  BY <1>2, NoTextType DEF Init, NoGet, GetUpTo, Null
<1>7. /\ mpc = "read" /\ todo = {} /\ pending = {} /\ undefined = FALSE /\ at = Null
      /\ now = 0
  BY DEF Init
<1>8. at \in Pointers
  BY <1>2, <1>7 DEF Pointers, Null
<1>9. TypeOK
  BY <1>1, <1>2, <1>3, <1>4, <1>5, <1>6, <1>7, <1>8, UpTo DEF TypeOK
<1> QED
  BY <1>9 DEF Init, Points, NoGet, TypeInv

\* Every variable of the measurements is of its type.
THEOREM TypeCorrect ==
    ASSUME MeasurementAssumption
    PROVE  Spec => []TypeOK
<1>1. Init => TypeInv
  BY TypeFromInit
<1>2. TypeInv /\ [Next]_vars => TypeInv'
  BY TypeStep
<1>3. TypeInv => TypeOK
  BY DEF TypeInv
<1> QED
  BY <1>1, <1>2, <1>3, PTL DEF Spec

-----------------------------------------------------------------------------
(* What the sensors show                                                   *)

\* Shows, for any log.
ShowsIn(l, s, v, n) ==
    IF n = 0 THEN v = NoText
    ELSE /\ l[n].can_id = s.can_id
         /\ Fits(l[n].data, s.init_bit, s.end_bit) =>
                v = VarCast(Variable(l[n].data, s.init_bit, s.end_bit), s.type)

\* Sensor s shows what is to be shown of frame n, and its time.
Current(l, s, n) == s.timestamp = n /\ ShowsIn(l, s, s.value, n)

\* Text v is of a frame from m to k.
ValueSince(l, s, v, m, k) == \E n \in m .. k : ShowsIn(l, s, v, n)

\* Time t is that of a frame for s, and not before m.
TimeSince(l, s, t, m) == t >= m /\ (t > 0 => l[t].can_id = s.can_id)

\* During a walk the frame is the last one read.
FrameIsLast == mpc # "read" => now # 0 /\ frame = log[now]

\* The copy is what the sensor is to show of that frame, and what has been
\* copied back of it is in the sensor.
CopyIsNow ==
    mpc = "store" =>
        /\ at # Null
        /\ sensors[at].can_id = frame.can_id
        /\ last[at] = now
        /\ copy.timestamp = now
        /\ ShowsIn(log, sensors[at], copy.value, now)
        /\ "value" \notin pending => sensors[at].value = copy.value
        /\ "timestamp" \notin pending => sensors[at].timestamp = now

\* A sensor that is still to be walked over is to show the last frame, or
\* shows an earlier one, and is to.
Awaits ==
    \A i \in todo :
        IF sensors[table[i]].can_id = frame.can_id THEN last[table[i]] = now
        ELSE Current(log, sensors[table[i]], last[table[i]])

\* Every other one shows the last frame meant for it, unless it is being stored.
Shown ==
    \A i \in Listed \ todo :
        Storing(table[i]) \/ Current(log, sensors[table[i]], last[table[i]])

ShownInv == TypeInv /\ FrameIsLast /\ CopyIsNow /\ Awaits /\ Shown

LEMMA ShownIsLastFrame ==
    ASSUME Shown PROVE LastFrameShown
BY DEF Shown, LastFrameShown, Current, ShowsIn, Shows

\* r is s, but for its value and time.
SameSensor(s, r) ==
    /\ r.can_id = s.can_id /\ r.init_bit = s.init_bit
    /\ r.end_bit = s.end_bit /\ r.type = s.type

\* What a sensor shows does not change when the log grows, nor with its value and time.
LEMMA ShowsKept ==
    ASSUME NEW l, NEW m, NEW k \in Nat, \A n \in 1 .. k : m[n] = l[n], NEW n \in 0 .. k,
           NEW s, NEW r, SameSensor(s, r), NEW v
    PROVE  ShowsIn(m, r, v, n) <=> ShowsIn(l, s, v, n)
<1>1. CASE n = 0
  BY <1>1 DEF ShowsIn, SameSensor
<1>2. CASE n # 0
  <2>1. n \in 1 .. k
    BY <1>2
  <2>2. m[n] = l[n]
    BY <2>1
  <2> QED
    BY <1>2, <2>2 DEF ShowsIn, SameSensor
<1> QED
  BY <1>1, <1>2

LEMMA CurrentKept ==
    ASSUME NEW l, NEW m, NEW k \in Nat, \A n \in 1 .. k : m[n] = l[n], NEW n \in 0 .. k,
           NEW s, Current(l, s, n)
    PROVE  Current(m, s, n)
BY ShowsKept DEF Current, SameSensor

\* The copy that parse_can_frame makes shows the frame.
LEMMA ParsedShows ==
    ASSUME MeasurementAssumption, TypeOK, now # 0, frame = log[now],
           NEW p \in DOMAIN sensors, sensors[p].can_id = frame.can_id,
           NEW c \in Parsed(sensors[p])
    PROVE  c.timestamp = now /\ ShowsIn(log, sensors[p], c.value, now)
<1> DEFINE s == sensors[p]
<1>1. frame.data \in Seq(Byte) /\ Len(frame.data) <= Bytes
  BY DEF MeasurementAssumption, TypeOK
<1>2. s.init_bit \in Nat /\ s.end_bit \in Nat
  BY Typed DEF SensorUpTo
<1>3. PICK w \in MaskCanFrame(frame.data, s.init_bit, s.end_bit) :
        c = [value |-> VarCast(w, s.type), timestamp |-> now]
  BY DEF Parsed
<1>4. Fits(frame.data, s.init_bit, s.end_bit) =>
         w = Variable(frame.data, s.init_bit, s.end_bit)
  BY <1>1, <1>2, <1>3, MaskReturnsBits
<1> QED
  BY <1>3, <1>4 DEF ShowsIn

\* A step of the main loop or of a handler keeps what the sensors show.
LEMMA ShownStep ==
    ASSUME MeasurementAssumption, ShownInv, [Next]_vars
    PROVE  ShownInv'
<1>0. TypeOK /\ TypeInv /\ FrameIsLast /\ CopyIsNow /\ Awaits /\ Shown
  BY DEF ShownInv, TypeInv
<1>t. /\ now \in Nat /\ Len(sensors) \in Nat /\ DOMAIN sensors = 1 .. Len(sensors)
      /\ \A i \in Listed : table[i] \in DOMAIN sensors
      /\ \A p \in DOMAIN sensors : sensors[p] \in SensorUpTo(now)
      /\ \A p \in DOMAIN sensors : last[p] \in 0 .. now
      /\ todo \subseteq Listed /\ DOMAIN last = DOMAIN sensors /\ log \in Seq(Frames)
      /\ Len(log) = now /\ DOMAIN stored = DOMAIN sensors
  BY <1>0, Typed DEF TypeOK
<1>y. TypeInv'
  BY <1>0, TypeStep
<1>1. CASE ReadFrame
  <2>1. /\ mpc = "read" /\ mpc' = "walk" /\ now' = now + 1 /\ todo' = Listed
        /\ frame' \in Frames /\ log' = Append(log, frame')
        /\ UNCHANGED <<table, sensors, at, copy, pending, get, undefined, stored>>
    BY <1>1 DEF ReadFrame
  <2>2. /\ \A n \in 1 .. now : log'[n] = log[n]
        /\ log'[now'] = frame'
    BY <1>t, <2>1
  <2>3. FrameIsLast'
    BY <1>t, <2>1, <2>2 DEF FrameIsLast
  <2>4. CopyIsNow'
    BY <2>1 DEF CopyIsNow
  <2>5. Listed' = Listed
    BY <2>1 DEF Listed
  <2>6. ASSUME NEW i \in Listed
        PROVE  IF sensors[table[i]].can_id = frame'.can_id THEN last'[table[i]] = now'
               ELSE Current(log', sensors[table[i]], last'[table[i]])
    <3> DEFINE p == table[i]
    <3>1. p \in DOMAIN sensors
      BY <1>t
    <3>2. last'[p] = IF \E j \in Listed : table[j] = p /\ sensors[p].can_id = frame'.can_id
                     THEN now' ELSE last[p]
      BY <1>1, <1>t, <3>1 DEF ReadFrame, Matches
    <3>3. i \notin todo /\ ~Storing(p)
      BY <1>0, <2>1 DEF TypeOK, Storing
    <3>4. Current(log, sensors[p], last[p])
      BY <1>0, <3>3 DEF Shown
    <3>5. last[p] \in 0 .. now
      BY <1>t, <3>1
    <3>6. Current(log', sensors[p], last[p])
      BY <1>t, <2>2, <3>4, <3>5, CurrentKept
    <3> QED
      BY <3>2, <3>6
  <2>7. Awaits'
    BY <2>1, <2>6 DEF Awaits
  <2>8. Shown'
    BY <2>1, <2>5 DEF Shown
  <2> QED
    BY <1>y, <2>3, <2>4, <2>7, <2>8 DEF ShownInv
<1>2. CASE EndWalk
  BY <1>0, <1>y, <1>2
  DEF EndWalk, ShownInv, FrameIsLast, CopyIsNow, Awaits, Shown, Listed, Storing, history
<1>3. CASE UseFreed
  BY <1>0, <1>y, <1>3
  DEF UseFreed, ShownInv, FrameIsLast, CopyIsNow, Awaits, Shown, Listed, Storing, loop, history
<1>4. ASSUME NEW i \in Ids, Pass(i)
      PROVE  ShownInv'
  <2>1. /\ mpc = "walk" /\ i \in todo /\ sensors[table[i]].can_id # frame.can_id
        /\ todo' = todo \ {i}
        /\ UNCHANGED <<table, sensors, frame, now, loop, get, undefined, history>>
    BY <1>4 DEF Pass, Matches, Rest
  <2>2. Current(log, sensors[table[i]], last[table[i]])
    BY <1>0, <2>1 DEF Awaits
  <2>3. FrameIsLast' /\ CopyIsNow'
    BY <1>0, <2>1 DEF FrameIsLast, CopyIsNow, loop, history
  <2>4. Awaits'
    BY <1>0, <2>1 DEF Awaits, history
  <2>5. Shown'
    BY <1>0, <2>1, <2>2 DEF Shown, Listed, Storing, loop, history
  <2> QED
    BY <1>y, <2>3, <2>4, <2>5 DEF ShownInv
<1>5. ASSUME NEW i \in Ids, Parse(i)
      PROVE  ShownInv'
  <2> DEFINE p == table[i]
  <2>1. /\ mpc = "walk" /\ i \in todo /\ sensors[p].can_id = frame.can_id
        /\ todo' = todo \ {i} /\ mpc' = "store" /\ at' = p /\ copy' \in Parsed(sensors[p])
        /\ pending' = Fields
        /\ UNCHANGED <<table, sensors, frame, now, get, undefined, history>>
    BY <1>5 DEF Parse, Matches, Rest, Fields
  <2>2. p \in DOMAIN sensors /\ p # Null
    BY <1>t, <2>1 DEF Null
  <2>3. now # 0 /\ frame = log[now]
    BY <1>0, <2>1 DEF FrameIsLast
  <2>4. copy'.timestamp = now /\ ShowsIn(log, sensors[p], copy'.value, now)
    BY <1>0, <2>1, <2>2, <2>3, ParsedShows
  <2>5. last[p] = now
    BY <1>0, <2>1 DEF Awaits
  <2>6. FrameIsLast'
    BY <2>1, <2>3 DEF FrameIsLast, history
  <2>7. CopyIsNow'
    BY <2>1, <2>2, <2>4, <2>5 DEF CopyIsNow, history, Fields
  <2>8. Awaits'
    BY <1>0, <2>1 DEF Awaits, history
  <2>9. Shown'
    <3>1. Listed' = Listed
      BY <2>1 DEF Listed
    <3>2. ASSUME NEW j \in Listed \ todo'
          PROVE  (mpc' = "store" /\ at' = table[j])
                   \/ Current(log, sensors[table[j]], last[table[j]])
      BY <1>0, <2>1 DEF Shown, Storing
    <3> QED
      BY <2>1, <3>1, <3>2 DEF Shown, Storing, history
  <2> QED
    BY <1>y, <2>6, <2>7, <2>8, <2>9 DEF ShownInv
<1>6. ASSUME NEW field \in Fields, Store(field)
      PROVE  ShownInv'
  <2>1. /\ DOMAIN sensors' = DOMAIN sensors /\ mpc = "store" /\ field \in pending
        /\ \A p \in DOMAIN sensors :
              /\ sensors'[p].can_id = sensors[p].can_id
              /\ sensors'[p].init_bit = sensors[p].init_bit
              /\ sensors'[p].end_bit = sensors[p].end_bit
              /\ sensors'[p].type = sensors[p].type
              /\ sensors'[p].value = IF p = at /\ field = "value" THEN copy.value
                                     ELSE sensors[p].value
              /\ sensors'[p].timestamp = IF p = at /\ field = "timestamp" THEN copy.timestamp
                                         ELSE sensors[p].timestamp
    <3>1. /\ DOMAIN sensors' = DOMAIN sensors /\ mpc = "store" /\ field \in pending
          /\ \A p \in DOMAIN sensors : sensors'[p] =
                [can_id |-> sensors[p].can_id, init_bit |-> sensors[p].init_bit,
                 end_bit |-> sensors[p].end_bit, type |-> sensors[p].type,
                 value |-> IF p = at /\ field = "value" THEN copy.value ELSE sensors[p].value,
                 timestamp |-> IF p = at /\ field = "timestamp"
                               THEN copy.timestamp ELSE sensors[p].timestamp]
      BY <1>0, <1>6, StoreEffect
    <3> QED
      BY <3>1
  <2>2. /\ pending' = pending \ {field} /\ pending \subseteq Fields
        /\ UNCHANGED <<table, frame, now, todo, log, last>>
        /\ IF pending' = {} THEN mpc' = "walk" ELSE UNCHANGED <<mpc, at, copy>>
    BY <1>0, <1>6 DEF Store, TypeOK, Fields
  <2>3. at \in DOMAIN sensors /\ last[at] = now /\ sensors[at].can_id = frame.can_id
        /\ copy.timestamp = now /\ ShowsIn(log, sensors[at], copy.value, now)
        /\ ("value" \notin pending => sensors[at].value = copy.value)
        /\ ("timestamp" \notin pending => sensors[at].timestamp = now)
    BY <1>0, <1>t, <2>1 DEF CopyIsNow, TypeOK, Pointers, Null
  <2>4. \A p \in DOMAIN sensors : \A v : \A n \in 0 .. now :
           ShowsIn(log, sensors'[p], v, n) <=> ShowsIn(log, sensors[p], v, n)
    <3>1. \A p \in DOMAIN sensors : SameSensor(sensors[p], sensors'[p])
      BY <2>1 DEF SameSensor
    <3> QED
      BY <1>t, <3>1, ShowsKept
  <2>5. ASSUME NEW p \in DOMAIN sensors, p # at, NEW n \in 0 .. now,
               Current(log, sensors[p], n)
        PROVE  Current(log, sensors'[p], n)
    BY <2>1, <2>4, <2>5 DEF Current
  <2>6. ("value" \notin pending' => sensors'[at].value = copy.value)
        /\ ("timestamp" \notin pending' => sensors'[at].timestamp = now)
    BY <2>1, <2>2, <2>3
  <2>7. ShowsIn(log, sensors'[at], copy.value, now)
    BY <1>t, <2>3, <2>4
  <2>8. pending' = {} => Current(log, sensors'[at], now)
    BY <2>6, <2>7 DEF Current
  <2>9. FrameIsLast'
    BY <1>0, <2>1, <2>2 DEF FrameIsLast
  <2>10. CopyIsNow'
    BY <1>0, <2>1, <2>2, <2>3, <2>6, <2>7 DEF CopyIsNow
  <2>11. Awaits'
    <3>1. ASSUME NEW i \in todo
          PROVE  IF sensors'[table[i]].can_id = frame.can_id THEN last[table[i]] = now
                 ELSE Current(log, sensors'[table[i]], last[table[i]])
      <4>1. table[i] \in DOMAIN sensors
        BY <1>t
      <4>2. last[table[i]] \in 0 .. now
        BY <1>t, <4>1
      <4> QED
        BY <1>0, <2>1, <2>3, <2>5, <4>1, <4>2 DEF Awaits
    <3> QED
      BY <2>2, <3>1 DEF Awaits
  <2>12. Shown'
    <3>1. ASSUME NEW i \in Listed \ todo
          PROVE  (mpc' = "store" /\ at' = table[i])
                   \/ Current(log, sensors'[table[i]], last[table[i]])
      <4>1. table[i] \in DOMAIN sensors
        BY <1>t
      <4>2. last[table[i]] \in 0 .. now
        BY <1>t, <4>1
      <4>3. CASE table[i] = at
        BY <2>1, <2>2, <2>3, <2>8, <4>3
      <4>4. CASE table[i] # at
        BY <1>0, <2>5, <4>1, <4>2, <4>4 DEF Shown, Storing
      <4> QED
        BY <4>3, <4>4
    <3>2. Listed' = Listed
      BY <2>2 DEF Listed
    <3> QED
      BY <2>2, <3>1, <3>2 DEF Shown, Storing
  <2> QED
    BY <1>y, <2>9, <2>10, <2>11, <2>12 DEF ShownInv
<1>7. ASSUME NEW i \in Ids, Create(i)
      PROVE  ShownInv'
  <2> DEFINE p == Len(sensors) + 1
  <2>1. PICK c \in Configs, ahead \in BOOLEAN :
          /\ ahead => mpc # "read"
          /\ p \notin DOMAIN sensors
          /\ \A q \in DOMAIN sensors : sensors'[q] = sensors[q] /\ last'[q] = last[q]
          /\ sensors'[p] = [can_id |-> c.can_id, init_bit |-> c.init_bit,
                            end_bit |-> c.end_bit, type |-> c.type,
                            value |-> NoText, timestamp |-> 0]
          /\ table[i] = Null /\ table' = [table EXCEPT ![i] = p]
          /\ todo' = IF ahead THEN todo \cup {i} ELSE todo
          /\ last'[p] = IF ahead /\ Matches(c, frame) THEN now ELSE 0
          /\ UNCHANGED <<frame, now, loop, get, undefined, log>>
    BY <1>0, <1>7, CreateEffect
  <2>2. p \in Nat /\ p # Null
    BY <1>t DEF Null
  <2>3. table' \in [Ids -> Nat] /\ table'[i] = p /\ \A j \in Ids \ {i} : table'[j] = table[j]
    BY <1>0, <1>t, <2>1, <2>2 DEF TypeOK, Pointers
  <2> HIDE DEF p
  <2>4. i \notin Listed /\ Listed' = Listed \cup {i} /\ i \in Ids
    BY <2>1, <2>2, <2>3 DEF Listed
  <2>5. FrameIsLast'
    BY <1>0, <2>1 DEF FrameIsLast, loop
  <2>6. CopyIsNow'
    <3>1. mpc = "store" => at \in DOMAIN sensors
      BY <1>0, <1>t DEF CopyIsNow, TypeOK, Pointers, Null
    <3> QED
      BY <1>0, <2>1, <3>1 DEF CopyIsNow, loop
  <2>7. Current(log, sensors'[p], 0)
    BY <2>1 DEF Current, ShowsIn
  <2>8. \A j \in Listed : /\ table'[j] = table[j]
                          /\ sensors'[table[j]] = sensors[table[j]]
                          /\ last'[table[j]] = last[table[j]]
    BY <1>t, <2>1, <2>3, <2>4 DEF Listed
  <2>9. Awaits'
    <3>1. ASSUME NEW j \in todo'
          PROVE  IF sensors'[table'[j]].can_id = frame.can_id THEN last'[table'[j]] = now
                 ELSE Current(log, sensors'[table'[j]], last'[table'[j]])
      <4>1. CASE j = i
        <5>1. ahead
          BY <1>t, <2>1, <2>4, <4>1
        <5> QED
          BY <2>1, <2>3, <2>7, <4>1, <5>1 DEF Matches
      <4>2. CASE j # i
        <5>1. j \in todo /\ j \in Listed
          BY <1>t, <2>1, <4>2
        <5> QED
          BY <1>0, <2>8, <5>1 DEF Awaits
      <4> QED
        BY <4>1, <4>2
    <3> QED
      BY <2>1, <3>1 DEF Awaits, loop
  <2>10. Shown'
    <3>1. ASSUME NEW j \in Listed' \ todo'
          PROVE  (mpc = "store" /\ at = table'[j])
                   \/ Current(log, sensors'[table'[j]], last'[table'[j]])
      <4>1. CASE j = i
        <5>1. ~ahead
          BY <2>1, <4>1
        <5> QED
          BY <2>1, <2>3, <2>7, <4>1, <5>1
      <4>2. CASE j # i
        <5>1. j \in Listed \ todo
          BY <2>1, <2>4, <4>2
        <5> QED
          BY <1>0, <2>8, <5>1 DEF Shown, Storing
      <4> QED
        BY <4>1, <4>2
    <3> QED
      BY <2>1, <3>1 DEF Shown, Storing, loop
  <2> QED
    BY <1>y, <2>5, <2>6, <2>9, <2>10 DEF ShownInv
<1>8. ASSUME NEW i \in Ids, Delete(i)
      PROVE  ShownInv'
  <2>1. /\ i \in Listed /\ table' = [table EXCEPT ![i] = Null] /\ todo' = todo \ {i}
        /\ UNCHANGED <<sensors, frame, now, loop, get, undefined, history>>
    BY <1>8 DEF Delete
  <2>2. Listed' = Listed \ {i} /\ \A j \in Ids \ {i} : table'[j] = table[j]
    BY <1>0, <2>1 DEF Listed, TypeOK, Null
  <2>3. FrameIsLast' /\ CopyIsNow'
    BY <1>0, <2>1 DEF FrameIsLast, CopyIsNow, loop, history
  <2>4. Awaits'
    BY <1>0, <1>t, <2>1, <2>2 DEF Awaits, history, Listed
  <2>5. Shown'
    <3>1. ASSUME NEW j \in Listed' \ todo'
          PROVE  j \in Listed \ todo /\ table'[j] = table[j]
      BY <2>1, <2>2 DEF Listed
    <3> QED
      BY <1>0, <2>1, <3>1 DEF Shown, Storing, loop, history
  <2> QED
    BY <1>y, <2>3, <2>4, <2>5 DEF ShownInv
<1>9. ASSUME NEW c \in Conns, Lookup(c) \/ GetValue(c) \/ GetTimestamp(c)
      PROVE  ShownInv'
  <2>1. UNCHANGED <<table, sensors, frame, now, loop, todo, undefined, history>>
    BY <1>9 DEF Lookup, GetValue, GetTimestamp
  <2> QED
    BY <1>0, <1>y, <2>1
    DEF ShownInv, FrameIsLast, CopyIsNow, Awaits, Shown, Listed, Storing, loop, history
<1>10. CASE UNCHANGED vars
  BY <1>0, <1>y, <1>10
  DEF vars, ShownInv, FrameIsLast, CopyIsNow, Awaits, Shown, Listed, Storing, loop, history
<1> QED
  BY <1>1, <1>2, <1>3, <1>4, <1>5, <1>6, <1>7, <1>8, <1>9, <1>10
  DEF Next, Main, Handlers, Fields

LEMMA ShownFromInit ==
    ASSUME MeasurementAssumption, Init
    PROVE  ShownInv
<1>1. TypeInv
  BY TypeFromInit
<1>2. Listed = {}
  BY DEF Init, Listed
<1> QED
  BY <1>1, <1>2 DEF Init, ShownInv, FrameIsLast, CopyIsNow, Awaits, Shown

\* Between two of its steps, what a sensor shows is of the last frame meant
\* for it, whatever sensors came and went during the walk.
THEOREM SensorsShowLastFrame ==
    ASSUME MeasurementAssumption
    PROVE  Spec => []LastFrameShown
<1>1. Init => ShownInv
  BY ShownFromInit
<1>2. ShownInv /\ [Next]_vars => ShownInv'
  BY ShownStep
<1>3. ShownInv => LastFrameShown
  BY ShownIsLastFrame DEF ShownInv
<1> QED
  BY <1>1, <1>2, <1>3, PTL DEF Spec

-----------------------------------------------------------------------------
(* What a GET of the values answers                                        *)

\* Since the last frame that was copied back in full, the value and the time
\* of a sensor are of frames meant for it, though not always of one frame.
SensorsRecent ==
    \A p \in DOMAIN sensors :
        /\ ValueSince(log, sensors[p], sensors[p].value, stored[p], now)
        /\ TimeSince(log, sensors[p], sensors[p].timestamp, stored[p])

\* The same of what a GET has read, since it began.
ReadSince(g, l, s, k) ==
    /\ g.pc \in {"timestamp", "done"} => ValueSince(l, s, g.value, g.since, k)
    /\ g.pc = "done" => TimeSince(l, s, g.timestamp, g.since)

GetsRecent ==
    \A c \in Conns : get[c].pc # "idle" =>
        /\ get[c].since <= stored[get[c].at]
        /\ ReadSince(get[c], log, sensors[get[c].at], now)

RecentInv == ShownInv /\ SensorsRecent /\ GetsRecent

LEMMA RecentIsAnswered ==
    ASSUME TypeInv, GetsRecent PROVE AnswersRecent
<1> SUFFICES ASSUME NEW c \in Conns, get[c].pc = "done"
             PROVE  LET s == sensors[get[c].at] IN
                    /\ \E n \in get[c].since .. now : Shows(s, get[c].value, n)
                    /\ get[c].timestamp >= get[c].since
                    /\ get[c].timestamp > 0 => log[get[c].timestamp].can_id = s.can_id
  BY DEF AnswersRecent
<1>1. \A s, v, n : ShowsIn(log, s, v, n) <=> Shows(s, v, n)
  BY DEF ShowsIn, Shows
<1> QED
  BY <1>1 DEF GetsRecent, ReadSince, ValueSince, TimeSince

\* Frames that were read stay in the log.
LEMMA SinceKept ==
    ASSUME NEW l, NEW m, NEW k \in Nat, NEW j \in Nat, k <= j,
           \A n \in 1 .. k : m[n] = l[n], NEW a \in Nat, NEW b \in Nat, b <= a,
           NEW s, NEW r, SameSensor(s, r)
    PROVE  /\ \A v : ValueSince(l, s, v, a, k) => ValueSince(m, r, v, b, j)
           /\ \A t \in 0 .. k : TimeSince(l, s, t, a) => TimeSince(m, r, t, b)
<1>1. ASSUME NEW v, ValueSince(l, s, v, a, k)
      PROVE  ValueSince(m, r, v, b, j)
  <2>1. PICK n \in a .. k : ShowsIn(l, s, v, n)
    BY <1>1 DEF ValueSince
  <2>2. n \in 0 .. k /\ n \in b .. j
    OBVIOUS
  <2>3. ShowsIn(m, r, v, n)
    BY <2>1, <2>2, ShowsKept
  <2> QED
    BY <2>2, <2>3 DEF ValueSince
<1>2. ASSUME NEW t \in 0 .. k, TimeSince(l, s, t, a)
      PROVE  TimeSince(m, r, t, b)
  BY <1>2 DEF TimeSince, SameSensor
<1> QED
  BY <1>1, <1>2

\* No step takes back a frame, a sensor, or what was stored in one.
LEMMA HistoryKept ==
    ASSUME MeasurementAssumption, ShownInv, [Next]_vars
    PROVE  /\ now' \in Nat /\ now <= now'
           /\ \A n \in 1 .. now : log'[n] = log[n]
           /\ \A p \in DOMAIN sensors :
                 /\ p \in DOMAIN sensors'
                 /\ SameSensor(sensors[p], sensors'[p])
                 /\ stored[p] <= stored'[p]
<1>0. TypeOK /\ CopyIsNow
  BY DEF ShownInv, TypeInv
<1>t. /\ now \in Nat /\ DOMAIN sensors = 1 .. Len(sensors) /\ Len(sensors) \in Nat
      /\ \A p \in DOMAIN sensors : stored[p] \in 0 .. now
      /\ log \in Seq(Frames) /\ Len(log) = now /\ DOMAIN stored = DOMAIN sensors
  BY <1>0, Typed DEF TypeOK
<1>1. CASE ReadFrame
  BY <1>t, <1>1 DEF ReadFrame, SameSensor
<1>2. ASSUME NEW field \in Fields, Store(field)
      PROVE  /\ UNCHANGED <<now, log>>
             /\ \A p \in DOMAIN sensors :
                   /\ p \in DOMAIN sensors'
                   /\ SameSensor(sensors[p], sensors'[p])
                   /\ stored[p] <= stored'[p]
  <2>1. \A p \in DOMAIN sensors : p \in DOMAIN sensors' /\ SameSensor(sensors[p], sensors'[p])
    <3>1. /\ DOMAIN sensors' = DOMAIN sensors
          /\ \A p \in DOMAIN sensors : sensors'[p] =
                [can_id |-> sensors[p].can_id, init_bit |-> sensors[p].init_bit,
                 end_bit |-> sensors[p].end_bit, type |-> sensors[p].type,
                 value |-> IF p = at /\ field = "value" THEN copy.value ELSE sensors[p].value,
                 timestamp |-> IF p = at /\ field = "timestamp"
                               THEN copy.timestamp ELSE sensors[p].timestamp]
      BY <1>0, <1>2, StoreEffect
    <3> QED
      BY <3>1 DEF SameSensor
  <2>2. /\ UNCHANGED <<now, log>>
        /\ stored' = [stored EXCEPT ![at] = now] \/ stored' = stored
    BY <1>2 DEF Store
  <2>3. \A p \in DOMAIN sensors : stored[p] <= stored'[p]
    BY <1>t, <2>2
  <2> QED
    BY <2>1, <2>2, <2>3
<1>3. ASSUME NEW i \in Ids, Create(i)
      PROVE  /\ UNCHANGED <<now, log>>
             /\ \A p \in DOMAIN sensors :
                   /\ p \in DOMAIN sensors'
                   /\ SameSensor(sensors[p], sensors'[p])
                   /\ stored[p] <= stored'[p]
  <2>1. /\ UNCHANGED <<now, log>> /\ DOMAIN sensors' = 1 .. Len(sensors) + 1
        /\ \A p \in DOMAIN sensors : sensors'[p] = sensors[p] /\ stored'[p] = stored[p]
    BY <1>0, <1>3, CreateEffect
  <2> QED
    BY <1>t, <2>1 DEF SameSensor
<1>4. CASE UNCHANGED <<sensors, now, log, stored>>
  BY <1>t, <1>4 DEF SameSensor
<1>5. CASE EndWalk
  BY <1>4, <1>5 DEF EndWalk, history
<1>6. CASE UseFreed
  BY <1>4, <1>6 DEF UseFreed, history
<1>7. CASE \E i \in Ids : Pass(i) \/ Parse(i) \/ Delete(i)
  BY <1>4, <1>7 DEF Pass, Parse, Delete, history
<1>8. CASE \E c \in Conns : Lookup(c) \/ GetValue(c) \/ GetTimestamp(c)
  BY <1>4, <1>8 DEF Lookup, GetValue, GetTimestamp, history
<1>9. CASE UNCHANGED vars
  BY <1>4, <1>9 DEF vars, history
<1> QED
  BY <1>t, <1>1, <1>2, <1>3, <1>5, <1>6, <1>7, <1>8, <1>9 DEF Next, Main, Handlers, Fields

\* The sensors keep what they showed, or show what was copied.
LEMMA SensorsRecentStep ==
    ASSUME MeasurementAssumption, ShownInv, SensorsRecent, [Next]_vars
    PROVE  SensorsRecent'
<1>0. TypeOK /\ CopyIsNow /\ FrameIsLast /\ TypeInv'
  BY TypeStep DEF ShownInv, TypeInv
<1>t. /\ now \in Nat /\ DOMAIN sensors = 1 .. Len(sensors) /\ Len(sensors) \in Nat
      /\ \A p \in DOMAIN sensors : stored[p] \in 0 .. now /\ sensors[p].timestamp \in 0 .. now
      /\ DOMAIN stored = DOMAIN sensors
  BY <1>0, Typed DEF TypeOK, SensorUpTo
<1>k. /\ now' \in Nat /\ now <= now'
      /\ \A n \in 1 .. now : log'[n] = log[n]
      /\ \A p \in DOMAIN sensors :
            p \in DOMAIN sensors' /\ SameSensor(sensors[p], sensors'[p]) /\ stored[p] <= stored'[p]
  BY HistoryKept
<1>s. ASSUME NEW p \in DOMAIN sensors, stored'[p] = stored[p]
      PROVE  /\ sensors'[p].value = sensors[p].value
                  => ValueSince(log', sensors'[p], sensors'[p].value, stored'[p], now')
             /\ sensors'[p].timestamp = sensors[p].timestamp
                  => TimeSince(log', sensors'[p], sensors'[p].timestamp, stored'[p])
  <2>1. /\ ValueSince(log, sensors[p], sensors[p].value, stored[p], now)
        /\ TimeSince(log, sensors[p], sensors[p].timestamp, stored[p])
    BY DEF SensorsRecent
  <2>2. SameSensor(sensors[p], sensors'[p]) /\ stored[p] \in Nat
        /\ sensors[p].timestamp \in 0 .. now
    BY <1>t, <1>k
  <2>3. /\ \A v : ValueSince(log, sensors[p], v, stored[p], now)
                    => ValueSince(log', sensors'[p], v, stored[p], now')
        /\ \A m \in 0 .. now : TimeSince(log, sensors[p], m, stored[p])
                                => TimeSince(log', sensors'[p], m, stored[p])
    <3>1. /\ now \in Nat /\ now' \in Nat /\ now <= now' /\ stored[p] <= stored[p]
          /\ \A n \in 1 .. now : log'[n] = log[n]
      BY <1>t, <1>k, <2>2
    <3> QED
      BY <2>2, <3>1, SinceKept
  <2> QED
    BY <1>s, <2>1, <2>2, <2>3
<1>1. CASE UNCHANGED <<sensors, stored>>
  BY <1>1, <1>s DEF SensorsRecent
<1>2. ASSUME NEW field \in Fields, Store(field)
      PROVE  SensorsRecent'
  <2>1. /\ DOMAIN sensors' = DOMAIN sensors /\ mpc = "store" /\ field \in pending
        /\ \A p \in DOMAIN sensors : sensors'[p] =
              [can_id |-> sensors[p].can_id, init_bit |-> sensors[p].init_bit,
               end_bit |-> sensors[p].end_bit, type |-> sensors[p].type,
               value |-> IF p = at /\ field = "value" THEN copy.value ELSE sensors[p].value,
               timestamp |-> IF p = at /\ field = "timestamp"
                             THEN copy.timestamp ELSE sensors[p].timestamp]
    BY <1>0, <1>2, StoreEffect
  <2>2. /\ pending' = pending \ {field} /\ pending \subseteq Fields
        /\ UNCHANGED <<frame, now, log>>
        /\ stored' = IF pending' = {} THEN [stored EXCEPT ![at] = now] ELSE stored
    BY <1>0, <1>2 DEF Store, TypeOK, Fields
  <2>3. /\ at \in DOMAIN sensors /\ copy.timestamp = now
        /\ ShowsIn(log, sensors[at], copy.value, now)
        /\ sensors[at].can_id = log[now].can_id
        /\ "value" \notin pending => sensors[at].value = copy.value
        /\ "timestamp" \notin pending => sensors[at].timestamp = now
    BY <1>0, <1>t, <2>1 DEF CopyIsNow, FrameIsLast, TypeOK, Pointers, Null
  <2>4. ASSUME NEW p \in DOMAIN sensors, p # at
        PROVE  /\ ValueSince(log', sensors'[p], sensors'[p].value, stored'[p], now')
               /\ TimeSince(log', sensors'[p], sensors'[p].timestamp, stored'[p])
    <3>1. stored'[p] = stored[p]
      BY <1>t, <2>2, <2>4
    <3>2. sensors'[p].value = sensors[p].value /\ sensors'[p].timestamp = sensors[p].timestamp
      BY <2>1, <2>4
    <3> QED
      BY <1>s, <3>1, <3>2
  <2>5. stored'[at] \in 0 .. now /\ (stored'[at] = stored[at] \/ pending' = {})
    BY <1>t, <2>2, <2>3
  <2>6. ShowsIn(log', sensors'[at], copy.value, now)
    <3>1. SameSensor(sensors[at], sensors'[at]) /\ now \in 0 .. now /\ log' = log
      BY <1>t, <1>k, <2>2, <2>3
    <3> QED
      BY <1>t, <2>3, <3>1, ShowsKept
  <2>7. ValueSince(log', sensors'[at], sensors'[at].value, stored'[at], now')
    <3>1. CASE sensors'[at].value = copy.value
      BY <1>t, <2>2, <2>5, <2>6, <3>1 DEF ValueSince
    <3>2. CASE sensors'[at].value # copy.value
      <4>1. field # "value" /\ "value" \in pending /\ sensors'[at].value = sensors[at].value
        BY <2>1, <2>3, <3>2
      <4>2. stored'[at] = stored[at]
        BY <2>2, <2>5, <4>1
      <4> QED
        BY <1>s, <2>3, <4>1, <4>2
    <3> QED
      BY <3>1, <3>2
  <2>8. TimeSince(log', sensors'[at], sensors'[at].timestamp, stored'[at])
    <3>1. CASE sensors'[at].timestamp = now
      BY <1>t, <1>k, <2>2, <2>3, <2>5, <3>1 DEF TimeSince, SameSensor
    <3>2. CASE sensors'[at].timestamp # now
      <4>1. field # "timestamp" /\ "timestamp" \in pending
            /\ sensors'[at].timestamp = sensors[at].timestamp
        BY <2>1, <2>3, <3>2
      <4>2. stored'[at] = stored[at]
        BY <2>2, <2>5, <4>1
      <4> QED
        BY <1>s, <2>3, <4>1, <4>2
    <3> QED
      BY <3>1, <3>2
  <2> QED
    BY <2>1, <2>4, <2>7, <2>8 DEF SensorsRecent
<1>3. ASSUME NEW i \in Ids, Create(i)
      PROVE  SensorsRecent'
  <2> DEFINE p == Len(sensors) + 1
  <2>1. /\ DOMAIN sensors' = 1 .. p /\ sensors'[p].value = NoText /\ sensors'[p].timestamp = 0
        /\ stored'[p] = 0 /\ UNCHANGED now
        /\ \A q \in DOMAIN sensors : sensors'[q] = sensors[q] /\ stored'[q] = stored[q]
    <3>1. PICK c \in Configs, ahead \in BOOLEAN :
            /\ DOMAIN sensors' = 1 .. p
            /\ sensors'[p] = [can_id |-> c.can_id, init_bit |-> c.init_bit,
                              end_bit |-> c.end_bit, type |-> c.type,
                              value |-> NoText, timestamp |-> 0]
            /\ stored'[p] = 0 /\ UNCHANGED now
            /\ \A q \in DOMAIN sensors : sensors'[q] = sensors[q] /\ stored'[q] = stored[q]
      BY <1>0, <1>3, CreateEffect
    <3> QED
      BY <3>1
  <2>2. ValueSince(log', sensors'[p], NoText, 0, now') /\ TimeSince(log', sensors'[p], 0, 0)
    BY <1>t, <2>1 DEF ValueSince, TimeSince, ShowsIn
  <2>3. \A q \in DOMAIN sensors' : q = p \/ q \in DOMAIN sensors
    BY <1>t, <2>1
  <2> HIDE DEF p
  <2> QED
    BY <1>s, <2>1, <2>2, <2>3 DEF SensorsRecent
<1> QED
  <2>1. \/ \E field \in Fields : Store(field)
        \/ \E i \in Ids : Create(i)
        \/ UNCHANGED <<sensors, stored>>
    BY DEF Next, Main, Handlers, ReadFrame, EndWalk, UseFreed, Pass, Parse, Delete, Lookup,
           GetValue, GetTimestamp, vars, history, Fields
  <2> QED
    BY <1>1, <1>2, <1>3, <2>1

\* What a GET has read stays of a frame since it began.
LEMMA GetsRecentStep ==
    ASSUME MeasurementAssumption, ShownInv, SensorsRecent, GetsRecent, [Next]_vars
    PROVE  GetsRecent'
<1>0. TypeOK /\ Points
  BY DEF ShownInv, TypeInv
<1>t. /\ now \in Nat /\ DOMAIN sensors = 1 .. Len(sensors) /\ Len(sensors) \in Nat
      /\ \A p \in DOMAIN sensors : stored[p] \in 0 .. now /\ sensors[p].timestamp \in 0 .. now
      /\ \A c \in Conns : get[c] \in GetUpTo(Len(sensors), now)
      /\ \A c \in Conns : get[c].pc # "idle" => get[c].at \in DOMAIN sensors
      /\ \A i \in Listed : table[i] \in DOMAIN sensors
  BY <1>0, Typed DEF TypeOK, SensorUpTo, GetUpTo, Points, Null
<1>k. /\ now' \in Nat /\ now <= now'
      /\ \A n \in 1 .. now : log'[n] = log[n]
      /\ \A p \in DOMAIN sensors :
            SameSensor(sensors[p], sensors'[p]) /\ stored[p] <= stored'[p] /\ stored'[p] \in Nat
  <2>1. TypeOK'
    BY TypeStep DEF ShownInv, TypeInv
  <2>2. stored' \in [DOMAIN sensors' -> 0 .. now']
    BY <2>1 DEF TypeOK
  <2> QED
    BY <2>2, HistoryKept
<1> DEFINE Recent(c) == get[c].pc # "idle" =>
                           /\ get[c].since <= stored[get[c].at]
                           /\ ReadSince(get[c], log, sensors[get[c].at], now)
\* A GET that does not go on.
<1>1. ASSUME NEW c \in Conns, get'[c] = get[c], get[c].pc # "idle"
      PROVE  /\ get[c].since <= stored'[get[c].at]
             /\ ReadSince(get[c], log', sensors'[get[c].at], now')
  <2> DEFINE g == get[c]
             p == get[c].at
  <2>1. /\ p \in DOMAIN sensors /\ g.since \in Nat /\ g.timestamp \in 0 .. now
        /\ g.since <= stored[p] /\ ReadSince(g, log, sensors[p], now)
    BY <1>t, <1>1 DEF GetsRecent, GetUpTo
  <2>2. /\ SameSensor(sensors[p], sensors'[p])
        /\ stored[p] \in Nat /\ stored'[p] \in Nat /\ stored[p] <= stored'[p]
    BY <1>t, <1>k, <2>1
  <2>3. /\ \A v : ValueSince(log, sensors[p], v, g.since, now)
                    => ValueSince(log', sensors'[p], v, g.since, now')
        /\ \A m \in 0 .. now : TimeSince(log, sensors[p], m, g.since)
                                => TimeSince(log', sensors'[p], m, g.since)
    <3>1. /\ now \in Nat /\ now' \in Nat /\ now <= now' /\ g.since <= g.since
          /\ \A n \in 1 .. now : log'[n] = log[n]
      BY <1>t, <1>k, <2>1
    <3> HIDE DEF g, p
    <3> QED
      BY <2>1, <2>2, <3>1, SinceKept
  <2> HIDE DEF g, p
  <2>4. g.since <= stored'[p]
    BY <2>1, <2>2
  <2>5. ReadSince(g, log', sensors'[p], now')
    BY <2>1, <2>3 DEF ReadSince
  <2> QED
    BY <2>4, <2>5 DEF g, p
<1>2. CASE get' = get
  BY <1>1, <1>2 DEF GetsRecent
<1>3. ASSUME NEW c \in Conns, Lookup(c) \/ GetValue(c) \/ GetTimestamp(c)
      PROVE  GetsRecent'
  <2>0. UNCHANGED <<sensors, now, log, stored>>
    BY <1>3 DEF Lookup, GetValue, GetTimestamp, history
  <2>1. /\ \A d \in Conns \ {c} : get'[d] = get[d]
        /\ get' = [get EXCEPT ![c] = get'[c]] /\ get = [d \in Conns |-> get[d]]
    BY <1>0, <1>3 DEF Lookup, GetValue, GetTimestamp, TypeOK
  <2>2. ASSUME /\ get'[c].since <= stored[get'[c].at]
               /\ ReadSince(get'[c], log, sensors[get'[c].at], now)
        PROVE  GetsRecent'
    BY <1>1, <2>0, <2>1, <2>2 DEF GetsRecent
  <2>3. CASE Lookup(c)
    <3>1. PICK i \in Listed :
            get' = [get EXCEPT ![c] = [NoGet EXCEPT !.pc = "value", !.at = table[i],
                                                    !.since = stored[table[i]]]]
      BY <2>3 DEF Lookup
    <3>2. get'[c] = [pc |-> "value", at |-> table[i], value |-> NoText, timestamp |-> 0,
                     since |-> stored[table[i]]]
      BY <3>1, <2>1 DEF NoGet
    <3>3. stored[table[i]] \in 0 .. now
      BY <1>t
    <3> QED
      BY <2>2, <3>2, <3>3 DEF ReadSince
  <2>4. CASE GetValue(c)
    <3> DEFINE p == get[c].at
    <3>1. /\ get[c].pc = "value" /\ p \in DOMAIN sensors /\ get[c].since \in Nat
          /\ get[c].since <= stored[p] /\ stored[p] \in Nat
      BY <1>t, <2>4 DEF GetValue, GetsRecent, GetUpTo
    <3>2. get'[c] = [pc |-> "timestamp", at |-> p, value |-> sensors[p].value,
                     timestamp |-> get[c].timestamp, since |-> get[c].since]
      BY <1>t, <2>1, <2>4 DEF GetValue, GetUpTo
    <3>3. ValueSince(log, sensors[p], sensors[p].value, stored[p], now)
      BY <3>1 DEF SensorsRecent
    <3>4. ValueSince(log, sensors[p], sensors[p].value, get[c].since, now)
      BY <1>t, <3>1, <3>3 DEF ValueSince
    <3> HIDE DEF p
    <3> QED
      BY <2>2, <3>1, <3>2, <3>4 DEF ReadSince
  <2>5. CASE GetTimestamp(c)
    <3> DEFINE p == get[c].at
    <3>1. /\ get[c].pc = "timestamp" /\ p \in DOMAIN sensors /\ get[c].since \in Nat
          /\ get[c].since <= stored[p] /\ stored[p] \in Nat
          /\ ValueSince(log, sensors[p], get[c].value, get[c].since, now)
          /\ sensors[p].timestamp \in Nat
      BY <1>t, <2>5 DEF GetTimestamp, GetsRecent, GetUpTo, ReadSince
    <3>2. get'[c] = [pc |-> "done", at |-> p, value |-> get[c].value,
                     timestamp |-> sensors[p].timestamp, since |-> get[c].since]
      BY <1>t, <2>1, <2>5 DEF GetTimestamp, GetUpTo
    <3>3. TimeSince(log, sensors[p], sensors[p].timestamp, stored[p])
      BY <3>1 DEF SensorsRecent
    <3>4. TimeSince(log, sensors[p], sensors[p].timestamp, get[c].since)
      BY <3>1, <3>3 DEF TimeSince
    <3> HIDE DEF p
    <3> QED
      BY <2>2, <3>1, <3>2, <3>4 DEF ReadSince
  <2> QED
    BY <1>3, <2>3, <2>4, <2>5
<1> QED
  <2>1. get' = get \/ \E c \in Conns : Lookup(c) \/ GetValue(c) \/ GetTimestamp(c)
    BY DEF Next, Main, Handlers, ReadFrame, EndWalk, UseFreed, Pass, Parse, Delete, Create, Store,
           vars, history
  <2> QED
    BY <1>2, <1>3, <2>1

\* A GET answers with a value and a time of frames for its sensor, neither
\* from before the frame that the sensor showed when the GET began.
THEOREM GetsAnswerRecent ==
    ASSUME MeasurementAssumption
    PROVE  Spec => []AnswersRecent
<1>1. Init => RecentInv
  <2> SUFFICES ASSUME Init PROVE RecentInv
    OBVIOUS
  <2>1. ShownInv
    BY ShownFromInit
  <2>2. DOMAIN sensors = {} /\ \A c \in Conns : get[c].pc = "idle"
    BY DEF Init, NoGet
  <2> QED
    BY <2>1, <2>2 DEF RecentInv, SensorsRecent, GetsRecent
<1>2. RecentInv /\ [Next]_vars => RecentInv'
  BY ShownStep, SensorsRecentStep, GetsRecentStep DEF RecentInv
<1>3. RecentInv => AnswersRecent
  BY RecentIsAnswered DEF RecentInv, ShownInv
<1> QED
  BY <1>1, <1>2, <1>3, PTL DEF Spec
=============================================================================
