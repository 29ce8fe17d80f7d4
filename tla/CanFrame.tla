------------------------------- MODULE CanFrame -------------------------------
(***************************************************************************)
(* How a variable is taken out of a CAN frame: mask_can_frame, which picks *)
(* the bits init_bit .. end_bit of the data, and var_cast, which prints    *)
(* them as a number of the sensor's type.                                  *)
(*                                                                         *)
(* A word of the machine is a function from the numbers of its bits, 0 the *)
(* least significant one, to bits. The code has ByteBits = 8, Bytes = 8    *)
(* (CAN_MAX_DLEN, and the size of uint64_t) and Wrap = 2^32.               *)
(***************************************************************************)
EXTENDS Integers, Sequences

CONSTANTS
    ByteBits,  \* bits of a byte
    Bytes,     \* bytes of a word, and at most in a frame
    Wrap       \* a uint32_t counts modulo this

Word      == ByteBits * Bytes
Positions == 0 .. Word - 1
Bit       == {0, 1}
Byte      == [0 .. ByteBits - 1 -> Bit]
Words     == [Positions -> Bit]

ASSUME CanFrameAssumption ==
    /\ ByteBits \in Nat \ {0}
    /\ Bytes \in Nat \ {0}
    /\ Wrap \in Nat
    /\ Wrap > Word

-----------------------------------------------------------------------------
(* Operations of the machine on words.                                     *)

Zero == [i \in Positions |-> 0]
One  == [i \in Positions |-> IF i = 0 THEN 1 ELSE 0]

And(v, w) == [i \in Positions |-> IF v[i] = 1 THEN w[i] ELSE 0]
Or(v, w)  == [i \in Positions |-> IF v[i] = 1 THEN 1 ELSE w[i]]

\* Subtracting one flips the bits up to the lowest one that is set.
Minus1(w) == [i \in Positions |->
                IF \E j \in 0 .. i - 1 : w[j] = 1 THEN w[i] ELSE 1 - w[i]]

Left(w, n)  == [i \in Positions |-> IF i >= n THEN w[i - n] ELSE 0]
Right(w, n) == [i \in Positions |-> IF i + n < Word THEN w[i + n] ELSE 0]

\* A shift by the size of the word or more is undefined: some machines take
\* the count modulo that size, others shift everything out.
ShiftLeft(w, n)  == IF n < Word THEN {Left(w, n)}  ELSE {Left(w, n % Word), Zero}
ShiftRight(w, n) == IF n < Word THEN {Right(w, n)} ELSE {Right(w, n % Word), Zero}

-----------------------------------------------------------------------------
(* mask_can_frame                                                          *)

Widen(byte) == [i \in Positions |-> IF i < ByteBits THEN byte[i] ELSE 0]

\* The word after each round of the loop that reads the data, first byte first.
ReadData(data) ==
    LET read[n \in 0 .. Len(data)] ==
            IF n = 0 THEN Zero
            ELSE Or(Left(read[n - 1], ByteBits), Widen(data[n]))
    IN  read

UniData(data) == ReadData(data)[Len(data)]

VarLength(init, end) == (end - init + 1) % Wrap

\* A fault: the length is taken to be one less.
MaskShiftOneMore(data, init, end) ==
    (ByteBits * Len(data) - VarLength(init, end) - init + 1) % Wrap

MaskShift(data, init, end) ==
    (ByteBits * Len(data) - VarLength(init, end) - init) % Wrap

\* What the function may store in var_addr.
MaskCanFrame(data, init, end) ==
    LET shift == MaskShift(data, init, end)
        masks == UNION {ShiftLeft(Minus1(m), shift) :
                            m \in ShiftLeft(One, VarLength(init, end))}
    IN  UNION {ShiftRight(And(m, UniData(data)), shift) : m \in masks}

-----------------------------------------------------------------------------
(* What the variable is. Bits are counted as they come on the bus, the     *)
(* most significant bit of a byte first.                                   *)

Fits(data, init, end) ==
    /\ init <= end
    /\ end < ByteBits * Len(data)
    /\ end - init + 1 < Word

FrameBit(data, k) == data[k \div ByteBits + 1][ByteBits - 1 - (k % ByteBits)]

Variable(data, init, end) ==
    [i \in Positions |-> IF i <= end - init THEN FrameBit(data, end - i) ELSE 0]

-----------------------------------------------------------------------------
(* var_cast, for the types of integers. The text of a number is as good as *)
(* the type and the bits it was made from.                                 *)

Octets == [Uint8 |-> 1, Int8 |-> 1, Uint16 |-> 2, Int16 |-> 2,
           Uint32 |-> 4, Int32 |-> 4, Uint64 |-> 8, Int64 |-> 8]

\* What parse_can_frame has in the text before the cast.
Unread == [type |-> "000", bits |-> <<>>]

VarCast(w, type) ==
    IF type \in DOMAIN Octets
    THEN [type |-> type, bits |-> [i \in 0 .. ByteBits * Octets[type] - 1 |-> w[i]]]
    ELSE Unread
=============================================================================
