---------------------------- MODULE MeasurementMC ----------------------------
(* An instance of Measurement: bytes of two bits, frames of two bytes.     *)
EXTENDS Measurement, TLC

byte(hi, lo) == 0 :> lo @@ 1 :> hi

\* A number across the bytes of the frame, another that is wider than its
\* type, and a type that is not known.
SomeConfigs ==
    {[can_id |-> 1, init_bit |-> 1, end_bit |-> 3, type |-> "Uint16"],
     [can_id |-> 1, init_bit |-> 0, end_bit |-> 2, type |-> "Int8"],
     [can_id |-> 2, init_bit |-> 0, end_bit |-> 0, type |-> "Bool"]}

\* The frame of one byte is too short for the first two.
SomeFrames ==
    {[can_id |-> 1, data |-> <<byte(1, 0), byte(1, 1)>>],
     [can_id |-> 1, data |-> <<byte(1, 0)>>],
     [can_id |-> 2, data |-> <<byte(1, 1), byte(0, 1)>>]}
=============================================================================
