------------------------------ MODULE KnxData ------------------------------
(***************************************************************************)
(* The datapoint types of knx/proto/data.c: a value to an application      *)
(* protocol data unit (APDU) and back.  An APDU is a sequence of octets;   *)
(* the two high bits of the first belong to the frame around it.  The      *)
(* types that are copied as they are (char, integers, float32) are one     *)
(* type, "asis", whose value is its octets in memory.  A float16 value is  *)
(* counted in hundredths, which is what its mantissa counts.               *)
(***************************************************************************)
EXTENDS Integers, Sequences

Octet == 0..255
Bit(b, n) == (b \div 2^n) % 2
Invalid == [ok |-> FALSE]
Valid(v) == [ok |-> TRUE, value |-> v]

(* The largest magnitudes; the exponent is what brings x into 12 bits,     *)
(* and the mantissa is cut towards zero.                                   *)
Clip(x) == IF x > 67076096 THEN 67076096
           ELSE IF x < -67108864 THEN -67108864 ELSE x
Exponent(x) == CHOOSE e \in 0..15 :
    /\ -2048 * 2^e <= x /\ x <= 2047 * 2^e
    /\ \A f \in 0..(e - 1) : x < -2048 * 2^f \/ x > 2047 * 2^f
Mantissa(x, e) == IF x < 0 THEN -((-x) \div 2^e) ELSE x \div 2^e

(* m = ~(~m + 1) takes one from a negative mantissa, whose eleven low bits *)
(* are then stored.                                                        *)
knx_dpt_generate_float16(value) ==
    LET x == Clip(value)
        e == Exponent(x)
        cut == Mantissa(x, e)
        m == IF cut < 0 THEN cut - 1 ELSE cut
    IN  << (IF m < 0 THEN 128 ELSE 0) + e * 8 + ((m % 2048) \div 256), m % 256 >>

knx_dpt_float16_parse(apdu) ==
    LET m == (apdu[2] % 8) * 256 + apdu[3] - 2048 * Bit(apdu[2], 7)
    IN  m * 2^((apdu[2] \div 8) % 16)

(* Mutant: the bit that says up or down is one place off.                  *)
StepShifted(v) == 4 * v.control + (v.step % 8)

knx_dpt_generate_cstep(v) == 8 * v.control + (v.step % 8)

(* knx_dpt_to_apdu keeps the two high bits of what was in the first octet. *)
(* The day of the week is shifted out of its octet.                        *)
knx_dpt_to_apdu(type, v, first) ==
    LET top == 64 * (first \div 64) IN
    CASE type = "bool"    -> <<top + v>>
      [] type = "cvalue"  -> <<top + 2 * v.control + v.value>>
      [] type = "cstep"   -> <<top + knx_dpt_generate_cstep(v)>>
      [] type = "asis"    -> <<top>> \o v
      [] type = "float16" -> <<top>> \o knx_dpt_generate_float16(v)
      [] type = "time"    -> <<top, ((v.day % 8) \div 32) + (v.hour % 24),
                               v.minute % 60, v.second % 60>>
      [] type = "date"    -> <<top, v.day % 32, v.month % 13, v.year % 100>>

(* The length a type is sent with; size is that of an "asis" type.         *)
knx_dpt_size(type, size) ==
    CASE type \in {"bool", "cvalue", "cstep"} -> 1
      [] type = "asis"            -> size + 1
      [] type = "float16"         -> 3
      [] type \in {"time", "date"} -> 4

LongEnough(apdu, type, size) ==
    IF type = "asis" THEN Len(apdu) >= size + 1
                     ELSE Len(apdu) = knx_dpt_size(type, size)

knx_dpt_from_apdu(apdu, type, size) ==
    IF ~LongEnough(apdu, type, size) THEN Invalid ELSE Valid(
    CASE type = "bool"    -> apdu[1] % 2
      [] type = "cvalue"  -> [control |-> Bit(apdu[1], 1), value |-> apdu[1] % 2]
      [] type = "cstep"   -> [control |-> Bit(apdu[1], 3), step |-> apdu[1] % 8]
      [] type = "asis"    -> SubSeq(apdu, 2, size + 1)
      [] type = "float16" -> knx_dpt_float16_parse(apdu)
      [] type = "time"    -> [day |-> apdu[2] \div 32, hour |-> (apdu[2] % 32) % 24,
                              minute |-> (apdu[3] % 64) % 60,
                              second |-> (apdu[4] % 64) % 60]
      [] type = "date"    -> [day |-> apdu[2] % 32, month |-> (apdu[3] % 16) % 13,
                              year |-> (apdu[4] % 128) % 100])
=============================================================================
