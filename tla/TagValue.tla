------------------------------- MODULE TagValue -------------------------------
(* What becomes of a command's value on its way from the payload of a      *)
(* message to the request on the modbus: text, a double in the Tag, an int *)
(* for the callback, 16 bits in the ModbusTag, a bit or a word on the line.*)
EXTENDS Integers

Word   == 65536                  \* values of an uint16_t
IntMax == 2147483647
IntMin == -2147483647 - 1

(* A payload either starts with a digit, when what counts of it is the     *)
(* whole part of the float nearest to the number it spells, or begins as   *)
(* "true" or "false" do, or it is no value at all: empty, a sign, another  *)
(* word.  "huge" is a number no int can hold.                              *)
Payload == [kind : {"number", "huge", "true", "false", "other"}, whole : 0 .. IntMax]

Converts(p) == p.kind # "other"

(* Tag::intValue: a double out of range has no defined conversion; the     *)
(* processors this runs on give one of the ends of the range.              *)
IntValues(p) ==
  IF p.kind = "huge" THEN {IntMin, IntMax}
  ELSE {IF p.kind = "number" THEN p.whole ELSE IF p.kind = "true" THEN 1 ELSE 0}

TruncatedNot(n) == n            \* faulty: the int is kept as it is
Truncated(n) == n % Word

(* ModbusTag::setRawValue: bits for the types i and q, words for r. *)
RawValue(datatype, n) ==
  IF datatype = "r" THEN Truncated(n) ELSE IF Truncated(n) > 0 THEN 1 ELSE 0

FunctionCode(datatype) == IF datatype = "r" THEN 6 ELSE 5

(* The value in the request: getRawValue for a word, getBoolValue else. *)
LineValue(datatype, raw) ==
  IF datatype = "r" THEN raw ELSE IF raw = 0 THEN 0 ELSE 1
=============================================================================
