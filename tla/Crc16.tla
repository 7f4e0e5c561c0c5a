-------------------------------- MODULE Crc16 --------------------------------
(* The checksum of datatag.cpp by which the topic of a message is looked   *)
(* up in the tag store: a shift register of 16 bits that divides by the    *)
(* polynomial x^16 + x^15 + x^2 + 1.  A topic is a sequence of characters' *)
(* codes; a register is the set of the places of the bits that are set.    *)
EXTENDS Integers, Sequences, FiniteSetsExt

Places   == 0 .. 15
Register == SUBSET Places      \* uint16_t
Char     == 0 .. 255

PolynomialEven == {2, 15}      \* faulty: 0x8004, without the constant term
Polynomial == {0, 2, 15}       \* CRC16, 0x8005

Shifted(reg, bit) == {i + 1 : i \in reg \ {15}} \cup (IF bit THEN {0} ELSE {})

(* One turn of the loops: a bit is shifted in, and the polynomial taken    *)
(* away if a bit was pushed out.                                           *)
Step(reg, bit) ==
  IF 15 \in reg THEN SymDiff(Shifted(reg, bit), Polynomial) ELSE Shifted(reg, bit)

Power == <<1, 2, 4, 8, 16, 32, 64, 128>>

CharBit(char, k) == (char \div Power[k]) % 2 = 1

(* The n-th bit that is shifted in: those of the topic, the least          *)
(* significant of a character first, and 16 more to push them out.         *)
Turns(topic) == 8 * Len(topic) + 16

BitOf(topic, n) ==
  n <= 8 * Len(topic) /\ CharBit(topic[((n - 1) \div 8) + 1], ((n - 1) % 8) + 1)

(* The register after each turn. *)
Registers(topic) ==
  LET reg[n \in 0 .. Turns(topic)] ==
        IF n = 0 THEN {} ELSE Step(reg[n - 1], BitOf(topic, n))
  IN  reg

(* The result is the register with its bits reversed. *)
Crc(topic) == {15 - i : i \in Registers(topic)[Turns(topic)]}

(* Topics of one length that differ in two neighbouring characters at most. *)
Neighbours(t, u) ==
  /\ Len(t) = Len(u)
  /\ \E k \in 1 .. Len(t) : \A i \in DOMAIN t : i \notin {k, k + 1} => t[i] = u[i]
=============================================================================
