----------------------------- MODULE RegisterMap -----------------------------
(* The register addresses of the configuration file: a number that holds   *)
(* the kind of a register and its place among the slave's registers of     *)
(* that kind.  What ModbusTag makes of them, for reading and for writing.  *)
EXTENDS Integers

MaxAddress == 65535      \* uint16_t

Coil == 0
DiscreteInput == 1
InputRegister == 3
HoldingRegister == 4

RegisterType(addr) ==
  IF 0 <= addr /\ addr <= 9999 THEN Coil
  ELSE IF 10000 <= addr /\ addr <= 19999 THEN DiscreteInput
  ELSE IF 30000 <= addr /\ addr <= 39999 THEN InputRegister
  ELSE IF 40000 <= addr /\ addr <= 49999 THEN HoldingRegister
  ELSE -1

(* Faulty: the registers of a kind are counted from 1. *)
ModbusAddressFromOne(addr) == addr - 10000 * RegisterType(addr) - 1

(* The place on the modbus, for a register that has a type. *)
ModbusAddress(addr) == addr - 10000 * RegisterType(addr)

(* What the functions of libmodbus read or write at a place: FC 5 writes   *)
(* a coil, FC 6 a holding register.                                        *)
Written(fc, place) == IF fc = 5 THEN place ELSE 10000 * HoldingRegister + place
=============================================================================
