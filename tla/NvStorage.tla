----------------------------- MODULE NvStorage ------------------------------
(***************************************************************************)
(* The non-volatile store: src/src/platform/BACnetStorage.cpp and the      *)
(* typed accessors of nvdata.c, on the three families of boards.           *)
(*                                                                         *)
(* A handler that stores something makes a list of calls of write().  They *)
(* are queued in todo and reach the cells one after the other, so that the *)
(* power can fail between any two of them.                                 *)
(***************************************************************************)
EXTENDS Integers, Sequences

CONSTANTS
  Backends,       \* families of boards considered
  Cells,          \* addresses considered
  FirstContents,  \* what the cells may hold when the board is first powered
  MaxLosses       \* bound on the losses of power in a behaviour

Byte == 0 .. 255
Long == {n \in Nat : n <= 16777215}  \* what three octets make
Contents == [Cells -> Byte]
Zeroed == [a \in Cells |-> 0]
ErasedCells == [a \in Cells |-> 255]

ASSUME StorageAssumption ==
  /\ Backends \subseteq {"AVR", "ESP32", "STM32"}
  /\ Cells \subseteq Nat
  /\ FirstContents \subseteq Contents
  /\ MaxLosses \in Nat

VARIABLES backend, eeprom, todo, losses
storage == << backend, eeprom, todo, losses >>

Write(addr, bytes) == [addr |-> addr, bytes |-> bytes]
Writes == [addr : Nat, bytes : Seq(Byte) \ {<< >>}]

\* The static buffer of the STM32 starts as zeros and is never flushed.
StorageInit ==
  /\ backend \in Backends
  /\ eeprom \in IF backend = "STM32" THEN {Zeroed} ELSE FirstContents
  /\ todo = << >>
  /\ losses = 0

StorageTypeOK ==
  /\ backend \in Backends
  /\ eeprom \in Contents
  /\ todo \in Seq(Writes)
  /\ losses \in Nat

\* nvdata_unsigned8, _unsigned16 and _unsigned24: high octet first.
Unsigned8(addr)  == eeprom[addr]
Unsigned16(addr) == 256 * eeprom[addr] + eeprom[addr + 1]
Unsigned24(addr) == 65536 * eeprom[addr] + 256 * eeprom[addr + 1]
                    + eeprom[addr + 2]
Encode8(v)  == << v % 256 >>
Encode16(v) == << (v \div 256) % 256, v % 256 >>
Encode24(v) == << (v \div 65536) % 256, (v \div 256) % 256, v % 256 >>

\* Faulty: a commit that is made for each octet.
UnitWithoutCommit(w) == 1

\* The octets of one call of write() that a loss of power cannot divide.  The
\* AVR programs cell by cell; the ESP32 writes a buffer in RAM and commits it
\* to flash at the end of the call.
Unit(w) == IF backend = "AVR" THEN 1 ELSE Len(w.bytes)

\* Faulty: the call that is finished is not told from others.
RemainingAlways(w, n) ==
  << Write(w.addr + n, SubSeq(w.bytes, n + 1, Len(w.bytes))) >>

\* What is left of a call of which n octets are stored.
Remaining(w, n) ==
  IF n = Len(w.bytes) THEN << >>
  ELSE << Write(w.addr + n, SubSeq(w.bytes, n + 1, Len(w.bytes))) >>

StoreNext ==
  /\ todo # << >>
  /\ LET w == Head(todo)
         n == Unit(w)
     IN /\ eeprom' = [a \in Cells |->
                        IF a \in w.addr .. w.addr + n - 1
                        THEN w.bytes[a - w.addr + 1] ELSE eeprom[a]]
        /\ todo' = Remaining(w, n) \o Tail(todo)
  /\ UNCHANGED << backend, losses >>

Keeps == backend # "STM32"

\* What a loss of power, or a reset, does to the store.
LosePower ==
  /\ losses < MaxLosses
  /\ losses' = losses + 1
  /\ todo' = << >>
  /\ eeprom' = IF Keeps THEN eeprom ELSE Zeroed
  /\ UNCHANGED backend

=============================================================================
