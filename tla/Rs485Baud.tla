----------------------------- MODULE Rs485Baud ------------------------------
(***************************************************************************)
(* The rates of the RS-485 port and the code of a rate in its cell, in     *)
(* BACnetRS485.cpp.  A cell holds kilobauds: one octet.                    *)
(***************************************************************************)
EXTENDS Naturals

KiloBauds == {9, 19, 38, 57, 76, 115}
BaudRate == [k \in KiloBauds |-> CASE k = 9 -> 9600 [] k = 19 -> 19200
                                   [] k = 38 -> 38400 [] k = 57 -> 57600
                                   [] k = 76 -> 76800 [] k = 115 -> 115200]
BaudRates == {BaudRate[k] : k \in KiloBauds}
\* Faulty: ">" for ">=" in the comparisons.
HighestBelow(k) ==
  CHOOSE r \in KiloBauds : r < k /\ \A q \in KiloBauds : q < k => q <= r

\* The code of the highest rate that is not above k kilobaud.
HighestUpTo(k) ==
  CHOOSE r \in KiloBauds : r <= k /\ \A q \in KiloBauds : q <= k => q <= r

\* BACnetRS485::baudFromKilo.
BaudFromKilo(k) == IF k = 255 \/ k < 9 THEN 38400 ELSE BaudRate[HighestUpTo(k)]

=============================================================================
