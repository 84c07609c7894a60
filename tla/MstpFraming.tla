---------------------------- MODULE MstpFraming ----------------------------
(***************************************************************************)
(* MS/TP frames as octets: the CRCs of bacnet/datalink/crc.c and the       *)
(* frame that MSTP_Send_Frame (dlmstp.c) puts on the line.                 *)
(*                                                                         *)
(* A CRC register is the set of its bits that are 1: exclusive or is the   *)
(* symmetric difference, a shift moves every element.                      *)
(***************************************************************************)
EXTENDS Naturals, Sequences, FiniteSets, SequencesExt

Octet == 0 .. 255
Bit   == 0 .. 15

Ones(octet) == { i \in 0 .. 7 : (octet \div 2^i) % 2 = 1 }

\* Ones of every octet, computed once.
Bits == [octet \in Octet |-> Ones(octet)]

\* The octet with these bits.
Number(bits) ==
  LET digit(i, weight) == IF i \in bits THEN weight ELSE 0
  IN digit(0, 1) + digit(1, 2) + digit(2, 4) + digit(3, 8)
       + digit(4, 16) + digit(5, 32) + digit(6, 64) + digit(7, 128)

ShiftLeft(bits, n)  == { i \in Bit : i >= n /\ i - n \in bits }
ShiftRight(bits, n) == { i \in Bit : i + n \in bits }

\* The exclusive or of several words.
Xor(words) ==
  { i \in Bit : Cardinality({ k \in DOMAIN words : i \in words[k] }) % 2 = 1 }

\* Each shift by one to seven is a term; what leaves on the left comes back
\* as bit 0.
HeaderTerms(crc) ==
  LET terms == Xor([k \in 1 .. 8 |-> ShiftLeft(crc, k - 1)])
  IN (terms \cap 1 .. 7) \cup (IF 8 \in terms THEN {0} ELSE {})

HeaderTable == [crc \in SUBSET (0 .. 7) |-> HeaderTerms(crc)]

CRC_Calc_Header(octet, crc) == HeaderTable[SymDiff(crc, Bits[octet])]

DataTerms(low) ==
  Xor(<< ShiftLeft(low, 8), ShiftLeft(low, 3), ShiftLeft(low, 12),
         ShiftRight(low, 4), low \cap 0 .. 3, ShiftLeft(low \cap 0 .. 3, 7) >>)

DataTable == [low \in SUBSET (0 .. 7) |-> DataTerms(low)]

CRC_Calc_Data(octet, crc) ==
  SymDiff(ShiftRight(crc, 8), DataTable[SymDiff(crc \cap 0 .. 7, Bits[octet])])

HeaderStart == 0 .. 7
DataStart   == 0 .. 15

(* What the registers hold after a whole frame: 0x55 and 0xF0B8.           *)
HeaderResidue == {0, 2, 4, 6}
DataResidue   == {3, 4, 5, 7, 12, 13, 14, 15}

(***************************************************************************)
(* MSTP_Send_Frame.                                                        *)
(***************************************************************************)
\* The length has two octets.
LengthLimit == 65536

HeaderOctets(f) ==
  << f.type, f.dst, f.src, Len(f.data) \div 256, Len(f.data) % 256 >>

HeaderCRCOf(octets) ==
  FoldLeft(LAMBDA crc, octet : CRC_Calc_Header(octet, crc), HeaderStart, octets)
DataCRCOf(octets) ==
  FoldLeft(LAMBDA crc, octet : CRC_Calc_Data(octet, crc), DataStart, octets)

\* The complement of a register is what goes out.
HeaderCheck(f) == Number(HeaderStart \ HeaderCRCOf(HeaderOctets(f)))

DataCheck(f) ==
  LET crc == DataStart \ DataCRCOf(f.data)
  IN << Number(crc \cap 0 .. 7), Number(ShiftRight(crc, 8)) >>

SendFrame(f) ==
  << 85, 255 >> \o HeaderOctets(f) \o << HeaderCheck(f) >>
    \o (IF f.data = << >> THEN << >> ELSE f.data \o DataCheck(f))

=============================================================================
