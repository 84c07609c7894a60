--------------------------- MODULE MCMstpReceive ---------------------------
(* Traffic around station 1, octet by octet.                               *)
EXTENDS MstpReceive

TheFrame(type, dst, src, data) ==
  [type |-> type, dst |-> dst, src |-> src, data |-> data]

Token == TheFrame(0, 1, 0, << >>)
Request == TheFrame(5, 1, 2, << 1, 85, 255 >>)
WhoIs == TheFrame(6, 255, 2, << 85 >>)

\* For another station, with a token for this one in its data.
Enclosing(n) ==
  TheFrame(6, 2, 0, SubSeq(SendFrame(Token) \o << 0, 0, 0, 0 >>, 1, n))

Filled(dst, n) == TheFrame(5, dst, 0, [i \in 1 .. n |-> 255])

\* Up to the buffer's size, beyond it, and for others.
UsualFrames ==
  { Token, TheFrame(1, 2, 0, << >>), Request, WhoIs, Enclosing(8),
    Filled(1, 9), Filled(1, 10), Filled(2, 11) }

Cut(octets) == { SubSeq(octets, 1, n) : n \in 1 .. Len(octets) - 1 }
Lost(octets) == { RemoveAt(octets, i) : i \in DOMAIN octets }
Changed(octets) ==
  UNION { { [octets EXCEPT ![i] = o]
              : o \in {0, 85, 255, Number(SymDiff(Bits[octets[i]], {0}))}
                        \ {octets[i]} } : i \in DOMAIN octets }

DamagedFrames ==
  UNION { Cut(o) \cup Lost(o) \cup Changed(o)
            : o \in { SendFrame(Token), SendFrame(Request), SendFrame(WhoIs) } }
Noise == { << 0 >>, << 85 >>, << 85, 85 >>, << 85, 255 >> }

LineDamage == DamagedFrames \cup Noise

\* The CRCs agree with the polynomials they are to compute, bit by bit.
Shift(crc, poly) ==
  IF 0 \in crc THEN SymDiff(ShiftRight(crc, 1), poly) ELSE ShiftRight(crc, 1)
ShiftRegister(crc, poly) ==
  FoldLeft(LAMBDA c, i : Shift(c, poly), crc, [i \in 1 .. 8 |-> i])

ASSUME HeaderPolynomial ==
  HeaderTable = [crc \in SUBSET (0 .. 7) |-> ShiftRegister(crc, {0, 7})]
ASSUME DataPolynomial ==
  DataTable = [low \in SUBSET (0 .. 7) |-> ShiftRegister(low, {3, 10, 15})]
ASSUME EveryOctet == { Number(Bits[octet]) : octet \in Octet } = DOMAIN Bits
=============================================================================
