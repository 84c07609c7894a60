------------------------- MODULE MstpReceive_proofs -------------------------
(***************************************************************************)
(* Whatever comes over the line, whole or damaged: nothing is stored       *)
(* beyond the buffer, and no frame goes on after a silence, for every size *)
(* of the buffer and of the clock.                                         *)
(***************************************************************************)
EXTENDS MstpReceive, TLAPS

\* TypeOK in three parts: what reading an octet changes, what the machine
\* stores, and its flags.
LineType ==
  /\ EventCount \in 0 .. EventLimit
  /\ now \in 0 .. ClockSize - 1 /\ SilenceStart \in 0 .. ClockSize - 1
  /\ bus \in Seq(Octet)
  /\ frames \in 0 .. MaxFrames /\ damages \in 0 .. MaxDamage
  /\ waited \in 0 .. Tframe_abort + 1
  /\ onBus \in FrameType_
  /\ step \in {"pending", "in", "out", "damaged"}

StoreType ==
  /\ Receive_State \in {"IDLE", "PREAMBLE", "HEADER", "DATA"}
  /\ Index \in Nat
  /\ HeaderCRC \in SUBSET (0 .. 7) /\ DataCRC \in SUBSET Bit
  /\ FrameType \in Octet
  /\ DestinationAddress \in Octet /\ SourceAddress \in Octet
  /\ DataLength \in Nat /\ DataLength < LengthLimit
  /\ InputBuffer \in [0 .. InputBufferSize - 1 -> Octet]

FlagsType ==
  ReceivedValidFrame \in BOOLEAN /\ ReceivedInvalidFrame \in BOOLEAN

\* Within a frame the timer, which sees a clock that wraps, shows the time that
\* has passed since the last octet.
TimerIsTrue == Receive_State # "IDLE" => Silence = waited

ReceiveInv ==
  LineType /\ StoreType /\ FlagsType /\ WithinBuffer /\ TimerIsTrue

-----------------------------------------------------------------------------
(* The CRCs and the frames on the line.                                    *)
LEMMA BitsType ==
  ASSUME NEW octet \in Octet
  PROVE  Bits[octet] \in SUBSET (0 .. 7)
BY DEF Bits, Ones

LEMMA NumberType ==
  ASSUME NEW bits
  PROVE  Number(bits) \in Octet
BY DEF Number, Octet

LEMMA HeaderCRCType ==
  ASSUME NEW crc \in SUBSET (0 .. 7), NEW octet \in Octet
  PROVE  CRC_Calc_Header(octet, crc) \in SUBSET (0 .. 7)
<1>1. SymDiff(crc, Bits[octet]) \in SUBSET (0 .. 7)
  BY BitsType DEF SymDiff
<1>2. ASSUME NEW c PROVE HeaderTerms(c) \in SUBSET (0 .. 7)
  BY DEF HeaderTerms
<1> QED BY <1>1, <1>2 DEF CRC_Calc_Header, HeaderTable

LEMMA DataCRCType ==
  ASSUME NEW crc \in SUBSET Bit, NEW octet \in Octet
  PROVE  CRC_Calc_Data(octet, crc) \in SUBSET Bit
<1> DEFINE low == SymDiff(crc \cap 0 .. 7, Bits[octet])
<1>1. low \in SUBSET (0 .. 7)
  BY BitsType DEF SymDiff
<1>2. ASSUME NEW c PROVE DataTerms(c) \in SUBSET Bit
  BY DEF DataTerms, Xor
<1>3. DataTable[low] \in SUBSET Bit
  BY <1>1, <1>2 DEF DataTable
<1>4. ShiftRight(crc, 8) \in SUBSET Bit
  BY DEF ShiftRight
<1> QED BY <1>3, <1>4 DEF CRC_Calc_Data, SymDiff

\* The octets of a length.
LEMMA HalvesType ==
  ASSUME NEW n \in Nat, n < LengthLimit
  PROVE  n \div 256 \in Octet /\ n % 256 \in Octet
<1>1. n \div 256 \in Int
  OBVIOUS
<1>2. n = 256 * (n \div 256) + (n % 256)
  OBVIOUS
<1>3. n % 256 \in 0 .. 255
  OBVIOUS
<1>4. n \div 256 < 256
  BY <1>1, <1>2, <1>3 DEF LengthLimit
<1>5. n \div 256 >= 0
  BY <1>1, <1>2, <1>3
<1> QED BY <1>1, <1>3, <1>4, <1>5 DEF Octet

\* ... and the length of its octets.
LEMMA LengthType ==
  ASSUME NEW n \in Nat, NEW octet \in Octet
  PROVE  /\ octet * 256 \in Nat /\ octet * 256 < LengthLimit
         /\ (n + octet) % LengthLimit \in Nat /\ (n + octet) % LengthLimit < LengthLimit
<1>1. octet \in Nat /\ octet < 256
  BY DEF Octet
<1>2. octet * 256 \in Nat /\ octet * 256 < LengthLimit
  BY <1>1 DEF LengthLimit
<1>3. n + octet \in Nat
  BY <1>1
<1>4. (n + octet) % LengthLimit \in Nat /\ (n + octet) % LengthLimit < LengthLimit
  BY <1>3 DEF LengthLimit
<1> QED BY <1>2, <1>4

\* MSTP_Send_Frame transmits octets.
LEMMA SendFrameType ==
  ASSUME NEW f \in FrameType_, Len(f.data) < LengthLimit
  PROVE  SendFrame(f) \in Seq(Octet)
<1>1. f.type \in Octet /\ f.dst \in Octet /\ f.src \in Octet
        /\ f.data \in Seq(Octet)
  BY DEF FrameType_
<1>2. Len(f.data) \in Nat
  BY <1>1
<1>3. PICK n \in Nat : n = Len(f.data)
  BY <1>2
<1>4. HeaderOctets(f) \in Seq(Octet)
  <2> n < LengthLimit
    BY <1>3
  <2>1. n \div 256 \in Octet /\ n % 256 \in Octet
    BY HalvesType, Zenon
  <2>2. HeaderOctets(f) = << f.type, f.dst, f.src, n \div 256, n % 256 >>
    BY <1>3, Zenon DEF HeaderOctets
  <2>3. \A a, b \in Octet : << f.type, f.dst, f.src, a, b >> \in Seq(Octet)
    BY ONLY <1>1, SMT
  <2> QED BY <2>1, <2>2, <2>3, Zenon
<1>5. << HeaderCheck(f) >> \in Seq(Octet)
  BY NumberType DEF HeaderCheck
<1>6. DataCheck(f) \in Seq(Octet)
  BY NumberType DEF DataCheck
<1>7. << 85, 255 >> \in Seq(Octet) /\ << >> \in Seq(Octet)
  BY DEF Octet
<1>8. f.data \o DataCheck(f) \in Seq(Octet)
  BY <1>1, <1>6
<1>9. << 85, 255 >> \o HeaderOctets(f) \o << HeaderCheck(f) >> \in Seq(Octet)
  BY <1>4, <1>5, <1>7
<1> QED BY <1>7, <1>8, <1>9 DEF SendFrame

-----------------------------------------------------------------------------
(* A clock that wraps.                                                     *)
LEMMA NoWrap ==
  ASSUME NEW n \in Nat, n > 0, NEW x \in Nat, x < n
  PROVE  x % n = x
OBVIOUS

LEMMA OneWrap ==
  ASSUME NEW n \in Nat, n > 0, NEW x \in Nat, x >= n, x < n + n
  PROVE  x % n = x - n
OBVIOUS

\* The difference of the clocks counts the ticks from one to the other.
LEMMA TickIsCounted ==
  ASSUME NEW n \in Nat, n > 0, NEW s \in Nat, s < n, NEW t \in Nat, t < n,
         NEW w \in Nat, w + 1 < n, (t + n - s) % n = w
  PROVE  (((t + 1) % n) + n - s) % n = w + 1
<1>1. CASE t + 1 < n /\ t >= s
  <2>1. (t + 1) % n = t + 1
    BY <1>1, NoWrap
  <2>2. (t + n - s) % n = t - s
    BY <1>1, OneWrap
  <2>3. (t + 1 + n - s) % n = t + 1 - s
    <3>1. t + 1 + n - s \in Nat /\ t + 1 + n - s >= n /\ t + 1 + n - s < n + n
      BY <1>1
    <3>2. (t + 1 + n - s) % n = (t + 1 + n - s) - n
      BY <3>1, OneWrap
    <3> QED BY <3>2
  <2> QED BY <2>1, <2>2, <2>3
<1>2. CASE t + 1 < n /\ t < s
  <2>1. (t + 1) % n = t + 1
    BY <1>2, NoWrap
  <2>2. (t + n - s) % n = t + n - s
    BY <1>2, NoWrap
  <2>3. t + 1 + n - s \in Nat /\ t + 1 + n - s < n
    BY <2>2
  <2>4. (t + 1 + n - s) % n = t + 1 + n - s
    BY <2>3, NoWrap
  <2> QED BY <2>1, <2>2, <2>4
<1>3. CASE t + 1 = n
  <2>1. (t + 1) % n = 0
    BY <1>3, OneWrap
  <2>2. t + n - s \in Nat /\ t + n - s >= n /\ t + n - s < n + n
    BY <1>3
  <2>3. (t + n - s) % n = (t + n - s) - n
    BY <2>2, OneWrap
  <2>4. w = t - s
    BY <2>3
  <2>5. n - s \in Nat /\ n - s < n
    BY <1>3, <2>4
  <2>6. (0 + n - s) % n = n - s
    BY <2>5, NoWrap
  <2> QED BY <1>3, <2>1, <2>4, <2>6
<1> QED BY <1>1, <1>2, <1>3

-----------------------------------------------------------------------------
(* The parts of a step.                                                    *)
\* An octet that is read restarts the timer.
LEMMA ReadStep ==
  ASSUME LineType, Read
  PROVE  LineType' /\ TimerIsTrue' /\ DataRegister \in Octet
<1> USE ReceiveAssumption
<1>1. bus \in Seq(Octet) /\ bus # << >>
  BY DEF LineType, Read
<1>2. DataRegister \in Octet /\ bus' \in Seq(Octet)
  BY <1>1 DEF DataRegister, Read
<1>3. EventCount' \in 0 .. EventLimit
  BY DEF LineType, Read, Counted
<1>4. /\ now' \in 0 .. ClockSize - 1 /\ SilenceStart' \in 0 .. ClockSize - 1
      /\ waited' \in 0 .. Tframe_abort + 1
  BY DEF LineType, Read
<1>5. /\ frames' \in 0 .. MaxFrames /\ damages' \in 0 .. MaxDamage
      /\ onBus' \in FrameType_
  BY DEF LineType, Read
<1>6. step' \in {"pending", "in", "out", "damaged"}
  BY DEF LineType, Read
<1>7. TimerIsTrue'
  <2>1. now' = now /\ SilenceStart' = now /\ waited' = 0
    BY DEF Read
  <2>2. now + ClockSize - now = ClockSize
    BY DEF LineType
  <2>3. ClockSize % ClockSize = 0
    BY OneWrap
  <2> QED BY <2>1, <2>2, <2>3 DEF TimerIsTrue, Silence
<1> QED BY <1>2, <1>3, <1>4, <1>5, <1>6, <1>7 DEF LineType

\* Either end of a frame.
LEMMA EndStep ==
  ASSUME FlagsType, Accept \/ Reject
  PROVE  FlagsType' /\ Receive_State' = "IDLE"
<1>1. CASE Accept
  <2>1. ReceivedValidFrame' \in BOOLEAN
    BY <1>1 DEF Accept, ForUs
  <2> QED BY <1>1, <2>1 DEF Accept, FlagsType
<1>2. CASE Reject
  BY <1>2 DEF Reject, FlagsType
<1> QED BY <1>1, <1>2

LEMMA PreambleStep ==
  ASSUME ReceiveInv, Preamble1 \/ Preamble2
  PROVE  ReceiveInv'
<1>1. LineType' /\ TimerIsTrue'
  BY ReadStep DEF ReceiveInv, Preamble1, Preamble2
<1>2. FlagsType'
  BY DEF ReceiveInv, FlagsType, Preamble1, Preamble2, KeepFlags, flags
<1>3. StoreType' /\ WithinBuffer'
  <2>1. CASE Preamble1
    BY <2>1 DEF ReceiveInv, StoreType, WithinBuffer, Preamble1, crcs, registers
  <2>2. CASE Preamble2
    <3>1. /\ Receive_State' \in {"IDLE", "PREAMBLE", "HEADER"}
          /\ Index' = 0 \/ Index' = Index
          /\ HeaderCRC' = HeaderStart \/ HeaderCRC' = HeaderCRC
      BY <2>2 DEF Preamble2
    <3>2. /\ DataCRC' = DataCRC /\ FrameType' = FrameType
          /\ DestinationAddress' = DestinationAddress
          /\ SourceAddress' = SourceAddress /\ DataLength' = DataLength
          /\ InputBuffer' = InputBuffer
      BY <2>2 DEF Preamble2, registers
    <3>3. HeaderCRC' \in SUBSET (0 .. 7)
      BY <3>1 DEF ReceiveInv, StoreType, HeaderStart
    <3>4. StoreType'
      BY <3>1, <3>2, <3>3 DEF ReceiveInv, StoreType
    <3>5. Receive_State' = "HEADER" => Index' = 0
      BY <2>2 DEF Preamble2
    <3>6. WithinBuffer'
      BY <3>1, <3>5 DEF WithinBuffer
    <3> QED BY <3>4, <3>6
  <2> QED BY <2>1, <2>2
<1> QED BY <1>1, <1>2, <1>3 DEF ReceiveInv

LEMMA HeaderOctetStep ==
  ASSUME ReceiveInv, HeaderOctet
  PROVE  ReceiveInv'
<1>1. LineType' /\ TimerIsTrue' /\ DataRegister \in Octet
  BY ReadStep DEF ReceiveInv, HeaderOctet, Header
<1>2. FlagsType'
  BY DEF ReceiveInv, FlagsType, HeaderOctet, KeepFlags, flags
<1>3. HeaderCRC' \in SUBSET (0 .. 7)
  BY <1>1, HeaderCRCType DEF ReceiveInv, StoreType, HeaderOctet, Header
<1>4. DataLength' \in Nat /\ DataLength' < LengthLimit
  BY <1>1, LengthType DEF ReceiveInv, StoreType, HeaderOctet
<1>5. /\ FrameType' \in Octet
      /\ DestinationAddress' \in Octet /\ SourceAddress' \in Octet
  BY <1>1 DEF ReceiveInv, StoreType, HeaderOctet
<1>6. /\ Receive_State' = "HEADER" /\ Index' \in Nat /\ Index' <= 5
      /\ DataCRC' = DataCRC /\ InputBuffer' = InputBuffer
  BY DEF ReceiveInv, StoreType, HeaderOctet, Header
<1>7. StoreType' /\ WithinBuffer'
  BY <1>3, <1>4, <1>5, <1>6 DEF ReceiveInv, StoreType, WithinBuffer
<1> QED BY <1>1, <1>2, <1>7 DEF ReceiveInv

\* A frame with data is gone into only if the data fits.
LEMMA HeaderEndsStep ==
  ASSUME ReceiveInv, HeaderBadCRC \/ DataFollows \/ NoData \/ FrameTooLong
  PROVE  ReceiveInv'
<1>1. HeaderEnds
  BY DEF HeaderBadCRC, DataFollows, NoData, FrameTooLong
<1>2. LineType' /\ TimerIsTrue' /\ DataRegister \in Octet
  BY <1>1, ReadStep DEF ReceiveInv, HeaderEnds, Header
<1>3. HeaderCRC' \in SUBSET (0 .. 7)
  BY <1>1, <1>2, HeaderCRCType DEF ReceiveInv, StoreType, HeaderEnds, Header
<1>4. /\ FrameType' = FrameType /\ DestinationAddress' = DestinationAddress
      /\ SourceAddress' = SourceAddress /\ DataLength' = DataLength
      /\ InputBuffer' = InputBuffer
  BY <1>1 DEF HeaderEnds, Header, registers
<1>5. CASE DataFollows
  <2>1. FlagsType'
    BY <1>5 DEF ReceiveInv, FlagsType, DataFollows, KeepFlags, flags
  <2>2. /\ Receive_State' = "DATA" /\ Index' = 0 /\ DataCRC' \in SUBSET Bit
        /\ DataLength > 0 /\ DataLength <= InputBufferSize
    BY <1>5 DEF DataFollows, Fits, DataStart, Bit
  <2>3. StoreType' /\ WithinBuffer'
    BY <1>3, <1>4, <2>2, ReceiveAssumption
       DEF ReceiveInv, StoreType, WithinBuffer
  <2> QED BY <1>2, <2>1, <2>3 DEF ReceiveInv
<1>6. CASE HeaderBadCRC \/ NoData \/ FrameTooLong
  <2>1. (Accept \/ Reject) /\ Index' = Index /\ DataCRC' = DataCRC
    BY <1>6 DEF HeaderBadCRC, NoData, FrameTooLong
  <2>2. FlagsType' /\ Receive_State' = "IDLE"
    BY <2>1, EndStep DEF ReceiveInv
  <2>3. StoreType' /\ WithinBuffer'
    BY <1>3, <1>4, <2>1, <2>2 DEF ReceiveInv, StoreType, WithinBuffer
  <2> QED BY <1>2, <2>2, <2>3 DEF ReceiveInv
<1> QED BY <1>5, <1>6

LEMMA DataStep ==
  ASSUME ReceiveInv, DataOctet \/ DataCRC1 \/ DataCRC2
  PROVE  ReceiveInv'
<1>1. Data
  BY DEF DataOctet, DataCRC1, DataCRC2
<1>2. LineType' /\ TimerIsTrue' /\ DataRegister \in Octet
  BY <1>1, ReadStep DEF ReceiveInv, Data
<1>3. DataCRC' \in SUBSET Bit
  BY <1>1, <1>2, DataCRCType DEF ReceiveInv, StoreType, Data
<1>4. /\ FrameType' = FrameType /\ DestinationAddress' = DestinationAddress
      /\ SourceAddress' = SourceAddress /\ DataLength' = DataLength
      /\ HeaderCRC' = HeaderCRC
  BY <1>1 DEF Data, registers
<1>5. Receive_State = "DATA" /\ Index \in Nat /\ Index <= DataLength + 1
  BY <1>1 DEF Data, ReceiveInv, StoreType, WithinBuffer
<1>6. CASE DataOctet \/ DataCRC1
  <2>1. FlagsType'
    BY <1>6 DEF ReceiveInv, FlagsType, DataOctet, DataCRC1, KeepFlags, flags
  <2>2. Receive_State' = "DATA" /\ Index' = Index + 1 /\ Index <= DataLength
    BY <1>5, <1>6 DEF DataOctet, DataCRC1, ReceiveInv, StoreType
  <2>3. InputBuffer' \in [0 .. InputBufferSize - 1 -> Octet]
    BY <1>2, <1>6 DEF DataOctet, DataCRC1, ReceiveInv, StoreType
  <2>4. StoreType'
    BY <1>3, <1>4, <1>5, <2>2, <2>3 DEF ReceiveInv, StoreType
  <2>5. WithinBuffer'
    BY <1>4, <1>5, <2>2 DEF ReceiveInv, StoreType, WithinBuffer
  <2> QED BY <1>2, <2>1, <2>4, <2>5 DEF ReceiveInv
<1>7. CASE DataCRC2
  <2>1. (Accept \/ Reject) /\ Index' = Index /\ InputBuffer' = InputBuffer
    BY <1>7 DEF DataCRC2
  <2>2. FlagsType' /\ Receive_State' = "IDLE"
    BY <2>1, EndStep DEF ReceiveInv
  <2>3. StoreType' /\ WithinBuffer'
    BY <1>3, <1>4, <2>1, <2>2 DEF ReceiveInv, StoreType, WithinBuffer
  <2> QED BY <1>2, <2>2, <2>3 DEF ReceiveInv
<1> QED BY <1>6, <1>7

LEMMA TimeoutStep ==
  ASSUME ReceiveInv, Timeout
  PROVE  ReceiveInv'
<1>1. LineType'
  BY ReceiveAssumption DEF ReceiveInv, LineType, Timeout, line, history
<1>2. FlagsType'
  <2>1. ReceivedInvalidFrame' \in BOOLEAN
    BY DEF Timeout
  <2> QED BY <2>1 DEF ReceiveInv, FlagsType, Timeout
<1>3. Receive_State' = "IDLE"
  BY DEF Timeout, AfterTimeout
<1>4. StoreType' /\ WithinBuffer' /\ TimerIsTrue'
  BY <1>3 DEF ReceiveInv, StoreType, WithinBuffer, TimerIsTrue, Timeout, crcs,
              registers
<1> QED BY <1>1, <1>2, <1>4 DEF ReceiveInv

\* Time that passes within a frame is what the timer shows.
LEMMA TickStep ==
  ASSUME ReceiveInv, Tick
  PROVE  ReceiveInv'
<1> USE ReceiveAssumption
<1>1. /\ now \in Nat /\ now < ClockSize /\ SilenceStart \in Nat
      /\ SilenceStart < ClockSize /\ waited \in Nat
      /\ waited <= Tframe_abort + 1 /\ ClockSize > 0
  BY DEF ReceiveInv, LineType
<1>2. Silence = waited
  BY DEF ReceiveInv, TimerIsTrue, Tick
<1>3. waited <= Tframe_abort
  BY <1>1, <1>2 DEF Tick, AbortDue
<1>4. now' = (now + 1) % ClockSize /\ waited' = waited + 1
        /\ SilenceStart' = SilenceStart
  BY <1>1, <1>3 DEF Tick
<1>5. now' \in 0 .. ClockSize - 1
  BY <1>1, <1>4
<1>6. LineType'
  BY <1>1, <1>3, <1>4, <1>5
     DEF ReceiveInv, LineType, Tick, line, history
<1>7. Silence' = waited'
  BY <1>1, <1>2, <1>3, <1>4, TickIsCounted DEF Silence
<1>8. TimerIsTrue'
  BY <1>7 DEF TimerIsTrue
<1>9. StoreType' /\ WithinBuffer' /\ FlagsType'
  BY DEF ReceiveInv, StoreType, WithinBuffer, FlagsType, Tick, crcs, registers,
         flags
<1> QED BY <1>6, <1>8, <1>9 DEF ReceiveInv

LEMMA ArriveStep ==
  ASSUME ReceiveInv, ArriveWhole \/ ArriveDamaged
  PROVE  ReceiveInv'
<1> USE ReceiveAssumption
<1>1. PICK octets : Sends(octets)
  BY DEF ArriveWhole, ArriveDamaged
<1>2. bus' \in Seq(Octet)
  <2>1. CASE ArriveWhole
    <3>1. PICK f \in Frames : bus' = Sent[f]
      BY <2>1 DEF ArriveWhole, Sends
    <3> QED BY <3>1, SendFrameType DEF Sent
  <2>2. CASE ArriveDamaged
    BY <2>2 DEF ArriveDamaged, Sends
  <2> QED BY <2>1, <2>2
<1>3. onBus' \in FrameType_
  <2>1. NoFrame \in FrameType_
    BY DEF NoFrame, FrameType_, Octet
  <2> QED BY <2>1 DEF ArriveWhole, ArriveDamaged
<1>4. /\ frames' \in 0 .. MaxFrames /\ damages' \in 0 .. MaxDamage
      /\ step' \in {"pending", "in", "out", "damaged"}
  BY DEF ReceiveInv, LineType, ArriveWhole, ArriveDamaged
<1>5. /\ EventCount' = EventCount /\ now' = now
      /\ SilenceStart' = SilenceStart /\ waited' = waited
  BY <1>1 DEF Sends, clocks
<1>6. LineType'
  BY <1>2, <1>3, <1>4, <1>5 DEF ReceiveInv, LineType
<1>7. StoreType' /\ WithinBuffer' /\ FlagsType' /\ TimerIsTrue'
  BY <1>1, <1>5 DEF ReceiveInv, StoreType, WithinBuffer, FlagsType, TimerIsTrue,
                    Silence, Sends, crcs, registers, flags
<1> QED BY <1>6, <1>7 DEF ReceiveInv

LEMMA ProcessedStep ==
  ASSUME ReceiveInv, Processed
  PROVE  ReceiveInv'
<1>1. LineType' /\ StoreType' /\ WithinBuffer' /\ TimerIsTrue'
  BY DEF ReceiveInv, LineType, StoreType, WithinBuffer, TimerIsTrue, Silence,
         Processed, crcs, registers, clocks, line, history
<1>2. FlagsType'
  BY DEF Processed, FlagsType
<1> QED BY <1>1, <1>2 DEF ReceiveInv

LEMMA StutterStep ==
  ASSUME ReceiveInv, UNCHANGED vars
  PROVE  ReceiveInv'
BY DEF ReceiveInv, LineType, StoreType, FlagsType, WithinBuffer, TimerIsTrue,
       Silence, vars, crcs, registers, flags, clocks, line, history

-----------------------------------------------------------------------------
LEMMA InitReceive == Init => ReceiveInv
<1> SUFFICES ASSUME Init PROVE ReceiveInv
  OBVIOUS
<1> USE ReceiveAssumption
<1>1. NoFrame \in FrameType_
  BY DEF NoFrame, FrameType_, Octet
<1>2. LineType
  BY <1>1 DEF Init, LineType
<1>3. StoreType
  BY DEF Init, StoreType, Octet, LengthLimit
<1>4. FlagsType /\ WithinBuffer /\ TimerIsTrue
  BY DEF Init, FlagsType, WithinBuffer, TimerIsTrue
<1> QED BY <1>2, <1>3, <1>4 DEF ReceiveInv

LEMMA NextReceive == ReceiveInv /\ [Next]_vars => ReceiveInv'
<1> SUFFICES ASSUME ReceiveInv, [Next]_vars PROVE ReceiveInv'
  OBVIOUS
<1>1. CASE Receive
  BY <1>1, TimeoutStep, PreambleStep, HeaderOctetStep, HeaderEndsStep, DataStep
     DEF Receive
<1>2. CASE Processed
  BY <1>2, ProcessedStep
<1>3. CASE Tick
  BY <1>3, TickStep
<1>4. CASE ArriveWhole \/ ArriveDamaged
  BY <1>4, ArriveStep
<1>5. CASE UNCHANGED vars
  BY <1>5, StutterStep
<1> QED BY <1>1, <1>2, <1>3, <1>4, <1>5 DEF Next

LEMMA ReceiveInvariant == Spec => []ReceiveInv
BY InitReceive, NextReceive, PTL DEF Spec

\* Every register and counter of the receive machine keeps its width, and the
\* length of a frame, which comes over the line, never overflows.
THEOREM ReceiveTypeCorrect == Spec => []TypeOK
<1>1. ReceiveInv => TypeOK
  BY DEF ReceiveInv, LineType, StoreType, FlagsType, TypeOK
<1> QED BY <1>1, ReceiveInvariant, PTL

\* No sequence of frames, damaged frames and noise makes the machine store an
\* octet outside InputBuffer, whatever its size.
THEOREM NeverBeyondBuffer == Spec => []WithinBuffer
<1>1. ReceiveInv => WithinBuffer
  BY DEF ReceiveInv
<1> QED BY <1>1, ReceiveInvariant, PTL

\* A frame that is cut off, at whatever octet and wherever millis() wraps, is
\* given up before an octet that comes later is read.
THEOREM SilenceAlwaysEndsFrame == Spec => SilenceEndsFrame
<1>1. ReceiveInv /\ [Next]_vars =>
        [OctetRead /\ waited > Tframe_abort => Receive_State = "IDLE"]_vars
  <2> SUFFICES ASSUME ReceiveInv, Next, OctetRead, waited > Tframe_abort
               PROVE  Receive_State = "IDLE"
    OBVIOUS
  <2>1. bus # << >> /\ bus' # bus
    <3>1. bus \in Seq(Octet) /\ bus # << >> /\ bus' = Tail(bus)
      BY DEF ReceiveInv, LineType, OctetRead
    <3> QED BY <3>1
  <2>2. CASE Read
    BY <2>2, ReceiveAssumption
       DEF Read, AbortDue, ReceiveInv, TimerIsTrue, LineType
  <2>3. CASE Timeout \/ Processed \/ Tick
    BY <2>1, <2>3 DEF Timeout, Processed, Tick, line
  <2>4. CASE ArriveWhole \/ ArriveDamaged
    BY <2>1, <2>4 DEF ArriveWhole, ArriveDamaged
  <2>5. Receive => Read \/ Timeout
    BY DEF Receive, Preamble1, Preamble2, HeaderOctet, HeaderBadCRC, DataFollows,
           NoData, FrameTooLong, HeaderEnds, Header, DataOctet, DataCRC1,
           DataCRC2, Data
  <2> QED BY <2>2, <2>3, <2>4, <2>5 DEF Next
<1> QED BY <1>1, ReceiveInvariant, PTL DEF Spec, SilenceEndsFrame
=============================================================================
