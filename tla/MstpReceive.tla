---------------------------- MODULE MstpReceive ----------------------------
(***************************************************************************)
(* MSTP_Receive_Frame_FSM of dlmstp.c, octet by octet, with the loop of    *)
(* dlmstp_receive around it and the silence timer of BACnetRS485.cpp and   *)
(* mstimer.c below it.  MstpMaster has the same machine at the grain of    *)
(* whole frames.                                                           *)
(*                                                                         *)
(* Outside IDLE the loop spins: it reads an octet or notices the abort     *)
(* timeout before the clock moves on.  In IDLE, and while a flag is set,   *)
(* octets wait in the UART, and the machine does not look at the clock.    *)
(***************************************************************************)
EXTENDS MstpFraming

CONSTANTS
  This_Station,
  InputBufferSize,
  Tframe_abort,
  ClockSize,       \* millis() and its differences are modulo this
  EventLimit,      \* where the 8-bit EventCount saturates
  Frames,          \* what other stations send and arrives whole
  Damage,          \* what arrives of frames that do not, and noise
  MaxFrames, MaxDamage   \* bounds on either in a behaviour

Broadcast == 255

FrameType_ == [type : Octet, dst : Octet, src : Octet, data : Seq(Octet)]

ASSUME ReceiveAssumption ==
  /\ This_Station \in 0 .. 127
  /\ InputBufferSize \in Nat \ {0}
  /\ Tframe_abort \in Nat
  /\ ClockSize \in Nat \ {0} /\ Tframe_abort + 1 < ClockSize
  /\ EventLimit \in Nat
  /\ Frames \subseteq FrameType_
  /\ \A f \in Frames : Len(f.data) < LengthLimit
  /\ Damage \subseteq Seq(Octet)
  /\ MaxFrames \in Nat /\ MaxDamage \in Nat

VARIABLES
  Receive_State, Index, HeaderCRC, DataCRC,
  FrameType, DestinationAddress, SourceAddress, DataLength, InputBuffer,
  ReceivedValidFrame, ReceivedInvalidFrame, EventCount,
  now,             \* millis()
  SilenceStart,    \* start of the silence timer
  bus,             \* sent or about to be, and not yet read
  frames, damages, \* how often other stations sent
  waited,          \* history: time since an octet was read
  onBus,           \* history: the frame on the bus
  step             \* history: whether the machine began it at its start

crcs      == <<HeaderCRC, DataCRC>>
registers == <<FrameType, DestinationAddress, SourceAddress, DataLength>>
flags     == <<ReceivedValidFrame, ReceivedInvalidFrame>>
line      == <<bus, frames, damages>>
history   == <<onBus, step>>
clocks    == <<now, SilenceStart, waited>>
vars == <<Receive_State, Index, crcs, registers, InputBuffer, flags,
          EventCount, clocks, line, history>>

NoFrame == [type |-> 0, dst |-> 0, src |-> 0, data |-> << >>]

TypeOK ==
  /\ Receive_State \in {"IDLE", "PREAMBLE", "HEADER", "DATA"}
  /\ Index \in Nat
  /\ HeaderCRC \in SUBSET (0 .. 7) /\ DataCRC \in SUBSET Bit
  /\ FrameType \in Octet
  /\ DestinationAddress \in Octet /\ SourceAddress \in Octet
  /\ DataLength \in Nat /\ DataLength < LengthLimit
  /\ InputBuffer \in [0 .. InputBufferSize - 1 -> Octet]
  /\ ReceivedValidFrame \in BOOLEAN /\ ReceivedInvalidFrame \in BOOLEAN
  /\ EventCount \in 0 .. EventLimit
  /\ now \in 0 .. ClockSize - 1 /\ SilenceStart \in 0 .. ClockSize - 1
  /\ bus \in Seq(Octet)
  /\ frames \in 0 .. MaxFrames /\ damages \in 0 .. MaxDamage
  /\ waited \in 0 .. Tframe_abort + 1
  /\ onBus \in FrameType_
  /\ step \in {"pending", "in", "out", "damaged"}

Init ==
  /\ Receive_State = "IDLE" /\ Index = 0
  /\ HeaderCRC = {} /\ DataCRC = {}
  /\ FrameType = 0 /\ DestinationAddress = 0 /\ SourceAddress = 0
  /\ DataLength = 0
  /\ InputBuffer = [i \in 0 .. InputBufferSize - 1 |-> 0]
  /\ ReceivedValidFrame = FALSE /\ ReceivedInvalidFrame = FALSE
  /\ EventCount = 0
  /\ now \in 0 .. ClockSize - 1 /\ SilenceStart = now /\ waited = 0
  /\ bus = << >> /\ frames = 0 /\ damages = 0
  /\ onBus = NoFrame /\ step = "damaged"

(***************************************************************************)
(* The clock and the silence timer.                                        *)
(***************************************************************************)
\* Bug: a clock that has wrapped is taken for one that stands still.
SilenceUntilWrap == IF now < SilenceStart THEN 0 ELSE now - SilenceStart

Silence == (now + ClockSize - SilenceStart) % ClockSize

AbortDue == Silence > Tframe_abort

(* In IDLE time goes unnoticed: the first octet restarts the timer.  What  *)
(* is on the bus is one transmission, without a gap that ends a frame.     *)
Tick ==
  /\ Receive_State # "IDLE" /\ ~AbortDue
  /\ bus = << >> \/ waited < Tframe_abort
  /\ now' = (now + 1) % ClockSize
  /\ waited' = IF waited > Tframe_abort THEN waited ELSE waited + 1
  /\ UNCHANGED <<Receive_State, Index, crcs, registers, InputBuffer, flags,
                 EventCount, SilenceStart, line, history>>

(***************************************************************************)
(* The other stations.                                                     *)
(***************************************************************************)
Sends(octets) ==
  /\ bus' = octets
  /\ UNCHANGED <<Receive_State, Index, crcs, registers, InputBuffer, flags,
                 EventCount, clocks>>

Sent == [f \in Frames |-> SendFrame(f)]

ArriveWhole ==
  /\ bus = << >>
  /\ frames < MaxFrames /\ frames' = frames + 1
  /\ \E f \in Frames : Sends(Sent[f]) /\ onBus' = f
  /\ step' = "pending"
  /\ UNCHANGED damages

ArriveDamaged ==
  /\ bus = << >>
  /\ damages < MaxDamage /\ damages' = damages + 1
  /\ \E octets \in Damage : Sends(octets)
  /\ onBus' = NoFrame /\ step' = "damaged"
  /\ UNCHANGED frames

(***************************************************************************)
(* One call of MSTP_Receive_Frame_FSM.                                     *)
(***************************************************************************)
\* The loop does not call the machine while it has a frame.
Call == ~ReceivedValidFrame /\ ~ReceivedInvalidFrame

\* Bug: a lone preamble octet is waited on for ever.
AfterTimeoutInside == IF Receive_State = "PREAMBLE" THEN "PREAMBLE" ELSE "IDLE"

AfterTimeout == "IDLE"

Timeout ==
  /\ Call
  /\ Receive_State # "IDLE" /\ AbortDue
  /\ Receive_State' = AfterTimeout
  /\ ReceivedInvalidFrame' = (Receive_State \in {"HEADER", "DATA"})
  /\ waited' = 0
  /\ UNCHANGED <<Index, crcs, registers, InputBuffer, ReceivedValidFrame,
                 EventCount, now, SilenceStart, line, history>>

DataRegister == Head(bus)

\* Bug: the event counter does not stop at its limit.
CountedOn == EventCount + 1

Counted == IF EventCount < EventLimit THEN EventCount + 1 ELSE EventCount

Read ==
  /\ Call
  /\ bus # << >>
  /\ Receive_State = "IDLE" \/ ~AbortDue
  /\ bus' = Tail(bus)
  /\ SilenceStart' = now
  /\ waited' = 0
  /\ EventCount' = Counted
  /\ step' = IF step # "pending" THEN step
             ELSE IF Receive_State \in {"IDLE", "PREAMBLE"} THEN "in" ELSE "out"
  /\ UNCHANGED <<now, onBus, frames, damages>>

KeepFlags == UNCHANGED flags

(* A frame ends: both outcomes leave the machine in IDLE. *)
Reject ==
  /\ ReceivedInvalidFrame' = TRUE
  /\ Receive_State' = "IDLE"
  /\ UNCHANGED ReceivedValidFrame

ForUs == DestinationAddress \in {This_Station, Broadcast}

Accept ==
  /\ ReceivedValidFrame' = ForUs
  /\ Receive_State' = "IDLE"
  /\ UNCHANGED ReceivedInvalidFrame

Preamble1 ==
  /\ Receive_State = "IDLE"
  /\ Read
  /\ Receive_State' = IF DataRegister = 85 THEN "PREAMBLE" ELSE "IDLE"
  /\ KeepFlags
  /\ UNCHANGED <<Index, crcs, registers, InputBuffer>>

\* Bug: a repeated first preamble octet ends the attempt.
NotRepeated(octet) == FALSE

RepeatedPreamble1(octet) == octet = 85

Preamble2 ==
  /\ Receive_State = "PREAMBLE"
  /\ Read
  /\ KeepFlags
  /\ \/ /\ DataRegister = 255
        /\ Index' = 0
        /\ HeaderCRC' = HeaderStart
        /\ Receive_State' = "HEADER"
     \/ /\ DataRegister # 255
        /\ Receive_State' = IF RepeatedPreamble1(DataRegister) THEN "PREAMBLE"
                                                               ELSE "IDLE"
        /\ UNCHANGED <<Index, HeaderCRC>>
  /\ UNCHANGED <<DataCRC, registers, InputBuffer>>

Header ==
  /\ Receive_State = "HEADER"
  /\ Read
  /\ HeaderCRC' = CRC_Calc_Header(DataRegister, HeaderCRC)
  /\ UNCHANGED InputBuffer

(* Type, destination, source and the two octets of the length. *)
HeaderOctet ==
  /\ Index < 5
  /\ Header
  /\ Index' = Index + 1
  /\ FrameType' = IF Index = 0 THEN DataRegister ELSE FrameType
  /\ DestinationAddress' = IF Index = 1 THEN DataRegister
                                        ELSE DestinationAddress
  /\ SourceAddress' = IF Index = 2 THEN DataRegister ELSE SourceAddress
  /\ DataLength' = IF Index = 3 THEN DataRegister * 256
                   ELSE IF Index = 4 THEN (DataLength + DataRegister) % LengthLimit
                   ELSE DataLength
  /\ KeepFlags
  /\ UNCHANGED <<Receive_State, DataCRC>>

HeaderEnds == Index = 5 /\ Header /\ UNCHANGED registers

HeaderGood == HeaderCRC' = HeaderResidue

HeaderBadCRC ==
  /\ HeaderEnds
  /\ ~HeaderGood
  /\ Reject
  /\ UNCHANGED <<Index, DataCRC>>

\* Bug: a frame one octet longer than the buffer is taken.
FitsAlmost == DataLength <= InputBufferSize + 1

\* Bug: the data of frames for other stations is not decoded.
FitsForUs == DataLength <= InputBufferSize /\ ForUs

Fits == DataLength <= InputBufferSize

(* Data that is not for this station is decoded, too, lest a preamble in   *)
(* it be taken for the start of a frame.                                   *)
DataFollows ==
  /\ HeaderEnds
  /\ HeaderGood /\ DataLength > 0 /\ Fits
  /\ Index' = 0
  /\ DataCRC' = DataStart
  /\ Receive_State' = "DATA"
  /\ KeepFlags

NoData ==
  /\ HeaderEnds
  /\ HeaderGood /\ DataLength = 0
  /\ Accept
  /\ UNCHANGED <<Index, DataCRC>>

FrameTooLong ==
  /\ HeaderEnds
  /\ HeaderGood /\ DataLength > 0 /\ ~Fits
  /\ Reject
  /\ UNCHANGED <<Index, DataCRC>>

Data ==
  /\ Receive_State = "DATA"
  /\ Read
  /\ DataCRC' = CRC_Calc_Data(DataRegister, DataCRC)
  /\ UNCHANGED <<HeaderCRC, registers>>

DataOctet ==
  /\ Index < DataLength
  /\ Data
  /\ InputBuffer' = [InputBuffer EXCEPT ![Index] = DataRegister]
  /\ Index' = Index + 1
  /\ KeepFlags
  /\ UNCHANGED Receive_State

DataCRC1 ==
  /\ Index = DataLength
  /\ Data
  /\ Index' = Index + 1
  /\ KeepFlags
  /\ UNCHANGED <<Receive_State, InputBuffer>>

DataGood == DataCRC' = DataResidue

DataCRC2 ==
  /\ Index = DataLength + 1
  /\ Data
  /\ IF DataGood THEN Accept ELSE Reject
  /\ UNCHANGED <<Index, InputBuffer>>

Receive ==
  \/ Timeout \/ Preamble1 \/ Preamble2
  \/ HeaderOctet \/ HeaderBadCRC \/ DataFollows \/ NoData \/ FrameTooLong
  \/ DataOctet \/ DataCRC1 \/ DataCRC2

(* The master machine has looked at the frame. *)
Processed ==
  /\ ReceivedValidFrame \/ ReceivedInvalidFrame
  /\ ReceivedValidFrame' = FALSE
  /\ ReceivedInvalidFrame' = FALSE
  /\ UNCHANGED <<Receive_State, Index, crcs, registers, InputBuffer,
                 EventCount, clocks, line, history>>

Next == Receive \/ Processed \/ Tick \/ ArriveWhole \/ ArriveDamaged

Spec == Init /\ [][Next]_vars

(* dlmstp_receive is called for ever, and its loop spins.                  *)
FairSpec == Spec /\ WF_vars(Tick \/ Processed \/ Receive)

(***************************************************************************)
(* Properties.                                                             *)
(***************************************************************************)
(* "InputBuffer is indexed from 0 to InputBufferSize-1" (dlmstp.c): the    *)
(* length that came over the line was tested before an octet is stored,    *)
(* and no sequence of good and damaged headers gets round the test.        *)
WithinBuffer ==
  /\ Receive_State = "HEADER" => Index <= 5
  /\ Receive_State = "DATA" => /\ DataLength \in 1 .. InputBufferSize
                              /\ Index <= DataLength + 1

Received == [type |-> FrameType, dst |-> DestinationAddress,
             src |-> SourceAddress,
             data |-> [i \in 1 .. DataLength |-> InputBuffer[i - 1]]]

\* A frame with a preamble in its data, of which the start was missed.
Confusable ==
  /\ step = "out"
  /\ \E i \in 1 .. Len(onBus.data) - 1 :
       onBus.data[i] = 85 /\ onBus.data[i + 1] = 255

OctetRead == bus # << >> /\ bus' = Tail(bus)

LastOctetRead == OctetRead /\ Len(bus) = 1 /\ step # "damaged"

(* What is handed over is a frame that another station sent as one, octet  *)
(* for octet, at its end: not a preamble within the data of another, not   *)
(* the halves of two, not one with a changed octet.                        *)
OnlyFramesSent ==
  [][ ~ReceivedValidFrame /\ ReceivedValidFrame' /\ ~Confusable
      => LastOctetRead /\ Received' = onBus ]_vars

(* The frame that is whole, fits, and found the machine waiting for one is *)
(* handed over if it is for this station, and makes no error.              *)
FrameInStepArrives ==
  [][ LastOctetRead /\ step = "in" /\ Len(onBus.data) <= InputBufferSize
      => /\ ReceivedValidFrame' <=> onBus.dst \in {This_Station, Broadcast}
         /\ ~ReceivedInvalidFrame' ]_vars

(* An octet that comes after a silence within a frame is never taken for a *)
(* part of it, wherever the frame was cut off and wherever millis() wraps. *)
SilenceEndsFrame ==
  [][ OctetRead /\ waited > Tframe_abort => Receive_State = "IDLE" ]_vars

(* The loop of dlmstp_receive ends, also when no octet follows.            *)
LoopEnds == Receive_State # "IDLE" ~> Receive_State = "IDLE"

=============================================================================
