----------------------------- MODULE MstpMaster -----------------------------
(***************************************************************************)
(* One BACnet MS/TP master node: src/src/platform/dlmstp.c, driven by      *)
(* BACnetDevice::update(), with the UART in front of it and the network    *)
(* layer behind it.                                                        *)
(*                                                                         *)
(* The program is one thread.  Each call of update() goes through the      *)
(* phases of the variable pc:                                              *)
(*    "update"   the sketch's loop(), outside the library: time passes     *)
(*    "receive"  the loop around MSTP_Receive_Frame_FSM                    *)
(*    "master"   the loop around MSTP_Master_Node_FSM                      *)
(*    "deliver"  the end of dlmstp_receive and npdu_handler                *)
(* Octets reach the UART whenever the other stations send them; the node   *)
(* sees them, and restarts its silence timer, only when it reads them.     *)
(***************************************************************************)
EXTENDS Naturals, Sequences, FiniteSets

CONSTANTS
  This_Station,      \* MAC address of this node
  Nmax_master,       \* Max_Master property: highest master address
  Nmax_info_frames,  \* Max_Info_Frames property
  Npoll,             \* tokens between two maintenance polls
  Nretry_token,      \* times the token is sent again
  Nmin_octets,       \* octets that make the line "active"
  Tno_token, Tslot, Tusage_timeout, Tframe_abort,
  Wire,              \* what other stations may put on the bus
  EventLimit,        \* where the 8-bit EventCount saturates
  SilenceLimit,      \* where the modelled clocks saturate
  MaxLag,            \* longest time between two calls of update()
  UartSize,          \* capacity of the UART's receive buffer
  MaxArrivals        \* bound on what other stations send in a behaviour

Broadcast == 255
Address   == 0 .. Broadcast

FrameTypes == { "TOKEN", "POLL_FOR_MASTER", "REPLY_TO_POLL_FOR_MASTER",
                "TEST_REQUEST", "TEST_RESPONSE", "DATA_EXPECTING_REPLY",
                "DATA_NOT_EXPECTING_REPLY", "REPLY_POSTPONED", "PROPRIETARY" }

\* What the data of a received frame asks of the layers above: nothing to
\* deliver ("none": DataLength is 0), a confirmed request, a Who-Is that
\* matches this device, a network layer message, or anything without effect.
PayloadKinds == { "none", "confirmed", "who_is", "what_is_network_number",
                  "network_number_is", "reserved_network_message", "other" }
Payload == [kind : PayloadKinds, id : Nat]
NoData  == [kind |-> "none", id |-> 0]

Frame   == [type : FrameTypes, dst : Address, src : Address, data : Payload]
NoFrame == [type |-> "TEST_RESPONSE", dst |-> 0, src |-> 0, data |-> NoData]

\* A run of octets: a whole frame, one octet that starts no frame, a lone
\* first preamble octet, a frame that stops part way or a frame whose CRC
\* or length is wrong.
ItemKinds == { "frame", "octet", "preamble", "partial", "bad" }
Item == [kind : ItemKinds, octets : Nat \ {0}, frame : Frame]

\* A PDU this node transmits, "none" and "garbage" included.
Pdu     == [kind : {"none", "i_am", "reply", "network", "garbage"},
            to : Address, id : Nat]
NoPdu   == [kind |-> "none", to |-> 0, id |-> 0]
Garbage == [kind |-> "garbage", to |-> 0, id |-> 0]
IAm     == [kind |-> "i_am", to |-> Broadcast, id |-> 0]
NetworkPdu(dest) == [kind |-> "network", to |-> dest, id |-> 0]
Reply(f) == [kind |-> "reply", to |-> f.src, id |-> f.data.id]
\* The encoded lengths, of which only the differences matter.
PduLen(pdu) == CASE pdu.kind = "none" -> 0
                 [] pdu.kind = "i_am" -> 1
                 [] pdu.kind = "network" -> 2
                 [] OTHER -> 3

Output == [type : FrameTypes \cup {"nothing"}, dst : Address, data : Pdu,
           len : 0 .. 3]
Nothing == [type |-> "nothing", dst |-> 0, data |-> NoPdu, len |-> 0]

MasterStates == { "INITIALIZE", "IDLE", "USE_TOKEN", "DONE_WITH_TOKEN",
                  "PASS_TOKEN", "NO_TOKEN", "POLL_FOR_MASTER",
                  "ANSWER_DATA_REQUEST" }
\* HEADER and DATA behave alike at this grain: "FRAME".
ReceiveStates == {"IDLE", "PREAMBLE", "FRAME"}

(* dlmstp_set_mac_address and dlmstp_set_max_master keep the first. *)
ASSUME AddressAssumption ==
  /\ Nmax_master \in 0 .. 127
  /\ This_Station \in 0 .. Nmax_master
ASSUME LimitAssumption ==
  /\ Nmax_info_frames \in 1 .. 255
  /\ Npoll \in Nat \ {0, 1}
  /\ Nretry_token \in Nat
  /\ Nmin_octets \in Nat
  /\ EventLimit \in Nat /\ EventLimit > Nmin_octets
  /\ MaxLag \in Nat \ {0}
  /\ UartSize \in Nat /\ MaxArrivals \in Nat
ASSUME TimeAssumption ==
  /\ Tno_token \in Nat /\ Tslot \in Nat \ {0}
  /\ Tusage_timeout \in Nat /\ Tframe_abort \in Nat
  /\ Tusage_timeout < Tno_token /\ Tframe_abort < Tno_token
  /\ SilenceLimit \in Nat
  /\ SilenceLimit >= Tno_token + Tslot * (This_Station + 1)
ASSUME WireAssumption == Wire \subseteq Item

VARIABLES
  pc,
  \* MSTP_Receive_Frame_FSM and what it hands over
  Receive_State, ReceivedValidFrame, ReceivedInvalidFrame,
  frame,             \* FrameType, DestinationAddress, SourceAddress, InputBuffer
  EventCount,
  \* MSTP_Master_Node_FSM
  Master_State, SoleMaster, FrameCount, Next_Station, Poll_Station,
  RetryCount, TokenCount, ReceivePacketPending,
  \* the transmit slot and the layers above
  TransmitPacketPending, TransmitPacket, TransmitPacketLen,
  TransmitPacketDest, Handler_Transmit_Buffer, Send_I_Am_Flag,
  Local_Network_Number,
  \* the node's surroundings
  silence,           \* RS485_Timer_Silence()
  uart,              \* received by the UART, not yet read
  lag,               \* time since update() returned
  sent,              \* the frame the last step transmitted, if any
  quiet,             \* time since anyone last put an octet on the bus
  arrivals

receiver == <<Receive_State, ReceivedValidFrame, ReceivedInvalidFrame, frame,
              EventCount>>
ring     == <<SoleMaster, FrameCount, Next_Station, Poll_Station, RetryCount,
              TokenCount>>
slot     == <<TransmitPacketPending, TransmitPacket, TransmitPacketLen,
              TransmitPacketDest>>
upper    == <<Handler_Transmit_Buffer, Send_I_Am_Flag, Local_Network_Number>>
clocks   == <<silence, quiet>>
outside  == <<uart, lag, arrivals>>
vars == <<pc, receiver, Master_State, ring, ReceivePacketPending, slot, upper,
          clocks, outside, sent>>

ControlTypeOK ==
  /\ pc \in {"update", "receive", "master", "deliver"}
  /\ Master_State \in MasterStates
  /\ ReceivePacketPending \in BOOLEAN

ReceiverTypeOK ==
  /\ Receive_State \in ReceiveStates
  /\ ReceivedValidFrame \in BOOLEAN
  /\ ReceivedInvalidFrame \in BOOLEAN
  /\ frame \in Frame
  /\ EventCount \in 0 .. EventLimit

RingTypeOK ==
  /\ SoleMaster \in BOOLEAN
  /\ FrameCount \in 0 .. Nmax_info_frames
  /\ Next_Station \in Address
  /\ Poll_Station \in 0 .. Nmax_master
  /\ RetryCount \in 0 .. Nretry_token
  /\ TokenCount \in 0 .. Npoll

SlotTypeOK ==
  /\ TransmitPacketPending \in BOOLEAN
  /\ TransmitPacket \in {"NULL", "Handler_Transmit_Buffer", "stack"}
  /\ TransmitPacketLen \in 0 .. 3
  /\ TransmitPacketDest \in Address
  /\ Handler_Transmit_Buffer \in Pdu
  /\ Send_I_Am_Flag \in BOOLEAN
  /\ Local_Network_Number \in Nat

OutsideTypeOK ==
  /\ silence \in 0 .. SilenceLimit
  /\ quiet \in 0 .. SilenceLimit
  /\ uart \in Seq(Wire)
  /\ lag \in 0 .. MaxLag
  /\ arrivals \in 0 .. MaxArrivals
  /\ sent \in Output

TypeOK ==
  ControlTypeOK /\ ReceiverTypeOK /\ RingTypeOK /\ SlotTypeOK /\ OutsideTypeOK

(* Statics are zero at reset; the device object asks for an I-Am. *)
Init ==
  /\ pc = "update"
  /\ Receive_State = "IDLE"
  /\ ReceivedValidFrame = FALSE /\ ReceivedInvalidFrame = FALSE
  /\ frame = NoFrame
  /\ EventCount = 0
  /\ Master_State = "INITIALIZE"
  /\ SoleMaster = FALSE
  /\ FrameCount = 0 /\ Next_Station = 0 /\ Poll_Station = 0
  /\ RetryCount = 0 /\ TokenCount = 0
  /\ ReceivePacketPending = FALSE
  /\ TransmitPacketPending = FALSE
  /\ TransmitPacket = "NULL" /\ TransmitPacketLen = 0
  /\ TransmitPacketDest = 0
  /\ Handler_Transmit_Buffer = NoPdu
  /\ Send_I_Am_Flag = TRUE
  /\ Local_Network_Number = 0
  /\ silence = 0 /\ quiet = 0
  /\ uart = << >> /\ lag = 0 /\ arrivals = 0
  /\ sent = Nothing

(***************************************************************************)
(* The other stations and time.                                            *)
(***************************************************************************)
Saturated(n, limit) == IF n < limit THEN n ELSE limit

AbortDue == Receive_State # "IDLE" /\ silence > Tframe_abort

(* The loop around the receiver spins while a frame is incomplete; it acts *)
(* at once on an octet and on the abort timeout.                           *)
Listening ==
  pc = "receive" /\ Receive_State # "IDLE" /\ uart = << >> /\ ~AbortDue

Arrive ==
  /\ pc = "update" \/ Listening
  /\ arrivals < MaxArrivals
  /\ Len(uart) < UartSize
  /\ \E item \in Wire : uart' = Append(uart, item)
  /\ arrivals' = arrivals + 1
  /\ quiet' = 0
  /\ sent' = Nothing
  /\ UNCHANGED <<pc, receiver, Master_State, ring, ReceivePacketPending, slot,
                 upper, silence, lag>>

(* dlmstp_receive waits inside a frame: time passes there, too. *)
Tick ==
  /\ \/ pc = "update" /\ lag < MaxLag /\ lag' = lag + 1
     \/ Listening /\ UNCHANGED lag
  /\ silence' = Saturated(silence + 1, SilenceLimit)
  /\ quiet' = Saturated(quiet + 1, SilenceLimit)
  /\ sent' = Nothing
  /\ UNCHANGED <<pc, receiver, Master_State, ring, ReceivePacketPending, slot,
                 upper, uart, arrivals>>

(***************************************************************************)
(* update() and the receive half of dlmstp_receive.                        *)
(***************************************************************************)
BeginUpdate ==
  /\ pc = "update"
  /\ pc' = "receive"
  /\ lag' = 0
  /\ sent' = Nothing
  /\ UNCHANGED <<receiver, Master_State, ring, ReceivePacketPending, slot,
                 upper, clocks, uart, arrivals>>

Receiving ==
  /\ pc = "receive"
  /\ sent' = Nothing
  /\ UNCHANGED <<Master_State, ring, ReceivePacketPending, slot, upper, quiet,
                 lag, arrivals>>

FrameHeld == ReceivedValidFrame \/ ReceivedInvalidFrame

(* A flag the master machine has not cleared keeps the receiver off. *)
ReceiverOff ==
  /\ Receiving
  /\ FrameHeld
  /\ pc' = "master"
  /\ UNCHANGED <<receiver, uart, silence>>

ReceiveNothing ==
  /\ Receiving
  /\ ~FrameHeld /\ Receive_State = "IDLE" /\ uart = << >>
  /\ pc' = "master"
  /\ UNCHANGED <<receiver, uart, silence>>

ReceiveTimeout ==
  /\ Receiving
  /\ ~FrameHeld /\ AbortDue
  /\ ReceivedInvalidFrame' = (Receive_State = "FRAME")
  /\ Receive_State' = "IDLE"
  /\ pc' = "master"
  /\ UNCHANGED <<ReceivedValidFrame, frame, EventCount, uart, silence>>

\* Bug: octets read do not restart the silence timer.
SilenceRunsOn == UNCHANGED silence

RestartSilence == silence' = 0

(* Reading octets restarts the silence timer and counts them. *)
Read ==
  /\ Receiving
  /\ ~FrameHeld /\ ~AbortDue /\ uart # << >>
  /\ RestartSilence
  /\ EventCount' = Saturated(EventCount + Head(uart).octets, EventLimit)
  /\ uart' = Tail(uart)

ForUs(f) == f.dst \in {This_Station, Broadcast}

(* The header registers are written whoever the frame is for. *)
ReceiveFrame ==
  /\ Read
  /\ Head(uart).kind = "frame" /\ Receive_State # "FRAME"
  /\ frame' = Head(uart).frame
  /\ ReceivedValidFrame' = ForUs(Head(uart).frame)
  /\ Receive_State' = "IDLE"
  /\ pc' = "master"
  /\ UNCHANGED ReceivedInvalidFrame

(* A bad frame overwrites the registers, too, but nobody reads them before *)
(* the next good one.                                                      *)
ReceiveBadFrame ==
  /\ Read
  /\ Head(uart).kind = "bad" /\ Receive_State # "FRAME"
  /\ ReceivedInvalidFrame' = TRUE
  /\ Receive_State' = "IDLE"
  /\ pc' = "master"
  /\ UNCHANGED <<ReceivedValidFrame, frame>>

(* One octet a call while idle; after a preamble it ends the attempt. *)
ReceiveOctet ==
  /\ Read
  /\ Head(uart).kind = "octet" /\ Receive_State # "FRAME"
  /\ Receive_State' = "IDLE"
  /\ pc' = "master"
  /\ UNCHANGED <<ReceivedValidFrame, ReceivedInvalidFrame, frame>>

ReceiveStart ==
  /\ Read
  /\ Head(uart).kind \in {"preamble", "partial"} /\ Receive_State # "FRAME"
  /\ Receive_State' = IF Head(uart).kind = "preamble" THEN "PREAMBLE"
                                                      ELSE "FRAME"
  /\ UNCHANGED <<pc, ReceivedValidFrame, ReceivedInvalidFrame, frame>>

(* Inside a frame whatever follows is taken for its octets: either more   *)
(* are needed or a CRC fails.                                             *)
ReceiveInsideFrame ==
  /\ Read
  /\ Receive_State = "FRAME"
  /\ \/ UNCHANGED <<pc, Receive_State, ReceivedInvalidFrame>>
     \/ /\ ReceivedInvalidFrame' = TRUE
        /\ Receive_State' = "IDLE"
        /\ pc' = "master"
  /\ UNCHANGED <<ReceivedValidFrame, frame>>

Receive ==
  \/ ReceiverOff \/ ReceiveNothing \/ ReceiveTimeout \/ ReceiveFrame
  \/ ReceiveBadFrame \/ ReceiveOctet \/ ReceiveStart \/ ReceiveInsideFrame

(***************************************************************************)
(* MSTP_Master_Node_FSM: one action per transition of the code, named as   *)
(* its comments name them.  "master" is transition_now, "deliver" is not.  *)
(***************************************************************************)
\* Bug: the address after the highest one does not wrap to 0.
AfterUnwrapped(station) == station + 1

After(station) == (station + 1) % (Nmax_master + 1)

Master(state) ==
  /\ pc = "master"
  /\ Master_State = state
  /\ UNCHANGED <<Receive_State, frame, Local_Network_Number, outside>>

GoTo(state, next) == Master_State' = state /\ pc' = next

Send(type, dst, data, len) ==
  /\ sent' = [type |-> type, dst |-> dst, data |-> data, len |-> len]
  /\ silence' = 0
  /\ quiet' = 0

SendBare(type, dst) == Send(type, dst, NoPdu, 0)

SendNothing == sent' = Nothing /\ UNCHANGED clocks

KeepFlags == UNCHANGED <<ReceivedValidFrame, ReceivedInvalidFrame>>

KeepSlot == UNCHANGED <<slot, Handler_Transmit_Buffer, Send_I_Am_Flag>>

DoneInitializing ==
  /\ Master("INITIALIZE")
  /\ Next_Station' = This_Station
  /\ Poll_Station' = This_Station
  /\ TokenCount' = Npoll
  /\ SoleMaster' = FALSE
  /\ GoTo("IDLE", "master")
  /\ SendNothing /\ KeepFlags /\ KeepSlot
  /\ UNCHANGED <<EventCount, FrameCount, RetryCount, ReceivePacketPending>>

LostToken ==
  /\ Master("IDLE")
  /\ silence >= Tno_token
  /\ EventCount' = 0
  /\ ReceivedValidFrame' = FALSE
  /\ ReceivedInvalidFrame' = FALSE
  /\ GoTo("NO_TOKEN", "master")
  /\ SendNothing /\ KeepSlot
  /\ UNCHANGED <<ring, ReceivePacketPending>>

Idle ==
  /\ Master("IDLE")
  /\ silence < Tno_token
  /\ KeepSlot
  /\ UNCHANGED EventCount

IdleInvalidFrame ==
  /\ Idle
  /\ ReceivedInvalidFrame
  /\ ReceivedInvalidFrame' = FALSE
  /\ GoTo("IDLE", "deliver")
  /\ SendNothing
  /\ UNCHANGED <<ReceivedValidFrame, ring, ReceivePacketPending>>

IdleNoFrame ==
  /\ Idle
  /\ ~FrameHeld
  /\ GoTo("IDLE", "deliver")
  /\ SendNothing /\ KeepFlags
  /\ UNCHANGED <<ring, ReceivePacketPending>>

IdleValidFrame ==
  /\ Idle
  /\ ~ReceivedInvalidFrame /\ ReceivedValidFrame
  /\ UNCHANGED ReceivedInvalidFrame

ToThisStation == frame.dst # Broadcast

ReceivedToken ==
  /\ IdleValidFrame
  /\ frame.type = "TOKEN" /\ ToThisStation
  /\ ReceivedValidFrame' = FALSE
  /\ FrameCount' = 0
  /\ SoleMaster' = FALSE
  /\ GoTo("USE_TOKEN", "master")
  /\ SendNothing
  /\ UNCHANGED <<Next_Station, Poll_Station, RetryCount, TokenCount,
                 ReceivePacketPending>>

ReceivedPFM ==
  /\ IdleValidFrame
  /\ frame.type = "POLL_FOR_MASTER" /\ ToThisStation
  /\ ReceivedValidFrame' = FALSE
  /\ GoTo("IDLE", "deliver")
  /\ SendBare("REPLY_TO_POLL_FOR_MASTER", frame.src)
  /\ UNCHANGED <<ring, ReceivePacketPending>>

(* The response carries the request's data, which no property is about. *)
ReceivedTestRequest ==
  /\ IdleValidFrame
  /\ frame.type = "TEST_REQUEST"
  /\ ReceivedValidFrame' = FALSE
  /\ GoTo("IDLE", "deliver")
  /\ SendBare("TEST_RESPONSE", frame.src)
  /\ UNCHANGED <<ring, ReceivePacketPending>>

(* npdu_confirmed_service: a broadcast confirmed request is discarded. *)
BroadcastRequest ==
  frame.dst = Broadcast /\ frame.data.kind = "confirmed"

ReceivedDataNoReply ==
  /\ IdleValidFrame
  /\ frame.type = "DATA_NOT_EXPECTING_REPLY" /\ ~BroadcastRequest
  /\ ReceivedValidFrame' = FALSE
  /\ ReceivePacketPending' = TRUE
  /\ GoTo("IDLE", "deliver")
  /\ SendNothing
  /\ UNCHANGED ring

\* Bug: the request is released before it is answered.
ReleaseFrame == ReceivedValidFrame' = FALSE

HoldFrame == UNCHANGED ReceivedValidFrame

(* The frame is held for ANSWER_DATA_REQUEST, which keeps the receiver off. *)
ReceivedDataNeedingReply ==
  /\ IdleValidFrame
  /\ frame.type = "DATA_EXPECTING_REPLY" /\ ToThisStation
  /\ ReceivePacketPending' = TRUE
  /\ GoTo("ANSWER_DATA_REQUEST", "deliver")
  /\ HoldFrame
  /\ SendNothing
  /\ UNCHANGED ring

Unwanted ==
  \/ frame.type \in {"REPLY_TO_POLL_FOR_MASTER", "TEST_RESPONSE",
                     "REPLY_POSTPONED", "PROPRIETARY"}
  \/ frame.type \in {"TOKEN", "POLL_FOR_MASTER", "DATA_EXPECTING_REPLY"}
       /\ frame.dst = Broadcast
  \/ frame.type = "DATA_NOT_EXPECTING_REPLY" /\ BroadcastRequest

IgnoreFrame ==
  /\ IdleValidFrame
  /\ Unwanted
  /\ ReceivedValidFrame' = FALSE
  /\ GoTo("IDLE", "deliver")
  /\ SendNothing
  /\ UNCHANGED <<ring, ReceivePacketPending>>

IdleStep ==
  \/ LostToken \/ IdleInvalidFrame \/ IdleNoFrame \/ ReceivedToken
  \/ ReceivedPFM \/ ReceivedTestRequest \/ ReceivedDataNoReply
  \/ ReceivedDataNeedingReply \/ IgnoreFrame

UseToken ==
  /\ Master("USE_TOKEN")
  /\ KeepFlags
  /\ UNCHANGED <<EventCount, SoleMaster, Next_Station, Poll_Station,
                 RetryCount, TokenCount, ReceivePacketPending,
                 TransmitPacketPending, TransmitPacketDest>>

(* dlmstp_encode_unconfirmed_frame takes the transmit slot's pointer and   *)
(* length, whether or not a packet is pending in it.                       *)
SendIAm ==
  /\ UseToken
  /\ Send_I_Am_Flag
  /\ Send_I_Am_Flag' = FALSE
  /\ TransmitPacket' = "Handler_Transmit_Buffer"
  /\ Handler_Transmit_Buffer' = IAm
  /\ TransmitPacketLen' = PduLen(IAm)
  /\ Send("DATA_NOT_EXPECTING_REPLY", Broadcast, IAm, PduLen(IAm))
  /\ FrameCount' = FrameCount + 1
  /\ GoTo("DONE_WITH_TOKEN", "deliver")

NothingToSend ==
  /\ UseToken
  /\ ~Send_I_Am_Flag
  /\ TransmitPacketLen' = 0
  /\ FrameCount' = Nmax_info_frames
  /\ GoTo("DONE_WITH_TOKEN", "master")
  /\ SendNothing
  /\ UNCHANGED <<Send_I_Am_Flag, TransmitPacket, Handler_Transmit_Buffer>>

(* A token is passed on, or a poll sent, and an answer waited for. *)
PassTokenTo(station) ==
  /\ SendBare("TOKEN", station)
  /\ RetryCount' = 0
  /\ EventCount' = 0
  /\ GoTo("PASS_TOKEN", "deliver")

PollFor(station) ==
  /\ Poll_Station' = station
  /\ SendBare("POLL_FOR_MASTER", station)
  /\ RetryCount' = 0
  /\ GoTo("POLL_FOR_MASTER", "deliver")

Done ==
  /\ Master("DONE_WITH_TOKEN")
  /\ KeepFlags /\ KeepSlot
  /\ UNCHANGED <<SoleMaster, ReceivePacketPending>>

MayPass == FrameCount >= Nmax_info_frames

SendAnotherFrame ==
  /\ Done
  /\ ~MayPass
  /\ GoTo("USE_TOKEN", "master")
  /\ SendNothing
  /\ UNCHANGED <<EventCount, FrameCount, Next_Station, Poll_Station,
                 RetryCount, TokenCount>>

NextStationUnknown ==
  /\ Done
  /\ MayPass /\ ~SoleMaster /\ Next_Station = This_Station
  /\ PollFor(After(This_Station))
  /\ UNCHANGED <<EventCount, FrameCount, Next_Station, TokenCount>>

NextStationKnown ==
  /\ Done
  /\ MayPass /\ (SoleMaster \/ Next_Station # This_Station)

\* Bug: a sole master does not count the tokens it gives itself.
TokenNotCounted == UNCHANGED TokenCount

CountToken == TokenCount' = TokenCount + 1

SoleMasterAgain ==
  /\ NextStationKnown
  /\ TokenCount < Npoll - 1
  /\ SoleMaster /\ Next_Station # After(This_Station)
  /\ FrameCount' = 0
  /\ CountToken
  /\ GoTo("USE_TOKEN", "master")
  /\ SendNothing
  /\ UNCHANGED <<EventCount, Next_Station, Poll_Station, RetryCount>>

SendToken ==
  /\ NextStationKnown
  /\ TokenCount < Npoll - 1
  /\ ~SoleMaster \/ Next_Station = After(This_Station)
  /\ CountToken
  /\ PassTokenTo(Next_Station)
  /\ UNCHANGED <<FrameCount, Next_Station, Poll_Station>>

MaintenanceDue == TokenCount >= Npoll - 1

SoleMasterRestartMaintenancePFM ==
  /\ NextStationKnown
  /\ MaintenanceDue /\ After(Poll_Station) = Next_Station /\ SoleMaster
  /\ PollFor(After(Next_Station))
  /\ Next_Station' = This_Station
  /\ TokenCount' = 1
  /\ UNCHANGED <<EventCount, FrameCount>>

ResetMaintenancePFM ==
  /\ NextStationKnown
  /\ MaintenanceDue /\ After(Poll_Station) = Next_Station /\ ~SoleMaster
  /\ Poll_Station' = This_Station
  /\ TokenCount' = 1
  /\ PassTokenTo(Next_Station)
  /\ UNCHANGED <<FrameCount, Next_Station>>

SendMaintenancePFM ==
  /\ NextStationKnown
  /\ MaintenanceDue /\ After(Poll_Station) # Next_Station
  /\ PollFor(After(Poll_Station))
  /\ UNCHANGED <<EventCount, FrameCount, Next_Station, TokenCount>>

DoneWithTokenStep ==
  \/ SendAnotherFrame \/ NextStationUnknown \/ SoleMasterAgain \/ SendToken
  \/ SoleMasterRestartMaintenancePFM \/ ResetMaintenancePFM
  \/ SendMaintenancePFM

LineActive == EventCount > Nmin_octets

Passing ==
  /\ Master("PASS_TOKEN")
  /\ KeepFlags /\ KeepSlot
  /\ UNCHANGED <<SoleMaster, FrameCount, ReceivePacketPending>>

SawTokenUser ==
  /\ Passing
  /\ silence <= Tusage_timeout /\ LineActive
  /\ GoTo("IDLE", "master")
  /\ SendNothing
  /\ UNCHANGED <<EventCount, Next_Station, Poll_Station, RetryCount,
                 TokenCount>>

WaitForTokenUser ==
  /\ Passing
  /\ silence <= Tusage_timeout /\ ~LineActive
  /\ GoTo("PASS_TOKEN", "deliver")
  /\ SendNothing
  /\ UNCHANGED <<EventCount, Next_Station, Poll_Station, RetryCount,
                 TokenCount>>

\* Bug: the retry limit is off by one.
OneRetryMore == RetryCount <= Nretry_token

MayRetry == RetryCount < Nretry_token

RetrySendToken ==
  /\ Passing
  /\ silence > Tusage_timeout /\ MayRetry
  /\ RetryCount' = RetryCount + 1
  /\ SendBare("TOKEN", Next_Station)
  /\ EventCount' = 0
  /\ GoTo("PASS_TOKEN", "deliver")
  /\ UNCHANGED <<Next_Station, Poll_Station, TokenCount>>

FindNewSuccessor ==
  /\ Passing
  /\ silence > Tusage_timeout /\ ~MayRetry
  /\ PollFor(After(Next_Station))
  /\ Next_Station' = This_Station
  /\ TokenCount' = 0
  /\ UNCHANGED EventCount

PassTokenStep ==
  SawTokenUser \/ WaitForTokenUser \/ RetrySendToken \/ FindNewSuccessor

NoToken ==
  /\ Master("NO_TOKEN")
  /\ KeepFlags /\ KeepSlot
  /\ UNCHANGED <<EventCount, SoleMaster, FrameCount, ReceivePacketPending>>

SlotStart == Tno_token + Tslot * This_Station

\* Bug: the slot of this station has no width.
SlotWithoutWidth == Tno_token + Tslot * This_Station

SlotEnd == Tno_token + Tslot * (This_Station + 1)

SawFrame ==
  /\ NoToken
  /\ silence < SlotStart /\ LineActive
  /\ GoTo("IDLE", "master")
  /\ SendNothing
  /\ UNCHANGED <<Next_Station, Poll_Station, RetryCount, TokenCount>>

GenerateToken ==
  /\ NoToken
  /\ silence >= SlotStart /\ silence < SlotEnd
  /\ PollFor(After(This_Station))
  /\ Next_Station' = This_Station
  /\ TokenCount' = 0

(* Before the slot the node waits; after it there is no transition at all. *)
StayNoToken ==
  /\ NoToken
  /\ \/ silence < SlotStart /\ ~LineActive
     \/ silence >= SlotEnd
  /\ GoTo("NO_TOKEN", "deliver")
  /\ SendNothing
  /\ UNCHANGED <<Next_Station, Poll_Station, RetryCount, TokenCount>>

NoTokenStep == SawFrame \/ GenerateToken \/ StayNoToken

Polling ==
  /\ Master("POLL_FOR_MASTER")
  /\ KeepSlot
  /\ UNCHANGED ReceivePacketPending

PollAnswered ==
  frame.dst = This_Station /\ frame.type = "REPLY_TO_POLL_FOR_MASTER"

\* Bug: a successor is found, and the node still believes it is alone.
SuccessorForgetsSole(station) ==
  UNCHANGED SoleMaster /\ Next_Station' = station

NewSuccessor(station) == SoleMaster' = FALSE /\ Next_Station' = station

ReceivedReplyToPFM ==
  /\ Polling
  /\ ReceivedValidFrame /\ PollAnswered
  /\ NewSuccessor(frame.src)
  /\ Poll_Station' = This_Station
  /\ TokenCount' = 0
  /\ PassTokenTo(frame.src)
  /\ ReceivedValidFrame' = FALSE
  /\ UNCHANGED <<ReceivedInvalidFrame, FrameCount>>

(* This drops the token: the frame itself is not processed. *)
ReceivedUnexpectedFrame ==
  /\ Polling
  /\ ReceivedValidFrame /\ ~PollAnswered
  /\ GoTo("IDLE", "master")
  /\ ReceivedValidFrame' = FALSE
  /\ SendNothing
  /\ UNCHANGED <<ReceivedInvalidFrame, EventCount, ring>>

WaitForReplyToPFM ==
  /\ Polling
  /\ ~FrameHeld /\ silence <= Tusage_timeout
  /\ GoTo("POLL_FOR_MASTER", "deliver")
  /\ SendNothing /\ KeepFlags
  /\ UNCHANGED <<EventCount, ring>>

PollFailed ==
  /\ Polling
  /\ ~ReceivedValidFrame
  /\ silence > Tusage_timeout \/ ReceivedInvalidFrame
  /\ ReceivedInvalidFrame' = FALSE
  /\ UNCHANGED ReceivedValidFrame

SoleMasterPollFailed ==
  /\ PollFailed
  /\ SoleMaster
  /\ FrameCount' = 0
  /\ GoTo("USE_TOKEN", "master")
  /\ SendNothing
  /\ UNCHANGED <<EventCount, SoleMaster, Next_Station, Poll_Station,
                 RetryCount, TokenCount>>

DoneWithPFM ==
  /\ PollFailed
  /\ ~SoleMaster /\ Next_Station # This_Station
  /\ PassTokenTo(Next_Station)
  /\ UNCHANGED <<SoleMaster, FrameCount, Next_Station, Poll_Station,
                 TokenCount>>

\* Bug: the search goes on to this station's own address.
SearchOverLate == Poll_Station = This_Station

\* Bug: the search goes round and round.
SearchNeverOver == FALSE

\* Bug: the search ends one address early.
SearchOverEarly == After(After(Poll_Station)) = This_Station

SearchOver == After(Poll_Station) = This_Station

SendNextPFM ==
  /\ PollFailed
  /\ ~SoleMaster /\ Next_Station = This_Station
  /\ ~SearchOver
  /\ PollFor(After(Poll_Station))
  /\ UNCHANGED <<EventCount, SoleMaster, FrameCount, Next_Station,
                 TokenCount>>

DeclareSoleMaster ==
  /\ PollFailed
  /\ ~SoleMaster /\ Next_Station = This_Station
  /\ SearchOver
  /\ SoleMaster' = TRUE
  /\ FrameCount' = 0
  /\ GoTo("USE_TOKEN", "master")
  /\ SendNothing
  /\ UNCHANGED <<EventCount, Next_Station, Poll_Station, RetryCount,
                 TokenCount>>

PollForMasterStep ==
  \/ ReceivedReplyToPFM \/ ReceivedUnexpectedFrame \/ WaitForReplyToPFM
  \/ SoleMasterPollFailed \/ DoneWithPFM \/ SendNextPFM \/ DeclareSoleMaster

Answering ==
  /\ Master("ANSWER_DATA_REQUEST")
  /\ ReceivedValidFrame' = FALSE
  /\ GoTo("IDLE", "deliver")
  /\ UNCHANGED <<ReceivedInvalidFrame, EventCount, ring, ReceivePacketPending,
                 TransmitPacket, TransmitPacketLen, TransmitPacketDest,
                 Handler_Transmit_Buffer, Send_I_Am_Flag>>

(* What the pointer in the transmit slot reads when the frame goes out.    *)
(* h_npdu.c hands over arrays of its own stack frame, which is gone by     *)
(* then: they may have been overwritten.                                   *)
Transmittable ==
  CASE TransmitPacketLen = 0 -> {NoPdu}
    [] TransmitPacket = "stack" -> {NetworkPdu(TransmitPacketDest), Garbage}
    [] OTHER -> {Handler_Transmit_Buffer}

\* Bug: the slot stays taken after the reply.
SlotStaysTaken == UNCHANGED TransmitPacketPending

FreeSlot == TransmitPacketPending' = FALSE

SendReply ==
  /\ Answering
  /\ TransmitPacketPending
  /\ \E pdu \in Transmittable :
       Send("DATA_NOT_EXPECTING_REPLY", TransmitPacketDest, pdu,
            TransmitPacketLen)
  /\ FreeSlot

DeferredReply ==
  /\ Answering
  /\ ~TransmitPacketPending
  /\ SendBare("REPLY_POSTPONED", frame.src)
  /\ UNCHANGED TransmitPacketPending

AnswerDataRequestStep == SendReply \/ DeferredReply

MasterStep ==
  \/ DoneInitializing \/ IdleStep \/ SendIAm \/ NothingToSend
  \/ DoneWithTokenStep \/ PassTokenStep \/ NoTokenStep \/ PollForMasterStep
  \/ AnswerDataRequestStep

(***************************************************************************)
(* The end of dlmstp_receive, then npdu_handler and the APDU handlers.     *)
(***************************************************************************)
Deliver ==
  /\ pc = "deliver"
  /\ pc' = "update"
  /\ ReceivePacketPending' = FALSE
  /\ sent' = Nothing
  /\ UNCHANGED <<receiver, Master_State, ring, clocks, outside>>

Delivered == IF ReceivePacketPending THEN frame.data.kind ELSE "none"

(* dlmstp_send_pdu keeps the pointer, and drops the PDU when the slot is taken. *)
SendPdu(dest, pointer, pdu) ==
  IF TransmitPacketPending
  THEN UNCHANGED slot
  ELSE /\ TransmitPacketPending' = TRUE
       /\ TransmitPacket' = pointer
       /\ TransmitPacketLen' = PduLen(pdu)
       /\ TransmitPacketDest' = dest

DeliverNothing ==
  /\ Deliver
  /\ Delivered \in {"none", "other"}
  /\ UNCHANGED <<slot, upper>>

(* The reply is encoded into the shared buffer before the slot is tested. *)
HandleConfirmed ==
  /\ Deliver
  /\ Delivered = "confirmed"
  /\ Handler_Transmit_Buffer' = Reply(frame)
  /\ SendPdu(frame.src, "Handler_Transmit_Buffer", Reply(frame))
  /\ UNCHANGED <<Send_I_Am_Flag, Local_Network_Number>>

HandleWhoIs ==
  /\ Deliver
  /\ Delivered = "who_is"
  /\ Send_I_Am_Flag' = TRUE
  /\ UNCHANGED <<slot, Handler_Transmit_Buffer, Local_Network_Number>>

HandleNetworkNumberIs ==
  /\ Deliver
  /\ Delivered = "network_number_is"
  /\ Local_Network_Number' = frame.data.id
  /\ UNCHANGED <<slot, Handler_Transmit_Buffer, Send_I_Am_Flag>>

HandleNetworkQuery ==
  /\ Deliver
  /\ Delivered \in {"what_is_network_number", "reserved_network_message"}
  /\ IF Delivered = "what_is_network_number" /\ Local_Network_Number = 0
     THEN UNCHANGED slot
     ELSE SendPdu(frame.src, "stack", NetworkPdu(frame.src))
  /\ UNCHANGED upper

DeliverStep ==
  \/ DeliverNothing \/ HandleConfirmed \/ HandleWhoIs
  \/ HandleNetworkNumberIs \/ HandleNetworkQuery

Program == BeginUpdate \/ Receive \/ MasterStep \/ DeliverStep

Next == Program \/ Tick \/ Arrive

Spec == Init /\ [][Next]_vars

(* The sketch calls update() for ever, and time passes between the calls.  *)
FairSpec == Spec /\ WF_vars(Program) /\ SF_vars(Tick)

(***************************************************************************)
(* Safety.                                                                 *)
(***************************************************************************)
(* A node that takes itself for the only master knows no successor: the    *)
(* two are set in different transitions (POLL_FOR_MASTER, IDLE), and a     *)
(* sole master with a successor would never pass the token on.             *)
SoleMasterAlone == SoleMaster => Next_Station = This_Station

(* Every frame, a header with its preamble, makes the line active.         *)
FramesAreLong ==
  \A item \in Wire : item.kind = "frame" => item.octets > Nmin_octets

(* What other stations transmit is not cut off or damaged: after a bad     *)
(* frame the silence timer goes on from its last whole octet.              *)
NothingTorn == \A item \in Wire : item.kind \in {"frame", "octet", "preamble"}

(* The sketch calls update() before a token could seem lost.               *)
CalledInTime == MaxLag < Tno_token /\ Tframe_abort + 1 < Tno_token

(* IDLE tests for a lost token before it looks at a received frame, and    *)
(* LostToken throws that frame away: it must be too recent for that.       *)
ReceivedFrameBeatsLostToken ==
  Master_State = "IDLE" /\ pc = "master" /\ ReceivedValidFrame
    => silence < Tno_token

(* While a request waits for its answer nothing else is received over it:  *)
(* DeferredReply still reads its source from the frame's registers, and    *)
(* the application works on the same input buffer.                         *)
RequestHeld ==
  Master_State = "ANSWER_DATA_REQUEST"
    => /\ ReceivedValidFrame
       /\ frame.type = "DATA_EXPECTING_REPLY" /\ frame.dst = This_Station

\* What the network layer and the application answer with a PDU.
Answered == {"confirmed", "what_is_network_number",
             "reserved_network_message"}

(* The habit of the other stations that the comment in ANSWER_DATA_REQUEST *)
(* takes for granted: only a frame that expects a reply asks for one.      *)
RequestsExpectReply ==
  \A item \in Wire :
    item.frame.data.kind \in Answered
      => \/ item.frame.type = "DATA_EXPECTING_REPLY"
         \/ item.frame.dst = Broadcast /\ item.frame.data.kind = "confirmed"

(* The transmit slot is taken only by the reply to the request in hand.    *)
PendingReplyIsCurrent ==
  TransmitPacketPending
    => /\ Master_State = "ANSWER_DATA_REQUEST"
       /\ TransmitPacketDest = frame.src
       /\ TransmitPacketLen > 0

(* dlmstp.c, ANSWER_DATA_REQUEST: "the only packets pending are confirmed  *)
(* data requests".  A confirmed request is answered with its own reply,    *)
(* and the reply goes to the station that asked.                           *)
ReplyAnswersRequest ==
  [][ Master_State = "ANSWER_DATA_REQUEST" /\ pc = "master"
        /\ frame.data.kind = "confirmed"
      => sent' = [type |-> "DATA_NOT_EXPECTING_REPLY", dst |-> frame.src,
                  data |-> Reply(frame), len |-> PduLen(Reply(frame))] ]_vars

(* dlmstp.c, NO_TOKEN: the token is claimed after a time in which "there   *)
(* has been no network activity", in which no other station transmitted.   *)
ClaimsOnlySilentBus ==
  [][ Master_State = "NO_TOKEN" /\ Master_State' = "POLL_FOR_MASTER"
      => quiet >= Tno_token ]_vars

(* The part of the contract every other master relies on.                  *)
Role == CASE Master_State \in {"USE_TOKEN", "DONE_WITH_TOKEN"} -> "holding"
          [] Master_State = "PASS_TOKEN" -> "passing"
          [] Master_State = "POLL_FOR_MASTER" -> "polling"
          [] OTHER -> "listening"

Contract == INSTANCE TokenContract WITH
  MaxFrames <- Nmax_info_frames,
  MaxRetries <- Nretry_token,
  Stations <- Address,
  role <- Role,
  frames <- IF Role = "holding" THEN FrameCount ELSE 0,
  successor <- IF Role = "passing" THEN Next_Station ELSE This_Station,
  tries <- IF Role = "passing" THEN RetryCount ELSE 0,
  sole <- SoleMaster,
  offered <- ReceivedValidFrame /\ frame.type = "TOKEN"
               /\ frame.dst = This_Station,
  out <- [type |-> sent.type, dst |-> sent.dst]

(* The node keeps the contract: it speaks unasked only with the token, a   *)
(* bounded number of frames, and repeats it a bounded number of times.     *)
KeepsContract == Contract!Spec

(***************************************************************************)
(* Liveness, under FairSpec.                                               *)
(***************************************************************************)
(* Every call of update() returns: the loops in dlmstp_receive end.        *)
UpdateReturns == pc # "update" ~> pc = "update"

(* NO_TOKEN ends: the token is generated or another station is heard.      *)
LeavesNoToken == Master_State = "NO_TOKEN" ~> Master_State # "NO_TOKEN"

(* An I-Am that was asked for, at start-up or by a Who-Is, is broadcast.   *)
IAmIsSent == Send_I_Am_Flag ~> sent.data = IAm

=============================================================================
