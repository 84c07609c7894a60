-------------------------- MODULE MstpMaster_proofs --------------------------
(***************************************************************************)
(* Proofs about MstpMaster and MstpSearch for every value of their         *)
(* constants: types, the request a node holds and the reply it owes, when  *)
(* a token is claimed, the contract with the other masters, and the search *)
(* for a successor.                                                        *)
(***************************************************************************)
EXTENDS MstpSearch, Integers, TLAPS

USE AddressAssumption, LimitAssumption, TimeAssumption, WireAssumption

(* The successor of an address on the ring is an address of the ring.      *)
LEMMA AfterInRing ==
  ASSUME NEW s \in Nat PROVE After(s) \in 0 .. Nmax_master
  BY DEF After

(* What other stations send has the type the receiver relies on.           *)
LEMMA HeadOfUart ==
  ASSUME uart \in Seq(Wire), uart # << >>
  PROVE  /\ Head(uart) \in Item /\ Head(uart).frame \in Frame
         /\ Head(uart).octets \in Nat
         /\ Tail(uart) \in Seq(Wire)
  <1>1. Head(uart) \in Wire /\ Tail(uart) \in Seq(Wire)
    OBVIOUS
  <1> QED BY <1>1 DEF Item

(* A counter that saturates stays within its limit.                        *)
LEMMA SaturatedInRange ==
  ASSUME NEW n \in Nat, NEW limit \in Nat
  PROVE  Saturated(n, limit) \in 0 .. limit
  BY DEF Saturated

(* The constants the program starts from have their types.                 *)
LEMMA ConstantTypes ==
  /\ NoFrame \in Frame /\ NoPdu \in Pdu /\ Garbage \in Pdu /\ IAm \in Pdu
  /\ Nothing \in Output
  /\ This_Station \in Address
  BY DEF NoFrame, Frame, FrameTypes, NoData, Payload, PayloadKinds, NoPdu,
         Garbage, IAm, Pdu, Nothing, Output, Address, Broadcast

(* An encoded length is one of the modelled ones.                          *)
LEMMA PduLenRange == \A pdu : PduLen(pdu) \in 0 .. 3
  BY DEF PduLen

(* USE_TOKEN is entered with a frame left to send: FrameCount, an eight    *)
(* bit counter, never passes Nmax_info_frames.                             *)
MayUseToken == Master_State = "USE_TOKEN" => FrameCount < Nmax_info_frames

TypeInv == TypeOK /\ MayUseToken


(* A counter that was reset is in range.                                   *)
LEMMA ZeroInRange == \A n \in Nat : 0 \in 0 .. n
  OBVIOUS
(***************************************************************************)
(* The steps of MSTP_Master_Node_FSM.                                      *)
(***************************************************************************)
(* What the machine does to its own control variables.                     *)
LEMMA MasterControlType ==
  ASSUME TypeInv, MasterStep PROVE ControlTypeOK'
  <1> USE DEF TypeInv, TypeOK, ControlTypeOK, MasterStates, Master, GoTo
  <1>1. CASE DoneInitializing
    BY <1>1 DEF DoneInitializing
  <1>2. CASE IdleStep
    BY <1>2 DEF IdleStep, LostToken, Idle, IdleInvalidFrame, IdleNoFrame,
       IdleValidFrame, ReceivedToken, ReceivedPFM, ReceivedTestRequest,
       ReceivedDataNoReply, ReceivedDataNeedingReply, IgnoreFrame
  <1>3. CASE SendIAm \/ NothingToSend
    BY <1>3 DEF SendIAm, NothingToSend, UseToken
  <1>4. CASE DoneWithTokenStep
    BY <1>4 DEF DoneWithTokenStep, Done, NextStationKnown, SendAnotherFrame,
       NextStationUnknown, SoleMasterAgain, SendToken,
       SoleMasterRestartMaintenancePFM, ResetMaintenancePFM,
       SendMaintenancePFM, PassTokenTo, PollFor
  <1>5. CASE PassTokenStep
    BY <1>5 DEF PassTokenStep, Passing, SawTokenUser, WaitForTokenUser,
       RetrySendToken, FindNewSuccessor, PollFor
  <1>6. CASE NoTokenStep
    BY <1>6 DEF NoTokenStep, NoToken, SawFrame, GenerateToken, StayNoToken,
       PollFor
  <1>7. CASE PollForMasterStep
    BY <1>7 DEF PollForMasterStep, Polling, PollFailed, ReceivedReplyToPFM,
       ReceivedUnexpectedFrame, WaitForReplyToPFM, SoleMasterPollFailed,
       DoneWithPFM, SendNextPFM, DeclareSoleMaster, PassTokenTo, PollFor
  <1>8. CASE AnswerDataRequestStep
    BY <1>8 DEF AnswerDataRequestStep, Answering, SendReply, DeferredReply
  <1> QED BY <1>1, <1>2, <1>3, <1>4, <1>5, <1>6, <1>7, <1>8 DEF MasterStep

(* It clears the receiver's flags and counter, and sets none of them.      *)
LEMMA MasterReceiverType ==
  ASSUME TypeInv, MasterStep PROVE ReceiverTypeOK'
  <1> USE DEF TypeInv, TypeOK, ReceiverTypeOK, Master, KeepFlags
  <1>1. CASE DoneInitializing
    BY <1>1 DEF DoneInitializing
  <1>2. CASE IdleStep
    <2>1. CASE LostToken
      BY <2>1, ZeroInRange, Zenon DEF LostToken
    <2>2. CASE ~LostToken
      BY <1>2, <2>2 DEF IdleStep, Idle, IdleInvalidFrame, IdleNoFrame,
       IdleValidFrame, ReceivedToken, ReceivedPFM, ReceivedTestRequest,
       ReceivedDataNoReply, ReceivedDataNeedingReply, HoldFrame, IgnoreFrame
    <2> QED BY <2>1, <2>2
  <1>3. CASE SendIAm \/ NothingToSend
    BY <1>3 DEF SendIAm, NothingToSend, UseToken
  <1>4. CASE DoneWithTokenStep
    BY <1>4 DEF DoneWithTokenStep, Done, NextStationKnown, SendAnotherFrame,
       NextStationUnknown, SoleMasterAgain, SendToken,
       SoleMasterRestartMaintenancePFM, ResetMaintenancePFM,
       SendMaintenancePFM, PassTokenTo, PollFor
  <1>5. CASE PassTokenStep
    BY <1>5 DEF PassTokenStep, Passing, SawTokenUser, WaitForTokenUser,
       RetrySendToken, FindNewSuccessor, PollFor
  <1>6. CASE NoTokenStep
    BY <1>6 DEF NoTokenStep, NoToken, SawFrame, GenerateToken, StayNoToken,
       PollFor
  <1>7. CASE PollForMasterStep
    BY <1>7, ZeroInRange, Zenon
       DEF PollForMasterStep, Polling, PollFailed, ReceivedReplyToPFM,
           ReceivedUnexpectedFrame, WaitForReplyToPFM, SoleMasterPollFailed,
           DoneWithPFM, SendNextPFM, DeclareSoleMaster, PassTokenTo, PollFor
  <1>8. CASE AnswerDataRequestStep
    BY <1>8 DEF AnswerDataRequestStep, Answering, SendReply, DeferredReply
  <1> QED BY <1>1, <1>2, <1>3, <1>4, <1>5, <1>6, <1>7, <1>8 DEF MasterStep

(* USE_TOKEN and ANSWER_DATA_REQUEST are the users of the transmit slot.   *)
LEMMA MasterSlotType ==
  ASSUME TypeInv, MasterStep PROVE SlotTypeOK'
  <1> USE DEF TypeInv, TypeOK, SlotTypeOK, Master, KeepSlot, slot
  <1>1. CASE DoneInitializing
    BY <1>1 DEF DoneInitializing
  <1>2. CASE IdleStep
    BY <1>2 DEF IdleStep, LostToken, Idle, IdleInvalidFrame, IdleNoFrame,
       IdleValidFrame, ReceivedToken, ReceivedPFM, ReceivedTestRequest,
       ReceivedDataNoReply, ReceivedDataNeedingReply, IgnoreFrame
  <1>3. CASE SendIAm \/ NothingToSend
    <2>1. Send_I_Am_Flag' \in BOOLEAN
      BY <1>3, Zenon DEF SendIAm, NothingToSend
    <2>2. /\ TransmitPacket' \in {TransmitPacket, "Handler_Transmit_Buffer"}
          /\ TransmitPacketLen' \in {0, PduLen(IAm)}
          /\ Handler_Transmit_Buffer' \in {Handler_Transmit_Buffer, IAm}
          /\ UNCHANGED <<TransmitPacketPending, TransmitPacketDest,
                         Local_Network_Number>>
      BY <1>3 DEF SendIAm, NothingToSend, UseToken
    <2> QED BY <2>1, <2>2, PduLenRange, ConstantTypes
  <1>4. CASE DoneWithTokenStep
    BY <1>4 DEF DoneWithTokenStep, Done, NextStationKnown, SendAnotherFrame,
       NextStationUnknown, SoleMasterAgain, SendToken,
       SoleMasterRestartMaintenancePFM, ResetMaintenancePFM,
       SendMaintenancePFM
  <1>5. CASE PassTokenStep
    BY <1>5 DEF PassTokenStep, Passing, SawTokenUser, WaitForTokenUser,
       RetrySendToken, FindNewSuccessor
  <1>6. CASE NoTokenStep
    BY <1>6 DEF NoTokenStep, NoToken, SawFrame, GenerateToken, StayNoToken
  <1>7. CASE PollForMasterStep
    BY <1>7 DEF PollForMasterStep, Polling, PollFailed, ReceivedReplyToPFM,
       ReceivedUnexpectedFrame, WaitForReplyToPFM, SoleMasterPollFailed,
       DoneWithPFM, SendNextPFM, DeclareSoleMaster
  <1>8. CASE AnswerDataRequestStep
    <2>1. TransmitPacketPending' \in BOOLEAN
      BY <1>8, Zenon DEF AnswerDataRequestStep, SendReply, DeferredReply,
         FreeSlot
    <2>2. UNCHANGED <<TransmitPacket, TransmitPacketLen, TransmitPacketDest,
                      Handler_Transmit_Buffer, Send_I_Am_Flag,
                      Local_Network_Number>>
      BY <1>8 DEF AnswerDataRequestStep, Answering, SendReply, DeferredReply
    <2> QED BY <2>1, <2>2
  <1> QED BY <1>1, <1>2, <1>3, <1>4, <1>5, <1>6, <1>7, <1>8 DEF MasterStep

(* What it knows of the ring stays in range, wrap-around and counters.     *)
LEMMA MasterRingType ==
  ASSUME TypeInv, MasterStep PROVE RingTypeOK' /\ MayUseToken'
  <1> USE DEF TypeInv, TypeOK, RingTypeOK, MayUseToken, ring, Master, GoTo
  <1>1. CASE DoneInitializing
    <2>1. SoleMaster' \in BOOLEAN
      BY <1>1, Zenon DEF DoneInitializing
    <2>2. /\ Next_Station' \in Address
          /\ Poll_Station' = This_Station /\ TokenCount' = Npoll
          /\ Master_State' = "IDLE"
          /\ UNCHANGED <<FrameCount, RetryCount>>
      BY <1>1, ConstantTypes DEF DoneInitializing
    <2> QED BY <2>1, <2>2
  <1>2. CASE IdleStep
    <2>1. CASE ReceivedToken
      <3>1. SoleMaster' \in BOOLEAN
        BY <2>1, Zenon DEF ReceivedToken
      <3>2. /\ FrameCount' = 0
            /\ UNCHANGED <<Next_Station, Poll_Station, RetryCount,
                           TokenCount>>
        BY <2>1 DEF ReceivedToken
      <3> QED BY <3>1, <3>2
    <2>2. CASE ~ReceivedToken
      BY <1>2, <2>2
         DEF IdleStep, LostToken, Idle, IdleInvalidFrame, IdleNoFrame,
             IdleValidFrame, ReceivedPFM, ReceivedTestRequest,
             ReceivedDataNoReply, ReceivedDataNeedingReply, IgnoreFrame
    <2> QED BY <2>1, <2>2
  <1>3. CASE SendIAm \/ NothingToSend
    BY <1>3 DEF SendIAm, NothingToSend, UseToken
  <1>4. CASE DoneWithTokenStep
    BY <1>4, AfterInRing, ConstantTypes
       DEF DoneWithTokenStep, Done, NextStationKnown, SendAnotherFrame,
           NextStationUnknown, SoleMasterAgain, SendToken,
           SoleMasterRestartMaintenancePFM, ResetMaintenancePFM,
           SendMaintenancePFM, Address, PollFor, PassTokenTo, MayPass,
           CountToken
  <1>5. CASE PassTokenStep
    BY <1>5, AfterInRing, ConstantTypes
       DEF PassTokenStep, Passing, SawTokenUser, WaitForTokenUser,
           RetrySendToken, FindNewSuccessor, Address, PollFor, MayRetry
  <1>6. CASE NoTokenStep
    BY <1>6, AfterInRing, ConstantTypes
       DEF NoTokenStep, NoToken, SawFrame, GenerateToken, StayNoToken, PollFor
  <1>7. CASE PollForMasterStep
    <2>1. CASE ReceivedReplyToPFM
      <3>1. SoleMaster' \in BOOLEAN
        BY <2>1, Zenon DEF ReceivedReplyToPFM, NewSuccessor
      <3>2. Master_State' = "PASS_TOKEN" /\ Next_Station' \in Address
        BY <2>1 DEF ReceivedReplyToPFM, NewSuccessor, ReceiverTypeOK, Frame,
           PassTokenTo
      <3>3. /\ Poll_Station' = This_Station
            /\ RetryCount' = 0 /\ TokenCount' = 0
            /\ UNCHANGED FrameCount
        BY <2>1 DEF ReceivedReplyToPFM, PassTokenTo
      <3> QED BY <3>1, <3>2, <3>3
    <2>2. CASE ~ReceivedReplyToPFM
      <3> USE DEF PollForMasterStep, Polling, PollFailed,
              ReceivedUnexpectedFrame, WaitForReplyToPFM,
              SoleMasterPollFailed, DoneWithPFM, SendNextPFM,
              DeclareSoleMaster
      <3>1. SoleMaster' \in BOOLEAN
        BY <1>7, <2>2, Zenon
      <3>2. /\ \/ FrameCount' = 0
               \/ FrameCount' = FrameCount /\ Master_State' # "USE_TOKEN"
            /\ Next_Station' = Next_Station /\ TokenCount' = TokenCount
            /\ RetryCount' \in {0, RetryCount}
            /\ Poll_Station' \in {Poll_Station, After(Poll_Station)}
        BY <1>7, <2>2 DEF PollFor, PassTokenTo
      <3> QED BY <3>1, <3>2, AfterInRing
    <2> QED BY <2>1, <2>2
  <1>8. CASE AnswerDataRequestStep
    BY <1>8 DEF AnswerDataRequestStep, Answering, SendReply, DeferredReply
  <1> QED BY <1>1, <1>2, <1>3, <1>4, <1>5, <1>6, <1>7, <1>8 DEF MasterStep

(* What the machine transmits is a frame of the right form.                *)
Sound == /\ sent' \in Output
         /\ silence' \in 0 .. SilenceLimit /\ quiet' \in 0 .. SilenceLimit

(* A frame put together from typed parts is sound, and restarts the clocks. *)
LEMMA SendSound ==
  ASSUME NEW type \in FrameTypes, NEW dst \in Address, NEW data \in Pdu,
         NEW len \in 0 .. 3, Send(type, dst, data, len)
  PROVE  Sound
  BY DEF Send, Output, Sound

(* So is a frame without data, and a step that sends nothing.              *)
LEMMA SendBareSound ==
  ASSUME NEW type \in FrameTypes, NEW dst \in Address, SendBare(type, dst)
  PROVE  Sound
  BY SendSound, ConstantTypes DEF SendBare

(* A step that sends nothing leaves the clocks alone.                      *)
LEMMA SendNothingSound == ASSUME OutsideTypeOK, SendNothing PROVE Sound
  BY ConstantTypes DEF OutsideTypeOK, SendNothing, clocks, Sound

(* A poll goes to the address after a known one: it stays on the ring.     *)
LEMMA PollSound ==
  ASSUME NEW s \in Address, PollFor(After(s)) PROVE Sound
  <1>1. s \in Nat /\ 0 .. Nmax_master \subseteq Address
    BY DEF Address, Broadcast
  <1> QED BY <1>1, AfterInRing, SendBareSound DEF PollFor, FrameTypes

(* The token goes to a known address.                                      *)
LEMMA PassSound ==
  ASSUME NEW s \in Address, PassTokenTo(s) PROVE Sound
  BY SendBareSound DEF PassTokenTo, FrameTypes

(* Whatever the slot's pointer reads, it is one of the modelled PDUs.      *)
LEMMA TransmittableType ==
  ASSUME TypeInv, NEW pdu \in Transmittable PROVE pdu \in Pdu
  <1>1. NetworkPdu(TransmitPacketDest) \in Pdu
    BY DEF NetworkPdu, Pdu, TypeInv, TypeOK, SlotTypeOK
  <1> QED BY <1>1, ConstantTypes DEF Transmittable, TypeInv, TypeOK, SlotTypeOK

(* No transition transmits anything else.                                  *)
LEMMA MasterSound ==
  ASSUME TypeInv, MasterStep PROVE Sound
  <1> USE SendNothingSound, PollSound, PassSound, SendBareSound
      DEF TypeInv, TypeOK
  <1>1. /\ Poll_Station \in Address /\ Next_Station \in Address
        /\ This_Station \in Address /\ frame.src \in Address
    BY ConstantTypes
       DEF RingTypeOK, ReceiverTypeOK, Frame, Address, Broadcast
  <1>2. CASE DoneInitializing
    BY <1>2 DEF DoneInitializing
  <1>3. CASE IdleStep
    BY <1>1, <1>3 DEF IdleStep, LostToken, IdleInvalidFrame, IdleNoFrame,
       ReceivedToken, ReceivedPFM, ReceivedTestRequest, FrameTypes,
       ReceivedDataNoReply, ReceivedDataNeedingReply, IgnoreFrame
  <1>4. CASE SendIAm \/ NothingToSend
    <2>1. CASE SendIAm
      <3>1. Send("DATA_NOT_EXPECTING_REPLY", Broadcast, IAm, PduLen(IAm))
        BY <2>1 DEF SendIAm
      <3>2. /\ "DATA_NOT_EXPECTING_REPLY" \in FrameTypes
            /\ Broadcast \in Address /\ IAm \in Pdu /\ PduLen(IAm) \in 0 .. 3
        BY PduLenRange, ConstantTypes DEF FrameTypes, Address, Broadcast
      <3> QED BY ONLY <3>1, <3>2, SendSound
    <2>2. CASE NothingToSend
      BY <2>2 DEF NothingToSend
    <2> QED BY <1>4, <2>1, <2>2
  <1>5. CASE DoneWithTokenStep
    BY <1>1, <1>5 DEF DoneWithTokenStep, SendAnotherFrame, NextStationUnknown,
       SoleMasterAgain, SendToken, SoleMasterRestartMaintenancePFM,
       ResetMaintenancePFM, SendMaintenancePFM
  <1>6. CASE PassTokenStep
    BY <1>1, <1>6 DEF PassTokenStep, SawTokenUser, WaitForTokenUser,
       RetrySendToken, FindNewSuccessor, FrameTypes
  <1>7. CASE NoTokenStep
    BY <1>1, <1>7 DEF NoTokenStep, SawFrame, GenerateToken, StayNoToken
  <1>8. CASE PollForMasterStep
    BY <1>1, <1>8 DEF PollForMasterStep, ReceivedReplyToPFM,
       ReceivedUnexpectedFrame, WaitForReplyToPFM, SoleMasterPollFailed,
       DoneWithPFM, SendNextPFM, DeclareSoleMaster
  <1>9. CASE SendReply
    BY <1>9, SendSound, TransmittableType
       DEF SendReply, SlotTypeOK, FrameTypes
  <1>10. CASE DeferredReply
    BY <1>1, <1>10 DEF DeferredReply, FrameTypes
  <1> QED BY <1>2, <1>3, <1>4, <1>5, <1>6, <1>7, <1>8, <1>9, <1>10
          DEF MasterStep, AnswerDataRequestStep

(* The machine does not touch the UART or the time since the last call.    *)
LEMMA MasterOutsideType ==
  ASSUME TypeInv, MasterStep PROVE OutsideTypeOK'
  <1>1. UNCHANGED outside
    BY DEF MasterStep, IdleStep, DoneWithTokenStep, PassTokenStep, NoTokenStep,
       PollForMasterStep, AnswerDataRequestStep, Master, DoneInitializing,
       LostToken, Idle, IdleInvalidFrame, IdleNoFrame, IdleValidFrame,
       ReceivedToken, ReceivedPFM, ReceivedTestRequest, ReceivedDataNoReply,
       ReceivedDataNeedingReply, IgnoreFrame, UseToken, SendIAm,
       NothingToSend, Done, NextStationKnown, SendAnotherFrame,
       NextStationUnknown, SoleMasterAgain, SendToken,
       SoleMasterRestartMaintenancePFM, ResetMaintenancePFM,
       SendMaintenancePFM, Passing, SawTokenUser, WaitForTokenUser,
       RetrySendToken, FindNewSuccessor, NoToken, SawFrame, GenerateToken,
       StayNoToken, Polling, PollFailed, ReceivedReplyToPFM,
       ReceivedUnexpectedFrame, WaitForReplyToPFM, SoleMasterPollFailed,
       DoneWithPFM, SendNextPFM, DeclareSoleMaster, Answering, SendReply,
       DeferredReply
  <1> QED BY <1>1, MasterSound
          DEF TypeInv, TypeOK, OutsideTypeOK, outside, Sound

(* Together: a step of the master machine preserves the invariant.         *)
LEMMA MasterType == ASSUME TypeInv, MasterStep PROVE TypeInv'
  BY MasterControlType, MasterReceiverType, MasterRingType, MasterSlotType,
     MasterOutsideType DEF TypeInv, TypeOK

(***************************************************************************)
(* The other steps.                                                        *)
(***************************************************************************)
(* So do the other stations, time and the start of a call.                 *)
LEMMA EnvironmentType ==
  ASSUME TypeInv, Arrive \/ Tick \/ BeginUpdate PROVE TypeInv'
  <1> USE DEF TypeInv, TypeOK, ControlTypeOK, ReceiverTypeOK, RingTypeOK,
       SlotTypeOK, OutsideTypeOK, MayUseToken, receiver, ring, slot, upper,
       clocks
  <1>1. CASE Arrive
    <2>1. uart' \in Seq(Wire)
      BY <1>1 DEF Arrive
    <2>2. arrivals' \in 0 .. MaxArrivals
      BY <1>1 DEF Arrive
    <2> QED BY <1>1, <2>1, <2>2, ConstantTypes DEF Arrive
  <1>2. CASE Tick
    <2>1. lag' \in 0 .. MaxLag
      BY <1>2 DEF Tick
    <2>2. silence' \in 0 .. SilenceLimit /\ quiet' \in 0 .. SilenceLimit
      BY <1>2, SaturatedInRange DEF Tick
    <2> QED BY <1>2, <2>1, <2>2, ConstantTypes DEF Tick
  <1>3. CASE BeginUpdate
    BY <1>3, ConstantTypes DEF BeginUpdate
  <1> QED BY <1>1, <1>2, <1>3

(* Reading octets yields a frame and saturates the counter.                *)
LEMMA ReadType ==
  ASSUME TypeInv, Read
  PROVE  /\ Head(uart).frame \in Frame /\ uart' \in Seq(Wire)
         /\ EventCount' \in 0 .. EventLimit /\ silence' = 0
  <1>1. uart \in Seq(Wire) /\ uart # << >> /\ EventCount \in Nat
    BY DEF TypeInv, TypeOK, OutsideTypeOK, ReceiverTypeOK, Read
  <1>2. EventCount + Head(uart).octets \in Nat
    BY <1>1, HeadOfUart
  <1> QED BY <1>1, <1>2, HeadOfUart, SaturatedInRange DEF Read, RestartSilence

(* The receiver writes its own registers only.                             *)
LEMMA ReceiveType ==
  ASSUME TypeInv, Receive PROVE TypeInv'
  <1>1. /\ RingTypeOK' /\ SlotTypeOK' /\ MayUseToken'
        /\ Master_State' \in MasterStates /\ ReceivePacketPending' \in BOOLEAN
        /\ quiet' \in 0 .. SilenceLimit /\ lag' \in 0 .. MaxLag
        /\ arrivals' \in 0 .. MaxArrivals /\ sent' \in Output
    <2>1. Receiving
      BY DEF Receive, Read, ReceiverOff, ReceiveNothing, ReceiveTimeout,
         ReceiveFrame, ReceiveBadFrame, ReceiveOctet, ReceiveStart,
         ReceiveInsideFrame
    <2> QED BY <2>1, ConstantTypes
            DEF Receiving, TypeInv, TypeOK, ControlTypeOK, RingTypeOK,
                SlotTypeOK, OutsideTypeOK, MayUseToken, ring, slot, upper
  <1>2. pc' \in {"receive", "master"}
    BY DEF Receive, Read, Receiving, ReceiverOff, ReceiveNothing,
       ReceiveTimeout, ReceiveFrame, ReceiveBadFrame, ReceiveOctet,
       ReceiveStart, ReceiveInsideFrame
  <1>3. silence' \in 0 .. SilenceLimit /\ uart' \in Seq(Wire)
    BY ReadType DEF Receive, ReceiverOff, ReceiveNothing, ReceiveTimeout,
       ReceiveFrame, ReceiveBadFrame, ReceiveOctet, ReceiveStart,
       ReceiveInsideFrame, TypeInv, TypeOK, OutsideTypeOK
  <1>4. frame' \in Frame /\ EventCount' \in 0 .. EventLimit
    BY ReadType DEF Receive, ReceiverOff, ReceiveNothing, ReceiveTimeout,
       ReceiveFrame, ReceiveBadFrame, ReceiveOctet, ReceiveStart,
       ReceiveInsideFrame, TypeInv, TypeOK, ReceiverTypeOK, receiver
  <1>5. Receive_State' \in ReceiveStates
    BY DEF Receive, ReceiverOff, ReceiveNothing, ReceiveTimeout,
       ReceiveFrame, ReceiveBadFrame, ReceiveOctet, ReceiveStart,
       ReceiveInsideFrame, TypeInv, TypeOK, ReceiverTypeOK, receiver,
       ReceiveStates
  <1>6. ReceivedValidFrame' \in BOOLEAN /\ ReceivedInvalidFrame' \in BOOLEAN
    <2> USE DEF TypeInv, TypeOK, ReceiverTypeOK
    <2>1. CASE ReceiveTimeout
      BY <2>1 DEF ReceiveTimeout
    <2>2. CASE ReceiveFrame
      BY <2>2 DEF ReceiveFrame, ForUs
    <2>3. CASE ~ReceiveTimeout /\ ~ReceiveFrame
      BY <2>3, Zenon DEF Receive, ReceiverOff, ReceiveNothing,
         ReceiveBadFrame, ReceiveOctet, ReceiveStart, ReceiveInsideFrame,
         receiver
    <2> QED BY <2>1, <2>2, <2>3
  <1> QED BY <1>1, <1>2, <1>3, <1>4, <1>5, <1>6
          DEF TypeInv, TypeOK, ControlTypeOK, ReceiverTypeOK, OutsideTypeOK

(* dlmstp_send_pdu fills the slot or leaves it.                            *)
LEMMA SendPduType ==
  ASSUME TypeInv, NEW dest \in Address, NEW pdu,
         NEW pointer \in {"Handler_Transmit_Buffer", "stack"},
         SendPdu(dest, pointer, pdu)
  PROVE  /\ TransmitPacketPending' \in BOOLEAN
         /\ TransmitPacket' \in {"NULL", "Handler_Transmit_Buffer", "stack"}
         /\ TransmitPacketLen' \in 0 .. 3
         /\ TransmitPacketDest' \in Address
  BY PduLenRange DEF SendPdu, TypeInv, TypeOK, SlotTypeOK, slot

(* The layers above see the slot, the shared buffer and their own flags.   *)
LEMMA DeliverType ==
  ASSUME TypeInv, DeliverStep PROVE TypeInv'
  <1>1. ControlTypeOK' /\ ReceiverTypeOK' /\ RingTypeOK' /\ MayUseToken'
        /\ OutsideTypeOK'
    <2>1. Deliver
      BY DEF DeliverStep, DeliverNothing, HandleConfirmed, HandleWhoIs,
         HandleNetworkNumberIs, HandleNetworkQuery
    <2>2. ReceivePacketPending' \in BOOLEAN
      BY <2>1, Zenon DEF Deliver
    <2> QED BY <2>1, <2>2, ConstantTypes
            DEF Deliver, TypeInv, TypeOK, ControlTypeOK, ReceiverTypeOK,
                RingTypeOK, MayUseToken, OutsideTypeOK, receiver, ring,
                clocks, outside
  <1>2. SlotTypeOK'
    <2> USE DEF TypeInv, TypeOK, SlotTypeOK, slot, upper
    <2>1. frame \in Frame
      BY DEF ReceiverTypeOK
    <2>2. CASE DeliverNothing
      BY <2>2 DEF DeliverNothing
    <2>3. CASE HandleConfirmed
      <3>1. frame.src \in Address /\ Reply(frame) \in Pdu
        BY <2>1 DEF Frame, Payload, Reply, Pdu
      <3> QED BY <2>3, <3>1, SendPduType DEF HandleConfirmed
    <2>4. CASE HandleWhoIs
      BY <2>4, Zenon DEF HandleWhoIs
    <2>5. CASE HandleNetworkNumberIs
      <3>1. frame.data.id \in Nat
        BY <2>1 DEF Frame, Payload
      <3> QED BY <2>5, <3>1 DEF HandleNetworkNumberIs
    <2>6. CASE HandleNetworkQuery
      <3>1. frame.src \in Address
        BY <2>1 DEF Frame
      <3> QED BY <2>6, <3>1, SendPduType DEF HandleNetworkQuery
    <2> QED BY <2>2, <2>3, <2>4, <2>5, <2>6 DEF DeliverStep
  <1> QED BY <1>1, <1>2 DEF TypeInv, TypeOK

(* The statics of a node that starts have their types.                     *)
LEMMA TypeInvInit == Init => TypeInv
  <1> SUFFICES ASSUME Init PROVE TypeInv
    OBVIOUS
  <1> USE ConstantTypes DEF Init
  <1>1. ControlTypeOK
    BY DEF ControlTypeOK, MasterStates
  <1>2. /\ 0 \in Nat /\ 0 \in Address
        /\ \A n \in Nat : 0 \in 0 .. n
        /\ Nmax_info_frames \in Nat /\ Nmax_master \in Nat /\ Npoll \in Nat
    BY DEF Address, Broadcast
  <1>3. ReceiverTypeOK
    BY <1>2, Zenon DEF ReceiverTypeOK, ReceiveStates
  <1>4. RingTypeOK /\ MayUseToken
    <2>1. MayUseToken
      BY DEF MayUseToken
    <2> QED BY <1>2, <2>1, Zenon DEF RingTypeOK
  <1>5. SlotTypeOK
    <2>1. 0 \in 0 .. 3
      OBVIOUS
    <2> QED BY <1>2, <2>1, Zenon DEF SlotTypeOK
  <1>6. OutsideTypeOK
    BY DEF OutsideTypeOK
  <1> QED BY <1>1, <1>3, <1>4, <1>5, <1>6 DEF TypeInv, TypeOK

(* The invariant is inductive.                                             *)
LEMMA TypeInvStep == TypeInv /\ [Next]_vars => TypeInv'
  <1> SUFFICES ASSUME TypeInv, [Next]_vars PROVE TypeInv'
    OBVIOUS
  <1>1. CASE Next
    BY <1>1, MasterType, EnvironmentType, ReceiveType, DeliverType
       DEF Next, Program
  <1>2. CASE UNCHANGED vars
    BY <1>2 DEF vars, receiver, ring, slot, upper, clocks, outside, TypeInv,
       TypeOK, ControlTypeOK, ReceiverTypeOK, RingTypeOK, SlotTypeOK,
       OutsideTypeOK, MayUseToken
  <1> QED BY <1>1, <1>2

(* The invariant behind TypeOK, for the theorems that need it.             *)
LEMMA TypeInvariance == Spec => []TypeInv
  BY TypeInvInit, TypeInvStep, PTL DEF Spec

(* Every variable keeps its type, so no counter of dlmstp.c leaves its     *)
(* range and no address leaves the ring, for every configuration.          *)
THEOREM TypeCorrect == Spec => []TypeOK
  BY TypeInvariance, PTL DEF TypeInv

-----------------------------------------------------------------------------
(***************************************************************************)
(* The request a node holds and the reply it owes: RequestHeld for every   *)
(* node, and, on a bus where only frames that expect a reply ask for one,  *)
(* PendingReplyIsCurrent and ReplyAnswersRequest.  And no frame that was   *)
(* received is thrown away for a lost token.                               *)
(***************************************************************************)
(* What a transition of the master machine does to a frame it was handed:  *)
(* it never writes the registers, never raises the flag, and decides to    *)
(* answer, or to hand data up, in one transition each.                     *)
LEMMA MasterAndFrame ==
  ASSUME MasterStep
  PROVE  /\ UNCHANGED frame
         /\ pc = "master" /\ pc' \in {"master", "deliver"}
         /\ ReceivedValidFrame' => ReceivedValidFrame
         /\ Master_State' = "ANSWER_DATA_REQUEST" => ReceivedDataNeedingReply
         /\ \/ UNCHANGED ReceivePacketPending
            \/ ReceivedDataNoReply
            \/ ReceivedDataNeedingReply
         /\ IF Master_State = "ANSWER_DATA_REQUEST"
            THEN SendReply \/ DeferredReply
            ELSE UNCHANGED TransmitPacketPending
  <1> USE DEF MasterStep, IdleStep, DoneWithTokenStep, PassTokenStep,
          NoTokenStep, PollForMasterStep, AnswerDataRequestStep, Master,
          DoneInitializing, LostToken, Idle, IdleInvalidFrame, IdleNoFrame,
          IdleValidFrame, ReceivedToken, ReceivedPFM, ReceivedTestRequest,
          ReceivedDataNoReply, IgnoreFrame, UseToken, SendIAm, NothingToSend,
          Done, NextStationKnown, SendAnotherFrame, NextStationUnknown,
          SoleMasterAgain, SendToken, SoleMasterRestartMaintenancePFM,
          ResetMaintenancePFM, SendMaintenancePFM, Passing, SawTokenUser,
          WaitForTokenUser, RetrySendToken, FindNewSuccessor, NoToken,
          SawFrame, GenerateToken, StayNoToken, Polling, PollFailed,
          ReceivedReplyToPFM, ReceivedUnexpectedFrame, WaitForReplyToPFM,
          SoleMasterPollFailed, DoneWithPFM, SendNextPFM, DeclareSoleMaster,
          Answering
  <1>1. UNCHANGED frame
    BY DEF ReceivedDataNeedingReply, SendReply, DeferredReply
  <1>2. ReceivedValidFrame' => ReceivedValidFrame
    BY Zenon DEF KeepFlags, HoldFrame, ReceivedDataNeedingReply, SendReply,
       DeferredReply
  <1>3. /\ Master_State' = "ANSWER_DATA_REQUEST" => ReceivedDataNeedingReply
        /\ pc = "master" /\ pc' \in {"master", "deliver"}
    BY DEF GoTo, PassTokenTo, PollFor, ReceivedDataNeedingReply, SendReply,
       DeferredReply
  <1>4. \/ UNCHANGED ReceivePacketPending
        \/ ReceivedDataNoReply
        \/ ReceivedDataNeedingReply
    BY Zenon DEF SendReply, DeferredReply
  <1>5. CASE Master_State = "ANSWER_DATA_REQUEST"
    <2>1. SendReply \/ DeferredReply
      BY <1>5 DEF ReceivedDataNeedingReply
    <2> QED BY <1>1, <1>2, <1>3, <1>4, <1>5, <2>1
  <1>6. CASE Master_State # "ANSWER_DATA_REQUEST"
    <2>1. UNCHANGED TransmitPacketPending
      BY <1>6, Zenon DEF KeepSlot, slot, ReceivedDataNeedingReply, SendReply,
         DeferredReply
    <2> QED BY <1>1, <1>2, <1>3, <1>4, <1>6, <2>1
  <1> QED BY <1>5, <1>6

(***************************************************************************)
(* RequestHeld.                                                            *)
(***************************************************************************)
(* MSTP_Receive_Frame_FSM keeps a frame only if it is for this station.    *)
FrameForUs == ReceivedValidFrame => ForUs(frame)

HeldInv == FrameForUs /\ RequestHeld

(* A request is answered in the state that only a request for this station *)
(* leads to, and its frame is not released before the answer.              *)
LEMMA HeldMaster == ASSUME HeldInv, MasterStep PROVE HeldInv'
  <1>1. FrameForUs'
    BY MasterAndFrame DEF HeldInv, FrameForUs, ForUs
  <1>2. ASSUME ReceivedDataNeedingReply
        PROVE  /\ ReceivedValidFrame'
               /\ frame.type = "DATA_EXPECTING_REPLY"
               /\ frame.dst = This_Station
    BY <1>2, Zenon DEF ReceivedDataNeedingReply, IdleValidFrame, HoldFrame,
       ToThisStation, HeldInv, FrameForUs, ForUs
  <1>3. RequestHeld'
    BY <1>2, MasterAndFrame DEF RequestHeld
  <1> QED BY <1>1, <1>3 DEF HeldInv

(* A held frame keeps the receiver off: only an empty-handed receiver      *)
(* writes the registers.                                                   *)
LEMMA HeldReceive == ASSUME HeldInv, Receive PROVE HeldInv'
  <1>1. UNCHANGED Master_State
    BY DEF Receive, Read, Receiving, ReceiverOff, ReceiveNothing,
       ReceiveTimeout, ReceiveFrame, ReceiveBadFrame, ReceiveOctet,
       ReceiveStart, ReceiveInsideFrame
  <1>2. CASE ReceiveFrame
    <2>1. ~ReceivedValidFrame
      BY <1>2 DEF ReceiveFrame, Read, FrameHeld
    <2>2. FrameForUs'
      BY <1>2, Zenon DEF ReceiveFrame, FrameForUs, ForUs
    <2> QED BY <1>1, <2>1, <2>2 DEF HeldInv, RequestHeld
  <1>3. CASE ~ReceiveFrame
    <2>1. UNCHANGED <<ReceivedValidFrame, frame>>
      BY <1>3 DEF Receive, ReceiverOff, ReceiveNothing, ReceiveTimeout,
         ReceiveBadFrame, ReceiveOctet, ReceiveStart, ReceiveInsideFrame,
         receiver
    <2> QED BY <1>1, <2>1, Zenon DEF HeldInv, FrameForUs, RequestHeld, ForUs
  <1> QED BY <1>2, <1>3

(* The other steps touch neither the flag nor the registers.               *)
LEMMA HeldStep == HeldInv /\ [Next]_vars => HeldInv'
  <1> SUFFICES ASSUME HeldInv, [Next]_vars PROVE HeldInv'
    OBVIOUS
  <1>1. CASE MasterStep
    BY <1>1, HeldMaster
  <1>2. CASE Receive
    BY <1>2, HeldReceive
  <1>3. CASE \/ Arrive \/ Tick \/ BeginUpdate \/ DeliverStep
             \/ UNCHANGED vars
    <2>1. UNCHANGED <<Master_State, ReceivedValidFrame, frame>>
      BY <1>3 DEF Arrive, Tick, BeginUpdate, DeliverStep, DeliverNothing,
         HandleConfirmed, HandleWhoIs, HandleNetworkNumberIs,
         HandleNetworkQuery, Deliver, vars, receiver
    <2> QED BY <2>1, Zenon DEF HeldInv, FrameForUs, RequestHeld, ForUs
  <1> QED BY <1>1, <1>2, <1>3 DEF Next, Program

(* Held frames are for this station, and requests stay held.               *)
LEMMA HeldInvariance == Spec => []HeldInv
  <1>1. Init => HeldInv
    BY DEF Init, HeldInv, FrameForUs, RequestHeld
  <1> QED BY <1>1, HeldStep, PTL DEF Spec

(* A node that answers a request still holds that request: nothing that    *)
(* arrives in the meantime reaches the registers or the input buffer.      *)
THEOREM RequestIsHeld == Spec => []RequestHeld
  BY HeldInvariance, PTL DEF HeldInv

(***************************************************************************)
(* Received frames and the lost token.                                     *)
(***************************************************************************)
(* A frame that has just been read is looked at before time passes.        *)
JustRead == pc = "master" /\ silence = 0 /\ LineActive

(* The receiver raises one flag at most.  Where IDLE can be next, a frame  *)
(* that is held was just read, or the line counts as not active since a    *)
(* token was sent over the frame: then PASS_TOKEN does not lead to IDLE.   *)
FreshInv ==
  /\ ~(ReceivedValidFrame /\ ReceivedInvalidFrame)
  /\ ReceivedValidFrame =>
       /\ Master_State \in {"INITIALIZE", "IDLE", "NO_TOKEN"} => JustRead
       /\ Master_State = "PASS_TOKEN" => JustRead \/ ~LineActive

LEMMA Times ==
  /\ Tno_token > 0
  /\ SlotStart \in Nat /\ SlotEnd \in Nat /\ 0 < SlotStart /\ 0 < SlotEnd
  <1>1. Tno_token \in Nat /\ Tno_token > 0
    BY TimeAssumption
  <1>2. /\ Tslot \in Nat /\ This_Station \in Nat
    BY TimeAssumption, AddressAssumption
  <1>3. Tslot * This_Station \in Nat /\ Tslot * (This_Station + 1) \in Nat
    BY <1>2
  <1> QED BY <1>1, <1>3 DEF SlotStart, SlotEnd

(* The line is not active once a token was sent.                           *)
LEMMA SentIsQuiet == ASSUME EventCount' = 0 PROVE ~LineActive'
  BY LimitAssumption DEF LineActive

(* What the transitions do to a valid frame: those that lead to a state    *)
(* where IDLE can be next keep it only if it was just read.                *)
LEMMA FreshMaster == ASSUME FreshInv, MasterStep PROVE FreshInv'
  <1>1. ~(ReceivedValidFrame /\ ReceivedInvalidFrame)'
    BY Zenon DEF FreshInv, MasterStep, IdleStep, DoneWithTokenStep,
       PassTokenStep, NoTokenStep, PollForMasterStep, AnswerDataRequestStep,
       DoneInitializing, LostToken, IdleInvalidFrame, IdleNoFrame,
       IdleValidFrame, ReceivedToken, ReceivedPFM, ReceivedTestRequest,
       ReceivedDataNoReply, ReceivedDataNeedingReply, HoldFrame, IgnoreFrame,
       UseToken, SendIAm, NothingToSend, Done, NextStationKnown,
       SendAnotherFrame, NextStationUnknown, SoleMasterAgain, SendToken,
       SoleMasterRestartMaintenancePFM, ResetMaintenancePFM,
       SendMaintenancePFM, Passing, SawTokenUser, WaitForTokenUser,
       RetrySendToken, FindNewSuccessor, NoToken, SawFrame, GenerateToken,
       StayNoToken, Polling, PollFailed, ReceivedReplyToPFM,
       ReceivedUnexpectedFrame, WaitForReplyToPFM, SoleMasterPollFailed,
       DoneWithPFM, SendNextPFM, DeclareSoleMaster, Answering, SendReply,
       DeferredReply, KeepFlags
  <1> SUFFICES ASSUME ReceivedValidFrame'
               PROVE  /\ Master_State' \in {"INITIALIZE", "IDLE", "NO_TOKEN"}
                           => JustRead'
                      /\ Master_State' = "PASS_TOKEN"
                           => JustRead' \/ ~LineActive'
    BY <1>1 DEF FreshInv
  <1>2. ReceivedValidFrame /\ ~ReceivedInvalidFrame
    BY MasterAndFrame DEF FreshInv
  <1> DEFINE Kept == /\ Master_State' \in {"INITIALIZE", "IDLE", "NO_TOKEN"}
                      => JustRead'
                 /\ Master_State' = "PASS_TOKEN" => JustRead' \/ ~LineActive'
  <1>3. CASE DoneInitializing
    <2>1. JustRead /\ UNCHANGED <<EventCount, silence>>
          /\ pc' = "master" /\ Master_State' = "IDLE"
      BY <1>2, <1>3 DEF DoneInitializing, Master, GoTo, SendNothing, clocks,
         FreshInv
    <2> QED BY <2>1 DEF JustRead, LineActive
  <1>4. CASE IdleStep
    <2>1. Master_State' = "ANSWER_DATA_REQUEST"
      BY <1>2, <1>4 DEF IdleStep, LostToken, IdleInvalidFrame, IdleNoFrame,
         FrameHeld, ReceivedToken, ReceivedPFM, ReceivedTestRequest,
         ReceivedDataNoReply, ReceivedDataNeedingReply, IgnoreFrame, GoTo
    <2> QED BY <2>1
  <1>5. CASE SendIAm \/ NothingToSend
    BY <1>5 DEF SendIAm, NothingToSend, GoTo
  <1>6. CASE DoneWithTokenStep
    <2>1. \/ Master_State' \in {"USE_TOKEN", "POLL_FOR_MASTER"}
          \/ Master_State' = "PASS_TOKEN" /\ EventCount' = 0
      BY <1>6 DEF DoneWithTokenStep, SendAnotherFrame, NextStationUnknown,
         SoleMasterAgain, SendToken, SoleMasterRestartMaintenancePFM,
         ResetMaintenancePFM, SendMaintenancePFM, GoTo, PassTokenTo, PollFor
    <2> QED BY <2>1, SentIsQuiet
  <1>7. CASE SawTokenUser
    <2>1. LineActive /\ Master_State = "PASS_TOKEN"
          /\ UNCHANGED <<EventCount, silence>>
          /\ pc' = "master" /\ Master_State' = "IDLE"
      BY <1>7 DEF SawTokenUser, Passing, Master, GoTo, SendNothing, clocks
    <2>2. JustRead
      BY <1>2, <2>1 DEF FreshInv
    <2> QED BY <2>1, <2>2 DEF JustRead, LineActive
  <1>8. CASE WaitForTokenUser
    <2>1. ~LineActive /\ UNCHANGED EventCount /\ Master_State' = "PASS_TOKEN"
      BY <1>8 DEF WaitForTokenUser, GoTo
    <2> QED BY <2>1 DEF LineActive
  <1>9. CASE RetrySendToken
    <2>1. EventCount' = 0 /\ Master_State' = "PASS_TOKEN"
      BY <1>9 DEF RetrySendToken, GoTo
    <2> QED BY <2>1, SentIsQuiet
  <1>10. CASE FindNewSuccessor \/ GenerateToken
    BY <1>10 DEF FindNewSuccessor, GenerateToken, PollFor, GoTo
  <1>11. CASE SawFrame
    <2>1. JustRead /\ UNCHANGED <<EventCount, silence>>
          /\ pc' = "master" /\ Master_State' = "IDLE"
      BY <1>2, <1>11 DEF SawFrame, NoToken, Master, GoTo, SendNothing, clocks,
         FreshInv
    <2> QED BY <2>1 DEF JustRead, LineActive
  <1>12. ~StayNoToken
    <2> SUFFICES ASSUME StayNoToken PROVE FALSE
      OBVIOUS
    <2>1. JustRead
      BY <1>2 DEF StayNoToken, NoToken, Master, FreshInv
    <2>2. silence < SlotStart /\ ~(silence >= SlotEnd)
      <3>1. SlotStart \in Nat /\ SlotEnd \in Nat
        BY Times
      <3> QED BY <2>1, <3>1, Times DEF JustRead
    <2> QED BY <2>1, <2>2 DEF StayNoToken, JustRead
  <1>13. ~PollForMasterStep
    BY <1>2 DEF PollForMasterStep, ReceivedReplyToPFM,
       ReceivedUnexpectedFrame, WaitForReplyToPFM, FrameHeld,
       SoleMasterPollFailed, DoneWithPFM, SendNextPFM, DeclareSoleMaster,
       PollFailed
  <1>14. ~AnswerDataRequestStep
    BY <1>2 DEF AnswerDataRequestStep, SendReply, DeferredReply, Answering
  <1> QED BY <1>3, <1>4, <1>5, <1>6, <1>7, <1>8, <1>9, <1>10, <1>11, <1>12,
             <1>13, <1>14 DEF MasterStep, PassTokenStep, NoTokenStep

(* Only a receiver without a frame reads one, and reading restarts the     *)
(* silence; nothing else brings a state nearer to IDLE.                    *)
LEMMA FreshReceive ==
  ASSUME FramesAreLong, TypeInv, FreshInv, Receive PROVE FreshInv'
  <1>1. /\ pc = "receive" /\ UNCHANGED Master_State
    BY DEF Receive, Read, Receiving, ReceiverOff, ReceiveNothing,
       ReceiveTimeout, ReceiveFrame, ReceiveBadFrame, ReceiveOctet,
       ReceiveStart, ReceiveInsideFrame
  <1>2. CASE ReceiveFrame
    <2>1. Head(uart) \in Wire /\ Head(uart) \in Item
      BY <1>2, HeadOfUart
         DEF ReceiveFrame, Read, TypeInv, TypeOK, OutsideTypeOK
    <2>2. Head(uart).octets \in Nat /\ Head(uart).octets > Nmin_octets
      BY <1>2, <2>1 DEF ReceiveFrame, FramesAreLong, Item
    <2>3. EventCount \in Nat
      BY DEF TypeInv, TypeOK, ReceiverTypeOK
    <2>4. EventCount' = Saturated(EventCount + Head(uart).octets, EventLimit)
          /\ pc' = "master" /\ silence' = 0
          /\ ~ReceivedInvalidFrame /\ UNCHANGED ReceivedInvalidFrame
      BY <1>2 DEF ReceiveFrame, Read, RestartSilence, FrameHeld
    <2>5. EventCount' > Nmin_octets
      BY <2>2, <2>3, <2>4, LimitAssumption DEF Saturated
    <2>6. JustRead'
      BY <2>4, <2>5 DEF JustRead, LineActive
    <2> QED BY <2>4, <2>6 DEF FreshInv
  <1>3. CASE ReceiverOff
    BY <1>1, <1>3, Zenon DEF ReceiverOff, receiver, FreshInv, JustRead, LineActive
  <1>4. CASE ~ReceiveFrame /\ ~ReceiverOff
    <2>1. ~ReceivedValidFrame /\ UNCHANGED ReceivedValidFrame
      BY <1>4 DEF Receive, Read, ReceiveNothing, ReceiveTimeout, FrameHeld,
         ReceiveBadFrame, ReceiveOctet, ReceiveStart, ReceiveInsideFrame,
         receiver
    <2> QED BY <2>1 DEF FreshInv
  <1> QED BY <1>2, <1>3, <1>4

LEMMA FreshStep ==
  ASSUME FramesAreLong, TypeInv, FreshInv, [Next]_vars PROVE FreshInv'
  <1>1. CASE \/ Arrive \/ Tick \/ BeginUpdate \/ DeliverStep
             \/ UNCHANGED vars
    <2>1. UNCHANGED <<Master_State, ReceivedValidFrame, ReceivedInvalidFrame,
                      EventCount>>
      BY <1>1 DEF Arrive, Tick, BeginUpdate, DeliverStep, DeliverNothing,
         HandleConfirmed, HandleWhoIs, HandleNetworkNumberIs,
         HandleNetworkQuery, Deliver, vars, receiver
    <2>2. pc = "master" => UNCHANGED <<pc, silence>>
      BY <1>1 DEF Arrive, Tick, BeginUpdate, Listening, DeliverStep,
         DeliverNothing, HandleConfirmed, HandleWhoIs, HandleNetworkNumberIs,
         HandleNetworkQuery, Deliver, vars, clocks
    <2> QED BY <2>1, <2>2, Zenon DEF FreshInv, JustRead, LineActive
  <1> QED BY <1>1, FreshMaster, FreshReceive DEF Next, Program

(* A frame that was received is looked at while IDLE's test for the lost   *)
(* token, which comes first and would throw it away, cannot hold: it was   *)
(* read in this call of update(), and reading restarts the silence.        *)
THEOREM ReceivedFrameIsNotLost ==
  ASSUME FramesAreLong
  PROVE  Spec => []ReceivedFrameBeatsLostToken
  <1>1. Init => FreshInv
    BY DEF Init, FreshInv
  <1>2. FreshInv => ReceivedFrameBeatsLostToken
    BY Times DEF FreshInv, JustRead, ReceivedFrameBeatsLostToken
  <1> QED BY <1>1, <1>2, FreshStep, TypeInvariance, PTL DEF Spec

(***************************************************************************)
(* The reply in the transmit slot.                                         *)
(***************************************************************************)
(* The registers hold a frame that asks only if it expects a reply, or is  *)
(* a broadcast request, which IDLE discards.                               *)
RequestFrame ==
  frame.data.kind \in Answered
    => frame.type = "DATA_EXPECTING_REPLY" \/ BroadcastRequest

(* Data goes up only in the call that received it, and a request only in   *)
(* ANSWER_DATA_REQUEST.                                                    *)
HandedUp ==
  ReceivePacketPending
    => /\ pc = "deliver"
       /\ \/ Master_State = "ANSWER_DATA_REQUEST"
          \/ frame.data.kind \notin Answered

(* A request that is about to be handed up finds the slot empty.           *)
SlotIsFree ==
  Master_State = "ANSWER_DATA_REQUEST" /\ pc = "deliver"
    => ReceivePacketPending /\ ~TransmitPacketPending

(* Once it was handed up, a confirmed request has its reply in the slot.   *)
ReplyIsReady ==
  /\ Master_State = "ANSWER_DATA_REQUEST" /\ pc # "deliver"
  /\ frame.data.kind = "confirmed"
  => /\ TransmitPacketPending
     /\ TransmitPacket = "Handler_Transmit_Buffer"
     /\ TransmitPacketLen = PduLen(Reply(frame))
     /\ TransmitPacketDest = frame.src
     /\ Handler_Transmit_Buffer = Reply(frame)

(* Whatever is in the slot answers the request in hand.                    *)
SlotIsCurrent ==
  TransmitPacketPending
    => /\ Master_State = "ANSWER_DATA_REQUEST"
       /\ TransmitPacketDest = frame.src
       /\ TransmitPacketLen \in {PduLen(Reply(frame)),
                                 PduLen(NetworkPdu(frame.src))}

ReplyInv == /\ RequestFrame /\ HandedUp /\ SlotIsFree /\ ReplyIsReady
            /\ SlotIsCurrent

(* The master machine hands a request up with the slot empty, and empties  *)
(* the slot when it answers.                                               *)
LEMMA ReplyMaster ==
  ASSUME ReplyInv, MasterStep PROVE ReplyInv'
  <1> USE DEF ReplyInv, RequestFrame, HandedUp, SlotIsFree, ReplyIsReady,
          SlotIsCurrent, BroadcastRequest
  <1>1. UNCHANGED frame /\ ~ReceivePacketPending
    BY MasterAndFrame
  <1>2. CASE Master_State = "ANSWER_DATA_REQUEST"
    <2>1. Answering /\ ~TransmitPacketPending'
      BY <1>2, MasterAndFrame, Zenon DEF SendReply, DeferredReply, FreeSlot
    <2> QED BY <1>1, <2>1, Zenon DEF Answering, GoTo
  <1>3. CASE Master_State # "ANSWER_DATA_REQUEST"
    <2>1. ~TransmitPacketPending'
      BY <1>3, MasterAndFrame
    <2>2. CASE ReceivedDataNoReply
      BY <1>1, <2>1, <2>2, Zenon
         DEF ReceivedDataNoReply, GoTo
    <2>3. CASE ReceivedDataNeedingReply
      BY <1>1, <2>1, <2>3, Zenon
         DEF ReceivedDataNeedingReply, GoTo
    <2>4. CASE ~ReceivedDataNoReply /\ ~ReceivedDataNeedingReply
      <3>1. Master_State' # "ANSWER_DATA_REQUEST" /\ ~ReceivePacketPending'
        BY <1>1, <2>4, MasterAndFrame
      <3> QED BY <1>1, <2>1, <3>1
    <2> QED BY <2>2, <2>3, <2>4
  <1> QED BY <1>2, <1>3

(* The layers above answer in the call that received the request.          *)
LEMMA ReplyDeliver ==
  ASSUME ReplyInv, DeliverStep PROVE ReplyInv'
  <1> USE DEF ReplyInv, RequestFrame, HandedUp, SlotIsFree, ReplyIsReady,
          SlotIsCurrent, BroadcastRequest
  <1>1. /\ pc = "deliver" /\ pc' = "update" /\ ~ReceivePacketPending'
        /\ UNCHANGED <<frame, Master_State>>
    BY Zenon DEF DeliverStep, DeliverNothing, HandleConfirmed, HandleWhoIs,
       HandleNetworkNumberIs, HandleNetworkQuery, Deliver, receiver
  <1>2. CASE HandleConfirmed \/ HandleNetworkQuery
    <2>1. Delivered \in Answered
      BY <1>2 DEF HandleConfirmed, HandleNetworkQuery, Answered
    <2>2. Delivered = frame.data.kind /\ Master_State = "ANSWER_DATA_REQUEST"
      BY <1>1, <2>1 DEF Delivered, Answered
    <2>3. ~TransmitPacketPending
      BY <1>1, <2>2
    <2>4. CASE HandleConfirmed
      BY <1>1, <2>2, <2>3, <2>4, Zenon DEF HandleConfirmed, SendPdu
    <2>5. CASE HandleNetworkQuery
      <3>1. frame.data.kind # "confirmed"
        BY <2>2, <2>5 DEF HandleNetworkQuery
      <3> QED BY <1>1, <2>2, <2>3, <2>5, <3>1, Zenon
              DEF HandleNetworkQuery, SendPdu, slot
    <2> QED BY <1>2, <2>4, <2>5
  <1>3. CASE DeliverNothing \/ HandleWhoIs \/ HandleNetworkNumberIs
    <2>1. UNCHANGED slot /\ Delivered # "confirmed"
      BY <1>3 DEF DeliverNothing, HandleWhoIs, HandleNetworkNumberIs
    <2>2. ~TransmitPacketPending /\ UNCHANGED TransmitPacketPending
      BY <1>1, <2>1 DEF slot
    <2>3. Master_State = "ANSWER_DATA_REQUEST" => frame.data.kind # "confirmed"
      BY <1>1, <2>1 DEF Delivered
    <2> QED BY <1>1, <2>2, <2>3
  <1> QED BY <1>2, <1>3 DEF DeliverStep

(* The receiver writes the registers only when no request is held.         *)
LEMMA ReplyReceive ==
  ASSUME RequestsExpectReply, TypeInv, HeldInv, ReplyInv, Receive
  PROVE  ReplyInv'
  <1> USE DEF ReplyInv, RequestFrame, HandedUp, SlotIsFree, ReplyIsReady,
          SlotIsCurrent, BroadcastRequest
  <1>1. /\ pc = "receive" /\ pc' # "deliver" /\ ~ReceivePacketPending'
        /\ UNCHANGED <<Master_State, slot, Handler_Transmit_Buffer>>
    BY DEF Receive, Read, Receiving, ReceiverOff, ReceiveNothing,
       ReceiveTimeout, ReceiveFrame, ReceiveBadFrame, ReceiveOctet,
       ReceiveStart, ReceiveInsideFrame, upper
  <1>2. CASE ReceiveFrame
    <2>1. Master_State # "ANSWER_DATA_REQUEST"
      BY <1>2 DEF ReceiveFrame, Read, FrameHeld, HeldInv, RequestHeld
    <2>2. Head(uart) \in Wire
      BY <1>2 DEF ReceiveFrame, Read, TypeInv, TypeOK, OutsideTypeOK
    <2>3. RequestFrame'
      BY <1>2, <2>2 DEF ReceiveFrame, RequestsExpectReply
    <2> QED BY <1>1, <2>1, <2>3 DEF slot
  <1>3. CASE ~ReceiveFrame
    <2>1. UNCHANGED frame
      BY <1>3 DEF Receive, ReceiverOff, ReceiveNothing, ReceiveTimeout,
         ReceiveBadFrame, ReceiveOctet, ReceiveStart, ReceiveInsideFrame,
         receiver
    <2> QED BY <1>1, <2>1, Zenon DEF slot
  <1> QED BY <1>2, <1>3

(* All steps together; the bus and the clock leave the slot alone.         *)
LEMMA ReplyStep ==
  ASSUME RequestsExpectReply, TypeInv, HeldInv, ReplyInv, [Next]_vars
  PROVE  ReplyInv'
  <1>1. CASE \/ Arrive \/ Tick \/ BeginUpdate \/ UNCHANGED vars
    <2>1. /\ UNCHANGED <<frame, Master_State, ReceivePacketPending, slot,
                         Handler_Transmit_Buffer>>
          /\ pc' = pc \/ (pc = "update" /\ pc' = "receive")
      BY <1>1 DEF Arrive, Tick, BeginUpdate, vars, receiver, upper
    <2> QED BY <2>1, Zenon
            DEF ReplyInv, RequestFrame, HandedUp, SlotIsFree, ReplyIsReady,
                SlotIsCurrent, BroadcastRequest, slot
  <1> QED BY <1>1, ReplyMaster, ReplyDeliver, ReplyReceive DEF Next, Program

(* The invariant of the transmit slot.                                     *)
LEMMA ReplyInvariance ==
  ASSUME RequestsExpectReply PROVE Spec => []ReplyInv
  <1>1. Init => ReplyInv
    BY DEF Init, ReplyInv, RequestFrame, HandedUp, SlotIsFree, ReplyIsReady,
       SlotIsCurrent, NoFrame, NoData, Answered
  <1>2. TypeInv /\ HeldInv /\ ReplyInv /\ [Next]_vars => ReplyInv'
    BY ReplyStep
  <1> QED BY <1>1, <1>2, TypeInvariance, HeldInvariance, PTL DEF Spec

(* Where only frames that expect a reply ask for one, the transmit slot is *)
(* taken only by the reply to the request in hand.                         *)
THEOREM PendingReplyCurrent ==
  ASSUME RequestsExpectReply PROVE Spec => []PendingReplyIsCurrent
  <1>1. ReplyInv => PendingReplyIsCurrent
    <2>1. /\ PduLen(Reply(frame)) > 0
          /\ PduLen(NetworkPdu(frame.src)) > 0
      BY DEF PduLen, Reply, NetworkPdu
    <2> QED BY <2>1 DEF ReplyInv, SlotIsCurrent, PendingReplyIsCurrent
  <1> QED BY <1>1, ReplyInvariance, PTL

(* There, every confirmed request is answered with its own reply, sent to  *)
(* the station that asked, whatever arrives in between.                    *)
THEOREM RequestIsAnswered ==
  ASSUME RequestsExpectReply PROVE Spec => ReplyAnswersRequest
  <1> DEFINE Answer ==
        [type |-> "DATA_NOT_EXPECTING_REPLY", dst |-> frame.src,
         data |-> Reply(frame), len |-> PduLen(Reply(frame))]
  <1>1. ASSUME ReplyInv, Next, pc = "master", frame.data.kind = "confirmed",
               Master_State = "ANSWER_DATA_REQUEST"
        PROVE  sent' = Answer
    <2>1. /\ TransmitPacketPending
          /\ TransmitPacket = "Handler_Transmit_Buffer"
          /\ TransmitPacketLen = PduLen(Reply(frame))
          /\ TransmitPacketDest = frame.src
          /\ Handler_Transmit_Buffer = Reply(frame)
      BY <1>1 DEF ReplyInv, ReplyIsReady
    <2>2. MasterStep
      BY <1>1 DEF Next, Program, BeginUpdate, Receive, Read, Receiving,
         ReceiverOff, ReceiveNothing, ReceiveTimeout, ReceiveFrame,
         ReceiveBadFrame, ReceiveOctet, ReceiveStart, ReceiveInsideFrame,
         DeliverStep, DeliverNothing, HandleConfirmed, HandleWhoIs,
         HandleNetworkNumberIs, HandleNetworkQuery, Deliver, Arrive, Tick,
         Listening
    <2>3. SendReply
      BY <1>1, <2>1, <2>2, MasterAndFrame, Zenon DEF DeferredReply
    <2>4. Transmittable = {Reply(frame)}
      <3>1. PduLen(Reply(frame)) # 0
        BY DEF PduLen, Reply
      <3>2. TransmitPacketLen # 0 /\ TransmitPacket # "stack"
        BY <2>1, <3>1
      <3> QED BY <2>1, <3>2, Zenon DEF Transmittable
    <2> QED BY <2>1, <2>3, <2>4 DEF SendReply, Send
  <1>2. ReplyInv /\ [Next]_vars
          => [Master_State = "ANSWER_DATA_REQUEST" /\ pc = "master"
                /\ frame.data.kind = "confirmed" => sent' = Answer]_vars
    BY <1>1
  <1> QED BY <1>2, ReplyInvariance, PTL DEF Spec, ReplyAnswersRequest

(***************************************************************************)
(* A token is claimed only on a silent bus.                                *)
(***************************************************************************)
(* Where a received frame may wait for more than a call of update().       *)
MayWait == Master_State \in {"PASS_TOKEN", "ANSWER_DATA_REQUEST"}

(* Once the UART is empty the silence timer has not run longer than the    *)
(* bus was silent.  The master machine is reached with an empty UART, or   *)
(* with octets left in it after something was read or sent: then the       *)
(* silence is too short to claim a token.                                  *)
SilenceInv ==
  /\ uart = << >> => silence <= quiet
  /\ ~ReceivedInvalidFrame
  /\ Receive_State # "IDLE" =>
       /\ pc = "receive" /\ Receive_State = "PREAMBLE" /\ ~ReceivedValidFrame
       /\ silence <= Tframe_abort + 1
  /\ ReceivedValidFrame /\ pc # "master" =>
       MayWait \/ silence <= lag \/ (pc = "receive" /\ silence <= MaxLag)
  /\ pc = "master" =>
       uart = << >> \/ silence < Tno_token \/ (MayWait /\ ReceivedValidFrame)

(* In NO_TOKEN a frame that was just read makes the line active.           *)
LEMMA NoFrameStays == ASSUME FreshInv, StayNoToken PROVE ~ReceivedValidFrame
  <1> SUFFICES ASSUME ReceivedValidFrame PROVE FALSE
    OBVIOUS
  <1>1. JustRead
    BY DEF StayNoToken, NoToken, Master, FreshInv
  <1>2. silence < SlotStart /\ ~(silence >= SlotEnd)
    <2>1. SlotStart \in Nat /\ SlotEnd \in Nat
      BY Times
    <2> QED BY <1>1, <2>1, Times DEF JustRead
  <1> QED BY <1>1, <1>2 DEF StayNoToken, JustRead

(* What a transition of the master machine does to a frame that waits and  *)
(* to the timers.                                                          *)
LEMMA MasterAndSilence ==
  ASSUME FreshInv, ~ReceivedInvalidFrame, MasterStep
  PROVE  /\ pc = "master" /\ pc' \in {"master", "deliver"}
         /\ UNCHANGED <<uart, lag, Receive_State>>
         /\ (silence' = 0 /\ quiet' = 0) \/ UNCHANGED <<silence, quiet>>
         /\ pc' = "master" /\ MayWait => silence <= Tusage_timeout
         /\ pc' = "master" => UNCHANGED silence
         /\ pc' = "deliver" /\ ReceivedValidFrame' => silence' = 0 \/ MayWait'
         /\ ~ReceivedInvalidFrame'
  <1> USE DEF MasterStep, IdleStep, DoneWithTokenStep, PassTokenStep,
          NoTokenStep, PollForMasterStep, AnswerDataRequestStep, Master,
          DoneInitializing, LostToken, Idle, IdleInvalidFrame, IdleNoFrame,
          IdleValidFrame, ReceivedToken, ReceivedPFM, ReceivedTestRequest,
          ReceivedDataNoReply, ReceivedDataNeedingReply, IgnoreFrame, UseToken,
          SendIAm, NothingToSend, Done, NextStationKnown, SendAnotherFrame,
          NextStationUnknown, SoleMasterAgain, SendToken,
          SoleMasterRestartMaintenancePFM, ResetMaintenancePFM,
          SendMaintenancePFM, Passing, SawTokenUser, WaitForTokenUser,
          RetrySendToken, FindNewSuccessor, NoToken, SawFrame, GenerateToken,
          StayNoToken, Polling, PollFailed, ReceivedReplyToPFM,
          ReceivedUnexpectedFrame, WaitForReplyToPFM, SoleMasterPollFailed,
          DoneWithPFM, SendNextPFM, DeclareSoleMaster, Answering, SendReply,
          DeferredReply, GoTo
  <1>1. pc = "master" /\ pc' \in {"master", "deliver"}
    BY DEF PassTokenTo, PollFor
  <1>2. UNCHANGED <<uart, lag, Receive_State>>
    BY DEF outside
  <1>3. (silence' = 0 /\ quiet' = 0) \/ UNCHANGED <<silence, quiet>>
    BY DEF PassTokenTo, PollFor, SendBare, Send, SendNothing, clocks
  <1>4. pc' = "master" /\ MayWait => silence <= Tusage_timeout
    BY DEF PassTokenTo, PollFor, MayWait
  <1>5. pc' = "master" => UNCHANGED silence
    BY DEF PassTokenTo, PollFor, SendNothing, clocks
  <1>6. pc' = "deliver" /\ ReceivedValidFrame' => silence' = 0 \/ MayWait'
    <2>1. CASE StayNoToken
      BY <2>1, NoFrameStays, Zenon DEF KeepFlags
    <2>2. CASE ~StayNoToken
      <3> HIDE DEF StayNoToken
      <3> QED BY <2>2 DEF PassTokenTo, PollFor, SendBare, Send, MayWait, KeepFlags,
              FrameHeld
    <2> QED BY <2>1, <2>2
  <1>7. ~ReceivedInvalidFrame'
    BY DEF KeepFlags
  <1> QED BY <1>1, <1>2, <1>3, <1>4, <1>5, <1>6, <1>7

LEMMA SilenceMaster ==
  ASSUME CalledInTime, TypeInv, FreshInv, SilenceInv, MasterStep PROVE SilenceInv'
  <1>1. /\ silence \in Nat /\ quiet \in Nat /\ lag \in Nat
        /\ Tno_token \in Nat /\ Tusage_timeout < Tno_token
        /\ Tusage_timeout \in Nat /\ 0 < Tno_token
    BY Times, TimeAssumption DEF TypeInv, TypeOK, OutsideTypeOK
  <1>2. ~ReceivedInvalidFrame
    BY DEF SilenceInv
  <1>3. Receive_State' = "IDLE"
    BY <1>2, MasterAndSilence DEF SilenceInv
  <1>4. uart' = << >> => silence' <= quiet'
    BY <1>1, <1>2, MasterAndSilence DEF SilenceInv
  <1>5. ReceivedValidFrame' /\ pc' # "master" => MayWait' \/ silence' <= lag'
    BY <1>1, <1>2, MasterAndSilence
  <1>6. pc' = "master" => uart' = << >> \/ silence' < Tno_token
    BY <1>1, <1>2, MasterAndSilence DEF SilenceInv
  <1> QED BY <1>2, <1>3, <1>4, <1>5, <1>6, MasterAndSilence DEF SilenceInv

LEMMA SilenceReceive ==
  ASSUME NothingTorn, CalledInTime, TypeInv, SilenceInv, Receive PROVE SilenceInv'
  <1>1. /\ silence \in Nat /\ quiet \in Nat /\ lag \in Nat /\ MaxLag \in Nat
        /\ Tno_token \in Nat /\ Tframe_abort \in Nat /\ 0 < Tno_token
    BY Times, TimeAssumption, LimitAssumption DEF TypeInv, TypeOK, OutsideTypeOK
  <1>2. pc = "receive" /\ UNCHANGED <<Master_State, quiet, lag>>
    BY DEF Receive, Read, Receiving, ReceiverOff, ReceiveNothing,
       ReceiveTimeout, ReceiveFrame, ReceiveBadFrame, ReceiveOctet,
       ReceiveStart, ReceiveInsideFrame
  <1>3. CASE ReceiverOff
    <2>1. ReceivedValidFrame /\ UNCHANGED <<receiver, uart, silence>> /\ pc' = "master"
      BY <1>3 DEF ReceiverOff, FrameHeld, SilenceInv
    <2>2. MayWait \/ silence < Tno_token
      BY <1>1, <1>2, <2>1 DEF SilenceInv, CalledInTime, TypeInv, TypeOK, OutsideTypeOK
    <2> QED BY <1>2, <2>1, <2>2 DEF SilenceInv, receiver, MayWait
  <1>4. CASE ReceiveNothing
    BY <1>2, <1>4 DEF ReceiveNothing, receiver, SilenceInv, FrameHeld
  <1>5. CASE ReceiveTimeout
    <2>1. /\ Receive_State = "PREAMBLE" /\ silence <= Tframe_abort + 1
          /\ UNCHANGED <<uart, silence, ReceivedValidFrame>> /\ pc' = "master"
          /\ Receive_State' = "IDLE" /\ ReceivedInvalidFrame' = FALSE
      BY <1>5 DEF ReceiveTimeout, AbortDue, SilenceInv
    <2> QED BY <1>1, <1>2, <2>1 DEF SilenceInv, CalledInTime
  <1>6. CASE ReceiveBadFrame \/ ReceiveInsideFrame
    <2>1. Head(uart) \in Wire
      BY <1>6, HeadOfUart
         DEF ReceiveBadFrame, ReceiveInsideFrame, Read, TypeInv, TypeOK, OutsideTypeOK
    <2> QED BY <1>6, <2>1 DEF ReceiveBadFrame, ReceiveInsideFrame, NothingTorn, SilenceInv
  <1>7. CASE ReceiveFrame \/ ReceiveOctet \/ ReceiveStart
    <2>1. /\ silence' = 0 /\ UNCHANGED ReceivedInvalidFrame /\ ~ReceivedValidFrame
      BY <1>7 DEF ReceiveFrame, ReceiveOctet, ReceiveStart, Read, RestartSilence,
         FrameHeld
    <2>2. \/ pc' = "master" /\ Receive_State' = "IDLE"
          \/ /\ pc' = "receive" /\ Receive_State' = "PREAMBLE"
             /\ UNCHANGED ReceivedValidFrame
      <3>1. Head(uart) \in Wire
        BY <1>7, HeadOfUart
           DEF ReceiveFrame, ReceiveOctet, ReceiveStart, Read, TypeInv, TypeOK,
               OutsideTypeOK
      <3> QED BY <1>2, <1>7, <3>1
              DEF ReceiveFrame, ReceiveOctet, ReceiveStart, NothingTorn
    <2> QED BY <1>1, <1>2, <2>1, <2>2 DEF SilenceInv
  <1> QED BY <1>3, <1>4, <1>5, <1>6, <1>7 DEF Receive

LEMMA SilenceStep ==
  ASSUME NothingTorn, CalledInTime, TypeInv, FreshInv, SilenceInv, [Next]_vars
  PROVE  SilenceInv'
  <1>1. /\ silence \in Nat /\ quiet \in Nat /\ lag \in Nat /\ lag <= MaxLag
        /\ uart \in Seq(Wire) /\ MaxLag \in Nat
        /\ Tframe_abort \in Nat /\ SilenceLimit \in Nat
    BY TimeAssumption, LimitAssumption DEF TypeInv, TypeOK, OutsideTypeOK
  <1>2. CASE Arrive
    <2>1. uart' # << >>
      BY <1>1, <1>2 DEF Arrive
    <2>2. pc # "master"
      BY <1>2 DEF Arrive, Listening
    <2>3. UNCHANGED <<pc, receiver, Master_State, silence, lag>>
      BY <1>2 DEF Arrive
    <2> QED BY <2>1, <2>2, <2>3 DEF SilenceInv, receiver, MayWait
  <1>3. CASE Tick
    <2>1. UNCHANGED <<pc, receiver, Master_State, uart>> /\ pc # "master"
      BY <1>3 DEF Tick, Listening
    <2>2. /\ silence' <= silence + 1
          /\ silence <= quiet => silence' <= quiet'
      BY <1>1, <1>3 DEF Tick, Saturated
    <2>3. silence' \in Nat /\ quiet' \in Nat
      BY <1>1, <1>3 DEF Tick, Saturated
    <2>4. CASE pc = "update" /\ lag' = lag + 1
      BY <1>1, <2>1, <2>2, <2>3, <2>4 DEF SilenceInv, receiver, MayWait
    <2>5. CASE Listening
      <3>1. silence <= Tframe_abort /\ Receive_State = "PREAMBLE" /\ ~ReceivedValidFrame
        BY <1>1, <2>5 DEF Listening, AbortDue, SilenceInv
      <3> QED BY <1>1, <2>1, <2>2, <2>3, <3>1 DEF SilenceInv, receiver, MayWait
    <2> QED BY <1>3, <2>4, <2>5 DEF Tick
  <1>4. CASE BeginUpdate
    BY <1>1, <1>4 DEF BeginUpdate, receiver, clocks, SilenceInv, MayWait
  <1>5. CASE DeliverStep
    <2>1. /\ pc = "deliver" /\ pc' = "update"
          /\ UNCHANGED <<receiver, Master_State, silence, quiet, uart, lag>>
      BY <1>5 DEF DeliverStep, DeliverNothing, HandleConfirmed, HandleWhoIs,
         HandleNetworkNumberIs, HandleNetworkQuery, Deliver, clocks, outside
    <2> QED BY <2>1 DEF SilenceInv, receiver, MayWait
  <1>6. CASE UNCHANGED vars
    BY <1>6 DEF vars, receiver, clocks, outside, SilenceInv, MayWait
  <1> QED BY <1>2, <1>3, <1>4, <1>5, <1>6, SilenceMaster, SilenceReceive
          DEF Next, Program

(* Where nothing that other stations send is cut off or damaged and        *)
(* update() is called in time, NO_TOKEN makes a token only after a silence *)
(* on the bus itself, not merely in what the node has read.                *)
THEOREM OnlySilentBusIsClaimed ==
  ASSUME FramesAreLong, NothingTorn, CalledInTime
  PROVE  Spec => ClaimsOnlySilentBus
  <1>1. Init => FreshInv /\ SilenceInv
    BY LimitAssumption DEF Init, FreshInv, SilenceInv
  <1>2. TypeInv /\ FreshInv /\ SilenceInv /\ [Next]_vars
          => [ Master_State = "NO_TOKEN" /\ Master_State' = "POLL_FOR_MASTER"
                 => quiet >= Tno_token ]_vars
    <2> SUFFICES ASSUME TypeInv, FreshInv, SilenceInv, [Next]_vars,
                        Master_State = "NO_TOKEN",
                        Master_State' = "POLL_FOR_MASTER"
                 PROVE  quiet >= Tno_token
      OBVIOUS
    <2>1. GenerateToken
      BY DEF Next, Program, Arrive, Tick, BeginUpdate, Receive, Receiving, Read,
         ReceiverOff, ReceiveNothing, ReceiveTimeout, ReceiveFrame,
         ReceiveBadFrame, ReceiveOctet, ReceiveStart, ReceiveInsideFrame,
         DeliverStep, DeliverNothing, HandleConfirmed, HandleWhoIs,
         HandleNetworkNumberIs, HandleNetworkQuery, Deliver, vars,
         MasterStep, IdleStep, DoneWithTokenStep, PassTokenStep, NoTokenStep,
         PollForMasterStep, AnswerDataRequestStep, Master, DoneInitializing,
         LostToken, Idle, IdleInvalidFrame, IdleNoFrame, IdleValidFrame,
         ReceivedToken, ReceivedPFM, ReceivedTestRequest, ReceivedDataNoReply,
         ReceivedDataNeedingReply, IgnoreFrame, UseToken, SendIAm,
         NothingToSend, Done, NextStationKnown, SendAnotherFrame,
         NextStationUnknown, SoleMasterAgain, SendToken,
         SoleMasterRestartMaintenancePFM, ResetMaintenancePFM,
         SendMaintenancePFM, Passing, SawTokenUser, WaitForTokenUser,
         RetrySendToken, FindNewSuccessor, NoToken, SawFrame, StayNoToken,
         GoTo, Polling, PollFailed, ReceivedReplyToPFM,
         ReceivedUnexpectedFrame, WaitForReplyToPFM, SoleMasterPollFailed,
         DoneWithPFM, SendNextPFM, DeclareSoleMaster, Answering, SendReply,
         DeferredReply
    <2>2. pc = "master" /\ silence >= SlotStart
      BY <2>1 DEF GenerateToken, NoToken, Master
    <2>3. SlotStart >= Tno_token
      <3>1. Tslot \in Nat /\ This_Station \in Nat /\ Tno_token \in Nat
        BY TimeAssumption, AddressAssumption
      <3>2. Tslot * This_Station \in Nat
        BY <3>1
      <3> QED BY <3>1, <3>2 DEF SlotStart
    <2>4. /\ silence \in Nat /\ quiet \in Nat /\ SlotStart \in Nat
          /\ Tno_token \in Nat
      BY Times, TimeAssumption DEF TypeInv, TypeOK, OutsideTypeOK
    <2> QED BY <2>2, <2>3, <2>4 DEF SilenceInv, MayWait
  <1> QED BY <1>1, <1>2, FreshStep, SilenceStep, TypeInvariance, PTL
          DEF Spec, ClaimsOnlySilentBus

(***************************************************************************)
(* What the other masters of the segment may rely on: the node implements  *)
(* TokenContract, and never takes itself for alone beside a successor.     *)
(***************************************************************************)

(***************************************************************************)
(* KeepsContract: every transition of dlmstp.c is a step of the contract,  *)
(* or one that hears something and changes nothing the contract is about.  *)
(***************************************************************************)
(* SoleMaster is decided only after the start.                             *)
UndecidedAtStart == Master_State = "INITIALIZE" => SoleMaster = FALSE

(* The role that each master state plays, before and after a step.         *)
LEMMA RoleValue ==
  /\ Master_State \in {"USE_TOKEN", "DONE_WITH_TOKEN"} => Role = "holding"
  /\ Master_State = "PASS_TOKEN" => Role = "passing"
  /\ Master_State = "POLL_FOR_MASTER" => Role = "polling"
  /\ Master_State \in {"INITIALIZE", "IDLE", "NO_TOKEN", "ANSWER_DATA_REQUEST"}
       => Role = "listening"
  /\ Master_State' \in {"USE_TOKEN", "DONE_WITH_TOKEN"} => Role' = "holding"
  /\ Master_State' = "PASS_TOKEN" => Role' = "passing"
  /\ Master_State' = "POLL_FOR_MASTER" => Role' = "polling"
  /\ Master_State' \in {"INITIALIZE", "IDLE", "NO_TOKEN",
                        "ANSWER_DATA_REQUEST"} => Role' = "listening"
  BY Zenon DEF Role

(* A step that says nothing and leaves the contract's state alone.         *)
LEMMA HearingStep ==
  ASSUME sent' = Nothing, UNCHANGED SoleMaster,
         \/ UNCHANGED <<Master_State, FrameCount, Next_Station, RetryCount>>
         \/ Role = "listening" /\ Role' = "listening"
         \/ Role = "holding" /\ Role' = "holding" /\ UNCHANGED FrameCount
  PROVE  Contract!Hear
  <1>1. UNCHANGED Role
    BY DEF Role
  <1>2. Contract!Quiet
    BY DEF Contract!Quiet, Contract!Silence, Nothing
  <1>3. (ReceivedValidFrame /\ frame.type = "TOKEN"
           /\ frame.dst = This_Station)' \in BOOLEAN
    OBVIOUS
  <1> QED BY <1>1, <1>2, <1>3 DEF Contract!Hear, Contract!Become

(* What the refinement needs: types, a frame that is for this station when *)
(* IDLE takes it for a token, and no decision before the start.            *)
ContractInv == TypeInv /\ FrameForUs /\ UndecidedAtStart

(* A frame that is transmitted is what the contract sees go out.           *)
LEMMA SpeakStep ==
  ASSUME NEW type, NEW dst \in Address, NEW data, NEW len, NEW types,
         type \in types, Send(type, dst, data, len)
  PROVE  Contract!Speak(types) /\ sent'.dst = dst
  BY DEF Send, Contract!Speak

(* Whether a token waits in the receiver is a truth value.                 *)
LEMMA OfferedBoolean ==
  (ReceivedValidFrame /\ frame.type = "TOKEN"
           /\ frame.dst = This_Station)' \in BOOLEAN
  OBVIOUS

(* PollFor, from any state in which the contract allows a poll.            *)
LEMMA PollStep ==
  ASSUME NEW s \in Address, PollFor(After(s)), UNCHANGED SoleMaster,
         \/ Role = "holding" /\ FrameCount = Nmax_info_frames
         \/ Role = "passing" /\ RetryCount = Nretry_token
         \/ Role \in {"polling", "listening"}
  PROVE  Contract!Poll
  <1>1. After(s) \in Address /\ This_Station \in Address
    <2>1. s \in Nat /\ 0 .. Nmax_master \subseteq Address
      BY DEF Address, Broadcast
    <2> QED BY <2>1, AfterInRing, ConstantTypes
  <1>2. Role' = "polling" 
    BY RoleValue DEF PollFor, GoTo
  <1>3. Contract!Speak({"POLL_FOR_MASTER"})
    BY <1>1, SpeakStep DEF PollFor, SendBare
  <1> QED BY <1>1, <1>2, <1>3, OfferedBoolean
          DEF Contract!Poll, Contract!Become, Contract!NotPassing

(* PassTokenTo, with the token in hand or after a poll.                    *)
LEMMA PassStep ==
  ASSUME NEW s \in Address, PassTokenTo(s), Next_Station' = s,
         SoleMaster' \in {FALSE, SoleMaster},
         \/ Role = "holding" /\ FrameCount = Nmax_info_frames
         \/ Role = "polling"
  PROVE  Contract!Pass
  <1>2. Role' = "passing" /\ RetryCount' = 0
    BY RoleValue DEF PassTokenTo, GoTo
  <1>3. Contract!Speak({"TOKEN"}) /\ sent'.dst = s
    BY SpeakStep DEF PassTokenTo, SendBare
  <1> QED BY <1>2, <1>3, OfferedBoolean
          DEF Contract!Pass, Contract!Become

(* IDLE answers, takes the token or hears something.                       *)
LEMMA IdleKeeps == ASSUME ContractInv, IdleStep PROVE Contract!Next
  <1> USE DEF Master, GoTo, Idle, IdleValidFrame, ring
  <1>1. CASE \/ LostToken \/ IdleInvalidFrame \/ IdleNoFrame
             \/ ReceivedDataNoReply \/ ReceivedDataNeedingReply \/ IgnoreFrame
    <2>1. /\ Role = "listening" /\ Role' = "listening" /\ sent' = Nothing
          /\ UNCHANGED SoleMaster
      BY <1>1, RoleValue
         DEF LostToken, IdleInvalidFrame, IdleNoFrame, ReceivedDataNoReply,
             ReceivedDataNeedingReply, IgnoreFrame, SendNothing
    <2> QED BY <2>1, HearingStep DEF Contract!Next
  <1>2. CASE ReceivedPFM \/ ReceivedTestRequest
    <2>1. Role = "listening" /\ Role' = "listening" /\ UNCHANGED SoleMaster
      BY <1>2, RoleValue DEF ReceivedPFM, ReceivedTestRequest
    <2>2. Contract!Speak(Contract!Answers)
      <3>1. frame.src \in Address
        BY DEF ContractInv, TypeInv, TypeOK, ReceiverTypeOK, Frame
      <3> QED BY <1>2, <3>1, SpeakStep
              DEF ReceivedPFM, ReceivedTestRequest, SendBare, Contract!Answers
    <2> QED BY <2>1, <2>2, OfferedBoolean
            DEF Contract!Next, Contract!Answer, Contract!Become
  <1>3. CASE ReceivedToken
    <2>1. /\ Role = "listening" /\ Role' = "holding" /\ sent' = Nothing
          /\ FrameCount' = 0
      BY <1>3, RoleValue DEF ReceivedToken, SendNothing
    <2>2. SoleMaster' = FALSE /\ ~ReceivedValidFrame'
      BY <1>3, Zenon DEF ReceivedToken
    <2>3. ReceivedValidFrame /\ frame.type = "TOKEN" /\ frame.dst = This_Station
      BY <1>3, Zenon
         DEF ReceivedToken, ToThisStation, ContractInv, FrameForUs, ForUs
    <2>4. Contract!Quiet /\ This_Station \in Address
      BY <2>1, ConstantTypes DEF Contract!Quiet, Contract!Silence, Nothing
    <2> QED BY <2>1, <2>2, <2>3, <2>4
            DEF Contract!Next, Contract!TakeToken, Contract!NotPassing
  <1> QED BY <1>1, <1>2, <1>3 DEF IdleStep

(* USE_TOKEN and DONE_WITH_TOKEN hold the token.                           *)
LEMMA TokenKeeps ==
  ASSUME ContractInv, SendIAm \/ NothingToSend \/ DoneWithTokenStep
  PROVE  Contract!Next
  <1> USE DEF Master, GoTo, UseToken, Done, NextStationKnown
  <1>1. /\ FrameCount \in 0 .. Nmax_info_frames
        /\ Next_Station \in Address /\ This_Station \in Address
        /\ Poll_Station \in Address
        /\ Master_State = "USE_TOKEN" => FrameCount < Nmax_info_frames
    BY ConstantTypes DEF ContractInv, TypeInv, TypeOK, RingTypeOK, MayUseToken,
       Address, Broadcast
  <1>2. CASE SendIAm
    <2>1. /\ Role = "holding" /\ Role' = "holding" /\ UNCHANGED SoleMaster
          /\ FrameCount' = FrameCount + 1 /\ FrameCount < Nmax_info_frames
      BY <1>1, <1>2, RoleValue DEF SendIAm
    <2>2. Contract!Speak({"DATA_NOT_EXPECTING_REPLY"})
      <3>1. Broadcast \in Address
        BY DEF Address, Broadcast
      <3> QED BY <1>2, <3>1, SpeakStep DEF SendIAm
    <2> QED BY <2>1, <2>2, OfferedBoolean
            DEF Contract!Next, Contract!SendData, Contract!Become
  <1>3. CASE NothingToSend
    <2>1. /\ Role = "holding" /\ Role' = "holding" /\ UNCHANGED SoleMaster
          /\ FrameCount' = Nmax_info_frames /\ sent' = Nothing
      BY <1>3, RoleValue DEF NothingToSend, SendNothing
    <2>2. Contract!Quiet
      BY <2>1 DEF Contract!Quiet, Contract!Silence, Nothing
    <2> QED BY <2>1, <2>2, OfferedBoolean
            DEF Contract!Next, Contract!NoMoreData, Contract!Become
  <1>4. CASE SendAnotherFrame
    <2>1. /\ Role = "holding" /\ Role' = "holding" /\ UNCHANGED SoleMaster
          /\ UNCHANGED FrameCount /\ sent' = Nothing
      BY <1>4, RoleValue DEF SendAnotherFrame, SendNothing
    <2> QED BY <2>1, HearingStep DEF Contract!Next
  <1>5. CASE SoleMasterAgain
    <2>1. /\ Role = "holding" /\ Role' = "holding" /\ UNCHANGED SoleMaster
          /\ SoleMaster /\ FrameCount' = 0 /\ FrameCount = Nmax_info_frames
          /\ sent' = Nothing
      BY <1>1, <1>5, RoleValue DEF SoleMasterAgain, SendNothing, MayPass
    <2>2. Contract!Quiet
      BY <2>1 DEF Contract!Quiet, Contract!Silence, Nothing
    <2> QED BY <2>1, <2>2, OfferedBoolean
            DEF Contract!Next, Contract!KeepToken, Contract!Become
  <1>6. CASE SendToken \/ ResetMaintenancePFM
    <2>1. /\ Role = "holding" /\ UNCHANGED SoleMaster
          /\ FrameCount = Nmax_info_frames
          /\ PassTokenTo(Next_Station) /\ UNCHANGED Next_Station
      BY <1>1, <1>6, RoleValue DEF SendToken, ResetMaintenancePFM, MayPass
    <2> QED BY <1>1, <2>1, PassStep DEF Contract!Next
  <1>7. CASE \/ NextStationUnknown \/ SoleMasterRestartMaintenancePFM
             \/ SendMaintenancePFM
    <2>1. /\ Role = "holding" /\ UNCHANGED SoleMaster
          /\ FrameCount = Nmax_info_frames
          /\ \E s \in Address : PollFor(After(s))
      BY <1>1, <1>7, RoleValue
         DEF NextStationUnknown, SoleMasterRestartMaintenancePFM,
             SendMaintenancePFM, MayPass
    <2> QED BY <2>1, PollStep DEF Contract!Next
  <1> QED BY <1>2, <1>3, <1>4, <1>5, <1>6, <1>7 DEF DoneWithTokenStep

(* PASS_TOKEN repeats, gives way or searches; NO_TOKEN waits or claims.    *)
LEMMA PassKeeps ==
  ASSUME ContractInv, PassTokenStep \/ NoTokenStep PROVE Contract!Next
  <1> USE DEF Master, GoTo, Passing, NoToken
  <1>1. /\ Next_Station \in Address /\ This_Station \in Address
        /\ RetryCount \in 0 .. Nretry_token
    BY ConstantTypes DEF ContractInv, TypeInv, TypeOK, RingTypeOK
  <1>2. CASE WaitForTokenUser \/ SawFrame \/ StayNoToken
    <2>1. /\ sent' = Nothing /\ UNCHANGED SoleMaster
          /\ \/ UNCHANGED <<Master_State, FrameCount, Next_Station,
                             RetryCount>>
             \/ Role = "listening" /\ Role' = "listening"
      BY <1>2, RoleValue
         DEF WaitForTokenUser, SawFrame, StayNoToken, SendNothing
    <2> QED BY <2>1, HearingStep DEF Contract!Next
  <1>3. CASE SawTokenUser
    <2>1. /\ Role = "passing" /\ Role' = "listening" /\ UNCHANGED SoleMaster
          /\ sent' = Nothing
      BY <1>3, RoleValue DEF SawTokenUser, SendNothing
    <2>2. Contract!Quiet
      BY <2>1 DEF Contract!Quiet, Contract!Silence, Nothing
    <2> QED BY <1>1, <2>1, <2>2, OfferedBoolean
            DEF Contract!Next, Contract!Yield, Contract!Become,
                Contract!NotPassing
  <1>4. CASE RetrySendToken
    <2>1. /\ Role = "passing" /\ Role' = "passing" /\ UNCHANGED SoleMaster
          /\ UNCHANGED Next_Station
          /\ RetryCount < Nretry_token /\ RetryCount' = RetryCount + 1
      BY <1>4, RoleValue DEF RetrySendToken, MayRetry
    <2>2. Contract!Speak({"TOKEN"}) /\ sent'.dst = Next_Station
      BY <1>1, <1>4, SpeakStep DEF RetrySendToken, SendBare
    <2> QED BY <2>1, <2>2, OfferedBoolean
            DEF Contract!Next, Contract!PassAgain, Contract!Become
  <1>5. CASE FindNewSuccessor
    <2>1. /\ Role = "passing" /\ UNCHANGED SoleMaster
          /\ RetryCount = Nretry_token /\ PollFor(After(Next_Station))
      BY <1>1, <1>5, RoleValue DEF FindNewSuccessor, MayRetry
    <2> QED BY <1>1, <2>1, PollStep DEF Contract!Next
  <1>6. CASE GenerateToken
    <2>1. /\ Role = "listening" /\ UNCHANGED SoleMaster
          /\ PollFor(After(This_Station))
      BY <1>6, RoleValue DEF GenerateToken
    <2> QED BY <1>1, <2>1, PollStep DEF Contract!Next
  <1> QED BY <1>2, <1>3, <1>4, <1>5, <1>6 DEF PassTokenStep, NoTokenStep

(* POLL_FOR_MASTER ends with a successor, with none, or by giving way.     *)
LEMMA PollKeeps == ASSUME ContractInv, PollForMasterStep PROVE Contract!Next
  <1> USE DEF Master, GoTo, Polling, PollFailed, ring
  <1>1. /\ Next_Station \in Address /\ This_Station \in Address
        /\ Poll_Station \in Address /\ frame.src \in Address
    BY ConstantTypes DEF ContractInv, TypeInv, TypeOK, RingTypeOK,
       ReceiverTypeOK, Frame, Address, Broadcast
  <1>2. CASE WaitForReplyToPFM
    <2>1. /\ sent' = Nothing
          /\ UNCHANGED <<SoleMaster, Master_State, FrameCount, Next_Station,
                         RetryCount>>
      BY <1>2 DEF WaitForReplyToPFM, SendNothing
    <2> QED BY <2>1, HearingStep DEF Contract!Next
  <1>3. CASE ReceivedReplyToPFM
    <2>1. /\ Role = "polling" /\ PassTokenTo(frame.src)
          /\ Next_Station' = frame.src
      BY <1>3, RoleValue DEF ReceivedReplyToPFM, NewSuccessor
    <2>2. SoleMaster' \in {FALSE, SoleMaster}
      BY <1>3, Zenon DEF ReceivedReplyToPFM, NewSuccessor
    <2> QED BY <1>1, <2>1, <2>2, PassStep DEF Contract!Next
  <1>4. CASE DoneWithPFM
    <2>1. /\ Role = "polling" /\ PassTokenTo(Next_Station)
          /\ UNCHANGED <<SoleMaster, Next_Station>>
      BY <1>4, RoleValue DEF DoneWithPFM
    <2> QED BY <1>1, <2>1, PassStep DEF Contract!Next
  <1>5. CASE SendNextPFM
    <2>1. /\ Role = "polling" /\ UNCHANGED SoleMaster
          /\ PollFor(After(Poll_Station))
      BY <1>5, RoleValue DEF SendNextPFM
    <2> QED BY <1>1, <2>1, PollStep DEF Contract!Next
  <1>6. CASE ReceivedUnexpectedFrame
    <2>1. /\ Role = "polling" /\ Role' = "listening" /\ UNCHANGED SoleMaster
          /\ sent' = Nothing
      BY <1>6, RoleValue DEF ReceivedUnexpectedFrame, SendNothing
    <2>2. Contract!Quiet
      BY <2>1 DEF Contract!Quiet, Contract!Silence, Nothing
    <2> QED BY <1>1, <2>1, <2>2, OfferedBoolean
            DEF Contract!Next, Contract!Yield, Contract!Become,
                Contract!NotPassing
  <1>7. CASE SoleMasterPollFailed \/ DeclareSoleMaster
    <2>1. /\ Role = "polling" /\ Role' = "holding" /\ FrameCount' = 0
          /\ sent' = Nothing
      BY <1>7, RoleValue
         DEF SoleMasterPollFailed, DeclareSoleMaster, SendNothing
    <2>2. SoleMaster' = TRUE
      <3>1. SoleMaster \in BOOLEAN
        BY DEF ContractInv, TypeInv, TypeOK, RingTypeOK
      <3> QED BY <1>7, <3>1, Zenon DEF SoleMasterPollFailed, DeclareSoleMaster
    <2>3. Contract!Quiet
      BY <2>1 DEF Contract!Quiet, Contract!Silence, Nothing
    <2> QED BY <1>1, <2>1, <2>2, <2>3, OfferedBoolean
            DEF Contract!Next, Contract!NobodyAnswers, Contract!Become,
                Contract!NotPassing
  <1> QED BY <1>2, <1>3, <1>4, <1>5, <1>6, <1>7 DEF PollForMasterStep

(* ANSWER_DATA_REQUEST speaks because it was asked.                        *)
LEMMA AnswerKeeps ==
  ASSUME ContractInv, AnswerDataRequestStep PROVE Contract!Next
  <1>1. /\ Role = "listening" /\ Role' = "listening" /\ UNCHANGED SoleMaster
    BY RoleValue
       DEF AnswerDataRequestStep, SendReply, DeferredReply, Answering, Master,
           GoTo, ring
  <1>2. /\ TransmitPacketDest \in Address /\ frame.src \in Address
    BY DEF ContractInv, TypeInv, TypeOK, SlotTypeOK, ReceiverTypeOK, Frame
  <1>3. Contract!Speak(Contract!Answers)
    BY <1>2, SpeakStep
       DEF AnswerDataRequestStep, SendReply, DeferredReply, SendBare,
           Contract!Answers
  <1> QED BY <1>1, <1>3, OfferedBoolean
          DEF Contract!Next, Contract!Answer, Contract!Become

(* Everything else is silent and outside the contract.                     *)
LEMMA OthersKeep ==
  ASSUME ContractInv,
         \/ DoneInitializing \/ Arrive \/ Tick \/ BeginUpdate \/ Receive
         \/ DeliverStep
  PROVE  Contract!Next
  <1>1. CASE DoneInitializing
    <2>1. /\ Role = "listening" /\ Role' = "listening" /\ sent' = Nothing
      BY <1>1, RoleValue DEF DoneInitializing, Master, GoTo, SendNothing
    <2>2. UNCHANGED SoleMaster
      BY <1>1, Zenon
         DEF DoneInitializing, Master, ContractInv, UndecidedAtStart
    <2> QED BY <2>1, <2>2, HearingStep DEF Contract!Next
  <1>2. CASE Arrive \/ Tick \/ BeginUpdate \/ Receive \/ DeliverStep
    <2>1. /\ sent' = Nothing
          /\ UNCHANGED <<Master_State, ring>>
      BY <1>2 DEF Arrive, Tick, BeginUpdate, Receive, Read, Receiving,
         ReceiverOff, ReceiveNothing, ReceiveTimeout, ReceiveFrame,
         ReceiveBadFrame, ReceiveOctet, ReceiveStart, ReceiveInsideFrame,
         DeliverStep, DeliverNothing, HandleConfirmed, HandleWhoIs,
         HandleNetworkNumberIs, HandleNetworkQuery, Deliver
    <2> QED BY <2>1, HearingStep DEF Contract!Next, ring
  <1> QED BY <1>1, <1>2

(* Every step is a step of the contract or changes nothing it speaks of.   *)
LEMMA ContractStep ==
  ContractInv /\ [Next]_vars => [Contract!Next]_(Contract!vars)
  <1> SUFFICES ASSUME ContractInv, [Next]_vars
               PROVE  [Contract!Next]_(Contract!vars)
    OBVIOUS
  <1>1. CASE Next
    BY <1>1, IdleKeeps, TokenKeeps, PassKeeps, PollKeeps, AnswerKeeps,
       OthersKeep DEF Next, Program, MasterStep
  <1>2. CASE UNCHANGED vars
    BY <1>2 DEF vars, receiver, ring, Role, Contract!vars
  <1> QED BY <1>1, <1>2

(* A node that starts is a listener that knows nobody.                     *)
LEMMA ContractInit == Init => Contract!Init
  <1> SUFFICES ASSUME Init PROVE Contract!Init
    OBVIOUS
  <1>1. Role = "listening"
    BY RoleValue DEF Init
  <1>2. This_Station \in Address /\ sent = Nothing
    BY ConstantTypes DEF Init
  <1>3. SoleMaster = FALSE /\ ~ReceivedValidFrame
    BY Zenon DEF Init
  <1> QED BY <1>1, <1>2, <1>3
          DEF Contract!Init, Contract!Silence, Nothing

(* SoleMaster is false until the machine has left INITIALIZE, which it     *)
(* never enters again.                                                     *)
LEMMA UndecidedStep ==
  ASSUME UndecidedAtStart, [Next]_vars PROVE UndecidedAtStart'
  <1>1. CASE MasterStep
    <2>1. Master_State' # "INITIALIZE"
      BY <1>1 DEF MasterStep, IdleStep, DoneWithTokenStep, PassTokenStep,
         NoTokenStep, PollForMasterStep, AnswerDataRequestStep, Master,
         DoneInitializing, LostToken, Idle, IdleInvalidFrame, IdleNoFrame,
         IdleValidFrame, ReceivedToken, ReceivedPFM, ReceivedTestRequest,
         ReceivedDataNoReply, ReceivedDataNeedingReply, IgnoreFrame,
         UseToken, SendIAm, NothingToSend, Done, NextStationKnown,
         SendAnotherFrame, NextStationUnknown, SoleMasterAgain, SendToken,
         SoleMasterRestartMaintenancePFM, ResetMaintenancePFM,
         SendMaintenancePFM, Passing, SawTokenUser, WaitForTokenUser,
         RetrySendToken, FindNewSuccessor, NoToken, SawFrame, GenerateToken,
         StayNoToken, Polling, PollFailed, ReceivedReplyToPFM,
         ReceivedUnexpectedFrame, WaitForReplyToPFM, SoleMasterPollFailed,
         DoneWithPFM, SendNextPFM, DeclareSoleMaster, Answering, SendReply,
         DeferredReply, GoTo, PassTokenTo, PollFor
    <2> QED BY <2>1 DEF UndecidedAtStart
  <1>2. CASE \/ Arrive \/ Tick \/ BeginUpdate \/ Receive \/ DeliverStep
             \/ UNCHANGED vars
    <2>1. UNCHANGED <<Master_State, ring>>
      BY <1>2 DEF Arrive, Tick, BeginUpdate, Receive, Read, Receiving,
         ReceiverOff, ReceiveNothing, ReceiveTimeout, ReceiveFrame,
         ReceiveBadFrame, ReceiveOctet, ReceiveStart, ReceiveInsideFrame,
         DeliverStep, DeliverNothing, HandleConfirmed, HandleWhoIs,
         HandleNetworkNumberIs, HandleNetworkQuery, Deliver, vars
    <2> QED BY <2>1, Zenon DEF UndecidedAtStart, ring
  <1> QED BY <1>1, <1>2 DEF Next, Program

(* What the steps above rest on holds always.                              *)
LEMMA ContractInvariance == Spec => []ContractInv
  <1>1. Init => UndecidedAtStart
    BY Zenon DEF Init, UndecidedAtStart
  <1>2. UndecidedAtStart /\ [Next]_vars => UndecidedAtStart'
    BY UndecidedStep
  <1>3. Spec => []UndecidedAtStart
    BY <1>1, <1>2, PTL DEF Spec
  <1> QED BY <1>3, TypeInvariance, HeldInvariance, PTL
          DEF ContractInv, HeldInv

(* A node keeps the token contract, whatever the other stations send: it   *)
(* speaks unasked only with the token, sends at most Nmax_info_frames      *)
(* frames for it, and repeats it at most Nretry_token times to one station.*)
THEOREM ImplementsContract == Spec => KeepsContract
  <1>1. Spec => Contract!Init
    BY ContractInit DEF Spec
  <1>2. Spec => [][Contract!Next]_(Contract!vars)
    BY ContractInvariance, ContractStep, PTL DEF Spec
  <1> QED BY <1>1, <1>2, PTL DEF KeepsContract, Contract!Spec

(***************************************************************************)
(* SoleMasterAlone.                                                        *)
(***************************************************************************)
(* The transitions that set one of the two keep them in agreement.         *)
LEMMA SoleMasterStep ==
  ASSUME SoleMasterAlone, [Next]_vars PROVE SoleMasterAlone'
  <1> USE DEF SoleMasterAlone
  <1>1. CASE DoneInitializing \/ ReceivedToken \/ ReceivedReplyToPFM
    BY <1>1, Zenon
       DEF DoneInitializing, ReceivedToken, ReceivedReplyToPFM, NewSuccessor
  <1>2. CASE FindNewSuccessor \/ GenerateToken \/ DeclareSoleMaster
             \/ SoleMasterRestartMaintenancePFM
    BY <1>2, Zenon
       DEF FindNewSuccessor, GenerateToken, DeclareSoleMaster, PollFailed,
           Polling, SoleMasterRestartMaintenancePFM
  <1>3. CASE MasterStep /\ ~(\/ DoneInitializing \/ ReceivedToken
                             \/ ReceivedReplyToPFM \/ FindNewSuccessor
                             \/ GenerateToken \/ DeclareSoleMaster
                             \/ SoleMasterRestartMaintenancePFM)
    <2>1. UNCHANGED <<SoleMaster, Next_Station>>
      BY <1>3 DEF MasterStep, IdleStep, DoneWithTokenStep, PassTokenStep,
         NoTokenStep, PollForMasterStep, AnswerDataRequestStep, LostToken,
         Idle, IdleInvalidFrame, IdleNoFrame, IdleValidFrame, ReceivedPFM,
         ReceivedTestRequest, ReceivedDataNoReply, ReceivedDataNeedingReply,
         IgnoreFrame, UseToken, SendIAm, NothingToSend, Done,
         NextStationKnown, SendAnotherFrame, NextStationUnknown,
         SoleMasterAgain, SendToken, ResetMaintenancePFM, SendMaintenancePFM,
         Passing, SawTokenUser, WaitForTokenUser, RetrySendToken, NoToken,
         SawFrame, StayNoToken, Polling, PollFailed, ReceivedUnexpectedFrame,
         WaitForReplyToPFM, SoleMasterPollFailed, DoneWithPFM, SendNextPFM,
         Answering, SendReply, DeferredReply, ring
    <2> QED BY <2>1, Zenon
  <1>4. CASE \/ Arrive \/ Tick \/ BeginUpdate \/ Receive \/ DeliverStep
             \/ UNCHANGED vars
    <2>1. UNCHANGED ring
      BY <1>4 DEF Arrive, Tick, BeginUpdate, Receive, Read, Receiving,
         ReceiverOff, ReceiveNothing, ReceiveTimeout, ReceiveFrame,
         ReceiveBadFrame, ReceiveOctet, ReceiveStart, ReceiveInsideFrame,
         DeliverStep, DeliverNothing, HandleConfirmed, HandleWhoIs,
         HandleNetworkNumberIs, HandleNetworkQuery, Deliver, vars
    <2> QED BY <2>1, Zenon DEF ring
  <1> QED BY <1>1, <1>2, <1>3, <1>4 DEF Next, Program

(* SoleMaster and Next_Station, set in different transitions, agree after  *)
(* any sequence of polls, replies, drops and new tokens.                   *)
THEOREM SoleMasterIsAlone == Spec => []SoleMasterAlone
  <1>1. Init => SoleMasterAlone
    BY Zenon DEF Init, SoleMasterAlone
  <1> QED BY <1>1, SoleMasterStep, PTL DEF Spec


(***************************************************************************)
(* The search for a successor.                                             *)
(***************************************************************************)
(* Remainders.                                                             *)
LEMMA Division ==
  ASSUME NEW n \in Nat \ {0}, NEW x \in Nat
  PROVE  x = n * (x \div n) + (x % n) /\ x % n \in 0 .. n - 1 /\ x \div n \in Nat
  BY SMT

LEMMA Multiples ==
  ASSUME NEW n \in Nat \ {0}, NEW p \in Int, NEW q \in Int, p < q
  PROVE  n * p + n <= n * q
  <1>1. q - p - 1 \in Nat
    OBVIOUS
  <1>2. n * (q - p - 1) >= 0
    BY <1>1, SMT
  <1> QED BY <1>2, SMT

LEMMA Remainder ==
  ASSUME NEW n \in Nat \ {0}, NEW q \in Int, NEW r \in 0 .. n - 1, NEW x \in Nat,
         x = n * q + r
  PROVE  x % n = r
  <1>0. x = n * (x \div n) + (x % n) /\ x % n \in 0 .. n - 1 /\ x \div n \in Nat
    BY Division
  <1> DEFINE d == x \div n
             m == x % n
  <1>1. d \in Int /\ m \in 0 .. n - 1 /\ n * q + r = n * d + m
    BY <1>0
  <1> HIDE DEF d, m
  <1>2. ~ (d < q) /\ ~ (q < d)
    BY <1>1, Multiples, SMT
  <1>3. m = r
    BY <1>1, <1>2
  <1> QED BY <1>3 DEF m

(* Counting on by one, past a wrap or not.                                 *)
LEMMA CountOn ==
  ASSUME NEW n \in Nat \ {0}, NEW c \in Nat, NEW s \in Nat
  PROVE  /\ (s + c) % n = n - 1 => (((s + 1) % n) + c) % n = 0
         /\ (s + c) % n # n - 1 => (((s + 1) % n) + c) % n = ((s + c) % n) + 1
  <1>1. s + 1 \in Nat /\ s + c \in Nat
    OBVIOUS
  <1> DEFINE a == (s + 1) \div n
             r == (s + 1) % n
             b == (s + c) \div n
             d == (s + c) % n
             x == r + c
             k == b - a
  <1>2. /\ s + 1 = n * a + r /\ r \in 0 .. n - 1 /\ a \in Nat
        /\ s + c = n * b + d /\ d \in 0 .. n - 1 /\ b \in Nat
    BY <1>1, Division
  <1> HIDE DEF a, r, b, d
  <1>3. k \in Int /\ x \in Nat /\ k + 1 \in Int /\ 0 \in 0 .. n - 1
    BY <1>2
  <1>4. x = n * k + (d + 1)
    BY <1>2, SMT
  <1> HIDE DEF x, k
  <1>5. CASE d = n - 1
    <2>1. x = n * (k + 1) + 0
      BY <1>2, <1>3, <1>4, <1>5, SMT
    <2> DEFINE q == k + 1
    <2> HIDE DEF q
    <2>2. x = n * q + 0 /\ q \in Int
      BY <1>3, <2>1 DEF q
    <2>3. x % n = 0
      BY <1>3, <2>2, Remainder
    <2> QED BY <1>5, <2>3 DEF x, d, r
  <1>6. CASE d # n - 1
    <2> DEFINE e == d + 1
    <2>1. e \in 0 .. n - 1 /\ x = n * k + e
      BY <1>2, <1>4, <1>6
    <2> HIDE DEF e
    <2>2. x % n = e
      BY <1>3, <2>1, Remainder
    <2> QED BY <1>6, <2>2 DEF x, d, r, e
  <1> QED BY <1>5, <1>6

(* The addresses of the ring, counted from this one.                       *)
LEMMA Distances ==
  ASSUME NEW s \in Masters
  PROVE  /\ Distance(s) = IF s >= This_Station
                          THEN s - This_Station
                          ELSE s + Nmax_master + 1 - This_Station
         /\ Distance(s) \in 0 .. Nmax_master
  <1>1. /\ Nmax_master \in Nat /\ This_Station \in 0 .. Nmax_master
        /\ s \in 0 .. Nmax_master
    BY AddressAssumption DEF Masters
  <1>2. CASE s >= This_Station
    <2>1. s + Nmax_master + 1 - This_Station
            = (Nmax_master + 1) * 1 + (s - This_Station)
      BY <1>1, <1>2
    <2> QED BY <1>1, <1>2, <2>1, Remainder DEF Distance
  <1>3. CASE ~ (s >= This_Station)
    <2>1. s + Nmax_master + 1 - This_Station
            = (Nmax_master + 1) * 0 + (s + Nmax_master + 1 - This_Station)
      BY <1>1, <1>3
    <2> QED BY <1>1, <1>3, <2>1, Remainder DEF Distance
  <1> QED BY <1>2, <1>3

LEMMA SameDistance ==
  ASSUME NEW s \in Masters, NEW t \in Masters, Distance(s) = Distance(t)
  PROVE  s = t
  <1>1. /\ Nmax_master \in Nat /\ This_Station \in 0 .. Nmax_master
        /\ s \in 0 .. Nmax_master /\ t \in 0 .. Nmax_master
    BY AddressAssumption DEF Masters
  <1> QED BY <1>1, Distances

LEMMA OwnDistance == This_Station \in Masters /\ Distance(This_Station) = 0
  <1>1. Nmax_master \in Nat /\ This_Station \in 0 .. Nmax_master
    BY AddressAssumption
  <1> QED BY <1>1, Distances DEF Masters

(* The address after any address, one on the ring or not.                  *)
LEMMA DistanceAfter ==
  ASSUME NEW s \in Nat
  PROVE  /\ After(s) \in Masters
         /\ Distance(s) \in 0 .. Nmax_master
         /\ Distance(After(s)) = IF Distance(s) = Nmax_master
                                 THEN 0 ELSE Distance(s) + 1
  <1> DEFINE n == Nmax_master + 1
             c == n - This_Station
  <1>1. /\ n \in Nat \ {0} /\ c \in Nat
        /\ 0 .. n - 1 = Masters /\ n - 1 = Nmax_master
    BY AddressAssumption DEF Masters
  <1>2. (s + 1) % n \in 0 .. n - 1 /\ (s + c) % n \in 0 .. n - 1
    <2> HIDE DEF n, c
    <2>1. s + 1 \in Nat /\ s + c \in Nat
      BY <1>1
    <2> QED BY <1>1, <2>1, Division
  <1>3. \A t \in Nat : Distance(t) = (t + c) % n
    BY AddressAssumption DEF Distance
  <1>4. After(s) = (s + 1) % n
    BY DEF After
  <1> HIDE DEF n, c
  <1>5. Distance(s) = (s + c) % n /\ Distance(After(s)) = (((s + 1) % n) + c) % n
    BY <1>2, <1>3, <1>4
  <1>6. After(s) \in Masters /\ Distance(s) \in Masters
    BY <1>1, <1>2, <1>4, <1>5
  <1>7. Distance(After(s)) = IF Distance(s) = Nmax_master
                             THEN 0 ELSE Distance(s) + 1
    BY <1>1, <1>5, CountOn
  <1> QED BY <1>6, <1>7 DEF Masters

(* The six transitions that send a Poll For Master.                        *)
Polls == \/ NextStationUnknown \/ SoleMasterRestartMaintenancePFM
         \/ SendMaintenancePFM \/ FindNewSuccessor \/ GenerateToken
         \/ SendNextPFM

(* Only those poll, and the search waits for the answer with its state     *)
(* untouched.                                                              *)
LEMMA OnlyPollsPoll ==
  ASSUME MasterStep, ~Polls
  PROVE  /\ sent'.type # "POLL_FOR_MASTER"
         /\ Master_State' = "POLL_FOR_MASTER"
              => UNCHANGED <<Master_State, SoleMaster, Next_Station,
                             Poll_Station>>
  <1> USE DEF Polls, GoTo, SendNothing, Nothing, SendBare, Send, PassTokenTo
  <1>1. CASE DoneInitializing
    BY <1>1 DEF DoneInitializing
  <1>2. CASE IdleStep
    BY <1>2 DEF IdleStep, LostToken, Idle, IdleInvalidFrame, IdleNoFrame,
       IdleValidFrame, ReceivedToken, ReceivedPFM, ReceivedTestRequest,
       ReceivedDataNoReply, ReceivedDataNeedingReply, IgnoreFrame
  <1>3. CASE SendIAm \/ NothingToSend
    BY <1>3 DEF SendIAm, NothingToSend
  <1>4. CASE DoneWithTokenStep
    BY <1>4 DEF DoneWithTokenStep, SendAnotherFrame, SoleMasterAgain,
       SendToken, ResetMaintenancePFM
  <1>5. CASE PassTokenStep
    BY <1>5 DEF PassTokenStep, SawTokenUser, WaitForTokenUser, RetrySendToken
  <1>6. CASE NoTokenStep
    BY <1>6 DEF NoTokenStep, SawFrame, StayNoToken
  <1>7. CASE PollForMasterStep
    BY <1>7 DEF PollForMasterStep, Polling, Master, ReceivedReplyToPFM,
       ReceivedUnexpectedFrame, WaitForReplyToPFM, SoleMasterPollFailed,
       DoneWithPFM, DeclareSoleMaster, ring
  <1>8. CASE AnswerDataRequestStep
    BY <1>8 DEF AnswerDataRequestStep, Answering, SendReply, DeferredReply
  <1> QED BY <1>1, <1>2, <1>3, <1>4, <1>5, <1>6, <1>7, <1>8 DEF MasterStep

(* The steps outside the machine send nothing and leave the search alone.  *)
LEMMA OutsideSearch ==
  ASSUME Arrive \/ Tick \/ BeginUpdate \/ Receive \/ DeliverStep
  PROVE  /\ sent' = Nothing
         /\ UNCHANGED <<Master_State, SoleMaster, Next_Station, Poll_Station>>
  <1>1. sent' = Nothing /\ UNCHANGED <<Master_State, ring>>
    BY DEF Arrive, Tick, BeginUpdate, Receive, Read, Receiving, ReceiverOff,
       ReceiveNothing, ReceiveTimeout, ReceiveFrame, ReceiveBadFrame,
       ReceiveOctet, ReceiveStart, ReceiveInsideFrame, DeliverStep,
       DeliverNothing, HandleConfirmed, HandleWhoIs, HandleNetworkNumberIs,
       HandleNetworkQuery, Deliver
  <1> QED BY <1>1, Zenon DEF ring

(* The transitions that move the successor or the station polled.          *)
Moves == Polls \/ DoneInitializing \/ ResetMaintenancePFM \/ ReceivedReplyToPFM

LEMMA OnlyMovesMove ==
  ASSUME MasterStep, ~Moves
  PROVE  /\ UNCHANGED <<Next_Station, Poll_Station>>
         /\ Master_State # "INITIALIZE"
  BY DEF Moves, Polls, MasterStep, IdleStep, DoneWithTokenStep, PassTokenStep,
     NoTokenStep, PollForMasterStep, AnswerDataRequestStep, LostToken, Idle,
     IdleInvalidFrame, IdleNoFrame, IdleValidFrame, ReceivedToken,
     ReceivedPFM, ReceivedTestRequest, ReceivedDataNoReply,
     ReceivedDataNeedingReply, IgnoreFrame, UseToken, SendIAm, NothingToSend,
     Done, NextStationKnown, SendAnotherFrame, SoleMasterAgain, SendToken,
     Passing, SawTokenUser, WaitForTokenUser, RetrySendToken, NoToken,
     SawFrame, StayNoToken, Polling, PollFailed, ReceivedUnexpectedFrame,
     WaitForReplyToPFM, SoleMasterPollFailed, DoneWithPFM, DeclareSoleMaster,
     Answering, SendReply, DeferredReply, ring, Master

(* One transition makes a node the only master.                            *)
LEMMA OnlyDeclared ==
  ASSUME MasterStep, ~SoleMaster, SoleMaster' PROVE DeclareSoleMaster
  BY Zenon
     DEF MasterStep, IdleStep, DoneWithTokenStep, PassTokenStep, NoTokenStep,
         PollForMasterStep, AnswerDataRequestStep, DoneInitializing,
         LostToken, IdleInvalidFrame, IdleNoFrame, ReceivedToken,
         ReceivedPFM, ReceivedTestRequest, ReceivedDataNoReply,
         ReceivedDataNeedingReply, IgnoreFrame, UseToken, SendIAm,
         NothingToSend, Done, NextStationKnown, SendAnotherFrame,
         NextStationUnknown, SoleMasterAgain, SendToken,
         SoleMasterRestartMaintenancePFM, ResetMaintenancePFM,
         SendMaintenancePFM, Passing, SawTokenUser, WaitForTokenUser,
         RetrySendToken, FindNewSuccessor, NoToken, SawFrame, GenerateToken,
         StayNoToken, ReceivedReplyToPFM, NewSuccessor,
         ReceivedUnexpectedFrame, WaitForReplyToPFM, SoleMasterPollFailed,
         DoneWithPFM, SendNextPFM, Answering, SendReply, DeferredReply, ring

(* On a ring of more than one address this station is not next to itself.  *)
LEMMA NotNextToItself ==
  ASSUME Nmax_master > 0 PROVE After(This_Station) # This_Station
  <1>1. Distance(After(This_Station)) = 1
    BY OwnDistance, DistanceAfter, AddressAssumption
  <1> QED BY <1>1, OwnDistance

(***************************************************************************)
(* RoundAsksTheRest.                                                       *)
(***************************************************************************)
(* The only master passes no token, and polls others.                      *)
SolePollsOthers ==
  SoleMaster => Master_State # "PASS_TOKEN" /\ Poll_Station # This_Station

LEMMA SolePolls ==
  ASSUME Nmax_master > 0, SoleMasterAlone, SolePollsOthers, MasterStep, Moves
  PROVE  SolePollsOthers'
  <1>1. CASE \/ DoneInitializing \/ ReceivedReplyToPFM \/ ResetMaintenancePFM
             \/ NextStationUnknown \/ FindNewSuccessor \/ SendNextPFM
    <2>1. ~SoleMaster'
      BY <1>1, Zenon
         DEF DoneInitializing, ReceivedReplyToPFM, NewSuccessor,
             ResetMaintenancePFM, NextStationKnown, NextStationUnknown, Done,
             FindNewSuccessor, Passing, Master, SendNextPFM, SolePollsOthers
    <2> QED BY <2>1, Zenon DEF SolePollsOthers
  <1>2. CASE GenerateToken
    BY <1>2, NotNextToItself
       DEF GenerateToken, PollFor, GoTo, SolePollsOthers
  <1>3. CASE SoleMasterRestartMaintenancePFM
    <2>1. Next_Station = This_Station
      BY <1>3, Zenon DEF SoleMasterRestartMaintenancePFM, SoleMasterAlone
    <2> QED BY <1>3, <2>1, NotNextToItself
            DEF SoleMasterRestartMaintenancePFM, PollFor, GoTo,
                SolePollsOthers
  <1>4. CASE SendMaintenancePFM
    <2>1. UNCHANGED SoleMaster
      BY <1>4, Zenon DEF SendMaintenancePFM, NextStationKnown, Done
    <2>2. SoleMaster => Poll_Station' # This_Station
      BY <1>4 DEF SendMaintenancePFM, PollFor, SoleMasterAlone
    <2>3. Master_State' # "PASS_TOKEN"
      BY <1>4 DEF SendMaintenancePFM, PollFor, GoTo
    <2> QED BY <2>1, <2>2, <2>3, Zenon DEF SolePollsOthers
  <1> QED BY <1>1, <1>2, <1>3, <1>4 DEF Moves, Polls

LEMMA SolePollsStep ==
  ASSUME Nmax_master > 0, SoleMasterAlone, SolePollsOthers, [Next]_vars
  PROVE  SolePollsOthers'
  <1>1. CASE MasterStep /\ Moves
    BY <1>1, SolePolls
  <1>2. CASE MasterStep /\ ~Moves
    <2>1. CASE DeclareSoleMaster
      <3>1. Master_State' # "PASS_TOKEN"
        BY <2>1 DEF DeclareSoleMaster, GoTo
      <3>2. Poll_Station' # This_Station
        BY <2>1, NotNextToItself DEF DeclareSoleMaster, SearchOver
      <3> QED BY <3>1, <3>2, Zenon DEF SolePollsOthers
    <2>2. CASE ~DeclareSoleMaster
      <3> SUFFICES ASSUME SoleMaster' PROVE SolePollsOthers'
        BY Zenon DEF SolePollsOthers
      <3>1. SoleMaster
        BY <1>2, <2>2, OnlyDeclared, Zenon
      <3>2. Next_Station = This_Station
        BY <3>1, Zenon DEF SoleMasterAlone
      <3>3. Master_State # "PASS_TOKEN" /\ Poll_Station # This_Station
        BY <3>1, Zenon DEF SolePollsOthers
      <3>4. ~SendToken /\ ~DoneWithPFM /\ ~PassTokenStep
        BY <3>1, <3>2, <3>3, NotNextToItself
           DEF SendToken, DoneWithPFM, PassTokenStep, SawTokenUser,
               WaitForTokenUser, RetrySendToken, FindNewSuccessor, Passing,
               Master
      <3>5. Master_State' # "PASS_TOKEN"
        BY <1>2, <3>4
           DEF Moves, Polls, GoTo, MasterStep, IdleStep, DoneWithTokenStep,
               NoTokenStep, PollForMasterStep, AnswerDataRequestStep,
               LostToken, Idle, IdleInvalidFrame, IdleNoFrame,
               IdleValidFrame, ReceivedToken, ReceivedPFM,
               ReceivedTestRequest, ReceivedDataNoReply,
               ReceivedDataNeedingReply, IgnoreFrame, UseToken, SendIAm,
               NothingToSend, SendAnotherFrame, SoleMasterAgain, SawFrame,
               StayNoToken, ReceivedUnexpectedFrame, WaitForReplyToPFM,
               SoleMasterPollFailed, DeclareSoleMaster, Answering, SendReply,
               DeferredReply
      <3>6. UNCHANGED Poll_Station
        BY <1>2, OnlyMovesMove
      <3> QED BY <3>3, <3>5, <3>6 DEF SolePollsOthers
    <2> QED BY <2>1, <2>2
  <1>3. CASE \/ Arrive \/ Tick \/ BeginUpdate \/ Receive \/ DeliverStep
             \/ UNCHANGED vars
    <2>1. UNCHANGED <<Master_State, SoleMaster, Poll_Station>>
      BY <1>3, OutsideSearch DEF vars, ring
    <2> QED BY <2>1, Zenon DEF SolePollsOthers
  <1> QED BY <1>1, <1>2, <1>3 DEF Next, Program

(* S holds every address behind station l, up to p.                        *)
CoveredTo(S, l, p) ==
  \A t \in Masters : Distance(l) < Distance(t) /\ Distance(t) <= Distance(p)
                       => t \in S

LEMMA CoverHere ==
  ASSUME NEW S, NEW l \in Nat PROVE CoveredTo(S, l, This_Station)
  <1>1. Distance(l) \in Nat /\ \A t \in Masters : Distance(t) \in Nat
    BY DistanceAfter, Distances
  <1> QED BY <1>1, OwnDistance DEF CoveredTo

LEMMA CoverNext ==
  ASSUME NEW S, NEW l, NEW p \in Nat, CoveredTo(S, l, p)
  PROVE  CoveredTo(S \cup {After(p)}, l, After(p))
  <1> SUFFICES ASSUME NEW t \in Masters, Distance(l) < Distance(t),
                      Distance(t) <= Distance(After(p)), t # After(p)
               PROVE  t \in S
    BY DEF CoveredTo
  <1>1. /\ Distance(t) \in Nat /\ Distance(p) \in Nat /\ After(p) \in Masters
        /\ Distance(After(p)) \in {0, Distance(p) + 1}
    BY Distances, DistanceAfter
  <1>2. Distance(t) # Distance(After(p))
    BY <1>1, SameDistance
  <1>3. Distance(t) <= Distance(p)
    BY <1>1, <1>2
  <1> QED BY <1>3 DEF CoveredTo

LEMMA CoverFirst ==
  ASSUME NEW l \in Nat PROVE CoveredTo({After(l)}, l, After(l))
  <1>1. Distance(l) \in Nat /\ \A t \in Masters : Distance(t) \in Nat
    BY DistanceAfter, Distances
  <1>2. CoveredTo({}, l, l)
    BY <1>1 DEF CoveredTo
  <1>3. CoveredTo({} \cup {After(l)}, l, After(l))
    BY <1>2, CoverNext
  <1> QED BY <1>3, Zenon DEF CoveredTo

(* While no successor is known, the round has gone from the station it     *)
(* began behind to the station it polls, and left none out.                *)
Searching ==
  \/ SoleMaster
  \/ Master_State = "POLL_FOR_MASTER" /\ Next_Station = This_Station

SearchInv ==
  /\ lost \in Nat
  /\ Searching => CoveredTo(asked, lost, Poll_Station)

LEMMA SearchPolls ==
  ASSUME TypeOK, SoleMasterAlone, SearchInv, MasterStep, Polls, SNext
  PROVE  SearchInv'
  <1>1. /\ This_Station \in Nat /\ Poll_Station \in Nat
        /\ Next_Station \in Nat /\ lost \in Nat
    BY AddressAssumption
       DEF TypeOK, RingTypeOK, Address, Broadcast, SearchInv
  <1>2. ASSUME lost' \in Nat, CoveredTo(asked', lost', Poll_Station')
        PROVE  SearchInv'
    BY <1>2, Zenon DEF SearchInv, CoveredTo, Distance
  <1>3. ASSUME NEW p \in Nat, PollFor(After(p))
        PROVE  /\ sent'.type = "POLL_FOR_MASTER" /\ sent'.dst = After(p)
               /\ Poll_Station' = After(p)
               /\ BeginRound \/ GoOn
    BY <1>3 DEF PollFor, SendBare, Send, SNext
  <1>4. ASSUME NEW p \in Nat, PollFor(After(p)), RoundBehind(p)
        PROVE  SearchInv'
    <2>1. lost' = p /\ asked' = {After(p)} /\ Poll_Station' = After(p)
      BY <1>3, <1>4 DEF RoundBehind
    <2>2. CoveredTo(asked', lost', Poll_Station')
      BY <2>1, CoverFirst
    <2> QED BY <1>2, <2>1, <2>2
  <1>5. ASSUME PollFor(After(This_Station)), Master_State # "PASS_TOKEN"
        PROVE  SearchInv'
    <2>1. RoundBehind(This_Station)
      BY <1>1, <1>3, <1>5 DEF BeginRound, GoOn, Asks
    <2> QED BY <1>1, <1>4, <1>5, <2>1
  <1>6. ASSUME PollFor(After(Poll_Station)), Master_State # "PASS_TOKEN",
               CoveredTo(asked, lost, Poll_Station)
        PROVE  SearchInv'
    <2>1. CASE After(Poll_Station) = After(This_Station)
      BY <1>5, <1>6, <2>1
    <2>2. CASE After(Poll_Station) # After(This_Station)
      <3>1. /\ asked' = asked \cup {After(Poll_Station)} /\ lost' = lost
            /\ Poll_Station' = After(Poll_Station)
        BY <1>1, <1>3, <1>6, <2>2 DEF BeginRound, GoOn, Asks
      <3>2. CoveredTo(asked', lost', Poll_Station')
        BY <1>1, <1>6, <3>1, CoverNext
      <3> QED BY <1>1, <1>2, <3>1, <3>2
    <2> QED BY <2>1, <2>2
  <1>7. CASE NextStationUnknown \/ GenerateToken
    BY <1>5, <1>7 DEF NextStationUnknown, Done, GenerateToken, NoToken, Master
  <1>8. CASE SoleMasterRestartMaintenancePFM
    <2>1. Next_Station = This_Station
      BY <1>8, Zenon DEF SoleMasterRestartMaintenancePFM, SoleMasterAlone
    <2>2. PollFor(After(This_Station)) /\ Master_State = "DONE_WITH_TOKEN"
      BY <1>8, <2>1
         DEF SoleMasterRestartMaintenancePFM, NextStationKnown, Done, Master
    <2> QED BY <1>5, <2>2
  <1>9. CASE FindNewSuccessor
    <2>1. PollFor(After(Next_Station)) /\ Master_State = "PASS_TOKEN"
      BY <1>9 DEF FindNewSuccessor, Passing, Master
    <2>2. RoundBehind(Next_Station)
      BY <1>1, <1>3, <2>1 DEF BeginRound, GoOn
    <2> QED BY <1>1, <1>4, <2>1, <2>2
  <1>10. CASE SendNextPFM
    <2>1. PollFor(After(Poll_Station)) /\ Master_State = "POLL_FOR_MASTER"
      BY <1>10 DEF SendNextPFM, PollFailed, Polling, Master
    <2>2. CoveredTo(asked, lost, Poll_Station)
      BY <1>10, <2>1, Zenon DEF SendNextPFM, SearchInv, Searching
    <2> QED BY <1>6, <2>1, <2>2
  <1>11. CASE SendMaintenancePFM
    <2>1. PollFor(After(Poll_Station)) /\ Master_State = "DONE_WITH_TOKEN"
      BY <1>11 DEF SendMaintenancePFM, NextStationKnown, Done, Master
    <2>2. CASE SoleMaster
      <3>1. CoveredTo(asked, lost, Poll_Station)
        BY <2>2, Zenon DEF SearchInv, Searching
      <3> QED BY <1>6, <2>1, <3>1
    <2>3. CASE ~SoleMaster
      <3>1. ~SoleMaster' /\ Next_Station' # This_Station
        BY <1>11, <2>3, Zenon DEF SendMaintenancePFM, NextStationKnown, Done
      <3>2. lost' \in Nat
        <4>1. BeginRound \/ GoOn
          BY <1>1, <1>3, <2>1
        <4> QED BY <1>1, <2>1, <4>1 DEF BeginRound, RoundBehind, GoOn
      <3> QED BY <3>1, <3>2, Zenon DEF SearchInv, Searching
    <2> QED BY <2>2, <2>3
  <1> QED BY <1>7, <1>8, <1>9, <1>10, <1>11 DEF Polls

LEMMA SearchStep ==
  TypeOK /\ SoleMasterAlone /\ SearchInv /\ [SNext]_svars => SearchInv'
  <1> SUFFICES ASSUME TypeOK, SoleMasterAlone, SearchInv, [SNext]_svars
               PROVE  SearchInv'
    OBVIOUS
  <1>1. ASSUME UNCHANGED <<asked, lost>>, Searching' => Searching,
               UNCHANGED Poll_Station
        PROVE  SearchInv'
    BY <1>1, Zenon DEF SearchInv, CoveredTo, Distance
  <1>2. CASE SNext /\ MasterStep /\ Polls
    BY <1>2, SearchPolls
  <1>3. CASE SNext /\ MasterStep /\ Moves /\ ~Polls
    <2>1. Poll_Station' = This_Station
      BY <1>3 DEF Moves, DoneInitializing, ResetMaintenancePFM,
         ReceivedReplyToPFM
    <2>2. UNCHANGED <<asked, lost>>
      BY <1>3, OnlyPollsPoll DEF SNext
    <2>3. CoveredTo(asked', lost', Poll_Station')
      BY <2>1, <2>2, CoverHere DEF SearchInv
    <2> QED BY <2>2, <2>3, Zenon DEF SearchInv, CoveredTo, Distance
  <1>4. CASE SNext /\ MasterStep /\ ~Moves
    <2>1. UNCHANGED <<asked, lost>>
      BY <1>4, OnlyPollsPoll DEF SNext, Moves
    <2>2. UNCHANGED <<Next_Station, Poll_Station>>
      BY <1>4, OnlyMovesMove
    <2>3. Searching' => Searching
      <3>1. SoleMaster' => Searching
        BY <1>4, OnlyDeclared, Zenon
           DEF Searching, DeclareSoleMaster, PollFailed, Polling, Master
      <3>2. Master_State' = "POLL_FOR_MASTER" => UNCHANGED Master_State
        BY <1>4, OnlyPollsPoll DEF Moves
      <3> QED BY <2>2, <3>1, <3>2, Zenon DEF Searching
    <2> QED BY <1>1, <2>1, <2>2, <2>3
  <1>5. CASE \/ SNext /\ (Arrive \/ Tick \/ BeginUpdate \/ Receive \/ DeliverStep)
             \/ UNCHANGED svars
    <2>1. UNCHANGED <<Master_State, SoleMaster, Next_Station, Poll_Station,
                      asked, lost>>
      BY <1>5, OutsideSearch DEF SNext, Nothing, svars, vars, ring
    <2>2. Searching' => Searching
      BY <2>1, Zenon DEF Searching
    <2> QED BY <1>1, <2>1, <2>2
  <1> QED BY <1>2, <1>3, <1>4, <1>5 DEF SNext, Next, Program

RoundInv ==
  /\ TypeInv /\ SoleMasterAlone /\ SearchInv
  /\ Nmax_master > 0 => SolePollsOthers

LEMMA RoundInvariance == SSpec => []RoundInv
  <1> USE DEF RoundInv
  <1>1. SInit => RoundInv
    <2> SUFFICES ASSUME SInit PROVE RoundInv
      OBVIOUS
    <2>1. TypeInv
      BY TypeInvInit DEF SInit, Init
    <2>2. SoleMasterAlone /\ SolePollsOthers
      BY Zenon DEF SInit, Init, SoleMasterAlone, SolePollsOthers
    <2>3. SearchInv
      <3>1. lost \in Nat
        BY AddressAssumption DEF SInit
      <3>2. ~SoleMaster /\ Master_State # "POLL_FOR_MASTER"
        BY DEF SInit, Init
      <3> QED BY <3>1, <3>2, Zenon DEF SearchInv, Searching
    <2> QED BY <2>1, <2>2, <2>3
  <1>2. RoundInv /\ [SNext]_svars => RoundInv'
    <2> SUFFICES ASSUME RoundInv, [SNext]_svars PROVE RoundInv'
      OBVIOUS
    <2>1. [Next]_vars
      BY DEF SNext, svars
    <2>2. TypeInv' /\ SoleMasterAlone'
      BY <2>1, TypeInvStep, SoleMasterStep DEF TypeInv
    <2>3. SearchInv'
      BY SearchStep DEF TypeInv
    <2>4. Nmax_master > 0 => SolePollsOthers'
      BY <2>1, SolePollsStep
    <2> QED BY <2>2, <2>3, <2>4
  <1> QED BY <1>1, <1>2, PTL DEF SSpec

(* A node that takes itself for the only master has polled every address   *)
(* behind the successor it lost, and each round that it goes on with has   *)
(* polled every other address.                                             *)
THEOREM EveryRoundAsksTheRest == SSpec => RoundAsksTheRest
  <1>1. ASSUME RoundInv, SNext, RoundEnds,
               NEW s \in Masters, Distance(s) > Distance(lost)
        PROVE  s \in asked
    <2>1. /\ Nmax_master \in Nat /\ Poll_Station \in Masters
          /\ Poll_Station \in Nat /\ lost \in Nat
      BY <1>1, AddressAssumption
         DEF RoundInv, TypeInv, TypeOK, RingTypeOK, SearchInv, Masters
    <2>2. /\ Distance(s) \in 0 .. Nmax_master
          /\ Distance(lost) \in 0 .. Nmax_master
      BY <2>1, Distances, DistanceAfter
    <2>3. Nmax_master > 0
      BY <1>1, <2>1, <2>2
    <2>4. Searching /\ After(Poll_Station) = This_Station
      <3>1. CASE ~SoleMaster /\ SoleMaster'
        <4>1. CASE MasterStep
          <5>1. DeclareSoleMaster
            BY <3>1, <4>1, OnlyDeclared, Zenon
          <5> QED BY <5>1, Zenon
                  DEF DeclareSoleMaster, SearchOver, PollFailed, Polling,
                      Master, Searching
        <4>2. CASE Arrive \/ Tick \/ BeginUpdate \/ Receive \/ DeliverStep
          BY <3>1, <4>2, OutsideSearch, Zenon
        <4> QED BY <1>1, <4>1, <4>2 DEF SNext, Next, Program
      <3>2. CASE SoleMaster /\ Master_State = "DONE_WITH_TOKEN"
                 /\ Asks(After(This_Station))
        <4>1. Next_Station = This_Station /\ Poll_Station # This_Station
          BY <1>1, <2>3, <3>2, Zenon
             DEF RoundInv, SoleMasterAlone, SolePollsOthers
        <4>2. Polls
          <5>1. sent'.type = "POLL_FOR_MASTER"
            BY <3>2, Zenon DEF Asks
          <5>2. MasterStep
            BY <1>1, <5>1, OutsideSearch DEF SNext, Next, Program, Nothing
          <5> QED BY <5>1, <5>2, OnlyPollsPoll
        <4>3. SoleMasterRestartMaintenancePFM \/ SendMaintenancePFM
          BY <3>2, <4>2
             DEF Polls, NextStationUnknown, FindNewSuccessor, Passing,
                 GenerateToken, NoToken, SendNextPFM, PollFailed, Polling,
                 Master
        <4>4. ~SendMaintenancePFM
          <5> SUFFICES ASSUME SendMaintenancePFM PROVE FALSE
            OBVIOUS
          <5>1. After(Poll_Station) = After(This_Station)
            BY <3>2 DEF SendMaintenancePFM, PollFor, SendBare, Send, Asks
          <5>2. Distance(After(Poll_Station)) = 1
            BY <2>1, <2>3, <5>1, OwnDistance, DistanceAfter
          <5>3. Distance(Poll_Station) = 0
            BY <2>1, <5>2, DistanceAfter
          <5> QED BY <2>1, <4>1, <5>3, OwnDistance, SameDistance
        <4>5. After(Poll_Station) = This_Station
          BY <4>1, <4>3, <4>4 DEF SoleMasterRestartMaintenancePFM
        <4> QED BY <3>2, <4>5, Zenon DEF Searching
      <3> QED BY <1>1, <3>1, <3>2, Zenon DEF RoundEnds
    <2>5. CoveredTo(asked, lost, Poll_Station)
      BY <1>1, <2>4 DEF RoundInv, SearchInv
    <2>6. Distance(Poll_Station) = Nmax_master
      BY <2>1, <2>4, DistanceAfter, OwnDistance
    <2>7. Distance(lost) < Distance(s) /\ Distance(s) <= Distance(Poll_Station)
      BY <1>1, <2>1, <2>2, <2>6
    <2> QED BY <2>5, <2>7 DEF CoveredTo
  <1>2. SSpec => [][RoundInv /\ SNext]_svars
    BY RoundInvariance, PTL DEF SSpec
  <1>3. RoundInv /\ SNext
          => (RoundEnds => \A s \in Masters :
                             Distance(s) > Distance(lost) => s \in asked)
    BY <1>1
  <1> QED BY <1>2, <1>3, PTL DEF RoundAsksTheRest

(***************************************************************************)
(* NeverPollsItself.                                                       *)
(***************************************************************************)
(* A frame in hand is one that another station sent.                       *)
FromWire == ReceivedValidFrame => \E item \in Wire : frame = item.frame

(* Maintenance polls stay between this station and its successor.          *)
BeforeSuccessor ==
  /\ Master_State # "INITIALIZE" => Next_Station \in Masters
  /\ Master_State # "INITIALIZE" /\ Next_Station # This_Station
       => Distance(Poll_Station) < Distance(Next_Station)

LEMMA FromWireStep ==
  ASSUME TypeOK, FromWire, [Next]_vars PROVE FromWire'
  <1>1. CASE MasterStep
    BY <1>1, MasterAndFrame, Zenon DEF FromWire
  <1>2. CASE ReceiveFrame
    <2>1. Head(uart) \in Wire
      BY <1>2 DEF ReceiveFrame, Read, TypeOK, OutsideTypeOK
    <2> QED BY <1>2, <2>1, Zenon DEF ReceiveFrame, FromWire
  <1>3. CASE \/ Arrive \/ Tick \/ BeginUpdate \/ (Receive /\ ~ReceiveFrame)
             \/ DeliverStep \/ UNCHANGED vars
    <2>1. UNCHANGED <<ReceivedValidFrame, frame>>
      BY <1>3 DEF Arrive, Tick, BeginUpdate, Receive, ReceiverOff,
         ReceiveNothing, ReceiveTimeout, ReceiveBadFrame, ReceiveOctet,
         ReceiveStart, ReceiveInsideFrame, DeliverStep, DeliverNothing,
         HandleConfirmed, HandleWhoIs, HandleNetworkNumberIs,
         HandleNetworkQuery, Deliver, vars, receiver
    <2> QED BY <2>1, Zenon DEF FromWire
  <1> QED BY <1>1, <1>2, <1>3 DEF Next, Program

LEMMA BeforeMoves ==
  ASSUME TypeOK, SoleMasterAlone, FromWire, BeforeSuccessor, RepliesOnRing,
         Moves
  PROVE  BeforeSuccessor'
  <1>1. /\ Poll_Station \in Masters /\ Poll_Station \in Nat
        /\ This_Station \in Masters
    BY OwnDistance, AddressAssumption DEF TypeOK, RingTypeOK, Masters
  <1>2. ASSUME Next_Station' = This_Station PROVE BeforeSuccessor'
    BY <1>1, <1>2 DEF BeforeSuccessor
  <1>3. ASSUME Next_Station' \in Masters, Poll_Station' = This_Station
        PROVE  BeforeSuccessor'
    <2>1. CASE Next_Station' = This_Station
      BY <1>2, <2>1
    <2>2. CASE Next_Station' # This_Station
      <3>1. /\ Distance(Next_Station') \in 0 .. Nmax_master
            /\ Distance(Next_Station') # 0 /\ Distance(Poll_Station') = 0
        BY <1>1, <1>3, <2>2, Distances, SameDistance, OwnDistance
      <3>2. Distance(Poll_Station') < Distance(Next_Station')
        BY <3>1, AddressAssumption
      <3> QED BY <1>3, <3>2, Zenon DEF BeforeSuccessor, Distance
    <2> QED BY <2>1, <2>2
  <1>4. CASE DoneInitializing \/ SoleMasterRestartMaintenancePFM
             \/ FindNewSuccessor \/ GenerateToken
    <2>1. Next_Station' = This_Station
      BY <1>4 DEF DoneInitializing, SoleMasterRestartMaintenancePFM,
         FindNewSuccessor, GenerateToken
    <2> QED BY <1>2, <2>1
  <1>5. CASE NextStationUnknown \/ SendNextPFM
    <2>1. Next_Station' = This_Station
      BY <1>5 DEF NextStationUnknown, SendNextPFM
    <2> QED BY <1>2, <2>1
  <1>6. CASE ResetMaintenancePFM
    <2>1. /\ Master_State = "DONE_WITH_TOKEN"
          /\ UNCHANGED Next_Station /\ Poll_Station' = This_Station
      BY <1>6 DEF ResetMaintenancePFM, NextStationKnown, Done, Master
    <2>2. Next_Station' \in Masters
      BY <2>1 DEF BeforeSuccessor
    <2> QED BY <1>3, <2>1, <2>2
  <1>7. CASE ReceivedReplyToPFM
    <2>1. /\ Next_Station' = frame.src /\ Poll_Station' = This_Station
          /\ frame.type = "REPLY_TO_POLL_FOR_MASTER" /\ ReceivedValidFrame
      BY <1>7, Zenon DEF ReceivedReplyToPFM, NewSuccessor, PollAnswered
    <2>2. frame.src \in Masters
      BY <2>1 DEF FromWire, RepliesOnRing
    <2> QED BY <1>3, <2>1, <2>2
  <1>8. CASE SendMaintenancePFM
    <2>1. /\ Master_State = "DONE_WITH_TOKEN"
          /\ UNCHANGED Next_Station /\ Poll_Station' = After(Poll_Station)
          /\ After(Poll_Station) # Next_Station
      BY <1>8 DEF SendMaintenancePFM, PollFor, NextStationKnown, Done, Master
    <2>2. CASE Next_Station = This_Station
      BY <1>2, <2>1, <2>2
    <2>3. CASE Next_Station # This_Station
      <3>1. /\ Next_Station \in Masters
            /\ Distance(Poll_Station) < Distance(Next_Station)
        BY <2>1, <2>3 DEF BeforeSuccessor
      <3>2. Distance(After(Poll_Station)) < Distance(Next_Station)
        <4>1. /\ After(Poll_Station) \in Masters
              /\ Distance(Poll_Station) \in 0 .. Nmax_master
              /\ Distance(Next_Station) \in 0 .. Nmax_master
              /\ Distance(After(Poll_Station)) =
                    IF Distance(Poll_Station) = Nmax_master
                    THEN 0 ELSE Distance(Poll_Station) + 1
          BY <1>1, <3>1, DistanceAfter, Distances
        <4>2. Distance(After(Poll_Station)) # Distance(Next_Station)
          BY <2>1, <3>1, <4>1, SameDistance
        <4> QED BY <3>1, <4>1, <4>2, AddressAssumption
      <3> QED BY <2>1, <3>1, <3>2, Zenon DEF BeforeSuccessor, Distance
    <2> QED BY <2>2, <2>3
  <1> QED BY <1>4, <1>5, <1>6, <1>7, <1>8 DEF Moves, Polls

BetweenInv == TypeInv /\ SoleMasterAlone /\ FromWire /\ BeforeSuccessor

LEMMA BetweenStep ==
  ASSUME RepliesOnRing
  PROVE  BetweenInv /\ [Next]_vars => BetweenInv'
  <1> SUFFICES ASSUME BetweenInv, [Next]_vars PROVE BetweenInv'
    OBVIOUS
  <1> USE DEF BetweenInv
  <1>1. TypeInv' /\ SoleMasterAlone' /\ FromWire'
    BY TypeInvStep, SoleMasterStep, FromWireStep DEF TypeInv
  <1>2. ASSUME UNCHANGED <<Next_Station, Poll_Station>>,
               Master_State # "INITIALIZE" \/ UNCHANGED Master_State
        PROVE  BeforeSuccessor'
    BY <1>2, Zenon DEF BeforeSuccessor, Distance
  <1>3. CASE MasterStep /\ Moves
    BY <1>1, <1>3, BeforeMoves DEF TypeInv
  <1>4. CASE MasterStep /\ ~Moves
    BY <1>1, <1>2, <1>4, OnlyMovesMove
  <1>5. CASE Arrive \/ Tick \/ BeginUpdate \/ Receive \/ DeliverStep
    BY <1>1, <1>2, <1>5, OutsideSearch
  <1>6. CASE UNCHANGED vars
    BY <1>1, <1>2, <1>6 DEF vars, ring
  <1> QED BY <1>3, <1>4, <1>5, <1>6 DEF Next, Program

(* On a ring of more than one address, where only its stations answer      *)
(* polls, the node never polls itself but past a successor that stands     *)
(* just before it and did not take the token.                              *)
THEOREM PollsOnlyOthers ==
  ASSUME Nmax_master > 0, RepliesOnRing
  PROVE  SSpec => NeverPollsItself
  <1>1. After(This_Station) # This_Station
    BY NotNextToItself
  <1>2. ASSUME BetweenInv, SNext, sent'.type = "POLL_FOR_MASTER",
               sent'.dst = This_Station
        PROVE  Master_State = "PASS_TOKEN" /\ After(Next_Station) = This_Station
    <2>1. Polls
      BY <1>2, OnlyPollsPoll, OutsideSearch DEF SNext, Next, Program, Nothing
    <2>2. ASSUME NEW p, PollFor(p) PROVE p = This_Station
      BY <1>2, <2>2 DEF PollFor, SendBare, Send
    <2>3. ~ (NextStationUnknown \/ GenerateToken)
      BY <1>1, <2>2 DEF NextStationUnknown, GenerateToken
    <2>4. ~ SoleMasterRestartMaintenancePFM
      <3>1. SoleMaster => Next_Station = This_Station
        BY <1>2 DEF BetweenInv, SoleMasterAlone
      <3> QED BY <1>1, <2>2, <3>1 DEF SoleMasterRestartMaintenancePFM
    <2>5. ~ SendMaintenancePFM
      <3> SUFFICES ASSUME SendMaintenancePFM PROVE FALSE
        OBVIOUS
      <3>1. /\ Master_State = "DONE_WITH_TOKEN"
            /\ After(Poll_Station) = This_Station
            /\ After(Poll_Station) # Next_Station
        BY <2>2 DEF SendMaintenancePFM, NextStationKnown, Done, Master
      <3>2. /\ Next_Station \in Masters
            /\ Distance(Poll_Station) < Distance(Next_Station)
        BY <1>2, <3>1 DEF BetweenInv, BeforeSuccessor
      <3>3. /\ Distance(Next_Station) \in 0 .. Nmax_master
            /\ Distance(Poll_Station) \in 0 .. Nmax_master
            /\ Distance(After(Poll_Station)) =
                  IF Distance(Poll_Station) = Nmax_master
                  THEN 0 ELSE Distance(Poll_Station) + 1
            /\ Distance(After(Poll_Station)) = 0
        <4>1. Poll_Station \in Nat
          BY <1>2 DEF BetweenInv, TypeInv, TypeOK, RingTypeOK
        <4> QED BY <3>1, <3>2, <4>1, Distances, DistanceAfter, OwnDistance
      <3> QED BY <3>2, <3>3, AddressAssumption
    <2>6. ~ SendNextPFM
      BY <2>2 DEF SendNextPFM, SearchOver
    <2>7. FindNewSuccessor
      BY <2>1, <2>3, <2>4, <2>5, <2>6 DEF Polls
    <2> QED BY <2>2, <2>7 DEF FindNewSuccessor, Passing, Master
  <1>3. SInit => BetweenInv
    BY TypeInvInit, Zenon
       DEF SInit, Init, BetweenInv, SoleMasterAlone, FromWire, BeforeSuccessor
  <1>4. [SNext]_svars => [Next]_vars
    BY DEF SNext, svars
  <1>5. SSpec => [][BetweenInv /\ SNext]_svars
    BY <1>3, <1>4, BetweenStep, PTL DEF SSpec
  <1> QED BY <1>2, <1>5, PTL DEF NeverPollsItself, Asks

=============================================================================
