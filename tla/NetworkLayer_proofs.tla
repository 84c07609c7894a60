------------------------ MODULE NetworkLayer_proofs ------------------------
(***************************************************************************)
(* For every traffic and every leftover in update()'s variable: types, and *)
(* that devices never learn or spread a wrong number for their network,    *)
(* that answers come home, and that exchanges end.                         *)
(***************************************************************************)
EXTENDS NetworkLayer, TLAPS

Kinds == NetworkMessages \cup Apdus
Inboxes == Frames \cup {Nothing}
Slots == Packets \cup {Nothing}
At == {"Handler_Transmit_Buffer", "stack"}

-----------------------------------------------------------------------------
LEMMA SmallNumbers ==
  0 \in NetworkNumber /\ BACNET_BROADCAST_NETWORK \in NetworkNumber
BY DEF NetworkNumber, BACNET_BROADCAST_NETWORK

LEMMA FixedRoutes == Here \in Routes /\ Everywhere \in Routes
BY SmallNumbers DEF Here, Everywhere, Routes

\* A header that npdu_encode_pdu makes can be sent.
LEMMA HeaderType ==
  ASSUME NEW kind \in Kinds, NEW content \in Seq(NetworkNumber),
         NEW priority \in Priority, NEW dest \in Routes
  PROVE  Header(kind, content, priority, dest) \in Npdus
BY FixedRoutes DEF Header, Npdus, Kinds

LEMMA KindsSent ==
  /\ {"network_number_is", "reject_message_to_network", "i_am", "answer"}
       \subseteq Kinds
  /\ 0 \in Priority
BY DEF Kinds, NetworkMessages, Apdus, Priority

LEMMA SourceType ==
  ASSUME NEW p \in Npdus, NEW leftover
  PROVE  Source(p, leftover) \in Routes
BY FixedRoutes DEF Source, Npdus

\* What is in an inbox is a frame.
LEMMA ReceivedType ==
  ASSUME TypeOK, NEW d \in Devices, inbox[d] # Nothing
  PROVE  /\ inbox[d] \in Frames /\ Received(d) \in Npdus
         /\ inbox[d].from \in Devices \cup Stations
<1>1. inbox[d] \in Frames
  BY DEF TypeOK
<1> QED BY <1>1 DEF Frames, Received

\* A packet stays one when its octets are lost or change hands.
LEMMA PacketType ==
  ASSUME NEW p \in Packets, NEW npdu \in Npdus, NEW at \in At
  PROVE  /\ [p EXCEPT !.npdu = npdu, !.intact = FALSE, !.at = at] \in Packets
         /\ [p EXCEPT !.npdu = npdu, !.intact = FALSE] \in Packets
BY DEF Packets, At

LEMMA PacketLost ==
  ASSUME NEW p \in Packets
  PROVE  [p EXCEPT !.intact = FALSE] \in Packets
BY DEF Packets

LEMMA SlotType ==
  ASSUME TypeOK, NEW d \in Devices
  PROVE  slot[d] # Nothing => slot[d] \in Packets
BY DEF TypeOK

LEMMA SentPacket ==
  ASSUME TypeOK, NEW d \in Devices, inbox[d] # Nothing,
         inbox[d].from \in Devices \cup Stations, NEW at \in At,
         NEW npdu \in Npdus
  PROVE  [to |-> inbox[d].from, npdu |-> npdu, at |-> at,
          intact |-> at = "Handler_Transmit_Buffer"] \in Packets
<1>1. (at = "Handler_Transmit_Buffer") \in BOOLEAN
  OBVIOUS
<1> QED BY <1>1 DEF Packets, At

\* The slot takes a reply to the station that the frame came from.
LEMMA SendPduType ==
  ASSUME TypeOK, NEW d \in Devices, inbox[d] # Nothing, NEW at \in At,
         NEW npdu \in Npdus, SendPdu(d, at, npdu)
  PROVE  slot' \in [Devices -> Slots]
<1> DEFINE reply == [to |-> inbox[d].from, npdu |-> npdu, at |-> at,
                     intact |-> at = "Handler_Transmit_Buffer"]
           changed == [slot[d] EXCEPT !.npdu = npdu, !.intact = FALSE]
<1>1. reply \in Packets
  <2>1. inbox[d].from \in Devices \cup Stations
    BY ReceivedType
  <2> QED BY <2>1, SentPacket
<1>2. slot[d] # Nothing => changed \in Packets
  BY SlotType, PacketType
<1>3. slot \in [Devices -> Slots]
  BY DEF TypeOK, Slots
<1>4. CASE slot[d] = Nothing
  <2>1. slot' = [slot EXCEPT ![d] = reply]
    BY <1>4 DEF SendPdu
  <2> QED BY <1>1, <1>3, <2>1 DEF Slots
<1>5. CASE slot[d] # Nothing
  <2>1. slot' = slot \/ slot' = [slot EXCEPT ![d].npdu = npdu, ![d].intact = FALSE]
    BY <1>5 DEF SendPdu
  <2>2. [slot EXCEPT ![d].npdu = npdu, ![d].intact = FALSE]
          = [slot EXCEPT ![d] = changed]
    OBVIOUS
  <2> QED BY <1>2, <1>3, <1>5, <2>1, <2>2 DEF Slots
<1> QED BY <1>4, <1>5

\* The bus hands a frame to whom it is for.
LEMMA DeliverType ==
  ASSUME NEW f \in Frames, Deliver(f)
  PROVE  inbox' \in [Devices -> Inboxes] /\ heard' \in Inboxes
BY DEF Deliver, Inboxes

LEMMA HandUpType ==
  ASSUME TypeOK, NEW d \in Devices, HandUp(d)
  PROVE  /\ inbox' \in [Devices -> Inboxes] /\ heard' = heard
         /\ answering' \in [Devices -> BOOLEAN] /\ originals' = originals
<1>1. inbox[d] \in Frames
  BY DEF HandUp, TypeOK
<1>2. inbox[d].der \in BOOLEAN
  BY <1>1 DEF Frames
<1> QED BY <1>2 DEF HandUp, TypeOK, Inboxes

-----------------------------------------------------------------------------
LEMMA UpdateType ==
  ASSUME TypeOK, NEW d \in Devices, Update(d)
  PROVE  TypeOK'
<1>1. HandUp(d)
  BY DEF Update, Discard, WhatIsNetworkNumber, NetworkNumberIs, Reserved,
         OtherNetworkMessage, IgnoreApdu, Confirmed, Unconfirmed,
         NetworkMessage, Apdu, HandleApdu
<1>2. /\ inbox' \in [Devices -> Inboxes] /\ heard' \in Inboxes
      /\ answering' \in [Devices -> BOOLEAN] /\ originals' \in Nat
      /\ inbox[d] # Nothing /\ expected' \in BOOLEAN
  <2>1. expected' \in BOOLEAN
    BY <1>1 DEF TypeOK, HandUp
  <2> QED BY <1>1, <2>1, HandUpType DEF TypeOK, HandUp, Inboxes
<1>3. Received(d) \in Npdus
  BY <1>2, ReceivedType
<1>4. slot \in [Devices -> Slots]
  BY DEF TypeOK, Slots
<1>5. CASE Discard(d)
  BY <1>2, <1>4, <1>5 DEF Discard, TypeOK, Slots, Inboxes
<1>6. CASE WhatIsNetworkNumber(d)
  <2>1. slot' \in [Devices -> Slots]
    <3>1. PICK leftover \in Leftovers :
            \/ SendPdu(d, "stack",
                       Header("network_number_is",
                              << Local_Network_Number[d] >>, 0,
                              Source(Received(d), leftover)))
            \/ UNCHANGED slot
      BY <1>6 DEF WhatIsNetworkNumber
    <3>2. << Local_Network_Number[d] >> \in Seq(NetworkNumber)
      BY DEF TypeOK
    <3>3. Header("network_number_is", << Local_Network_Number[d] >>, 0,
                 Source(Received(d), leftover)) \in Npdus
      <4>1. Source(Received(d), leftover) \in Routes
        BY <1>3, SourceType
      <4> QED BY <3>2, <4>1, KindsSent, HeaderType
    <3> QED BY <1>2, <1>4, <3>1, <3>3, SendPduType DEF At
  <2> QED BY <1>2, <1>6, <2>1
          DEF WhatIsNetworkNumber, NetworkMessage, TypeOK, Slots, Inboxes
<1>7. CASE NetworkNumberIs(d)
  <2>1. Local_Network_Number' \in [Devices -> NetworkNumber]
    <3>1. Received(d).content \in Seq(NetworkNumber)
      BY <1>3 DEF Npdus
    <3>2. Received(d).content # << >> =>
            Received(d).content[1] \in NetworkNumber
      BY <3>1
    <3> QED BY <1>7, <3>2 DEF NetworkNumberIs, TypeOK
  <2> QED BY <1>2, <1>4, <1>7, <2>1
          DEF NetworkNumberIs, NetworkMessage, TypeOK, Slots, Inboxes
<1>8. CASE Reserved(d)
  <2>1. slot' \in [Devices -> Slots]
    <3>1. PICK leftover \in Leftovers :
            SendPdu(d, "stack",
                    Header("reject_message_to_network", << 0 >>, 0,
                           Source(Received(d), leftover)))
      BY <1>8 DEF Reserved
    <3>2. << 0 >> \in Seq(NetworkNumber)
      BY SmallNumbers
    <3>3. Header("reject_message_to_network", << 0 >>, 0,
                 Source(Received(d), leftover)) \in Npdus
      <4>1. Source(Received(d), leftover) \in Routes
        BY <1>3, SourceType
      <4> QED BY <3>2, <4>1, KindsSent, HeaderType
    <3> QED BY <1>2, <3>1, <3>3, SendPduType DEF At
  <2> QED BY <1>2, <1>8, <2>1 DEF Reserved, NetworkMessage, TypeOK, Slots, Inboxes
<1>9. CASE OtherNetworkMessage(d)
  BY <1>2, <1>4, <1>9 DEF OtherNetworkMessage, NetworkMessage, TypeOK, Slots, Inboxes
<1>10. CASE IgnoreApdu(d)
  BY <1>2, <1>4, <1>10 DEF IgnoreApdu, Apdu, TypeOK, Slots, Inboxes
<1>11. ASSUME HandleApdu(d)
       PROVE  /\ BACnetDevice_NetworkPriority' \in [Devices -> Priority]
              /\ Local_Network_Number' = Local_Network_Number
  <2>1. PriorityOf(Received(d)) \in Priority /\ 0 \in Priority
    BY <1>3 DEF Npdus, PriorityOf, Priority
  <2> QED BY <1>11, <2>1 DEF HandleApdu, Apdu, TypeOK
<1>12. CASE Confirmed(d)
  <2>1. BACnetDevice_NetworkPriority' \in [Devices -> Priority]
        /\ Local_Network_Number' = Local_Network_Number
    BY <1>11, <1>12 DEF Confirmed
  <2>2. slot' \in [Devices -> Slots]
    <3>1. PICK leftover \in Leftovers :
            SendPdu(d, "Handler_Transmit_Buffer",
                    Header("answer", Received(d).content, AnswerPriority(d),
                           Source(Received(d), leftover)))
      BY <1>12 DEF Confirmed
    <3>2. Received(d).content \in Seq(NetworkNumber)
      BY <1>3 DEF Npdus
    <3>3. AnswerPriority(d) \in Priority
      BY <2>1 DEF AnswerPriority, Priority
    <3>4. Header("answer", Received(d).content, AnswerPriority(d),
                 Source(Received(d), leftover)) \in Npdus
      <4>1. Source(Received(d), leftover) \in Routes
        BY <1>3, SourceType
      <4> QED BY <3>2, <3>3, <4>1, KindsSent, HeaderType
    <3> QED BY <1>2, <3>1, <3>4, SendPduType DEF At
  <2> QED BY <1>2, <1>12, <2>1, <2>2 DEF Confirmed, TypeOK, Slots, Inboxes
<1>13. CASE Unconfirmed(d)
  <2>1. BACnetDevice_NetworkPriority' \in [Devices -> Priority]
        /\ Local_Network_Number' = Local_Network_Number
    BY <1>11, <1>13 DEF Unconfirmed
  <2>2. Send_I_Am_Flag' \in [Devices -> BOOLEAN] /\ slot' = slot
    BY <1>13 DEF Unconfirmed, TypeOK
  <2> QED BY <1>2, <1>4, <2>1, <2>2 DEF TypeOK, Slots, Inboxes
<1> QED BY <1>5, <1>6, <1>7, <1>8, <1>9, <1>10, <1>12, <1>13 DEF Update

LEMMA IAmType == IAm \in Npdus
<1>1. << >> \in Seq(NetworkNumber)
  OBVIOUS
<1> QED BY <1>1, FixedRoutes, KindsSent, HeaderType DEF IAm

LEMMA FrameType ==
  ASSUME NEW d \in Devices, NEW npdu \in Npdus,
         NEW to \in Devices \cup Stations \cup {Broadcast}
  PROVE  FrameOf(d, to, npdu) \in Frames
BY DEF FrameOf, Frames

LEMMA OctetsType ==
  ASSUME NEW p \in Packets, NEW npdu \in Octets(p)
  PROVE  npdu \in Npdus
<1>1. p.npdu \in Npdus
  BY DEF Packets
<1>2. [p.npdu EXCEPT !.known = FALSE] \in Npdus
  BY <1>1 DEF Npdus
<1> QED BY <1>1, <1>2 DEF Octets

LEMMA BusType ==
  ASSUME TypeOK, NEW d \in Devices, Bus(d) \/ Restart(d)
  PROVE  TypeOK'
<1>1. CASE Answer(d)
  <2>1. slot[d] \in Packets
    BY <1>1, SlotType DEF Answer
  <2>2. PICK npdu \in Octets(slot[d]) : Deliver(FrameOf(d, slot[d].to, npdu))
    BY <1>1 DEF Answer
  <2>3. FrameOf(d, slot[d].to, npdu) \in Frames
    <3>1. npdu \in Npdus
      BY <2>1, OctetsType
    <3>2. slot[d].to \in Devices \cup Stations
      BY <2>1 DEF Packets
    <3> QED BY <3>1, <3>2, FrameType
  <2>4. inbox' \in [Devices -> Inboxes] /\ heard' \in Inboxes
    BY <2>2, <2>3, DeliverType
  <2>5. slot' \in [Devices -> Slots] /\ answering' \in [Devices -> BOOLEAN]
    BY <1>1 DEF Answer, TypeOK, Slots
  <2> QED BY <1>1, <2>4, <2>5 DEF Answer, TypeOK, Slots, Inboxes
<1>2. CASE DeferredReply(d)
  <2>1. answering' \in [Devices -> BOOLEAN]
    BY <1>2 DEF DeferredReply, TypeOK
  <2> QED BY <1>2, <2>1 DEF DeferredReply, TypeOK
<1>3. CASE SendIAm(d)
  <2> DEFINE changed == [slot[d] EXCEPT !.npdu = IAm, !.intact = FALSE,
                                        !.at = "Handler_Transmit_Buffer"]
  <2>1. FrameOf(d, Broadcast, IAm) \in Frames
    BY IAmType, FrameType
  <2>2. inbox' \in [Devices -> Inboxes] /\ heard' \in Inboxes
    BY <1>3, <2>1, DeliverType DEF SendIAm
  <2>3. slot' \in [Devices -> Slots]
    <3>1. slot[d] # Nothing => changed \in Packets
      <4>1. "Handler_Transmit_Buffer" \in At
        BY DEF At
      <4> QED BY <4>1, IAmType, SlotType, PacketType
    <3>2. \/ slot' = slot
          \/ slot[d] # Nothing /\ slot' = [slot EXCEPT ![d] = changed]
      BY <1>3 DEF SendIAm
    <3>3. slot \in [Devices -> Slots]
      BY DEF TypeOK, Slots
    <3> HIDE DEF changed
    <3> QED BY <3>1, <3>2, <3>3 DEF Slots
  <2>4. Send_I_Am_Flag' \in [Devices -> BOOLEAN]
    BY <1>3 DEF SendIAm, TypeOK
  <2> QED BY <1>3, <2>2, <2>3, <2>4 DEF SendIAm, UseToken, TypeOK, Slots, Inboxes
<1>4. CASE NothingToSend(d)
  <2>1. [slot[d] EXCEPT !.intact = FALSE] \in Packets
    BY <1>4, SlotType, PacketLost DEF NothingToSend
  <2>2. slot' = [slot EXCEPT ![d] = [slot[d] EXCEPT !.intact = FALSE]]
    BY <1>4 DEF NothingToSend
  <2>3. slot' \in [Devices -> Slots]
    BY <2>1, <2>2 DEF TypeOK, Slots
  <2> QED BY <1>4, <2>3 DEF NothingToSend, UseToken, TypeOK, Slots
<1>5. CASE Restart(d)
  <2>1. 0 \in Priority
    BY DEF Priority
  <2>2. /\ Local_Network_Number' \in [Devices -> NetworkNumber]
        /\ BACnetDevice_NetworkPriority' \in [Devices -> Priority]
    BY <1>5, <2>1, SmallNumbers DEF Restart, TypeOK
  <2>3. /\ Send_I_Am_Flag' \in [Devices -> BOOLEAN]
        /\ answering' \in [Devices -> BOOLEAN]
    BY <1>5 DEF Restart, TypeOK
  <2>4. slot' \in [Devices -> Slots] /\ inbox' \in [Devices -> Inboxes]
    BY <1>5 DEF Restart, TypeOK, Slots, Inboxes
  <2> QED BY <1>5, <2>2, <2>3, <2>4 DEF Restart, TypeOK, Slots, Inboxes
<1> QED BY <1>1, <1>2, <1>3, <1>4, <1>5 DEF Bus

LEMMA NetworkTypes == Spec => []TypeOK
<1>1. Init => TypeOK
  BY SmallNumbers DEF Init, TypeOK, Priority
<1>2. TypeOK /\ [Next]_vars => TypeOK'
  <2> SUFFICES ASSUME TypeOK, [Next]_vars PROVE TypeOK'
    OBVIOUS
  <2>1. CASE \E d \in Devices :
               Update(d) \/ Bus(d) \/ Restart(d)
    BY <2>1, UpdateType, BusType
  <2>2. CASE Originate
    <3>1. PICK f \in Originals : Deliver(f)
      BY <2>2 DEF Originate
    <3>2. f \in Frames
      BY NetworkAssumption
    <3>3. inbox' \in [Devices -> Inboxes] /\ heard' \in Inboxes
      BY <3>1, <3>2, DeliverType
    <3> QED BY <2>2, <3>3 DEF Originate, TypeOK, Inboxes
  <2>3. CASE UNCHANGED vars
    BY <2>3 DEF vars, TypeOK
  <2> QED BY <2>1, <2>2, <2>3 DEF Next
<1> QED BY <1>1, <1>2, PTL DEF Spec

\* No frame, whole or damaged, gives a device or its frames a wrong type: a
\* learned number has its sixteen bits, the priority its two.
THEOREM NetworkTypeCorrect == Spec => []TypeOK
BY NetworkTypes

-----------------------------------------------------------------------------
(* What a device sends in answer to what, for both properties below.       *)
NumberPdu(d, leftover) ==
  Header("network_number_is", << Local_Network_Number[d] >>, 0,
         Source(Received(d), leftover))
AnswerPdu(d, leftover) ==
  Header("answer", Received(d).content, AnswerPriority(d),
         Source(Received(d), leftover))

Says(d, leftover, at, npdu) ==
  \/ /\ Local_Network_Number[d] # 0 /\ Local_Network_Number' = Local_Network_Number
     /\ at = "stack" /\ npdu = NumberPdu(d, leftover)
  \/ /\ Local_Network_Number' = Local_Network_Number
     /\ at = "stack" /\ npdu.kind = "reject_message_to_network"
  \/ /\ Confirmed(d) /\ Local_Network_Number' = Local_Network_Number
     /\ at = "Handler_Transmit_Buffer" /\ npdu = AnswerPdu(d, leftover)

LEMMA UpdateHandsUp ==
  ASSUME NEW d \in Devices, Update(d)
  PROVE  HandUp(d) /\ inbox[d] # Nothing
BY DEF Update, Discard, WhatIsNetworkNumber, NetworkNumberIs, Reserved,
       OtherNetworkMessage, IgnoreApdu, Confirmed, Unconfirmed,
       NetworkMessage, Apdu, HandleApdu, HandUp

LEMMA UpdateSends ==
  ASSUME NEW d \in Devices, Update(d), slot' # slot
  PROVE  /\ Provokes(Received(d))
         /\ \E leftover \in Leftovers, at \in At : \E npdu :
              SendPdu(d, at, npdu) /\ Says(d, leftover, at, npdu)
<1>1. CASE WhatIsNetworkNumber(d)
  <2>1. PICK leftover \in Leftovers :
          /\ Local_Network_Number[d] # 0
          /\ SendPdu(d, "stack", NumberPdu(d, leftover))
    BY <1>1 DEF WhatIsNetworkNumber, NumberPdu
  <2>2. Says(d, leftover, "stack", NumberPdu(d, leftover))
    BY <1>1, <2>1 DEF Says, WhatIsNetworkNumber
  <2>3. Received(d).kind = "what_is_network_number"
    BY <1>1 DEF WhatIsNetworkNumber, NetworkMessage, MessageType
  <2> QED BY <2>1, <2>2, <2>3 DEF Provokes, At
<1>2. CASE Reserved(d)
  <2> DEFINE npdu(leftover) == Header("reject_message_to_network", << 0 >>, 0,
                                      Source(Received(d), leftover))
  <2>1. PICK leftover \in Leftovers : SendPdu(d, "stack", npdu(leftover))
    BY <1>2 DEF Reserved
  <2>2. npdu(leftover).kind = "reject_message_to_network"
    BY DEF Header
  <2>3. Says(d, leftover, "stack", npdu(leftover))
    BY <1>2, <2>2 DEF Says, Reserved
  <2>4. Received(d).kind = "reserved"
    BY <1>2 DEF Reserved, NetworkMessage, MessageType
  <2> QED BY <2>1, <2>3, <2>4 DEF Provokes, At
<1>3. CASE Confirmed(d)
  <2>1. PICK leftover \in Leftovers :
          SendPdu(d, "Handler_Transmit_Buffer", AnswerPdu(d, leftover))
    BY <1>3 DEF Confirmed, AnswerPdu
  <2>2. Says(d, leftover, "Handler_Transmit_Buffer", AnswerPdu(d, leftover))
    BY <1>3 DEF Says, Confirmed, HandleApdu, Apdu
  <2>3. IsConfirmed(Received(d))
    BY <1>3 DEF Confirmed
  <2> QED BY <2>1, <2>2, <2>3 DEF Provokes, At
<1> QED
  BY <1>1, <1>2, <1>3
  DEF Update, Discard, NetworkNumberIs, OtherNetworkMessage, IgnoreApdu,
      Unconfirmed

LEMMA InboxAfterHandUp ==
  ASSUME TypeOK, NEW d \in Devices, HandUp(d), NEW e \in Devices
  PROVE  inbox'[e] = inbox[e] \/ inbox'[e] = Nothing
BY DEF HandUp, TypeOK

LEMMA InboxAfterDeliver ==
  ASSUME NEW f, Deliver(f), NEW e \in Devices
  PROVE  \/ inbox'[e] = Nothing
         \/ inbox'[e] = f /\ f.to \in {e, Broadcast} /\ HandedUp(f)
BY DEF Deliver

\* What was sent is in the slot, or what was there before.
LEMMA SlotAfterSend ==
  ASSUME TypeOK, NEW d \in Devices, NEW at, NEW npdu, SendPdu(d, at, npdu),
         NEW e \in Devices
  PROVE  slot'[e] = slot[e] \/ slot'[e].npdu = npdu
<1> DEFINE sent == [to |-> inbox[d].from, npdu |-> npdu, at |-> at,
                    intact |-> at = "Handler_Transmit_Buffer"]
           changed == [slot[d] EXCEPT !.npdu = npdu, !.intact = FALSE]
<1>1. DOMAIN slot = Devices
  BY DEF TypeOK
<1>2. sent.npdu = npdu
  OBVIOUS
<1>3. slot[d] # Nothing => changed.npdu = npdu
  BY SlotType DEF Packets
<1>4. \/ slot' = slot
      \/ slot' = [slot EXCEPT ![d] = sent]
      \/ slot[d] # Nothing /\ slot' = [slot EXCEPT ![d] = changed]
  BY DEF SendPdu
<1> HIDE DEF sent, changed
<1> QED BY <1>1, <1>2, <1>3, <1>4

\* Octets that are lost leave what a message is and says.
LEMMA OctetsSay ==
  ASSUME NEW p \in Packets, NEW npdu \in Octets(p)
  PROVE  npdu.kind = p.npdu.kind /\ npdu.content = p.npdu.content
BY DEF Octets, Packets, Npdus

-----------------------------------------------------------------------------
(* Network numbers.                                                        *)
SaysLocalNet(f) ==
  f.npdu.kind = "network_number_is" => f.npdu.content = << LocalNet >>

\* What devices know, have to say, and hear from other devices is true; what
\* they hear from other stations is in Originals.
NumberInv ==
  \A d \in Devices :
    /\ Local_Network_Number[d] \in {0, LocalNet}
    /\ slot[d] # Nothing => SaysLocalNet(slot[d])
    /\ inbox[d] # Nothing => inbox[d] \in Originals \/ SaysLocalNet(inbox[d])

LEMMA UpdateNumber ==
  ASSUME TruthfulNumbers(Originals), TypeOK, NumberInv,
         NEW d \in Devices, Update(d)
  PROVE  NumberInv'
<1>1. HandUp(d) /\ inbox[d] # Nothing
  BY UpdateHandsUp
<1>2. \A e \in Devices : inbox'[e] # Nothing =>
        inbox'[e] \in Originals \/ SaysLocalNet(inbox'[e])
  BY <1>1, InboxAfterHandUp DEF NumberInv
<1>3. CASE UNCHANGED << Local_Network_Number, slot >>
  BY <1>2, <1>3 DEF NumberInv
<1>4. CASE NetworkNumberIs(d) /\ ~UNCHANGED Local_Network_Number
  <2>1. PICK leftover \in Leftovers :
          /\ NotRouted(Source(Received(d), leftover))
          /\ Received(d).content # << >>
          /\ Local_Network_Number' =
               [Local_Network_Number EXCEPT ![d] = Received(d).content[1]]
    BY <1>4 DEF NetworkNumberIs
  <2>2. /\ ForThisNetwork(Received(d)) /\ Received(d).end = "whole"
        /\ Received(d).kind = "network_number_is"
    BY <1>4 DEF NetworkNumberIs, NetworkMessage, MessageType
  <2>3. Received(d).source.net = 0
    BY <2>1 DEF NotRouted, Source
  <2>4. Received(d).content = << LocalNet >>
    <3>1. CASE inbox[d] \in Originals
      BY <2>1, <2>2, <2>3, <3>1 DEF TruthfulNumbers, Received
    <3>2. CASE SaysLocalNet(inbox[d])
      BY <2>2, <3>2 DEF SaysLocalNet, Received
    <3> QED BY <1>1, <3>1, <3>2 DEF NumberInv
  <2>5. \A e \in Devices : Local_Network_Number'[e] \in {0, LocalNet}
    BY <2>1, <2>4 DEF NumberInv, TypeOK
  <2>6. slot' = slot
    BY <1>4 DEF NetworkNumberIs
  <2> QED BY <1>2, <2>5, <2>6 DEF NumberInv
<1>5. CASE slot' # slot
  <2>1. PICK leftover \in Leftovers, at \in At :
          \E npdu : SendPdu(d, at, npdu) /\ Says(d, leftover, at, npdu)
    BY <1>5, UpdateSends
  <2>2. PICK npdu : SendPdu(d, at, npdu) /\ Says(d, leftover, at, npdu)
    BY <2>1
  <2>3. npdu.kind = "network_number_is" => npdu.content = << LocalNet >>
    BY <2>2 DEF Says, NumberPdu, AnswerPdu, Header, NumberInv
  <2>4. Local_Network_Number' = Local_Network_Number
    BY <2>2 DEF Says
  <2>5. ASSUME NEW e \in Devices, slot'[e] # Nothing
        PROVE  SaysLocalNet(slot'[e])
    <3>1. CASE slot'[e] = slot[e]
      BY <2>5, <3>1 DEF NumberInv
    <3>2. CASE slot'[e].npdu = npdu
      BY <2>3, <3>2 DEF SaysLocalNet
    <3> QED BY <2>2, <3>1, <3>2, SlotAfterSend
  <2> QED BY <1>2, <2>4, <2>5 DEF NumberInv
<1> QED
  BY <1>3, <1>4, <1>5
  DEF Update, Discard, WhatIsNetworkNumber, NetworkNumberIs, Reserved,
      OtherNetworkMessage, IgnoreApdu, Confirmed, Unconfirmed, HandleApdu, Apdu

LEMMA DeliverNumber ==
  ASSUME NumberInv, NEW f, Deliver(f), f \in Originals \/ SaysLocalNet(f),
         Local_Network_Number' = Local_Network_Number,
         \A e \in Devices : slot'[e] # Nothing => SaysLocalNet(slot'[e])
  PROVE  NumberInv'
BY InboxAfterDeliver DEF NumberInv

LEMMA BusNumber ==
  ASSUME TypeOK, NumberInv, NEW d \in Devices, Bus(d) \/ Restart(d)
  PROVE  NumberInv'
<1>1. CASE Answer(d)
  <2>1. PICK npdu \in Octets(slot[d]) : Deliver(FrameOf(d, slot[d].to, npdu))
    BY <1>1 DEF Answer
  <2>2. slot[d] \in Packets /\ SaysLocalNet(slot[d])
    BY <1>1, SlotType DEF Answer, NumberInv
  <2>3. SaysLocalNet(FrameOf(d, slot[d].to, npdu))
    BY <2>1, <2>2, OctetsSay DEF SaysLocalNet, FrameOf
  <2>4. \A e \in Devices : slot'[e] # Nothing => SaysLocalNet(slot'[e])
    BY <1>1 DEF Answer, TypeOK, NumberInv
  <2>5. Local_Network_Number' = Local_Network_Number
    BY <1>1 DEF Answer
  <2> QED BY <2>1, <2>3, <2>4, <2>5, DeliverNumber
<1>2. CASE DeferredReply(d)
  BY <1>2 DEF DeferredReply, NumberInv
<1>3. CASE SendIAm(d)
  <2>1. SaysLocalNet(FrameOf(d, Broadcast, IAm))
    BY DEF SaysLocalNet, FrameOf, IAm, Header
  <2>2. ASSUME NEW e \in Devices, slot'[e] # Nothing
        PROVE  SaysLocalNet(slot'[e])
    <3> DEFINE changed == [slot[d] EXCEPT !.npdu = IAm, !.intact = FALSE,
                                          !.at = "Handler_Transmit_Buffer"]
    <3>1. slot[d] # Nothing => changed.npdu = IAm
      BY SlotType DEF Packets
    <3>2. slot[d] # Nothing => SaysLocalNet(changed)
      BY <3>1 DEF SaysLocalNet, IAm, Header
    <3>3. \/ slot' = slot
          \/ slot[d] # Nothing /\ slot' = [slot EXCEPT ![d] = changed]
      BY <1>3 DEF SendIAm
    <3>4. DOMAIN slot = Devices
      BY DEF TypeOK
    <3> HIDE DEF changed
    <3>5. slot'[e] = slot[e] \/ (slot[d] # Nothing /\ slot'[e] = changed)
      BY <3>3, <3>4
    <3> QED BY <2>2, <3>2, <3>5 DEF NumberInv
  <2>3. Local_Network_Number' = Local_Network_Number
    BY <1>3 DEF SendIAm, UseToken
  <2>4. Deliver(FrameOf(d, Broadcast, IAm))
    BY <1>3 DEF SendIAm
  <2> QED BY <2>1, <2>2, <2>3, <2>4, DeliverNumber
<1>4. CASE NothingToSend(d)
  <2> DEFINE changed == [slot[d] EXCEPT !.intact = FALSE]
  <2>1. slot[d] \in Packets /\ SaysLocalNet(slot[d])
    BY <1>4, SlotType DEF NothingToSend, NumberInv
  <2>2. SaysLocalNet(changed)
    BY <2>1 DEF SaysLocalNet, Packets
  <2>3. slot' = [slot EXCEPT ![d] = changed]
    BY <1>4 DEF NothingToSend
  <2>4. DOMAIN slot = Devices
    BY DEF TypeOK
  <2> HIDE DEF changed
  <2>5. \A e \in Devices : slot'[e] # Nothing => SaysLocalNet(slot'[e])
    BY <2>2, <2>3, <2>4 DEF NumberInv
  <2>6. UNCHANGED << inbox, Local_Network_Number >>
    BY <1>4 DEF NothingToSend, UseToken
  <2> QED BY <2>5, <2>6 DEF NumberInv
<1>5. CASE Restart(d)
  <2>1. ASSUME NEW e \in Devices
        PROVE  /\ Local_Network_Number'[e] \in {0, Local_Network_Number[e]}
               /\ slot'[e] = slot[e] \/ slot'[e] = Nothing
               /\ inbox'[e] = inbox[e] \/ inbox'[e] = Nothing
    BY <1>5 DEF Restart, TypeOK
  <2> QED BY <2>1 DEF NumberInv
<1> QED BY <1>1, <1>2, <1>3, <1>4, <1>5 DEF Bus

\* Whatever else is sent, damaged, routed or misdirected, and whatever devices
\* restart: where what is said of this network's number is true, no device
\* learns another number, nor does one that it learned spread.
THEOREM NumberStaysTrue ==
  ASSUME TruthfulNumbers(Originals)
  PROVE  Spec => []NumberIsTrue
<1>1. Init => NumberInv
  BY DEF Init, NumberInv
<1>2. TypeOK /\ NumberInv /\ [Next]_vars => NumberInv'
  <2> SUFFICES ASSUME TypeOK, NumberInv, [Next]_vars PROVE NumberInv'
    OBVIOUS
  <2>1. CASE \E d \in Devices : Update(d) \/ Bus(d) \/ Restart(d)
    BY <2>1, UpdateNumber, BusNumber
  <2>2. CASE Originate
    <3>1. PICK f \in Originals : Deliver(f)
      BY <2>2 DEF Originate
    <3>2. UNCHANGED << slot, Local_Network_Number >>
      BY <2>2 DEF Originate
    <3>3. \A e \in Devices : slot'[e] # Nothing => SaysLocalNet(slot'[e])
      BY <3>2 DEF NumberInv
    <3> QED BY <3>1, <3>2, <3>3, DeliverNumber
  <2>3. CASE UNCHANGED vars
    BY <2>3 DEF vars, NumberInv
  <2> QED BY <2>1, <2>2, <2>3 DEF Next
<1>3. NumberInv => NumberIsTrue
  BY DEF NumberInv, NumberIsTrue, SaysLocalNet
<1> QED BY <1>1, <1>2, <1>3, NetworkTypes, PTL DEF Spec

-----------------------------------------------------------------------------
(* Answers.                                                                *)
Habits == RoutedByRouter(Originals)

\* What a device sends: an answer that comes home, or nothing that provokes one.
Homing(f) == ComesHome(f) /\ ~Provokes(f.npdu)

\* The packet of d is for a station, and intact if it is an answer.
Held(d, p) ==
  /\ p.to \in Stations
  /\ p.npdu.kind = "answer" => p.intact
  /\ Homing(FrameOf(d, p.to, p.npdu))

\* A packet is pending only while it can be sent, no frame arrives then, and
\* what makes a device send is in Originals and for that device.
AnswerInv ==
  /\ \A d \in Devices :
       /\ slot[d] # Nothing => answering[d] /\ Held(d, slot[d])
       /\ inbox[d] # Nothing =>
            /\ ~answering[d]
            /\ Provokes(inbox[d].npdu) =>
                 inbox[d] \in Originals /\ inbox[d].to = d /\ inbox[d].der
  /\ heard # Nothing /\ heard.from \in Devices => ComesHome(heard)

\* An answer to a station of this network reaches it and no other.
LEMMA LocalAnswer ==
  ASSUME NEW f, ForThisNetwork(f.npdu), f.to \in Stations, f.to # Router
  PROVE  Recipients(f) = { [net |-> 0, adr |-> << f.to >>] }
<1>1. f.to # Broadcast
  BY NetworkAssumption DEF Broadcast
<1>2. { r \in Remotes :
           /\ f.to \in {Router, Broadcast}
           /\ \/ f.npdu.dest = Everywhere
              \/ f.npdu.dest.net = r.net /\ f.npdu.dest.adr \in {r.adr, << >>} }
        = {}
  BY <1>1
<1>3. { t \in Stations : f.to \in {t, Broadcast} /\ ForThisNetwork(f.npdu) }
        = { f.to }
  BY <1>1
<1>4. { [net |-> 0, adr |-> << s >>] :
          s \in { t \in Stations : /\ f.to \in {t, Broadcast}
                                   /\ ForThisNetwork(f.npdu) } }
        = { [net |-> 0, adr |-> << f.to >>] }
  BY <1>3
<1> QED BY <1>2, <1>4 DEF Recipients

LEMMA SameRoute ==
  ASSUME NEW r \in Routes, NEW s \in Routes, r.net = s.net, r.adr = s.adr
  PROVE  r = s
BY DEF Routes

\* An answer to a station behind the router reaches it and no other.
LEMMA RoutedAnswer ==
  ASSUME NEW f, f.npdu.dest \in Remotes, f.to = Router
  PROVE  Recipients(f) = { f.npdu.dest }
<1> DEFINE dest == f.npdu.dest
<1>1. dest.net # 0 /\ dest.net # BACNET_BROADCAST_NETWORK /\ dest.adr # << >>
  BY NetworkAssumption
<1>2. ~ForThisNetwork(f.npdu)
  BY <1>1 DEF ForThisNetwork
<1>3. dest # Everywhere
  BY <1>1 DEF Everywhere
<1>4. \A r \in Remotes : dest.net = r.net /\ dest.adr \in {r.adr, << >>}
                         <=> r = dest
  BY <1>1, SameRoute, NetworkAssumption
<1>5. { t \in Stations : f.to \in {t, Broadcast} /\ ForThisNetwork(f.npdu) }
        = {}
  BY <1>2
<1>6. { [net |-> 0, adr |-> << s >>] :
          s \in { t \in Stations : /\ f.to \in {t, Broadcast}
                                   /\ ForThisNetwork(f.npdu) } } = {}
  BY <1>5
<1>7. { r \in Remotes :
           /\ f.to \in {Router, Broadcast}
           /\ \/ f.npdu.dest = Everywhere
              \/ f.npdu.dest.net = r.net /\ f.npdu.dest.adr \in {r.adr, << >>} }
        = { dest }
  BY <1>3, <1>4
<1> QED BY <1>6, <1>7 DEF Recipients

LEMMA AnswerComes ==
  ASSUME TypeOK, AnswerInv, Habits, NEW d \in Devices, Confirmed(d),
         inbox[d] \in Originals, inbox[d].to = d, NEW leftover \in Leftovers
  PROVE  ComesHome(FrameOf(d, inbox[d].from, AnswerPdu(d, leftover)))
<1> DEFINE q == inbox[d]
           f == FrameOf(d, q.from, AnswerPdu(d, leftover))
<1>1. IsConfirmed(q.npdu)
  BY DEF Confirmed, Received
<1>2. q.from \in Stations
  BY NetworkAssumption
<1>3. /\ f.from = d /\ f.to = q.from /\ f.npdu.known = TRUE
      /\ f.npdu.content = q.npdu.content
      /\ f.npdu.dest = Source(q.npdu, leftover)
  BY DEF FrameOf, AnswerPdu, Header, Received
<1>4. Recipients(f) = { Asker(q) }
  <2>1. CASE q.from = Router
    <3>1. q.npdu.source \in Remotes
      BY <1>1, <2>1 DEF Habits, RoutedByRouter
    <3>2. q.npdu.source.net # 0
      BY <3>1, NetworkAssumption
    <3>3. f.npdu.dest = q.npdu.source /\ Asker(q) = q.npdu.source
      BY <1>3, <3>2 DEF Source, Asker
    <3> HIDE DEF f, q
    <3> QED BY <1>3, <2>1, <3>1, <3>3, RoutedAnswer
  <2>2. CASE q.from # Router
    <3>1. q.npdu.source = Here
      BY <1>1, <2>2 DEF Habits, RoutedByRouter
    <3>2. f.npdu.dest \in {Here, Everywhere}
      BY <1>3, <3>1 DEF Source, Here
    <3>3. Asker(q) = [net |-> 0, adr |-> << q.from >>]
      BY <3>1 DEF Asker, Here
    <3>4. ForThisNetwork(f.npdu)
      BY <1>3, <3>2 DEF ForThisNetwork, Here, Everywhere
    <3> HIDE DEF f, q
    <3> QED BY <1>2, <1>3, <2>2, <3>3, <3>4, LocalAnswer
  <2> QED BY <2>1, <2>2
<1> HIDE DEF f
<1>5. Answers(f, q)
  BY <1>1, <1>3, <1>4 DEF Answers
<1> QED BY <1>5 DEF ComesHome, f

\* What a device answers waits in its slot until it is sent, and comes home.
LEMMA SentIsHeld ==
  ASSUME TypeOK, AnswerInv, Habits, NEW d \in Devices, Update(d), slot' # slot,
         NEW e \in Devices, slot'[e] # Nothing
  PROVE  answering'[e] /\ Held(e, slot'[e])
<1>1. HandUp(d) /\ inbox[d] # Nothing /\ Provokes(inbox[d].npdu)
  BY UpdateHandsUp, UpdateSends DEF Received
<1>2. inbox[d] \in Originals /\ inbox[d].to = d /\ slot[d] = Nothing
  BY <1>1 DEF AnswerInv
<1>3. inbox[d].der = TRUE /\ inbox[d].from \in Stations
  <2>1. inbox[d] \in Frames /\ inbox[d].from \in Stations
    BY <1>2, NetworkAssumption
  <2>2. inbox[d].der
    BY <1>1 DEF AnswerInv
  <2> QED BY <2>1, <2>2 DEF Frames
<1>4. answering' = [answering EXCEPT ![d] = TRUE]
  BY <1>1, <1>3 DEF HandUp
<1>5. PICK leftover \in Leftovers, at \in At :
        \E npdu : SendPdu(d, at, npdu) /\ Says(d, leftover, at, npdu)
  BY UpdateSends
<1>6. PICK npdu : SendPdu(d, at, npdu) /\ Says(d, leftover, at, npdu)
  BY <1>5
<1> DEFINE sent == [to |-> inbox[d].from, npdu |-> npdu, at |-> at,
                    intact |-> at = "Handler_Transmit_Buffer"]
<1>7. slot' = [slot EXCEPT ![d] = sent]
  BY <1>2, <1>6 DEF SendPdu
<1>8. Held(d, sent)
  <2>1. sent.to = inbox[d].from /\ sent.npdu = npdu
    OBVIOUS
  <2>2. FrameOf(d, sent.to, sent.npdu).npdu = npdu
    BY DEF FrameOf
  <2>3. CASE npdu.kind \in {"network_number_is", "reject_message_to_network"}
    <3>1. Homing(FrameOf(d, sent.to, sent.npdu))
      BY <2>2, <2>3 DEF Homing, ComesHome, Provokes, IsConfirmed
    <3> QED BY <1>3, <2>1, <2>3, <3>1 DEF Held
  <2>4. CASE /\ Confirmed(d) /\ at = "Handler_Transmit_Buffer"
             /\ npdu = AnswerPdu(d, leftover)
    <3>1. ComesHome(FrameOf(d, sent.to, sent.npdu))
      BY <1>2, <2>1, <2>4, AnswerComes
    <3>2. npdu.kind = "answer"
      BY <2>4 DEF AnswerPdu, Header
    <3>3. Homing(FrameOf(d, sent.to, sent.npdu))
      BY <2>2, <3>1, <3>2 DEF Homing, Provokes, IsConfirmed
    <3>4. sent.intact = TRUE
      BY <2>4
    <3> QED BY <1>3, <2>1, <3>3, <3>4 DEF Held
  <2> QED BY <1>6, <2>3, <2>4 DEF Says, NumberPdu, Header
<1> HIDE DEF sent
<1>9. CASE e = d
  BY <1>4, <1>7, <1>8, <1>9 DEF TypeOK
<1>10. CASE e # d
  BY <1>4, <1>7, <1>10 DEF AnswerInv, TypeOK
<1> QED BY <1>9, <1>10

LEMMA UpdateAnswer ==
  ASSUME TypeOK, AnswerInv, Habits, NEW d \in Devices, Update(d)
  PROVE  AnswerInv'
<1>1. HandUp(d) /\ inbox[d] # Nothing
  BY UpdateHandsUp
<1>2. ASSUME NEW e \in Devices, inbox'[e] # Nothing
      PROVE  /\ ~answering'[e]
             /\ Provokes(inbox'[e].npdu) =>
                  inbox'[e] \in Originals /\ inbox'[e].to = e /\ inbox'[e].der
  <2>1. e # d /\ inbox'[e] = inbox[e] /\ answering'[e] = answering[e]
    BY <1>1, <1>2 DEF HandUp, TypeOK
  <2> QED BY <1>2, <2>1 DEF AnswerInv
<1>3. heard' = heard
  BY <1>1 DEF HandUp
<1>4. ASSUME NEW e \in Devices, slot'[e] # Nothing
      PROVE  answering'[e] /\ Held(e, slot'[e])
  <2>1. CASE slot' = slot
    <3>1. e # d
      BY <1>1, <1>4, <2>1 DEF AnswerInv
    <3>2. answering'[e] = answering[e]
      BY <1>1, <3>1 DEF HandUp, TypeOK
    <3> QED BY <1>4, <2>1, <3>2 DEF AnswerInv
  <2>2. CASE slot' # slot
    BY <1>4, <2>2, SentIsHeld
  <2> QED BY <2>1, <2>2
<1> QED BY <1>2, <1>3, <1>4 DEF AnswerInv

\* A frame on the bus, while no device is to handle or to answer another.
LEMMA DeliverAnswer ==
  ASSUME AnswerInv, NEW f, Deliver(f), f.from \in Devices => ComesHome(f),
         Provokes(f.npdu) => f \in Originals /\ f.der,
         \A e \in Devices : slot'[e] = Nothing /\ ~answering'[e]
  PROVE  AnswerInv'
<1>1. heard' = f
  BY DEF Deliver
<1>2. ASSUME NEW e \in Devices, inbox'[e] # Nothing, Provokes(inbox'[e].npdu)
      PROVE  inbox'[e] \in Originals /\ inbox'[e].to = e /\ inbox'[e].der
  <2>1. inbox'[e] = f /\ f.to \in {e, Broadcast} /\ HandedUp(f)
    BY <1>2, InboxAfterDeliver
  <2>2. f \in Originals /\ f.der
    BY <1>2, <2>1
  <2>3. f.to # Broadcast
    BY <2>1, <2>2 DEF HandedUp
  <2> QED BY <2>1, <2>2, <2>3
<1> QED BY <1>1, <1>2 DEF AnswerInv

\* While nothing is to be handled or answered no packet is pending.
LEMMA QuietSlots ==
  ASSUME AnswerInv, Quiet, NEW d \in Devices
  PROVE  slot[d] = Nothing /\ ~answering[d]
BY DEF AnswerInv, Quiet

\* The packet that is sent: to a station, so that no device has to handle it.
LEMMA AnswerAnswer ==
  ASSUME TypeOK, AnswerInv, NEW d \in Devices, Answer(d)
  PROVE  AnswerInv'
<1>1. slot[d] \in Packets /\ Held(d, slot[d])
  BY SlotType DEF Answer, AnswerInv
<1>2. PICK npdu \in Octets(slot[d]) : Deliver(FrameOf(d, slot[d].to, npdu))
  BY DEF Answer
<1> DEFINE f == FrameOf(d, slot[d].to, npdu)
<1>3. f.to = slot[d].to /\ f.npdu = npdu
  BY DEF FrameOf
<1>4. f.to \in Stations
  BY <1>1, <1>3 DEF Held
<1>5. f.to # Broadcast /\ f.to \notin Devices
  <2>1. \A s \in Stations : s # Broadcast /\ s \notin Devices
    BY NetworkAssumption DEF Broadcast
  <2> QED BY <1>4, <2>1
<1>6. ComesHome(f)
  <2>1. CASE npdu = slot[d].npdu
    BY <1>1, <2>1 DEF Held, Homing
  <2>2. CASE npdu # slot[d].npdu
    <3>1. ~slot[d].intact
      BY <1>2, <2>2 DEF Octets
    <3>2. slot[d].npdu.kind # "answer"
      BY <1>1, <3>1 DEF Held
    <3>3. f.npdu.kind # "answer"
      BY <1>1, <1>2, <1>3, <3>2, OctetsSay
    <3> QED BY <3>3 DEF ComesHome
  <2> QED BY <2>1, <2>2
<1> HIDE DEF f
<1>7. Deliver(f)
  BY <1>2 DEF f
<1>8. \A e \in Devices : inbox'[e] = Nothing
  BY <1>5, <1>7, InboxAfterDeliver
<1>9. heard' = f
  BY <1>7 DEF Deliver
<1>10. ASSUME NEW e \in Devices, slot'[e] # Nothing
       PROVE  answering'[e] /\ Held(e, slot'[e])
  <2>1. e # d
    BY <1>10 DEF Answer, TypeOK
  <2>2. slot'[e] = slot[e] /\ answering'[e] = answering[e]
    BY <2>1 DEF Answer, TypeOK
  <2> QED BY <1>10, <2>2 DEF AnswerInv
<1> QED BY <1>6, <1>8, <1>9, <1>10 DEF AnswerInv

LEMMA BusAnswer ==
  ASSUME TypeOK, AnswerInv, Habits, NEW d \in Devices, Bus(d) \/ Restart(d)
  PROVE  AnswerInv'
<1>1. CASE Answer(d)
  BY <1>1, AnswerAnswer
<1>2. CASE DeferredReply(d)
  <2>1. ASSUME NEW e \in Devices
        PROVE  answering'[e] = (answering[e] /\ e # d)
    BY <1>2 DEF DeferredReply, TypeOK
  <2>2. UNCHANGED << slot, inbox, heard >> /\ slot[d] = Nothing
    BY <1>2 DEF DeferredReply
  <2> QED BY <2>1, <2>2 DEF AnswerInv
<1>3. CASE SendIAm(d)
  <2> DEFINE f == FrameOf(d, Broadcast, IAm)
  <2>1. \A e \in Devices : slot[e] = Nothing /\ ~answering[e]
    BY <1>3, QuietSlots DEF SendIAm, UseToken
  <2>2. UNCHANGED << slot, answering >>
    BY <1>3, <2>1 DEF SendIAm, UseToken
  <2>3. Deliver(f)
    BY <1>3 DEF SendIAm
  <2>4. ComesHome(f) /\ ~Provokes(f.npdu)
    BY DEF ComesHome, Provokes, IsConfirmed, FrameOf, IAm, Header
  <2> HIDE DEF f
  <2> QED BY <2>1, <2>2, <2>3, <2>4, DeliverAnswer
<1>4. CASE NothingToSend(d)
  BY <1>4, QuietSlots DEF NothingToSend, UseToken
<1>5. CASE Restart(d)
  <2>1. ASSUME NEW e \in Devices
        PROVE  /\ slot'[e] = IF e = d THEN Nothing ELSE slot[e]
               /\ inbox'[e] = IF e = d THEN Nothing ELSE inbox[e]
               /\ answering'[e] = (answering[e] /\ e # d)
    BY <1>5 DEF Restart, TypeOK
  <2>2. heard' = heard
    BY <1>5 DEF Restart
  <2> QED BY <2>1, <2>2 DEF AnswerInv
<1> QED BY <1>1, <1>2, <1>3, <1>4, <1>5 DEF Bus

\* What is expected of a frame is said when it is sent.
LEMMA ExpectedStays ==
  ASSUME NEW d \in Devices, Update(d) \/ Bus(d) \/ Restart(d)
  PROVE  expected' = expected
<1>1. CASE Update(d)
  BY <1>1, UpdateHandsUp DEF HandUp
<1>2. CASE Bus(d)
  BY <1>2 DEF Bus, Answer, DeferredReply, SendIAm, NothingToSend, UseToken
<1>3. CASE Restart(d)
  BY <1>3 DEF Restart
<1> QED BY <1>1, <1>2, <1>3

LEMMA OriginateAnswer ==
  ASSUME AnswerInv, Originate, expected'
  PROVE  AnswerInv'
<1>1. PICK f \in Originals :
        Deliver(f) /\ expected' = (expected /\ (Provokes(f.npdu) => f.der))
  BY DEF Originate
<1>2. Provokes(f.npdu) => f \in Originals /\ f.der
  BY <1>1
<1>3. f.from \notin Devices
  BY NetworkAssumption
<1>4. \A e \in Devices : slot[e] = Nothing /\ ~answering[e]
  BY QuietSlots DEF Originate
<1>5. UNCHANGED << slot, answering >>
  BY DEF Originate
<1> QED BY <1>1, <1>2, <1>3, <1>4, <1>5, DeliverAnswer

\* Whatever devices restart, and whatever else is on the bus: where requests of
\* other networks come through the router, every answer is sent by the device
\* that was asked and reaches the station that asked, behind the router or not,
\* and no other, as long as what makes a device send comes in frames that expect
\* a reply.
THEOREM AnswersComeHome ==
  ASSUME RoutedByRouter(Originals)
  PROVE  Spec => []AnswerComesHome
<1> DEFINE Inv == expected => AnswerInv
<1>1. Habits
  BY DEF Habits
<1>2. Init => Inv
  BY DEF Init, AnswerInv
<1>3. TypeOK /\ Inv /\ [Next]_vars => Inv'
  <2> SUFFICES ASSUME TypeOK, Inv, [Next]_vars, expected' PROVE AnswerInv'
    OBVIOUS
  <2>1. CASE \E d \in Devices : Update(d) \/ Bus(d) \/ Restart(d)
    BY <1>1, <2>1, ExpectedStays, UpdateAnswer, BusAnswer
  <2>2. CASE Originate
    <3>1. expected
      BY <2>2 DEF Originate
    <3> QED BY <2>2, <3>1, OriginateAnswer
  <2>3. CASE UNCHANGED vars
    BY <2>3 DEF vars, AnswerInv
  <2> QED BY <2>1, <2>2, <2>3 DEF Next
<1>4. Inv => AnswerComesHome
  BY DEF AnswerInv, AnswerComesHome
<1> QED BY <1>2, <1>3, <1>4, NetworkTypes, PTL DEF Spec

-----------------------------------------------------------------------------
(* Exchanges end.                                                          *)
\* What a device says ends an exchange: it makes nobody who runs this code send.
LastWords == {"network_number_is", "reject_message_to_network", "i_am",
              "answer"}
Ends(f) == f.npdu.kind \in LastWords

\* What waits in a slot is that, and so is what comes from a device.
EndInv ==
  \A d \in Devices :
    /\ slot[d] # Nothing => Ends(slot[d])
    /\ inbox[d] # Nothing /\ inbox[d].from \in Devices => Ends(inbox[d])

LEMMA UpdateEnds ==
  ASSUME TypeOK, EndInv, NEW d \in Devices, Update(d)
  PROVE  EndInv'
<1>1. HandUp(d)
  BY UpdateHandsUp
<1>2. \A e \in Devices : inbox'[e] # Nothing /\ inbox'[e].from \in Devices =>
        Ends(inbox'[e])
  BY <1>1, InboxAfterHandUp DEF EndInv
<1>3. ASSUME NEW e \in Devices, slot'[e] # Nothing PROVE Ends(slot'[e])
  <2>1. CASE slot' = slot
    BY <1>3, <2>1 DEF EndInv
  <2>2. CASE slot' # slot
    <3>1. PICK leftover \in Leftovers, at \in At :
            \E npdu : SendPdu(d, at, npdu) /\ Says(d, leftover, at, npdu)
      BY <2>2, UpdateSends
    <3>2. PICK npdu : SendPdu(d, at, npdu) /\ Says(d, leftover, at, npdu)
      BY <3>1
    <3>3. npdu.kind \in LastWords
      BY <3>2 DEF Says, NumberPdu, AnswerPdu, Header, LastWords
    <3>4. CASE slot'[e] = slot[e]
      BY <1>3, <3>4 DEF EndInv
    <3>5. CASE slot'[e].npdu = npdu
      BY <3>3, <3>5 DEF Ends
    <3> QED BY <3>2, <3>4, <3>5, SlotAfterSend
  <2> QED BY <2>1, <2>2
<1> QED BY <1>2, <1>3 DEF EndInv

LEMMA DeliverEnds ==
  ASSUME EndInv, NEW f, Deliver(f), f.from \in Devices => Ends(f),
         \A e \in Devices : slot'[e] # Nothing => Ends(slot'[e])
  PROVE  EndInv'
BY InboxAfterDeliver DEF EndInv

LEMMA BusEnds ==
  ASSUME TypeOK, EndInv, NEW d \in Devices, Bus(d) \/ Restart(d)
  PROVE  EndInv'
<1>1. CASE Answer(d)
  <2>1. PICK npdu \in Octets(slot[d]) : Deliver(FrameOf(d, slot[d].to, npdu))
    BY <1>1 DEF Answer
  <2>2. slot[d] \in Packets /\ Ends(slot[d])
    BY <1>1, SlotType DEF Answer, EndInv
  <2>3. Ends(FrameOf(d, slot[d].to, npdu))
    BY <2>1, <2>2, OctetsSay DEF Ends, FrameOf
  <2>4. \A e \in Devices : slot'[e] # Nothing => Ends(slot'[e])
    BY <1>1 DEF Answer, TypeOK, EndInv
  <2> QED BY <2>1, <2>3, <2>4, DeliverEnds
<1>2. CASE DeferredReply(d)
  BY <1>2 DEF DeferredReply, EndInv
<1>3. CASE SendIAm(d)
  <2> DEFINE f == FrameOf(d, Broadcast, IAm)
             changed == [slot[d] EXCEPT !.npdu = IAm, !.intact = FALSE,
                                        !.at = "Handler_Transmit_Buffer"]
  <2>1. IAm.kind \in LastWords
    BY DEF IAm, Header, LastWords
  <2>2. Ends(f)
    BY <2>1 DEF Ends, FrameOf
  <2>3. slot[d] # Nothing => Ends(changed)
    <3>1. slot[d] # Nothing => changed.npdu = IAm
      BY SlotType DEF Packets
    <3> QED BY <2>1, <3>1 DEF Ends
  <2>4. \/ slot' = slot
        \/ slot[d] # Nothing /\ slot' = [slot EXCEPT ![d] = changed]
    BY <1>3 DEF SendIAm
  <2>5. DOMAIN slot = Devices
    BY DEF TypeOK
  <2>6. Deliver(f)
    BY <1>3 DEF SendIAm
  <2> HIDE DEF f, changed
  <2>7. \A e \in Devices : slot'[e] # Nothing => Ends(slot'[e])
    BY <2>3, <2>4, <2>5 DEF EndInv
  <2> QED BY <2>2, <2>6, <2>7, DeliverEnds
<1>4. CASE NothingToSend(d)
  <2> DEFINE changed == [slot[d] EXCEPT !.intact = FALSE]
  <2>1. slot[d] \in Packets /\ Ends(slot[d])
    BY <1>4, SlotType DEF NothingToSend, EndInv
  <2>2. Ends(changed)
    BY <2>1 DEF Ends, Packets
  <2>3. slot' = [slot EXCEPT ![d] = changed] /\ inbox' = inbox
    BY <1>4 DEF NothingToSend
  <2>4. DOMAIN slot = Devices
    BY DEF TypeOK
  <2> HIDE DEF changed
  <2> QED BY <2>2, <2>3, <2>4 DEF EndInv
<1>5. CASE Restart(d)
  <2>1. ASSUME NEW e \in Devices
        PROVE  /\ slot'[e] = slot[e] \/ slot'[e] = Nothing
               /\ inbox'[e] = inbox[e] \/ inbox'[e] = Nothing
    BY <1>5 DEF Restart, TypeOK
  <2> QED BY <2>1 DEF EndInv
<1> QED BY <1>1, <1>2, <1>3, <1>4, <1>5 DEF Bus

LEMMA StepEnds == TypeOK /\ EndInv /\ [Next]_vars => EndInv'
<1> SUFFICES ASSUME TypeOK, EndInv, [Next]_vars PROVE EndInv'
  OBVIOUS
<1>1. CASE \E d \in Devices : Update(d) \/ Bus(d) \/ Restart(d)
  BY <1>1, UpdateEnds, BusEnds
<1>2. CASE Originate
  <2>1. PICK f \in Originals : Deliver(f)
    BY <1>2 DEF Originate
  <2>2. f.from \notin Devices
    BY NetworkAssumption
  <2>3. \A e \in Devices : slot'[e] # Nothing => Ends(slot'[e])
    BY <1>2 DEF Originate, EndInv
  <2> QED BY <2>1, <2>2, <2>3, DeliverEnds
<1>3. CASE UNCHANGED vars
  BY <1>3 DEF vars, EndInv
<1> QED BY <1>1, <1>2, <1>3 DEF Next

\* A device has something to send only after a frame that asks for it.
Starts(d) == \/ slot[d] = Nothing /\ slot'[d] # Nothing
             \/ ~Send_I_Am_Flag[d] /\ Send_I_Am_Flag'[d]

LEMMA UpdateStarts ==
  ASSUME TypeOK, NEW d \in Devices, Update(d), NEW e \in Devices, Starts(e)
  PROVE  e = d /\ inbox[d] # Nothing /\ ~Ends(inbox[d])
<1>1. inbox[d] # Nothing
  BY UpdateHandsUp
<1>2. CASE slot[e] = Nothing /\ slot'[e] # Nothing
  <2>1. Provokes(inbox[d].npdu)
    BY <1>2, UpdateSends DEF Received
  <2>2. ~Ends(inbox[d])
    BY <2>1 DEF Provokes, IsConfirmed, Ends, LastWords
  <2>3. PICK leftover \in Leftovers, at \in At :
          \E npdu : SendPdu(d, at, npdu)
    BY <1>2, UpdateSends
  <2>4. e = d
    BY <1>2, <2>3 DEF SendPdu, TypeOK
  <2> QED BY <1>1, <2>2, <2>4
<1>3. CASE ~Send_I_Am_Flag[e] /\ Send_I_Am_Flag'[e]
  <2>1. Send_I_Am_Flag' # Send_I_Am_Flag
    BY <1>3
  <2>2. Unconfirmed(d)
    BY <2>1 DEF Update, Discard, WhatIsNetworkNumber, NetworkNumberIs, Reserved,
       OtherNetworkMessage, IgnoreApdu, Confirmed, NetworkMessage
  <2>3. IsWhoIs(Received(d))
        /\ Send_I_Am_Flag' = [Send_I_Am_Flag EXCEPT ![d] = TRUE]
    BY <2>1, <2>2 DEF Unconfirmed
  <2>4. ~Ends(inbox[d])
    BY <2>3 DEF IsWhoIs, Received, Ends, LastWords
  <2>5. e = d
    BY <1>3, <2>3 DEF TypeOK
  <2> QED BY <1>1, <2>4, <2>5
<1> QED BY <1>2, <1>3 DEF Starts

LEMMA NothingElseStarts ==
  ASSUME TypeOK, NEW e \in Devices, Starts(e), [Next]_vars
  PROVE  \E d \in Devices : Update(d)
<1> SUFFICES ASSUME \/ Originate \/ UNCHANGED vars
                    \/ \E d \in Devices : Bus(d) \/ Restart(d)
             PROVE  FALSE
  BY DEF Next
<1>1. CASE Originate \/ UNCHANGED vars
  BY <1>1 DEF Originate, vars, Starts
<1>2. CASE \E d \in Devices : Bus(d) \/ Restart(d)
  <2>1. PICK d \in Devices : Bus(d) \/ Restart(d)
    BY <1>2
  <2>2. slot[e] = Nothing => slot'[e] = Nothing
    BY <2>1 DEF Bus, Answer, DeferredReply, SendIAm, NothingToSend, UseToken,
       Restart, TypeOK
  <2>3. Send_I_Am_Flag'[e] => Send_I_Am_Flag[e]
    BY <2>1 DEF Bus, Answer, DeferredReply, SendIAm, NothingToSend, UseToken,
       Restart, TypeOK
  <2> QED BY <2>2, <2>3 DEF Starts
<1> QED BY <1>1, <1>2

\* For any devices, traffic, damage and restarts: what one device sends never
\* gives another, or itself, something to send.
THEOREM ExchangesEnd == Spec => NoAnswerToAnswer
<1>1. Init => EndInv
  BY DEF Init, EndInv
<1>2. Spec => []EndInv
  BY <1>1, StepEnds, NetworkTypes, PTL DEF Spec
<1> DEFINE Step == \A d \in Devices : Starts(d) => inbox[d].from \notin Devices
<1>3. TypeOK /\ EndInv /\ [Next]_vars => [Step]_vars
  <2> SUFFICES ASSUME TypeOK, EndInv, [Next]_vars, NEW e \in Devices, Starts(e)
               PROVE  inbox[e].from \notin Devices
    OBVIOUS
  <2>1. PICK d \in Devices : Update(d)
    BY NothingElseStarts
  <2>2. inbox[e] # Nothing /\ ~Ends(inbox[e])
    BY <2>1, UpdateStarts
  <2> QED BY <2>2 DEF EndInv
<1>4. NoAnswerToAnswer <=> [][Step]_vars
  BY DEF NoAnswerToAnswer, Starts
<1> QED BY <1>2, <1>3, <1>4, NetworkTypes, PTL DEF Spec

=============================================================================
