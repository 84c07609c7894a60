---------------------------- MODULE NetworkLayer ----------------------------
(***************************************************************************)
(* The network layer of the devices of one MS/TP network: npdu_handler(),  *)
(* network_control_handler() and the NPDU header (npdu.c), between the     *)
(* datalink's frames and apduHandler().  A router joins the network to     *)
(* others.  Of the datalink there is here the one packet that it keeps and *)
(* when it sends it; the rest is in MstpMaster: a frame reaches every      *)
(* station that it is for, which handles it before the next one is sent.   *)
(***************************************************************************)
EXTENDS Naturals, Sequences

CONSTANTS
  Devices,      \* addresses of the devices that run this code
  Stations,     \* addresses of the other stations, the router among them
  Router,
  Remotes,      \* the stations behind the router, by their routes
  LocalNet,     \* the number of this network
  Originals,    \* the frames that other stations may send
  Leftovers,    \* what src.net, which update() does not write, may hold
  MaxOriginals  \* bound on the frames of other stations

Broadcast == 255
BACNET_BROADCAST_NETWORK == 65535
Priority == 0 .. 3
NetworkNumber == 0 .. BACNET_BROADCAST_NETWORK

\* DNET and DADR, or SNET and SADR; net 0 where there is no specifier.
Routes == [net : NetworkNumber, adr : Seq(0 .. 255)]
Here == [net |-> 0, adr |-> << >>]
Everywhere == [net |-> BACNET_BROADCAST_NETWORK, adr |-> << >>]

NetworkMessages == { "what_is_network_number", "network_number_is",
                     "reserved", "reject_message_to_network",
                     "who_is_router_to_network" }
Apdus == { "confirmed", "unrecognized", "who_is", "i_am", "answer" }

(* end: "whole", or the PDU ends after its two control octets ("control"), *)
(* or an address is longer than the rest of the PDU or than its seven      *)
(* octets ("address").  content: the network number of network_number_is, none if *)
(* it is cut short; the invoke id of a request and its answer.             *)
Npdus == [known : BOOLEAN, end : {"whole", "control", "address"},
          kind : NetworkMessages \cup Apdus, content : Seq(NetworkNumber),
          reply : BOOLEAN, priority : Priority, dest : Routes, source : Routes]
\* der: the frame is of the type Data Expecting Reply.
Frames == [from : Devices \cup Stations,
           to : Devices \cup Stations \cup {Broadcast}, der : BOOLEAN,
           npdu : Npdus]

\* What is pending: at is where its octets lie, intact that they are still the
\* ones that were given to dlmstp_send_pdu, and as many.
Packets == [to : Devices \cup Stations, npdu : Npdus,
            at : {"Handler_Transmit_Buffer", "stack"}, intact : BOOLEAN]

Nothing == [npdu |-> "none"]

ASSUME NetworkAssumption ==
  /\ Devices \subseteq 0 .. 127 /\ Stations \subseteq 0 .. 254
  /\ Devices \cap Stations = {} /\ Router \in Stations
  /\ LocalNet \in NetworkNumber \ {0, BACNET_BROADCAST_NETWORK}
  /\ \A r \in Remotes : /\ r \in Routes /\ r.adr # << >>
                        /\ r.net \notin {0, LocalNet, BACNET_BROADCAST_NETWORK}
  /\ Originals \subseteq {f \in Frames : f.from \in Stations}
  /\ Leftovers \subseteq NetworkNumber
  /\ MaxOriginals \in Nat

VARIABLES
  Local_Network_Number,          \* h_npdu.c
  BACnetDevice_NetworkPriority,  \* apdu_shim.c
  Send_I_Am_Flag,                \* dlmstp.c
  slot,                          \* TransmitPacket, while it is pending
  answering,                     \* in ANSWER_DATA_REQUEST
  inbox,                         \* the frame that update() is to hand up
  heard,                         \* the frame that was on the bus last
  originals,                     \* how many were of other stations
  expected                       \* history: so far, each that provokes a reply
                                 \* was of a type that expects one
vars == << Local_Network_Number, BACnetDevice_NetworkPriority, Send_I_Am_Flag,
           slot, answering, inbox, heard, originals, expected >>

TypeOK ==
  /\ Local_Network_Number \in [Devices -> NetworkNumber]
  /\ BACnetDevice_NetworkPriority \in [Devices -> Priority]
  /\ Send_I_Am_Flag \in [Devices -> BOOLEAN]
  /\ slot \in [Devices -> Packets \cup {Nothing}]
  /\ answering \in [Devices -> BOOLEAN]
  /\ inbox \in [Devices -> Frames \cup {Nothing}]
  /\ heard \in Frames \cup {Nothing}
  /\ originals \in Nat
  /\ expected \in BOOLEAN

Init ==
  /\ Local_Network_Number = [d \in Devices |-> 0]
  /\ BACnetDevice_NetworkPriority = [d \in Devices |-> 0]
  /\ Send_I_Am_Flag = [d \in Devices |-> FALSE]
  /\ slot = [d \in Devices |-> Nothing]
  /\ answering = [d \in Devices |-> FALSE]
  /\ inbox = [d \in Devices |-> Nothing]
  /\ heard = Nothing
  /\ originals = 0
  /\ expected = TRUE

-----------------------------------------------------------------------------
(* The header.                                                             *)
IsNetworkMessage(p) == p.kind \in NetworkMessages
IsConfirmed(p) == p.kind \in {"confirmed", "unrecognized"}

\* Bug: the type octet is read although an address did not fit.
MessageTypeUnchecked(p) == p.kind

\* What was cleared before bacnet_npdu_decode stays where the PDU ends early.
MessageType(p) ==
  IF p.end = "whole" THEN p.kind ELSE "who_is_router_to_network"

\* Without a source specifier net is cleared, but for one value it may hold.
Source(p, leftover) ==
  IF p.source.net # 0 THEN p.source
  ELSE IF leftover = BACNET_BROADCAST_NETWORK THEN Everywhere ELSE Here

\* Bug: the reply's header has no destination.
HeaderWithoutRoute(kind, content, priority, dest) ==
  [known |-> TRUE, end |-> "whole", kind |-> kind, content |-> content,
   reply |-> FALSE, priority |-> priority, dest |-> Here, source |-> Here]

\* npdu_encode_pdu, with this station's address for the source: net is 0.
Header(kind, content, priority, dest) ==
  [known |-> TRUE, end |-> "whole", kind |-> kind, content |-> content,
   reply |-> FALSE, priority |-> priority, dest |-> dest, source |-> Here]

\* The handlers of APDUs encode into a buffer of their own, whether or not it
\* is the pending packet; those of network messages into an array that is gone
\* when they return.  dlmstp_send_pdu refuses a packet while one is pending.
SendPdu(d, at, npdu) ==
  slot' =
    IF slot[d] = Nothing
      THEN [slot EXCEPT ![d] = [to |-> inbox[d].from, npdu |-> npdu, at |-> at,
                                intact |-> at = "Handler_Transmit_Buffer"]]
    ELSE IF slot[d].at = "Handler_Transmit_Buffer" /\ at = slot[d].at
      THEN [slot EXCEPT ![d].npdu = npdu, ![d].intact = FALSE]
    ELSE slot

-----------------------------------------------------------------------------
(* npdu_handler.                                                           *)
Received(d) == inbox[d].npdu

ForThisNetwork(p) ==
  p.known /\ p.dest.net \in {0, BACNET_BROADCAST_NETWORK}

HandUp(d) ==
  /\ inbox[d] # Nothing
  /\ inbox' = [inbox EXCEPT ![d] = Nothing]
  /\ answering' = [answering EXCEPT ![d] = inbox[d].der]
  /\ UNCHANGED << heard, originals, expected >>

Discard(d) ==
  /\ HandUp(d)
  /\ ~ForThisNetwork(Received(d))
  /\ UNCHANGED << Local_Network_Number, BACnetDevice_NetworkPriority,
                  Send_I_Am_Flag, slot >>

NetworkMessage(d, type) ==
  /\ HandUp(d)
  /\ ForThisNetwork(Received(d)) /\ IsNetworkMessage(Received(d))
  /\ MessageType(Received(d)) = type
  /\ UNCHANGED << BACnetDevice_NetworkPriority, Send_I_Am_Flag >>

WhatIsNetworkNumber(d) ==
  /\ NetworkMessage(d, "what_is_network_number")
  /\ \E leftover \in Leftovers :
       LET src == Source(Received(d), leftover)
       IN IF src.net = 0 /\ Local_Network_Number[d] # 0
          THEN SendPdu(d, "stack", Header("network_number_is",
                                     << Local_Network_Number[d] >>, 0, src))
          ELSE UNCHANGED slot
  /\ UNCHANGED Local_Network_Number

\* Bug: a number is learned from another network's message.
AnySource(src) == TRUE

NotRouted(src) == src.net = 0

NetworkNumberIs(d) ==
  /\ NetworkMessage(d, "network_number_is")
  /\ \E leftover \in Leftovers :
       Local_Network_Number' =
         IF /\ NotRouted(Source(Received(d), leftover))
            /\ Received(d).content # << >>
         THEN [Local_Network_Number EXCEPT ![d] = Received(d).content[1]]
         ELSE Local_Network_Number
  /\ UNCHANGED slot

Reserved(d) ==
  /\ NetworkMessage(d, "reserved")
  /\ \E leftover \in Leftovers :
       SendPdu(d, "stack", Header("reject_message_to_network", << 0 >>, 0,
                                  Source(Received(d), leftover)))
  /\ UNCHANGED Local_Network_Number

OtherNetworkMessage(d) ==
  /\ \E type \in {"reject_message_to_network", "who_is_router_to_network"} :
       NetworkMessage(d, type)
  /\ UNCHANGED << Local_Network_Number, slot >>

-----------------------------------------------------------------------------
(* npdu_handler and apduHandler for an APDU.                               *)
\* Bug: the bit next to the priority is read with it.
PriorityAndReply(p) == p.priority + (IF p.reply THEN 4 ELSE 0)

PriorityOf(p) == p.priority

ConfirmedBroadcast(p) ==
  IsConfirmed(p) /\ p.dest.net = BACNET_BROADCAST_NETWORK

Apdu(d) ==
  /\ HandUp(d)
  /\ ForThisNetwork(Received(d)) /\ ~IsNetworkMessage(Received(d))
  /\ UNCHANGED Local_Network_Number

IgnoreApdu(d) ==
  /\ Apdu(d)
  /\ Received(d).end # "whole" \/ ConfirmedBroadcast(Received(d))
  /\ UNCHANGED << BACnetDevice_NetworkPriority, Send_I_Am_Flag, slot >>

HandleApdu(d) ==
  /\ Apdu(d)
  /\ Received(d).end = "whole" /\ ~ConfirmedBroadcast(Received(d))
  /\ BACnetDevice_NetworkPriority' =
       [BACnetDevice_NetworkPriority EXCEPT
          ![d] = IF Received(d).reply THEN PriorityOf(Received(d)) ELSE 0]

\* Only the Reject has the priority of the request.
AnswerPriority(d) ==
  IF Received(d).kind = "unrecognized" THEN BACnetDevice_NetworkPriority'[d]
                                       ELSE 0

\* handlerReadProperty, handlerWriteProperty, handler_unrecognized_service.
Confirmed(d) ==
  /\ HandleApdu(d)
  /\ IsConfirmed(Received(d))
  /\ \E leftover \in Leftovers :
       SendPdu(d, "Handler_Transmit_Buffer",
               Header("answer", Received(d).content, AnswerPriority(d),
                      Source(Received(d), leftover)))
  /\ UNCHANGED Send_I_Am_Flag

\* Bug: any unconfirmed service counts as Who-Is.
AnyUnconfirmed(p) == ~IsConfirmed(p) /\ p.kind # "answer"

IsWhoIs(p) == p.kind = "who_is"

Unconfirmed(d) ==
  /\ HandleApdu(d)
  /\ ~IsConfirmed(Received(d))
  /\ Send_I_Am_Flag' =
       IF IsWhoIs(Received(d)) THEN [Send_I_Am_Flag EXCEPT ![d] = TRUE]
                               ELSE Send_I_Am_Flag
  /\ UNCHANGED slot

Update(d) ==
  \/ Discard(d)
  \/ WhatIsNetworkNumber(d) \/ NetworkNumberIs(d) \/ Reserved(d)
  \/ OtherNetworkMessage(d)
  \/ IgnoreApdu(d) \/ Confirmed(d) \/ Unconfirmed(d)

-----------------------------------------------------------------------------
(* The bus.                                                                *)
Quiet == \A d \in Devices : inbox[d] = Nothing /\ ~answering[d]

\* Bug: a request that is broadcast is handed up.
HandedUpAll(f) == TRUE

\* IDLE: a broadcast that expects a reply, or is a confirmed request, is not.
HandedUp(f) ==
  f.to = Broadcast =>
    ~f.der /\ ~(f.npdu.known /\ f.npdu.end = "whole" /\ IsConfirmed(f.npdu))

Deliver(f) ==
  /\ heard' = f
  /\ inbox' = [d \in Devices |->
                 IF d # f.from /\ f.to \in {d, Broadcast} /\ HandedUp(f)
                 THEN f ELSE Nothing]

FrameOf(d, to, npdu) == [from |-> d, to |-> to, der |-> FALSE, npdu |-> npdu]

\* What has changed may still be whole, or be what no station understands.
Octets(packet) ==
  { packet.npdu }
  \cup IF packet.intact THEN {} ELSE {[packet.npdu EXCEPT !.known = FALSE]}

\* ANSWER_DATA_REQUEST, the only state that sends the packet: Reply.
Answer(d) ==
  /\ answering[d] /\ inbox[d] = Nothing /\ slot[d] # Nothing
  /\ \E npdu \in Octets(slot[d]) : Deliver(FrameOf(d, slot[d].to, npdu))
  /\ slot' = [slot EXCEPT ![d] = Nothing]
  /\ answering' = [answering EXCEPT ![d] = FALSE]
  /\ UNCHANGED << Local_Network_Number, BACnetDevice_NetworkPriority,
                  Send_I_Am_Flag, originals, expected >>

DeferredReply(d) ==
  /\ answering[d] /\ inbox[d] = Nothing /\ slot[d] = Nothing
  /\ answering' = [answering EXCEPT ![d] = FALSE]
  /\ UNCHANGED << Local_Network_Number, BACnetDevice_NetworkPriority,
                  Send_I_Am_Flag, slot, inbox, heard, originals, expected >>

\* USE_TOKEN gives the pending packet the length, and with an I-Am the octets,
\* of what dlmstp_encode_unconfirmed_frame makes, if it makes anything.
IAm == Header("i_am", << >>, 0, Everywhere)

UseToken(d) ==
  /\ Quiet
  /\ UNCHANGED << Local_Network_Number, BACnetDevice_NetworkPriority, answering,
                  originals, expected >>

SendIAm(d) ==
  /\ UseToken(d)
  /\ Send_I_Am_Flag[d]
  /\ Send_I_Am_Flag' = [Send_I_Am_Flag EXCEPT ![d] = FALSE]
  /\ slot' = IF slot[d] = Nothing THEN slot
             ELSE [slot EXCEPT ![d].npdu = IAm, ![d].intact = FALSE,
                               ![d].at = "Handler_Transmit_Buffer"]
  /\ Deliver(FrameOf(d, Broadcast, IAm))

NothingToSend(d) ==
  /\ UseToken(d)
  /\ ~Send_I_Am_Flag[d]
  /\ slot[d] # Nothing
  /\ slot' = [slot EXCEPT ![d].intact = FALSE]
  /\ UNCHANGED << Send_I_Am_Flag, inbox, heard >>

Restart(d) ==
  /\ Local_Network_Number' = [Local_Network_Number EXCEPT ![d] = 0]
  /\ BACnetDevice_NetworkPriority' =
       [BACnetDevice_NetworkPriority EXCEPT ![d] = 0]
  /\ Send_I_Am_Flag' = [Send_I_Am_Flag EXCEPT ![d] = FALSE]
  /\ slot' = [slot EXCEPT ![d] = Nothing]
  /\ answering' = [answering EXCEPT ![d] = FALSE]
  /\ inbox' = [inbox EXCEPT ![d] = Nothing]
  /\ UNCHANGED << heard, originals, expected >>

\* What makes a device send to who sent it.
Provokes(p) ==
  IsConfirmed(p) \/ p.kind \in {"what_is_network_number", "reserved"}

Originate ==
  /\ Quiet /\ originals < MaxOriginals
  /\ originals' = originals + 1
  /\ \E f \in Originals :
       /\ Deliver(f)
       /\ expected' = (expected /\ (Provokes(f.npdu) => f.der))
  /\ UNCHANGED << Local_Network_Number, BACnetDevice_NetworkPriority,
                  Send_I_Am_Flag, slot, answering >>

Bus(d) == Answer(d) \/ DeferredReply(d) \/ SendIAm(d) \/ NothingToSend(d)

Next ==
  \/ \E d \in Devices : Update(d) \/ Bus(d) \/ Restart(d)
  \/ Originate

Spec == Init /\ [][Next]_vars

-----------------------------------------------------------------------------
(* Who receives a frame, as the other stations and the router treat it.    *)
Recipients(f) ==
  { [net |-> 0, adr |-> << s >>] :
      s \in { t \in Stations : /\ f.to \in {t, Broadcast}
                               /\ ForThisNetwork(f.npdu) } }
  \cup { r \in Remotes :
           /\ f.to \in {Router, Broadcast}
           /\ \/ f.npdu.dest = Everywhere
              \/ f.npdu.dest.net = r.net /\ f.npdu.dest.adr \in {r.adr, << >>} }

Asker(f) == IF f.npdu.source.net = 0 THEN [net |-> 0, adr |-> << f.from >>]
                                     ELSE f.npdu.source

\* The habits of the other stations that the next two properties rest on: what
\* is said of this network's number is true, and messages of other networks come
\* through the router, which asks nothing for itself.
TruthfulNumbers(frames) ==
  \A f \in frames :
    /\ ForThisNetwork(f.npdu) /\ f.npdu.end = "whole"
    /\ f.npdu.kind = "network_number_is" /\ f.npdu.source.net = 0
    => f.npdu.content \in { << >>, << LocalNet >> }

RoutedByRouter(frames) ==
  \A f \in frames : IsConfirmed(f.npdu) =>
    IF f.from = Router THEN f.npdu.source \in Remotes
                       ELSE f.npdu.source = Here

Answers(f, q) == /\ IsConfirmed(q.npdu)
                 /\ f.npdu.content = q.npdu.content
                 /\ f.from = q.to
                 /\ Recipients(f) = { Asker(q) }
ComesHome(f) == f.npdu.kind = "answer" => \E q \in Originals : Answers(f, q)

\* An answer comes from the one device that was asked, and it reaches the
\* station that asked, through the router if it is behind it, and no other; as
\* long as what makes a device send comes in frames that expect a reply (StaleReply
\* is about others).
AnswerComesHome ==
  expected /\ heard # Nothing /\ heard.from \in Devices => ComesHome(heard)

\* What the devices learn and tell about the network is true: neither the
\* numbers of other networks, which the router lets through, nor messages that
\* are cut short or misdirected change it.
NumberIsTrue ==
  \A d \in Devices :
    /\ Local_Network_Number[d] \in {0, LocalNet}
    /\ slot[d] # Nothing /\ slot[d].npdu.kind = "network_number_is" =>
         slot[d].npdu.content = << LocalNet >>

\* The frame of one device makes no other device send anything: a message
\* never starts an exchange that goes on by itself.
NoAnswerToAnswer ==
  [][ \A d \in Devices :
        \/ slot[d] = Nothing /\ slot'[d] # Nothing
        \/ ~Send_I_Am_Flag[d] /\ Send_I_Am_Flag'[d]
      => inbox[d].from \notin Devices ]_vars

=============================================================================
