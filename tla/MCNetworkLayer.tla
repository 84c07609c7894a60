--------------------------- MODULE MCNetworkLayer ---------------------------
(***************************************************************************)
(* Two devices, a station, and a router (9) to the network 7 with two      *)
(* stations; what these send.                                              *)
(***************************************************************************)
EXTENDS NetworkLayer

Remote1 == [net |-> 7, adr |-> << 4 >>]
Remote2 == [net |-> 7, adr |-> << 6 >>]
RemoteStations == { Remote1, Remote2 }
Elsewhere == [net |-> 8, adr |-> << >>]

Frame(from, to, kind, content, dest, source) ==
  LET reply == kind \in {"confirmed", "unrecognized", "reserved",
                         "what_is_network_number"}
  IN [from |-> from, to |-> to, der |-> reply,
      npdu |-> [known |-> TRUE, end |-> "whole", kind |-> kind,
                content |-> content, reply |-> reply, priority |-> 2,
                dest |-> dest, source |-> source]]

\* A frame of which the header is spoilt, in two ways.
Cut(f, end) == [f EXCEPT !.npdu.end = end]
Foreign(f) == [f EXCEPT !.npdu.known = FALSE]

\* From this network.
Local ==
  { Frame(5, 1, "confirmed", << 1 >>, Here, Here),
    Frame(5, 1, "unrecognized", << 2 >>, Here, Here),
    Frame(5, Broadcast, "who_is", << >>, Here, Here),
    Frame(5, 2, "what_is_network_number", << >>, Here, Here),
    Frame(5, 2, "reserved", << >>, Here, Here) }

\* From other networks, through the router.
Remote ==
  { Frame(9, 1, "confirmed", << 3 >>, Here, Remote1),
    Frame(9, 2, "unrecognized", << 4 >>, Here, Remote2),
    Frame(9, Broadcast, "confirmed", << 5 >>, Everywhere, Remote1),
    Frame(9, Broadcast, "confirmed", << 8 >>, Here, Remote2),
    Frame(9, 2, "confirmed", << 6 >>, Everywhere, Remote2),
    Frame(9, 2, "what_is_network_number", << >>, Here, Remote2) }

\* What the router tells of this network's number, and what is not about it:
\* routed, for another network, damaged.
NumberIs(content, dest, source) ==
  Frame(9, Broadcast, "network_number_is", content, dest, source)
Numbers ==
  { NumberIs(<< 3 >>, Here, Here), NumberIs(<< >>, Here, Here),
    NumberIs(<< 7 >>, Everywhere, Remote1), NumberIs(<< 8 >>, Elsewhere, Here),
    Cut(NumberIs(<< 8 >>, Here, Here), "address"),
    Cut(NumberIs(<< 8 >>, Here, Here), "control"),
    Foreign(NumberIs(<< 8 >>, Here, Here)) }

Traffic == Local \cup Remote \cup Numbers

\* What makes a device send, in frames that expect no reply.
Unexpecting == { [f EXCEPT !.der = FALSE] : f \in { g \in Local : g.der } }
AnyTraffic == Traffic \cup Unexpecting

\* The habits of the other stations, of which the properties speak.
ASSUME TrafficIsFair ==
  /\ TruthfulNumbers(AnyTraffic)
  /\ RoutedByRouter(AnyTraffic)

\* What src.net may hold: the decoder keeps one of these values.
AnyLeftover == { 0, 7, BACNET_BROADCAST_NETWORK }

=============================================================================
