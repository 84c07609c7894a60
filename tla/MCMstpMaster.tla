---------------------------- MODULE MCMstpMaster ----------------------------
(* What the other stations put on the bus in the runs of MstpMaster.       *)
EXTENDS MstpMaster

Whole(type, dst, src, data) ==
  [kind |-> "frame", octets |-> 8,
   frame |-> [type |-> type, dst |-> dst, src |-> src, data |-> data]]
Noise(kind, octets) == [kind |-> kind, octets |-> octets, frame |-> NoFrame]
Data(kind, id) == [kind |-> kind, id |-> id]

\* Ring traffic and a Who-Is: this node is station 1 of 0 .. 2.
RingFrames ==
  { Whole("TOKEN", 1, 0, NoData),
    Whole("POLL_FOR_MASTER", 1, 0, NoData),
    Whole("REPLY_TO_POLL_FOR_MASTER", 1, 0, NoData),
    Whole("REPLY_TO_POLL_FOR_MASTER", 1, 2, NoData),
    Whole("TOKEN", 0, 2, NoData),
    Whole("DATA_NOT_EXPECTING_REPLY", Broadcast, 2, Data("who_is", 0)) }
BusNoise == { Noise("octet", 1), Noise("preamble", 1), Noise("partial", 3),
              Noise("partial", 6), Noise("bad", 8) }
LiveWire == RingFrames \cup BusNoise

\* Requests, and stations that answer polls.  Only Data Expecting Reply frames
\* ask for an answer.
ServerWire ==
  { Whole("DATA_EXPECTING_REPLY", 1, 0, Data("confirmed", 1)),
    Whole("DATA_EXPECTING_REPLY", 1, 2, Data("confirmed", 2)),
    Whole("DATA_EXPECTING_REPLY", 1, 2, Data("what_is_network_number", 0)),
    Whole("DATA_EXPECTING_REPLY", 1, 0, NoData),
    Whole("DATA_EXPECTING_REPLY", Broadcast, 0, Data("confirmed", 1)),
    Whole("DATA_NOT_EXPECTING_REPLY", Broadcast, 2, Data("confirmed", 1)),
    Whole("DATA_NOT_EXPECTING_REPLY", Broadcast, 2, Data("who_is", 0)),
    Whole("DATA_NOT_EXPECTING_REPLY", Broadcast, 2,
          Data("network_number_is", 1)),
    Whole("TEST_REQUEST", 1, 2, Data("other", 0)),
    Whole("TOKEN", 1, 0, NoData),
    Whole("REPLY_TO_POLL_FOR_MASTER", 1, 0, NoData),
    Whole("REPLY_TO_POLL_FOR_MASTER", 1, 2, NoData) }

\* ... and one station that sends a request in a frame that expects none.
MixedWire ==
  { Whole("DATA_EXPECTING_REPLY", 1, 0, Data("confirmed", 1)),
    Whole("DATA_NOT_EXPECTING_REPLY", 1, 2, Data("confirmed", 2)) }

=============================================================================
