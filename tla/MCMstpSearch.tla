---------------------------- MODULE MCMstpSearch ----------------------------
(* The ring around station 1 of 0 .. 3, with the traffic that its search   *)
(* and its token passing meet, and what a line spoils.                     *)
EXTENDS MstpSearch, MCMstpMaster

SearchWire ==
  { Whole("TOKEN", 1, 0, NoData), Whole("TOKEN", 0, 2, NoData),
    Whole("POLL_FOR_MASTER", 1, 0, NoData) }
  \cup { Whole("REPLY_TO_POLL_FOR_MASTER", 1, s, NoData) : s \in {0, 2, 3} }
  \cup BusNoise

ASSUME SearchAssumption == FramesAreLong /\ RepliesOnRing
=============================================================================
