---------------------------- MODULE MCMstpServer ----------------------------
(* Stations that ask for a reply only in frames that expect one, on a bus  *)
(* that carries whole frames.                                              *)
EXTENDS MCMstpMaster

ASSUME ServerAssumption ==
  RequestsExpectReply /\ FramesAreLong /\ NothingTorn /\ CalledInTime
=============================================================================
