----------------------------- MODULE MstpSearch -----------------------------
(***************************************************************************)
(* MstpMaster with a history of its search for a successor. The history    *)
(* records the polls that were sent, and leaves the machine as it is.      *)
(***************************************************************************)
EXTENDS MstpMaster

VARIABLES
  asked,  \* the addresses polled in the present round around the ring
  lost    \* the station the round began behind: a successor that did not
          \* take the token, or this station itself

svars == <<vars, asked, lost>>

Masters == 0 .. Nmax_master

\* How far station s lies behind this one, in the order of the ring.
Distance(s) == (s + Nmax_master + 1 - This_Station) % (Nmax_master + 1)

Asks(station) == sent'.type = "POLL_FOR_MASTER" /\ sent'.dst = station

RoundBehind(station) == lost' = station /\ asked' = {sent'.dst}

\* FindNewSuccessor is the only transition of PASS_TOKEN that polls.
BeginRound ==
  \/ Master_State = "PASS_TOKEN" /\ RoundBehind(Next_Station)
  \/ Master_State # "PASS_TOKEN" /\ Asks(After(This_Station))
       /\ RoundBehind(This_Station)

GoOn ==
  /\ Master_State # "PASS_TOKEN" /\ ~Asks(After(This_Station))
  /\ asked' = asked \cup {sent'.dst}
  /\ UNCHANGED lost

SInit == Init /\ asked = {} /\ lost = This_Station
SNext == /\ Next
         /\ IF sent'.type = "POLL_FOR_MASTER" THEN BeginRound \/ GoOn
            ELSE UNCHANGED <<asked, lost>>
SSpec == SInit /\ [][SNext]_svars

\* The search ends with no successor, or the only master begins to go
\* round again.
RoundEnds ==
  \/ ~SoleMaster /\ SoleMaster'
  \/ SoleMaster /\ Master_State = "DONE_WITH_TOKEN"
       /\ Asks(After(This_Station))

(* When a node takes itself for the only master (DeclareSoleMaster), it    *)
(* has polled, in that round, every address behind the successor it lost,  *)
(* and every other address if it lost none; and so it has in each round    *)
(* that it goes on with as the only master. The addresses up to a lost     *)
(* successor are not asked again before DeclareSoleMaster: a station that  *)
(* joined there since the last maintenance poll is overlooked until the    *)
(* next round, which begins at this station.                               *)
RoundAsksTheRest ==
  [][ RoundEnds => \A s \in Masters :
                     Distance(s) > Distance(lost) => s \in asked ]_svars

(* A poll never goes to this station itself, which could not answer it,    *)
(* but for the case the code's comment names: after a successor that is    *)
(* the station just before this one.                                       *)
NeverPollsItself ==
  [][ Asks(This_Station)
      => Master_State = "PASS_TOKEN" /\ After(Next_Station) = This_Station
    ]_svars

(* A poll is answered by the station it went to, which is on the ring.     *)
RepliesOnRing ==
  \A item \in Wire : item.frame.type = "REPLY_TO_POLL_FOR_MASTER"
                      => item.frame.src \in Masters
=============================================================================
