------------------------------ MODULE MstpRing ------------------------------
(***************************************************************************)
(* Several nodes with the master machine of dlmstp.c on one bus.           *)
(*                                                                         *)
(* Time goes in ticks, a tick being what a frame takes.  In a tick every   *)
(* node that has power calls update(); then what was transmitted reaches   *)
(* the others.  A call may come a tick late.  The calls of one tick do not *)
(* see each other's frames, so their order is of no account and they are   *)
(* made by ascending address.                                              *)
(*                                                                         *)
(* A node with this code sends no requests: its only data is the I-Am it   *)
(* starts with.  Nmax_info_frames is 1.                                    *)
(***************************************************************************)
EXTENDS Naturals, SequencesExt

CONSTANTS
  Nodes,             \* the addresses at which there is a node
  Nmax_master, Npoll, Nretry_token,
  Tno_token, Tslot, Tusage_timeout,   \* in ticks
  MaxFaults          \* bound on late calls and on power switched on or off

Broadcast == 255
Address == 0 .. Nmax_master

Frame == [type : { "TOKEN", "POLL_FOR_MASTER", "REPLY_TO_POLL_FOR_MASTER",
                   "DATA_NOT_EXPECTING_REPLY" },
          dst : Address \cup {Broadcast}, src : Address]
None == [type |-> "none"]

\* What a damaged frame becomes: octets without a header, or a bad frame.
Garbage == [type |-> "garbage"]
Invalid == [type |-> "invalid"]

MasterStates == { "INITIALIZE", "IDLE", "USE_TOKEN", "DONE_WITH_TOKEN",
                  "PASS_TOKEN", "NO_TOKEN", "POLL_FOR_MASTER" }

\* Where the modelled silence timers saturate: no slot is later.
SilenceLimit == Tno_token + Tslot * (Nmax_master + 1)

Node == [state : MasterStates, sole : BOOLEAN, next : Address, poll : Address,
         retries : 0 .. Nretry_token, tokens : 0 .. Npoll, iam : BOOLEAN,
         silence : 0 .. SilenceLimit, active : BOOLEAN,
         valid : Frame \cup {None, Invalid}]

\* No node: the end of the tick.
EndOfTick == Nmax_master + 1

ASSUME RingAssumption ==
  /\ Nmax_master \in 0 .. 127 /\ Nodes \subseteq Address
  /\ Npoll \in Nat \ {0, 1} /\ Nretry_token \in Nat
  /\ Tno_token \in Nat /\ Tslot \in Nat \ {0} /\ Tusage_timeout \in Nat
  /\ Tusage_timeout < Tno_token
  /\ MaxFaults \in Nat \ {0}

\* What the bus needs to be used by one node at a time: slots and timeouts
\* longer than what late calls may amount to.
Margins ==
  /\ MaxFaults < Tusage_timeout
  /\ Tusage_timeout + 2 < Tno_token
  /\ MaxFaults + 1 < Tslot

VARIABLES
  node,              \* the statics of each node
  powered,
  uart,              \* received by a node's UART, not yet read
  late,              \* nodes that did not call update() in the last tick
  turn, running,     \* whose call is next, or being made
  air,               \* the frames of this tick
  faults
vars == <<node, powered, uart, late, turn, running, air, faults>>

TypeOK ==
  /\ node \in [Nodes -> Node]
  /\ powered \subseteq Nodes
  /\ uart \in [Nodes -> Seq(Frame \cup {Garbage, Invalid})]
  /\ late \subseteq Nodes
  /\ turn \in Nodes \cup {EndOfTick}
  /\ running \in BOOLEAN
  /\ air \subseteq Frame
  /\ faults \in 0 .. MaxFaults

AtReset ==
  [state |-> "INITIALIZE", sole |-> FALSE, next |-> 0, poll |-> 0,
   retries |-> 0, tokens |-> 0, iam |-> TRUE, silence |-> 0,
   active |-> FALSE, valid |-> None]

Init ==
  /\ node = [n \in Nodes |-> AtReset]
  /\ powered \in SUBSET Nodes
  /\ uart = [n \in Nodes |-> << >>]
  /\ late = {}
  /\ turn = EndOfTick /\ running = FALSE
  /\ air = {}
  /\ faults = 0

Following(n, on) == Min({ m \in on : m > n } \cup {EndOfTick})
First(on) == Min(on \cup {EndOfTick})

(***************************************************************************)
(* update() and the receiver, for whole frames.                            *)
(***************************************************************************)
Me == node[turn]

Return ==
  /\ running' = FALSE
  /\ turn' = Following(turn, powered)
  /\ UNCHANGED <<powered, uart, late, faults>>
Continue ==
  UNCHANGED <<powered, uart, late, turn, running, faults>>

Fault ==
  /\ faults < MaxFaults
  /\ faults' = faults + 1

Skip ==
  /\ turn # EndOfTick /\ ~running
  /\ turn \notin late
  /\ late' = late \cup {turn}
  /\ Fault
  /\ turn' = Following(turn, powered)
  /\ UNCHANGED <<node, powered, uart, running, air>>

Update ==
  /\ turn # EndOfTick /\ ~running
  /\ running' = TRUE
  /\ late' = late \ {turn}
  /\ UNCHANGED <<powered, turn, air, faults>>

\* Held by a flag, or nothing there.
ReceiveNothing ==
  /\ Update
  /\ Me.valid # None \/ uart[turn] = << >>
  /\ UNCHANGED <<node, uart>>

ReceiveFrame ==
  LET f == Head(uart[turn])
      kept == \/ f = Invalid
              \/ f # Garbage /\ f.dst \in {turn, Broadcast}
  IN /\ Update
     /\ Me.valid = None /\ uart[turn] # << >>
     /\ uart' = [uart EXCEPT ![turn] = Tail(@)]
     /\ node' = [node EXCEPT ![turn].silence = 0, ![turn].active = TRUE,
                   ![turn].valid = IF kept THEN f ELSE None]

(***************************************************************************)
(* MSTP_Master_Node_FSM.                                                   *)
(***************************************************************************)
In(state) == running /\ Me.state = state
Becomes(new) == node' = [node EXCEPT ![turn] = new]
Silent == UNCHANGED air

\* Bug: the addresses do not wrap around.
AddressAbove(a) == a + 1

NextAddress(a) == (a + 1) % (Nmax_master + 1)

Sends(type, dst, new) ==
  /\ air' = air \cup {[type |-> type, dst |-> dst, src |-> turn]}
  /\ Becomes([new EXCEPT !.silence = 0])
  /\ Return

PassTo(n, new) ==
  Sends("TOKEN", n, [new EXCEPT !.state = "PASS_TOKEN", !.next = n,
                                !.retries = 0, !.active = FALSE])
PollFor(n, new) ==
  Sends("POLL_FOR_MASTER", n,
        [new EXCEPT !.state = "POLL_FOR_MASTER", !.poll = n, !.retries = 0])

DoneInitializing ==
  /\ In("INITIALIZE")
  /\ Becomes([Me EXCEPT !.next = turn, !.poll = turn, !.tokens = Npoll,
                        !.sole = FALSE, !.state = "IDLE"])
  /\ Silent /\ Continue

LostToken ==
  /\ In("IDLE") /\ Me.silence >= Tno_token
  /\ Becomes([Me EXCEPT !.active = FALSE, !.valid = None, !.state = "NO_TOKEN"])
  /\ Silent /\ Continue

Idle == In("IDLE") /\ Me.silence < Tno_token

\* Nothing, a bad frame, or one without effect on the ring.
IdleWaits ==
  /\ Idle
  /\ \/ Me.valid \in {None, Invalid}
     \/ Me.valid.type \in { "REPLY_TO_POLL_FOR_MASTER",
                            "DATA_NOT_EXPECTING_REPLY" }
  /\ Becomes([Me EXCEPT !.valid = None])
  /\ Silent /\ Return

Gets(type) == Me.valid.type = type

ReceivedToken ==
  /\ Idle /\ Gets("TOKEN")
  /\ Becomes([Me EXCEPT !.valid = None, !.sole = FALSE, !.state = "USE_TOKEN"])
  /\ Silent /\ Continue

ReceivedPFM ==
  /\ Idle /\ Gets("POLL_FOR_MASTER")
  /\ Sends("REPLY_TO_POLL_FOR_MASTER", Me.valid.src, [Me EXCEPT !.valid = None])

SendIAm ==
  /\ In("USE_TOKEN") /\ Me.iam
  /\ Sends("DATA_NOT_EXPECTING_REPLY", Broadcast,
           [Me EXCEPT !.iam = FALSE, !.state = "DONE_WITH_TOKEN"])

NothingToSend ==
  /\ In("USE_TOKEN") /\ ~Me.iam
  /\ Becomes([Me EXCEPT !.state = "DONE_WITH_TOKEN"])
  /\ Silent /\ Continue

NextStationUnknown ==
  /\ In("DONE_WITH_TOKEN")
  /\ ~Me.sole /\ Me.next = turn
  /\ PollFor(NextAddress(turn), Me)

NextStationKnown == In("DONE_WITH_TOKEN") /\ (Me.sole \/ Me.next # turn)

\* Bug: the tokens between two polls are not counted.
NotCounted == Me.tokens

Counted == Me.tokens + 1

SoleMasterAgain ==
  /\ NextStationKnown /\ Me.tokens < Npoll - 1
  /\ Me.sole /\ Me.next # NextAddress(turn)
  /\ Becomes([Me EXCEPT !.tokens = Counted, !.state = "USE_TOKEN"])
  /\ Silent /\ Continue

SendToken ==
  /\ NextStationKnown /\ Me.tokens < Npoll - 1
  /\ ~Me.sole \/ Me.next = NextAddress(turn)
  /\ PassTo(Me.next, [Me EXCEPT !.tokens = Counted])

MaintenanceDue == NextStationKnown /\ Me.tokens >= Npoll - 1

SoleMasterRestartMaintenancePFM ==
  /\ MaintenanceDue /\ NextAddress(Me.poll) = Me.next /\ Me.sole
  /\ PollFor(NextAddress(Me.next), [Me EXCEPT !.next = turn, !.tokens = 1])

ResetMaintenancePFM ==
  /\ MaintenanceDue /\ NextAddress(Me.poll) = Me.next /\ ~Me.sole
  /\ PassTo(Me.next, [Me EXCEPT !.poll = turn, !.tokens = 1])

SendMaintenancePFM ==
  /\ MaintenanceDue /\ NextAddress(Me.poll) # Me.next
  /\ PollFor(NextAddress(Me.poll), Me)

SawTokenUser ==
  /\ In("PASS_TOKEN") /\ Me.silence <= Tusage_timeout /\ Me.active
  /\ Becomes([Me EXCEPT !.state = "IDLE"])
  /\ Silent /\ Continue

WaitForTokenUser ==
  /\ In("PASS_TOKEN") /\ Me.silence <= Tusage_timeout /\ ~Me.active
  /\ UNCHANGED node /\ Silent /\ Return

RetrySendToken ==
  /\ In("PASS_TOKEN") /\ Me.silence > Tusage_timeout
  /\ Me.retries < Nretry_token
  /\ Sends("TOKEN", Me.next, [Me EXCEPT !.retries = @ + 1, !.active = FALSE])

FindNewSuccessor ==
  /\ In("PASS_TOKEN") /\ Me.silence > Tusage_timeout
  /\ Me.retries >= Nretry_token
  /\ PollFor(NextAddress(Me.next), [Me EXCEPT !.next = turn, !.tokens = 0])

\* Bug: every node has the same slot.
SlotShared(n) == Tno_token

SlotStart(n) == Tno_token + Tslot * n

SawFrame ==
  /\ In("NO_TOKEN") /\ Me.silence < SlotStart(turn) /\ Me.active
  /\ Becomes([Me EXCEPT !.state = "IDLE"])
  /\ Silent /\ Continue

GenerateToken ==
  /\ In("NO_TOKEN")
  /\ Me.silence >= SlotStart(turn) /\ Me.silence < SlotStart(turn) + Tslot
  /\ PollFor(NextAddress(turn), [Me EXCEPT !.next = turn, !.tokens = 0])

StayNoToken ==
  /\ In("NO_TOKEN")
  /\ \/ Me.silence < SlotStart(turn) /\ ~Me.active
     \/ Me.silence >= SlotStart(turn) + Tslot
  /\ UNCHANGED node /\ Silent /\ Return

ReceivedReplyToPFM ==
  /\ In("POLL_FOR_MASTER")
  /\ Gets("REPLY_TO_POLL_FOR_MASTER") /\ Me.valid.dst = turn
  /\ PassTo(Me.valid.src, [Me EXCEPT !.sole = FALSE, !.poll = turn,
                                     !.tokens = 0, !.valid = None])

\* Bug: a node that hears another user of the token keeps its own.
KeepToken == "POLL_FOR_MASTER"

DropToken == "IDLE"

ReceivedUnexpectedFrame ==
  /\ In("POLL_FOR_MASTER")
  /\ Me.valid \notin {None, Invalid}
  /\ ~(Gets("REPLY_TO_POLL_FOR_MASTER") /\ Me.valid.dst = turn)
  /\ Becomes([Me EXCEPT !.valid = None, !.state = DropToken])
  /\ Silent /\ Continue

WaitForReplyToPFM ==
  /\ In("POLL_FOR_MASTER") /\ Me.valid = None
  /\ Me.silence <= Tusage_timeout
  /\ UNCHANGED node /\ Silent /\ Return

PollFailed ==
  /\ In("POLL_FOR_MASTER")
  /\ \/ Me.valid = Invalid
     \/ Me.valid = None /\ Me.silence > Tusage_timeout

SoleMasterPollFailed ==
  /\ PollFailed /\ Me.sole
  /\ Becomes([Me EXCEPT !.valid = None, !.state = "USE_TOKEN"])
  /\ Silent /\ Continue

DoneWithPFM ==
  /\ PollFailed /\ ~Me.sole /\ Me.next # turn
  /\ PassTo(Me.next, [Me EXCEPT !.valid = None])

SendNextPFM ==
  /\ PollFailed /\ ~Me.sole /\ Me.next = turn
  /\ NextAddress(Me.poll) # turn
  /\ PollFor(NextAddress(Me.poll), [Me EXCEPT !.valid = None])

DeclareSoleMaster ==
  /\ PollFailed /\ ~Me.sole /\ Me.next = turn
  /\ NextAddress(Me.poll) = turn
  /\ Becomes([Me EXCEPT !.sole = TRUE, !.valid = None, !.state = "USE_TOKEN"])
  /\ Silent /\ Continue

Call ==
  \/ Skip \/ ReceiveNothing \/ ReceiveFrame
  \/ DoneInitializing
  \/ LostToken \/ IdleWaits \/ ReceivedToken \/ ReceivedPFM
  \/ SendIAm \/ NothingToSend
  \/ NextStationUnknown \/ SoleMasterAgain \/ SendToken
  \/ SoleMasterRestartMaintenancePFM \/ ResetMaintenancePFM
  \/ SendMaintenancePFM
  \/ SawTokenUser \/ WaitForTokenUser \/ RetrySendToken \/ FindNewSuccessor
  \/ SawFrame \/ GenerateToken \/ StayNoToken
  \/ ReceivedReplyToPFM \/ ReceivedUnexpectedFrame \/ WaitForReplyToPFM
  \/ SoleMasterPollFailed \/ DoneWithPFM \/ SendNextPFM \/ DeclareSoleMaster

(***************************************************************************)
(* The bus, time and power.                                                *)
(***************************************************************************)
\* By NoCollision the air holds one frame at most.
Heard(n) ==
  IF n \in powered THEN SetToSeq({ f \in air : f.src # n }) ELSE << >>

TimePasses ==
  /\ turn = EndOfTick
  /\ node' = [n \in Nodes |-> IF n \in powered
                THEN [node[n] EXCEPT !.silence = Min({@ + 1, SilenceLimit})]
                ELSE node[n]]
  /\ air' = {}
  /\ turn' = First(powered)
  /\ UNCHANGED <<powered, late, running>>

Tick ==
  /\ TimePasses
  /\ uart' = [n \in Nodes |-> uart[n] \o Heard(n)]
  /\ UNCHANGED faults

\* Some of the nodes get nothing of the frame, garbage or a bad frame, the rest
\* get it whole: the only fault of its behaviour.
LineFault ==
  /\ air # {} /\ faults = 0
  /\ TimePasses
  /\ faults' = MaxFaults
  /\ \E hit \in SUBSET powered : \E left \in {<< >>, <<Garbage>>, <<Invalid>>} :
       uart' = [n \in Nodes |->
                  uart[n] \o IF n \in hit /\ Heard(n) # << >>
                             THEN left ELSE Heard(n)]

(* Restart: the statics are as at reset, the UART is empty. *)
Restart(n, on) ==
  /\ turn = EndOfTick
  /\ Fault
  /\ powered' = on
  /\ node' = [node EXCEPT ![n] = AtReset]
  /\ uart' = [uart EXCEPT ![n] = << >>]
  /\ late' = late \ {n}
  /\ UNCHANGED <<turn, running, air>>

PowerOff(n) == n \in powered /\ Restart(n, powered \ {n})

\* A node joins, or joins again, a bus in use.
PowerOn(n) == n \notin powered /\ air # {} /\ Restart(n, powered \cup {n})

Next == Call \/ Tick \/ LineFault \/ \E n \in Nodes : PowerOff(n) \/ PowerOn(n)

Spec == Init /\ [][Next]_vars
FairSpec == Spec /\ WF_vars(Call \/ Tick)

(***************************************************************************)
(* Properties.                                                             *)
(***************************************************************************)
(* No two nodes transmit at once: neither those that find the token lost  *)
(* at the same time, nor one that repeats a token and its new holder, nor  *)
(* one that answers a poll late.                                           *)
NoCollision == Cardinality(air) <= 1

Holders == { n \in powered : node[n].state \in { "USE_TOKEN", "DONE_WITH_TOKEN",
                                                 "POLL_FOR_MASTER" } }
(* A frame that some miss may leave two nodes with a token; one drops it.  *)
DuplicatesVanish == <>[](Cardinality(Holders) <= 1)

(* Every node that stays on gets the token again and again: a new one is   *)
(* polled in time, a failed successor is passed over, a lost token is made *)
(* anew, the last node becomes sole master and takes others in again.      *)
TokenComesRound ==
  \A n \in Nodes : []<>(n \in powered => node[n].state = "USE_TOKEN")

=============================================================================
