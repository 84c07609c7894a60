--------------------------- MODULE MstpRing_proofs ---------------------------
(***************************************************************************)
(* Proofs about MstpRing.  RingTypeOK: the types.  OneFrameAtATime: while  *)
(* the line damages no frame, no two nodes of the bus ever transmit in the *)
(* same tick.                                                              *)
(*                                                                         *)
(* The inductive invariant, RingInv(f, g), is about the frame f sent last  *)
(* and the g ticks since: how far behind a node may be in reading it, by   *)
(* how much its silence timer may differ from g, and who is to speak next. *)
(***************************************************************************)
EXTENDS MstpRing, FiniteSetTheorems, WellFoundedInduction, TLAPS

USE RingAssumption

(***************************************************************************)
(* The operators of the model: least elements, successors, addresses.      *)
(***************************************************************************)
LEMMA SmallestExists ==
  ASSUME NEW S \in SUBSET Nat, S # {}
  PROVE  /\ Min(S) \in S
         /\ \A y \in S : Min(S) <= y
  <1> DEFINE R == {ss \in Nat \X Nat : ss[1] < ss[2]}
  <1>0. IsWellFoundedOn(R, Nat)
    BY NatLessThanWellFounded DEF OpToRel
  <1>3. \A y \in Nat, x \in Nat : y < x => << y, x >> \in R
    BY SMT
  <1>1. \E x \in S : \A y \in S : ~ (<< y, x >> \in R)
    <2> HIDE DEF R
    <2> QED BY <1>0, WFMin
  <1>2. \E x \in S : \A y \in S : x <= y
    <2>1. PICK x \in S : \A y \in S : ~ (<< y, x >> \in R)
      <3> HIDE DEF R
      <3> QED BY <1>1
    <2>2. \A y \in S : x <= y
      <3>1. SUFFICES ASSUME NEW y \in S PROVE x <= y
        OBVIOUS
      <3>2. ~ (y < x)
        <4> HIDE DEF R
        <4> QED BY <2>1, <1>3
      <3>3. x \in Nat /\ y \in Nat
        OBVIOUS
      <3> QED BY <3>2, <3>3, SMT
    <2> QED BY <2>2
  <1> QED BY <1>2 DEF Min

LEMMA SmallerOfTwo ==
  ASSUME NEW a \in Nat, NEW b \in Nat
  PROVE  Min({a, b}) = IF a <= b THEN a ELSE b
  <1> DEFINE S == {a, b}
  <1>1. S \in SUBSET Nat /\ S # {}
    OBVIOUS
  <1>2. Min(S) \in S /\ \A y \in S : Min(S) <= y
    <2> HIDE DEF S
    <2> QED BY <1>1, SmallestExists
  <1> QED BY <1>2

LEMMA LimitType == SilenceLimit \in Nat
  <1> DEFINE k == Nmax_master + 1
  <1>1. k \in Nat
    OBVIOUS
  <1>2. Tslot * k \in Nat
    <2> HIDE DEF k
    <2> QED BY <1>1
  <1> HIDE DEF k
  <1> QED BY <1>2 DEF SilenceLimit, k

LEMMA AddressType ==
  /\ EndOfTick \in Nat /\ EndOfTick \notin Address
  /\ Address \subseteq Nat /\ Nodes \subseteq Address
  BY DEF EndOfTick, Address

LEMMA FollowingType ==
  ASSUME NEW on \in SUBSET Nodes, NEW n
  PROVE  /\ Following(n, on) \in on \cup {EndOfTick}
         /\ First(on) \in on \cup {EndOfTick}
  <1>1. /\ { m \in on : m > n } \cup {EndOfTick} \in SUBSET Nat
        /\ on \cup {EndOfTick} \in SUBSET Nat
    BY AddressType
  <1>2. Following(n, on) \in { m \in on : m > n } \cup {EndOfTick}
    BY <1>1, SmallestExists DEF Following
  <1>3. First(on) \in on \cup {EndOfTick}
    BY <1>1, SmallestExists DEF First
  <1> QED BY <1>2, <1>3

LEMMA Values ==
  /\ 0 \in 0 .. Nretry_token /\ 0 \in 0 .. Npoll /\ 1 \in 0 .. Npoll
  /\ Npoll \in 0 .. Npoll /\ 0 \in Address /\ 0 \in 0 .. SilenceLimit
  /\ None \in Frame \cup {None, Invalid}
  BY LimitType DEF Address

LEMMA NextInRing == ASSUME NEW a \in Nat PROVE NextAddress(a) \in Address
  BY DEF NextAddress, Address

LEMMA SomeFrame ==
  ASSUME NEW v \in Frame \cup {None, Invalid},
         v.type \in { "TOKEN", "POLL_FOR_MASTER", "REPLY_TO_POLL_FOR_MASTER",
                      "DATA_NOT_EXPECTING_REPLY" }
  PROVE  v \in Frame
  BY DEF None, Invalid

(***************************************************************************)
(* Types.  To TypeOK are added: the frames in the air are finitely many,   *)
(* and the node whose call it is has power.                                *)
(***************************************************************************)
TypeInv ==
  /\ TypeOK
  /\ IsFiniteSet(air)
  /\ turn # EndOfTick => turn \in powered
  /\ running => turn # EndOfTick

LEMMA HeardType ==
  ASSUME TypeInv, NEW n
  PROVE  Heard(n) \in Seq(Frame)
  <1> DEFINE S == { f \in air : f.src # n }
  <1>1. IsFiniteSet(S)
    BY FS_Subset DEF TypeInv
  <1>2. /\ Cardinality(S) \in Nat
        /\ ExistsBijection(1 .. Cardinality(S), S)
    <2> HIDE DEF S
    <2> QED BY <1>1, FS_CardinalityType
  <1>3. PICK g : g \in [1 .. Cardinality(S) -> S] /\ IsInjective(g)
    <2> HIDE DEF S
    <2> QED BY <1>2 DEF ExistsBijection, Bijection, Injection, IsInjective
  <1>4. SetToSeq(S) \in [1 .. Cardinality(S) -> S]
    <2> HIDE DEF S
    <2> QED BY <1>3 DEF SetToSeq
  <1>5. SetToSeq(S) \in Seq(Frame)
    <2>1. S \subseteq Frame
      BY DEF TypeInv, TypeOK
    <2> HIDE DEF S
    <2> QED BY <1>2, <1>4, <2>1
  <1> QED BY <1>5 DEF Heard

LEMMA RunningType ==
  ASSUME TypeInv, turn # EndOfTick
  PROVE  turn \in Nodes /\ turn \in powered /\ turn \in Address /\ Me \in Node
  BY AddressType DEF TypeInv, TypeOK, Me

(* Steps of the running node that leave the bus alone, and those that       *)
(* transmit.                                                                *)
LEMMA StepType ==
  ASSUME TypeInv, running, node' \in [Nodes -> Node], Silent,
         Return \/ Continue
  PROVE  TypeInv'
  <1> USE DEF TypeInv, TypeOK, Silent
  <1>1. CASE Return
    BY <1>1, FollowingType DEF Return
  <1>2. CASE Continue
    BY <1>2 DEF Continue
  <1> QED BY <1>1, <1>2

LEMMA BecomesType ==
  ASSUME TypeInv, running, NEW new \in Node, Becomes(new), Silent,
         Return \/ Continue
  PROVE  TypeInv'
  <1>1. node' \in [Nodes -> Node]
    BY RunningType DEF TypeInv, TypeOK, Becomes
  <1> QED BY <1>1, StepType

LEMMA SendsType ==
  ASSUME TypeInv, running, NEW new \in Node,
         NEW type \in { "TOKEN", "POLL_FOR_MASTER", "REPLY_TO_POLL_FOR_MASTER",
                        "DATA_NOT_EXPECTING_REPLY" },
         NEW dst \in Address \cup {Broadcast}, Sends(type, dst, new)
  PROVE  TypeInv'
  <1>1. turn \in Nodes /\ turn \in Address
    BY RunningType DEF TypeInv
  <1>2. [new EXCEPT !.silence = 0] \in Node
    BY Values DEF Node
  <1>3. node' \in [Nodes -> Node]
    BY <1>1, <1>2 DEF Sends, Becomes, TypeInv, TypeOK
  <1> DEFINE f == [type |-> type, dst |-> dst, src |-> turn]
  <1>4. f \in Frame
    BY <1>1 DEF Frame
  <1>5. air' = air \cup {f} /\ Return
    BY DEF Sends
  <1> HIDE DEF f
  <1>6. IsFiniteSet(air')
    BY <1>5, FS_AddElement DEF TypeInv
  <1> QED BY <1>3, <1>4, <1>5, <1>6, FollowingType DEF TypeInv, TypeOK, Return

LEMMA PassToType ==
  ASSUME TypeInv, running, NEW new \in Node, NEW n \in Address, PassTo(n, new)
  PROVE  TypeInv'
  <1> DEFINE it == [new EXCEPT !.state = "PASS_TOKEN", !.next = n,
                               !.retries = 0, !.active = FALSE]
  <1>1. it \in Node
    BY Values DEF Node, MasterStates
  <1>2. Sends("TOKEN", n, it)
    BY DEF PassTo
  <1> HIDE DEF it
  <1> QED BY <1>1, <1>2, SendsType

LEMMA PollForType ==
  ASSUME TypeInv, running, NEW new \in Node, NEW n \in Address, PollFor(n, new)
  PROVE  TypeInv'
  <1> DEFINE it == [new EXCEPT !.state = "POLL_FOR_MASTER", !.poll = n,
                               !.retries = 0]
  <1>1. it \in Node
    BY Values DEF Node, MasterStates
  <1>2. Sends("POLL_FOR_MASTER", n, it)
    BY DEF PollFor
  <1> HIDE DEF it
  <1> QED BY <1>1, <1>2, SendsType

(* The transitions of MSTP_Master_Node_FSM.                                *)
MasterStep ==
  \/ DoneInitializing \/ LostToken \/ IdleWaits \/ ReceivedToken
  \/ NothingToSend \/ SoleMasterAgain \/ SawTokenUser \/ SawFrame
  \/ ReceivedUnexpectedFrame \/ SoleMasterPollFailed \/ DeclareSoleMaster
  \/ WaitForTokenUser \/ StayNoToken \/ WaitForReplyToPFM
  \/ NextStationUnknown \/ SoleMasterRestartMaintenancePFM
  \/ SendMaintenancePFM \/ FindNewSuccessor \/ GenerateToken \/ SendNextPFM
  \/ SendToken \/ ResetMaintenancePFM \/ ReceivedReplyToPFM \/ DoneWithPFM
  \/ ReceivedPFM \/ SendIAm \/ RetrySendToken

LEMMA MasterType ==
  ASSUME TypeInv, MasterStep
  PROVE  TypeInv'
  <1>1. ASSUME DoneInitializing PROVE TypeInv'
    <2> DEFINE new == [Me EXCEPT !.next = turn, !.poll = turn, !.tokens = Npoll,
                           !.sole = FALSE, !.state = "IDLE"]
    <2>1. running /\ Becomes(new) /\ Silent /\ (Return \/ Continue)
      BY <1>1 DEF DoneInitializing, In, Idle
    <2>2. turn \in Address /\ Me \in Node
      BY <2>1, RunningType DEF TypeInv
    <2>3. new \in Node
      BY <1>1, <2>2, Values DEF DoneInitializing, Node, MasterStates, Idle
    <2> HIDE DEF new
    <2> QED BY <2>1, <2>3, BecomesType
  <1>2. ASSUME LostToken PROVE TypeInv'
    <2> DEFINE new == [Me EXCEPT !.active = FALSE, !.valid = None,
                           !.state = "NO_TOKEN"]
    <2>1. running /\ Becomes(new) /\ Silent /\ (Return \/ Continue)
      BY <1>2 DEF LostToken, In
    <2>2. turn \in Address /\ Me \in Node
      BY <2>1, RunningType DEF TypeInv
    <2>3. new \in Node
      BY <1>2, <2>2, Values DEF LostToken, Node, MasterStates
    <2> HIDE DEF new
    <2> QED BY <2>1, <2>3, BecomesType
  <1>3. ASSUME IdleWaits PROVE TypeInv'
    <2> DEFINE new == [Me EXCEPT !.valid = None]
    <2>1. running /\ Becomes(new) /\ Silent /\ (Return \/ Continue)
      BY <1>3 DEF IdleWaits, In, Idle
    <2>2. turn \in Address /\ Me \in Node
      BY <2>1, RunningType DEF TypeInv
    <2>3. new \in Node
      BY <1>3, <2>2, Values DEF IdleWaits, Node, MasterStates, Idle
    <2> HIDE DEF new
    <2> QED BY <2>1, <2>3, BecomesType
  <1>4. ASSUME ReceivedToken PROVE TypeInv'
    <2> DEFINE new == [Me EXCEPT !.valid = None, !.sole = FALSE,
                           !.state = "USE_TOKEN"]
    <2>1. running /\ Becomes(new) /\ Silent /\ (Return \/ Continue)
      BY <1>4 DEF ReceivedToken, In, Idle
    <2>2. turn \in Address /\ Me \in Node
      BY <2>1, RunningType DEF TypeInv
    <2>3. new \in Node
      BY <1>4, <2>2, Values DEF ReceivedToken, Node, MasterStates, Idle
    <2> HIDE DEF new
    <2> QED BY <2>1, <2>3, BecomesType
  <1>5. ASSUME NothingToSend PROVE TypeInv'
    <2> DEFINE new == [Me EXCEPT !.state = "DONE_WITH_TOKEN"]
    <2>1. running /\ Becomes(new) /\ Silent /\ (Return \/ Continue)
      BY <1>5 DEF NothingToSend, In
    <2>2. turn \in Address /\ Me \in Node
      BY <2>1, RunningType DEF TypeInv
    <2>3. new \in Node
      BY <1>5, <2>2, Values DEF NothingToSend, Node, MasterStates
    <2> HIDE DEF new
    <2> QED BY <2>1, <2>3, BecomesType
  <1>6. ASSUME SoleMasterAgain PROVE TypeInv'
    <2> DEFINE new == [Me EXCEPT !.tokens = Counted, !.state = "USE_TOKEN"]
    <2>1. running /\ Becomes(new) /\ Silent /\ (Return \/ Continue)
      BY <1>6 DEF SoleMasterAgain, In, NextStationKnown, Counted
    <2>2. turn \in Address /\ Me \in Node
      BY <2>1, RunningType DEF TypeInv
    <2>3. new \in Node
      <3>1. Counted \in 0 .. Npoll
        BY <1>6, <2>2 DEF SoleMasterAgain, Counted, Node
      <3> QED BY <3>1, <2>2 DEF Node, MasterStates
    <2> HIDE DEF new
    <2> QED BY <2>1, <2>3, BecomesType
  <1>7. ASSUME SawTokenUser PROVE TypeInv'
    <2> DEFINE new == [Me EXCEPT !.state = "IDLE"]
    <2>1. running /\ Becomes(new) /\ Silent /\ (Return \/ Continue)
      BY <1>7 DEF SawTokenUser, In
    <2>2. turn \in Address /\ Me \in Node
      BY <2>1, RunningType DEF TypeInv
    <2>3. new \in Node
      BY <1>7, <2>2, Values DEF SawTokenUser, Node, MasterStates
    <2> HIDE DEF new
    <2> QED BY <2>1, <2>3, BecomesType
  <1>8. ASSUME SawFrame PROVE TypeInv'
    <2> DEFINE new == [Me EXCEPT !.state = "IDLE"]
    <2>1. running /\ Becomes(new) /\ Silent /\ (Return \/ Continue)
      BY <1>8 DEF SawFrame, In
    <2>2. turn \in Address /\ Me \in Node
      BY <2>1, RunningType DEF TypeInv
    <2>3. new \in Node
      BY <1>8, <2>2, Values DEF SawFrame, Node, MasterStates
    <2> HIDE DEF new
    <2> QED BY <2>1, <2>3, BecomesType
  <1>9. ASSUME ReceivedUnexpectedFrame PROVE TypeInv'
    <2> DEFINE new == [Me EXCEPT !.valid = None, !.state = DropToken]
    <2>1. running /\ Becomes(new) /\ Silent /\ (Return \/ Continue)
      BY <1>9 DEF ReceivedUnexpectedFrame, In, DropToken
    <2>2. turn \in Address /\ Me \in Node
      BY <2>1, RunningType DEF TypeInv
    <2>3. new \in Node
      BY <1>9, <2>2, Values
         DEF ReceivedUnexpectedFrame, Node, MasterStates, DropToken
    <2> HIDE DEF new
    <2> QED BY <2>1, <2>3, BecomesType
  <1>10. ASSUME SoleMasterPollFailed PROVE TypeInv'
    <2> DEFINE new == [Me EXCEPT !.valid = None, !.state = "USE_TOKEN"]
    <2>1. running /\ Becomes(new) /\ Silent /\ (Return \/ Continue)
      BY <1>10 DEF SoleMasterPollFailed, In, PollFailed
    <2>2. turn \in Address /\ Me \in Node
      BY <2>1, RunningType DEF TypeInv
    <2>3. new \in Node
      BY <1>10, <2>2, Values
         DEF SoleMasterPollFailed, Node, MasterStates, PollFailed
    <2> HIDE DEF new
    <2> QED BY <2>1, <2>3, BecomesType
  <1>11. ASSUME DeclareSoleMaster PROVE TypeInv'
    <2> DEFINE new == [Me EXCEPT !.sole = TRUE, !.valid = None,
                           !.state = "USE_TOKEN"]
    <2>1. running /\ Becomes(new) /\ Silent /\ (Return \/ Continue)
      BY <1>11 DEF DeclareSoleMaster, In, PollFailed
    <2>2. turn \in Address /\ Me \in Node
      BY <2>1, RunningType DEF TypeInv
    <2>3. new \in Node
      BY <1>11, <2>2, Values
         DEF DeclareSoleMaster, Node, MasterStates, PollFailed
    <2> HIDE DEF new
    <2> QED BY <2>1, <2>3, BecomesType
  <1>12. ASSUME WaitForTokenUser PROVE TypeInv'
    <2>1. running /\ node' \in [Nodes -> Node] /\ Silent /\ Return
      BY <1>12 DEF WaitForTokenUser, In, TypeInv, TypeOK
    <2> QED BY <2>1, StepType
  <1>13. ASSUME StayNoToken PROVE TypeInv'
    <2>1. running /\ node' \in [Nodes -> Node] /\ Silent /\ Return
      BY <1>13 DEF StayNoToken, In, TypeInv, TypeOK
    <2> QED BY <2>1, StepType
  <1>14. ASSUME WaitForReplyToPFM PROVE TypeInv'
    <2>1. running /\ node' \in [Nodes -> Node] /\ Silent /\ Return
      BY <1>14 DEF WaitForReplyToPFM, In, TypeInv, TypeOK
    <2> QED BY <2>1, StepType
  <1>15. ASSUME NextStationUnknown PROVE TypeInv'
    <2> DEFINE new == Me
               n == NextAddress(turn)
    <2>1. running /\ PollFor(n, new)
      BY <1>15 DEF NextStationUnknown, In
    <2>2. turn \in Address /\ Me \in Node
      BY <2>1, RunningType DEF TypeInv
    <2>3. new \in Node
      BY <2>2, Values DEF Node
    <2>4. n \in Address
      BY <2>2, AddressType, NextInRing DEF Node
    <2> HIDE DEF new, n
    <2> QED BY <2>1, <2>3, <2>4, PollForType
  <1>16. ASSUME SoleMasterRestartMaintenancePFM PROVE TypeInv'
    <2> DEFINE new == [Me EXCEPT !.next = turn, !.tokens = 1]
               n == NextAddress(Me.next)
    <2>1. running /\ PollFor(n, new)
      BY <1>16
         DEF SoleMasterRestartMaintenancePFM, In, MaintenanceDue,
             NextStationKnown
    <2>2. turn \in Address /\ Me \in Node
      BY <2>1, RunningType DEF TypeInv
    <2>3. new \in Node
      BY <2>2, Values DEF Node
    <2>4. n \in Address
      BY <2>2, AddressType, NextInRing DEF Node
    <2> HIDE DEF new, n
    <2> QED BY <2>1, <2>3, <2>4, PollForType
  <1>17. ASSUME SendMaintenancePFM PROVE TypeInv'
    <2> DEFINE new == Me
               n == NextAddress(Me.poll)
    <2>1. running /\ PollFor(n, new)
      BY <1>17 DEF SendMaintenancePFM, In, MaintenanceDue, NextStationKnown
    <2>2. turn \in Address /\ Me \in Node
      BY <2>1, RunningType DEF TypeInv
    <2>3. new \in Node
      BY <2>2, Values DEF Node
    <2>4. n \in Address
      BY <2>2, AddressType, NextInRing DEF Node
    <2> HIDE DEF new, n
    <2> QED BY <2>1, <2>3, <2>4, PollForType
  <1>18. ASSUME FindNewSuccessor PROVE TypeInv'
    <2> DEFINE new == [Me EXCEPT !.next = turn, !.tokens = 0]
               n == NextAddress(Me.next)
    <2>1. running /\ PollFor(n, new)
      BY <1>18 DEF FindNewSuccessor, In
    <2>2. turn \in Address /\ Me \in Node
      BY <2>1, RunningType DEF TypeInv
    <2>3. new \in Node
      BY <2>2, Values DEF Node
    <2>4. n \in Address
      BY <2>2, AddressType, NextInRing DEF Node
    <2> HIDE DEF new, n
    <2> QED BY <2>1, <2>3, <2>4, PollForType
  <1>19. ASSUME GenerateToken PROVE TypeInv'
    <2> DEFINE new == [Me EXCEPT !.next = turn, !.tokens = 0]
               n == NextAddress(turn)
    <2>1. running /\ PollFor(n, new)
      BY <1>19 DEF GenerateToken, In
    <2>2. turn \in Address /\ Me \in Node
      BY <2>1, RunningType DEF TypeInv
    <2>3. new \in Node
      BY <2>2, Values DEF Node
    <2>4. n \in Address
      BY <2>2, AddressType, NextInRing DEF Node
    <2> HIDE DEF new, n
    <2> QED BY <2>1, <2>3, <2>4, PollForType
  <1>20. ASSUME SendNextPFM PROVE TypeInv'
    <2> DEFINE new == [Me EXCEPT !.valid = None]
               n == NextAddress(Me.poll)
    <2>1. running /\ PollFor(n, new)
      BY <1>20 DEF SendNextPFM, In, PollFailed
    <2>2. turn \in Address /\ Me \in Node
      BY <2>1, RunningType DEF TypeInv
    <2>3. new \in Node
      BY <2>2, Values DEF Node
    <2>4. n \in Address
      BY <2>2, AddressType, NextInRing DEF Node
    <2> HIDE DEF new, n
    <2> QED BY <2>1, <2>3, <2>4, PollForType
  <1>21. ASSUME SendToken PROVE TypeInv'
    <2> DEFINE new == [Me EXCEPT !.tokens = Counted]
               n == Me.next
    <2>1. running /\ PassTo(n, new)
      BY <1>21 DEF SendToken, In, NextStationKnown, Counted
    <2>2. turn \in Address /\ Me \in Node
      BY <2>1, RunningType DEF TypeInv
    <2>3. new \in Node
      BY <1>21, <2>2, Values DEF SendToken, Node, NextStationKnown, Counted
    <2>4. n \in Address
      BY <2>2 DEF Node
    <2> HIDE DEF new, n
    <2> QED BY <2>1, <2>3, <2>4, PassToType
  <1>22. ASSUME ResetMaintenancePFM PROVE TypeInv'
    <2> DEFINE new == [Me EXCEPT !.poll = turn, !.tokens = 1]
               n == Me.next
    <2>1. running /\ PassTo(n, new)
      BY <1>22 DEF ResetMaintenancePFM, In, MaintenanceDue, NextStationKnown
    <2>2. turn \in Address /\ Me \in Node
      BY <2>1, RunningType DEF TypeInv
    <2>3. new \in Node
      BY <1>22, <2>2, Values
         DEF ResetMaintenancePFM, Node, MaintenanceDue, NextStationKnown
    <2>4. n \in Address
      BY <2>2 DEF Node
    <2> HIDE DEF new, n
    <2> QED BY <2>1, <2>3, <2>4, PassToType
  <1>23. ASSUME ReceivedReplyToPFM PROVE TypeInv'
    <2> DEFINE new == [Me EXCEPT !.sole = FALSE, !.poll = turn,
                           !.tokens = 0, !.valid = None]
               n == Me.valid.src
    <2>1. running /\ PassTo(n, new)
      BY <1>23 DEF ReceivedReplyToPFM, In, Gets
    <2>2. turn \in Address /\ Me \in Node
      BY <2>1, RunningType DEF TypeInv
    <2>3. new \in Node
      BY <1>23, <2>2, Values DEF ReceivedReplyToPFM, Node, Gets
    <2>4. n \in Address
      <3>1. Me.valid \in Frame
        BY <1>23, <2>2, SomeFrame DEF ReceivedReplyToPFM, Gets, Node
      <3> QED BY <3>1 DEF Frame
    <2> HIDE DEF new, n
    <2> QED BY <2>1, <2>3, <2>4, PassToType
  <1>24. ASSUME DoneWithPFM PROVE TypeInv'
    <2> DEFINE new == [Me EXCEPT !.valid = None]
               n == Me.next
    <2>1. running /\ PassTo(n, new)
      BY <1>24 DEF DoneWithPFM, In, PollFailed
    <2>2. turn \in Address /\ Me \in Node
      BY <2>1, RunningType DEF TypeInv
    <2>3. new \in Node
      BY <1>24, <2>2, Values DEF DoneWithPFM, Node, PollFailed
    <2>4. n \in Address
      BY <2>2 DEF Node
    <2> HIDE DEF new, n
    <2> QED BY <2>1, <2>3, <2>4, PassToType
  <1>25. ASSUME ReceivedPFM PROVE TypeInv'
    <2> DEFINE new == [Me EXCEPT !.valid = None]
               n == Me.valid.src
    <2>1. running /\ Sends("REPLY_TO_POLL_FOR_MASTER", n, new)
      BY <1>25 DEF ReceivedPFM, In, Idle, Gets
    <2>2. turn \in Address /\ Me \in Node
      BY <2>1, RunningType DEF TypeInv
    <2>3. new \in Node
      BY <1>25, <2>2, Values DEF ReceivedPFM, Node, MasterStates
    <2>4. n \in Address
      <3>1. Me.valid \in Frame
        BY <1>25, <2>2, SomeFrame DEF ReceivedPFM, Gets, Node
      <3> QED BY <3>1 DEF Frame
    <2> HIDE DEF new, n
    <2> QED BY <2>1, <2>3, <2>4, SendsType
  <1>26. ASSUME SendIAm PROVE TypeInv'
    <2> DEFINE new == [Me EXCEPT !.iam = FALSE, !.state = "DONE_WITH_TOKEN"]
               n == Broadcast
    <2>1. running /\ Sends("DATA_NOT_EXPECTING_REPLY", n, new)
      BY <1>26 DEF SendIAm, In
    <2>2. turn \in Address /\ Me \in Node
      BY <2>1, RunningType DEF TypeInv
    <2>3. new \in Node
      BY <1>26, <2>2, Values DEF SendIAm, Node, MasterStates
    <2>4. n \in {Broadcast}
      OBVIOUS
    <2> HIDE DEF new, n
    <2> QED BY <2>1, <2>3, <2>4, SendsType
  <1>27. ASSUME RetrySendToken PROVE TypeInv'
    <2> DEFINE new == [Me EXCEPT !.retries = @ + 1, !.active = FALSE]
               n == Me.next
    <2>1. running /\ Sends("TOKEN", n, new)
      BY <1>27 DEF RetrySendToken, In
    <2>2. turn \in Address /\ Me \in Node
      BY <2>1, RunningType DEF TypeInv
    <2>3. new \in Node
      <3>1. Me.retries + 1 \in 0 .. Nretry_token
        BY <1>27, <2>2 DEF RetrySendToken, Node
      <3> QED BY <3>1, <2>2 DEF Node
    <2>4. n \in Address
      BY <2>2 DEF Node
    <2> HIDE DEF new, n
    <2> QED BY <2>1, <2>3, <2>4, SendsType
  <1> QED
    BY <1>1, <1>2, <1>3, <1>4, <1>5, <1>6, <1>7, <1>8, <1>9, <1>10, <1>11,
       <1>12, <1>13, <1>14, <1>15, <1>16, <1>17, <1>18, <1>19, <1>20, <1>21,
       <1>22, <1>23, <1>24, <1>25, <1>26, <1>27
       DEF MasterStep

LEMMA CallType ==
  ASSUME TypeInv, Call
  PROVE  TypeInv'
  <1> USE DEF TypeInv, TypeOK
  <1>1. ASSUME Skip PROVE TypeInv'
    <2>1. turn \in Nodes /\ turn \in powered
      BY <1>1 DEF Skip
    <2>2. turn' \in powered \cup {EndOfTick}
      BY <1>1, FollowingType DEF Skip
    <2>3. faults' \in 0 .. MaxFaults
      BY <1>1 DEF Skip, Fault
    <2>4. late' \subseteq Nodes
      BY <1>1, <2>1 DEF Skip
    <2> QED BY <1>1, <2>1, <2>2, <2>3, <2>4 DEF Skip
  <1>2. ASSUME ReceiveNothing PROVE TypeInv'
    BY <1>2 DEF ReceiveNothing, Update
  <1>3. ASSUME ReceiveFrame PROVE TypeInv'
    <2>1. turn \in Nodes /\ Me \in Node
      BY <1>3, RunningType DEF ReceiveFrame, Update
    <2> DEFINE f == Head(uart[turn])
    <2>2. f \in Frame \cup {Garbage, Invalid}
      BY <1>3, <2>1 DEF ReceiveFrame
    <2>3. uart' \in [Nodes -> Seq(Frame \cup {Garbage, Invalid})]
      <3>1. Tail(uart[turn]) \in Seq(Frame \cup {Garbage, Invalid})
        BY <1>3, <2>1 DEF ReceiveFrame
      <3> QED BY <1>3, <3>1, <2>1 DEF ReceiveFrame
    <2>4. PICK v \in Frame \cup {None, Invalid} :
            node' = [node EXCEPT ![turn].silence = 0, ![turn].active = TRUE,
                                 ![turn].valid = v]
      <3>1. Garbage # Invalid
        BY DEF Garbage, Invalid
      <3> DEFINE v == IF \/ f = Invalid
                         \/ f # Garbage /\ f.dst \in {turn, Broadcast}
                      THEN f ELSE None
      <3>2. v \in Frame \cup {None, Invalid}
        BY <2>2, <3>1
      <3>3. node' = [node EXCEPT ![turn].silence = 0, ![turn].active = TRUE,
                                 ![turn].valid = v]
        BY <1>3 DEF ReceiveFrame
      <3> HIDE DEF v
      <3> QED BY <3>2, <3>3
    <2>5. [Me EXCEPT !.silence = 0, !.active = TRUE, !.valid = v] \in Node
      BY <2>1, <2>4, Values DEF Node
    <2>6. node' = [node EXCEPT ![turn] = [Me EXCEPT !.silence = 0, !.active = TRUE, !.valid = v]]
      BY <2>4 DEF Me
    <2>7. node' \in [Nodes -> Node]
      BY <2>1, <2>5, <2>6
    <2> QED BY <1>3, <2>3, <2>7 DEF ReceiveFrame, Update
  <1>4. ASSUME MasterStep PROVE TypeInv'
    BY <1>4, MasterType
  <1> QED BY <1>1, <1>2, <1>3, <1>4 DEF Call, MasterStep

LEMMA TimeType ==
  ASSUME TypeInv, TimePasses,
         uart' \in [Nodes -> Seq(Frame \cup {Garbage, Invalid})],
         faults' \in 0 .. MaxFaults
  PROVE  TypeInv'
  <1> USE DEF TypeInv, TypeOK
  <1>1. \A n \in Nodes : node[n] \in Node
    OBVIOUS
  <1>2. \A m \in Node : [m EXCEPT !.silence = Min({@ + 1, SilenceLimit})] \in Node
    <2>1. SUFFICES ASSUME NEW m \in Node
                   PROVE  [m EXCEPT !.silence = Min({m.silence + 1, SilenceLimit})] \in Node
      OBVIOUS
    <2>2. m.silence \in 0 .. SilenceLimit
      BY DEF Node
    <2>3. Min({m.silence + 1, SilenceLimit}) \in 0 .. SilenceLimit
      <3> DEFINE k == m.silence + 1
      <3>1. k \in Nat /\ SilenceLimit \in Nat
        BY <2>2, LimitType
      <3> HIDE DEF k
      <3>2. Min({k, SilenceLimit}) = IF k <= SilenceLimit THEN k ELSE SilenceLimit
        BY <3>1, SmallerOfTwo
      <3>3. Min({k, SilenceLimit}) \in 0 .. SilenceLimit
        BY <3>1, <3>2
      <3> QED BY <3>3 DEF k
    <2> QED BY <2>3 DEF Node
  <1>3. node' \in [Nodes -> Node]
    BY <1>1, <1>2 DEF TimePasses
  <1>4. IsFiniteSet(air') /\ air' \subseteq Frame
    BY FS_EmptySet DEF TimePasses
  <1>5. turn' \in powered \cup {EndOfTick}
    BY FollowingType DEF TimePasses
  <1> QED BY <1>3, <1>4, <1>5 DEF TimePasses

LEMMA RestartType ==
  ASSUME TypeInv, NEW n \in Nodes, NEW on \in SUBSET Nodes, Restart(n, on)
  PROVE  TypeInv'
  <1> USE DEF TypeInv, TypeOK
  <1>1. AtReset \in Node
    BY Values DEF AtReset, Node, MasterStates
  <1>2. << >> \in Seq(Frame \cup {Garbage, Invalid})
    OBVIOUS
  <1>3. uart' \in [Nodes -> Seq(Frame \cup {Garbage, Invalid})]
    BY <1>2 DEF Restart
  <1> QED BY <1>1, <1>3 DEF Restart, Fault

(* TypeInv is inductive.                                                   *)
LEMMA TypeHolds == Spec => []TypeInv
  <1>1. Init => TypeInv
    <2>1. AtReset \in Node
      BY Values DEF AtReset, Node, MasterStates
    <2>2. << >> \in Seq(Frame \cup {Garbage, Invalid})
      OBVIOUS
    <2> SUFFICES ASSUME Init PROVE TypeInv
      OBVIOUS
    <2>3. node \in [Nodes -> Node] /\ uart \in [Nodes -> Seq(Frame \cup {Garbage, Invalid})]
      BY <2>1, <2>2 DEF Init
    <2>4. IsFiniteSet(air) /\ air \subseteq Frame
      BY FS_EmptySet DEF Init
    <2>5. faults \in 0 .. MaxFaults
      BY DEF Init
    <2> QED BY <2>3, <2>4, <2>5 DEF Init, TypeInv, TypeOK
  <1>2. TypeInv /\ [Next]_vars => TypeInv'
    <2> SUFFICES ASSUME TypeInv, [Next]_vars PROVE TypeInv'
      OBVIOUS
    <2>1. CASE Call
      BY <2>1, CallType
    <2>2. CASE Tick
      <3>1. uart' \in [Nodes -> Seq(Frame \cup {Garbage, Invalid})]
        <4>1. \A n \in Nodes : Heard(n) \in Seq(Frame \cup {Garbage, Invalid})
          BY HeardType
        <4>2. \A n \in Nodes : uart[n] \in Seq(Frame \cup {Garbage, Invalid})
          BY DEF TypeInv, TypeOK
        <4>3. \A n \in Nodes : uart[n] \o Heard(n) \in Seq(Frame \cup {Garbage, Invalid})
          BY <4>1, <4>2
        <4> QED BY <2>2, <4>3 DEF Tick
      <3> QED BY <2>2, <3>1, TimeType DEF Tick, TypeInv, TypeOK
    <2>3. CASE LineFault
      <3>1. uart' \in [Nodes -> Seq(Frame \cup {Garbage, Invalid})]
        <4> PICK hit \in SUBSET powered, left \in {<< >>, <<Garbage>>, <<Invalid>>} :
              uart' = [n \in Nodes |->
                         uart[n] \o IF n \in hit /\ Heard(n) # << >>
                                    THEN left ELSE Heard(n)]
          BY <2>3 DEF LineFault
        <4>1. \A n \in Nodes : Heard(n) \in Seq(Frame \cup {Garbage, Invalid})
          BY HeardType
        <4>2. \A n \in Nodes : uart[n] \in Seq(Frame \cup {Garbage, Invalid})
          BY DEF TypeInv, TypeOK
        <4>3. left \in Seq(Frame \cup {Garbage, Invalid})
          <5> DEFINE S == Frame \cup {Garbage, Invalid}
          <5>1. Garbage \in S /\ Invalid \in S
            OBVIOUS
          <5> HIDE DEF S
          <5>2. << >> \in Seq(S) /\ <<Garbage>> \in Seq(S) /\ <<Invalid>> \in Seq(S)
            BY <5>1
          <5> QED BY <5>2 DEF S
        <4>4. ASSUME NEW n \in Nodes
              PROVE  uart[n] \o (IF n \in hit /\ Heard(n) # << >>
                                 THEN left ELSE Heard(n))
                       \in Seq(Frame \cup {Garbage, Invalid})
          BY <4>1, <4>2, <4>3
        <4> QED BY <4>4
      <3>2. faults' \in 0 .. MaxFaults
        BY <2>3 DEF LineFault
      <3> QED BY <2>3, <3>1, <3>2, TimeType DEF LineFault
    <2>4. CASE \E n \in Nodes : PowerOff(n) \/ PowerOn(n)
      <3>1. PICK n \in Nodes : PowerOff(n) \/ PowerOn(n)
        BY <2>4
      <3>2. powered \subseteq Nodes
        BY DEF TypeInv, TypeOK
      <3>3. CASE PowerOff(n)
        BY <3>2, <3>3, RestartType DEF PowerOff
      <3>4. CASE PowerOn(n)
        BY <3>2, <3>4, RestartType DEF PowerOn
      <3> QED BY <3>1, <3>3, <3>4
    <2>5. CASE UNCHANGED vars
      BY <2>5 DEF vars, TypeInv, TypeOK
    <2> QED BY <2>1, <2>2, <2>3, <2>4, <2>5 DEF Next
  <1> QED BY <1>1, <1>2, PTL DEF Spec

(* The statics of every node stay within their types: no address is beyond *)
(* Nmax_master, no counter beyond its parameter, no silence beyond the last *)
(* slot (MSTP_Master_Node_FSM).                                            *)
THEOREM RingTypeOK == Spec => []TypeOK
  <1>1. TypeInv => TypeOK
    BY DEF TypeInv
  <1> QED BY <1>1, TypeHolds, PTL

(***************************************************************************)
(* The inductive invariant.                                                *)
(***************************************************************************)
(* Before the first frame.                                                 *)
Nothing == [type |-> "nothing", dst |-> Broadcast, src |-> Broadcast]

(* What nodes send: only data is broadcast.                                *)
Sent == { x \in Frame : x.dst = Broadcast => x.type = "DATA_NOT_EXPECTING_REPLY" }

(* The states in which a node waits for the others.                        *)
Listening == { "INITIALIZE", "IDLE", "NO_TOKEN" }

(* Whether the call of n in this tick is still to come; whether it was late *)
(* in the last.                                                            *)
Due(n) == IF n > turn \/ (n = turn /\ ~running) THEN 1 ELSE 0
Tardy(n) == IF n \in late THEN 1 ELSE 0

(* f is the last frame sent and g the ticks since: in the air is f or      *)
(* nothing.                                                                *)
LastFrame(f, g) ==
  /\ f \in Sent \cup {Nothing} /\ g \in Nat
  /\ air \subseteq {f}
  /\ air # {} => f # Nothing /\ g = 0 /\ f.src < turn

(* n has read all there is and will not hear f at the end of the tick.     *)
UpToDate(n, f) == uart[n] = << >> /\ (air = {} \/ n = f.src)

(* What n has not read yet: a frame for each late call, none for n but the *)
(* last, and none once g is beyond the late calls.                         *)
Backlog(n, f, g) ==
  /\ Len(uart[n]) <= faults + Due(n)
  /\ \A i \in 1 .. Len(uart[n]) :
       /\ uart[n][i] \in Sent
       /\ uart[n][i].dst = n => i = Len(uart[n]) /\ uart[n][i] = f /\ air = {}
  /\ n = f.src => uart[n] = << >>
  /\ (air = {} /\ uart[n] # << >>) => g + Len(uart[n]) <= faults + 1 + Due(n)

(* The silence timer of a node without backlog is behind g by the late     *)
(* calls at most.                                                          *)
Lag(n, f, g) ==
  UpToDate(n, f) => /\ node[n].silence <= g
                    /\ g + Tardy(n) <= node[n].silence + 1 + faults

(* f reaches n at the end of the tick: it must listen until then.          *)
WillHear(n, f) == air # {} /\ uart[n] = << >> /\ n # f.src
Listens(n, f) == WillHear(n, f) => node[n].silence < SlotStart(n)

(* What a node may be doing while it is not being called: it listens, and  *)
(* its slot has not come;                                                  *)
WaitsListening(n, f) ==
  /\ node[n].state \in Listening
  /\ Listens(n, f)
  /\ UpToDate(n, f) =>
       node[n].silence + 1 <= SlotStart(n) + Due(n) + Tardy(n)

(* it sent f and waits for what follows;                                   *)
HasSent(n, f, g) ==
  /\ n = f.src
  /\ node[n].silence = g
  /\ \/ node[n].state = "PASS_TOKEN" /\ f.type = "TOKEN"
     \/ node[n].state = "POLL_FOR_MASTER" /\ f.type = "POLL_FOR_MASTER"
     \/ node[n].state = "DONE_WITH_TOKEN" /\ f.dst = Broadcast

(* it passed the token and another node has used it since;                 *)
WaitsForUser(n, f) ==
  /\ n # f.src /\ node[n].state = "PASS_TOKEN"
  /\ \/ uart[n] # << >>
     \/ air # {} /\ node[n].silence <= Tusage_timeout

(* it polled and f is the answer;                                          *)
Answered(n, f) ==
  /\ n # f.src /\ n = f.dst /\ f.type = "REPLY_TO_POLL_FOR_MASTER"
  /\ node[n].state = "POLL_FOR_MASTER"

WaitsForReply(n, f) ==
  /\ Answered(n, f)
  /\ \/ air # {} /\ uart[n] = << >> /\ node[n].silence <= Tusage_timeout
     \/ air = {} /\ uart[n] = <<f>>

(* and holds no frame.                                                     *)
Waits(n, f, g) ==
  /\ node[n].valid = None
  /\ \/ WaitsListening(n, f)
     \/ HasSent(n, f, g) /\ g <= Tusage_timeout + Due(n) + Tardy(n)
     \/ WaitsForUser(n, f)
     \/ WaitsForReply(n, f)

(* n will not speak before it hears a frame: it listens, or has passed the *)
(* token, or has polled and p is its address.                              *)
Yields(n, p) ==
  /\ \A i \in 1 .. Len(uart[n]) : uart[n][i].dst # n
  /\ \/ /\ node[n].state \in Listening
        /\ uart[n] = << >> => node[n].silence < SlotStart(n)
     \/ /\ node[n].state = "PASS_TOKEN"
        /\ uart[n] = << >> => node[n].silence <= Tusage_timeout
     \/ /\ node[n].state = "POLL_FOR_MASTER" /\ n = p
        /\ uart[n] = << >> /\ node[n].silence <= Tusage_timeout

(* r may transmit.                                                         *)
Clear(r, p) ==
  /\ air = {} /\ uart[r] = << >>
  /\ \A n \in powered \ {r} : Yields(n, p)

(* The frame that update() holds while it runs is f, or broadcast.         *)
Holding(n, f, g) ==
  node[n].valid # None =>
    /\ node[n].valid \in Sent
    /\ \/ /\ node[n].valid = f /\ f.dst = n /\ n # f.src
          /\ air = {} /\ uart[n] = << >> /\ g <= faults + 1
       \/ node[n].valid.dst = Broadcast

(* What the node that is being called may be doing: it listens;            *)
WorksListening(n, f, g) ==
  /\ node[n].state \in Listening
  /\ Listens(n, f)
  /\ UpToDate(n, f) => /\ node[n].silence <= SlotStart(n) + 1
                       /\ g <= SlotStart(n) + 1 + faults

(* it has the token, and nobody else will speak;                           *)
WorksToken(n) ==
  /\ node[n].state \in { "USE_TOKEN", "DONE_WITH_TOKEN" }
  /\ node[n].valid = None /\ Clear(n, Broadcast)

(* it waits for what follows its frame, its time may be up;                *)
WorksSent(n, f, g) ==
  /\ HasSent(n, f, g) /\ g <= Tusage_timeout + 2
  /\ node[n].state # "DONE_WITH_TOKEN" /\ node[n].valid = None

(* it passed the token and has heard its user;                             *)
WorksUser(n, f) ==
  /\ node[n].state = "PASS_TOKEN"
  /\ \/ node[n].silence = 0 /\ node[n].active
     \/ /\ n # f.src /\ air # {}
        /\ node[n].silence <= Tusage_timeout /\ node[n].valid = None

(* it has the answer to its poll.                                          *)
WorksReply(n, f) ==
  /\ Answered(n, f)
  /\ \/ /\ air # {} /\ uart[n] = << >>
        /\ node[n].silence <= Tusage_timeout /\ node[n].valid = None
     \/ air = {} /\ node[n].valid = f

Works(n, f, g) ==
  /\ n \notin late
  /\ (uart[n] # << >> \/ node[n].valid # None) =>
       node[n].silence = 0 /\ node[n].active
  /\ Holding(n, f, g)
  /\ \/ WorksListening(n, f, g)
     \/ WorksToken(n)
     \/ WorksSent(n, f, g)
     \/ WorksUser(n, f)
     \/ WorksReply(n, f)

RingInv(f, g) ==
  /\ LastFrame(f, g)
  /\ \A n \in powered : Backlog(n, f, g) /\ Lag(n, f, g)
  /\ \A n \in powered : IF running /\ n = turn THEN Works(n, f, g)
                                               ELSE Waits(n, f, g)

OneSpeaks == \E f \in Sent \cup {Nothing}, g \in Nat : RingInv(f, g)

(***************************************************************************)
(* Slots do not overlap, and a node that may transmit has a clear bus.     *)
(***************************************************************************)
LEMMA SlotType ==
  /\ \A n \in Nodes : /\ SlotStart(n) \in Nat
                      /\ Tno_token <= SlotStart(n)
                      /\ SlotStart(n) + Tslot <= SilenceLimit
  /\ \A m, n \in Nodes : m < n => SlotStart(m) + Tslot <= SlotStart(n)
  <1>1. \A a, b \in Nat : a < b => Tslot * a + Tslot <= Tslot * b
    <2> SUFFICES ASSUME NEW a \in Nat, NEW b \in Nat, a < b
                 PROVE  Tslot * a + Tslot <= Tslot * b
      OBVIOUS
    <2>1. PICK d \in Nat : b = a + 1 + d
      <3>1. b - a - 1 \in Nat /\ b = a + 1 + (b - a - 1)
        OBVIOUS
      <3> QED BY <3>1
    <2>2. Tslot * b = Tslot * a + Tslot + Tslot * d
      BY <2>1
    <2>3. Tslot * d \in Nat /\ Tslot * a \in Nat
      OBVIOUS
    <2> QED BY <2>2, <2>3
  <1>2. \A a \in Nat : Tslot * a \in Nat
    OBVIOUS
  <1>3. \A n \in Nodes : n \in Nat /\ n < Nmax_master + 1 /\ Nmax_master + 1 \in Nat
    BY AddressType DEF Address
  <1> QED BY <1>1, <1>2, <1>3 DEF SlotStart, SilenceLimit

LEMMA FrameType ==
  ASSUME NEW f \in Sent \cup {Nothing}
  PROVE  /\ f.src \in Nat
         /\ f.dst = Broadcast => f.type \notin { "TOKEN", "POLL_FOR_MASTER",
                                                 "REPLY_TO_POLL_FOR_MASTER" }
         /\ f = Nothing => f.src = Broadcast
  <1>1. CASE f = Nothing
    BY <1>1 DEF Nothing, Broadcast
  <1>2. CASE f \in Sent
    <2>1. f \in Frame /\ Nothing.type = "nothing"
      BY <1>2 DEF Sent, Nothing
    <2>2. f.src \in Nat /\ f.type # "nothing"
      BY <2>1, AddressType DEF Frame
    <2>3. f # Nothing
      BY <2>1, <2>2
    <2> QED BY <1>2, <2>2, <2>3 DEF Sent
  <1> QED BY <1>1, <1>2

LEMMA PoweredType ==
  ASSUME TypeInv, NEW n \in powered
  PROVE  /\ n \in Nodes /\ n \in Nat /\ n # Broadcast /\ n < EndOfTick
         /\ node[n] \in Node /\ node[n].silence \in 0 .. SilenceLimit
         /\ node[n].silence \in Nat
         /\ uart[n] \in Seq(Frame \cup {Garbage, Invalid}) /\ Len(uart[n]) \in Nat
         /\ uart[n] # << >> => Len(uart[n]) >= 1
         /\ faults \in Nat /\ faults <= MaxFaults
         /\ Due(n) \in {0, 1} /\ Tardy(n) \in {0, 1}
  <1>1. n \in Nodes /\ node[n] \in Node /\ faults \in 0 .. MaxFaults
        /\ uart[n] \in Seq(Frame \cup {Garbage, Invalid})
    BY DEF TypeInv, TypeOK
  <1>2. n \in Nat /\ n <= Nmax_master
    BY <1>1, AddressType DEF Address
  <1>3. node[n].silence \in 0 .. SilenceLimit
    BY <1>1 DEF Node
  <1>4. Due(n) \in {0, 1} /\ Tardy(n) \in {0, 1}
    BY DEF Due, Tardy
  <1>5. n # Broadcast /\ n < EndOfTick
    BY <1>2 DEF EndOfTick, Broadcast
  <1>6. Len(uart[n]) \in Nat /\ (uart[n] # << >> => Len(uart[n]) >= 1)
    BY <1>1
  <1>7. node[n].silence \in Nat
    BY <1>3, LimitType
  <1> QED BY <1>1, <1>2, <1>3, <1>4, <1>5, <1>6, <1>7

(* The bus is clear for the node that a token, a poll or an answer is for; *)
LEMMA AddressedIsClear ==
  ASSUME Margins, TypeInv, NEW f, NEW g, RingInv(f, g),
         NEW r \in powered, running, r = turn,
         node[r].valid # None, node[r].valid.type # "DATA_NOT_EXPECTING_REPLY",
         NEW p, p = Broadcast \/ p = f.src,
         f.type = "POLL_FOR_MASTER" => p = f.src
  PROVE  node[r].valid = f /\ f.dst = r /\ Clear(r, p)
  <1>1. Works(r, f, g) /\ f \in Sent \cup {Nothing} /\ g \in Nat
    BY DEF RingInv, LastFrame
  <1>2. /\ node[r].valid = f /\ f.dst = r /\ r # f.src
        /\ air = {} /\ uart[r] = << >> /\ g <= faults + 1
    <2>1. node[r].valid \in Sent /\ node[r].valid.dst # Broadcast
      BY <1>1 DEF Works, Holding, Sent
    <2> QED BY <1>1, <2>1 DEF Works, Holding
  <1>3. ASSUME NEW n \in powered, n # r PROVE Yields(n, p)
    <2>1. Backlog(n, f, g) /\ Lag(n, f, g) /\ Waits(n, f, g)
      BY <1>3 DEF RingInv
    <2>2. \A i \in 1 .. Len(uart[n]) : uart[n][i].dst # n
      BY <1>2, <1>3, <2>1 DEF Backlog
    <2>3. g <= Tusage_timeout /\ g < SlotStart(n)
      BY <1>1, <1>2, PoweredType, SlotType DEF Margins
    <2>4. CASE WaitsListening(n, f)
      BY <1>1, <1>2, <2>1, <2>2, <2>3, <2>4, PoweredType, SlotType
         DEF WaitsListening, Yields, Lag, UpToDate
    <2>5. CASE HasSent(n, f, g)
      <3>1. f.dst # Broadcast
        BY <1>2, PoweredType
      <3>2. uart[n] = << >>
        BY <2>1, <2>5 DEF Backlog, HasSent
      <3> QED BY <2>2, <2>3, <2>5, <3>1, <3>2, PoweredType DEF HasSent, Yields
    <2>6. CASE WaitsForUser(n, f)
      BY <1>2, <2>2, <2>6 DEF WaitsForUser, Yields
    <2>7. ~ WaitsForReply(n, f)
      BY <1>2, <1>3 DEF WaitsForReply, Answered
    <2> QED BY <2>1, <2>4, <2>5, <2>6, <2>7 DEF Waits
  <1> QED BY <1>2, <1>3 DEF Clear

(* When nothing was sent for longer than the late calls, nodes listen or   *)
(* wait for their own frame to be answered.                                *)
LEMMA Idling ==
  ASSUME Margins, TypeInv, NEW f, NEW g, RingInv(f, g), air = {},
         NEW n \in powered, ~ (running /\ n = turn), g > faults + 1
  PROVE  /\ uart[n] = << >>
         /\ \/ WaitsListening(n, f)
            \/ HasSent(n, f, g) /\ g <= Tusage_timeout + 2
  <1>1. Backlog(n, f, g) /\ Waits(n, f, g) /\ g \in Nat
    BY DEF RingInv, LastFrame
  <1>2. uart[n] = << >>
    BY <1>1, PoweredType DEF Backlog
  <1>3. ~ WaitsForUser(n, f) /\ ~ WaitsForReply(n, f)
    BY <1>2 DEF WaitsForUser, WaitsForReply
  <1>4. CASE HasSent(n, f, g) /\ g <= Tusage_timeout + Due(n) + Tardy(n)
    BY <1>1, <1>2, <1>4, PoweredType
  <1> QED BY <1>1, <1>2, <1>3, <1>4 DEF Waits

(* it is for a node whose frame got no answer in time;                     *)
LEMMA TimeoutIsClear ==
  ASSUME Margins, TypeInv, NEW f, NEW g, RingInv(f, g),
         NEW r \in powered, running, r = turn,
         WorksSent(r, f, g), node[r].silence > Tusage_timeout
  PROVE  Clear(r, Broadcast)
  <1>1. f \in Sent \cup {Nothing} /\ g \in Nat /\ Backlog(r, f, g)
    BY DEF RingInv, LastFrame
  <1>2. r = f.src /\ g > Tusage_timeout /\ g <= Tusage_timeout + 2 /\ uart[r] = << >>
    BY <1>1 DEF WorksSent, HasSent, Backlog
  <1>3. air = {} /\ g > faults + 1
    <2>1. g > 0 /\ g > faults + 1
      BY <1>1, <1>2, PoweredType DEF Margins
    <2>2. air # {} => g = 0
      BY DEF RingInv, LastFrame
    <2> QED BY <2>1, <2>2
  <1>4. ASSUME NEW n \in powered \ {r} PROVE Yields(n, Broadcast)
    <2>1. uart[n] = << >> /\ WaitsListening(n, f)
      BY <1>2, <1>3, <1>4, Idling DEF HasSent
    <2>2. node[n].silence <= g
      BY <1>3, <2>1 DEF RingInv, Lag, UpToDate
    <2>3. node[n].silence < SlotStart(n)
      BY <1>1, <1>2, <1>4, <2>2, PoweredType, SlotType DEF Margins
    <2> QED BY <2>1, <2>3 DEF WaitsListening, Yields
  <1> QED BY <1>2, <1>3, <1>4 DEF Clear

(* it is for a node that goes on with its token after its I-Am;            *)
LEMMA ResumedIsClear ==
  ASSUME Margins, TypeInv, NEW f, NEW g, RingInv(f, g),
         NEW r \in powered, turn = r, ~running,
         HasSent(r, f, g), node[r].state = "DONE_WITH_TOKEN",
         g <= Tusage_timeout + 2
  PROVE  Clear(r, Broadcast)
  <1>1. f \in Sent \cup {Nothing} /\ g \in Nat /\ Backlog(r, f, g)
    BY DEF RingInv, LastFrame
  <1>2. r = f.src /\ f.dst = Broadcast /\ uart[r] = << >>
    BY <1>1 DEF HasSent, Backlog
  <1>3. air = {}
    BY <1>1, <1>2, PoweredType DEF RingInv, LastFrame
  <1>4. ASSUME NEW n \in powered \ {r} PROVE Yields(n, Broadcast)
    <2>1. Backlog(n, f, g) /\ Lag(n, f, g) /\ Waits(n, f, g)
      BY <1>4 DEF RingInv
    <2>2. \A i \in 1 .. Len(uart[n]) : uart[n][i].dst # n
      BY <1>2, <1>4, <2>1, PoweredType DEF Backlog
    <2>3. g < SlotStart(n)
      BY <1>1, <1>4, PoweredType, SlotType DEF Margins
    <2>4. CASE WaitsListening(n, f)
      <3>1. uart[n] = << >> => node[n].silence <= g
        BY <1>3, <2>1 DEF Lag, UpToDate
      <3>2. uart[n] = << >> => node[n].silence < SlotStart(n)
        BY <1>1, <1>4, <2>3, <3>1, PoweredType, SlotType
      <3> QED BY <2>2, <2>4, <3>2 DEF WaitsListening, Yields
    <2>5. CASE WaitsForUser(n, f)
      BY <1>3, <2>2, <2>5 DEF WaitsForUser, Yields
    <2>6. ~ HasSent(n, f, g) /\ ~ WaitsForReply(n, f)
      BY <1>1, <1>2, <1>4, FrameType DEF HasSent, WaitsForReply, Answered
    <2> QED BY <2>1, <2>4, <2>5, <2>6 DEF Waits
  <1> QED BY <1>2, <1>3, <1>4 DEF Clear

(* it is for a node whose slot has come;                                   *)
LEMMA ClaimIsClear ==
  ASSUME Margins, TypeInv, NEW f, NEW g, RingInv(f, g),
         NEW r \in powered, running, r = turn,
         node[r].state \in Listening, node[r].silence >= SlotStart(r)
  PROVE  Clear(r, Broadcast)
  <1>1. /\ f \in Sent \cup {Nothing} /\ g \in Nat
        /\ Works(r, f, g) /\ Lag(r, f, g)
    BY DEF RingInv, LastFrame
  <1>2. /\ SlotStart(r) \in Nat /\ SlotStart(r) >= Tno_token
        /\ node[r].silence \in Nat /\ faults \in Nat /\ faults <= MaxFaults
    BY PoweredType, SlotType
  <1>3. WorksListening(r, f, g)
    BY <1>1 DEF Works, WorksToken, WorksSent, HasSent, WorksUser, WorksReply,
                Answered, Listening
  <1>4. uart[r] = << >>
    BY <1>1, <1>2 DEF Works, Margins
  <1>5. air = {}
    <2>1. ~ WillHear(r, f)
      BY <1>2, <1>3 DEF WorksListening, Listens
    <2>2. r = f.src => node[r].silence <= g
      BY <1>1, <1>4 DEF Lag, UpToDate
    <2>3. air # {} => g = 0
      BY DEF RingInv, LastFrame
    <2> QED BY <1>2, <1>4, <2>1, <2>2, <2>3 DEF WillHear, Margins
  <1>6. /\ node[r].silence <= g /\ g <= SlotStart(r) + 1 + faults
    BY <1>1, <1>3, <1>4, <1>5 DEF WorksListening, Lag, UpToDate
  <1>7. ASSUME NEW n \in powered \ {r} PROVE Yields(n, Broadcast)
    <2>1. uart[n] = << >> /\ WaitsListening(n, f)
      <3>1. g > Tusage_timeout + 2 /\ g > faults + 1
        BY <1>1, <1>2, <1>6 DEF Margins
      <3> QED BY <1>1, <1>5, <1>7, <3>1, Idling
    <2>2. /\ node[n].silence <= g
          /\ g + Tardy(n) <= node[n].silence + 1 + faults
          /\ node[n].silence + 1 <= SlotStart(n) + Due(n) + Tardy(n)
      BY <1>5, <2>1 DEF RingInv, Lag, WaitsListening, UpToDate
    <2>3. /\ n \in Nodes /\ r \in Nodes /\ n \in Nat /\ r \in Nat
          /\ SlotStart(n) \in Nat /\ node[n].silence \in Nat
      BY PoweredType, SlotType
    <2>4. CASE n < r
      <3>1. Due(n) = 0
        BY <1>7, <2>3, <2>4 DEF Due
      <3>2. SlotStart(n) + Tslot <= SlotStart(r)
        BY <2>3, <2>4, SlotType
      <3>3. Tardy(n) \in {0, 1}
        BY DEF Tardy
      <3> QED BY <1>1, <1>2, <1>6, <2>2, <2>3, <3>1, <3>2, <3>3 DEF Margins
    <2>5. CASE n > r
      <3>1. SlotStart(r) + Tslot <= SlotStart(n)
        BY <2>3, <2>5, SlotType
      <3>2. node[n].silence < SlotStart(n)
        BY <1>1, <1>2, <1>6, <2>2, <2>3, <3>1 DEF Margins
      <3> QED BY <2>1, <3>2 DEF WaitsListening, Yields
    <2> QED BY <1>7, <2>3, <2>4, <2>5
  <1> QED BY <1>4, <1>5, <1>7 DEF Clear

(* A node whose call it is not keeps what it had.                           *)
LEMMA OthersKeep ==
  ASSUME NEW n, NEW f, NEW g, node'[n] = node[n], Due(n)' = Due(n),
         UNCHANGED <<uart, late, air, faults>>
  PROVE  /\ Backlog(n, f, g) => Backlog(n, f, g)'
         /\ Lag(n, f, g) => Lag(n, f, g)'
         /\ Waits(n, f, g) => Waits(n, f, g)'
  <1>1. Backlog(n, f, g) => Backlog(n, f, g)'
    BY DEF Backlog
  <1>2. Lag(n, f, g) => Lag(n, f, g)'
    BY DEF Lag, UpToDate, Tardy
  <1>3. Waits(n, f, g) => Waits(n, f, g)'
    BY DEF Waits, WaitsListening, HasSent, WaitsForUser, WaitsForReply,
           Answered, Listens, WillHear, UpToDate, Tardy
  <1> QED BY <1>1, <1>2, <1>3

LEMMA TurnPasses ==
  ASSUME TypeInv, turn # EndOfTick, turn' = Following(turn, powered), ~running'
  PROVE  /\ turn < turn'
         /\ \A n \in powered : n > turn <=> n >= turn'
         /\ \A n \in powered : n # turn => Due(n)' = Due(n)
         /\ \A n \in powered : n = turn => Due(n)' = 0
  <1> DEFINE S == { m \in powered : m > turn } \cup {EndOfTick}
  <1>1. /\ turn \in Nat /\ turn < EndOfTick
        /\ \A n \in powered : n \in Nat /\ n < EndOfTick
    BY PoweredType DEF TypeInv
  <1>2. S \in SUBSET Nat /\ S # {}
    BY <1>1, AddressType
  <1>3. turn' \in S /\ \A y \in S : turn' <= y
    <2>1. turn' = Min(S)
      BY DEF Following
    <2> HIDE DEF S
    <2> QED BY <1>2, <2>1, SmallestExists
  <1>4. turn < turn' /\ turn' \in Nat
    BY <1>1, <1>2, <1>3
  <1>5. \A n \in powered : n > turn <=> n >= turn'
    BY <1>1, <1>3, <1>4
  <1>6. \A n \in powered : n # turn => Due(n)' = Due(n)
    <2> SUFFICES ASSUME NEW n \in powered, n # turn PROVE Due(n)' = Due(n)
      OBVIOUS
    <2>1. n \in Nat /\ turn \in Nat /\ turn' \in Nat
      BY <1>1, <1>4
    <2>2. (n > turn' \/ n = turn') <=> n > turn
      BY <1>5, <2>1
    <2> QED BY <2>2 DEF Due
  <1>7. ASSUME NEW n \in powered, n = turn PROVE Due(n)' = 0
    BY <1>1, <1>4, <1>7 DEF Due
  <1> QED BY <1>4, <1>5, <1>6, <1>7

(* A step of the running node r that keeps its silence timer and does not   *)
(* transmit: what it leaves in r is all there is to show.                   *)
LEMMA RunsOn ==
  ASSUME TypeInv, NEW f, NEW g, RingInv(f, g), NEW r \in powered, r = turn, running,
         NEW new, node' = [node EXCEPT ![r] = new], new.silence = node[r].silence,
         Silent, Continue,
         Works(r, f, g)'
  PROVE  RingInv(f, g)'
  <1>1. /\ UNCHANGED <<powered, uart, late, turn, running, faults, air>>
        /\ \A n \in powered : n # r => node'[n] = node[n]
        /\ node'[r] = new
    BY PoweredType DEF Silent, Continue, TypeInv, TypeOK
  <1>2. LastFrame(f, g)'
    BY <1>1 DEF RingInv, LastFrame
  <1>3. \A n : Due(n)' = Due(n)
    BY <1>1 DEF Due
  <1>4. ASSUME NEW n \in powered, n # r
        PROVE  Backlog(n, f, g)' /\ Lag(n, f, g)' /\ Waits(n, f, g)'
    <2>1. Backlog(n, f, g) /\ Lag(n, f, g) /\ Waits(n, f, g)
      BY <1>4 DEF RingInv
    <2> QED BY <1>1, <1>3, <1>4, <2>1, OthersKeep
  <1>5. Backlog(r, f, g)' /\ Lag(r, f, g)'
    <2>1. Backlog(r, f, g) /\ Lag(r, f, g)
      BY DEF RingInv
    <2>2. Backlog(r, f, g)'
      BY <1>1, <1>3, <2>1 DEF Backlog
    <2>3. Lag(r, f, g)'
      BY <1>1, <2>1 DEF Lag, UpToDate, Tardy
    <2> QED BY <2>2, <2>3
  <1> QED BY <1>1, <1>2, <1>4, <1>5 DEF RingInv

LEMMA ReturnsSilent ==
  ASSUME TypeInv, NEW f, NEW g, RingInv(f, g), NEW r \in powered, r = turn, running,
         NEW new, node' = [node EXCEPT ![r] = new], new.silence = node[r].silence,
         Silent, Return,
         Waits(r, f, g)'
  PROVE  RingInv(f, g)'
  <1>1. /\ UNCHANGED <<powered, uart, late, faults, air>> /\ ~running'
        /\ turn' = Following(turn, powered)
        /\ \A n \in powered : n # r => node'[n] = node[n]
        /\ node'[r] = new
    BY PoweredType DEF Silent, Return, TypeInv, TypeOK
  <1>2. /\ turn < turn'
        /\ \A n \in powered : n # r => Due(n)' = Due(n)
        /\ Due(r)' = 0
    BY <1>1, TurnPasses DEF TypeInv
  <1>3. LastFrame(f, g)'
    <2>1. turn \in Nat /\ turn' \in Nat
      <3>1. turn \in Nat /\ powered \subseteq Nat
        BY PoweredType
      <3> QED BY <1>1, <3>1, FollowingType, AddressType DEF TypeInv, TypeOK
    <2>2. LastFrame(f, g)
      BY DEF RingInv
    <2>3. f.src \in Nat
      BY <2>2, FrameType DEF LastFrame
    <2> QED BY <1>1, <1>2, <2>1, <2>2, <2>3 DEF LastFrame
  <1>4. ASSUME NEW n \in powered, n # r
        PROVE  Backlog(n, f, g)' /\ Lag(n, f, g)' /\ Waits(n, f, g)'
    <2>1. Backlog(n, f, g) /\ Lag(n, f, g) /\ Waits(n, f, g)
      BY <1>4 DEF RingInv
    <2> QED BY <1>1, <1>2, <1>4, <2>1, OthersKeep
  <1>5. Backlog(r, f, g)' /\ Lag(r, f, g)'
    <2>1. Backlog(r, f, g) /\ Lag(r, f, g)
      BY DEF RingInv
    <2>2. Due(r) = 0
      BY PoweredType DEF Due
    <2>3. Backlog(r, f, g)'
      BY <1>1, <1>2, <2>1, <2>2 DEF Backlog
    <2>4. Lag(r, f, g)'
      BY <1>1, <2>1 DEF Lag, UpToDate, Tardy
    <2> QED BY <2>3, <2>4
  <1> QED BY <1>1, <1>3, <1>4, <1>5 DEF RingInv

(* The state in which sending a frame leaves a node.                       *)
SentState(type, dst, state) ==
  \/ type = "TOKEN" /\ dst # Broadcast /\ state = "PASS_TOKEN"
  \/ type = "POLL_FOR_MASTER" /\ dst # Broadcast /\ state = "POLL_FOR_MASTER"
  \/ type = "DATA_NOT_EXPECTING_REPLY" /\ dst = Broadcast
     /\ state = "DONE_WITH_TOKEN"
  \/ type = "REPLY_TO_POLL_FOR_MASTER" /\ dst # Broadcast
     /\ state \in Listening

LEMMA SendsAlone ==
  ASSUME Margins, TypeInv, NEW f, NEW g, RingInv(f, g),
         NEW r \in powered, r = turn, running,
         NEW type \in { "TOKEN", "POLL_FOR_MASTER", "REPLY_TO_POLL_FOR_MASTER",
                        "DATA_NOT_EXPECTING_REPLY" },
         NEW dst \in Address \cup {Broadcast}, NEW new \in Node,
         Sends(type, dst, new), new.valid = None, SentState(type, dst, new.state),
         NEW p, p = Broadcast \/ (p = dst /\ type = "REPLY_TO_POLL_FOR_MASTER"),
         Clear(r, p), r \notin late
  PROVE  RingInv([type |-> type, dst |-> dst, src |-> r], 0)'
  <1> DEFINE h == [type |-> type, dst |-> dst, src |-> r]
             it == [new EXCEPT !.silence = 0]
  <1>1. r \in Nodes /\ r \in Address /\ r \in Nat /\ r # Broadcast
    BY PoweredType, AddressType
  <1>2. /\ h.type = type /\ h.dst = dst /\ h.src = r
        /\ h \in Sent /\ h # Nothing
    BY <1>1 DEF Sent, Frame, SentState, Nothing
  <1>3. /\ it.silence = 0 /\ it.valid = None /\ it.state = new.state
    BY DEF Node
  <1>4. /\ UNCHANGED <<powered, uart, late, faults>> /\ ~running'
        /\ turn' = Following(turn, powered)
        /\ air' = {h}
        /\ \A n \in powered : n # r => node'[n] = node[n]
        /\ node'[r] = it
    <2>1. air = {}
      BY DEF Clear
    <2> QED BY <1>1, <2>1 DEF Sends, Becomes, Return, TypeInv, TypeOK
  <1> HIDE DEF h, it
  <1>5. /\ turn < turn'
        /\ \A n \in powered : n # r => Due(n)' = Due(n)
        /\ Due(r)' = 0
    BY <1>4, TurnPasses DEF TypeInv
  <1>6. LastFrame(h, 0)'
    BY <1>2, <1>4, <1>5 DEF LastFrame
  <1>7. ASSUME NEW n \in powered, n # r
        PROVE  Backlog(n, h, 0)' /\ Lag(n, h, 0)' /\ Waits(n, h, 0)'
    <2>1. Backlog(n, f, g) /\ Waits(n, f, g) /\ Yields(n, p)
      BY <1>7 DEF RingInv, Clear
    <2>2. Backlog(n, h, 0)'
      BY <1>2, <1>4, <1>5, <1>7, <2>1 DEF Backlog, Yields
    <2>3. Lag(n, h, 0)'
      BY <1>2, <1>4, <1>7 DEF Lag, UpToDate
    <2>4. /\ node'[n] = node[n] /\ node[n].valid = None /\ uart'[n] = uart[n]
          /\ air' # {} /\ n # h.src
      BY <1>2, <1>4, <1>7, <2>1 DEF Waits
    <2>5. CASE node[n].state \in Listening /\ (uart[n] = << >> => node[n].silence < SlotStart(n))
      BY <1>2, <1>4, <1>7, <2>2, <2>3, <2>4, <2>5
         DEF Waits, WaitsListening, Listens, WillHear, UpToDate
    <2>6. CASE node[n].state = "PASS_TOKEN" /\ (uart[n] = << >> => node[n].silence <= Tusage_timeout)
      BY <1>2, <1>4, <1>7, <2>2, <2>3, <2>4, <2>6 DEF Waits, WaitsForUser
    <2>7. CASE node[n].state = "POLL_FOR_MASTER" /\ n = p /\ uart[n] = << >> /\ node[n].silence <= Tusage_timeout
      BY <1>2, <1>4, <1>7, <2>2, <2>3, <2>4, <2>7, PoweredType
         DEF Waits, WaitsForReply, Answered
    <2> QED BY <2>1, <2>2, <2>3, <2>5, <2>6, <2>7 DEF Yields
  <1>8. Backlog(r, h, 0)' /\ Lag(r, h, 0)'
    <2>1. uart[r] = << >> /\ faults \in Nat
      BY PoweredType DEF Clear
    <2>2. Backlog(r, h, 0)'
      BY <1>4, <1>5, <2>1 DEF Backlog
    <2>3. Lag(r, h, 0)'
      BY <1>3, <1>4, <2>1 DEF Lag, Tardy
    <2> QED BY <2>2, <2>3
  <1>9. Waits(r, h, 0)'
    <2>1. SlotStart(r) \in Nat /\ SlotStart(r) >= 1 /\ Tardy(r)' = 0
      BY <1>1, <1>4, SlotType DEF Tardy
    <2>2. CASE type = "REPLY_TO_POLL_FOR_MASTER"
      <3>1. WaitsListening(r, h)'
        BY <1>2, <1>3, <1>4, <1>5, <2>1, <2>2
           DEF SentState, WaitsListening, Listens, WillHear
      <3> QED BY <1>3, <1>4, <3>1 DEF Waits
    <2>3. CASE type # "REPLY_TO_POLL_FOR_MASTER"
      <3>1. HasSent(r, h, 0)'
        BY <1>2, <1>3, <1>4, <2>3 DEF SentState, HasSent
      <3> QED BY <1>3, <1>4, <1>5, <2>1, <3>1 DEF Waits
    <2> QED BY <2>2, <2>3
  <1>10. RingInv(h, 0)'
    BY <1>4, <1>6, <1>7, <1>8, <1>9 DEF RingInv
  <1> QED BY <1>10 DEF h

(* r is the node whose call it is.                                          *)
AtWork(r, f, g) ==
  /\ Margins /\ TypeInv /\ RingInv(f, g)
  /\ r \in powered /\ r = turn /\ running

LEMMA AtWorkFacts ==
  ASSUME NEW r, NEW f, NEW g, AtWork(r, f, g)
  PROVE  /\ Works(r, f, g) /\ Lag(r, f, g) /\ r \notin late
         /\ f \in Sent \cup {Nothing} /\ g \in Nat
         /\ Me = node[r] /\ Me \in Node /\ r \in Nodes /\ r \in Nat
         /\ r \in Address /\ r # Broadcast
         /\ SlotStart(r) \in Nat /\ Tno_token <= SlotStart(r)
         /\ faults \in Nat /\ faults <= MaxFaults
         /\ Me.silence \in Nat
  BY PoweredType, SlotType, AddressType
     DEF AtWork, RingInv, LastFrame, Works, Me

(* A node with the bus to itself that passes the token or polls,           *)
LEMMA PassesAlone ==
  ASSUME NEW r, NEW f, NEW g, AtWork(r, f, g), Clear(r, Broadcast),
         NEW new \in Node, new.valid = None, NEW n \in Address, PassTo(n, new)
  PROVE  OneSpeaks'
  <1> DEFINE it == [new EXCEPT !.state = "PASS_TOKEN", !.next = n,
                               !.retries = 0, !.active = FALSE]
             h == [type |-> "TOKEN", dst |-> n, src |-> r]
  <1>1. it \in Node /\ it.valid = None /\ it.state = "PASS_TOKEN"
    BY Values DEF Node, MasterStates
  <1>2. Sends("TOKEN", n, it)
    BY DEF PassTo
  <1>3. n # Broadcast
    BY DEF Address, Broadcast
  <1>4. SentState("TOKEN", n, it.state)
    BY <1>1, <1>3 DEF SentState
  <1> HIDE DEF it
  <1>5. RingInv(h, 0)'
    BY <1>1, <1>2, <1>4, AtWorkFacts, SendsAlone DEF AtWork
  <1>6. h \in Sent
    BY <1>3, AtWorkFacts DEF Sent, Frame
  <1> HIDE DEF h
  <1> QED BY <1>5, <1>6 DEF OneSpeaks

LEMMA PollsAlone ==
  ASSUME NEW r, NEW f, NEW g, AtWork(r, f, g), Clear(r, Broadcast),
         NEW new \in Node, new.valid = None, NEW n \in Address, PollFor(n, new)
  PROVE  OneSpeaks'
  <1> DEFINE it == [new EXCEPT !.state = "POLL_FOR_MASTER", !.poll = n,
                               !.retries = 0]
             h == [type |-> "POLL_FOR_MASTER", dst |-> n, src |-> r]
  <1>1. it \in Node /\ it.valid = None /\ it.state = "POLL_FOR_MASTER"
    BY Values DEF Node, MasterStates
  <1>2. Sends("POLL_FOR_MASTER", n, it)
    BY DEF PollFor
  <1>3. n # Broadcast
    BY DEF Address, Broadcast
  <1>4. SentState("POLL_FOR_MASTER", n, it.state)
    BY <1>1, <1>3 DEF SentState
  <1> HIDE DEF it
  <1>5. RingInv(h, 0)'
    BY <1>1, <1>2, <1>4, AtWorkFacts, SendsAlone DEF AtWork
  <1>6. h \in Sent
    BY <1>3, AtWorkFacts DEF Sent, Frame
  <1> HIDE DEF h
  <1> QED BY <1>5, <1>6 DEF OneSpeaks

(* What the states of a node at work say.                                   *)
LEMMA WorkCases ==
  ASSUME NEW r, NEW f, NEW g, AtWork(r, f, g)
  PROVE  /\ Me.state \in Listening => WorksListening(r, f, g)
         /\ Me.state \in { "USE_TOKEN", "DONE_WITH_TOKEN" } => WorksToken(r)
         /\ Me.state = "PASS_TOKEN" => WorksSent(r, f, g) \/ WorksUser(r, f)
         /\ Me.state = "POLL_FOR_MASTER" => WorksSent(r, f, g) \/ WorksReply(r, f)
         /\ uart[r] # << >> \/ Me.valid # None => Me.silence = 0 /\ Me.active
         /\ Me.valid # Invalid
  <1>1. Works(r, f, g) /\ Me = node[r]
    BY AtWorkFacts
  <1>2. Me.valid # Invalid
    <2>1. \A x \in Sent : x # Invalid
      BY DEF Sent, Frame, Invalid
    <2>2. None # Invalid
      BY DEF None, Invalid
    <2> QED BY <1>1, <2>1, <2>2 DEF Works, Holding
  <1> QED
    BY <1>1, <1>2 DEF Works, WorksListening, WorksToken, WorksSent, HasSent,
                      WorksUser, WorksReply, Answered, Listening

LEMMA ListensFrom ==
  ASSUME NEW r, NEW f, NEW g, AtWork(r, f, g)
  PROVE  Me.silence < Tno_token =>
           /\ Listens(r, f)
           /\ UpToDate(r, f) => /\ Me.silence + 1 <= SlotStart(r)
                                /\ Me.silence <= SlotStart(r) + 1
                                /\ g <= SlotStart(r) + 1 + faults
  <1> SUFFICES ASSUME Me.silence < Tno_token
               PROVE  /\ Listens(r, f)
                      /\ UpToDate(r, f) => /\ Me.silence + 1 <= SlotStart(r)
                                           /\ Me.silence <= SlotStart(r) + 1
                                           /\ g <= SlotStart(r) + 1 + faults
    OBVIOUS
  <1>1. Me.silence < SlotStart(r)
    BY AtWorkFacts
  <1>2. UpToDate(r, f) => g <= Me.silence + 1 + faults
    BY AtWorkFacts DEF Lag, Tardy
  <1> QED BY <1>1, <1>2, AtWorkFacts DEF Listens

LEMMA Continues ==
  ASSUME NEW r, NEW f, NEW g, AtWork(r, f, g),
         NEW new \in Node, Becomes(new), Silent, Continue,
         new.silence = Me.silence,
         \/ new.active = Me.active
         \/ uart[r] = << >> /\ new.valid = None,
         new.valid \in {None, Me.valid},
         \/ /\ new.state \in Listening
            /\ Listens(r, f)
            /\ UpToDate(r, f) => /\ Me.silence <= SlotStart(r) + 1
                                 /\ g <= SlotStart(r) + 1 + faults
         \/ /\ new.state \in { "USE_TOKEN", "DONE_WITH_TOKEN" }
            /\ new.valid = None /\ Clear(r, Broadcast)
  PROVE  OneSpeaks'
  <1>1. Works(r, f, g) /\ Me = node[r] /\ r \in Nodes
    BY AtWorkFacts
  <1>2. /\ node'[r] = new /\ \A n \in powered : n # r => node'[n] = node[n]
        /\ node' = [node EXCEPT ![r] = new]
        /\ UNCHANGED <<powered, uart, late, turn, running, faults, air>>
    BY <1>1, PoweredType DEF AtWork, Becomes, Continue, Silent, TypeInv, TypeOK
  <1>3. /\ (uart[r] # << >> \/ new.valid # None) => new.silence = 0 /\ new.active
    BY <1>1 DEF Works
  <1>4. Holding(r, f, g)'
    BY <1>1, <1>2 DEF Works, Holding
  <1>5. CASE /\ new.state \in Listening
             /\ Listens(r, f)
             /\ UpToDate(r, f) => /\ Me.silence <= SlotStart(r) + 1
                                  /\ g <= SlotStart(r) + 1 + faults
    <2>1. WorksListening(r, f, g)'
      BY <1>1, <1>2, <1>5 DEF WorksListening, Listens, WillHear, UpToDate
    <2>2. Works(r, f, g)'
      BY <1>1, <1>2, <1>3, <1>4, <2>1 DEF Works
    <2>3. RingInv(f, g)'
      BY <1>1, <1>2, <2>2, RunsOn DEF AtWork
    <2> QED BY <2>3, AtWorkFacts DEF OneSpeaks
  <1>6. CASE /\ new.state \in { "USE_TOKEN", "DONE_WITH_TOKEN" }
             /\ new.valid = None /\ Clear(r, Broadcast)
    <2>1. Clear(r, Broadcast)'
      BY <1>2, <1>6 DEF Clear, Yields
    <2>2. WorksToken(r)'
      BY <1>2, <1>6, <2>1 DEF WorksToken
    <2>3. Works(r, f, g)'
      BY <1>1, <1>2, <1>3, <1>4, <2>2 DEF Works
    <2>4. RingInv(f, g)'
      BY <1>1, <1>2, <2>3, RunsOn DEF AtWork
    <2> QED BY <2>4, AtWorkFacts DEF OneSpeaks
  <1> QED BY <1>5, <1>6

LEMMA Rests ==
  ASSUME NEW r, NEW f, NEW g, AtWork(r, f, g),
         NEW new \in Node, node' = [node EXCEPT ![r] = new], Silent, Return,
         new.silence = Me.silence, new.valid = None,
         \/ /\ new.state \in Listening
            /\ Listens(r, f)
            /\ UpToDate(r, f) => Me.silence + 1 <= SlotStart(r)
         \/ /\ new.state = Me.state
            /\ \/ HasSent(r, f, g) /\ g <= Tusage_timeout
               \/ WaitsForUser(r, f)
               \/ WaitsForReply(r, f)
  PROVE  OneSpeaks'
  <1>1. Works(r, f, g) /\ Me = node[r] /\ r \in Nodes /\ g \in Nat
        /\ SlotStart(r) \in Nat /\ Me.silence \in Nat
    BY AtWorkFacts
  <1>2. /\ UNCHANGED <<powered, uart, late, faults, air>> /\ ~running'
        /\ turn' = Following(turn, powered)
        /\ node'[r] = new
    BY <1>1 DEF AtWork, Silent, Return, TypeInv, TypeOK
  <1>3. Due(r)' = 0 /\ Tardy(r)' = 0
    BY <1>1, <1>2, TurnPasses DEF AtWork, TypeInv, Works, Tardy
  <1>4. Waits(r, f, g)'
    <2>1. CASE /\ new.state \in Listening
               /\ Listens(r, f)
               /\ UpToDate(r, f) => Me.silence + 1 <= SlotStart(r)
      <3>1. WaitsListening(r, f)'
        BY <1>1, <1>2, <1>3, <2>1
           DEF WaitsListening, Listens, WillHear, UpToDate
      <3> QED BY <1>2, <3>1 DEF Waits
    <2>2. CASE new.state = Me.state /\ HasSent(r, f, g) /\ g <= Tusage_timeout
      <3>1. HasSent(r, f, g)'
        BY <1>1, <1>2, <2>2 DEF HasSent
      <3> QED BY <1>1, <1>2, <1>3, <2>2, <3>1 DEF Waits
    <2>3. CASE new.state = Me.state /\ WaitsForUser(r, f)
      BY <1>1, <1>2, <2>3 DEF WaitsForUser, Waits
    <2>4. CASE new.state = Me.state /\ WaitsForReply(r, f)
      BY <1>1, <1>2, <2>4 DEF WaitsForReply, Answered, Waits
    <2> QED BY <2>1, <2>2, <2>3, <2>4
  <1>5. RingInv(f, g)'
    BY <1>1, <1>4, ReturnsSilent DEF AtWork
  <1> QED BY <1>5, AtWorkFacts DEF OneSpeaks

LEMMA Expired ==
  ASSUME NEW r, NEW f, NEW g, AtWork(r, f, g), Me.silence > Tusage_timeout,
         Me.state \in { "PASS_TOKEN", "POLL_FOR_MASTER" }
  PROVE  Clear(r, Broadcast) /\ Me.valid = None
  <1>1. Me = node[r] /\ Me.silence # 0 /\ ~ (Me.silence <= Tusage_timeout)
    BY AtWorkFacts
  <1>2. ~ WorksUser(r, f)
    BY <1>1 DEF WorksUser
  <1>3. ~ WorksReply(r, f)
    <2>1. ASSUME WorksReply(r, f) PROVE Me.valid # None
      BY <1>1, <2>1 DEF WorksReply, Answered, None
    <2> QED BY <1>1, <2>1, WorkCases
  <1>4. WorksSent(r, f, g)
    BY <1>2, <1>3, WorkCases
  <1> QED BY <1>1, <1>4, TimeoutIsClear DEF AtWork, WorksSent

(***************************************************************************)
(* The transitions keep OneSpeaks, state by state.                         *)
(***************************************************************************)
LEMMA InitializationRings ==
  ASSUME NEW r, NEW f, NEW g, AtWork(r, f, g), DoneInitializing
  PROVE  OneSpeaks'
  <1> DEFINE new == [Me EXCEPT !.next = turn, !.poll = turn, !.tokens = Npoll,
                               !.sole = FALSE, !.state = "IDLE"]
  <1>1. Becomes(new) /\ Silent /\ Continue /\ Me.state = "INITIALIZE"
    BY DEF DoneInitializing, In
  <1>2. /\ new \in Node /\ new.state = "IDLE" /\ new.silence = Me.silence
        /\ new.active = Me.active /\ new.valid = Me.valid
    BY AtWorkFacts, Values DEF Node, MasterStates, AtWork
  <1>3. WorksListening(r, f, g)
    BY <1>1, WorkCases DEF Listening
  <1> HIDE DEF new
  <1> QED BY <1>1, <1>2, <1>3, AtWorkFacts, Continues
     DEF WorksListening, Listening

LEMMA IdleRings ==
  ASSUME NEW r, NEW f, NEW g, AtWork(r, f, g),
         LostToken \/ IdleWaits \/ ReceivedToken \/ ReceivedPFM
  PROVE  OneSpeaks'
  <1>1. Me.state = "IDLE" /\ WorksListening(r, f, g)
    BY WorkCases
       DEF Listening, LostToken, IdleWaits, ReceivedToken, ReceivedPFM,
                     Idle, In
  <1>2. CASE LostToken
    <2> DEFINE new == [Me EXCEPT !.active = FALSE, !.valid = None,
                                 !.state = "NO_TOKEN"]
    <2>1. Becomes(new) /\ Silent /\ Continue /\ Me.silence >= Tno_token
      BY <1>2 DEF LostToken
    <2>2. /\ new \in Node /\ new.state = "NO_TOKEN" /\ new.silence = Me.silence
          /\ new.valid = None
      BY AtWorkFacts, Values DEF Node, MasterStates
    <2>3. uart[r] = << >>
      BY <2>1, WorkCases, AtWorkFacts
    <2> HIDE DEF new
    <2> QED BY <1>1, <2>1, <2>2, <2>3, AtWorkFacts, Continues
            DEF WorksListening, Listening
  <1>3. CASE IdleWaits
    <2> DEFINE new == [Me EXCEPT !.valid = None]
    <2>1. Becomes(new) /\ Silent /\ Return /\ Me.silence < Tno_token
      BY <1>3 DEF IdleWaits, Idle
    <2>2. /\ new \in Node /\ new.state = Me.state /\ new.silence = Me.silence
          /\ new.valid = None
      BY AtWorkFacts, Values DEF Node
    <2>3. node' = [node EXCEPT ![r] = new]
      BY <2>1 DEF Becomes, AtWork
    <2> HIDE DEF new
    <2> QED BY <1>1, <2>1, <2>2, <2>3, ListensFrom, Rests DEF Listening
  <1>4. CASE ReceivedToken
    <2> DEFINE new == [Me EXCEPT !.valid = None, !.sole = FALSE,
                                 !.state = "USE_TOKEN"]
    <2>1. Becomes(new) /\ Silent /\ Continue /\ Me.valid.type = "TOKEN"
      BY <1>4 DEF ReceivedToken, Gets
    <2>2. /\ new \in Node /\ new.state = "USE_TOKEN" /\ new.silence = Me.silence
          /\ new.active = Me.active /\ new.valid = None
      BY AtWorkFacts, Values DEF Node, MasterStates
    <2>3. Clear(r, Broadcast)
      <3>1. Me.valid # None
        BY <2>1 DEF None
      <3>2. Me.valid = f
        BY <2>1, <3>1, AtWorkFacts, AddressedIsClear DEF AtWork
      <3> QED BY <2>1, <3>1, <3>2, AtWorkFacts, AddressedIsClear DEF AtWork
    <2> HIDE DEF new
    <2> QED BY <2>1, <2>2, <2>3, Continues
  <1>5. CASE ReceivedPFM
    <2> DEFINE new == [Me EXCEPT !.valid = None]
    <2>1. /\ Sends("REPLY_TO_POLL_FOR_MASTER", Me.valid.src, new)
          /\ Me.valid.type = "POLL_FOR_MASTER"
      BY <1>5 DEF ReceivedPFM, Gets
    <2>2. /\ new \in Node /\ new.state = Me.state /\ new.valid = None
      BY AtWorkFacts, Values DEF Node
    <2>3. Me.valid = f /\ Clear(r, f.src)
      <3>1. Me.valid # None
        BY <2>1 DEF None
      <3> QED BY <2>1, <3>1, AtWorkFacts, AddressedIsClear DEF AtWork
    <2> DEFINE p == f.src
               h == [type |-> "REPLY_TO_POLL_FOR_MASTER", dst |-> p, src |-> r]
    <2>4. p \in Address /\ p # Broadcast
      <3>1. f \in Frame
        BY <2>1, <2>3, AtWorkFacts DEF Sent, Nothing
      <3> QED BY <3>1 DEF Frame, Address, Broadcast
    <2>5. SentState("REPLY_TO_POLL_FOR_MASTER", p, new.state)
      BY <1>1, <2>2, <2>4 DEF SentState, Listening
    <2>6. RingInv(h, 0)'
      <3>1. Sends("REPLY_TO_POLL_FOR_MASTER", p, new) /\ Clear(r, p)
        BY <2>1, <2>3
      <3> HIDE DEF new, p
      <3> QED BY <2>2, <2>4, <2>5, <3>1, AtWorkFacts, SendsAlone DEF AtWork
    <2>7. h \in Sent
      BY <2>4, AtWorkFacts DEF Sent, Frame
    <2> HIDE DEF h
    <2> QED BY <2>6, <2>7 DEF OneSpeaks
  <1> QED BY <1>2, <1>3, <1>4, <1>5

LEMMA UseRings ==
  ASSUME NEW r, NEW f, NEW g, AtWork(r, f, g), SendIAm \/ NothingToSend
  PROVE  OneSpeaks'
  <1>1. /\ Me.state = "USE_TOKEN"
        /\ Me.valid = None /\ Clear(r, Broadcast) /\ uart[r] = << >>
    BY WorkCases, AtWorkFacts DEF WorksToken, Clear, SendIAm, NothingToSend, In
  <1>2. CASE SendIAm
    <2> DEFINE new == [Me EXCEPT !.iam = FALSE, !.state = "DONE_WITH_TOKEN"]
               h == [type |-> "DATA_NOT_EXPECTING_REPLY", dst |-> Broadcast,
                     src |-> r]
    <2>1. Sends("DATA_NOT_EXPECTING_REPLY", Broadcast, new)
      BY <1>2 DEF SendIAm
    <2>2. new \in Node /\ new.state = "DONE_WITH_TOKEN" /\ new.valid = None
      BY <1>1, AtWorkFacts DEF Node, MasterStates
    <2>3. SentState("DATA_NOT_EXPECTING_REPLY", Broadcast, new.state)
      BY <2>2 DEF SentState
    <2> HIDE DEF new
    <2>4. RingInv(h, 0)'
      BY <1>1, <2>1, <2>2, <2>3, AtWorkFacts, SendsAlone DEF AtWork
    <2>5. h \in Sent
      BY AtWorkFacts DEF Sent, Frame
    <2> HIDE DEF h
    <2> QED BY <2>4, <2>5 DEF OneSpeaks
  <1>3. CASE NothingToSend
    <2> DEFINE new == [Me EXCEPT !.state = "DONE_WITH_TOKEN"]
    <2>1. Becomes(new) /\ Silent /\ Continue
      BY <1>3 DEF NothingToSend
    <2>2. /\ new \in Node /\ new.state = "DONE_WITH_TOKEN" /\ new.valid = None
          /\ new.silence = Me.silence /\ new.active = Me.active
      BY <1>1, AtWorkFacts DEF Node, MasterStates
    <2> HIDE DEF new
    <2> QED BY <1>1, <2>1, <2>2, Continues
  <1> QED BY <1>2, <1>3

(* The transitions of DONE_WITH_TOKEN.                                     *)
DoneStep ==
  \/ NextStationUnknown \/ SoleMasterAgain \/ SendToken
  \/ SoleMasterRestartMaintenancePFM \/ ResetMaintenancePFM
  \/ SendMaintenancePFM

LEMMA DoneRings ==
  ASSUME NEW r, NEW f, NEW g, AtWork(r, f, g), DoneStep
  PROVE  OneSpeaks'
  <1>1. Me.state = "DONE_WITH_TOKEN"
    BY
       DEF DoneStep, NextStationUnknown, SoleMasterAgain, SendToken,
           NextStationKnown,
           SoleMasterRestartMaintenancePFM, ResetMaintenancePFM,
           SendMaintenancePFM, MaintenanceDue, In
  <1>2. /\ Me.valid = None /\ Clear(r, Broadcast)
        /\ turn \in Nat /\ turn \in Address /\ Me \in Node
        /\ Me.next \in Address /\ Me.next \in Nat /\ Me.poll \in Nat
    BY <1>1, WorkCases, AtWorkFacts, AddressType DEF WorksToken, AtWork, Node
  <1>3. CASE NextStationUnknown
    BY <1>2, <1>3, NextInRing, PollsAlone DEF NextStationUnknown
  <1>4. CASE SoleMasterAgain
    <2> DEFINE new == [Me EXCEPT !.tokens = Counted, !.state = "USE_TOKEN"]
    <2>1. Becomes(new) /\ Silent /\ Continue
      BY <1>4 DEF SoleMasterAgain
    <2>2. Counted \in 0 .. Npoll
      BY <1>2, <1>4 DEF SoleMasterAgain, Counted, Node
    <2>3. /\ new \in Node /\ new.state = "USE_TOKEN" /\ new.valid = None
          /\ new.silence = Me.silence /\ new.active = Me.active
      BY <1>2, <2>2 DEF Node, MasterStates
    <2> HIDE DEF new
    <2> QED BY <1>2, <2>1, <2>3, Continues
  <1>5. CASE SendToken
    <2> DEFINE new == [Me EXCEPT !.tokens = Counted]
    <2>1. PassTo(Me.next, new)
      BY <1>5 DEF SendToken
    <2>2. Counted \in 0 .. Npoll
      BY <1>2, <1>5 DEF SendToken, Counted, Node
    <2>3. new \in Node /\ new.valid = None
      BY <1>2, <2>2 DEF Node
    <2> HIDE DEF new
    <2> QED BY <1>2, <2>1, <2>3, PassesAlone
  <1>6. CASE SoleMasterRestartMaintenancePFM
    <2> DEFINE new == [Me EXCEPT !.next = turn, !.tokens = 1]
               n == NextAddress(Me.next)
    <2>1. PollFor(n, new)
      BY <1>6 DEF SoleMasterRestartMaintenancePFM
    <2>2. new \in Node /\ new.valid = None /\ n \in Address
      BY <1>2, NextInRing, Values DEF Node
    <2> HIDE DEF new, n
    <2> QED BY <1>2, <2>1, <2>2, PollsAlone
  <1>7. CASE ResetMaintenancePFM
    <2> DEFINE new == [Me EXCEPT !.poll = turn, !.tokens = 1]
    <2>1. PassTo(Me.next, new)
      BY <1>7 DEF ResetMaintenancePFM
    <2>2. new \in Node /\ new.valid = None
      BY <1>2, Values DEF Node
    <2> HIDE DEF new
    <2> QED BY <1>2, <2>1, <2>2, PassesAlone
  <1>8. CASE SendMaintenancePFM
    BY <1>2, <1>8, NextInRing, PollsAlone DEF SendMaintenancePFM
  <1> QED BY <1>3, <1>4, <1>5, <1>6, <1>7, <1>8 DEF DoneStep

LEMMA PassRings ==
  ASSUME NEW r, NEW f, NEW g, AtWork(r, f, g),
         SawTokenUser \/ WaitForTokenUser \/ RetrySendToken \/ FindNewSuccessor
  PROVE  OneSpeaks'
  <1>1. /\ Me.state = "PASS_TOKEN" /\ Me \in Node /\ Me = node[r]
        /\ Me.next \in Address /\ Me.next \in Nat
        /\ turn \in Address /\ turn = r
    BY AtWorkFacts, AddressType
      
          DEF SawTokenUser, WaitForTokenUser, RetrySendToken, FindNewSuccessor,
              In,
           AtWork, Node
  <1>2. WorksSent(r, f, g) \/ WorksUser(r, f)
    BY <1>1, WorkCases
  <1>3. Margins /\ Me.silence \in Nat
    BY AtWorkFacts DEF AtWork
  <1>4. CASE SawTokenUser
    <2> DEFINE new == [Me EXCEPT !.state = "IDLE"]
    <2>1. Becomes(new) /\ Silent /\ Continue /\ Me.silence < Tno_token
      BY <1>3, <1>4 DEF SawTokenUser, Margins
    <2>2. /\ new \in Node /\ new.state = "IDLE" /\ new.silence = Me.silence
          /\ new.active = Me.active /\ new.valid = Me.valid
      BY <1>1 DEF Node, MasterStates
    <2> HIDE DEF new
    <2> QED BY <2>1, <2>2, ListensFrom, Continues DEF Listening
  <1>5. CASE WaitForTokenUser
    <2>1. /\ node' = node /\ Silent /\ Return
          /\ Me.silence <= Tusage_timeout /\ ~Me.active
      BY <1>5 DEF WaitForTokenUser
    <2>2. Me.valid = None
      BY <2>1, WorkCases
    <2>3. \/ HasSent(r, f, g) /\ g <= Tusage_timeout
          \/ WaitsForUser(r, f)
      BY <1>1, <1>2, <2>1 DEF WorksSent, WorksUser, HasSent, WaitsForUser
    <2>4. node' = [node EXCEPT ![r] = Me]
      BY <1>1, <2>1, AtWorkFacts DEF TypeInv, TypeOK, AtWork
    <2> QED BY <1>1, <2>1, <2>2, <2>3, <2>4, Rests
  <1>6. CASE RetrySendToken
    <2>1. PICK n \in Address : n = Me.next
      BY <1>1
    <2> DEFINE new == [Me EXCEPT !.retries = @ + 1, !.active = FALSE]
               h == [type |-> "TOKEN", dst |-> n, src |-> r]
    <2>2. Sends("TOKEN", n, new) /\ Me.silence > Tusage_timeout
      BY <1>6, <2>1 DEF RetrySendToken
    <2>3. Clear(r, Broadcast) /\ Me.valid = None
      BY <1>1, <2>2, Expired
    <2>4. new \in Node /\ new.state = "PASS_TOKEN" /\ new.valid = None
      <3>1. Me.retries + 1 \in 0 .. Nretry_token
        BY <1>1, <1>6 DEF RetrySendToken, Node
      <3> QED BY <1>1, <2>3, <3>1 DEF Node
    <2>5. n # Broadcast
      BY DEF Address, Broadcast
    <2>6. SentState("TOKEN", n, new.state)
      BY <2>4, <2>5 DEF SentState
    <2> HIDE DEF new
    <2>7. RingInv(h, 0)'
      BY <2>2, <2>3, <2>4, <2>6, AtWorkFacts, SendsAlone DEF AtWork
    <2>8. h \in Sent
      BY <2>5, AtWorkFacts DEF Sent, Frame
    <2> HIDE DEF h
    <2> QED BY <2>7, <2>8 DEF OneSpeaks
  <1>7. CASE FindNewSuccessor
    <2> DEFINE new == [Me EXCEPT !.next = turn, !.tokens = 0]
               n == NextAddress(Me.next)
    <2>1. PollFor(n, new) /\ Me.silence > Tusage_timeout
      BY <1>7 DEF FindNewSuccessor
    <2>2. Clear(r, Broadcast) /\ Me.valid = None
      BY <1>1, <2>1, Expired
    <2>3. new \in Node /\ new.valid = None /\ n \in Address
      BY <1>1, <2>2, NextInRing, Values DEF Node
    <2> HIDE DEF new, n
    <2> QED BY <2>1, <2>2, <2>3, PollsAlone
  <1> QED BY <1>4, <1>5, <1>6, <1>7

LEMMA NoTokenRings ==
  ASSUME NEW r, NEW f, NEW g, AtWork(r, f, g),
         SawFrame \/ GenerateToken \/ StayNoToken
  PROVE  OneSpeaks'
  <1>1. /\ Me.state = "NO_TOKEN" /\ Me \in Node /\ Me = node[r]
        /\ turn \in Address /\ turn = r /\ turn \in Nat
    BY AtWorkFacts DEF SawFrame, GenerateToken, StayNoToken, In, AtWork
  <1>2. WorksListening(r, f, g)
    BY <1>1, WorkCases DEF Listening
  <1>3. CASE SawFrame
    <2> DEFINE new == [Me EXCEPT !.state = "IDLE"]
    <2>1. Becomes(new) /\ Silent /\ Continue
      BY <1>3 DEF SawFrame
    <2>2. /\ new \in Node /\ new.state = "IDLE" /\ new.silence = Me.silence
          /\ new.active = Me.active /\ new.valid = Me.valid
      BY <1>1 DEF Node, MasterStates
    <2> HIDE DEF new
    <2> QED BY <1>1, <1>2, <2>1, <2>2, Continues DEF Listening, WorksListening
  <1>4. CASE GenerateToken
    <2> DEFINE new == [Me EXCEPT !.next = turn, !.tokens = 0]
               n == NextAddress(turn)
    <2>1. PollFor(n, new) /\ Me.silence >= SlotStart(r)
      BY <1>1, <1>4 DEF GenerateToken
    <2>2. Clear(r, Broadcast)
      BY <1>1, <2>1, ClaimIsClear DEF AtWork, Listening
    <2>3. Me.valid = None
      BY <1>1, <2>1, WorkCases, AtWorkFacts
    <2>4. new \in Node /\ new.valid = None /\ n \in Address
      BY <1>1, <2>3, NextInRing, Values DEF Node
    <2> HIDE DEF new, n
    <2> QED BY <2>1, <2>2, <2>4, PollsAlone
  <1>5. CASE StayNoToken
    <2>1. /\ node' = node /\ Silent /\ Return
          /\ \/ Me.silence < SlotStart(r) /\ ~Me.active
             \/ Me.silence >= SlotStart(r) + Tslot
      BY <1>1, <1>5 DEF StayNoToken
    <2>2. Me.silence # 0 \/ ~Me.active
      BY <2>1, AtWorkFacts DEF AtWork, Margins
    <2>3. uart[r] = << >> /\ Me.valid = None
      BY <2>2, WorkCases
    <2>4. Me.silence < SlotStart(r)
      <3>1. Me.silence >= SlotStart(r) + Tslot => ~ UpToDate(r, f)
        BY <1>1, <1>2, AtWorkFacts DEF WorksListening, AtWork, Margins
      <3>2. ~ UpToDate(r, f) => Me.silence < SlotStart(r)
        BY <1>1, <1>2, <2>3 DEF UpToDate, WorksListening, Listens, WillHear
      <3> QED BY <2>1, <3>1, <3>2, AtWorkFacts
    <2>5. Listens(r, f) /\ Me.silence + 1 <= SlotStart(r)
      BY <1>2, <2>4, AtWorkFacts DEF WorksListening
    <2>6. node' = [node EXCEPT ![r] = Me]
      BY <1>1, <2>1, AtWorkFacts DEF TypeInv, TypeOK, AtWork
    <2> QED BY <1>1, <2>1, <2>3, <2>5, <2>6, Rests DEF Listening
  <1> QED BY <1>3, <1>4, <1>5

(* The transitions of POLL_FOR_MASTER.                                     *)
PollStep ==
  \/ ReceivedReplyToPFM \/ ReceivedUnexpectedFrame \/ WaitForReplyToPFM
  \/ SoleMasterPollFailed \/ DoneWithPFM \/ SendNextPFM \/ DeclareSoleMaster

LEMMA PollRings ==
  ASSUME NEW r, NEW f, NEW g, AtWork(r, f, g), PollStep
  PROVE  OneSpeaks'
  <1>1. Me.state = "POLL_FOR_MASTER"
    BY
       DEF PollStep, ReceivedReplyToPFM, ReceivedUnexpectedFrame,
           WaitForReplyToPFM,
           SoleMasterPollFailed, DoneWithPFM, SendNextPFM, DeclareSoleMaster,
           PollFailed, In
  <1>2. /\ Me \in Node /\ Me = node[r] /\ turn \in Address /\ turn = r
        /\ turn \in Nat
        /\ Me.next \in Address /\ Me.poll \in Nat
    BY AtWorkFacts, AddressType DEF AtWork, Node
  <1>3. WorksSent(r, f, g) \/ WorksReply(r, f)
    BY <1>1, WorkCases
  <1>4. CASE ReceivedReplyToPFM
    <2> DEFINE new == [Me EXCEPT !.sole = FALSE, !.poll = turn, !.tokens = 0,
                                 !.valid = None]
               n == Me.valid.src
    <2>1. PassTo(n, new) /\ Me.valid.type = "REPLY_TO_POLL_FOR_MASTER"
      BY <1>4 DEF ReceivedReplyToPFM, Gets
    <2>2. Me.valid # None
      BY <2>1 DEF None
    <2>3. Clear(r, Broadcast)
      <3>1. Me.valid = f
        BY <1>2, <2>1, <2>2, AddressedIsClear DEF AtWork
      <3> QED BY <1>2, <2>1, <2>2, <3>1, AddressedIsClear DEF AtWork
    <2>4. new \in Node /\ new.valid = None
      BY <1>2, Values DEF Node
    <2>5. n \in Address
      <3>1. Me.valid \in Frame
        BY <1>2, <2>1, SomeFrame DEF Node
      <3> QED BY <3>1 DEF Frame
    <2> HIDE DEF new, n
    <2> QED BY <2>1, <2>3, <2>4, <2>5, PassesAlone
  <1>5. ~ ReceivedUnexpectedFrame
    <2> SUFFICES ASSUME ReceivedUnexpectedFrame PROVE FALSE
      OBVIOUS
    <2>1. Me.valid # None
      BY DEF ReceivedUnexpectedFrame
    <2>2. WorksReply(r, f) /\ Me.valid = f
      BY <1>2, <1>3, <2>1 DEF WorksSent, WorksReply
    <2>3. f.type = "REPLY_TO_POLL_FOR_MASTER" /\ f.dst = r
      BY <2>2 DEF WorksReply, Answered
    <2> QED BY <1>2, <2>2, <2>3 DEF ReceivedUnexpectedFrame, Gets
  <1>6. CASE WaitForReplyToPFM
    <2>1. /\ node' = node /\ Silent /\ Return
          /\ Me.silence <= Tusage_timeout /\ Me.valid = None
      BY <1>6 DEF WaitForReplyToPFM
    <2>2. \/ HasSent(r, f, g) /\ g <= Tusage_timeout
          \/ WaitsForReply(r, f)
      <3>1. CASE WorksSent(r, f, g)
        BY <1>2, <2>1, <3>1 DEF WorksSent, HasSent
      <3>2. CASE WorksReply(r, f)
        <4>1. f # None
          BY <3>2 DEF WorksReply, Answered, None
        <4> QED BY <1>2, <2>1, <3>2, <4>1 DEF WorksReply, WaitsForReply
      <3> QED BY <1>3, <3>1, <3>2
    <2>3. node' = [node EXCEPT ![r] = Me]
      BY <1>2, <2>1, AtWorkFacts DEF TypeInv, TypeOK, AtWork
    <2> QED BY <1>2, <2>1, <2>2, <2>3, Rests
  <1>7. PollFailed => Clear(r, Broadcast) /\ Me.valid = None
    BY <1>1, WorkCases, Expired DEF PollFailed
  <1>8. CASE SoleMasterPollFailed
    <2> DEFINE new == [Me EXCEPT !.valid = None, !.state = "USE_TOKEN"]
    <2>1. Becomes(new) /\ Silent /\ Continue /\ PollFailed
      BY <1>8 DEF SoleMasterPollFailed
    <2>2. /\ new \in Node /\ new.state = "USE_TOKEN" /\ new.valid = None
          /\ new.silence = Me.silence /\ new.active = Me.active
      BY <1>2, Values DEF Node, MasterStates
    <2> HIDE DEF new
    <2> QED BY <1>7, <2>1, <2>2, Continues
  <1>9. CASE DoneWithPFM
    <2> DEFINE new == [Me EXCEPT !.valid = None]
    <2>1. PassTo(Me.next, new) /\ PollFailed
      BY <1>9 DEF DoneWithPFM
    <2>2. new \in Node /\ new.valid = None
      BY <1>2, Values DEF Node
    <2> HIDE DEF new
    <2> QED BY <1>2, <1>7, <2>1, <2>2, PassesAlone
  <1>10. CASE SendNextPFM
    <2> DEFINE new == [Me EXCEPT !.valid = None]
               n == NextAddress(Me.poll)
    <2>1. PollFor(n, new) /\ PollFailed
      BY <1>10 DEF SendNextPFM
    <2>2. new \in Node /\ new.valid = None /\ n \in Address
      BY <1>2, Values, NextInRing DEF Node
    <2> HIDE DEF new, n
    <2> QED BY <1>7, <2>1, <2>2, PollsAlone
  <1>11. CASE DeclareSoleMaster
    <2> DEFINE new == [Me EXCEPT !.sole = TRUE, !.valid = None,
                                 !.state = "USE_TOKEN"]
    <2>1. Becomes(new) /\ Silent /\ Continue /\ PollFailed
      BY <1>11 DEF DeclareSoleMaster
    <2>2. /\ new \in Node /\ new.state = "USE_TOKEN" /\ new.valid = None
          /\ new.silence = Me.silence /\ new.active = Me.active
      BY <1>2, Values DEF Node, MasterStates
    <2> HIDE DEF new
    <2> QED BY <1>7, <2>1, <2>2, Continues
  <1> QED BY <1>4, <1>5, <1>6, <1>8, <1>9, <1>10, <1>11 DEF PollStep

(* The call of r is due.                                                    *)
Called(r, f, g) ==
  /\ Margins /\ TypeInv /\ RingInv(f, g)
  /\ r \in powered /\ r = turn /\ ~running

LEMMA CalledFacts ==
  ASSUME NEW r, NEW f, NEW g, Called(r, f, g)
  PROVE  /\ LastFrame(f, g) /\ Backlog(r, f, g) /\ Lag(r, f, g) /\ Waits(r, f, g)
         /\ f \in Sent \cup {Nothing} /\ g \in Nat
         /\ Me = node[r] /\ Me \in Node /\ r \in Nodes /\ r \in Nat
         /\ SlotStart(r) \in Nat /\ Tno_token <= SlotStart(r)
         /\ faults \in Nat /\ faults <= MaxFaults
         /\ Me.silence \in Nat
         /\ Due(r) = 1 /\ Tardy(r) \in {0, 1}
         /\ Len(uart[r]) \in Nat
         /\ turn # EndOfTick
  <1>1. Due(r) = 1 /\ turn # EndOfTick
    BY PoweredType DEF Called, Due
  <1> QED BY <1>1, PoweredType, SlotType DEF Called, RingInv, LastFrame, Me

(* A call that comes late.                                                 *)
LEMMA SkipRings ==
  ASSUME NEW r, NEW f, NEW g, Called(r, f, g), Skip
  PROVE  OneSpeaks'
  <1>1. /\ UNCHANGED <<node, powered, uart, running, air>> /\ ~running'
        /\ turn' = Following(turn, powered) /\ turn # EndOfTick
        /\ r \notin late /\ late' = late \cup {r}
        /\ faults' = faults + 1
    BY CalledFacts DEF Skip, Fault, Called
  <1>2. /\ turn < turn'
        /\ \A n \in powered : n # r => Due(n)' = Due(n)
        /\ Due(r)' = 0 /\ Due(r) = 1 /\ Tardy(r)' = 1 /\ Tardy(r) = 0
        /\ \A n \in powered : n # r => Tardy(n)' = Tardy(n)
    BY <1>1, TurnPasses, CalledFacts DEF Called, Tardy
  <1>3. LastFrame(f, g)'
    <2>1. turn \in Nat /\ turn' \in Nat /\ f.src \in Nat
      <3>1. turn \in Nat /\ powered \subseteq Nat
        BY PoweredType, CalledFacts DEF Called
      <3> QED BY <1>1, <3>1, FollowingType, AddressType, CalledFacts, FrameType
              DEF TypeInv, TypeOK, Called
    <2> QED BY <1>1, <1>2, <2>1, CalledFacts DEF LastFrame
  <1>4. ASSUME NEW n \in powered
        PROVE  Backlog(n, f, g)' /\ Lag(n, f, g)' /\ Waits(n, f, g)'
    <2>1. Backlog(n, f, g) /\ Lag(n, f, g) /\ Waits(n, f, g)
      BY DEF RingInv, Called
    <2>2. /\ faults + Due(n) <= faults' + Due(n)'
          /\ Due(n)' + Tardy(n)' = Due(n) + Tardy(n)
          /\ Tardy(n)' <= Tardy(n) + 1
          /\ Due(n) \in Nat /\ Due(n)' \in Nat /\ Tardy(n) \in Nat /\ Tardy(n)' \in Nat
      <3>1. Due(n) \in {0, 1} /\ Due(n)' \in {0, 1} /\ Tardy(n) \in {0, 1} /\ Tardy(n)' \in {0, 1}
        BY DEF Due, Tardy
      <3> QED BY <1>1, <1>2, <3>1, CalledFacts
    <2>3. /\ Len(uart[n]) \in Nat /\ g \in Nat /\ faults \in Nat
          /\ node[n].silence \in Nat /\ SlotStart(n) \in Nat
      BY PoweredType, CalledFacts, SlotType DEF Called
    <2>4. Backlog(n, f, g)'
      <3>1. \A k \in Nat : k <= faults + Due(n) => k <= faults' + Due(n)'
        BY <1>1, <2>2, <2>3
      <3>2. g + Len(uart[n]) <= faults + 1 + Due(n)
              => g + Len(uart[n]) <= faults' + 1 + Due(n)'
        BY <1>1, <2>2, <2>3
      <3> QED BY <1>1, <2>1, <2>3, <3>1, <3>2 DEF Backlog
    <2>5. Lag(n, f, g)'
      <3>1. g + Tardy(n) <= node[n].silence + 1 + faults
              => g + Tardy(n)' <= node[n].silence + 1 + faults'
        <4>1. faults' = faults + 1 /\ Tardy(n)' <= Tardy(n) + 1
          BY <1>1, <2>2
        <4>2. \A t, u, s, k \in Nat :
                u <= t + 1 /\ g + t <= s + 1 + k => g + u <= s + 1 + (k + 1)
          BY <2>3
        <4> QED BY <2>2, <2>3, <4>1, <4>2
      <3> QED BY <1>1, <2>1, <3>1 DEF Lag, UpToDate
    <2>6. Waits(n, f, g)'
      <3>4. node[n].silence + 1 <= SlotStart(n) + Due(n) + Tardy(n)
              => node[n].silence + 1 <= SlotStart(n) + Due(n)' + Tardy(n)'
        BY <2>2, <2>3
      <3>1. WaitsListening(n, f) => WaitsListening(n, f)'
        BY <1>1, <3>4 DEF WaitsListening, Listens, WillHear, UpToDate
      <3>2. /\ HasSent(n, f, g) => HasSent(n, f, g)'
            /\ WaitsForUser(n, f) => WaitsForUser(n, f)'
            /\ WaitsForReply(n, f) => WaitsForReply(n, f)'
        BY <1>1 DEF HasSent, WaitsForUser, WaitsForReply, Answered
      <3>3. g <= Tusage_timeout + Due(n) + Tardy(n)
              => g <= Tusage_timeout + Due(n)' + Tardy(n)'
        BY <2>2, <2>3
      <3> QED BY <1>1, <2>1, <3>1, <3>2, <3>3 DEF Waits
    <2> QED BY <2>4, <2>5, <2>6
  <1>5. RingInv(f, g)'
    BY <1>1, <1>3, <1>4 DEF RingInv
  <1> QED BY <1>5, CalledFacts DEF OneSpeaks

(* The first half of a call: what the receiver does.                        *)
LEMMA ReceiverRings ==
  ASSUME NEW r, NEW f, NEW g, Called(r, f, g), Update,
         \A n \in powered : n # r => node'[n] = node[n] /\ uart'[n] = uart[n],
         Backlog(r, f, g)', Lag(r, f, g)', Works(r, f, g)'
  PROVE  OneSpeaks'
  <1>1. /\ UNCHANGED <<powered, turn, air, faults>> /\ running'
        /\ late' = late \ {r}
    BY DEF Update, Called
  <1>2. LastFrame(f, g)'
    BY <1>1, CalledFacts DEF LastFrame
  <1>3. ASSUME NEW n \in powered, n # r
        PROVE  Backlog(n, f, g)' /\ Lag(n, f, g)' /\ Waits(n, f, g)'
    <2>1. Backlog(n, f, g) /\ Lag(n, f, g) /\ Waits(n, f, g)
      BY <1>3 DEF RingInv, Called
    <2>2. Due(n)' = Due(n) /\ Tardy(n)' = Tardy(n)
          /\ node'[n] = node[n] /\ uart'[n] = uart[n]
      BY <1>1, <1>3 DEF Due, Tardy, Called
    <2>3. Backlog(n, f, g)'
      BY <1>1, <2>1, <2>2 DEF Backlog
    <2>4. Lag(n, f, g)'
      BY <1>1, <2>1, <2>2 DEF Lag, UpToDate
    <2>5. Waits(n, f, g)'
      BY <1>1, <2>1, <2>2
         DEF Waits, WaitsListening, HasSent, WaitsForUser, WaitsForReply,
             Answered, Listens, WillHear, UpToDate
    <2> QED BY <2>3, <2>4, <2>5
  <1>4. RingInv(f, g)'
    BY <1>1, <1>2, <1>3 DEF RingInv, Called
  <1> QED BY <1>4, CalledFacts DEF OneSpeaks

LEMMA ReceiveNothingRings ==
  ASSUME NEW r, NEW f, NEW g, Called(r, f, g), ReceiveNothing
  PROVE  OneSpeaks'
  <1>1. /\ Update /\ UNCHANGED <<node, uart, turn, air, faults, powered>> /\ running'
        /\ late' = late \ {r}
        /\ node[r].valid = None /\ uart[r] = << >>
    BY CalledFacts DEF ReceiveNothing, Update, Called, Waits
  <1>2. Due(r)' = 0 /\ Tardy(r)' = 0
    BY <1>1, CalledFacts DEF Due, Tardy, Called
  <1>3. Backlog(r, f, g)'
    BY <1>1, <1>2, CalledFacts DEF Backlog
  <1>4. Lag(r, f, g)'
    BY <1>1, <1>2, CalledFacts DEF Lag, UpToDate
  <1>5. Works(r, f, g)'
    <2>1. r \notin late' /\ Holding(r, f, g)' /\ uart'[r] = << >> /\ node'[r].valid = None
      BY <1>1 DEF Holding
    <2>2. CASE WaitsListening(r, f)
      <3>1. UpToDate(r, f) => /\ node[r].silence <= SlotStart(r) + 1
                              /\ g <= SlotStart(r) + 1 + faults
        BY <2>2, CalledFacts DEF WaitsListening, Lag
      <3>2. WorksListening(r, f, g)'
        BY <1>1, <2>2, <3>1
           DEF WaitsListening, WorksListening, Listens, WillHear, UpToDate
      <3> QED BY <2>1, <3>2 DEF Works
    <2>3. CASE HasSent(r, f, g) /\ g <= Tusage_timeout + Due(r) + Tardy(r)
      <3>1. HasSent(r, f, g)' /\ g <= Tusage_timeout + 2
        BY <1>1, <2>3, CalledFacts DEF HasSent
      <3>2. CASE node[r].state = "DONE_WITH_TOKEN"
        <4>1. Clear(r, Broadcast)
          BY <2>3, <3>1, <3>2, ResumedIsClear DEF Called
        <4>2. Clear(r, Broadcast)'
          BY <1>1, <4>1 DEF Clear, Yields
        <4>3. WorksToken(r)'
          BY <1>1, <3>2, <4>2 DEF WorksToken
        <4> QED BY <2>1, <4>3 DEF Works
      <3>3. CASE node[r].state # "DONE_WITH_TOKEN"
        BY <1>1, <2>1, <3>1, <3>3 DEF Works, WorksSent
      <3> QED BY <3>2, <3>3
    <2>4. CASE WaitsForUser(r, f)
      <3>1. WorksUser(r, f)'
        BY <1>1, <2>4 DEF WaitsForUser, WorksUser
      <3> QED BY <2>1, <3>1 DEF Works
    <2>5. CASE WaitsForReply(r, f)
      <3>1. WorksReply(r, f)'
        BY <1>1, <2>5 DEF WaitsForReply, WorksReply, Answered
      <3> QED BY <2>1, <3>1 DEF Works
    <2> QED BY <2>2, <2>3, <2>4, <2>5, CalledFacts DEF Waits
  <1> QED BY <1>1, <1>3, <1>4, <1>5, ReceiverRings

LEMMA ReceiveFrameRings ==
  ASSUME NEW r, NEW f, NEW g, Called(r, f, g), ReceiveFrame
  PROVE  OneSpeaks'
  <1> DEFINE h == Head(uart[r])
  <1>1. /\ Update /\ UNCHANGED <<turn, air, faults, powered>> /\ running'
        /\ late' = late \ {r}
        /\ node[r].valid = None /\ uart[r] # << >>
        /\ uart[r] \in Seq(Frame \cup {Garbage, Invalid})
        /\ uart \in [Nodes -> Seq(Frame \cup {Garbage, Invalid})]
        /\ node \in [Nodes -> Node]
    BY CalledFacts DEF ReceiveFrame, Update, Called, Waits, TypeInv, TypeOK
  <1>2. /\ Len(uart[r]) >= 1 /\ h = uart[r][1] /\ h \in Sent
        /\ r # f.src
    <2>1. Len(uart[r]) >= 1 /\ h = uart[r][1]
      BY <1>1
    <2>2. 1 \in 1 .. Len(uart[r])
      BY <2>1, CalledFacts
    <2> QED BY <1>1, <2>1, <2>2, CalledFacts DEF Backlog
  <1>3. /\ uart'[r] = Tail(uart[r])
        /\ Len(uart'[r]) = Len(uart[r]) - 1
        /\ \A i \in 1 .. Len(uart'[r]) : uart'[r][i] = uart[r][i + 1] /\ i + 1 \in 1 .. Len(uart[r])
        /\ \A n \in powered : n # r => uart'[n] = uart[n]
    <2>1. uart' = [uart EXCEPT ![r] = Tail(@)]
      BY DEF ReceiveFrame, Called
    <2>2. uart'[r] = Tail(uart[r])
      BY <1>1, <2>1, CalledFacts
    <2>3. \A n \in powered : n # r => uart'[n] = uart[n]
      BY <1>1, <2>1, PoweredType DEF Called
    <2> QED BY <1>1, <1>2, <2>2, <2>3
  <1>4. PICK v : /\ v = IF h.dst \in {r, Broadcast} THEN h ELSE None
                 /\ node' = [node EXCEPT ![r].silence = 0, ![r].active = TRUE,
                                         ![r].valid = v]
    <2>1. h # Garbage /\ h # Invalid
      BY <1>2 DEF Sent, Frame, Garbage, Invalid
    <2> QED BY <2>1 DEF ReceiveFrame, Called
  <1>5. /\ node'[r].silence = 0 /\ node'[r].active /\ node'[r].valid = v
        /\ node'[r].state = node[r].state
        /\ \A n \in powered : n # r => node'[n] = node[n]
    BY <1>1, <1>4, CalledFacts, PoweredType DEF Node, Called
  <1> HIDE DEF h
  <1>6. Due(r)' = 0 /\ Tardy(r)' = 0
    BY <1>1, CalledFacts DEF Due, Tardy, Called
  <1>7. air = {} => g + Len(uart[r]) <= faults + 2
    BY <1>1, CalledFacts DEF Backlog
  <1>8. Backlog(r, f, g)'
    <2>1. Len(uart'[r]) <= faults + 0
      BY <1>3, CalledFacts DEF Backlog
    <2>2. ASSUME NEW i \in 1 .. Len(uart'[r])
          PROVE  /\ uart'[r][i] \in Sent
                 /\ uart'[r][i].dst = r =>
                      i = Len(uart'[r]) /\ uart'[r][i] = f /\ air = {}
      BY <1>3, CalledFacts DEF Backlog
    <2>3. air = {} => g + Len(uart'[r]) <= faults + 1 + 0
      BY <1>3, <1>7, CalledFacts
    <2> QED BY <1>1, <1>2, <1>6, <2>1, <2>2, <2>3 DEF Backlog
  <1>9. Lag(r, f, g)'
    <2>1. UpToDate(r, f)' => air = {}
      BY <1>1, <1>2 DEF UpToDate
    <2>2. air = {} => g <= faults + 1
      BY <1>2, <1>7, CalledFacts
    <2>3. air = {} => g + 0 <= 0 + 1 + faults
      BY <2>2, CalledFacts
    <2>4. 0 <= g
      BY CalledFacts
    <2> QED BY <1>1, <1>5, <1>6, <2>1, <2>3, <2>4 DEF Lag
  <1>10. Holding(r, f, g)'
    <2>1. CASE h.dst = r
      <3>1. 1 = Len(uart[r]) /\ h = f /\ air = {}
        <4>1. 1 \in 1 .. Len(uart[r])
          BY <1>2, CalledFacts
        <4>2. uart[r][1].dst = r =>
                1 = Len(uart[r]) /\ uart[r][1] = f /\ air = {}
          BY <4>1, CalledFacts DEF Backlog
        <4> QED BY <1>2, <2>1, <4>2
      <3>2. uart'[r] = << >>
        <4>1. Len(uart'[r]) = 0 /\ uart'[r] \in Seq(Frame \cup {Garbage, Invalid})
          BY <1>1, <1>3, <3>1
        <4> QED BY <4>1
      <3>3. g <= faults + 1
        <4>1. g + Len(uart[r]) <= faults + 2
          BY <1>7, <3>1
        <4> QED BY <1>2, <4>1, CalledFacts
      <3> QED BY <1>1, <1>2, <1>4, <1>5, <2>1, <3>1, <3>2, <3>3 DEF Holding
    <2>2. CASE h.dst # r
      BY <1>2, <1>4, <1>5, <2>2 DEF Holding
    <2> QED BY <2>1, <2>2
  <1>11. Works(r, f, g)'
    <2>1. /\ r \notin late' /\ Holding(r, f, g)'
          /\ (uart'[r] # << >> \/ node'[r].valid # None) =>
               node'[r].silence = 0 /\ node'[r].active
      BY <1>1, <1>5, <1>10
    <2>2. CASE WaitsListening(r, f)
      <3>1. SlotStart(r) > 0 /\ 0 <= SlotStart(r) + 1
        BY CalledFacts DEF Called, Margins
      <3>2. UpToDate(r, f)' => g <= SlotStart(r) + 1 + faults
        <4>1. UpToDate(r, f)' => air = {}
          BY <1>1, <1>2 DEF UpToDate
        <4>2. air = {} => g <= SlotStart(r) + 1 + faults
          BY <1>2, <1>7, CalledFacts
        <4> QED BY <4>1, <4>2
      <3>3. WorksListening(r, f, g)'
        BY <1>1, <1>5, <2>2, <3>1, <3>2
           DEF WaitsListening, WorksListening, Listens
      <3> QED BY <2>1, <3>3 DEF Works
    <2>3. CASE WaitsForUser(r, f)
      <3>1. WorksUser(r, f)'
        BY <1>5, <2>3 DEF WaitsForUser, WorksUser
      <3> QED BY <2>1, <3>1 DEF Works
    <2>4. CASE WaitsForReply(r, f)
      <3>1. air = {} /\ uart[r] = <<f>> /\ f.dst = r
        BY <1>1, <2>4 DEF WaitsForReply, Answered
      <3>2. h = f
        BY <1>2, <3>1
      <3>3. WorksReply(r, f)'
        BY <1>1, <1>4, <1>5, <2>4, <3>1, <3>2
           DEF WaitsForReply, WorksReply, Answered
      <3> QED BY <2>1, <3>3 DEF Works
    <2>5. ~ HasSent(r, f, g)
      BY <1>2 DEF HasSent
    <2> QED BY <2>2, <2>3, <2>4, <2>5, CalledFacts DEF Waits
  <1> QED BY <1>1, <1>3, <1>5, <1>8, <1>9, <1>11, ReceiverRings

(***************************************************************************)
(* The bus, time and power; then all of Next.                              *)
(***************************************************************************)
LEMMA AsSequence ==
  /\ SetToSeq({}) = << >>
  /\ \A f : SetToSeq({f}) = <<f>>
  <1>1. IsFiniteSet({}) /\ Cardinality({}) = 0
    BY FS_EmptySet
  <1>2. SetToSeq({}) = << >>
    <2>1. << >> \in [1 .. Cardinality({}) -> {}] /\ IsInjective(<< >>)
      BY <1>1 DEF IsInjective
    <2>2. SetToSeq({}) \in [1 .. Cardinality({}) -> {}]
      BY <2>1 DEF SetToSeq
    <2> QED BY <1>1, <2>2
  <1>3. ASSUME NEW f PROVE SetToSeq({f}) = <<f>>
    <2>1. Cardinality({f}) = 1
      BY FS_Singleton
    <2>2. <<f>> \in [1 .. 1 -> {f}] /\ IsInjective(<<f>>)
      BY DEF IsInjective
    <2>3. SetToSeq({f}) \in [1 .. 1 -> {f}]
      BY <2>1, <2>2 DEF SetToSeq
    <2>4. \A x \in [1 .. 1 -> {f}] : x = <<f>>
      OBVIOUS
    <2> QED BY <2>3, <2>4
  <1> QED BY <1>2, <1>3

LEMMA WhatIsHeard ==
  ASSUME TypeInv, NEW f, NEW g, LastFrame(f, g), NEW n \in powered
  PROVE  Heard(n) = IF air = {} \/ n = f.src THEN << >> ELSE <<f>>
  <1>1. CASE air = {} \/ n = f.src
    <2>1. { x \in air : x.src # n } = {}
      BY <1>1 DEF LastFrame
    <2> QED BY <1>1, <2>1, AsSequence DEF Heard
  <1>2. CASE air # {} /\ n # f.src
    <2>1. { x \in air : x.src # n } = {f}
      BY <1>2 DEF LastFrame
    <2> QED BY <1>2, <2>1, AsSequence DEF Heard
  <1> QED BY <1>1, <1>2

(* A tick ages the last frame, and hands it to the others.                 *)
LEMMA TickRings ==
  ASSUME Margins, TypeInv, NEW f, NEW g, RingInv(f, g), Tick
  PROVE  OneSpeaks'
  <1>1. /\ turn = EndOfTick /\ ~running /\ ~running'
        /\ air' = {} /\ turn' = First(powered)
        /\ UNCHANGED <<powered, late, faults>>
        /\ \A n \in powered :
             /\ node'[n] = [node[n] EXCEPT
                              !.silence = Min({node[n].silence + 1, SilenceLimit})]
             /\ uart'[n] = uart[n] \o Heard(n)
        /\ powered \subseteq Nodes
    BY DEF Tick, TimePasses, TypeInv, TypeOK
  <1>2. LastFrame(f, g) /\ f \in Sent \cup {Nothing} /\ g \in Nat /\ g + 1 \in Nat
    BY DEF RingInv, LastFrame
  <1>3. LastFrame(f, g + 1)'
    BY <1>1, <1>2 DEF LastFrame
  <1>4. \A n \in powered : n >= turn'
    <2> DEFINE S == powered \cup {EndOfTick}
    <2>1. S \in SUBSET Nat /\ S # {}
      BY <1>1, AddressType
    <2>2. turn' = Min(S)
      BY <1>1 DEF First
    <2>3. \A y \in S : turn' <= y
      <3> HIDE DEF S
      <3> QED BY <2>1, <2>2, SmallestExists
    <2>4. turn' \in Nat
      <3>1. turn' \in S
        <4> HIDE DEF S
        <4> QED BY <2>1, <2>2, SmallestExists
      <3> QED BY <2>1, <3>1
    <2> QED BY <2>1, <2>3, <2>4
  <1>5. turn' \in Nat
    BY <1>1, FollowingType, AddressType
  <1>6. ASSUME NEW n \in powered
        PROVE  /\ Backlog(n, f, g + 1)' /\ Lag(n, f, g + 1)' /\ Waits(n, f, g + 1)'
    <2>1. Backlog(n, f, g) /\ Lag(n, f, g) /\ Waits(n, f, g)
      BY <1>1 DEF RingInv
    <2>2. /\ n \in Nat /\ n \in Nodes /\ n # EndOfTick /\ Len(uart[n]) \in Nat
          /\ node[n] \in Node /\ node[n].silence \in Nat
          /\ faults \in Nat /\ Tardy(n) \in {0, 1}
          /\ uart[n] \in Seq(Frame \cup {Garbage, Invalid})
          /\ SlotStart(n) \in Nat /\ SlotStart(n) + Tslot <= SilenceLimit
          /\ Tno_token <= SlotStart(n)
      BY PoweredType, SlotType
    <2>3. Due(n) = 0 /\ Due(n)' = 1 /\ Tardy(n)' = Tardy(n)
      <3>1. Due(n) = 0
        <4>1. n < turn /\ turn \in Nat
          BY <1>1, PoweredType, AddressType
        <4>2. ~ (n > turn) /\ n # turn
          BY <2>2, <4>1
        <4> QED BY <4>2 DEF Due
      <3>2. n > turn' \/ n = turn'
        BY <1>4, <1>5, <2>2
      <3> QED BY <1>1, <3>1, <3>2 DEF Due, Tardy
    <2>4. /\ node'[n].valid = node[n].valid /\ node'[n].state = node[n].state
          /\ node'[n].silence = Min({node[n].silence + 1, SilenceLimit})
      BY <1>1, <2>2 DEF Node
    <2>5. node[n].silence < SilenceLimit => node'[n].silence = node[n].silence + 1
      <3> DEFINE k == node[n].silence + 1
      <3>1. k \in Nat /\ SilenceLimit \in Nat
        BY <2>2, LimitType
      <3>2. Min({k, SilenceLimit}) = IF k <= SilenceLimit THEN k ELSE SilenceLimit
        <4> HIDE DEF k
        <4> QED BY <3>1, SmallerOfTwo
      <3> QED BY <2>2, <2>4, <3>1, <3>2
    <2>6. CASE air # {} /\ n # f.src
      <3>1. air # {} /\ n # f.src
        BY <2>6
      <3>2. g = 0 /\ f \in Sent
        BY <1>2, <3>1 DEF LastFrame
      <3>3. /\ uart'[n] = uart[n] \o <<f>>
        BY <1>1, <1>2, <3>1, WhatIsHeard
      <3>4. f \in Frame \cup {Garbage, Invalid}
        BY <3>2 DEF Sent
      <3>5. /\ Len(uart'[n]) = Len(uart[n]) + 1
            /\ uart'[n][Len(uart[n]) + 1] = f
            /\ \A i \in 1 .. Len(uart[n]) : uart'[n][i] = uart[n][i]
            /\ uart'[n] # << >>
        BY <2>2, <3>3, <3>4
      <3>6. Backlog(n, f, g + 1)'
        <4>1. Len(uart'[n]) <= faults + 1
          BY <2>1, <2>2, <2>3, <3>5 DEF Backlog
        <4>2. ASSUME NEW i \in 1 .. Len(uart'[n])
              PROVE  /\ uart'[n][i] \in Sent
                     /\ uart'[n][i].dst = n =>
                          i = Len(uart'[n]) /\ uart'[n][i] = f /\ air' = {}
          <5>1. CASE i \in 1 .. Len(uart[n])
            BY <2>1, <3>1, <3>5, <5>1 DEF Backlog
          <5>2. CASE i = Len(uart[n]) + 1
            BY <1>1, <3>2, <3>5, <5>2
          <5> QED BY <2>2, <3>5, <5>1, <5>2
        <4>3. (g + 1) + Len(uart'[n]) <= faults + 1 + 1
          BY <2>2, <3>2, <3>5, <4>1
        <4> QED BY <1>1, <2>3, <3>1, <4>1, <4>2, <4>3 DEF Backlog
      <3>7. Lag(n, f, g + 1)'
        BY <3>5 DEF Lag, UpToDate
      <3>8. Waits(n, f, g + 1)'
        <4>1. CASE WaitsListening(n, f)
          <5>1. WaitsListening(n, f)'
            BY <1>1, <2>4, <3>5, <4>1
               DEF WaitsListening, Listens, WillHear, UpToDate
          <5> QED BY <2>1, <2>4, <5>1 DEF Waits
        <4>2. CASE WaitsForUser(n, f)
          <5>1. WaitsForUser(n, f)'
            BY <2>4, <3>5, <4>2 DEF WaitsForUser
          <5> QED BY <2>1, <2>4, <5>1 DEF Waits
        <4>3. CASE WaitsForReply(n, f)
          <5>1. uart[n] = << >>
            BY <3>1, <4>3 DEF WaitsForReply
          <5>2. uart'[n] = <<f>>
            BY <3>3, <5>1
          <5>3. WaitsForReply(n, f)'
            BY <1>1, <2>4, <4>3, <5>2 DEF WaitsForReply, Answered
          <5> QED BY <2>1, <2>4, <5>3 DEF Waits
        <4>4. ~ HasSent(n, f, g)
          BY <3>1 DEF HasSent
        <4> QED BY <2>1, <4>1, <4>2, <4>3, <4>4 DEF Waits
      <3> QED BY <3>6, <3>7, <3>8
    <2>7. CASE air = {} \/ n = f.src
      <3>1. uart'[n] = uart[n]
        <4>1. uart'[n] = uart[n] \o << >>
          BY <1>1, <1>2, <2>7, WhatIsHeard
        <4> QED BY <2>2, <4>1
      <3>2. uart[n] # << >> => air = {}
        BY <2>1, <2>7 DEF Backlog
      <3>3. Backlog(n, f, g + 1)'
        <4>1. Len(uart[n]) <= faults + 1
          BY <2>1, <2>2, <2>3 DEF Backlog
        <4>2. uart[n] # << >> => (g + 1) + Len(uart[n]) <= faults + 1 + 1
          <5>1. uart[n] # << >> => g + Len(uart[n]) <= faults + 1 + 0
            BY <2>1, <2>3, <3>2 DEF Backlog
          <5>2. \A k, a \in Nat : g + k <= a + 1 + 0 => (g + 1) + k <= a + 1 + 1
            BY <1>2
          <5> QED BY <2>2, <5>1, <5>2
        <4> QED BY <1>1, <2>1, <2>3, <3>1, <4>1, <4>2 DEF Backlog
      <3>4. uart[n] = << >> => UpToDate(n, f)
        BY <2>7 DEF UpToDate
      <3>5. CASE uart[n] # << >>
        <4>1. ~ UpToDate(n, f)' /\ ~ WillHear(n, f)' /\ air = {}
          BY <1>1, <3>1, <3>2, <3>5 DEF UpToDate, WillHear
        <4>2. Lag(n, f, g + 1)'
          BY <4>1 DEF Lag
        <4>3. Waits(n, f, g + 1)'
          <5>1. CASE WaitsListening(n, f)
            BY <2>1, <2>4, <4>1, <5>1 DEF WaitsListening, Listens, Waits
          <5>2. CASE WaitsForUser(n, f)
            BY <2>1, <2>4, <3>1, <3>5, <5>2 DEF WaitsForUser, Waits
          <5>3. CASE WaitsForReply(n, f)
            BY <1>1, <2>1, <2>4, <3>1, <4>1, <5>3
               DEF WaitsForReply, Answered, Waits
          <5>4. ~ HasSent(n, f, g)
            BY <2>1, <3>5 DEF HasSent, Backlog
          <5> QED BY <2>1, <5>1, <5>2, <5>3, <5>4 DEF Waits
        <4> QED BY <3>3, <4>2, <4>3
      <3>6. CASE uart[n] = << >>
        <4>1. UpToDate(n, f) /\ uart'[n] = << >>
          BY <3>1, <3>4, <3>6
        <4>2. /\ node[n].silence <= g
              /\ g + Tardy(n) <= node[n].silence + 1 + faults
          BY <2>1, <4>1 DEF Lag
        <4>3. ~ WaitsForUser(n, f) /\ ~ WaitsForReply(n, f)
          BY <2>7, <3>6 DEF WaitsForUser, WaitsForReply, Answered
        <4>4. node'[n].silence = node[n].silence + 1
          <5>1. CASE WaitsListening(n, f)
            <6>1. node[n].silence + 1 <= SlotStart(n) + 0 + Tardy(n)
              BY <2>3, <4>1, <5>1 DEF WaitsListening
            <6>2. node[n].silence < SilenceLimit
              BY <2>2, <6>1, LimitType DEF Margins
            <6> QED BY <2>5, <6>2
          <5>2. CASE HasSent(n, f, g) /\ g <= Tusage_timeout + Due(n) + Tardy(n)
            <6>1. node[n].silence <= Tusage_timeout + 0 + Tardy(n)
              BY <2>3, <5>2 DEF HasSent
            <6>2. node[n].silence < SilenceLimit
              BY <2>2, <6>1, LimitType DEF Margins
            <6> QED BY <2>5, <6>2
          <5> QED BY <2>1, <4>3, <5>1, <5>2 DEF Waits
        <4>5. Lag(n, f, g + 1)'
          <5>1. node[n].silence + 1 <= g + 1
            BY <1>2, <2>2, <4>2
          <5>2. (g + 1) + Tardy(n) <= (node[n].silence + 1) + 1 + faults
            BY <1>2, <2>2, <4>2
          <5> QED BY <1>1, <2>3, <4>4, <5>1, <5>2 DEF Lag
        <4>6. Waits(n, f, g + 1)'
          <5>1. CASE WaitsListening(n, f)
            <6>1. node[n].silence + 1 <= SlotStart(n) + 0 + Tardy(n)
              BY <2>3, <4>1, <5>1 DEF WaitsListening
            <6>2. (node[n].silence + 1) + 1 <= SlotStart(n) + 1 + Tardy(n)
              BY <2>2, <6>1
            <6>3. ~ WillHear(n, f)'
              BY <1>1 DEF WillHear
            <6>4. WaitsListening(n, f)'
              BY <2>3, <2>4, <4>4, <5>1, <6>2, <6>3 DEF WaitsListening, Listens
            <6> QED BY <2>1, <2>4, <6>4 DEF Waits
          <5>2. CASE HasSent(n, f, g) /\ g <= Tusage_timeout + Due(n) + Tardy(n)
            <6>1. HasSent(n, f, g + 1)'
              BY <2>4, <4>4, <5>2 DEF HasSent
            <6>2. g + 1 <= Tusage_timeout + 1 + Tardy(n)
              BY <1>2, <2>2, <2>3, <5>2
            <6> QED BY <2>1, <2>3, <2>4, <6>1, <6>2 DEF Waits
          <5> QED BY <2>1, <4>3, <5>1, <5>2 DEF Waits
        <4> QED BY <3>3, <4>5, <4>6
      <3> QED BY <3>5, <3>6
    <2> QED BY <2>6, <2>7
  <1>7. RingInv(f, g + 1)'
    BY <1>1, <1>3, <1>6 DEF RingInv
  <1> QED BY <1>2, <1>7 DEF OneSpeaks

(* A node that restarts listens, for a whole slot at least.                *)
LEMMA RestartRings ==
  ASSUME Margins, TypeInv, NEW f, NEW g, RingInv(f, g),
         NEW m \in Nodes, PowerOff(m) \/ PowerOn(m)
  PROVE  OneSpeaks'
  <1>1. /\ turn = EndOfTick /\ ~running
        /\ UNCHANGED <<turn, running, air>>
        /\ node' = [node EXCEPT ![m] = AtReset]
        /\ uart' = [uart EXCEPT ![m] = << >>]
        /\ late' = late \ {m}
        /\ faults' = faults + 1 /\ faults \in Nat
        /\ node \in [Nodes -> Node]
        /\ uart \in [Nodes -> Seq(Frame \cup {Garbage, Invalid})]
        /\ powered \subseteq Nodes
    BY DEF PowerOff, PowerOn, Restart, Fault, TypeInv, TypeOK
  <1>2. LastFrame(f, g) /\ f \in Sent \cup {Nothing} /\ g \in Nat
    BY DEF RingInv, LastFrame
  <1>3. LastFrame(f, g)'
    BY <1>1, <1>2 DEF LastFrame
  <1>4. ASSUME NEW n \in powered, n # m
        PROVE  Backlog(n, f, g)' /\ Lag(n, f, g)' /\ Waits(n, f, g)'
    <2>1. Backlog(n, f, g) /\ Lag(n, f, g) /\ Waits(n, f, g)
      BY <1>1 DEF RingInv
    <2>2. /\ node'[n] = node[n] /\ uart'[n] = uart[n]
          /\ Due(n)' = Due(n) /\ Tardy(n)' = Tardy(n)
      BY <1>1, <1>4 DEF Due, Tardy
    <2>3. /\ Len(uart[n]) \in Nat /\ Due(n) \in Nat /\ Tardy(n) \in Nat
          /\ node[n].silence \in Nat
      BY PoweredType
    <2>4. Backlog(n, f, g)'
      <3>1. Len(uart[n]) <= faults' + Due(n)
        BY <1>1, <2>1, <2>3 DEF Backlog
      <3>2. (air = {} /\ uart[n] # << >>)
              => g + Len(uart[n]) <= faults' + 1 + Due(n)
        <4>1. (air = {} /\ uart[n] # << >>)
                => g + Len(uart[n]) <= faults + 1 + Due(n)
          BY <2>1 DEF Backlog
        <4> QED BY <1>1, <1>2, <2>3, <4>1
      <3> QED BY <1>1, <2>1, <2>2, <3>1, <3>2 DEF Backlog
    <2>5. Lag(n, f, g)'
      <3>1. UpToDate(n, f) =>
              /\ node[n].silence <= g
              /\ g + Tardy(n) <= node[n].silence + 1 + faults'
        <4>1. UpToDate(n, f) =>
                /\ node[n].silence <= g
                /\ g + Tardy(n) <= node[n].silence + 1 + faults
          BY <2>1 DEF Lag
        <4> QED BY <1>1, <1>2, <2>3, <4>1
      <3> QED BY <1>1, <2>2, <3>1 DEF Lag, UpToDate
    <2>6. Waits(n, f, g)'
      BY <1>1, <2>1, <2>2
         DEF Waits, WaitsListening, HasSent, WaitsForUser, WaitsForReply,
             Answered, Listens, WillHear, UpToDate
    <2> QED BY <2>4, <2>5, <2>6
  <1>5. CASE PowerOff(m)
    <2>1. powered' = powered \ {m}
      BY <1>5 DEF PowerOff, Restart
    <2>2. RingInv(f, g)'
      BY <1>1, <1>3, <1>4, <2>1 DEF RingInv
    <2> QED BY <1>2, <2>2 DEF OneSpeaks
  <1>6. CASE PowerOn(m)
    <2>1. powered' = powered \cup {m} /\ air # {} /\ g = 0
      BY <1>2, <1>6 DEF PowerOn, Restart, LastFrame
    <2>2. /\ node'[m] = AtReset /\ uart'[m] = << >>
          /\ node'[m].silence = 0 /\ node'[m].state = "INITIALIZE"
          /\ node'[m].valid = None
      BY <1>1 DEF AtReset
    <2>3. Due(m)' = 0 /\ Tardy(m)' = 0
      <3>1. m \in Nat /\ m < turn
        BY <1>1, AddressType DEF Address, EndOfTick
      <3>2. turn \in Nat
        BY <1>1, AddressType
      <3> QED BY <1>1, <3>1, <3>2 DEF Due, Tardy
    <2>4. Backlog(m, f, g)'
      BY <1>1, <2>1, <2>2, <2>3 DEF Backlog
    <2>5. Lag(m, f, g)'
      BY <1>1, <2>1, <2>2, <2>3 DEF Lag
    <2>6. Waits(m, f, g)'
      <3>1. SlotStart(m) \in Nat /\ SlotStart(m) >= 1
        BY SlotType DEF Margins
      <3>2. WaitsListening(m, f)'
        BY <2>2, <2>3, <3>1 DEF WaitsListening, Listening, Listens
      <3> QED BY <2>2, <3>2 DEF Waits
    <2>7. RingInv(f, g)'
      BY <1>1, <1>3, <1>4, <2>1, <2>4, <2>5, <2>6 DEF RingInv
    <2> QED BY <1>2, <2>7 DEF OneSpeaks
  <1> QED BY <1>5, <1>6

LEMMA MasterRings ==
  ASSUME NEW r, NEW f, NEW g, AtWork(r, f, g), MasterStep
  PROVE  OneSpeaks'
  <1>1. CASE DoneInitializing
    BY <1>1, InitializationRings
  <1>2. CASE LostToken \/ IdleWaits \/ ReceivedToken \/ ReceivedPFM
    BY <1>2, IdleRings
  <1>3. CASE SendIAm \/ NothingToSend
    BY <1>3, UseRings
  <1>4. CASE DoneStep
    BY <1>4, DoneRings
  <1>5. CASE SawTokenUser \/ WaitForTokenUser \/ RetrySendToken \/ FindNewSuccessor
    BY <1>5, PassRings
  <1>6. CASE SawFrame \/ GenerateToken \/ StayNoToken
    BY <1>6, NoTokenRings
  <1>7. CASE PollStep
    BY <1>7, PollRings
  <1> QED BY <1>1, <1>2, <1>3, <1>4, <1>5, <1>6, <1>7
          DEF MasterStep, DoneStep, PollStep

LEMMA CallRings ==
  ASSUME Margins, TypeInv, OneSpeaks, Call
  PROVE  OneSpeaks'
  <1>1. PICK f \in Sent \cup {Nothing} : \E g \in Nat : RingInv(f, g)
    BY DEF OneSpeaks
  <1>2. PICK g \in Nat : RingInv(f, g)
    BY <1>1
  <1>3. PICK r : r = turn
    OBVIOUS
  <1>4. CASE Skip
    <2>1. Called(r, f, g)
      BY <1>2, <1>3, <1>4 DEF Called, Skip, TypeInv
    <2> QED BY <1>4, <2>1, SkipRings
  <1>5. CASE ReceiveNothing \/ ReceiveFrame
    <2>1. Called(r, f, g)
      BY <1>2, <1>3, <1>5
         DEF Called, ReceiveNothing, ReceiveFrame, Update, TypeInv
    <2> QED BY <1>5, <2>1, ReceiveNothingRings, ReceiveFrameRings
  <1>6. CASE MasterStep
    <2>1. running
      BY <1>6
         DEF MasterStep, DoneInitializing, LostToken, IdleWaits, ReceivedToken,
           ReceivedPFM, Idle, SendIAm, NothingToSend, NextStationUnknown,
           SoleMasterAgain, SendToken, NextStationKnown,
           SoleMasterRestartMaintenancePFM, ResetMaintenancePFM,
           SendMaintenancePFM, MaintenanceDue, SawTokenUser, WaitForTokenUser,
           RetrySendToken, FindNewSuccessor, SawFrame, GenerateToken, StayNoToken,
           ReceivedReplyToPFM, ReceivedUnexpectedFrame, WaitForReplyToPFM,
           PollFailed, SoleMasterPollFailed, DoneWithPFM, SendNextPFM,
           DeclareSoleMaster, In
    <2>2. AtWork(r, f, g)
      BY <1>2, <1>3, <2>1 DEF AtWork, TypeInv
    <2> QED BY <1>6, <2>2, MasterRings
  <1> QED BY <1>4, <1>5, <1>6 DEF Call, MasterStep

LEMMA OneSpeaksAtFirst == Margins /\ Init => OneSpeaks
  <1> SUFFICES ASSUME Margins, Init PROVE RingInv(Nothing, 0)
    BY DEF OneSpeaks
  <1>1. LastFrame(Nothing, 0)
    BY DEF Init, LastFrame
  <1>2. ASSUME NEW n \in powered
        PROVE  Backlog(n, Nothing, 0) /\ Lag(n, Nothing, 0) /\ Waits(n, Nothing, 0)
    <2>1. /\ n \in Nodes /\ node[n] = AtReset /\ uart[n] = << >>
          /\ air = {} /\ faults = 0 /\ Due(n) \in {0, 1} /\ Tardy(n) = 0
          /\ node[n].silence = 0 /\ node[n].state = "INITIALIZE"
          /\ node[n].valid = None
      BY DEF Init, Due, Tardy, AtReset
    <2>2. SlotStart(n) \in Nat /\ SlotStart(n) >= 1
      BY <2>1, SlotType DEF Margins
    <2>3. Backlog(n, Nothing, 0) /\ Lag(n, Nothing, 0)
      BY <2>1 DEF Backlog, Lag
    <2>4. WaitsListening(n, Nothing)
      BY <2>1, <2>2 DEF WaitsListening, Listens, WillHear, Listening
    <2> QED BY <2>1, <2>3, <2>4 DEF Waits
  <1> QED BY <1>1, <1>2 DEF RingInv, Init

LEMMA OneSpeaksOn ==
  ASSUME Margins, TypeInv, OneSpeaks, [Next]_vars, [~LineFault]_vars
  PROVE  OneSpeaks'
  <1>1. CASE Call
    BY <1>1, CallRings
  <1>2. CASE Tick
    BY <1>2, TickRings DEF OneSpeaks
  <1>3. CASE \E n \in Nodes : PowerOff(n) \/ PowerOn(n)
    BY <1>3, RestartRings DEF OneSpeaks
  <1>4. CASE UNCHANGED vars
    <2>1. PICK f \in Sent \cup {Nothing} : \E g \in Nat : RingInv(f, g)
      BY DEF OneSpeaks
    <2>2. PICK g \in Nat : RingInv(f, g)
      BY <2>1
    <2>3. \A n : Due(n)' = Due(n) /\ Tardy(n)' = Tardy(n)
      BY <1>4 DEF vars, Due, Tardy
    <2>4. LastFrame(f, g)'
      BY <1>4, <2>2 DEF vars, LastFrame, RingInv
    <2>5. RingInv(f, g)'
      BY <1>4, <2>2, <2>3, <2>4
         DEF vars, RingInv, Backlog, Lag, UpToDate, Waits, WaitsListening,
             HasSent, WaitsForUser, WaitsForReply, Answered, Listens, WillHear,
             Works, WorksListening, WorksToken, WorksSent, WorksUser, WorksReply,
             Holding, Clear, Yields
    <2> QED BY <2>5 DEF OneSpeaks
  <1> QED BY <1>1, <1>2, <1>3, <1>4 DEF Next

(* No two nodes transmit in the same tick, however many nodes there are, in *)
(* whichever order they are switched on and off and call update() late, as *)
(* long as Margins holds and no frame is damaged: the slots of NO_TOKEN, the *)
(* retries of PASS_TOKEN and the answers to polls keep out of each other's *)
(* way (MSTP_Master_Node_FSM).                                             *)
THEOREM OneFrameAtATime ==
  ASSUME Margins
  PROVE  Spec /\ [][~LineFault]_vars => []NoCollision
  <1>1. Init => OneSpeaks
    BY OneSpeaksAtFirst
  <1>2. TypeInv /\ OneSpeaks /\ [Next]_vars /\ [~LineFault]_vars => OneSpeaks'
    BY OneSpeaksOn
  <1>3. OneSpeaks => NoCollision
    <2>1. ASSUME NEW f \in Sent \cup {Nothing}, NEW g \in Nat, RingInv(f, g)
          PROVE  Cardinality(air) <= 1
      <3>1. air = {} \/ air = {f}
        BY <2>1 DEF RingInv, LastFrame
      <3>2. Cardinality({}) = 0 /\ Cardinality({f}) = 1
        BY FS_EmptySet, FS_Singleton
      <3> QED BY <3>1, <3>2
    <2> QED BY <2>1 DEF OneSpeaks, NoCollision
  <1> QED BY <1>1, <1>2, <1>3, TypeHolds, PTL DEF Spec
==============================================================================
