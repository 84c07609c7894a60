---------------------------- MODULE TokenContract ----------------------------
(***************************************************************************)
(* What a master node promises the other stations of an MS/TP segment,     *)
(* whatever it hears: it speaks unasked only while the token is its own,   *)
(* sends a bounded number of data frames for each token, and gives the     *)
(* token to one successor, repeated a bounded number of times, before it   *)
(* looks for another one.                                                  *)
(*                                                                         *)
(* offered says that a Token frame addressed to the node waits in its      *)
(* receiver; the bus decides when.                                         *)
(***************************************************************************)
EXTENDS Naturals

CONSTANTS MaxFrames,   \* data frames a token entitles to
          MaxRetries,  \* repetitions of a token
          Stations     \* every address

VARIABLES role,       \* what the node is doing with the token
          frames,     \* data frames sent since it got the token
          successor,  \* whom it is passing the token to
          tries,      \* how often it has repeated the token
          sole,       \* it knows of no other master
          offered,
          out         \* the frame transmitted by the last step

vars == <<role, frames, successor, tries, sole, offered, out>>

Silence == [type |-> "nothing", dst |-> 0]
Answers == {"REPLY_TO_POLL_FOR_MASTER", "TEST_RESPONSE",
            "DATA_NOT_EXPECTING_REPLY", "REPLY_POSTPONED"}

Init ==
  /\ role = "listening" /\ frames = 0 /\ tries = 0
  /\ successor \in Stations
  /\ sole = FALSE /\ offered = FALSE
  /\ out = Silence

Quiet == out' = Silence
Speak(types) == out' \in [type : types, dst : Stations]
Become(r) == role' = r /\ offered' \in BOOLEAN
NotPassing == successor' \in Stations /\ tries' = 0

\* Hearing something, or nothing: the role does not change.
Hear ==
  /\ Become(role) /\ Quiet
  /\ UNCHANGED <<frames, successor, tries, sole>>

Answer ==
  /\ role = "listening" /\ Become("listening")
  /\ Speak(Answers)
  /\ UNCHANGED <<frames, successor, tries, sole>>

TakeToken ==
  /\ role = "listening" /\ offered
  /\ role' = "holding" /\ offered' = FALSE
  /\ frames' = 0 /\ sole' = FALSE
  /\ Quiet /\ NotPassing

SendData ==
  /\ role = "holding" /\ frames < MaxFrames /\ Become("holding")
  /\ Speak({"DATA_NOT_EXPECTING_REPLY"})
  /\ frames' = frames + 1
  /\ UNCHANGED <<successor, tries, sole>>

NoMoreData ==
  /\ role = "holding" /\ Become("holding")
  /\ frames' = MaxFrames
  /\ Quiet
  /\ UNCHANGED <<successor, tries, sole>>

\* With nobody to pass the token to, the node gives it to itself.
KeepToken ==
  /\ role = "holding" /\ sole /\ frames = MaxFrames /\ Become("holding")
  /\ frames' = 0
  /\ Quiet
  /\ UNCHANGED <<successor, tries, sole>>

Pass ==
  /\ \/ role = "holding" /\ frames = MaxFrames
     \/ role = "polling"
  /\ Become("passing")
  /\ Speak({"TOKEN"})
  /\ successor' = out'.dst /\ tries' = 0
  /\ frames' = 0
  /\ sole' \in {FALSE, sole}

PassAgain ==
  /\ role = "passing" /\ tries < MaxRetries /\ Become("passing")
  /\ Speak({"TOKEN"})
  /\ out'.dst = successor
  /\ tries' = tries + 1
  /\ UNCHANGED <<frames, successor, sole>>

\* A poll starts a search: with the token in hand, after a successor that
\* did not take it, or after a silence that says the token is lost.
Poll ==
  /\ \/ role = "holding" /\ frames = MaxFrames
     \/ role = "passing" /\ tries = MaxRetries
     \/ role \in {"polling", "listening"}
  /\ Become("polling")
  /\ Speak({"POLL_FOR_MASTER"})
  /\ frames' = 0
  /\ NotPassing
  /\ UNCHANGED sole

NobodyAnswers ==
  /\ role = "polling" /\ Become("holding")
  /\ frames' = 0 /\ sole' = TRUE
  /\ Quiet /\ NotPassing

Yield ==
  /\ role \in {"passing", "polling"} /\ Become("listening")
  /\ Quiet /\ NotPassing
  /\ frames' = 0
  /\ UNCHANGED sole

Next ==
  \/ Hear \/ Answer \/ TakeToken \/ SendData \/ NoMoreData \/ KeepToken
  \/ Pass \/ PassAgain \/ Poll \/ NobodyAnswers \/ Yield

Spec == Init /\ [][Next]_vars
=============================================================================
