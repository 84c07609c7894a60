---------------------------- MODULE DeviceNames -----------------------------
(***************************************************************************)
(* A name of the Device object (Object_Name, Description, Location) in the *)
(* store: nvdata_name_write() and nvdata_name() of nvdata.c, called from   *)
(* BACnetDevice::writeProperty and readProperty.  The three names have     *)
(* cells of their own; one is modelled.                                    *)
(*                                                                         *)
(* phase: "idle", "writing" within nvdata_name_write, "restoring" while    *)
(* nvdata_name stores the default.                                         *)
(***************************************************************************)
EXTENDS NvStorage

CONSTANTS
  NameSize,    \* NV_EEPROM_NAME_SIZE, 30 in the code
  Default,     \* the default string
  Offered,     \* the names that stations write
  NoAnswer

\* The cells: length, encoding, characters.
NAME_LENGTH == 0
NAME_ENCODING == 1
NAME_STRING == 2
NameCells == 0 .. NameSize + 1

CHARACTER_UTF8 == 0
MAX_CHARACTER_STRING_ENCODING == 6

Name == [encoding : Byte, chars : Seq(Byte)]

\* utf8_isvalid for octets that are ASCII, zero or 255; each of the other
\* two makes a string invalid.
Utf8IsValid(chars) == \A i \in DOMAIN chars : chars[i] \in 1 .. 127

\* nvdata_name_isvalid: the length is a cell of its own.
NameIsValid(length, name) ==
  /\ name.encoding < MAX_CHARACTER_STRING_ENCODING
  /\ length <= NameSize
  /\ name.encoding = CHARACTER_UTF8 =>
       Utf8IsValid(SubSeq(name.chars, 1, length))

IsName(name) == NameIsValid(Len(name.chars), name)

ASSUME NameAssumption ==
  /\ NameSize \in 1 .. 30
  /\ NameCells \subseteq Cells
  /\ Offered \subseteq Name
  /\ Default \in Name /\ IsName(Default) /\ Default.chars # << >>
  /\ NoAnswer \notin Name

VARIABLES
  phase, request,
  answer,    \* the last answer to ReadProperty
  current    \* history: the name stored last, NoAnswer if that was cut short
vars == << storage, phase, request, answer, current >>

Init ==
  /\ StorageInit
  /\ phase = "idle" /\ request = Default
  /\ answer = NoAnswer /\ current = NoAnswer

-----------------------------------------------------------------------------
\* The characters, and zeros up to the size of the buffer.
Padded(chars) ==
  [i \in 1 .. NameSize |-> IF i <= Len(chars) THEN chars[i] ELSE 0]

\* Faulty: the encoding is not stored.
CallsWithoutEncoding(name) ==
  << Write(NAME_LENGTH, << Len(name.chars) >>),
     Write(NAME_STRING, Padded(name.chars)) >>

\* nvdata_name_set.
Calls(name) ==
  << Write(NAME_LENGTH, << Len(name.chars) >>),
     Write(NAME_ENCODING, << name.encoding >>),
     Write(NAME_STRING, Padded(name.chars)) >>

\* writeProperty refuses an empty name, nvdata_name_write one that is not
\* valid; either changes nothing.
WriteName ==
  /\ phase = "idle"
  /\ \E name \in Offered :
       /\ name.chars # << >>
       /\ IsName(name)
       /\ request' = name
       /\ todo' = Calls(name)
  /\ phase' = "writing"
  /\ current' = NoAnswer
  /\ UNCHANGED << backend, eeprom, losses, answer >>

NameWritten ==
  /\ phase = "writing" /\ todo = << >>
  /\ phase' = "idle"
  /\ current' = request
  /\ UNCHANGED << storage, request, answer >>

\* nvdata_name reads the three parts ...
StoredLength == Unsigned8(NAME_LENGTH)
StoredName == [encoding |-> Unsigned8(NAME_ENCODING),
               chars |-> [i \in 1 .. NameSize |-> eeprom[NAME_STRING + i - 1]]]
Trimmed(name, length) == [name EXCEPT !.chars = SubSeq(@, 1, length)]

\* Faulty: the encoding and the octets are not looked at.
HoldsString == StoredLength <= NameSize

HoldsName == NameIsValid(StoredLength, StoredName)

\* ... answers what they make if that is valid ...
ReadName ==
  /\ phase = "idle"
  /\ HoldsName
  /\ answer' = Trimmed(StoredName, StoredLength)
  /\ UNCHANGED << storage, phase, request, current >>

\* ... and else stores the default and answers that.
ReadNothing ==
  /\ phase = "idle"
  /\ ~ HoldsName
  /\ phase' = "restoring"
  /\ todo' = Calls(Default)
  /\ current' = NoAnswer
  /\ UNCHANGED << backend, eeprom, losses, request, answer >>

DefaultRestored ==
  /\ phase = "restoring" /\ todo = << >>
  /\ phase' = "idle"
  /\ answer' = Default
  /\ current' = Default
  /\ UNCHANGED << storage, request >>

StoreCells == StoreNext /\ UNCHANGED << phase, request, answer, current >>

PowerLoss ==
  /\ LosePower
  /\ phase' = "idle"
  /\ current' = IF Keeps THEN current ELSE NoAnswer
  /\ UNCHANGED << request, answer >>

Next == \/ WriteName \/ NameWritten
        \/ ReadName \/ ReadNothing \/ DefaultRestored
        \/ StoreCells \/ PowerLoss

Spec == Init /\ [][Next]_vars

-----------------------------------------------------------------------------
\* Every variable has its type.
TypeOK ==
  /\ StorageTypeOK
  /\ phase \in {"idle", "writing", "restoring"}
  /\ request \in Name
  /\ answer \in Name \cup {NoAnswer}
  /\ current \in Name \cup {NoAnswer}

\* A name whose write was acknowledged is what every later read answers, after
\* any number of restarts and whatever half written name it replaced, until
\* the next write begins.
NameSurvives ==
  phase = "idle" /\ current # NoAnswer =>
    HoldsName /\ Trimmed(StoredName, StoredLength) = current

\* However many writes were cut short, and between whichever cells, what a
\* read answers is a name by the rules of nvdata_name_isvalid; on boards that
\* keep their store it is never the empty one, which writeProperty refuses.
AnswerIsName ==
  answer # NoAnswer => IsName(answer) /\ (Keeps => answer.chars # << >>)

=============================================================================
