------------------------- MODULE DeviceNames_proofs -------------------------
(***************************************************************************)
(* Names for every size of name, every store, whatever stations write and  *)
(* wherever the power fails: types, that an acknowledged name survives,    *)
(* and that what a read answers is a name.                                 *)
(***************************************************************************)
EXTENDS DeviceNames, NvStorage_proofs

\* What writeProperty and the default store.
Storable(name) == name \in Name /\ IsName(name) /\ name.chars # << >>

\* The cells of a name that is stored.
Image(name) ==
  [a \in NameCells |-> IF a = NAME_LENGTH THEN Len(name.chars)
                       ELSE IF a = NAME_ENCODING THEN name.encoding
                       ELSE Padded(name.chars)[a - 1]]
Holds(name) == \A a \in NameCells : eeprom[a] = Image(name)[a]

Target == IF phase = "restoring" THEN Default ELSE request

\* An acknowledged name is in its cells, and nothing is left to be stored; the
\* calls that store another name are all still to come, or done.
NameInv ==
  /\ Storable(request)
  /\ phase = "idle" => todo = << >>
  /\ phase # "idle" => \E name \in Name : name = Target /\ Becomes(Image(name))
  /\ current # NoAnswer =>
       phase = "idle" /\ Storable(current) /\ Holds(current)

-----------------------------------------------------------------------------
(* Sequences.                                                              *)
LEMMA SameSequence ==
  ASSUME NEW S, NEW s \in Seq(S), NEW t \in Seq(S), Len(s) = Len(t),
         \A i \in 1 .. Len(s) : s[i] = t[i]
  PROVE  s = t
OBVIOUS

LEMMA FunctionIsSequence ==
  ASSUME NEW S, NEW n \in Nat, NEW f \in [1 .. n -> S]
  PROVE  f \in Seq(S) /\ Len(f) = n
OBVIOUS

LEMMA SizeAssumption ==
  NameSize \in Nat /\ NameSize >= 1 /\ NameCells \subseteq Cells
<1>1. NameSize \in 1 .. 30 /\ NameCells \subseteq Cells
  BY NameAssumption
<1>2. \A n \in 1 .. 30 : n \in Nat /\ n >= 1
  OBVIOUS
<1> QED BY <1>1, <1>2

LEMMA PaddedType ==
  ASSUME NEW chars \in Seq(Byte)
  PROVE  /\ Padded(chars) \in Seq(Byte) /\ Len(Padded(chars)) = NameSize
         /\ \A i \in 1 .. NameSize :
              Padded(chars)[i] = IF i <= Len(chars) THEN chars[i] ELSE 0
<1>1. NameSize \in Nat
  BY SizeAssumption
<1>2. \A i \in 1 .. NameSize :
        (IF i <= Len(chars) THEN chars[i] ELSE 0) \in Byte
  <2>1. \A i \in 1 .. Len(chars) : chars[i] \in Byte
    OBVIOUS
  <2>2. Len(chars) \in Nat /\ 0 \in Byte
    BY DEF Byte
  <2> QED BY <1>1, <2>1, <2>2
<1>3. Padded(chars) \in [1 .. NameSize -> Byte]
  BY <1>2 DEF Padded
<1>4. \A i \in 1 .. NameSize :
        Padded(chars)[i] = IF i <= Len(chars) THEN chars[i] ELSE 0
  BY DEF Padded
<1> QED BY <1>1, <1>3, <1>4, FunctionIsSequence

\* The characters of a name come back without the zeros.
LEMMA Unpadded ==
  ASSUME NEW chars \in Seq(Byte), Len(chars) <= NameSize
  PROVE  SubSeq(Padded(chars), 1, Len(chars)) = chars
<1> DEFINE s == SubSeq(Padded(chars), 1, Len(chars))
<1>1. NameSize \in Nat
  BY SizeAssumption
<1>2. s \in Seq(Byte) /\ Len(s) = Len(chars)
  BY <1>1, PaddedType
<1>3. \A i \in 1 .. Len(chars) : s[i] = chars[i]
  BY <1>1, PaddedType
<1> HIDE DEF s
<1>4. s = chars
  BY <1>2, <1>3, SameSequence
<1> QED BY <1>4 DEF s

LEMMA WholeSequence ==
  ASSUME NEW S, NEW s \in Seq(S)
  PROVE  SubSeq(s, 1, Len(s)) = s
OBVIOUS

-----------------------------------------------------------------------------
(* Reading.                                                                *)
LEMMA TrimmedRecord ==
  \A length : Trimmed(StoredName, length)
             = [encoding |-> StoredName.encoding,
                chars |-> SubSeq(StoredName.chars, 1, length)]
<1>1. ASSUME NEW e, NEW c, NEW length
      PROVE  Trimmed([encoding |-> e, chars |-> c], length)
               = [encoding |-> e, chars |-> SubSeq(c, 1, length)]
  <2> DEFINE trimmed == SubSeq(c, 1, length)
  <2>1. [[encoding |-> e, chars |-> c] EXCEPT !.chars = trimmed]
          = [encoding |-> e, chars |-> trimmed]
    <3> HIDE DEF trimmed
    <3> QED OBVIOUS
  <2> QED BY <2>1 DEF Trimmed
<1>2. StoredName = [encoding |-> StoredName.encoding, chars |-> StoredName.chars]
  BY DEF StoredName
<1> QED BY <1>1, <1>2

\* What the cells of a stored name make is that name.
LEMMA HeldName ==
  ASSUME NEW name, Storable(name), Holds(name)
  PROVE  HoldsName /\ Trimmed(StoredName, StoredLength) = name
<1> DEFINE chars == [i \in 1 .. NameSize |-> eeprom[NAME_STRING + i - 1]]
<1>1. /\ name.chars \in Seq(Byte) /\ Len(name.chars) <= NameSize
      /\ name.encoding < MAX_CHARACTER_STRING_ENCODING
      /\ name = [encoding |-> name.encoding, chars |-> name.chars]
  BY DEF Storable, IsName, NameIsValid, Name
<1>2. NameSize \in Nat /\ NameSize >= 1
  BY SizeAssumption
<1>3. StoredLength = Len(name.chars)
  <2>1. 0 \in NameCells
    BY <1>2 DEF NameCells
  <2>2. Image(name)[0] = Len(name.chars)
    BY <2>1 DEF Image, NAME_LENGTH, NAME_ENCODING
  <2>3. eeprom[0] = Image(name)[0]
    BY <2>1 DEF Holds
  <2> QED BY <2>2, <2>3 DEF StoredLength, Unsigned8, NAME_LENGTH
<1>4. StoredName.encoding = name.encoding
  <2>1. 1 \in NameCells
    BY <1>2 DEF NameCells
  <2> QED BY <2>1 DEF Holds, Image, StoredName, Unsigned8, NAME_ENCODING,
                     NAME_LENGTH
<1>5. chars = Padded(name.chars)
  <2>1. ASSUME NEW i \in 1 .. NameSize
        PROVE  eeprom[NAME_STRING + i - 1] = Padded(name.chars)[i]
    <3>1. PICK a \in NameCells : a = i + 1
      BY <1>2 DEF NameCells
    <3>2. Image(name)[a] = Padded(name.chars)[a - 1] /\ a - 1 = i
      BY <1>2, <3>1 DEF Image, NAME_LENGTH, NAME_ENCODING
    <3>3. eeprom[a] = Padded(name.chars)[i]
      BY <3>2 DEF Holds
    <3>4. NAME_STRING + i - 1 = a
      BY <1>2, <3>1 DEF NAME_STRING
    <3> QED BY <3>3, <3>4
  <2> QED BY <2>1 DEF Padded
<1>6. StoredName.chars = Padded(name.chars)
  BY <1>5 DEF StoredName
<1>7. SubSeq(StoredName.chars, 1, StoredLength) = name.chars
  BY <1>1, <1>3, <1>6, Unpadded
<1>8. name.encoding = CHARACTER_UTF8 => Utf8IsValid(name.chars)
  <2>1. SubSeq(name.chars, 1, Len(name.chars)) = name.chars
    BY <1>1, WholeSequence
  <2> QED BY <2>1 DEF Storable, IsName, NameIsValid
<1>9. HoldsName
  BY <1>1, <1>3, <1>4, <1>7, <1>8 DEF HoldsName, NameIsValid
<1>10. Trimmed(StoredName, StoredLength) = name
  <2>1. Trimmed(StoredName, StoredLength)
          = [encoding |-> name.encoding, chars |-> name.chars]
    BY <1>4, <1>7, TrimmedRecord
  <2> QED BY <1>1, <2>1
<1> QED BY <1>9, <1>10

\* What a read answers is a name, and as long as the length that is stored.
LEMMA AnswerType ==
  ASSUME StorageTypeOK, HoldsName
  PROVE  LET name == Trimmed(StoredName, StoredLength)
         IN /\ name \in Name /\ IsName(name)
            /\ Len(name.chars) = eeprom[NAME_LENGTH]
<1> DEFINE chars == [i \in 1 .. NameSize |-> eeprom[NAME_STRING + i - 1]]
           name == Trimmed(StoredName, StoredLength)
<1>1. NameSize \in Nat /\ NameSize >= 1 /\ NameCells \subseteq Cells
  BY SizeAssumption
<1>2. \A a \in NameCells : eeprom[a] \in Byte
  BY <1>1 DEF StorageTypeOK, Contents
<1>3. StoredLength = eeprom[NAME_LENGTH] /\ StoredLength \in Byte
      /\ StoredName.encoding \in Byte
  BY <1>1, <1>2 DEF StoredLength, StoredName, Unsigned8, NAME_LENGTH,
                    NAME_ENCODING, NameCells
<1>4. StoredLength <= NameSize
  BY DEF HoldsName, NameIsValid
<1>5. chars \in Seq(Byte) /\ Len(chars) = NameSize
  <2>1. ASSUME NEW i \in 1 .. NameSize
        PROVE  eeprom[NAME_STRING + i - 1] \in Byte
    <3>1. NAME_STRING + i - 1 \in NameCells
      BY <1>1 DEF NameCells, NAME_STRING
    <3> QED BY <1>2, <3>1
  <2>2. chars \in [1 .. NameSize -> Byte]
    BY <2>1
  <2> QED BY <1>1, <2>2
<1>6. StoredName.chars = chars
  BY DEF StoredName
<1>7. /\ name = [encoding |-> StoredName.encoding,
                 chars |-> SubSeq(chars, 1, StoredLength)]
  BY <1>6, TrimmedRecord
<1> HIDE DEF chars, name
<1>8. /\ SubSeq(chars, 1, StoredLength) \in Seq(Byte)
      /\ Len(SubSeq(chars, 1, StoredLength)) = StoredLength
  <2>1. StoredLength \in 0 .. Len(chars)
    <3>1. StoredLength \in Nat
      BY <1>3 DEF Byte
    <3> QED BY <1>1, <1>4, <1>5, <3>1
  <2> QED BY <1>5, <2>1
<1>9. name \in Name /\ Len(name.chars) = StoredLength
  BY <1>3, <1>7, <1>8 DEF Name
<1>10. SubSeq(name.chars, 1, Len(name.chars)) = name.chars
  BY <1>7, <1>8, WholeSequence
<1>11. IsName(name)
  BY <1>4, <1>6, <1>7, <1>9, <1>10 DEF IsName, NameIsValid, HoldsName
<1> QED BY <1>3, <1>9, <1>11 DEF name

-----------------------------------------------------------------------------
(* Storing.                                                                *)
LEMMA CallsType ==
  ASSUME NEW name, Storable(name)
  PROVE  Calls(name) \in Seq(Writes)
<1>1. name.encoding \in Byte /\ name.chars \in Seq(Byte)
  BY DEF Storable, Name
<1>2. NameSize \in 1 .. 30 /\ Len(name.chars) <= NameSize
  BY NameAssumption DEF Storable, IsName, NameIsValid
<1>3. Len(name.chars) \in Byte
  <2>1. Len(name.chars) \in Nat
    BY <1>1
  <2>2. \A m \in 1 .. 30, n \in Nat : n <= m => n \in 0 .. 255
    OBVIOUS
  <2> QED BY <1>2, <2>1, <2>2 DEF Byte
<1>4. Padded(name.chars) \in Seq(Byte) \ {<< >>}
  <2>1. Padded(name.chars) \in Seq(Byte) /\ Len(Padded(name.chars)) = NameSize
    BY <1>1, PaddedType
  <2>2. NameSize # 0
    BY SizeAssumption
  <2> QED BY <2>1, <2>2, NotEmpty
<1>5. << Len(name.chars) >> \in Seq(Byte) \ {<< >>}
      /\ << name.encoding >> \in Seq(Byte) \ {<< >>}
  BY <1>1, <1>3
<1>6. /\ Write(NAME_LENGTH, << Len(name.chars) >>) \in Writes
      /\ Write(NAME_ENCODING, << name.encoding >>) \in Writes
      /\ Write(NAME_STRING, Padded(name.chars)) \in Writes
  BY <1>4, <1>5 DEF Write, Writes, NAME_LENGTH, NAME_ENCODING, NAME_STRING
<1> QED BY <1>6 DEF Calls

\* The three calls of nvdata_name_set make the cells of the name.
LEMMA CallsMakeImage ==
  ASSUME NEW CONSTANT name, Storable(name), todo' = Calls(name)
  PROVE  Becomes(Image(name))'
<1>1. NameSize \in Nat /\ NameSize >= 1
  BY SizeAssumption
<1>2. Len(Padded(name.chars)) = NameSize
  BY PaddedType DEF Storable, Name
<1>3. /\ Len(todo') = 3
      /\ todo'[1] = Write(0, << Len(name.chars) >>)
      /\ todo'[2] = Write(1, << name.encoding >>)
      /\ todo'[3] = Write(2, Padded(name.chars))
  BY DEF Calls, NAME_LENGTH, NAME_ENCODING, NAME_STRING
<1> DEFINE image == Image(name)
<1>4. /\ DOMAIN image = NameCells
      /\ 0 \in NameCells /\ image[0] = Len(name.chars)
      /\ 1 \in NameCells /\ image[1] = name.encoding
      /\ \A a \in 2 .. NameSize + 1 :
           a \in NameCells /\ image[a] = Padded(name.chars)[a - 1]
  <2>1. 0 \in NameCells /\ 1 \in NameCells /\ 2 .. NameSize + 1 \subseteq NameCells
    BY <1>1 DEF NameCells
  <2> QED BY <2>1 DEF Image, NAME_LENGTH, NAME_ENCODING
<1> HIDE DEF image
<1>5. /\ Agrees(todo'[1], image) /\ 0 \in todo'[1].addr .. EndOf(todo'[1])
      /\ Agrees(todo'[2], image) /\ 1 \in todo'[2].addr .. EndOf(todo'[2])
  BY <1>3, <1>4 DEF Agrees, EndOf, Write
<1>6. Agrees(todo'[3], image)
      /\ \A a \in 2 .. NameSize + 1 : a \in todo'[3].addr .. EndOf(todo'[3])
  <2>1. todo'[3].addr = 2 /\ todo'[3].bytes = Padded(name.chars)
    BY <1>3 DEF Write
  <2>2. EndOf(todo'[3]) = NameSize + 1
    BY <1>1, <1>2, <2>1 DEF EndOf
  <2>3. \A a \in 2 .. NameSize + 1 : a - 2 + 1 = a - 1
    BY <1>1
  <2> QED BY <1>4, <2>1, <2>2, <2>3 DEF Agrees
<1>7. \A k \in 1 .. Len(todo') : Agrees(todo'[k], image)
  BY <1>3, <1>5, <1>6
<1>8. \A a \in NameCells : \E k \in 1 .. Len(todo') :
        a \in todo'[k].addr .. EndOf(todo'[k])
  <2> SUFFICES ASSUME NEW a \in NameCells
               PROVE  \E k \in 1 .. Len(todo') :
                        a \in todo'[k].addr .. EndOf(todo'[k])
    OBVIOUS
  <2>1. a = 0 \/ a = 1 \/ a \in 2 .. NameSize + 1
    BY <1>1 DEF NameCells
  <2>2. 1 \in 1 .. Len(todo') /\ 2 \in 1 .. Len(todo') /\ 3 \in 1 .. Len(todo')
    BY <1>3
  <2> QED BY <1>5, <1>6, <2>1, <2>2
<1> QED BY <1>4, <1>7, <1>8 DEF Becomes, image, Image, Agrees, EndOf, Padded

\* What is being stored is a name.
LEMMA DefaultStorable == Storable(Default)
BY NameAssumption DEF Storable

LEMMA TargetStorable == ASSUME NameInv PROVE Storable(Target)
BY DefaultStorable DEF NameInv, Target

-----------------------------------------------------------------------------
(* The invariant.                                                          *)
NamesInv == TypeOK /\ NameInv

LEMMA NamesInit == Init => NamesInv
<1> SUFFICES ASSUME Init PROVE NamesInv
  OBVIOUS
<1>1. eeprom \in Contents
  BY StorageAssumption DEF Init, StorageInit, Contents, Zeroed, Byte
<1>2. TypeOK
  BY <1>1, NameAssumption DEF Init, StorageInit, TypeOK, StorageTypeOK
<1>3. NameInv
  BY DefaultStorable DEF Init, StorageInit, NameInv
<1> QED BY <1>2, <1>3 DEF NamesInv

LEMMA WriteNameInv ==
  ASSUME NamesInv, WriteName
  PROVE  NamesInv'
<1>1. PICK name \in Offered : /\ name.chars # << >> /\ IsName(name)
                              /\ request' = name /\ todo' = Calls(name)
  BY DEF WriteName
<1>2. Storable(name)
  BY <1>1, NameAssumption DEF Storable
<1>3. TypeOK'
  BY <1>1, <1>2, CallsType
  DEF NamesInv, TypeOK, StorageTypeOK, WriteName, Storable
<1>4. Becomes(Image(name))'
  BY <1>1, <1>2, CallsMakeImage
<1>5. Target' = name /\ name \in Name
  BY <1>1, <1>2 DEF Target, WriteName, Storable
<1>6. Storable(request)'
  BY <1>1, <1>2 DEF Storable
<1>7. (phase # "idle")' /\ (current = NoAnswer)'
  BY DEF WriteName
<1> QED BY <1>3, <1>4, <1>5, <1>6, <1>7 DEF NamesInv, NameInv

LEMMA ReadNothingInv ==
  ASSUME NamesInv, ReadNothing
  PROVE  NamesInv'
<1>1. todo' = Calls(Default)
  BY DEF ReadNothing
<1>2. TypeOK'
  BY <1>1, DefaultStorable, CallsType
  DEF NamesInv, TypeOK, StorageTypeOK, ReadNothing
<1>3. Becomes(Image(Default))'
  BY <1>1, DefaultStorable, CallsMakeImage
<1>4. Target' = Default /\ Default \in Name
  BY DefaultStorable DEF Target, ReadNothing, Storable
<1>5. Storable(request)'
  BY DEF NamesInv, NameInv, ReadNothing, Storable
<1>6. (phase # "idle")' /\ (current = NoAnswer)'
  BY DEF ReadNothing
<1> QED BY <1>2, <1>3, <1>4, <1>5, <1>6 DEF NamesInv, NameInv

\* Where a name is done being stored its cells hold it.
LEMMA TargetHeld ==
  ASSUME NamesInv, phase # "idle", todo = << >>
  PROVE  Storable(Target) /\ Holds(Target)
<1>1. PICK name \in Name : name = Target /\ Becomes(Image(name))
  BY DEF NamesInv, NameInv
<1>2. \A a \in NameCells : eeprom[a] = Image(name)[a]
  BY <1>1, BecomesDone DEF Image
<1> QED BY <1>1, <1>2, TargetStorable DEF Holds, NamesInv

LEMMA DoneInv ==
  ASSUME NamesInv, NameWritten \/ DefaultRestored
  PROVE  NamesInv'
<1>1. phase # "idle" /\ todo = << >>
  BY DEF NameWritten, DefaultRestored
<1>2. current' = Target /\ phase' = "idle" /\ UNCHANGED << storage, request >>
  BY DEF NameWritten, DefaultRestored, Target
<1>3. Storable(Target) /\ Holds(Target)
  BY <1>1, TargetHeld
<1>4. TypeOK'
  BY <1>2, <1>3, NameAssumption
  DEF NamesInv, TypeOK, StorageTypeOK, storage, Storable, NameWritten,
      DefaultRestored
<1>5. Storable(request)' /\ todo' = << >>
  BY <1>1, <1>2 DEF NamesInv, NameInv, Storable, storage
<1>6. Storable(current)' /\ Holds(current)'
  BY <1>2, <1>3 DEF Storable, Holds, Image, Padded, storage
<1> QED BY <1>2, <1>4, <1>5, <1>6 DEF NamesInv, NameInv

LEMMA ReadNameInv ==
  ASSUME NamesInv, ReadName
  PROVE  NamesInv'
<1>1. answer' \in Name
  BY AnswerType DEF ReadName, NamesInv, TypeOK
<1>2. TypeOK'
  BY <1>1 DEF NamesInv, TypeOK, StorageTypeOK, storage, ReadName
<1>3. NameInv'
  BY DEF NamesInv, NameInv, ReadName, storage, Storable, Holds, Image
<1> QED BY <1>2, <1>3 DEF NamesInv

LEMMA StoreCellsInv ==
  ASSUME NamesInv, StoreCells
  PROVE  /\ NamesInv'
         /\ \E name \in Name :
              /\ Storable(name)
              /\ \A a \in NameCells :
                   eeprom'[a] = eeprom[a] \/ eeprom'[a] = Image(name)[a]
<1>1. StoreNext /\ UNCHANGED << phase, request, answer, current >>
  BY DEF StoreCells
<1>2. phase # "idle" /\ StorageTypeOK
  BY <1>1 DEF NamesInv, NameInv, StoreNext, TypeOK
<1>3. TypeOK'
  BY <1>1, StoreNextType DEF NamesInv, TypeOK
<1>4. PICK name \in Name : name = Target /\ Becomes(Image(name))
  BY <1>2 DEF NamesInv, NameInv
<1>5. DOMAIN Image(name) = NameCells /\ NameCells \subseteq Cells
  BY SizeAssumption DEF Image
<1>6. Becomes(Image(name))'
  BY <1>1, <1>2, <1>4, <1>5, BecomesStep
<1>7. \A a \in NameCells : eeprom'[a] = eeprom[a] \/ eeprom'[a] = Image(name)[a]
  BY <1>1, <1>2, <1>4, <1>5, CellStep
<1>8. Storable(name) /\ Target' = name
  BY <1>1, <1>4, TargetStorable DEF NamesInv, Target
<1>9. Storable(request)' /\ (phase # "idle")' /\ (current = NoAnswer)'
  BY <1>1, <1>2 DEF NamesInv, NameInv, Storable
<1>10. NamesInv'
  BY <1>3, <1>6, <1>8, <1>9 DEF NamesInv, NameInv
<1> QED BY <1>7, <1>8, <1>10

LEMMA PowerLossInv ==
  ASSUME NamesInv, PowerLoss
  PROVE  NamesInv'
<1>1. StorageTypeOK'
  BY LosePowerType DEF NamesInv, TypeOK, PowerLoss
<1>2. TypeOK'
  BY <1>1 DEF NamesInv, TypeOK, PowerLoss
<1>3. phase' = "idle" /\ todo' = << >> /\ request' = request
  BY DEF PowerLoss, LosePower
<1>4. CASE current' = NoAnswer
  BY <1>2, <1>3, <1>4 DEF NamesInv, NameInv, Storable
<1>5. CASE current' # NoAnswer
  <2>1. current' = current /\ eeprom' = eeprom
    BY <1>5 DEF PowerLoss, LosePower
  <2>2. Storable(current)' /\ Holds(current)' /\ Storable(request)'
    BY <1>3, <1>5, <2>1
    DEF NamesInv, NameInv, Storable, Holds, Image, Padded
  <2> QED BY <1>2, <1>3, <2>2 DEF NamesInv, NameInv
<1> QED BY <1>4, <1>5

LEMMA NamesNext == NamesInv /\ [Next]_vars => NamesInv'
<1> SUFFICES ASSUME NamesInv, [Next]_vars PROVE NamesInv'
  OBVIOUS
<1>1. CASE WriteName
  BY <1>1, WriteNameInv
<1>2. CASE NameWritten \/ DefaultRestored
  BY <1>2, DoneInv
<1>3. CASE ReadName
  BY <1>3, ReadNameInv
<1>4. CASE ReadNothing
  BY <1>4, ReadNothingInv
<1>5. CASE StoreCells
  BY <1>5, StoreCellsInv
<1>6. CASE PowerLoss
  BY <1>6, PowerLossInv
<1>7. CASE UNCHANGED vars
  <2>1. TypeOK' /\ UNCHANGED << eeprom, todo, phase, request, current >>
    BY <1>7 DEF NamesInv, TypeOK, StorageTypeOK, vars, storage
  <2>2. phase # "idle" =>
          \E name \in Name : name = Target' /\ Becomes(Image(name))'
    BY <2>1, BecomesStays DEF NamesInv, NameInv, Target
  <2>3. Storable(request)' /\ (current # NoAnswer => Storable(current)')
        /\ (current # NoAnswer => Holds(current)')
    BY <2>1 DEF NamesInv, NameInv, Storable, Holds, Image
  <2> QED BY <2>1, <2>2, <2>3 DEF NamesInv, NameInv
<1> QED BY <1>1, <1>2, <1>3, <1>4, <1>5, <1>6, <1>7 DEF Next

\* The invariant of the calls that store a name: the cells and the calls left
\* make the image of the name being stored.
THEOREM NamesInvariant == Spec => []NamesInv
<1> QED BY NamesInit, NamesNext, PTL DEF Spec

\* Every variable has its type.
THEOREM NamesTypeCorrect == Spec => []TypeOK
<1>1. NamesInv => TypeOK
  BY DEF NamesInv
<1> QED BY <1>1, NamesInvariant, PTL

\* A name whose write nvdata_name_write finished is what nvdata_name answers
\* after every loss of power, until the next write begins.
THEOREM NameAlwaysSurvives == Spec => []NameSurvives
<1>1. NamesInv => NameSurvives
  <2> SUFFICES ASSUME NamesInv, current # NoAnswer
               PROVE  HoldsName /\ Trimmed(StoredName, StoredLength) = current
    BY DEF NameSurvives
  <2> QED BY HeldName DEF NamesInv, NameInv
<1> QED BY <1>1, NamesInvariant, PTL

-----------------------------------------------------------------------------
(* Answers.                                                                *)
\* Where the store keeps what is written, the length is never 0.
AnswerInv ==
  /\ Keeps => eeprom[NAME_LENGTH] # 0
  /\ AnswerIsName

LEMMA AnswerNext ==
  NamesInv /\ NamesInv' /\ AnswerInv /\ [Next]_vars => AnswerInv'
<1> SUFFICES ASSUME NamesInv, NamesInv', AnswerInv, [Next]_vars
             PROVE  AnswerInv'
  OBVIOUS
<1>1. CASE UNCHANGED << storage, answer >>
  BY <1>1 DEF AnswerInv, AnswerIsName, Keeps, storage
<1>2. CASE WriteName \/ ReadNothing
  BY <1>2 DEF AnswerInv, AnswerIsName, Keeps, WriteName, ReadNothing
<1>3. CASE DefaultRestored
  <2>1. answer' = Default /\ UNCHANGED storage
    BY <1>3 DEF DefaultRestored
  <2>2. IsName(Default) /\ Default.chars # << >>
    BY NameAssumption
  <2> QED BY <2>1, <2>2 DEF AnswerInv, AnswerIsName, Keeps, storage
<1>4. CASE ReadName
  <2>1. answer' \in Name /\ IsName(answer') /\ UNCHANGED storage
        /\ Len(answer'.chars) = eeprom[NAME_LENGTH]
    BY <1>4, AnswerType DEF ReadName, NamesInv, TypeOK
  <2>2. Keeps => answer'.chars # << >>
    BY <2>1 DEF AnswerInv
  <2> QED BY <2>1, <2>2 DEF AnswerInv, AnswerIsName, Keeps, storage
<1>5. CASE StoreCells
  <2>1. PICK name \in Name :
          /\ Storable(name)
          /\ \A a \in NameCells :
               eeprom'[a] = eeprom[a] \/ eeprom'[a] = Image(name)[a]
    BY <1>5, StoreCellsInv
  <2>2. NAME_LENGTH \in NameCells
    BY SizeAssumption DEF NAME_LENGTH, NameCells
  <2>3. Image(name)[NAME_LENGTH] = Len(name.chars)
    BY <2>2 DEF Image
  <2>4. Len(name.chars) # 0
    BY <2>1, EmptySequence DEF Storable, Name
  <2>5. (Keeps => eeprom[NAME_LENGTH] # 0)'
    BY <1>5, <2>1, <2>2, <2>3, <2>4
       DEF AnswerInv, StoreCells, StoreNext, Keeps
  <2> QED BY <1>5, <2>5
          DEF AnswerInv, AnswerIsName, StoreCells, StoreNext, Keeps
<1>6. CASE PowerLoss
  BY <1>6 DEF AnswerInv, AnswerIsName, PowerLoss, LosePower, Keeps
<1>7. NameWritten \/ UNCHANGED vars => UNCHANGED << storage, answer >>
  BY DEF NameWritten, vars
<1> QED BY <1>1, <1>2, <1>3, <1>4, <1>5, <1>6, <1>7 DEF Next

\* What nvdata_name answers is a name by nvdata_name_isvalid wherever the
\* writes were cut short, and not the empty one where the store is kept,
\* provided that no such board is first powered with a length of 0.
THEOREM AnswersAreNames ==
  ASSUME \A c \in FirstContents : c[NAME_LENGTH] # 0
  PROVE  Spec => []AnswerIsName
<1>1. Init => AnswerInv
  BY DEF Init, StorageInit, AnswerInv, AnswerIsName, Keeps
<1>2. AnswerInv => AnswerIsName
  BY DEF AnswerInv
<1> QED BY <1>1, <1>2, NamesInvariant, AnswerNext, PTL DEF Spec

=============================================================================
