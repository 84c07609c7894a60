-------------------------- MODULE NvStorage_proofs --------------------------
(***************************************************************************)
(* What the store does, for the proofs of the modules that use it: the     *)
(* cells are octets after any part of any call of write(), and after any   *)
(* loss of power; and the calls that are left make of the cells what the   *)
(* calls were to make of them.                                             *)
(***************************************************************************)
EXTENDS NvStorage, TLAPS

LEMMA EmptySequence ==
  ASSUME NEW S, NEW s \in Seq(S), Len(s) = 0
  PROVE  s = << >>
  OBVIOUS

\* A sequence with a length is not empty.
LEMMA NotEmpty ==
  ASSUME NEW S, NEW s \in Seq(S), Len(s) # 0
  PROVE  s # << >>
  OBVIOUS

\* One call of write(), or a part of it, leaves octets in the cells.
LEMMA StoreNextType ==
  ASSUME StorageTypeOK, StoreNext
  PROVE  StorageTypeOK'
<1> DEFINE w == Head(todo)
           n == Unit(w)
           rest == Write(w.addr + n, SubSeq(w.bytes, n + 1, Len(w.bytes)))
<1>1. w \in Writes /\ Tail(todo) \in Seq(Writes)
  BY DEF StorageTypeOK, StoreNext
<1>2. w.bytes \in Seq(Byte) /\ w.bytes # << >> /\ w.addr \in Nat
  BY <1>1 DEF Writes
<1>3. Len(w.bytes) \in Nat \ {0}
  BY <1>2
<1>4. n \in 1 .. Len(w.bytes)
  BY <1>3 DEF Unit
<1>5. eeprom' \in Contents
  <2>1. eeprom' = [a \in Cells |-> IF a \in w.addr .. w.addr + n - 1
                                   THEN w.bytes[a - w.addr + 1] ELSE eeprom[a]]
    BY DEF StoreNext
  <2>2. ASSUME NEW a \in Cells, a \in w.addr .. w.addr + n - 1
        PROVE  w.bytes[a - w.addr + 1] \in Byte
    <3>1. a - w.addr + 1 \in 1 .. Len(w.bytes)
      BY <1>2, <1>3, <1>4, <2>2
    <3> QED BY <1>2, <3>1
  <2>3. \A a \in Cells : eeprom[a] \in Byte
    BY DEF StorageTypeOK, Contents
  <2> QED BY <2>1, <2>2, <2>3 DEF Contents
<1>6. todo' \in Seq(Writes)
  <2>1. CASE n = Len(w.bytes)
    BY <1>1, <2>1 DEF StoreNext, Remaining
  <2>2. CASE n # Len(w.bytes)
    <3>1. SubSeq(w.bytes, n + 1, Len(w.bytes)) \in Seq(Byte)
      BY <1>2, <1>3, <1>4
    <3>2. Len(SubSeq(w.bytes, n + 1, Len(w.bytes))) = Len(w.bytes) - n
      BY <1>2, <1>3, <1>4
    <3>3. Len(w.bytes) - n # 0
      BY <1>3, <1>4, <2>2
    <3>4. SubSeq(w.bytes, n + 1, Len(w.bytes)) # << >>
      BY <3>1, <3>2, <3>3, NotEmpty
    <3>5. rest \in Writes
      BY <1>2, <1>4, <3>1, <3>4 DEF Write, Writes
    <3>6. todo' = << rest >> \o Tail(todo)
      BY <2>2 DEF StoreNext, Remaining
    <3> QED BY <1>1, <3>5, <3>6
  <2> QED BY <2>1, <2>2
<1> QED BY <1>5, <1>6 DEF StorageTypeOK, StoreNext

\* The store after a loss of power.
LEMMA LosePowerType ==
  ASSUME StorageTypeOK, LosePower
  PROVE  StorageTypeOK'
<1>1. eeprom' \in Contents
  BY DEF StorageTypeOK, LosePower, Contents, Zeroed, Byte
<1> QED BY <1>1 DEF StorageTypeOK, LosePower

-----------------------------------------------------------------------------
\* The calls in todo make image of the cells in its domain: each octet of it is
\* in its cell already or in a call to come, and no call has other octets, or
\* octets for other cells.
EndOf(call) == call.addr + Len(call.bytes) - 1
Agrees(call, image) ==
  \A a \in call.addr .. EndOf(call) :
    a \in DOMAIN image /\ call.bytes[a - call.addr + 1] = image[a]
Becomes(image) ==
  /\ \A k \in 1 .. Len(todo) : Agrees(todo[k], image)
  /\ \A a \in DOMAIN image :
       \/ eeprom[a] = image[a]
       \/ \E k \in 1 .. Len(todo) : a \in todo[k].addr .. EndOf(todo[k])

\* A step of the store changes nothing about that.
LEMMA BecomesStep ==
  ASSUME StorageTypeOK, StoreNext,
         NEW CONSTANT image, DOMAIN image \subseteq Cells, Becomes(image)
  PROVE  Becomes(image)'
<1> DEFINE w == Head(todo)
           n == Unit(w)
           rest == Write(w.addr + n, SubSeq(w.bytes, n + 1, Len(w.bytes)))
<1>1. /\ todo \in Seq(Writes) /\ todo # << >> /\ w = todo[1]
      /\ w \in Writes /\ Tail(todo) \in Seq(Writes)
      /\ Len(todo) \in Nat /\ Len(todo) >= 1
      /\ Len(Tail(todo)) = Len(todo) - 1
      /\ \A k \in 1 .. Len(todo) - 1 : Tail(todo)[k] = todo[k + 1]
  BY DEF StorageTypeOK, StoreNext
<1>2. /\ w.bytes \in Seq(Byte) /\ w.bytes # << >> /\ w.addr \in Nat
      /\ Len(w.bytes) \in Nat /\ Len(w.bytes) # 0
  BY <1>1 DEF Writes
<1>3. n \in 1 .. Len(w.bytes) /\ n \in Nat
  BY <1>2 DEF Unit
<1>4. DOMAIN image \subseteq Nat
  BY StorageAssumption
<1>5. \A a \in DOMAIN image :
        eeprom'[a] = IF a \in w.addr .. w.addr + n - 1
                     THEN w.bytes[a - w.addr + 1] ELSE eeprom[a]
  BY DEF StoreNext
<1>6. todo' = Remaining(w, n) \o Tail(todo)
  BY DEF StoreNext
<1> HIDE DEF w, n
<1>7. Agrees(w, image) /\ EndOf(w) = w.addr + Len(w.bytes) - 1
  BY <1>1 DEF Becomes, EndOf
<1>8. ASSUME NEW a \in DOMAIN image, a \in w.addr .. w.addr + n - 1
      PROVE  eeprom'[a] = image[a]
  <2>1. a \in w.addr .. EndOf(w)
    BY <1>2, <1>3, <1>4, <1>7, <1>8
  <2> QED BY <1>5, <1>7, <1>8, <2>1 DEF Agrees
<1>9. ASSUME NEW a \in DOMAIN image, a \notin w.addr .. w.addr + n - 1,
             eeprom[a] = image[a]
      PROVE  eeprom'[a] = image[a]
  BY <1>5, <1>9
\* The cells of a later call.
<1>10. ASSUME NEW k \in 2 .. Len(todo)
       PROVE  Agrees(todo[k], image)
  BY <1>1 DEF Becomes
<1>11. CASE n = Len(w.bytes)
  <2>1. todo' = Tail(todo)
    BY <1>1, <1>6, <1>11 DEF Remaining
  <2>2. Len(todo') = Len(todo) - 1
        /\ \A k \in 1 .. Len(todo) - 1 : todo'[k] = todo[k + 1]
    BY <1>1, <2>1
  <2>3. ASSUME NEW k \in 1 .. Len(todo') PROVE Agrees(todo'[k], image)
    <3>1. k + 1 \in 2 .. Len(todo) /\ todo'[k] = todo[k + 1]
      BY <1>1, <2>2
    <3> QED BY <1>10, <3>1
  <2>4. ASSUME NEW a \in DOMAIN image
        PROVE  \/ eeprom'[a] = image[a]
               \/ \E k \in 1 .. Len(todo') :
                    a \in todo'[k].addr .. EndOf(todo'[k])
    <3>1. CASE a \in w.addr .. w.addr + n - 1 \/ eeprom[a] = image[a]
      BY <1>8, <1>9, <3>1
    <3>2. CASE a \notin w.addr .. w.addr + n - 1 /\ eeprom[a] # image[a]
      <4>1. PICK k \in 1 .. Len(todo) : a \in todo[k].addr .. EndOf(todo[k])
        BY <3>2 DEF Becomes
      <4>2. k # 1
        BY <1>1, <1>7, <1>11, <3>2, <4>1
      <4>3. PICK m \in 1 .. Len(todo') : m + 1 = k
        BY <1>1, <2>2, <4>2
      <4>4. todo'[m] = todo[k]
        BY <1>1, <2>2, <4>3
      <4> QED BY <4>1, <4>4
    <3> QED BY <3>1, <3>2
  <2> QED BY <2>3, <2>4 DEF Becomes, Agrees, EndOf
<1>12. CASE n # Len(w.bytes)
  <2>1. todo' = << rest >> \o Tail(todo)
    BY <1>6, <1>12 DEF Remaining, w, n
  <2>2. /\ SubSeq(w.bytes, n + 1, Len(w.bytes)) \in Seq(Byte)
        /\ Len(SubSeq(w.bytes, n + 1, Len(w.bytes))) = Len(w.bytes) - n
        /\ \A i \in 1 .. Len(w.bytes) - n :
             SubSeq(w.bytes, n + 1, Len(w.bytes))[i] = w.bytes[n + i]
    BY <1>2, <1>3
  <2>3. /\ rest.addr = w.addr + n
        /\ Len(rest.bytes) = Len(w.bytes) - n
        /\ \A i \in 1 .. Len(w.bytes) - n : rest.bytes[i] = w.bytes[n + i]
    BY <2>2 DEF Write
  <2> HIDE DEF rest
  <2>4. EndOf(rest) = EndOf(w)
    <3>1. EndOf(rest) = w.addr + n + (Len(w.bytes) - n) - 1
      BY <2>3 DEF EndOf
    <3> QED BY <1>2, <1>3, <1>7, <3>1
  <2>5. /\ Len(todo') = Len(todo) /\ todo'[1] = rest
        /\ \A k \in 2 .. Len(todo) : todo'[k] = todo[k]
    <3>1. Len(<< rest >> \o Tail(todo)) = 1 + Len(Tail(todo))
          /\ (<< rest >> \o Tail(todo))[1] = rest
          /\ \A k \in 2 .. 1 + Len(Tail(todo)) :
               (<< rest >> \o Tail(todo))[k] = Tail(todo)[k - 1]
      BY <1>1
    <3>2. \A k \in 2 .. Len(todo) : Tail(todo)[k - 1] = todo[k]
      BY <1>1
    <3> QED BY <1>1, <2>1, <3>1, <3>2
  <2>6. Agrees(rest, image)
    <3> SUFFICES ASSUME NEW a \in rest.addr .. EndOf(rest)
                 PROVE  /\ a \in DOMAIN image
                        /\ rest.bytes[a - rest.addr + 1] = image[a]
      BY DEF Agrees
    <3> a \in Int
      OBVIOUS
    <3>1. /\ a - rest.addr + 1 \in 1 .. Len(w.bytes) - n
          /\ n + (a - rest.addr + 1) = a - w.addr + 1
          /\ a \in w.addr .. EndOf(w)
      BY <1>2, <1>3, <1>4, <1>7, <2>3, <2>4
    <3>2. a \in DOMAIN image /\ w.bytes[a - w.addr + 1] = image[a]
      BY <1>7, <3>1 DEF Agrees
    <3> QED BY <2>3, <3>1, <3>2
  <2>7. ASSUME NEW k \in 1 .. Len(todo') PROVE Agrees(todo'[k], image)
    <3>1. CASE k = 1
      BY <2>5, <2>6, <3>1
    <3>2. CASE k # 1
      BY <1>1, <1>10, <2>5, <3>2
    <3> QED BY <3>1, <3>2
  <2>8. ASSUME NEW a \in DOMAIN image
        PROVE  \/ eeprom'[a] = image[a]
               \/ \E k \in 1 .. Len(todo') :
                    a \in todo'[k].addr .. EndOf(todo'[k])
    <3>1. CASE a \in w.addr .. w.addr + n - 1 \/ eeprom[a] = image[a]
      BY <1>8, <1>9, <3>1
    <3>2. CASE a \notin w.addr .. w.addr + n - 1 /\ eeprom[a] # image[a]
      <4>1. PICK k \in 1 .. Len(todo) : a \in todo[k].addr .. EndOf(todo[k])
        BY <3>2 DEF Becomes
      <4>2. CASE k = 1
        <5>1. a \in w.addr .. EndOf(w)
          BY <1>1, <4>1, <4>2
        <5>2. a \in rest.addr .. EndOf(rest)
          BY <1>2, <1>3, <1>4, <1>7, <2>3, <2>4, <3>2, <5>1
        <5>3. 1 \in 1 .. Len(todo') /\ todo'[1] = rest
          BY <1>1, <2>5
        <5> QED BY <5>2, <5>3
      <4>3. CASE k # 1
        <5>1. k \in 1 .. Len(todo') /\ todo'[k] = todo[k]
          BY <1>1, <2>5, <4>3
        <5> QED BY <4>1, <5>1
      <4> QED BY <4>2, <4>3
    <3> QED BY <3>1, <3>2
  <2> QED BY <2>7, <2>8 DEF Becomes, Agrees, EndOf
<1> QED BY <1>11, <1>12

LEMMA BecomesStays ==
  ASSUME UNCHANGED << eeprom, todo >>, NEW CONSTANT image, Becomes(image)
  PROVE  Becomes(image)'
BY DEF Becomes, Agrees, EndOf

\* A cell that a step writes gets that octet.
LEMMA CellStep ==
  ASSUME StorageTypeOK, StoreNext, NEW image, DOMAIN image \subseteq Cells,
         Becomes(image), NEW a \in DOMAIN image
  PROVE  eeprom'[a] = eeprom[a] \/ eeprom'[a] = image[a]
<1> DEFINE w == Head(todo)
           n == Unit(w)
<1>1. todo \in Seq(Writes) /\ todo # << >> /\ w = todo[1] /\ w \in Writes
      /\ 1 \in 1 .. Len(todo)
  BY DEF StorageTypeOK, StoreNext
<1>2. w.bytes \in Seq(Byte) /\ w.addr \in Nat /\ Len(w.bytes) # 0
  BY <1>1 DEF Writes
<1>3. n \in 1 .. Len(w.bytes) /\ Len(w.bytes) \in Nat
  BY <1>2 DEF Unit
<1>4. a \in Nat
  BY StorageAssumption
<1>5. eeprom'[a] = IF a \in w.addr .. w.addr + n - 1
                   THEN w.bytes[a - w.addr + 1] ELSE eeprom[a]
  BY DEF StoreNext
<1>6. Agrees(w, image)
  BY <1>1 DEF Becomes
<1> HIDE DEF w, n
<1>7. CASE a \in w.addr .. w.addr + n - 1
  <2>1. a \in w.addr .. EndOf(w)
    BY <1>2, <1>3, <1>4, <1>7 DEF EndOf
  <2> QED BY <1>5, <1>6, <1>7, <2>1 DEF Agrees
<1>8. CASE a \notin w.addr .. w.addr + n - 1
  BY <1>5, <1>8
<1> QED BY <1>7, <1>8

\* A step writes no other cell.
LEMMA OtherCellStep ==
  ASSUME StorageTypeOK, StoreNext, NEW image, Becomes(image),
         NEW a \in Cells, a \notin DOMAIN image
  PROVE  eeprom'[a] = eeprom[a]
<1> DEFINE w == Head(todo)
           n == Unit(w)
<1>1. todo \in Seq(Writes) /\ todo # << >> /\ w = todo[1] /\ w \in Writes
      /\ 1 \in 1 .. Len(todo)
  BY DEF StorageTypeOK, StoreNext
<1>2. w.bytes \in Seq(Byte) /\ w.addr \in Nat /\ Len(w.bytes) # 0
  BY <1>1 DEF Writes
<1>3. n \in 1 .. Len(w.bytes) /\ Len(w.bytes) \in Nat
  BY <1>2 DEF Unit
<1>4. eeprom'[a] = IF a \in w.addr .. w.addr + n - 1
                   THEN w.bytes[a - w.addr + 1] ELSE eeprom[a]
  BY DEF StoreNext
<1>5. Agrees(w, image) /\ a \in Nat
  BY <1>1, StorageAssumption DEF Becomes
<1> HIDE DEF w, n
<1>6. a \notin w.addr .. EndOf(w)
  BY <1>5 DEF Agrees
<1>7. a \notin w.addr .. w.addr + n - 1
  BY <1>2, <1>3, <1>5, <1>6 DEF EndOf
<1> QED BY <1>4, <1>7

\* When no call is left the cells hold it.
LEMMA BecomesDone ==
  ASSUME NEW image, Becomes(image), todo = << >>
  PROVE  \A a \in DOMAIN image : eeprom[a] = image[a]
<1>1. Len(todo) = 0
  OBVIOUS
<1> QED BY <1>1 DEF Becomes

=============================================================================
