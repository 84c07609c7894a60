------------------------- MODULE DeviceConfig_proofs -------------------------
(***************************************************************************)
(* Whatever the cells hold and whenever the power fails, the device comes  *)
(* up with an address on its ring: the facts that MstpMaster assumes of    *)
(* This_Station, Nmax_master and Nmax_info_frames.  It has one instance    *)
(* number, and the settings that it was given last.                        *)
(***************************************************************************)
EXTENDS DeviceConfig, NvStorage_proofs

\* While a value is being stored it is one that its callback accepted: the new
\* instance is not negative, though the type of a request would allow it.
RequestAccepted == phase = "writing" => Accepted(request)

ConfigInv == TypeOK /\ OnRing /\ RequestAccepted

-----------------------------------------------------------------------------
\* The comparisons of baudFromKilo find a code for every octet from 9 on.
LEMMA HighestUpToKnown ==
  ASSUME NEW k \in Byte, k >= 9
  PROVE  HighestUpTo(k) \in KiloBauds
<1>1. \E r \in KiloBauds : r <= k /\ \A q \in KiloBauds : q <= k => q <= r
  <2>1. CASE k < 19 BY <2>1 DEF KiloBauds, Byte
  <2>2. CASE k >= 19 /\ k < 38 BY <2>2 DEF KiloBauds, Byte
  <2>3. CASE k >= 38 /\ k < 57 BY <2>3 DEF KiloBauds, Byte
  <2>4. CASE k >= 57 /\ k < 76 BY <2>4 DEF KiloBauds, Byte
  <2>5. CASE k >= 76 /\ k < 115 BY <2>5 DEF KiloBauds, Byte
  <2>6. CASE k >= 115 BY <2>6 DEF KiloBauds, Byte
  <2> QED BY <2>1, <2>2, <2>3, <2>4, <2>5, <2>6 DEF Byte
<1> QED BY <1>1 DEF HighestUpTo

\* Every octet stands for a baud rate that RS485_Set_Baud_Rate knows.
LEMMA BaudRateKnown ==
  ASSUME NEW k \in Byte
  PROVE  BaudFromKilo(k) \in BaudRates
<1>1. BaudRate[38] = 38400 /\ 38 \in KiloBauds
  BY DEF BaudRate, KiloBauds
<1>2. 38400 \in BaudRates
  BY <1>1 DEF BaudRates
<1>3. CASE k = 255 \/ k < 9
  BY <1>2, <1>3 DEF BaudFromKilo
<1>4. CASE ~ (k = 255 \/ k < 9)
  <2>1. HighestUpTo(k) \in KiloBauds
    BY <1>4, HighestUpToKnown DEF Byte
  <2> QED BY <1>4, <2>1 DEF BaudFromKilo, BaudRates
<1> QED BY <1>3, <1>4

\* What boot and the callbacks queue are calls of write() with octets.
LEMMA QueueType ==
  /\ Defaults \in Seq(Writes)
  /\ \A r \in [object : Settings, value : Int] :
       Accepted(r) => << Stored(r) >> \in Seq(Writes)
<1>1. \A v \in Int : /\ Encode8(v) \in Seq(Byte) \ {<< >>}
                     /\ Encode16(v) \in Seq(Byte) \ {<< >>}
                     /\ Encode24(v) \in Seq(Byte) \ {<< >>}
  BY DEF Encode8, Encode16, Encode24, Byte
<1>2. \A a \in Nat, v \in Int : /\ Write(a, Encode8(v)) \in Writes
                                /\ Write(a, Encode16(v)) \in Writes
                                /\ Write(a, Encode24(v)) \in Writes
  BY <1>1 DEF Write, Writes
<1>3. Defaults \in Seq(Writes)
  BY <1>2 DEF Defaults, NV_EEPROM_TYPE_0, NV_EEPROM_VERSION,
       NV_EEPROM_MSTP_MAC, NV_EEPROM_MSTP_BAUD_K, NV_EEPROM_MSTP_MAX_MASTER,
       NV_EEPROM_DEVICE_0, NV_EEPROM_TYPE_ID, FactoryStation, FactoryInstance
<1>4. ASSUME NEW r \in [object : Settings, value : Int]
      PROVE  << Stored(r) >> \in Seq(Writes)
  <2>1. r.value \in Int
        /\ r.object \in {DeviceId, MstpBaud, MstpMac, MstpManager}
    BY DEF Settings, DeviceId, MstpBaud, MstpMac, MstpManager
  <2>2. Stored(r) \in Writes
    <3>1. CASE r.object = DeviceId
      BY <1>2, <2>1, <3>1 DEF Stored, DeviceId, MstpBaud, MstpMac, MstpManager,
           NV_EEPROM_DEVICE_0
    <3>2. CASE r.object = MstpBaud
      <4>1. r.value \div 1000 \in Int
        BY <2>1
      <4>2. Stored(r)
              = Write(NV_EEPROM_MSTP_BAUD_K, Encode8(r.value \div 1000))
        BY <3>2 DEF Stored, DeviceId, MstpBaud, MstpMac, MstpManager
      <4>3. NV_EEPROM_MSTP_BAUD_K \in Nat
        BY DEF NV_EEPROM_MSTP_BAUD_K
      <4> QED BY <1>2, <4>1, <4>2, <4>3
    <3>3. CASE r.object = MstpMac
      BY <1>2, <2>1, <3>3 DEF Stored, DeviceId, MstpBaud, MstpMac, MstpManager,
           NV_EEPROM_MSTP_MAC
    <3>4. CASE r.object = MstpManager
      <4>1. Stored(r) = Write(NV_EEPROM_MSTP_MAX_MASTER, Encode8(r.value))
        BY <3>4 DEF Stored, DeviceId, MstpBaud, MstpMac, MstpManager
      <4> QED BY <1>2, <2>1, <4>1 DEF NV_EEPROM_MSTP_MAX_MASTER
    <3> QED BY <2>1, <3>1, <3>2, <3>3, <3>4
  <2> QED BY <2>2
<1> QED BY <1>3, <1>4

\* The default instance has three octets; every default is one value.
LEMMA FactoryType ==
  FactoryInstance \in Long /\ Factory \in [Settings -> SUBSET Int]
<1>1. /\ FactoryInstance \in Long /\ FactoryInstance \in Int
      /\ FactoryBaud \in Int /\ FactoryStation \in Int
  BY DEF FactoryInstance, FactoryBaud, FactoryStation, Long
<1>2. \A s \in Settings :
        s = DeviceId \/ s = MstpBaud \/ s = MstpMac \/ s = MstpManager
  BY DEF Settings, DeviceId, MstpBaud, MstpMac, MstpManager
<1> QED BY <1>1, <1>2 DEF Factory

\* The rate of a port before boot sets one.
LEMMA FirstBaudRate == 9600 \in BaudRates
<1>1. BaudRate[9] = 9600 /\ 9 \in KiloBauds
  BY DEF BaudRate, KiloBauds
<1> QED BY <1>1 DEF BaudRates

\* deviceIdWrite accepts instance numbers; they fit into three octets.
LEMMA AcceptedInstance ==
  ASSUME NEW r, Accepted(r), r.object = DeviceId
  PROVE  r.value >= 0 /\ r.value <= BACNET_MAX_INSTANCE
<1>1. DeviceId # MstpBaud /\ DeviceId # MstpMac /\ DeviceId # MstpManager
  BY DEF DeviceId, MstpBaud, MstpMac, MstpManager
<1> QED BY <1>1 DEF Accepted

\* Every object instance that is accepted fits the three octets it is kept in.
LEMMA InstanceIsLong ==
  ASSUME NEW n \in Nat, n <= BACNET_MAX_INSTANCE
  PROVE  n \in Long
  BY DEF BACNET_MAX_INSTANCE, Long

\* The cells that boot reads hold octets.
LEMMA CellsRead ==
  ASSUME StorageTypeOK
  PROVE  /\ \A a \in ConfigCells : Unsigned8(a) \in Byte
         /\ Unsigned24(NV_EEPROM_DEVICE_0) \in Long
<1>1. \A a \in ConfigCells : eeprom[a] \in Byte
  BY ConfigAssumption DEF StorageTypeOK, Contents
<1>2. /\ eeprom[13] \in 0 .. 255
      /\ eeprom[14] \in 0 .. 255
      /\ eeprom[15] \in 0 .. 255
  BY <1>1 DEF ConfigCells, Byte
<1>3. NV_EEPROM_DEVICE_0 = 13 /\ 13 + 1 = 14 /\ 13 + 2 = 15
  BY DEF NV_EEPROM_DEVICE_0
<1>4. PICK x \in 0 .. 255, y \in 0 .. 255, z \in 0 .. 255 :
         eeprom[13] = x /\ eeprom[14] = y /\ eeprom[15] = z
  BY <1>2
<1>5. Unsigned24(NV_EEPROM_DEVICE_0) = 65536 * x + 256 * y + z
  BY <1>3, <1>4 DEF Unsigned24
<1>6. 65536 * x + 256 * y + z \in Long
  BY DEF Long
<1> QED BY <1>1, <1>5, <1>6 DEF Unsigned8

-----------------------------------------------------------------------------
\* The static variables satisfy the invariant before begin().
LEMMA InitConfig == Init => ConfigInv
<1> SUFFICES ASSUME Init PROVE ConfigInv
  OBVIOUS
<1>1. StorageTypeOK
  <2>1. Zeroed \in Contents
    BY DEF Zeroed, Contents, Byte
  <2>2. eeprom \in Contents
    BY <2>1, StorageAssumption DEF Init, StorageInit
  <2> QED BY <2>2 DEF Init, StorageInit, StorageTypeOK
<1>2. request \in [object : Settings, value : Int]
  BY DEF Init, Settings, DeviceId, MstpManager
<1>3. /\ phase \in {"boot", "default", "apply", "running", "writing"}
      /\ phase = "boot"
  BY DEF Init
<1>4. mayBe \in [Settings -> SUBSET Int]
  BY DEF Init, Unknown
<1> QED BY <1>1, <1>2, <1>3, <1>4, FactoryType, FirstBaudRate
      DEF Init, ConfigInv, TypeOK, OnRing, RequestAccepted

\* So does every step of boot, of a write, and of a loss of power.
LEMMA StepConfig == ConfigInv /\ [Next]_vars => ConfigInv'
<1> SUFFICES ASSUME ConfigInv, [Next]_vars PROVE ConfigInv'
  OBVIOUS
<1> USE DEF ConfigInv, TypeOK, OnRing, RequestAccepted
<1>1. CASE ReadTypeTag
  <2>1. todo' \in Seq(Writes)
    <3>1. todo' = << >> \/ todo' = Defaults
      BY <1>1 DEF ReadTypeTag
    <3>2. << >> \in Seq(Writes) /\ Defaults \in Seq(Writes)
      BY QueueType
    <3> QED BY <3>1, <3>2
  <2>2. StorageTypeOK'
    BY <1>1, <2>1 DEF ReadTypeTag, StorageTypeOK
  <2> QED BY <1>1, <2>2 DEF ReadTypeTag, live
<1>2. CASE StoreCells
  <2>1. StorageTypeOK'
    BY <1>2, StoreNextType DEF StoreCells
  <2> QED BY <1>2, <2>1 DEF StoreCells, live
<1>3. CASE ApplySettings
  <2> DEFINE mac == Unsigned8(NV_EEPROM_MSTP_MAC)
             most == Unsigned8(NV_EEPROM_MSTP_MAX_MASTER)
             max == RaiseMaxMaster(Nmax_master, mac)
  <2>1. mac \in 0 .. 255 /\ most \in 0 .. 255
    BY CellsRead DEF ConfigCells, NV_EEPROM_MSTP_MAC,
         NV_EEPROM_MSTP_MAX_MASTER, Byte
  <2>2. /\ This_Station' = SetMacAddress(This_Station, mac)
        /\ Nmax_master' = SetMaxMaster(This_Station', max, most)
    BY <1>3 DEF ApplySettings
  <2>3. This_Station' \in 0 .. 127
    BY <2>1, <2>2 DEF SetMacAddress
  <2>4. max \in 0 .. 127 /\ This_Station' <= max
    BY <2>1, <2>2 DEF SetMacAddress, RaiseMaxMaster, SetMaxMaster
  <2>5. Nmax_master' \in 0 .. 127 /\ This_Station' <= Nmax_master'
    BY <2>1, <2>2, <2>3, <2>4 DEF SetMaxMaster
  <2>6. baud' \in BaudRates
    BY <1>3, CellsRead, BaudRateKnown DEF ApplySettings, ConfigCells,
         NV_EEPROM_MSTP_BAUD_K
  <2>7. objectInstanceNumber' \in Long
    BY <1>3, CellsRead DEF ApplySettings
  <2>8. StorageTypeOK'
    BY <1>3 DEF ApplySettings, storage, StorageTypeOK
  <2>9. mayBe' \in [Settings -> SUBSET Int]
    BY <1>3, FactoryType DEF ApplySettings
  <2> QED BY <1>3, <2>3, <2>5, <2>6, <2>7, <2>8, <2>9 DEF ApplySettings
<1>4. CASE WritePresentValue
  <2>1. PICK r \in Requests :
          /\ Accepted(r)
          /\ request' = r
          /\ todo' = << Stored(r) >>
          /\ mayBe' = [mayBe EXCEPT ![r.object] =
                         IF @ = {} THEN {} ELSE @ \cup {r.value}]
    BY <1>4 DEF WritePresentValue
  <2>2. r \in [object : Settings, value : Int]
    BY ConfigAssumption
  <2>3. StorageTypeOK'
    BY <1>4, <2>1, <2>2, QueueType DEF WritePresentValue, StorageTypeOK
  <2>4. mayBe' \in [Settings -> SUBSET Int]
    BY <2>1, <2>2
  <2> QED BY <1>4, <2>1, <2>2, <2>3, <2>4 DEF WritePresentValue, live
<1>5. CASE WriteDone
  <2>1. NewInstance(request) \in Long
    <3>1. CASE request.object = DeviceId
      <4>1. request.value >= 0 /\ request.value <= BACNET_MAX_INSTANCE
        BY <1>5, <3>1, AcceptedInstance DEF WriteDone
      <4>2. request.value \in Nat
        BY <4>1
      <4>3. request.value \in Long
        BY <4>1, <4>2, InstanceIsLong
      <4> QED BY <4>3 DEF NewInstance
    <3>2. CASE request.object # DeviceId
      BY <3>2 DEF NewInstance
    <3> QED BY <3>1, <3>2
  <2>2. StorageTypeOK'
    BY <1>5 DEF WriteDone, storage, StorageTypeOK
  <2>3. mayBe' \in [Settings -> SUBSET Int]
    BY <1>5 DEF WriteDone
  <2> QED BY <1>5, <2>1, <2>2, <2>3 DEF WriteDone
<1>6. CASE PowerLoss
  <2>1. StorageTypeOK'
    BY <1>6, LosePowerType DEF PowerLoss
  <2>2. mayBe' \in [Settings -> SUBSET Int] /\ baud' \in BaudRates
    BY <1>6, FirstBaudRate DEF PowerLoss, Unknown
  <2> QED BY <1>6, <2>1, <2>2, FactoryType DEF PowerLoss
<1>7. CASE UNCHANGED vars
  BY <1>7 DEF vars, storage, live, StorageTypeOK
<1> QED BY <1>1, <1>2, <1>3, <1>4, <1>5, <1>6, <1>7 DEF Next

\* Every variable of the configuration keeps its type; in particular no octet
\* in the cells makes an address above 127 or an unknown baud rate.
THEOREM ConfigTypeCorrect == Spec => []TypeOK
<1>1. Spec => []ConfigInv
  BY InitConfig, StepConfig, PTL DEF Spec
<1>2. ConfigInv => TypeOK
  BY DEF ConfigInv
<1> QED BY <1>1, <1>2, PTL

\* For every content of the cells, every board and every loss of power, the
\* address lies within Max_Master, and a node in operation may send a frame.
THEOREM AlwaysOnRing == Spec => []OnRing
<1>1. Spec => []ConfigInv
  BY InitConfig, StepConfig, PTL DEF Spec
<1>2. ConfigInv => OnRing
  BY DEF ConfigInv
<1> QED BY <1>1, <1>2, PTL

-----------------------------------------------------------------------------
(* What is in the cells of a setting, and what a write of it makes of them. *)
InstanceCells == 13 .. 15
CellOf(s) == IF s = MstpMac THEN 10 ELSE IF s = MstpBaud THEN 11 ELSE 12
InCell(s, v) == IF s = MstpBaud THEN (v \div 1000) % 256 ELSE v % 256
Instance == Unsigned24(NV_EEPROM_DEVICE_0)
CellsHold(s, v) ==
  IF s = DeviceId THEN Instance = v ELSE eeprom[CellOf(s)] = InCell(s, v)

Image(r) ==
  IF r.object = DeviceId
  THEN [a \in InstanceCells |-> Encode24(r.value)[a - 12]]
  ELSE [a \in {CellOf(r.object)} |-> InCell(r.object, r.value)]

LEMMA OnlySettings ==
  ASSUME NEW s \in Settings
  PROVE  s = DeviceId \/ s = MstpBaud \/ s = MstpMac \/ s = MstpManager
BY DEF Settings, DeviceId, MstpBaud, MstpMac, MstpManager

\* The three octets of an accepted instance number make that number.
LEMMA DecodeInstance ==
  ASSUME NEW v \in Nat, v <= BACNET_MAX_INSTANCE
  PROVE  65536 * Encode24(v)[1] + 256 * Encode24(v)[2] + Encode24(v)[3] = v
<1>1. (v \div 65536) % 256 = v \div 65536
  BY DEF BACNET_MAX_INSTANCE
<1>2. 256 * (v \div 65536) + ((v \div 256) % 256) = v \div 256
  OBVIOUS
<1>3. 256 * (v \div 256) + (v % 256) = v
  OBVIOUS
<1>4. v \div 65536 \in Int /\ v \div 256 \in Int
      /\ (v \div 256) % 256 \in Int /\ v % 256 \in Int
  OBVIOUS
<1>5. 65536 * (v \div 65536) + 256 * ((v \div 256) % 256) + (v % 256) = v
  BY <1>2, <1>3, <1>4
<1> QED BY <1>1, <1>5 DEF Encode24

\* The call that a callback queues makes the image of the request.
LEMMA CallMakesImage ==
  ASSUME NEW CONSTANT r \in [object : Settings, value : Int],
         todo' = << Stored(r) >>
  PROVE  Becomes(Image(r))'
<1> DEFINE image == Image(r)
           call == Stored(r)
<1>1. Len(todo') = 1 /\ todo'[1] = call
  OBVIOUS
<1>2. CASE r.object = DeviceId
  <2>1. call = Write(13, Encode24(r.value))
    BY <1>2 DEF Stored, DeviceId, MstpBaud, MstpMac, MstpManager,
         NV_EEPROM_DEVICE_0
  <2>2. call.addr = 13 /\ call.bytes = Encode24(r.value) /\ EndOf(call) = 15
    BY <2>1 DEF Write, EndOf, Encode24
  <2>3. DOMAIN image = 13 .. 15
        /\ \A a \in 13 .. 15 : image[a] = Encode24(r.value)[a - 12]
    BY <1>2 DEF Image, InstanceCells
  <2> HIDE DEF image, call
  <2>4. \A a \in 13 .. 15 : a - 13 + 1 = a - 12
    OBVIOUS
  <2>5. Agrees(call, image)
    BY <2>2, <2>3, <2>4 DEF Agrees
  <2>6. 1 \in 1 .. Len(todo') /\ \A k \in 1 .. Len(todo') : k = 1
    BY <1>1
  <2>7. \A k \in 1 .. Len(todo') : Agrees(todo'[k], image)
    BY <1>1, <2>5, <2>6
  <2>8. \A a \in DOMAIN image : a \in todo'[1].addr .. EndOf(todo'[1])
    BY <1>1, <2>2, <2>3
  <2>9. \A a \in DOMAIN image : \E k \in 1 .. Len(todo') :
          a \in todo'[k].addr .. EndOf(todo'[k])
    BY <2>6, <2>8
  <2> QED BY <2>7, <2>9 DEF Becomes, image, Image, Agrees, EndOf
<1>3. CASE r.object # DeviceId
  <2>1. call = Write(CellOf(r.object), << InCell(r.object, r.value) >>)
    <3>1. CASE r.object = MstpBaud
      BY <3>1 DEF Stored, DeviceId, MstpBaud, MstpMac, MstpManager,
           NV_EEPROM_MSTP_BAUD_K, CellOf, InCell, Encode8
    <3>2. CASE r.object = MstpMac
      BY <3>2 DEF Stored, DeviceId, MstpBaud, MstpMac, MstpManager,
           NV_EEPROM_MSTP_MAC, CellOf, InCell, Encode8
    <3>3. CASE r.object = MstpManager
      BY <3>3 DEF Stored, DeviceId, MstpBaud, MstpMac, MstpManager,
           NV_EEPROM_MSTP_MAX_MASTER, CellOf, InCell, Encode8
    <3> QED BY <1>3, <3>1, <3>2, <3>3, OnlySettings
  <2>2. CellOf(r.object) \in {10, 11, 12}
    BY DEF CellOf
  <2>3. /\ call.addr = CellOf(r.object) /\ EndOf(call) = CellOf(r.object)
        /\ call.bytes = << InCell(r.object, r.value) >>
    BY <2>1, <2>2 DEF Write, EndOf
  <2>4. DOMAIN image = {CellOf(r.object)}
        /\ image[CellOf(r.object)] = InCell(r.object, r.value)
    BY <1>3 DEF Image
  <2> HIDE DEF image, call
  <2>5. \A a \in CellOf(r.object) .. CellOf(r.object) : a = CellOf(r.object)
        /\ CellOf(r.object) \in CellOf(r.object) .. CellOf(r.object)
        /\ CellOf(r.object) - CellOf(r.object) + 1 = 1
    BY <2>2
  <2>6. Agrees(call, image)
    BY <2>3, <2>4, <2>5 DEF Agrees
  <2>7. 1 \in 1 .. Len(todo') /\ \A k \in 1 .. Len(todo') : k = 1
    BY <1>1
  <2>8. \A k \in 1 .. Len(todo') : Agrees(todo'[k], image)
    BY <1>1, <2>6, <2>7
  <2>9. \A a \in DOMAIN image : a \in todo'[1].addr .. EndOf(todo'[1])
    <3>1. todo'[1].addr = CellOf(r.object) /\ EndOf(todo'[1]) = CellOf(r.object)
      BY <1>1, <2>3
    <3>2. CellOf(r.object) \in CellOf(r.object) .. CellOf(r.object)
      BY <2>2
    <3> QED BY <2>4, <3>1, <3>2
  <2>10. \A a \in DOMAIN image : \E k \in 1 .. Len(todo') :
           a \in todo'[k].addr .. EndOf(todo'[k])
    BY <2>7, <2>9
  <2> QED BY <2>8, <2>10 DEF Becomes, image, Image, Agrees, EndOf
<1> QED BY <1>2, <1>3

LEMMA ImageCells ==
  ASSUME NEW r \in [object : Settings, value : Int]
  PROVE  /\ DOMAIN Image(r) \subseteq ConfigCells
         /\ r.object = DeviceId =>
              /\ DOMAIN Image(r) = {13, 14, 15}
              /\ Image(r)[13] = Encode24(r.value)[1]
              /\ Image(r)[14] = Encode24(r.value)[2]
              /\ Image(r)[15] = Encode24(r.value)[3]
         /\ r.object # DeviceId =>
              /\ DOMAIN Image(r) = {CellOf(r.object)}
              /\ Image(r)[CellOf(r.object)] = InCell(r.object, r.value)
<1>1. CellOf(r.object) \in {10, 11, 12}
  BY DEF CellOf
<1>2. CASE r.object = DeviceId
  BY <1>2 DEF Image, InstanceCells, ConfigCells
<1>3. CASE r.object # DeviceId
  BY <1>1, <1>3 DEF Image, ConfigCells
<1> QED BY <1>2, <1>3

-----------------------------------------------------------------------------
(* The instance number, which AV 92 reads in the cells and the Device      *)
(* object in a variable.                                                   *)
LiveInv ==
  /\ phase \in {"boot", "apply", "running"} => todo = << >>
  /\ phase = "running" => objectInstanceNumber = Instance
  /\ phase = "writing" =>
       /\ \E r \in [object : Settings, value : Int] :
            r = request /\ Becomes(Image(r))
       /\ backend # "AVR" => todo = << >> \/ todo = << Stored(request) >>
       /\ request.object # DeviceId => objectInstanceNumber = Instance

\* A write whose call is done has put the value into its cells.
LEMMA Written ==
  ASSUME ConfigInv, LiveInv, phase = "writing", todo = << >>
  PROVE  CellsHold(request.object, request.value)
<1>1. PICK r \in [object : Settings, value : Int] :
        r = request /\ Becomes(Image(r))
  BY DEF LiveInv
<1>2. \A a \in DOMAIN Image(r) : eeprom[a] = Image(r)[a]
  BY <1>1, BecomesDone
<1>3. CASE r.object = DeviceId
  <2>1. /\ eeprom[13] = Encode24(r.value)[1]
        /\ eeprom[13 + 1] = Encode24(r.value)[2]
        /\ eeprom[13 + 2] = Encode24(r.value)[3]
    <3>1. /\ DOMAIN Image(r) = {13, 14, 15}
          /\ Image(r)[13] = Encode24(r.value)[1]
          /\ Image(r)[14] = Encode24(r.value)[2]
          /\ Image(r)[15] = Encode24(r.value)[3]
      BY <1>3, ImageCells
    <3>2. /\ eeprom[13] = Encode24(r.value)[1]
          /\ eeprom[14] = Encode24(r.value)[2]
          /\ eeprom[15] = Encode24(r.value)[3]
      BY <1>2, <3>1
    <3>3. 13 + 1 = 14 /\ 13 + 2 = 15
      OBVIOUS
    <3> QED BY <3>2, <3>3
  <2>2. r.value \in Nat /\ r.value <= BACNET_MAX_INSTANCE
    <3>1. r.value >= 0 /\ r.value <= BACNET_MAX_INSTANCE
      BY <1>1, <1>3, AcceptedInstance DEF ConfigInv, RequestAccepted
    <3> QED BY <3>1
  <2> QED BY <1>1, <1>3, <2>1, <2>2, DecodeInstance
          DEF CellsHold, Instance, Unsigned24, NV_EEPROM_DEVICE_0
<1>4. CASE r.object # DeviceId
  BY <1>1, <1>2, <1>4, ImageCells DEF CellsHold
<1> QED BY <1>3, <1>4

\* A write of another setting leaves the cells of this one alone.
LEMMA OthersHold ==
  ASSUME StorageTypeOK, StoreNext,
         NEW r \in [object : Settings, value : Int], Becomes(Image(r)),
         NEW s \in Settings, s # r.object
  PROVE  /\ s = DeviceId => Instance' = Instance
         /\ s # DeviceId => eeprom'[CellOf(s)] = eeprom[CellOf(s)]
<1>1. ConfigCells \subseteq Cells /\ CellOf(s) \in ConfigCells
  BY ConfigAssumption DEF CellOf, ConfigCells
<1>2. CASE s = DeviceId
  <2>1. /\ DOMAIN Image(r) = {CellOf(r.object)}
        /\ CellOf(r.object) \in {10, 11, 12}
    BY <1>2, ImageCells DEF CellOf
  <2>2. \A a \in {13, 13 + 1, 13 + 2} : a \in Cells /\ a \notin DOMAIN Image(r)
    BY <1>1, <2>1 DEF ConfigCells
  <2>3. \A a \in {13, 13 + 1, 13 + 2} : eeprom'[a] = eeprom[a]
    BY <2>2, OtherCellStep
  <2> QED BY <1>2, <2>3 DEF Instance, Unsigned24, NV_EEPROM_DEVICE_0
<1>3. CASE s # DeviceId
  <2>1. CellOf(s) \notin DOMAIN Image(r)
    <3>1. CASE r.object = DeviceId
      <4>1. DOMAIN Image(r) = {13, 14, 15}
        BY <3>1, ImageCells
      <4>2. CellOf(s) \in {10, 11, 12}
        BY DEF CellOf
      <4> QED BY <4>1, <4>2
    <3>2. CASE r.object # DeviceId
      <4>1. DOMAIN Image(r) = {CellOf(r.object)}
        BY <3>2, ImageCells
      <4>2. CellOf(s) # CellOf(r.object)
        BY <1>3, <3>2, OnlySettings
           DEF CellOf, DeviceId, MstpBaud, MstpMac, MstpManager
      <4> QED BY <4>1, <4>2
    <3> QED BY <3>1, <3>2
  <2> QED BY <1>1, <1>3, <2>1, OtherCellStep
<1> QED BY <1>2, <1>3

LEMMA StepLive == ConfigInv /\ LiveInv /\ [Next]_vars => LiveInv'
<1> SUFFICES ASSUME ConfigInv, LiveInv, [Next]_vars PROVE LiveInv'
  OBVIOUS
<1>1. CASE ReadTypeTag
  BY <1>1 DEF ReadTypeTag, LiveInv
<1>2. CASE StoreCells
  <2>1. StorageTypeOK /\ StoreNext /\ todo # << >> /\ UNCHANGED request
        /\ phase' = phase /\ objectInstanceNumber' = objectInstanceNumber
        /\ backend' = backend
    BY <1>2 DEF StoreCells, StoreNext, live, ConfigInv, TypeOK
  <2>2. phase \notin {"boot", "apply", "running"}
    BY <2>1 DEF LiveInv
  <2>3. CASE phase = "writing"
    <3>1. PICK r \in [object : Settings, value : Int] :
            r = request /\ Becomes(Image(r))
      BY <2>3 DEF LiveInv
    <3>2. Becomes(Image(r))'
      BY <2>1, <3>1, ImageCells, BecomesStep, ConfigAssumption
    <3>3. backend # "AVR" => todo' = << >>
      <4> SUFFICES ASSUME backend # "AVR" PROVE todo' = << >>
        OBVIOUS
      <4>1. todo = << Stored(request) >>
        BY <2>1, <2>3 DEF LiveInv
      <4>2. Tail(todo) = << >>
            /\ Remaining(Head(todo), Unit(Head(todo))) = << >>
        BY <4>1 DEF Remaining, Unit
      <4> QED BY <2>1, <4>2 DEF StoreNext
    <3>4. request.object # DeviceId => Instance' = Instance
      <4>1. DeviceId \in Settings
        BY DEF Settings, DeviceId, MstpManager
      <4> QED BY <2>1, <3>1, <4>1, OthersHold
    <3> QED BY <2>1, <2>3, <3>1, <3>2, <3>3, <3>4 DEF LiveInv
  <2> QED BY <2>1, <2>2, <2>3 DEF LiveInv
<1>3. CASE ApplySettings
  BY <1>3 DEF ApplySettings, LiveInv, storage, Instance, Unsigned24
<1>4. CASE WritePresentValue
  <2>1. PICK r \in Requests : request' = r /\ todo' = << Stored(r) >>
    BY <1>4 DEF WritePresentValue
  <2>2. r \in [object : Settings, value : Int]
    BY ConfigAssumption
  <2>3. /\ phase = "running" /\ phase' = "writing" /\ eeprom' = eeprom
        /\ objectInstanceNumber' = objectInstanceNumber
    BY <1>4 DEF WritePresentValue, live
  <2>4. Becomes(Image(r))'
    BY <2>1, <2>2, CallMakesImage
  <2>5. objectInstanceNumber' = Instance'
    BY <2>3 DEF LiveInv, Instance, Unsigned24
  <2>6. todo' = << Stored(request') >>
    BY <2>1
  <2> QED BY <2>1, <2>2, <2>3, <2>4, <2>5, <2>6 DEF LiveInv, Stored
<1>5. CASE WriteDone
  <2>1. /\ phase = "writing" /\ phase' = "running" /\ todo = << >>
        /\ todo' = todo /\ eeprom' = eeprom
        /\ objectInstanceNumber' = NewInstance(request)
    BY <1>5 DEF WriteDone, storage
  <2>2. CASE request.object = DeviceId
    <3>1. Instance = request.value
      BY <2>1, <2>2, Written DEF CellsHold
    <3>2. request.value <= BACNET_MAX_INSTANCE
      BY <2>1, <2>2, AcceptedInstance DEF ConfigInv, RequestAccepted
    <3>3. objectInstanceNumber' = request.value
      BY <2>1, <2>2, <3>2 DEF NewInstance
    <3> QED BY <2>1, <3>1, <3>3 DEF LiveInv, Instance, Unsigned24
  <2>3. CASE request.object # DeviceId
    <3>1. objectInstanceNumber' = objectInstanceNumber
      BY <2>1, <2>3 DEF NewInstance
    <3> QED BY <2>1, <2>3, <3>1 DEF LiveInv, Instance, Unsigned24
  <2> QED BY <2>2, <2>3
<1>6. CASE PowerLoss
  BY <1>6 DEF PowerLoss, LosePower, LiveInv
<1>7. CASE UNCHANGED vars
  <2>1. UNCHANGED << phase, backend, todo, eeprom, request,
                     objectInstanceNumber >>
    BY <1>7 DEF vars, storage, live
  <2>2. phase = "writing" =>
          \E r \in [object : Settings, value : Int] :
            r = request' /\ Becomes(Image(r))'
    BY <2>1, BecomesStays DEF LiveInv
  <2>3. Instance' = Instance /\ Stored(request') = Stored(request)
    BY <2>1 DEF Instance, Unsigned24
  <2>4. phase = "writing" /\ backend # "AVR" =>
          todo' = << >> \/ todo' = << Stored(request') >>
    BY <2>1, <2>3 DEF LiveInv
  <2> QED BY <2>1, <2>2, <2>3, <2>4 DEF LiveInv, Stored
<1> QED BY <1>1, <1>2, <1>3, <1>4, <1>5, <1>6, <1>7 DEF Next

LEMMA LiveInvariance == Spec => [](ConfigInv /\ LiveInv)
<1>1. Init => LiveInv
  BY DEF Init, StorageInit, LiveInv
<1> QED BY <1>1, InitConfig, StepConfig, StepLive, PTL DEF Spec

\* A station that reads the Device object's instance number and one that reads
\* AV 92 get the same number, whatever was written, on whatever board, and
\* wherever between two octets the power failed.
THEOREM SameInstance == Spec => []InstanceIsLive
<1>1. LiveInv => InstanceIsLive
  BY DEF LiveInv, InstanceIsLive, Instance
<1> QED BY <1>1, LiveInvariance, PTL

-----------------------------------------------------------------------------
(* What was acknowledged is in the cells.                                  *)
DefaultCells == {0, 1, 2, 10, 11, 12, 13, 14, 15}
DefaultImage ==
  [a \in DefaultCells |->
     IF a <= 1 THEN Encode16(NV_EEPROM_TYPE_ID)[a + 1]
     ELSE IF a = 2 THEN 1
     ELSE IF a = 10 THEN InCell(MstpMac, FactoryStation)
     ELSE IF a = 11 THEN 38
     ELSE IF a = 12 THEN InCell(MstpManager, 127)
     ELSE Encode24(FactoryInstance)[a - 12]]
TagStored == Unsigned16(NV_EEPROM_TYPE_0) = NV_EEPROM_TYPE_ID

\* The cells of a setting hold a value that it may have; those of the instance
\* may hold a mixture of two on a board that programs cell by cell.
Kept(s) ==
  \/ \E v \in mayBe[s] : CellsHold(s, v)
  \/ s = DeviceId /\ backend = "AVR" /\ \E v, w \in mayBe[s] : v # w

\* A value is known only of cells that the tag vouches for: the defaults never
\* overwrite one.
KnownInv ==
  /\ phase = "default" => mayBe = Unknown /\ Becomes(DefaultImage)
  /\ phase \in {"apply", "running", "writing"} \/ mayBe # Unknown => TagStored
  /\ phase = "writing" /\ mayBe[request.object] # {} =>
       request.value \in mayBe[request.object]
  /\ \A s \in Settings : mayBe[s] # {} => Kept(s)

\* The calls that store the defaults, cell by cell.
LEMMA DefaultsMakeImage ==
  ASSUME todo' = Defaults
  PROVE  Becomes(DefaultImage)'
<1> DEFINE image == DefaultImage
<1>1. /\ Len(todo') = 6
      /\ todo'[1] = Write(0, Encode16(NV_EEPROM_TYPE_ID))
      /\ todo'[2] = Write(2, << 1 >>)
      /\ todo'[3] = Write(10, << InCell(MstpMac, FactoryStation) >>)
      /\ todo'[4] = Write(11, << 38 >>)
      /\ todo'[5] = Write(12, << InCell(MstpManager, 127) >>)
      /\ todo'[6] = Write(13, Encode24(FactoryInstance))
  <2>1. /\ Encode8(1) = << 1 >> /\ Encode8(38) = << 38 >>
        /\ Encode8(FactoryStation) = << InCell(MstpMac, FactoryStation) >>
        /\ Encode8(127) = << InCell(MstpManager, 127) >>
    BY DEF Encode8, InCell, MstpMac, MstpBaud, MstpManager
  <2> HIDE DEF Encode8
  <2> QED BY <2>1 DEF Defaults, NV_EEPROM_TYPE_0, NV_EEPROM_VERSION,
        NV_EEPROM_MSTP_MAC, NV_EEPROM_MSTP_BAUD_K, NV_EEPROM_MSTP_MAX_MASTER,
        NV_EEPROM_DEVICE_0
<1>2. /\ DOMAIN image = DefaultCells
      /\ image[0] = Encode16(NV_EEPROM_TYPE_ID)[1]
      /\ image[1] = Encode16(NV_EEPROM_TYPE_ID)[2]
      /\ image[2] = 1 /\ image[10] = InCell(MstpMac, FactoryStation)
      /\ image[11] = 38 /\ image[12] = InCell(MstpManager, 127)
      /\ image[13] = Encode24(FactoryInstance)[1]
      /\ image[14] = Encode24(FactoryInstance)[2]
      /\ image[15] = Encode24(FactoryInstance)[3]
  BY DEF DefaultImage, DefaultCells
<1>3. Len(Encode16(NV_EEPROM_TYPE_ID)) = 2 /\ Len(Encode24(FactoryInstance)) = 3
  BY DEF Encode16, Encode24
<1> HIDE DEF image
<1>4. Agrees(todo'[1], image) /\ 0 \in todo'[1].addr .. EndOf(todo'[1])
      /\ 1 \in todo'[1].addr .. EndOf(todo'[1])
  <2>1. /\ todo'[1].addr = 0 /\ todo'[1].bytes = Encode16(NV_EEPROM_TYPE_ID)
        /\ EndOf(todo'[1]) = 1
    BY <1>1, <1>3 DEF Write, EndOf
  <2>2. \A a \in 0 .. 1 : /\ a \in DOMAIN image
                          /\ Encode16(NV_EEPROM_TYPE_ID)[a - 0 + 1] = image[a]
    <3>1. \A a \in 0 .. 1 : a = 0 \/ a = 1
      OBVIOUS
    <3>2. 0 - 0 + 1 = 1 /\ 1 - 0 + 1 = 2
      OBVIOUS
    <3> HIDE DEF Encode16
    <3> QED BY <1>2, <3>1, <3>2 DEF DefaultCells
  <2>3. Agrees(todo'[1], image)
    BY <2>1, <2>2 DEF Agrees
  <2>4. 0 \in 0 .. 1 /\ 1 \in 0 .. 1
    OBVIOUS
  <2> QED BY <2>1, <2>3, <2>4
<1>5. /\ Agrees(todo'[2], image) /\ 2 \in todo'[2].addr .. EndOf(todo'[2])
      /\ Agrees(todo'[3], image) /\ 10 \in todo'[3].addr .. EndOf(todo'[3])
  BY <1>1, <1>2 DEF Agrees, EndOf, Write, DefaultCells
<1>6. /\ Agrees(todo'[4], image) /\ 11 \in todo'[4].addr .. EndOf(todo'[4])
      /\ Agrees(todo'[5], image) /\ 12 \in todo'[5].addr .. EndOf(todo'[5])
  BY <1>1, <1>2 DEF Agrees, EndOf, Write, DefaultCells
<1>7. /\ Agrees(todo'[6], image)
      /\ \A a \in {13, 14, 15} : a \in todo'[6].addr .. EndOf(todo'[6])
  <2>1. /\ todo'[6].addr = 13 /\ todo'[6].bytes = Encode24(FactoryInstance)
        /\ EndOf(todo'[6]) = 15
    <3>1. \A b : Write(13, b).addr = 13 /\ Write(13, b).bytes = b
      BY DEF Write
    <3>2. todo'[6].addr = 13 /\ todo'[6].bytes = Encode24(FactoryInstance)
      BY <1>1, <3>1
    <3>3. EndOf(todo'[6]) = 13 + Len(Encode24(FactoryInstance)) - 1
      BY <3>2 DEF EndOf
    <3>4. 13 + 3 - 1 = 15
      OBVIOUS
    <3> QED BY <1>3, <3>2, <3>3, <3>4
  <2>2. \A a \in 13 .. 15 : /\ a \in DOMAIN image
                            /\ Encode24(FactoryInstance)[a - 13 + 1] = image[a]
    <3>1. \A a \in 13 .. 15 : a = 13 \/ a = 14 \/ a = 15
      OBVIOUS
    <3>2. 13 - 13 + 1 = 1 /\ 14 - 13 + 1 = 2 /\ 15 - 13 + 1 = 3
      OBVIOUS
    <3> QED BY <1>2, <3>1, <3>2 DEF DefaultCells
  <2>3. Agrees(todo'[6], image)
    BY <2>1, <2>2 DEF Agrees
  <2>4. \A a \in {13, 14, 15} : a \in 13 .. 15
    OBVIOUS
  <2> QED BY <2>1, <2>3, <2>4
<1>8. \A k \in 1 .. Len(todo') : Agrees(todo'[k], image)
  <2>1. \A k \in 1 .. 6 : k = 1 \/ k = 2 \/ k = 3 \/ k = 4 \/ k = 5 \/ k = 6
    OBVIOUS
  <2> QED BY <1>1, <1>4, <1>5, <1>6, <1>7, <2>1
<1>9. ASSUME NEW a \in DOMAIN image
      PROVE  \E k \in 1 .. Len(todo') : a \in todo'[k].addr .. EndOf(todo'[k])
  <2>1. 1 \in 1 .. 6 /\ 2 \in 1 .. 6 /\ 3 \in 1 .. 6 /\ 4 \in 1 .. 6
        /\ 5 \in 1 .. 6 /\ 6 \in 1 .. 6
    OBVIOUS
  <2>2. \/ a \in {0, 1} \/ a \in {13, 14, 15}
        \/ a = 2 \/ a = 10 \/ a = 11 \/ a = 12
    BY <1>2 DEF DefaultCells
  <2>3. CASE a \in {0, 1}
    BY <1>1, <1>4, <2>1, <2>3, Zenon
  <2>4. CASE a \in {13, 14, 15}
    BY <1>1, <1>7, <2>1, <2>4, Zenon
  <2>5. CASE a = 2 \/ a = 10
    BY <1>1, <1>5, <2>1, <2>5, Zenon
  <2>6. CASE a = 11 \/ a = 12
    BY <1>1, <1>6, <2>1, <2>6, Zenon
  <2> QED BY <2>2, <2>3, <2>4, <2>5, <2>6
<1> QED BY <1>8, <1>9 DEF Becomes, Agrees, EndOf, image

\* The cells of the defaults are those of the settings' factory values.
LEMMA DefaultsHold ==
  ASSUME \A a \in DefaultCells : eeprom[a] = DefaultImage[a]
  PROVE  TagStored /\ \A s \in Settings : \E v \in Factory[s] : CellsHold(s, v)
<1>1. /\ eeprom[0] = Encode16(NV_EEPROM_TYPE_ID)[1]
      /\ eeprom[0 + 1] = Encode16(NV_EEPROM_TYPE_ID)[2]
      /\ eeprom[10] = InCell(MstpMac, FactoryStation)
      /\ eeprom[11] = 38 /\ eeprom[12] = InCell(MstpManager, 127)
  BY DEF DefaultImage, DefaultCells
<1>2. /\ eeprom[13] = Encode24(FactoryInstance)[1]
      /\ eeprom[14] = Encode24(FactoryInstance)[2]
      /\ eeprom[15] = Encode24(FactoryInstance)[3]
  BY DEF DefaultImage, DefaultCells
<1>3. TagStored
  BY <1>1 DEF TagStored, Unsigned16, Encode16, NV_EEPROM_TYPE_0,
     NV_EEPROM_TYPE_ID
<1>4. Instance = FactoryInstance
  <2>1. FactoryInstance \in Nat /\ FactoryInstance <= BACNET_MAX_INSTANCE
    BY DEF FactoryInstance, BACNET_MAX_INSTANCE
  <2>2. 13 + 1 = 14 /\ 13 + 2 = 15
    OBVIOUS
  <2>3. Instance = 65536 * Encode24(FactoryInstance)[1]
                   + 256 * Encode24(FactoryInstance)[2]
                   + Encode24(FactoryInstance)[3]
    BY <1>2, <2>2 DEF Instance, Unsigned24, NV_EEPROM_DEVICE_0
  <2> QED BY <2>1, <2>3, DecodeInstance
<1>5. ASSUME NEW s \in Settings PROVE \E v \in Factory[s] : CellsHold(s, v)
  <2> DEFINE f(t) == CASE t = DeviceId -> {FactoryInstance}
                       [] t = MstpBaud -> {FactoryBaud}
                       [] t = MstpMac -> {FactoryStation}
                       [] t = MstpManager -> {127}
  <2>0. Factory[s] = f(s)
    BY DEF Factory
  <2>1. CASE s = DeviceId
    <3>1. FactoryInstance \in Factory[s]
      BY <2>0, <2>1 DEF DeviceId, MstpBaud, MstpMac, MstpManager
    <3> QED BY <1>4, <2>1, <3>1 DEF CellsHold
  <2>2. CASE s = MstpBaud
    <3>1. InCell(s, FactoryBaud) = 38
      BY <2>2 DEF InCell, FactoryBaud
    <3>2. FactoryBaud \in Factory[s]
      BY <2>0, <2>2 DEF DeviceId, MstpBaud, MstpMac, MstpManager
    <3>3. CellOf(s) = 11 /\ s # DeviceId
      BY <2>2 DEF CellOf, DeviceId, MstpBaud, MstpMac
    <3> QED BY <1>1, <3>1, <3>2, <3>3 DEF CellsHold
  <2>3. CASE s = MstpMac
    <3>1. FactoryStation \in Factory[s]
      BY <2>0, <2>3 DEF DeviceId, MstpBaud, MstpMac, MstpManager
    <3>2. CellOf(s) = 10 /\ s # DeviceId
      BY <2>3 DEF CellOf, DeviceId, MstpMac
    <3> QED BY <1>1, <2>3, <3>1, <3>2 DEF CellsHold
  <2>4. CASE s = MstpManager
    <3>1. 127 \in Factory[s]
      BY <2>0, <2>4 DEF DeviceId, MstpBaud, MstpMac, MstpManager
    <3>2. CellOf(s) = 12 /\ s # DeviceId
      BY <2>4 DEF CellOf, DeviceId, MstpBaud, MstpMac, MstpManager
    <3> QED BY <1>1, <2>4, <3>1, <3>2 DEF CellsHold
  <2> QED BY <2>1, <2>2, <2>3, <2>4, OnlySettings
<1> QED BY <1>3, <1>5

\* A step that leaves the cells alone keeps what they hold.
LEMMA HeldStays ==
  ASSUME eeprom' = eeprom, NEW s, NEW v
  PROVE  /\ CellsHold(s, v)' <=> CellsHold(s, v)
         /\ TagStored' <=> TagStored
<1>1. Instance' = Instance
  BY DEF Instance, Unsigned24
<1>2. Unsigned16(NV_EEPROM_TYPE_0)' = Unsigned16(NV_EEPROM_TYPE_0)
  BY DEF Unsigned16
<1> QED BY <1>1, <1>2 DEF CellsHold, TagStored, InCell, CellOf

LEMMA KeptStays ==
  ASSUME eeprom' = eeprom, backend' = backend, NEW s, Kept(s),
         mayBe[s] \subseteq mayBe'[s]
  PROVE  Kept(s)'
<1>1. CASE \E v \in mayBe[s] : CellsHold(s, v)
  <2>1. PICK v \in mayBe[s] : CellsHold(s, v)
    BY <1>1
  <2>2. CellsHold(s, v)'
    BY <2>1, HeldStays
  <2>3. v \in mayBe'[s]
    BY <2>1
  <2>4. \E q \in mayBe'[s] : CellsHold(s, q)'
    BY <2>2, <2>3
  <2> QED BY <2>4 DEF Kept, CellsHold, InCell, CellOf
<1>2. CASE s = DeviceId /\ backend = "AVR" /\ \E v, w \in mayBe[s] : v # w
  <2>1. PICK v \in mayBe[s], w \in mayBe[s] : v # w
    BY <1>2
  <2>2. v \in mayBe'[s] /\ w \in mayBe'[s]
    BY <2>1
  <2> QED BY <1>2, <2>1, <2>2 DEF Kept
<1> QED BY <1>1, <1>2 DEF Kept

\* No setting is kept where the tag is.
LEMMA TagStays ==
  ASSUME StorageTypeOK, StoreNext,
         NEW r \in [object : Settings, value : Int], Becomes(Image(r)),
         TagStored
  PROVE  TagStored'
<1>1. \A a \in {0, 0 + 1} : a \notin DOMAIN Image(r)
  <2>1. CASE r.object = DeviceId
    <3>1. DOMAIN Image(r) = {13, 14, 15}
      BY <2>1, ImageCells
    <3> QED BY <3>1
  <2>2. CASE r.object # DeviceId
    <3>1. DOMAIN Image(r) = {CellOf(r.object)}
      BY <2>2, ImageCells
    <3>2. CellOf(r.object) \in {10, 11, 12}
      BY DEF CellOf
    <3> QED BY <3>1, <3>2
  <2> QED BY <2>1, <2>2
<1>2. \A a \in {0, 0 + 1} : a \in Cells
  BY ConfigAssumption DEF ConfigCells
<1>3. \A a \in {0, 0 + 1} : eeprom'[a] = eeprom[a]
  BY <1>1, <1>2, OtherCellStep
<1> QED BY <1>3 DEF TagStored, Unsigned16, NV_EEPROM_TYPE_0

\* The three octets of a number are its only ones.
LEMMA InstanceSpelling ==
  ASSUME StorageTypeOK
  PROVE  /\ eeprom[13] = Encode24(Instance)[1]
         /\ eeprom[14] = Encode24(Instance)[2]
         /\ eeprom[15] = Encode24(Instance)[3]
<1>1. \A a \in {13, 14, 15} : eeprom[a] \in 0 .. 255
  <2>1. \A a \in {13, 14, 15} : a \in Cells
    BY ConfigAssumption DEF ConfigCells
  <2> QED BY <2>1 DEF StorageTypeOK, Contents, Byte
<1>2. PICK x \in 0 .. 255, y \in 0 .. 255, z \in 0 .. 255 :
         eeprom[13] = x /\ eeprom[14] = y /\ eeprom[15] = z
  BY <1>1
<1>3. 13 + 1 = 14 /\ 13 + 2 = 15
  OBVIOUS
<1>4. Instance = 65536 * x + 256 * y + z
  BY <1>2, <1>3 DEF Instance, Unsigned24, NV_EEPROM_DEVICE_0
<1>5. PICK v : v = 65536 * x + 256 * y + z
  OBVIOUS
<1>6. v % 256 = z /\ v \div 256 = 256 * x + y /\ v \div 65536 = x
  BY <1>2, <1>5
<1>7. (256 * x + y) % 256 = y /\ x % 256 = x
  BY <1>2
<1>8. Encode24(v)[1] = x /\ Encode24(v)[2] = y /\ Encode24(v)[3] = z
  BY <1>6, <1>7 DEF Encode24
<1> QED BY <1>2, <1>4, <1>5, <1>8

\* Written, of the state after a step.
LEMMA WrittenNext ==
  (ConfigInv /\ LiveInv /\ phase = "writing" /\ todo = << >>
     => CellsHold(request.object, request.value))'
<1>1. ConfigInv /\ LiveInv /\ phase = "writing" /\ todo = << >>
        => CellsHold(request.object, request.value)
  BY Written
<1> QED BY <1>1, PTL

\* Writing a value keeps every setting, that which is written too: its cells
\* hold the old value, the new one or, cell by cell, a mixture of the two.
LEMMA KeptByStore ==
  ASSUME ConfigInv, LiveInv, KnownInv, ConfigInv', LiveInv',
         StoreCells, phase = "writing", NEW s \in Settings, mayBe[s] # {}
  PROVE  Kept(s)'
<1>1. /\ StorageTypeOK /\ StoreNext /\ UNCHANGED << request, mayBe, phase >>
      /\ backend' = backend
  BY DEF StoreCells, StoreNext, ConfigInv, TypeOK
<1>2. PICK r \in [object : Settings, value : Int] :
        r = request /\ Becomes(Image(r))
  BY DEF LiveInv
<1>3. Kept(s)
  BY DEF KnownInv
<1>4. SUFFICES ASSUME \A v \in mayBe[s] :
                        ~ (s = DeviceId /\ backend = "AVR"
                             /\ \E w \in mayBe[s] : v # w)
               PROVE  \E v \in mayBe[s] : CellsHold(s, v)'
  BY <1>1 DEF Kept, CellsHold, InCell, CellOf
<1>5. PICK v \in mayBe[s] : CellsHold(s, v)
  BY <1>3, <1>4 DEF Kept
<1>6. CASE s # r.object
  <2>1. CASE s = DeviceId
    <3>1. Instance' = Instance
      BY <1>1, <1>2, <1>6, <2>1, OthersHold
    <3> QED BY <1>5, <2>1, <3>1 DEF CellsHold
  <2>2. CASE s # DeviceId
    <3>1. eeprom'[CellOf(s)] = eeprom[CellOf(s)]
      BY <1>1, <1>2, <1>6, <2>2, OthersHold
    <3> QED BY <1>5, <2>2, <3>1 DEF CellsHold, InCell, CellOf
  <2> QED BY <2>1, <2>2
<1>7. CASE s = r.object /\ s # DeviceId
  <2>1. /\ DOMAIN Image(r) = {CellOf(s)}
        /\ Image(r)[CellOf(s)] = InCell(s, r.value)
        /\ DOMAIN Image(r) \subseteq Cells
    BY <1>7, ImageCells, ConfigAssumption
  <2>2. eeprom'[CellOf(s)] = eeprom[CellOf(s)]
        \/ eeprom'[CellOf(s)] = InCell(s, r.value)
    BY <1>1, <1>2, <2>1, CellStep
  <2>3. r.value \in mayBe[s]
    BY <1>2, <1>7 DEF KnownInv
  <2>4. eeprom[CellOf(s)] = InCell(s, v)
    BY <1>5, <1>7 DEF CellsHold
  <2>5. \A q : CellsHold(s, q)' <=> eeprom'[CellOf(s)] = InCell(s, q)
    BY <1>7 DEF CellsHold, InCell, CellOf
  <2> QED BY <2>2, <2>3, <2>4, <2>5
<1>8. CASE s = r.object /\ s = DeviceId
  <2>1. r.value \in mayBe[s]
    BY <1>2, <1>8 DEF KnownInv
  <2>2. CASE backend = "AVR"
    <3>1. v = r.value
      BY <1>4, <1>8, <2>1, <2>2
    <3>2. Instance = r.value
      BY <1>5, <1>8, <3>1 DEF CellsHold
    <3>3. /\ DOMAIN Image(r) = {13, 14, 15} /\ DOMAIN Image(r) \subseteq Cells
          /\ Image(r)[13] = Encode24(r.value)[1]
          /\ Image(r)[14] = Encode24(r.value)[2]
          /\ Image(r)[15] = Encode24(r.value)[3]
      BY <1>8, ImageCells, ConfigAssumption
    <3>4. /\ Image(r)[13] = eeprom[13]
          /\ Image(r)[14] = eeprom[14]
          /\ Image(r)[15] = eeprom[15]
      BY <1>1, <3>2, <3>3, InstanceSpelling
    <3>5. \A a \in DOMAIN Image(r) :
            eeprom'[a] = eeprom[a] \/ eeprom'[a] = Image(r)[a]
      BY <1>1, <1>2, <3>3, CellStep
    <3>6. /\ eeprom'[13] = eeprom[13]
          /\ eeprom'[14] = eeprom[14]
          /\ eeprom'[15] = eeprom[15]
      BY <3>3, <3>4, <3>5
    <3>7. 13 + 1 = 14 /\ 13 + 2 = 15
      OBVIOUS
    <3>8. Instance' = Instance
      BY <3>6, <3>7 DEF Instance, Unsigned24, NV_EEPROM_DEVICE_0
    <3> QED BY <1>5, <1>8, <3>8 DEF CellsHold
  <2>3. CASE backend # "AVR"
    <3>1. todo' = << >>
      <4>1. todo # << >>
        BY <1>1 DEF StoreNext
      <4>2. todo = << Stored(request) >>
        BY <2>3, <4>1 DEF LiveInv
      <4>3. Tail(todo) = << >>
            /\ Remaining(Head(todo), Unit(Head(todo))) = << >>
        BY <2>3, <4>2 DEF Remaining, Unit
      <4> QED BY <1>1, <4>3 DEF StoreNext
    <3>2. CellsHold(request.object, request.value)'
      BY <1>1, <3>1, WrittenNext
    <3>3. CellsHold(s, r.value)'
      BY <1>1, <1>2, <1>8, <3>2
    <3> QED BY <2>1, <3>3
  <2> QED BY <2>2, <2>3
<1> QED BY <1>6, <1>7, <1>8

LEMMA StepKnown ==
  ConfigInv /\ LiveInv /\ KnownInv /\ ConfigInv' /\ LiveInv' /\ [Next]_vars
    => KnownInv'
<1> SUFFICES ASSUME ConfigInv, LiveInv, KnownInv, ConfigInv', LiveInv',
                    [Next]_vars
             PROVE  KnownInv'
  OBVIOUS
<1>0. mayBe \in [Settings -> SUBSET Int] /\ request.object \in Settings
  BY DEF ConfigInv, TypeOK
<1>1. CASE ReadTypeTag
  <2>1. eeprom' = eeprom /\ backend' = backend /\ mayBe' = mayBe
        /\ request' = request /\ phase = "boot"
    BY <1>1 DEF ReadTypeTag
  <2>2. \A s \in Settings : mayBe'[s] # {} => Kept(s)'
    <3> SUFFICES ASSUME NEW s \in Settings, mayBe'[s] # {} PROVE Kept(s)'
      OBVIOUS
    <3>1. Kept(s) /\ mayBe[s] \subseteq mayBe'[s]
      BY <2>1 DEF KnownInv
    <3> QED BY <2>1, <3>1, KeptStays
  <2>3. TagStored' <=> TagStored
    BY <2>1, HeldStays
  <2>4. CASE TagStored /\ phase' = "apply"
    BY <2>2, <2>3, <2>4 DEF KnownInv
  <2>5. CASE ~ TagStored /\ phase' = "default" /\ todo' = Defaults
    <3>1. mayBe' = Unknown
      BY <2>1, <2>5 DEF KnownInv
    <3>2. Becomes(DefaultImage)'
      BY <2>5, DefaultsMakeImage
    <3>3. Unknown' = Unknown
      BY DEF Unknown
    <3> QED BY <2>2, <2>5, <3>1, <3>2, <3>3 DEF KnownInv
  <2> QED BY <1>1, <2>4, <2>5 DEF ReadTypeTag, TagStored
<1>2. CASE StoreCells
  <2>1. /\ StorageTypeOK /\ StoreNext /\ UNCHANGED << request, mayBe, phase >>
        /\ todo # << >>
    BY <1>2 DEF StoreCells, StoreNext, ConfigInv, TypeOK
  <2>2. CASE phase = "default"
    <3>1. mayBe' = Unknown /\ phase' = "default"
      BY <2>1, <2>2 DEF KnownInv
    <3>2. DOMAIN DefaultImage \subseteq Cells
      BY ConfigAssumption DEF DefaultImage, DefaultCells, ConfigCells
    <3>3. Becomes(DefaultImage)'
      BY <2>1, <2>2, <3>2, BecomesStep DEF KnownInv
    <3>4. Unknown' = Unknown /\ \A s \in Settings : mayBe'[s] = {}
      BY <3>1 DEF Unknown
    <3> QED BY <3>1, <3>3, <3>4 DEF KnownInv
  <2>3. CASE phase = "writing"
    <3>1. \A s \in Settings : mayBe'[s] # {} => Kept(s)'
      BY <1>2, <2>1, <2>3, KeptByStore
    <3>2. TagStored'
      <4>1. PICK r \in [object : Settings, value : Int] :
              r = request /\ Becomes(Image(r))
        BY <2>3 DEF LiveInv
      <4>2. TagStored
        BY <2>3 DEF KnownInv
      <4> QED BY <2>1, <4>1, <4>2, TagStays
    <3> QED BY <2>1, <2>3, <3>1, <3>2 DEF KnownInv
  <2> QED BY <2>1, <2>2, <2>3 DEF LiveInv, ConfigInv, TypeOK
<1>3. CASE ApplySettings
  <2>1. /\ eeprom' = eeprom /\ backend' = backend /\ phase' = "running"
        /\ phase \in {"default", "apply"} /\ todo = << >>
        /\ mayBe' = IF phase = "default" THEN Factory ELSE mayBe
    BY <1>3 DEF ApplySettings, storage
  <2>2. CASE phase = "default"
    <3>1. \A a \in DefaultCells : eeprom[a] = DefaultImage[a]
      <4>1. \A a \in DOMAIN DefaultImage : eeprom[a] = DefaultImage[a]
        BY <2>1, <2>2, BecomesDone DEF KnownInv
      <4> QED BY <4>1 DEF DefaultImage
    <3>2. TagStored /\ \A s \in Settings : \E v \in Factory[s] : CellsHold(s, v)
      BY <3>1, DefaultsHold
    <3>3. mayBe' = Factory
      BY <2>1, <2>2
    <3>4. ASSUME NEW s \in Settings PROVE Kept(s)'
      <4>1. PICK v \in Factory[s] : CellsHold(s, v)
        BY <3>2
      <4>2. CellsHold(s, v)' /\ v \in mayBe'[s]
        BY <2>1, <3>3, <4>1, HeldStays
      <4> QED BY <4>2 DEF Kept, CellsHold, InCell, CellOf
    <3>5. TagStored'
      BY <2>1, <3>2, HeldStays
    <3> QED BY <2>1, <3>4, <3>5 DEF KnownInv
  <2>3. CASE phase = "apply"
    <3>1. TagStored'
      BY <2>1, <2>3, HeldStays DEF KnownInv
    <3>2. ASSUME NEW s \in Settings, mayBe'[s] # {} PROVE Kept(s)'
      <4>1. mayBe' = mayBe
        BY <2>1, <2>3
      <4>2. Kept(s) /\ mayBe[s] \subseteq mayBe'[s]
        BY <3>2, <4>1 DEF KnownInv
      <4> QED BY <2>1, <4>2, KeptStays
    <3> QED BY <2>1, <3>1, <3>2 DEF KnownInv
  <2> QED BY <2>1, <2>2, <2>3
<1>4. CASE WritePresentValue
  <2>1. PICK r \in Requests :
          /\ request' = r
          /\ mayBe' = [mayBe EXCEPT ![r.object] =
                         IF @ = {} THEN {} ELSE @ \cup {r.value}]
    BY <1>4 DEF WritePresentValue
  <2>2. /\ eeprom' = eeprom /\ backend' = backend
        /\ phase = "running" /\ phase' = "writing"
    BY <1>4 DEF WritePresentValue
  <2>3. r.object \in Settings
    BY ConfigAssumption
  <2>4. \A s \in Settings :
          mayBe'[s] = IF s = r.object
                      THEN IF mayBe[s] = {} THEN {} ELSE mayBe[s] \cup {r.value}
                      ELSE mayBe[s]
    BY <1>0, <2>1, <2>3
  <2>5. TagStored'
    BY <2>2, HeldStays DEF KnownInv
  <2>6. mayBe'[request'.object] # {} =>
          request'.value \in mayBe'[request'.object]
    BY <2>1, <2>3, <2>4
  <2>7. ASSUME NEW s \in Settings, mayBe'[s] # {} PROVE Kept(s)'
    <3>1. mayBe[s] # {} /\ mayBe[s] \subseteq mayBe'[s]
      BY <2>4, <2>7
    <3> QED BY <2>2, <3>1, KeptStays DEF KnownInv
  <2> QED BY <2>2, <2>5, <2>6, <2>7 DEF KnownInv
<1>5. CASE WriteDone
  <2>1. /\ phase = "writing" /\ phase' = "running" /\ todo = << >>
        /\ eeprom' = eeprom /\ backend' = backend
        /\ mayBe' = [mayBe EXCEPT ![request.object] = {request.value}]
    BY <1>5 DEF WriteDone, storage
  <2>2. \A s \in Settings :
          mayBe'[s] = IF s = request.object THEN {request.value} ELSE mayBe[s]
    BY <1>0, <2>1
  <2>3. TagStored'
    BY <2>1, HeldStays DEF KnownInv
  <2>4. ASSUME NEW s \in Settings, mayBe'[s] # {} PROVE Kept(s)'
    <3>1. CASE s = request.object
      <4>1. CellsHold(request.object, request.value)
        BY <2>1, Written
      <4>2. PICK v : v = request.value
        OBVIOUS
      <4>3. CellsHold(s, v)' /\ v \in mayBe'[s]
        BY <2>1, <2>2, <3>1, <4>1, <4>2, HeldStays
      <4> QED BY <4>3 DEF Kept, CellsHold, InCell, CellOf
    <3>2. CASE s # request.object
      <4>1. mayBe'[s] = mayBe[s]
        BY <2>2, <3>2
      <4>2. Kept(s) /\ mayBe[s] \subseteq mayBe'[s]
        BY <2>4, <4>1 DEF KnownInv
      <4> QED BY <2>1, <4>2, KeptStays
    <3> QED BY <3>1, <3>2
  <2> QED BY <2>1, <2>3, <2>4 DEF KnownInv
<1>6. CASE PowerLoss
  <2>1. /\ phase' = "boot" /\ backend' = backend
        /\ mayBe' = IF backend # "STM32" THEN mayBe ELSE Unknown
        /\ eeprom' = IF backend # "STM32" THEN eeprom ELSE Zeroed
    <3>1. mayBe' = IF backend # "STM32" THEN mayBe ELSE Unknown
      BY <1>6 DEF PowerLoss, Keeps
    <3>2. eeprom' = IF backend # "STM32" THEN eeprom ELSE Zeroed
      BY <1>6 DEF PowerLoss, LosePower, Keeps
    <3>3. phase' = "boot" /\ backend' = backend
      BY <1>6 DEF PowerLoss, LosePower
    <3> QED BY <3>1, <3>2, <3>3
  <2>2. Unknown' = Unknown /\ \A s \in Settings : Unknown[s] = {}
    BY DEF Unknown
  <2>3. CASE backend # "STM32"
    <3>1. mayBe' = mayBe /\ eeprom' = eeprom
      BY <2>1, <2>3
    <3>2. mayBe' # Unknown => TagStored'
      BY <3>1, HeldStays DEF KnownInv
    <3>3. ASSUME NEW s \in Settings, mayBe'[s] # {} PROVE Kept(s)'
      <4>1. Kept(s) /\ mayBe[s] \subseteq mayBe'[s]
        BY <3>1, <3>3 DEF KnownInv
      <4> QED BY <2>1, <3>1, <4>1, KeptStays
    <3> QED BY <2>1, <2>2, <3>2, <3>3 DEF KnownInv
  <2>4. CASE backend = "STM32"
    <3>1. mayBe' = Unknown
      BY <2>1, <2>4
    <3>2. \A s \in Settings : mayBe'[s] = {}
      BY <2>2, <3>1
    <3> QED BY <2>1, <2>2, <3>1, <3>2 DEF KnownInv
  <2> QED BY <2>3, <2>4
<1>7. CASE UNCHANGED vars
  <2>1. UNCHANGED << phase, backend, todo, eeprom, request, mayBe >>
    BY <1>7 DEF vars, storage
  <2>2. ASSUME NEW s \in Settings, mayBe'[s] # {} PROVE Kept(s)'
    <3>1. Kept(s) /\ mayBe[s] \subseteq mayBe'[s]
      BY <2>1, <2>2 DEF KnownInv
    <3> QED BY <2>1, <3>1, KeptStays
  <2>3. TagStored' <=> TagStored
    BY <2>1, HeldStays
  <2>4. Becomes(DefaultImage) => Becomes(DefaultImage)'
    BY <2>1, BecomesStays
  <2>5. Unknown' = Unknown
    BY DEF Unknown
  <2> QED BY <2>1, <2>2, <2>3, <2>4, <2>5 DEF KnownInv
<1> QED BY <1>1, <1>2, <1>3, <1>4, <1>5, <1>6, <1>7 DEF Next

LEMMA KnownInvariance == Spec => [](ConfigInv /\ LiveInv /\ KnownInv)
<1>1. Init => KnownInv
  BY DEF Init, Unknown, KnownInv
<1>2. Init => LiveInv
  BY DEF Init, StorageInit, LiveInv
<1> QED BY <1>1, <1>2, InitConfig, StepConfig, StepLive, StepKnown, PTL DEF Spec

\* The device runs under the instance number that was acknowledged last, or one
\* whose write was cut short since, for every store and every sequence of
\* writes, restarts and losses of power; under none of them only on the AVR.
THEOREM InstanceRemembered == Spec => []InstanceAsConfigured
<1>1. ConfigInv /\ LiveInv /\ KnownInv => InstanceAsConfigured
  <2> SUFFICES ASSUME LiveInv, KnownInv, phase = "running", mayBe[DeviceId] # {}
               PROVE  \/ objectInstanceNumber \in mayBe[DeviceId]
                      \/ backend = "AVR" /\ \E v, w \in mayBe[DeviceId] : v # w
    BY DEF InstanceAsConfigured
  <2>1. DeviceId \in Settings
    BY DEF Settings, DeviceId, MstpManager
  <2>2. Kept(DeviceId) /\ objectInstanceNumber = Instance
    BY <2>1 DEF LiveInv, KnownInv
  <2> QED BY <2>2 DEF Kept, CellsHold
<1> QED BY <1>1, KnownInvariance, PTL

-----------------------------------------------------------------------------
(* What boot makes of the octets.                                          *)
ValuesOf(s) == IF s = MstpBaud THEN BaudRates ELSE 0 .. 127
InRange ==
  /\ \A s \in Settings \ {DeviceId} : mayBe[s] \subseteq ValuesOf(s)
  /\ phase \in {"boot", "default", "apply"} =>
       This_Station = 0 /\ Nmax_master = 0
  /\ phase = "writing" => request \in Requests /\ Accepted(request)

\* A value that a callback accepts is one of its setting.
LEMMA AcceptedValue ==
  ASSUME RatesAreStandard, NEW r \in Requests, Accepted(r), r.object # DeviceId
  PROVE  r.value \in ValuesOf(r.object)
<1>1. r.object \in Settings
  BY ConfigAssumption
<1>2. CASE r.object = MstpBaud
  BY <1>2 DEF RatesAreStandard, ValuesOf
<1>3. CASE r.object # MstpBaud
  <2>1. r.value \in 0 .. 127
    BY <1>1, <1>3 DEF Accepted
  <2> QED BY <1>3, <2>1 DEF ValuesOf
<1> QED BY <1>2, <1>3

LEMMA FactoryRange ==
  \A s \in Settings \ {DeviceId} : Factory[s] \subseteq ValuesOf(s)
<1>1. /\ Factory[MstpBaud] = {FactoryBaud}
      /\ Factory[MstpMac] = {FactoryStation}
      /\ Factory[MstpManager] = {127}
  BY DEF Factory, Settings, DeviceId, MstpBaud, MstpMac, MstpManager
<1>2. MstpBaud # MstpMac /\ MstpBaud # MstpManager
  BY DEF MstpBaud, MstpMac, MstpManager
<1>3. FactoryStation \in 0 .. 127 /\ 127 \in 0 .. 127
  BY DEF FactoryStation
<1>4. FactoryBaud \in BaudRates
  <2>1. BaudRate[38] = FactoryBaud /\ 38 \in KiloBauds
    BY DEF BaudRate, KiloBauds, FactoryBaud
  <2> QED BY <2>1 DEF BaudRates
<1>5. \A s \in Settings \ {DeviceId} :
        s = MstpBaud \/ s = MstpMac \/ s = MstpManager
  BY OnlySettings
<1> QED BY <1>1, <1>2, <1>3, <1>4, <1>5 DEF ValuesOf

LEMMA StepRange ==
  ASSUME RatesAreStandard
  PROVE  ConfigInv /\ InRange /\ [Next]_vars => InRange'
<1> SUFFICES ASSUME ConfigInv, InRange, [Next]_vars PROVE InRange'
  OBVIOUS
<1>0. mayBe \in [Settings -> SUBSET Int] /\ request.object \in Settings
  BY DEF ConfigInv, TypeOK
<1>1. CASE ReadTypeTag
  BY <1>1 DEF ReadTypeTag, live, InRange
<1>2. CASE StoreCells
  BY <1>2 DEF StoreCells, live, InRange, Accepted
<1>3. CASE ApplySettings
  <2>1. phase' = "running" /\ (mayBe' = Factory \/ mayBe' = mayBe)
    BY <1>3 DEF ApplySettings
  <2> QED BY <2>1, FactoryRange DEF InRange
<1>4. CASE WritePresentValue
  <2>1. PICK r \in Requests :
          /\ Accepted(r)
          /\ request' = r
          /\ mayBe' = [mayBe EXCEPT ![r.object] =
                         IF @ = {} THEN {} ELSE @ \cup {r.value}]
    BY <1>4 DEF WritePresentValue
  <2>2. ASSUME NEW s \in Settings \ {DeviceId}
        PROVE  mayBe'[s] \subseteq ValuesOf(s)
    <3>1. mayBe[s] \subseteq ValuesOf(s)
      BY DEF InRange
    <3>2. CASE s = r.object
      <4>1. r.value \in ValuesOf(s)
        BY <2>1, <3>2, AcceptedValue
      <4>2. mayBe'[s] \subseteq mayBe[s] \cup {r.value}
        BY <1>0, <2>1, <3>2
      <4> QED BY <3>1, <4>1, <4>2
    <3>3. CASE s # r.object
      <4>1. mayBe'[s] = mayBe[s]
        BY <1>0, <2>1, <3>3
      <4> QED BY <3>1, <4>1
    <3> QED BY <3>2, <3>3
  <2>3. phase' = "writing"
    BY <1>4 DEF WritePresentValue
  <2>4. request' \in Requests /\ Accepted(request)'
    BY <2>1 DEF Accepted
  <2> QED BY <2>2, <2>3, <2>4 DEF InRange
<1>5. CASE WriteDone
  <2>1. /\ phase = "writing" /\ phase' = "running"
        /\ mayBe' = [mayBe EXCEPT ![request.object] = {request.value}]
    BY <1>5 DEF WriteDone
  <2>2. ASSUME NEW s \in Settings \ {DeviceId}
        PROVE  mayBe'[s] \subseteq ValuesOf(s)
    <3>1. CASE s = request.object
      <4>1. PICK r \in Requests : r = request /\ Accepted(r)
        BY <2>1 DEF InRange
      <4>2. r.value \in ValuesOf(s)
        BY <3>1, <4>1, AcceptedValue
      <4>3. mayBe'[s] = {r.value}
        BY <1>0, <2>1, <3>1, <4>1
      <4> QED BY <4>2, <4>3
    <3>2. CASE s # request.object
      <4>1. mayBe'[s] = mayBe[s]
        BY <1>0, <2>1, <3>2
      <4> QED BY <4>1 DEF InRange
    <3> QED BY <3>1, <3>2
  <2> QED BY <2>1, <2>2 DEF InRange
<1>6. CASE PowerLoss
  <2>1. /\ phase' = "boot" /\ This_Station' = 0 /\ Nmax_master' = 0
        /\ mayBe' = Unknown \/ mayBe' = mayBe
    BY <1>6 DEF PowerLoss
  <2>2. \A s \in Settings : Unknown[s] = {}
    BY DEF Unknown
  <2> QED BY <2>1, <2>2 DEF InRange
<1>7. CASE UNCHANGED vars
  BY <1>7 DEF vars, live, InRange, Accepted
<1> QED BY <1>1, <1>2, <1>3, <1>4, <1>5, <1>6, <1>7 DEF Next

\* The code of a rate, read back, is the rate.
LEMMA RateReadBack ==
  ASSUME NEW b \in BaudRates
  PROVE  BaudFromKilo((b \div 1000) % 256) = b
<1>1. PICK k \in KiloBauds : b = BaudRate[k]
  BY DEF BaudRates
<1>2. (b \div 1000) % 256 = k
  <2>1. /\ 9600 \div 1000 = 9 /\ 19200 \div 1000 = 19 /\ 38400 \div 1000 = 38
        /\ 57600 \div 1000 = 57 /\ 76800 \div 1000 = 76
        /\ 115200 \div 1000 = 115
    OBVIOUS
  <2>2. \A q \in KiloBauds : q % 256 = q
    BY DEF KiloBauds
  <2>3. b \div 1000 = k
    BY <1>1, <2>1 DEF BaudRate, KiloBauds
  <2> QED BY <2>2, <2>3
<1>3. HighestUpTo(k) = k
  <2>1. KiloBauds \subseteq Int
    BY DEF KiloBauds
  <2>2. k <= k /\ \A q \in KiloBauds : q <= k => q <= k
    BY <2>1
  <2>3. \A r \in KiloBauds :
          (r <= k /\ \A q \in KiloBauds : q <= k => q <= r) => r = k
    BY <2>1
  <2> QED BY <2>2, <2>3 DEF HighestUpTo
<1>4. k \in Nat /\ k # 255 /\ k >= 9
  BY DEF KiloBauds
<1>5. BaudFromKilo(k) = BaudRate[k]
  BY <1>3, <1>4 DEF BaudFromKilo
<1> QED BY <1>1, <1>2, <1>5

\* What is stored of a station number or a Max_Master is the number.
LEMMA OctetReadBack ==
  \A v \in 0 .. 127 : v % 256 = v
OBVIOUS

LEMMA BootTakesCells ==
  ASSUME ConfigInv, InRange, KnownInv', InRange', ApplySettings
  PROVE  /\ Known(MstpMac) => This_Station' \in mayBe'[MstpMac]
         /\ Known(MstpManager) =>
              \E max \in mayBe'[MstpManager] :
                Nmax_master' = Larger(max, This_Station')
         /\ Known(MstpBaud) => baud' \in mayBe'[MstpBaud]
<1> DEFINE mac == eeprom[10]
           most == eeprom[12]
           max == RaiseMaxMaster(0, mac)
<1>1. /\ This_Station = 0 /\ Nmax_master = 0 /\ eeprom' = eeprom
      /\ This_Station' = SetMacAddress(This_Station, mac)
      /\ Nmax_master' = SetMaxMaster(This_Station',
                                     RaiseMaxMaster(Nmax_master, mac), most)
      /\ baud' = BaudFromKilo(eeprom[11])
  BY DEF ApplySettings, InRange, storage, Unsigned8, NV_EEPROM_MSTP_MAC,
         NV_EEPROM_MSTP_MAX_MASTER, NV_EEPROM_MSTP_BAUD_K
<1>2. /\ This_Station' = SetMacAddress(0, mac)
      /\ Nmax_master' = SetMaxMaster(This_Station', max, most)
  BY <1>1
<1>3. mac \in 0 .. 255
  BY ConfigAssumption DEF ConfigInv, TypeOK, StorageTypeOK, Contents, Byte,
     ConfigCells
<1>4. /\ MstpMac \in Settings \ {DeviceId}
      /\ MstpManager \in Settings \ {DeviceId}
      /\ MstpBaud \in Settings \ {DeviceId}
      /\ MstpMac # MstpBaud /\ MstpManager # MstpBaud /\ MstpManager # MstpMac
  BY DEF Settings, DeviceId, MstpBaud, MstpMac, MstpManager
<1>5. ASSUME NEW s \in Settings \ {DeviceId}, mayBe'[s] # {}
      PROVE  \E v \in mayBe'[s] : v \in ValuesOf(s)
                                  /\ eeprom[CellOf(s)] = InCell(s, v)
  <2>1. Kept(s)' /\ mayBe'[s] \subseteq ValuesOf(s)
    BY <1>5 DEF KnownInv, InRange, ValuesOf
  <2>2. \E v \in mayBe'[s] : CellsHold(s, v)'
    BY <2>1 DEF Kept, CellsHold, InCell, CellOf
  <2>3. PICK v \in mayBe'[s] : CellsHold(s, v)'
    BY <2>2
  <2>4. eeprom[CellOf(s)] = InCell(s, v)
    BY <1>1, <2>3 DEF CellsHold, InCell, CellOf
  <2> QED BY <2>1, <2>4
<1>6. Known(MstpMac) => This_Station' \in mayBe'[MstpMac]
  <2> SUFFICES ASSUME mayBe'[MstpMac] # {}
               PROVE  This_Station' \in mayBe'[MstpMac]
    BY DEF Known
  <2>1. PICK v \in mayBe'[MstpMac] : v \in ValuesOf(MstpMac)
          /\ eeprom[CellOf(MstpMac)] = InCell(MstpMac, v)
    BY <1>4, <1>5
  <2>2. v \in 0 .. 127 /\ mac = v % 256
    BY <1>4, <2>1 DEF ValuesOf, CellOf, InCell
  <2>3. mac = v
    BY <2>2, OctetReadBack
  <2> QED BY <1>2, <2>2, <2>3 DEF SetMacAddress
<1>7. Known(MstpManager) => \E q \in mayBe'[MstpManager] :
                              Nmax_master' = Larger(q, This_Station')
  <2> SUFFICES ASSUME mayBe'[MstpManager] # {}
               PROVE  \E q \in mayBe'[MstpManager] :
                        Nmax_master' = Larger(q, This_Station')
    BY DEF Known
  <2>1. PICK v \in mayBe'[MstpManager] : v \in ValuesOf(MstpManager)
          /\ eeprom[CellOf(MstpManager)] = InCell(MstpManager, v)
    BY <1>4, <1>5
  <2>2. v \in 0 .. 127 /\ most = v % 256
    BY <1>4, <2>1 DEF ValuesOf, CellOf, InCell
  <2>3. most = v
    BY <2>2, OctetReadBack
  <2>4. max = This_Station' /\ This_Station' \in 0 .. 127
    BY <1>2, <1>3 DEF SetMacAddress, RaiseMaxMaster, SetMaxMaster
  <2> HIDE DEF max
  <2>5. Nmax_master' = Larger(v, This_Station')
    BY <1>2, <2>2, <2>3, <2>4 DEF SetMaxMaster, Larger
  <2> QED BY <2>5
<1>8. Known(MstpBaud) => baud' \in mayBe'[MstpBaud]
  <2> SUFFICES ASSUME mayBe'[MstpBaud] # {} PROVE baud' \in mayBe'[MstpBaud]
    BY DEF Known
  <2>1. PICK v \in mayBe'[MstpBaud] : v \in ValuesOf(MstpBaud)
          /\ eeprom[CellOf(MstpBaud)] = InCell(MstpBaud, v)
    BY <1>4, <1>5
  <2>2. v \in BaudRates /\ eeprom[11] = (v \div 1000) % 256
    BY <1>4, <2>1 DEF ValuesOf, CellOf, InCell
  <2>3. BaudFromKilo((v \div 1000) % 256) = v
    BY <2>2, RateReadBack
  <2> QED BY <1>1, <2>2, <2>3
<1> QED BY <1>6, <1>7, <1>8

\* At boot each setting kept in one cell takes the value that was acknowledged
\* last, or one whose write was cut short since: every rate that may be written
\* is one the port knows.
THEOREM SettingsRemembered ==
  ASSUME RatesAreStandard PROVE Spec => CellsAsConfigured
<1>1. Init => InRange
  BY DEF Init, Unknown, InRange
<1>2. ConfigInv /\ InRange /\ [Next]_vars => InRange'
  BY StepRange
<1>3. Spec => []InRange
  <2>1. Spec => []ConfigInv
    BY KnownInvariance, PTL
  <2> QED BY <1>1, <1>2, <2>1, PTL DEF Spec
<1> DEFINE Boots == phase' = "running" /\ phase \in {"default", "apply"}
           Takes ==
             /\ Known(MstpMac) => This_Station' \in mayBe'[MstpMac]
             /\ Known(MstpManager) =>
                  \E max \in mayBe'[MstpManager] :
                    Nmax_master' = Larger(max, This_Station')
             /\ Known(MstpBaud) => baud' \in mayBe'[MstpBaud]
<1>4. ConfigInv /\ InRange /\ KnownInv' /\ InRange' /\ [Next]_vars
        => [Boots => Takes]_vars
  <2> SUFFICES ASSUME ConfigInv, InRange, KnownInv', InRange', Next, Boots
               PROVE  Takes
    OBVIOUS
  <2>1. ApplySettings
    BY DEF Next, ReadTypeTag, StoreCells, WritePresentValue, WriteDone,
       PowerLoss
  <2> QED BY <2>1, BootTakesCells
<1>5. CellsAsConfigured <=> [][Boots => Takes]_vars
  BY DEF CellsAsConfigured
<1> QED BY <1>3, <1>4, <1>5, KnownInvariance, PTL DEF Spec

=============================================================================
