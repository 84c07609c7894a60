------------------------- MODULE ObjectServer_proofs -------------------------
(***************************************************************************)
(* Whatever clients ask and the sketch sets: types, and that what a client *)
(* was told is stored is what everybody reads.                             *)
(***************************************************************************)
EXTENDS ObjectServer, FiniteSetTheorems, TLAPS

\* What is read at a place.
Shown(p) ==
  CASE p[1] = OBJECT_DEVICE -> name[p[3]]
    [] p[1] = OBJECT_ANALOG_VALUE /\ p[3] = "PRESENT_VALUE" -> PresentValue(p[2])
    [] p[1] = OBJECT_ANALOG_VALUE /\ p[3] = "UNITS" -> units[p[2]]
    [] p[1] = OBJECT_BINARY_VALUE /\ p[3] = "PRESENT_VALUE" -> active[p[2]]
    [] p[1] = OBJECT_BINARY_VALUE /\ p[3] = "OUT_OF_SERVICE" ->
         outOfService[p[2]]

ToldIsShown == \A p \in Places : told[p] # Unknown => Shown(p) = told[p]

-----------------------------------------------------------------------------
(* Tables.                                                                 *)
LEMMA ObjectTypes ==
  /\ OBJECT_DEVICE # OBJECT_ANALOG_VALUE
  /\ OBJECT_DEVICE # OBJECT_BINARY_VALUE
  /\ OBJECT_ANALOG_VALUE # OBJECT_BINARY_VALUE
BY DEF OBJECT_DEVICE, OBJECT_ANALOG_VALUE, OBJECT_BINARY_VALUE

LEMMA Tables ==
  /\ Settings = {92, 93, 94, 95} /\ DeviceId = 92 /\ MstpBaud = 93
  /\ MstpMac = 94 /\ MstpManager = 95 /\ Uptime = 99
  /\ Analog = {0, 1, 2, 3, 92, 93, 94, 95, 96, 97, 98, 99}
  /\ Binary = {0, 1, 2, 3, 4, 99}
<1>1. DOMAIN AnalogTable = 1 .. 12 /\ DOMAIN BinaryTable = 1 .. 6
  BY DEF AnalogTable, BinaryTable
<1>2. /\ DeviceId = 92 /\ MstpBaud = 93 /\ MstpMac = 94 /\ MstpManager = 95
      /\ Uptime = 99
  BY DEF DeviceId, MstpBaud, MstpMac, MstpManager, Uptime
<1>3. Settings = {92, 93, 94, 95}
  BY <1>2 DEF Settings
<1>4. Analog = {0, 1, 2, 3, 92, 93, 94, 95, 96, 97, 98, 99}
  BY <1>1 DEF Analog, Elements, AnalogTable
<1>5. Binary = {0, 1, 2, 3, 4, 99}
  BY <1>1 DEF Binary, Elements, BinaryTable
<1> QED BY <1>2, <1>3, <1>4, <1>5

\* The kinds of places.
LEMMA PlaceCases ==
  ASSUME NEW p \in Places
  PROVE  \/ /\ p[1] = OBJECT_DEVICE /\ p[2] = BACNET_MAX_INSTANCE
            /\ p[3] \in Names
         \/ /\ p[1] = OBJECT_ANALOG_VALUE /\ p[2] \in Settings
            /\ p[3] = "PRESENT_VALUE"
         \/ /\ p[1] = OBJECT_ANALOG_VALUE /\ p[2] \in Analog
            /\ p[3] = "UNITS"
         \/ /\ p[1] = OBJECT_BINARY_VALUE /\ p[2] \in Binary
            /\ p[3] \in {"PRESENT_VALUE", "OUT_OF_SERVICE"}
BY DEF Places, Lasting

\* Reading a place finds what is shown there.
LEMMA ReadPlace ==
  ASSUME NEW p \in Places
  PROVE  Read(p[1], p[2], p[3], BACNET_ARRAY_ALL) = Reading(<< Shown(p) >>)
<1>1. CASE p[1] = OBJECT_DEVICE
  <2>1. p[2] = BACNET_MAX_INSTANCE /\ p[3] \in Names
    BY <1>1, PlaceCases, ObjectTypes
  <2>2. p[3] \in DeviceReadable /\ p[3] # "OBJECT_LIST"
        /\ p[3] # "OBJECT_IDENTIFIER"
    BY <2>1 DEF DeviceReadable, Names
  <2>3. DeviceValue(p[3]) = name[p[3]]
    BY <2>1, <2>2 DEF DeviceValue
  <2>4. ReadDevice(p[3], BACNET_ARRAY_ALL) = Reading(<< name[p[3]] >>)
    <3> DEFINE tests ==
          << Test(p[3] \notin DeviceReadable, Error("UNKNOWN_PROPERTY")),
             Test(BACNET_ARRAY_ALL # BACNET_ARRAY_ALL,
                  Error("PROPERTY_IS_NOT_AN_ARRAY")) >>
    <3>1. DOMAIN tests = 1 .. 2
      OBVIOUS
    <3>2. ~tests[1].fails
      BY <2>2 DEF Test
    <3>3. ~tests[2].fails
      BY DEF Test
    <3>4. Passed(tests)
      BY <3>1, <3>2, <3>3 DEF Passed
    <3> QED BY <2>2, <2>3, <3>4 DEF ReadDevice, FirstRefusal
  <2>5. Shown(p) = name[p[3]]
    BY <1>1, <2>1, ObjectTypes DEF Shown
  <2> QED BY <1>1, <2>1, <2>4, <2>5 DEF Read
<1>2. CASE p[1] = OBJECT_ANALOG_VALUE
  <2>1. p[2] \in Analog /\ p[3] \in {"PRESENT_VALUE", "UNITS"}
    BY <1>2, PlaceCases, ObjectTypes, Tables
  <2>2. p[3] \in AnalogReadable
    BY <2>1 DEF AnalogReadable
  <2>3. AnalogValue(p[2], p[3]) = Shown(p)
    BY <1>2, <2>1, ObjectTypes DEF AnalogValue, Shown
  <2>4. ReadAnalog(p[2], p[3], BACNET_ARRAY_ALL) = Reading(<< Shown(p) >>)
    <3> DEFINE tests ==
          << Test(p[3] \notin AnalogReadable, Error("UNKNOWN_PROPERTY")),
             Test(BACNET_ARRAY_ALL # BACNET_ARRAY_ALL,
                  Error("PROPERTY_IS_NOT_AN_ARRAY")) >>
    <3>1. DOMAIN tests = 1 .. 2
      OBVIOUS
    <3>2. ~tests[1].fails
      BY <2>2 DEF Test
    <3>3. ~tests[2].fails
      BY DEF Test
    <3>4. Passed(tests)
      BY <3>1, <3>2, <3>3 DEF Passed
    <3> QED BY <2>2, <2>3, <3>4 DEF ReadAnalog, FirstRefusal
  <2> QED BY <1>2, <2>1, <2>4, ObjectTypes DEF Read
<1>3. CASE p[1] = OBJECT_BINARY_VALUE
  <2>1. p[2] \in Binary /\ p[3] \in {"PRESENT_VALUE", "OUT_OF_SERVICE"}
    BY <1>3, PlaceCases, ObjectTypes
  <2>2. p[3] \in BinaryReadable
    BY <2>1 DEF BinaryReadable, AnalogReadable
  <2>3. BinaryValue(p[2], p[3]) = Shown(p)
    BY <1>3, <2>1, ObjectTypes DEF BinaryValue, Shown
  <2> QED BY <1>3, <2>1, <2>2, <2>3, ObjectTypes DEF Read, ReadBinary
<1> QED BY <1>1, <1>2, <1>3, PlaceCases

-----------------------------------------------------------------------------
(* What a handler knows of a write that passed its tests.                  *)
LEMMA DeviceAccepted ==
  ASSUME NEW r, NEW value, Passed(DeviceTests(r, value))
  PROVE  r.property \in Names /\ value.v \in Storable
<1> DEFINE tests == DeviceTests(r, value)
<1>1. 5 \in DOMAIN tests /\ 8 \in DOMAIN tests
  BY DEF DeviceTests
<1>2. tests[5].fails = (r.property \notin Names)
  BY DEF DeviceTests, Test
<1>3. tests[8].fails = (value.v \notin Storable)
  BY DEF DeviceTests, Test
<1> QED BY <1>1, <1>2, <1>3 DEF Passed

LEMMA AnalogAccepted ==
  ASSUME NEW r, NEW value, Passed(AnalogTests(r, value))
  PROVE  /\ r.instance \in Analog
         /\ r.property = "PRESENT_VALUE" => Takes(r.instance, value.v)
         /\ r.property = "UNITS" =>
              value.tag = "enumerated" /\ value.v \in UnitCodes
<1> DEFINE tests == AnalogTests(r, value)
<1>1. /\ 1 \in DOMAIN tests /\ 7 \in DOMAIN tests
      /\ 8 \in DOMAIN tests /\ 9 \in DOMAIN tests
  BY DEF AnalogTests
<1>2. tests[1].fails = (r.instance \notin Analog)
  BY DEF AnalogTests, Test
<1>3. tests[7].fails = (r.property = "UNITS" /\ value.tag # "enumerated")
  BY DEF AnalogTests, Test
<1>4. tests[8].fails = (r.property = "UNITS" /\ value.v \notin UnitCodes)
  BY DEF AnalogTests, Test
<1>5. tests[9].fails =
        (r.property = "PRESENT_VALUE" /\ ~Takes(r.instance, value.v))
  BY DEF AnalogTests, Test
<1> HIDE DEF tests
<1>6. ~tests[1].fails /\ ~tests[7].fails /\ ~tests[8].fails /\ ~tests[9].fails
  BY <1>1 DEF Passed, tests
<1>7. ~ (r.property = "PRESENT_VALUE" /\ ~Takes(r.instance, value.v))
  BY <1>5, <1>6
<1>8. r.property = "PRESENT_VALUE" => Takes(r.instance, value.v)
  BY <1>7, Zenon
<1>9. r.instance \in Analog
  BY <1>2, <1>6
<1>10. ~ (r.property = "UNITS" /\ value.tag # "enumerated")
  BY <1>3, <1>6
<1>11. ~ (r.property = "UNITS" /\ value.v \notin UnitCodes)
  BY <1>4, <1>6
<1> QED BY <1>8, <1>9, <1>10, <1>11

LEMMA BinaryAccepted ==
  ASSUME NEW r, NEW value, Passed(BinaryTests(r, value))
  PROVE  /\ r.instance \in Binary
         /\ r.property = "OUT_OF_SERVICE" => value.tag = "boolean"
         /\ r.property = "PRESENT_VALUE" => value.v \in 0 .. 1
<1> DEFINE tests == BinaryTests(r, value)
<1>1. 1 \in DOMAIN tests /\ 5 \in DOMAIN tests /\ 6 \in DOMAIN tests
  BY DEF BinaryTests
<1>2. tests[1].fails = (r.instance \notin Binary)
  BY DEF BinaryTests, Test
<1>3. tests[5].fails = (r.property = "OUT_OF_SERVICE" /\ value.tag # "boolean")
  BY DEF BinaryTests, Test
<1>4. tests[6].fails =
        (r.property = "PRESENT_VALUE"
           /\ (value.tag # "enumerated" \/ value.v \notin 0 .. 1))
  BY DEF BinaryTests, Test
<1> QED BY <1>1, <1>2, <1>3, <1>4 DEF Passed

LEMMA DecodedType ==
  ASSUME NEW r \in Requests, NEW value \in Decoded(r)
  PROVE  /\ value \in Value
         /\ value.v \in Int
         /\ value.tag = "boolean" => value.v \in 0 .. 1
         /\ value.tag = "enumerated" => value.v \in Nat
<1>1. r.value \in Value
  BY ServerAssumption DEF Request
<1>2. Leftover \subseteq Value
  BY DEF Leftover, Value
<1>3. [tag |-> "null", v |-> 0] \in Value
  BY DEF Value
<1>4. value \in Value
  BY <1>1, <1>2, <1>3 DEF Decoded
<1> QED BY <1>4 DEF Value

-----------------------------------------------------------------------------
(* Types.                                                                  *)
SettingTypes ==
  /\ objectInstanceNumber \in Instances
  /\ setting \in [Settings -> Nat]
  /\ \A s \in Settings \ {MstpBaud} : setting[s] \in Taken[s]
  /\ setting[MstpBaud] \in 0 .. 255
  /\ stored \in [Analog \ Settings -> Int]

LEMMA RangeTypes == Instances \subseteq Nat /\ Addresses \subseteq Nat
<1>1. BACNET_MAX_INSTANCE \in Nat
  BY SMT DEF BACNET_MAX_INSTANCE
<1> QED BY <1>1 DEF Instances, Addresses

LEMMA TakenTypes ==
  /\ Taken[DeviceId] = Instances
  /\ \A s \in Settings \ {DeviceId, MstpBaud} : Taken[s] = Addresses
BY Tables DEF Taken

LEMMA SetAnalogTypes ==
  ASSUME SettingTypes, NEW a \in Analog, NEW v \in Int, Takes(a, v),
         SetAnalog(a, v)
  PROVE  SettingTypes'
<1>1. a \in Settings => v \in Taken[a]
  BY DEF Takes
<1>2. a \in Settings =>
        /\ Cell(a, v) \in Nat
        /\ a # MstpBaud => Cell(a, v) \in Taken[a]
        /\ a = MstpBaud => Cell(a, v) \in 0 .. 255
  <2>1. CASE a = MstpBaud
    <3>1. ((v \div 1000) % 256) \in 0 .. 255
      OBVIOUS
    <3> QED BY <2>1, <3>1 DEF Cell
  <2>2. CASE a # MstpBaud /\ a \in Settings
    <3>1. Cell(a, v) = v /\ v \in Taken[a]
      BY <1>1, <2>2 DEF Cell
    <3>2. Taken[a] \subseteq Nat
      BY <2>2, TakenTypes, RangeTypes
    <3> QED BY <2>2, <3>1, <3>2
  <2> QED BY <2>1, <2>2
<1>3. objectInstanceNumber' \in Instances
  <2>1. a = DeviceId => v \in Instances
    BY <1>1, TakenTypes, Tables
  <2> QED BY <2>1 DEF SetAnalog, SettingTypes
<1>4. setting' = [s \in Settings |-> IF s = a THEN Cell(a, v) ELSE setting[s]]
  BY DEF SetAnalog
<1>5. setting' \in [Settings -> Nat]
  BY <1>2, <1>4 DEF SettingTypes
<1>6. \A s \in Settings \ {MstpBaud} : setting'[s] \in Taken[s]
  BY <1>2, <1>4 DEF SettingTypes
<1>7. setting'[MstpBaud] \in 0 .. 255
  <2>1. MstpBaud \in Settings
    BY Tables
  <2> QED BY <1>2, <1>4, <2>1 DEF SettingTypes
<1>8. stored' \in [Analog \ Settings -> Int]
  BY DEF SetAnalog, SettingTypes
<1> QED BY <1>3, <1>5, <1>6, <1>7, <1>8 DEF SettingTypes

\* What a write or the sketch may change keeps its type.
ObjectTypesOK ==
  /\ SettingTypes
  /\ name \in [Names -> Storable] /\ units \in [Analog -> UnitCodes]
  /\ active \in [Binary -> 0 .. 1] /\ outOfService \in [Binary -> 0 .. 1]

LEMMA AcceptedTypes ==
  ASSUME ObjectTypesOK, NEW r \in Requests, NEW value \in Decoded(r),
         Accepted(r, value),
         WriteName(r, value) \/ WriteAnalog(r, value) \/ WriteBinary(r, value)
  PROVE  ObjectTypesOK'
<1>1. /\ value.v \in Int
      /\ value.tag = "boolean" => value.v \in 0 .. 1
  BY DecodedType
<1>2. CASE WriteName(r, value)
  <2>1. r.property \in Names /\ value.v \in Storable
    BY <1>2, ObjectTypes, DeviceAccepted DEF WriteName, Accepted, ObjectTests
  <2>2. name' \in [Names -> Storable]
    BY <1>2, <2>1 DEF WriteName, ObjectTypesOK
  <2> QED BY <1>2, <2>2 DEF WriteName, ObjectTypesOK, SettingTypes
<1>3. CASE WriteAnalog(r, value)
  <2>1. Passed(AnalogTests(r, value))
    BY <1>3, ObjectTypes DEF WriteAnalog, Accepted, ObjectTests
  <2>2. CASE r.property = "PRESENT_VALUE" /\ SetAnalog(r.instance, value.v)
                /\ UNCHANGED units
    <3>1. SettingTypes'
      BY <1>1, <2>1, <2>2, AnalogAccepted, SetAnalogTypes DEF ObjectTypesOK
    <3> QED BY <1>3, <2>2, <3>1 DEF WriteAnalog, ObjectTypesOK
  <2>3. CASE /\ r.property = "UNITS"
             /\ units' = [units EXCEPT ![r.instance] = value.v]
             /\ UNCHANGED << objectInstanceNumber, setting, stored >>
    <3>1. units' \in [Analog -> UnitCodes]
      BY <2>1, <2>3, AnalogAccepted DEF ObjectTypesOK
    <3> QED BY <1>3, <2>3, <3>1 DEF WriteAnalog, ObjectTypesOK, SettingTypes
  <2> QED BY <1>3, <2>2, <2>3 DEF WriteAnalog
<1>4. CASE WriteBinary(r, value)
  <2>1. Passed(BinaryTests(r, value))
    BY <1>4, ObjectTypes DEF WriteBinary, Accepted, ObjectTests
  <2>2. /\ active' \in [Binary -> 0 .. 1]
        /\ outOfService' \in [Binary -> 0 .. 1]
    BY <1>1, <1>4, <2>1, BinaryAccepted DEF WriteBinary, SetBinary, ObjectTypesOK
  <2> QED BY <1>4, <2>2 DEF WriteBinary, ObjectTypesOK, SettingTypes, config
<1> QED BY <1>2, <1>3, <1>4

\* The rest of TypeOK.
FlagTypes == Send_I_Am_Flag \in BOOLEAN /\ asked \in BOOLEAN
NumberTypes ==
  /\ uptimeSeconds \in Nat /\ start \in 0 .. ClockSize - 1
  /\ age \in 0 .. MaxAge
  /\ told \in [Places -> Int] /\ announced \in Int /\ writes \in 0 .. MaxWrites
OtherTypesOK == phase \in {"loop", "receive"} /\ FlagTypes /\ NumberTypes

LEMMA TypeParts == TypeOK <=> ObjectTypesOK /\ OtherTypesOK
BY DEF TypeOK, ObjectTypesOK, SettingTypes, OtherTypesOK, FlagTypes,
       NumberTypes

LEMMA PartsOfType == ObjectTypesOK' /\ OtherTypesOK' => TypeOK'
BY DEF TypeOK, ObjectTypesOK, SettingTypes, OtherTypesOK, FlagTypes,
       NumberTypes

LEMMA FlagsKept ==
  ASSUME FlagTypes, UNCHANGED << Send_I_Am_Flag, asked, announced >>
  PROVE  FlagTypes'
BY DEF FlagTypes

LEMMA FactorySettingTypes ==
  \A s \in Settings \ {MstpBaud} : FactorySettings[s] \in Taken[s]
<1>1. FactorySettings \in [Settings -> Nat]
  BY ServerAssumption
<1>2. FactorySettings[DeviceId] \in Instances
  <2>1. FactorySettings[DeviceId] \in Nat
    BY <1>1, Tables
  <2>2. FactorySettings[DeviceId] <= BACNET_MAX_INSTANCE
        /\ BACNET_MAX_INSTANCE \in Nat
    BY SMT, ServerAssumption DEF BACNET_MAX_INSTANCE
  <2> QED BY <2>1, <2>2 DEF Instances
<1>3. FactorySettings[MstpMac] \in Addresses
      /\ FactorySettings[MstpManager] \in Addresses
  <2>1. FactorySettings[MstpMac] \in Nat /\ FactorySettings[MstpManager] \in Nat
    BY <1>1, Tables
  <2> QED BY <2>1, ServerAssumption DEF Addresses
<1> QED BY <1>2, <1>3, TakenTypes, Tables

LEMMA InitTypes == Init => TypeOK
<1> SUFFICES ASSUME Init PROVE ObjectTypesOK /\ OtherTypesOK
  BY TypeParts
<1>1. SettingTypes
  <2>1. setting = FactorySettings /\ objectInstanceNumber = setting[DeviceId]
        /\ stored = [a \in Analog \ Settings |-> 0]
    BY DEF Init
  <2>2. setting[DeviceId] \in Instances
    BY <2>1, FactorySettingTypes, TakenTypes, Tables
  <2>3. setting \in [Settings -> Nat]
    BY <2>1, ServerAssumption
  <2>4. setting[MstpBaud] \in 0 .. 255
    <3>1. setting[MstpBaud] \in Nat
      BY <2>3, Tables
    <3> QED BY <2>1, <3>1, ServerAssumption
  <2> QED BY <2>1, <2>2, <2>3, <2>4, FactorySettingTypes DEF SettingTypes
<1>2. units \in [Analog -> UnitCodes]
  BY DEF Init, UnitsOf, UnitCodes
<1>3. name \in [Names -> Storable]
  BY ServerAssumption DEF Init
<1>4. active \in [Binary -> 0 .. 1] /\ outOfService \in [Binary -> 0 .. 1]
  BY DEF Init
<1>5. ClockSize - 1 \in Nat /\ MaxAge \in Nat /\ MaxWrites \in Nat
  BY ServerAssumption
<1>6. OtherTypesOK
  <2>1. told \in [Places -> Int] /\ announced \in Int
    BY DEF Init, Unknown
  <2>2. FlagTypes
    BY DEF Init, FlagTypes
  <2>3. /\ uptimeSeconds = 0 /\ start = 0 /\ age = 0 /\ writes = 0
        /\ phase = "loop"
    BY DEF Init
  <2>4. NumberTypes
    BY <1>5, <2>1, <2>3 DEF NumberTypes
  <2> QED BY <2>2, <2>3, <2>4 DEF OtherTypesOK
<1> QED BY <1>1, <1>2, <1>3, <1>4, <1>6 DEF ObjectTypesOK

LEMMA SketchTypes == ASSUME ObjectTypesOK, SketchSets PROVE ObjectTypesOK'
<1>1. PICK r \in Requests :
        \/ /\ r.type = OBJECT_ANALOG_VALUE /\ r.instance \in Analog
           /\ Takes(r.instance, r.value.v)
           /\ SetAnalog(r.instance, r.value.v)
           /\ UNCHANGED active
        \/ /\ r.type = OBJECT_BINARY_VALUE /\ r.instance \in Binary
           /\ r.value.v \in 0 .. 1
           /\ SetBinary(r.instance, r.value.v)
           /\ UNCHANGED << objectInstanceNumber, setting, stored >>
  BY DEF SketchSets
<1>2. r.value.v \in Int
  BY ServerAssumption DEF Request, Value
<1>3. UNCHANGED << name, units, outOfService >>
  BY DEF SketchSets
<1>4. CASE SetAnalog(r.instance, r.value.v) /\ UNCHANGED active
           /\ r.instance \in Analog /\ Takes(r.instance, r.value.v)
  BY <1>2, <1>3, <1>4, SetAnalogTypes DEF ObjectTypesOK
<1>5. CASE /\ r.instance \in Binary /\ r.value.v \in 0 .. 1
           /\ SetBinary(r.instance, r.value.v)
           /\ UNCHANGED << objectInstanceNumber, setting, stored >>
  BY <1>3, <1>5 DEF SetBinary, ObjectTypesOK, SettingTypes
<1> QED BY <1>1, <1>4, <1>5

LEMMA RestartTypes == ASSUME ObjectTypesOK, Restart PROVE ObjectTypesOK'
<1>1. setting[DeviceId] \in Instances
  BY TakenTypes, Tables DEF ObjectTypesOK, SettingTypes
<1>2. units' \in [Analog -> UnitCodes]
  BY DEF Restart, UnitsOf, UnitCodes
<1> QED BY <1>1, <1>2 DEF Restart, ObjectTypesOK, SettingTypes

LEMMA StoreNumber ==
  ASSUME NEW S, NEW f \in [S -> Int], NEW k, NEW n \in Int
  PROVE  [f EXCEPT ![k] = n] \in [S -> Int]
OBVIOUS

LEMMA OneSecondTypes == ASSUME TypeOK, OneSecondTask PROVE TypeOK'
<1>1. uptimeSeconds' \in Nat /\ uptimeSeconds' \in Int
  BY DEF OneSecondTask, TypeOK
<1>0. stored' \in [Analog \ Settings -> Int]
  <2>1. stored \in [Analog \ Settings -> Int]
    BY DEF TypeOK
  <2>2. stored' = [stored EXCEPT ![Uptime] = uptimeSeconds']
    BY DEF OneSecondTask
  <2> QED BY <1>1, <2>1, <2>2, StoreNumber
<1>2. start' \in 0 .. ClockSize - 1
  <2>1. start + Interval \in Int /\ ClockSize \in Nat /\ ClockSize > 0
    BY ServerAssumption DEF TypeOK
  <2> QED BY <2>1 DEF OneSecondTask, ResetTimer
<1>3. UNCHANGED << objectInstanceNumber, setting, name, units, active,
                   outOfService >>
  BY DEF OneSecondTask, config
<1>4. phase' = "receive" /\ UNCHANGED << age, told, writes >>
  BY DEF OneSecondTask
<1>5. UNCHANGED << Send_I_Am_Flag, asked, announced >>
  BY DEF OneSecondTask, discovery
<1>6. ObjectTypesOK'
  BY <1>0, <1>3, TypeParts DEF ObjectTypesOK, SettingTypes
<1>7. OtherTypesOK'
  <2>1. NumberTypes'
    BY <1>1, <1>2, <1>4, <1>5, TypeParts DEF OtherTypesOK, NumberTypes
  <2> QED BY <1>4, <1>5, <2>1, TypeParts, FlagsKept DEF OtherTypesOK
<1> QED BY <1>6, <1>7, PartsOfType

LEMMA ToldTypes ==
  ASSUME told \in [Places -> Int], NEW place, NEW v \in Int, Tell(place, v)
  PROVE  told' \in [Places -> Int]
BY DEF Tell

LEMMA WriteTypes == ASSUME TypeOK, WriteProperty PROVE TypeOK'
<1> DEFINE Executed(r, value) ==
        /\ Accepted(r, value)
        /\ WriteName(r, value) \/ WriteAnalog(r, value)
             \/ WriteBinary(r, value)
        /\ Tell(PlaceOf(r), IF answer' = SimpleAck THEN Expected(r, value)
                                                  ELSE Unknown)
<1>0. PICK r \in Requests : \E value \in Decoded(r) : Executed(r, value)
  BY DEF WriteProperty
<1>1. PICK value \in Decoded(r) : Executed(r, value)
  BY <1>0
<1>2. ObjectTypesOK'
  BY <1>1, TypeParts, AcceptedTypes
<1>3. Expected(r, value) \in Int /\ Unknown \in Int
  BY DecodedType DEF Expected, Unknown
<1>4. told' \in [Places -> Int]
  <2> DEFINE v == IF answer' = SimpleAck THEN Expected(r, value) ELSE Unknown
  <2>1. v \in Int
    BY <1>3
  <2> QED BY <1>1, <2>1, ToldTypes DEF TypeOK
<1>5. writes' \in 0 .. MaxWrites
  BY ServerAssumption DEF WriteProperty, TypeOK
<1>6. phase' \in {"loop", "receive"} /\ UNCHANGED << clocks, discovery >>
  BY DEF WriteProperty
<1>7. OtherTypesOK'
  <2>1. UNCHANGED << uptimeSeconds, start, age >>
    BY <1>6 DEF clocks
  <2>2. UNCHANGED << Send_I_Am_Flag, asked, announced >>
    BY <1>6 DEF discovery
  <2>3. phase' \in {"loop", "receive"}
    BY <1>6
  <2>4. NumberTypes'
    BY <1>4, <1>5, <2>1, <2>2, TypeParts DEF OtherTypesOK, NumberTypes
  <2> QED BY <2>2, <2>3, <2>4, TypeParts, FlagsKept DEF OtherTypesOK
<1> QED BY <1>2, <1>7, PartsOfType

LEMMA StepTypes == TypeOK /\ [Next]_vars => TypeOK'
<1> SUFFICES ASSUME TypeOK, [Next]_vars PROVE TypeOK'
  OBVIOUS
<1>1. CASE OneSecondTask
  BY <1>1, OneSecondTypes
<1>2. CASE WriteProperty
  BY <1>2, WriteTypes
<1>3. CASE TimerNotDue \/ NothingToHandle
  BY <1>3 DEF TimerNotDue, NothingToHandle, objects, config, clocks, discovery,
     TypeOK
<1>4. CASE ReadProperty \/ RefuseWrite \/ RejectRequest
  <2>1. phase' = "loop" /\ UNCHANGED << objects, clocks, discovery, told, writes >>
    BY <1>4 DEF ReadProperty, RefuseWrite, RejectRequest
  <2> QED BY <2>1 DEF objects, config, clocks, discovery, TypeOK
<1>5. CASE WhoIs
  <2>1. Send_I_Am_Flag' \in BOOLEAN /\ asked' \in BOOLEAN
    BY <1>5, Zenon DEF WhoIs, Matches, Asks, TypeOK
  <2> QED BY <1>5, <2>1 DEF WhoIs, objects, config, clocks, TypeOK
<1>6. CASE SendIAm
  <2>1. objectInstanceNumber \in Int
    BY RangeTypes DEF TypeOK
  <2> QED BY <1>6, <2>1 DEF SendIAm, objects, config, clocks, TypeOK
<1>7. CASE Tick
  <2>1. age' \in 0 .. MaxAge
    BY <1>7, ServerAssumption DEF Tick, TypeOK
  <2> QED BY <1>7, <2>1 DEF Tick, objects, config, discovery, TypeOK
<1>8. CASE SketchSets
  <2>1. ObjectTypesOK'
    BY <1>8, SketchTypes, TypeParts
  <2>2. PICK r \in Requests : Tell(PlaceOf(r), Unknown)
    BY <1>8 DEF SketchSets
  <2>3. told' \in [Places -> Int]
    BY <2>2, ToldTypes DEF Unknown, TypeOK
  <2>4. writes' \in 0 .. MaxWrites
    BY <1>8, ServerAssumption DEF SketchSets, TypeOK
  <2>5. OtherTypesOK'
    <3>1. UNCHANGED << phase, uptimeSeconds, start, age >>
      BY <1>8 DEF SketchSets, clocks
    <3>2. UNCHANGED << Send_I_Am_Flag, asked, announced >>
      BY <1>8 DEF SketchSets, discovery
    <3>3. NumberTypes'
      BY <2>3, <2>4, <3>1, <3>2, TypeParts DEF OtherTypesOK, NumberTypes
    <3> QED BY <3>1, <3>2, <3>3, TypeParts, FlagsKept DEF OtherTypesOK
  <2> QED BY <2>1, <2>5, PartsOfType
<1>9. CASE Restart
  <2>1. ObjectTypesOK'
    BY <1>9, RestartTypes, TypeParts
  <2>2. told' \in [Places -> Int]
    BY <1>9 DEF Restart, Unknown, TypeOK
  <2>3. ClockSize - 1 \in Nat /\ MaxAge \in Nat
    BY ServerAssumption
  <2>4. OtherTypesOK'
    <3>1. FlagTypes'
      BY <1>9, TypeParts DEF Restart, OtherTypesOK, FlagTypes
    <3>2. /\ uptimeSeconds' = 0 /\ start' = 0 /\ age' = 0
          /\ UNCHANGED << phase, announced, writes >>
      BY <1>9 DEF Restart
    <3>3. NumberTypes'
      BY <2>2, <2>3, <3>2, TypeParts DEF OtherTypesOK, NumberTypes
    <3> QED BY <3>1, <3>2, <3>3, TypeParts DEF OtherTypesOK
  <2> QED BY <2>1, <2>4, PartsOfType
<1>10. CASE UNCHANGED vars
  BY <1>10 DEF vars, objects, config, clocks, discovery, TypeOK
<1> QED BY <1>1, <1>2, <1>3, <1>4, <1>5, <1>6, <1>7, <1>8, <1>9, <1>10
        DEF Next, Update

\* For all requests, limits of the clocks and factory settings, every variable
\* has its type: no write puts a value where it does not belong.
THEOREM ServerTypeCorrect == Spec => []TypeOK
BY InitTypes, StepTypes, PTL DEF Spec


-----------------------------------------------------------------------------
(* What was acknowledged is read.                                          *)

\* A rate that the port knows survives its octet.
LEMMA RateReadBack ==
  ASSUME NEW b \in BaudRates
  PROVE  BaudFromKilo((b \div 1000) % 256) = b
<1>1. PICK k \in KiloBauds : b = BaudRate[k]
  BY SMT DEF BaudRates
<1>2. b \div 1000 = k
  <2>1. /\ 9600 \div 1000 = 9 /\ 19200 \div 1000 = 19 /\ 38400 \div 1000 = 38
        /\ 57600 \div 1000 = 57 /\ 76800 \div 1000 = 76
        /\ 115200 \div 1000 = 115
    BY SMT
  <2> QED BY SMT, <1>1, <2>1 DEF BaudRate, KiloBauds
<1>3. k \in Nat /\ k # 255 /\ k >= 9 /\ k % 256 = k
  BY SMT DEF KiloBauds
<1>4. HighestUpTo(k) = k
  <2>1. KiloBauds \subseteq Int
    BY DEF KiloBauds
  <2>2. \A r \in KiloBauds :
          (r <= k /\ \A q \in KiloBauds : q <= k => q <= r) <=> r = k
    BY <2>1
  <2> QED BY <2>2 DEF HighestUpTo
<1> QED BY <1>1, <1>2, <1>3, <1>4 DEF BaudFromKilo

\* Where and what a step may change, and what is told afterwards.
LEMMA ToldAfter ==
  ASSUME NEW place, NEW v, Tell(place, v), NEW p \in Places
  PROVE  told'[p] = IF p = place THEN v ELSE told[p]
BY DEF Tell

LEMMA SettingShown ==
  ASSUME NEW p, p[1] = OBJECT_ANALOG_VALUE, p[2] \in Settings,
         p[3] = "PRESENT_VALUE"
  PROVE  /\ Shown(p) = IF p[2] = MstpBaud THEN BaudFromKilo(setting[p[2]])
                                          ELSE setting[p[2]]
         /\ Shown(p)' = IF p[2] = MstpBaud THEN BaudFromKilo(setting'[p[2]])
                                           ELSE setting'[p[2]]
<1>1. Uptime \notin Settings /\ Uptime # MstpBaud
  BY Tables
<1>2. Shown(p) = PresentValue(p[2]) /\ Shown(p)' = PresentValue(p[2])'
  BY ObjectTypes DEF Shown
<1>3. CASE p[2] = MstpBaud
  <2>1. PresentValue(p[2]) = BaudFromKilo(setting[p[2]])
    BY <1>1, <1>3, SMT DEF PresentValue
  <2>2. PresentValue(p[2])' = BaudFromKilo(setting'[p[2]])
    BY <1>1, <1>3, SMT DEF PresentValue
  <2> QED BY <1>2, <1>3, <2>1, <2>2
<1>4. CASE p[2] # MstpBaud
  <2>1. PresentValue(p[2]) = setting[p[2]]
    BY <1>1, <1>4, SMT DEF PresentValue
  <2>2. PresentValue(p[2])' = setting'[p[2]]
    BY <1>1, <1>4, SMT DEF PresentValue
  <2> QED BY <1>2, <1>4, <2>1, <2>2
<1> QED BY <1>3, <1>4

LEMMA AnalogShown ==
  ASSUME TypeOK, NEW a, NEW v, SetAnalog(a, v), UNCHANGED << name, units, active,
         outOfService >>, NEW p \in Places
  PROVE  /\ p # << OBJECT_ANALOG_VALUE, a, "PRESENT_VALUE" >> =>
              Shown(p)' = Shown(p)
         /\ p = << OBJECT_ANALOG_VALUE, a, "PRESENT_VALUE" >> =>
              Shown(p)' = IF a = MstpBaud THEN BaudFromKilo(Cell(a, v)) ELSE v
<1>1. CASE p[1] = OBJECT_ANALOG_VALUE /\ p[3] = "PRESENT_VALUE"
  <2>1. p[2] \in Settings
    BY <1>1, PlaceCases, ObjectTypes
  <2>2. setting'[p[2]] = IF p[2] = a THEN Cell(a, v) ELSE setting[p[2]]
    BY <2>1 DEF SetAnalog
  <2>3. Shown(p) = IF p[2] = MstpBaud THEN BaudFromKilo(setting[p[2]])
                                     ELSE setting[p[2]]
    BY <1>1, <2>1, SettingShown
  <2>4. Shown(p)' = IF p[2] = MstpBaud THEN BaudFromKilo(setting'[p[2]])
                                      ELSE setting'[p[2]]
    BY <1>1, <2>1, SettingShown
  <2>5. p = << p[1], p[2], p[3] >>
    BY DEF Places, Lasting
  <2>6. a # MstpBaud => Cell(a, v) = v
    BY DEF Cell
  <2>7. CASE p[2] = a
    BY <1>1, <2>2, <2>4, <2>5, <2>6, <2>7
  <2>8. CASE p[2] # a
    BY <1>1, <2>2, <2>3, <2>4, <2>8
  <2> QED BY <2>7, <2>8
<1>2. CASE ~ (p[1] = OBJECT_ANALOG_VALUE /\ p[3] = "PRESENT_VALUE")
  BY <1>2 DEF Shown
<1> QED BY <1>1, <1>2

LEMMA WriteShows ==
  ASSUME TypeOK, NEW r \in Requests, NEW value \in Decoded(r),
         Accepted(r, value),
         WriteName(r, value) \/ WriteAnalog(r, value) \/ WriteBinary(r, value),
         NEW p \in Places
  PROVE  /\ p # PlaceOf(r) => Shown(p)' = Shown(p)
         /\ p = PlaceOf(r) /\ Expected(r, value) # Unknown =>
              Shown(p)' = Expected(r, value)
<1>0. p = << p[1], p[2], p[3] >>
  BY DEF Places, Lasting
<1>1. CASE WriteName(r, value)
  <2>1. r.type = OBJECT_DEVICE /\ r.property \in Names
    BY <1>1, ObjectTypes, DeviceAccepted DEF WriteName, Accepted, ObjectTests
  <2>2. PlaceOf(r) = << OBJECT_DEVICE, BACNET_MAX_INSTANCE, r.property >>
    BY <2>1 DEF PlaceOf
  <2>3. Expected(r, value) \in {value.v, Unknown}
    BY DEF Expected
  <2>4. name' = [name EXCEPT ![r.property] = value.v] /\ DOMAIN name = Names
    BY <1>1 DEF WriteName, TypeOK
  <2>5. CASE p[1] = OBJECT_DEVICE
    <3>1. p[2] = BACNET_MAX_INSTANCE /\ p[3] \in Names
      BY <2>5, PlaceCases, ObjectTypes
    <3>2. Shown(p) = name[p[3]] /\ Shown(p)' = name'[p[3]]
      BY <2>5, ObjectTypes DEF Shown
    <3> QED BY <1>0, <2>1, <2>2, <2>3, <2>4, <2>5, <3>1, <3>2
  <2>6. CASE p[1] # OBJECT_DEVICE
    <3>1. UNCHANGED << setting, stored, units, active, outOfService >>
      BY <1>1 DEF WriteName
    <3>2. PresentValue(p[2])' = PresentValue(p[2])
      BY <3>1 DEF PresentValue
    <3>3. Shown(p)' = Shown(p)
      BY <2>6, <3>1, <3>2, PlaceCases, ObjectTypes DEF Shown
    <3> QED BY <2>2, <2>6, <3>3
  <2> QED BY <2>5, <2>6
<1>2. CASE WriteAnalog(r, value)
  <2>1. r.type = OBJECT_ANALOG_VALUE
    BY <1>2 DEF WriteAnalog
  <2>2. PlaceOf(r) = << OBJECT_ANALOG_VALUE, r.instance, r.property >>
    BY <2>1, ObjectTypes DEF PlaceOf
  <2>3. UNCHANGED << name, active, outOfService >>
    BY <1>2 DEF WriteAnalog
  <2>4. CASE /\ r.property = "PRESENT_VALUE"
             /\ SetAnalog(r.instance, value.v) /\ UNCHANGED units
    <3>1. CASE p # PlaceOf(r)
      BY <2>2, <2>3, <2>4, <3>1, AnalogShown
    <3>2. CASE p = PlaceOf(r) /\ r.instance # MstpBaud
      <4>1. Shown(p)' = value.v
        BY <2>2, <2>3, <2>4, <3>2, AnalogShown
      <4>2. Expected(r, value) \in {value.v, Unknown}
        BY DEF Expected
      <4> QED BY <3>2, <4>1, <4>2
    <3>3. CASE p = PlaceOf(r) /\ r.instance = MstpBaud
      <4>1. Shown(p)' = BaudFromKilo(Cell(MstpBaud, value.v))
        BY <2>2, <2>3, <2>4, <3>3, AnalogShown
      <4>2. Expected(r, value) # Unknown =>
              Expected(r, value) = value.v /\ value.v \in BaudRates
        BY <2>2, <2>4, <3>3 DEF Expected
      <4>3. value.v \in BaudRates => Shown(p)' = value.v
        BY <4>1, RateReadBack DEF Cell
      <4> QED BY <3>3, <4>2, <4>3
    <3> QED BY <3>1, <3>2, <3>3
  <2>5. CASE /\ r.property = "UNITS"
             /\ units' = [units EXCEPT ![r.instance] = value.v]
             /\ UNCHANGED << objectInstanceNumber, setting, stored >>
    <3>1. r.property # "PRESENT_VALUE"
      BY <2>5
    <3>2. Expected(r, value) \in {value.v, Unknown}
      BY DEF Expected
    <3>3. CASE p[1] = OBJECT_ANALOG_VALUE /\ p[3] = "UNITS"
      <4>1. p[2] \in Analog /\ DOMAIN units = Analog
        BY <3>3, PlaceCases, ObjectTypes DEF TypeOK
      <4>2. Shown(p) = units[p[2]] /\ Shown(p)' = units'[p[2]]
        BY <3>3, ObjectTypes DEF Shown
      <4>3. p = PlaceOf(r) <=> p[2] = r.instance
        BY <1>0, <2>2, <2>5, <3>3
      <4> QED BY <2>5, <3>2, <4>1, <4>2, <4>3
    <3>4. CASE ~ (p[1] = OBJECT_ANALOG_VALUE /\ p[3] = "UNITS")
      <4>1. Shown(p)' = Shown(p)
        BY <2>3, <2>5, <3>4 DEF Shown, PresentValue
      <4>2. p # PlaceOf(r)
        BY <2>2, <2>5, <3>4
      <4> QED BY <4>1, <4>2
    <3> QED BY <3>3, <3>4
  <2> QED BY <1>2, <2>4, <2>5 DEF WriteAnalog
<1>3. CASE WriteBinary(r, value)
  <2>1. r.type = OBJECT_BINARY_VALUE
    BY <1>3 DEF WriteBinary
  <2>2. PlaceOf(r) = << OBJECT_BINARY_VALUE, r.instance, r.property >>
    BY <2>1, ObjectTypes DEF PlaceOf
  <2>3. UNCHANGED << setting, name, stored, units >>
    BY <1>3 DEF WriteBinary, config
  <2>4. Expected(r, value) \in {value.v, Unknown}
    BY DEF Expected
  <2>5. CASE p[1] # OBJECT_BINARY_VALUE
    <3>1. Shown(p)' = Shown(p)
      BY <2>3, <2>5 DEF Shown, PresentValue
    <3>2. p # PlaceOf(r)
      BY <2>2, <2>5
    <3> QED BY <3>1, <3>2
  <2>6. CASE p[1] = OBJECT_BINARY_VALUE
    <3>1. /\ p[2] \in Binary /\ p[3] \in {"PRESENT_VALUE", "OUT_OF_SERVICE"}
          /\ DOMAIN active = Binary /\ DOMAIN outOfService = Binary
      BY <2>6, PlaceCases, ObjectTypes DEF TypeOK
    <3>2. p = PlaceOf(r) <=> p[2] = r.instance /\ p[3] = r.property
      BY <1>0, <2>2, <2>6
    <3>3. CASE p[3] = "PRESENT_VALUE"
      <4>1. Shown(p) = active[p[2]] /\ Shown(p)' = active'[p[2]]
        BY <2>6, <3>3, ObjectTypes DEF Shown
      <4> QED BY <1>3, <2>4, <3>1, <3>2, <3>3, <4>1 DEF WriteBinary, SetBinary
    <3>4. CASE p[3] = "OUT_OF_SERVICE"
      <4>1. Shown(p) = outOfService[p[2]] /\ Shown(p)' = outOfService'[p[2]]
        BY <2>6, <3>4, ObjectTypes DEF Shown
      <4> QED BY <1>3, <2>4, <3>1, <3>2, <3>4, <4>1 DEF WriteBinary
    <3> QED BY <3>1, <3>3, <3>4
  <2> QED BY <2>5, <2>6
<1> QED BY <1>1, <1>2, <1>3

LEMMA SketchShows ==
  ASSUME TypeOK, SketchSets, NEW p \in Places
  PROVE  \E r \in Requests : /\ Tell(PlaceOf(r), Unknown)
                             /\ p # PlaceOf(r) => Shown(p)' = Shown(p)
<1>1. PICK r \in Requests :
        /\ r.property = "PRESENT_VALUE"
        /\ \/ /\ r.type = OBJECT_ANALOG_VALUE
              /\ SetAnalog(r.instance, r.value.v)
              /\ UNCHANGED active
           \/ /\ r.type = OBJECT_BINARY_VALUE
              /\ SetBinary(r.instance, r.value.v)
              /\ UNCHANGED << objectInstanceNumber, setting, stored >>
        /\ Tell(PlaceOf(r), Unknown)
  BY DEF SketchSets
<1>2. UNCHANGED << name, units, outOfService >>
  BY DEF SketchSets
<1>3. PlaceOf(r) = << r.type, r.instance, "PRESENT_VALUE" >>
  BY <1>1, ObjectTypes DEF PlaceOf
<1>4. ASSUME p # PlaceOf(r) PROVE Shown(p)' = Shown(p)
  <2>1. CASE r.type = OBJECT_ANALOG_VALUE /\ SetAnalog(r.instance, r.value.v)
             /\ UNCHANGED active
    BY <1>2, <1>3, <1>4, <2>1, AnalogShown
  <2>2. CASE /\ r.type = OBJECT_BINARY_VALUE
             /\ SetBinary(r.instance, r.value.v)
             /\ UNCHANGED << objectInstanceNumber, setting, stored >>
    <3>1. CASE p[1] = OBJECT_BINARY_VALUE /\ p[3] = "PRESENT_VALUE"
      <4>1. p = << p[1], p[2], p[3] >>
        BY DEF Places, Lasting
      <4>2. p[2] # r.instance
        BY <1>3, <1>4, <2>2, <3>1, <4>1
      <4>3. Shown(p) = active[p[2]] /\ Shown(p)' = active'[p[2]]
        BY <3>1, ObjectTypes DEF Shown
      <4>4. p[2] \in Binary /\ DOMAIN active = Binary
        BY <3>1, PlaceCases, ObjectTypes DEF TypeOK
      <4> QED BY <2>2, <4>2, <4>3, <4>4 DEF SetBinary
    <3>2. CASE ~ (p[1] = OBJECT_BINARY_VALUE /\ p[3] = "PRESENT_VALUE")
      BY <1>2, <2>2, <3>2 DEF Shown, PresentValue
    <3> QED BY <3>1, <3>2
  <2> QED BY <1>1, <2>1, <2>2
<1> QED BY <1>1, <1>4

LEMMA StepTold == TypeOK /\ ToldIsShown /\ [Next]_vars => ToldIsShown'
<1> SUFFICES ASSUME TypeOK, ToldIsShown, [Next]_vars,
                    NEW p \in Places, told'[p] # Unknown
             PROVE  Shown(p)' = told'[p]
  BY DEF ToldIsShown
<1>1. CASE WriteProperty
  <2> DEFINE Executed(r, value) ==
        /\ Accepted(r, value)
        /\ WriteName(r, value) \/ WriteAnalog(r, value)
             \/ WriteBinary(r, value)
        /\ Tell(PlaceOf(r), IF answer' = SimpleAck THEN Expected(r, value)
                                                  ELSE Unknown)
  <2>0. PICK r \in Requests : \E value \in Decoded(r) : Executed(r, value)
    BY <1>1 DEF WriteProperty
  <2>1. PICK value \in Decoded(r) : Executed(r, value)
    BY <2>0
  <2> DEFINE v == IF answer' = SimpleAck THEN Expected(r, value) ELSE Unknown
  <2>2. told'[p] = IF p = PlaceOf(r) THEN v ELSE told[p]
    BY <2>1, ToldAfter
  <2>3. CASE p = PlaceOf(r)
    BY <2>1, <2>2, <2>3, WriteShows
  <2>4. CASE p # PlaceOf(r)
    BY <2>1, <2>2, <2>4, WriteShows DEF ToldIsShown
  <2> QED BY <2>3, <2>4
<1>2. CASE SketchSets
  <2>1. PICK r \in Requests : /\ Tell(PlaceOf(r), Unknown)
                              /\ p # PlaceOf(r) => Shown(p)' = Shown(p)
    BY <1>2, SketchShows
  <2>2. told'[p] = IF p = PlaceOf(r) THEN Unknown ELSE told[p]
    BY <2>1, ToldAfter
  <2> QED BY <2>1, <2>2 DEF ToldIsShown
<1>3. CASE Restart
  <2>1. p \in Lasting /\ told'[p] = told[p]
    BY <1>3 DEF Restart
  <2>2. UNCHANGED << name, setting >>
    BY <1>3 DEF Restart
  <2>3. \/ p[1] = OBJECT_DEVICE
        \/ p[1] = OBJECT_ANALOG_VALUE /\ p[2] \in Settings
             /\ p[3] = "PRESENT_VALUE"
    BY <2>1 DEF Lasting
  <2>4. Shown(p)' = Shown(p)
    <3>1. CASE p[1] = OBJECT_DEVICE
      BY <2>2, <3>1, ObjectTypes DEF Shown
    <3>2. CASE p[1] = OBJECT_ANALOG_VALUE /\ p[2] \in Settings
                 /\ p[3] = "PRESENT_VALUE"
      BY <2>2, <3>2, ObjectTypes DEF Shown, PresentValue
    <3> QED BY <2>3, <3>1, <3>2
  <2> QED BY <2>1, <2>4 DEF ToldIsShown
<1>4. CASE OneSecondTask
  <2>1. UNCHANGED << setting, name, units, active, outOfService, told >>
    BY <1>4 DEF OneSecondTask, config
  <2>2. Shown(p)' = Shown(p)
    <3>1. CASE p[1] = OBJECT_ANALOG_VALUE /\ p[3] = "PRESENT_VALUE"
      <4>1. p[2] \in Settings
        BY <3>1, PlaceCases, ObjectTypes
      <4>2. UNCHANGED setting
        BY <2>1
      <4> QED BY <3>1, <4>1, <4>2, SettingShown
    <3>2. CASE ~ (p[1] = OBJECT_ANALOG_VALUE /\ p[3] = "PRESENT_VALUE")
      BY <2>1, <3>2 DEF Shown
    <3> QED BY <3>1, <3>2
  <2> QED BY <2>1, <2>2 DEF ToldIsShown
<1>5. CASE UNCHANGED << objects, told >>
  <2>1. UNCHANGED << setting, name, stored, units, active, outOfService, told >>
    BY <1>5 DEF objects, config
  <2>2. Shown(p)' = Shown(p)
    BY <2>1 DEF Shown, PresentValue
  <2> QED BY <2>1, <2>2 DEF ToldIsShown
<1>6. CASE TimerNotDue \/ ReadProperty \/ RefuseWrite \/ RejectRequest \/ WhoIs
           \/ NothingToHandle \/ SendIAm \/ Tick \/ UNCHANGED vars
  BY <1>5, <1>6 DEF TimerNotDue, ReadProperty, RefuseWrite, RejectRequest, WhoIs,
     NothingToHandle, SendIAm, Tick, vars
<1> QED BY <1>1, <1>2, <1>3, <1>4, <1>6 DEF Next, Update

\* For all requests, whatever else is written, by clients or the sketch, under
\* whatever number, and across restarts: what a client was told is stored is
\* what everybody reads.
THEOREM AcknowledgedIsAlwaysRead == Spec => []AcknowledgedIsRead
<1>1. Init => ToldIsShown
  BY DEF Init, ToldIsShown
<1>2. ToldIsShown => AcknowledgedIsRead
  <2> SUFFICES ASSUME ToldIsShown, NEW p \in Places, told[p] # Unknown
               PROVE  Read(p[1], p[2], p[3], BACNET_ARRAY_ALL)
                        = Reading(<< told[p] >>)
    BY DEF AcknowledgedIsRead
  <2>1. Shown(p) = told[p]
    BY DEF ToldIsShown
  <2> QED BY <2>1, ReadPlace
<1>3. Spec => []ToldIsShown
  BY <1>1, StepTold, ServerTypeCorrect, PTL DEF Spec
<1> QED BY <1>2, <1>3, PTL

-----------------------------------------------------------------------------
(* The object list.                                                        *)
\* The entries of the list: the device, then the rows of the two tables.
Entry(i) == CASE i = 1 -> << OBJECT_DEVICE, objectInstanceNumber >>
              [] i \in 2 .. 13 -> << OBJECT_ANALOG_VALUE, AnalogTable[i - 1] >>
              [] i \in 14 .. 19 -> << OBJECT_BINARY_VALUE, BinaryTable[i - 13] >>

LEMMA LargestInstance ==
  /\ BACNET_MAX_INSTANCE \in Nat /\ BACNET_MAX_INSTANCE + 1 = 4194304
<1>1. BACNET_MAX_INSTANCE \in Nat
  BY SMT DEF BACNET_MAX_INSTANCE
<1>2. BACNET_MAX_INSTANCE + 1 = 4194304
  BY SMT DEF BACNET_MAX_INSTANCE
<1> QED BY <1>1, <1>2

\* An identifier gives back its type and its instance.
LEMMA IdParts ==
  ASSUME NEW t \in Nat, NEW n \in 0 .. BACNET_MAX_INSTANCE
  PROVE  /\ Id(t, n) \in Nat
         /\ Id(t, n) \div 4194304 = t /\ Id(t, n) % 4194304 = n
<1>1. n \in Nat /\ n < 4194304
  <2>1. n \in Nat /\ n < BACNET_MAX_INSTANCE + 1
    BY LargestInstance
  <2> QED BY <2>1, LargestInstance, SMT
<1>2. Id(t, n) = t * 4194304 + n
  BY DEF Id
<1>3. t * 4194304 + n \in Nat
  BY <1>1, SMT
<1>4. (t * 4194304 + n) % 4194304 = n
  BY <1>1, SMT
<1>5. (t * 4194304 + n) \div 4194304 = t
  BY <1>1, SMT
<1> QED BY <1>2, <1>3, <1>4, <1>5

\* No table has a row twice.
LEMMA TableRows ==
  /\ \A k \in 1 .. 12 : AnalogTable[k] \in Analog
  /\ \A k \in 1 .. 6 : BinaryTable[k] \in Binary
  /\ \A j, k \in 1 .. 12 : AnalogTable[j] = AnalogTable[k] => j = k
  /\ \A j, k \in 1 .. 6 : BinaryTable[j] = BinaryTable[k] => j = k
<1>1. DOMAIN AnalogTable = 1 .. 12 /\ DOMAIN BinaryTable = 1 .. 6
  BY DEF AnalogTable, BinaryTable
<1>2. \A j, k \in 1 .. 12 : j < k => AnalogTable[j] < AnalogTable[k]
  BY DEF AnalogTable
<1>3. \A j, k \in 1 .. 6 : j < k => BinaryTable[j] < BinaryTable[k]
  BY DEF BinaryTable
<1>4. /\ \A k \in 1 .. 12 : AnalogTable[k] \in Analog
      /\ \A k \in 1 .. 6 : BinaryTable[k] \in Binary
  BY <1>1 DEF Analog, Binary, Elements
<1>5. Analog \subseteq Nat /\ Binary \subseteq Nat
  BY Tables
<1>6. \A j, k \in 1 .. 12 : AnalogTable[j] = AnalogTable[k] => j = k
  <2> SUFFICES ASSUME NEW j \in 1 .. 12, NEW k \in 1 .. 12,
                      AnalogTable[j] = AnalogTable[k]
               PROVE  j = k
    OBVIOUS
  <2>1. AnalogTable[j] \in Nat /\ AnalogTable[k] \in Nat
    BY <1>4, <1>5
  <2>2. ~ (j < k) /\ ~ (k < j)
    BY <1>2, <2>1
  <2> QED BY <2>2
<1>7. \A j, k \in 1 .. 6 : BinaryTable[j] = BinaryTable[k] => j = k
  <2> SUFFICES ASSUME NEW j \in 1 .. 6, NEW k \in 1 .. 6,
                      BinaryTable[j] = BinaryTable[k]
               PROVE  j = k
    OBVIOUS
  <2>1. BinaryTable[j] \in Nat /\ BinaryTable[k] \in Nat
    BY <1>4, <1>5
  <2>2. ~ (j < k) /\ ~ (k < j)
    BY <1>3, <2>1
  <2> QED BY <2>2
<1> QED BY <1>4, <1>6, <1>7

\* The list holds the identifiers of its entries, all different.
LEMMA ListEntries ==
  ASSUME TypeOK
  PROVE  /\ objectListCount = 19
         /\ \A i \in 1 .. 19 :
              /\ objectListIdentifier(i) = Id(Entry(i)[1], Entry(i)[2])
              /\ Entry(i) \in Nat \X (0 .. BACNET_MAX_INSTANCE)
              /\ \/ Entry(i)[1] = OBJECT_DEVICE
                      /\ Entry(i)[2] = objectInstanceNumber
                 \/ Entry(i)[1] = OBJECT_ANALOG_VALUE /\ Entry(i)[2] \in Analog
                 \/ Entry(i)[1] = OBJECT_BINARY_VALUE /\ Entry(i)[2] \in Binary
         /\ \A i, j \in 1 .. 19 : Entry(i) = Entry(j) => i = j
<1>1. Len(AnalogTable) = 12 /\ Len(BinaryTable) = 6
  BY DEF AnalogTable, BinaryTable
<1>2. objectListCount = 19
  BY <1>1 DEF objectListCount
<1>3. /\ Entry(1) = << OBJECT_DEVICE, objectInstanceNumber >>
      /\ \A i \in 2 .. 13 :
           Entry(i) = << OBJECT_ANALOG_VALUE, AnalogTable[i - 1] >>
      /\ \A i \in 14 .. 19 :
           Entry(i) = << OBJECT_BINARY_VALUE, BinaryTable[i - 13] >>
  BY DEF Entry
<1>4. /\ objectListIdentifier(1) = Id(OBJECT_DEVICE, objectInstanceNumber)
      /\ \A i \in 2 .. 13 : objectListIdentifier(i)
                              = Id(OBJECT_ANALOG_VALUE, AnalogTable[i - 1])
      /\ \A i \in 14 .. 19 : objectListIdentifier(i)
                              = Id(OBJECT_BINARY_VALUE, BinaryTable[i - 13])
  BY <1>1 DEF objectListIdentifier
<1>5. \A i \in 1 .. 19 : i = 1 \/ i \in 2 .. 13 \/ i \in 14 .. 19
  OBVIOUS
<1>6. /\ objectInstanceNumber \in 0 .. BACNET_MAX_INSTANCE
      /\ Analog \subseteq 0 .. BACNET_MAX_INSTANCE
      /\ Binary \subseteq 0 .. BACNET_MAX_INSTANCE
      /\ OBJECT_DEVICE \in Nat /\ OBJECT_ANALOG_VALUE \in Nat
      /\ OBJECT_BINARY_VALUE \in Nat
  <2>1. objectInstanceNumber \in 0 .. BACNET_MAX_INSTANCE
    BY DEF TypeOK, Instances
  <2>2. 99 <= BACNET_MAX_INSTANCE /\ BACNET_MAX_INSTANCE \in Nat
    BY SMT DEF BACNET_MAX_INSTANCE
  <2>3. /\ Analog \subseteq 0 .. BACNET_MAX_INSTANCE
        /\ Binary \subseteq 0 .. BACNET_MAX_INSTANCE
    BY <2>2, Tables
  <2> QED
    BY <2>1, <2>3 DEF OBJECT_DEVICE, OBJECT_ANALOG_VALUE, OBJECT_BINARY_VALUE
<1>7. \A i \in 2 .. 13 : i - 1 \in 1 .. 12
  OBVIOUS
<1>8. \A i \in 14 .. 19 : i - 13 \in 1 .. 6
  OBVIOUS
<1>9. ASSUME NEW i \in 1 .. 19
      PROVE  /\ objectListIdentifier(i) = Id(Entry(i)[1], Entry(i)[2])
             /\ Entry(i) \in Nat \X (0 .. BACNET_MAX_INSTANCE)
             /\ \/ Entry(i)[1] = OBJECT_DEVICE
                     /\ Entry(i)[2] = objectInstanceNumber
                \/ Entry(i)[1] = OBJECT_ANALOG_VALUE /\ Entry(i)[2] \in Analog
                \/ Entry(i)[1] = OBJECT_BINARY_VALUE /\ Entry(i)[2] \in Binary
  <2>1. CASE i = 1
    BY <1>3, <1>4, <1>6, <2>1
  <2>2. CASE i \in 2 .. 13
    <3>1. AnalogTable[i - 1] \in Analog
      BY <1>7, <2>2, TableRows
    <3>2. /\ Entry(i) = << OBJECT_ANALOG_VALUE, AnalogTable[i - 1] >>
          /\ objectListIdentifier(i)
               = Id(OBJECT_ANALOG_VALUE, AnalogTable[i - 1])
      BY <1>3, <1>4, <2>2
    <3> DEFINE v == AnalogTable[i - 1]
    <3>3. /\ Entry(i) = << OBJECT_ANALOG_VALUE, v >>
          /\ objectListIdentifier(i) = Id(OBJECT_ANALOG_VALUE, v)
          /\ v \in Analog /\ v \in 0 .. BACNET_MAX_INSTANCE
      BY <1>6, <3>1, <3>2
    <3> HIDE DEF v
    <3> QED BY <1>6, <3>3
  <2>3. CASE i \in 14 .. 19
    <3>1. BinaryTable[i - 13] \in Binary
      BY <1>8, <2>3, TableRows
    <3>2. /\ Entry(i) = << OBJECT_BINARY_VALUE, BinaryTable[i - 13] >>
          /\ objectListIdentifier(i)
               = Id(OBJECT_BINARY_VALUE, BinaryTable[i - 13])
      BY <1>3, <1>4, <2>3
    <3> DEFINE v == BinaryTable[i - 13]
    <3>3. /\ Entry(i) = << OBJECT_BINARY_VALUE, v >>
          /\ objectListIdentifier(i) = Id(OBJECT_BINARY_VALUE, v)
          /\ v \in Binary /\ v \in 0 .. BACNET_MAX_INSTANCE
      BY <1>6, <3>1, <3>2
    <3> HIDE DEF v
    <3> QED BY <1>6, <3>3
  <2> QED BY <1>5, <2>1, <2>2, <2>3
<1>10. ASSUME NEW i \in 1 .. 19, NEW j \in 1 .. 19, Entry(i) = Entry(j)
       PROVE  i = j
  <2>1. CASE i = 1 \/ j = 1
    BY <1>3, <1>5, <1>10, <2>1, ObjectTypes
  <2>2. CASE i \in 2 .. 13
    <3>1. j \in 2 .. 13
      BY <1>3, <1>5, <1>10, <2>1, <2>2, ObjectTypes
    <3>2. AnalogTable[i - 1] = AnalogTable[j - 1]
      BY <1>3, <1>10, <2>2, <3>1
    <3>3. i - 1 = j - 1
      BY <1>7, <2>2, <3>1, <3>2, TableRows
    <3> QED BY <3>3
  <2>3. CASE i \in 14 .. 19
    <3>1. j \in 14 .. 19
      BY <1>3, <1>5, <1>10, <2>1, <2>3, ObjectTypes
    <3>2. BinaryTable[i - 13] = BinaryTable[j - 13]
      BY <1>3, <1>10, <2>3, <3>1
    <3>3. i - 13 = j - 13
      BY <1>8, <2>3, <3>1, <3>2, TableRows
    <3> QED BY <3>3
  <2> QED BY <1>5, <2>1, <2>2, <2>3
<1> QED BY <1>2, <1>9, <1>10

\* Reading an identifier under the entry it came from.
LEMMA ReadEntry ==
  ASSUME NEW t, NEW n, NEW id, id = Id(t, n),
         \/ t = OBJECT_DEVICE /\ n = objectInstanceNumber
         \/ t = OBJECT_ANALOG_VALUE /\ n \in Analog
         \/ t = OBJECT_BINARY_VALUE /\ n \in Binary
  PROVE  Read(t, n, "OBJECT_IDENTIFIER", BACNET_ARRAY_ALL) = Reading(<< id >>)
<1> DEFINE p == "OBJECT_IDENTIFIER"
<1>1. p \in DeviceReadable /\ p \in AnalogReadable /\ p \in BinaryReadable
      /\ p # "OBJECT_LIST" /\ p \notin Names
  BY DEF DeviceReadable, AnalogReadable, BinaryReadable, Names
<1>2. ASSUME NEW readable, p \in readable, NEW value
      PROVE  FirstRefusal(
               << Test(p \notin readable, Error("UNKNOWN_PROPERTY")),
                  Test(BACNET_ARRAY_ALL # BACNET_ARRAY_ALL,
                       Error("PROPERTY_IS_NOT_AN_ARRAY")) >>, value) = value
  <2> DEFINE tests ==
        << Test(p \notin readable, Error("UNKNOWN_PROPERTY")),
           Test(BACNET_ARRAY_ALL # BACNET_ARRAY_ALL,
                Error("PROPERTY_IS_NOT_AN_ARRAY")) >>
  <2>1. DOMAIN tests = 1 .. 2
    OBVIOUS
  <2>2. ~tests[1].fails
    BY <1>2 DEF Test
  <2>3. ~tests[2].fails
    BY DEF Test
  <2>4. Passed(tests)
    BY <2>1, <2>2, <2>3 DEF Passed
  <2> QED BY <2>4 DEF FirstRefusal
<1>3. CASE t = OBJECT_DEVICE
  <2>1. ReadDevice(p, BACNET_ARRAY_ALL) = Reading(<< DeviceValue(p) >>)
    BY <1>1, <1>2 DEF ReadDevice
  <2>2. DeviceValue(p) = id
    BY <1>1, <1>3, ObjectTypes DEF DeviceValue
  <2> QED BY <1>3, <2>1, <2>2, ObjectTypes DEF Read
<1>4. CASE t = OBJECT_ANALOG_VALUE
  <2>1. ReadAnalog(n, p, BACNET_ARRAY_ALL) = Reading(<< AnalogValue(n, p) >>)
    BY <1>1, <1>2 DEF ReadAnalog
  <2>2. AnalogValue(n, p) = id
    BY <1>4 DEF AnalogValue
  <2> QED BY <1>4, <2>1, <2>2, ObjectTypes DEF Read
<1>5. CASE t = OBJECT_BINARY_VALUE
  <2>1. ReadBinary(n, p) = Reading(<< id >>)
    BY <1>1, <1>5 DEF ReadBinary, BinaryValue
  <2> QED BY <1>5, <2>1, ObjectTypes DEF Read
<1> QED BY <1>3, <1>4, <1>5

\* The rows of the tables are all entries.
LEMMA EveryObjectListed ==
  /\ \A a \in Analog : \E i \in 1 .. 19 : Entry(i) = << OBJECT_ANALOG_VALUE, a >>
  /\ \A b \in Binary : \E i \in 1 .. 19 : Entry(i) = << OBJECT_BINARY_VALUE, b >>
<1>1. DOMAIN AnalogTable = 1 .. 12 /\ DOMAIN BinaryTable = 1 .. 6
  BY DEF AnalogTable, BinaryTable
<1>2. ASSUME NEW a \in Analog
      PROVE  \E i \in 1 .. 19 : Entry(i) = << OBJECT_ANALOG_VALUE, a >>
  <2>1. PICK k \in 1 .. 12 : AnalogTable[k] = a
    BY <1>1 DEF Analog, Elements
  <2>2. k + 1 \in 2 .. 13 /\ k + 1 \in 1 .. 19 /\ (k + 1) - 1 = k
    OBVIOUS
  <2>3. Entry(k + 1) = << OBJECT_ANALOG_VALUE, AnalogTable[(k + 1) - 1] >>
    BY <2>2 DEF Entry
  <2> QED BY <2>1, <2>2, <2>3
<1>3. ASSUME NEW b \in Binary
      PROVE  \E i \in 1 .. 19 : Entry(i) = << OBJECT_BINARY_VALUE, b >>
  <2>1. PICK k \in 1 .. 6 : BinaryTable[k] = b
    BY <1>1 DEF Binary, Elements
  <2>2. k + 13 \in 14 .. 19 /\ k + 13 \in 1 .. 19 /\ (k + 13) - 13 = k
    OBVIOUS
  <2>3. Entry(k + 13) = << OBJECT_BINARY_VALUE, BinaryTable[(k + 13) - 13] >>
    BY <2>2 DEF Entry
  <2> QED BY <2>1, <2>2, <2>3
<1> QED BY <1>2, <1>3

\* The object list is the map of the device in every state: after a write of
\* the instance, too, it names each object once, under the identifier that
\* the object itself reports, and no object is left out.
THEOREM ListIsAlwaysTrue == Spec => []ListIsTrue
<1> SUFFICES TypeOK => ListIsTrue
  BY ServerTypeCorrect, PTL
<1> SUFFICES ASSUME TypeOK PROVE ListIsTrue
  OBVIOUS
<1> DEFINE listed == ReadList(BACNET_ARRAY_ALL).value
<1>1. listed = [i \in 1 .. 19 |-> objectListIdentifier(i)]
  BY ListEntries, SMT DEF ReadList, Reading, BACNET_ARRAY_ALL
<1> HIDE DEF listed
<1>2. /\ DOMAIN listed = 1 .. 19
      /\ \A i \in 1 .. 19 : /\ listed[i] = objectListIdentifier(i)
                            /\ listed[i] = Id(Entry(i)[1], Entry(i)[2])
  BY <1>1, ListEntries
<1>3. Len(listed) = 19
  <2>1. listed \in Seq(Nat)
    <3>1. ASSUME NEW i \in 1 .. 19 PROVE listed[i] \in Nat
      <4>1. Entry(i)[1] \in Nat /\ Entry(i)[2] \in 0 .. BACNET_MAX_INSTANCE
        BY ListEntries
      <4> QED BY <1>2, <4>1, IdParts, SMT
    <3> QED BY <1>1, <1>2, <3>1
  <2> QED BY <1>2, <2>1
<1>4. ASSUME NEW i \in 1 .. 19
      PROVE  /\ listed[i] \div 4194304 = Entry(i)[1]
             /\ listed[i] % 4194304 = Entry(i)[2]
  <2>1. Entry(i)[1] \in Nat /\ Entry(i)[2] \in 0 .. BACNET_MAX_INSTANCE
    BY ListEntries
  <2> QED BY <1>2, <2>1, IdParts, SMT
<1>5. Cardinality(Elements(listed)) = 19
  <2>1. ASSUME NEW i \in 1 .. 19, NEW j \in 1 .. 19, listed[i] = listed[j]
        PROVE  i = j
    <3>1. Entry(i)[1] = Entry(j)[1] /\ Entry(i)[2] = Entry(j)[2]
      BY <1>4, <2>1, SMT
    <3>2. Entry(i) = Entry(j)
      BY <3>1, ListEntries
    <3> QED BY <3>2, ListEntries
  <2>2. listed \in Bijection(1 .. 19, Elements(listed))
    BY <1>1, <1>2, <2>1
       DEF Bijection, Injection, Surjection, IsInjective, Elements
  <2>3. ExistsBijection(1 .. 19, Elements(listed))
    BY <2>2 DEF ExistsBijection
  <2>4. IsFiniteSet(1 .. 19) /\ Cardinality(1 .. 19) = 19
    <3>1. 1 \in Int /\ 19 \in Int /\ 19 - 1 + 1 = 19 /\ ~ (1 > 19)
      OBVIOUS
    <3> QED BY <3>1, FS_Interval
  <2> QED BY <2>3, <2>4, FS_Bijection
<1>6. ReadList(0).value = << Len(listed) >>
  BY <1>3, ListEntries DEF ReadList, Reading
<1>7. ASSUME NEW i \in DOMAIN listed
      PROVE  /\ ReadList(i).value = << listed[i] >>
             /\ Read(listed[i] \div 4194304, listed[i] % 4194304,
                     "OBJECT_IDENTIFIER", BACNET_ARRAY_ALL)
                  = Reading(<< listed[i] >>)
  <2>1. i \in 1 .. 19
    BY <1>2
  <2>2. ReadList(i).value = << listed[i] >>
    BY <1>2, <2>1, ListEntries, SMT DEF ReadList, Reading, BACNET_ARRAY_ALL
  <2>3. Read(Entry(i)[1], Entry(i)[2], "OBJECT_IDENTIFIER", BACNET_ARRAY_ALL)
          = Reading(<< listed[i] >>)
    BY <1>2, <2>1, ListEntries, ReadEntry
  <2> QED BY <1>4, <2>1, <2>2, <2>3, SMT
<1>8. /\ {Id(OBJECT_ANALOG_VALUE, a) : a \in Analog} \subseteq Elements(listed)
      /\ {Id(OBJECT_BINARY_VALUE, b) : b \in Binary} \subseteq Elements(listed)
  BY <1>2, EveryObjectListed DEF Elements
<1> QED BY <1>3, <1>5, <1>6, <1>7, <1>8, SMT DEF ListIsTrue, listed

=============================================================================
