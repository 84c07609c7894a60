---------------------------- MODULE ObjectServer ----------------------------
(***************************************************************************)
(* The application above the datalink: BACnetDevice::update() with its     *)
(* one-second task, apduHandler() and the handlers of ReadProperty,        *)
(* WriteProperty and Who-Is, the objects they serve (Device, BACnetAV,     *)
(* BACnetBV), the sketch that uses the same objects, and restarts.         *)
(*                                                                         *)
(* An object identifier is the number of its encoding.  A value is a tag   *)
(* and an integer: a string stands for its number, a present value for its *)
(* whole part, the only one the callbacks look at.  What a setting does to *)
(* the datalink is in DeviceConfig, how names are stored in DeviceNames.   *)
(***************************************************************************)
EXTENDS Integers, Sequences, FiniteSets, Rs485Baud

CONSTANTS
  Requests,     \* confirmed requests that arrive
  WhoIsRanges,  \* the ranges << low, high >> of Who-Is that arrive
  Storable,     \* the strings that nvdata_name_write takes
  FactoryNames, FactorySettings,  \* after a first boot
  ClockSize,    \* mstimer_now() counts modulo this, 2^32 in the code
  Interval,     \* ticks of the one-second task's timer
  MaxAge,       \* bound: ticks since the restart
  MaxWrites     \* bound: writes executed

OBJECT_ANALOG_VALUE == 2
OBJECT_BINARY_VALUE == 5
OBJECT_DEVICE == 8
BACNET_MAX_INSTANCE == 4194303
BACNET_ARRAY_ALL == -1
Id(type, instance) == type * 4194304 + instance

\* The tables of BACnetAV.cpp and BACnetBV.cpp, in their order.
AnalogTable == << 0, 1, 2, 3, 92, 93, 94, 95, 96, 97, 98, 99 >>
BinaryTable == << 0, 1, 2, 3, 4, 99 >>
Elements(table) == {table[i] : i \in DOMAIN table}
Analog == Elements(AnalogTable)
Binary == Elements(BinaryTable)

\* AVs with a write callback, and those that the program measures.
DeviceId == 92
MstpBaud == 93
MstpMac == 94
MstpManager == 95
Uptime == 99
Settings == DeviceId .. MstpManager
Measured == Analog \ (Settings \cup {Uptime})

\* Properties of the Device object: stored, list, and what is never written.
Names == {"OBJECT_NAME", "DESCRIPTION", "LOCATION"}
Fixed == {"OBJECT_TYPE", "SYSTEM_STATUS", "VENDOR_NAME", "VENDOR_IDENTIFIER",
  "MODEL_NAME", "FIRMWARE_REVISION", "APPLICATION_SOFTWARE_VERSION",
  "PROTOCOL_VERSION", "PROTOCOL_REVISION", "PROTOCOL_SERVICES_SUPPORTED",
  "PROTOCOL_OBJECT_TYPES_SUPPORTED", "MAX_APDU_LENGTH_ACCEPTED",
  "SEGMENTATION_SUPPORTED", "APDU_TIMEOUT", "NUMBER_OF_APDU_RETRIES",
  "DEVICE_ADDRESS_BINDING", "DATABASE_REVISION", "MAX_INFO_FRAMES",
  "MAX_MASTER", "9600"}
DeviceReadable == Names \cup Fixed \cup {"OBJECT_IDENTIFIER", "OBJECT_LIST"}
DeviceReadOnly == {"OBJECT_IDENTIFIER", "OBJECT_LIST", "LOCAL_TIME",
  "UTC_OFFSET", "LOCAL_DATE", "DAYLIGHT_SAVINGS_STATUS",
  "ACTIVE_COV_SUBSCRIPTIONS"} \cup (Fixed \ {"OBJECT_TYPE"})

\* Properties of the Analog Values.
AnalogReadable == {"OBJECT_IDENTIFIER", "OBJECT_NAME", "OBJECT_TYPE",
  "PRESENT_VALUE", "STATUS_FLAGS", "EVENT_STATE", "OUT_OF_SERVICE", "UNITS"}
AnalogReadOnly == (AnalogReadable \ {"PRESENT_VALUE", "UNITS"})
                    \cup {"DESCRIPTION", "PRIORITY_ARRAY"}
BinaryReadable == AnalogReadable \ {"UNITS"}

UnitCodes == 0 .. 65535
UnitsOf == [a \in Analog |-> CASE a \in 0 .. 3 -> 124 [] a = MstpBaud -> 140
                                [] a = 96 -> 27 [] a = Uptime -> 71
                                [] OTHER -> 95]

Value == [tag : {"null", "real", "string"}, v : Int]
           \cup [tag : {"boolean"}, v : 0 .. 1] \cup [tag : {"enumerated"}, v : Nat]
Request == [service : {"READ_PROPERTY", "WRITE_PROPERTY", "OTHER"},
            segmented : BOOLEAN, decodes : BOOLEAN,
            type : Nat, instance : 0 .. BACNET_MAX_INSTANCE, property : STRING,
            index : Int,
            data : {"none", "undecodable", "value"}, value : Value]

EmptyString == 0

ASSUME ServerAssumption ==
  /\ \A r \in Requests : r \in Request
  /\ WhoIsRanges \subseteq Nat \X Nat
  /\ EmptyString \notin Storable
  /\ FactoryNames \in [Names -> Storable]
  /\ FactorySettings \in [Settings -> Nat]
  /\ FactorySettings[DeviceId] <= BACNET_MAX_INSTANCE
  /\ FactorySettings[MstpBaud] <= 255
  /\ FactorySettings[MstpMac] <= 127 /\ FactorySettings[MstpManager] <= 127
  /\ ClockSize \in Nat /\ Interval \in 1 .. ClockSize \div 2
  /\ MaxAge \in Nat /\ MaxWrites \in Nat

VARIABLES
  phase,                \* "loop", or "receive" within update() after the timer
  objectInstanceNumber, \* BACnetDevice
  setting,              \* the cells of AV 92 to 95
  name,                 \* the stored names of the Device object
  stored,               \* BACnetAV: present_value of those without callback
  units,                \* BACnetAV
  active, outOfService, \* BACnetBV: the pins follow active
  Send_I_Am_Flag,
  uptimeSeconds, start, \* BACnetDevice: the one-second task and its timer
  age,                  \* ticks since the restart, from which mstimer_now() wraps
  answer,               \* the answer of this call of update()
  told,       \* history: what a client was last told of a place, Unknown if it
              \* may have changed since without its knowing
  asked,      \* history: a Who-Is that covers the device waits for its I-Am
  announced,  \* history: the instance of the last I-Am
  writes      \* writes executed, a bound

config == << objectInstanceNumber, setting, name >>
objects == << config, stored, units, active, outOfService >>
clocks == << uptimeSeconds, start, age >>
discovery == << Send_I_Am_Flag, asked, announced >>
vars == << phase, objects, clocks, discovery, answer, told, writes >>

\* Places that clients write and expect to find again: the type and instance
\* of the object (the Device object under any number) and the property.
\* Those that are kept in the store come first.
Lasting == ({OBJECT_DEVICE} \X {BACNET_MAX_INSTANCE} \X Names)
  \cup ({OBJECT_ANALOG_VALUE} \X Settings \X {"PRESENT_VALUE"})
Places == Lasting
  \cup ({OBJECT_ANALOG_VALUE} \X Analog \X {"UNITS"})
  \cup ({OBJECT_BINARY_VALUE} \X Binary \X {"PRESENT_VALUE", "OUT_OF_SERVICE"})
Unknown == -2

NoAnswer == [kind |-> "none", code |-> "", value |-> << >>]
Error(code) == [kind |-> "error", code |-> code, value |-> << >>]
Abort(reason) == [kind |-> "abort", code |-> reason, value |-> << >>]
Reject == [kind |-> "reject", code |-> "UNRECOGNIZED_SERVICE", value |-> << >>]
SimpleAck == [kind |-> "ack", code |-> "", value |-> << >>]
Reading(value) == [kind |-> "value", code |-> "", value |-> value]

\* After begin() on a device that was never configured.
Init ==
  /\ phase = "loop"
  /\ setting = FactorySettings
  /\ name = FactoryNames
  /\ objectInstanceNumber = setting[DeviceId]
  /\ stored = [a \in Analog \ Settings |-> 0] /\ units = UnitsOf
  /\ active = [b \in Binary |-> 0] /\ outOfService = [b \in Binary |-> 0]
  /\ Send_I_Am_Flag = TRUE
  /\ uptimeSeconds = 0 /\ start = 0 /\ age = 0
  /\ answer = NoAnswer
  /\ told = [p \in Places |-> Unknown]
  /\ asked = FALSE /\ announced = Unknown
  /\ writes = 0

-----------------------------------------------------------------------------
(* The one-second task.                                                    *)
Clock == age % ClockSize

\* mstimer_expired.
Expired ==
  (Clock - (start + Interval)) % ClockSize < (ClockSize - 1) \div 2

\* Faulty: mstimer_restart.
RestartTimer == Clock

\* mstimer_reset.
ResetTimer == (start + Interval) % ClockSize

\* update() begins; AV 99 is the uptime (its unit does not matter here).
OneSecondTask ==
  /\ phase = "loop" /\ Expired
  /\ start' = ResetTimer
  /\ uptimeSeconds' = uptimeSeconds + 1
  /\ stored' = [stored EXCEPT ![Uptime] = uptimeSeconds']
  /\ phase' = "receive" /\ answer' = NoAnswer
  /\ UNCHANGED << config, units, active, outOfService, age, discovery, told,
                  writes >>

TimerNotDue ==
  /\ phase = "loop" /\ ~Expired
  /\ phase' = "receive" /\ answer' = NoAnswer
  /\ UNCHANGED << objects, clocks, discovery, told, writes >>

\* Time passes; update() is called often enough for the comparison of clocks.
Tick ==
  /\ age < MaxAge
  /\ age + 1 - (uptimeSeconds + 1) * Interval < (ClockSize - 1) \div 2
  /\ age' = age + 1
  /\ UNCHANGED << phase, objects, uptimeSeconds, start, discovery, answer, told,
                  writes >>

-----------------------------------------------------------------------------
(* ReadProperty.                                                           *)
Test(fails, reply) == [fails |-> fails, reply |-> reply]

Passed(tests) == \A i \in DOMAIN tests : ~tests[i].fails

\* Tests are made in order: the first that fails gives the answer.
FirstRefusal(tests, otherwise) ==
  IF Passed(tests) THEN otherwise
  ELSE Head(SelectSeq(tests, LAMBDA t : t.fails)).reply

objectListCount == 1 + Len(AnalogTable) + Len(BinaryTable)

\* Faulty: the AVs are not counted off.
IdentifierAfterDevice(i) ==
  IF i = 1 THEN Id(OBJECT_DEVICE, objectInstanceNumber)
  ELSE IF i - 2 < Len(AnalogTable)
       THEN Id(OBJECT_ANALOG_VALUE, AnalogTable[i - 1])
  ELSE IF i - 2 < Len(BinaryTable)
       THEN Id(OBJECT_BINARY_VALUE, BinaryTable[i - 1])
  ELSE Id(OBJECT_BINARY_VALUE, BACNET_MAX_INSTANCE)

\* Tables in C count from 0, sequences from 1.
objectListIdentifier(i) ==
  LET element == i - 2
      binary == element - Len(AnalogTable)
  IN IF i = 1 THEN Id(OBJECT_DEVICE, objectInstanceNumber)
     ELSE IF element < Len(AnalogTable)
          THEN Id(OBJECT_ANALOG_VALUE, AnalogTable[element + 1])
     ELSE Id(OBJECT_BINARY_VALUE, BinaryTable[binary + 1])

\* bacnet_array_encode; the whole list takes 95 octets and fits.
ReadList(index) ==
  IF index = 0 THEN Reading(<< objectListCount >>)
  ELSE IF index = BACNET_ARRAY_ALL
       THEN Reading([i \in 1 .. objectListCount |-> objectListIdentifier(i)])
  ELSE IF index <= objectListCount
       THEN Reading(<< objectListIdentifier(index) >>)
  ELSE Error("INVALID_ARRAY_INDEX")

DeviceValue(property) ==
  CASE property = "OBJECT_IDENTIFIER" ->
         Id(OBJECT_DEVICE, objectInstanceNumber)
    [] property \in Names -> name[property]
    [] OTHER -> 0

\* BACnetDevice::readProperty.
ReadDevice(property, index) ==
  IF property = "OBJECT_LIST" THEN ReadList(index)
  ELSE FirstRefusal(
    << Test(property \notin DeviceReadable, Error("UNKNOWN_PROPERTY")),
       Test(index # BACNET_ARRAY_ALL, Error("PROPERTY_IS_NOT_AN_ARRAY")) >>,
    Reading(<< DeviceValue(property) >>))

\* The present value of an AV; what the hardware measures counts as 0.
PresentValue(a) ==
  CASE a = MstpBaud -> BaudFromKilo(setting[a])
    [] a \in Settings \ {MstpBaud} -> setting[a]
    [] a = Uptime -> stored[a]
    [] OTHER -> 0

AnalogValue(a, property) ==
  CASE property = "OBJECT_IDENTIFIER" -> Id(OBJECT_ANALOG_VALUE, a)
    [] property = "PRESENT_VALUE" -> PresentValue(a)
    [] property = "UNITS" -> units[a]
    [] OTHER -> 0

\* BACnetAV::readProperty.
ReadAnalog(a, property, index) ==
  FirstRefusal(
    << Test(property \notin AnalogReadable, Error("UNKNOWN_PROPERTY")),
       Test(index # BACNET_ARRAY_ALL, Error("PROPERTY_IS_NOT_AN_ARRAY")) >>,
    Reading(<< AnalogValue(a, property) >>))

BinaryValue(b, property) ==
  CASE property = "OBJECT_IDENTIFIER" -> Id(OBJECT_BINARY_VALUE, b)
    [] property = "PRESENT_VALUE" -> active[b]
    [] property \in {"OUT_OF_SERVICE", "STATUS_FLAGS"} -> outOfService[b]
    [] OTHER -> 0

\* BACnetBV::readProperty does not look at the array index.
ReadBinary(b, property) ==
  IF property \in BinaryReadable THEN Reading(<< BinaryValue(b, property) >>)
                                 ELSE Error("UNKNOWN_PROPERTY")

\* encodePropertyAPDU; the highest instance stands for this device.
Read(type, instance, property, index) ==
  IF type = OBJECT_DEVICE
       /\ instance \in {objectInstanceNumber, BACNET_MAX_INSTANCE}
    THEN ReadDevice(property, index)
  ELSE IF type = OBJECT_ANALOG_VALUE /\ instance \in Analog
    THEN ReadAnalog(instance, property, index)
  ELSE IF type = OBJECT_BINARY_VALUE /\ instance \in Binary
    THEN ReadBinary(instance, property)
  ELSE Error("UNKNOWN_OBJECT")

\* The datalink refuses an answer while another one waits for its frame.
Reply(reply) == answer' \in {reply, NoAnswer}

\* handlerReadProperty.
ReadProperty ==
  /\ phase = "receive"
  /\ \E r \in Requests :
       /\ r.service = "READ_PROPERTY"
       /\ Reply(FirstRefusal(
            << Test(r.segmented, Abort("SEGMENTATION_NOT_SUPPORTED")),
               Test(~r.decodes, Abort("OTHER")) >>,
            Read(r.type, r.instance, r.property, r.index)))
  /\ phase' = "loop"
  /\ UNCHANGED << objects, clocks, discovery, told, writes >>

-----------------------------------------------------------------------------
(* WriteProperty.                                                          *)
\* BACnetDevice::writeProperty, nvdata_name_write included (one code stands for
\* its three errors).
DeviceTests(r, value) ==
  << Test(r.instance # objectInstanceNumber, Error("UNKNOWN_OBJECT")),
     Test(r.data = "undecodable", Error("VALUE_OUT_OF_RANGE")),
     Test(r.property # "OBJECT_LIST" /\ r.index # BACNET_ARRAY_ALL,
          Error("PROPERTY_IS_NOT_AN_ARRAY")),
     Test(r.property \in DeviceReadOnly, Error("WRITE_ACCESS_DENIED")),
     Test(r.property \notin Names, Error("UNKNOWN_PROPERTY")),
     Test(value.tag # "string", Error("INVALID_DATA_TYPE")),
     Test(value.v = EmptyString, Error("VALUE_OUT_OF_RANGE")),
     Test(value.v \notin Storable, Error("NO_SPACE_TO_WRITE_PROPERTY")) >>

\* The range of each write callback.
Instances == 0 .. BACNET_MAX_INSTANCE
Rates == 9600 .. 1152000
Addresses == 0 .. 127
Taken == [s \in Settings |-> IF s = DeviceId THEN Instances
                            ELSE IF s = MstpBaud THEN Rates ELSE Addresses]

\* Faulty: the callback does not look at the number.
TakesAny(a, v) == TRUE

\* AVs without a callback take any number.
Takes(a, v) == a \in Settings => v \in Taken[a]

\* BACnetAV::writeProperty.
AnalogTests(r, value) ==
  << Test(r.instance \notin Analog, Error("UNKNOWN_OBJECT")),
     Test(r.data = "undecodable", Error("VALUE_OUT_OF_RANGE")),
     Test(r.property # "PRIORITY_ARRAY" /\ r.index # BACNET_ARRAY_ALL,
          Error("PROPERTY_IS_NOT_AN_ARRAY")),
     Test(r.property \in AnalogReadOnly, Error("WRITE_ACCESS_DENIED")),
     Test(r.property \notin {"PRESENT_VALUE", "UNITS"},
          Error("UNKNOWN_PROPERTY")),
     Test(r.property = "PRESENT_VALUE" /\ value.tag # "real",
          Error("INVALID_DATA_TYPE")),
     Test(r.property = "UNITS" /\ value.tag # "enumerated",
          Error("INVALID_DATA_TYPE")),
     Test(r.property = "UNITS" /\ value.v \notin UnitCodes,
          Error("VALUE_OUT_OF_RANGE")),
     Test(r.property = "PRESENT_VALUE" /\ ~Takes(r.instance, value.v),
          Error("VALUE_OUT_OF_RANGE")) >>

\* BACnetBV::writeProperty; every BV is an output.
BinaryTests(r, value) ==
  << Test(r.instance \notin Binary, Error("UNKNOWN_OBJECT")),
     Test(r.index # BACNET_ARRAY_ALL, Error("PROPERTY_IS_NOT_AN_ARRAY")),
     Test(r.data = "undecodable", Error("VALUE_OUT_OF_RANGE")),
     Test(r.property \notin {"PRESENT_VALUE", "OUT_OF_SERVICE"},
          Error("WRITE_ACCESS_DENIED")),
     Test(r.property = "OUT_OF_SERVICE" /\ value.tag # "boolean",
          Error("INVALID_DATA_TYPE")),
     Test(r.property = "PRESENT_VALUE"
            /\ (value.tag # "enumerated" \/ value.v \notin 0 .. 1),
          Error("VALUE_OUT_OF_RANGE")) >>

AbortTests(r) ==
  << Test(~r.decodes, Abort("OTHER")),
     Test(r.segmented, Abort("SEGMENTATION_NOT_SUPPORTED")) >>

ObjectTests(r, value) ==
  CASE r.type = OBJECT_DEVICE -> DeviceTests(r, value)
    [] r.type = OBJECT_ANALOG_VALUE -> AnalogTests(r, value)
    [] r.type = OBJECT_BINARY_VALUE -> BinaryTests(r, value)
    [] OTHER -> << Test(TRUE, Error("UNKNOWN_OBJECT")) >>

Accepted(r, value) == Passed(AbortTests(r)) /\ Passed(ObjectTests(r, value))
Refusal(r, value) ==
  FirstRefusal(AbortTests(r) \o ObjectTests(r, value), NoAnswer)

\* What a request without data is taken for: the decoder succeeds and leaves
\* the value alone, zero for Device and AVs; for BVs it was never initialised.
Leftover ==
  { [tag |-> "null", v |-> 0],
    [tag |-> "boolean", v |-> 0], [tag |-> "boolean", v |-> 1],
    [tag |-> "enumerated", v |-> 0], [tag |-> "enumerated", v |-> 1] }
Decoded(r) ==
  IF r.data # "none" THEN {r.value}
  ELSE IF r.type = OBJECT_BINARY_VALUE THEN Leftover
  ELSE {[tag |-> "null", v |-> 0]}

\* Faulty: the rate is not narrowed to kilobauds.
CellUnscaled(a, v) == v % 256

\* The cell holds kilobauds in an octet.
Cell(a, v) == IF a = MstpBaud THEN (v \div 1000) % 256 ELSE v

\* BACnetAV::presentValueSet and the write callbacks.
SetAnalog(a, v) ==
  /\ setting' = [s \in Settings |-> IF s = a THEN Cell(a, v) ELSE setting[s]]
  /\ stored' = [s \in DOMAIN stored |-> IF s = a THEN v ELSE stored[s]]
  /\ objectInstanceNumber' = IF a = DeviceId THEN v ELSE objectInstanceNumber

\* BACnetBV::presentValueSet.
SetBinary(b, v) == active' = [active EXCEPT ![b] = v]

WriteName(r, value) ==
  /\ r.type = OBJECT_DEVICE
  /\ name' = [name EXCEPT ![r.property] = value.v]
  /\ UNCHANGED << objectInstanceNumber, setting, stored, units, active,
                  outOfService >>

WriteAnalog(r, value) ==
  /\ r.type = OBJECT_ANALOG_VALUE
  /\ \/ /\ r.property = "PRESENT_VALUE"
        /\ SetAnalog(r.instance, value.v)
        /\ UNCHANGED units
     \/ /\ r.property = "UNITS"
        /\ units' = [units EXCEPT ![r.instance] = value.v]
        /\ UNCHANGED << objectInstanceNumber, setting, stored >>
  /\ UNCHANGED << name, active, outOfService >>

WriteBinary(r, value) ==
  /\ r.type = OBJECT_BINARY_VALUE
  /\ \/ /\ r.property = "PRESENT_VALUE"
        /\ SetBinary(r.instance, value.v)
        /\ UNCHANGED outOfService
     \/ /\ r.property = "OUT_OF_SERVICE"
        /\ outOfService' = [outOfService EXCEPT ![r.instance] = value.v]
        /\ UNCHANGED active
  /\ UNCHANGED << config, stored, units >>

\* The place of a request, and what its writer expects to read there: rates
\* that the port does not know are rounded, data that is missing is anything.
PlaceOf(r) ==
  << r.type, IF r.type = OBJECT_DEVICE THEN BACNET_MAX_INSTANCE ELSE r.instance,
     r.property >>
Expected(r, value) ==
  IF \/ r.data = "none"
     \/ /\ PlaceOf(r) = << OBJECT_ANALOG_VALUE, MstpBaud, "PRESENT_VALUE" >>
        /\ value.v \notin BaudRates
  THEN Unknown ELSE value.v
Tell(place, v) ==
  told' = [p \in Places |-> IF p = place THEN v ELSE told[p]]

\* handlerWriteProperty: executed, whether or not the answer can be sent.
WriteProperty ==
  /\ phase = "receive" /\ writes < MaxWrites
  /\ \E r \in Requests :
       /\ r.service = "WRITE_PROPERTY"
       /\ \E value \in Decoded(r) :
            /\ Accepted(r, value)
            /\ WriteName(r, value) \/ WriteAnalog(r, value)
                 \/ WriteBinary(r, value)
            /\ Reply(SimpleAck)
            /\ Tell(PlaceOf(r), IF answer' = SimpleAck THEN Expected(r, value)
                                                      ELSE Unknown)
  /\ writes' = writes + 1
  /\ phase' = "loop"
  /\ UNCHANGED << clocks, discovery >>

RefuseWrite ==
  /\ phase = "receive"
  /\ \E r \in Requests :
       /\ r.service = "WRITE_PROPERTY"
       /\ \E value \in Decoded(r) :
            /\ ~Accepted(r, value)
            /\ Reply(Refusal(r, value))
  /\ phase' = "loop"
  /\ UNCHANGED << objects, clocks, discovery, told, writes >>

-----------------------------------------------------------------------------
(* The rest of apduHandler, discovery, the sketch and restarts.            *)
\* handler_unrecognized_service.
RejectRequest ==
  /\ phase = "receive"
  /\ \E r \in Requests : r.service = "OTHER"
  /\ Reply(Reject)
  /\ phase' = "loop"
  /\ UNCHANGED << objects, clocks, discovery, told, writes >>

\* No frame, or a PDU that is neither a request nor a Who-Is that decodes.
NothingToHandle ==
  /\ phase = "receive"
  /\ phase' = "loop"
  /\ UNCHANGED << objects, clocks, discovery, answer, told, writes >>

\* A Who-Is without a range asks everybody.
Everybody == << 0, BACNET_MAX_INSTANCE >>
Asks(range) == objectInstanceNumber \in range[1] .. range[2]

\* Faulty: the upper limit does not count.
MatchesBelow(range) ==
  \/ range = Everybody
  \/ range[1] <= objectInstanceNumber /\ objectInstanceNumber < range[2]

Matches(range) ==
  \/ range = Everybody
  \/ range[1] <= objectInstanceNumber /\ objectInstanceNumber <= range[2]

\* handlerWhoIs.
WhoIs ==
  /\ phase = "receive"
  /\ \E range \in WhoIsRanges \cup {Everybody} :
       /\ Send_I_Am_Flag' = (Send_I_Am_Flag \/ Matches(range))
       /\ asked' = (asked \/ Asks(range))
  /\ phase' = "loop"
  /\ UNCHANGED << objects, clocks, announced, answer, told, writes >>

\* The node holds the token: dlmstp_encode_unconfirmed_frame.
SendIAm ==
  /\ phase = "receive" /\ Send_I_Am_Flag
  /\ Send_I_Am_Flag' = FALSE
  /\ announced' = objectInstanceNumber
  /\ asked' = FALSE
  /\ UNCHANGED << phase, objects, clocks, answer, told, writes >>

\* device.AV(n).set(v) and device.BV(n).set(v), between calls of update().
SketchSets ==
  /\ phase = "loop" /\ writes < MaxWrites
  /\ \E r \in Requests :
       /\ r.property = "PRESENT_VALUE" /\ r.data = "value"
       /\ \/ /\ r.type = OBJECT_ANALOG_VALUE /\ r.instance \in Analog
             /\ Takes(r.instance, r.value.v)
             /\ SetAnalog(r.instance, r.value.v)
             /\ UNCHANGED active
          \/ /\ r.type = OBJECT_BINARY_VALUE /\ r.instance \in Binary
             /\ r.value.v \in 0 .. 1
             /\ SetBinary(r.instance, r.value.v)
             /\ UNCHANGED << objectInstanceNumber, setting, stored >>
       /\ Tell(PlaceOf(r), Unknown)
  /\ writes' = writes + 1
  /\ UNCHANGED << phase, name, units, outOfService, clocks, discovery, answer >>

\* A reset or a loss of power between two calls, and begin():
\* deviceNvdataInit reads the instance and asks for an I-Am.
Restart ==
  /\ phase = "loop"
  /\ objectInstanceNumber' = setting[DeviceId]
  /\ stored' = [a \in DOMAIN stored |-> 0] /\ units' = UnitsOf
  /\ active' = [b \in Binary |-> 0] /\ outOfService' = [b \in Binary |-> 0]
  /\ Send_I_Am_Flag' = TRUE
  /\ uptimeSeconds' = 0 /\ start' = 0 /\ age' = 0
  /\ answer' = NoAnswer
  /\ told' = [p \in Places |-> IF p \in Lasting THEN told[p] ELSE Unknown]
  /\ UNCHANGED << phase, setting, name, asked, announced, writes >>

Update == \/ OneSecondTask \/ TimerNotDue
          \/ ReadProperty \/ WriteProperty \/ RefuseWrite \/ RejectRequest
          \/ WhoIs \/ NothingToHandle
Next == Update \/ SendIAm \/ Tick \/ SketchSets \/ Restart

\* loop() calls update() again and again, and the token keeps coming round.
Spec == Init /\ [][Next]_vars
FairSpec == Spec /\ WF_vars(Update) /\ SF_vars(SendIAm)

-----------------------------------------------------------------------------
\* Every variable has its type.
TypeOK ==
  /\ phase \in {"loop", "receive"}
  /\ objectInstanceNumber \in Instances
  /\ setting \in [Settings -> Nat] /\ name \in [Names -> Storable]
  /\ \A s \in Settings \ {MstpBaud} : setting[s] \in Taken[s]
  /\ setting[MstpBaud] \in 0 .. 255
  /\ stored \in [Analog \ Settings -> Int] /\ units \in [Analog -> UnitCodes]
  /\ active \in [Binary -> 0 .. 1] /\ outOfService \in [Binary -> 0 .. 1]
  /\ Send_I_Am_Flag \in BOOLEAN /\ asked \in BOOLEAN
  /\ uptimeSeconds \in Nat /\ start \in 0 .. ClockSize - 1
  /\ age \in 0 .. MaxAge
  /\ told \in [Places -> Int] /\ announced \in Int /\ writes \in 0 .. MaxWrites

\* A value that a client was told is stored is what everybody reads, until
\* somebody writes it again, whatever else is written, under whatever instance
\* the device is asked, and across restarts for what is kept in the store.
AcknowledgedIsRead ==
  \A p \in Places : told[p] # Unknown =>
    Read(p[1], p[2], p[3], BACNET_ARRAY_ALL) = Reading(<< told[p] >>)

\* The object list is the map of the device: it names each object once, each
\* under the identifier it answers to, and none that it names is unknown.
ListIsTrue ==
  LET listed == ReadList(BACNET_ARRAY_ALL).value
  IN /\ Cardinality(Elements(listed)) = Len(listed)
     /\ ReadList(0).value = << Len(listed) >>
     /\ \A i \in DOMAIN listed :
          /\ ReadList(i).value = << listed[i] >>
          /\ Read(listed[i] \div 4194304, listed[i] % 4194304,
                  "OBJECT_IDENTIFIER", BACNET_ARRAY_ALL)
               = Reading(<< listed[i] >>)
     /\ {Id(OBJECT_ANALOG_VALUE, a) : a \in Analog}
          \cup {Id(OBJECT_BINARY_VALUE, b) : b \in Binary}
          \subseteq Elements(listed)

\* However late update() was called, and across the wrap of the clock, no second
\* is lost for good and none is gained: the uptime comes to agree with the clock.
UptimeFollows == []<>(age - uptimeSeconds * Interval \in 0 .. Interval - 1)

\* A Who-Is that covers the device is answered, even when the device is
\* renumbered or restarted before the token comes.
WhoIsAnswered == asked ~> ~asked

=============================================================================
