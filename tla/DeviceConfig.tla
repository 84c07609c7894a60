---------------------------- MODULE DeviceConfig ----------------------------
(***************************************************************************)
(* The configuration of a device: BACnetDevice::deviceNvdataInit() reads   *)
(* it at boot and hands it to the datalink, the RS-485 port and the Device *)
(* object; the Analog Values 92 to 95 write it while the device runs; the  *)
(* power may fail at any time.                                             *)
(*                                                                         *)
(* phase: "boot"     from reset to the test of the type tag                *)
(*        "default"  the defaults are being stored                         *)
(*        "apply"    the tag was found                                     *)
(*        "running"  begin() has returned                                  *)
(*        "writing"  within BACnetAV::presentValueSet                      *)
(***************************************************************************)
EXTENDS NvStorage, Rs485Baud

CONSTANT Requests  \* present values that stations or the sketch may write

\* nvdata.h
NV_EEPROM_TYPE_0 == 0
NV_EEPROM_VERSION == 2
NV_EEPROM_MSTP_MAC == 10
NV_EEPROM_MSTP_BAUD_K == 11
NV_EEPROM_MSTP_MAX_MASTER == 12
NV_EEPROM_DEVICE_0 == 13
NV_EEPROM_TYPE_ID == 47808      \* 0xBAC0
BACNET_MAX_INSTANCE == 4194303  \* 0x3FFFFF
MaxBaud == 1152000
ConfigCells == 0 .. 15

\* The writable Analog Values.
DeviceId == 92
MstpBaud == 93
MstpMac == 94
MstpManager == 95
Settings == DeviceId .. MstpManager

ASSUME ConfigAssumption ==
  /\ ConfigCells \subseteq Cells
  /\ Requests \subseteq [object : Settings, value : Int]

VARIABLES
  phase, request,
  This_Station, Nmax_master, Nmax_info_frames,   \* dlmstp.c
  baud,                                          \* BACnetRS485::_baud
  objectInstanceNumber,                          \* BACnetDevice
  mayBe   \* history: the values each setting may have after a restart, none
          \* while that is not known
live == << This_Station, Nmax_master, Nmax_info_frames, baud,
           objectInstanceNumber >>
vars == << storage, phase, request, live, mayBe >>

FactoryStation == 10
FactoryInstance == 260001
FactoryBaud == 38400
Factory == [s \in Settings |-> CASE s = DeviceId -> {FactoryInstance}
                                 [] s = MstpBaud -> {FactoryBaud}
                                 [] s = MstpMac -> {FactoryStation}
                                 [] s = MstpManager -> {127}]

Unknown == [s \in Settings |-> {}]

\* Static variables before begin().
Init ==
  /\ StorageInit
  /\ phase = "boot" /\ request = [object |-> DeviceId, value |-> 0]
  /\ This_Station = 0 /\ Nmax_master = 0 /\ Nmax_info_frames = 0
  /\ baud = 9600 /\ objectInstanceNumber = FactoryInstance
  /\ mayBe = Unknown

-----------------------------------------------------------------------------
(* deviceNvdataInit: the type tag goes first, then what it vouches for.    *)
Defaults ==
  << Write(NV_EEPROM_TYPE_0, Encode16(NV_EEPROM_TYPE_ID)),
     Write(NV_EEPROM_VERSION, Encode8(1)),
     Write(NV_EEPROM_MSTP_MAC, Encode8(FactoryStation)),
     Write(NV_EEPROM_MSTP_BAUD_K, Encode8(38)),
     Write(NV_EEPROM_MSTP_MAX_MASTER, Encode8(127)),
     Write(NV_EEPROM_DEVICE_0, Encode24(FactoryInstance)) >>

ReadTypeTag ==
  /\ phase = "boot"
  /\ \/ /\ Unsigned16(NV_EEPROM_TYPE_0) = NV_EEPROM_TYPE_ID
        /\ phase' = "apply" /\ todo' = << >>
     \/ /\ Unsigned16(NV_EEPROM_TYPE_0) # NV_EEPROM_TYPE_ID
        /\ phase' = "default" /\ todo' = Defaults
  /\ UNCHANGED << backend, eeprom, losses, request, live, mayBe >>

\* Faulty: the address is not looked at.
SetMaxMasterUnchecked(station, current, max) ==
  IF max <= 127 THEN max ELSE current

\* dlmstp_set_max_master at a node with this address and this Max_Master.
SetMaxMaster(station, current, max) ==
  IF max <= 127 /\ station <= max THEN max ELSE current

\* Faulty: any octet is an address.
SetAnyAddress(current, mac) == mac

\* dlmstp_set_mac_address: the address, and Max_Master after it.
SetMacAddress(current, mac) == IF mac <= 127 THEN mac ELSE current
RaiseMaxMaster(current, mac) ==
  IF mac <= 127 /\ mac > current THEN SetMaxMaster(mac, current, mac)
                                 ELSE current

\* The rest of deviceNvdataInit, in its order; the instance is not tested.
ApplySettings ==
  /\ phase \in {"default", "apply"} /\ todo = << >>
  /\ phase' = "running"
  /\ mayBe' = IF phase = "default" THEN Factory ELSE mayBe
  /\ LET mac == Unsigned8(NV_EEPROM_MSTP_MAC)
         station == SetMacAddress(This_Station, mac)
         max == RaiseMaxMaster(Nmax_master, mac)
     IN /\ This_Station' = station
        /\ Nmax_master' = SetMaxMaster(station, max,
                                       Unsigned8(NV_EEPROM_MSTP_MAX_MASTER))
  /\ baud' = BaudFromKilo(Unsigned8(NV_EEPROM_MSTP_BAUD_K))
  /\ Nmax_info_frames' = 1
  /\ objectInstanceNumber' = Unsigned24(NV_EEPROM_DEVICE_0)
  /\ UNCHANGED << storage, request >>

-----------------------------------------------------------------------------
(* The write callbacks of AV 92 to 95, in BACnetAV.cpp.                    *)
Accepted(r) ==
  \/ /\ r.object = DeviceId
     /\ r.value >= 0 /\ r.value <= BACNET_MAX_INSTANCE
  \/ /\ r.object = MstpBaud
     /\ r.value >= 9600 /\ r.value <= MaxBaud
  \/ /\ r.object \in {MstpMac, MstpManager}
     /\ r.value \in 0 .. 127

Stored(r) ==
  CASE r.object = DeviceId -> Write(NV_EEPROM_DEVICE_0, Encode24(r.value))
    [] r.object = MstpBaud ->
         Write(NV_EEPROM_MSTP_BAUD_K, Encode8(r.value \div 1000))
    [] r.object = MstpMac -> Write(NV_EEPROM_MSTP_MAC, Encode8(r.value))
    [] r.object = MstpManager ->
         Write(NV_EEPROM_MSTP_MAX_MASTER, Encode8(r.value))

\* A value out of range is refused and changes nothing.
WritePresentValue ==
  /\ phase = "running"
  /\ \E r \in Requests :
       /\ Accepted(r)
       /\ request' = r
       /\ todo' = << Stored(r) >>
       /\ mayBe' = [mayBe EXCEPT ![r.object] =
                      IF @ = {} THEN {} ELSE @ \cup {r.value}]
  /\ phase' = "writing"
  /\ UNCHANGED << backend, eeprom, losses, live >>

\* Faulty: the instance changes with the next boot only.
NewInstanceAtBoot(r) == objectInstanceNumber

\* Device_Set_Object_Instance_Number, of the callbacks deviceIdWrite only.
NewInstance(r) ==
  IF r.object = DeviceId /\ r.value <= BACNET_MAX_INSTANCE
  THEN r.value ELSE objectInstanceNumber

WriteDone ==
  /\ phase = "writing" /\ todo = << >>
  /\ phase' = "running"
  /\ objectInstanceNumber' = NewInstance(request)
  /\ mayBe' = [mayBe EXCEPT ![request.object] = {request.value}]
  /\ UNCHANGED << storage, request, This_Station, Nmax_master,
                  Nmax_info_frames, baud >>

StoreCells == StoreNext /\ UNCHANGED << phase, request, live, mayBe >>

PowerLoss ==
  /\ LosePower
  /\ phase' = "boot"
  /\ This_Station' = 0 /\ Nmax_master' = 0 /\ Nmax_info_frames' = 0
  /\ baud' = 9600 /\ objectInstanceNumber' = FactoryInstance
  /\ mayBe' = IF Keeps THEN mayBe ELSE Unknown
  /\ UNCHANGED request

Next == \/ ReadTypeTag \/ StoreCells \/ ApplySettings
        \/ WritePresentValue \/ WriteDone
        \/ PowerLoss

Spec == Init /\ [][Next]_vars

-----------------------------------------------------------------------------
\* Every variable has its type.
TypeOK ==
  /\ StorageTypeOK
  /\ phase \in {"boot", "default", "apply", "running", "writing"}
  /\ request \in [object : Settings, value : Int]
  /\ This_Station \in 0 .. 127 /\ Nmax_master \in 0 .. 127
  /\ Nmax_info_frames \in 0 .. 1
  /\ baud \in BaudRates
  /\ objectInstanceNumber \in Long
  /\ mayBe \in [Settings -> SUBSET Int]

\* Whatever the cells hold, erased, half written or contradictory, the node
\* that comes up has an address within its Max_Master and may send a frame for
\* a token: what MstpMaster assumes of its constants.
OnRing ==
  /\ This_Station <= Nmax_master
  /\ phase \in {"running", "writing"} => Nmax_info_frames >= 1

\* AV 92 reads the cells, the Device object a variable: a station that asks
\* both gets the same number, after any writes and restarts.
InstanceIsLive ==
  phase = "running" => objectInstanceNumber = Unsigned24(NV_EEPROM_DEVICE_0)

\* A device that boots takes, for each setting kept in one cell, the value
\* that was acknowledged last or one whose write was cut short since; its
\* Max_Master is raised to its address.
Larger(v, w) == IF v > w THEN v ELSE w
Known(s) == mayBe'[s] # {}
CellsAsConfigured ==
  [][ phase' = "running" /\ phase \in {"default", "apply"} =>
      /\ Known(MstpMac) => This_Station' \in mayBe'[MstpMac]
      /\ Known(MstpManager) =>
           \E max \in mayBe'[MstpManager] :
             Nmax_master' = Larger(max, This_Station')
      /\ Known(MstpBaud) => baud' \in mayBe'[MstpBaud] ]_vars

\* An octet of kilobauds gives back only the rates that the port knows.
RatesAreStandard ==
  \A r \in Requests :
    r.object = MstpBaud /\ Accepted(r) => r.value \in BaudRates

\* The device runs under the instance it was given last, or one whose write was
\* cut short since; under a mixture of two only on the AVR, which stores octet
\* by octet, and only until the next write.
InstanceAsConfigured ==
  phase = "running" =>
    \/ objectInstanceNumber \in mayBe[DeviceId]
    \/ mayBe[DeviceId] = {}
    \/ backend = "AVR" /\ \E v, w \in mayBe[DeviceId] : v # w

\* A device that nobody configured has what README.md says: "On first boot,
\* factory defaults are written to EEPROM: MAC = 10, baud = 38400, device
\* instance = 260001."
FactoryDefaults ==
  phase = "running" /\ (\A s \in Settings : mayBe[s] \subseteq Factory[s]) =>
    /\ This_Station = FactoryStation
    /\ baud = FactoryBaud
    /\ objectInstanceNumber = FactoryInstance

=============================================================================
