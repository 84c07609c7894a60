--------------------------- MODULE MCObjectServer ---------------------------
(* A device with its factory settings, and what clients ask of it.         *)
EXTENDS ObjectServer

SomeNames ==
  [p \in Names |-> CASE p = "OBJECT_NAME" -> 1 [] p = "DESCRIPTION" -> 2
                     [] p = "LOCATION" -> 3]
SomeSettings ==
  [s \in Settings |-> CASE s = DeviceId -> 260001 [] s = MstpBaud -> 38
                        [] s = MstpMac -> 10 [] s = MstpManager -> 127]

Null == [tag |-> "null", v |-> 0]
Get(type, instance, property, index) ==
  [service |-> "READ_PROPERTY", segmented |-> FALSE, decodes |-> TRUE,
   type |-> type, instance |-> instance, property |-> property, index |-> index,
   data |-> "none", value |-> Null]
Put(type, instance, property, tag, v) ==
  [service |-> "WRITE_PROPERTY", segmented |-> FALSE, decodes |-> TRUE,
   type |-> type, instance |-> instance, property |-> property,
   index |-> BACNET_ARRAY_ALL,
   data |-> "value", value |-> [tag |-> tag, v |-> v]]

\* Objects that exist and that do not, indices within an array, beyond it and
\* of what is no array.
Reads ==
  { Get(OBJECT_DEVICE, BACNET_MAX_INSTANCE, "OBJECT_LIST", i) :
      i \in {BACNET_ARRAY_ALL, 0, 19, 20} }
  \cup { Get(OBJECT_DEVICE, i, "OBJECT_NAME", BACNET_ARRAY_ALL) :
           i \in {100, 260001} }
  \cup { Get(OBJECT_ANALOG_VALUE, i, "PRESENT_VALUE", BACNET_ARRAY_ALL) :
           i \in {5, 92} }
  \cup { Get(OBJECT_ANALOG_VALUE, 99, "UNITS", 1),
         Get(OBJECT_BINARY_VALUE, 99, "PRESENT_VALUE", 1),
         Get(3, 0, "PRESENT_VALUE", BACNET_ARRAY_ALL) }

RenumberTo100 ==
  Put(OBJECT_ANALOG_VALUE, DeviceId, "PRESENT_VALUE", "real", 100)
Switch(v) == Put(OBJECT_BINARY_VALUE, 99, "PRESENT_VALUE", "enumerated", v)

\* Each place, each kind of value, the limits, and the same names under the old
\* and the new instance of the device.
GoodWrites ==
  { Put(OBJECT_DEVICE, i, "OBJECT_NAME", "string", 2) : i \in {100, 260001} }
  \cup { RenumberTo100,
         Put(OBJECT_ANALOG_VALUE, MstpBaud, "PRESENT_VALUE", "real", 57600),
         Put(OBJECT_ANALOG_VALUE, MstpBaud, "PRESENT_VALUE", "real", 30000),
         Put(OBJECT_ANALOG_VALUE, MstpMac, "PRESENT_VALUE", "real", 127),
         Put(OBJECT_ANALOG_VALUE, 0, "UNITS", "enumerated", 65535),
         Put(OBJECT_ANALOG_VALUE, 0, "PRESENT_VALUE", "real", 1),
         Put(OBJECT_ANALOG_VALUE, Uptime, "PRESENT_VALUE", "real", 77),
         Put(OBJECT_BINARY_VALUE, 0, "OUT_OF_SERVICE", "boolean", 1),
         Switch(0), Switch(1) }

BadWrites ==
  { [RenumberTo100 EXCEPT !.value.v = 4194304],
    [RenumberTo100 EXCEPT !.value.tag = "enumerated"],
    [RenumberTo100 EXCEPT !.data = "undecodable"],
    [RenumberTo100 EXCEPT !.data = "none"],
    [RenumberTo100 EXCEPT !.index = 1],
    [RenumberTo100 EXCEPT !.segmented = TRUE],
    [RenumberTo100 EXCEPT !.decodes = FALSE],
    [RenumberTo100 EXCEPT !.instance = 91],
    [RenumberTo100 EXCEPT !.type = 3],
    Put(OBJECT_ANALOG_VALUE, MstpBaud, "PRESENT_VALUE", "real", 9599),
    Put(OBJECT_ANALOG_VALUE, MstpMac, "PRESENT_VALUE", "real", 128),
    Put(OBJECT_ANALOG_VALUE, 0, "UNITS", "enumerated", 65536),
    Put(OBJECT_DEVICE, 260001, "OBJECT_NAME", "string", EmptyString),
    Put(OBJECT_DEVICE, 260001, "OBJECT_TYPE", "enumerated", 8),
    [Switch(1) EXCEPT !.data = "none"],
    Switch(2) }

ClientRequests ==
  Reads \cup GoodWrites \cup BadWrites
    \cup { [CHOOSE r \in Reads : TRUE EXCEPT !.segmented = TRUE],
           [CHOOSE r \in Reads : TRUE EXCEPT !.decodes = FALSE],
           [CHOOSE r \in Reads : TRUE EXCEPT !.service = "OTHER"] }

Ranges == { << 0, 100 >>, << 100, 260000 >>, << 260001, 260002 >> }

=============================================================================
