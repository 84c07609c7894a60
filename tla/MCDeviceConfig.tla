--------------------------- MODULE MCDeviceConfig ---------------------------
(* What is written to a device that starts with erased cells.              *)
EXTENDS DeviceConfig

Ask(object, values) == [object : {object}, value : values]

\* Values that differ in every octet, the limits and what is beyond them.
TypicalRequests ==
  UNION { Ask(DeviceId, {0, 66051, 4194303, 4194304}),
          Ask(MstpBaud, {9600, 115200, 9599}),
          Ask(MstpMac, {0, 127, 128, -1}),
          Ask(MstpManager, {5, 128}) }

ErasedBoard == {ErasedCells}

ASSUME RatesAssumption == RatesAreStandard

=============================================================================
