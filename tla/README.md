# BACnetMSTP-ArduinoLib: specification and proofs

TLA+ models of the BACnet MS/TP node in `src/`, the TLC runs that check them on
small instances, and the TLAPS proofs that hold for every instance. The code
under `src/` is the reference. All paths below are relative to the repository,
so `dlmstp.c` is `src/src/platform/dlmstp.c`.

To check everything: `tlc -config Ring.cfg MCMstpSearch.tla` (and the other
pairs in the table of runs) and `tlapm MstpRing_proofs.tla` (and the other
`*_proofs` modules).

## 1. The system

The library turns a small board (AVR Mega/Uno, ESP32, STM32) with an RS-485
transceiver into a BACnet device on an MS/TP segment: a bus on which *master*
stations pass a token and speak only while they hold it, or when asked. The
program is one thread. `setup()` calls `BACnetDevice::begin()`, and `loop()`
calls `BACnetDevice::update()` for ever; the only concurrency is with the UART,
which receives octets at any time, with the clock, and with the other stations
of the segment, any of which may crash, restart, or lose or corrupt frames.

| Component | Source | State | Operations |
|---|---|---|---|
| Master node | `dlmstp.c` `MSTP_Master_Node_FSM` | `Master_State`, `SoleMaster`, `FrameCount`, `Next_Station`, `Poll_Station`, `RetryCount`, `TokenCount` | one transition a call; repeated while `transition_now` |
| Receive machine | `dlmstp.c` `MSTP_Receive_Frame_FSM` | `Receive_State`, header registers, `InputBuffer`, `EventCount`, `ReceivedValidFrame`, `ReceivedInvalidFrame` | one octet a call |
| Datalink interface | `dlmstp_receive`, `dlmstp_send_pdu`, the address setters | the transmit slot: `TransmitPacketPending`, pointer, length, destination; `ReceivePacketPending` | receive, send, set address |
| RS-485 port | `BACnetRS485.cpp`, `mstimer.c`, `timer.c` | UART buffer, silence timer, baud rate | send, read, silence |
| Network layer | `h_npdu.c`, `npdu.c` | `Local_Network_Number`, `BACnetDevice_NetworkPriority` | `npdu_handler`, `network_control_handler` |
| Device and dispatch | `BACnetDevice.cpp` | `Send_I_Am_Flag`, `Handler_Transmit_Buffer`, object instance, uptime | `begin`, `update`, `apduHandler`, ReadProperty, WriteProperty, Who-Is |
| Analog and Binary Values | `BACnetAV.cpp`, `BACnetBV.cpp` | present values, units, out-of-service; some values live in the configuration | read and write property; the sketch's `set()` |
| Configuration | `nvdata.c`, `BACnetStorage.cpp` | EEPROM: type tag, MAC, baud, Max_Master, device instance, names | read at boot, written by AV 92 to AV 95 and by names |
| Board support | `BACnetHardware.cpp` | pins, ADC | read, write |
| Codecs | the vendored `bacnet/` files in use | none | encode, decode |

How they interact: `update()` calls `dlmstp_receive`, which runs the receive
machine until it is idle or has a frame, then the master machine until it has
no immediate transition, then hands up the data of a received frame. `update()`
passes it to `npdu_handler`, which calls the APDU handlers, which encode a
reply into the shared `Handler_Transmit_Buffer` and call `dlmstp_send_pdu`.
That stores the *pointer*; the frame is transmitted in a later call of
`update()`, in state ANSWER_DATA_REQUEST. Who-Is only sets `Send_I_Am_Flag`,
which USE_TOKEN looks at.

What is hard about it:

* State is handed from call to call through flags. `ReceivedValidFrame` and
  `ReceivedInvalidFrame` keep the receiver off until some state of the master
  machine clears them, and not every state does.
* Time passes between the calls. Timeouts are tests for windows in time
  (NO_TOKEN has one of 10 ms) made whenever `update()` happens to run.
* A request is answered in a later call than the one that received it, out of
  buffers that others use.
* The ring heals itself by polling; a search that ends one address early or
  late makes a false sole master or a poll to oneself. A search behind a lost
  successor is not a whole round.
* Configuration is written cell by cell and read at boot, and the power may fail
  between any two cells.
* The receive machine sees octets. A frame may be cut off anywhere, damaged, or
  contain another frame, and what is left over must not be taken for a frame.
* Several nodes run this code on one bus, each with its own idea of who holds the
  token; which idea survives depends on when each `update()` is called.
* A write is acknowledged in a later frame than the one that asked for it, and a
  Who-Is is answered when the token comes; the device may be renumbered, written
  again or restarted in between.
* The address a reply goes to is put together from two: the datalink writes the
  MAC of the sender, the decoder of the header the network behind the router, and
  neither writes all of it. One packet slot is shared by answers, network messages
  and whatever waits in it.

The hazards, each at its line, are in `PROJECT.json`.

## 2. Modules

| Module | Models |
|---|---|
| `MstpMaster` | one node: receiver at the grain of frames, the whole master machine, the datalink interface, and what the layers above do to the transmit slot; with the UART, the clock and the other stations around it |
| `TokenContract` | the abstract specification: what a master promises the other stations |
| `MstpSearch` | `MstpMaster` with two history variables: the addresses polled in the present round, and the station it began behind |
| `MstpFraming` | frames as octets: the CRCs, `MSTP_Send_Frame` |
| `MstpReceive` | the receive machine octet by octet, on `MstpFraming`, with the silence timer and a clock that wraps |
| `MstpRing` | several nodes with the master machine on one bus |
| `NetworkLayer` | the network layers of several devices, other stations and a router, at the grain of frames: `npdu_handler`, `network_control_handler`, the header, and the one packet of the datalink |
| `ObjectServer` | the application: the one-second task, `apduHandler`, ReadProperty, WriteProperty, Who-Is, the Device, Analog Value and Binary Value objects, the sketch, restarts |
| `Rs485Baud` | the rates of the port and their code in a cell; extended by `DeviceConfig` and `ObjectServer` |
| `NvStorage` | the EEPROM and its accessors on the three families of boards, with losses of power |
| `DeviceConfig` | boot from the stored configuration, and the objects AV 92 to 95 that write it |
| `DeviceNames` | the names of the Device object in the store |
| `MCMstpMaster`, `MCMstpServer`, `MCMstpSearch`, `MCMstpRing`, `MCMstpReceive`, `MCDeviceConfig`, `MCDeviceNames`, `MCNetworkLayer`, `MCObjectServer` | what the other stations send, clients ask, and the cells hold at first, in the runs |
| `MstpMaster_proofs` | one node: the inductive type invariant, requests and their replies, that no received frame is lost to the lost-token timeout, that a token is claimed only on a silent bus, the refinement of `TokenContract`, and the search for a successor |
| `MstpRing_proofs` | several nodes: types, and that one transmits at a time |
| `NvStorage_proofs` | what the store does, for the next two modules: `Becomes` |
| `DeviceNames_proofs` | types, that an acknowledged name survives, and that an answer is a name |
| `DeviceConfig_proofs` | types, that a node that boots is on its own ring, the one instance number, and that a restart finds the settings that were acknowledged |
| `MstpReceive_proofs` | the receiver stays in its buffer, and silence ends a frame |
| `NetworkLayer_proofs` | the network number is true, answers come home, and exchanges end |
| `ObjectServer_proofs` | types, that what was acknowledged is read, and that the object list is true |

### MstpMaster and the code

`pc` says how far a call of `update()` has come: *update* (in the sketch),
*receive* (the loop around the receive machine), *master* (the loop around the
master machine), *deliver* (the end of `dlmstp_receive` and `npdu_handler`).

Each transition of `MSTP_Master_Node_FSM` is one action with the name its
comment gives it (`ReceivedToken`, `SendMaintenancePFM`, `DeclareSoleMaster`
...). `GoTo(state, "master")` is a transition with `transition_now` true,
`GoTo(state, "deliver")` one with it false. A transition the code does not take
has an action, too (`StayNoToken`, `WaitForTokenUser`): the machine is called
and leaves things as they are. All variables carry the names of the C
variables; `frame` stands for `FrameType`, `DestinationAddress`,
`SourceAddress` and `InputBuffer` together, `silence` for
`RS485_Timer_Silence()`.

Abstractions:

* *Octets.* What arrives is a sequence of items: a whole frame, an octet that
  starts no frame, a lone preamble octet, a frame cut short, or one with a bad
  CRC or length. Each action of the receiver is what the loop in
  `dlmstp_receive` does with one item: it counts its octets, restarts the
  silence timer, and ends in a flag, in IDLE or inside a frame. HEADER and DATA
  are one state, since they differ only in what the octets are stored into.
  Once inside a frame, whatever follows is taken for its octets
  (`ReceiveInsideFrame`).
* *Data.* The payload of a frame is what it makes the layers above do: a
  confirmed request with an identity (every service, and every error, reject or
  abort, produces one reply), a Who-Is in range, three network layer messages,
  anything else, or nothing. A reply records whom and which request it answers.
  Encoded lengths are distinct small numbers.
* *Time* is counted in slots. The real values are Tslot 10, Tno_token 500,
  Tusage_timeout 30 and Tframe_abort 30 ms; the order among them is assumed
  (`TimeAssumption`), the values are parameters. Both clocks saturate beyond
  the last value that is compared.
* *Memory that is gone.* `h_npdu.c` hands over arrays on its own stack. What
  the pointer reads in a later call is the array or garbage, at the model's
  choice.

Not in the model: WAIT_FOR_REPLY, which no assignment in the code enters;
collisions, and octets that arrive while the node transmits (the transceiver is
half duplex); arrivals in the microseconds between two phases of one call,
which are the same as arrivals before it; the setters, which run at boot.
`RS485_ReceiveError()` always returns false.

Environment: `Arrive` puts any item of `Wire` into the UART, in the sketch or
while the node waits inside a frame; `Tick` lets time pass there. `MaxLag`
bounds the time between two calls of `update()`. It is the one timing
requirement on the sketch, and several properties depend on it: with MaxLag
below the width of a time slot NO_TOKEN always ends, with more it need not.

### TokenContract

Four roles (listening, holding, passing, polling), and the count of data
frames, the successor and the repetitions while they matter. `MstpMaster`
implements it under the mapping `Contract`: USE_TOKEN and DONE_WITH_TOKEN are
*holding*, PASS_TOKEN *passing*, POLL_FOR_MASTER *polling*, the other states
*listening*. It leaves to the node when to poll, and to the bus what is heard.

### NvStorage, DeviceConfig and DeviceNames

`NvStorage` has the cells (`eeprom`) and the calls of `write()` that the handler
in progress has still to make (`todo`). `StoreNext` stores as much of the next
call as the board stores in one piece (`Unit`): one octet on the AVR, the whole
call on the ESP32, which commits its buffer at the end of each call. The STM32
has a buffer in RAM that starts as zeros and is never flushed. `LosePower`, at
any time, forgets `todo`. `DeviceConfig` and `DeviceNames` extend it, each with
the cells that concern it.

* *Boot* is `ReadTypeTag` (the test of the tag, and the defaults it starts), the
  stores, and `ApplySettings`: the rest of `deviceNvdataInit`, whose calls touch
  variables in RAM only, so that a loss of power within it is the same as one
  before it. `dlmstp_set_mac_address` raises Max_Master to the address and
  `dlmstp_set_max_master` refuses one below it, hence a Max_Master below the
  address is acknowledged and stored, and at the next boot replaced by the
  address; `CellsAsConfigured` says so.
* *A write* is `WritePresentValue` (the callback's test and encoding), the
  stores, and `WriteDone` (the answer; for AV 92 also the Device object's own
  number). Refused values change nothing and have no action. The conversion of
  the present value from float to integer comes before the model's value.
* *A name* has its length, encoding and characters in three calls. `ReadName`
  and `ReadNothing` are the two ways through `nvdata_name`; the second stores the
  default. Octets are ASCII, zero or 255, for which UTF-8 is a test of each
  octet. The three names have cells of their own and the same code; one is
  modelled.
* `mayBe` and `current` are history: what a restart may find, given what was
  acknowledged last and what was cut short since. A board whose first boot was
  cut short is in an unknown state until each setting is written.

One octet of an EEPROM and one commit of the ESP32 are taken to be atomic; that
is a property of the parts, not of this code.

### MstpFraming and MstpReceive

A CRC register is the set of its bits that are 1, so that the exclusive-or of
`crc.c` is a symmetric difference. `MCMstpReceive` has TLC compare both CRCs with
the polynomials of the standard, for every octet. `SendFrame` is what
`MSTP_Send_Frame` puts on the line. `Frames` arrive whole, with their real CRCs,
and `Damage` is what is left of others: cut off after any octet, one octet lost
or changed, or noise. The machine has the transitions and names of the code
(`RepeatedPreamble1`, `HeaderBadCRC`, `FrameTooLong` ...). `Tick` lets time pass
where the loop of `dlmstp_receive` waits, inside a frame; the clock and the
silence timer are modulo `ClockSize`. In IDLE the machine does not look at the
clock, and an octet restarts the timer before it does. `waited`, `onBus` and
`step` are history.

`RS485_ReceiveError()` is always false, so its transitions are left out. Gaps
within a transmission are no longer than Tframe_abort: a longer one is a frame cut
off, which `Damage` has. `MstpReceive` does not say that it implements the
receiver of `MstpMaster`, which knows frames and not their octets; the two
translate the same code at two grains.

### MstpRing

A tick is what a frame takes. In a tick every node with power calls `update()`,
once; then what was transmitted reaches the others. `turn` is the node whose call
it is. Each transition of the master machine is an action with the name it has in
`MstpMaster`, on the record `node[n]` of that node's statics. The receiver is
`ReceiveFrame`: a frame arrives whole, not at all, or damaged, as garbage in which
no header is recognised (more than Nmin_octets octets) or as a bad frame; `valid`
is the frame register with its two flags, of which at most one is raised.

Faults: `Skip` (a call comes one tick late), `PowerOff`, `PowerOn` (with all
statics as at reset, while the bus is in use), `LineFault` (some of the others, or
all, do not get a frame whole). Three things are left out because the promise does
not hold with them. A node that is switched on while the bus is silent may claim
the token in the same slot as another, since its Tno_token starts later. A loop
slower than a frame time may answer a poll when the poller has gone on. And after
two frames were missed, or one together with a late call, two nodes with a token
each can go on polling in lockstep for as long as their clocks are exactly equal,
neither hearing the other; so `LineFault` is the only fault of its behaviour.
No node with this code sends a request, so that ANSWER_DATA_REQUEST and
WAIT_FOR_REPLY do not occur here.

### NetworkLayer

A frame is on the bus (`heard`) and reaches the devices it is for (`inbox`); each
of them handles it in its next `update()` before another frame is sent (`Quiet`).
`Received(d)` is the header that `bacnet_npdu_decode` reads. `end` says where the
octets of the PDU end: what is decoded up to there counts, and `MessageType` is
what the cleared header says if its type is not reached. `Source` is the address
that replies go to: the decoder sets it from the specifier, and without one it
clears the network number, except that it leaves a broadcast there. `update()`
does not initialise the variable, hence `Leftovers`.

`slot[d]` is `TransmitPacket` while it is pending: `at` is where the pointer
points, the shared `Handler_Transmit_Buffer` or an array of `h_npdu.c` on the
stack; `intact` says that the octets there are still those that were given. A
second reply in the shared buffer overwrites a pending packet even though
`dlmstp_send_pdu` refuses it (`SendPdu`), and USE_TOKEN gives a pending packet the
length of what it encodes itself (`SendIAm`, `NothingToSend`). `Octets` is what is
then transmitted: the message, or something no station understands. `answering`
is the state ANSWER_DATA_REQUEST, `Answer` and `DeferredReply` its transitions,
`HandedUp` the tests of IDLE that keep a broadcast request from the layers above.

Stations of other networks are `Remotes`; the router sends their frames with a
source specifier and `Recipients` says whom a frame reaches by the header's
destination. Devices restart at any time. Not modelled: specifiers with fewer
than the three octets they need, vendor message types, the sender of
What-Is-Network-Number, which nothing calls, and lost frames (a lost answer is
that of a device that was restarted).

### ObjectServer

`phase` says whether `update()` is in the sketch's hands (*loop*) or has looked at
its timer (*receive*); one call handles at most one PDU. A request is a record of
what decoding gives (or that it does not decode, or is segmented). Each handler's
tests are a sequence in the order of the code; a write is `Accepted` if all of them
pass, and `FirstRefusal` gives the answer of the first that fails. `Reply` is either the answer or none: the datalink
refuses one while the slot is taken. A write is executed before that is known.

`told` is history: what a client was told of a place (object and property) by a
SimpleAck, until somebody writes there again, an answer is lost, or a restart
resets what is kept in RAM. `AcknowledgedIsRead` compares it with what a read
would answer. Left out of `told`: baud rates that the port does not know, which
are acknowledged and rounded down, and writes with an empty value.

A value is its tag and whole part: the callbacks cut fractions off. An empty
value decodes to length 0, which is no error; the Device object and the AVs take
it for null, `BACnetBV::writeProperty` for what its uninitialised variable
holds (`Leftover`, the model's choice). The whole object list takes 95 octets and
fits into an APDU, so it is never aborted.

Clock: `age` counts the ticks since the restart and the timer sees it modulo
`ClockSize`. `Tick` keeps the delay of the one-second task below half the clock,
24 days in the code; beyond it the comparison turns round.

README.md:107-120 of the repository marks AV 0 to 3 and 96 to 99 as not writable.
Writes to them are acknowledged: they go to a variable that no read looks at, or,
for AV 99, that the next second overwrites. A write of AV 92 renumbers the device
at once and sends no I-Am.

## 3. Properties and runs

Bounds of Ring, Live and Server: one station of three (four in Ring) on the ring,
so that there are stations before and after it and the wrap-around is used; Nretry
1; `EventLimit` one above `Nmin_octets`, so that "active" and "not active" both
occur; `UartSize` 2. `MaxArrivals` bounds the frames of the other stations in a
behaviour. Time has Tno_token 3, Tslot 1, Tusage_timeout 1, Tframe_abort 1:
each window is at least one tick wide and every comparison can come out either
way.

| Run | Checks | Shows |
|---|---|---|
| Ring (`MCMstpSearch`) | `TypeOK`, `SoleMasterAlone`, `ReceivedFrameBeatsLostToken`, `KeepsContract`, `RoundAsksTheRest`, `NeverPollsItself` | tokens, polls, replies to polls, noise and broken frames in any order and at any time: the ring variables agree, a frame that has been received is not lost to the lost-token timeout, the node keeps the contract, its search for a successor leaves out no address behind the one it lost, each round it makes as the only master leaves out none at all, and a poll goes to this station only in the case that a comment in `dlmstp.c` mentions |
| Live (`MCMstpMaster`) | `UpdateReturns`, `LeavesNoToken`, `IAmIsSent` | every call returns, NO_TOKEN ends, and an I-Am that was asked for is sent, after any two disturbances and if `update()` is called in every slot (MaxLag 1) |
| Server (`MCMstpServer`) | `RequestHeld`, `PendingReplyIsCurrent`, `ReplyAnswersRequest`, `ClaimsOnlySilentBus` | requests, broadcasts, Who-Is, network messages and tokens in any order: each confirmed request gets its own reply, sent to the station that asked; with whole frames only, a token is claimed only after real silence on the bus |
| Receive (`MCMstpReceive`) | `TypeOK`, `WithinBuffer`, `OnlyFramesSent`, `FrameInStepArrives`, `SilenceEndsFrame`, `LoopEnds` | two frames and one that is damaged in any way, in any order: nothing is stored beyond the buffer, what is handed over was sent as one frame, a frame that found the machine waiting is handed over, a silence ends a frame wherever the clock wraps, and the loop of `dlmstp_receive` ends |
| Bus (`MCMstpRing`) | `TypeOK`, `NoCollision`, `TokenComesRound`, `DuplicatesVanish` | three nodes, from any of them switched on, with late calls, losses of power, nodes that join, or a frame that some miss or get damaged: they never transmit at once, two tokens become one, and every node that stays on gets the token again and again |
| Config (`MCDeviceConfig`) | `TypeOK`, `OnRing`, `InstanceIsLive`, `InstanceAsConfigured`, `CellsAsConfigured` | from an erased board, through any writes and two losses of power, on all three families: the node's address is within its Max_Master, the instance it answers to is the one it stores, and it restarts with the settings it was given last, or with one whose write was cut short. Only the AVR, which stores octet by octet, may come up with a mixture of two instances |
| Names (`MCDeviceNames`) | `TypeOK`, `AnswerIsName`, `NameSurvives` | names in two encodings, empty, invalid and too long ones, three losses of power: an acknowledged name survives, and what a read answers is a valid name |
| Network (`MCNetworkLayer`) | `TypeOK`, `NumberIsTrue`, `AnswerComesHome`, `NoAnswerToAnswer` | frames of this and of another network, whole and spoilt, requests in frames that do and do not expect a reply, restarts: devices take and tell only this network's number, an answer reaches the station that asked, through the router if it is behind it, and no other, as long as requests say that they expect one; and the frame of one device makes no other send |
| Objects (`MCObjectServer`) | `TypeOK`, `AcknowledgedIsRead`, `ListIsTrue`, `UptimeFollows`, `WhoIsAnswered` | any two writes, by clients or the sketch, between any reads, Who-Is and restarts: what was acknowledged is read back, the object list agrees with the objects, a Who-Is is answered although the device is renumbered, and the uptime follows a clock that wraps |

Receive has a buffer of 9 octets, frames that fill it, exceed it by one and by
two, a frame with another one in its data, and a clock of 3, which wraps within
every timeout. Two whole frames around one damaged one are what it takes to leave
the machine out of step and to show the effect on the next frame, and the one
after.

Bus has nodes 0, 1 and 3 of 0 to 3, so that there is a gap to be polled; Npoll 2,
one retry, three faults. Tslot is 5 ticks and Tusage_timeout 12, in proportion to
a frame time; Tno_token 16 is shorter than in the code, but above Tusage_timeout,
which is what counts. In the code Tno_token is 500 ms, the others 10 and 30. TLC
checks that these values satisfy `Margins`, which the theorem about them assumes.

Network has two devices, a station, and a router with two stations
of one network behind it, and five frames of others: a number to learn, a query
for it, a token, and a request before and after.

Objects has requests for every place and kind of value, the limits and the first
value beyond each, and each reason to refuse. Two writes show every interference
of one with another. The clock has 6 values and wraps once within MaxAge.

In the runs of the configuration, requests have values that differ in every
octet, the limits, and the first value beyond each. Two losses of power are
enough for a write cut short, a boot cut short, and a boot that completes; the
names have one more, and three characters: a name shorter than the one before
it, one as long, one too long.

Why three to five arrivals are enough: the node has one buffer for a received
frame and one for a reply, so what goes wrong needs one frame to enter a state,
one to disturb it, and one to show the effect.

Three runs end in a violation. Each is a place where the code does not do what
its comment, or the function's documentation, says; `PROJECT.json` quotes it.

| Run | Property | What happens |
|---|---|---|
| MissedSlot | `LeavesNoToken` | `update()` comes two slots late, once. NO_TOKEN has no transition for the time after its own slot; on a silent bus the node waits until the silence timer has wrapped (49 days). The vendored `mstp.c` has that transition |
| StaleReply | `ReplyAnswersRequest` | a confirmed request comes in a frame that expects no reply. Its reply waits in the slot, which only ANSWER_DATA_REQUEST empties; the next request finds the slot taken, and its reply goes to the first station |
| TornDefaults | `FactoryDefaults` | the power fails on the first boot, after the type tag and before the defaults. The next boot trusts the tag: the address 255 is refused and stays 0, the instance becomes 16777215 |

More places of this kind have no run of their own, though the models have them. In
NO_TOKEN nothing clears `ReceivedInvalidFrame`: after a frame that is cut off there
the receiver stays off, the silence timer runs on, and the node generates a token
while others transmit (`ClaimsOnlySilentBus` fails with the traffic of Live and
MaxLag 2). PASS_TOKEN keeps the receiver off in the same way, so that the node
repeats the token or polls while its successor transmits. FindNewSuccessor
(`dlmstp.c` 848) begins behind the successor that failed, and DeclareSoleMaster
(963) comes when the search is back at this station, "to indicate that this station
is the only master". The addresses up to the lost successor are not asked again in
between. Station 1 of 0 .. 3 that loses station 3 asks 0 only: a station 2 that
joined since the last maintenance poll, or whose answer to it was damaged, is
overlooked until the sole master's next round. `RoundAsksTheRest` therefore speaks
of the addresses behind the lost successor; TLC refutes the same formula with all
addresses. `h_npdu.c` hands
`dlmstp_send_pdu` arrays on its own stack, which are read after it returned
(`DeferredReply` may send garbage). A frame longer than the buffer is not decoded,
so that a frame in its data is taken for one that was sent, which the comment at
`dlmstp.c` 412-416 is about; in Receive the frame with another in its data fits.
Values that the README calls not writable are acknowledged (see ObjectServer). AV 93 accepts rates of 256000 and more,
which wrap in eight bits of kilobaud: 256000 is stored as 0, and the next boot
takes 38400; the requests of Config leave them out. On the STM32 the zeroed
buffer is a valid name of length zero, so that the default is never stored and
Object_Name reads as empty; `AnswerIsName` excludes empty names for the other
boards only.

Four are in `NetworkLayer`. A `src.net` that happens to be 65535 is kept by the
decoder (`npdu.c:551`), and the answer to a station of this network has the header
of a broadcast to all networks, while `npdu.c:93` has a destination "if the message
must be routed to reach its destination". What-Is-Network-Number in a frame that
expects no reply leaves Network-Number-Is in the slot, which is sent in place of
the next answer. Network-Number-Is goes to the station that asked, where
`h_npdu.c:74` says "a local broadcast". And a number is learned from a message with
a DNET, which `h_npdu.c:184` says is ignored.

### Fairness

`FairSpec` has weak fairness of the program (`loop()` is called for ever, and
no step of a call blocks) and strong fairness of `Tick`. Time is what passes
between two calls and while the node waits inside a frame; `Tick` is disabled
within a call and enabled again after it, hence strong fairness: calls of
`update()` take time in the long run. Nothing is assumed of the other stations.
Liveness holds for behaviours with at most `MaxArrivals` disturbances, that is,
from the last disturbance on.

In `MstpReceive` the loop and the clock go on, and no octet need follow. In
`MstpRing` calls and time go on; faults are bounded and need not happen. In
`ObjectServer`, `update()` is called for ever (weak fairness), and the token keeps
coming while the flag is set or set again (strong fairness of `SendIAm`): that is
what `TokenComesRound` shows of the ring. Time itself need not pass there.

## 4. What is proved

The theorems hold for every address, ring size up to 127, limit, timing that
satisfies `TimeAssumption`, UART size, and every `Wire`. The assumptions are
what the setters keep (`AddressAssumption`, proved of the boot by
`AlwaysOnRing`), the ranges of the constants, and the order of the timeouts.
The theorems of `DeviceConfig` hold for all cells, first contents, requests and
boards; those of `DeviceNames` for every size of name up to 30, default, names
offered, cells and boards, and any number of losses of power; those of
`MstpReceive` for every buffer size, abort time and clock that is wider than it, every set of frames whose data has a length of two octets,
every damage, and any number of both; those of `NetworkLayer` for any devices,
stations, networks behind the router, traffic with the habits named, any number of
frames, and whatever `src.net` holds; those of `ObjectServer` for any requests and
values, names that fit the store, factory settings, clock and timer, and any number
of writes.

| Theorem | States |
|---|---|
| `TypeCorrect` | `Spec => []TypeOK` |
| `RequestIsHeld` | `Spec => []RequestHeld` |
| `PendingReplyCurrent` | `RequestsExpectReply` implies `Spec => []PendingReplyIsCurrent` |
| `RequestIsAnswered` | `RequestsExpectReply` implies `Spec => ReplyAnswersRequest` |
| `ReceivedFrameIsNotLost` | `FramesAreLong` implies `Spec => []ReceivedFrameBeatsLostToken` |
| `ImplementsContract` | `Spec => KeepsContract`, the refinement of `TokenContract` |
| `SoleMasterIsAlone` | `Spec => []SoleMasterAlone` |
| `OnlySilentBusIsClaimed` | `FramesAreLong`, `NothingTorn` and `CalledInTime` imply `Spec => ClaimsOnlySilentBus` |
| `EveryRoundAsksTheRest` | `MstpSearch`: `SSpec => RoundAsksTheRest` |
| `PollsOnlyOthers` | `MstpSearch`: `Nmax_master > 0` and `RepliesOnRing` imply `SSpec => NeverPollsItself` |
| `RingTypeOK` | `MstpRing`: `Spec => []TypeOK` |
| `OneFrameAtATime` | `MstpRing`: `Margins` implies `Spec /\ [][~LineFault]_vars => []NoCollision` |
| `ConfigTypeCorrect` | `DeviceConfig`: `Spec => []TypeOK` |
| `AlwaysOnRing` | `DeviceConfig`: `Spec => []OnRing` |
| `SameInstance` | `DeviceConfig`: `Spec => []InstanceIsLive` |
| `InstanceRemembered` | `DeviceConfig`: `Spec => []InstanceAsConfigured` |
| `SettingsRemembered` | `DeviceConfig`: `RatesAreStandard` implies `Spec => CellsAsConfigured` |
| `NamesTypeCorrect` | `DeviceNames`: `Spec => []TypeOK` |
| `NameAlwaysSurvives` | `DeviceNames`: `Spec => []NameSurvives` |
| `AnswersAreNames` | `DeviceNames`: `Spec => []AnswerIsName`, if no cell of a length is first powered with 0 |
| `ReceiveTypeCorrect` | `MstpReceive`: `Spec => []TypeOK` |
| `NeverBeyondBuffer` | `MstpReceive`: `Spec => []WithinBuffer` |
| `SilenceAlwaysEndsFrame` | `MstpReceive`: `Spec => SilenceEndsFrame` |
| `NetworkTypeCorrect` | `NetworkLayer`: `Spec => []TypeOK` |
| `NumberStaysTrue` | `NetworkLayer`: `TruthfulNumbers(Originals)` implies `Spec => []NumberIsTrue` |
| `AnswersComeHome` | `NetworkLayer`: `RoutedByRouter(Originals)` implies `Spec => []AnswerComesHome` |
| `ExchangesEnd` | `NetworkLayer`: `Spec => NoAnswerToAnswer` |
| `ServerTypeCorrect` | `ObjectServer`: `Spec => []TypeOK` |
| `AcknowledgedIsAlwaysRead` | `ObjectServer`: `Spec => []AcknowledgedIsRead` |
| `ListIsAlwaysTrue` | `ObjectServer`: `Spec => []ListIsTrue` |

* **Types.** `TypeOK` is not inductive: USE_TOKEN increments `FrameCount`
  without a test. `TypeInv` adds `MayUseToken`: in USE_TOKEN there is a frame
  left. `DoneWithToken` returns there only with fewer than Nmax_info_frames
  sent, every other entry resets the counter. The proof has one lemma per group
  of variables for the master machine, then one for each of the other parts.
* **Requests.** That ANSWER_DATA_REQUEST holds its request needs `FrameForUs`:
  a frame whose flag is set is for this station, so "not broadcast" means "for
  us" in IDLE. It is stable because the receiver writes the registers only
  while no flag is set. The reply needs `ReplyInv`: data is handed up only in
  the call that received it, the slot is empty then, and after that call it
  holds the reply, pointer and length and content. The shared buffer is safe
  because its other writer, the I-Am, runs in USE_TOKEN only. Both reply
  theorems assume `RequestsExpectReply`, that other stations send requests in
  frames that expect a reply (or broadcast them); StaleReply shows what happens
  without it, and `MCMstpServer` has TLC check it of the Server run's traffic.
* **Received frames.** IDLE tests for a lost token first. `FreshInv` says that a
  frame is not held there after a silence: at most one of the two flags is
  raised, and a valid frame in a state from which IDLE is next was just read
  (`JustRead`), or nothing that makes the line active was heard since a token was
  sent, so that PASS_TOKEN does not go to IDLE with it. It needs `FramesAreLong`:
  a frame has more than Nmin_octets octets, as every header with its preamble.
* **Contract.** One lemma per master state shows its transitions to be steps of
  the contract: `HearingStep`, `PollStep` and `PassStep` are the patterns that
  recur. It uses `TypeInv` (the counters' upper bounds turn "not less" into
  "equal"), `FrameForUs` (a token taken was offered), and that `SoleMaster` is
  false in INITIALIZE.
* **A silent bus.** `SilenceInv` compares what the node measures, `silence`, with
  what the bus did, `quiet`: once the UART is empty the first is not the longer. A
  frame that waits unread would make it longer, so the invariant also says that
  the master machine never looks at the time with octets left in the UART, unless
  it has just read or sent something and the silence is too short to claim a token.
  Three habits are assumed, and TLC checks them of the Server run's traffic:
  `FramesAreLong`; `NothingTorn`, since a torn frame leaves the flag that NO_TOKEN
  does not clear; and `CalledInTime`, that two calls of `update()` are not further
  apart than Tno_token.
* **The search.** `Distance` numbers the addresses from this station on round the
  ring, so that the wrap-around is gone: the next address is one further, or this
  station (`DistanceAfter`, from division with remainder). `SearchInv` says that
  while no successor is known, all addresses behind `lost` and up to `Poll_Station`
  have been polled in the present round: `lost` is the successor that did not take
  the token if FindNewSuccessor began the round, and otherwise this station, so that
  the round asks everyone. DeclareSoleMaster and SoleMasterRestartMaintenancePFM
  come when `Poll_Station` is the last address. That a sole master does not begin
  again before that needs `SolePollsOthers`: its `Poll_Station` is never itself.
  `NeverPollsItself` needs `BeforeSuccessor`: while a successor is known, the last
  address that was polled lies before it. `RepliesOnRing` is assumed, since a reply
  from beyond Nmax_master would become such a successor.
* **One frame at a time.** Who may speak next follows from the last frame sent and
  the time since. `RingInv(f, g)` is about that frame and the ticks since it was
  sent, and the invariant says that some such pair exists (`OneSpeaks`).
  For each node: how many frames it has not read (`Backlog`), none of them for it
  but the last; by how much its silence timer is behind g (`Lag`); and what it is
  doing (`Waits`; `Works` for the node being called): listening before its slot,
  waiting for what its frame f leads to, or about to learn that its token is in use
  or its poll answered. A node transmits in four
  situations, and for each a lemma shows that the others will stay silent
  (`Clear`): it was addressed (`AddressedIsClear`), its own frame got no answer
  within Tusage_timeout (`TimeoutIsClear`), its slot has come (`ClaimIsClear`), or
  it still has the token after its I-Am (`ResumedIsClear`). What it sends is the
  next f (`SendsAlone`). The rest is one lemma per master state, and one for each of
  late calls, the receiver, a tick and a restart.
  Every late call leaves a node one frame and one tick behind, for good, so what
  counts is the number of late calls in the behaviour and not in a row: hence
  `Margins`, which bounds it (`MaxFaults`) by what Tusage_timeout and a slot leave.
  At 38400 baud a tick, the 8 octets of a header, takes about 2 ms: a slot has about
  5 ticks and Tusage_timeout 15, and three late calls are within the margins; at
  115200 baud a slot has some 14. At 9600 baud a tick takes nearly as long as a slot,
  and the theorem says nothing. Damaged frames (`LineFault`) are not in the
  theorem: two nodes with a token may then exist for a while, and that they do not
  meet depends on where in the ring they are. The Bus run checks them on its instance.
* **Configuration.** `ConfigInv` adds to types and `OnRing` that a request in
  progress was accepted: that is why the number `WriteDone` puts into the Device
  object fits its three octets. Types need that the accessors make octets into
  numbers of their width (`Encode*` and `Unsigned*`, a lemma each), and that a
  call of which a part is stored leaves a call that is not empty. `OnRing` is a
  case split on the two setters, with nothing known of the cells but that they
  are octets.
* **The store.** What a handler is to store is an *image*, octets for some cells.
  `Becomes(image)` says that the calls left have no other octets, and that each
  octet of the image is in its cell or in a call to come. `BecomesStep` shows that
  storing any part of a call keeps it, on boards that program cell by cell as on
  those that commit; with no call left the cells hold the image (`BecomesDone`).
  Meanwhile a cell has its old octet or the image's (`CellStep`), and other
  cells are left alone (`OtherCellStep`).
* **One instance number.** `LiveInv`: during a write the calls left make the image
  of the request, and outside one the Device object has the number that the cells
  spell. With `DecodeInstance`, the octets of an accepted number make that number
  again (`Written`); a write of another setting touches other cells
  (`OthersHold`).
* **Settings remembered.** `KnownInv` relates the history `mayBe` to the cells:
  where something is known the tag is in place, so that the next boot does not
  store the defaults, and the cells of a setting hold a value it may have. The
  exception is `Kept`'s second disjunct: on the AVR the instance may be a mixture
  if two values are possible. If only one is, the write that was cut short wrote
  the number that was there, and since a number has one spelling
  (`InstanceSpelling`) no octet changes. `CellsAsConfigured` needs `InRange` as
  well: what is known of an address is one octet below 128, and the rate is one
  the port knows, which `RateReadBack` shows to survive the division by 1000. Other
  rates are rounded down or, from 256000 on, wrap, hence `RatesAreStandard`, which
  TLC checks of the Config run's requests.
* **Names.** `NameInv`: the calls left of `nvdata_name_set` make the image of the
  name being stored; a loss of power forgets the name and the calls together. An
  acknowledged name is thus in its cells (`Holds`), and `HeldName` shows that
  reading makes of them that name again: it is valid, and the zeros behind it are
  cut off at its length. `AnswersAreNames` adds that the cell of the length is
  never 0, since no empty name is ever begun (`CellStep`). Its assumption on the
  first contents is what erased EEPROM and flash satisfy; a cell of 0 would be
  read as the empty name.
* **Receiver.** `ReceiveInv` is the types, `WithinBuffer` and `TimerIsTrue`:
  within a frame the timer shows the time that has passed since the last octet.
  `WithinBuffer` bounds `Index` in HEADER and DATA and says that DATA is entered
  only with a length the buffer holds; it is inductive given the types. The CRCs
  matter only by the range of their registers, so nothing depends on a damaged
  frame being noticed. `TimerIsTrue` is what SilenceEndsFrame needs, since
  `Silence` subtracts clocks that wrap: `TickIsCounted` shows that one more
  millisecond is one more in the difference as long as it stays below the
  width, and `Tick` lets it grow no further within a frame.
* **Network number.** `NumberInv` adds to `NumberIsTrue` where a number can come
  from: a frame in an inbox is one of `Originals`, of which the habit speaks, or
  one of a device, which has this network's number if it has any. A device's
  Network-Number-Is is made of what it has learned, which closes the circle.
* **Answers.** `AnswerInv`, which holds while `expected` does, says that a
  packet is pending only from the request to the answer to it: the device is
  then in ANSWER_DATA_REQUEST, no frame arrives, no token is used, and the packet, if it is an answer, is held for the station
  the request came from and intact. `LocalAnswer` and `RoutedAnswer` compute
  `Recipients` of the two kinds of header, a `Leftovers` of 65535 included: such
  an answer still reaches the one station its frame is for.
* **Exchanges end.** `EndInv`: what waits in a slot, and what comes from a device,
  is one of four kinds of message (`LastWords`), damaged or not. A device gets
  something to send only in a call that hands up a message of another kind
  (`UpdateStarts`), which then came from another station.
* **What was acknowledged is read.** Types need of a write that its tests passed:
  `DeviceAccepted`, `AnalogAccepted` and `BinaryAccepted` say what the handlers know
  then, such as that a present value is in the range of its callback. `ReadPlace`
  shows that the refusals and the cases of a read end, at a place that can be
  written, in what is `Shown` there. `ToldIsShown` is then inductive: a write changes
  what is shown at its own place only (`WriteShows`, `SketchShows`) and, if the client
  expects a value there, to that value. For the rate this is `RateReadBack`, that one
  the port knows survives kilobauds in an octet. A restart forgets what is not in the
  store, and `told` with it.
* **The object list.** Types suffice. `IdParts` takes an identifier apart into its
  type and its instance, `ListEntries` finds each row of the three tables under its
  index, and `ReadEntry` reads it back under its identifier; rows of one table
  differ in the instance, those of different tables in the type.

Model-checked only: what the receiver makes of the octets' values
(`OnlyFramesSent`, `FrameInStepArrives`: these run the CRCs, which are folds over
the octets, and need induction over data), `NoCollision` in behaviours with a
damaged frame, and all liveness (out of the prover's reach, as is ENABLED). Two
habits that theorems assume of the other stations, `NothingTorn` and
`CalledInTime`, do not hold in Ring and Live, which check other properties.

## 5. Plan

Done: all modules above and the proofs of section 4. Left:

1. That each node of `MstpRing` keeps `TokenContract`, as the node of `MstpMaster`
   does: the two modules translate the same transitions.
2. `NoCollision` after a damaged frame, for every instance: the invariant then has
   to say where two holders of a token may be.
3. `MstpRing` with a station of another kind that sends requests.

## 6. Not modelled

* `BACnetHardware.cpp`, `pin_config.h`, `adc.h`: pins and converters, no state
  the protocol depends on.
* The vendored encoders and decoders: sequential functions on octets without
  state; handlers are modelled by the outcome of decoding. Exceptions are the
  CRCs and `bacnet_array_encode`.
* The rest of `src/src/bacnet`, nearly all of the repository's lines: upstream code
  of bacnet-stack that the library does not use (other datalinks, clients, routers,
  other object types). Nothing calls it here, so there is no behaviour of this
  program to model. The library's own code is `src/src/app` and `src/src/platform`,
  and of that the models leave out pins, debug output and accessors without state.
