# Verification of whybiz

TLA+ modules, TLC runs and TLAPS proofs for the programs of the whybiz system:
the node's two firmwares (`nordic/whybizBle/src`, `arduino/forWifi/whybiz`), the
LoRa modem (`LoRaStar_uttec/MiWionLoRa/src`) and the bridge to the dashboard
(`python/whybiz.py`). `PROJECT.json` lists every run, the mutant that shows each
property can fail, the source lines of every definition, and the hazards the
properties are for. Run `tlc -config X.cfg M` and `tlapm M.tla` in this directory.

1. The system  2. Modules  3. Runs  4. Proofs  5. What the code does against its word
6. Not modelled

## 1. The system

A whybiz node reads switches and analogue inputs and drives relays. Two links
control it: Bluetooth LE from a phone (the Nordic UART service, three-byte
commands) and a UART that carries JSON lines and is wired, by two select pins,
to an Ethernet module, an RS485 driver or a LoRa modem. Two firmwares do this
job, one for the nRF52 and one for the ESP32. A TCP server of the Ethernet
module and a Python bridge connect the node with Node-RED, which sends the JSON
lines and shows the status lines. The LoRa modem obeys `at=` commands and
broadcasts lines to other modems over Microchip's MiWi stack.

    phone --BLE--> node --UART--+-- Ethernet module --TCP-- bridge --TCP-- Node-RED
                                +-- LoRa modem ~~~radio~~~ LoRa modems -- hosts

No program uses a lock. What runs beside what:

| program | contexts | what they share |
|---|---|---|
| nRF firmware | UARTE interrupt; Bluetooth receive thread (cooperative); system work queue (cooperative); `main` (preemptible, 0); `ble_write_thread` (preemptible, 7) | heap, fifo, `myJson`, the port expander, the factors, the pins |
| ESP32 firmware | Arduino loop and Bluetooth task, on two cores | `deviceConnected`, the port expander, `relayStatus`, the factors, the pins |
| LoRa modem | main loop; interrupts of the serial port and of the radio | receive ring, `RxPacket[0]`, the chip's registers |
| bridge | two threads | `sendFlag`, `sendData` |

### Components

nRF firmware (files of `nordic/whybizBle/src`):

* **UART reception** (`myBle.c` 29-311, 671-695). State: buffers on the heap, a
  fifo, the driver's two buffers, the static `disable_req`, the retry work item.
  Operations: the events of `uart_cb`, `uart_work_handler`, `uart_init`, one round
  of the writer. Interacts with `bt_receive_cb` through the heap and with the
  JSON frame through `getJsonData`. Hard: the heap runs out; a buffer changes
  hands five times; the result of `uart_rx_enable` is ignored. Correct when no
  block leaks or is shared, reception never stops for good, and bytes come out
  in order.
* **JSON command path** (`getJsonData`, `clearJsonData`, `main.c`,
  `uttecJsonTest`). State: `myJson` (frame, end, flag), shared by the writer and
  main. Hard: the two interleave byte by byte, and main sleeps 20 ms between
  parsing and clearing. Correct when each command is carried out once and whole.
* **Relay and switch port** (`sx1509.c`). State: the expander's registers and its
  register pointer, the factors `relay` and `sw`. Two threads, several transfers
  for each operation, failed transfers ignored. Correct when a command changes
  its relay and no other and a reading reports the port.
* **Settings, boot and UART selection** (`nvm.c`, `uttec.c`, `main.c`). State: the
  factors in RAM and flash, the select pins. Hard: boot order, resets, BLE
  commands before boot has finished. Correct when the pins follow the channel and
  saved settings survive.
* **BLE link** (`connected`, `disconnected`, `sendToMobile`, `procRxBle`). State:
  `connectFlag_t`, `current_conn`. Hard: sending while disconnecting.
* **Status reports** (`sendJsonForStatus`, `adc.c`). State: the rotation counter,
  `myWhybizFrame`, the RS485 direction pin. Hard: the JSON line is filled before the values
  are refreshed, the BLE frame after; `MAX_CATEGORY` is `CHANNEL_DEVICE + 1`
  without parentheses, so the rotation visits 1 to 6. Correct when every category
  is reported on both links within a bounded number of rounds.

ESP32 firmware (files of `arduino/forWifi/whybiz`, built with `BLE_PROGRAM`):

* **Link and loop** (`myBle.cpp`, `whybiz.ino`). State: `deviceConnected` and
  `oldDeviceConnected`, whether the node advertises. Hard: the loop compares the
  two once a round, with half a second of delay in between, while the other core
  changes one of them. Correct when a phone can always come back.
* **Line reader** (`parseReceiveJson`, `myJson.cpp`). State: the serial buffer; the
  array is local. Hard: reading stops as soon as nothing is there, so the calls
  cut the stream anywhere. Correct when no command is torn, repeated or reordered
  and it is known which lines are lost.
* **Relays, settings, UART selection** (`sx1509Lib.cpp`, `uttec.cpp`, `onWrite`).
  State: the port, its mirror, the factors, the flash, the pins. Hard: both tasks
  carry out commands, in several steps each. Correct when relays, mirror and
  factor agree and the pins end up as the factors say.

LoRa modem (files of `LoRaStar_uttec/MiWionLoRa/src`):

* **Serial port and console** (`sio2host.c`, `application.c`). State: the ring, its
  two indices, the console's counters. Hard: the interrupt moves `tail` in the
  middle of `sio2host_rx`, and the ring has no overflow flag. After lost
  bytes the data of a line can be obeyed as commands. Correct when every line is
  broadcast once, and when the console then finds its way back to the lines.
* **Settings** (`main.c`, `application.c`, `NVM.c`). State: one record in a flash
  row, its copy in RAM, what the radio uses. Hard: commands rewrite the whole
  record, which is erased first; some start from RAM and some from flash. Correct
  when a restart brings back what was in use.
* **Radio** (`radio_driver_SX1276.c`, `MiWi.c`, `HandleRxData`). State: the one
  receive buffer, the radio's mode and interrupt mask. Hard: the main loop prints
  from the buffer the interrupt writes to. Correct when messages come out whole.
* **Broadcasts** (`MultiCast`, `MiWiPROTasks` in `MiWi.c`). State: the sequence number,
  the records of packets had before, the one packet waiting to be sent again, in
  every modem of the net. Hard: copies on several ways, records that run out, lost
  frames, restarts. Correct when every modem in reach hands a broadcast over once.

**Bridge** (`python/whybiz.py`). State: two globals, a socket to the node. Hard: one
thread sets the flag before the data; an exception closes the socket and nothing
opens it again. Correct when status lines and commands get through.

Not modelled: Node-RED flows, mobile applications, earlier snapshots, vendored
drivers (section 6).

## 2. Modules

| module | models | role |
|---|---|---|
| `UartRx` | nRF UART reception | the detailed specification |
| `ByteChannel` | what reception promises | abstract: accepted bytes come out once each, in order |
| `MCUartRx` | three heap blocks | instance of `UartRx` for TLC |
| `JsonFrame` | nRF JSON command path | consumes the bytes `UartRx` delivers, cut into buffers |
| `NodeUart` | the size of a receive buffer | `UartRx` and `JsonFrame` EXTEND it |
| `RelayPort` | nRF relay and switch port | |
| `NodeConfig` | nRF settings, boot, UART selection | |
| `NodeStatus` | nRF status reports, BLE connection | |
| `EspLink`, `EspSerial` | ESP32 link; ESP32 line reader | the two parts of the loop |
| `EspLoop` | the Arduino loop | composes `EspLink` (INSTANCE) and `EspSerial` (EXTENDS) |
| `EspNode` | ESP32 relays, settings, UART selection | |
| `LoraSerial` | modem: ring and console | `MCLoraSerial` gives the host's lines |
| `LoraModem` | modem: settings and restarts | `MCLoraModem` gives two values of each setting |
| `LoraRadio` | modem: receive buffer, printing, transmitting | |
| `MiWiFlood` | broadcasts in a net of modems | `MCMiWiFlood` gives three nets |
| `PyBridge` | the bridge | |
| `M_proofs` | `UartRx`, `RelayPort`, `NodeConfig`, `EspNode`, `LoraModem`, `LoraRadio`, `MiWiFlood`, `PyBridge` | theorems (section 4) |

The modules of one component carry their mutants, each in front of the
definition it stands in for, with a comment that says "Mutant". Variables marked
"History" are read by properties and by the updates of history variables, never
by a guard of the program.

### UartRx

One action per event of `uart_cb`, since an interrupt handler runs to completion;
one action per heap or fifo call of a thread, since a thread can be preempted
there. `RxBufferFull` joins RELEASED and BUF_REQUEST of a full buffer because the
driver delivers them from the same interrupt. The heap is a set of blocks, each the size
of one `uart_data_t`; `bt_receive_cb` is included because it competes for it.
Bytes are records with a number and a mark for end-of-line, which is all
`uart_cb` looks at. Nothing in the firmware calls `uart_tx`, so the TX events
cannot occur. The driver is external: it is taken to refuse `uart_rx_enable`
while it has a buffer, to report the end of a buffer before the start of the next and that
before the receiver's stop. `BtChunk` stands for one chunk of a BLE write,
which is copied into a block and freed, the call to `uart_tx` being commented out.

* `OneOwner`: every block is free or has exactly one owner. The results of
  `uart_rx_enable` and `uart_rx_buf_rsp` are ignored, so this holds only because
  they cannot be refused where they are called.
* `ReceiverRuns`, `ReceptionResumes`: out of memory in RX_DISABLED hands over to
  the retry, which runs until it succeeds, and never against a running driver;
  `disable_req` never outlives the stop it asked for.
* `LineDelivered`: the stop asked for by an end-of-line is completed and the line
  reaches `getJsonData`.
* `InOrderDelivery`: `UartRx` implements `ByteChannel`. Bytes that arrive with
  reception off are lost and nothing more is promised about them.

### JsonFrame

`Copy` is one round of `getJsonData`'s loop, because main outranks the writer and
wakes up between any two rounds. `Poll` is one action: main runs from the end of
its sleep to the next one and the writer cannot interrupt it. `Clear` follows
after the 20 ms. A command line is the symbols `{ a b } CR LF`, the two halves
naming the command they came from, so that a frame put together from two lines
shows. The JSON parser is modelled by what it does to such a frame: white space, an
object, nothing after a NUL. `myJson.start` is not a variable: nothing reads it.

Two choices are made at the start and never change: `hurried` says whether senders
send while earlier lines are under way, or wait for a status line after the last
command; `cut` whether reception may end a buffer anywhere or only after LF.

* `AtMostOnce` and the bound on what main passes to `uttecJsonTest` (`NoOverrun`, a
  part of `JsonTypes`) hold for any sender and any cut.
* `NoTornCommand` holds for an unhurried sender and any cut. It does not hold
  for a hurried one: two lines in flight give a command made of both.
* `EveryCommandExecuted` holds for an unhurried sender whose lines arrive in one
  buffer. A cut between CR and LF loses the command: the LF alone is copied to
  the start of the frame, over the brace, if main has not looked yet. A line with
  CR and LF whose CR stops reception is therefore at risk on a slow wire.

### RelayPort

A port is the set of its bits that are 1, and each I2C transfer is an action that
may fail, after which the code carries on with what is in its buffer (the
register address 0x10, that is, relay 4). A thread's `Start` and its first
transfer are separate steps. `disturbed` records that a transfer failed or that one
thread used the expander in the middle of the other's transfers; `Settle` starts
again at the next quiet moment, taking the relays as they are.

* `RelaysAsCommanded`: outside disturbances the relays are what the commands say.
  `Obeyed` states that relay by relay and independently of the code's bit masks.
* `FactorIsPort`: likewise, a reading puts the port it names into its factor and
  changes no relay.

That disturbances exist at all is the hazard: writeOutSx has no lock, and main
polls the same expander for every status frame.

### NodeConfig

main's steps are actions down to the two pin writes of `setUartChannel`, so that
`BleSetChannel` can come between any of them, from the end of `initBle` on. The
Bluetooth handler itself is one action: it does not block and main cannot
preempt it. `number` stands for `node` and `ble`, which commands set together. A
reset may come anywhere; `nvs_write` replaces the item or leaves it; `nvs_mount`,
`nvs_read` and `nvs_write` may fail and their results are ignored.

* `PinsFollowChannel`: only a BLE command between main's two pin writes, or just
  before them, leaves pins and factors at odds; the next channel command repairs it.
* `SettingsSurvive`: what JSON commands set is found again after any reset, unless
  flash could not be read, in which case the factory settings replace them.
* `BootsOnEthernet`: `initPort` runs before `initNvm`, so the saved channel is
  not applied after a reset. The factors and the pins then differ until the next
  channel command. This states what the code does, not what one would wish.

### NodeStatus

One action per step of `sendJsonForStatus` at which main can be interrupted: the
line is filled (`Fill`), the input is read (`ReadInput`, `ReadFails`), the frame
goes to the phone (`Send`, `SendFails`), the line is printed (`PrintLine`) and the
RS485 driver is switched back (`Listen`). Inputs, the phone's channel command and
its connection change between any of them. The two values of a category are one
value; `rssi`, a counter, is left out. `turns` counts, up to two, the
reports of a category begun since its value changed or could not be read.

* `TwoTurns`: the line is filled before the reading, so it tells what was read
  a turn earlier, and after a reset what was saved. Two undisturbed turns are enough.
* `CatchUp`: a value that stays is in the end what the line and, while the phone
  stays connected, the phone is told. The rotation starves no category (it visits
  1 to 6 only because `MAX_CATEGORY` has no parentheses), failed readings
  and lost frames leave nothing behind, and a phone that is back is told everything.

### EspLink, EspSerial, EspLoop

In `EspLink` every read of `deviceConnected` in `loop_ble` is a step, since the
Bluetooth task writes it from the other core. `EspSerial` reads one character per
step into the local array; the driver drops what finds its buffer full; the JSON
library takes the object at the front and does not look behind it. `EspLoop`
calls the two in turn: lines keep arriving while `loop_ble` waits for half a
second, phones come and go while a line is being read.

* `LinesKept`: while the driver drops nothing, no command is made of two lines,
  carried out twice or out of turn, and the lines lost are exactly those that a
  call found cut or behind another. `LineDealtWith`: no line is left in the
  serial buffer for good.
* `ComesBack`: after a connection that has lasted a round of the loop the node is
  again connected or advertising. A connection that came and went between two
  looks of `loop_ble` leaves it neither, until a reset (`brief`).
* `LoopTypes` bounds the array by `MAX_DOC + 1`, one more than it has (section 5).

### EspNode

A relay command is `digitalWrite`'s two transfers, the load and store of
`relayStatus |= temp` and the assignment of the factor, of either task; a channel
command the factor and the two pins; the loop refreshes the pins every round.
A reset runs `initEeprom`, `initPort` and `initSx1509` in that order, before the
Bluetooth task exists, and is therefore one action.

* `RelaysTold`: a relay commanded since boot is as commanded, and mirror and
  factor say so, unless relay commands of both tasks overlapped. Of relays not
  commanded since boot the frames say nothing true.
* `BootsOnEthernet`: as on the nRF, the saved channel is not applied. Here the
  factor just read is overwritten too, and the next save forgets it.
* `PinsHeal`: whatever a race leaves on the pins, the refresh puts right.

### LoraSerial

The interrupt stores a byte and moves `tail`, which overtakes `head` without
notice. `sio2host_rx` compares, counts, and takes one byte; the interrupt may come
between. The committed build loads `tail` anew at each use, an optimising one
may load it once: `reload` chooses in the initial state, and both are checked. Cells
hold the number of their byte, so that what is lost, repeated or reordered shows.
Counting keeps the `uint8_t` (`W`), twice the ring, as in the code.

* `RingOrder`: bytes come out in order, none twice, and what a late main loop
  loses is whole turns of the ring. The exception is `raced`: two loads of `tail`
  that straddle its wrap hand a ring over again.
* `LinesAired`: until a turn is lost, each line is broadcast once, whole or cut to
  `MAXDATA`, in order, and nothing else happens.
* `Heals`: lost bytes may make any character of a line a command of the console, but
  the second of two lines that reach it without a gap is broadcast as it was sent.

What can follow `at=` is what the ESP32 prints (`Printed`, from `uttec.cpp`); its
names and digits hold fifteen letters of the console's switch beside `u`
(`Commands`), and `Letter` obeys them all. AT=2, 3, 7 and 8 read on (`Word`), AT=6
reads a rate and erases the record (`NewRate`), AT=E restarts the modem
(`Restart`): the ring and the console begin anew, `base` counts the bytes that came
before, and those that arrive until the port is open are lost. If the record then
holds a rate that is not the host's (`misrated`) the modem hears nothing more. No
`d`, `b`, `f` or `p` is printed, so AT=D, with its second console, cannot come out of a
line. The other commands change nothing of the ring or the console; what they do
to the settings is in `LoraModem`, and `effects` records that they were obeyed.

The data of a line is assumed to be shorter than 256 bytes (`2 * N`), so that the
index does not wrap (section 5). The ESP32's line has five numbers and their names,
at most 85 bytes.

### LoraModem

One action per console command that changes a setting. `NVM_Write_NetInfo` erases
the row (`Write`) and programs it (`Program`); `Stop` may come between. A start is
`Config` (`main` to `config_init`) and `StartNvm`. Spreading factor and output
power are treated alike by every line, so one setting stands for both.

* `SettingsKept`: after a restart each setting is as it was in use, or the default
  if it was erased since (AT=C, AT=6, a power failure while the record was
  written) and not stored again, or was set to what erased flash holds: AT=8 takes the
  PAN ID 0xffff, and a restart makes 0xabcd of it.
* `RateAsSaid`: the port starts with the rate AT=6 confirmed last, of the four
  rates `main` knows.

### LoraRadio

`Handler` is the interrupt, `RxDone` its usual moment: it overwrites the buffer whatever it holds, sets Valid
only for a good frame and starts the receiver anew. It comes between any two steps
of the main loop, which takes the packet (`Get`), judges it, prints it byte by byte
and discards it; a transmission sets the interrupt mask (`Unmask`), which lets only
TxDone through, leaves the receive mode (`Transmit`) and waits for TxDone (`Sent`). In
`UnmaskLate` a frame has ended just before the mask was set, and its interrupt comes
just after, with the receiver's mask.

* `Whole`: a printed message is the last frame as it came, unless another ended
  while it was handled; even then no byte is printed twice or out of order.
* `Delivered`: a good frame that finds the main loop free is printed, unless
  another ends first or the main loop waits for a TxDone that was masked again.

### MiWiFlood

Every modem has its number, its records, the packet waiting to be sent again and
the one received packet. `Take` records a broadcast if there is room, hands it
to the host and keeps it to be sent again, sending first the one that waits;
`Drop` is the test for copies; `Fire` the end of the random delay; `Expire` the end of
a record. Frames are heard by all neighbours or, in a lossy net, by some.

* `OnceEach`: a host is given a broadcast once, unless its modem kept no record of it
  (no room, expired, restarted); never one of its own.
* `Mistaken`: a new broadcast is dropped as a copy only after a restart of its
  modem, 256 numbers later, or because two modems have one address.
* `Reaches`: nobody farther than two hops ever has a broadcast; once the net is
  still, everybody that near has, unless a frame was lost or it was mistaken.
* `Quiet`: every broadcast dies out, records or no records: the hops see to it.

### PyBridge

Each statement of either thread that touches a global or a socket is an action;
`If`, `Clear` and `Sendall` are the three places where `SendThread` looks at the
hand-over, `SetFlag` and `SetData` the two where `ReceiveThread` makes it.

* `AtMostThrice`: whatever the interleaving, a command reaches the node at most
  three times and never after a later one. Three does happen.
* `HandedOver`: unless two hand-overs met (`overlapped`), no command is sent twice,
  and once the flag is down the node has the last one.
* `GetsThrough`: status lines, and commands once the node speaks, get through
  as long as no connection fails; the bridge does not survive a failure.

## 3. Runs

| run | states | asks |
|---|---|---|
| `uart_rx` | 450,000 | 3 heap blocks, buffers of 2, 4 bytes: ownership, refinement, liveness |
| `json` | 870,000 | 3 commands, hurried or not, cut or not |
| `relay_port` | 570,000 | 2 commands, any readings, 2 relays and a number that names none |
| `node_config` | 410,000 | 2 JSON commands, 2 BLE commands, 2 resets |
| `node_status` | 700,000 | an ADC input, the channel and the phone at will, 1 failure |
| `esp_loop` | 460,000 | 3 lines, an array of 9, a serial buffer of 11, phones at will |
| `esp_node` | 350,000 | 3 commands of either task, 2 relays and a number that names none, 3 channels, 1 reset |
| `lora_serial` | 5,140,000 | 4 lines through a ring of 2, both builds, commands taken from data, restarts |
| `lora_modem` | 160,000 | any commands, restarts and power failures, two values of each setting, the PAN ID 0xffff |
| `lora_radio` | 52,000 | 4 frames of up to 2 bytes, 2 transmissions |
| `miwi_flood` | 100,000 | a ring of 3, a pair, a line of 4; up to 3 broadcasts, 1 restart |
| `py_bridge` | 19,000 | 5 status lines, 3 commands, failing connections |

Bounds, and why they are enough:

* `uart_rx`: four owners can each hold a block, so three blocks make every
  allocation fail at some time; four bytes fill two buffers, and a line may end in
  either of them or at a boundary.
* `json`: three commands are one to disturb, one to be disturbed and one to find what
  they left behind. A line has 6 symbols, so buffers of 7 hold a line and the
  head of the next, and with `cut` every division of a line occurs.
* `relay_port`, `node_config`: two relays, one of them relay 4, tell the address
  byte in the buffer from a relay's state; two commands are one per thread. Two
  resets let a boot be interrupted and completed.
* `node_status`: the categories do not touch each other, so one changing input and one
  changing setting are enough; the others keep the rotation at its length.
* `esp_loop`: an array of 9 holds a line and half of the next, as 100 holds a long one and
  the head of the next; a buffer of 11 overflows with the second line.
* `esp_node`: channels 0 and 1 differ in a pin, 255 wires none; three commands are a race and
  one that finds what it left.
* `lora_serial`: with a ring of 2 any stretch of bytes of even length can be lost, and the
  four lines go round the ring fifteen times. Their data hold AT=6 and a rate that is not the
  host's, behind which a second line can restart the modem (AT=E), one that reads four
  characters more (AT=8), and one that acts at once (AT=1). The first two are longer
  than a packet; two whole lines may still follow a restart.
* `lora_modem`: the answers to AT=6 are unknown, known and refused rates; two values tell
  a setting from its default, and the PAN ID has a third, 0xffff. Nothing bounds the number of commands.
* `lora_radio`: the third frame can overwrite the second while the first has been
  printed, and a fourth end a transmission; frames of length 0 are the damaged ones.
* `miwi_flood`: one record and two numbers make room and numbers run out at the
  second broadcast; the ring has two ways to each modem, the line has a modem out of reach
  and one that has to relay two broadcasts at once.
* `py_bridge`: a command can overtake and be overtaken, so three commands.

Deadlock is checked except in `lora_radio`, where the main loop may wait for a masked
TxDone, `py_bridge`, where the bridge is dead after a failure, and `miwi_flood`
and `node_config`, where the system may rest.

Fairness:

* `UartRx`: interrupts are taken, the work queue and both threads run (they block
  only on the fifo and the heap), and `bt_receive_cb` frees its block.
* `JsonFrame`, `NodeStatus`: the threads run for ever; only sleeps and transfers
  hold them up.
* `EspLoop`: the Arduino core calls `loop` for ever, and the wire delivers what was
  sent. `EspNode`: both tasks finish what they began, and the loop refreshes the pins
  whenever it is at the beginning of a round.
* `LoraRadio`: the main loop and the chip go on. `MiWiFlood`: every main loop handles
  what it received, and its clock runs. `PyBridge`: both threads run.
* `NodeConfig`, `RelayPort`, `LoraSerial`, `LoraModem` state no liveness and no
  fairness.

No fairness is assumed of senders, commands, phones, frames in the air,
failures, restarts, or bytes not yet sent.

## 4. Proofs

Assumptions on the constants are the named ASSUMPTIONs of the modules. Each
proof module defines an invariant, proves that it holds initially and that every
action preserves it, one step per action, and takes its theorems from it.

* `UartRx_proofs`, in three parts.
  `UartRx`, for any heap, buffer size and number of bytes: `TypeCorrect`,
  `Ownership` (`OneOwner`) and `Reception` (`ReceiverRuns`). The invariant adds
  `DriverInv`: the driver has no buffer when it is off, has one when it is on, and
  asks for a next one only while it has none. It is what makes a refused
  `uart_rx_enable` impossible, so without it no block could be shown to be kept.
  The refinement of `ByteChannel`, `BytesInOrder` (`InOrderDelivery`): `ChannelInv`
  lays what is under way behind what `getJsonData` has had, without a gap: the
  writer's buffer, those of the fifo, the driver's (`Laid`, whose witness is the
  sequence of the places where they begin), and says that a buffer's count is the
  number of bytes it holds once it is handed over, and the reported ones before
  (`Counted`). Every step then maps to one of the channel or to a stutter.
  `JsonFrame`, for any number of commands and size of frame: `JsonTypesCorrect`
  (with it `NoOverrun`), `CarriedOutOnce` (`AtMostOnce`), `NeverTorn`
  (`NoTornCommand`). `JsonInv` keeps the halves of the commands in the order they
  were sent, through stream, buffer and frame (`InSequence`), and says that none
  carried out is still to come (`ExecutedOld`); for an unhurried sender, that
  only halves of the last command are under way (`LastOnly`).
* `RelayPort_proofs`, for any relays, numbers and any number of commands:
  `RelayTypes`, `Relays` (`RelaysAsCommanded`), `Factors` (`FactorIsPort`).
  The invariant says, of an undisturbed port, that at most one thread is in the
  middle of its transfers, that the pointer and its buffer are then its own, and
  that the relays are those intended once its command is applied to them. And
  `NodeStatus`, for any inputs, channels, phones and failures: `StatusTypesCorrect`,
  `LineTellsInTwoTurns` (`TwoTurns`), from `StatusInv`, which says for every step of a turn
  what the line, the readings and the turns counted have to do with one another.
* `NodeConfig_proofs`, for any channels, settings, commands and resets:
  `ConfigTypes`, `PinsFollow` (`PinsFollowChannel`), `EthernetAtBoot`
  (`BootsOnEthernet`), `Survive` (`SettingsSurvive`). The invariant follows the
  pins through `setUartChannel` and the settings from the command to flash and
  back: what is in flash, and after boot what is in RAM, is one of the settings a
  reset may leave.
* `EspNode_proofs`, for any relays, channels, commands and resets: `EspTypesCorrect`,
  `RelaysToldTrue` (`RelaysTold`), `AlwaysBootsOnEthernet` (`BootsOnEthernet`). `Shape`
  ties a task's next step to what it carries out; `Told` says for every step of
  `setRelay` how far port and mirror have come; `Booted` that before a channel is
  commanded all that is under way concerns channel 0. And `EspLoop` with `EspSerial`, for
  any number of lines, size of array and of serial buffer: `LoopTypesCorrect`,
  `LinesCarriedOut` (`LinesKept`). `SerialInv` gives every symbol ever sent its place:
  what is under way is in one piece (`Contiguous`); of the lines that begin before the
  place up to which finished calls have read, each is carried out or spoilt
  (`Sorted`); the commands carried out are whole lines up to there, in their order
  (`InTurn`).
* `LoraModem_proofs`, for any legal values and answers: `ModemTypesCorrect`,
  `RatePromised` (`RateAsSaid`), `SettingsComeBack` (`SettingsKept`). What is stored,
  or about to be, says what was promised, and RAM agrees with it while the modem
  runs. Likewise the row and RAM, with defaults for what is erased, both give what
  the radio uses, but for the settings in `lost`; and the channel in use is RF_CHANNEL or
  the default, which covers AT=J and AT=S, the commands that go back to RF_CHANNEL.
  And `LoraSerial`, for any lines, size of ring and packet, and speed of the main loop:
  `SerialTypesCorrect`, `BytesInTurn` (`RingOrder`), `LinesBroadcast` (`LinesAired`),
  `ConsoleHeals` (`Heals`). `RingInv`: a cell holds the newest byte of its residue
  class, `head` is where the byte handed over last leaves it, and a count of zero or a
  comparison gone stale is a whole turn or a race. Where the lines lie in the script is
  proved of `FlattenSeq` (`Layout`), by induction over its prefixes. `ConsoleInv` says at
  each byte of each line what the console is doing, by what it has seen: of this line
  all, it has left every other command by the end of it (`Settling`); the line before
  too, it is taking the data of this line (`OnTrack`); everything, the lines that have
  ended are the packets broadcast (`Aired`). The places are counted from the
  script's start, the ring from the last restart: `base` lies between the two, and what
  the console has seen of a line begins behind it. `Settling` is where each command
  matters: none reads more than four characters, of the next line at most its `at=u`, and a restart ends what was seen.
* `LoraRadio_proofs`, for any sizes and numbers of frames and transmissions:
  `RadioTypesCorrect`, `PrintedWhole` (`Whole`). The buffer holds the last frame; a
  packet is in hand only while Valid is set; and Valid is set only while the last
  frame is later than all that was printed.
* `MiWiFlood_proofs`, for any net, losses and restarts: `FloodTypesCorrect`,
  `HandedOverOnce` (`OnceEach`), `ReachedTwoHops` (`Reaches`), `TakenForAnother`
  (`Mistaken`). A packet or a record carries the address and the number its
  broadcast was sent with, so a record that is still there stops every copy;
  what was handed over is on record, or was forgotten. `SpreadInv` says where the
  copies of a broadcast can be (`Within`) and, while no frame is lost, that
  every modem one hop away has it or will take it with a hop left (`Heard`), and
  then that every modem behind it has it, holds it or will hear it (`Passed`).
  `NumberInv` says that the next number of a modem is as far from one it gave since
  its start as it has made broadcasts since, but for whole turns.
* `PyBridge_proofs`, for any number of lines and commands and any failures:
  `BridgeTypes`, `Thrice` (`AtMostThrice`), `HandOver` (`HandedOver`). The
  invariant of `Thrice` counts how often a command may still be sent from each pair of places
  of the two threads.

The types of `UartRx`, `RelayPort`, `NodeConfig`, `PyBridge`, `LoraModem`, `LoraRadio`
and `MiWiFlood` are only proved, not listed in a cfg.

Model-checked only: liveness, which the prover cannot treat under fairness
(`ReceptionResumes`, `LineDelivered`, `EveryCommandExecuted`, `CatchUp`,
`LineDealtWith`, `ComesBack`, `PinsHeal`, `Delivered`, `Quiet`, `GetsThrough`). The
library's induction theorem takes an operator and cannot be used; `LoraModem_proofs`
takes its induction over the naturals (`Induction`) from the well-foundedness of finite
sets.

## 5. What the code does against its word

Met while modelling. The properties above state what does hold; these are the
places where they had to leave something out.

* nRF and ESP32: a saved channel is not restored at boot. `initPort` runs before
  `initNvm` (`main.c:34`), and after `initEeprom`, whose factor it overwrites
  (`arduino/forWifi/whybiz/uttec.cpp:46`).
* nRF: a command whose line is cut between CR and LF can be lost (`myBle.c:646`).
* ESP32: a connection that begins and ends between two looks of `loop_ble` leaves
  the node neither connected nor advertising (`myBle.cpp:127`).
* ESP32: the character at index `MAX_DOC` is written past the end of the array, since
  it is stored before the count is compared (`myJson.cpp:91`).
* Modem: AT=6 confirms and stores 2400, 14400 and 57600, which `main.c:603` does not know
  and replaces by 115200; a refused answer erases all settings
  (`application.c:1030`).
* Modem: AT=8 accepts the PAN ID 0xffff and works with it until a restart, which takes
  it for erased and uses 0xabcd (`main.c:448`).
* Modem: AT=U says "Max 115Byte" (`application.c:150`), but its index is a `uint8_t`
  that wraps, so data beyond 255 bytes continues the packet (`application.c:859`).
  `LoraSerial` has the wrap, and assumes of the host's lines that they are shorter.
* Modem: two loads of `tail` that straddle its wrap hand a whole ring over again
  (`sio2host.c:150`), and an overflow by whole turns counts as empty.
* Modem: a byte lost from the ring can turn data into a command (`application.c:448`).
  From the ESP32's line that is enough to erase the settings (AT=C, AT=6), to change
  channel or PAN ID (AT=7, AT=8), to start test broadcasts that go on until the same
  command comes again (AT=4, AT=5), or to restart (AT=E). AT=6 with a 2, 4 or 5 behind
  it, and then a restart, leaves the modem at a rate the host does not use: from
  then on it hears no line. `Heals` is about the lines that still reach the console.
* Modem: a frame that ends while the mask for transmitting is being written
  (`radio_driver_SX1276.c:954`) has its interrupt taken right after; the handler restarts
  the receiver with a mask that holds TxDone back, and the main loop then waits for
  ever (line 972). A frame that ends later, up to the standby, is only lost: the mask
  holds RxDone back.
* Modem: the configuration has two receive banks (`ConfigSX1276.h:168`), the
  interrupt uses one (`radio_driver_SX1276.c:584`).
* Bridge: after an exception the loop goes on with the socket it has closed
  (`whybiz.py:42`).

## 6. Not modelled

* Of the nRF firmware: advertising and the reference counts of connections; the
  second NVS instance on the storage partition (`nvm.c:13`) and what the JSON
  library's descriptors do to one-byte fields (`uttec.c:25`), which depend on
  Zephyr code that is not in the repository; `uart_async_adapter.c`, which no
  board's configuration builds; the handlers nothing calls (`checkSx1509In`,
  `testRelay`).
* Of the ESP32 firmware: `myWifi.cpp`, not compiled with `BLE_PROGRAM`; the
  libraries; the readings and status frames of the other categories.
* Of the modem: joining, unicast, indirect messages and security of MiWi, and sleep;
  the console's STX/ETX mode, which AT=D enters and no line of the ESP32 can; what
  AT=4 and AT=5 have sent between the lines (`test_console` runs only while the console
  waits for the next character of `at=`, and AT=U empties the buffer they use first); the
  ESP32's lines that are not status lines (`at=7NN` and the like when a setting is changed, and
  a test line that ends without LF); what a port at another rate than the host's makes
  of its bytes; races of the interrupt and the main loop within one access to the chip. `HandleRxData` also copies what it prints to
  `error_buff_new`, eight bytes long (`application.c:81`): `LoraRadio` leaves this copy
  out, and with it what a longer message does to the variables behind.
* ASF, CMSIS, the timers, USB and SPI drivers: vendored, with no logic of this
  system, and modelled only where the modem's own code depends on them (the
  receive interrupt, the erase and program steps of the flash). They and the parts of MiWi that
  the modem does not use are by far the larger part of the repository's C code,
  which is why the lines these modules cover are a small share of it.
* Node-RED flows and App Inventor projects, which have no source code; earlier
  snapshots and sensor experiments, superseded by the above.
* What is not state: formatting of status lines, logging, pin configuration.
