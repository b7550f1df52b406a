------------------------------ MODULE EspNode ------------------------------
(***************************************************************************)
(* Relays, settings and UART selection of the ESP32 node                   *)
(* (arduino/forWifi/whybiz: uttec.cpp, sx1509Lib.cpp, myJson.cpp and       *)
(* onWrite in myBle.cpp, built with BLE_PROGRAM).  Commands are carried    *)
(* out by two tasks on two cores without a lock: the Arduino loop, from    *)
(* JSON lines, and the Bluetooth task.  The relays are mirrored in         *)
(* relayStatus, which is never read back from the port expander, and in a  *)
(* factor that is saved and restored with the others.                      *)
(*                                                                         *)
(* A port is the set of its bits that are 1.  External: the SX1509         *)
(* library, whose digitalWrite reads and rewrites the port in two          *)
(* transfers and whose begin leaves the outputs all low or all high; the   *)
(* flash, which holds the old item or the new one.                         *)
(***************************************************************************)
EXTENDS Naturals

CONSTANTS Bits,        \* relay numbers, a part of 0..7
          BadBits,     \* numbers a command may carry that name no relay
          Channels,    \* channels a command may carry
          MaxCommands, MaxResets \* bounds

ASSUMPTION EspAssumption ==
  /\ Bits \subseteq 0..7 /\ BadBits \cap 0..7 = {} /\ Channels \subseteq 0..255
  /\ MaxCommands \in Nat /\ MaxResets \in Nat

Tasks == {"loop", "ble"}

VARIABLES
  port,        \* the expander's outputs
  relayStatus, \* their mirror
  relay, channel, \* pFactor->relay and pFactor->channel
  flash,       \* these two as saved
  sel,         \* levels of the pins SEL2 and SEL1
  pc, op, buf, \* per task: its next step, what it carries out, its register
  touched, wanted, \* History: relays commanded since boot or since two relay
                   \* commands overlapped, and those of them that were switched on
  overlapped,  \* History: relay commands of both tasks are, or were, under way at once
  chosen,      \* History: a channel has been commanded since boot
  commands, resets \* counters

relays  == <<port, relayStatus, relay>>
uart    == <<channel, sel>>
history == <<touched, wanted, overlapped, chosen>>
bounds  == <<commands, resets>>
vars    == <<relays, uart, flash, pc, op, buf, history, bounds>>

Nothing == [kind |-> "none"]
Relay(b, o) == [kind |-> "relay", bit |-> b, on |-> o]
Channel(c)  == [kind |-> "channel", channel |-> c]
Refresh(c)  == [kind |-> "refresh", channel |-> c]

(* The cases of setUartChannel and dispUartChannel. *)
Wired == 0..3
Levels(c) == [sel2 |-> IF c \in {2, 3} THEN 1 ELSE 0, sel1 |-> IF c \in {1, 3} THEN 1 ELSE 0]

WithBit(set, o) ==
  IF o.bit \notin Bits THEN set
  ELSE IF o.on THEN set \cup {o.bit} ELSE set \ {o.bit}

(* initEeprom, initPort and initSx1509: nothing runs beside them, since the *)
(* Bluetooth task is started last.  A first start saves the factory's zeros. *)
Boot(saved) ==
  /\ flash' = saved /\ relay' = saved.relay
  /\ channel' = 0 /\ sel' = Levels(0)
  /\ port' \in {{}, Bits} /\ relayStatus' = {}
  /\ pc' = [t \in Tasks |-> "idle"] /\ op' = [t \in Tasks |-> Nothing]
  /\ buf' = [t \in Tasks |-> {}]
  /\ touched' = {} /\ wanted' = {} /\ overlapped' = FALSE /\ chosen' = FALSE

Init ==
  /\ flash = [relay |-> {}, channel |-> 0] /\ relay = {}
  /\ channel = 0 /\ sel = Levels(0)
  /\ port \in {{}, Bits} /\ relayStatus = {}
  /\ pc = [t \in Tasks |-> "idle"] /\ op = [t \in Tasks |-> Nothing]
  /\ buf = [t \in Tasks |-> {}]
  /\ touched = {} /\ wanted = {} /\ overlapped = FALSE /\ chosen = FALSE
  /\ commands = 0 /\ resets = 0

Go(t, step) == pc' = [pc EXCEPT ![t] = step]
Done(t) == Go(t, "idle") /\ op' = [op EXCEPT ![t] = Nothing] /\ buf' = [buf EXCEPT ![t] = {}]

-----------------------------------------------------------------------------
(* A relay command, in parseReceiveJson or onWrite, calls setRelay. *)
StartRelay(t) ==
  /\ pc[t] = "idle" /\ Go(t, "read") /\ commands < MaxCommands /\ commands' = commands + 1
  /\ \E b \in Bits \cup BadBits, o \in BOOLEAN :
       /\ op' = [op EXCEPT ![t] = Relay(b, o)]
       /\ touched' = touched \cup ({b} \cap Bits)
       /\ wanted' = WithBit(wanted, Relay(b, o))
  /\ overlapped' = (overlapped \/ \E u \in Tasks : op[u].kind = "relay")
  /\ UNCHANGED <<relays, uart, flash, buf, chosen, resets>>

(* io.digitalWrite. *)
ReadPort(t) ==
  /\ pc[t] = "read" /\ Go(t, "write") /\ buf' = [buf EXCEPT ![t] = port]
  /\ UNCHANGED <<relays, uart, flash, op, history, bounds>>

WritePort(t) ==
  /\ pc[t] = "write" /\ Go(t, "load") /\ port' = WithBit(buf[t], op[t])
  /\ UNCHANGED <<relayStatus, relay, uart, flash, op, buf, history, bounds>>

(* relayStatus |= temp or &= ~temp; a number above 7 is shifted out. *)
LoadMirror(t) ==
  /\ pc[t] = "load" /\ Go(t, "store") /\ buf' = [buf EXCEPT ![t] = relayStatus]
  /\ UNCHANGED <<relays, uart, flash, op, history, bounds>>

(* Mutant: the bit is only ever set. *)
StoreSet(t) ==
  /\ pc[t] = "store" /\ Go(t, "factor")
  /\ relayStatus' = buf[t] \cup ({op[t].bit} \cap Bits)
  /\ buf' = [buf EXCEPT ![t] = relayStatus']
  /\ UNCHANGED <<port, relay, uart, flash, op, history, bounds>>

(* Mutant: the mirror is wider than a byte. *)
StoreWide(t) ==
  /\ pc[t] = "store" /\ Go(t, "factor")
  /\ relayStatus' = IF op[t].on THEN buf[t] \cup {op[t].bit} ELSE buf[t] \ {op[t].bit}
  /\ buf' = [buf EXCEPT ![t] = relayStatus']
  /\ UNCHANGED <<port, relay, uart, flash, op, history, bounds>>

StoreMirror(t) ==
  /\ pc[t] = "store" /\ Go(t, "factor") /\ relayStatus' = WithBit(buf[t], op[t])
  /\ buf' = [buf EXCEPT ![t] = relayStatus']
  /\ UNCHANGED <<port, relay, uart, flash, op, history, bounds>>

(* pFactor->relay = relayStatus, which the compiler may still have at hand. *)
SetFactor(t) ==
  /\ pc[t] = "factor" /\ Done(t) /\ relay' \in {relayStatus, buf[t]}
  /\ UNCHANGED <<port, relayStatus, uart, flash, history, bounds>>

-----------------------------------------------------------------------------
(* A channel command: onWrite calls setUartChannel at once, parseReceiveJson *)
(* after it has set the factor, which it reads again for the call.           *)
StartChannel(t) ==
  /\ pc[t] = "idle" /\ commands < MaxCommands /\ commands' = commands + 1
  /\ \E c \in Channels :
       /\ op' = [op EXCEPT ![t] = Channel(c)]
       /\ IF t = "loop" THEN channel' = c /\ Go(t, "call")
                        ELSE Go(t, "set") /\ UNCHANGED channel
  /\ chosen' = TRUE
  /\ UNCHANGED <<relays, sel, flash, buf, touched, wanted, overlapped, resets>>

CallWithFactor ==
  /\ pc["loop"] = "call" /\ Go("loop", "set")
  /\ op' = [op EXCEPT !["loop"] = Channel(channel)]
  /\ UNCHANGED <<relays, uart, flash, buf, history, bounds>>

AfterPins(t) ==
  CASE op[t].kind = "refresh" -> "idle"
    [] op[t].kind = "channel" /\ t = "loop" -> "save"
    [] op[t].kind = "channel" /\ t = "ble" -> "assign"

(* setUartChannel: the factor, SEL2, SEL1. *)
SetChannel(t) ==
  /\ pc[t] = "set" /\ channel' = op[t].channel
  /\ Go(t, IF op[t].channel \in Wired THEN "sel2" ELSE AfterPins(t))
  /\ UNCHANGED <<relays, sel, flash, op, buf, history, bounds>>

Sel2(t) ==
  /\ pc[t] = "sel2" /\ Go(t, "sel1")
  /\ sel' = [sel EXCEPT !.sel2 = Levels(op[t].channel).sel2]
  /\ UNCHANGED <<relays, channel, flash, op, buf, history, bounds>>

Sel1(t) ==
  /\ pc[t] = "sel1" /\ Go(t, AfterPins(t))
  /\ sel' = [sel EXCEPT !.sel1 = Levels(op[t].channel).sel1]
  /\ op' = IF op[t].kind = "refresh" THEN [op EXCEPT ![t] = Nothing] ELSE op
  /\ UNCHANGED <<relays, channel, flash, buf, history, bounds>>

(* onWrite assigns the factor once more. *)
Assign ==
  /\ pc["ble"] = "assign" /\ channel' = op["ble"].channel /\ Done("ble")
  /\ UNCHANGED <<relays, sel, flash, history, bounds>>

(* Other settings by JSON, of no effect here but that all factors are saved. *)
StartSave ==
  /\ pc["loop"] = "idle" /\ commands < MaxCommands /\ commands' = commands + 1
  /\ Go("loop", "save")
  /\ UNCHANGED <<relays, uart, flash, op, buf, history, resets>>

(* saveFactorToFlash. *)
Save ==
  /\ pc["loop"] = "save" /\ Done("loop")
  /\ flash' = [relay |-> relay, channel |-> channel]
  /\ UNCHANGED <<relays, uart, history, bounds>>

(* Mutant: the pins are refreshed for channels 1 to 3 only. *)
RefreshSome ==
  /\ pc["loop"] = "idle"
  /\ IF channel \in Wired \ {0}
       THEN op' = [op EXCEPT !["loop"] = Refresh(channel)] /\ Go("loop", "sel2")
       ELSE UNCHANGED <<op, pc>>
  /\ UNCHANGED <<relays, uart, flash, buf, history, bounds>>

(* dispUartChannel, in every round of loop. *)
StartRefresh ==
  /\ pc["loop"] = "idle"
  /\ IF channel \in Wired
       THEN op' = [op EXCEPT !["loop"] = Refresh(channel)] /\ Go("loop", "sel2")
       ELSE UNCHANGED <<op, pc>>
  /\ UNCHANGED <<relays, uart, flash, buf, history, bounds>>

-----------------------------------------------------------------------------
(* Mutant: the ports are set up first and the factors are read over them. *)
ResetPortsFirst ==
  /\ resets < MaxResets /\ resets' = resets + 1 /\ UNCHANGED commands
  /\ flash' = flash /\ relay' = flash.relay
  /\ channel' = flash.channel /\ sel' = Levels(0)
  /\ port' \in {{}, Bits} /\ relayStatus' = {}
  /\ pc' = [t \in Tasks |-> "idle"] /\ op' = [t \in Tasks |-> Nothing]
  /\ buf' = [t \in Tasks |-> {}]
  /\ touched' = {} /\ wanted' = {} /\ overlapped' = FALSE /\ chosen' = FALSE

Reset ==
  /\ resets < MaxResets /\ resets' = resets + 1 /\ UNCHANGED commands
  /\ Boot(flash)

(* History: once an overlap is over, the count starts again. *)
Settle ==
  /\ overlapped /\ \A t \in Tasks : op[t].kind # "relay"
  /\ overlapped' = FALSE /\ touched' = {} /\ wanted' = {}
  /\ UNCHANGED <<relays, uart, flash, pc, op, buf, chosen, bounds>>

-----------------------------------------------------------------------------
SetRelay(t)       == ReadPort(t) \/ WritePort(t) \/ LoadMirror(t) \/ StoreMirror(t) \/ SetFactor(t)
SetUartChannel(t) == SetChannel(t) \/ Sel2(t) \/ Sel1(t)
Steps(t)          == SetRelay(t) \/ SetUartChannel(t)
Loop == Steps("loop") \/ CallWithFactor \/ Save
Ble  == Steps("ble") \/ Assign

Next ==
  \/ \E t \in Tasks : StartRelay(t) \/ StartChannel(t)
  \/ StartSave \/ StartRefresh \/ Loop \/ Ble \/ Reset \/ Settle

Spec     == Init /\ [][Next]_vars
FairSpec == Spec /\ WF_vars(Loop) /\ WF_vars(Ble) /\ WF_vars(StartRefresh)

-----------------------------------------------------------------------------
TypeOK ==
  /\ port \subseteq Bits /\ relayStatus \subseteq Bits /\ relay \subseteq Bits
  /\ channel \in {0} \cup Channels /\ sel \in [sel2 : 0..1, sel1 : 0..1]
  /\ flash \in [relay : SUBSET Bits, channel : {0} \cup Channels]
  /\ pc \in [Tasks -> {"idle", "read", "write", "load", "store", "factor",
                       "call", "set", "sel2", "sel1", "assign", "save"}]
  /\ op \in [Tasks -> {Nothing}
                      \cup [kind : {"relay"}, bit : Bits \cup BadBits, on : BOOLEAN]
                      \cup [kind : {"channel", "refresh"}, channel : {0} \cup Channels]]
  /\ buf \in [Tasks -> SUBSET Bits]
  /\ touched \subseteq Bits /\ wanted \subseteq Bits
  /\ overlapped \in BOOLEAN /\ chosen \in BOOLEAN
  /\ commands \in Nat /\ resets \in Nat

(* A relay that has been commanded since boot is as commanded, and the mirror  *)
(* and the factor, for the status frames of both links, say so, unless relay   *)
(* commands of both tasks overlapped.  Of the others they say nothing true: a  *)
(* reset leaves the mirror empty, the factor as saved and the outputs as the   *)
(* library sets them (setRelay).                                               *)
RelaysTold ==
  ~overlapped /\ (\A t \in Tasks : op[t].kind # "relay") =>
    /\ port \cap touched = wanted
    /\ relayStatus \cap touched = wanted
    /\ touched # {} => relay = relayStatus

(* A saved channel is not restored: initPort selects Ethernet after initEeprom *)
(* has read the factors, and setUartChannel overwrites the one just read, so   *)
(* that the next save, of any setting, forgets it (initUttec).                 *)
BootsOnEthernet ==
  ~chosen => channel = 0 /\ sel = Levels(0)

(* Whatever the two tasks did to the pins, once no channel is commanded any  *)
(* more the pins come to wire the channel the factors name (dispUartChannel). *)
PinsHeal ==
  \A c \in Wired : <>[](channel = c) => <>[](sel = Levels(c))
=============================================================================
