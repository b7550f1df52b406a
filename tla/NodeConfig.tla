----------------------------- MODULE NodeConfig -----------------------------
(***************************************************************************)
(* The settings of the nRF node (nordic/whybizBle/src: main.c, uttec.c,    *)
(* nvm.c, procRxBle in myBle.c): the factors in RAM, their copy in flash   *)
(* and the two select pins that wire the UART to Ethernet, RS485 or LoRa.  *)
(*                                                                         *)
(* main boots (initBle, initPort, initNvm, in this order) and then carries *)
(* out JSON commands.  The Bluetooth receive thread can run between any    *)
(* two of its steps from the end of initBle on, before the factors have    *)
(* been read from flash as well; its own handler is never interrupted by   *)
(* main.  The node may be reset at any moment, and flash calls may fail:   *)
(* their results are ignored.                                              *)
(***************************************************************************)
EXTENDS Integers

CONSTANTS
  JsonChannels, \* "se" of channel commands by JSON
  BleChannels,  \* second byte of channel commands by BLE, one more than the channel
  Settings,     \* the other settings' values
  MaxJson, MaxBle, MaxResets,  \* bounds
  MayFail       \* whether flash calls may fail

ASSUMPTION ConfigAssumption ==
  /\ JsonChannels \subseteq 0..255 /\ BleChannels \subseteq 0..255
  /\ Settings \subseteq 0..255 /\ MaxJson \in Nat /\ MaxBle \in Nat
  /\ MaxResets \in Nat /\ MayFail \in BOOLEAN

Factors == [flag : BOOLEAN, channel : 0..255, lora_ch : 0..255, power : 0..255,
            version : 0..255, number : 0..255]

Zero    == [flag |-> FALSE, channel |-> 0, lora_ch |-> 0, power |-> 0,
            version |-> 0, number |-> 0]

\* number stands for node and ble, which commands set to the same value.
Factory == [flag |-> TRUE, channel |-> 0, lora_ch |-> 20, power |-> 16,
            version |-> 1, number |-> 111]

VARIABLES
  ram,      \* myWhybiz: the factors
  flash,    \* the item UTTEC_ID, or Zero while it does not exist
  select,   \* the logical levels of the pins select2 and select1
  pc,       \* where main is
  arg,      \* setUartChannel's channel
  booting,  \* main is still in its initialisation
  chosen,   \* History: has a channel been commanded since boot: "no", "early"
            \* (by BLE, before the factors were read) or "yes"
  crossed,  \* History: the last channel command came by BLE while main was setting the pins
  kept,     \* History: the settings that may be found in flash
  lostRead, \* History: flash could not be read although the item exists
  json, ble, resets   \* counters

node    == <<ram, flash, select, pc, arg, booting>>
history == <<chosen, crossed, kept, lostRead>>
bounds  == <<json, ble, resets>>
vars    == <<node, history, bounds>>

Idle == pc = "idle"

(* What only JSON commands set. *)
Other(f) == [f EXCEPT !.channel = 0]

(* The levels setUartChannel(c) leaves, and that it leaves none for c > 3. *)
Wired == 0..3
Levels(c) == [select2 |-> IF c \in {0, 1} THEN 1 ELSE 0,
              select1 |-> IF c \in {0, 2} THEN 1 ELSE 0]

(* What gpio_pin_configure_dt or a reset can leave. *)
High == [select2 |-> 1, select1 |-> 1]
Low  == [select2 |-> 0, select1 |-> 0]

Init ==
  /\ ram = Zero /\ flash = Zero /\ select \in {High, Low}
  /\ pc = "initBle" /\ arg = 0 /\ booting = TRUE
  /\ chosen = "no" /\ crossed = FALSE /\ kept = {Other(Zero)} /\ lostRead = FALSE
  /\ json = 0 /\ ble = 0 /\ resets = 0

-----------------------------------------------------------------------------
(* Mutant: the saved factors are already there. *)
InitBleReads ==
  /\ pc = "initBle" /\ pc' = "initPort" /\ ram' = flash
  /\ UNCHANGED <<flash, select, arg, booting, history, bounds>>

(* Boot. *)
InitBle ==
  /\ pc = "initBle" /\ pc' = "initPort"
  /\ UNCHANGED <<ram, flash, select, arg, booting, history, bounds>>

InitPort ==
  /\ pc = "initPort" /\ pc' = "setUartChannel"
  /\ select' = High
  /\ UNCHANGED <<ram, flash, arg, booting, history, bounds>>

(* The factors are read over whatever they were, or, when the item does not    *)
(* exist or cannot be read, set to the factory's and written.                  *)
Read(found) ==
  \/ found.flag /\ ram' = found /\ UNCHANGED <<flash, kept, lostRead>>
  \/ /\ ~found.flag /\ ram' = Factory /\ lostRead' = (lostRead \/ flash.flag)
     /\ \/ flash' = Factory /\ kept' = {Other(Factory)}
        \/ MayFail /\ UNCHANGED flash /\ kept' = kept \cup {Other(Factory)}

(* Mutant: the flag is not looked at. *)
InitNvmAfresh ==
  /\ pc = "initNvm" /\ pc' = "idle" /\ booting' = FALSE
  /\ ram' = Factory /\ flash' = Factory
  /\ UNCHANGED <<select, arg, chosen, crossed, kept, lostRead, bounds>>

InitNvm ==
  /\ pc = "initNvm" /\ pc' = "idle" /\ booting' = FALSE
  /\ Read(flash) \/ (MayFail /\ Read(Zero))
  /\ UNCHANGED <<select, arg, chosen, crossed, bounds>>

-----------------------------------------------------------------------------
(* setUartChannel as main calls it: the argument, select2, select1. *)
Call ==
  /\ pc = "setUartChannel" /\ arg' = ram.channel /\ crossed' = FALSE
  /\ pc' = IF ram.channel \in Wired THEN "select2" ELSE "return"
  /\ UNCHANGED <<ram, flash, select, booting, chosen, kept, lostRead, bounds>>

Select2 ==
  /\ pc = "select2" /\ pc' = "select1"
  /\ select' = [select EXCEPT !.select2 = Levels(arg).select2]
  /\ UNCHANGED <<ram, flash, arg, booting, history, bounds>>

Select1 ==
  /\ pc = "select1" /\ pc' = "return"
  /\ select' = [select EXCEPT !.select1 = Levels(arg).select1]
  /\ UNCHANGED <<ram, flash, arg, booting, history, bounds>>

Return ==
  /\ pc = "return" /\ pc' = IF booting THEN "initNvm" ELSE "save"
  /\ UNCHANGED <<ram, flash, select, arg, booting, history, bounds>>

-----------------------------------------------------------------------------
(* uttecJsonTest's commands; each ends with Save. *)
Command(f) ==
  /\ Idle /\ json < MaxJson /\ json' = json + 1
  /\ ram' = f /\ kept' = kept \cup {Other(f)}
  /\ UNCHANGED <<flash, select, arg, booting, crossed, lostRead, ble, resets>>

JsonSetLora ==
  /\ \E s \in Settings : Command([ram EXCEPT !.power = s])
  /\ pc' = "save" /\ UNCHANGED chosen

JsonSetVersion ==
  /\ \E s, t \in Settings : Command([ram EXCEPT !.version = s, !.number = t])
  /\ pc' = "save" /\ UNCHANGED chosen

(* Mutant: the pins are left for the next boot. *)
JsonSetChannelSaved ==
  /\ \E c \in JsonChannels, s \in Settings :
       Command([ram EXCEPT !.channel = c, !.lora_ch = s])
  /\ pc' = "save" /\ chosen' = "yes"

JsonSetChannel ==
  /\ \E c \in JsonChannels, s \in Settings :
       Command([ram EXCEPT !.channel = c, !.lora_ch = s])
  /\ pc' = "setUartChannel" /\ chosen' = "yes"

(* saveFactorToFlash: nvs_write replaces the item or, interrupted or refused, does not. *)
Save ==
  /\ pc = "save" /\ pc' = "idle"
  /\ \/ flash' = ram /\ kept' = {Other(ram)}
     \/ MayFail /\ UNCHANGED <<flash, kept>>
  /\ UNCHANGED <<ram, select, arg, booting, chosen, crossed, lostRead, bounds>>

-----------------------------------------------------------------------------

(* procRxBle, CTR_CHANNEL: nothing is saved, and main may be anywhere. *)
BleSetChannel ==
  /\ pc # "initBle" /\ ble < MaxBle /\ ble' = ble + 1
  /\ \E b \in BleChannels :
       LET c == (b + 255) % 256
       IN  /\ ram' = [ram EXCEPT !.channel = c]
           /\ select' = IF c \in Wired THEN Levels(c) ELSE select
  /\ chosen' = IF booting THEN "early" ELSE "yes"
  /\ crossed' = (pc \in {"select2", "select1"})
  /\ UNCHANGED <<flash, pc, arg, booting, kept, lostRead, json, resets>>

Reset ==
  /\ resets < MaxResets /\ resets' = resets + 1
  /\ ram' = Zero /\ pc' = "initBle" /\ arg' = 0 /\ booting' = TRUE
  /\ chosen' = "no" /\ crossed' = FALSE
  /\ select' \in {select, High, Low}
  /\ UNCHANGED <<flash, kept, lostRead, json, ble>>

-----------------------------------------------------------------------------
Boot == InitBle \/ InitPort \/ InitNvm
Set  == Call \/ Select2 \/ Select1 \/ Return
Json == JsonSetLora \/ JsonSetVersion \/ JsonSetChannel
Next == Boot \/ Set \/ Json \/ Save \/ BleSetChannel \/ Reset

Spec == Init /\ [][Next]_vars

-----------------------------------------------------------------------------
TypeOK ==
  /\ ram \in Factors /\ flash \in Factors
  /\ select \in [select2 : 0..1, select1 : 0..1]
  /\ pc \in {"initBle", "initPort", "setUartChannel", "select2", "select1",
             "return", "initNvm", "idle", "save"}
  /\ arg \in 0..255 /\ booting \in BOOLEAN
  /\ chosen \in {"no", "early", "yes"} /\ crossed \in BOOLEAN /\ lostRead \in BOOLEAN
  /\ json \in Nat /\ ble \in Nat /\ resets \in Nat

(* Once a channel has been commanded after boot, by JSON or by BLE, the pins  *)
(* wire up the channel the factors name, unless the last BLE command came     *)
(* while main was setting the pins: one between main's assignment and its     *)
(* call, or after the pins are set, does no harm (uttecJsonTest, procRxBle).  *)
PinsFollowChannel ==
  Idle /\ chosen = "yes" /\ ~crossed /\ ram.channel \in Wired => select = Levels(ram.channel)

(* The settings that only JSON commands change are, in the idle node, those   *)
(* of the last command that was saved, or of a later one that has not been:   *)
(* no reset, no failed write and no BLE command at any moment brings back     *)
(* older ones or mixes two, as long as the item can be read.                  *)
SettingsSurvive == Idle /\ ~lostRead => Other(ram) \in kept

(* initPort calls setUartChannel before initNvm has read the factors: until a *)
(* channel is commanded the node is wired to Ethernet, whatever channel was   *)
(* saved and whatever the pins were before the reset.                         *)
BootsOnEthernet == Idle /\ chosen = "no" => select = Levels(0)
=============================================================================
