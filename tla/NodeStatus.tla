----------------------------- MODULE NodeStatus -----------------------------
(***************************************************************************)
(* What the nRF node tells about itself (sendJsonForStatus in uttec.c, the *)
(* proc...TxBle functions in myBle.c, adc.c): every second round of main   *)
(* reports one category, in turn, to both links.  The JSON line is filled  *)
(* from the factors first; then the inputs are read into the factors and a *)
(* frame made of those goes to the phone; then the line is printed.  So    *)
(* the line of an input is one turn behind the frame.                      *)
(*                                                                         *)
(* A category's two values are one value here, and the counter rssi, which *)
(* the LoRa category reports beside the power, is not part of it.  Main is *)
(* split where it sleeps or waits for a device; the Bluetooth thread runs  *)
(* between these steps.  The counters' wrap after 2^32 reports is left out.*)
(***************************************************************************)
EXTENDS Naturals

CONSTANTS Values,    \* what a category's factors can be
          Still,     \* the one of the categories that do not change
          Changing,  \* the categories whose values change
          MaxFails   \* bound on failed readings and lost frames

ADC_DEVICE     == 1
SWITCH_DEVICE  == 2
RELAY_DEVICE   == 3
CHANNEL_DEVICE == 6       \* 4 and 5: LORA_DEVICE and VERSION_DEVICE

Category == ADC_DEVICE..CHANNEL_DEVICE
Sensed   == {ADC_DEVICE, SWITCH_DEVICE, RELAY_DEVICE}

ASSUMPTION StatusAssumption ==
  Still \in Values /\ Changing \subseteq Category /\ MaxFails \in Nat

VARIABLES
  input,      \* what the inputs and the relays really are
  pFactor,    \* the factors, by category
  step,       \* main: "delay", "read", "send", "tx" or "rx"
  count,      \* sendJsonForStatus's count % 2
  sendCount,  \* its sendCount % CHANNEL_DEVICE
  frame,      \* myWhybizFrame: category and value
  rs485_en,   \* the RS485 driver is switched to "tx" or "rx"
  ble,        \* pFlags->ble
  line,       \* per category, the last JSON line
  phone,      \* per category, the last frame sent to the phone
  turns,      \* History: reports begun since the value last changed, up to 2
  fails       \* failed readings and lost frames

outside == <<line, phone>>
statusVars == <<input, pFactor, step, count, sendCount, frame, rs485_en, ble, outside, turns, fails>>

(* The value of a category: an input's is outside, a setting's is the factor.  *)
Actual(c) == IF c \in Sensed THEN input[c] ELSE pFactor[c]

(* After boot: the factors are those saved last, whatever the inputs are now. *)
Resting(f) == \A c \in Category \ Changing : f[c] = Still
StatusInit ==
  /\ pFactor \in [Category -> Values] /\ Resting(pFactor)
  /\ input \in [Sensed -> Values] /\ \A c \in Sensed \ Changing : input[c] = Still
  /\ step = "delay" /\ count = 0 /\ sendCount = 0
  /\ frame = [category |-> 0, value |-> Still]
  /\ rs485_en = "rx" /\ ble = FALSE
  /\ line = [c \in Category |-> Still] /\ phone = [c \in Category |-> Still]
  /\ turns = [c \in Category |-> 0] /\ fails = 0

-----------------------------------------------------------------------------
(* An input changes, or a relay is switched. *)
InputChanges ==
  /\ \E c \in Sensed \cap Changing, v \in Values :
       /\ v # input[c] /\ input' = [input EXCEPT ![c] = v]
       /\ turns' = [turns EXCEPT ![c] = 0]
  /\ UNCHANGED <<pFactor, step, count, sendCount, frame, rs485_en, ble, outside, fails>>

(* A command sets a setting: the phone the channel at any time, main any. *)
SettingChanges ==
  /\ \E c \in Changing \ Sensed, v \in Values :
       /\ step = "delay" \/ (c = CHANNEL_DEVICE /\ ble)
       /\ v # pFactor[c] /\ pFactor' = [pFactor EXCEPT ![c] = v]
       /\ turns' = [turns EXCEPT ![c] = 0]
  /\ UNCHANGED <<input, step, count, sendCount, frame, rs485_en, ble, outside, fails>>

Connected ==
  /\ ~ble /\ ble' = TRUE
  /\ UNCHANGED <<input, pFactor, step, count, sendCount, frame, rs485_en, outside, turns, fails>>

Disconnected ==
  /\ ble /\ ble' = FALSE
  /\ UNCHANGED <<input, pFactor, step, count, sendCount, frame, rs485_en, outside, turns, fails>>

-----------------------------------------------------------------------------
(* sendJsonForStatus is called and has nothing to report. *)
Skip ==
  /\ step = "delay" /\ count = 1 /\ count' = 0
  /\ UNCHANGED <<input, pFactor, step, sendCount, frame, rs485_en, ble, outside, turns, fails>>

(* Mutant: the rotation is one short. *)
WhoShort == (sendCount % (CHANNEL_DEVICE - 1)) + 1

(* sendCount++ % MAX_CATEGORY, which is sendCount++ % CHANNEL_DEVICE + 1. *)
Who == (sendCount % CHANNEL_DEVICE) + 1

(* Mutant: seven categories are counted, as MAX_CATEGORY reads. *)
FillSeven ==
  /\ step = "delay" /\ count = 0 /\ count' = 1
  /\ sendCount' = (sendCount + 1) % (CHANNEL_DEVICE + 1)
  /\ frame' = [category |-> Who, value |-> pFactor[Who]]
  /\ turns' = [turns EXCEPT ![Who] = IF @ < 2 THEN @ + 1 ELSE 2]
  /\ step' = IF Who \in Sensed THEN "read" ELSE "send"
  /\ UNCHANGED <<input, pFactor, rs485_en, ble, outside, fails>>

(* Mutant: the frame has the values of the category reported before. *)
FillBefore ==
  /\ step = "delay" /\ count = 0 /\ count' = 1
  /\ sendCount' = (sendCount + 1) % CHANNEL_DEVICE
  /\ frame' = [category |-> Who,
               value |-> pFactor[IF frame.category = 0 THEN Who ELSE frame.category]]
  /\ turns' = [turns EXCEPT ![Who] = IF @ < 2 THEN @ + 1 ELSE 2]
  /\ step' = IF Who \in Sensed THEN "read" ELSE "send"
  /\ UNCHANGED <<input, pFactor, rs485_en, ble, outside, fails>>

(* The line is filled; what the category needs is read next. *)
Fill ==
  /\ step = "delay" /\ count = 0 /\ count' = 1
  /\ sendCount' = (sendCount + 1) % CHANNEL_DEVICE
  /\ frame' = [category |-> Who, value |-> pFactor[Who]]
  /\ turns' = [turns EXCEPT ![Who] = IF @ < 2 THEN @ + 1 ELSE 2]
  /\ step' = IF Who \in Sensed THEN "read" ELSE "send"
  /\ UNCHANGED <<input, pFactor, rs485_en, ble, outside, fails>>

(* readAdcValue, readSxSw or readSxRelay. *)
ReadInput ==
  /\ step = "read" /\ step' = "send"
  /\ pFactor' = [pFactor EXCEPT ![frame.category] = input[frame.category]]
  /\ UNCHANGED <<input, count, sendCount, frame, rs485_en, ble, outside, turns, fails>>

(* They fail: the ADC's factors stay; the switches' or relays' become the      *)
(* register address still in the buffer or what another register holds.       *)
ReadFails ==
  /\ step = "read" /\ step' = "send"
  /\ fails < MaxFails /\ fails' = fails + 1
  /\ \/ frame.category = ADC_DEVICE /\ UNCHANGED pFactor
     \/ /\ frame.category # ADC_DEVICE
        /\ \E v \in Values : pFactor' = [pFactor EXCEPT ![frame.category] = v]
  /\ turns' = [turns EXCEPT ![frame.category] = 0]
  /\ UNCHANGED <<input, count, sendCount, frame, rs485_en, ble, outside>>

(* sendToMobile if the phone is there, then the RS485 driver is switched on. *)
Send ==
  /\ step = "send" /\ step' = "tx"
  /\ phone' = IF ble THEN [phone EXCEPT ![frame.category] = pFactor[frame.category]] ELSE phone
  /\ rs485_en' = "tx"
  /\ UNCHANGED <<input, pFactor, count, sendCount, frame, ble, line, turns, fails>>

(* The Bluetooth stack does not take the frame: it is logged and lost. *)
SendFails ==
  /\ step = "send" /\ step' = "tx"
  /\ ble /\ fails < MaxFails /\ fails' = fails + 1
  /\ rs485_en' = "tx"
  /\ UNCHANGED <<input, pFactor, count, sendCount, frame, ble, outside, turns>>

(* The line is printed 1 ms later. *)
PrintLine ==
  /\ step = "tx" /\ step' = "rx"
  /\ line' = [line EXCEPT ![frame.category] = frame.value]
  /\ UNCHANGED <<input, pFactor, count, sendCount, frame, rs485_en, ble, phone, turns, fails>>

(* The driver is switched off 5 ms after that. *)
Listen ==
  /\ step = "rx" /\ step' = "delay"
  /\ rs485_en' = "rx"
  /\ UNCHANGED <<input, pFactor, count, sendCount, frame, ble, outside, turns, fails>>

-----------------------------------------------------------------------------
Main == Skip \/ Fill \/ ReadInput \/ ReadFails \/ Send \/ SendFails \/ PrintLine \/ Listen
StatusNext == InputChanges \/ SettingChanges \/ Connected \/ Disconnected \/ Main

(* main never blocks for ever. *)
StatusSpec     == StatusInit /\ [][StatusNext]_statusVars
FairStatusSpec == StatusSpec /\ WF_statusVars(Main)

-----------------------------------------------------------------------------
StatusTypes ==
  /\ input \in [Sensed -> Values] /\ pFactor \in [Category -> Values]
  /\ step \in {"delay", "read", "send", "tx", "rx"}
  /\ count \in 0..1 /\ sendCount \in 0..(CHANNEL_DEVICE - 1)
  /\ frame \in [category : 0..CHANNEL_DEVICE, value : Values]
  /\ rs485_en \in {"tx", "rx"} /\ ble \in BOOLEAN
  /\ line \in [Category -> Values] /\ phone \in [Category -> Values]
  /\ turns \in [Category -> 0..2] /\ fails \in Nat

(* Although the line is filled before the inputs are read, and the factors    *)
(* start with what was saved before a reset, two whole turns without a change *)
(* and without a failed reading are enough for the line to say what is.       *)
Reporting(c) == step # "delay" /\ frame.category = c
TwoTurns ==
  \A c \in Category : turns[c] = 2 /\ ~Reporting(c) => line[c] = Actual(c)

(* A value that no longer changes is in the end the one every line and, while *)
(* the phone stays connected, every frame shows: the rotation starves no      *)
(* category and a failed reading leaves nothing behind.                       *)
CatchUp ==
  \A c \in Changing : \A v \in Values :
    /\ <>[](Actual(c) = v) => <>[](line[c] = v)
    /\ <>[](Actual(c) = v /\ ble) => <>[](phone[c] = v)
=============================================================================
