----------------------------- MODULE LoraModem ------------------------------
(***************************************************************************)
(* The settings of the LoRa modem (LoRaStar_uttec: main.c, application.c,  *)
(* NVM.c): networkInfo in RAM, its copy in the flash, the values the radio *)
(* and the globals RF_CHANNEL, SF_DR, myPANID work with, and the rate of   *)
(* the serial port.  The console sets them one at a time, each time        *)
(* rewriting the whole record, which erases its row first: power may fail  *)
(* in between.                                                             *)
(*                                                                         *)
(* sf stands for the spreading factor and for the output power, which      *)
(* every line below treats alike.  Left out: the network the modem may     *)
(* have joined (SADDR, Status, ConnectionTable), the STX and ETX letters.  *)
(***************************************************************************)
EXTENDS Integers

CONSTANTS BaudChoices, \* the answers given to AT=6
          Legal        \* values of a setting: a function of its name to a set

Settings == {"ch", "sf", "pan"}
Default  == [ch |-> 20, sf |-> 7, pan |-> 43981]
Erased   == -1                                   \* all ones
Blank    == [ch |-> Erased, sf |-> Erased, pan |-> Erased, baud |-> Erased]
None     == [none |-> TRUE]

ASSUMPTION LoraModemAssumption ==
  /\ BaudChoices \subseteq 1..8
  /\ \A f \in Settings : Default[f] \in Legal[f]
  /\ Legal["ch"] \subseteq Nat /\ Legal["sf"] \subseteq Nat
  \* a PAN ID may be 0xffff, which is what erased flash holds
  /\ Legal["pan"] \subseteq Nat \cup {Erased}

VARIABLES
  power,     \* "off", "boot" or "run"
  flash,     \* the record in the NVM row
  pend,      \* what the row is to hold, once it is programmed
  ram,       \* networkInfo
  rf,        \* the radio, SF_DR, myPANID
  rfChannel, \* RF_CHANNEL, currentChannel
  speed,     \* bits per second of the serial port
  before,    \* History: rf when the modem went off
  lost,      \* History: settings of rf that a restart does not bring back
  promised   \* History: the rate the console confirmed last, still stored

vars == <<power, flash, pend, ram, rf, rfChannel, speed, before, lost, promised>>

(* AT=6: what is stored for an answer, what the console says of it, and    *)
(* the rate main makes of what is stored.                                  *)
Code(c) == <<24, 96, 144, 192, 384, 576, 1152>>[c]
Said(c) == Code(c) * 100
\* Mutant: 38400 is not known at the start.
RateFewer(b) == CASE b = 96 -> 9600 [] b = 192 -> 19200 [] OTHER -> 115200
Rate(b) == CASE b = 96 -> 9600 [] b = 192 -> 19200 [] b = 384 -> 38400 [] OTHER -> 115200

Init ==
  /\ power = "off" /\ flash = Blank /\ pend = None /\ ram = Blank
  /\ rf = Default /\ rfChannel = Default.ch /\ speed = 115200
  /\ before = Default /\ lost = {} /\ promised = 115200

-----------------------------------------------------------------------------
(* NVM_Write_NetInfo(r): the row is erased, then programmed; kept is what  *)
(* is lost once it is.                                                     *)
Write(r, kept) == flash' = Blank /\ pend' = [image |-> r, lost |-> kept]

Program ==
  /\ pend # None /\ pend' = None
  /\ flash' = pend.image /\ lost' = pend.lost
  /\ UNCHANGED <<power, ram, rf, rfChannel, speed, before, promised>>

Ready == power = "run" /\ pend = None

(* AT=F, AT=P, AT=8.  The PAN ID 0xffff is stored, but reads as erased.    *)
Set(f, v) ==
  /\ Ready /\ ram' = [ram EXCEPT ![f] = v] /\ rf' = [rf EXCEPT ![f] = v]
  /\ Write(ram', IF v = Erased THEN lost \cup {f} ELSE lost \ {f})
  /\ UNCHANGED <<power, rfChannel, speed, before, lost, promised>>

(* AT=7 reads the flash first.  Mutant: it does not.                       *)
SetChannelUnread(v) ==
  /\ Ready /\ ram' = [Blank EXCEPT !.ch = v] /\ rf' = [rf EXCEPT !.ch = v] /\ rfChannel' = v
  /\ Write(ram', lost \ {"ch"})
  /\ UNCHANGED <<power, speed, before, lost, promised>>

SetChannel(v) ==
  /\ Ready /\ ram' = [flash EXCEPT !.ch = v] /\ rf' = [rf EXCEPT !.ch = v] /\ rfChannel' = v
  /\ Write(ram', lost \ {"ch"})
  /\ UNCHANGED <<power, speed, before, lost, promised>>

(* AT=A stores the record as it is in RAM.                                 *)
Echo ==
  /\ Ready /\ Write(ram, lost)
  /\ UNCHANGED <<power, ram, rf, rfChannel, speed, before, lost, promised>>

(* AT=R, AT=B and AT=D read it.                                            *)
Read ==
  /\ Ready /\ ram' = flash
  /\ UNCHANGED <<power, flash, pend, rf, rfChannel, speed, before, lost, promised>>

(* AT=C: the spreading factor stays in use until the restart.              *)
Clear ==
  /\ Ready /\ ram' = [ch |-> Default.ch, sf |-> Erased, pan |-> Default.pan, baud |-> Erased]
  /\ rf' = [Default EXCEPT !.sf = rf.sf]
  /\ Write(Blank, {"sf"}) /\ promised' = 115200
  /\ UNCHANGED <<power, rfChannel, speed, before, lost>>

(* AT=6: everything is erased before the answer is looked at.              *)
Baud(c) ==
  /\ Ready
  /\ ram' = IF c \in 1..7 THEN [Blank EXCEPT !.baud = Code(c)] ELSE Blank
  /\ promised' = IF c \in 1..7 THEN Said(c) ELSE 115200
  /\ Write(ram', Settings)
  /\ UNCHANGED <<power, rf, rfChannel, speed, before, lost>>

(* AT=J that finds no network, and AT=S.  Both go back to RF_CHANNEL, which *)
(* AT=C has not changed.                                                   *)
JoinFails ==
  /\ Ready /\ rf' = [rf EXCEPT !.ch = rfChannel] /\ ram' = [ram EXCEPT !.sf = rf.sf]
  /\ Write(ram', (lost \ {"sf"}) \cup (IF rf.ch = rfChannel THEN {} ELSE {"ch"}))
  /\ UNCHANGED <<power, rfChannel, speed, before, lost, promised>>

StartNetwork ==
  /\ Ready /\ rf' = [rf EXCEPT !.ch = rfChannel]
  /\ ram' = [ch |-> rfChannel, sf |-> rf.sf, pan |-> rf.pan, baud |-> ram.baud]
  /\ Write(ram', IF rf.pan = Erased THEN {"pan"} ELSE {})
  /\ UNCHANGED <<power, rfChannel, speed, before, lost, promised>>

-----------------------------------------------------------------------------
(* AT=E, or power fails: the row is left erased if it was being written.   *)
Stop ==
  /\ power # "off" /\ power' = "off" /\ pend' = None
  /\ before' = IF power = "run" THEN rf ELSE before
  /\ IF pend = None THEN UNCHANGED <<lost, promised>>
                    ELSE lost' = Settings /\ promised' = 115200
  /\ UNCHANGED <<flash, ram, rf, rfChannel, speed>>

(* main as far as config_init: what is not legal becomes the default, and  *)
(* the record is written only for the channel.                             *)
Given(f, r) == IF r[f] = Erased THEN Default[f] ELSE r[f]

Config ==
  /\ power = "off" /\ power' = "boot"
  /\ speed' = Rate(flash.baud)
  /\ rf' = [f \in Settings |-> Given(f, flash)] /\ rfChannel' = rf'.ch
  /\ IF flash.ch = Erased THEN Write([flash EXCEPT !.ch = Default.ch], lost)
                          ELSE UNCHANGED <<flash, pend>>
  /\ ram' = [f \in DOMAIN Blank |-> IF f = "baud" THEN flash.baud ELSE Given(f, flash)]
  /\ UNCHANGED <<before, lost, promised>>

(* start_nvm reads the record once more, defaults and all.                 *)
StartNvm ==
  /\ power = "boot" /\ pend = None /\ power' = "run"
  /\ ram' = flash /\ rfChannel' = flash.ch /\ lost' = {}
  /\ UNCHANGED <<flash, pend, rf, speed, before, promised>>

Command ==
  \/ \E f \in {"sf", "pan"} : \E v \in Legal[f] : Set(f, v)
  \/ \E v \in Legal["ch"] : SetChannel(v)
  \/ Echo \/ Read \/ Clear \/ (\E c \in BaudChoices : Baud(c))
  \/ JoinFails \/ StartNetwork

Next == Program \/ Command \/ Stop \/ Config \/ StartNvm

Spec == Init /\ [][Next]_vars

-----------------------------------------------------------------------------
Record == [Settings \cup {"baud"} -> {Erased} \cup Nat]

TypeOK ==
  /\ power \in {"off", "boot", "run"} /\ flash \in Record /\ ram \in Record
  /\ pend = None \/ (pend.image \in Record /\ pend.lost \subseteq Settings)
  /\ \A f \in Settings : rf[f] \in Legal[f] /\ before[f] \in Legal[f]
  /\ rfChannel \in Legal["ch"] /\ speed \in Nat /\ promised \in Nat
  /\ lost \subseteq Settings

(* After a restart the radio works with each setting as it was used before *)
(* it, or with its default; with the default only if the setting was       *)
(* erased (AT=C, AT=6, power that failed while the record was written) and *)
(* nothing has stored it again, or was the PAN ID 0xffff.                  *)
SettingsKept ==
  [][power = "boot" /\ power' = "run" =>
       \A f \in Settings : rf[f] = IF f \in lost THEN Default[f] ELSE before[f]]_vars

(* The serial port starts with the rate that AT=6 said was set last, unless *)
(* that has been erased since, if it is one of the four that main knows     *)
(* (AT=6 confirms and stores three others, which become 115200).            *)
RateAsSaid ==
  power = "boot" /\ promised \in {9600, 19200, 38400, 115200} => speed = promised
=============================================================================
