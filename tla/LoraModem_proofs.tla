-------------------------- MODULE LoraModem_proofs --------------------------
(***************************************************************************)
(* For any legal values of the settings and any answers to AT=6: every     *)
(* variable of LoraModem keeps its type, and the port starts with the rate *)
(* that was confirmed.  A rate goes from the answer to the record in RAM,  *)
(* to the row in the flash, through further commands that store the record *)
(* again, and to the port at the next start; power may fail at each step.  *)
(* The invariant follows it: what is stored, or about to be, says what was *)
(* promised, and RAM agrees with it while the modem runs.                  *)
(* The settings come back for a like reason: row and RAM both serve what   *)
(* the radio uses, but for the settings that have been erased (KeptInv).   *)
(*                                                                         *)
(* For any script, ring and speed of the main loop, of LoraSerial: types,  *)
(* the order of the bytes (RingInv: each cell of the ring holds the newest *)
(* byte of its residue class, and head is where the last byte handed over  *)
(* leaves it), the packets broadcast, and the console's way back after a   *)
(* loss or a restart (ConsoleInv: at each byte of each line, what a        *)
(* console knows that has seen all of it, that saw the line begin, or the  *)
(* line before too).                                                       *)
(***************************************************************************)
EXTENDS LoraModem, LoraSerial, FiniteSetTheorems, WellFoundedInduction, SequenceTheorems, TLAPS

Codes  == {24, 96, 144, 192, 384, 576, 1152}
Images ==
  {r \in [Settings \cup {"baud"} -> Int] :
     /\ \A f \in Settings : r[f] \in Legal[f] \cup {Erased}
     /\ r["baud"] \in Codes \cup {Erased}}
Pending == [image : Images, lost : SUBSET Settings]
Stored == IF pend = None THEN flash ELSE pend.image

ModemTypes ==
  /\ power \in {"off", "boot", "run"} /\ flash \in Images /\ ram \in Images
  /\ pend = None \/ pend \in Pending
  /\ rf \in [Settings -> Int] /\ \A f \in Settings : rf[f] \in Legal[f]
  /\ before \in [Settings -> Int] /\ \A f \in Settings : before[f] \in Legal[f]
  /\ rfChannel \in Legal["ch"] /\ speed \in Nat /\ promised \in Nat
  /\ lost \subseteq Settings

\* main writes a channel before start_nvm reads it.
ChannelInv == power = "boot" => Stored["ch"] # Erased

RateInv ==
  /\ promised = IF Stored["baud"] = Erased THEN 115200 ELSE Stored["baud"] * 100
  /\ power # "off" => ram["baud"] = Stored["baud"]
  /\ power = "boot" => speed = Rate(Stored["baud"])

\* The row is erased before a record is written to it, while there is power.
PendingErased == pend # None => flash = Blank /\ power # "off"

IInv == ModemTypes /\ ChannelInv /\ RateInv /\ PendingErased

-----------------------------------------------------------------------------
(* The erased record is one a start can find (NVM_Write_NetInfo's row).    *)
LEMMA BlankImage == Blank \in Images /\ Blank["baud"] = Erased
BY SMT DEF Images, Pending, Blank, Settings, Erased

(* Only a PAN ID can look like erased flash.                               *)
LEMMA LegalValues ==
  /\ \A f \in Settings : Legal[f] \subseteq Nat \cup {Erased} /\ Legal[f] \subseteq Int
  /\ Legal["ch"] \subseteq Nat /\ Legal["sf"] \subseteq Nat
  /\ Erased \notin Legal["ch"] /\ Erased \notin Legal["sf"]
BY LoraModemAssumption, SMT DEF Settings, Erased

(* The defaults are legal values (config_init).                            *)
LEMMA DefaultLegal ==
  /\ Default \in [Settings -> Int]
  /\ \A f \in Settings : Default[f] \in Legal[f] /\ Default[f] \in Int /\ Default[f] # Erased
  /\ Default["ch"] = Default.ch /\ Default["pan"] = Default.pan
BY LoraModemAssumption, SMT DEF Default, Settings, Erased

(* Storing a legal value in a record leaves a record, with the same rate.  *)
LEMMA ImageExcept ==
  ASSUME NEW r \in Images, NEW f \in Settings, NEW v \in Legal[f]
  PROVE  [r EXCEPT ![f] = v] \in Images /\ [r EXCEPT ![f] = v]["baud"] = r["baud"]
BY LegalValues, SMT DEF Images, Pending, Settings

(* What AT=6 stores for an answer (Uart_Borate).                           *)
LEMMA CodeOfChoice ==
  ASSUME NEW c \in 1..7
  PROVE  Code(c) \in Codes /\ Code(c) # Erased /\ Said(c) = Code(c) * 100
BY SMT DEF Code, Said, Codes, Erased

(* A command that stores a record: the rate in it, and in RAM, decides     *)
(* what has been promised.                                                 *)
LEMMA CommandStep ==
  ASSUME IInv, Ready, power' = power, speed' = speed, before' = before, lost' = lost,
         flash' = Blank, pend' \in Pending, ram' \in Images,
         rf' \in [Settings -> Int], \A f \in Settings : rf'[f] \in Legal[f],
         rfChannel' \in Legal["ch"], ram'["baud"] = pend'.image["baud"], promised' \in Nat,
         promised' = IF ram'["baud"] = Erased THEN 115200 ELSE ram'["baud"] * 100
  PROVE  IInv'
<1>1. pend' # None
  BY SMT DEF None, Pending
<1>2. Stored' = pend'.image
  BY <1>1 DEF Stored
<1>3. power' = "run"
  BY DEF Ready
<1>4. ModemTypes'
  BY BlankImage, SMT DEF IInv, ModemTypes
<1>5. ChannelInv' /\ RateInv' /\ PendingErased'
  BY <1>2, <1>3, SMT DEF ChannelInv, RateInv, PendingErased
<1> QED
  BY <1>4, <1>5 DEF IInv

(* The modem as it is delivered satisfies the invariant.                   *)
LEMMA InitInv == Init => IInv
<1> SUFFICES ASSUME Init PROVE IInv
  OBVIOUS
<1>1. ModemTypes
  BY BlankImage, DefaultLegal, LegalValues, SMT DEF Init, ModemTypes, Settings
<1>2. Stored = Blank
  BY SMT DEF Init, Stored
<1>3. ChannelInv /\ RateInv
  BY <1>2, BlankImage, SMT DEF Init, ChannelInv, RateInv
<1>4. PendingErased
  BY SMT DEF Init, PendingErased
<1> QED
  BY <1>1, <1>3, <1>4 DEF IInv

-----------------------------------------------------------------------------
(* While the modem runs and writes nothing, RAM holds the rate of the row. *)
LEMMA ReadyRate ==
  ASSUME IInv, Ready
  PROVE  /\ ram \in Images /\ flash \in Images /\ ram["baud"] = flash["baud"] /\ promised \in Nat
         /\ promised = IF ram["baud"] = Erased THEN 115200 ELSE ram["baud"] * 100
         /\ rf \in [Settings -> Int] /\ \A f \in Settings : rf[f] \in Legal[f] /\ rf[f] \in Int
         /\ rfChannel \in Legal["ch"] /\ lost \in SUBSET Settings
BY LegalValues, SMT DEF IInv, ModemTypes, RateInv, Ready, Stored

(* What every command but AT=6 and AT=C leaves as it is.                   *)
LEMMA StoreStep ==
  ASSUME IInv, Ready, UNCHANGED <<power, speed, before, lost, promised>>,
         ram' \in Images, ram'["baud"] = ram["baud"], flash' = Blank,
         pend' \in Pending, pend'.image = ram',
         rf' \in [Settings -> Int], \A f \in Settings : rf'[f] \in Legal[f],
         rfChannel' \in Legal["ch"]
  PROVE  IInv'
BY ReadyRate, CommandStep, SMT

(* Changing one setting of what the radio uses (MiApp_Set).         *)
LEMMA RadioExcept ==
  ASSUME IInv, Ready, NEW f \in Settings, NEW v \in Legal[f]
  PROVE  LET r == [rf EXCEPT ![f] = v]
         IN  r \in [Settings -> Int] /\ \A g \in Settings : r[g] \in Legal[g]
BY ReadyRate, LegalValues, SMT DEF Settings

(* AT=F, AT=P, AT=8 and AT=7 keep the invariant.                           *)
LEMMA SetStep ==
  ASSUME IInv, NEW f \in Settings, NEW v \in Legal[f], Set(f, v) PROVE IInv'
<1> DEFINE gone == IF v = Erased THEN lost \cup {f} ELSE lost \ {f}
<1>1. /\ Ready /\ ram' = [ram EXCEPT ![f] = v] /\ rf' = [rf EXCEPT ![f] = v]
      /\ flash' = Blank /\ pend' = [image |-> ram', lost |-> gone]
      /\ UNCHANGED <<power, rfChannel, speed, before, lost, promised>>
  BY DEF Set, Write
<1>2. ram \in Images /\ rfChannel' \in Legal["ch"] /\ gone \in SUBSET Settings
  BY <1>1, ReadyRate, SMT
<1> HIDE DEF gone
<1>3. ram' \in Images /\ ram'["baud"] = ram["baud"]
  BY <1>1, <1>2, ImageExcept, Zenon
<1>4. rf' \in [Settings -> Int] /\ \A g \in Settings : rf'[g] \in Legal[g]
  BY <1>1, RadioExcept, Zenon
<1>5. pend' \in Pending /\ pend'.image = ram'
  BY <1>1, <1>2, <1>3, SMT DEF Pending
<1> QED
  BY <1>1, <1>2, <1>3, <1>4, <1>5, StoreStep

LEMMA SetChannelStep ==
  ASSUME IInv, NEW v \in Legal["ch"], SetChannel(v) PROVE IInv'
<1>1. /\ Ready /\ ram' = [flash EXCEPT !["ch"] = v] /\ rf' = [rf EXCEPT !["ch"] = v]
      /\ rfChannel' = v /\ flash' = Blank /\ pend' = [image |-> ram', lost |-> lost \ {"ch"}]
      /\ UNCHANGED <<power, speed, before, lost, promised>> /\ "ch" \in Settings
  BY SMT DEF SetChannel, Settings, Write
<1>2. flash \in Images /\ flash["baud"] = ram["baud"] /\ lost \in SUBSET Settings
  BY <1>1, ReadyRate, SMT
<1>3. ram' \in Images /\ ram'["baud"] = ram["baud"]
  BY <1>1, <1>2, ImageExcept, Zenon
<1>4. rf' \in [Settings -> Int] /\ \A g \in Settings : rf'[g] \in Legal[g]
  BY <1>1, RadioExcept, Zenon
<1>5. pend' \in Pending /\ pend'.image = ram'
  BY <1>1, <1>2, <1>3, SMT DEF Pending
<1> QED
  BY <1>1, <1>3, <1>4, <1>5, StoreStep

(* AT=A and the commands that read keep it.                                *)
LEMMA EchoStep == ASSUME IInv, Echo PROVE IInv'
<1>1. /\ Ready /\ flash' = Blank /\ pend' = [image |-> ram, lost |-> lost]
      /\ UNCHANGED <<power, ram, rf, rfChannel, speed, before, lost, promised>>
  BY DEF Echo, Write
<1>2. pend' \in Pending /\ pend'.image = ram'
  BY <1>1, ReadyRate, SMT DEF Pending
<1> QED
  BY <1>1, <1>2, ReadyRate, StoreStep, SMT

LEMMA ReadStep == ASSUME IInv, Read PROVE IInv'
<1>1. Ready /\ ram' = flash /\ UNCHANGED <<power, flash, pend, rf, rfChannel, speed, before, lost, promised>>
  BY DEF Read
<1>2. Stored' = Stored
  BY <1>1 DEF Stored
<1>3. ModemTypes'
  BY <1>1, SMT DEF IInv, ModemTypes, Images, Pending
<1>4. ChannelInv' /\ RateInv'
  BY <1>1, <1>2, ReadyRate, SMT DEF IInv, ChannelInv, RateInv, Ready
<1>5. PendingErased'
  BY <1>1, SMT DEF IInv, PendingErased
<1> QED
  BY <1>3, <1>4, <1>5 DEF IInv

(* AT=C forgets the rate and what has been promised.                       *)
LEMMA ClearStep == ASSUME IInv, Clear PROVE IInv'
<1>1. /\ Ready /\ ram' = [ch |-> Default.ch, sf |-> Erased, pan |-> Default.pan, baud |-> Erased]
      /\ rf' = [Default EXCEPT !["sf"] = rf["sf"]]
      /\ flash' = Blank /\ pend' = [image |-> Blank, lost |-> {"sf"}]
      /\ promised' = 115200 /\ UNCHANGED <<power, rfChannel, speed, before, lost>>
  BY DEF Clear, Write
<1>2. ram' \in Images /\ ram'["baud"] = Erased
  BY <1>1, DefaultLegal, SMT DEF Images, Settings, Erased
<1>3. rf' \in [Settings -> Int] /\ \A g \in Settings : rf'[g] \in Legal[g]
  BY <1>1, ReadyRate, DefaultLegal, SMT DEF Settings
<1>4. pend' \in Pending /\ pend'.image = Blank
  BY <1>1, BlankImage, SMT DEF Pending, Settings
<1>5. rfChannel' \in Legal["ch"]
  BY <1>1, ReadyRate, SMT
<1> QED
  BY <1>1, <1>2, <1>3, <1>4, <1>5, BlankImage, CommandStep, SMT

(* AT=6 promises what it stores.                                           *)
LEMMA BaudStep == ASSUME IInv, NEW c \in BaudChoices, Baud(c) PROVE IInv'
<1>1. /\ Ready /\ flash' = Blank /\ pend' = [image |-> ram', lost |-> Settings]
      /\ UNCHANGED <<power, rf, rfChannel, speed, before, lost>>
  BY DEF Baud, Write
<1>2. /\ rf' \in [Settings -> Int] /\ \A g \in Settings : rf'[g] \in Legal[g]
      /\ rfChannel' \in Legal["ch"]
  BY <1>1, ReadyRate, SMT
<1>3. /\ ram' \in Images /\ promised' \in Nat
      /\ promised' = IF ram'["baud"] = Erased THEN 115200 ELSE ram'["baud"] * 100
  <2>1. CASE c \in 1..7
    <3>1. ram' = [Blank EXCEPT !["baud"] = Code(c)] /\ promised' = Said(c)
      BY <2>1, SMT DEF Baud
    <3>2. Code(c) \in Codes /\ Code(c) # Erased /\ Said(c) = Code(c) * 100 /\ Code(c) \in Nat
      BY <2>1, CodeOfChoice, SMT DEF Codes
    <3>3. ram' \in Images /\ ram'["baud"] = Code(c)
      BY <3>1, <3>2, BlankImage, SMT DEF Images, Settings
    <3> QED
      BY <3>1, <3>2, <3>3, SMT
  <2>2. CASE c \notin 1..7
    <3>1. ram' = Blank /\ promised' = 115200
      BY <2>2, SMT DEF Baud
    <3> QED
      BY <3>1, BlankImage, SMT
  <2> QED
    BY <2>1, <2>2
<1>4. pend' \in Pending /\ pend'.image = ram'
  BY <1>1, <1>3, SMT DEF Pending
<1> QED
  BY <1>1, <1>2, <1>3, <1>4, CommandStep, SMT

(* AT=J and AT=S store what is in use.                                     *)
LEMMA JoinStep == ASSUME IInv, JoinFails PROVE IInv'
<1>1. /\ Ready /\ rf' = [rf EXCEPT !["ch"] = rfChannel] /\ ram' = [ram EXCEPT !["sf"] = rf["sf"]]
      /\ flash' = Blank /\ pend'.image = ram'
      /\ pend' = [image |-> ram', lost |-> (lost \ {"sf"}) \cup (IF rf.ch = rfChannel THEN {} ELSE {"ch"})]
      /\ UNCHANGED <<power, rfChannel, speed, before, lost, promised>>
      /\ "sf" \in Settings /\ "ch" \in Settings
  BY SMT DEF JoinFails, Settings, Write
<1>2. /\ ram \in Images /\ rfChannel \in Legal["ch"] /\ rf["sf"] \in Legal["sf"]
      /\ lost \in SUBSET Settings
  BY <1>1, ReadyRate, SMT
<1>3. ram' \in Images /\ ram'["baud"] = ram["baud"]
  <2>1. [ram EXCEPT !["sf"] = rf["sf"]] \in Images /\ [ram EXCEPT !["sf"] = rf["sf"]]["baud"] = ram["baud"]
    BY <1>1, <1>2, ImageExcept, Zenon
  <2> QED
    BY <1>1, <2>1, Zenon
<1>4. rf' \in [Settings -> Int] /\ \A g \in Settings : rf'[g] \in Legal[g]
  BY <1>1, <1>2, RadioExcept, Zenon
<1>5. pend' \in Pending
  BY <1>1, <1>2, <1>3, SMT DEF Pending
<1> QED
  BY <1>1, <1>2, <1>3, <1>4, <1>5, StoreStep, SMT

LEMMA StartStep == ASSUME IInv, StartNetwork PROVE IInv'
<1> DEFINE gone == IF rf.pan = Erased THEN {"pan"} ELSE {}
<1>1. /\ Ready /\ rf' = [rf EXCEPT !["ch"] = rfChannel]
      /\ ram' = [ch |-> rfChannel, sf |-> rf["sf"], pan |-> rf["pan"], baud |-> ram["baud"]]
      /\ flash' = Blank /\ pend' = [image |-> ram', lost |-> gone]
      /\ UNCHANGED <<power, rfChannel, speed, before, lost, promised>> /\ "ch" \in Settings
  BY SMT DEF StartNetwork, Settings, Write
<1> gone \in SUBSET Settings
  BY SMT DEF Settings
<1> HIDE DEF gone
<1>2. ram' \in Images /\ ram'["baud"] = ram["baud"]
  BY <1>1, ReadyRate, LegalValues, SMT DEF Images, Settings
<1>3. rfChannel \in Legal["ch"]
  BY <1>1, ReadyRate, SMT
<1>4. rf' \in [Settings -> Int] /\ \A g \in Settings : rf'[g] \in Legal[g]
  BY <1>1, <1>3, RadioExcept, Zenon
<1>5. pend' \in Pending /\ pend'.image = ram'
  BY <1>1, <1>2, SMT DEF Pending
<1> QED
  BY <1>1, <1>2, <1>3, <1>4, <1>5, StoreStep, SMT

-----------------------------------------------------------------------------
(* Programming the row changes where the record is, not what is stored.    *)
LEMMA ProgramStep == ASSUME IInv, Program PROVE IInv'
<1>1. /\ pend \in Pending
      /\ pend # None /\ pend' = None /\ flash' = pend.image /\ lost' = pend.lost
      /\ UNCHANGED <<power, ram, rf, rfChannel, speed, before, promised>>
  BY SMT DEF IInv, ModemTypes, Program
<1>2. flash' \in Images /\ lost' \subseteq Settings
  BY <1>1, SMT DEF Pending
<1>3. Stored' = Stored
  BY <1>1, SMT DEF Stored
<1>4. ModemTypes'
  BY <1>1, <1>2, SMT DEF IInv, ModemTypes, Images, Pending
<1>5. ChannelInv' /\ RateInv'
  BY <1>1, <1>3, SMT DEF IInv, ChannelInv, RateInv
<1> QED
  BY <1>1, <1>4, <1>5, SMT DEF IInv, PendingErased

(* Power that fails while the row is erased takes the promise with it.     *)
LEMMA StopStep == ASSUME IInv, Stop PROVE IInv'
<1>1. ModemTypes'
  BY SMT DEF IInv, ModemTypes, Stop, Images, Pending
<1>2. power' = "off" /\ pend' = None /\ Stored' = flash /\ flash' = flash
  BY SMT DEF Stop, Stored
<1>3. promised' = IF flash["baud"] = Erased THEN 115200 ELSE flash["baud"] * 100
  <2>1. CASE pend = None
    BY <2>1, SMT DEF IInv, RateInv, Stored, Stop
  <2>2. CASE pend # None
    <3>1. promised' = 115200
      BY <2>2, SMT DEF Stop
    <3>2. flash["baud"] = Erased
      BY <2>2, BlankImage, SMT DEF IInv, PendingErased
    <3> QED
      BY <3>1, <3>2
  <2> QED
    BY <2>1, <2>2
<1> QED
  BY <1>1, <1>2, <1>3, SMT DEF IInv, ChannelInv, RateInv, PendingErased

(* A start takes rate and settings from the row, or the defaults.          *)
LEMMA ConfigStep == ASSUME IInv, Config PROVE IInv'
<1>1. /\ power = "off" /\ power' = "boot" /\ speed' = Rate(flash["baud"]) /\ pend = None
      /\ rf' = [f \in Settings |-> Given(f, flash)] /\ rfChannel' = rf'["ch"]
      /\ ram' = [f \in DOMAIN Blank |-> IF f = "baud" THEN flash["baud"] ELSE Given(f, flash)]
      /\ UNCHANGED <<before, lost, promised>>
  BY SMT DEF Config, IInv, PendingErased
<1>2. flash \in Images /\ Stored = flash
  BY <1>1, SMT DEF IInv, ModemTypes, Stored
<1>3. \A f \in Settings : Given(f, flash) \in Legal[f] /\ Given(f, flash) \in Int
  BY <1>2, DefaultLegal, LegalValues, SMT DEF Given, Images
<1>4. /\ rf' \in [Settings -> Int] /\ \A f \in Settings : rf'[f] \in Legal[f]
      /\ rfChannel' \in Legal["ch"]
  BY <1>1, <1>3, SMT DEF Settings
<1>5. DOMAIN Blank = Settings \cup {"baud"}
  BY SMT DEF Blank, Settings
<1>6. ram' \in Images /\ ram'["baud"] = flash["baud"]
  BY <1>1, <1>2, <1>3, <1>5, SMT DEF Images, Settings
<1>7. speed' \in Nat
  BY <1>1, SMT DEF Rate
<1>8. /\ flash' \in Images /\ PendingErased' /\ (pend' = None \/ pend' \in Pending)
      /\ Stored'["baud"] = flash["baud"] /\ Stored'["ch"] # Erased
  <2>1. CASE flash["ch"] = Erased
    <3>1. flash' = Blank /\ pend' = [image |-> [flash EXCEPT !["ch"] = Default["ch"]], lost |-> lost]
      BY <2>1, <1>1 DEF Config, Write
    <3>2. [flash EXCEPT !["ch"] = Default["ch"]] \in Images
      BY <1>2, DefaultLegal, ImageExcept, SMT DEF Settings
    <3>3. pend' \in Pending /\ pend' # None
      BY <3>1, <3>2, SMT DEF Pending, None, IInv, ModemTypes
    <3>4. Stored' = [flash EXCEPT !["ch"] = Default["ch"]]
      BY <3>1, <3>3, SMT DEF Stored
    <3>5. Stored'["baud"] = flash["baud"] /\ Stored'["ch"] # Erased
      BY <3>4, <1>2, DefaultLegal, LegalValues, SMT DEF Images, Settings, Erased
    <3> QED
      BY <1>1, <3>1, <3>3, <3>5, BlankImage, SMT DEF PendingErased
  <2>2. CASE flash["ch"] # Erased
    <3>1. UNCHANGED <<flash, pend>>
      BY <2>2 DEF Config
    <3> QED
      BY <1>1, <1>2, <2>2, <3>1, SMT DEF PendingErased, Stored
  <2> QED
    BY <2>1, <2>2
<1>9. ModemTypes'
  BY <1>1, <1>4, <1>6, <1>7, <1>8, SMT DEF IInv, ModemTypes
<1>10. ChannelInv' /\ RateInv'
  BY <1>1, <1>2, <1>6, <1>8, SMT DEF IInv, ChannelInv, RateInv
<1> QED
  BY <1>8, <1>9, <1>10 DEF IInv

(* start_nvm finds a channel in the record.                                *)
LEMMA StartNvmStep == ASSUME IInv, StartNvm PROVE IInv'
<1>1. /\ power = "boot" /\ pend = None /\ power' = "run"
      /\ ram' = flash /\ rfChannel' = flash["ch"] /\ lost' = {}
      /\ UNCHANGED <<flash, pend, rf, speed, before, promised>>
  BY DEF StartNvm
<1>2. flash \in Images /\ Stored = flash /\ Stored' = flash
  BY <1>1, SMT DEF IInv, ModemTypes, Stored
<1>3. flash["ch"] \in Legal["ch"]
  BY <1>1, <1>2, SMT DEF IInv, ChannelInv, Images, Settings
<1>4. ModemTypes'
  BY <1>1, <1>2, <1>3, SMT DEF IInv, ModemTypes
<1>5. ChannelInv' /\ RateInv' /\ PendingErased'
  BY <1>1, <1>2, SMT DEF IInv, ChannelInv, RateInv, PendingErased
<1> QED
  BY <1>4, <1>5 DEF IInv

-----------------------------------------------------------------------------
(* Every step of the modem keeps the invariant.                            *)
LEMMA StepInv == IInv /\ [Next]_vars => IInv'
<1> SUFFICES ASSUME IInv, [Next]_vars PROVE IInv'
  OBVIOUS
<1>1. CASE Program
  BY <1>1, ProgramStep
<1>2. CASE Command
  <2>1. ASSUME NEW f \in {"sf", "pan"}, NEW v \in Legal[f], Set(f, v) PROVE IInv'
    <3>1. f \in Settings
      BY SMT DEF Settings
    <3> QED
      BY <2>1, <3>1, SetStep
  <2>2. ASSUME NEW v \in Legal["ch"], SetChannel(v) PROVE IInv'
    BY <2>2, SetChannelStep
  <2>3. CASE Echo
    BY <2>3, EchoStep
  <2>4. CASE Read
    BY <2>4, ReadStep
  <2>5. CASE Clear
    BY <2>5, ClearStep
  <2>6. ASSUME NEW c \in BaudChoices, Baud(c) PROVE IInv'
    BY <2>6, BaudStep
  <2>7. CASE JoinFails
    BY <2>7, JoinStep
  <2>8. CASE StartNetwork
    BY <2>8, StartStep
  <2> QED
    BY <1>2, <2>1, <2>2, <2>3, <2>4, <2>5, <2>6, <2>7, <2>8 DEF Command
<1>3. CASE Stop
  BY <1>3, StopStep
<1>4. CASE Config
  BY <1>4, ConfigStep
<1>5. CASE StartNvm
  BY <1>5, StartNvmStep
<1>6. CASE UNCHANGED vars
  <2>1. Stored' = Stored
    BY <1>6 DEF vars, Stored
  <2> QED
    BY <1>6, <2>1, SMT DEF vars, IInv, ModemTypes, ChannelInv, RateInv, PendingErased
<1> QED
  BY <1>1, <1>2, <1>3, <1>4, <1>5, <1>6 DEF Next

(* The invariant says what the type invariant and RateAsSaid say.          *)
LEMMA InvImplies == IInv => TypeOK /\ RateAsSaid
<1> SUFFICES ASSUME IInv PROVE TypeOK /\ RateAsSaid
  OBVIOUS
<1>1. TypeOK
  <2>1. Images \subseteq Record
    BY LegalValues, SMT DEF Images, Record, Codes, Erased, Settings
  <2> QED
    BY <2>1, SMT DEF IInv, ModemTypes, TypeOK, Pending
<1>2. RateAsSaid
  <2>1. Stored \in Images
    BY SMT DEF IInv, ModemTypes, Stored, Pending
  <2>2. Stored["baud"] \in Codes \cup {Erased}
    BY <2>1, SMT DEF Images
  <2> QED
    BY <2>2, SMT DEF IInv, RateInv, RateAsSaid, Rate, Erased, Codes
<1> QED
  BY <1>1, <1>2

-----------------------------------------------------------------------------
(* What a start would make of the record, of RAM while the modem runs, is  *)
(* what the radio uses, but for the settings that are lost.                *)
Losing == IF pend = None THEN lost ELSE pend.lost
Back(f, gone, used) == IF f \in gone THEN Default[f] ELSE used[f]
Serves(r, gone, used) == \A f \in Settings : Given(f, r) = Back(f, gone, used)

KeptRunning ==
  power = "run" => /\ Serves(Stored, Losing, rf) /\ Serves(ram, Losing, rf)
                   /\ rf["ch"] \in {rfChannel, Default["ch"]}
KeptBooting ==
  power = "boot" => /\ Serves(Stored, {}, rf)
                    /\ \A f \in Settings : rf[f] = Back(f, lost, before)
                    /\ pend # None => pend.lost = lost
KeptOff == power = "off" => Serves(flash, lost, before)

KeptInv == KeptRunning /\ KeptBooting /\ KeptOff

(* An erased record serves when everything is lost.                        *)
LEMMA BlankServes == ASSUME NEW used PROVE Serves(Blank, Settings, used)
BY SMT DEF Serves, Given, Back, Blank, Settings

(* A setting that is stored serves as it is.                               *)
LEMMA GivenExcept ==
  ASSUME NEW r \in Images, NEW f \in Settings, NEW v \in Legal[f], NEW g \in Settings
  PROVE  /\ g # f => Given(g, [r EXCEPT ![f] = v]) = Given(g, r)
         /\ g = f /\ v # Erased => Given(g, [r EXCEPT ![f] = v]) = v
         /\ g = f /\ v = Erased => Given(g, [r EXCEPT ![f] = v]) = Default[f]
BY SMT DEF Given, Images

LEMMA ServesExcept ==
  ASSUME NEW r \in Images, NEW f \in Settings, NEW v \in Legal[f], NEW gone,
         NEW used \in [Settings -> Int], Serves(r, gone, used)
  PROVE  /\ v # Erased => Serves([r EXCEPT ![f] = v], gone \ {f}, [used EXCEPT ![f] = v])
         /\ v = Erased => Serves([r EXCEPT ![f] = v], gone \cup {f}, [used EXCEPT ![f] = v])
<1>1. ASSUME NEW g \in Settings
      PROVE  /\ g # f => Given(g, [r EXCEPT ![f] = v]) = Given(g, r)
             /\ g = f /\ v # Erased => Given(g, [r EXCEPT ![f] = v]) = v
             /\ g = f /\ v = Erased => Given(g, [r EXCEPT ![f] = v]) = Default[f]
  BY GivenExcept
<1>2. \A g \in Settings : Given(g, r) = Back(g, gone, used)
  BY DEF Serves
<1>3. ASSUME v # Erased, NEW g \in Settings
      PROVE  Given(g, [r EXCEPT ![f] = v]) = Back(g, gone \ {f}, [used EXCEPT ![f] = v])
  <2>1. CASE g = f
    BY <1>1, <1>3, <2>1 DEF Back
  <2>2. CASE g # f
    <3>1. [used EXCEPT ![f] = v][g] = used[g] /\ (g \in gone <=> g \in gone \ {f})
      BY <2>2
    <3>2. Back(g, gone \ {f}, [used EXCEPT ![f] = v]) = Back(g, gone, used)
      BY <3>1 DEF Back
    <3> QED
      BY <1>1, <1>2, <1>3, <2>2, <3>2
  <2> QED
    BY <2>1, <2>2
<1>4. ASSUME v = Erased, NEW g \in Settings
      PROVE  Given(g, [r EXCEPT ![f] = v]) = Back(g, gone \cup {f}, [used EXCEPT ![f] = v])
  <2>1. CASE g = f
    BY <1>1, <1>4, <2>1 DEF Back
  <2>2. CASE g # f
    <3>1. [used EXCEPT ![f] = v][g] = used[g] /\ (g \in gone <=> g \in gone \cup {f})
      BY <2>2
    <3>2. Back(g, gone \cup {f}, [used EXCEPT ![f] = v]) = Back(g, gone, used)
      BY <3>1 DEF Back
    <3> QED
      BY <1>1, <1>2, <1>4, <2>2, <3>2
  <2> QED
    BY <2>1, <2>2
<1> QED
  BY <1>3, <1>4 DEF Serves

(* What a command finds, and what it has to leave.                         *)
LEMMA ReadyKept ==
  ASSUME IInv, KeptInv, Ready
  PROVE  /\ Serves(flash, lost, rf) /\ Serves(ram, lost, rf)
         /\ rf["ch"] \in {rfChannel, Default["ch"]} /\ power = "run"
BY SMT DEF KeptInv, KeptRunning, Ready, Stored, Losing

LEMMA KeptStore ==
  ASSUME IInv, Ready, power' = power, NEW r \in Images, NEW gone \in SUBSET Settings,
         pend' = [image |-> r, lost |-> gone],
         Serves(r, gone, rf'), Serves(ram', gone, rf'), rf'["ch"] \in {rfChannel', Default["ch"]}
  PROVE  KeptInv'
<1>1. pend' # None /\ Stored' = r /\ Losing' = gone
  <2>1. pend' \in Pending
    BY SMT DEF Pending
  <2>2. pend' # None
    BY <2>1, SMT DEF None, Pending
  <2> QED
    BY <2>2, SMT DEF Stored, Losing
<1>2. power' = "run"
  BY DEF Ready
<1> QED
  BY <1>1, <1>2, SMT DEF KeptInv, KeptRunning, KeptBooting, KeptOff, Serves, Given, Back

-----------------------------------------------------------------------------
(* AT=F, AT=P, AT=8 and AT=7 store what they set, and bring it back.       *)
LEMMA SetKept ==
  ASSUME IInv, KeptInv, NEW f \in {"sf", "pan"}, NEW v \in Legal[f], Set(f, v) PROVE KeptInv'
<1> DEFINE gone == IF v = Erased THEN lost \cup {f} ELSE lost \ {f}
<1>1. /\ Ready /\ ram' = [ram EXCEPT ![f] = v] /\ rf' = [rf EXCEPT ![f] = v] /\ f \in Settings
      /\ pend' = [image |-> ram', lost |-> gone] /\ power' = power /\ rfChannel' = rfChannel
  BY SMT DEF Set, Write, Settings
<1>2. /\ ram \in Images /\ rf \in [Settings -> Int] /\ lost \in SUBSET Settings
      /\ Serves(ram, lost, rf) /\ rf["ch"] \in {rfChannel, Default["ch"]}
  BY <1>1, ReadyRate, ReadyKept
<1>3. Serves(ram', gone, rf') /\ ram' \in Images
  <2>1. [ram EXCEPT ![f] = v] \in Images
    BY <1>1, <1>2, ImageExcept, Zenon
  <2>2. /\ v # Erased => Serves([ram EXCEPT ![f] = v], lost \ {f}, [rf EXCEPT ![f] = v])
        /\ v = Erased => Serves([ram EXCEPT ![f] = v], lost \cup {f}, [rf EXCEPT ![f] = v])
    BY <1>1, <1>2, ServesExcept, Zenon
  <2>3. Serves([ram EXCEPT ![f] = v], gone, [rf EXCEPT ![f] = v])
    BY <2>2, Zenon
  <2> QED
    BY <1>1, <2>1, <2>3, Zenon
<1>4. rf'["ch"] \in {rfChannel', Default["ch"]}
  BY <1>1, <1>2, SMT DEF Settings
<1>5. gone \in SUBSET Settings
  BY <1>1, <1>2, SMT
<1> HIDE DEF gone
<1> QED
  BY <1>1, <1>3, <1>4, <1>5, KeptStore

LEMMA SetChannelKept ==
  ASSUME IInv, KeptInv, NEW v \in Legal["ch"], SetChannel(v) PROVE KeptInv'
<1>1. /\ Ready /\ ram' = [flash EXCEPT !["ch"] = v] /\ rf' = [rf EXCEPT !["ch"] = v]
      /\ rfChannel' = v /\ pend' = [image |-> ram', lost |-> lost \ {"ch"}]
      /\ power' = power /\ "ch" \in Settings
  BY SMT DEF SetChannel, Settings, Write
<1>2. /\ flash \in Images /\ rf \in [Settings -> Int] /\ lost \in SUBSET Settings
      /\ Serves(flash, lost, rf)
  BY <1>1, ReadyRate, ReadyKept
<1>3. Serves(ram', lost \ {"ch"}, rf') /\ ram' \in Images
  <2>1. v # Erased
    BY LegalValues
  <2> QED
    BY <1>1, <1>2, <2>1, ServesExcept, ImageExcept, Zenon
<1>4. rf'["ch"] \in {rfChannel', Default["ch"]} /\ lost \ {"ch"} \in SUBSET Settings
  BY <1>1, <1>2, SMT
<1> QED
  BY <1>1, <1>3, <1>4, KeptStore

(* AT=A stores RAM, which serves; AT=R, AT=B and AT=D read what serves.    *)
LEMMA EchoKept == ASSUME IInv, KeptInv, Echo PROVE KeptInv'
<1>1. /\ Ready /\ pend' = [image |-> ram, lost |-> lost]
      /\ UNCHANGED <<power, ram, rf, rfChannel>>
  BY DEF Echo, Write
<1>2. /\ ram \in Images /\ lost \in SUBSET Settings /\ Serves(ram, lost, rf)
      /\ rf["ch"] \in {rfChannel, Default["ch"]}
  BY <1>1, ReadyRate, ReadyKept
<1> QED
  BY <1>1, <1>2, KeptStore, SMT

LEMMA ReadKept == ASSUME IInv, KeptInv, Read PROVE KeptInv'
<1>1. Ready /\ ram' = flash /\ UNCHANGED <<power, flash, pend, rf, rfChannel, before, lost>>
  BY DEF Read
<1>2. Serves(flash, lost, rf) /\ rf["ch"] \in {rfChannel, Default["ch"]} /\ power = "run"
  BY <1>1, ReadyKept
<1>3. Stored' = flash /\ Losing' = lost
  BY <1>1 DEF Ready, Stored, Losing
<1> QED
  BY <1>1, <1>2, <1>3, SMT DEF KeptInv, KeptRunning, KeptBooting, KeptOff, Serves, Given, Back

(* AT=C and AT=6 erase: the defaults serve.                                *)
LEMMA ClearKept == ASSUME IInv, KeptInv, Clear PROVE KeptInv'
<1>1. /\ Ready /\ ram' = [ch |-> Default.ch, sf |-> Erased, pan |-> Default.pan, baud |-> Erased]
      /\ rf' = [Default EXCEPT !["sf"] = rf["sf"]]
      /\ pend' = [image |-> Blank, lost |-> {"sf"}] /\ power' = power
  BY DEF Clear, Write
<1>2. rf'["ch"] = Default["ch"] /\ rf'["pan"] = Default["pan"]
  BY <1>1, SMT DEF Default
<1>3. Serves(Blank, {"sf"}, rf')
  BY <1>2, SMT DEF Serves, Given, Back, Blank, Settings
<1>4. Serves(ram', {"sf"}, rf')
  BY <1>1, <1>2, DefaultLegal, SMT DEF Serves, Given, Back, Settings
<1>5. Blank \in Images /\ {"sf"} \in SUBSET Settings
  BY BlankImage, SMT DEF Settings
<1> QED
  BY <1>1, <1>2, <1>3, <1>4, <1>5, KeptStore

LEMMA BaudKept == ASSUME IInv, KeptInv, NEW c \in BaudChoices, Baud(c) PROVE KeptInv'
<1>1. /\ Ready /\ pend' = [image |-> ram', lost |-> Settings]
      /\ UNCHANGED <<power, rf, rfChannel>>
  BY DEF Baud, Write
<1>2. \A f \in Settings : ram'[f] = Erased
  BY SMT DEF Baud, Blank, Settings
<1>3. Serves(ram', Settings, rf')
  BY <1>2, SMT DEF Serves, Given, Back
<1>4. ram' \in Images
  <2>1. IInv'
    BY BaudStep
  <2> QED
    BY <2>1 DEF IInv, ModemTypes
<1>5. rf["ch"] \in {rfChannel, Default["ch"]}
  BY <1>1, ReadyKept
<1> QED
  BY <1>1, <1>3, <1>4, <1>5, KeptStore, SMT

(* AT=J and AT=S go back to RF_CHANNEL: AT=J does not store it.            *)
LEMMA JoinKept == ASSUME IInv, KeptInv, JoinFails PROVE KeptInv'
<1> DEFINE gone == (lost \ {"sf"}) \cup (IF rf.ch = rfChannel THEN {} ELSE {"ch"})
<1>1. /\ Ready /\ rf' = [rf EXCEPT !["ch"] = rfChannel] /\ ram' = [ram EXCEPT !["sf"] = rf["sf"]]
      /\ pend' = [image |-> ram', lost |-> gone] /\ UNCHANGED <<power, rfChannel>>
      /\ "sf" \in Settings /\ "ch" \in Settings
  BY SMT DEF JoinFails, Settings, Write
<1>2. /\ ram \in Images /\ rf \in [Settings -> Int] /\ lost \in SUBSET Settings
      /\ rf["sf"] \in Legal["sf"] /\ Serves(ram, lost, rf)
      /\ rf["ch"] \in {rfChannel, Default["ch"]}
  BY <1>1, ReadyRate, ReadyKept
<1>3. Serves(ram', lost \ {"sf"}, [rf EXCEPT !["sf"] = rf["sf"]]) /\ ram' \in Images
  <2>1. rf["sf"] # Erased
    BY <1>2, LegalValues
  <2> QED
    BY <1>1, <1>2, <2>1, ServesExcept, ImageExcept, Zenon
<1>4. [rf EXCEPT !["sf"] = rf["sf"]] = rf
  BY <1>2, SMT
<1>5. rf'["ch"] = rfChannel /\ \A f \in Settings \ {"ch"} : rf'[f] = rf[f]
  BY <1>1, <1>2, SMT
<1>6. ASSUME NEW f \in Settings PROVE Given(f, ram') = Back(f, gone, rf')
  <2>1. Given(f, ram') = Back(f, lost \ {"sf"}, rf)
    BY <1>3, <1>4 DEF Serves
  <2>2. CASE f # "ch"
    BY <2>1, <2>2, <1>5, SMT DEF Back
  <2>3. CASE f = "ch" /\ rf["ch"] = rfChannel
    BY <2>1, <2>3, <1>5, SMT DEF Back
  <2>4. CASE f = "ch" /\ rf["ch"] # rfChannel
    BY <2>1, <2>4, <1>2, SMT DEF Back
  <2> QED
    BY <2>2, <2>3, <2>4
<1>7. Serves(ram', gone, rf')
  BY <1>6 DEF Serves
<1>8. gone \in SUBSET Settings
  BY <1>1, <1>2
<1>9. rf'["ch"] \in {rfChannel', Default["ch"]}
  BY <1>1, <1>5
<1> HIDE DEF gone
<1> QED
  BY <1>1, <1>3, <1>7, <1>8, <1>9, KeptStore

LEMMA StartKept == ASSUME IInv, KeptInv, StartNetwork PROVE KeptInv'
<1> DEFINE gone == IF rf.pan = Erased THEN {"pan"} ELSE {}
<1>1. /\ Ready /\ rf' = [rf EXCEPT !["ch"] = rfChannel]
      /\ ram' = [ch |-> rfChannel, sf |-> rf["sf"], pan |-> rf["pan"], baud |-> ram["baud"]]
      /\ pend' = [image |-> ram', lost |-> gone] /\ UNCHANGED <<power, rfChannel>>
  BY SMT DEF StartNetwork, Write
<1>2. /\ rf \in [Settings -> Int] /\ rfChannel \in Legal["ch"]
      /\ \A f \in Settings : rf[f] \in Legal[f]
  BY <1>1, ReadyRate
<1>3. /\ rf'["ch"] = rfChannel /\ \A f \in Settings : ram'[f] = rf'[f]
      /\ ram'["ch"] # Erased /\ ram'["sf"] # Erased /\ ram'["pan"] = rf["pan"]
  BY <1>1, <1>2, LegalValues, SMT DEF Settings
<1>4. Serves(ram', gone, rf')
  <2>1. ASSUME NEW f \in Settings PROVE Given(f, ram') = Back(f, gone, rf')
    <3>1. f \in gone <=> ram'[f] = Erased
      <4>1. CASE rf["pan"] = Erased
        BY <1>3, <4>1, SMT DEF Settings
      <4>2. CASE rf["pan"] # Erased
        BY <1>3, <4>2, SMT DEF Settings
      <4> QED
        BY <4>1, <4>2
    <3> QED
      BY <1>3, <3>1, SMT DEF Given, Back
  <2> QED
    BY <2>1 DEF Serves
<1>5. ram' \in Images
  <2>1. IInv'
    BY StartStep
  <2> QED
    BY <2>1 DEF IInv, ModemTypes
<1>6. rf'["ch"] \in {rfChannel', Default["ch"]} /\ gone \in SUBSET Settings
  BY <1>1, <1>3, SMT DEF Settings
<1> HIDE DEF gone
<1> QED
  BY <1>1, <1>4, <1>5, <1>6, KeptStore

-----------------------------------------------------------------------------
(* Programming the row: what was to be stored and lost is.                 *)
LEMMA ProgramKept == ASSUME IInv, KeptInv, Program PROVE KeptInv'
<1>1. /\ pend # None /\ pend' = None /\ flash' = pend.image /\ lost' = pend.lost
      /\ UNCHANGED <<power, ram, rf, rfChannel, before>>
  BY DEF Program
<1>2. Stored' = Stored /\ Losing' = Losing /\ lost' = Losing
  BY <1>1 DEF Stored, Losing
<1>3. power # "off"
  BY <1>1 DEF IInv, PendingErased
<1>4. KeptRunning'
  BY <1>1, <1>2, SMT DEF KeptInv, KeptRunning, Serves, Given, Back
<1>5. KeptBooting'
  BY <1>1, <1>2, SMT DEF KeptInv, KeptBooting, Losing, Serves, Given, Back
<1>6. KeptOff'
  BY <1>1, <1>3 DEF KeptOff
<1> QED
  BY <1>4, <1>5, <1>6 DEF KeptInv

(* Power that fails while the row is erased takes every setting with it.   *)
LEMMA StopKept == ASSUME IInv, KeptInv, Stop PROVE KeptInv'
<1>1. /\ power # "off" /\ power' = "off" /\ flash' = flash
      /\ before' = IF power = "run" THEN rf ELSE before
  BY DEF Stop
<1>2. Serves(flash, lost', before')
  <2>1. CASE pend # None
    <3>1. flash = Blank /\ lost' = Settings
      BY <2>1 DEF IInv, PendingErased, Stop
    <3> QED
      BY <3>1, BlankServes
  <2>2. CASE pend = None /\ power = "run"
    BY <1>1, <2>2, SMT DEF KeptInv, KeptRunning, Stored, Losing, Stop
  <2>3. CASE pend = None /\ power = "boot"
    <3>1. lost' = lost /\ before' = before /\ Stored = flash
      BY <1>1, <2>3 DEF Stop, Stored
    <3>2. \A f \in Settings : Given(f, flash) = rf[f]
      BY <2>3, <3>1, SMT DEF KeptInv, KeptBooting, Serves, Back
    <3>3. \A f \in Settings : rf[f] = Back(f, lost, before)
      BY <2>3 DEF KeptInv, KeptBooting
    <3> QED
      BY <3>1, <3>2, <3>3 DEF Serves
  <2> QED
    BY <1>1, <2>1, <2>2, <2>3, SMT DEF IInv, ModemTypes
<1>3. KeptOff'
  BY <1>1, <1>2, SMT DEF KeptOff, Serves, Given, Back
<1> QED
  BY <1>1, <1>3, SMT DEF KeptInv, KeptRunning, KeptBooting

(* A start uses what the record serves; the channel it adds to an erased   *)
(* record is the one it uses.                                              *)
LEMMA ConfigKept == ASSUME IInv, KeptInv, Config PROVE KeptInv'
<1>1. /\ power = "off" /\ power' = "boot" /\ pend = None
      /\ rf' = [f \in Settings |-> Given(f, flash)] /\ UNCHANGED <<before, lost>>
  BY SMT DEF Config, IInv, PendingErased
<1>2. flash \in Images
  BY DEF IInv, ModemTypes
<1>3. \A f \in Settings : rf'[f] = Given(f, flash) /\ rf'[f] = Back(f, lost, before)
  BY <1>1 DEF KeptInv, KeptOff, Serves
<1>4. Serves(Stored', {}, rf') /\ (pend' # None => pend'.lost = lost)
  <2>1. CASE flash["ch"] = Erased
    <3>1. pend' = [image |-> [flash EXCEPT !["ch"] = Default["ch"]], lost |-> lost]
      BY <2>1, <1>1 DEF Config, Write
    <3>2. pend' # None
      BY <3>1, SMT DEF None
    <3>3. Stored' = [flash EXCEPT !["ch"] = Default["ch"]]
      BY <3>1, <3>2 DEF Stored
    <3>4. "ch" \in Settings /\ Default["ch"] \in Legal["ch"]
      BY DefaultLegal, SMT DEF Settings
    <3>5. ASSUME NEW f \in Settings PROVE Given(f, Stored') = Given(f, flash)
      <4>1. /\ f # "ch" => Given(f, [flash EXCEPT !["ch"] = Default["ch"]]) = Given(f, flash)
            /\ f = "ch" => Given(f, [flash EXCEPT !["ch"] = Default["ch"]]) = Default["ch"]
        BY <3>4, <1>2, DefaultLegal, GivenExcept
      <4>2. Given("ch", flash) = Default["ch"]
        BY <2>1 DEF Given
      <4> QED
        BY <3>3, <4>1, <4>2
    <3> QED
      BY <3>1, <3>5, <1>3, SMT DEF Serves, Back
  <2>2. CASE flash["ch"] # Erased
    <3>1. flash' = flash /\ pend' = None /\ Stored' = flash
      BY <1>1, <2>2, SMT DEF Config, Stored
    <3> QED
      BY <3>1, <1>3, SMT DEF Serves, Back
  <2> QED
    BY <2>1, <2>2
<1>5. KeptBooting'
  BY <1>1, <1>3, <1>4, SMT DEF KeptBooting, Serves, Given, Back
<1> QED
  BY <1>1, <1>5, SMT DEF KeptInv, KeptRunning, KeptOff

(* start_nvm reads what is stored: nothing is lost any more.               *)
LEMMA StartNvmKept == ASSUME IInv, KeptInv, StartNvm PROVE KeptInv'
<1>1. /\ power = "boot" /\ pend = None /\ power' = "run"
      /\ ram' = flash /\ rfChannel' = flash["ch"] /\ lost' = {}
      /\ UNCHANGED <<flash, pend, rf, before>>
  BY DEF StartNvm
<1>2. Stored = flash /\ Stored' = flash /\ Losing' = {}
  BY <1>1 DEF Stored, Losing
<1>3. Serves(flash, {}, rf) /\ flash["ch"] # Erased
  BY <1>1, <1>2 DEF KeptInv, KeptBooting, IInv, ChannelInv
<1>4. rf["ch"] = flash["ch"]
  BY <1>3, SMT DEF Serves, Given, Back, Settings
<1>5. KeptRunning'
  BY <1>1, <1>2, <1>3, <1>4, SMT DEF KeptRunning, Serves, Given, Back
<1> QED
  BY <1>1, <1>5, SMT DEF KeptInv, KeptBooting, KeptOff

(* Every step keeps it, and the step that ends a start shows it.           *)
LEMMA KeptStep == IInv /\ KeptInv /\ [Next]_vars => KeptInv'
<1> SUFFICES ASSUME IInv, KeptInv, [Next]_vars PROVE KeptInv'
  OBVIOUS
<1>1. CASE Command
  <2>1. ASSUME NEW f \in {"sf", "pan"}, NEW v \in Legal[f], Set(f, v) PROVE KeptInv'
    BY <2>1, SetKept
  <2>2. ASSUME NEW v \in Legal["ch"], SetChannel(v) PROVE KeptInv'
    BY <2>2, SetChannelKept
  <2>3. CASE Echo
    BY <2>3, EchoKept
  <2>4. CASE Read
    BY <2>4, ReadKept
  <2>5. CASE Clear
    BY <2>5, ClearKept
  <2>6. ASSUME NEW c \in BaudChoices, Baud(c) PROVE KeptInv'
    BY <2>6, BaudKept
  <2>7. CASE JoinFails
    BY <2>7, JoinKept
  <2>8. CASE StartNetwork
    BY <2>8, StartKept
  <2> QED
    BY <1>1, <2>1, <2>2, <2>3, <2>4, <2>5, <2>6, <2>7, <2>8 DEF Command
<1>2. CASE UNCHANGED vars
  <2>1. Stored' = Stored /\ Losing' = Losing
    BY <1>2 DEF vars, Stored, Losing
  <2> QED
    BY <1>2, <2>1, SMT DEF vars, KeptInv, KeptRunning, KeptBooting, KeptOff, Serves, Given, Back
<1> QED
  BY <1>1, <1>2, ProgramKept, StopKept, ConfigKept, StartNvmKept DEF Next

LEMMA KeptInit == Init => KeptInv
BY SMT DEF Init, KeptInv, KeptRunning, KeptBooting, KeptOff, Serves, Given, Back, Blank, Settings

LEMMA BootKeeps ==
  IInv /\ KeptInv /\ [Next]_vars =>
    (power = "boot" /\ power' = "run" =>
       \A f \in Settings : rf[f] = IF f \in lost THEN Default[f] ELSE before[f])
BY DEF KeptInv, KeptBooting, Back

-----------------------------------------------------------------------------
(* Every variable keeps its type: the radio works with legal settings and  *)
(* start_nvm finds a channel, whatever is erased when power fails.         *)
THEOREM ModemTypesCorrect == Spec => []TypeOK
BY InitInv, StepInv, InvImplies, PTL DEF Spec

(* For every answer to AT=6 and any commands, power failures and restarts  *)
(* after it, the port starts with the rate confirmed last, if main knows   *)
(* it and nothing has erased it.                                           *)
THEOREM RatePromised == Spec => []RateAsSaid
BY InitInv, StepInv, InvImplies, PTL DEF Spec

(* For any commands, restarts and power failures, each setting is after a  *)
(* restart as it was in use before, or the default if it was erased and    *)
(* not stored again, or was the PAN ID 0xffff (config_init, start_nvm,     *)
(* NVM_Write_NetInfo).                                                     *)
THEOREM SettingsComeBack == Spec => SettingsKept
<1>1. Spec => [](IInv /\ KeptInv)
  BY InitInv, StepInv, KeptInit, KeptStep, PTL DEF Spec
<1> QED
  BY <1>1, BootKeeps, PTL DEF Spec, SettingsKept

-----------------------------------------------------------------------------
(* Arithmetic of the ring.                                                 *)

(* Induction over the naturals, of a set.                                  *)
LEMMA Induction ==
  ASSUME NEW S \in SUBSET Nat, 0 \in S, \A k \in S : k + 1 \in S
  PROVE  \A k \in Nat : k \in S
<1> SUFFICES ASSUME NEW a \in Nat, a \notin S PROVE FALSE
  OBVIOUS
<1> DEFINE T == {0..k : k \in Nat \ S}
<1>1. T # {}
  OBVIOUS
<1>2. T \subseteq FiniteSubsetsOf(Nat)
  <2>1. ASSUME NEW k \in Nat PROVE 0..k \in FiniteSubsetsOf(Nat)
    <3>1. IsFiniteSet(0..k)
      BY FS_Interval
    <3>2. 0..k \subseteq Nat
      OBVIOUS
    <3> QED
      BY <3>1, <3>2 DEF FiniteSubsetsOf
  <2> QED
    BY <2>1
<1>3. PICK x \in T : \A y \in T : <<y, x>> \notin StrictSubsetOrdering(Nat)
  <2> HIDE DEF T
  <2> QED
    BY <1>1, <1>2, FS_StrictSubsetOrderingWellFounded, WFMin
<1>4. PICK k \in Nat \ S : x = 0..k
  OBVIOUS
<1>5. k # 0 /\ k - 1 \in Nat /\ (k - 1) + 1 = k
  BY <1>4
<1>6. k - 1 \in Nat \ S
  BY <1>4, <1>5
<1>7. 0..(k - 1) \in T
  BY <1>6
<1>8. /\ 0..(k - 1) \subseteq 0..k /\ 0..(k - 1) # 0..k
      /\ 0..(k - 1) \subseteq Nat /\ 0..k \subseteq Nat
  <2>1. k \in 0..k /\ k \notin 0..(k - 1)
    BY <1>5
  <2>2. 0..(k - 1) \subseteq 0..k /\ 0..(k - 1) \subseteq Nat /\ 0..k \subseteq Nat
    BY <1>5
  <2> QED
    BY <2>1, <2>2
<1>9. <<0..(k - 1), x>> \in StrictSubsetOrdering(Nat)
  BY <1>4, <1>8 DEF StrictSubsetOrdering
<1> QED
  BY <1>3, <1>7, <1>9

(* A concatenation is the last part of the function that FlattenSeq        *)
(* builds.                                                                 *)
LEMMA Flat ==
  ASSUME NEW s, Len(s) # 0, 
      NEW f, f = CHOOSE g : g = [i \in 1..Len(s) |-> IF i = 1 THEN s[i] ELSE g[i - 1] \o s[i]]
  PROVE FlattenSeq(s) = f[Len(s)]
BY DEF FlattenSeq

(* The end of a line lies past its data and its prefix.                    *)
LEMMA LineEnd == ASSUME NEW d \in Nat, NEW e \in Nat, e = d + 6
                 PROVE  e \in 1..e /\ e >= d + 5
OBVIOUS

(* Division with a remainder, of naturals.                                 *)
LEMMA Remainder ==
  ASSUME NEW M \in Nat \ {0}, NEW a \in Nat
  PROVE  /\ a = M * (a \div M) + (a % M)
         /\ a \div M \in Nat /\ a % M \in 0..(M - 1) /\ a % M <= a
         /\ a < M => a % M = a
BY SMT

(* A multiple of M between -M and M is zero.                               *)
LEMMA Multiple ==
  ASSUME NEW M \in Nat \ {0}, NEW x \in Int, NEW y \in Int
  PROVE  /\ M * (x - y) = M * x - M * y /\ M * x \in Int
         /\ M * x < M /\ -M < M * x => x = 0
         /\ x >= 1 => M * x >= M
<1>1. M * (x - y) = M * x - M * y
  BY SMT
<1>2. M * x < M /\ -M < M * x => x = 0
  BY SMT
<1>3. x >= 1 => M * x >= M
  BY SMT
<1> QED
  BY <1>1, <1>2, <1>3

(* Quotient and remainder are unique.                                      *)
LEMMA Unique ==
  ASSUME NEW M \in Nat \ {0}, NEW a \in Nat, NEW q \in Int, NEW r \in 0..(M - 1), a = M * q + r
  PROVE  a % M = r
<1>1. a = M * (a \div M) + (a % M) /\ a \div M \in Nat /\ a % M \in 0..(M - 1)
  BY Remainder
<1>2. PICK x \in Int : x = q - (a \div M)
  BY <1>1
<1>3. M * x = M * q - M * (a \div M) /\ M * q \in Int /\ M * (a \div M) \in Int
  BY <1>1, <1>2, Multiple
<1>4. M * x = (a % M) - r
  BY <1>1, <1>3
<1>5. x = 0
  BY <1>1, <1>4, Multiple
<1>6. M * x = 0
  BY <1>5
<1> QED
  BY <1>1, <1>4, <1>6

(* The index of a ring of M cells goes up by one, or back to zero after    *)
(* the last cell.                                                          *)
LEMMA Turn ==
  ASSUME NEW M \in Nat \ {0}, NEW a \in Nat
  PROVE  /\ a % M = M - 1 => (a + 1) % M = 0
         /\ a % M # M - 1 => (a + 1) % M = (a % M) + 1
         /\ ((a % M) + 1) % M = (a + 1) % M
         /\ (a + M) % M = a % M
<1>1. a = M * (a \div M) + (a % M) /\ a \div M \in Nat /\ a % M \in 0..(M - 1)
  BY Remainder
<1>2. PICK q \in Nat : q = a \div M
  BY <1>1
<1>3. PICK r \in 0..(M - 1) : r = a % M
  BY <1>1
<1>a. PICK p \in Nat : p = q + 1
  OBVIOUS
<1>4. a = M * q + r /\ M * p = M * q + M /\ M * q \in Int
  BY <1>1, <1>2, <1>3, <1>a
<1>5. (a + M) % M = r
  <2>1. PICK b \in Nat : b = a + M
    OBVIOUS
  <2>2. b = M * p + r
    BY <1>4, <2>1
  <2>3. b % M = r
    BY <2>2, Unique
  <2> QED
    BY <2>1, <2>3
<1>b. PICK b \in Nat : b = a + 1
  OBVIOUS
<1>6. CASE r = M - 1
  <2>0. PICK z \in 0..(M - 1) : z = 0
    OBVIOUS
  <2>1. b = M * p + z
    BY <1>4, <1>6, <1>b, <2>0
  <2>a. b % M = z
    BY <2>1, Unique
  <2>2. (a + 1) % M = 0
    BY <2>a, <2>0, <1>b
  <2>3. r + 1 = M * 1 + 0
    BY <1>6
  <2>4. (r + 1) % M = 0
    BY <2>3, Unique
  <2> QED
    BY <2>2, <2>4, <1>3, <1>5, <1>6
<1>7. CASE r # M - 1
  <2>1. PICK s \in 0..(M - 1) : s = r + 1
    BY <1>7
  <2>2. b = M * q + s
    BY <1>4, <1>b, <2>1
  <2>3. b % M = s
    BY <2>2, Unique
  <2>4. s % M = s
    <3>1. s \in Nat /\ s < M
      OBVIOUS
    <3> QED
      BY <3>1, Remainder
  <2> QED
    BY <2>1, <2>3, <2>4, <1>b, <1>3, <1>5, <1>7
<1> QED
  BY <1>6, <1>7

(* Two positions with the same cell are whole turns of the ring apart.     *)
LEMMA Turns ==
  ASSUME NEW M \in Nat \ {0}, NEW a \in Nat, NEW b \in Nat, a % M = b % M, a <= b
  PROVE  (b - a) % M = 0 /\ (a < b => a + M <= b)
<1>0. /\ a = M * (a \div M) + (a % M) /\ a \div M \in Nat /\ a % M \in 0..(M - 1)
      /\ b = M * (b \div M) + (b % M) /\ b \div M \in Nat
  BY Remainder
<1>1. PICK q \in Nat, p \in Nat, r \in 0..(M - 1) : a = M * q + r /\ b = M * p + r
  BY <1>0
<1>2. M * (p - q) = M * p - M * q /\ M * p \in Int /\ M * q \in Int
  BY Multiple
<1>3. b - a = M * (p - q) + 0 /\ b - a \in Nat
  BY <1>1, <1>2
<1>4. (b - a) % M = 0
  BY <1>3, Unique
<1>5. a < b => a + M <= b
  <2>1. p - q >= 1 => M * (p - q) >= M
    BY Multiple
  <2>2. p - q < 1 => M * (q - p) >= 0
    <3>1. q - p >= 1 => M * (q - p) >= M
      BY Multiple
    <3>2. q = p => M * (q - p) = 0
      OBVIOUS
    <3> QED
      BY <3>1, <3>2
  <2>3. M * (q - p) = M * q - M * p
    BY Multiple
  <2> QED
    BY <2>1, <2>2, <2>3, <1>1, <1>2
<1> QED
  BY <1>4, <1>5

-----------------------------------------------------------------------------
(* What FlattenSeq returns, and where the lines of the script lie.         *)

\* g[i] is the concatenation of the first i sequences of s.
IsChain(s, g, m) ==
  /\ DOMAIN g = 1..m
  /\ m >= 1 => g[1] = s[1]
  /\ \A i \in 2..m : g[i] = g[i - 1] \o s[i]

\* Two functions agree up to m.
Same(s, t, m) == \A i \in 1..m : s[i] = t[i]

(* Every prefix of a sequence of sequences has its concatenations.         *)
LEMMA ChainExists ==
  ASSUME NEW S, NEW s \in Seq(Seq(S)), NEW k \in 0..Len(s)
  PROVE  \E g \in [1..k -> Seq(S)] : IsChain(s, g, k)
<1> DEFINE P(m) == m <= Len(s) => \E g \in [1..m -> Seq(S)] : IsChain(s, g, m)
           T == {m \in Nat : P(m)}
<1>1. 0 \in T
  <2>1. [i \in 1..0 |-> <<>>] \in [1..0 -> Seq(S)]
    OBVIOUS
  <2>2. IsChain(s, [i \in 1..0 |-> <<>>], 0)
    BY DEF IsChain
  <2> QED
    BY <2>1, <2>2
<1>2. ASSUME NEW m \in T PROVE m + 1 \in T
  <2> SUFFICES ASSUME m + 1 <= Len(s)
               PROVE  \E h \in [1..(m + 1) -> Seq(S)] : IsChain(s, h, m + 1)
    OBVIOUS
  <2>0. m \in Nat /\ P(m)
    OBVIOUS
  <2>1. PICK g \in [1..m -> Seq(S)] : IsChain(s, g, m)
    BY <2>0
  <2>2. s[m + 1] \in Seq(S) /\ (m >= 1 => g[m] \in Seq(S)) /\ m \in Nat /\ (m = 0 \/ m >= 1)
    BY <2>0
  <2> HIDE DEF T, P
  <2>3. PICK x \in Seq(S) : /\ m = 0 => x = s[1]
                            /\ m >= 1 => x = g[m] \o s[m + 1]
    <3>1. CASE m = 0
      <4>1. s[1] \in Seq(S)
        BY <2>2, <3>1
      <4> QED
        BY <3>1, <4>1
    <3>2. CASE m >= 1
      <4>1. g[m] \o s[m + 1] \in Seq(S)
        BY <2>2, <3>2
      <4>2. PICK x \in Seq(S) : x = g[m] \o s[m + 1]
        BY <4>1
      <4>3. m # 0
        BY <3>2
      <4> QED
        BY <4>2, <4>3
    <3> QED
      BY <2>2, <3>1, <3>2
  <2>4. PICK h : h = [i \in 1..(m + 1) |-> IF i = m + 1 THEN x ELSE g[i]]
    OBVIOUS
  <2>5. h \in [1..(m + 1) -> Seq(S)] /\ h[m + 1] = x /\ \A i \in 1..m : h[i] = g[i]
    BY <2>2, <2>4
  <2>6. IsChain(s, h, m + 1)
    <3>1. DOMAIN h = 1..(m + 1)
      BY <2>5
    <3>2. h[1] = s[1]
      BY <2>2, <2>1, <2>3, <2>5 DEF IsChain
    <3>3. ASSUME NEW i \in 2..(m + 1) PROVE h[i] = h[i - 1] \o s[i]
      <4>1. CASE i = m + 1
        <5>1. m >= 1 /\ i - 1 = m /\ m \in 1..m
          BY <2>2, <4>1
        <5> QED
          BY <2>3, <2>5, <4>1, <5>1
      <4>2. CASE i \in 2..m
        <5>1. i \in 1..m /\ i - 1 \in 1..m
          BY <2>2, <4>2
        <5> QED
          BY <2>1, <2>5, <4>2, <5>1 DEF IsChain
      <4>3. i = m + 1 \/ i \in 2..m
        BY <2>2
      <4> QED
        BY <4>1, <4>2, <4>3
    <3> QED
      BY <3>1, <3>2, <3>3 DEF IsChain
  <2> QED
    BY <2>5, <2>6
<1>3. \A m \in Nat : m \in T
  <2>1. T \in SUBSET Nat
    OBVIOUS
  <2> HIDE DEF T
  <2> QED
    BY <1>1, <1>2, <2>1, Induction
<1>4. P(k)
  BY <1>3
<1> QED
  BY <1>4

(* Equal prefixes have equal concatenations.                               *)
LEMMA ChainsAgree ==
  ASSUME NEW s, NEW t, NEW g, NEW h, NEW m \in Nat, NEW k \in Nat, m <= k,
         IsChain(s, g, m), IsChain(t, h, k), Same(s, t, m)
  PROVE  Same(g, h, m)
<1> DEFINE T == {i \in Nat : i \in 1..m => g[i] = h[i]}
<1>1. 0 \in T
  OBVIOUS
<1>2. ASSUME NEW i \in T PROVE i + 1 \in T
  <2> SUFFICES ASSUME i + 1 \in 1..m PROVE g[i + 1] = h[i + 1]
    OBVIOUS
  <2>1. CASE i = 0
    BY <2>1 DEF IsChain, Same
  <2>2. CASE i >= 1
    <3>1. i \in 1..m /\ (i + 1) \in 2..m /\ (i + 1) \in 2..k /\ (i + 1) - 1 = i
      BY <2>2
    <3>2. g[i + 1] = g[i] \o s[i + 1] /\ h[i + 1] = h[i] \o t[i + 1]
      BY <3>1 DEF IsChain, Same
    <3>3. s[i + 1] = t[i + 1]
      BY DEF Same
    <3> QED
      BY <3>1, <3>2, <3>3
  <2> QED
    BY <2>1, <2>2
<1>3. \A i \in Nat : i \in T
  <2>1. T \in SUBSET Nat
    OBVIOUS
  <2> HIDE DEF T
  <2> QED
    BY <1>1, <1>2, <2>1, Induction
<1> QED
  BY <1>3 DEF Same

(* FlattenSeq is the last of the concatenations.                           *)
LEMMA Flattened ==
  ASSUME NEW S, NEW s \in Seq(Seq(S)), Len(s) # 0,
         NEW g \in [1..Len(s) -> Seq(S)], IsChain(s, g, Len(s))
  PROVE  FlattenSeq(s) = g[Len(s)]
<1>1. PICK m \in Nat : m = Len(s)
  OBVIOUS
<1>2. g = [i \in 1..Len(s) |-> IF i = 1 THEN s[i] ELSE g[i - 1] \o s[i]]
  <2>1. ASSUME NEW i \in 1..m PROVE g[i] = IF i = 1 THEN s[i] ELSE g[i - 1] \o s[i]
    <3>1. i = 1 \/ i \in 2..m
      OBVIOUS
    <3>2. i = 1 => g[i] = s[i]
      BY <1>1 DEF IsChain
    <3>3. i \in 2..m => g[i] = g[i - 1] \o s[i]
      BY <1>1 DEF IsChain
    <3>4. i \in 2..m => i # 1
      OBVIOUS
    <3> QED
      BY <3>1, <3>2, <3>3, <3>4
  <2> QED
    BY <1>1, <2>1
<1>3. PICK f : f = CHOOSE h : h = [i \in 1..Len(s) |-> IF i = 1 THEN s[i] ELSE h[i - 1] \o s[i]]
  OBVIOUS
<1>4. f = [i \in 1..Len(s) |-> IF i = 1 THEN s[i] ELSE f[i - 1] \o s[i]]
  BY <1>2, <1>3
<1>5. IsChain(s, f, m)
  <2>1. DOMAIN f = 1..m /\ \A i \in 1..m : f[i] = IF i = 1 THEN s[i] ELSE f[i - 1] \o s[i]
    BY <1>1, <1>4
  <2>2. \A i \in 2..m : i \in 1..m /\ i # 1
    OBVIOUS
  <2>3. m >= 1 => 1 \in 1..m
    OBVIOUS
  <2> QED
    BY <2>1, <2>2, <2>3 DEF IsChain
<1>6. f[m] = g[m]
  <2>1. IsChain(s, g, m) /\ Same(s, s, m) /\ m <= m
    BY <1>1 DEF Same
  <2>2. Same(f, g, m)
    BY <1>5, <2>1, ChainsAgree
  <2> QED
    BY <1>1, <2>2 DEF Same
<1> QED
  BY <1>1, <1>3, <1>6, Flat

(* FlattenSeq of a prefix is one of the concatenations of the whole.       *)
LEMMA PartFlattened ==
  ASSUME NEW S, NEW s, NEW t \in Seq(Seq(S)), NEW m \in Nat, NEW k \in Nat,
         k # 0, k <= m, Len(t) = k, Same(t, s, k),
         NEW g, IsChain(s, g, m)
  PROVE  FlattenSeq(t) = g[k]
<1>1. PICK h \in [1..k -> Seq(S)] : IsChain(t, h, k)
  BY ChainExists
<1>2. FlattenSeq(t) = h[k]
  BY <1>1, Flattened
<1>3. Same(h, g, k)
  BY <1>1, ChainsAgree
<1> QED
  BY <1>2, <1>3 DEF Same

\* r is p followed by q, byte by byte.
Glued(r, p, q) ==
  /\ Len(r) = Len(p) + Len(q) /\ Len(p) \in Nat /\ Len(q) \in Nat
  /\ \A j \in 1..Len(p) : r[j] = p[j]
  /\ \A j \in 1..Len(q) : r[Len(p) + j] = q[j]

(* Concatenation glues two sequences.                                      *)
LEMMA Joined ==
  ASSUME NEW S, NEW p \in Seq(S), NEW q \in Seq(S), NEW r, r = p \o q
  PROVE  r \in Seq(S) /\ Glued(r, p, q)
<1>1. r \in Seq(S) /\ Len(r) = Len(p) + Len(q) /\ Len(p) \in Nat /\ Len(q) \in Nat
  OBVIOUS
<1>2. \A j \in 1..Len(p) : r[j] = p[j]
  BY SMTT(20)
<1>3. ASSUME NEW j \in 1..Len(q) PROVE r[Len(p) + j] = q[j]
  <2>1. PICK i \in Nat : i = Len(p) + j
    BY <1>1
  <2>2. i \in 1..(Len(p) + Len(q)) /\ i > Len(p) /\ i - Len(p) = j
    BY <1>1, <2>1
  <2>3. r[i] = q[i - Len(p)]
    BY <1>1, <2>2, SMTT(20)
  <2> QED
    BY <2>1, <2>2, <2>3
<1> QED
  BY <1>1, <1>2, <1>3 DEF Glued

(* The characters of a script, the bytes before the end of line l, and the *)
(* bytes of line l: "at=u", its data, CR and LF.                           *)
Chars     == Printed \cup {"a", "t", "=", "u", "CR", "LF"}
Before(l) == Len(FlattenSeq([k \in 1..l |-> Wire(k)]))
LineLen(l) == Len(Lines[l]) + 6

(* Line l as it is on the wire.                                            *)
LEMMA WireLine ==
  ASSUME NEW l \in 1..Len(Lines)
  PROVE  /\ Lines[l] \in Seq(Printed) /\ Len(Lines[l]) \in Nat
         /\ Wire(l) \in Seq(Chars) /\ Len(Wire(l)) = LineLen(l)
         /\ Wire(l)[1] = "a" /\ Wire(l)[2] = "t" /\ Wire(l)[3] = "=" /\ Wire(l)[4] = "u"
         /\ \A j \in 1..Len(Lines[l]) : Wire(l)[4 + j] = Lines[l][j]
         /\ Wire(l)[Len(Lines[l]) + 5] = "CR" /\ Wire(l)[Len(Lines[l]) + 6] = "LF"
<1>1. Lines[l] \in Seq(Printed) /\ Len(Lines[l]) \in Nat
  BY LoraSerialAssumption
<1>2. PICK d \in Seq(Printed) : d = Lines[l]
  BY <1>1
<1>3. PICK h : h = <<"a", "t", "=", "u">>
  OBVIOUS
<1>4. h \in Seq(Chars) /\ Len(h) = 4 /\ h[1] = "a" /\ h[2] = "t" /\ h[3] = "=" /\ h[4] = "u"
  BY <1>3 DEF Chars
<1>5. d \in Seq(Chars) /\ Len(d) \in Nat
  BY SeqDef DEF Chars
<1>6. PICK e : e = <<"CR", "LF">>
  OBVIOUS
<1>7. e \in Seq(Chars) /\ Len(e) = 2 /\ e[1] = "CR" /\ e[2] = "LF"
  BY <1>6 DEF Chars
<1>8. PICK w : w = h \o d
  OBVIOUS
<1>9. /\ w \in Seq(Chars) /\ Len(w) = 4 + Len(d)
      /\ \A j \in 1..4 : w[j] = h[j]
      /\ \A j \in 1..Len(d) : w[4 + j] = d[j]
  <2>1. w \in Seq(Chars) /\ Glued(w, h, d)
    BY <1>4, <1>5, <1>8, Joined, Zenon
  <2> QED
    BY <1>4, <1>5, <2>1 DEF Glued
<1>10. PICK v : v = w \o e
  OBVIOUS
<1>11. /\ v \in Seq(Chars) /\ Len(v) = Len(d) + 6
       /\ \A j \in 1..Len(w) : v[j] = w[j]
       /\ v[Len(w) + 1] = e[1] /\ v[Len(w) + 2] = e[2]
  <2>1. v \in Seq(Chars) /\ Glued(v, w, e)
    BY <1>7, <1>9, <1>10, Joined, Zenon
  <2> QED
    BY <1>5, <1>7, <1>9, <2>1 DEF Glued
<1>12. v = Wire(l)
  BY <1>2, <1>3, <1>6, <1>8, <1>10 DEF Wire
<1>13. v[1] = "a" /\ v[2] = "t" /\ v[3] = "=" /\ v[4] = "u"
  BY <1>4, <1>5, <1>9, <1>11
<1>14. \A j \in 1..Len(d) : v[4 + j] = d[j]
  <2>1. \A j \in 1..Len(d) : 4 + j \in 1..Len(w)
    BY <1>5, <1>9
  <2> QED
    BY <1>9, <1>11, <2>1
<1>15. v[Len(d) + 5] = "CR" /\ v[Len(d) + 6] = "LF"
  <2>1. Len(w) + 1 = Len(d) + 5 /\ Len(w) + 2 = Len(d) + 6
    BY <1>5, <1>9
  <2> QED
    BY <1>7, <1>11, <2>1
<1>16. LineLen(l) = Len(d) + 6
  BY <1>2 DEF LineLen
<1> QED
  BY <1>1, <1>2, <1>11, <1>12, <1>13, <1>14, <1>15, <1>16

(* The script is its lines one after another: byte j of line l comes j     *)
(* bytes after the lines before it.                                        *)
LEMMA Layout ==
  /\ Script \in Seq(Chars) /\ Len(Script) = Before(Len(Lines)) /\ Before(0) = 0
  /\ Len(Lines) \in Nat
  /\ \A l \in 1..Len(Lines) :
       /\ Before(l) \in Nat /\ Before(l - 1) \in Nat /\ Before(l) = Before(l - 1) + LineLen(l)
       /\ \A j \in 1..LineLen(l) : Script[Before(l - 1) + j] = Wire(l)[j]
<1>1. PICK m \in Nat : m = Len(Lines) /\ DOMAIN Lines = 1..m
  BY LoraSerialAssumption
<1>2. Before(0) = 0
  <2>1. PICK z : z = [k \in 1..0 |-> Wire(k)]
    OBVIOUS
  <2>2. Len(z) = 0
    BY <2>1
  <2>3. FlattenSeq(z) = z
    BY <2>2 DEF FlattenSeq
  <2> QED
    BY <2>1, <2>2, <2>3 DEF Before
<1>3. Len(Script) = Before(m)
  <2>1. Script = FlattenSeq([l \in 1..m |-> Wire(l)])
    BY <1>1 DEF Script
  <2> QED
    BY <2>1 DEF Before
<1>4. CASE m = 0
  <2>1. PICK z : z = [k \in 1..0 |-> Wire(k)]
    OBVIOUS
  <2>2. Len(z) = 0 /\ z \in Seq(Chars)
    BY <2>1
  <2>3. FlattenSeq(z) = z
    BY <2>2 DEF FlattenSeq
  <2>4. Script \in Seq(Chars)
    BY <1>1, <1>4, <2>1, <2>2, <2>3 DEF Script
  <2> QED
    BY <1>1, <1>2, <1>3, <1>4, <2>4
<1>5. CASE m # 0
  <2> DEFINE s(k) == [l \in 1..k |-> Wire(l)]
  <2>1. \A k \in 0..m :
          s(k) \in Seq(Seq(Chars)) /\ Len(s(k)) = k /\ \A l \in 1..k : s(k)[l] = Wire(l)
    <3>1. \A l \in 1..m : Wire(l) \in Seq(Chars)
      BY <1>1, WireLine
    <3>2. TAKE k \in 0..m
    <3>3. \A l \in 1..k : Wire(l) \in Seq(Chars)
      BY <3>1
    <3> QED
      BY <3>3
  <2> HIDE DEF s
  <2>2. PICK g \in [1..m -> Seq(Chars)] : IsChain(s(m), g, m)
    <3>1. m \in 0..m
      OBVIOUS
    <3>2. s(m) \in Seq(Seq(Chars)) /\ m \in 0..Len(s(m))
      BY <2>1, <3>1
    <3> QED
      BY <3>2, ChainExists
  <2>3. \A k \in 1..m : FlattenSeq(s(k)) = g[k]
    <3>1. SUFFICES ASSUME NEW k \in 1..m PROVE FlattenSeq(s(k)) = g[k]
      OBVIOUS
    <3>2. k \in 0..m /\ m \in 0..m /\ m \in Nat /\ k \in Nat /\ k # 0 /\ k <= m /\ k \in 1..k
      OBVIOUS
    <3>3. s(k) \in Seq(Seq(Chars)) /\ Len(s(k)) = k
      BY <2>1, <3>2
    <3>6. \A i \in 1..k : s(k)[i] = s(m)[i]
      <4>1. \A i \in 1..k : i \in 1..m
        BY <3>2
      <4> QED
        BY <2>1, <3>2, <4>1
    <3>7. PICK u, v, f : u = s(m) /\ v = s(k) /\ f = g
      OBVIOUS
    <3>8. FlattenSeq(v) = f[k]
      <4>1. v \in Seq(Seq(Chars)) /\ Len(v) = k /\ Same(v, u, k)
        BY <3>3, <3>6, <3>7 DEF Same
      <4>2. IsChain(u, f, m)
        BY <2>2, <3>7
      <4> QED
        BY <3>2, <4>1, <4>2, PartFlattened
    <3> QED
      BY <3>7, <3>8
  <2>4. \A k \in 1..m : Before(k) = Len(g[k]) /\ g[k] \in Seq(Chars) /\ Before(k) \in Nat
    <3>1. \A k \in 1..m : Before(k) = Len(g[k])
      BY <2>3 DEF Before, s
    <3>2. \A k \in 1..m : g[k] \in Seq(Chars)
      OBVIOUS
    <3> QED
      BY <3>1, <3>2
  <2>5. Script = g[m]
    <3>1. Script = FlattenSeq(s(m))
      BY <1>1 DEF Script, s
    <3> QED
      BY <1>5, <2>3, <3>1
  <2>6. g[1] = Wire(1) /\ \A k \in 2..m : g[k] = g[k - 1] \o Wire(k)
    <3>1. m \in 0..m /\ 1 \in 1..m /\ m >= 1 /\ \A k \in 2..m : k \in 1..m
      BY <1>5
    <3>2. \A k \in 1..m : s(m)[k] = Wire(k)
      BY <2>1, <3>1
    <3> QED
      BY <2>2, <3>1, <3>2 DEF IsChain
  <2>7. ASSUME NEW l \in 1..m
        PROVE  /\ Before(l - 1) \in Nat /\ Before(l) = Before(l - 1) + LineLen(l)
               /\ \A j \in 1..LineLen(l) : g[l][Before(l - 1) + j] = Wire(l)[j]
    <3>1. Wire(l) \in Seq(Chars) /\ Len(Wire(l)) = LineLen(l) /\ LineLen(l) \in Nat
      <4>1. Wire(l) \in Seq(Chars) /\ Len(Wire(l)) = LineLen(l)
        BY <1>1, WireLine
      <4> QED
        BY <4>1
    <3>2. CASE l = 1
      <4>1. l - 1 = 0 /\ g[l] = Wire(l)
        BY <2>6, <3>2
      <4>2. Before(l - 1) = 0
        BY <1>2, <4>1
      <4>3. \A j \in 1..LineLen(l) : 0 + j = j
        OBVIOUS
      <4> QED
        BY <2>4, <3>1, <4>1, <4>2, <4>3
    <3>3. CASE l # 1
      <4>1. l \in 2..m /\ l - 1 \in 1..m
        BY <3>3
      <4>2. PICK p \in Seq(Chars) : p = g[l - 1]
        BY <2>4, <4>1
      <4>a. PICK r : r = p \o Wire(l)
        OBVIOUS
      <4>3. g[l] = r /\ Before(l - 1) = Len(p)
        BY <4>a, <2>4, <2>6, <4>1, <4>2
      <4>4. /\ Len(r) = Len(p) + LineLen(l)
            /\ \A j \in 1..LineLen(l) : r[Len(p) + j] = Wire(l)[j]
        <5>1. Glued(r, p, Wire(l))
          BY <3>1, <4>a, Joined, Zenon
        <5> QED
          BY <3>1, <5>1 DEF Glued
      <4>5. Before(l) = Len(r) /\ Len(p) \in Nat
        BY <2>4, <4>3
      <4> QED
        BY <4>3, <4>4, <4>5
    <3> QED
      BY <3>2, <3>3
  <2>8. ASSUME NEW l \in 1..m
        PROVE  \A i \in 1..Before(l) : g[m][i] = g[l][i]
    <3> DEFINE T == {k \in Nat : (l <= k /\ k <= m) =>
                       /\ Before(l) <= Before(k)
                       /\ \A i \in 1..Before(l) : g[k][i] = g[l][i]}
    <3>1. 0 \in T
      OBVIOUS
    <3>2. ASSUME NEW k \in T PROVE k + 1 \in T
      <4> SUFFICES ASSUME l <= k + 1, k + 1 <= m
                   PROVE  /\ Before(l) <= Before(k + 1)
                          /\ \A i \in 1..Before(l) : g[k + 1][i] = g[l][i]
        OBVIOUS
      <4>1. CASE l = k + 1
        BY <2>4, <4>1
      <4>2. CASE l <= k
        <5>1. k \in 1..m /\ k + 1 \in 2..m /\ k + 1 \in 1..m /\ (k + 1) - 1 = k
          BY <4>2
        <5>2. Before(l) <= Before(k) /\ \A i \in 1..Before(l) : g[k][i] = g[l][i]
          BY <4>2, <5>1
        <5>3. PICK p \in Seq(Chars) : p = g[k] /\ Before(k) = Len(p)
          BY <2>4, <5>1
        <5>4. Wire(k + 1) \in Seq(Chars)
          BY <1>1, <5>1, WireLine
        <5>5. g[k + 1] = p \o Wire(k + 1)
          BY <2>6, <5>1, <5>3
        <5>6. \A i \in 1..Len(p) : g[k + 1][i] = p[i]
          BY <5>4, <5>5
        <5>7. Before(k + 1) = Before(k) + LineLen(k + 1) /\ LineLen(k + 1) \in Nat
          <6>1. Len(Wire(k + 1)) \in Nat /\ Len(Wire(k + 1)) = LineLen(k + 1)
            BY <1>1, <5>1, <5>4, WireLine
          <6> QED
            BY <2>7, <5>1, <6>1
        <5>8. Before(l) \in Nat /\ Before(k) \in Nat
          BY <2>4, <5>1
        <5>9. Before(l) <= Before(k + 1)
          BY <5>2, <5>7, <5>8
        <5>10. \A i \in 1..Before(l) : i \in 1..Len(p)
          BY <5>2, <5>3, <5>8
        <5> QED
          BY <5>2, <5>3, <5>6, <5>9, <5>10
      <4>3. l = k + 1 \/ l <= k
        OBVIOUS
      <4> QED
        BY <4>1, <4>2, <4>3
    <3>3. \A k \in Nat : k \in T
      <4>1. T \in SUBSET Nat
        OBVIOUS
      <4> HIDE DEF T
      <4> QED
        BY <3>1, <3>2, <4>1, Induction
    <3>4. m \in T /\ l <= m
      BY <3>3
    <3> QED
      BY <3>4
  <2>9. ASSUME NEW l \in 1..m, NEW j \in 1..LineLen(l)
        PROVE  Script[Before(l - 1) + j] = Wire(l)[j]
    <3>1. LineLen(l) \in Nat
      BY <1>1, WireLine DEF LineLen
    <3>2. Before(l - 1) + j \in 1..Before(l)
      <4>1. PICK b \in Nat, c \in Nat : b = Before(l - 1) /\ c = Before(l) /\ c = b + LineLen(l)
        BY <2>4, <2>7
      <4> QED
        BY <3>1, <4>1
    <3> QED
      BY <2>5, <2>7, <2>8, <3>2
  <2>10. Script \in Seq(Chars)
    BY <1>5, <2>4, <2>5
  <2> QED
    BY <1>1, <1>2, <1>3, <2>4, <2>7, <2>9, <2>10
<1> QED
  BY <1>4, <1>5

(* A script has a length.                                                  *)
LEMMA ScriptLen == Len(Script) \in Nat
BY Layout

(* The ring has at least one cell, and a byte counts two turns of it.      *)
LEMMA Ring == N \in Nat \ {0} /\ W \in Nat \ {0} /\ W = 2 * N
BY LoraSerialAssumption DEF W

-----------------------------------------------------------------------------
(* LoraSerial: the ring and sio2host_rx.                                   *)

\* What a cell of the ring holds: the last byte written to it, if any.
Cells ==
  \A c \in 0..(N - 1) :
    /\ buf[c] = 0 => sent <= c
    /\ buf[c] # 0 => (buf[c] - 1) % N = c /\ buf[c] + N > sent

\* No cell holds a byte that has not arrived.
WrittenBefore == \A c \in 0..(N - 1) : buf[c] <= sent

\* The history variables, and the locals of sio2host_rx.
Locals ==
  /\ base + sent <= Len(Script)
  /\ mode = "reset" => pc = "call"
  /\ last <= sent /\ run <= last
  /\ mode = "word" => left >= 1
  /\ tail = sent % N
  /\ pc = "take" => count # 0
  /\ (pc # "take" \/ ~raced) => head = last % N
  /\ raced => N <= sent
  /\ pc = "count" => /\ ~ge => N <= sent
                     /\ ~reload => (ge <=> seen >= head)
                     /\ (~reload /\ seen # head) => last < sent
  /\ pc = "resync" => raced
  /\ (pc = "take" /\ ~raced) => last < sent

\* The inductive invariant of the ring and of sio2host_rx.
RingInv == SerialTypes /\ Cells /\ WrittenBefore /\ Locals

(* An empty ring satisfies the invariant.                                  *)
LEMMA RingInit == SerialInit => RingInv
<1> SUFFICES ASSUME SerialInit PROVE RingInv
  OBVIOUS
<1>1. 0 % N = 0 /\ N \in Nat \ {0}
  <2>1. 0 < N /\ 0 \in Nat
    BY Ring
  <2> QED
    BY <2>1, Ring, Remainder
<1>2. SerialTypes
  <2>1. 0 \in 0..(N - 1) /\ 0 \in 0..(W - 1) /\ 0 \in 0..Len(Script) /\ 0 \in -2..Len(Script)
    BY Ring, ScriptLen
  <2>2. buf \in [0..(N - 1) -> 0..Len(Script)]
    BY <2>1 DEF SerialInit
  <2>3. tx \in Seq(1..Len(Script))
    BY DEF SerialInit
  <2>4. n \in 0..3 /\ left \in 0..4
    BY DEF SerialInit
  <2>5. reload \in BOOLEAN /\ raced \in BOOLEAN /\ ge \in BOOLEAN /\ misrated \in BOOLEAN
    BY DEF SerialInit
  <2> QED
    BY <2>1, <2>2, <2>3, <2>4, <2>5 DEF SerialInit, SerialTypes
<1>3. Cells /\ WrittenBefore
  BY Ring DEF SerialInit, Cells, WrittenBefore
<1>4. Locals
  BY <1>1, ScriptLen DEF SerialInit, Locals
<1> QED
  BY <1>2, <1>3, <1>4 DEF RingInv

(* The interrupt preserves it: the byte written is the newest of its cell. *)
LEMMA RingReceive ==
  ASSUME RingInv, Receive
  PROVE  RingInv'
<1> USE Ring, ScriptLen
<1>1. PICK s \in Nat : s = sent
  BY DEF RingInv, SerialTypes
<1>2. s + 1 \in Nat /\ s + 1 <= Len(Script) /\ sent' = s + 1 /\ base' + sent' <= Len(Script)
  <2>1. PICK z \in Nat : z = base /\ z = base'
    BY DEF RingInv, SerialTypes, Receive
  <2>2. z + s < Len(Script) /\ sent' = s + 1
    BY <1>1, <2>1 DEF Receive
  <2>3. s + 1 <= Len(Script) /\ z + (s + 1) <= Len(Script)
    BY <1>1, <2>1, <2>2
  <2> QED
    BY <1>1, <2>1, <2>2, <2>3
<1>3. tail = s % N /\ tail \in 0..(N - 1) /\ tail' = (s + 1) % N /\ tail' \in 0..(N - 1)
  <2>1. tail = s % N
    BY <1>1 DEF RingInv, Locals
  <2>2. tail' = (tail + 1) % N
    BY DEF Receive
  <2>3. ((s % N) + 1) % N = (s + 1) % N
    BY <1>1, Turn
  <2>4. (s + 1) % N \in 0..(N - 1) /\ s % N \in 0..(N - 1)
    BY <1>2, Remainder
  <2> QED
    BY <2>1, <2>2, <2>3, <2>4
<1>4. buf \in [0..(N - 1) -> 0..Len(Script)] /\ buf' = [buf EXCEPT ![tail] = s + 1]
  <2>1. buf \in [0..(N - 1) -> 0..Len(Script)]
    BY DEF RingInv, SerialTypes
  <2>2. buf' = [buf EXCEPT ![tail] = s + 1]
    BY <1>1 DEF Receive
  <2> QED
    BY <2>1, <2>2
<1>5. buf' \in [0..(N - 1) -> 0..Len(Script)]
  <2>1. s + 1 \in 0..Len(Script)
    BY <1>2
  <2> QED
    BY <1>4, <2>1
<1>6. /\ UNCHANGED <<reload, base, head, pc, ge, seen, count, n, mode, left, index, tx,
                      misrated, effects, raced, last, run>>
      /\ mode # "reset"
  BY DEF Receive, call, console, handed
<1>7. SerialTypes'
  <2>1. sent' \in 0..Len(Script)
    BY <1>2
  <2>2. SerialTypes
    BY DEF RingInv
  <2> QED
    BY <1>3, <1>5, <1>6, <2>1, <2>2 DEF SerialTypes
<1>8. Cells'
  <2> SUFFICES ASSUME NEW c \in 0..(N - 1)
               PROVE  /\ buf'[c] = 0 => s + 1 <= c
                      /\ buf'[c] # 0 => (buf'[c] - 1) % N = c /\ buf'[c] + N > s + 1
    BY <1>2 DEF Cells
  <2>1. CASE c = tail
    <3>1. buf'[c] = s + 1 /\ (s + 1) - 1 = s
      BY <1>1, <1>4, <2>1
    <3> QED
      BY <1>1, <1>3, <2>1, <3>1
  <2>2. CASE c # tail
    <3>1. PICK b \in Nat : b = buf[c] /\ b = buf'[c]
      BY <1>3, <1>4, <2>2
    <3>2. /\ b = 0 => s <= c
          /\ b # 0 => (b - 1) % N = c /\ b + N > s
      BY <1>1, <3>1 DEF RingInv, Cells
    <3>3. b = 0 => s + 1 <= c
      <4>1. s < N => s % N = s
        BY <1>1, Remainder
      <4> QED
        BY <1>1, <1>3, <2>2, <3>2, <4>1
    <3>4. b # 0 => b + N > s + 1
      <4> SUFFICES ASSUME b # 0, b + N = s + 1 PROVE FALSE
        BY <1>1, <3>2
      <4>1. PICK a \in Nat : a = b - 1 /\ a + N = s
        BY <3>1
      <4>2. (a + N) % N = a % N
        BY <4>1, Turn
      <4> QED
        BY <1>3, <2>2, <3>2, <4>1, <4>2
    <3> QED
      BY <3>1, <3>2, <3>3, <3>4
  <2> QED
    BY <2>1, <2>2
<1>9. Locals'
  <2>1. N <= sent => N <= s + 1
    BY <1>1
  <2>2. last \in Nat /\ (last < sent => last < s + 1) /\ (last <= sent => last <= s + 1)
    BY <1>1 DEF RingInv, SerialTypes
  <2> QED
    BY <1>2, <1>3, <1>6, <2>1, <2>2 DEF RingInv, Locals
<1>10. WrittenBefore'
  <2> SUFFICES ASSUME NEW c \in 0..(N - 1) PROVE buf'[c] <= s + 1
    BY <1>2 DEF WrittenBefore
  <2>1. buf[c] \in Nat /\ buf[c] <= s
    BY <1>1, <1>4 DEF RingInv, WrittenBefore
  <2>2. buf'[c] = buf[c] \/ buf'[c] = s + 1
    BY <1>3, <1>4
  <2> QED
    BY <1>1, <2>1, <2>2
<1> QED
  BY <1>7, <1>8, <1>9, <1>10 DEF RingInv

(* The comparison of tail and head preserves it.                           *)
LEMMA RingCompare ==
  ASSUME RingInv, Compare
  PROVE  RingInv'
<1> USE Ring, ScriptLen
<1>1. /\ UNCHANGED <<reload, base, sent, buf, tail, head, count, n, mode, left, index, tx,
                      misrated, effects, last, run>>
      /\ mode # "reset"
  BY DEF Compare, ring, console, handed
<1>2. /\ pc = "call" /\ pc' = "count" /\ ge' = (tail >= head)
      /\ reload => seen' = 0
      /\ ~reload => seen' = tail
      /\ raced' = (raced /\ tail # head)
  BY DEF Compare
<1>3. SerialTypes'
  <2>1. seen' \in 0..(N - 1)
    BY <1>2 DEF RingInv, SerialTypes
  <2>2. ge' \in BOOLEAN /\ raced' \in BOOLEAN
    BY <1>2 DEF RingInv, SerialTypes
  <2> QED
    BY <1>1, <1>2, <2>1, <2>2 DEF RingInv, SerialTypes
<1>4. Cells' /\ WrittenBefore'
  BY <1>1 DEF RingInv, Cells, WrittenBefore
<1>5. head = last % N /\ tail = sent % N /\ last \in Nat /\ sent \in Nat /\ last <= sent
  BY <1>2 DEF RingInv, Locals, SerialTypes
<1>6. tail # head => last < sent
  BY <1>5
<1>7. tail < head => N <= sent
  <2> SUFFICES ASSUME sent < N PROVE head <= tail
    BY <1>5 DEF RingInv, SerialTypes
  <2>1. last % N = last /\ sent % N = sent
    <3>1. last < N
      BY <1>5
    <3> QED
      BY <1>5, <3>1, Remainder
  <2> QED
    BY <1>5, <2>1
<1>8. head \in Nat /\ tail \in Nat
  BY DEF RingInv, SerialTypes
<1>9. Locals'
  <2>1. ~ge' => N <= sent'
    <3>1. ~ge' => ~(tail >= head)
      BY <1>2, Zenon
    <3>2. ~(tail >= head) => tail < head
      BY <1>8
    <3> QED
      BY <1>1, <1>7, <3>1, <3>2
  <2>2. ~reload' => (ge' <=> seen' >= head')
    BY <1>1, <1>2
  <2>3. (~reload' /\ seen' # head') => last' < sent'
    BY <1>1, <1>2, <1>6
  <2>4. raced' => N <= sent'
    BY <1>1, <1>2 DEF RingInv, Locals
  <2>5. /\ last' <= sent' /\ run' <= last' /\ (mode' = "word" => left' >= 1) /\ tail' = sent' % N
        /\ base' + sent' <= Len(Script)
    BY <1>1 DEF RingInv, Locals
  <2> QED
    BY <1>1, <1>2, <1>5, <2>1, <2>2, <2>3, <2>4, <2>5 DEF Locals
<1> QED
  BY <1>3, <1>4, <1>9 DEF RingInv

(* The count preserves it: unless the second load of tail is on the other  *)
(* side of its wrap, it is zero only for an empty ring or after a whole    *)
(* turn.                                                                   *)
LEMMA RingCount ==
  ASSUME RingInv, Count
  PROVE  RingInv'
<1> USE Ring, ScriptLen
<1>1. UNCHANGED <<reload, base, sent, buf, tail, head, n, mode, left, index, tx, misrated,
                   effects, last, run>>
  BY DEF Count, ring, console, handed
<1>2. PICK x \in 0..(N - 1) : x = Loaded /\ (reload => x = tail) /\ (~reload => x = seen)
  <2>1. Loaded \in {tail, seen} /\ (reload => Loaded = tail) /\ (~reload => Loaded = seen)
    BY DEF Loaded
  <2> QED
    BY <2>1 DEF RingInv, SerialTypes
<1>3. PICK h \in 0..(N - 1) : h = head
  BY DEF RingInv, SerialTypes
<1>4. /\ pc = "count" /\ ge \in BOOLEAN /\ raced \in BOOLEAN
      /\ ge => count' = (x - h) % W
      /\ ~ge => count' = (x + N - h) % W
      /\ count' = 0 => pc' = "call" /\ ge' = TRUE /\ seen' = 0
      /\ count' # 0 => ge' = ge /\ seen' = seen
      /\ (count' # 0 /\ N <= count') => pc' = "resync"
      /\ (count' # 0 /\ ~(N <= count')) => pc' = "take"
  BY <1>2, <1>3 DEF Count, RingInv, SerialTypes
<1>5. raced' = (raced \/ ge # (x >= h))
  BY <1>2, <1>3 DEF Count, Wraps
<1>6. count' \in 0..(W - 1)
  <2>1. CASE ge
    <3>1. PICK a \in Int : a = x - h
      OBVIOUS
    <3>2. a % W \in 0..(W - 1)
      BY <3>1
    <3> QED
      BY <1>4, <2>1, <3>1, <3>2
  <2>2. CASE ~ge
    <3>1. PICK a \in Nat : a = x + N - h
      OBVIOUS
    <3>2. a % W \in 0..(W - 1)
      BY <3>1, Remainder
    <3> QED
      BY <1>4, <2>2, <3>1, <3>2
  <2> QED
    BY <1>4, <2>1, <2>2
<1>7. pc' \in {"call", "resync", "take"} /\ (pc' = "resync" => N <= count')
      /\ (pc' = "take" => count' # 0 /\ ~(N <= count'))
  BY <1>4
<1>8. SerialTypes'
  <2>1. seen' \in 0..(N - 1) /\ ge' \in BOOLEAN
    <3>1. seen \in 0..(N - 1) /\ 0 \in 0..(N - 1)
      BY DEF RingInv, SerialTypes
    <3>2. ge' = TRUE \/ ge' = ge
      BY <1>4
    <3>3. seen' = 0 \/ seen' = seen
      BY <1>4
    <3> QED
      BY <1>4, <3>1, <3>2, <3>3
  <2>2. raced' \in BOOLEAN
    BY <1>5
  <2> QED
    BY <1>1, <1>6, <1>7, <2>1, <2>2 DEF RingInv, SerialTypes
<1>9. Cells' /\ WrittenBefore'
  BY <1>1 DEF RingInv, Cells, WrittenBefore
<1>10. head = last % N /\ tail = sent % N /\ last \in Nat /\ sent \in Nat /\ last <= sent
  BY <1>4 DEF RingInv, Locals, SerialTypes
\* A build that loads tail once compares and counts the same tail.
<1>11. ~reload => (raced' => raced)
  <2>1. ~reload => (ge <=> x >= h)
    BY <1>2, <1>3, <1>4 DEF RingInv, Locals
  <2>2. (ge <=> x >= h) => ge = (x >= h)
    <3>1. ge \in BOOLEAN /\ x \in Nat /\ h \in Nat
      BY <1>4
    <3> QED
      BY <3>1, SMT
  <2>3. ge = (x >= h) => (raced' => raced)
    BY <1>5, Zenon
  <2> QED
    BY <2>1, <2>2, <2>3, Zenon
\* As long as tail does not wrap, less than a ring is counted.
<1>12. ~raced' => (ge <=> x >= h)
  BY <1>4, <1>5, Zenon
<1>13. ~raced' => ~(N <= count') /\ (count' # 0 => x # h)
  <2>1. CASE x >= h /\ ge
    <3>1. PICK a \in Nat : a = x - h /\ a < N
      BY <2>1
    <3>2. a % W = a
      <4>1. a < W
        BY <3>1
      <4> QED
        BY <4>1, Remainder
    <3>3. count' = a
      BY <1>4, <2>1, <3>1, <3>2
    <3> QED
      BY <3>1, <3>3
  <2>2. CASE x < h /\ ~ge
    <3>1. PICK a \in Nat : a = x + N - h /\ a < N
      BY <2>2
    <3>2. a % W = a
      <4>1. a < W
        BY <3>1
      <4> QED
        BY <4>1, Remainder
    <3>3. count' = a
      BY <1>4, <2>2, <3>1, <3>2
    <3> QED
      BY <2>2, <3>1, <3>3
  <2>3. x >= h \/ x < h
    OBVIOUS
  <2>4. x < h => ~(x >= h)
    OBVIOUS
  <2> QED
    BY <1>12, <2>1, <2>2, <2>3, <2>4
<1>14. raced' => N <= sent
  <2>1. CASE raced
    BY <2>1 DEF RingInv, Locals
  <2>2. CASE ~raced /\ ~ge
    BY <1>4, <2>2 DEF RingInv, Locals
  <2>3. CASE ~raced /\ ge
    <3> SUFFICES ASSUME raced', sent < N PROVE FALSE
      BY <1>10
    <3>1. reload /\ x = tail
      BY <1>2, <1>4, <1>11, <2>3
    <3>2. ~(x >= h)
      BY <1>5, <2>3, Zenon
    <3>3. last % N = last /\ sent % N = sent
      <4>1. last < N
        BY <1>10
      <4> QED
        BY <1>10, <4>1, Remainder
    <3> QED
      BY <1>3, <1>10, <3>1, <3>2, <3>3
  <2> QED
    BY <2>1, <2>2, <2>3
<1>15. (pc' = "take" /\ ~raced') => last < sent
  <2> SUFFICES ASSUME pc' = "take", ~raced' PROVE last < sent
    OBVIOUS
  <2>1. x # h
    BY <1>7, <1>13
  <2>2. CASE reload
    BY <1>2, <1>3, <1>10, <2>1, <2>2
  <2>3. CASE ~reload
    BY <1>2, <1>3, <1>4, <2>1, <2>3 DEF RingInv, Locals
  <2> QED
    BY <2>2, <2>3
<1>16. pc' = "resync" => raced'
  BY <1>7, <1>13
<1>17. Locals'
  <2>1. run <= last /\ (mode = "word" => left >= 1) /\ base + sent <= Len(Script)
        /\ mode # "reset"
    BY <1>4 DEF RingInv, Locals
  <2>2. pc' # "count"
    BY <1>7
  <2>3. pc' = "take" => count' # 0
    BY <1>7
  <2> QED
    BY <1>1, <1>10, <1>14, <1>15, <1>16, <2>1, <2>2, <2>3 DEF Locals
<1> QED
  BY <1>8, <1>9, <1>17 DEF RingInv

(* The branch for an overflow preserves it: only a race gets there.        *)
LEMMA RingResync ==
  ASSUME RingInv, Resync
  PROVE  RingInv'
<1> USE Ring, ScriptLen
<1>1. UNCHANGED <<reload, base, sent, buf, tail, ge, seen, n, mode, left, index, tx, misrated,
                   effects, raced, last, run>>
  BY DEF Resync, ring, console, handed
<1>2. pc = "resync" /\ pc' = "take" /\ head' \in {tail, seen} /\ count' = N
  BY DEF Resync, Loaded
<1>3. SerialTypes'
  <2>1. count' \in 0..(W - 1)
    BY <1>2
  <2>2. head' \in 0..(N - 1)
    BY <1>2 DEF RingInv, SerialTypes
  <2> QED
    BY <1>1, <1>2, <2>1, <2>2 DEF RingInv, SerialTypes
<1>4. Cells' /\ WrittenBefore'
  BY <1>1 DEF RingInv, Cells, WrittenBefore
<1>5. Locals'
  <2>1. raced /\ count' # 0
    BY <1>2 DEF RingInv, Locals
  <2> QED
    BY <1>1, <1>2, <2>1 DEF RingInv, Locals
<1> QED
  BY <1>3, <1>4, <1>5 DEF RingInv

(* The byte that sio2host_rx copies has not been handed over before, and   *)
(* is a whole number of turns after the one expected, unless tail was      *)
(* loaded across its wrap.                                                 *)
LEMMA Handed ==
  ASSUME RingInv, pc = "take", NEW i, i = buf[head]
  PROVE  /\ i \in 1..Len(Script) /\ i <= sent /\ head \in 0..(N - 1) /\ (i - 1) % N = head
         /\ Place = base + i /\ base + i \in 1..Len(Script)
         /\ ~raced => i > last /\ (i - last - 1) % N = 0
         /\ head = N - 1 => i % N = 0
         /\ head # N - 1 => i % N = head + 1
<1> USE Ring, ScriptLen
<1>1. PICK h \in 0..(N - 1) : h = head
  BY DEF RingInv, SerialTypes
<1>2. PICK s \in Nat, p \in Nat : s = sent /\ p = last
  BY DEF RingInv, SerialTypes
<1>3. i \in 0..Len(Script) /\ i <= s
  <2>1. i \in 0..Len(Script)
    BY <1>1 DEF RingInv, SerialTypes
  <2>2. buf[h] <= sent
    BY DEF RingInv, WrittenBefore
  <2> QED
    BY <1>1, <1>2, <2>1, <2>2
<1>4. (i = 0 => s <= h) /\ (i # 0 => (i - 1) % N = h /\ i + N > s)
  BY <1>1, <1>2 DEF RingInv, Cells
<1>5. (raced => N <= s) /\ (~raced => p < s /\ h = p % N)
  BY <1>1, <1>2 DEF RingInv, Locals
<1>6. i # 0
  <2>1. p % N <= p /\ p % N \in 0..(N - 1)
    BY Remainder
  <2>2. ~raced => h <= p /\ p < s
    BY <1>5, <2>1
  <2> QED
    BY <1>4, <1>5, <2>2
<1>7. PICK a \in Nat : a = i - 1 /\ a + 1 = i
  BY <1>3, <1>6
<1>8. a % N = h /\ a + 1 + N > s
  BY <1>3, <1>4, <1>6, <1>7
<1>9. ~raced => i > last /\ (i - last - 1) % N = 0
  <2> SUFFICES ASSUME ~raced PROVE i > p /\ (i - p - 1) % N = 0
    BY <1>2
  <2>1. a % N = p % N /\ p < s
    BY <1>5, <1>8
  <2>2. p <= a
    <3> SUFFICES ASSUME a < p PROVE FALSE
      OBVIOUS
    <3>1. a + N <= p
      <4>1. a <= p /\ N \in Nat \ {0}
        BY Ring
      <4>2. (p - a) % N = 0 /\ (a < p => a + N <= p)
        BY <2>1, <4>1, Turns, Zenon
      <4> QED
        BY <4>2
    <3> QED
      BY <1>8, <2>1, <3>1
  <2>3. (a - p) % N = 0
    BY <2>1, <2>2, Turns
  <2>4. i > p /\ i - p - 1 = a - p
    BY <1>3, <1>7, <2>2
  <2> QED
    BY <2>3, <2>4, Zenon
<1>10. /\ h = N - 1 => i % N = 0
       /\ h # N - 1 => i % N = h + 1
  <2>1. /\ a % N = N - 1 => (a + 1) % N = 0
        /\ a % N # N - 1 => (a + 1) % N = (a % N) + 1
    BY Turn
  <2> QED
    BY <1>7, <1>8, <2>1
<1>11. Place = base + i /\ base + i \in 1..Len(Script)
  <2>1. PICK z \in Nat : z = base /\ z + s <= Len(Script)
    BY <1>2 DEF RingInv, SerialTypes, Locals
  <2>2. z + i \in 1..Len(Script)
    BY <1>2, <1>3, <1>6, <2>1
  <2>3. Place = base + i
    BY <1>6 DEF Place
  <2> QED
    BY <2>1, <2>2, <2>3
<1> QED
  BY <1>1, <1>2, <1>3, <1>6, <1>7, <1>8, <1>9, <1>10, <1>11

\* The console deals with byte i, in the mode it is in.
Console(i) ==
  /\ mode = "cmd" => Letter(i)
  /\ mode = "line" => Data(i)
  /\ mode = "word" => Word(i)
  /\ mode = "rate" => NewRate(i)
  /\ mode # "reset"

Modes == {"cmd", "line", "word", "rate", "reset"}

(* A command waits for one to four characters.                             *)
LEMMA Waiting == ASSUME NEW c PROVE Waits(c) \in 0..4
BY DEF Waits

(* One character of a command: matching "at=" and its letter.              *)
LEMMA LetterStep ==
  ASSUME n \in 0..3, NEW i, Letter(i), NEW c, c = Char(i)
  PROVE  /\ n = 0 /\ c = "a" => n' = 1
         /\ n = 1 /\ c = "t" => n' = 2
         /\ n = 2 /\ c = "=" => n' = 3
         /\ n' = 1 => n = 0 /\ c = "a"
         /\ n' = 2 => n = 1 /\ c = "t"
         /\ n' = 3 => n = 2 /\ c = "="
         /\ n' \in {0, 1, 2, 3}
         /\ n = 3 /\ c = "u" => mode' = "line"
         /\ mode' = "word" => n = 3 /\ Waits(c) > 0 /\ left' = Waits(c)
         /\ mode' # "word" => left' = 0
         /\ mode' = "line" => n = 3 /\ c = "u"
         /\ mode' = "rate" => n = 3 /\ c = "6"
         /\ mode' = "reset" => n = 3 /\ c = "e"
         /\ mode' \in Modes
         /\ ~(n = 3 /\ c \in Commands) => effects' = Since(i) \o <<>>
         /\ index' = index /\ tx' = tx
<1>1. /\ n = 0 /\ c = "a" => n' = 1
      /\ n = 1 /\ c = "t" => n' = 2
      /\ n = 2 /\ c = "=" => n' = 3
  BY DEF Letter
<1>2. /\ n' = 1 => n = 0 /\ c = "a"
      /\ n' = 2 => n = 1 /\ c = "t"
      /\ n' = 3 => n = 2 /\ c = "="
      /\ n' \in {0, 1, 2, 3}
  BY DEF Letter
<1>3. n = 3 /\ c = "u" => mode' = "line"
  <2>1. c = "u" => Waits(c) = 0
    BY DEF Waits
  <2> QED
    BY <2>1 DEF Letter
<1>4. /\ mode' = "word" => n = 3 /\ Waits(c) > 0
      /\ mode' = "line" => n = 3 /\ c = "u"
      /\ mode' = "rate" => n = 3 /\ c = "6"
      /\ mode' = "reset" => n = 3 /\ c = "e"
      /\ mode' \in Modes
  <2>1. \/ n = 3 /\ c = "u" /\ mode' = "line"
        \/ n = 3 /\ c = "e" /\ mode' = "reset"
        \/ n = 3 /\ c = "6" /\ mode' = "rate"
        \/ n = 3 /\ Waits(c) > 0 /\ mode' = "word"
        \/ mode' = "cmd"
    BY DEF Letter
  <2> QED
    BY <2>1 DEF Modes
<1>5. (mode' = "word" => left' = Waits(c)) /\ (mode' # "word" => left' = 0)
  BY DEF Letter
<1>6. ~(n = 3 /\ c \in Commands) => effects' = Since(i) \o <<>>
  BY DEF Letter
<1>7. index' = index /\ tx' = tx
  BY DEF Letter
<1> QED
  BY <1>1, <1>2, <1>3, <1>4, <1>5, <1>6, <1>7

(* One character of the data of AT=U.                                      *)
LEMMA DataStep ==
  ASSUME NEW i, Data(i)
  PROVE  /\ n' = n /\ left' = left
         /\ Char(i) = "CR" => /\ effects' = Append(Since(i), Packet(tx)) /\ mode' = "cmd"
                              /\ index' = 0 /\ tx' = <<>>
         /\ Char(i) # "CR" => /\ index' = (index + 1) % W /\ effects' = Since(i) /\ mode' = mode
                              /\ index < MAXDATA => tx' = Append(tx, i)
                              /\ ~(index < MAXDATA) => tx' = tx
BY DEF Data

(* One of the characters that a command reads.                             *)
LEMMA WordStep ==
  ASSUME NEW i, Word(i), left \in 0..4
  PROVE  /\ n' = n /\ index' = index /\ tx' = tx /\ left' = left - 1
         /\ left = 1 => mode' = "cmd"
         /\ left # 1 => mode' = "word"
BY DEF Word

(* What the console does with a byte keeps the types.                      *)
LEMMA ConsoleTypes ==
  ASSUME SerialTypes, mode = "word" => left >= 1, NEW i \in 1..Len(Script), Console(i)
  PROVE  /\ n' \in 0..3 /\ mode' \in Modes /\ left' \in 0..4
         /\ index' \in 0..(W - 1) /\ tx' \in Seq(1..Len(Script)) /\ misrated' \in BOOLEAN
         /\ mode' = "word" => left' >= 1
<1> USE Ring, ScriptLen
<1>1. /\ n \in 0..3 /\ left \in 0..4 /\ index \in 0..(W - 1) /\ tx \in Seq(1..Len(Script))
      /\ mode \in Modes /\ misrated \in BOOLEAN /\ mode # "reset"
  BY DEF SerialTypes, Modes, Console
<1>2. CASE mode = "cmd"
  <2>1. PICK c : c = Char(i)
    OBVIOUS
  <2>2. Letter(i)
    BY <1>2 DEF Console
  <2>3. /\ n' \in {0, 1, 2, 3} /\ mode' \in Modes
        /\ mode' = "word" => Waits(c) > 0 /\ left' = Waits(c)
        /\ mode' # "word" => left' = 0
        /\ index' = index /\ tx' = tx
    BY <1>1, <2>1, <2>2, LetterStep
  <2>4. PICK k \in 0..4 : k = Waits(c)
    BY Waiting
  <2>5. misrated' \in BOOLEAN
    BY <2>2, Zenon DEF Letter
  <2> QED
    BY <1>1, <2>3, <2>4, <2>5
<1>3. CASE mode = "line"
  <2>0. Data(i)
    BY <1>3 DEF Console
  <2>1. n' = n /\ left' = left /\ misrated' = misrated
    BY <2>0 DEF Data
  <2>2. CASE Char(i) = "CR"
    <3>1. mode' = "cmd" /\ index' = 0 /\ tx' = <<>>
      BY <2>0, <2>2, DataStep
    <3> QED
      BY <1>1, <2>1, <3>1 DEF Modes
  <2>3. CASE Char(i) # "CR"
    <3>1. mode' = mode /\ index' = (index + 1) % W
      BY <2>0, <2>3, DataStep
    <3>2. tx' = tx \/ tx' = Append(tx, i)
      BY <2>0, <2>3, DataStep
    <3>3. Append(tx, i) \in Seq(1..Len(Script))
      BY <1>1
    <3>4. (index + 1) % W \in 0..(W - 1)
      <4>1. index + 1 \in Nat
        BY <1>1
      <4> QED
        BY <4>1, Remainder
    <3> QED
      BY <1>1, <1>3, <2>1, <3>1, <3>2, <3>3, <3>4
  <2> QED
    BY <2>2, <2>3
<1>4. CASE mode = "word"
  <2>0. Word(i)
    BY <1>4 DEF Console
  <2>1. n' = n /\ index' = index /\ tx' = tx /\ left' = left - 1 /\ misrated' = misrated
    BY <2>0 DEF Word
  <2>2. (left = 1 => mode' = "cmd") /\ (left # 1 => mode' = "word")
    BY <2>0 DEF Word
  <2> QED
    BY <1>1, <1>4, <2>1, <2>2 DEF Modes
<1>5. CASE mode = "rate"
  <2>0. NewRate(i)
    BY <1>5 DEF Console
  <2>1. n' = n /\ index' = index /\ tx' = tx /\ left' = left /\ mode' = "cmd"
    BY <2>0 DEF NewRate
  <2>2. misrated' \in BOOLEAN
    BY <2>0 DEF NewRate
  <2> QED
    BY <1>1, <2>1, <2>2 DEF Modes
<1> QED
  BY <1>1, <1>2, <1>3, <1>4, <1>5 DEF Modes

(* The console deals with the byte that is copied.                         *)
LEMMA TakeConsole ==
  ASSUME RingInv, Take, NEW i, i = buf[head]
  PROVE  Console(base + i) /\ base + i \in 1..Len(Script) /\ i # 0
<1>1. Place = base + i /\ base + i \in 1..Len(Script) /\ i # 0
  <2>1. pc = "take"
    BY DEF Take
  <2> QED
    BY <2>1, Handed
<1>2. mode # "reset"
  BY DEF Take, RingInv, Locals
<1>3. /\ mode = "cmd" => Letter(Place)
      /\ mode = "line" => Data(Place)
      /\ mode = "word" => Word(Place)
      /\ mode = "rate" => NewRate(Place)
  BY DEF Take
<1> QED
  BY <1>1, <1>2, <1>3 DEF Console

(* The copy preserves the invariant, and hands over a byte in turn.        *)
LEMMA RingTake ==
  ASSUME RingInv, Take
  PROVE  /\ RingInv'
         /\ raced \/ (last' > last /\ (last' - last - 1) % N = 0)
<1> USE Ring, ScriptLen
<1>1. PICK i : i = buf[head]
  OBVIOUS
<1>2. /\ pc = "take" /\ pc' = "call" /\ ge' = TRUE /\ seen' = 0 /\ count' = 0
      /\ UNCHANGED <<reload, base, sent, buf, tail, raced>>
      /\ last' = i
      /\ i = last + 1 => run' = run + 1
      /\ i # last + 1 => run' = -1
      /\ head = N - 1 => head' = 0
      /\ head # N - 1 => head' = head + 1
  BY <1>1 DEF Take, ring
<1>a. Console(base + i)
  BY <1>1, <1>2, TakeConsole
<1>3. /\ i \in 1..Len(Script) /\ i <= sent /\ head \in 0..(N - 1)
      /\ base + i \in 1..Len(Script)
      /\ ~raced => i > last /\ (i - last - 1) % N = 0
      /\ head = N - 1 => i % N = 0
      /\ head # N - 1 => i % N = head + 1
  BY <1>1, <1>2, Handed
<1>4. /\ n' \in 0..3 /\ mode' \in Modes /\ left' \in 0..4
      /\ index' \in 0..(W - 1) /\ tx' \in Seq(1..Len(Script)) /\ misrated' \in BOOLEAN
      /\ mode' = "word" => left' >= 1
  <2>1. SerialTypes /\ (mode = "word" => left >= 1)
    BY DEF RingInv, Locals
  <2> QED
    BY <1>a, <1>3, <2>1, ConsoleTypes
<1>5. last \in Nat /\ run \in -2..Len(Script) /\ run <= last
  BY DEF RingInv, Locals, SerialTypes
<1>6. run' \in -2..Len(Script) /\ run' <= last'
  BY <1>2, <1>3, <1>5
<1>7. head' \in 0..(N - 1) /\ head' = i % N
  BY <1>2, <1>3
<1>8. SerialTypes'
  <2>1. seen' \in 0..(N - 1) /\ count' \in 0..(W - 1) /\ last' \in 0..Len(Script)
    BY <1>2, <1>3
  <2>2. /\ reload' \in BOOLEAN /\ raced' \in BOOLEAN /\ base' \in 0..Len(Script)
        /\ sent' \in 0..Len(Script) /\ buf' \in [0..(N - 1) -> 0..Len(Script)]
        /\ tail' \in 0..(N - 1) /\ pc' = "call" /\ ge' = TRUE
    BY <1>2, Zenon DEF RingInv, SerialTypes
  <2> QED
    BY <1>4, <1>6, <1>7, <2>1, <2>2, Zenon DEF SerialTypes, Modes
<1>9. Cells' /\ WrittenBefore'
  BY <1>2 DEF RingInv, Cells, WrittenBefore
<1>10. Locals'
  <2>1. tail = sent % N /\ (raced => N <= sent) /\ base + sent <= Len(Script)
    BY DEF RingInv, Locals
  <2> QED
    BY <1>2, <1>3, <1>4, <1>6, <1>7, <2>1 DEF Locals
<1>11. raced \/ (last' > last /\ (last' - last - 1) % N = 0)
  BY <1>2, <1>3
<1> QED
  BY <1>8, <1>9, <1>10, <1>11 DEF RingInv

(* A restart preserves it: an empty ring and a console that waits.         *)
LEMMA RingRestart ==
  ASSUME RingInv, Restart
  PROVE  RingInv'
<1> USE Ring, ScriptLen
<1>1. 0 % N = 0 /\ N \in Nat \ {0}
  <2>1. 0 < N /\ 0 \in Nat
    BY Ring
  <2> QED
    BY <2>1, Ring, Remainder
<1>2. base' \in 0..Len(Script)
  <2>1. PICK z \in Nat, s \in Nat : z = base /\ s = sent
    BY DEF RingInv, SerialTypes
  <2>2. base' \in (z + s)..Len(Script)
    BY <2>1 DEF Restart
  <2> QED
    BY <2>1, <2>2
<1>3. SerialTypes'
  <2>1. 0 \in 0..(N - 1) /\ 0 \in 0..(W - 1) /\ 0 \in 0..Len(Script) /\ -2 \in -2..Len(Script)
    BY Ring, ScriptLen
  <2>2. buf' \in [0..(N - 1) -> 0..Len(Script)]
    BY <2>1 DEF Restart
  <2>3. tx' \in Seq(1..Len(Script))
    BY DEF Restart
  <2>4. n' \in 0..3 /\ left' \in 0..4 /\ mode' \in {"cmd", "reset"}
    BY DEF Restart
  <2>5. reload' \in BOOLEAN /\ raced' \in BOOLEAN /\ ge' \in BOOLEAN /\ misrated' \in BOOLEAN
    BY DEF Restart, RingInv, SerialTypes
  <2> QED
    BY <1>2, <2>1, <2>2, <2>3, <2>4, <2>5 DEF Restart, SerialTypes
<1>4. Cells' /\ WrittenBefore'
  BY Ring DEF Restart, Cells, WrittenBefore
<1>5. Locals'
  <2>1. base' + sent' <= Len(Script)
    BY <1>2 DEF Restart
  <2>2. /\ pc' = "call" /\ last' = 0 /\ sent' = 0 /\ run' = -2 /\ tail' = 0 /\ head' = 0
        /\ raced' = FALSE /\ mode' \in {"cmd", "reset"}
    BY DEF Restart
  <2> QED
    BY <1>1, <2>1, <2>2 DEF Locals
<1> QED
  BY <1>3, <1>4, <1>5 DEF RingInv

(* Every step preserves the invariant of the ring.                         *)
LEMMA RingStep ==
  ASSUME RingInv, [SerialNext]_serialVars
  PROVE  RingInv'
<1>1. CASE UNCHANGED serialVars
  <2>1. UNCHANGED <<reload, base, sent, buf, tail, head, pc, ge, seen, count, n, mode, left,
                     index, tx, misrated, effects, raced, last, run>>
    BY <1>1 DEF serialVars, ring, call, console, handed
  <2>2. SerialTypes'
    BY <2>1 DEF RingInv, SerialTypes
  <2>3. Cells' /\ WrittenBefore' /\ Locals'
    BY <2>1 DEF RingInv, Cells, WrittenBefore, Locals
  <2> QED
    BY <2>2, <2>3 DEF RingInv
<1> QED
  BY <1>1, RingReceive, RingCompare, RingCount, RingResync, RingTake, RingRestart
     DEF SerialNext, Poll

(* Every variable keeps its type: no index leaves the ring, and the byte   *)
(* that counts does not run below zero (AppUsartCallback, sio2host_rx, the *)
(* console).                                                               *)
THEOREM SerialTypesCorrect == SerialSpec => []SerialTypes
<1>1. RingInv => SerialTypes
  BY DEF RingInv
<1> QED
  BY RingInit, RingStep, <1>1, PTL DEF SerialSpec

(* For any script, ring and speed of the main loop, what sio2host_rx hands *)
(* over is in order, without repetition, and short of whole turns of the   *)
(* ring only, unless the build loads tail twice across its wrap.           *)
THEOREM BytesInTurn == SerialSpec => RingOrder
<1>1. ASSUME RingInv, [SerialNext]_serialVars
      PROVE  [mode # "reset" /\ last' # last
                => raced \/ (last' > last /\ (last' - last - 1) % N = 0)]_serialVars
  <2> SUFFICES ASSUME mode # "reset", last' # last
               PROVE  raced \/ (last' > last /\ (last' - last - 1) % N = 0)
    OBVIOUS
  <2>1. CASE Receive \/ Compare \/ Count \/ Resync
    BY <2>1 DEF Receive, Compare, Count, Resync, handed
  <2>2. CASE UNCHANGED serialVars
    BY <2>2 DEF serialVars, handed
  <2>3. CASE Take
    BY <1>1, <2>3, RingTake
  <2>4. ~Restart
    BY DEF Restart
  <2> QED
    BY <1>1, <2>1, <2>2, <2>3, <2>4 DEF SerialNext, Poll
<1>2. SerialSpec => []RingInv
  BY RingInit, RingStep, PTL DEF SerialSpec
<1> QED
  BY <1>1, <1>2, PTL DEF SerialSpec, RingOrder
-----------------------------------------------------------------------------
(* LoraSerial: the console.                                                *)

(* The character after j bytes of line l is letter j + 1 of the line.      *)
LEMMA Lettered ==
  ASSUME NEW l \in 1..Len(Lines), NEW j \in 0..(LineLen(l) - 1)
  PROVE  /\ Len(Lines[l]) \in Nat /\ LineLen(l) = Len(Lines[l]) + 6 /\ Len(Lines[l]) < W
         /\ Before(l - 1) \in Nat /\ Before(l) = Before(l - 1) + LineLen(l)
         /\ Before(l - 1) + j + 1 # 0
         /\ Char(Before(l - 1) + j + 1) = Wire(l)[j + 1]
<1>1. /\ Before(l) \in Nat /\ Before(l - 1) \in Nat /\ Before(l) = Before(l - 1) + LineLen(l)
      /\ \A x \in 1..LineLen(l) : Script[Before(l - 1) + x] = Wire(l)[x]
  BY Layout
<1>2. Len(Lines[l]) \in Nat /\ LineLen(l) = Len(Lines[l]) + 6
  BY WireLine DEF LineLen
<1>3. Len(Lines[l]) < W
  BY LoraSerialAssumption DEF W
<1>4. PICK x \in 1..LineLen(l) : x = j + 1
  BY <1>2
<1>5. PICK b \in Nat : b = Before(l - 1)
  BY <1>1
<1>6. b + j + 1 = b + x /\ b + x # 0
  BY <1>2, <1>4
<1>7. Char(b + x) = Script[b + x]
  BY <1>6 DEF Char
<1> QED
  BY <1>1, <1>2, <1>3, <1>4, <1>5, <1>6, <1>7

(* Which character that is: "a", "t", "=", "u", data, CR or LF.            *)
LEMMA Spelling ==
  ASSUME NEW l \in 1..Len(Lines), NEW j \in 0..(LineLen(l) - 1), NEW c,
         c = Char(Before(l - 1) + j + 1)
  PROVE  /\ j = 0 => c = "a"
         /\ j = 1 => c = "t"
         /\ j = 2 => c = "="
         /\ j = 3 => c = "u"
         /\ (4 <= j /\ j < Len(Lines[l]) + 4) => c \in Printed
         /\ j = Len(Lines[l]) + 4 => c = "CR"
         /\ j = Len(Lines[l]) + 5 => c = "LF"
<1>1. c = Wire(l)[j + 1] /\ Len(Lines[l]) \in Nat /\ LineLen(l) = Len(Lines[l]) + 6
  BY Lettered
<1>2. (j = 0 => c = "a") /\ (j = 1 => c = "t") /\ (j = 2 => c = "=") /\ (j = 3 => c = "u")
  <2>1. Wire(l)[1] = "a" /\ Wire(l)[2] = "t" /\ Wire(l)[3] = "=" /\ Wire(l)[4] = "u"
    BY WireLine
  <2> QED
    BY <1>1, <2>1
<1>3. (4 <= j /\ j < Len(Lines[l]) + 4) => c \in Printed
  <2> SUFFICES ASSUME 4 <= j, j < Len(Lines[l]) + 4 PROVE c \in Printed
    OBVIOUS
  <2>1. PICK x \in 1..Len(Lines[l]) : x = j - 3 /\ j + 1 = 4 + x
    BY <1>1
  <2>2. Wire(l)[4 + x] = Lines[l][x] /\ Lines[l] \in Seq(Printed)
    BY WireLine
  <2>3. Lines[l][x] \in Printed
    BY <2>2
  <2> QED
    BY <1>1, <2>1, <2>2, <2>3
<1>4. (j = Len(Lines[l]) + 4 => c = "CR") /\ (j = Len(Lines[l]) + 5 => c = "LF")
  <2>1. Wire(l)[Len(Lines[l]) + 5] = "CR" /\ Wire(l)[Len(Lines[l]) + 6] = "LF"
    BY WireLine
  <2>2. /\ j = Len(Lines[l]) + 4 => j + 1 = Len(Lines[l]) + 5
        /\ j = Len(Lines[l]) + 5 => j + 1 = Len(Lines[l]) + 6
    BY <1>1
  <2> QED
    BY <1>1, <2>1, <2>2
<1> QED
  BY <1>2, <1>3, <1>4

\* Only AT=U has an index and data.
Tidy ==
  /\ mode # "line" => index = 0 /\ tx = <<>>
  /\ mode # "cmd" => n = 0

\* The console after j bytes of a line that found it in any state.
Settling(l, j) ==
  /\ n = 3 => j \in {0, 3}
  /\ n = 2 => j \in {0, 2}
  /\ n = 1 => j <= Len(Lines[l]) + 4
  /\ mode = "word" => left + j <= 4
  /\ mode \in {"rate", "reset"} => j = 0
  /\ j >= Len(Lines[l]) + 5 => mode = "cmd" /\ n = 0

(* Neither "a" nor "u", the two letters that may follow "at=" from the     *)
(* start of a line on, reads any more characters.                          *)
LEMMA NoWait == Waits("a") = 0 /\ Waits("u") = 0
BY DEF Waits

(* Whatever the console was doing when a line began, one more byte of the  *)
(* line brings it nearer to waiting for a command.                         *)
LEMMA SettlingStep ==
  ASSUME SerialTypes, Tidy, mode = "word" => left >= 1,
         NEW l \in 1..Len(Lines), NEW j \in 0..(LineLen(l) - 1), Settling(l, j),
         NEW i, i = Before(l - 1) + j + 1, Console(i)
  PROVE  /\ n' = 3 => j + 1 \in {0, 3}
         /\ n' = 2 => j + 1 \in {0, 2}
         /\ n' = 1 => j + 1 <= Len(Lines[l]) + 4
         /\ mode' = "word" => left' + j + 1 <= 4
         /\ mode' \notin {"rate", "reset"}
         /\ j + 1 >= Len(Lines[l]) + 5 => mode' = "cmd" /\ n' = 0
<1>1. PICK c : c = Char(i)
  OBVIOUS
<1>2. PICK d \in Nat : d = Len(Lines[l]) /\ j \in 0..(d + 5)
  BY Lettered
<1>3. /\ j = 0 => c = "a"
      /\ j = 1 => c = "t"
      /\ j = 2 => c = "="
      /\ j = 3 => c = "u"
      /\ (4 <= j /\ j < d + 4) => c \notin {"t", "=", "u", "CR"}
      /\ j = d + 4 => c = "CR"
      /\ j = d + 5 => c = "LF"
  BY <1>1, <1>2, Spelling DEF Printed
<1>4. /\ n = 3 => j \in {0, 3}
      /\ n = 2 => j \in {0, 2}
      /\ n = 1 => j <= d + 4
      /\ mode = "word" => left + j <= 4
      /\ j >= d + 5 => mode = "cmd" /\ n = 0
  BY <1>2 DEF Settling
<1>5. n \in 0..3 /\ left \in 0..4 /\ mode \in Modes /\ mode # "reset"
  BY DEF SerialTypes, Modes, Console
<1>6. CASE mode = "cmd"
  <2>1. /\ n' = 1 => n = 0 /\ c = "a"
        /\ n' = 2 => n = 1 /\ c = "t"
        /\ n' = 3 => n = 2 /\ c = "="
        /\ n' \in {0, 1, 2, 3}
        /\ mode' = "word" => n = 3 /\ Waits(c) > 0
        /\ mode' = "line" => n = 3 /\ c = "u"
        /\ mode' = "rate" => n = 3 /\ c = "6"
        /\ mode' = "reset" => n = 3 /\ c = "e"
        /\ mode' \in Modes
    <3>1. Letter(i)
      BY <1>6 DEF Console
    <3> QED
      BY <1>1, <1>5, <3>1, LetterStep
  <2>2. n' = 3 => j + 1 \in {0, 3}
    BY <1>2, <1>3, <1>4, <2>1
  <2>3. n' = 2 => j + 1 \in {0, 2}
    BY <1>2, <1>3, <1>4, <2>1
  <2>4. n' = 1 => j + 1 <= d + 4
    BY <1>2, <1>3, <1>4, <2>1
  <2>5. mode' \in {"cmd", "line"}
    <3>1. n = 3 => c \in {"a", "u"}
      BY <1>3, <1>4
    <3>2. n = 3 => ~(Waits(c) > 0)
      <4>1. c \in {"a", "u"} => Waits(c) = 0
        BY NoWait
      <4> QED
        BY <3>1, <4>1
    <3> QED
      BY <2>1, <3>1, <3>2 DEF Modes
  <2>6. j + 1 >= d + 5 => mode' = "cmd" /\ n' = 0
    <3> SUFFICES ASSUME j + 1 >= d + 5 PROVE mode' # "line" /\ n' = 0
      BY <2>5
    <3>1. j = d + 4 \/ j = d + 5
      BY <1>2
    <3>2. c \notin {"a", "t", "=", "u"}
      BY <1>2, <1>3, <3>1
    <3> QED
      BY <2>1, <3>2
  <2> QED
    BY <1>2, <2>2, <2>3, <2>4, <2>5, <2>6
<1>7. CASE mode = "line"
  <2>1. n' = n /\ n = 0 /\ (c = "CR" => mode' = "cmd") /\ (c # "CR" => mode' = "line")
    <3>1. Data(i)
      BY <1>7 DEF Console
    <3> QED
      BY <1>1, <1>7, <3>1, DataStep DEF Tidy
  <2>2. j + 1 >= d + 5 => j = d + 4
    BY <1>2, <1>4, <1>7
  <2>3. j + 1 >= d + 5 => mode' = "cmd"
    BY <1>3, <2>1, <2>2
  <2> QED
    BY <1>2, <2>1, <2>3
<1>8. CASE mode = "word"
  <2>1. /\ n' = n /\ n = 0 /\ left' = left - 1 /\ left >= 1 /\ left + j <= 4
        /\ left = 1 => mode' = "cmd"
        /\ left # 1 => mode' = "word"
    <3>1. Word(i)
      BY <1>8 DEF Console
    <3> QED
      BY <1>4, <1>5, <1>8, <3>1, WordStep DEF Tidy
  <2>2. ~(j + 1 >= d + 5)
    BY <1>2, <1>5, <2>1
  <2> QED
    BY <1>2, <1>5, <2>1, <2>2
<1>9. CASE mode = "rate"
  <2>1. n' = n /\ n = 0 /\ mode' = "cmd"
    <3>1. NewRate(i)
      BY <1>9 DEF Console
    <3> QED
      BY <1>9, <3>1 DEF NewRate, Tidy
  <2> QED
    BY <2>1
<1> QED
  BY <1>5, <1>6, <1>7, <1>8, <1>9 DEF Modes

(* Index and data belong to AT=U only, after any byte.                     *)
LEMMA TidyStep ==
  ASSUME SerialTypes, Tidy, mode = "word" => left >= 1, NEW i, Console(i)
  PROVE  Tidy'
<1>1. n \in 0..3 /\ left \in 0..4 /\ mode \in Modes /\ mode # "reset"
  BY DEF SerialTypes, Modes, Console
<1>2. CASE mode = "cmd"
  <2>1. /\ index' = 0 /\ tx' = <<>>
        /\ mode' # "cmd" => n = 3
        /\ n = 3 => n' = 0
    <3>1. Letter(i)
      BY <1>2 DEF Console
    <3>2. /\ index' = index /\ tx' = tx
          /\ mode' = "word" => n = 3
          /\ mode' = "line" => n = 3
          /\ mode' = "rate" => n = 3
          /\ mode' = "reset" => n = 3
          /\ mode' \in Modes
          /\ n' \in {0, 1, 2, 3} /\ (n' = 1 => n = 0) /\ (n' = 2 => n = 1) /\ (n' = 3 => n = 2)
      BY <1>1, <3>1, LetterStep
    <3> QED
      BY <1>2, <3>2 DEF Tidy, Modes
  <2> QED
    BY <2>1 DEF Tidy
<1>3. CASE mode = "line"
  <2>1. n' = n /\ n = 0 /\ (mode' # "line" => index' = 0 /\ tx' = <<>>)
    <3>1. Data(i)
      BY <1>3 DEF Console
    <3> QED
      BY <1>3, <3>1, DataStep DEF Tidy
  <2> QED
    BY <2>1 DEF Tidy
<1>4. CASE mode = "word"
  <2>1. n' = n /\ n = 0 /\ index' = 0 /\ tx' = <<>>
    <3>1. Word(i)
      BY <1>4 DEF Console
    <3> QED
      BY <1>1, <1>4, <3>1, WordStep DEF Tidy
  <2> QED
    BY <2>1 DEF Tidy
<1>5. CASE mode = "rate"
  <2>1. n' = n /\ n = 0 /\ index' = 0 /\ tx' = <<>>
    <3>1. NewRate(i)
      BY <1>5 DEF Console
    <3> QED
      BY <1>5, <3>1 DEF NewRate, Tidy
  <2> QED
    BY <2>1 DEF Tidy
<1> QED
  BY <1>1, <1>2, <1>3, <1>4, <1>5 DEF Modes

\* The first k bytes of the data of line l, as far as a packet takes them.
Part(l, k) == [x \in 1..(IF k < MAXDATA THEN k ELSE MAXDATA) |-> Before(l - 1) + 4 + x]

(* The data grows by a byte until a packet is full.                        *)
LEMMA PartGrows ==
  ASSUME NEW l, NEW k \in Nat
  PROVE  /\ Part(l, 0) = <<>>
         /\ k < MAXDATA => Part(l, k + 1) = Append(Part(l, k), Before(l - 1) + 4 + (k + 1))
         /\ ~(k < MAXDATA) => Part(l, k + 1) = Part(l, k)
<1>1. MAXDATA \in Nat
  BY LoraSerialAssumption
<1>2. PICK b : b = Before(l - 1) + 4
  OBVIOUS
<1>3. Part(l, 0) = <<>>
  <2>1. (IF 0 < MAXDATA THEN 0 ELSE MAXDATA) = 0
    BY <1>1
  <2>2. Part(l, 0) = [x \in 1..0 |-> Before(l - 1) + 4 + x]
    BY <2>1 DEF Part
  <2> QED
    BY <2>2
<1>4. ASSUME k < MAXDATA PROVE Part(l, k + 1) = Append(Part(l, k), Before(l - 1) + 4 + (k + 1))
  <2>1. (IF k < MAXDATA THEN k ELSE MAXDATA) = k
    BY <1>4
  <2>2. (IF k + 1 < MAXDATA THEN k + 1 ELSE MAXDATA) = k + 1
    BY <1>1, <1>4
  <2>3. Part(l, k) = [x \in 1..k |-> b + x] /\ Part(l, k + 1) = [x \in 1..(k + 1) |-> b + x]
    BY <1>2, <2>1, <2>2 DEF Part
  <2>4. Append([x \in 1..k |-> b + x], b + (k + 1)) = [x \in 1..(k + 1) |-> b + x]
    OBVIOUS
  <2> QED
    BY <1>2, <2>3, <2>4
<1>5. ASSUME ~(k < MAXDATA) PROVE Part(l, k + 1) = Part(l, k)
  <2>1. (IF k < MAXDATA THEN k ELSE MAXDATA) = MAXDATA
    BY <1>5
  <2>2. (IF k + 1 < MAXDATA THEN k + 1 ELSE MAXDATA) = MAXDATA
    BY <1>1, <1>5
  <2> QED
    BY <2>1, <2>2 DEF Part
<1> QED
  BY <1>3, <1>4, <1>5

(* Payload is the data of the whole line, which ends at its CR.            *)
LEMMA Parted ==
  ASSUME NEW l \in 1..Len(Lines)
  PROVE  /\ Payload(l) = Part(l, Len(Lines[l]))
         /\ Ends(l) = Before(l - 1) + Len(Lines[l]) + 5
         /\ Starts(l) = Before(l - 1) + 1
<1>1. PICK d \in Nat, b \in Nat : d = Len(Lines[l]) /\ b = Before(l - 1) /\ Before(l) = b + d + 6
  <2>1. Before(l) \in Nat /\ Before(l - 1) \in Nat /\ Before(l) = Before(l - 1) + LineLen(l)
    BY Layout
  <2>2. Len(Lines[l]) \in Nat /\ LineLen(l) = Len(Lines[l]) + 6
    BY WireLine DEF LineLen
  <2> QED
    BY <2>1, <2>2
<1>2. Ends(l) = b + d + 5
  <2>1. Ends(l) = Before(l) - 1
    BY DEF Ends, Before
  <2> QED
    BY <1>1, <2>1
<1>3. Starts(l) = b + 1
  <2>1. PICK x \in Nat : x = Ends(l) /\ x = b + d + 5
    BY <1>2
  <2>2. Starts(l) = x - d - 4
    BY <1>1, <2>1 DEF Starts
  <2>3. x - d - 4 = b + 1
    BY <2>1
  <2> QED
    BY <2>2, <2>3
<1>4. Payload(l) = Part(l, d)
  <2>1. PICK m : m = Cut(l)
    OBVIOUS
  <2>2. Payload(l) = [x \in 1..m |-> (b + 1) + 3 + x]
    BY <1>3, <2>1 DEF Payload
  <2>3. Part(l, d) = [x \in 1..m |-> b + 4 + x]
    BY <1>1, <2>1 DEF Part, Cut
  <2>4. \A x \in 1..m : (b + 1) + 3 + x = b + 4 + x
    OBVIOUS
  <2> QED
    BY <2>2, <2>3, <2>4
<1> QED
  BY <1>1, <1>2, <1>3, <1>4

\* The console after j bytes of line l, once it has found its way.
OnTrack(l, j) ==
  /\ j <= 3 => mode = "cmd" /\ n = j
  /\ (4 <= j /\ j <= Len(Lines[l]) + 4) => mode = "line" /\ index = j - 4 /\ tx = Part(l, j - 4)
  /\ j >= Len(Lines[l]) + 5 => mode = "cmd" /\ n = 0

(* A console on its way through a line stays on it, broadcasts the packet  *)
(* at the CR and does nothing else.                                        *)
LEMMA OnTrackStep ==
  ASSUME SerialTypes, Tidy,
         NEW l \in 1..Len(Lines), NEW j \in 0..(LineLen(l) - 1), OnTrack(l, j),
         NEW i, i = Before(l - 1) + j + 1, Console(i)
  PROVE  /\ OnTrack(l, j + 1)'
         /\ j = Len(Lines[l]) + 4 => effects' = Append(Since(i), Packet(Payload(l)))
         /\ j # Len(Lines[l]) + 4 => effects' \in {Since(i), Since(i) \o <<>>}
<1>1. PICK c : c = Char(i)
  OBVIOUS
<1>2. PICK d \in Nat : d = Len(Lines[l]) /\ j \in 0..(d + 5) /\ d < W
  <2>1. Len(Lines[l]) \in Nat /\ LineLen(l) = Len(Lines[l]) + 6 /\ Len(Lines[l]) < W
    BY Lettered
  <2> QED
    BY <2>1
<1>a. PICK b \in Nat : b = Before(l - 1)
  BY Lettered
<1>3. /\ j = 0 => c = "a"
      /\ j = 1 => c = "t"
      /\ j = 2 => c = "="
      /\ j = 3 => c = "u"
      /\ (4 <= j /\ j < d + 4) => c \notin {"t", "=", "u", "CR"}
      /\ j = d + 4 => c = "CR"
      /\ j = d + 5 => c = "LF"
  BY <1>1, <1>2, Spelling DEF Printed
<1>4. /\ j <= 3 => mode = "cmd" /\ n = j
      /\ (4 <= j /\ j <= d + 4) => mode = "line" /\ index = j - 4 /\ tx = Part(l, j - 4)
      /\ j >= d + 5 => mode = "cmd" /\ n = 0
  BY <1>2 DEF OnTrack
<1>5. n \in 0..3 /\ left \in 0..4 /\ index \in 0..(W - 1) /\ W \in Nat \ {0}
  BY Ring DEF SerialTypes
<1>6. CASE j <= 3 \/ j = d + 5
  <2>1. Letter(i) /\ mode = "cmd"
    BY <1>4, <1>6 DEF Console
  <2>2. /\ n = 0 /\ c = "a" => n' = 1
        /\ n = 1 /\ c = "t" => n' = 2
        /\ n = 2 /\ c = "=" => n' = 3
        /\ n' = 1 => n = 0 /\ c = "a"
        /\ n' = 2 => n = 1 /\ c = "t"
        /\ n' = 3 => n = 2 /\ c = "="
        /\ n' \in {0, 1, 2, 3}
        /\ n = 3 /\ c = "u" => mode' = "line"
        /\ mode' = "word" => n = 3
        /\ mode' = "line" => n = 3
        /\ mode' = "rate" => n = 3
        /\ mode' = "reset" => n = 3
        /\ mode' \in Modes
    BY <1>1, <1>5, <2>1, LetterStep
  <2>3. index' = 0 /\ tx' = <<>>
    BY <1>5, <2>1, LetterStep DEF Tidy
  <2>4. ~(n = 3 /\ c \in Commands) => effects' = Since(i) \o <<>>
    BY <1>1, <1>5, <2>1, LetterStep
  <2>5. ~(n = 3 /\ c \in Commands)
    <3>1. n = 3 => c = "u"
      BY <1>2, <1>3, <1>4, <1>6
    <3>2. "u" \notin Commands
      BY DEF Commands
    <3> QED
      BY <3>1, <3>2
  <2>6. j # d + 4
    BY <1>2, <1>6
  <2>7. j <= 2 => n' = j + 1 /\ mode' = "cmd"
    BY <1>2, <1>3, <1>4, <2>2 DEF Modes
  <2>8. j = 3 => mode' = "line" /\ Part(l, 0) = <<>>
    BY <1>3, <1>4, <2>2, PartGrows
  <2>9. j = d + 5 => n' = 0 /\ mode' = "cmd"
    BY <1>2, <1>3, <1>4, <2>2 DEF Modes
  <2>10. OnTrack(l, j + 1)'
    <3>1. j + 1 <= 3 => mode' = "cmd" /\ n' = j + 1
      BY <1>2, <1>6, <2>7
    <3>2. 4 <= j + 1 /\ j + 1 <= d + 4
            => mode' = "line" /\ index' = (j + 1) - 4 /\ tx' = Part(l, (j + 1) - 4)
      <4> SUFFICES ASSUME 4 <= j + 1, j + 1 <= d + 4
                   PROVE  mode' = "line" /\ index' = (j + 1) - 4 /\ tx' = Part(l, (j + 1) - 4)
        OBVIOUS
      <4>1. j = 3 /\ (j + 1) - 4 = 0
        BY <1>2, <1>6
      <4> QED
        BY <2>3, <2>8, <4>1
    <3>3. j + 1 >= d + 5 => mode' = "cmd" /\ n' = 0
      BY <1>2, <1>6, <2>9
    <3> QED
      BY <1>2, <3>1, <3>2, <3>3 DEF OnTrack
  <2> QED
    BY <1>2, <2>4, <2>5, <2>6, <2>10
<1>7. CASE 4 <= j /\ j <= d + 4
  <2>1. mode = "line" /\ Data(i) /\ n = 0
    BY <1>4, <1>7 DEF Console, Tidy
  <2>2. /\ n' = n /\ left' = left
        /\ c = "CR" => /\ effects' = Append(Since(i), Packet(tx)) /\ mode' = "cmd"
                       /\ index' = 0 /\ tx' = <<>>
        /\ c # "CR" => /\ index' = (index + 1) % W /\ effects' = Since(i) /\ mode' = mode
                       /\ index < MAXDATA => tx' = Append(tx, i)
                       /\ ~(index < MAXDATA) => tx' = tx
    BY <1>1, <2>1, DataStep
  <2>3. CASE j = d + 4
    <3>1. c = "CR" /\ tx = Part(l, d)
      <4>1. j - 4 = d
        BY <2>3
      <4> QED
        BY <1>3, <1>4, <1>7, <2>3, <4>1
    <3>2. effects' = Append(Since(i), Packet(Payload(l)))
      BY <1>2, <2>2, <3>1, Parted
    <3>3. mode' = "cmd" /\ n' = 0
      BY <2>1, <2>2, <3>1
    <3>4. OnTrack(l, j + 1)'
      <4>1. ~(j + 1 <= 3) /\ ~(j + 1 <= d + 4)
        BY <2>3
      <4> QED
        BY <1>2, <3>3, <4>1 DEF OnTrack
    <3> QED
      BY <1>2, <2>3, <3>2, <3>4
  <2>4. CASE j # d + 4
    <3>1. PICK k \in Nat : k = j - 4 /\ k + 1 = (j + 1) - 4 /\ k < d
      BY <1>2, <1>7, <2>4
    <3>2. c # "CR" /\ index = k /\ tx = Part(l, k)
      <4>1. j < d + 4
        BY <1>2, <1>7, <2>4
      <4> QED
        BY <1>3, <1>4, <1>7, <3>1, <4>1
    <3>3. index' = k + 1
      <4>1. k + 1 < W /\ k + 1 \in Nat
        BY <1>2, <1>5, <3>1
      <4>2. (k + 1) % W = k + 1
        BY <1>5, <4>1, Remainder
      <4> QED
        BY <2>2, <3>2, <4>2
    <3>4. i = Before(l - 1) + 4 + (k + 1)
      <4>1. i = b + 4 + (k + 1)
        BY <1>a, <1>2, <3>1
      <4> QED
        BY <1>a, <4>1
    <3>5. tx' = Part(l, k + 1)
      <4>1. CASE k < MAXDATA
        <5>1. tx' = Append(Part(l, k), i)
          BY <2>2, <3>2, <4>1
        <5>2. Part(l, k + 1) = Append(Part(l, k), Before(l - 1) + 4 + (k + 1))
          BY <4>1, PartGrows
        <5> QED
          BY <3>4, <5>1, <5>2
      <4>2. CASE ~(k < MAXDATA)
        <5>1. tx' = Part(l, k)
          BY <2>2, <3>2, <4>2
        <5> QED
          BY <4>2, <5>1, PartGrows
      <4> QED
        BY <4>1, <4>2
    <3>6. mode' = "line" /\ effects' = Since(i)
      BY <2>1, <2>2, <3>2
    <3>7. OnTrack(l, j + 1)'
      <4>1. ~(j + 1 <= 3) /\ ~(j + 1 >= d + 5) /\ j + 1 <= d + 4
        BY <1>2, <1>7, <2>4
      <4>2. tx' = Part(l, (j + 1) - 4) /\ index' = (j + 1) - 4
        BY <3>1, <3>3, <3>5
      <4> QED
        BY <1>2, <3>6, <4>1, <4>2 DEF OnTrack
    <3> QED
      BY <1>2, <2>4, <3>6, <3>7
  <2> QED
    BY <2>3, <2>4
<1>8. (j <= 3 \/ j = d + 5) \/ (4 <= j /\ j <= d + 4)
  BY <1>2
<1> QED
  BY <1>6, <1>7, <1>8

\* What has been broadcast once a lines have ended.
Aired(a) == [k \in 1..a |-> Packet(Payload(k))]

(* One more line is one more packet.                                       *)
LEMMA AiredGrows ==
  ASSUME NEW a \in Nat
  PROVE  /\ Aired(0) = <<>> /\ Aired(a) \o <<>> = Aired(a)
         /\ Aired(a + 1) = Append(Aired(a), Packet(Payload(a + 1)))
<1> DEFINE F(k) == Packet(Payload(k))
<1> HIDE DEF F
<1>1. [k \in 1..0 |-> F(k)] = <<>>
  OBVIOUS
<1>2. [k \in 1..a |-> F(k)] \o <<>> = [k \in 1..a |-> F(k)]
  <2>1. PICK s : s = [k \in 1..a |-> F(k)]
    OBVIOUS
  <2>2. s \in Seq({F(k) : k \in 1..a})
    BY <2>1
  <2>3. s \o <<>> = s
    BY <2>2
  <2> QED
    BY <2>1, <2>3
<1>3. [k \in 1..(a + 1) |-> F(k)] = Append([k \in 1..a |-> F(k)], F(a + 1))
  OBVIOUS
<1> QED
  BY <1>1, <1>2, <1>3 DEF Aired, F

(* Nothing done, nothing broadcast.                                        *)
LEMMA AiredSame ==
  ASSUME NEW a \in Nat, NEW e, NEW f, e = Aired(a), f \in {e, e \o <<>>}
  PROVE  f = Aired(a)
<1>1. Aired(a) \o <<>> = Aired(a)
  BY AiredGrows
<1> QED
  BY <1>1

(* The packet of the next line.                                            *)
LEMMA AiredNext ==
  ASSUME NEW a \in Nat, NEW b, b = a + 1, NEW e, NEW f, e = Aired(a),
         f = Append(e, Packet(Payload(b)))
  PROVE  f = Aired(b)
<1>1. Aired(a + 1) = Append(Aired(a), Packet(Payload(a + 1)))
  BY AiredGrows
<1> QED
  BY <1>1

\* All bytes from the start of the line before line l on, and j of line l,
\* have been handed over without a gap.
Unbroken(l, j) == \/ l = 1 /\ run = last
                  \/ l >= 2 /\ run + 2 >= LineLen(l - 1) + j

(* After j bytes of line l: how far the console has settled if it has seen *)
(* the line from its start, on track if it has seen the line before too,   *)
(* and what it has done if nothing was lost.                               *)
At(l, j) ==
  /\ run + 2 >= j => Settling(l, j)
  /\ Unbroken(l, j) => OnTrack(l, j)
  /\ (run = last /\ j >= Len(Lines[l]) + 5) => effects = Aired(l)
  /\ (run = last /\ j < Len(Lines[l]) + 5) => effects = Aired(l - 1)

\* The inductive invariant of the console, at each byte of each line.
ConsoleInv ==
  /\ Tidy
  /\ last = 0 => effects = <<>>
  /\ base # 0 => run < last
  /\ \A l \in 1..Len(Lines) : \A j \in 0..LineLen(l) : base + last = Before(l - 1) + j => At(l, j)

(* Any state of the console may begin a line.                              *)
LEMMA Fresh ==
  ASSUME SerialTypes, NEW l \in 1..Len(Lines)
  PROVE  Settling(l, 0)
<1>1. n \in 0..3 /\ left \in 0..4
  BY DEF SerialTypes
<1>2. Len(Lines[l]) \in Nat
  BY WireLine
<1> QED
  BY <1>1, <1>2 DEF Settling

(* Where a line starts.                                                    *)
LEMMA LineStart ==
  ASSUME NEW l \in 1..Len(Lines)
  PROVE  /\ Before(l - 1) \in Nat /\ Len(Lines[l]) \in Nat /\ LineLen(l) = Len(Lines[l]) + 6
         /\ l = 1 => Before(l - 1) = 0
BY Layout, WireLine DEF LineLen

(* A line but the first starts where the one before it ends.               *)
LEMMA LineBefore ==
  ASSUME NEW l \in 1..Len(Lines), l # 1
  PROVE  \E k \in 1..Len(Lines), x \in Nat, d \in Nat, e \in Nat :
           /\ k = l - 1 /\ x = Before(k - 1) /\ d = Len(Lines[k]) /\ e = d + 6
           /\ LineLen(k) = e /\ LineLen(l - 1) = e
           /\ Before(l - 1) = x + e
<1>1. PICK k \in 1..Len(Lines) : k = l - 1
  BY Layout
<1>2. PICK x \in Nat : x = Before(k - 1) /\ Before(k) = x + LineLen(k)
  BY Layout
<1>3. PICK d \in Nat : d = Len(Lines[k])
  BY WireLine
<1>4. PICK e \in Nat : e = d + 6
  OBVIOUS
<1>5. LineLen(k) = e
  BY <1>3, <1>4 DEF LineLen
<1>6. LineLen(l - 1) = e /\ Before(l - 1) = x + e
  BY <1>1, <1>2, <1>5
<1> QED
  BY <1>1, <1>2, <1>3, <1>4, <1>5, <1>6

(* The console starts on track of line 1.                                  *)
LEMMA ConsoleInit == SerialInit => ConsoleInv
<1> SUFFICES ASSUME SerialInit PROVE ConsoleInv
  OBVIOUS
<1>1. SerialTypes
  BY RingInit DEF RingInv
<1>2. /\ n = 0 /\ mode = "cmd" /\ index = 0 /\ tx = <<>> /\ effects = <<>> /\ last = 0 /\ run = 0
      /\ base = 0 /\ base + last = 0
  BY DEF SerialInit
<1>3. ASSUME NEW l \in 1..Len(Lines), NEW j \in 0..LineLen(l), base + last = Before(l - 1) + j
      PROVE  At(l, j)
  <2>1. l = 1 /\ j = 0
    <3>1. CASE l = 1
      <4>1. Before(l - 1) = 0
        BY <3>1, LineStart
      <4> QED
        BY <1>2, <1>3, <3>1, <4>1
    <3>2. CASE l # 1
      <4>1. PICK x \in Nat, d \in Nat, e \in Nat : e = d + 6 /\ Before(l - 1) = x + e
        BY <3>2, LineBefore
      <4> QED
        BY <1>2, <1>3, <4>1
    <3> QED
      BY <3>1, <3>2
  <2>2. Len(Lines[l]) \in Nat
    BY WireLine
  <2>3. Settling(l, 0)
    BY <1>1, Fresh
  <2>4. OnTrack(l, 0)
    BY <1>2, <2>2 DEF OnTrack
  <2>5. ~(j >= Len(Lines[l]) + 5) /\ effects = Aired(l - 1)
    <3>1. effects = Aired(0) /\ l - 1 = 0
      BY <1>2, <2>1, AiredGrows
    <3> QED
      BY <2>1, <2>2, <3>1
  <2> QED
    BY <2>1, <2>3, <2>4, <2>5 DEF At
<1>4. Tidy /\ (last = 0 => effects = <<>>) /\ (base # 0 => run < last)
  BY <1>2 DEF Tidy
<1> QED
  BY <1>3, <1>4 DEF ConsoleInv

(* Cancellation, for the steps that hand over the next byte.               *)
LEMMA Sums == \A b, p, y \in Int : b + p + 1 = y + 1 => y = b + p
OBVIOUS

(* A byte handed over preserves the invariant: in order, it is the next of *)
(* the same line or the first of the next; after a loss the console is     *)
(* anywhere in a line it has seen nothing of.                              *)
LEMMA ConsoleTake ==
  ASSUME RingInv, ConsoleInv, Take
  PROVE  ConsoleInv'
<1>0. PICK q \in Nat, z \in Nat, o \in Nat : q = buf[head] /\ z = base /\ o = last /\ q # 0
  <2>1. buf[head] \in Nat /\ buf[head] # 0
    <3>1. pc = "take"
      BY DEF Take
    <3> QED
      BY <3>1, Handed, ScriptLen
  <2> QED
    BY <2>1 DEF RingInv, SerialTypes
<1>1. PICK i \in Nat : i = z + q /\ i # 0
  BY <1>0
<1>2. /\ Console(i) /\ pc = "take" /\ last' = q /\ base' = z /\ base' + last' = i
      /\ i = z + o + 1 => run' = run + 1
      /\ i # z + o + 1 => run' = -1
  <2>1. Console(i)
    BY <1>0, <1>1, TakeConsole
  <2>2. /\ pc = "take" /\ last' = q /\ base' = z
        /\ q = o + 1 => run' = run + 1
        /\ q # o + 1 => run' = -1
    BY <1>0 DEF Take, ring
  <2>3. q = o + 1 <=> i = z + o + 1
    BY <1>0, <1>1
  <2> QED
    BY <1>1, <2>1, <2>2, <2>3
<1>3. PICK y \in Nat : y = z + o /\ y = base + last
  BY <1>0
<1>4. SerialTypes /\ SerialTypes' /\ Tidy /\ (mode = "word" => left >= 1)
  <2>1. SerialTypes'
    BY RingTake DEF RingInv
  <2> QED
    BY <2>1 DEF RingInv, Locals, ConsoleInv
<1>5. run \in Int /\ last \in Nat /\ (base # 0 => run < last)
  BY <1>4, ScriptLen DEF SerialTypes, ConsoleInv
<1>a. /\ i = y + 1 => run' = run + 1
      /\ i # y + 1 => run' = -1
      /\ run' = last' => i = y + 1 /\ run = last /\ y = last
      /\ base' # 0 => run' < last'
  <2>1. i = z + o + 1 <=> i = y + 1
    BY <1>3
  <2>2. (i = y + 1 => run' = run + 1) /\ (i # y + 1 => run' = -1)
    BY <1>2, <2>1
  <2>3. PICK r \in Int, p \in Int : r = run' /\ p = run
    BY <1>2, <1>5
  <2>4. (i = y + 1 => r = p + 1 /\ q = o + 1) /\ (i # y + 1 => r = -1)
    BY <1>1, <1>3, <2>2, <2>3
  <2>5. (z # 0 => p < o) /\ (z = 0 => y = o)
    BY <1>0, <1>3, <1>5, <2>3
  <2>6. r = q => i = y + 1 /\ p = o /\ y = o
    BY <2>4, <2>5
  <2>7. z # 0 => r < q
    BY <1>0, <2>4, <2>5
  <2> QED
    BY <1>0, <1>2, <2>2, <2>3, <2>6, <2>7
<1>6. i = y + 1 => Since(i) = effects
  <2>1. i = y + 1 => i = base + last + 1
    BY <1>3
  <2> QED
    BY <2>1 DEF Since
<1>7. Tidy'
  BY <1>2, <1>4, TidyStep
<1>8. ASSUME NEW l \in 1..Len(Lines), NEW j \in 1..LineLen(l), i = Before(l - 1) + j
      PROVE  At(l, j)'
  <2>1. PICK b \in Nat, d \in Nat : b = Before(l - 1) /\ d = Len(Lines[l]) /\ LineLen(l) = d + 6
    BY LineStart
  <2>2. PICK p \in 0..(LineLen(l) - 1) : p \in Nat /\ p = j - 1 /\ p + 1 = j
    BY <2>1
  <2>3. i = Before(l - 1) + p + 1
    BY <1>8, <2>1, <2>2
  <2>4. i = y + 1 => At(l, p)
    <3>1. i = y + 1 => y = Before(l - 1) + p
      <4>1. b \in Int /\ p \in Int /\ y \in Int
        BY <2>1, <2>2, <1>3
      <4>2. b + p + 1 = y + 1 => y = b + p
        BY <4>1, Sums
      <4> QED
        BY <2>1, <2>3, <4>2
    <3>2. p \in 0..LineLen(l)
      BY <2>1
    <3> QED
      BY <1>3, <3>1, <3>2 DEF ConsoleInv
  <2>5. run' + 2 >= j => Settling(l, j)'
    <3> SUFFICES ASSUME run' + 2 >= j PROVE Settling(l, j)'
      OBVIOUS
    <3>1. Settling(l, p)
      <4>1. CASE i = y + 1
        <5>1. run + 2 >= p
          BY <1>a, <1>5, <2>1, <2>2, <4>1
        <5> QED
          BY <2>4, <4>1, <5>1 DEF At
      <4>2. CASE i # y + 1
        <5>1. p = 0
          BY <1>a, <2>1, <2>2, <4>2
        <5> QED
          BY <1>4, <5>1, Fresh
      <4> QED
        BY <4>1, <4>2
    <3>2. /\ n' = 3 => p + 1 \in {0, 3}
          /\ n' = 2 => p + 1 \in {0, 2}
          /\ n' = 1 => p + 1 <= Len(Lines[l]) + 4
          /\ mode' = "word" => left' + p + 1 <= 4
          /\ mode' \notin {"rate", "reset"}
          /\ p + 1 >= Len(Lines[l]) + 5 => mode' = "cmd" /\ n' = 0
      BY <1>2, <1>4, <2>3, <3>1, SettlingStep
    <3>3. left' \in 0..4
      BY <1>4 DEF SerialTypes
    <3>4. left' + p + 1 = left' + j
      BY <2>2, <3>3
    <3> QED
      BY <2>2, <3>2, <3>4 DEF Settling
  <2>6. Unbroken(l, j)' => i = y + 1 /\ Unbroken(l, p)
    <3>1. CASE l = 1
      BY <1>a, <3>1 DEF Unbroken
    <3>2. CASE l # 1
      <4>1. PICK d1 \in Nat, e \in Nat : e = LineLen(l - 1) /\ e = d1 + 6
        BY <3>2, LineBefore
      <4>2. l >= 2
        BY <3>2
      <4> QED
        BY <1>a, <1>5, <2>2, <3>2, <4>1, <4>2 DEF Unbroken
    <3> QED
      BY <3>1, <3>2
  <2>7. ASSUME i = y + 1, Unbroken(l, p)
        PROVE  /\ OnTrack(l, j)'
               /\ j = d + 5 => effects' = Append(effects, Packet(Payload(l)))
               /\ j # d + 5 => effects' \in {effects, effects \o <<>>}
    <3>1. OnTrack(l, p)
      BY <2>4, <2>7 DEF At
    <3>2. /\ OnTrack(l, p + 1)'
          /\ p = Len(Lines[l]) + 4 => effects' = Append(Since(i), Packet(Payload(l)))
          /\ p # Len(Lines[l]) + 4 => effects' \in {Since(i), Since(i) \o <<>>}
      BY <1>2, <1>4, <2>3, <3>1, OnTrackStep
    <3>3. Since(i) = effects
      BY <1>6, <2>7
    <3>4. p + 1 = j /\ (j = d + 5 <=> p = d + 4) /\ d = Len(Lines[l])
      BY <2>1, <2>2
    <3> QED
      BY <3>2, <3>3, <3>4
  <2>8. run' = last' => i = y + 1 /\ run = last /\ Unbroken(l, p)
    <3> SUFFICES ASSUME run' = last' PROVE i = y + 1 /\ run = last /\ Unbroken(l, p)
      OBVIOUS
    <3>1. i = y + 1 /\ run = last /\ y = last
      BY <1>a
    <3>2. CASE l = 1
      BY <3>1, <3>2 DEF Unbroken
    <3>3. CASE l # 1
      <4>1. PICK x \in Nat, e \in Nat : e = LineLen(l - 1) /\ b = x + e
        BY <2>1, <3>3, LineBefore
      <4>2. l >= 2 /\ last = b + p
        <5>1. l >= 2
          BY <3>3
        <5>2. b + p + 1 = y + 1 => y = b + p
          <6>1. b \in Int /\ p \in Int /\ y \in Int
            BY <1>3, <2>1, <2>2
          <6> QED
            BY <6>1, Sums
        <5>3. b + p + 1 = y + 1
          BY <2>1, <2>3, <3>1
        <5> QED
          BY <3>1, <5>1, <5>2, <5>3
      <4>3. PICK r \in Int : r = run /\ r = x + e + p
        BY <1>5, <3>1, <4>1, <4>2
      <4>4. r + 2 >= e + p
        BY <2>1, <4>3
      <4>5. run + 2 >= LineLen(l - 1) + p
        BY <4>1, <4>3, <4>4
      <4> QED
        BY <3>1, <4>2, <4>5 DEF Unbroken
    <3> QED
      BY <3>1, <3>2, <3>3
  <2>9. ASSUME run' = last'
        PROVE  /\ j >= d + 5 => effects' = Aired(l)
               /\ j < d + 5 => effects' = Aired(l - 1)
    <3>1. i = y + 1 /\ run = last /\ Unbroken(l, p)
      BY <2>8, <2>9
    <3>2. /\ p >= d + 5 => effects = Aired(l)
          /\ p < d + 5 => effects = Aired(l - 1)
      BY <2>1, <2>4, <3>1 DEF At
    <3>3. /\ j = d + 5 => effects' = Append(effects, Packet(Payload(l)))
          /\ j # d + 5 => effects' \in {effects, effects \o <<>>}
      BY <2>7, <3>1
    <3>4. PICK a \in Nat : a = l - 1 /\ a + 1 = l
      OBVIOUS
    <3>6. CASE j = d + 5
      <4>1. p < d + 5
        BY <2>2, <3>6
      <4> QED
        BY <3>2, <3>3, <3>4, <3>6, <4>1, AiredNext
    <3>7. CASE j < d + 5
      <4>1. p < d + 5 /\ j # d + 5 /\ ~(j >= d + 5)
        BY <2>2, <3>7
      <4>2. effects = Aired(a) /\ effects' \in {effects, effects \o <<>>}
        BY <3>2, <3>3, <3>4, <4>1
      <4>3. effects' = Aired(a)
        BY <4>2, AiredSame
      <4> QED
        BY <3>4, <4>1, <4>3
    <3>8. CASE j > d + 5
      <4>1. p >= d + 5 /\ j # d + 5 /\ ~(j < d + 5)
        BY <2>2, <3>8
      <4>2. l \in Nat /\ effects = Aired(l) /\ effects' \in {effects, effects \o <<>>}
        BY <3>2, <3>3, <4>1
      <4>3. effects' = Aired(l)
        BY <4>2, AiredSame
      <4> QED
        BY <4>1, <4>3
    <3>9. j = d + 5 \/ j < d + 5 \/ j > d + 5
      OBVIOUS
    <3> QED
      BY <3>6, <3>7, <3>8, <3>9
  <2> QED
    BY <2>1, <2>5, <2>6, <2>7, <2>9 DEF At
<1>9. ASSUME NEW l \in 1..Len(Lines), i = Before(l - 1) + 0
      PROVE  At(l, 0)'
  <2>1. l # 1
    BY <1>1, <1>9, LineStart
  <2>2. PICK k \in 1..Len(Lines), e \in Nat, x \in Nat, d \in Nat :
          k = l - 1 /\ x = Before(k - 1) /\ e = LineLen(k) /\ e = LineLen(l - 1)
          /\ d = Len(Lines[k]) /\ e = d + 6 /\ i = x + e
    <3>1. PICK b \in Nat : b = Before(l - 1) /\ i = b
      BY <1>9, LineStart
    <3> QED
      BY <2>1, <3>1, LineBefore
  <2>3. e \in 1..e /\ e >= d + 5
    <3>1. e = d + 6
      BY <2>2, Zenon
    <3> QED
      BY <3>1, LineEnd, Zenon
  <2>4. e >= Len(Lines[k]) + 5
    <3>1. d = Len(Lines[k])
      BY <2>2, Zenon
    <3> QED
      BY <2>3, <3>1, Zenon
  <2>5. At(k, e)'
    <3>1. e \in 1..LineLen(k) /\ i = Before(k - 1) + e
      <4>1. e \in 1..e
        BY <2>3, Zenon
      <4>2. LineLen(k) = e /\ Before(k - 1) = x /\ i = x + e
        BY <2>2
      <4> QED
        BY <4>1, <4>2
    <3> QED
      BY <1>8, <3>1
  <2>6. Settling(l, 0)'
    <3>1. n' \in 0..3 /\ left' \in 0..4
      BY <1>4 DEF SerialTypes
    <3>2. PICK d1 \in Nat : d1 = Len(Lines[l])
      BY WireLine
    <3>3. PICK k1 \in 0..4 : k1 = left'
      BY <3>1
    <3>4. k1 + 0 <= 4 /\ 0 <= d1 + 4 /\ ~(0 >= d1 + 5)
      OBVIOUS
    <3> QED
      BY <3>2, <3>3, <3>4 DEF Settling
  <2>7. Unbroken(l, 0)' => OnTrack(l, 0)'
    <3> SUFFICES ASSUME Unbroken(l, 0)' PROVE OnTrack(l, 0)'
      OBVIOUS
    <3>1. run' + 2 >= e
      <4>1. LineLen(l - 1) = e
        BY <2>2
      <4> QED
        BY <2>1, <2>2, <4>1 DEF Unbroken
    <3>2. mode' = "cmd" /\ n' = 0
      <4>1. Settling(k, e)'
        BY <2>5, <3>1 DEF At
      <4> QED
        BY <4>1, <2>4, Zenon DEF Settling
    <3>3. 0 <= 3 /\ ~(4 <= 0) /\ ~(0 >= Len(Lines[l]) + 5)
      BY WireLine
    <3> QED
      BY <3>2, <3>3, Zenon DEF OnTrack
  <2>8. run' = last' => effects' = Aired(l - 1)
    <3>1. run' = last' => effects' = Aired(k)
      BY <2>5, <2>4, Zenon DEF At
    <3>2. k = l - 1
      BY <2>2
    <3> QED
      BY <3>1, <3>2, Zenon
  <2>9. ~(0 >= Len(Lines[l]) + 5)
    BY WireLine
  <2> QED
    BY <2>6, <2>7, <2>8, <2>9 DEF At
<1>10. ASSUME NEW l \in 1..Len(Lines), NEW j \in 0..LineLen(l),
              base' + last' = Before(l - 1) + j
       PROVE  At(l, j)'
  <2>1. i = Before(l - 1) + j
    BY <1>2, <1>10
  <2>2. CASE j = 0
    BY <1>9, <2>1, <2>2
  <2>3. CASE j # 0
    <3>1. j \in 1..LineLen(l)
      BY <2>3, LineStart
    <3> QED
      BY <1>8, <2>1, <3>1
  <2> QED
    BY <2>2, <2>3
<1>11. last' # 0
  BY <1>0, <1>2
<1> QED
  BY <1>7, <1>a, <1>10, <1>11 DEF ConsoleInv

(* A restart preserves it: the console has seen nothing of any line.       *)
LEMMA ConsoleRestart ==
  ASSUME RingInv, ConsoleInv, Restart
  PROVE  ConsoleInv'
<1>1. /\ n' = 0 /\ left' = 0 /\ index' = 0 /\ tx' = <<>> /\ effects' = <<>>
      /\ last' = 0 /\ run' = -2
  BY DEF Restart
<1>2. Tidy' /\ (last' = 0 => effects' = <<>>) /\ (base' # 0 => run' < last')
  BY <1>1 DEF Tidy
<1>3. ASSUME NEW l \in 1..Len(Lines), NEW j \in 0..LineLen(l)
      PROVE  At(l, j)'
  <2>1. PICK d \in Nat : d = Len(Lines[l]) /\ LineLen(l) = d + 6
    BY LineStart
  <2>2. run' + 2 >= j => Settling(l, j)'
    <3> SUFFICES ASSUME run' + 2 >= j PROVE Settling(l, j)'
      OBVIOUS
    <3>1. j = 0
      BY <1>1, <2>1
    <3>2. ~(0 >= d + 5) /\ 0 <= d + 4
      OBVIOUS
    <3> QED
      BY <1>1, <2>1, <3>1, <3>2 DEF Settling
  <2>3. ~Unbroken(l, j)' /\ run' # last'
    <3>1. CASE l = 1
      BY <1>1, <3>1 DEF Unbroken
    <3>2. CASE l # 1
      <4>1. PICK d1 \in Nat, e \in Nat : e = LineLen(l - 1) /\ e = d1 + 6
        BY <3>2, LineBefore
      <4>2. ~(-2 + 2 >= e + j)
        BY <2>1, <4>1
      <4> QED
        BY <1>1, <3>2, <4>1, <4>2 DEF Unbroken
    <3> QED
      BY <3>1, <3>2
  <2> QED
    BY <2>2, <2>3 DEF At
<1> QED
  BY <1>2, <1>3 DEF ConsoleInv

(* No other step disturbs it.                                              *)
LEMMA ConsoleStep ==
  ASSUME RingInv, ConsoleInv, [SerialNext]_serialVars
  PROVE  ConsoleInv'
<1>1. CASE Take
  BY <1>1, ConsoleTake
<1>2. CASE Restart
  BY <1>2, ConsoleRestart
<1>3. CASE ~Take /\ ~Restart
  <2>1. UNCHANGED <<base, n, mode, left, index, tx, effects, last, run>>
    BY <1>3 DEF SerialNext, Poll, Receive, Compare, Count, Resync, serialVars, ring, console,
                handed
  <2>2. Tidy' /\ (last' = 0 => effects' = <<>>) /\ (base' # 0 => run' < last')
    BY <2>1 DEF ConsoleInv, Tidy
  <2>3. ASSUME NEW l \in 1..Len(Lines), NEW j \in 0..LineLen(l),
               base' + last' = Before(l - 1) + j
        PROVE  At(l, j)'
    <3>1. At(l, j)
      BY <2>1, <2>3 DEF ConsoleInv
    <3> QED
      BY <2>1, <3>1 DEF At, Settling, Unbroken, OnTrack
  <2> QED
    BY <2>2, <2>3 DEF ConsoleInv
<1> QED
  BY <1>1, <1>2, <1>3

(* Lines end in their order.                                               *)
LEMMA InLineOrder ==
  ASSUME NEW k \in 1..Len(Lines), NEW l \in 1..Len(Lines), k <= l
  PROVE  Before(k) <= Before(l)
<1>1. PICK m \in Nat : m = Len(Lines)
  BY Layout
<1> DEFINE T == {i \in Nat : (k <= i /\ i <= m) => Before(k) <= Before(i)}
<1>2. 0 \in T
  BY <1>1
<1>3. ASSUME NEW i \in T PROVE i + 1 \in T
  <2> SUFFICES ASSUME k <= i + 1, i + 1 <= m PROVE Before(k) <= Before(i + 1)
    OBVIOUS
  <2>1. CASE k = i + 1
    <3>1. Before(k) \in Nat
      BY Layout
    <3> QED
      BY <2>1, <3>1
  <2>2. CASE k <= i
    <3>1. PICK h \in 1..Len(Lines) : h = i + 1 /\ h - 1 = i
      BY <1>1, <2>2
    <3>2. PICK x \in Nat, e \in Nat : x = Before(h - 1) /\ Before(h) = x + e
      <4>1. Before(h - 1) \in Nat /\ Before(h) = Before(h - 1) + LineLen(h)
        BY Layout
      <4>2. LineLen(h) \in Nat
        BY LineStart
      <4> QED
        BY <4>1, <4>2
    <3>3. Before(k) \in Nat /\ Before(k) <= Before(i)
      BY <1>1, <2>2, Layout
    <3> QED
      BY <3>1, <3>2, <3>3
  <2>3. k = i + 1 \/ k <= i
    OBVIOUS
  <2> QED
    BY <2>1, <2>2, <2>3
<1>4. \A i \in Nat : i \in T
  <2>1. T \in SUBSET Nat
    OBVIOUS
  <2> HIDE DEF T
  <2> QED
    BY <1>2, <1>3, <2>1, Induction
<1>5. l \in T /\ l <= m
  BY <1>1, <1>4
<1> QED
  BY <1>5

(* Every byte is in a line.                                                *)
LEMMA InSomeLine ==
  ASSUME NEW p \in 0..Len(Script), Len(Lines) # 0
  PROVE  \E l \in 1..Len(Lines) : \E j \in 0..LineLen(l) : p = Before(l - 1) + j
<1>1. PICK m \in Nat : m = Len(Lines) /\ m # 0
  BY Layout
<1> DEFINE P(i) == i <= m => (p <= Before(i) =>
                     \E l \in 1..Len(Lines) : \E j \in 0..LineLen(l) : p = Before(l - 1) + j)
           T == {i \in Nat : i # 0 => P(i)}
<1>2. 0 \in T
  OBVIOUS
<1>3. ASSUME NEW i \in T PROVE i + 1 \in T
  <2> SUFFICES ASSUME i + 1 <= m, p <= Before(i + 1)
               PROVE  \E l \in 1..Len(Lines) : \E j \in 0..LineLen(l) : p = Before(l - 1) + j
    OBVIOUS
  <2>1. i \in Nat /\ (i # 0 => P(i))
    OBVIOUS
  <2>2. i # 0 /\ p <= Before(i)
          => \E l \in 1..Len(Lines) : \E j \in 0..LineLen(l) : p = Before(l - 1) + j
    BY <2>1
  <2> HIDE DEF T, P
  <2>3. PICK h \in 1..Len(Lines) : h = i + 1 /\ h - 1 = i
    BY <1>1, <2>1
  <2>4. PICK x \in Nat, e \in Nat : x = Before(h - 1) /\ e = LineLen(h) /\ Before(h) = x + e
    <3>1. Before(h - 1) \in Nat /\ Before(h) = Before(h - 1) + LineLen(h)
      BY Layout
    <3>2. LineLen(h) \in Nat
      BY LineStart
    <3> QED
      BY <3>1, <3>2
  <2>5. i = 0 => x = 0
    BY <2>3, <2>4, LineStart
  <2>6. CASE p < x
    <3>1. i # 0 /\ p <= Before(i)
      <4>1. Before(i) = x
        BY <2>3, <2>4, Zenon
      <4>2. x # 0 /\ p <= x
        BY <2>4, <2>6
      <4> QED
        BY <2>5, <4>1, <4>2, Zenon
    <3> QED
      BY <2>2, <3>1
  <2>7. CASE x <= p
    <3>1. PICK j \in Nat : j = p - x
      BY <2>7
    <3>2. p <= x + e
      BY <2>3, <2>4
    <3>3. j \in 0..e /\ p = x + j
      <4>1. p \in Nat /\ x \in Nat /\ e \in Nat
        BY <2>4, ScriptLen
      <4>2. p = x + j
        BY <2>7, <3>1, <4>1
      <4>3. j <= e
        BY <3>2, <4>1, <4>2
      <4> QED
        BY <4>2, <4>3, <4>1
    <3>4. j \in 0..LineLen(h) /\ p = Before(h - 1) + j
      BY <2>4, <3>3
    <3> QED
      BY <3>4
  <2> QED
    BY <2>6, <2>7
<1>4. \A i \in Nat : i \in T
  <2>1. T \in SUBSET Nat
    OBVIOUS
  <2> HIDE DEF T
  <2> QED
    BY <1>2, <1>3, <2>1, Induction
<1>5. P(m)
  BY <1>1, <1>4
<1>6. p <= Before(m)
  BY <1>1, Layout
<1> QED
  BY <1>1, <1>5, <1>6

(* The invariants say which lines have been broadcast.                     *)
LEMMA AiredSoFar == ASSUME RingInv, ConsoleInv PROVE LinesAired
<1> SUFFICES ASSUME run = last
             PROVE  \E a \in 0..Len(Lines) :
                      /\ \A l \in DOMAIN Lines : l <= a <=> Ends(l) <= last
                      /\ effects = [l \in 1..a |-> Packet(Payload(l))]
  BY DEF LinesAired
<1>1. PICK m \in Nat : m = Len(Lines) /\ DOMAIN Lines = 1..m
  BY LoraSerialAssumption
<1>2. last \in 0..Len(Script) /\ base = 0 /\ base + last = last
  <2>1. last \in 0..Len(Script) /\ run = last
    BY DEF RingInv, SerialTypes
  <2>2. base = 0
    BY <2>1, ScriptLen DEF ConsoleInv
  <2> QED
    BY <2>1, <2>2, ScriptLen
<1>3. CASE m = 0
  <2>1. last = 0
    <3>1. Len(Script) = Before(0) /\ Before(0) = 0
      BY <1>1, <1>3, Layout
    <3> QED
      BY <1>2, <3>1
  <2>2. effects = Aired(0)
    BY <2>1, AiredGrows DEF ConsoleInv
  <2>3. 0 \in 0..m /\ DOMAIN Lines = {}
    BY <1>1, <1>3
  <2> QED
    BY <1>1, <2>2, <2>3 DEF Aired
<1>4. CASE m # 0
  <2>0. PICK l \in 1..Len(Lines) : \E j \in 0..LineLen(l) : last = Before(l - 1) + j
    BY <1>1, <1>2, <1>4, InSomeLine
  <2>1. PICK j \in 0..LineLen(l) : last = Before(l - 1) + j
    BY <2>0
  <2>2. PICK d \in Nat, b \in Nat :
          /\ d = Len(Lines[l]) /\ b = Before(l - 1) /\ LineLen(l) = d + 6
          /\ last = b + j /\ Before(l) = b + (d + 6) /\ Ends(l) = b + d + 5
    <3>1. Before(l - 1) \in Nat /\ Len(Lines[l]) \in Nat /\ LineLen(l) = Len(Lines[l]) + 6
      BY LineStart
    <3>2. Before(l) = Before(l - 1) + LineLen(l)
      BY Layout
    <3> QED
      BY <2>1, <3>1, <3>2, Parted
  <2>3. At(l, j)
    BY <1>2, <2>1 DEF ConsoleInv
  <2>4. /\ j >= d + 5 => effects = Aired(l)
        /\ j < d + 5 => effects = Aired(l - 1)
    BY <2>2, <2>3 DEF At
  <2>5. ASSUME NEW k \in 1..m, k < l PROVE Ends(k) <= last
    <3>1. PICK h \in 1..Len(Lines) : h = l - 1 /\ k <= h
      BY <1>1, <2>5
    <3>2. Before(k) <= Before(h) /\ Before(k) \in Nat /\ Before(h) = b
      BY <1>1, <2>2, <3>1, InLineOrder, Layout
    <3>3. Ends(k) = Before(k) - 1
      BY DEF Ends, Before
    <3> QED
      BY <2>2, <3>2, <3>3
  <2>6. ASSUME NEW k \in 1..m, l < k PROVE ~(Ends(k) <= last)
    <3>1. PICK h \in 1..Len(Lines) : h = k - 1 /\ l <= h
      BY <1>1, <2>6
    <3>2. Before(l) <= Before(h) /\ Before(h) \in Nat /\ Before(h) = Before(k - 1)
      BY <3>1, InLineOrder, Layout
    <3>3. PICK f \in Nat : Ends(k) = Before(k - 1) + f + 5
      BY <1>1, LineStart, Parted
    <3>4. PICK y \in Nat : y = Before(k - 1) /\ b + (d + 6) <= y
      BY <2>2, <3>2
    <3>5. PICK q \in Nat : q = last /\ q <= b + (d + 6)
      BY <2>2
    <3>6. Ends(k) = y + f + 5 /\ ~(y + f + 5 <= q)
      BY <3>3, <3>4, <3>5
    <3> QED
      BY <3>5, <3>6
  <2>7. CASE j >= d + 5
    <3>1. \A k \in 1..m : k <= l <=> Ends(k) <= last
      <4>1. Ends(l) <= last
        <5>1. PICK y \in Nat : y = j /\ y >= d + 5
          BY <2>2, <2>7
        <5>2. b + d + 5 <= b + y
          <6>1. b \in Nat /\ d \in Nat /\ y \in Nat /\ y >= d + 5
            BY <2>2, <5>1
          <6> QED
            BY <6>1
        <5> QED
          BY <2>2, <5>1, <5>2
      <4>2. \A k \in 1..m : k <= l \/ l < k
        OBVIOUS
      <4>3. \A k \in 1..m : k <= l => k < l \/ k = l
        OBVIOUS
      <4>4. \A k \in 1..m : k <= l => ~(l < k)
        OBVIOUS
      <4> QED
        BY <2>5, <2>6, <4>1, <4>2, <4>3, <4>4
    <3>2. effects = Aired(l) /\ l \in 0..Len(Lines)
      BY <2>4, <2>7
    <3> QED
      BY <1>1, <3>1, <3>2 DEF Aired
  <2>8. CASE j < d + 5
    <3>1. PICK a \in 0..Len(Lines) : a = l - 1
      BY <1>1
    <3>2. \A k \in 1..m : k <= a <=> Ends(k) <= last
      <4>1. ~(Ends(l) <= last)
        <5>1. PICK y \in Nat : y = j /\ y < d + 5
          BY <2>2, <2>8
        <5>2. ~(b + d + 5 <= b + y)
          <6>1. b \in Nat /\ d \in Nat /\ y \in Nat /\ y < d + 5
            BY <2>2, <5>1
          <6> QED
            BY <6>1
        <5> QED
          BY <2>2, <5>1, <5>2
      <4>2. \A k \in 1..m : k <= a \/ k = l \/ l < k
        BY <3>1
      <4>3. \A k \in 1..m : k <= a => k < l
        BY <3>1
      <4> QED
        BY <2>5, <2>6, <4>1, <4>2, <4>3
    <3>3. effects = Aired(a)
      BY <2>4, <2>8, <3>1
    <3> QED
      BY <1>1, <3>1, <3>2, <3>3 DEF Aired
  <2> QED
    BY <2>2, <2>7, <2>8
<1> QED
  BY <1>3, <1>4

(* At the CR of the second of two unbroken lines the console is on track:  *)
(* it broadcasts that line.                                                *)
LEMMA HealingStep ==
  ASSUME RingInv, ConsoleInv, Take, NEW l \in 2..Len(Lines),
         base + last' = Ends(l), run' + 1 >= Ends(l) - Starts(l - 1)
  PROVE  effects' = Append(effects, Packet(Payload(l)))
<1>0. PICK q \in Nat, z \in Nat, o \in Nat : q = buf[head] /\ z = base /\ o = last
  <2>1. buf[head] \in Nat
    <3>1. pc = "take"
      BY DEF Take
    <3> QED
      BY <3>1, Handed, ScriptLen
  <2> QED
    BY <2>1 DEF RingInv, SerialTypes
<1>1. PICK i \in Nat, y \in Nat : i = z + q /\ y = z + o /\ y = base + last
  BY <1>0
<1>2. /\ Console(i) /\ i = Ends(l)
      /\ i = y + 1 => run' = run + 1
      /\ i # y + 1 => run' = -1
  <2>1. Console(i)
    BY <1>0, <1>1, TakeConsole
  <2>2. /\ last' = q
        /\ q = o + 1 => run' = run + 1
        /\ q # o + 1 => run' = -1
    BY <1>0 DEF Take
  <2>3. q = o + 1 <=> i = y + 1
    BY <1>0, <1>1
  <2> QED
    BY <1>0, <1>1, <2>1, <2>2, <2>3
<1>3. SerialTypes /\ Tidy /\ run \in Int /\ last \in Nat
  BY ScriptLen DEF RingInv, ConsoleInv, SerialTypes
<1>4. l \in 1..Len(Lines) /\ l # 1 /\ l >= 2
  BY Layout
<1>5. PICK k \in 1..Len(Lines), x \in Nat, g \in Nat, e \in Nat :
        /\ k = l - 1 /\ x = Before(k - 1) /\ g = Len(Lines[k]) /\ e = g + 6
        /\ LineLen(k) = e /\ LineLen(l - 1) = e
        /\ Before(l - 1) = x + e
  BY <1>4, LineBefore
<1>6. Starts(l - 1) = x + 1
  BY <1>5, Parted
<1>7. PICK d \in Nat : d = Len(Lines[l]) /\ LineLen(l) = d + 6 /\ Ends(l) = x + e + d + 5
  <2>1. Len(Lines[l]) \in Nat /\ LineLen(l) = Len(Lines[l]) + 6
    BY <1>4, LineStart
  <2>2. Ends(l) = Before(l - 1) + Len(Lines[l]) + 5
    BY <1>4, Parted
  <2> QED
    BY <1>5, <2>1, <2>2
<1>8. PICK j \in 0..(LineLen(l) - 1) : j = d + 4
  BY <1>7
<1>9. i = x + e + j + 1
  <2>1. i = x + e + d + 5
    BY <1>2, <1>7
  <2> QED
    BY <1>8, <2>1
<1>10. i = y + 1 /\ run + 2 >= e + j
  <2>1. PICK r \in Int : r = run' /\ r + 1 >= e + d + 4
    <3>1. run' \in Int
      BY <1>2, <1>3
    <3>2. PICK s \in Int : s = Ends(l) - Starts(l - 1) /\ s = e + d + 4
      <4>1. PICK s \in Int : s = (x + e + d + 5) - (x + 1)
        OBVIOUS
      <4>2. s = e + d + 4
        BY <4>1
      <4>3. s = Ends(l) - Starts(l - 1)
        BY <1>6, <1>7, <4>1
      <4> QED
        BY <4>2, <4>3
    <3> QED
      BY <3>1, <3>2
  <2>2. i = y + 1
    <3> SUFFICES ASSUME i # y + 1 PROVE FALSE
      OBVIOUS
    <3>1. r = -1
      BY <1>2, <2>1
    <3> QED
      BY <1>5, <2>1, <3>1
  <2>3. PICK p \in Int : p = run /\ r = p + 1
    BY <1>2, <1>3, <2>1, <2>2
  <2>4. p + 2 >= e + j
    BY <1>8, <2>1, <2>3
  <2> QED
    BY <2>2, <2>3, <2>4
<1>11. At(l, j)
  <2>1. base + last = Before(l - 1) + j
    <3>1. x + e + j + 1 = y + 1
      BY <1>9, <1>10
    <3>2. y = x + e + j
      BY <3>1
    <3> QED
      BY <1>1, <1>5, <3>2
  <2>2. j \in 0..LineLen(l)
    BY <1>7
  <2> QED
    BY <1>4, <2>1, <2>2 DEF ConsoleInv
<1>12. OnTrack(l, j)
  <2>1. run + 2 >= LineLen(l - 1) + j
    BY <1>5, <1>10
  <2> QED
    BY <1>4, <1>11, <2>1 DEF At, Unbroken
<1>13. effects' = Append(Since(i), Packet(Payload(l)))
  <2>1. i = Before(l - 1) + j + 1 /\ j = Len(Lines[l]) + 4
    BY <1>5, <1>7, <1>8, <1>9
  <2> QED
    BY <1>2, <1>3, <1>4, <1>12, <2>1, OnTrackStep
<1>14. Since(i) = effects
  BY <1>1, <1>10 DEF Since
<1> QED
  BY <1>13, <1>14

(* For any lines of data shorter than two turns of the ring, at any speed  *)
(* of the main loop: until a byte is lost, the lines that have ended are   *)
(* the packets that have been broadcast, in order, cut to MAXDATA bytes,   *)
(* and no command beside AT=U has been carried out.                        *)
THEOREM LinesBroadcast == SerialSpec => []LinesAired
<1>1. SerialSpec => [](RingInv /\ ConsoleInv)
  BY RingInit, RingStep, ConsoleInit, ConsoleStep, PTL DEF SerialSpec
<1>2. RingInv /\ ConsoleInv => LinesAired
  BY AiredSoFar
<1> QED
  BY <1>1, <1>2, PTL

(* Whatever was lost, repeated or taken for a command (one that reads more *)
(* characters, or one that restarts the modem, too): the second of two     *)
(* lines that reach the modem unbroken is broadcast as it was sent and     *)
(* nothing else is obeyed (ConsoleProc, sio2host_rx, system_reset).        *)
THEOREM ConsoleHeals == SerialSpec => Heals
<1>1. ASSUME RingInv, ConsoleInv, [SerialNext]_serialVars
      PROVE  [\A l \in 2..Len(Lines) :
                base + last' = Ends(l) /\ last # last' /\ run' + 1 >= Ends(l) - Starts(l - 1)
                  => effects' = Append(effects, Packet(Payload(l)))]_serialVars
  <2> SUFFICES ASSUME NEW l \in 2..Len(Lines), base + last' = Ends(l), last # last',
                      run' + 1 >= Ends(l) - Starts(l - 1)
               PROVE  effects' = Append(effects, Packet(Payload(l)))
    OBVIOUS
  <2>1. ~Restart
    <3> SUFFICES ASSUME Restart PROVE FALSE
      OBVIOUS
    <3>1. run' = -2
      BY DEF Restart
    <3>2. PICK k \in 1..Len(Lines), x \in Nat, g \in Nat, e \in Nat :
            /\ k = l - 1 /\ x = Before(k - 1) /\ e = g + 6 /\ Before(l - 1) = x + e
      <4>1. l \in 1..Len(Lines) /\ l # 1
        BY Layout
      <4> QED
        BY <4>1, LineBefore
    <3>3. PICK d \in Nat : d = Len(Lines[l]) /\ Ends(l) = x + e + d + 5
      <4>1. l \in 1..Len(Lines)
        BY Layout
      <4>2. Len(Lines[l]) \in Nat /\ Ends(l) = Before(l - 1) + Len(Lines[l]) + 5
        BY <4>1, LineStart, Parted
      <4> QED
        BY <3>2, <4>2
    <3>4. Starts(l - 1) = x + 1
      <4>1. Starts(k) = Before(k - 1) + 1
        BY <3>2, Parted
      <4> QED
        BY <3>2, <4>1
    <3>5. (x + e + d + 5) - (x + 1) = e + d + 4
      OBVIOUS
    <3>6. -2 + 1 >= e + d + 4
      BY <3>1, <3>3, <3>4, <3>5
    <3>7. ~(-2 + 1 >= e + d + 4)
      OBVIOUS
    <3> QED
      BY <3>6, <3>7
  <2>2. Take
    BY <1>1, <2>1 DEF SerialNext, Poll, Receive, Compare, Count, Resync, serialVars, handed
  <2> QED
    BY <1>1, <2>2, HealingStep
<1>2. SerialSpec => [](RingInv /\ ConsoleInv)
  BY RingInit, RingStep, ConsoleInit, ConsoleStep, PTL DEF SerialSpec
<1> QED
  BY <1>1, <1>2, PTL DEF SerialSpec, Heals
=============================================================================
