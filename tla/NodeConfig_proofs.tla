-------------------------- MODULE NodeConfig_proofs --------------------------
(***************************************************************************)
(* The pins and the settings of NodeConfig, for any channels and settings  *)
(* and any number of commands and resets.                                  *)
(***************************************************************************)
EXTENDS NodeConfig, TLAPS

Setting == pc \in {"select2", "select1"}

(* Which steps belong to booting; setUartChannel is called by both. *)
BootInv ==
  /\ pc \in {"initBle", "initPort", "initNvm"} => booting
  /\ pc \in {"save", "idle"} => ~booting
  /\ chosen = "yes" => ~booting

(* How far setUartChannel has come with the channel that is to be wired. *)
PinsInv ==
  /\ Setting => arg \in Wired
  /\ chosen = "yes" /\ ~crossed /\ ram.channel \in Wired =>
       /\ Setting => arg = ram.channel
       /\ pc = "select1" => select.select2 = Levels(arg).select2
       /\ pc \in {"return", "save", "idle"} => select = Levels(ram.channel)

(* Until a channel is commanded boot calls setUartChannel with channel 0. *)
EthernetInv ==
  chosen = "no" =>
    /\ booting /\ pc \in {"initBle", "initPort", "setUartChannel"} => ram.channel = 0
    /\ Setting => arg = 0
    /\ pc = "setUartChannel" => booting
    /\ pc \notin {"initBle", "initPort"} => select = Levels(0)

(* What boot may find in flash, and what main has found, are kept settings. *)
KeptInv ==
  ~lostRead => /\ Other(flash) \in kept
               /\ ~booting => Other(ram) \in kept

IInv == TypeOK /\ BootInv /\ PinsInv /\ EthernetInv /\ KeptInv

-----------------------------------------------------------------------------
LEMMA Constants ==
  /\ Zero \in Factors /\ Factory \in Factors
  /\ High = Levels(0)
  /\ High \in [select2 : 0..1, select1 : 0..1] /\ Low \in [select2 : 0..1, select1 : 0..1]
  /\ \A c \in 0..255 : Levels(c) \in [select2 : 0..1, select1 : 0..1]
BY DEF Zero, Factory, Factors, High, Low, Levels

(* A record of two pins is determined by them. *)
LEMMA TwoPins ==
  ASSUME NEW s \in [select2 : 0..1, select1 : 0..1], NEW c,
         s.select2 = Levels(c).select2, s.select1 = Levels(c).select1
  PROVE  s = Levels(c)
BY DEF Levels

LEMMA InitIInv == Init => IInv
<1> SUFFICES ASSUME Init PROVE IInv OBVIOUS
<1>1. TypeOK
  <2>1. ram \in Factors /\ flash \in Factors /\ select \in [select2 : 0..1, select1 : 0..1]
    BY Constants DEF Init
  <2>2. arg \in 0..255 /\ json \in Nat /\ ble \in Nat /\ resets \in Nat
    BY SMT DEF Init
  <2>3. booting \in BOOLEAN /\ crossed \in BOOLEAN /\ lostRead \in BOOLEAN
    BY Zenon DEF Init
  <2>4. pc = "initBle" /\ chosen = "no"
    BY DEF Init
  <2>5. QED BY <2>1, <2>2, <2>3, <2>4 DEF TypeOK
<1>2. BootInv /\ PinsInv /\ EthernetInv /\ KeptInv
  BY DEF Init, BootInv, PinsInv, EthernetInv, KeptInv, Setting, Zero
<1>3. QED BY <1>1, <1>2 DEF IInv

-----------------------------------------------------------------------------
LEMMA BootIInv == IInv /\ Boot => IInv'
<1> SUFFICES ASSUME IInv, Boot PROVE IInv' OBVIOUS
<1> USE DEF node, history, bounds
<1>1. CASE InitBle
  BY <1>1 DEF InitBle, IInv, TypeOK, BootInv, PinsInv, EthernetInv, KeptInv, Setting
<1>2. CASE InitPort
  <2>1. TypeOK' /\ BootInv' /\ KeptInv'
    BY <1>2, Constants DEF InitPort, IInv, TypeOK, BootInv, KeptInv
  <2>2. PinsInv'
    BY <1>2 DEF InitPort, IInv, BootInv, PinsInv, Setting
  <2>3. EthernetInv'
    BY <1>2, Constants DEF InitPort, IInv, BootInv, EthernetInv, Setting
  <2>4. QED BY <2>1, <2>2, <2>3 DEF IInv
<1>3. CASE InitNvm
  <2>1. PICK found \in {flash, Zero} : Read(found)
    BY <1>3 DEF InitNvm
  <2>2. TypeOK'
    BY <1>3, <2>1, Constants DEF InitNvm, Read, IInv, TypeOK
  <2>3. BootInv' /\ PinsInv'
    BY <1>3 DEF InitNvm, IInv, BootInv, PinsInv, Setting
  <2>4. EthernetInv'
    BY <1>3 DEF InitNvm, IInv, EthernetInv, Setting
  <2>5. KeptInv'
    <3>1. CASE found.flag
      <4>1. found = flash
        BY <2>1, <3>1 DEF Zero
      <4>2. QED BY <2>1, <3>1, <4>1 DEF Read, IInv, KeptInv
    <3>2. CASE ~found.flag
      BY <2>1, <3>2 DEF Read, IInv, KeptInv
    <3>3. QED BY <3>1, <3>2
  <2>6. QED BY <2>2, <2>3, <2>4, <2>5 DEF IInv
<1>4. QED BY <1>1, <1>2, <1>3 DEF Boot

LEMMA SetIInv == IInv /\ Set => IInv'
<1> SUFFICES ASSUME IInv, Set PROVE IInv' OBVIOUS
<1> USE DEF node, history, bounds
<1>1. CASE Call
  <2>1. TypeOK'
    BY <1>1, ZenonT(30) DEF Call, IInv, TypeOK, Factors
  <2>2. BootInv' /\ KeptInv'
    BY <1>1 DEF Call, IInv, BootInv, KeptInv
  <2>3. PinsInv'
    BY <1>1 DEF Call, IInv, PinsInv, Setting
  <2>4. EthernetInv'
    BY <1>1 DEF Call, IInv, BootInv, EthernetInv, Setting
  <2>5. QED BY <2>1, <2>2, <2>3, <2>4 DEF IInv
<1>2. CASE Select2
  <2>1. /\ arg \in Wired /\ Levels(arg) \in [select2 : 0..1, select1 : 0..1]
        /\ select \in [select2 : 0..1, select1 : 0..1]
    BY <1>2, Constants DEF Select2, IInv, TypeOK, PinsInv, Setting
  <2>2. select' \in [select2 : 0..1, select1 : 0..1] /\ select'.select2 = Levels(arg).select2
    BY <1>2, <2>1 DEF Select2
  <2>3. TypeOK' /\ BootInv' /\ KeptInv'
    BY <1>2, <2>2 DEF Select2, IInv, TypeOK, BootInv, KeptInv
  <2>4. PinsInv'
    BY <1>2, <2>2 DEF Select2, IInv, PinsInv, Setting
  <2>5. chosen = "no" => select' = select
    BY <1>2, <2>1 DEF Select2, IInv, EthernetInv, Setting
  <2>6. EthernetInv'
    BY <1>2, <2>5 DEF Select2, IInv, EthernetInv, Setting
  <2>7. QED BY <2>3, <2>4, <2>6 DEF IInv
<1>3. CASE Select1
  <2>1. /\ arg \in Wired /\ Levels(arg) \in [select2 : 0..1, select1 : 0..1]
        /\ select \in [select2 : 0..1, select1 : 0..1]
    BY <1>3, Constants DEF Select1, IInv, TypeOK, PinsInv, Setting
  <2>2. /\ select' \in [select2 : 0..1, select1 : 0..1]
        /\ select'.select1 = Levels(arg).select1 /\ select'.select2 = select.select2
    BY <1>3, <2>1 DEF Select1
  <2>3. TypeOK' /\ BootInv' /\ KeptInv'
    BY <1>3, <2>2 DEF Select1, IInv, TypeOK, BootInv, KeptInv
  <2>4. PinsInv'
    <3> SUFFICES ASSUME chosen = "yes", ~crossed, ram.channel \in Wired
                 PROVE  select' = Levels(ram.channel)
      BY <1>3 DEF Select1, PinsInv, Setting
    <3>1. arg = ram.channel /\ select.select2 = Levels(arg).select2
      BY <1>3 DEF Select1, IInv, PinsInv, Setting
    <3>2. QED BY <2>2, <3>1, TwoPins
  <2>5. chosen = "no" => select' = select
    BY <1>3, <2>1 DEF Select1, IInv, EthernetInv, Setting
  <2>6. EthernetInv'
    BY <1>3, <2>5 DEF Select1, IInv, EthernetInv, Setting
  <2>7. QED BY <2>3, <2>4, <2>6 DEF IInv
<1>4. CASE Return
  BY <1>4 DEF Return, IInv, TypeOK, BootInv, PinsInv, EthernetInv, KeptInv, Setting
<1>5. QED BY <1>1, <1>2, <1>3, <1>4 DEF Set

-----------------------------------------------------------------------------
LEMMA JsonIInv == IInv /\ Json => IInv'
<1> SUFFICES ASSUME IInv, Json PROVE IInv' OBVIOUS
<1>1. ASSUME NEW f \in Factors, Command(f), chosen' \in {"no", "early", "yes"},
             pc' \in {"save", "setUartChannel"}, chosen' # chosen => chosen' = "yes"
      PROVE  TypeOK' /\ BootInv' /\ KeptInv'
  BY <1>1 DEF Command, Idle, IInv, TypeOK, BootInv, KeptInv
<1>2. ASSUME NEW f \in Factors, f.channel = ram.channel, Command(f), pc' = "save",
             chosen' = chosen
      PROVE  IInv'
  <2>1. TypeOK' /\ BootInv' /\ KeptInv'
    BY <1>1, <1>2 DEF IInv, TypeOK
  <2>2. PinsInv' /\ EthernetInv'
    BY <1>2 DEF Command, Idle, IInv, BootInv, PinsInv, EthernetInv, Setting
  <2>3. QED BY <2>1, <2>2 DEF IInv
<1>3. ASSUME NEW s \in Settings
      PROVE  /\ [ram EXCEPT !.power = s] \in Factors
             /\ [ram EXCEPT !.power = s].channel = ram.channel
             /\ \A t \in Settings :
                  /\ [ram EXCEPT !.version = s, !.number = t] \in Factors
                  /\ [ram EXCEPT !.version = s, !.number = t].channel = ram.channel
             /\ \A c \in JsonChannels : [ram EXCEPT !.channel = c, !.lora_ch = s] \in Factors
  <2>1. /\ ram \in Factors /\ s \in 0..255
        /\ \A t \in Settings : t \in 0..255
        /\ \A c \in JsonChannels : c \in 0..255
    BY ConfigAssumption DEF IInv, TypeOK
  <2>2. /\ [ram EXCEPT !.power = s] \in Factors
        /\ [ram EXCEPT !.power = s].channel = ram.channel
    BY <2>1 DEF Factors
  <2>3. ASSUME NEW t \in Settings
        PROVE  /\ [ram EXCEPT !.version = s, !.number = t] \in Factors
               /\ [ram EXCEPT !.version = s, !.number = t].channel = ram.channel
    BY <2>1, ZenonT(30) DEF Factors
  <2>4. ASSUME NEW c \in JsonChannels
        PROVE  [ram EXCEPT !.channel = c, !.lora_ch = s] \in Factors
    BY <2>1, ZenonT(30) DEF Factors
  <2>5. QED BY <2>2, <2>3, <2>4
<1>4. CASE JsonSetLora
  BY <1>2, <1>3, <1>4 DEF JsonSetLora
<1>5. CASE JsonSetVersion
  BY <1>2, <1>3, <1>5 DEF JsonSetVersion
<1>6. CASE JsonSetChannel
  <2>1. TypeOK' /\ BootInv' /\ KeptInv'
    BY <1>1, <1>3, <1>6 DEF JsonSetChannel
  <2>2. PinsInv' /\ EthernetInv'
    BY <1>6 DEF JsonSetChannel, PinsInv, EthernetInv, Setting
  <2>3. QED BY <2>1, <2>2 DEF IInv
<1>7. QED BY <1>4, <1>5, <1>6 DEF Json

LEMMA SaveIInv == IInv /\ Save => IInv'
<1> SUFFICES ASSUME IInv, Save PROVE IInv' OBVIOUS
<1>1. TypeOK' /\ BootInv' /\ KeptInv'
  BY DEF Save, bounds, IInv, TypeOK, BootInv, KeptInv
<1>2. PinsInv' /\ EthernetInv'
  BY DEF Save, IInv, PinsInv, EthernetInv, Setting
<1>3. QED BY <1>1, <1>2 DEF IInv

LEMMA BleIInv == IInv /\ BleSetChannel => IInv'
<1> SUFFICES ASSUME IInv, BleSetChannel PROVE IInv' OBVIOUS
<1>1. PICK c \in 0..255 : /\ ram' = [ram EXCEPT !.channel = c]
                          /\ select' = IF c \in Wired THEN Levels(c) ELSE select
  <2>1. \A b \in BleChannels : (b + 255) % 256 \in 0..255
    BY ConfigAssumption
  <2>2. QED BY <2>1 DEF BleSetChannel
<1>2. ram' \in Factors /\ ram'.channel = c /\ Other(ram') = Other(ram)
  <2>1. ram \in Factors
    BY DEF IInv, TypeOK
  <2>2. ram' = [ram EXCEPT !.channel = c] /\ c \in 0..255
    BY <1>1
  <2>3. QED BY <2>1, <2>2, ZenonT(30) DEF Factors, Other
<1>3. TypeOK'
  <2>1. select' \in [select2 : 0..1, select1 : 0..1]
    BY <1>1, Constants DEF IInv, TypeOK
  <2>2. chosen' \in {"no", "early", "yes"} /\ crossed' \in BOOLEAN
    BY DEF BleSetChannel
  <2>3. ble' \in Nat
    BY DEF BleSetChannel, IInv, TypeOK
  <2>4. /\ flash' = flash /\ pc' = pc /\ arg' = arg /\ booting' = booting
        /\ kept' = kept /\ lostRead' = lostRead /\ json' = json /\ resets' = resets
    BY DEF BleSetChannel
  <2>5. QED BY <1>2, <2>1, <2>2, <2>3, <2>4 DEF IInv, TypeOK
<1>4. BootInv'
  BY DEF BleSetChannel, IInv, BootInv
<1>5. PinsInv'
  BY <1>1, <1>2 DEF BleSetChannel, IInv, PinsInv, Setting
<1>6. EthernetInv' /\ KeptInv'
  BY <1>2 DEF BleSetChannel, IInv, EthernetInv, KeptInv, Other
<1>7. QED BY <1>3, <1>4, <1>5, <1>6 DEF IInv

LEMMA ResetIInv == IInv /\ Reset => IInv'
<1> SUFFICES ASSUME IInv, Reset PROVE IInv' OBVIOUS
<1>1. TypeOK'
  <2>1. ram' \in Factors /\ select' \in [select2 : 0..1, select1 : 0..1]
    BY Constants DEF Reset, IInv, TypeOK
  <2>2. arg' \in 0..255 /\ resets' = resets + 1
    BY SMT DEF Reset
  <2>3. booting' \in BOOLEAN /\ crossed' \in BOOLEAN /\ lostRead' = lostRead
    BY Zenon DEF Reset
  <2>4. /\ flash' = flash /\ pc' = "initBle" /\ chosen' = "no"
        /\ json' = json /\ ble' = ble
    BY DEF Reset
  <2>5. QED BY <2>1, <2>2, <2>3, <2>4 DEF IInv, TypeOK
<1>2. BootInv' /\ PinsInv' /\ EthernetInv' /\ KeptInv'
  BY DEF Reset, IInv, BootInv, PinsInv, EthernetInv, KeptInv, Setting, Zero
<1>3. QED BY <1>1, <1>2 DEF IInv

LEMMA StepIInv == IInv /\ [Next]_vars => IInv'
<1> SUFFICES ASSUME IInv, [Next]_vars PROVE IInv' OBVIOUS
<1>1. CASE UNCHANGED vars
  BY <1>1 DEF vars, node, history, bounds, IInv, TypeOK, BootInv, PinsInv,
              EthernetInv, KeptInv, Setting
<1>2. QED
  BY <1>1, BootIInv, SetIInv, JsonIInv, SaveIInv, BleIInv, ResetIInv DEF Next

(* The invariant holds of every reachable state. *)
THEOREM Inductive == Spec => []IInv
BY InitIInv, StepIInv, PTL DEF Spec

-----------------------------------------------------------------------------
(* Every variable of the node keeps its type, a channel of BLE being cut to a *)
(* byte.                                                                      *)
THEOREM ConfigTypes == Spec => []TypeOK
<1>1. IInv => TypeOK
  BY DEF IInv
<1>2. QED BY <1>1, Inductive, PTL

(* The pins follow the commanded channel, unless the last BLE command came    *)
(* between main's pin writes (setUartChannel, procRxBle).                     *)
THEOREM PinsFollow == Spec => []PinsFollowChannel
<1>1. IInv => PinsFollowChannel
  BY DEF IInv, PinsInv, PinsFollowChannel, Idle
<1>2. QED BY <1>1, Inductive, PTL

(* Until a channel is commanded the node is wired to Ethernet (initPort).     *)
THEOREM EthernetAtBoot == Spec => []BootsOnEthernet
<1>1. IInv => BootsOnEthernet
  BY DEF IInv, EthernetInv, BootsOnEthernet, Idle
<1>2. QED BY <1>1, Inductive, PTL

(* No reset and no failed write brings back older settings than those saved   *)
(* last, for any number of commands and resets (initNvm, saveFactorToFlash).  *)
THEOREM Survive == Spec => []SettingsSurvive
<1>1. IInv => SettingsSurvive
  BY DEF IInv, BootInv, KeptInv, SettingsSurvive, Idle
<1>2. QED BY <1>1, Inductive, PTL
=============================================================================
