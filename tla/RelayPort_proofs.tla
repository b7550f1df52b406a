-------------------------- MODULE RelayPort_proofs --------------------------
(***************************************************************************)
(* The relays and the readings of RelayPort, for any relays, any numbers   *)
(* a command may carry and any number of commands; then what NodeStatus    *)
(* reports of readings and settings, for any values and any failures.      *)
(***************************************************************************)
EXTENDS RelayPort, NodeStatus, TLAPS

(* A thread is between the first transfer of an operation and its end. *)
Mid(t)       == pc[t] \in {"read", "write"}
Switching(t) == Mid(t) /\ op[t].kind = "set"

(* Commands go to the relay port, and only they write. *)
OpInv == \A t \in Threads : /\ op[t].kind = "set" => op[t].port = "relay"
                            /\ pc[t] = "write" => op[t].kind = "set"

(* As long as nothing is disturbed a single thread is between two transfers, *)
(* the pointer and its buffer are its own, and the relays are those intended *)
(* but for the command it is carrying out.                                   *)
ExclusiveInv ==
  /\ \A t, u \in Threads : Mid(t) /\ Mid(u) => t = u
  /\ \A t \in Threads :
       /\ pc[t] = "read" => pointer = op[t].port
       /\ pc[t] = "write" => buf[t] = reg["relay"]
       /\ Switching(t) => intended = Obeyed(reg["relay"], op[t])
  /\ (\A t \in Threads : ~Switching(t)) => intended = reg["relay"]

IInv == TypeOK /\ OpInv /\ (~disturbed => ExclusiveInv)

-----------------------------------------------------------------------------
(* The masks of writeOutSx do to the port what the command says. *)
LEMMA MaskObeys ==
  ASSUME NEW p \in SUBSET Bits, NEW o
  PROVE  WithBit(p, o) = Obeyed(p, o) /\ WithBit(p, o) \in SUBSET Bits
<1>1. CASE o.bit \notin Bits
  BY <1>1 DEF WithBit, Obeyed
<1>2. CASE o.bit \in Bits /\ o.on
  BY <1>2 DEF WithBit, Obeyed
<1>3. CASE o.bit \in Bits /\ ~o.on
  BY <1>3 DEF WithBit, Obeyed
<1>4. QED BY <1>1, <1>2, <1>3

LEMMA InitIInv == Init => IInv
<1> SUFFICES ASSUME Init PROVE IInv OBVIOUS
<1>1. reg \in [Ports -> SUBSET Bits] /\ reg["relay"] = {}
  BY DEF Init, Ports
<1>2. TypeOK
  BY <1>1 DEF Init, TypeOK, Ports, Threads, Reading
<1>3. OpInv /\ ExclusiveInv
  BY <1>1 DEF Init, OpInv, ExclusiveInv, Mid, Switching, Threads, Reading
<1>4. QED BY <1>2, <1>3 DEF IInv

-----------------------------------------------------------------------------
LEMMA StartIInv ==
  ASSUME IInv, NEW t \in Threads, NEW o \in [kind : {"set", "get"}, port : Ports,
                                  bit : Bits \cup BadBits \cup {0}, on : BOOLEAN],
         o.kind = "set" => o.port = "relay", Start(t, o), commands' \in Nat
  PROVE  IInv'
<1>1. TypeOK'
  BY DEF IInv, TypeOK, Start, Address, Ports
<1>2. OpInv'
  BY DEF IInv, TypeOK, OpInv, Start
<1>3. ASSUME NEW u \in Threads
      PROVE  /\ Mid(u)' <=> Mid(u)
             /\ Mid(u) => pc'[u] = pc[u] /\ op'[u] = op[u] /\ buf'[u] = buf[u]
  BY DEF IInv, TypeOK, Start, Mid
<1>4. ASSUME ~disturbed PROVE ExclusiveInv'
  BY <1>3, <1>4 DEF IInv, Start, ExclusiveInv, Mid, Switching
<1>5. QED BY <1>1, <1>2, <1>4 DEF IInv, Start

LEMMA PointIInv ==
  ASSUME IInv, NEW t \in Threads, Point(t)
  PROVE  IInv'
<1>1. TypeOK'
  <2>1. pointer' \in Ports /\ disturbed' \in BOOLEAN
    <3>1. op[t].port \in Ports /\ pointer \in Ports
      BY DEF IInv, TypeOK
    <3>2. pointer' \in {pointer, op[t].port}
      BY DEF Point
    <3>3. disturbed' \in BOOLEAN
      BY DEF Point
    <3>4. QED BY <3>1, <3>2, <3>3
  <2>2. intended' \subseteq Bits
    BY DEF IInv, TypeOK, Point, Obeyed
  <2>3. pc' \in [Threads -> {"idle", "point", "read", "write"}]
    BY DEF IInv, TypeOK, Point
  <2>4. QED BY <2>1, <2>2, <2>3 DEF IInv, TypeOK, Point
<1>2. OpInv'
  BY DEF IInv, TypeOK, OpInv, Point
<1>3. ASSUME ~disturbed' PROVE ExclusiveInv'
  <2>1. /\ ~disturbed /\ Alone(t) /\ pointer' = op[t].port
        /\ reg' = reg /\ op' = op /\ buf' = buf
    BY <1>3 DEF Point
  <2>2. pc'[t] = "read" /\ \A u \in Threads \ {t} : pc'[u] = pc[u]
    BY DEF IInv, TypeOK, Point
  <2>3. \A u \in Threads : ~Mid(u) /\ (u # t => ~Mid(u)')
    BY <2>1, <2>2 DEF Alone, Mid, Point
  <2>4. intended = reg["relay"]
    BY <2>1, <2>3 DEF IInv, ExclusiveInv, Switching
  <2>5. op[t].kind = "set" => intended' = Obeyed(reg["relay"], op[t])
    BY <2>4 DEF Point
  <2>6. op[t].kind # "set" => intended' = reg["relay"]
    BY <2>4 DEF Point
  <2>7. QED
    BY <2>1, <2>2, <2>3, <2>5, <2>6 DEF ExclusiveInv, Switching, Mid
<1>4. QED BY <1>1, <1>2, <1>3 DEF IInv

LEMMA ReadForChangeIInv ==
  ASSUME IInv, NEW t \in Threads, ReadForChange(t)
  PROVE  IInv'
<1>1. TypeOK'
  BY DEF IInv, TypeOK, ReadForChange
<1>2. OpInv'
  BY DEF IInv, TypeOK, OpInv, ReadForChange
<1>3. ASSUME ~disturbed' PROVE ExclusiveInv'
  <2>1. /\ ~disturbed /\ pc[t] = "read" /\ op[t].kind = "set"
        /\ reg' = reg /\ op' = op /\ intended' = intended
    BY <1>3 DEF ReadForChange
  <2>2. pc'[t] = "write" /\ \A u \in Threads \ {t} : pc'[u] = pc[u]
    BY DEF IInv, TypeOK, ReadForChange
  <2>3. Mid(t) /\ Mid(t)' /\ \A u \in Threads \ {t} : ~Mid(u) /\ ~Mid(u)'
    BY <2>1, <2>2 DEF IInv, ExclusiveInv, Mid
  <2>4. buf'[t] = reg["relay"]
    BY <1>3, <2>1 DEF IInv, TypeOK, OpInv, ExclusiveInv, ReadForChange
  <2>5. intended = Obeyed(reg["relay"], op[t])
    BY <2>1, <2>3 DEF IInv, ExclusiveInv, Switching
  <2>6. QED
    BY <2>1, <2>2, <2>3, <2>4, <2>5 DEF ExclusiveInv, Switching, Mid
<1>4. QED BY <1>1, <1>2, <1>3 DEF IInv

(* When a thread is done nobody is between two transfers. *)
LEMMA DoneIdle ==
  ASSUME IInv, NEW t \in Threads, Done(t)
  PROVE  /\ pc' \in [Threads -> {"idle", "point", "read", "write"}]
         /\ op' \in [Threads -> [kind : {"set", "get"}, port : Ports,
                                 bit : Bits \cup BadBits \cup {0}, on : BOOLEAN]]
         /\ buf' \in [Threads -> SUBSET Bits]
         /\ OpInv' /\ ~Mid(t)'
         /\ \A u \in Threads \ {t} : Mid(u)' <=> Mid(u)
         /\ ~disturbed /\ Mid(t) => \A u \in Threads : ~Mid(u)'
<1>1. Reading("relay") \in [kind : {"set", "get"}, port : Ports,
                            bit : Bits \cup BadBits \cup {0}, on : BOOLEAN]
      /\ Reading("relay").kind = "get"
  BY DEF Reading, Ports
<1>2. /\ pc' \in [Threads -> {"idle", "point", "read", "write"}]
      /\ op' \in [Threads -> [kind : {"set", "get"}, port : Ports,
                              bit : Bits \cup BadBits \cup {0}, on : BOOLEAN]]
      /\ buf' \in [Threads -> SUBSET Bits]
  BY <1>1 DEF IInv, TypeOK, Done
<1>3. OpInv' /\ ~Mid(t)' /\ \A u \in Threads \ {t} : Mid(u)' <=> Mid(u)
  BY <1>1 DEF IInv, TypeOK, OpInv, Done, Mid
<1>4. ~disturbed /\ Mid(t) => \A u \in Threads : ~Mid(u)'
  BY <1>3 DEF IInv, ExclusiveInv
<1>5. QED BY <1>2, <1>3, <1>4

LEMMA ReadForFactorIInv ==
  ASSUME IInv, NEW t \in Threads, ReadForFactor(t)
  PROVE  IInv'
<1>1. TypeOK'
  BY DoneIdle DEF IInv, TypeOK, ReadForFactor
<1>2. ASSUME ~disturbed' PROVE ExclusiveInv'
  <2>1. ~disturbed /\ Mid(t) /\ op[t].kind = "get" /\ reg' = reg /\ intended' = intended
    BY <1>2 DEF ReadForFactor, Mid
  <2>2. \A u \in Threads : ~Switching(u) /\ ~Mid(u)'
    BY <2>1, DoneIdle DEF IInv, ExclusiveInv, Switching, ReadForFactor
  <2>3. QED
    BY <2>1, <2>2 DEF IInv, ExclusiveInv, Switching, Mid
<1>3. QED BY <1>1, <1>2, DoneIdle DEF IInv, ReadForFactor

LEMMA WriteIInv ==
  ASSUME IInv, NEW t \in Threads, Write(t)
  PROVE  IInv'
<1>1. WithBit(buf[t], op[t]) \in SUBSET Bits
  BY MaskObeys DEF IInv, TypeOK
<1>2. TypeOK'
  <2>1. reg' \in [Ports -> SUBSET Bits]
    BY <1>1 DEF IInv, TypeOK, Write, Ports
  <2>2. pointer' \in Ports /\ Done(t)
    BY DEF IInv, TypeOK, Write
  <2>3. /\ disturbed' \in BOOLEAN
        /\ factor' = factor /\ intended' = intended /\ commands' = commands
    BY DEF IInv, TypeOK, Write
  <2>4. QED BY <2>1, <2>2, <2>3, DoneIdle DEF IInv, TypeOK
<1>3. ASSUME ~disturbed' PROVE ExclusiveInv'
  <2>1. /\ ~disturbed /\ Mid(t) /\ Switching(t) /\ intended' = intended
        /\ reg' = [reg EXCEPT !["relay"] = WithBit(buf[t], op[t])]
    BY <1>3 DEF IInv, OpInv, Write, Mid, Switching
  <2>2. intended = Obeyed(reg["relay"], op[t]) /\ buf[t] = reg["relay"]
    BY <2>1 DEF IInv, ExclusiveInv, Write
  <2>3. reg'["relay"] = WithBit(reg["relay"], op[t]) /\ reg["relay"] \in SUBSET Bits
    BY <2>1, <2>2 DEF IInv, TypeOK, Ports
  <2>4. intended' = reg'["relay"]
    BY <2>1, <2>2, <2>3, MaskObeys
  <2>5. \A u \in Threads : ~Mid(u)'
    BY <2>1, DoneIdle DEF Write
  <2>6. QED
    BY <2>4, <2>5 DEF ExclusiveInv, Switching, Mid
<1>4. QED BY <1>2, <1>3, DoneIdle DEF IInv, Write

-----------------------------------------------------------------------------
LEMMA StepIInv == IInv /\ [Next]_vars => IInv'
<1> SUFFICES ASSUME IInv, [Next]_vars PROVE IInv' OBVIOUS
<1>1. ASSUME NEW t \in Threads, StartCommand(t) PROVE IInv'
  <2>1. PICK b \in Bits \cup BadBits, o \in BOOLEAN : Start(t, Command(b, o))
    BY <1>1 DEF StartCommand
  <2>2. /\ Command(b, o) \in [kind : {"set", "get"}, port : Ports,
                              bit : Bits \cup BadBits \cup {0}, on : BOOLEAN]
        /\ Command(b, o).port = "relay"
    BY DEF Command, Ports
  <2>3. commands' \in Nat
    BY <1>1 DEF StartCommand, IInv, TypeOK
  <2>4. QED BY <2>1, <2>2, <2>3, StartIInv
<1>2. ASSUME NEW p \in Ports, StartReading(p) PROVE IInv'
  <2>1. /\ Reading(p) \in [kind : {"set", "get"}, port : Ports,
                           bit : Bits \cup BadBits \cup {0}, on : BOOLEAN]
        /\ Reading(p).kind = "get"
    BY DEF Reading, Ports
  <2>2. "main" \in Threads /\ Start("main", Reading(p)) /\ commands' \in Nat
    BY <1>2 DEF StartReading, Threads, IInv, TypeOK
  <2>3. QED BY <2>1, <2>2, StartIInv
<1>3. ASSUME NEW t \in Threads, Steps(t) PROVE IInv'
  BY <1>3, PointIInv, ReadForChangeIInv, ReadForFactorIInv, WriteIInv DEF Steps
<1>4. ASSUME Switch PROVE IInv'
  <2>1. TypeOK' /\ reg'["relay"] = reg["relay"]
    BY <1>4 DEF Switch, IInv, TypeOK, Ports
  <2>2. OpInv'
    BY <1>4 DEF Switch, IInv, OpInv
  <2>3. ~disturbed' => ExclusiveInv'
    BY <1>4, <2>1 DEF Switch, IInv, ExclusiveInv, Mid, Switching
  <2>4. QED BY <2>1, <2>2, <2>3 DEF IInv
<1>5. ASSUME Settle PROVE IInv'
  <2>1. TypeOK'
    BY <1>5 DEF Settle, IInv, TypeOK, Ports
  <2>2. OpInv'
    BY <1>5 DEF Settle, IInv, OpInv
  <2>3. ExclusiveInv'
    BY <1>5 DEF Settle, Quiet, ExclusiveInv, Mid, Switching
  <2>4. QED BY <2>1, <2>2, <2>3 DEF IInv
<1>6. CASE UNCHANGED vars
  BY <1>6 DEF vars, IInv, TypeOK, OpInv, ExclusiveInv, Mid, Switching
<1>7. QED BY <1>1, <1>2, <1>3, <1>4, <1>5, <1>6 DEF Next

(* The invariant holds of every reachable state. *)
THEOREM Inductive == Spec => []IInv
BY InitIInv, StepIInv, PTL DEF Spec

-----------------------------------------------------------------------------
(* Every variable of the port keeps its type. *)
THEOREM RelayTypes == Spec => []TypeOK
<1>1. IInv => TypeOK
  BY DEF IInv
<1>2. QED BY <1>1, Inductive, PTL

(* Without a disturbance the relays are what the commands say, for any number *)
(* of commands of both threads and any numbers in them (writeOutSx).          *)
THEOREM Relays == Spec => []RelaysAsCommanded
<1>1. IInv => RelaysAsCommanded
  BY DEF IInv, RelaysAsCommanded, Quiet, ExclusiveInv, Switching, Mid
<1>2. QED BY <1>1, Inductive, PTL

(* Without a disturbance a reading puts the port it names into its factor and *)
(* leaves the relays alone (readSxRelay, readSxSw).                           *)
THEOREM Factors == Spec => FactorIsPort
<1> DEFINE Reported ==
      \A t \in Threads :
        ~disturbed' /\ pc[t] = "read" /\ pc'[t] = "idle"
        => /\ factor' = [factor EXCEPT ![op[t].port] = reg[op[t].port]]
           /\ reg' = reg
<1>1. ASSUME IInv, Next PROVE Reported
  <2> SUFFICES ASSUME NEW t \in Threads, ~disturbed', pc[t] = "read", pc'[t] = "idle"
               PROVE  /\ factor' = [factor EXCEPT ![op[t].port] = reg[op[t].port]]
                      /\ reg' = reg
    OBVIOUS
  <2>1. ASSUME NEW u \in Threads, Point(u) \/ ReadForChange(u) \/ Write(u) PROVE FALSE
    BY <1>1, <2>1 DEF IInv, TypeOK, Point, ReadForChange, Write, Done
  <2>2. ASSUME NEW u \in Threads, NEW o, Start(u, o) PROVE FALSE
    BY <1>1, <2>2 DEF IInv, TypeOK, Start
  <2>3. PICK u \in Threads : ReadForFactor(u)
    BY <1>1, <2>1, <2>2 DEF Next, Steps, Switch, Settle, StartCommand, StartReading, Threads
  <2>4. u = t
    BY <1>1, <2>3 DEF IInv, TypeOK, ReadForFactor, Done
  <2>5. ~disturbed
    BY <2>3 DEF ReadForFactor
  <2>6. pointer = op[t].port
    BY <1>1, <2>5 DEF IInv, ExclusiveInv
  <2>7. QED BY <2>3, <2>4, <2>6 DEF ReadForFactor
<1>2. IInv /\ [Next]_vars => [Reported]_vars
  BY <1>1
<1>3. QED BY <1>2, Inductive, PTL DEF Spec, FactorIsPort

-----------------------------------------------------------------------------
(* NodeStatus: from the value to the line that tells it. *)

(* Main is reporting a category that exists and reads only those that are sensed. *)
ReportInv ==
  /\ step # "delay" => frame.category \in Category
  /\ step = "read" => frame.category \in Sensed

(* A category reported since its value last changed has had that value read: *)
(* its factor is the value, at the latest when the first report is through   *)
(* with its reading.                                                         *)
ReadSince(c) ==
  /\ turns[c] = 2 => pFactor[c] = Actual(c)
  /\ turns[c] = 1 => pFactor[c] = Actual(c) \/ (step = "read" /\ frame.category = c)

(* The second of these reports has that value in its line, and then prints it. *)
Unprinted(c) == step \notin {"delay", "rx"} /\ frame.category = c
ToldSince(c) ==
  /\ turns[c] = 2 /\ Unprinted(c) => frame.value = Actual(c)
  /\ turns[c] = 2 /\ ~Unprinted(c) => line[c] = Actual(c)

StatusInv ==
  StatusTypes /\ ReportInv /\ (\A c \in Category : ReadSince(c) /\ ToldSince(c))

(* The rotation of sendJsonForStatus names the categories. *)
LEMMA WhoIs ==
  ASSUME sendCount \in 0..(CHANNEL_DEVICE - 1)
  PROVE  Who \in Category /\ (sendCount + 1) % CHANNEL_DEVICE \in 0..(CHANNEL_DEVICE - 1)
BY DEF Who, Category, CHANNEL_DEVICE, ADC_DEVICE

LEMMA FrameFields ==
  ASSUME NEW f \in [category : 0..CHANNEL_DEVICE, value : Values]
  PROVE  f.category \in 0..CHANNEL_DEVICE /\ f.value \in Values
OBVIOUS

LEMMA SensedIs == Sensed \subseteq Category /\ Category \subseteq 0..CHANNEL_DEVICE
BY DEF Sensed, Category, ADC_DEVICE, SWITCH_DEVICE, RELAY_DEVICE, CHANNEL_DEVICE

LEMMA InitStatusInv == StatusInit => StatusInv
<1> SUFFICES ASSUME StatusInit PROVE StatusInv
  OBVIOUS
<1>1. Still \in Values /\ 0 \in 0..2 /\ 0 \in 0..1 /\ 0 \in Nat
      /\ 0 \in 0..(CHANNEL_DEVICE - 1) /\ 0 \in 0..CHANNEL_DEVICE
  BY StatusAssumption DEF CHANNEL_DEVICE
<1>2. /\ frame \in [category : 0..CHANNEL_DEVICE, value : Values]
      /\ line \in [Category -> Values] /\ phone \in [Category -> Values]
      /\ turns \in [Category -> 0..2] /\ \A c \in Category : turns[c] = 0
  BY <1>1 DEF StatusInit
<1>3. StatusTypes
  BY <1>1, <1>2 DEF StatusInit, StatusTypes
<1>4. ReportInv /\ \A c \in Category : ReadSince(c) /\ ToldSince(c)
  BY <1>2 DEF StatusInit, ReportInv, ReadSince, ToldSince
<1>5. QED BY <1>3, <1>4 DEF StatusInv

-----------------------------------------------------------------------------
(* Outside main's report: a value that changes starts its turns anew. *)
LEMMA ChangesInv ==
  StatusInv /\ (InputChanges \/ SettingChanges \/ Connected \/ Disconnected) => StatusInv'
<1> SUFFICES ASSUME StatusInv, InputChanges \/ SettingChanges \/ Connected \/ Disconnected
             PROVE  StatusInv'
  OBVIOUS
<1>1. StatusTypes /\ ReportInv /\ \A c \in Category : ReadSince(c) /\ ToldSince(c)
  BY DEF StatusInv
<1>2. /\ UNCHANGED <<step, count, sendCount, frame, rs485_en, line, phone, fails>>
      /\ ble' \in BOOLEAN
  BY <1>1 DEF InputChanges, SettingChanges, Connected, Disconnected, outside, StatusTypes
<1>3. ASSUME NEW c \in Category,
             turns' = [turns EXCEPT ![c] = 0],
             input' \in [Sensed -> Values], pFactor' \in [Category -> Values],
             \A d \in Category : d # c => pFactor'[d] = pFactor[d] /\ Actual(d)' = Actual(d)
      PROVE  StatusInv'
  <2>1. turns' \in [Category -> 0..2] /\ turns'[c] = 0
        /\ \A d \in Category : d # c => turns'[d] = turns[d]
    BY <1>1, <1>3 DEF StatusTypes
  <2>2. StatusTypes'
    BY <1>1, <1>2, <1>3, <2>1 DEF StatusTypes
  <2>3. ReportInv'
    BY <1>1, <1>2 DEF ReportInv
  <2>4. ASSUME NEW d \in Category, d # c PROVE (ReadSince(d) /\ ToldSince(d))'
    BY <1>1, <1>2, <1>3, <2>1, <2>4 DEF ReadSince, ToldSince, Unprinted
  <2>5. (ReadSince(c) /\ ToldSince(c))'
    BY <2>1 DEF ReadSince, ToldSince
  <2>6. QED BY <2>2, <2>3, <2>4, <2>5 DEF StatusInv
<1>4. CASE InputChanges
  <2>1. PICK c \in Sensed \cap Changing, v \in Values :
          /\ input' = [input EXCEPT ![c] = v] /\ turns' = [turns EXCEPT ![c] = 0]
    BY <1>4 DEF InputChanges
  <2>2. pFactor' = pFactor
    BY <1>4 DEF InputChanges
  <2>3. c \in Category /\ input' \in [Sensed -> Values] /\ pFactor' \in [Category -> Values]
    BY <1>1, <2>1, <2>2, SensedIs DEF StatusTypes
  <2>4. \A d \in Category : d # c => pFactor'[d] = pFactor[d] /\ Actual(d)' = Actual(d)
    BY <1>1, <2>1, <2>2 DEF Actual, StatusTypes
  <2>5. QED BY <1>3, <2>1, <2>3, <2>4
<1>5. CASE SettingChanges
  <2>1. PICK c \in Changing \ Sensed, v \in Values :
          /\ pFactor' = [pFactor EXCEPT ![c] = v] /\ turns' = [turns EXCEPT ![c] = 0]
    BY <1>5 DEF SettingChanges
  <2>2. input' = input
    BY <1>5 DEF SettingChanges
  <2>3. c \in Category /\ input' \in [Sensed -> Values] /\ pFactor' \in [Category -> Values]
    BY <1>1, <2>1, <2>2, StatusAssumption DEF StatusTypes
  <2>4. \A d \in Category : d # c => pFactor'[d] = pFactor[d] /\ Actual(d)' = Actual(d)
    BY <1>1, <2>1, <2>2 DEF Actual, StatusTypes
  <2>5. QED BY <1>3, <2>1, <2>3, <2>4
<1>6. CASE Connected \/ Disconnected
  <2>1. UNCHANGED <<input, pFactor, turns>>
    BY <1>6 DEF Connected, Disconnected
  <2>2. QED
    BY <1>1, <1>2, <2>1
       DEF StatusInv, StatusTypes, ReportInv, ReadSince, ToldSince, Unprinted, Actual
<1>7. QED BY <1>4, <1>5, <1>6

(* The second report fills its line from a factor that has been read. *)
LEMMA FillInv == StatusInv /\ Fill => StatusInv'
<1> SUFFICES ASSUME StatusInv, Fill PROVE StatusInv'
  OBVIOUS
<1>1. StatusTypes /\ ReportInv /\ \A c \in Category : ReadSince(c) /\ ToldSince(c)
  BY DEF StatusInv
<1>2. Who \in Category /\ sendCount' \in 0..(CHANNEL_DEVICE - 1)
  BY <1>1, WhoIs DEF Fill, StatusTypes
<1>3. PICK w \in Category : w = Who
  BY <1>2
<1>4. /\ UNCHANGED <<input, pFactor, rs485_en, ble, line, phone, fails>>
      /\ step = "delay" /\ count' = 1
      /\ frame' = [category |-> w, value |-> pFactor[w]]
      /\ step' \in {"read", "send"} /\ (step' = "read" <=> w \in Sensed)
  BY <1>3 DEF Fill, outside
<1>5. /\ turns' \in [Category -> 0..2]
      /\ \A d \in Category : d # w => turns'[d] = turns[d]
      /\ turns'[w] = 2 => turns[w] = 1 \/ turns[w] = 2
      /\ turns'[w] # 0
  <2> DEFINE n == IF turns[w] < 2 THEN turns[w] + 1 ELSE 2
  <2>1. turns' = [turns EXCEPT ![w] = n]
    BY <1>3 DEF Fill
  <2>2. turns \in [Category -> 0..2] /\ turns[w] \in 0..2
    BY <1>1 DEF StatusTypes
  <2>3. n \in 0..2 /\ n # 0 /\ (n = 2 => turns[w] = 1 \/ turns[w] = 2)
    BY <2>2
  <2> HIDE DEF n
  <2>4. QED BY <2>1, <2>2, <2>3
<1>6. frame'.category = w /\ frame'.value = pFactor[w]
      /\ frame' \in [category : 0..CHANNEL_DEVICE, value : Values]
  BY <1>1, <1>4, SensedIs DEF StatusTypes
<1>7. StatusTypes'
  BY <1>1, <1>4, <1>2, <1>5, <1>6 DEF StatusTypes
<1>8. ReportInv'
  BY <1>4, <1>6 DEF ReportInv
<1>9. \A d \in Category : Actual(d)' = Actual(d)
  BY <1>4 DEF Actual
<1>10. ASSUME NEW d \in Category, d # w PROVE (ReadSince(d) /\ ToldSince(d))'
  BY <1>1, <1>4, <1>5, <1>6, <1>9, <1>10 DEF ReadSince, ToldSince, Unprinted
<1>11. turns[w] = 1 \/ turns[w] = 2 => pFactor[w] = Actual(w)
  BY <1>1, <1>4 DEF ReadSince
<1>12. w \notin Sensed => pFactor[w] = Actual(w)
  BY DEF Actual
<1>13. step' = "read" \/ pFactor[w] = Actual(w)
  BY <1>4, <1>12
<1>14. (ReadSince(w) /\ ToldSince(w))'
  BY <1>4, <1>5, <1>6, <1>9, <1>11, <1>13 DEF ReadSince, ToldSince, Unprinted
<1>15. QED BY <1>7, <1>8, <1>10, <1>14 DEF StatusInv

(* A reading makes the factor the input, and one that fails starts anew. *)
LEMMA ReadInv == StatusInv /\ (ReadInput \/ ReadFails) => StatusInv'
<1> SUFFICES ASSUME StatusInv, ReadInput \/ ReadFails PROVE StatusInv'
  OBVIOUS
<1>1. StatusTypes /\ ReportInv /\ \A c \in Category : ReadSince(c) /\ ToldSince(c)
  BY DEF StatusInv
<1>2. /\ UNCHANGED <<input, count, sendCount, frame, rs485_en, ble, line, phone>>
      /\ step = "read" /\ step' = "send" /\ fails' \in Nat
  BY <1>1 DEF ReadInput, ReadFails, outside, StatusTypes
<1>3. PICK w \in Sensed : w = frame.category /\ w \in Category
  BY <1>1, <1>2, SensedIs DEF ReportInv
<1>4. /\ pFactor' \in [Category -> Values]
      /\ \A d \in Category : d # w => pFactor'[d] = pFactor[d]
  BY <1>1, <1>3 DEF ReadInput, ReadFails, StatusTypes
<1>5. /\ turns' \in [Category -> 0..2]
      /\ \A d \in Category : d # w => turns'[d] = turns[d]
      /\ \/ turns'[w] = turns[w] /\ pFactor'[w] = input[w]
         \/ turns'[w] = 0
  BY <1>1, <1>3 DEF ReadInput, ReadFails, StatusTypes
<1>6. \A d \in Category : Actual(d)' = Actual(d)
  BY <1>2, <1>3, <1>4 DEF Actual
<1>7. Actual(w) = input[w]
  BY <1>3 DEF Actual
<1>8. StatusTypes'
  BY <1>1, <1>2, <1>4, <1>5 DEF StatusTypes
<1>9. ReportInv'
  BY <1>2, <1>3 DEF ReportInv
<1>10. ASSUME NEW d \in Category, d # w PROVE (ReadSince(d) /\ ToldSince(d))'
  BY <1>1, <1>2, <1>3, <1>4, <1>5, <1>6, <1>10 DEF ReadSince, ToldSince, Unprinted
<1>11. (ReadSince(w) /\ ToldSince(w))'
  BY <1>1, <1>2, <1>3, <1>5, <1>6, <1>7 DEF ReadSince, ToldSince, Unprinted
<1>12. QED BY <1>8, <1>9, <1>10, <1>11 DEF StatusInv

(* The rest of a report changes no factor: it tells what it has. *)
LEMMA TellInv ==
  StatusInv /\ (Skip \/ Send \/ SendFails \/ PrintLine \/ Listen \/ UNCHANGED statusVars)
  => StatusInv'
<1> SUFFICES ASSUME StatusInv,
                    Skip \/ Send \/ SendFails \/ PrintLine \/ Listen \/ UNCHANGED statusVars
             PROVE  StatusInv'
  OBVIOUS
<1>1. StatusTypes /\ ReportInv /\ \A c \in Category : ReadSince(c) /\ ToldSince(c)
  BY DEF StatusInv
<1>2. UNCHANGED <<input, pFactor, sendCount, frame, ble, turns>>
  BY DEF Skip, Send, SendFails, PrintLine, Listen, statusVars
<1>3. \A d \in Category : Actual(d)' = Actual(d)
  BY <1>2 DEF Actual
<1>4. /\ count' \in 0..1 /\ rs485_en' \in {"tx", "rx"} /\ fails' \in Nat
      /\ step' \in {"delay", "read", "send", "tx", "rx"}
  BY <1>1 DEF Skip, Send, SendFails, PrintLine, Listen, statusVars, StatusTypes, outside
<1>5. step # "delay" => frame.category \in Category
  BY <1>1 DEF ReportInv
<1>6. phone' \in [Category -> Values]
  <2>1. CASE Send
    <3>1. pFactor[frame.category] \in Values
      BY <1>1, <1>5, <2>1 DEF Send, StatusTypes
    <3>2. QED BY <1>1, <2>1, <3>1 DEF Send, StatusTypes
  <2>2. CASE ~Send
    BY <1>1, <2>2 DEF Skip, SendFails, PrintLine, Listen, statusVars, StatusTypes, outside
  <2>3. QED BY <2>1, <2>2
<1>7. CASE PrintLine
  <2>1. /\ step = "tx" /\ step' = "rx"
        /\ line' = [line EXCEPT ![frame.category] = frame.value]
    BY <1>7 DEF PrintLine
  <2>2. frame.value \in Values /\ frame.category \in Category
    BY <1>1, <1>5, <2>1, FrameFields DEF StatusTypes
  <2>3. /\ line' \in [Category -> Values] /\ line'[frame.category] = frame.value
        /\ \A d \in Category : d # frame.category => line'[d] = line[d]
    BY <1>1, <2>1, <2>2 DEF StatusTypes
  <2>4. StatusTypes'
    BY <1>1, <1>2, <1>4, <1>6, <2>3 DEF StatusTypes
  <2>5. ReportInv' /\ \A d \in Category : ReadSince(d)'
    BY <1>1, <1>2, <1>3, <2>1, <2>2 DEF ReportInv, ReadSince
  <2>6. ASSUME NEW d \in Category PROVE ToldSince(d)'
    BY <1>1, <1>2, <1>3, <2>1, <2>3 DEF ToldSince, Unprinted
  <2>7. QED BY <2>4, <2>5, <2>6 DEF StatusInv
<1>8. CASE ~PrintLine
  <2>1. line' = line /\ (step' = "read" => step = "read")
        /\ (step \in {"delay", "rx"} <=> step' \in {"delay", "rx"})
        /\ (step' # "delay" => step # "delay") /\ (step = "read" => step' = "read")
    BY <1>8 DEF Skip, Send, SendFails, Listen, statusVars, outside
  <2>2. StatusTypes'
    BY <1>1, <1>2, <1>4, <1>6, <2>1 DEF StatusTypes
  <2>3. ReportInv' /\ \A d \in Category : ReadSince(d)'
    BY <1>1, <1>2, <1>3, <2>1 DEF ReportInv, ReadSince
  <2>4. \A d \in Category : ToldSince(d)'
    BY <1>1, <1>2, <1>3, <2>1 DEF ToldSince, Unprinted
  <2>5. QED BY <2>2, <2>3, <2>4 DEF StatusInv
<1>9. QED BY <1>7, <1>8

LEMMA StatusInvariant == StatusSpec => []StatusInv
<1>1. StatusInv /\ [StatusNext]_statusVars => StatusInv'
  BY ChangesInv, FillInv, ReadInv, TellInv DEF StatusNext, Main
<1>2. QED BY InitStatusInv, <1>1, PTL DEF StatusSpec

(* The types: sendJsonForStatus names one of the six categories, for ever. *)
THEOREM StatusTypesCorrect == StatusSpec => []StatusTypes
<1>1. StatusInv => StatusTypes
  BY DEF StatusInv
<1>2. QED BY StatusInvariant, <1>1, PTL

(* Whatever the values and however often readings fail: two reports after a   *)
(* value last changed, or could not be read, its JSON line says what it is.    *)
THEOREM LineTellsInTwoTurns == StatusSpec => []TwoTurns
<1>1. StatusInv => TwoTurns
  BY DEF StatusInv, ToldSince, Unprinted, TwoTurns, Reporting
<1>2. QED BY StatusInvariant, <1>1, PTL
=============================================================================
