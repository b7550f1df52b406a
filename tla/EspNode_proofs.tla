--------------------------- MODULE EspNode_proofs ---------------------------
(***************************************************************************)
(* For any relays, channels and numbers of commands and resets: every      *)
(* variable of EspNode keeps its type, a commanded relay is as commanded   *)
(* and so reported unless commands of the two tasks overlapped, and no     *)
(* channel outlives a reset.                                               *)
(*                                                                         *)
(* Shape ties a task's next step to what it carries out.  Told says, for   *)
(* every step of setRelay, how far port and mirror have come: the relay    *)
(* under way may still be as it was, every other is as commanded.          *)
(*                                                                         *)
(* Below, EspLoop: whatever the sizes of array and driver's buffer and     *)
(* however the calls of parseReceiveJson cut the stream, the commands      *)
(* carried out are whole lines in their order, as long as the driver drops *)
(* nothing.  SerialInv gives every symbol its place in all that is sent:   *)
(* what is on the wire, in the buffer and in the array are consecutive     *)
(* pieces, and up to the place where the last finished call ended a line   *)
(* is either carried out or spoilt.                                        *)
(***************************************************************************)
EXTENDS EspNode, EspLoop, SequenceTheorems, TLAPS

Relaying == {"read", "write", "load", "store", "factor"}
Points   == {"idle", "read", "write", "load", "store", "factor",
             "call", "set", "sel2", "sel1", "assign", "save"}
RelayOps   == [kind : {"relay"}, bit : Bits \cup BadBits, on : BOOLEAN]
ChannelOps == [kind : {"channel"}, channel : {0} \cup Channels]
RefreshOps == [kind : {"refresh"}, channel : {0} \cup Channels]

RelayTypes ==
  /\ port \subseteq Bits /\ relayStatus \subseteq Bits /\ relay \subseteq Bits
  /\ buf \in [Tasks -> SUBSET Bits] /\ touched \subseteq Bits /\ wanted \subseteq Bits
  /\ overlapped \in BOOLEAN /\ chosen \in BOOLEAN /\ commands \in Nat /\ resets \in Nat

UartTypes ==
  /\ channel \in {0} \cup Channels /\ sel \in [sel2 : 0..1, sel1 : 0..1]
  /\ flash \in [relay : SUBSET Bits, channel : {0} \cup Channels]

Shape ==
  /\ pc \in [Tasks -> Points]
  /\ op \in [Tasks -> {Nothing} \cup RelayOps \cup ChannelOps \cup RefreshOps]
  /\ \A t \in Tasks :
       /\ pc[t] = "idle" => op[t] = Nothing
       /\ pc[t] \in Relaying <=> op[t] \in RelayOps
       /\ pc[t] \in {"call", "set", "assign"} => op[t] \in ChannelOps
       /\ pc[t] \in {"sel2", "sel1"} => op[t] \in ChannelOps \cup RefreshOps
       /\ pc[t] \in {"call", "save"} \/ op[t] \in RefreshOps => t = "loop"
       /\ pc[t] = "assign" => t = "ble"

\* A set of relays agrees with what is wanted, but for those in doubt.
Agrees(set, doubt) == \A b \in touched : b \notin doubt => (b \in set <=> b \in wanted)

Told ==
  ~overlapped =>
    /\ wanted \subseteq touched
    /\ \A t, u \in Tasks : op[t] \in RelayOps /\ op[u] \in RelayOps => t = u
    /\ (\A t \in Tasks : op[t] \notin RelayOps) =>
         /\ Agrees(port, {}) /\ Agrees(relayStatus, {})
         /\ touched # {} => relay = relayStatus
    /\ \A t \in Tasks : op[t] \in RelayOps =>
         /\ Agrees(port, IF pc[t] \in {"read", "write"} THEN {op[t].bit} ELSE {})
         /\ Agrees(relayStatus, IF pc[t] = "factor" THEN {} ELSE {op[t].bit})
         /\ pc[t] = "write" => buf[t] = port
         /\ pc[t] \in {"store", "factor"} => buf[t] = relayStatus
         /\ op[t].bit \in Bits => op[t].bit \in touched /\ (op[t].bit \in wanted <=> op[t].on)

Booted ==
  ~chosen => /\ channel = 0 /\ sel = Levels(0)
             /\ \A t \in Tasks : /\ op[t] \notin ChannelOps
                                 /\ op[t] \in RefreshOps => op[t].channel = 0

IInv == RelayTypes /\ UartTypes /\ Shape /\ Told /\ Booted

-----------------------------------------------------------------------------
(* The kinds of what a task carries out are told apart by their tag.       *)
LEMMA Kinds ==
  /\ \A o \in RelayOps : o.kind = "relay" /\ o \notin ChannelOps /\ o \notin RefreshOps /\ o # Nothing
  /\ \A o \in ChannelOps : o.kind = "channel" /\ o \notin RelayOps /\ o \notin RefreshOps /\ o # Nothing
  /\ \A o \in RefreshOps : o.kind = "refresh" /\ o \notin RelayOps /\ o \notin ChannelOps /\ o # Nothing
  /\ Nothing.kind = "none" /\ Nothing \notin RelayOps /\ Nothing \notin ChannelOps /\ Nothing \notin RefreshOps
<1>1. \A o \in RelayOps : o.kind = "relay"
  BY DEF RelayOps
<1>2. \A o \in ChannelOps : o.kind = "channel"
  BY DEF ChannelOps
<1>3. \A o \in RefreshOps : o.kind = "refresh"
  BY DEF RefreshOps
<1>4. Nothing.kind = "none"
  BY DEF Nothing
<1> QED
  BY <1>1, <1>2, <1>3, <1>4

(* After a boot, first or not, nothing has been commanded and no task      *)
(* carries out anything (initUttec).                                       *)
LEMMA BootInv ==
  ASSUME pc = [t \in Tasks |-> "idle"], op = [t \in Tasks |-> Nothing], buf = [t \in Tasks |-> {}],
         touched = {}, wanted = {}, overlapped = FALSE, chosen = FALSE, channel = 0, sel = Levels(0),
         port \in {{}, Bits}, relayStatus = {}, relay \subseteq Bits,
         flash \in [relay : SUBSET Bits, channel : {0} \cup Channels], commands \in Nat, resets \in Nat
  PROVE  IInv
<1>1. \A t \in Tasks : pc[t] = "idle" /\ op[t] = Nothing /\ op[t] \notin RelayOps
                       /\ op[t] \notin ChannelOps /\ op[t] \notin RefreshOps
  BY Kinds
<1>2. RelayTypes
  BY DEF RelayTypes
<1>3. UartTypes
  <2>1. sel \in [sel2 : 0..1, sel1 : 0..1]
    BY SMT DEF Levels
  <2> QED
    BY <2>1 DEF UartTypes
<1>4. Shape
  BY <1>1 DEF Shape, Points, Relaying
<1>5. Told /\ Booted
  BY <1>1 DEF Told, Agrees, Booted
<1> QED
  BY <1>2, <1>3, <1>4, <1>5 DEF IInv

LEMMA InitInv == Init => IInv
<1> SUFFICES ASSUME Init PROVE IInv
  OBVIOUS
<1>1. flash \in [relay : SUBSET Bits, channel : {0} \cup Channels] /\ relay \subseteq Bits
  BY DEF Init
<1>2. commands \in Nat /\ resets \in Nat
  BY SMT DEF Init
<1> QED
  BY <1>1, <1>2, BootInv DEF Init

-----------------------------------------------------------------------------
(* What does not touch the relays, nor a task that is at one, keeps Told.  *)
LEMMA ToldKept ==
  ASSUME Told, UNCHANGED <<port, relayStatus, relay, touched, wanted, overlapped>>,
         \A t \in Tasks : op'[t] \in RelayOps <=> op[t] \in RelayOps,
         \A t \in Tasks : op[t] \in RelayOps => op'[t] = op[t] /\ pc'[t] = pc[t] /\ buf'[t] = buf[t]
  PROVE  Told'
BY DEF Told, Agrees, RelayOps

(* What a command asks of one relay.                                       *)
LEMMA BitSet ==
  ASSUME NEW set \in SUBSET Bits, NEW o \in RelayOps
  PROVE  /\ WithBit(set, o) \in SUBSET Bits
         /\ \A b \in Bits : b # o.bit => (b \in WithBit(set, o) <=> b \in set)
         /\ o.bit \in Bits => (o.bit \in WithBit(set, o) <=> o.on)
<1>1. CASE o.bit \notin Bits
  BY <1>1 DEF WithBit
<1>2. CASE o.bit \in Bits
  BY <1>2 DEF WithBit, RelayOps
<1> QED
  BY <1>1, <1>2

(* A relay command begins: it alone is in doubt, unless another is there.  *)
LEMMA StartRelayStep == ASSUME IInv, NEW t \in Tasks, StartRelay(t) PROVE IInv'
<1>1. PICK b \in Bits \cup BadBits, o \in BOOLEAN :
        /\ op' = [op EXCEPT ![t] = Relay(b, o)]
        /\ touched' = touched \cup ({b} \cap Bits) /\ wanted' = WithBit(wanted, Relay(b, o))
  BY DEF StartRelay
<1>2. /\ pc[t] = "idle" /\ pc' = [pc EXCEPT ![t] = "read"] /\ commands' = commands + 1
      /\ overlapped' = (overlapped \/ \E u \in Tasks : op[u].kind = "relay")
      /\ UNCHANGED <<port, relayStatus, relay, channel, sel, flash, buf, chosen, resets>>
  BY DEF StartRelay, Go, relays, uart
<1> DEFINE r == Relay(b, o)
<1>3. r \in RelayOps /\ r.bit = b /\ r.on = o
  BY DEF Relay, RelayOps
<1>4. /\ pc \in [Tasks -> Points] /\ op \in [Tasks -> {Nothing} \cup RelayOps \cup ChannelOps \cup RefreshOps]
      /\ op[t] = Nothing /\ wanted \in SUBSET Bits /\ op[t] \notin RelayOps
  BY <1>2, Kinds DEF IInv, Shape, RelayTypes
<1>5. op'[t] = r /\ pc'[t] = "read" /\ \A u \in Tasks \ {t} : op'[u] = op[u] /\ pc'[u] = pc[u]
  BY <1>1, <1>2, <1>4
<1>6. /\ wanted' \in SUBSET Bits /\ \A c \in Bits : c # b => (c \in wanted' <=> c \in wanted)
      /\ b \in Bits => (b \in wanted' <=> o)
  <2>1. wanted' = WithBit(wanted, r)
    BY <1>1
  <2> QED
    BY <2>1, <1>3, <1>4, BitSet
<1>7. RelayTypes'
  <2>1. commands' \in Nat
    BY <1>2, SMT DEF IInv, RelayTypes
  <2>2. overlapped' \in BOOLEAN /\ touched' \subseteq Bits
    BY <1>1, <1>2 DEF IInv, RelayTypes
  <2> QED
    BY <1>2, <1>6, <2>1, <2>2 DEF IInv, RelayTypes
<1>8. UartTypes'
  BY <1>2 DEF IInv, UartTypes
<1>9. Shape'
  <2>1. /\ pc' \in [Tasks -> Points]
        /\ op' \in [Tasks -> {Nothing} \cup RelayOps \cup ChannelOps \cup RefreshOps]
    BY <1>1, <1>2, <1>3, <1>4 DEF Points
  <2>2. r \notin ChannelOps /\ r \notin RefreshOps
    BY <1>3, Kinds
  <2> QED
    BY <1>3, <1>5, <2>1, <2>2 DEF IInv, Shape, Relaying, RelayOps, ChannelOps, RefreshOps, Nothing
<1>10. Told'
  <2> SUFFICES ASSUME ~overlapped' PROVE Told'
    BY DEF Told
  <2>1. ~overlapped /\ \A u \in Tasks : op[u] \notin RelayOps
    BY <1>2, Kinds
  <2>2. /\ wanted \subseteq touched /\ Agrees(port, {}) /\ Agrees(relayStatus, {})
    BY <2>1 DEF IInv, Told
  <2>3. touched' = touched \cup ({b} \cap Bits) /\ touched \subseteq Bits
    BY <1>1 DEF IInv, RelayTypes
  <2>4. wanted' \subseteq touched'
    BY <1>6, <2>2, <2>3
  <2>5. /\ \A c \in touched' : c # b => (c \in port <=> c \in wanted')
        /\ \A c \in touched' : c # b => (c \in relayStatus <=> c \in wanted')
    BY <1>6, <2>2, <2>3 DEF Agrees
  <2>6. \A u \in Tasks : op'[u] \in RelayOps => u = t
    BY <1>5, <2>1
  <2> QED
    BY <1>2, <1>3, <1>5, <1>6, <2>3, <2>4, <2>6, <2>5 DEF Told, Agrees, RelayOps
<1>11. Booted'
  BY <1>2, <1>3, <1>5, Kinds DEF IInv, Booted, ChannelOps, RefreshOps
<1> QED
  BY <1>7, <1>8, <1>9, <1>10, <1>11 DEF IInv

(* The steps of setRelay: each moves one relay of the port or the mirror,  *)
(* the one that is in doubt, to where the command wants it.                *)
LEMMA SetRelayStep == ASSUME IInv, NEW t \in Tasks, SetRelay(t) PROVE IInv'
<1> DEFINE o == op[t]
<1>1. /\ UNCHANGED <<channel, sel, flash, touched, wanted, overlapped, chosen, commands, resets>>
      /\ pc[t] \in Relaying
  BY DEF SetRelay, ReadPort, WritePort, LoadMirror, StoreMirror, SetFactor, relays, uart, history,
         bounds, Relaying
<1>2. /\ o \in RelayOps /\ pc \in [Tasks -> Points] /\ buf \in [Tasks -> SUBSET Bits]
      /\ op \in [Tasks -> {Nothing} \cup RelayOps \cup ChannelOps \cup RefreshOps]
      /\ port \in SUBSET Bits /\ relayStatus \in SUBSET Bits /\ relay \in SUBSET Bits
  BY <1>1 DEF IInv, Shape, RelayTypes
<1>3. /\ WithBit(buf[t], o) \in SUBSET Bits
      /\ \A b \in Bits : b # o.bit => (b \in WithBit(buf[t], o) <=> b \in buf[t])
      /\ o.bit \in Bits => (o.bit \in WithBit(buf[t], o) <=> o.on)
  <2>1. buf[t] \in SUBSET Bits
    BY <1>2
  <2> QED
    BY <2>1, <1>2, BitSet
<1>4. UartTypes' 
  BY <1>1 DEF IInv, UartTypes
<1>5. ASSUME ~overlapped
      PROVE  /\ wanted \subseteq touched /\ \A u \in Tasks : op[u] \in RelayOps => u = t
             /\ Agrees(port, IF pc[t] \in {"read", "write"} THEN {o.bit} ELSE {})
             /\ Agrees(relayStatus, IF pc[t] = "factor" THEN {} ELSE {o.bit})
             /\ pc[t] = "write" => buf[t] = port
             /\ pc[t] \in {"store", "factor"} => buf[t] = relayStatus
             /\ o.bit \in Bits => o.bit \in touched /\ (o.bit \in wanted <=> o.on)
  BY <1>2, <1>5 DEF IInv, Told
<1>6. touched \subseteq Bits
  BY DEF IInv, RelayTypes
<1>7. CASE SetFactor(t)
  <2>1. /\ pc[t] = "factor" /\ pc' = [pc EXCEPT ![t] = "idle"] /\ op' = [op EXCEPT ![t] = Nothing]
        /\ buf' = [buf EXCEPT ![t] = {}] /\ relay' \in {relayStatus, buf[t]}
        /\ port' = port /\ relayStatus' = relayStatus
    BY <1>7 DEF SetFactor, Done, Go
  <2>2. /\ op'[t] = Nothing /\ pc'[t] = "idle"
        /\ \A u \in Tasks \ {t} : op'[u] = op[u] /\ pc'[u] = pc[u]
    BY <2>1, <1>2
  <2>3. RelayTypes'
    BY <1>1, <1>2, <2>1 DEF IInv, RelayTypes
  <2>4. Shape'
    <3>1. /\ pc' \in [Tasks -> Points]
          /\ op' \in [Tasks -> {Nothing} \cup RelayOps \cup ChannelOps \cup RefreshOps]
      BY <1>2, <2>1 DEF Points
    <3> QED
      BY <2>2, <3>1, Kinds DEF IInv, Shape, Relaying, RelayOps, ChannelOps, RefreshOps, Nothing
  <2>5. Told'
    <3> SUFFICES ASSUME ~overlapped PROVE Told'
      BY <1>1 DEF Told
    <3>1. \A u \in Tasks : op'[u] \notin RelayOps'
      BY <1>5, <2>2, Kinds DEF RelayOps
    <3>2. Agrees(port, {}) /\ Agrees(relayStatus, {}) /\ relay' = relayStatus
      BY <1>5, <2>1
    <3> QED
      BY <1>1, <1>5, <2>1, <3>1, <3>2 DEF Told, Agrees
  <2>6. Booted'
    BY <1>1, <2>2, Kinds DEF IInv, Booted, ChannelOps, RefreshOps
  <2> QED
    BY <1>4, <2>3, <2>4, <2>5, <2>6 DEF IInv
<1>8. CASE ReadPort(t) \/ WritePort(t) \/ LoadMirror(t) \/ StoreMirror(t)
  <2>1. PICK step \in Relaying : pc' = [pc EXCEPT ![t] = step] /\ op' = op /\ relay' = relay
    BY <1>8 DEF ReadPort, WritePort, LoadMirror, StoreMirror, Go, Relaying, relays
  <2>2. /\ pc' \in [Tasks -> Points] /\ pc'[t] \in Relaying
        /\ \A u \in Tasks \ {t} : pc'[u] = pc[u]
    BY <1>2, <2>1 DEF Points, Relaying
  <2>3. RelayTypes'
    <3>1. /\ port' \in SUBSET Bits /\ relayStatus' \in SUBSET Bits
          /\ buf' \in [Tasks -> SUBSET Bits]
      BY <1>2, <1>3, <1>8 DEF ReadPort, WritePort, LoadMirror, StoreMirror, relays
    <3> QED
      BY <1>1, <2>1, <3>1 DEF IInv, RelayTypes
  <2>4. Shape'
    <3>1. /\ pc'[t] \notin {"idle", "call", "set", "sel2", "sel1", "assign", "save"}
      BY <2>2 DEF Relaying
    <3>2. op'[t] \in RelayOps /\ op'[t] \notin RefreshOps
      BY <1>2, <2>1, Kinds
    <3> QED
      BY <1>2, <2>1, <2>2, <3>1, <3>2 DEF IInv, Shape, Relaying, RelayOps, ChannelOps, RefreshOps, Nothing
  <2>5. Booted'
    BY <1>1, <2>1 DEF IInv, Booted, ChannelOps, RefreshOps
  <2>6. Told'
    <3> SUFFICES ASSUME ~overlapped PROVE Told'
      BY <1>1 DEF Told
    <3>1. /\ Agrees(port', IF pc'[t] \in {"read", "write"} THEN {o.bit} ELSE {})
          /\ Agrees(relayStatus', IF pc'[t] = "factor" THEN {} ELSE {o.bit})
          /\ pc'[t] = "write" => buf'[t] = port'
          /\ pc'[t] \in {"store", "factor"} => buf'[t] = relayStatus'
      <4>1. CASE ReadPort(t)
        BY <1>2, <1>5, <4>1 DEF ReadPort, Go, relays
      <4>2. CASE WritePort(t)
        <5>1. pc[t] = "write" /\ pc'[t] = "load" /\ port' = WithBit(port, o) /\ relayStatus' = relayStatus
          BY <1>2, <1>5, <4>2 DEF WritePort, Go
        <5>2. Agrees(port', {})
          BY <1>3, <1>5, <1>6, <5>1 DEF Agrees
        <5> QED
          BY <1>5, <5>1, <5>2
      <4>3. CASE LoadMirror(t)
        BY <1>2, <1>5, <4>3 DEF LoadMirror, Go, relays
      <4>4. CASE StoreMirror(t)
        <5>1. /\ pc[t] = "store" /\ pc'[t] = "factor" /\ relayStatus' = WithBit(relayStatus, o)
              /\ port' = port /\ buf'[t] = relayStatus'
          BY <1>2, <1>5, <4>4 DEF StoreMirror, Go
        <5>2. Agrees(relayStatus', {})
          BY <1>3, <1>5, <1>6, <5>1 DEF Agrees
        <5> QED
          BY <1>5, <5>1, <5>2
      <4> QED
        BY <1>8, <4>1, <4>2, <4>3, <4>4
    <3> QED
      BY <1>1, <1>2, <1>5, <2>1, <3>1 DEF Told, Agrees, RelayOps
  <2> QED
    BY <1>4, <2>3, <2>4, <2>5, <2>6 DEF IInv
<1> QED
  BY <1>7, <1>8 DEF SetRelay

(* What a task does that is no relay command, and is not at one, leaves    *)
(* the relays as told.                                                     *)
LEMMA OtherTask ==
  ASSUME IInv, NEW t \in Tasks, op[t] \notin RelayOps,
         NEW p \in Points \ Relaying, pc' = [pc EXCEPT ![t] = p],
         NEW o \in {Nothing} \cup ChannelOps \cup RefreshOps, op' = [op EXCEPT ![t] = o],
         p = "idle" => o = Nothing,
         p \in {"call", "set", "assign"} => o \in ChannelOps,
         p \in {"sel2", "sel1"} => o \in ChannelOps \cup RefreshOps,
         p \in {"call", "save"} \/ o \in RefreshOps => t = "loop",
         p = "assign" => t = "ble",
         UNCHANGED <<port, relayStatus, relay, touched, wanted, overlapped, resets>>,
         buf' = buf \/ buf' = [buf EXCEPT ![t] = {}],
         chosen' \in BOOLEAN, commands' \in Nat
  PROVE  /\ RelayTypes' /\ Shape' /\ Told'
         /\ op'[t] = o /\ pc'[t] = p /\ \A u \in Tasks \ {t} : op'[u] = op[u]
<1>1. /\ pc \in [Tasks -> Points] /\ buf \in [Tasks -> SUBSET Bits]
      /\ op \in [Tasks -> {Nothing} \cup RelayOps \cup ChannelOps \cup RefreshOps]
  BY DEF IInv, Shape, RelayTypes
<1>2. /\ op'[t] = o /\ pc'[t] = p
      /\ \A u \in Tasks \ {t} : op'[u] = op[u] /\ pc'[u] = pc[u] /\ buf'[u] = buf[u]
  BY <1>1
<1>3. RelayTypes'
  BY <1>1 DEF IInv, RelayTypes
<1>4. o \notin RelayOps
  BY Kinds
<1>5. Shape'
  <2>1. /\ pc' \in [Tasks -> Points]
        /\ op' \in [Tasks -> {Nothing} \cup RelayOps \cup ChannelOps \cup RefreshOps]
    BY <1>1 DEF Points
  <2>2. RelayOps' = RelayOps /\ ChannelOps' = ChannelOps /\ RefreshOps' = RefreshOps
    BY DEF RelayOps, ChannelOps, RefreshOps
  <2> QED
    BY <1>2, <1>4, <2>1, <2>2 DEF IInv, Shape
<1>6. Told'
  <2>1. \A u \in Tasks : op'[u] \in RelayOps <=> op[u] \in RelayOps
    BY <1>2, <1>4
  <2>2. \A u \in Tasks : op[u] \in RelayOps => op'[u] = op[u] /\ pc'[u] = pc[u] /\ buf'[u] = buf[u]
    BY <1>2
  <2>3. Told
    BY DEF IInv
  <2> QED
    BY <2>1, <2>2, <2>3, ToldKept
<1> QED
  BY <1>2, <1>3, <1>5, <1>6

(* A channel command begins, and from then on a channel has been chosen.   *)
LEMMA StartChannelStep == ASSUME IInv, NEW t \in Tasks, StartChannel(t) PROVE IInv'
<1>1. PICK c \in Channels :
        /\ op' = [op EXCEPT ![t] = Channel(c)]
        /\ \/ t = "loop" /\ channel' = c /\ pc' = [pc EXCEPT ![t] = "call"]
           \/ pc' = [pc EXCEPT ![t] = "set"] /\ channel' = channel
  BY DEF StartChannel, Go
<1>2. /\ pc[t] = "idle" /\ commands' = commands + 1 /\ chosen' = TRUE
      /\ UNCHANGED <<port, relayStatus, relay, sel, flash, buf, touched, wanted, overlapped, resets>>
  BY DEF StartChannel, relays
<1>3. op[t] \notin RelayOps
  BY <1>2, Kinds DEF IInv, Shape
<1>4. Channel(c) \in ChannelOps /\ Channel(c) \notin RefreshOps
  <2>1. Channel(c) \in ChannelOps
    BY DEF Channel, ChannelOps
  <2> QED
    BY <2>1, Kinds
<1>5. commands' \in Nat
  BY <1>2, SMT DEF IInv, RelayTypes
<1>6. PICK p \in {"call", "set"} : pc' = [pc EXCEPT ![t] = p] /\ (p = "call" => t = "loop")
  BY <1>1
<1>7. p \in Points \ Relaying
  BY DEF Points, Relaying
<1>8. RelayTypes' /\ Shape' /\ Told'
  BY <1>1, <1>2, <1>3, <1>4, <1>5, <1>6, <1>7, OtherTask
<1>9. UartTypes'
  BY <1>1, <1>2 DEF IInv, UartTypes
<1> QED
  BY <1>2, <1>8, <1>9 DEF IInv, Booted

(* The steps of a channel command and of the refresh.                      *)
LEMMA UartStep ==
  ASSUME IInv, NEW t \in Tasks, SetUartChannel(t) \/ (t = "loop" /\ (CallWithFactor \/ StartRefresh))
                                 \/ (t = "ble" /\ Assign)
  PROVE  IInv'
<1>1. /\ UNCHANGED <<port, relayStatus, relay, touched, wanted, overlapped, resets, chosen, commands, flash>>
      /\ pc[t] \in {"idle", "call", "set", "sel2", "sel1", "assign"}
      /\ buf' = buf \/ buf' = [buf EXCEPT ![t] = {}]
  BY DEF SetUartChannel, SetChannel, Sel2, Sel1, CallWithFactor, StartRefresh, Assign, Done, relays, uart,
         history, bounds
<1>2. /\ pc \in [Tasks -> Points] /\ op \in [Tasks -> {Nothing} \cup RelayOps \cup ChannelOps \cup RefreshOps]
      /\ op[t] \notin RelayOps
  BY <1>1, Kinds DEF IInv, Shape, Relaying
<1>3. channel \in {0} \cup Channels /\ sel \in [sel2 : 0..1, sel1 : 0..1] /\ channel \in Nat
  BY EspAssumption, SMT DEF IInv, UartTypes
<1>4. \A c : Levels(c) \in [sel2 : 0..1, sel1 : 0..1]
  BY SMT DEF Levels
<1>5. ~chosen => /\ channel = 0 /\ sel = Levels(0) /\ op[t] \notin ChannelOps
                 /\ op[t] \in RefreshOps => op[t].channel = 0
  BY DEF IInv, Booted
<1>6. op[t] \in ChannelOps \cup RefreshOps => op[t].channel \in {0} \cup Channels
  BY DEF ChannelOps, RefreshOps
<1>7. \E p \in Points \ Relaying, o \in {Nothing} \cup ChannelOps \cup RefreshOps :
        /\ pc' = [pc EXCEPT ![t] = p] /\ op' = [op EXCEPT ![t] = o]
        /\ p = "idle" => o = Nothing
        /\ p \in {"call", "set", "assign"} => o \in ChannelOps
        /\ p \in {"sel2", "sel1"} => o \in ChannelOps \cup RefreshOps
        /\ p \in {"call", "save"} \/ o \in RefreshOps => t = "loop"
        /\ p = "assign" => t = "ble"
        /\ channel' \in {0} \cup Channels /\ sel' \in [sel2 : 0..1, sel1 : 0..1]
        /\ ~chosen => /\ channel' = 0 /\ sel' = Levels(0) /\ o \notin ChannelOps
                      /\ o \in RefreshOps => o.channel = 0
  <2>1. CASE SetChannel(t)
    <3>1. /\ pc[t] = "set" /\ op' = op /\ sel' = sel /\ channel' = op[t].channel
          /\ pc' = [pc EXCEPT ![t] = IF op[t].channel \in Wired THEN "sel2" ELSE AfterPins(t)]
      BY <2>1 DEF SetChannel, Go
    <3>2. op[t] \in ChannelOps /\ op[t].kind = "channel" /\ chosen
      BY <3>1, <1>5, Kinds DEF IInv, Shape, RelayTypes
    <3>3. AfterPins(t) = IF t = "loop" THEN "save" ELSE "assign"
      BY <3>2 DEF AfterPins, Tasks
    <3>4. op' = [op EXCEPT ![t] = op[t]] /\ t \in {"loop", "ble"}
      BY <3>1, <1>2 DEF Tasks
    <3>5. op[t] \notin RefreshOps
      BY <3>2, Kinds
    <3> QED
      BY <3>1, <3>2, <3>3, <3>4, <3>5, <1>3, <1>6 DEF Points, Relaying
  <2>2. CASE Sel2(t)
    <3>1. /\ pc[t] = "sel2" /\ pc' = [pc EXCEPT ![t] = "sel1"] /\ op' = op /\ channel' = channel
          /\ sel' = [sel EXCEPT !.sel2 = Levels(op[t].channel).sel2]
      BY <2>2 DEF Sel2, Go
    <3>2. op[t] \in ChannelOps \cup RefreshOps /\ op' = [op EXCEPT ![t] = op[t]]
          /\ (op[t] \in RefreshOps => t = "loop")
      BY <3>1, <1>2 DEF IInv, Shape
    <3>3. /\ sel' \in [sel2 : 0..1, sel1 : 0..1]
          /\ op[t].channel = 0 /\ sel = Levels(0) => sel' = Levels(0)
      BY <3>1, <1>3, SMT DEF Levels
    <3> QED
      BY <3>1, <3>2, <3>3, <1>3, <1>5 DEF Points, Relaying
  <2>3. CASE Sel1(t)
    <3>1. /\ pc[t] = "sel1" /\ pc' = [pc EXCEPT ![t] = AfterPins(t)] /\ channel' = channel
          /\ sel' = [sel EXCEPT !.sel1 = Levels(op[t].channel).sel1]
          /\ op' = IF op[t].kind = "refresh" THEN [op EXCEPT ![t] = Nothing] ELSE op
      BY <2>3 DEF Sel1, Go
    <3>2. op[t] \in ChannelOps \cup RefreshOps /\ (op[t] \in RefreshOps => t = "loop")
      BY <3>1 DEF IInv, Shape
    <3>3. /\ sel' \in [sel2 : 0..1, sel1 : 0..1]
          /\ op[t].channel = 0 /\ sel = Levels(0) => sel' = Levels(0)
      BY <3>1, <1>3, SMT DEF Levels
    <3>4. CASE op[t] \in RefreshOps
      <4>1. op[t].kind = "refresh" /\ AfterPins(t) = "idle"
        BY <3>4, Kinds DEF AfterPins
      <4>2. Nothing \notin ChannelOps /\ Nothing \notin RefreshOps
        BY Kinds
      <4> QED
        BY <4>1, <4>2, <3>1, <3>3, <3>4, <1>3, <1>5 DEF Points, Relaying
    <3>5. CASE op[t] \in ChannelOps
      <4>1. op[t].kind = "channel" /\ op[t] \notin RefreshOps /\ chosen
        BY <3>5, <1>5, Kinds DEF IInv, RelayTypes
      <4>2. AfterPins(t) = IF t = "loop" THEN "save" ELSE "assign"
        BY <4>1 DEF AfterPins, Tasks
      <4>3. op' = [op EXCEPT ![t] = op[t]] /\ t \in {"loop", "ble"}
        BY <3>1, <4>1, <1>2 DEF Tasks
      <4> QED
        BY <4>1, <4>2, <4>3, <3>1, <3>3, <3>5, <1>3 DEF Points, Relaying
    <3> QED
      BY <3>2, <3>4, <3>5
  <2>4. CASE t = "loop" /\ CallWithFactor
    <3>1. /\ pc[t] = "call" /\ pc' = [pc EXCEPT ![t] = "set"] /\ channel' = channel /\ sel' = sel
          /\ op' = [op EXCEPT ![t] = Channel(channel)]
      BY <2>4 DEF CallWithFactor, Go, uart
    <3>2. op[t] \in ChannelOps /\ chosen
      BY <3>1, <1>5 DEF IInv, Shape, RelayTypes
    <3>3. Channel(channel) \in ChannelOps
      BY <1>3 DEF Channel, ChannelOps
    <3> QED
      BY <3>1, <3>2, <3>3, <2>4, <1>3, Kinds DEF Points, Relaying
  <2>5. CASE t = "loop" /\ StartRefresh
    <3>1. /\ pc[t] = "idle" /\ channel' = channel /\ sel' = sel
          /\ \/ op' = [op EXCEPT ![t] = Refresh(channel)] /\ pc' = [pc EXCEPT ![t] = "sel2"]
             \/ op' = op /\ pc' = pc
      BY <2>5 DEF StartRefresh, Go, uart
    <3>2. CASE op' = [op EXCEPT ![t] = Refresh(channel)] /\ pc' = [pc EXCEPT ![t] = "sel2"]
      <4>1. /\ Refresh(channel) \in RefreshOps /\ Refresh(channel).channel = channel
        BY <1>3 DEF Refresh, RefreshOps
      <4>2. Refresh(channel) \notin ChannelOps
        BY <4>1, Kinds
      <4> QED
        BY <4>1, <4>2, <3>1, <3>2, <2>5, <1>3, <1>5 DEF Points, Relaying
    <3>3. CASE op' = op /\ pc' = pc
      <4>1. /\ op[t] = Nothing /\ op' = [op EXCEPT ![t] = Nothing] /\ pc' = [pc EXCEPT ![t] = "idle"]
        BY <3>1, <3>3, <1>2 DEF IInv, Shape
      <4> QED
        BY <4>1, <3>1, <1>3, <1>5, Kinds DEF Points, Relaying
    <3> QED
      BY <3>1, <3>2, <3>3
  <2>6. CASE t = "ble" /\ Assign
    <3>1. /\ pc[t] = "assign" /\ pc' = [pc EXCEPT ![t] = "idle"] /\ channel' = op[t].channel /\ sel' = sel
          /\ op' = [op EXCEPT ![t] = Nothing]
      BY <2>6 DEF Assign, Done, Go
    <3>2. op[t] \in ChannelOps /\ chosen
      BY <3>1, <1>5 DEF IInv, Shape, RelayTypes
    <3> QED
      BY <3>1, <3>2, <1>3, <1>6, Kinds DEF Points, Relaying
  <2> QED
    BY <2>1, <2>2, <2>3, <2>4, <2>5, <2>6 DEF SetUartChannel
<1>8. PICK p \in Points \ Relaying, o \in {Nothing} \cup ChannelOps \cup RefreshOps :
        /\ pc' = [pc EXCEPT ![t] = p] /\ op' = [op EXCEPT ![t] = o]
        /\ p = "idle" => o = Nothing
        /\ p \in {"call", "set", "assign"} => o \in ChannelOps
        /\ p \in {"sel2", "sel1"} => o \in ChannelOps \cup RefreshOps
        /\ p \in {"call", "save"} \/ o \in RefreshOps => t = "loop"
        /\ p = "assign" => t = "ble"
        /\ channel' \in {0} \cup Channels /\ sel' \in [sel2 : 0..1, sel1 : 0..1]
        /\ ~chosen => /\ channel' = 0 /\ sel' = Levels(0) /\ o \notin ChannelOps
                      /\ o \in RefreshOps => o.channel = 0
  BY <1>7
<1>9. commands' \in Nat /\ chosen' \in BOOLEAN
  BY <1>1 DEF IInv, RelayTypes
<1>10. /\ RelayTypes' /\ Shape' /\ Told'
       /\ op'[t] = o /\ pc'[t] = p /\ \A u \in Tasks \ {t} : op'[u] = op[u]
  BY <1>1, <1>2, <1>8, <1>9, OtherTask
<1>11. UartTypes'
  BY <1>1, <1>8 DEF IInv, UartTypes
<1>12. Booted'
  BY <1>1, <1>8, <1>10 DEF IInv, Booted, ChannelOps, RefreshOps
<1> QED
  BY <1>10, <1>11, <1>12 DEF IInv

(* The factors are saved, all of them, whichever was set.                  *)
LEMMA SaveStep == ASSUME IInv, StartSave \/ Save PROVE IInv'
<1> DEFINE t == "loop"
<1>1. /\ UNCHANGED <<port, relayStatus, relay, touched, wanted, overlapped, resets, chosen, channel, sel>>
      /\ commands' = commands \/ commands' = commands + 1
      /\ buf' = buf \/ buf' = [buf EXCEPT ![t] = {}]
      /\ flash' = flash \/ flash' = [relay |-> relay, channel |-> channel]
      /\ \/ pc[t] = "idle" /\ pc' = [pc EXCEPT ![t] = "save"] /\ op' = op
         \/ pc[t] = "save" /\ pc' = [pc EXCEPT ![t] = "idle"] /\ op' = [op EXCEPT ![t] = Nothing]
  BY DEF StartSave, Save, Done, Go, relays, uart, history, bounds
<1>2. t \in Tasks
  BY DEF Tasks
<1>3. op[t] \notin RelayOps /\ op \in [Tasks -> {Nothing} \cup RelayOps \cup ChannelOps \cup RefreshOps]
  BY <1>1, <1>2, Kinds DEF IInv, Shape, Relaying
<1>4. PICK p \in {"save", "idle"} : pc' = [pc EXCEPT ![t] = p] /\ op' = [op EXCEPT ![t] = Nothing]
  BY <1>1, <1>2, <1>3 DEF IInv, Shape
<1>5. p \in Points \ Relaying /\ p \notin {"call", "set", "assign", "sel2", "sel1"}
  BY DEF Points, Relaying
<1>6. commands' \in Nat /\ chosen' \in BOOLEAN
  BY <1>1, SMT DEF IInv, RelayTypes
<1>7. /\ RelayTypes' /\ Shape' /\ Told'
      /\ op'[t] = Nothing /\ pc'[t] = p /\ \A u \in Tasks \ {t} : op'[u] = op[u]
  BY <1>1, <1>2, <1>3, <1>4, <1>5, <1>6, OtherTask, Kinds
<1>8. UartTypes'
  BY <1>1 DEF IInv, UartTypes, RelayTypes
<1>9. Booted'
  BY <1>1, <1>7, Kinds DEF IInv, Booted, ChannelOps, RefreshOps
<1> QED
  BY <1>7, <1>8, <1>9 DEF IInv

(* The next boot finds the factors in the flash; the rest starts anew.     *)
LEMMA ResetStep == ASSUME IInv, Reset PROVE IInv'
<1>1. /\ flash' = flash /\ relay' = flash.relay /\ flash \in [relay : SUBSET Bits, channel : {0} \cup Channels]
  BY DEF Reset, Boot, IInv, UartTypes
<1>2. flash' \in [relay : SUBSET Bits, channel : {0} \cup Channels] /\ relay' \subseteq Bits
  BY <1>1
<1>3. commands' \in Nat /\ resets' \in Nat
  BY SMT DEF Reset, IInv, RelayTypes
<1>4. RelayTypes'
  BY <1>2, <1>3 DEF Reset, Boot, RelayTypes
<1>5. UartTypes'
  <2>1. Levels(0) \in [sel2 : 0..1, sel1 : 0..1]
    BY SMT DEF Levels
  <2> QED
    BY <1>2, <2>1 DEF Reset, Boot, UartTypes
<1>6. \A t \in Tasks : pc'[t] = "idle" /\ op'[t] = Nothing /\ op'[t] \notin RelayOps
                        /\ op'[t] \notin ChannelOps /\ op'[t] \notin RefreshOps
  BY Kinds DEF Reset, Boot
<1>7. Shape'
  <2>1. /\ pc' \in [Tasks -> Points]
        /\ op' \in [Tasks -> {Nothing} \cup RelayOps \cup ChannelOps \cup RefreshOps]
    BY DEF Reset, Boot, Points
  <2> QED
    BY <1>6, <2>1 DEF Shape, Relaying, RelayOps, ChannelOps, RefreshOps, Nothing
<1>8. Told' /\ Booted'
  BY <1>6 DEF Reset, Boot, Told, Agrees, Booted, RelayOps, ChannelOps, RefreshOps
<1> QED
  BY <1>4, <1>5, <1>7, <1>8 DEF IInv

(* Once an overlap is over the count of commanded relays starts again.     *)
LEMMA SettleStep == ASSUME IInv, Settle PROVE IInv'
<1>1. /\ overlapped' = FALSE /\ touched' = {} /\ wanted' = {} /\ \A t \in Tasks : op[t].kind # "relay"
      /\ UNCHANGED <<port, relayStatus, relay, channel, sel, flash, pc, op, buf, chosen, commands, resets>>
  BY DEF Settle, relays, uart, bounds
<1>2. RelayTypes' /\ UartTypes' /\ Shape' /\ Booted'
  BY <1>1 DEF IInv, RelayTypes, UartTypes, Shape, Booted, RelayOps, ChannelOps, RefreshOps
<1>3. Told'
  BY <1>1, Kinds DEF Told, Agrees, RelayOps
<1> QED
  BY <1>2, <1>3 DEF IInv

-----------------------------------------------------------------------------
(* Every step of the node keeps the invariant.                             *)
LEMMA StepInv == IInv /\ [Next]_vars => IInv'
<1> SUFFICES ASSUME IInv, [Next]_vars PROVE IInv'
  OBVIOUS
<1>1. CASE UNCHANGED vars
  BY <1>1 DEF vars, relays, uart, history, bounds, IInv, RelayTypes, UartTypes, Shape, Told, Agrees, Booted,
              RelayOps, ChannelOps, RefreshOps
<1>2. CASE Next
  <2>1. "loop" \in Tasks /\ "ble" \in Tasks
    BY DEF Tasks
  <2> QED
    BY <1>2, <2>1, StartRelayStep, SetRelayStep, StartChannelStep, UartStep, SaveStep, ResetStep, SettleStep
       DEF Next, Loop, Ble, Steps
<1> QED
  BY <1>1, <1>2

(* The invariant holds in every state of the node.                         *)
THEOREM Invariant == Spec => []IInv
<1> QED
  BY InitInv, StepInv, PTL DEF Spec

(* Every variable keeps its type; in particular the mirror of the relays   *)
(* stays a byte whatever number a command carries (setRelay).              *)
THEOREM EspTypesCorrect == Spec => []TypeOK
<1>1. IInv => TypeOK
  BY DEF IInv, RelayTypes, UartTypes, Shape, Points, RelayOps, ChannelOps, RefreshOps, TypeOK
<1> QED
  BY Invariant, <1>1, PTL

(* Port, mirror and factor are as the relay commands since boot, or since  *)
(* commands of both tasks last overlapped, have them (setRelay).           *)
THEOREM RelaysToldTrue == Spec => []RelaysTold
<1>1. IInv => RelaysTold
  <2> SUFFICES ASSUME IInv, ~overlapped, \A t \in Tasks : op[t].kind # "relay"
               PROVE  /\ port \cap touched = wanted /\ relayStatus \cap touched = wanted
                      /\ touched # {} => relay = relayStatus
    BY DEF RelaysTold
  <2>1. \A t \in Tasks : op[t] \notin RelayOps
    BY Kinds
  <2> QED
    BY <2>1 DEF IInv, Told, Agrees
<1> QED
  BY Invariant, <1>1, PTL

(* Without a channel command since the reset the node is on Ethernet,      *)
(* whatever channel it had saved (initUttec).                              *)
THEOREM AlwaysBootsOnEthernet == Spec => []BootsOnEthernet
<1>1. IInv => BootsOnEthernet
  BY DEF IInv, Booted, BootsOnEthernet
<1> QED
  BY Invariant, <1>1, PTL

-----------------------------------------------------------------------------
(* The place of a symbol in all that is ever sent: lines follow each other and *)
(* have six symbols, the first four of them those that matter.                 *)
LineSymbol == [ch : {"open", "a", "b", "close", "CR", "LF"}, line : 1..MaxLines]
Rank == [ch \in {"open", "a", "b", "close", "CR", "LF"} |->
           CASE ch = "open" -> 0 [] ch = "a" -> 1 [] ch = "b" -> 2
             [] ch = "close" -> 3 [] ch = "CR" -> 4 [] ch = "LF" -> 5]
Place(x) == 6 * x.line + Rank[x.ch]

(* The symbols of s are those up to place p. *)
UpTo(s, p) == \A i \in 1..Len(s) : Place(s[i]) = (p - Len(s)) + i

(* The places of the last symbol sent, of the last that has reached the driver, *)
(* of the last that has left it, and of the last that a finished call has read. *)
LastSent    == 6 * lines + 5
LastArrived == LastSent - Len(wire)
LastRead    == LastArrived - Len(rx)
LastDone    == LastRead - (IF reading THEN Len(temp) ELSE 0)

(* What is under way is in one piece. *)
Contiguous ==
  UpTo(wire, LastSent) /\ UpTo(rx, LastArrived) /\ (reading => UpTo(temp, LastRead))

(* Of the lines calls have seen the beginning of, up to place p, those of D are *)
(* spoilt and those of C carried out; a line cut at p is spoilt.                *)
Sorted(C, D, p) ==
  /\ \A l \in D : l <= lines /\ 6 * l <= p
  /\ \A l \in 1..lines : 6 * l <= p => (l \in C <=> l \notin D)
  /\ \A l \in 1..lines : 6 * l <= p /\ p < 6 * l + 3 => l \in D

(* The commands of e are whole lines up to place p, in their order. *)
InTurn(e, p) ==
  /\ \A k \in 1..Len(e) : e[k][1] = e[k][2] /\ 6 * e[k][1] + 3 <= p
  /\ \A j, k \in 1..Len(e) : j < k => e[j][1] < e[k][1]

(* The inductive invariant of the serial side. *)
SerialInv ==
  /\ SerialTypes
  /\ ~dropped => /\ Contiguous
                 /\ Sorted(Carried, spoilt, LastDone)
                 /\ InTurn(executed, LastDone)

-----------------------------------------------------------------------------
LEMMA RankIs ==
  /\ Rank["open"] = 0 /\ Rank["a"] = 1 /\ Rank["b"] = 2 /\ Rank["close"] = 3
  /\ Rank["CR"] = 4 /\ Rank["LF"] = 5
  /\ \A ch \in {"open", "a", "b", "close", "CR", "LF"} :
       /\ Rank[ch] \in 0..5
       /\ Rank[ch] = 0 => ch = "open"
       /\ Rank[ch] = 1 => ch = "a"
       /\ Rank[ch] = 2 => ch = "b"
       /\ Rank[ch] = 3 => ch = "close"
       /\ ch \notin Blanks => Rank[ch] \in 0..3
       /\ Rank[ch] \in 0..3 => ch \notin Blanks
<1>1. /\ Rank["open"] = 0 /\ Rank["a"] = 1 /\ Rank["b"] = 2 /\ Rank["close"] = 3
      /\ Rank["CR"] = 4 /\ Rank["LF"] = 5
  BY DEF Rank
<1>2. Rank \in [{"open", "a", "b", "close", "CR", "LF"} -> 0..5]
  BY DEF Rank
<1>3. ASSUME NEW ch \in {"open", "a", "b", "close", "CR", "LF"}, Rank[ch] = 0 PROVE ch = "open"
  BY <1>1, <1>3
<1>4. ASSUME NEW ch \in {"open", "a", "b", "close", "CR", "LF"}, Rank[ch] = 1 PROVE ch = "a"
  BY <1>1, <1>4
<1>5. ASSUME NEW ch \in {"open", "a", "b", "close", "CR", "LF"}, Rank[ch] = 2 PROVE ch = "b"
  BY <1>1, <1>5
<1>6. ASSUME NEW ch \in {"open", "a", "b", "close", "CR", "LF"}, Rank[ch] = 3 PROVE ch = "close"
  BY <1>1, <1>6
<1>7. ASSUME NEW ch \in {"open", "a", "b", "close", "CR", "LF"}, ch \notin Blanks PROVE Rank[ch] \in 0..3
  <2>1. ch = "open" \/ ch = "a" \/ ch = "b" \/ ch = "close"
    BY <1>7 DEF Blanks
  <2>2. Rank["open"] \in 0..3 /\ Rank["a"] \in 0..3 /\ Rank["b"] \in 0..3 /\ Rank["close"] \in 0..3
    BY <1>1
  <2>3. QED BY <2>1, <2>2
<1>8. ASSUME NEW ch \in {"open", "a", "b", "close", "CR", "LF"}, Rank[ch] \in 0..3 PROVE ch \notin Blanks
  <2>1. Rank["CR"] \notin 0..3 /\ Rank["LF"] \notin 0..3
    BY <1>1
  <2>2. QED BY <1>8, <2>1 DEF Blanks
<1>9. QED BY <1>1, <1>2, <1>3, <1>4, <1>5, <1>6, <1>7, <1>8

(* A symbol's place lies in its line, and says which symbol it is. *)
LEMMA PlaceIs ==
  ASSUME NEW x \in LineSymbol
  PROVE  /\ x.line \in 1..MaxLines /\ x.ch \in {"open", "a", "b", "close", "CR", "LF"}
         /\ x.line \in Nat /\ Rank[x.ch] \in 0..5 /\ Place(x) \in Nat
         /\ Place(x) = 6 * x.line + Rank[x.ch]
<1>1. x.ch \in {"open", "a", "b", "close", "CR", "LF"} /\ x.line \in 1..MaxLines
  BY DEF LineSymbol
<1>2. Rank[x.ch] \in 0..5
  BY <1>1, RankIs
<1>3. \A n \in 1..MaxLines, r \in 0..5 : n \in Nat /\ 6 * n + r \in Nat
  BY SerialAssumption
<1>4. QED BY <1>1, <1>2, <1>3 DEF Place

(* Sixes that are less than six apart are the same. *)
LEMMA Sixes ==
  /\ \A a, b \in Int : \A i, j \in 0..5 : 6 * a + i = 6 * b + j => a = b /\ i = j
  /\ \A a, b, p \in Int : 6 * a <= p /\ p <= 6 * b + 5 => a <= b
OBVIOUS

LEMMA LineSymbols ==
  ASSUME NEW l \in 1..MaxLines
  PROVE  /\ Len(Line(l)) = 6
         /\ \A i \in 1..6 : Line(l)[i] \in LineSymbol /\ Place(Line(l)[i]) = 6 * l + (i - 1)
         /\ \A i \in 1..6 : Line(l)[i].line = l
         /\ Line(l)[1].ch = "open" /\ Line(l)[2].ch = "a" /\ Line(l)[3].ch = "b"
         /\ Line(l)[4].ch = "close"
<1>1. /\ Len(Line(l)) = 6
      /\ Line(l)[1] = Sym("open", l) /\ Line(l)[2] = Sym("a", l) /\ Line(l)[3] = Sym("b", l)
      /\ Line(l)[4] = Sym("close", l) /\ Line(l)[5] = Sym("CR", l) /\ Line(l)[6] = Sym("LF", l)
  BY DEF Line
<1>2. \A ch \in {"open", "a", "b", "close", "CR", "LF"} :
        /\ Sym(ch, l) \in LineSymbol /\ Sym(ch, l).ch = ch /\ Sym(ch, l).line = l
        /\ Place(Sym(ch, l)) = 6 * l + Rank[ch]
  BY DEF Sym, LineSymbol, Place
<1>3. /\ Rank["open"] = 0 /\ Rank["a"] = 1 /\ Rank["b"] = 2 /\ Rank["close"] = 3
      /\ Rank["CR"] = 4 /\ Rank["LF"] = 5
  BY DEF Rank
<1>4. \A i \in 1..6 : i = 1 \/ i = 2 \/ i = 3 \/ i = 4 \/ i = 5 \/ i = 6
  OBVIOUS
<1>5. \A i \in 1..6 : Line(l)[i] \in LineSymbol /\ Line(l)[i].line = l
  BY <1>1, <1>2, <1>4
<1>6. /\ Place(Line(l)[1]) = 6 * l + (1 - 1) /\ Place(Line(l)[2]) = 6 * l + (2 - 1)
      /\ Place(Line(l)[3]) = 6 * l + (3 - 1) /\ Place(Line(l)[4]) = 6 * l + (4 - 1)
      /\ Place(Line(l)[5]) = 6 * l + (5 - 1) /\ Place(Line(l)[6]) = 6 * l + (6 - 1)
  <2>1. 1 - 1 = 0 /\ 2 - 1 = 1 /\ 3 - 1 = 2 /\ 4 - 1 = 3 /\ 5 - 1 = 4 /\ 6 - 1 = 5
    OBVIOUS
  <2>2. QED BY <1>1, <1>2, <1>3, <2>1
<1>7. \A i \in 1..6 : Place(Line(l)[i]) = 6 * l + (i - 1)
  BY <1>4, <1>6
<1>8. /\ Line(l)[1].ch = "open" /\ Line(l)[2].ch = "a" /\ Line(l)[3].ch = "b"
      /\ Line(l)[4].ch = "close"
  BY <1>1, <1>2
<1>9. QED BY <1>1, <1>5, <1>7, <1>8

LEMMA LineStarts ==
  ASSUME NEW l \in 1..MaxLines
  PROVE  Place(Line(l)[1]) = 6 * l /\ Line(l)[2].line = l /\ Line(l)[3].line = l
<1>1. 1 \in 1..6 /\ 2 \in 1..6 /\ 3 \in 1..6
  OBVIOUS
<1>2. Line(l)[2].line = l /\ Line(l)[3].line = l
  BY <1>1, LineSymbols
<1>3. Place(Line(l)[1]) = 6 * l + (1 - 1)
  BY <1>1, LineSymbols
<1>4. \A n \in 1..MaxLines : n \in Nat
  BY SerialAssumption
<1>5. \A n \in Nat : 6 * n + (1 - 1) = 6 * n
  OBVIOUS
<1>6. QED BY <1>2, <1>3, <1>4, <1>5

(* Only one symbol has a place. *)
LEMMA PlaceFixes ==
  ASSUME NEW x \in LineSymbol, NEW l \in 1..MaxLines, NEW i \in 1..4, Place(x) = 6 * l + (i - 1)
  PROVE  x = Line(l)[i]
<1> DEFINE r == Rank[x.ch]
           a == x.line
<1>1. r \in 0..5 /\ a \in Nat /\ Place(x) = 6 * a + r
  BY PlaceIs
<1> HIDE DEF r, a
<1>2. l \in Int /\ i - 1 \in 0..5 /\ a \in Int /\ 6 * a + r = 6 * l + (i - 1)
  BY <1>1
<1>3. a = l /\ r = i - 1
  BY <1>1, <1>2, Sixes
<1>4. x.line = l /\ Rank[x.ch] = i - 1
  BY <1>3 DEF r, a
<1>5. i = 1 \/ i = 2 \/ i = 3 \/ i = 4
  OBVIOUS
<1>6. /\ i = 1 => Rank[x.ch] = 0
      /\ i = 2 => Rank[x.ch] = 1
      /\ i = 3 => Rank[x.ch] = 2
      /\ i = 4 => Rank[x.ch] = 3
  BY <1>4
<1>7. /\ i = 1 => x.ch = "open"
      /\ i = 2 => x.ch = "a"
      /\ i = 3 => x.ch = "b"
      /\ i = 4 => x.ch = "close"
  BY <1>6, PlaceIs, RankIs
<1>8. x = [ch |-> x.ch, line |-> x.line]
  BY DEF LineSymbol
<1>9. /\ Line(l)[1] = Sym("open", l) /\ Line(l)[2] = Sym("a", l) /\ Line(l)[3] = Sym("b", l)
      /\ Line(l)[4] = Sym("close", l)
  BY DEF Line
<1>10. QED BY <1>4, <1>5, <1>7, <1>8, <1>9 DEF Sym

-----------------------------------------------------------------------------
(* What a piece of the stream up to place p holds, by the places of its ends. *)
LEMMA HeldPlace ==
  ASSUME NEW s \in Seq(LineSymbol), NEW p \in Int, UpTo(s, p), NEW k \in 1..Len(s)
  PROVE  /\ s[k] \in LineSymbol /\ Place(s[k]) = (p - Len(s)) + k
         /\ s[k].line \in Nat /\ Rank[s[k].ch] \in 0..5
         /\ (p - Len(s)) + k = 6 * s[k].line + Rank[s[k].ch]
<1>1. s[k] \in LineSymbol
  BY ElementOfSeq
<1>2. Place(s[k]) = (p - Len(s)) + k
  BY DEF UpTo
<1>3. QED BY <1>1, <1>2, PlaceIs

LEMMA InRange ==
  ASSUME NEW s \in Seq(LineSymbol), NEW p \in Int, UpTo(s, p)
  PROVE  /\ In(s) \subseteq 1..MaxLines
         /\ \A l \in In(s) : 6 * l <= p /\ p - Len(s) < 6 * l + 3
         /\ \A l \in Int : 6 * l <= p /\ p - Len(s) < 6 * l + 3 /\ p - Len(s) < p => l \in In(s)
<1>1. Len(s) \in Nat /\ DOMAIN s = 1..Len(s)
  BY LenProperties
<1>2. ASSUME NEW l \in In(s)
      PROVE  /\ l \in 1..MaxLines
             /\ 6 * l <= p /\ p - Len(s) < 6 * l + 3
  <2>1. PICK k \in 1..Len(s) : s[k].ch \notin Blanks /\ l = s[k].line
    BY <1>1 DEF In
  <2> DEFINE r == Rank[s[k].ch]
  <2>2. l \in 1..MaxLines /\ l \in Nat /\ (p - Len(s)) + k = 6 * l + r
    BY <2>1, HeldPlace, PlaceIs
  <2>3. r \in 0..3
    BY <2>1, HeldPlace, PlaceIs, RankIs
  <2> HIDE DEF r
  <2>4. QED BY <1>1, <2>2, <2>3
<1>3. ASSUME NEW l \in Int, 6 * l <= p, p - Len(s) < 6 * l + 3, p - Len(s) < p
      PROVE  l \in In(s)
  <2>1. PICK k \in 1..Len(s) : \E r \in 0..3 : (p - Len(s)) + k = 6 * l + r
    <3> DEFINE o == p - Len(s)
    <3>1. o \in Int /\ p = o + Len(s)
      BY <1>1
    <3> HIDE DEF o
    <3>2. CASE o < 6 * l
      <4>1. 6 * l - o \in 1..Len(s) /\ o + (6 * l - o) = 6 * l + 0 /\ 0 \in 0..3
        BY <1>1, <1>3, <3>1, <3>2
      <4>2. QED BY <4>1 DEF o
    <3>3. CASE ~(o < 6 * l)
      <4>1. 1 \in 1..Len(s) /\ o + 1 = 6 * l + (o + 1 - 6 * l) /\ o + 1 - 6 * l \in 0..3
        BY <1>1, <1>3, <3>1, <3>3 DEF o
      <4>2. QED BY <4>1 DEF o
    <3>4. QED BY <3>2, <3>3
  <2>2. PICK r \in 0..3 : (p - Len(s)) + k = 6 * l + r
    BY <2>1
  <2> DEFINE q == Rank[s[k].ch]
             m == s[k].line
  <2>3. q \in 0..5 /\ m \in Nat /\ (p - Len(s)) + k = 6 * m + q
    BY HeldPlace
  <2> HIDE DEF q, m
  <2>4. r \in 0..5 /\ m \in Int /\ 6 * m + q = 6 * l + r
    BY <2>2, <2>3
  <2>5. m = l /\ q = r
    BY <2>3, <2>4, Sixes
  <2>6. s[k].ch \notin Blanks
    BY <2>5, HeldPlace, PlaceIs, RankIs DEF q
  <2>7. QED BY <1>1, <2>5, <2>6 DEF In, m
<1>4. QED BY <1>2, <1>3

(* A served line is whole and the first in its piece. *)
LEMMA ServedIs ==
  ASSUME NEW s \in Seq(LineSymbol), NEW p \in Int, UpTo(s, p), NEW l \in Served(s)
  PROVE  /\ l \in In(s) /\ (\A m \in In(s) : l <= m)
         /\ p - Len(s) < 6 * l /\ 6 * l + 3 <= p
<1>1. PICK k \in 1..Len(s) : k + 3 <= Len(s) /\ \A i \in 1..4 : s[k + i - 1] = Line(l)[i]
  BY LenProperties DEF Served
<1>2. l \in In(s) /\ \A m \in In(s) : l <= m
  BY DEF Served
<1>3. l \in 1..MaxLines /\ l \in Nat
  BY <1>2, InRange, SerialAssumption
<1>4. Len(s) \in Nat
  BY LenProperties
<1>5. s[k] = Line(l)[1]
  BY <1>1, <1>4
<1>6. (p - Len(s)) + k = 6 * l
  <2>1. Place(s[k]) = (p - Len(s)) + k
    BY HeldPlace
  <2>2. Place(Line(l)[1]) = 6 * l
    BY <1>3, LineStarts
  <2>3. QED BY <1>5, <2>1, <2>2
<1>7. p - Len(s) < 6 * l /\ 6 * l + 3 <= p
  <2>1. \A n \in Nat, x \in Int : \A c \in 1..n :
          c + 3 <= n /\ (p - n) + c = x => p - n < x /\ x + 3 <= p
    OBVIOUS
  <2>2. 6 * l \in Int /\ k + 3 <= Len(s)
    BY <1>1, <1>3
  <2>3. QED BY <1>4, <1>6, <2>1, <2>2
<1>8. QED BY <1>2, <1>7

(* deserializeJson finds the served line and nothing else. *)
LEMMA ObjectServed ==
  ASSUME NEW s \in Seq(LineSymbol), NEW p \in Int, UpTo(s, p), NEW o \in Objects(s)
  PROVE  \E l \in Served(s) : o = <<l, l>>
<1> DEFINE n == Len(s)
<1>1. n \in Nat /\ DOMAIN s = 1..n
  BY LenProperties
<1>2. PICK k \in 1..n :
        /\ k + 3 <= n /\ o = <<s[k + 1].line, s[k + 2].line>>
        /\ [i \in 1..4 |-> s[k + i - 1].ch] = <<"open", "a", "b", "close">>
        /\ Chars(SubSeq(s, 1, k - 1)) \subseteq Blanks
  BY <1>1 DEF Objects
<1> DEFINE l == s[k].line
<1>3. s[k].ch = "open"
  <2>1. [i \in 1..4 |-> s[k + i - 1].ch][1] = "open"
    BY <1>2
  <2>2. k + 1 - 1 = k
    OBVIOUS
  <2>3. QED BY <2>1, <2>2
<1>4. l \in 1..MaxLines /\ l \in Nat /\ (p - n) + k = 6 * l
  <2>1. s[k] \in LineSymbol /\ (p - n) + k = 6 * l + Rank[s[k].ch]
    BY HeldPlace
  <2>2. l \in 1..MaxLines /\ l \in Nat
    BY <2>1, PlaceIs
  <2>3. QED BY <1>3, <2>1, <2>2, RankIs
<1> HIDE DEF n, l
<1>5. ASSUME NEW i \in 1..4 PROVE s[k + i - 1] = Line(l)[i]
  <2>1. k + i - 1 \in 1..n
    BY <1>1, <1>2
  <2>2. s[k + i - 1] \in LineSymbol /\ Place(s[k + i - 1]) = (p - n) + (k + i - 1)
    BY <2>1, HeldPlace DEF n
  <2>3. (p - n) + (k + i - 1) = 6 * l + (i - 1)
    BY <1>1, <1>4
  <2>4. QED BY <1>4, <2>2, <2>3, PlaceFixes
<1>6. o = <<l, l>>
  <2>1. s[k + 2 - 1] = Line(l)[2] /\ s[k + 3 - 1] = Line(l)[3]
    BY <1>5
  <2>2. k + 2 - 1 = k + 1 /\ k + 3 - 1 = k + 2
    BY <1>1
  <2>3. Line(l)[2].line = l /\ Line(l)[3].line = l
    BY <1>4, LineStarts
  <2>4. s[k + 1].line = l /\ s[k + 2].line = l
    BY <2>1, <2>2, <2>3
  <2>5. QED BY <1>2, <2>4
<1>7. l \in In(s)
  <2>1. s[k].ch \notin Blanks
    BY <1>3 DEF Blanks
  <2>2. QED BY <1>1, <2>1 DEF In, l, n
<1>8. ASSUME NEW m \in In(s) PROVE l <= m
  <2>1. PICK j \in 1..n : s[j].ch \notin Blanks /\ m = s[j].line
    BY <1>1 DEF In
  <2>2. ~(j < k)
    <3>1. SUFFICES ASSUME j < k PROVE FALSE
      OBVIOUS
    <3>2. /\ DOMAIN SubSeq(s, 1, k - 1) = 1..(k - 1)
          /\ \A i \in 1..(k - 1) : SubSeq(s, 1, k - 1)[i] = s[i]
      <4>1. \A i \in 1..(k - 1) : s[i] \in LineSymbol /\ i \in 1..n
        BY <1>1, ElementOfSeq DEF n
      <4>2. k - 1 \in Int /\ 1 \in Int
        BY <1>1
      <4>3. /\ SubSeq(s, 1, k - 1) \in Seq(LineSymbol)
            /\ Len(SubSeq(s, 1, k - 1)) = IF 1 <= k - 1 THEN (k - 1) - 1 + 1 ELSE 0
            /\ \A i \in 1..((k - 1) - 1 + 1) : SubSeq(s, 1, k - 1)[i] = s[1 + i - 1]
        BY <4>1, <4>2, SubSeqProperties
      <4>4. 1 <= k - 1 /\ (k - 1) - 1 + 1 = k - 1 /\ \A i \in 1..(k - 1) : 1 + i - 1 = i
        BY <1>1, <3>1
      <4>5. QED BY <4>3, <4>4, LenProperties
    <3>3. j \in 1..(k - 1)
      BY <1>1, <3>1
    <3>4. s[j].ch \in Chars(SubSeq(s, 1, k - 1))
      BY <3>2, <3>3 DEF Chars
    <3>5. QED BY <1>2, <2>1, <3>4
  <2> DEFINE r == Rank[s[j].ch]
  <2>3. m \in Nat /\ (p - n) + j = 6 * m + r /\ r \in 0..5
    BY <2>1, HeldPlace DEF n
  <2> HIDE DEF r
  <2>4. 6 * l <= (p - n) + j /\ (p - n) + j <= 6 * m + 5
    BY <1>1, <1>4, <2>2, <2>3
  <2>5. QED BY <1>1, <1>4, <2>3, <2>4, Sixes
<1>9. l \in Served(s)
  BY <1>1, <1>2, <1>5, <1>7, <1>8 DEF Served, n
<1>10. QED BY <1>6, <1>9

LEMMA ServedObject ==
  ASSUME NEW s \in Seq(LineSymbol), NEW p \in Int, UpTo(s, p), Served(s) # {}
  PROVE  Objects(s) # {} /\ {"open", "close"} \subseteq Chars(s)
<1> DEFINE n == Len(s)
<1>1. n \in Nat /\ DOMAIN s = 1..n
  BY LenProperties
<1>2. PICK l \in Served(s) : TRUE
  OBVIOUS
<1>3. l \in In(s) /\ (\A m \in In(s) : l <= m) /\ l \in 1..MaxLines /\ l \in Nat
  BY ServedIs, InRange, SerialAssumption
<1>4. PICK k \in 1..n : k + 3 <= n /\ \A i \in 1..4 : s[k + i - 1] = Line(l)[i]
  BY <1>1 DEF Served
<1>5. /\ s[k + 1 - 1].ch = "open" /\ s[k + 2 - 1].ch = "a" /\ s[k + 3 - 1].ch = "b"
      /\ s[k + 4 - 1].ch = "close"
  <2>1. 1 \in 1..4 /\ 2 \in 1..4 /\ 3 \in 1..4 /\ 4 \in 1..4
    OBVIOUS
  <2>2. /\ s[k + 1 - 1] = Line(l)[1] /\ s[k + 2 - 1] = Line(l)[2] /\ s[k + 3 - 1] = Line(l)[3]
        /\ s[k + 4 - 1] = Line(l)[4]
    BY <1>4, <2>1, Zenon
  <2>3. QED BY <1>3, <2>2, LineSymbols
<1>6. [i \in 1..4 |-> s[k + i - 1].ch] = <<"open", "a", "b", "close">>
  BY <1>5
<1>7. k + 1 - 1 = k /\ k + 4 - 1 = k + 3 /\ k \in 1..n /\ k + 3 \in 1..n
  BY <1>1, <1>4
<1>8. {"open", "close"} \subseteq Chars(s)
  BY <1>1, <1>5, <1>7 DEF Chars
<1>9. (p - n) + k = 6 * l
  <2>1. s[k] = Line(l)[1]
    BY <1>4, <1>7
  <2>2. Place(s[k]) = (p - n) + k
    BY HeldPlace
  <2>3. Place(Line(l)[1]) = 6 * l
    BY <1>3, LineStarts
  <2>4. QED BY <2>1, <2>2, <2>3
<1> HIDE DEF n
<1>10. ASSUME NEW j \in 1..n, j < k PROVE s[j].ch \in Blanks
  <2>1. SUFFICES ASSUME s[j].ch \notin Blanks PROVE FALSE
    OBVIOUS
  <2> DEFINE m == s[j].line
             r == Rank[s[j].ch]
  <2>2. m \in In(s)
    BY <1>1, <2>1 DEF In
  <2>3. m \in Nat /\ (p - n) + j = 6 * m + r /\ r \in 0..5
    BY HeldPlace DEF n
  <2>4. l <= m
    BY <1>3, <2>2
  <2> HIDE DEF m, r
  <2>5. QED BY <1>1, <1>3, <1>9, <1>10, <2>3, <2>4
<1>11. Chars(SubSeq(s, 1, k - 1)) \subseteq Blanks
  <2>1. \A i \in 1..(k - 1) : s[i] \in LineSymbol /\ i \in 1..n /\ i < k
    BY <1>1, ElementOfSeq DEF n
  <2>2. k - 1 \in Int /\ 1 \in Int
    BY <1>1
  <2>3. /\ SubSeq(s, 1, k - 1) \in Seq(LineSymbol)
        /\ Len(SubSeq(s, 1, k - 1)) = IF 1 <= k - 1 THEN (k - 1) - 1 + 1 ELSE 0
        /\ \A i \in 1..((k - 1) - 1 + 1) : SubSeq(s, 1, k - 1)[i] = s[1 + i - 1]
    BY <2>1, <2>2, SubSeqProperties
  <2>4. /\ (k - 1) - 1 + 1 = k - 1 /\ \A i \in 1..(k - 1) : 1 + i - 1 = i
        /\ ~(1 <= k - 1) => k - 1 = 0
    BY <1>1
  <2>5. /\ DOMAIN SubSeq(s, 1, k - 1) = 1..(k - 1)
        /\ \A i \in 1..(k - 1) : SubSeq(s, 1, k - 1)[i] = s[i]
    BY <2>3, <2>4, LenProperties
  <2>6. QED BY <1>10, <2>1, <2>5 DEF Chars
<1>12. Objects(s) # {}
  BY <1>1, <1>4, <1>6, <1>11 DEF Objects, n
<1>13. QED BY <1>8, <1>12

-----------------------------------------------------------------------------
(* How pieces grow and shrink. *)
LEMMA EmptyUpTo == \A p : UpTo(<<>>, p)
<1>1. Len(<<>>) = 0 /\ 1..0 = {}
  OBVIOUS
<1>2. QED BY <1>1 DEF UpTo

LEMMA TailUpTo ==
  ASSUME NEW s \in Seq(LineSymbol), s # <<>>
  PROVE  /\ Head(s) \in LineSymbol /\ Tail(s) \in Seq(LineSymbol) /\ Len(Tail(s)) = Len(s) - 1
         /\ \A p \in Int : UpTo(s, p) => /\ UpTo(Tail(s), p)
                                         /\ Place(Head(s)) = (p - Len(s)) + 1
<1>1. /\ Head(s) \in LineSymbol /\ Tail(s) \in Seq(LineSymbol) /\ Len(Tail(s)) = Len(s) - 1
      /\ Head(s) = s[1] /\ Len(s) \in Nat /\ Len(s) >= 1
      /\ \A i \in 1..Len(Tail(s)) : Tail(s)[i] = s[i + 1]
  BY HeadTailProperties, EmptySeq, LenProperties
<1>2. ASSUME NEW p \in Int, UpTo(s, p) PROVE UpTo(Tail(s), p) /\ Place(Head(s)) = (p - Len(s)) + 1
  <2>1. 1 \in 1..Len(s)
    BY <1>1
  <2>2. Place(s[1]) = (p - Len(s)) + 1
    BY <1>2, <2>1, HeldPlace
  <2>3. ASSUME NEW i \in 1..Len(Tail(s)) PROVE Place(Tail(s)[i]) = (p - Len(Tail(s))) + i
    <3>1. i + 1 \in 1..Len(s) /\ (p - Len(s)) + (i + 1) = (p - (Len(s) - 1)) + i
      BY <1>1
    <3>2. Place(s[i + 1]) = (p - Len(s)) + (i + 1)
      BY <1>2, <3>1, HeldPlace
    <3>3. Tail(s)[i] = s[i + 1]
      BY <1>1
    <3>4. QED BY <1>1, <3>1, <3>2, <3>3
  <2>4. QED BY <1>1, <2>2, <2>3 DEF UpTo
<1>3. QED BY <1>1, <1>2

LEMMA AppendUpTo ==
  ASSUME NEW s \in Seq(LineSymbol), NEW x \in LineSymbol
  PROVE  /\ Append(s, x) \in Seq(LineSymbol) /\ Len(Append(s, x)) = Len(s) + 1
         /\ \A p \in Int : UpTo(s, p) /\ Place(x) = p + 1 => UpTo(Append(s, x), p + 1)
<1>1. /\ Append(s, x) \in Seq(LineSymbol) /\ Len(Append(s, x)) = Len(s) + 1
      /\ \A i \in 1..Len(s) : Append(s, x)[i] = s[i]
      /\ Append(s, x)[Len(s) + 1] = x /\ Len(s) \in Nat
  BY AppendProperties, LenProperties
<1>2. ASSUME NEW p \in Int, UpTo(s, p), Place(x) = p + 1 PROVE UpTo(Append(s, x), p + 1)
  <2>1. ASSUME NEW i \in 1..(Len(s) + 1)
        PROVE  Place(Append(s, x)[i]) = ((p + 1) - (Len(s) + 1)) + i
    <3>1. CASE i = Len(s) + 1
      <4>1. ((p + 1) - (Len(s) + 1)) + (Len(s) + 1) = p + 1
        BY <1>1
      <4>2. QED BY <1>1, <1>2, <3>1, <4>1
    <3>2. CASE i # Len(s) + 1
      <4>1. i \in 1..Len(s) /\ (p - Len(s)) + i = ((p + 1) - (Len(s) + 1)) + i
        BY <1>1, <3>2
      <4>2. Place(s[i]) = (p - Len(s)) + i
        BY <1>2, <4>1, HeldPlace
      <4>3. QED BY <1>1, <4>1, <4>2
    <3>3. QED BY <3>1, <3>2
  <2>2. QED BY <1>1, <2>1 DEF UpTo
<1>3. QED BY <1>1, <1>2

LEMMA LineUpTo ==
  ASSUME NEW s \in Seq(LineSymbol), NEW l \in 1..MaxLines
  PROVE  /\ s \o Line(l) \in Seq(LineSymbol) /\ Len(s \o Line(l)) = Len(s) + 6
         /\ UpTo(s, 6 * l - 1) => UpTo(s \o Line(l), 6 * l + 5)
<1>1. /\ Len(Line(l)) = 6 /\ l \in Nat
      /\ \A i \in 1..6 : Line(l)[i] \in LineSymbol /\ Place(Line(l)[i]) = 6 * l + (i - 1)
  BY LineSymbols, SerialAssumption
<1>2. Line(l) \in Seq(LineSymbol)
  BY <1>1 DEF Line, Sym, LineSymbol
<1>3. /\ s \o Line(l) \in Seq(LineSymbol) /\ Len(s \o Line(l)) = Len(s) + 6 /\ Len(s) \in Nat
      /\ \A i \in 1..(Len(s) + 6) :
           (s \o Line(l))[i] = IF i <= Len(s) THEN s[i] ELSE Line(l)[i - Len(s)]
  <2> DEFINE t == Line(l)
  <2>1. t \in Seq(LineSymbol) /\ Len(t) = 6
    BY <1>1, <1>2
  <2> HIDE DEF t
  <2>2. /\ s \o t \in Seq(LineSymbol) /\ Len(s \o t) = Len(s) + Len(t)
        /\ \A i \in 1..(Len(s) + Len(t)) :
             (s \o t)[i] = IF i <= Len(s) THEN s[i] ELSE t[i - Len(s)]
    BY <2>1, ConcatProperties
  <2>3. QED BY <2>1, <2>2, LenProperties DEF t
<1>4. ASSUME UpTo(s, 6 * l - 1) PROVE UpTo(s \o Line(l), 6 * l + 5)
  <2>1. ASSUME NEW i \in 1..(Len(s) + 6)
        PROVE  Place((s \o Line(l))[i]) = ((6 * l + 5) - (Len(s) + 6)) + i
    <3>1. CASE i <= Len(s)
      <4>1. /\ i \in 1..Len(s) /\ 6 * l - 1 \in Int
            /\ ((6 * l - 1) - Len(s)) + i = ((6 * l + 5) - (Len(s) + 6)) + i
        BY <1>1, <1>3, <3>1
      <4>2. Place(s[i]) = ((6 * l - 1) - Len(s)) + i
        BY <1>4, <4>1, HeldPlace
      <4>3. QED BY <1>3, <3>1, <4>1, <4>2
    <3>2. CASE ~(i <= Len(s))
      <4>1. /\ i - Len(s) \in 1..6
            /\ 6 * l + ((i - Len(s)) - 1) = ((6 * l + 5) - (Len(s) + 6)) + i
        <5> DEFINE n == Len(s)
        <5>1. n \in Nat /\ l \in Nat /\ i \in 1..(n + 6) /\ ~(i <= n)
          BY <1>1, <1>3, <3>2
        <5> HIDE DEF n
        <5>2. i - n \in 1..6 /\ 6 * l + ((i - n) - 1) = ((6 * l + 5) - (n + 6)) + i
          BY <5>1
        <5>3. QED BY <5>2 DEF n
      <4>2. Place(Line(l)[i - Len(s)]) = 6 * l + ((i - Len(s)) - 1)
        BY <1>1, <4>1
      <4>3. QED BY <1>3, <3>2, <4>1, <4>2
    <3>3. QED BY <3>1, <3>2
  <2>2. QED BY <1>3, <2>1 DEF UpTo
<1>5. QED BY <1>3, <1>4

-----------------------------------------------------------------------------
LEMMA Places ==
  ASSUME SerialTypes
  PROVE  /\ wire \in Seq(LineSymbol) /\ rx \in Seq(LineSymbol) /\ temp \in Seq(LineSymbol)
         /\ lines \in Nat /\ Len(wire) \in Nat /\ Len(rx) \in Nat /\ Len(temp) \in Nat
         /\ LastSent \in Int /\ LastArrived \in Int /\ LastRead \in Int /\ LastDone \in Int
         /\ LastDone <= LastRead /\ LastRead <= LastArrived /\ LastArrived <= LastSent
         /\ reading => LastDone = LastRead - Len(temp)
         /\ ~reading => LastDone = LastRead
<1>1. /\ wire \in Seq(LineSymbol) /\ rx \in Seq(LineSymbol) /\ temp \in Seq(LineSymbol)
      /\ lines \in Nat
  BY SerialAssumption DEF SerialTypes, LineSymbol
<1>2. Len(wire) \in Nat /\ Len(rx) \in Nat /\ Len(temp) \in Nat
  BY <1>1, LenProperties
<1>3. /\ reading => LastDone = LastRead - Len(temp)
      /\ ~reading => LastDone = LastRead - 0
  BY DEF LastDone
<1>4. \A n, a, b, c \in Nat :
        /\ 6 * n + 5 \in Int /\ (6 * n + 5) - a \in Int /\ ((6 * n + 5) - a) - b \in Int
        /\ (((6 * n + 5) - a) - b) - c \in Int
        /\ (((6 * n + 5) - a) - b) - c <= ((6 * n + 5) - a) - b
        /\ (((6 * n + 5) - a) - b) - 0 = ((6 * n + 5) - a) - b
        /\ ((6 * n + 5) - a) - b <= (6 * n + 5) - a /\ (6 * n + 5) - a <= 6 * n + 5
  OBVIOUS
<1>5. /\ LastSent \in Int /\ LastArrived \in Int /\ LastRead \in Int
      /\ LastRead - Len(temp) \in Int /\ LastRead - Len(temp) <= LastRead
      /\ LastRead - 0 = LastRead
      /\ LastRead <= LastArrived /\ LastArrived <= LastSent
  BY <1>1, <1>2, <1>4 DEF LastSent, LastArrived, LastRead
<1>6. QED BY <1>1, <1>2, <1>3, <1>5

-----------------------------------------------------------------------------
(* The histories and the commands are about lines. *)
LEMMA AboutLines ==
  ASSUME NEW s \in Seq(LineSymbol)
  PROVE  In(s) \subseteq 1..MaxLines /\ Objects(s) \subseteq (1..MaxLines) \X (1..MaxLines)
<1>1. DOMAIN s = 1..Len(s) /\ Len(s) \in Nat
  BY LenProperties
<1>2. \A k \in DOMAIN s : s[k].line \in 1..MaxLines
  <2>1. \A k \in DOMAIN s : s[k] \in LineSymbol
    BY <1>1, ElementOfSeq
  <2>2. \A x \in LineSymbol : x.line \in 1..MaxLines
    BY DEF LineSymbol
  <2>3. QED BY <2>1, <2>2
<1>3. In(s) \subseteq 1..MaxLines
  BY <1>2 DEF In
<1>4. \A k \in DOMAIN s : k + 3 <= Len(s) => k + 1 \in DOMAIN s /\ k + 2 \in DOMAIN s
  BY <1>1
<1>5. ASSUME NEW o \in Objects(s) PROVE o \in (1..MaxLines) \X (1..MaxLines)
  <2>1. PICK k \in DOMAIN s : k + 3 <= Len(s) /\ o = <<s[k + 1].line, s[k + 2].line>>
    BY <1>5 DEF Objects
  <2>2. s[k + 1].line \in 1..MaxLines /\ s[k + 2].line \in 1..MaxLines
    BY <1>2, <1>4, <2>1
  <2>3. QED BY <2>1, <2>2
<1>6. QED BY <1>3, <1>5

(* The steps of the serial side, as EspLoop takes them. *)
SerialStep == Call \/ Read \/ GiveUp \/ Parse \/ Send \/ Arrive \/ UNCHANGED serialVars

LEMMA TypesAre ==
  SerialTypes <=>
    /\ lines \in 0..MaxLines
    /\ wire \in Seq(LineSymbol) /\ rx \in Seq(LineSymbol) /\ temp \in Seq(LineSymbol)
    /\ Len(rx) <= RxSize /\ Len(temp) <= MAX_DOC + 1
    /\ reading \in BOOLEAN /\ dropped \in BOOLEAN
    /\ executed \in Seq((1..MaxLines) \X (1..MaxLines))
    /\ spoilt \subseteq 1..MaxLines
BY DEF SerialTypes, LineSymbol

LEMMA TypesThen ==
  SerialTypes' <=>
    /\ lines' \in 0..MaxLines
    /\ wire' \in Seq(LineSymbol) /\ rx' \in Seq(LineSymbol) /\ temp' \in Seq(LineSymbol)
    /\ Len(rx') <= RxSize /\ Len(temp') <= MAX_DOC + 1
    /\ reading' \in BOOLEAN /\ dropped' \in BOOLEAN
    /\ executed' \in Seq((1..MaxLines) \X (1..MaxLines))
    /\ spoilt' \subseteq 1..MaxLines
BY DEF SerialTypes, LineSymbol

LEMMA SerialTypesKept ==
  ASSUME SerialTypes, SerialStep
  PROVE  SerialTypes'
<1> USE SerialAssumption
<1>1. /\ lines \in 0..MaxLines
      /\ wire \in Seq(LineSymbol) /\ rx \in Seq(LineSymbol) /\ temp \in Seq(LineSymbol)
      /\ Len(rx) <= RxSize /\ Len(temp) <= MAX_DOC + 1
      /\ reading \in BOOLEAN /\ dropped \in BOOLEAN
      /\ executed \in Seq((1..MaxLines) \X (1..MaxLines))
      /\ spoilt \subseteq 1..MaxLines
  BY TypesAre
<1>2. Len(rx) \in Nat /\ Len(temp) \in Nat
  BY <1>1, LenProperties
<1>3. CASE Call
  <2>1. <<>> \in Seq(LineSymbol) /\ Len(<<>>) = 0 /\ 0 <= MAX_DOC + 1
    BY EmptySeq
  <2>2. QED BY <1>1, <1>3, <2>1, TypesThen DEF Call
<1>4. CASE Read
  <2>1. Head(rx) \in LineSymbol /\ Tail(rx) \in Seq(LineSymbol) /\ Len(Tail(rx)) = Len(rx) - 1
    BY <1>1, <1>4, TailUpTo DEF Read
  <2>2. /\ Append(temp, Head(rx)) \in Seq(LineSymbol)
        /\ Len(Append(temp, Head(rx))) = Len(temp) + 1
    BY <1>1, <2>1, AppendUpTo
  <2>3. Len(rx) - 1 <= RxSize /\ Len(temp) + 1 <= MAX_DOC + 1
    BY <1>1, <1>2, <1>4 DEF Read
  <2>4. QED BY <1>1, <1>4, <2>1, <2>2, <2>3, TypesThen DEF Read
<1>5. CASE GiveUp
  <2>1. In(temp) \subseteq 1..MaxLines
    BY <1>1, AboutLines
  <2>2. QED BY <1>1, <1>5, <2>1, TypesThen DEF GiveUp
<1>6. CASE Parse
  <2>1. In(temp) \subseteq 1..MaxLines /\ Objects(temp) \subseteq (1..MaxLines) \X (1..MaxLines)
    BY <1>1, AboutLines
  <2>2. executed' \in Seq((1..MaxLines) \X (1..MaxLines))
    <3>1. CASE Objects(temp) # {}
      <4> DEFINE c == CHOOSE o \in Objects(temp) : TRUE
      <4>1. c \in (1..MaxLines) \X (1..MaxLines)
        BY <2>1, <3>1
      <4>2. executed' = Append(executed, c) \/ executed' = executed
        BY <1>6 DEF Parse
      <4> HIDE DEF c
      <4>3. \A S : \A q \in Seq(S), x \in S : Append(q, x) \in Seq(S)
        BY AppendProperties
      <4>4. Append(executed, c) \in Seq((1..MaxLines) \X (1..MaxLines))
        BY <1>1, <4>1, <4>3, Zenon
      <4>5. QED BY <1>1, <4>2, <4>4
    <3>2. CASE Objects(temp) = {}
      BY <1>1, <1>6, <3>2 DEF Parse
    <3>3. QED BY <3>1, <3>2
  <2>3. /\ reading' = FALSE /\ temp' = temp /\ spoilt' \subseteq spoilt \cup In(temp)
        /\ UNCHANGED <<lines, wire, rx, dropped>>
    BY <1>6 DEF Parse, Return
  <2>4. QED BY <1>1, <2>1, <2>2, <2>3, TypesThen
<1>7. CASE Send
  <2>1. lines + 1 \in 1..MaxLines /\ lines + 1 \in 0..MaxLines
    BY <1>1, <1>7 DEF Send
  <2>2. wire \o Line(lines + 1) \in Seq(LineSymbol)
    BY <1>1, <2>1, LineUpTo
  <2>3. QED BY <1>1, <1>7, <2>1, <2>2, TypesThen DEF Send
<1>8. CASE Arrive
  <2>1. Head(wire) \in LineSymbol /\ Tail(wire) \in Seq(LineSymbol)
    BY <1>1, <1>8, TailUpTo DEF Arrive
  <2>2. Append(rx, Head(wire)) \in Seq(LineSymbol) /\ Len(Append(rx, Head(wire))) = Len(rx) + 1
    BY <1>1, <2>1, AppendUpTo
  <2>3. Len(rx) < RxSize => Len(rx) + 1 <= RxSize
    BY <1>2
  <2>4. QED BY <1>1, <1>8, <2>1, <2>2, <2>3, TypesThen DEF Arrive
<1>9. CASE UNCHANGED serialVars
  BY <1>1, <1>9, TypesThen DEF serialVars
<1>10. QED BY <1>3, <1>4, <1>5, <1>6, <1>7, <1>8, <1>9 DEF SerialStep

-----------------------------------------------------------------------------
(* The end of a call moves the place up to which lines are dealt with; V is what *)
(* it carries out.                                                               *)
LEMMA DealtWith ==
  ASSUME SerialTypes, Contiguous, reading,
         Sorted(Carried, spoilt, LastDone), InTurn(executed, LastDone),
         NEW V, V = {} \/ V = Served(temp)
  PROVE  Sorted(Carried \cup V, spoilt \cup (In(temp) \ V), LastRead)
<1> DEFINE p == LastDone
           q == LastRead
<1>1. /\ temp \in Seq(LineSymbol) /\ lines \in Nat /\ p \in Int /\ q \in Int /\ Len(temp) \in Nat
      /\ p = q - Len(temp) /\ p <= q /\ q <= 6 * lines + 5
  <2>1. LastSent = 6 * lines + 5 /\ LastSent \in Int
    BY Places DEF LastSent
  <2>2. \A a, b, c \in Int : a <= b /\ b <= c => a <= c
    OBVIOUS
  <2>3. QED BY <2>1, <2>2, Places
<1>2. UpTo(temp, q)
  BY DEF Contiguous
<1>3. /\ \A l \in spoilt : l <= lines /\ 6 * l <= p
      /\ \A l \in 1..lines : 6 * l <= p => (l \in Carried <=> l \notin spoilt)
      /\ \A l \in 1..lines : 6 * l <= p /\ p < 6 * l + 3 => l \in spoilt
  BY DEF Sorted
<1>4. spoilt \subseteq Int /\ 1..MaxLines \subseteq Nat
  BY SerialAssumption, TypesAre
<1>5. \A l \in Carried : l \in Nat /\ 6 * l + 3 <= p
  <2>1. /\ executed \in Seq((1..MaxLines) \X (1..MaxLines))
        /\ \A k \in 1..Len(executed) : 6 * executed[k][1] + 3 <= p
    BY TypesAre DEF InTurn
  <2>2. DOMAIN executed = 1..Len(executed)
    BY <2>1, LenProperties
  <2>3. \A k \in 1..Len(executed) : executed[k] \in (1..MaxLines) \X (1..MaxLines)
    BY <2>1, ElementOfSeq
  <2>4. \A k \in 1..Len(executed) : executed[k][1] \in Nat
    BY <1>4, <2>3
  <2>5. QED BY <2>1, <2>2, <2>4 DEF Carried
<1> HIDE DEF p, q
<1>6. In(temp) \subseteq 1..MaxLines
  BY <1>1, AboutLines
<1>7. \A l \in In(temp) : 6 * l <= q /\ p < 6 * l + 3
  BY <1>1, <1>2, InRange
<1>8. \A l \in Int : 6 * l <= q /\ p < 6 * l + 3 /\ p < q => l \in In(temp)
  BY <1>1, <1>2, InRange
<1>9. V \subseteq In(temp) /\ \A l \in V : p < 6 * l /\ 6 * l + 3 <= q
  <2>1. \A l \in Served(temp) : l \in In(temp) /\ p < 6 * l /\ 6 * l + 3 <= q
    BY <1>1, <1>2, ServedIs
  <2>2. QED BY <2>1
<1>10. \A l \in In(temp) : l \in 1..lines
  <2>1. \A n, l \in Nat, r \in Int : 6 * l <= r /\ r <= 6 * n + 5 => l <= n
    OBVIOUS
  <2>2. \A l \in 1..MaxLines : l \in Nat /\ 1 <= l
    BY SerialAssumption
  <2>3. \A l \in In(temp) : l \in Nat /\ 1 <= l /\ l <= lines
    BY <1>1, <1>6, <1>7, <2>1, <2>2
  <2>4. QED BY <1>1, <2>3
<1>11. ASSUME NEW l \in spoilt \cup (In(temp) \ V) PROVE l <= lines /\ 6 * l <= q
  <2>1. CASE l \in spoilt
    BY <1>1, <1>3, <1>4, <2>1
  <2>2. CASE l \in In(temp)
    BY <1>1, <1>7, <1>10, <2>2
  <2>3. QED BY <1>11, <2>1, <2>2
<1>12. ASSUME NEW l \in 1..lines, 6 * l <= q
       PROVE  l \in Carried \cup V <=> l \notin spoilt \cup (In(temp) \ V)
  <2>1. l \in Int /\ 6 * l \in Int
    BY <1>1
  <2>2. CASE 6 * l <= p
    <3>1. l \notin V
      BY <1>1, <1>9, <2>1, <2>2
    <3>2. l \in In(temp) => l \in spoilt
      BY <1>3, <1>7, <2>2
    <3>3. l \in Carried <=> l \notin spoilt
      BY <1>3, <2>2
    <3>4. QED BY <3>1, <3>2, <3>3
  <2>3. CASE ~(6 * l <= p)
    <3>1. l \notin Carried
      <4>1. \A n \in Nat : 6 * n + 3 <= p => 6 * n <= p
        BY <1>1
      <4>2. QED BY <1>5, <2>3, <4>1
    <3>2. l \notin spoilt
      BY <1>3, <2>3
    <3>3. l \in In(temp)
      BY <1>1, <1>8, <1>12, <2>1, <2>3
    <3>4. QED BY <3>1, <3>2, <3>3
  <2>4. QED BY <2>2, <2>3
<1>13. ASSUME NEW l \in 1..lines, 6 * l <= q, q < 6 * l + 3
       PROVE  l \in spoilt \cup (In(temp) \ V)
  <2>1. l \in Int
    BY <1>1
  <2>2. l \notin V
    BY <1>1, <1>9, <1>13, <2>1
  <2>3. CASE p < q
    <3>1. p < 6 * l + 3
      BY <1>1, <1>13, <2>1
    <3>2. l \in In(temp)
      BY <1>8, <1>13, <2>1, <2>3, <3>1
    <3>3. QED BY <2>2, <3>2
  <2>4. CASE ~(p < q)
    <3>1. p = q
      BY <1>1, <2>4
    <3>2. QED BY <1>3, <1>13, <3>1
  <2>5. QED BY <2>3, <2>4
<1>14. QED BY <1>11, <1>12, <1>13 DEF Sorted, q

(* What is carried out at the end of a call comes after what has been. *)
LEMMA OneMore ==
  ASSUME SerialTypes, Contiguous, reading, InTurn(executed, LastDone), NEW v \in Served(temp)
  PROVE  /\ InTurn(Append(executed, <<v, v>>), LastRead)
         /\ {Append(executed, <<v, v>>)[k][1] : k \in DOMAIN Append(executed, <<v, v>>)}
              = Carried \cup {v}
<1> DEFINE p == LastDone
           q == LastRead
           n == Len(executed)
           f == Append(executed, <<v, v>>)
<1>1. /\ temp \in Seq(LineSymbol) /\ p \in Int /\ q \in Int /\ Len(temp) \in Nat
      /\ p = q - Len(temp) /\ p <= q /\ UpTo(temp, q)
  BY Places DEF Contiguous
<1>2. v \in 1..MaxLines /\ v \in Nat /\ p < 6 * v /\ 6 * v + 3 <= q
  <2>1. v \in In(temp) /\ p < 6 * v /\ 6 * v + 3 <= q
    BY <1>1, ServedIs
  <2>2. v \in 1..MaxLines
    BY <1>1, <2>1, AboutLines
  <2>3. QED BY <2>1, <2>2, SerialAssumption
<1>3. executed \in Seq((1..MaxLines) \X (1..MaxLines)) /\ n \in Nat /\ DOMAIN executed = 1..n
  <2>1. executed \in Seq((1..MaxLines) \X (1..MaxLines))
    BY TypesAre
  <2>2. QED BY <2>1, LenProperties
<1>4. <<v, v>> \in (1..MaxLines) \X (1..MaxLines) /\ <<v, v>>[1] = v /\ <<v, v>>[2] = v
  BY <1>2
<1>5. /\ Len(f) = n + 1 /\ DOMAIN f = 1..(n + 1) /\ f[n + 1] = <<v, v>>
      /\ \A k \in 1..n : f[k] = executed[k]
  <2> DEFINE S == (1..MaxLines) \X (1..MaxLines)
  <2>1. executed \in Seq(S) /\ <<v, v>> \in S
    BY <1>3, <1>4
  <2> HIDE DEF S
  <2>2. /\ f \in Seq(S) /\ Len(f) = n + 1 /\ f[n + 1] = <<v, v>>
        /\ \A k \in 1..n : f[k] = executed[k]
    BY <2>1, AppendProperties
  <2>3. QED BY <2>2, LenProperties
<1>6. \A k \in 1..n : executed[k][1] \in Nat
  <2>1. \A k \in 1..n : executed[k] \in (1..MaxLines) \X (1..MaxLines)
    BY <1>3, ElementOfSeq
  <2>2. QED BY <2>1, SerialAssumption
<1>7. /\ \A k \in 1..n : executed[k][1] = executed[k][2] /\ 6 * executed[k][1] + 3 <= p
      /\ \A j, k \in 1..n : j < k => executed[j][1] < executed[k][1]
  BY DEF InTurn
<1> HIDE DEF p, q, n, f
<1>8. \A k \in 1..(n + 1) : k = n + 1 \/ k \in 1..n
  BY <1>3
<1>9. \A k \in 1..n : 6 * executed[k][1] + 3 <= q /\ executed[k][1] < v
  <2>1. \A x \in Nat : 6 * x + 3 <= p => 6 * x + 3 <= q /\ x < v
    BY <1>1, <1>2
  <2>2. QED BY <1>6, <1>7, <2>1
<1>10. \A k \in 1..(n + 1) : f[k][1] = f[k][2] /\ 6 * f[k][1] + 3 <= q
  BY <1>2, <1>4, <1>5, <1>7, <1>8, <1>9
<1>11. ASSUME NEW j \in 1..(n + 1), NEW k \in 1..(n + 1), j < k PROVE f[j][1] < f[k][1]
  <2>1. j \in 1..n
    BY <1>3, <1>11
  <2>2. CASE k = n + 1
    BY <1>4, <1>5, <1>9, <2>1, <2>2
  <2>3. CASE k \in 1..n
    BY <1>5, <1>7, <1>11, <2>1, <2>3
  <2>4. QED BY <1>8, <2>2, <2>3
<1>12. InTurn(f, q)
  BY <1>5, <1>10, <1>11 DEF InTurn
<1>13. {f[k][1] : k \in DOMAIN f} = Carried \cup {v}
  <2>1. ASSUME NEW x \in {f[k][1] : k \in DOMAIN f} PROVE x \in Carried \cup {v}
    <3>1. PICK k \in 1..(n + 1) : x = f[k][1]
      BY <1>5
    <3>2. QED BY <1>3, <1>4, <1>5, <1>8, <3>1 DEF Carried
  <2>2. ASSUME NEW x \in Carried PROVE x \in {f[k][1] : k \in DOMAIN f}
    <3>1. PICK k \in 1..n : x = executed[k][1]
      BY <1>3 DEF Carried
    <3>2. k \in DOMAIN f /\ x = f[k][1]
      BY <1>3, <1>5, <3>1
    <3>3. QED BY <3>2
  <2>3. n + 1 \in DOMAIN f /\ v = f[n + 1][1]
    BY <1>3, <1>4, <1>5
  <2>4. QED BY <2>1, <2>2, <2>3
<1>14. QED BY <1>12, <1>13 DEF f, q

-----------------------------------------------------------------------------
LEMMA InvSend ==
  ASSUME SerialInv, ~dropped, Send
  PROVE  SerialInv'
<1>1. SerialTypes /\ SerialTypes'
  BY SerialTypesKept DEF SerialInv, SerialStep
<1>2. lines + 1 \in 1..MaxLines /\ lines \in Nat
  <2>1. lines \in 0..MaxLines /\ lines < MaxLines
    BY <1>1, TypesAre DEF Send
  <2>2. QED BY <2>1, SerialAssumption
<1>3. /\ lines' = lines + 1 /\ wire' = wire \o Line(lines + 1)
      /\ UNCHANGED <<rx, reading, temp, executed, spoilt, dropped>>
  BY DEF Send
<1>4. /\ Contiguous
      /\ Sorted(Carried, spoilt, LastDone) /\ InTurn(executed, LastDone)
  BY DEF SerialInv
<1>5. UpTo(wire', LastSent') /\ LastArrived' = LastArrived
  <2>1. wire \in Seq(LineSymbol) /\ Len(wire) \in Nat /\ UpTo(wire, LastSent)
    BY <1>1, <1>4, Places DEF Contiguous
  <2>2. /\ Len(wire \o Line(lines + 1)) = Len(wire) + 6
        /\ UpTo(wire, 6 * (lines + 1) - 1)
             => UpTo(wire \o Line(lines + 1), 6 * (lines + 1) + 5)
    BY <1>2, <2>1, LineUpTo
  <2>3. /\ 6 * (lines + 1) - 1 = 6 * lines + 5
        /\ (6 * (lines + 1) + 5) - (Len(wire) + 6) = (6 * lines + 5) - Len(wire)
    BY <1>2, <2>1
  <2>4. LastSent' = 6 * (lines + 1) + 5
    BY <1>3 DEF LastSent
  <2>5. UpTo(wire', LastSent')
    <3>1. UpTo(wire \o Line(lines + 1), 6 * (lines + 1) + 5)
      BY <2>1, <2>2, <2>3 DEF LastSent
    <3>2. QED BY <1>3, <2>4, <3>1
  <2>6. LastArrived' = LastArrived
    <3>1. LastArrived' = (6 * (lines + 1) + 5) - (Len(wire) + 6)
      BY <1>3, <2>2, <2>4 DEF LastArrived
    <3>2. QED BY <2>3, <3>1 DEF LastArrived, LastSent
  <2>7. QED BY <2>5, <2>6
<1>6. LastRead' = LastRead /\ LastDone' = LastDone /\ Carried' = Carried
  BY <1>3, <1>5 DEF LastRead, LastDone, Carried
<1>7. Contiguous'
  BY <1>3, <1>4, <1>5, <1>6 DEF Contiguous, UpTo
<1>8. Sorted(Carried, spoilt, LastDone)'
  <2> DEFINE p == LastDone
  <2>1. p \in Int /\ p < 6 * (lines + 1)
    <3>1. \A n \in Nat, a, b, c \in Int : a <= b /\ b <= c /\ c <= 6 * n + 5 => a < 6 * (n + 1)
      OBVIOUS
    <3>2. LastSent <= 6 * lines + 5
      BY <1>2 DEF LastSent
    <3>3. /\ LastArrived \in Int /\ LastRead \in Int /\ LastDone \in Int
          /\ LastDone <= LastRead /\ LastRead <= LastArrived
      BY <1>1, Places
    <3>4. LastArrived <= 6 * lines + 5
      <4>1. LastArrived <= LastSent /\ LastSent \in Int
        BY <1>1, Places
      <4>2. \A n \in Nat, a, b \in Int : a <= b /\ b <= 6 * n + 5 => a <= 6 * n + 5
        OBVIOUS
      <4>3. QED BY <1>2, <3>2, <3>3, <4>1, <4>2
    <3>5. QED BY <1>2, <3>1, <3>3, <3>4
  <2>2. /\ \A l \in spoilt : l <= lines /\ 6 * l <= p
        /\ \A l \in 1..lines : 6 * l <= p => (l \in Carried <=> l \notin spoilt)
        /\ \A l \in 1..lines : 6 * l <= p /\ p < 6 * l + 3 => l \in spoilt
    BY <1>4 DEF Sorted
  <2>3. spoilt \subseteq Int
    BY <1>1, TypesAre, SerialAssumption
  <2> HIDE DEF p
  <2>4. \A l \in 1..(lines + 1) : 6 * l <= p => l \in 1..lines
    BY <1>2, <2>1
  <2>5. \A l \in spoilt : l <= lines + 1
    BY <1>2, <2>2, <2>3
  <2>6. /\ \A l \in spoilt : l <= lines' /\ 6 * l <= p
        /\ \A l \in 1..lines' : 6 * l <= p => (l \in Carried <=> l \notin spoilt)
        /\ \A l \in 1..lines' : 6 * l <= p /\ p < 6 * l + 3 => l \in spoilt
    BY <1>3, <2>2, <2>4, <2>5
  <2>7. QED BY <1>3, <1>6, <2>6 DEF Sorted, p
<1>9. InTurn(executed, LastDone)'
  BY <1>3, <1>4, <1>6 DEF InTurn
<1>10. QED BY <1>1, <1>7, <1>8, <1>9 DEF SerialInv

LEMMA InvArrive ==
  ASSUME SerialInv, ~dropped', Arrive
  PROVE  SerialInv'
<1>1. SerialTypes /\ SerialTypes'
  BY SerialTypesKept DEF SerialInv, SerialStep
<1>2. /\ wire # <<>> /\ wire' = Tail(wire) /\ rx' = Append(rx, Head(wire))
      /\ ~dropped /\ UNCHANGED <<lines, reading, temp, executed, spoilt>>
  BY DEF Arrive
<1>3. /\ Contiguous
      /\ Sorted(Carried, spoilt, LastDone) /\ InTurn(executed, LastDone)
  BY <1>2 DEF SerialInv
<1>4. /\ wire \in Seq(LineSymbol) /\ rx \in Seq(LineSymbol)
      /\ Len(wire) \in Nat /\ Len(rx) \in Nat /\ LastSent \in Int
      /\ UpTo(wire, LastSent) /\ UpTo(rx, LastSent - Len(wire))
  BY <1>1, <1>3, Places DEF Contiguous, LastArrived
<1>5. /\ Head(wire) \in LineSymbol /\ Len(Tail(wire)) = Len(wire) - 1
      /\ UpTo(Tail(wire), LastSent) /\ Place(Head(wire)) = (LastSent - Len(wire)) + 1
  BY <1>2, <1>4, TailUpTo
<1>6. /\ Len(Append(rx, Head(wire))) = Len(rx) + 1
      /\ UpTo(Append(rx, Head(wire)), (LastSent - Len(wire)) + 1)
  <2>1. LastSent - Len(wire) \in Int
    BY <1>4
  <2>2. QED BY <1>4, <1>5, <2>1, AppendUpTo
<1>7. LastSent' = LastSent
  BY <1>2 DEF LastSent
<1>8. LastArrived' = (LastSent - Len(wire)) + 1 /\ LastRead' = LastRead
  <2>1. \A s, m, n \in Int : s - (m - 1) = (s - m) + 1 /\ ((s - m) + 1) - (n + 1) = (s - m) - n
    OBVIOUS
  <2>2. LastArrived' = LastSent - (Len(wire) - 1)
    BY <1>2, <1>5, <1>7 DEF LastArrived
  <2>3. LastArrived' = (LastSent - Len(wire)) + 1
    BY <1>4, <2>1, <2>2
  <2>4. LastRead' = ((LastSent - Len(wire)) + 1) - (Len(rx) + 1)
    BY <1>2, <1>6, <2>3 DEF LastRead
  <2>5. LastRead' = (LastSent - Len(wire)) - Len(rx)
    BY <1>4, <2>1, <2>4
  <2>6. QED BY <2>3, <2>5 DEF LastRead, LastArrived
<1>9. LastDone' = LastDone /\ Carried' = Carried
  BY <1>2, <1>8 DEF LastDone, Carried
<1>10. Contiguous'
  <2>1. UpTo(wire', LastSent') /\ UpTo(rx', LastArrived')
    BY <1>2, <1>5, <1>6, <1>7, <1>8
  <2>2. (reading => UpTo(temp, LastRead))'
    BY <1>2, <1>3, <1>8 DEF Contiguous
  <2>3. QED BY <2>1, <2>2 DEF Contiguous, UpTo
<1>11. Sorted(Carried, spoilt, LastDone)' /\ InTurn(executed, LastDone)'
  BY <1>2, <1>3, <1>9 DEF Sorted, InTurn
<1>12. QED BY <1>1, <1>10, <1>11 DEF SerialInv

LEMMA InvCall ==
  ASSUME SerialInv, ~dropped, Call
  PROVE  SerialInv'
<1>1. SerialTypes /\ SerialTypes'
  BY SerialTypesKept DEF SerialInv, SerialStep
<1>2. /\ ~reading /\ reading' = TRUE /\ temp' = <<>>
      /\ UNCHANGED <<lines, wire, rx, executed, spoilt, dropped>>
  BY DEF Call
<1>3. /\ Contiguous
      /\ Sorted(Carried, spoilt, LastDone) /\ InTurn(executed, LastDone)
  BY DEF SerialInv
<1>4. LastSent' = LastSent /\ LastArrived' = LastArrived /\ LastRead' = LastRead
  BY <1>2 DEF LastSent, LastArrived, LastRead
<1>5. LastDone' = LastDone
  <2>1. LastDone = LastRead /\ LastRead \in Int
    BY <1>1, <1>2, Places
  <2>2. LastDone' = LastRead - Len(<<>>)
    BY <1>2, <1>4 DEF LastDone
  <2>3. QED BY <2>1, <2>2
<1>6. UpTo(temp', LastRead')
  BY <1>2, EmptyUpTo
<1>7. Contiguous'
  BY <1>2, <1>3, <1>4, <1>6 DEF Contiguous, UpTo
<1>8. Sorted(Carried, spoilt, LastDone)' /\ InTurn(executed, LastDone)'
  BY <1>2, <1>3, <1>5 DEF Sorted, InTurn, Carried
<1>9. QED BY <1>1, <1>7, <1>8 DEF SerialInv

LEMMA InvRead ==
  ASSUME SerialInv, ~dropped, Read
  PROVE  SerialInv'
<1>1. SerialTypes /\ SerialTypes'
  BY SerialTypesKept DEF SerialInv, SerialStep
<1>2. /\ reading /\ rx # <<>> /\ temp' = Append(temp, Head(rx)) /\ rx' = Tail(rx)
      /\ UNCHANGED <<lines, wire, reading, executed, spoilt, dropped>>
  BY DEF Read
<1>3. /\ Contiguous
      /\ Sorted(Carried, spoilt, LastDone) /\ InTurn(executed, LastDone)
  BY DEF SerialInv
<1>4. /\ rx \in Seq(LineSymbol) /\ temp \in Seq(LineSymbol)
      /\ Len(rx) \in Nat /\ Len(temp) \in Nat /\ LastArrived \in Int
      /\ UpTo(rx, LastArrived) /\ UpTo(temp, LastArrived - Len(rx))
  BY <1>1, <1>2, <1>3, Places DEF Contiguous, LastRead
<1>5. /\ Head(rx) \in LineSymbol /\ Len(Tail(rx)) = Len(rx) - 1
      /\ UpTo(Tail(rx), LastArrived) /\ Place(Head(rx)) = (LastArrived - Len(rx)) + 1
  BY <1>2, <1>4, TailUpTo
<1>6. /\ Len(Append(temp, Head(rx))) = Len(temp) + 1
      /\ UpTo(Append(temp, Head(rx)), (LastArrived - Len(rx)) + 1)
  <2>1. LastArrived - Len(rx) \in Int
    BY <1>4
  <2>2. QED BY <1>4, <1>5, <2>1, AppendUpTo
<1>7. LastSent' = LastSent /\ LastArrived' = LastArrived
  BY <1>2 DEF LastSent, LastArrived
<1>8. LastRead' = (LastArrived - Len(rx)) + 1 /\ LastDone' = LastDone
  <2>1. \A s, m, n \in Int : s - (m - 1) = (s - m) + 1 /\ ((s - m) + 1) - (n + 1) = (s - m) - n
    OBVIOUS
  <2>2. LastRead' = LastArrived - (Len(rx) - 1)
    BY <1>2, <1>5, <1>7 DEF LastRead
  <2>3. LastRead' = (LastArrived - Len(rx)) + 1
    BY <1>4, <2>1, <2>2
  <2>4. LastDone' = LastRead' - Len(temp') /\ LastDone = LastRead - Len(temp)
    BY <1>2 DEF LastDone
  <2>5. LastDone' = ((LastArrived - Len(rx)) + 1) - (Len(temp) + 1)
    BY <1>2, <1>6, <2>3, <2>4
  <2>6. LastDone' = (LastArrived - Len(rx)) - Len(temp)
    BY <1>4, <2>1, <2>5
  <2>7. QED BY <2>3, <2>4, <2>6 DEF LastRead
<1>9. Contiguous'
  <2>1. UpTo(temp', LastRead') /\ UpTo(rx', LastArrived')
    BY <1>2, <1>5, <1>6, <1>7, <1>8
  <2>2. UpTo(wire, LastSent)'
    BY <1>2, <1>3, <1>7 DEF Contiguous
  <2>3. QED BY <2>1, <2>2 DEF Contiguous, UpTo
<1>10. Sorted(Carried, spoilt, LastDone)' /\ InTurn(executed, LastDone)'
  BY <1>2, <1>3, <1>8 DEF Sorted, InTurn, Carried
<1>11. QED BY <1>1, <1>9, <1>10 DEF SerialInv

(* Commands that are whole lines up to one place are so up to a later one. *)
LEMMA CommandsStay ==
  ASSUME SerialTypes, InTurn(executed, LastDone)
  PROVE  InTurn(executed, LastRead)
<1>1. LastDone \in Int /\ LastRead \in Int /\ LastDone <= LastRead
  BY Places
<1>2. \A k \in 1..Len(executed) : executed[k][1] \in Nat
  <2>1. executed \in Seq((1..MaxLines) \X (1..MaxLines))
    BY TypesAre
  <2>2. \A k \in 1..Len(executed) : executed[k] \in (1..MaxLines) \X (1..MaxLines)
    BY <2>1, ElementOfSeq
  <2>3. QED BY <2>2, SerialAssumption
<1>3. \A n \in Nat, a, b \in Int : a <= b /\ 6 * n + 3 <= a => 6 * n + 3 <= b
  OBVIOUS
<1>4. QED BY <1>1, <1>2, <1>3 DEF InTurn

LEMMA InvGiveUp ==
  ASSUME SerialInv, ~dropped, GiveUp
  PROVE  SerialInv'
<1>1. SerialTypes /\ SerialTypes'
  BY SerialTypesKept DEF SerialInv, SerialStep
<1>2. /\ reading /\ ~reading' /\ spoilt' = spoilt \cup In(temp)
      /\ UNCHANGED <<lines, wire, rx, temp, executed, dropped>>
  BY DEF GiveUp
<1>3. /\ Contiguous
      /\ Sorted(Carried, spoilt, LastDone) /\ InTurn(executed, LastDone)
  BY DEF SerialInv
<1>4. LastSent' = LastSent /\ LastArrived' = LastArrived /\ LastRead' = LastRead
  BY <1>2 DEF LastSent, LastArrived, LastRead
<1>5. LastDone' = LastRead
  BY <1>1, <1>2, <1>4, Places DEF LastDone
<1>6. Contiguous'
  BY <1>2, <1>3, <1>4 DEF Contiguous, UpTo
<1>7. Sorted(Carried, spoilt, LastDone)'
  <2>1. Sorted(Carried \cup {}, spoilt \cup (In(temp) \ {}), LastRead)
    BY <1>1, <1>2, <1>3, DealtWith
  <2>2. Carried \cup {} = Carried /\ In(temp) \ {} = In(temp) /\ Carried' = Carried
    BY <1>2 DEF Carried
  <2>3. QED BY <1>2, <1>5, <2>1, <2>2 DEF Sorted
<1>8. InTurn(executed, LastDone)'
  BY <1>1, <1>2, <1>3, <1>5, CommandsStay DEF InTurn
<1>9. QED BY <1>1, <1>6, <1>7, <1>8 DEF SerialInv

LEMMA InvParse ==
  ASSUME SerialInv, ~dropped, Parse
  PROVE  SerialInv'
<1>1. SerialTypes /\ SerialTypes'
  BY SerialTypesKept DEF SerialInv, SerialStep
<1>2. /\ reading /\ ~reading' /\ spoilt' = spoilt \cup (In(temp) \ Served(temp))
      /\ UNCHANGED <<lines, wire, rx, temp, dropped>>
  BY DEF Parse, Return
<1>3. /\ Contiguous
      /\ Sorted(Carried, spoilt, LastDone) /\ InTurn(executed, LastDone)
  BY DEF SerialInv
<1>4. LastSent' = LastSent /\ LastArrived' = LastArrived /\ LastRead' = LastRead
  BY <1>2 DEF LastSent, LastArrived, LastRead
<1>5. LastDone' = LastRead
  BY <1>1, <1>2, <1>4, Places DEF LastDone
<1>6. Contiguous'
  BY <1>2, <1>3, <1>4 DEF Contiguous, UpTo
<1>7. temp \in Seq(LineSymbol) /\ LastRead \in Int /\ UpTo(temp, LastRead)
  BY <1>1, <1>2, <1>3, Places DEF Contiguous
<1>8. Sorted(Carried \cup Served(temp), spoilt', LastRead)
  BY <1>1, <1>2, <1>3, DealtWith
<1>9. Carried' = Carried \cup Served(temp) /\ InTurn(executed', LastRead)
  <2>1. CASE Served(temp) = {}
    <3>1. Objects(temp) = {}
      BY <1>7, <2>1, ObjectServed
    <3>2. executed' = executed
      BY <3>1 DEF Parse
    <3>3. QED BY <1>1, <1>3, <2>1, <3>2, CommandsStay DEF Carried
  <2>2. CASE Served(temp) # {}
    <3>1. Objects(temp) # {} /\ {"open", "close"} \subseteq Chars(temp)
      BY <1>7, <2>2, ServedObject
    <3>2. PICK o \in Objects(temp) : executed' = Append(executed, o)
      <4>1. (CHOOSE o \in Objects(temp) : TRUE) \in Objects(temp)
        BY <3>1
      <4>2. QED BY <3>1, <4>1 DEF Parse
    <3>3. PICK v \in Served(temp) : o = <<v, v>>
      BY <1>7, ObjectServed
    <3>4. Served(temp) = {v}
      <4>1. \A l, m \in Served(temp) : l <= m /\ l \in Nat /\ m \in Nat
        <5>1. \A l \in Served(temp) : l \in In(temp) /\ \A m \in In(temp) : l <= m
          BY DEF Served
        <5>2. \A l \in In(temp) : l \in Nat
          BY <1>7, AboutLines, SerialAssumption
        <5>3. QED BY <5>1, <5>2
      <4>2. \A l, m \in Nat : l <= m /\ m <= l => l = m
        OBVIOUS
      <4>3. QED BY <4>1, <4>2
    <3>5. /\ InTurn(Append(executed, <<v, v>>), LastRead)
          /\ {Append(executed, <<v, v>>)[k][1] : k \in DOMAIN Append(executed, <<v, v>>)}
               = Carried \cup {v}
      BY <1>1, <1>2, <1>3, OneMore
    <3>6. executed' = Append(executed, <<v, v>>)
      BY <3>2, <3>3
    <3>7. Carried' = Carried \cup {v}
      BY <3>5, <3>6 DEF Carried
    <3>8. QED BY <3>4, <3>5, <3>6, <3>7
  <2>3. QED BY <2>1, <2>2
<1>10. Sorted(Carried, spoilt, LastDone)' /\ InTurn(executed, LastDone)'
  BY <1>2, <1>5, <1>8, <1>9 DEF Sorted, InTurn
<1>11. QED BY <1>1, <1>6, <1>10 DEF SerialInv

LEMMA SerialInvKept ==
  ASSUME SerialInv, SerialStep
  PROVE  SerialInv'
<1>1. SerialTypes'
  BY SerialTypesKept DEF SerialInv
<1>2. CASE dropped'
  BY <1>1, <1>2 DEF SerialInv
<1>3. CASE ~dropped'
  <2>1. CASE Call
    BY <1>3, <2>1, InvCall DEF Call
  <2>2. CASE Read
    BY <1>3, <2>2, InvRead DEF Read
  <2>3. CASE GiveUp
    BY <1>3, <2>3, InvGiveUp DEF GiveUp
  <2>4. CASE Parse
    BY <1>3, <2>4, InvParse DEF Parse
  <2>5. CASE Send
    BY <1>3, <2>5, InvSend DEF Send
  <2>6. CASE Arrive
    BY <1>3, <2>6, InvArrive
  <2>7. CASE UNCHANGED serialVars
    <3>1. UNCHANGED <<lines, wire, rx, reading, temp, executed, spoilt, dropped>>
      BY <2>7 DEF serialVars
    <3>2. /\ Contiguous
          /\ Sorted(Carried, spoilt, LastDone) /\ InTurn(executed, LastDone)
      BY <1>3, <3>1 DEF SerialInv
    <3>3. /\ LastSent' = LastSent /\ LastArrived' = LastArrived /\ LastRead' = LastRead
          /\ LastDone' = LastDone /\ Carried' = Carried
      BY <3>1 DEF LastSent, LastArrived, LastRead, LastDone, Carried
    <3>4. Contiguous'
      BY <3>1, <3>2, <3>3 DEF Contiguous, UpTo
    <3>5. Sorted(Carried, spoilt, LastDone)' /\ InTurn(executed, LastDone)'
      BY <3>1, <3>2, <3>3 DEF Sorted, InTurn
    <3>6. QED BY <1>1, <3>4, <3>5 DEF SerialInv
  <2>8. QED BY <2>1, <2>2, <2>3, <2>4, <2>5, <2>6, <2>7 DEF SerialStep
<1>4. QED BY <1>2, <1>3

LEMMA SerialInvStarts == LoopInit => SerialInv
<1>1. SUFFICES ASSUME LoopInit PROVE SerialInv
  OBVIOUS
<1>2. /\ lines = 0 /\ wire = <<>> /\ rx = <<>> /\ reading = FALSE /\ temp = <<>>
      /\ executed = <<>> /\ spoilt = {} /\ dropped = FALSE
  BY <1>1 DEF LoopInit, SerialInit
<1>3. /\ \A S : <<>> \in Seq(S)
      /\ Len(<<>>) = 0 /\ 1..0 = {} /\ 0 \in 0..MaxLines /\ 0 <= RxSize /\ 0 <= MAX_DOC + 1
  BY EmptySeq, SerialAssumption
<1>4. SerialTypes
  BY <1>2, <1>3, TypesAre
<1>5. Contiguous
  BY <1>2, EmptyUpTo DEF Contiguous
<1>6. Sorted(Carried, spoilt, LastDone) /\ InTurn(executed, LastDone)
  <2>1. \A k \in 1..Len(executed) : FALSE
    BY <1>2, <1>3
  <2>2. \A l \in 1..lines : FALSE
    BY <1>2
  <2>3. QED BY <1>2, <2>1, <2>2 DEF Sorted, InTurn
<1>7. QED BY <1>4, <1>5, <1>6 DEF SerialInv

(* What LoopNext does on the serial side. *)
LEMMA LoopIsSerial == [LoopNext]_allVars => SerialStep
<1>1. SUFFICES ASSUME [LoopNext]_allVars PROVE SerialStep
  OBVIOUS
<1>2. CASE LoopBle
  BY <1>2 DEF LoopBle, SerialStep
<1>3. CASE Receive
  BY <1>3 DEF Receive, SerialStep
<1>4. CASE Bluetooth
  BY <1>4 DEF Bluetooth, SerialStep
<1>5. CASE Serial
  BY <1>5 DEF Serial, SerialStep
<1>6. CASE UNCHANGED allVars
  BY <1>6 DEF allVars, SerialStep
<1>7. QED BY <1>1, <1>2, <1>3, <1>4, <1>5, <1>6 DEF LoopNext

LEMMA SerialInvHolds == LoopSpec => []SerialInv
<1>1. SerialInv /\ [LoopNext]_allVars => SerialInv'
  BY LoopIsSerial, SerialInvKept
<1>2. QED BY <1>1, SerialInvStarts, PTL DEF LoopSpec

(* The types of the loop's variables, the phone's link included. *)
THEOREM LoopTypesCorrect == LoopSpec => []LoopTypes
<1>1. LoopInit => Link!LinkTypes /\ polled \in BOOLEAN
  <2>1. LoopInit => rounds \in 0..2
    BY DEF LoopInit, Link!Init
  <2>2. QED BY <2>1, Zenon DEF LoopInit, Link!Init, Link!LinkTypes
<1>2. ASSUME Link!LinkTypes, polled \in BOOLEAN, [LoopNext]_allVars
      PROVE  (Link!LinkTypes /\ polled \in BOOLEAN)'
  <2> USE DEF Link!LinkTypes
  <2>0. 0 \in 0..2 /\ (rounds < 2 => rounds + 1 \in 0..2)
    <3>1. rounds \in 0..2
      BY <1>2, Zenon
    <3>2. QED BY <3>1
  <2>1. CASE LoopBle
    <3>1. CASE Link!Round /\ polled' = FALSE
      BY <1>2, <3>1 DEF Link!Round, Link!history
    <3>2. CASE Link!Rest /\ UNCHANGED polled
      <4>1. CASE Link!Old
        BY <1>2, <3>2, <4>1 DEF Link!Old, Link!history
      <4>2. CASE Link!Restart
        BY <1>2, <3>2, <4>2 DEF Link!Restart, Link!history
      <4>3. CASE Link!Record
        BY <1>2, <3>2, <4>3 DEF Link!Record, Link!history
      <4>4. CASE Link!New
        <5>1. rounds' \in 0..2
          BY <1>2, <2>0, <4>4 DEF Link!New, Link!EndRound
        <5>2. QED BY <1>2, <3>2, <4>4, <5>1, Zenon DEF Link!New, Link!EndRound
      <4>5. CASE Link!RecordAgain
        <5>1. rounds' \in 0..2
          BY <1>2, <2>0, <4>5 DEF Link!RecordAgain, Link!EndRound
        <5>2. QED BY <1>2, <3>2, <4>5, <5>1, Zenon DEF Link!RecordAgain, Link!EndRound
      <4>6. QED BY <3>2, <4>1, <4>2, <4>3, <4>4, <4>5 DEF Link!Rest
    <3>3. QED BY <2>1, <3>1, <3>2 DEF LoopBle
  <2>2. CASE UNCHANGED link /\ (polled' = TRUE \/ UNCHANGED polled)
    BY <1>2, <2>2 DEF link
  <2>3. CASE Bluetooth
    <3>1. CASE Link!Connect
      BY <1>2, <2>0, <2>3, <3>1, Zenon DEF Bluetooth, Link!Connect
    <3>2. CASE Link!Disconnect
      BY <1>2, <2>3, <3>2 DEF Bluetooth, Link!Disconnect
    <3>3. QED BY <2>3, <3>1, <3>2 DEF Bluetooth
  <2>4. QED BY <1>2, <2>1, <2>2, <2>3 DEF LoopNext, Receive, Serial, allVars
<1>3. SerialInv => SerialTypes
  BY DEF SerialInv
<1>4. LoopTypes <=> SerialTypes /\ (Link!LinkTypes /\ polled \in BOOLEAN)
  BY DEF LoopTypes
<1>5. QED BY <1>1, <1>2, <1>3, <1>4, SerialInvHolds, PTL DEF LoopSpec

(* parseReceiveJson (myJson.cpp): as long as the serial driver drops nothing,  *)
(* no command is made of two lines, none is carried out twice or out of turn,  *)
(* and when all that was sent has been read, the lines not carried out are     *)
(* those that some call did not find whole at the front of what it read.       *)
THEOREM LinesCarriedOut == LoopSpec => []LinesKept
<1>1. SerialInv => LinesKept
  <2>1. SUFFICES ASSUME SerialInv, ~dropped PROVE LinesKept
    BY DEF LinesKept
  <2>2. /\ SerialTypes
        /\ Sorted(Carried, spoilt, LastDone) /\ InTurn(executed, LastDone)
    BY <2>1 DEF SerialInv
  <2>3. executed \in Seq((1..MaxLines) \X (1..MaxLines)) /\ DOMAIN executed = 1..Len(executed)
    BY <2>2, TypesAre, LenProperties
  <2>4. /\ \A k \in DOMAIN executed : executed[k][1] = executed[k][2]
        /\ \A j, k \in DOMAIN executed : j < k => executed[j][1] < executed[k][1]
    BY <2>2, <2>3 DEF InTurn
  <2>5. ASSUME wire = <<>>, rx = <<>>, ~reading PROVE Carried = (1..lines) \ spoilt
    <3>1. LastDone = 6 * lines + 5 /\ lines \in Nat
      <4>1. lines \in Nat /\ LastDone = LastRead
        BY <2>2, <2>5, Places
      <4>2. LastRead = ((6 * lines + 5) - Len(wire)) - Len(rx)
        BY DEF LastRead, LastArrived, LastSent
      <4>3. Len(wire) = 0 /\ Len(rx) = 0
        BY <2>5
      <4>4. \A n \in Nat : ((6 * n + 5) - 0) - 0 = 6 * n + 5
        OBVIOUS
      <4>5. QED BY <4>1, <4>2, <4>3, <4>4
    <3>2. \A l \in 1..lines : 6 * l <= 6 * lines + 5
      BY <3>1
    <3>3. \A l \in 1..lines : l \in Carried <=> l \notin spoilt
      BY <2>2, <3>1, <3>2 DEF Sorted
    <3>4. \A l \in Carried : l \in 1..lines
      <4>1. \A k \in 1..Len(executed) : executed[k] \in (1..MaxLines) \X (1..MaxLines)
        BY <2>3, ElementOfSeq
      <4>2. \A l \in 1..MaxLines : l \in Nat /\ 1 <= l
        BY SerialAssumption
      <4>3. \A k \in 1..Len(executed) : /\ executed[k][1] \in Nat /\ 1 <= executed[k][1]
                                        /\ 6 * executed[k][1] + 3 <= 6 * lines + 5
        BY <2>2, <3>1, <4>1, <4>2 DEF InTurn
      <4>4. \A n, l \in Nat : 1 <= l /\ 6 * l + 3 <= 6 * n + 5 => l \in 1..n
        OBVIOUS
      <4>5. QED BY <2>3, <3>1, <4>3, <4>4 DEF Carried
    <3>5. QED BY <3>3, <3>4
  <2>6. QED BY <2>4, <2>5 DEF LinesKept
<1>2. QED BY <1>1, SerialInvHolds, PTL
=============================================================================
