------------------------------ MODULE RelayPort ------------------------------
(***************************************************************************)
(* The relay outputs and switch inputs behind the SX1509 port expander     *)
(* (nordic/whybizBle/src/sx1509.c), used by two threads without a lock:    *)
(* main, which carries out JSON relay commands (uttecJsonTest) and reads   *)
(* both ports for its status frames (procRelayTxBle, procSwitchTxBle), and *)
(* the Bluetooth receive thread, which carries out BLE relay commands      *)
(* (procRxBle).  writeOutSx is a read-modify-write of the whole relay port *)
(* in three bus transfers, each of which may fail; the code prints a       *)
(* message then and carries on with what is in its buffer.                 *)
(*                                                                         *)
(* A port is the set of its bits that are 1.                               *)
(*                                                                         *)
(* External: the I2C driver, which serialises single transfers, and the    *)
(* expander, whose register pointer is set by a write and read from next;  *)
(* the pointer may move on by one after a data byte.                       *)
(***************************************************************************)
EXTENDS Naturals, FiniteSets

CONSTANTS Bits,        \* the relay and switch numbers, a part of 0..7
          BadBits,     \* bit numbers a command may carry that name no relay
          MaxCommands, \* bound on relay commands
          MayFail      \* whether bus transfers may fail

ASSUMPTION RelayAssumption ==
  /\ Bits \subseteq 0..7 /\ BadBits \cap 0..7 = {}
  /\ MaxCommands \in Nat /\ MayFail \in BOOLEAN

Threads == {"main", "bt"}
Ports   == {"relay", "switch"}           \* registers 0x10 and 0x11
Address(p) == IF p = "relay" THEN {4} \cap Bits ELSE {0, 4} \cap Bits

VARIABLES
  reg,       \* the expander's two data registers
  pointer,   \* its register pointer
  factor,    \* pFactor->relay and pFactor->sw
  pc,        \* per thread: "idle", "point", "read", "write"
  op,        \* per thread: what it is doing
  buf,       \* per thread: its one-byte buffer
  intended,  \* the relays as the commands, carried out one by one, would have left them
  disturbed, \* since the last quiet time a transfer failed, or one thread
             \* used the expander in the middle of the other's transfers
  commands   \* number of commands so far

vars == <<reg, pointer, factor, pc, op, buf, intended, disturbed, commands>>

Command(b, o) == [kind |-> "set", port |-> "relay", bit |-> b, on |-> o]
Reading(p)    == [kind |-> "get", port |-> p, bit |-> 0, on |-> FALSE]

(* Mutant: clearing a relay leaves the port as it was. *)
WithBitOnly(port, o) == IF o.on /\ o.bit \in Bits THEN port \cup {o.bit} ELSE port

(* The port with one bit changed; a bit number above 7 changes nothing. *)
WithBit(port, o) ==
  IF o.bit \notin Bits THEN port
  ELSE IF o.on THEN port \cup {o.bit} ELSE port \ {o.bit}

(* History: the relays that are on once a command is carried out on its own. *)
Obeyed(relays, o) ==
  {r \in Bits : (r = o.bit /\ o.on) \/ (r # o.bit /\ r \in relays)}

(* After initSx1509: every relay has been switched off, one by one, in main. *)
Init ==
  /\ reg \in {[p \in Ports |-> IF p = "relay" THEN {} ELSE s] : s \in SUBSET Bits}
  /\ pointer = "relay"
  /\ factor = [relay |-> {}, switch |-> reg["switch"]]
  /\ pc = [t \in Threads |-> "idle"]
  /\ op = [t \in Threads |-> Reading("relay")]
  /\ buf = [t \in Threads |-> {}]
  /\ intended = {} /\ disturbed = FALSE /\ commands = 0

Quiet == \A t \in Threads : pc[t] = "idle"

(* No other thread is in the middle of its transfers. *)
Alone(t) == \A u \in Threads \ {t} : pc[u] \in {"idle", "point"}

(* A thread is done: its buffer and its command are gone with the call's frame. *)
Done(t) == /\ pc' = [pc EXCEPT ![t] = "idle"]
           /\ op' = [op EXCEPT ![t] = Reading("relay")]
           /\ buf' = [buf EXCEPT ![t] = {}]

-----------------------------------------------------------------------------
(* A thread calls writeOutSx for a command, or main calls readSxRelay or     *)
(* readSxSw; the buffer holds the register's address.                        *)
Start(t, o) ==
  /\ pc[t] = "idle"
  /\ pc' = [pc EXCEPT ![t] = "point"]
  /\ op' = [op EXCEPT ![t] = o]
  /\ buf' = [buf EXCEPT ![t] = Address(o.port)]
  /\ UNCHANGED <<reg, pointer, factor, intended, disturbed>>

StartCommand(t) ==
  /\ commands < MaxCommands /\ commands' = commands + 1
  /\ \E b \in Bits \cup BadBits, o \in BOOLEAN : Start(t, Command(b, o))

StartReading(p) == Start("main", Reading(p)) /\ UNCHANGED commands

(* i2c_write of the address: sets the register pointer. *)
Point(t) ==
  /\ pc[t] = "point" /\ pc' = [pc EXCEPT ![t] = "read"]
  /\ \/ pointer' = op[t].port /\ disturbed' = (disturbed \/ ~Alone(t))
     \/ MayFail /\ disturbed' = TRUE /\ UNCHANGED pointer
  /\ intended' = IF op[t].kind = "set" THEN Obeyed(intended, op[t]) ELSE intended
  /\ UNCHANGED <<reg, factor, op, buf, commands>>

(* i2c_read of one byte from where the pointer is, before writeOutSx changes *)
(* it.  A failed read leaves the address in the buffer.                      *)
ReadForChange(t) ==
  /\ pc[t] = "read" /\ op[t].kind = "set"
  /\ \/ buf' = [buf EXCEPT ![t] = reg[pointer]] /\ pointer' \in Ports /\ UNCHANGED disturbed
     \/ MayFail /\ disturbed' = TRUE /\ UNCHANGED <<buf, pointer>>
  /\ pc' = [pc EXCEPT ![t] = "write"]
  /\ UNCHANGED <<reg, op, factor, intended, commands>>

(* Mutant: a reading of the switches is stored in the other factor. *)
ReadSwapped(t) ==
  /\ pc[t] = "read" /\ op[t].kind = "get"
  /\ \/ factor' = [factor EXCEPT !["relay"] = reg[pointer]]
        /\ pointer' \in Ports /\ UNCHANGED disturbed
     \/ MayFail /\ disturbed' = TRUE /\ UNCHANGED <<factor, pointer>>
  /\ Done(t)
  /\ UNCHANGED <<reg, intended, commands>>

(* readSxRelay and readSxSw store what the buffer then holds in the factor. *)
ReadForFactor(t) ==
  /\ pc[t] = "read" /\ op[t].kind = "get"
  /\ \/ factor' = [factor EXCEPT ![op[t].port] = reg[pointer]]
        /\ pointer' \in Ports /\ UNCHANGED disturbed
     \/ /\ MayFail /\ disturbed' = TRUE
        /\ factor' = [factor EXCEPT ![op[t].port] = buf[t]]
        /\ UNCHANGED pointer
  /\ Done(t)
  /\ UNCHANGED <<reg, intended, commands>>

(* i2c_write of the address and the changed byte. *)
Write(t) ==
  /\ pc[t] = "write"
  /\ \/ /\ reg' = [reg EXCEPT !["relay"] = WithBit(buf[t], op[t])]
        /\ pointer' \in Ports
        /\ UNCHANGED disturbed
     \/ MayFail /\ disturbed' = TRUE /\ UNCHANGED <<reg, pointer>>
  /\ Done(t)
  /\ UNCHANGED <<factor, intended, commands>>

(* Somebody turns the switches. *)
Switch ==
  /\ \E s \in SUBSET Bits : s # reg["switch"] /\ reg' = [reg EXCEPT !["switch"] = s]
  /\ UNCHANGED <<pointer, factor, pc, op, buf, intended, disturbed, commands>>

(* With nothing under way the count starts again from the relays as they are. *)
Settle ==
  /\ Quiet /\ disturbed /\ disturbed' = FALSE
  /\ intended' = reg["relay"]
  /\ UNCHANGED <<reg, pointer, factor, pc, op, buf, commands>>

Steps(t) == Point(t) \/ ReadForChange(t) \/ ReadForFactor(t) \/ Write(t)

Next ==
  \/ \E t \in Threads : StartCommand(t) \/ Steps(t)
  \/ \E p \in Ports : StartReading(p)
  \/ Switch \/ Settle

Spec == Init /\ [][Next]_vars

-----------------------------------------------------------------------------
TypeOK ==
  /\ reg \in [Ports -> SUBSET Bits] /\ pointer \in Ports
  /\ factor \in [Ports -> SUBSET Bits]
  /\ pc \in [Threads -> {"idle", "point", "read", "write"}]
  /\ op \in [Threads -> [kind : {"set", "get"}, port : Ports,
                         bit : Bits \cup BadBits \cup {0}, on : BOOLEAN]]
  /\ buf \in [Threads -> SUBSET Bits]
  /\ intended \subseteq Bits /\ disturbed \in BOOLEAN /\ commands \in Nat

(* Two threads may be between two transfers of the same read-modify-write;   *)
(* as long as neither uses the expander in the middle of the other's, and no *)
(* transfer fails, the relays are at every quiet moment what the commands    *)
(* say, carried out one by one: no command undoes another one's relay, and a *)
(* number that names no relay changes none (writeOutSx).                     *)
RelaysAsCommanded == Quiet /\ ~disturbed => reg["relay"] = intended

(* What a reading puts into its factor, for the status frames of both links, *)
(* is the port it names as it is at that moment, and it changes no relay,    *)
(* again unless a transfer failed or the other thread moved the pointer      *)
(* (readSxRelay, readSxSw).                                                  *)
FactorIsPort ==
  [][ \A t \in Threads :
        ~disturbed' /\ pc[t] = "read" /\ pc'[t] = "idle"
        => /\ factor' = [factor EXCEPT ![op[t].port] = reg[op[t].port]]
           /\ reg' = reg ]_vars
=============================================================================
