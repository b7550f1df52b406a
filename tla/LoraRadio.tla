----------------------------- MODULE LoraRadio ------------------------------
(***************************************************************************)
(* The radio of the LoRa modem: the interrupt of the SX1276 that stores a  *)
(* received frame (SX1276_RX_Handler), and the main loop that looks for    *)
(* one, prints it byte after byte to the host and, in between, transmits.  *)
(* The two share the one buffer RxPacket[0], which the main loop reads in  *)
(* place, and the registers of the chip, with no lock.                     *)
(*                                                                         *)
(* An interrupt runs to its end before the main loop goes on; it is let in *)
(* between accesses to the chip, not within one.  Which packets the stack  *)
(* drops, and what it sends again, is in MiWiFlood.                        *)
(***************************************************************************)
EXTENDS Integers, Sequences, Functions

CONSTANTS Size,      \* bytes of data in the longest frame
          MaxFrames, \* bound: frames that end at this modem
          MaxSends   \* bound: transmissions

ASSUMPTION LoraRadioAssumption ==
  Size \in Nat \ {0} /\ MaxFrames \in Nat /\ MaxSends \in Nat

VARIABLES
  sizes,   \* length of every frame so far; 0 if its CRC was wrong
  bank,    \* RxPacket[0].Payload
  bankLen, \* RxPacket[0].PayloadLen
  valid,   \* RxPacket[0].flags.bits.Valid
  held,    \* ReceivedBankIndex is 0, not 0xFF
  len,     \* MACRxPacket.PayloadLen
  out,     \* bytes of the message printed so far
  mode,    \* REG_OPMODE: "rx" or "tx"
  txdone,  \* REG_LORA_IRQFLAGSMASK lets TxDone through
  pc, back, sends,
  heard,   \* History: the messages printed
  hit      \* History: a frame ended while a packet was held

chip == <<mode, txdone>>
vars == <<sizes, bank, bankLen, valid, held, len, out, chip, pc, back, sends, heard, hit>>

Byte(f, k)  == [frame |-> f, at |-> k]
Nothing     == Byte(0, 0)      \* zeros, or what a damaged frame holds
Bytes(f)    == [k \in 1..sizes[f] |-> Byte(f, k)]
Good        == {f \in DOMAIN sizes : sizes[f] > 0}
Printed     == {f \in DOMAIN sizes : Bytes(f) \in Range(heard)}

Init ==
  /\ sizes = <<>> /\ bank = [k \in 1..Size |-> Nothing] /\ bankLen = 0
  /\ valid = FALSE /\ held = FALSE /\ len = 0 /\ out = <<>>
  /\ mode = "rx" /\ txdone = FALSE /\ pc = "poll" /\ back = "poll" /\ sends = 0
  /\ heard = <<>> /\ hit = FALSE

-----------------------------------------------------------------------------
(* SX1276_RX_Handler: whatever the buffer holds is overwritten, and the    *)
(* receiver is started anew, with its mask.  A damaged frame leaves Valid  *)
(* as it is.                                                               *)
Handler(l) ==
  /\ mode = "rx" /\ Len(sizes) < MaxFrames /\ sizes' = Append(sizes, l)
  /\ bank' = [k \in 1..Size |-> IF k <= l THEN Byte(Len(sizes'), k) ELSE Nothing]
  /\ bankLen' = l /\ valid' = (valid \/ l > 0)
  /\ txdone' = FALSE /\ hit' = (hit \/ held)
  /\ UNCHANGED <<held, len, out, mode, heard>>

\* The mask that lets TxDone through holds RxDone back.
RxDone(l) == ~txdone /\ Handler(l) /\ UNCHANGED <<pc, back, sends>>

(* MiMAC_ReceivedPacket.                                                   *)
Get ==
  /\ pc = "poll" /\ ~held /\ valid
  /\ held' = TRUE /\ hit' = FALSE /\ len' = bankLen /\ pc' = "judge"
  /\ UNCHANGED <<sizes, bank, bankLen, valid, out, chip, back, sends, heard>>

(* MiWiPROTasks: what is too short or not a packet of this PAN is          *)
(* discarded.  Mutant: without MiMAC_DiscardPacket.                        *)
JudgeKeeps ==
  /\ pc = "judge"
  /\ pc' = IF len # 0 /\ bank[1] # Nothing THEN "accepted" ELSE "poll"
  /\ UNCHANGED <<sizes, bank, bankLen, valid, held, len, out, chip, back, sends, heard, hit>>

Judge ==
  /\ pc = "judge"
  /\ IF len # 0 /\ bank[1] # Nothing
       THEN pc' = "accepted" /\ UNCHANGED <<valid, held>>
       ELSE pc' = "poll" /\ valid' = FALSE /\ held' = FALSE
  /\ UNCHANGED <<sizes, bank, bankLen, len, out, chip, back, sends, heard, hit>>

(* HandleRxData.                                                           *)
PrintByte ==
  /\ pc \in {"accepted", "print"} /\ pc' = "print" /\ Len(out) < len
  /\ out' = Append(out, bank[Len(out) + 1])
  /\ UNCHANGED <<sizes, bank, bankLen, valid, held, len, chip, back, sends, heard, hit>>

\* Mutant: Valid is not cleared.
DiscardKeeps ==
  /\ pc = "print" /\ Len(out) = len /\ pc' = "poll"
  /\ held' = FALSE /\ heard' = Append(heard, out) /\ out' = <<>>
  /\ UNCHANGED <<sizes, bank, bankLen, valid, len, chip, back, sends, hit>>

Discard ==
  /\ pc = "print" /\ Len(out) = len /\ pc' = "poll"
  /\ valid' = FALSE /\ held' = FALSE /\ heard' = Append(heard, out) /\ out' = <<>>
  /\ UNCHANGED <<sizes, bank, bankLen, len, chip, back, sends, hit>>

-----------------------------------------------------------------------------
(* TxPacket: the console's, or the delayed rebroadcast that MiWiPROTasks   *)
(* sends before it returns an accepted packet.  It listens first, then     *)
(* sets the mask, and a millisecond later leaves the receive mode.         *)
Load ==
  /\ pc \in {"poll", "accepted"} /\ sends < MaxSends /\ sends' = sends + 1
  /\ back' = pc /\ pc' = "load"

Unmask ==
  /\ Load /\ txdone' = TRUE
  /\ UNCHANGED <<sizes, bank, bankLen, valid, held, len, out, mode, heard, hit>>

\* A frame ends while the mask is being set: its interrupt comes right after.
UnmaskLate(l) == Load /\ Handler(l)

Transmit ==
  /\ pc = "load" /\ pc' = "wait" /\ mode' = "tx"
  /\ UNCHANGED <<sizes, bank, bankLen, valid, held, len, out, txdone, back, sends, heard, hit>>

Sent ==
  /\ pc = "wait" /\ txdone /\ pc' = back
  /\ mode' = "rx" /\ txdone' = FALSE
  /\ UNCHANGED <<sizes, bank, bankLen, valid, held, len, out, back, sends, heard, hit>>

Main == Get \/ Judge \/ PrintByte \/ Discard \/ Transmit \/ Sent
Next == (\E l \in 0..Size : RxDone(l) \/ UnmaskLate(l)) \/ Main \/ Unmask

(* The main loop and the chip go on; nobody need send or transmit.         *)
Spec == Init /\ [][Next]_vars /\ WF_vars(Main)

-----------------------------------------------------------------------------
Cell == [frame : 0..MaxFrames, at : 0..Size]

TypeOK ==
  /\ sizes \in Seq(0..Size) /\ Len(sizes) <= MaxFrames
  /\ bank \in [1..Size -> Cell] /\ bankLen \in 0..Size /\ len \in 0..Size
  /\ valid \in BOOLEAN /\ held \in BOOLEAN /\ hit \in BOOLEAN /\ txdone \in BOOLEAN
  /\ out \in Seq(Cell) /\ Len(out) <= len
  /\ mode \in {"rx", "tx"} /\ back \in {"poll", "accepted"} /\ sends \in 0..MaxSends
  /\ pc \in {"poll", "judge", "accepted", "print", "load", "wait"}

Before(a, b) == a.frame < b.frame \/ (a.frame = b.frame /\ a.at < b.at)

(* No byte is printed twice, and bytes are in the order of the frames and  *)
(* within them, even where one frame overwrites another.                   *)
InOrder(messages) ==
  \A i \in DOMAIN messages : \A j \in 1..i : \A k \in DOMAIN messages[i], m \in DOMAIN messages[j] :
    (j < i \/ m < k) /\ Nothing \notin {messages[i][k], messages[j][m]}
      => Before(messages[j][m], messages[i][k])

(* A message printed to the host is one frame as it arrived, the last one, *)
(* unless another frame ended while it was being handled: neither a frame  *)
(* that came and went before, nor a transmission, leaves a trace in it.    *)
(* Even where one frame overwrites another, no byte is printed twice or    *)
(* before an earlier one (RxPacket[0], printed in place).                  *)
Whole ==
  [][heard' # heard =>
       /\ ~hit => heard'[Len(heard')] = Bytes(Len(sizes))
       /\ InOrder(heard')]_vars

(* A good frame that finds the main loop free is printed, unless another   *)
(* ends before it is, or the main loop waits for a TxDone that a frame     *)
(* ended in the wrong moment has masked again.                             *)
Stuck == pc = "wait" /\ ~txdone
Delivered ==
  \A f \in 1..MaxFrames :
    (Len(sizes) = f /\ f \in Good /\ valid /\ pc = "poll")
      ~> (f < Len(sizes) \/ Stuck \/ f \in Printed)
=============================================================================
