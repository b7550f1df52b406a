-------------------------- MODULE LoraRadio_proofs --------------------------
(***************************************************************************)
(* For frames of any length, any number of them and of transmissions: what *)
(* the main loop of the LoRa modem prints out of the one receive buffer.   *)
(*                                                                         *)
(* Nothing keeps the interrupt from the buffer while it is printed.  What  *)
(* saves the order is that the buffer holds the last frame (Stored), that  *)
(* a packet is in hand only while Valid is set, and that Valid is set only *)
(* while the last frame is later than all that was printed before (Order). *)
(***************************************************************************)
EXTENDS LoraRadio, TLAPS

Last   == IF Len(sizes) = 0 THEN 0 ELSE sizes[Len(sizes)]
InHand == pc \in {"judge", "accepted", "print"} \/ (pc \in {"load", "wait"} /\ back = "accepted")

RadioTypes ==
  /\ sizes \in Seq(0..Size) /\ Len(sizes) <= MaxFrames /\ len \in 0..Size
  /\ valid \in BOOLEAN /\ held \in BOOLEAN /\ hit \in BOOLEAN /\ txdone \in BOOLEAN
  /\ out \in Seq(Cell) /\ heard \in Seq(Seq(Cell))
  /\ mode \in {"rx", "tx"} /\ back \in {"poll", "accepted"} /\ sends \in 0..MaxSends
  /\ pc \in {"poll", "judge", "accepted", "print", "load", "wait"}

\* The buffer holds the last frame.
Stored ==
  /\ bankLen = Last
  /\ bank = [k \in 1..Size |-> IF k <= Last THEN Byte(Len(sizes), k) ELSE Nothing]

\* A packet is in hand while the main loop is at it, and is then the last
\* frame, or another has ended meanwhile.
Hand ==
  /\ held = InHand /\ (held => valid) /\ (valid => Len(sizes) > 0)
  /\ (held /\ ~hit => len = Last)
  /\ Len(out) <= len /\ (pc # "print" => Len(out) = 0)

\* What is printed of it.
Text ==
  \A k \in 1..Len(out) :
    /\ out[k] = Nothing \/ (out[k].at = k /\ out[k].frame \in 1..Len(sizes))
    /\ held /\ ~hit => out[k] = Byte(Len(sizes), k)
    /\ \A j \in 1..k : out[j] # Nothing /\ out[k] # Nothing => out[j].frame <= out[k].frame

\* What was printed before is of earlier frames.
Order ==
  /\ \A i \in 1..Len(heard) : \A k \in 1..Len(heard[i]) : heard[i][k] # Nothing =>
       /\ heard[i][k].frame <= Len(sizes)
       /\ valid => heard[i][k].frame < Len(sizes)
       /\ \A m \in 1..Len(out) : out[m] # Nothing => heard[i][k].frame < out[m].frame
  /\ InOrder(heard)

IInv == RadioTypes /\ Stored /\ Hand /\ Text /\ Order

-----------------------------------------------------------------------------
(* The modem before the first frame satisfies the invariant.               *)
LEMMA InitInv == Init => IInv
<1> SUFFICES ASSUME Init PROVE IInv
  OBVIOUS
<1>1. /\ sizes = <<>> /\ Len(sizes) = 0 /\ out = <<>> /\ Len(out) = 0 /\ heard = <<>>
      /\ Len(heard) = 0 /\ DOMAIN heard = {}
  BY SMT DEF Init
<1>2. RadioTypes
  <2>1. /\ sizes \in Seq(0..Size) /\ out \in Seq(Cell) /\ heard \in Seq(Seq(Cell))
        /\ 0 \in 0..Size /\ 0 \in 0..MaxSends /\ 0 <= MaxFrames
    BY <1>1, LoraRadioAssumption, SMT
  <2> QED
    BY <1>1, <2>1 DEF Init, RadioTypes
<1>3. Stored
  BY <1>1, LoraRadioAssumption, SMT DEF Init, Stored, Last
<1>4. Hand /\ Text
  <2>1. 0 <= len /\ 1..0 = {}
    BY SMT DEF Init
  <2>2. /\ held = FALSE /\ valid = FALSE /\ pc = "poll"
    BY DEF Init
  <2>3. InHand = FALSE
    BY <2>2 DEF InHand
  <2>4. Hand
    BY <1>1, <2>1, <2>2, <2>3 DEF Hand
  <2> QED
    BY <1>1, <2>1, <2>4 DEF Text
<1>5. Order
  BY <1>1, SMT DEF Order, InOrder
<1> QED
  BY <1>2, <1>3, <1>4, <1>5 DEF IInv

(* A frame ends.  Whatever was in the buffer is gone; what was printed is  *)
(* of earlier frames than this one.                                        *)
LEMMA HandlerStep ==
  ASSUME IInv, NEW l \in 0..Size, Handler(l), back' \in {"poll", "accepted"}, sends' \in 0..MaxSends,
         pc' \in {"poll", "judge", "accepted", "print", "load", "wait"},
         InHand' = InHand, pc' = "print" <=> pc = "print"
  PROVE  IInv'
<1>1. /\ Len(sizes) < MaxFrames /\ sizes' = Append(sizes, l)
      /\ bank' = [k \in 1..Size |-> IF k <= l THEN Byte(Len(sizes'), k) ELSE Nothing]
      /\ bankLen' = l /\ valid' = (valid \/ l > 0) /\ txdone' = FALSE /\ hit' = (hit \/ held)
      /\ UNCHANGED <<held, len, out, mode, heard>>
  BY DEF Handler
<1>2. /\ sizes \in Seq(0..Size) /\ Len(sizes) \in Nat /\ Len(out) \in Nat /\ MaxFrames \in Nat
      /\ Size \in Nat
  BY LoraRadioAssumption, SMT DEF IInv, RadioTypes
<1>3. /\ sizes' \in Seq(0..Size) /\ Len(sizes') = Len(sizes) + 1 /\ sizes'[Len(sizes) + 1] = l
      /\ Last' = l
  <2>1. /\ sizes' \in Seq(0..Size) /\ Len(sizes') = Len(sizes) + 1 /\ sizes'[Len(sizes) + 1] = l
    BY <1>1, <1>2, SMT
  <2> QED
    BY <2>1, <1>2, SMT DEF Last
<1>4. RadioTypes'
  <2>1. Len(sizes') <= MaxFrames
    BY <1>1, <1>2, <1>3, SMT
  <2>2. valid' \in BOOLEAN /\ hit' \in BOOLEAN
    BY <1>1
  <2> QED
    BY <1>1, <1>3, <2>1, <2>2 DEF IInv, RadioTypes
<1>5. Stored'
  BY <1>1, <1>3 DEF Stored
<1>6. Hand'
  <2>1. ~(held' /\ ~hit')
    BY <1>1
  <2>2. Len(sizes') > 0
    BY <1>2, <1>3, SMT
  <2> QED
    BY <1>1, <2>1, <2>2 DEF IInv, Hand
<1>7. Text'
  <2>1. ~(held' /\ ~hit') /\ out' = out
    BY <1>1
  <2>2. 1..Len(sizes) \subseteq 1..Len(sizes')
    BY <1>2, <1>3, SMT
  <2> QED
    BY <2>1, <2>2 DEF IInv, Text
<1>8. Order'
  <2>1. ASSUME NEW i \in 1..Len(heard), NEW k \in 1..Len(heard[i]), heard[i][k] # Nothing
        PROVE  /\ heard[i][k].frame <= Len(sizes') /\ heard[i][k].frame < Len(sizes')
               /\ \A m \in 1..Len(out) : out[m] # Nothing => heard[i][k].frame < out[m].frame
    <3>1. /\ heard[i][k].frame <= Len(sizes)
          /\ \A m \in 1..Len(out) : out[m] # Nothing => heard[i][k].frame < out[m].frame
      BY <2>1 DEF IInv, Order
    <3>2. heard[i][k].frame \in Nat
      <4>1. heard[i] \in Seq(Cell)
        BY <2>1 DEF IInv, RadioTypes
      <4>2. heard[i][k] \in Cell
        BY <4>1, <2>1, SMT
      <4>3. heard[i][k].frame \in 0..MaxFrames
        BY <4>2, Zenon DEF Cell
      <4> QED
        BY <4>3
    <3>3. heard[i][k].frame <= Len(sizes') /\ heard[i][k].frame < Len(sizes')
      BY <3>1, <3>2, <1>2, <1>3, SMTT(20)
    <3> QED
      BY <3>1, <3>3
  <2>2. heard' = heard /\ out' = out
    BY <1>1
  <2>3. InOrder(heard)
    BY DEF IInv, Order
  <2> QED
    BY <2>1, <2>2, <2>3 DEF Order, InOrder
<1> QED
  BY <1>4, <1>5, <1>6, <1>7, <1>8 DEF IInv

(* It ends while the receiver listens, or while the mask is being set.     *)
LEMMA FrameStep == ASSUME IInv, NEW l \in 0..Size, RxDone(l) \/ UnmaskLate(l) PROVE IInv'
<1>1. CASE RxDone(l)
  <2>1. Handler(l) /\ UNCHANGED <<pc, back, sends>>
    BY <1>1 DEF RxDone
  <2>2. InHand' = InHand
    BY <2>1 DEF InHand
  <2> QED
    BY <2>1, <2>2, HandlerStep DEF IInv, RadioTypes
<1>2. CASE UnmaskLate(l)
  <2>1. /\ Handler(l) /\ pc \in {"poll", "accepted"} /\ back' = pc /\ pc' = "load"
        /\ sends < MaxSends /\ sends' = sends + 1
    BY <1>2 DEF UnmaskLate, Load
  <2>2. InHand' = InHand
    BY <2>1 DEF InHand
  <2>3. sends' \in 0..MaxSends
    BY <2>1, LoraRadioAssumption, SMT DEF IInv, RadioTypes
  <2> QED
    BY <2>1, <2>2, <2>3, HandlerStep
<1> QED
  BY <1>1, <1>2

(* The steps of the main loop that touch neither the buffer nor the text:  *)
(* it looks for a packet, judges it, and transmits.                        *)
LEMMA QuietStep ==
  ASSUME IInv, UNCHANGED <<sizes, bank, bankLen, out, heard>>, RadioTypes', Hand', valid' => valid,
         held' /\ ~hit' => (held /\ ~hit) \/ Len(out) = 0
  PROVE  IInv'
<1>1. Stored'
  BY DEF IInv, Stored, Last
<1>2. Text'
  <2>1. ASSUME NEW k \in 1..Len(out)
        PROVE  /\ out[k] = Nothing \/ (out[k].at = k /\ out[k].frame \in 1..Len(sizes))
               /\ held' /\ ~hit' => out[k] = Byte(Len(sizes), k)
               /\ \A j \in 1..k : out[j] # Nothing /\ out[k] # Nothing => out[j].frame <= out[k].frame
    <3>1. Len(out) # 0
      BY SMT
    <3> QED
      BY <3>1 DEF IInv, Text
  <2> QED
    BY <2>1 DEF Text
<1>3. Order'
  BY DEF IInv, Order, InOrder
<1> QED
  BY <1>1, <1>2, <1>3 DEF IInv

LEMMA GetStep == ASSUME IInv, Get PROVE IInv'
<1>1. /\ pc = "poll" /\ ~held /\ valid /\ held' = TRUE /\ hit' = FALSE /\ len' = bankLen
      /\ pc' = "judge" /\ UNCHANGED <<sizes, bank, bankLen, valid, out, mode, txdone, back, sends, heard>>
  BY DEF Get, chip
<1>2. Len(out) = 0 /\ Last \in 0..Size /\ bankLen = Last
  <2>1. Last \in 0..Size
    BY LoraRadioAssumption, SMT DEF IInv, RadioTypes, Last
  <2> QED
    BY <1>1, <2>1 DEF IInv, Hand, Stored
<1>3. RadioTypes'
  BY <1>1, <1>2 DEF IInv, RadioTypes
<1>4. Hand'
  <2>1. InHand'
    BY <1>1 DEF InHand
  <2>2. Last' = Last
    BY <1>1 DEF Last
  <2>3. Len(out) <= len' /\ (valid' => Len(sizes') > 0)
    BY <1>1, <1>2, LoraRadioAssumption, SMT DEF IInv, Hand
  <2> QED
    BY <1>1, <1>2, <2>1, <2>2, <2>3 DEF Hand
<1> QED
  BY <1>1, <1>2, <1>3, <1>4, QuietStep

LEMMA JudgeStep == ASSUME IInv, Judge PROVE IInv'
<1>1. /\ pc = "judge" /\ UNCHANGED <<sizes, bank, bankLen, len, out, mode, txdone, back, sends, heard, hit>>
      /\ \/ pc' = "accepted" /\ valid' = valid /\ held' = held
         \/ pc' = "poll" /\ valid' = FALSE /\ held' = FALSE
  BY DEF Judge, chip
<1>2. RadioTypes'
  BY <1>1 DEF IInv, RadioTypes
<1>3. Hand'
  <2>1. Last' = Last /\ InHand' = (pc' = "accepted") /\ InHand
    BY <1>1 DEF Last, InHand
  <2> QED
    BY <1>1, <2>1 DEF IInv, Hand
<1> QED
  BY <1>1, <1>2, <1>3, QuietStep

LEMMA TransmissionStep == ASSUME IInv, Unmask \/ Transmit \/ Sent PROVE IInv'
<1>1. /\ UNCHANGED <<sizes, bank, bankLen, valid, held, len, out, heard, hit>>
      /\ pc # "print" /\ pc' # "print" /\ InHand' = InHand
  BY DEF Unmask, Load, Transmit, Sent, InHand, IInv, RadioTypes
<1>2. RadioTypes'
  <2>1. sends' \in 0..MaxSends
    BY LoraRadioAssumption, SMT DEF Unmask, Load, Transmit, Sent, IInv, RadioTypes
  <2>2. /\ pc' \in {"poll", "accepted", "load", "wait"} /\ back' \in {"poll", "accepted"}
        /\ mode' \in {"rx", "tx"} /\ txdone' \in BOOLEAN
    BY DEF Unmask, Load, Transmit, Sent, IInv, RadioTypes
  <2> QED
    BY <1>1, <2>1, <2>2 DEF IInv, RadioTypes
<1>3. Hand'
  BY <1>1 DEF IInv, Hand, Last
<1> QED
  BY <1>1, <1>2, <1>3, QuietStep

(* The next byte printed is the next of the last frame, or none of any.    *)
LEMMA PrintByteStep == ASSUME IInv, PrintByte PROVE IInv'
<1> DEFINE K == Len(out) + 1
           N == Len(sizes)
           b == bank[K]
<1>1. /\ pc \in {"accepted", "print"} /\ pc' = "print" /\ Len(out) < len /\ out' = Append(out, b)
      /\ UNCHANGED <<sizes, bank, bankLen, valid, held, len, mode, txdone, back, sends, heard, hit>>
  BY DEF PrintByte, chip
<1>2. /\ held /\ valid /\ N \in Nat /\ N > 0 /\ N <= MaxFrames /\ MaxFrames \in Nat /\ Size \in Nat
      /\ K \in 1..Size /\ Len(out) \in Nat /\ out \in Seq(Cell) /\ Len(out) < Size /\ len \in 0..Size
  <2>1. held
    BY <1>1 DEF IInv, Hand, InHand
  <2> QED
    BY <2>1, <1>1, LoraRadioAssumption, SMT DEF IInv, Hand, RadioTypes
<1>3. Last \in 0..Size /\ (~hit => len = Last)
  BY <1>2, SMT DEF IInv, Hand, RadioTypes, Last
<1>4. b = IF K <= Last THEN Byte(N, K) ELSE Nothing
  <2>1. bank = [k \in 1..Size |-> IF k <= Last THEN Byte(N, k) ELSE Nothing]
    BY DEF IInv, Stored
  <2> QED
    BY <2>1, <1>2
<1>5. b \in Cell /\ (b = Nothing \/ (b.at = K /\ b.frame = N)) /\ (~hit => b = Byte(N, K))
  <2>1. ~hit => K <= Last
    BY <1>1, <1>2, <1>3, SMT
  <2>2. Byte(N, K) \in Cell /\ Nothing \in Cell /\ Byte(N, K).at = K /\ Byte(N, K).frame = N
    BY <1>2, SMT DEF Byte, Nothing, Cell
  <2> QED
    BY <2>1, <2>2, <1>4
<1>6. /\ out' \in Seq(Cell) /\ Len(out') = K /\ out'[K] = b
      /\ \A k \in 1..Len(out) : out'[k] = out[k]
  BY <1>1, <1>2, <1>5, SMT
<1>7. RadioTypes'
  BY <1>1, <1>6 DEF IInv, RadioTypes
<1>8. Stored'
  BY <1>1 DEF IInv, Stored, Last
<1>9. Hand'
  <2>1. InHand' /\ InHand /\ Last' = Last
    BY <1>1 DEF InHand, Last
  <2>2. Len(out') <= len'
    BY <1>1, <1>2, <1>6, SMT
  <2> QED
    BY <1>1, <2>1, <2>2 DEF IInv, Hand
<1>10. Text'
  <2>1. ASSUME NEW k \in 1..Len(out')
        PROVE  /\ out'[k] = Nothing \/ (out'[k].at = k /\ out'[k].frame \in 1..N)
               /\ held /\ ~hit => out'[k] = Byte(N, k)
               /\ \A j \in 1..k : out'[j] # Nothing /\ out'[k] # Nothing => out'[j].frame <= out'[k].frame
    <3>1. \A j \in 1..Len(out) : out'[j] = Nothing \/ (out'[j].at = j /\ out'[j].frame \in 1..N)
      BY <1>6 DEF IInv, Text
    <3>2. CASE k = K
      <4>1. N \in 1..N
        BY <1>2, SMT
      <4>2. ASSUME NEW j \in 1..k, out'[j] # Nothing, out'[k] # Nothing
            PROVE  out'[j].frame <= out'[k].frame
        <5>1. out'[k].frame = N
          BY <4>2, <3>2, <1>5, <1>6
        <5>2. CASE j = K
          BY <5>1, <5>2, <3>2, <1>2, SMT
        <5>3. CASE j # K
          <6>1. j \in 1..Len(out)
            BY <5>3, <3>2, <1>2, SMT
          <6>2. out'[j].frame \in 1..N
            BY <6>1, <4>2, <3>1
          <6> QED
            BY <6>2, <5>1, <1>2, SMT
        <5> QED
          BY <5>2, <5>3
      <4> QED
        BY <4>1, <4>2, <3>2, <1>5, <1>6
    <3>3. CASE k # K
      <4>1. k \in 1..Len(out) /\ 1..k \subseteq 1..Len(out)
        BY <3>3, <1>2, <1>6, SMT
      <4>2. /\ out[k] = Nothing \/ (out[k].at = k /\ out[k].frame \in 1..N)
            /\ held /\ ~hit => out[k] = Byte(N, k)
            /\ \A j \in 1..k : out[j] # Nothing /\ out[k] # Nothing => out[j].frame <= out[k].frame
        BY <4>1 DEF IInv, Text
      <4> QED
        BY <4>1, <4>2, <1>6
    <3> QED
      BY <3>2, <3>3
  <2>2. sizes' = sizes /\ held' = held /\ hit' = hit
    BY <1>1
  <2> QED
    BY <2>1, <2>2 DEF Text
<1>11. Order'
  <2>1. ASSUME NEW i \in 1..Len(heard), NEW k \in 1..Len(heard[i]), heard[i][k] # Nothing
        PROVE  /\ heard[i][k].frame <= N /\ heard[i][k].frame < N
               /\ \A m \in 1..Len(out') : out'[m] # Nothing => heard[i][k].frame < out'[m].frame
    <3>1. /\ heard[i][k].frame <= N /\ heard[i][k].frame < N
          /\ \A m \in 1..Len(out) : out[m] # Nothing => heard[i][k].frame < out[m].frame
      BY <2>1, <1>2 DEF IInv, Order
    <3>2. ASSUME NEW m \in 1..Len(out'), out'[m] # Nothing PROVE heard[i][k].frame < out'[m].frame
      <4>1. CASE m = K
        BY <4>1, <3>1, <3>2, <1>5, <1>6
      <4>2. CASE m # K
        <5>1. m \in 1..Len(out)
          BY <4>2, <1>2, <1>6, SMT
        <5> QED
          BY <5>1, <3>1, <3>2, <1>6
      <4> QED
        BY <4>1, <4>2
    <3> QED
      BY <3>1, <3>2
  <2>2. heard' = heard /\ sizes' = sizes /\ valid' = valid /\ InOrder(heard)
    BY <1>1 DEF IInv, Order
  <2> QED
    BY <2>1, <2>2 DEF Order, InOrder
<1> QED
  BY <1>7, <1>8, <1>9, <1>10, <1>11 DEF IInv

(* A message is complete: it joins those before it in their order, and is  *)
(* the last frame as it came, unless another has ended since it was found. *)
LEMMA DiscardStep ==
  ASSUME IInv, Discard
  PROVE  IInv' /\ (~hit => heard'[Len(heard')] = Bytes(Len(sizes)))
<1> DEFINE N == Len(sizes)
           H == Len(heard) + 1
<1>1. /\ pc = "print" /\ Len(out) = len /\ pc' = "poll" /\ valid' = FALSE /\ held' = FALSE
      /\ heard' = Append(heard, out) /\ out' = <<>>
      /\ UNCHANGED <<sizes, bank, bankLen, len, mode, txdone, back, sends, hit>>
  BY DEF Discard, chip
<1>2. /\ held /\ valid /\ N \in Nat /\ N > 0 /\ out \in Seq(Cell) /\ Len(out) \in Nat
      /\ heard \in Seq(Seq(Cell)) /\ Len(heard) \in Nat /\ len \in 0..Size
  <2>1. held
    BY <1>1 DEF IInv, Hand, InHand
  <2> QED
    BY <2>1, SMT DEF IInv, Hand, RadioTypes
<1>3. /\ heard' \in Seq(Seq(Cell)) /\ Len(heard') = H /\ heard'[H] = out
      /\ \A i \in 1..Len(heard) : heard'[i] = heard[i]
  BY <1>1, <1>2, SMT
<1>4. Len(out') = 0 /\ out' \in Seq(Cell)
  BY <1>1, SMT
<1>5. RadioTypes'
  BY <1>1, <1>3, <1>4 DEF IInv, RadioTypes
<1>6. Stored'
  BY <1>1 DEF IInv, Stored, Last
<1>7. Hand' /\ Text'
  <2>1. InHand' = FALSE /\ Len(out') <= len'
    BY <1>1, <1>2, <1>4, LoraRadioAssumption, SMT DEF InHand
  <2>2. Hand'
    BY <1>1, <1>4, <2>1 DEF Hand
  <2>3. 1..Len(out') = {}
    BY <1>4, SMT
  <2> QED
    BY <2>2, <2>3 DEF Text
<1>8. \A i \in 1..H : \A k \in 1..Len(heard'[i]) : heard'[i][k] # Nothing => heard'[i][k].frame <= N
  <2> SUFFICES ASSUME NEW i \in 1..H, NEW k \in 1..Len(heard'[i]), heard'[i][k] # Nothing
               PROVE  heard'[i][k].frame <= N
    OBVIOUS
  <2>1. CASE i = H
    <3>1. out[k].frame \in 1..N
      BY <2>1, <1>3 DEF IInv, Text
    <3> QED
      BY <3>1, <2>1, <1>2, <1>3, SMT
  <2>2. CASE i # H
    <3>1. i \in 1..Len(heard)
      BY <2>2, <1>2, SMT
    <3> QED
      BY <3>1, <1>3 DEF IInv, Order
  <2> QED
    BY <2>1, <2>2
<1>9. InOrder(heard')
  <2> SUFFICES ASSUME NEW i \in 1..H, NEW j \in 1..i, NEW k \in DOMAIN heard'[i], NEW m \in DOMAIN heard'[j],
                      j < i \/ m < k, heard'[i][k] # Nothing, heard'[j][m] # Nothing
               PROVE  Before(heard'[j][m], heard'[i][k])
    <3>1. DOMAIN heard' = 1..H
      BY <1>3, SMT
    <3> QED
      BY <3>1 DEF InOrder
  <2>1. CASE i # H
    <3>1. i \in 1..Len(heard) /\ j \in 1..Len(heard) /\ DOMAIN heard = 1..Len(heard)
      BY <2>1, <1>2, SMT
    <3>2. heard'[i] = heard[i] /\ heard'[j] = heard[j]
      BY <3>1, <1>3
    <3>3. InOrder(heard)
      BY DEF IInv, Order
    <3> QED
      BY <3>1, <3>2, <3>3 DEF InOrder
  <2>2. CASE i = H /\ j # H
    <3>1. j \in 1..Len(heard)
      BY <2>2, <1>2, SMT
    <3>2. heard'[j] = heard[j] /\ heard'[i] = out
      BY <3>1, <2>2, <1>3
    <3>3. k \in 1..Len(out) /\ m \in 1..Len(heard[j])
      <4>1. DOMAIN heard'[i] = 1..Len(out) /\ DOMAIN heard'[j] = 1..Len(heard[j])
        <5>1. heard[j] \in Seq(Cell) /\ out \in Seq(Cell)
          BY <3>1 DEF IInv, RadioTypes
        <5> QED
          BY <5>1, <3>2, SMT
      <4> QED
        BY <4>1
    <3>4. heard[j][m] # Nothing /\ out[k] # Nothing
      BY <3>2
    <3>5. heard[j][m].frame < out[k].frame
      BY <3>1, <3>3, <3>4 DEF IInv, Order
    <3> QED
      BY <3>2, <3>5 DEF Before
  <2>3. CASE i = H /\ j = H
    <3>1. heard'[i] = out /\ heard'[j] = out
      BY <2>3, <1>3
    <3>2. k \in 1..Len(out) /\ m \in 1..Len(out) /\ m \in 1..k /\ m < k
      BY <3>1, <2>3, <1>2, SMT
    <3>3. /\ out[m].frame <= out[k].frame /\ out[m].at = m /\ out[k].at = k
          /\ out[m].frame \in 1..N /\ out[k].frame \in 1..N
      BY <3>1, <3>2 DEF IInv, Text
    <3>4. out[m].frame < out[k].frame \/ out[m].frame = out[k].frame
      BY <3>3, <1>2, SMTT(20)
    <3> QED
      BY <3>1, <3>2, <3>3, <3>4 DEF Before
  <2> QED
    BY <2>1, <2>2, <2>3
<1>10. Order'
  <2>1. 1..Len(out') = {} /\ valid' = FALSE /\ sizes' = sizes
    BY <1>1, <1>4, SMT
  <2> QED
    BY <2>1, <1>3, <1>8, <1>9 DEF Order, InOrder
<1>11. ~hit => heard'[Len(heard')] = Bytes(Len(sizes))
  <2> SUFFICES ASSUME ~hit PROVE out = Bytes(N)
    BY <1>3
  <2>1. Len(out) = sizes[N]
    BY <1>1, <1>2, SMT DEF IInv, Hand, Last
  <2>2. \A k \in 1..Len(out) : out[k] = Byte(N, k)
    BY <1>2 DEF IInv, Text
  <2>3. out = [k \in 1..Len(out) |-> Byte(N, k)]
    BY <2>2, <1>2, SMT
  <2> QED
    BY <2>1, <2>3 DEF Bytes
<1> QED
  BY <1>5, <1>6, <1>7, <1>10, <1>11 DEF IInv

-----------------------------------------------------------------------------
(* Every step of the modem keeps the invariant.                            *)
LEMMA StepInv == IInv /\ [Next]_vars => IInv'
<1> SUFFICES ASSUME IInv, [Next]_vars PROVE IInv'
  OBVIOUS
<1>1. CASE UNCHANGED vars
  <2>1. RadioTypes' /\ Hand'
    BY <1>1 DEF vars, chip, IInv, RadioTypes, Hand, InHand, Last
  <2> QED
    BY <1>1, <2>1, QuietStep DEF vars, chip
<1>2. CASE Next
  BY <1>2, FrameStep, GetStep, JudgeStep, PrintByteStep, DiscardStep, TransmissionStep
     DEF Next, Main
<1> QED
  BY <1>1, <1>2

(* The invariant holds in every state of the modem.                        *)
THEOREM Invariant == Spec => []IInv
<1> QED
  BY InitInv, StepInv, PTL DEF Spec

(* Every variable keeps its type, and a message is never longer than the   *)
(* packet it is printed from (HandleRxData).                               *)
THEOREM RadioTypesCorrect == Spec => []TypeOK
<1>1. IInv => TypeOK
  <2> SUFFICES ASSUME IInv PROVE TypeOK
    OBVIOUS
  <2>1. Last \in 0..Size
    BY LoraRadioAssumption, SMT DEF IInv, RadioTypes, Last
  <2>2. bank \in [1..Size -> Cell]
    <3>1. Nothing \in Cell /\ \A k \in 1..Size : Byte(Len(sizes), k) \in Cell
      BY LoraRadioAssumption, SMT DEF IInv, RadioTypes, Byte, Nothing, Cell
    <3> QED
      BY <3>1 DEF IInv, Stored
  <2> QED
    BY <2>1, <2>2 DEF IInv, RadioTypes, Stored, Hand, TypeOK
<1> QED
  BY Invariant, <1>1, PTL

(* A message printed is the last frame as it arrived, unless another ended *)
(* while it was being handled; and over all messages no byte is printed    *)
(* twice or out of order (SX1276_RX_Handler, HandleRxData).                *)
THEOREM PrintedWhole == Spec => Whole
<1>1. ASSUME IInv, [Next]_vars, heard' # heard
      PROVE  /\ ~hit => heard'[Len(heard')] = Bytes(Len(sizes))
             /\ InOrder(heard')
  <2>1. Discard
    BY <1>1 DEF Next, Main, RxDone, UnmaskLate, Handler, Get, Judge, PrintByte, Unmask, Transmit, Sent, vars
  <2>2. IInv' /\ (~hit => heard'[Len(heard')] = Bytes(Len(sizes)))
    BY <1>1, <2>1, DiscardStep
  <2> QED
    BY <2>2 DEF IInv, Order, InOrder
<1>2. IInv /\ [Next]_vars => [heard' # heard =>
       /\ ~hit => heard'[Len(heard')] = Bytes(Len(sizes))
       /\ InOrder(heard')]_vars
  BY <1>1
<1> QED
  BY Invariant, <1>2, PTL DEF Spec, Whole
=============================================================================
