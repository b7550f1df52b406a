---------------------------- MODULE UartRx_proofs ----------------------------
(***************************************************************************)
(* The serial command path of the nRF node, in three parts.  In UartRx,    *)
(* the owners of the buffers and the life of the receiver, for every heap, *)
(* size of buffer and number of bytes; then the same code as a channel:    *)
(* what it hands to getJsonData is what it accepted, in order.  In         *)
(* JsonFrame, what becomes of the lines in these buffers, for every number *)
(* of commands and size of frame.                                          *)
(***************************************************************************)
EXTENDS UartRx, JsonFrame, SequenceTheorems, TLAPS

(* The driver's buffers go with its state, and RX_BUF_REQUEST is due only while *)
(* there is no next buffer: with these uart_rx_enable and uart_rx_buf_rsp are   *)
(* never refused, which is what keeps every block owned.                        *)
DriverInv ==
  /\ rx = "off" => rx_buf = NoBuf /\ rx_next_buf = NoBuf
  /\ rx = "on" => rx_buf # NoBuf
  /\ request => rx_next_buf = NoBuf /\ rx_buf # NoBuf
  /\ boot # "up" => rx = "off" /\ ~work

(* The inductive invariant. *)
IInv == TypeOK /\ NoLeak /\ SoleOwner /\ ReceiverAlive /\ DisableReqNotStuck /\ DriverInv

-----------------------------------------------------------------------------
(* Putting a buffer at the tail of a fifo adds just that buffer, and keeps the *)
(* fifo free of repetitions when it was not in it.                             *)
LEMMA PutBuffer ==
  ASSUME NEW S, NEW q \in Seq(S), NEW b \in S
  PROVE  /\ Append(q, b) \in Seq(S)
         /\ Range(Append(q, b)) = Range(q) \cup {b}
         /\ IsInjective(q) /\ b \notin Range(q) => IsInjective(Append(q, b))
<1>1. /\ Append(q, b) \in Seq(S)
      /\ Len(Append(q, b)) = Len(q) + 1 /\ Len(q) \in Nat
      /\ DOMAIN q = 1..Len(q) /\ DOMAIN Append(q, b) = 1..(Len(q) + 1)
      /\ \A i \in 1..Len(q) : Append(q, b)[i] = q[i]
      /\ Append(q, b)[Len(q) + 1] = b
  BY AppendProperties, LenProperties
<1>2. Range(Append(q, b)) = Range(q) \cup {b}
  BY <1>1, SMT DEF Range
<1>3. ASSUME IsInjective(q), b \notin Range(q) PROVE IsInjective(Append(q, b))
  BY <1>1, <1>3, SMT DEF IsInjective, Range
<1>4. QED BY <1>1, <1>2, <1>3

(* Taking the head of a fifo without repetitions leaves a fifo of the others. *)
LEMMA GetBuffer ==
  ASSUME NEW S, NEW q \in Seq(S), q # <<>>, IsInjective(q)
  PROVE  /\ Head(q) \in S /\ Tail(q) \in Seq(S)
         /\ Range(q) = Range(Tail(q)) \cup {Head(q)}
         /\ Head(q) \notin Range(Tail(q))
         /\ IsInjective(Tail(q))
<1>1. /\ Head(q) \in S /\ Head(q) = q[1] /\ Tail(q) \in Seq(S)
      /\ Len(q) \in Nat /\ Len(q) > 0 /\ Len(Tail(q)) = Len(q) - 1
      /\ DOMAIN q = 1..Len(q) /\ DOMAIN Tail(q) = 1..(Len(q) - 1)
      /\ \A i \in 1..(Len(q) - 1) : Tail(q)[i] = q[i + 1]
  BY HeadTailProperties, LenProperties, EmptySeq
<1>2. Range(q) = Range(Tail(q)) \cup {Head(q)}
  <2>1. \A i \in 1..Len(q) : i = 1 \/ (i - 1 \in 1..(Len(q) - 1) /\ q[i] = Tail(q)[i - 1])
    BY <1>1, SMT
  <2>2. \A i \in 1..(Len(q) - 1) : i + 1 \in 1..Len(q)
    BY <1>1, SMT
  <2>3. ASSUME NEW x \in Range(q) PROVE x \in Range(Tail(q)) \cup {Head(q)}
    <3>1. PICK i \in 1..Len(q) : x = q[i]
      BY <1>1, <2>3, Zenon DEF Range
    <3>2. CASE i = 1
      BY <1>1, <3>1, <3>2
    <3>3. CASE i # 1
      BY <1>1, <2>1, <3>1, <3>3, Zenon DEF Range
    <3>4. QED BY <3>2, <3>3
  <2>4. ASSUME NEW x \in Range(Tail(q)) \cup {Head(q)} PROVE x \in Range(q)
    BY <1>1, <2>2, SMT DEF Range
  <2>5. Range(q) \subseteq Range(Tail(q)) \cup {Head(q)}
    BY <2>3
  <2>6. Range(Tail(q)) \cup {Head(q)} \subseteq Range(q)
    BY <2>4
  <2>7. QED BY <2>5, <2>6, Zenon
<1>3. Head(q) \notin Range(Tail(q)) /\ IsInjective(Tail(q))
  BY <1>1, SMT DEF IsInjective, Range
<1>4. QED BY <1>1, <1>2, <1>3

-----------------------------------------------------------------------------
LEMMA InitIInv == Init => IInv
<1> SUFFICES ASSUME Init PROVE IInv OBVIOUS
<1>1. <<>> \in Seq(Buf) /\ <<>> \in Seq(Byte) /\ Range(fifo) = {} /\ IsInjective(fifo)
  BY DEF Init, Range, IsInjective
<1>2. TypeOK
  BY <1>1 DEF Init, TypeOK
<1>3. NoLeak /\ SoleOwner
  BY <1>1, BufAssumption DEF Init, NoLeak, SoleOwner, Queued
<1>4. QED BY <1>2, <1>3 DEF Init, IInv, ReceiverAlive, DisableReqNotStuck, DriverInv

-----------------------------------------------------------------------------
(* What the heap and the fifo are after a buffer nobody else owned is released. *)
LEMMA ReleasedOwner ==
  ASSUME TypeOK, NEW b \in Buf, Released(b),
         b \notin heap \cup Queued, heap \cap Queued = {}, IsInjective(fifo)
  PROVE  /\ heap' \subseteq Buf /\ fifo' \in Seq(Buf)
         /\ heap' \cup Queued' = heap \cup Queued \cup {b}
         /\ heap' \cap Queued' = {} /\ IsInjective(fifo')
<1>1. fifo \in Seq(Buf) /\ heap \subseteq Buf
  BY DEF TypeOK
<1>2. CASE fifo' = Append(fifo, b) /\ heap' = heap
  <2>1. /\ fifo' \in Seq(Buf) /\ Range(fifo') = Range(fifo) \cup {b} /\ IsInjective(fifo')
    BY <1>1, <1>2, PutBuffer DEF Queued
  <2>2. QED BY <1>1, <1>2, <2>1 DEF Queued
<1>3. CASE fifo' = fifo /\ heap' = heap \cup {b}
  BY <1>1, <1>3 DEF Queued
<1>4. QED BY <1>2, <1>3 DEF Released

(* Memory reported by the driver is a sequence of bytes, whatever it held. *)
LEMMA ContentType ==
  ASSUME TypeOK, NEW b \in Buf
  PROVE  Content(b) \in Seq(Byte)
<1>1. len[b] \in Nat /\ data[b] \in Seq(Byte) /\ Stale \in Byte
  BY DEF TypeOK, Stale, Byte
<1>2. \A i \in 1..Len(data[b]) : data[b][i] \in Byte
  BY <1>1, ElementOfSeq
<1>3. \A i \in 1..len[b] :
        (IF i \in 1..Len(data[b]) THEN data[b][i] ELSE Stale) \in Byte
  BY <1>1, <1>2
<1>4. QED BY <1>1, <1>3, IsASeq DEF Content

-----------------------------------------------------------------------------
(* Every step preserves the types. *)
LEMMA StepTypeOK == IInv /\ [Next]_vars => TypeOK'
<1> SUFFICES ASSUME IInv, [Next]_vars PROVE TypeOK'
  OBVIOUS
<1>a. /\ TypeOK /\ SoleOwner /\ DriverInv /\ ReceiverAlive
  BY DEF IInv
<1>e. <<>> \in Seq(Byte) /\ 0 \in Nat
  OBVIOUS
<1>b. ASSUME NEW b \in heap, RxEnable(b) PROVE
        /\ heap' \subseteq Buf /\ len' \in [Buf -> Nat] /\ data' \in [Buf -> Seq(Byte)]
        /\ rx' \in {"off", "on", "stopping"} /\ rx_buf' \in Buf \cup {NoBuf}
        /\ rx_next_buf' \in Buf \cup {NoBuf} /\ rx_offset' \in Nat /\ request' \in BOOLEAN
  <2>1. b \in Buf BY <1>a, <1>b DEF TypeOK
  <2>2. QED BY <1>a, <1>b, <1>e, <2>1 DEF RxEnable, TypeOK, driver
<1>1. CASE UartInit
  BY <1>1, <1>a, <1>b DEF UartInit, TypeOK, wire
<1>2. CASE UartInitFails
  BY <1>2, <1>a DEF UartInitFails, TypeOK, wire, driver
<1>3. CASE GiveBleInitOk
  BY <1>3, <1>a DEF GiveBleInitOk, TypeOK, wire, driver
<1>4. ASSUME NEW eol \in BOOLEAN, StoreByte(eol) PROVE TypeOK'
  <2>1. [id |-> arrived + 1, eol |-> eol] \in Byte
    BY <1>a DEF TypeOK, Byte
  <2>2. rx_buf \in Buf
    BY <1>4, <1>a DEF TypeOK, StoreByte
  <2>3. data' \in [Buf -> Seq(Byte)] /\ accepted' \in Seq(Byte)
    BY <1>4, <1>a, <2>1, <2>2, AppendProperties DEF TypeOK, StoreByte
  <2>4. arrived' \in Nat
    BY <1>4, <1>a DEF TypeOK, StoreByte
  <2>5. UNCHANGED <<heap, len, fifo, writer, bleTx, disable_req, work, boot,
                    ble_init_ok, driver, json>>
    BY <1>4 DEF StoreByte
  <2>6. QED BY <1>a, <2>3, <2>4, <2>5, SMTT(20) DEF TypeOK, driver
<1>5. CASE LoseByte
  BY <1>5, <1>a DEF LoseByte, TypeOK, driver
<1>6. CASE RxError
  BY <1>6, <1>a DEF RxError, TypeOK, wire
<1>7. CASE RxRdy
  <2>1. rx_buf \in Buf /\ Len(data[rx_buf]) \in Nat /\ rx_offset \in Nat
    BY <1>7, <1>a, LenProperties DEF TypeOK, RxRdy
  <2>2. len[rx_buf] + Unreported \in Nat
    <3>1. len[rx_buf] \in Nat
      BY <1>a, <2>1 DEF TypeOK
    <3>2. Unreported > 0
      BY <1>7 DEF RxRdy
    <3>3. QED BY <2>1, <3>1, <3>2 DEF Unreported
  <2>3. len' \in [Buf -> Nat]
    <3>1. len' = [len EXCEPT ![rx_buf] = len[rx_buf] + Unreported] /\ len \in [Buf -> Nat]
      BY <1>7, <1>a DEF TypeOK, RxRdy
    <3>2. QED BY <2>1, <2>2, <3>1
  <2>4. rx_offset' \in Nat /\ rx' \in {"off", "on", "stopping"} /\ disable_req' \in BOOLEAN
    BY <1>7, <1>a, <2>1 DEF TypeOK, RxRdy
  <2>5. QED BY <1>7, <1>a, <2>3, <2>4 DEF RxRdy, TypeOK, wire
<1>8. CASE RxBufRequest
  <2>1. CASE heap = {}
    BY <1>8, <1>a, <2>1 DEF RxBufRequest, TypeOK, wire
  <2>2. CASE heap # {}
    <3>1. PICK b \in heap : /\ heap' = heap \ {b}
                            /\ len' = [len EXCEPT ![b] = 0]
                            /\ data' = [data EXCEPT ![b] = <<>>]
                            /\ rx_next_buf' = b
      BY <1>8, <2>2 DEF RxBufRequest
    <3>2. b \in Buf BY <1>a DEF TypeOK
    <3>3. len' \in [Buf -> Nat] /\ data' \in [Buf -> Seq(Byte)]
      BY <1>a, <1>e, <3>1, <3>2 DEF TypeOK
    <3>4. QED BY <1>8, <1>a, <3>1, <3>2, <3>3 DEF RxBufRequest, TypeOK, wire
  <2>3. QED BY <2>1, <2>2
<1>9. CASE RxBufferFull
  <2>1. rx_buf \in Buf /\ rx_buf \notin heap \cup Queued
    BY <1>9, <1>a DEF RxBufferFull, TypeOK, DriverInv, SoleOwner
  <2>2. heap' \subseteq Buf /\ fifo' \in Seq(Buf)
    BY <1>9, <1>a, <2>1, ReleasedOwner DEF RxBufferFull, SoleOwner
  <2>3. QED BY <1>9, <1>a, <2>2 DEF RxBufferFull, TypeOK, wire
<1>10. CASE ReleaseCurrent
  <2>1. rx_buf \in Buf /\ rx_buf \notin heap \cup Queued
    BY <1>10, <1>a DEF ReleaseCurrent, TypeOK, SoleOwner
  <2>2. heap' \subseteq Buf /\ fifo' \in Seq(Buf)
    BY <1>10, <1>a, <2>1, ReleasedOwner DEF ReleaseCurrent, SoleOwner
  <2>3. QED BY <1>10, <1>a, <2>2 DEF ReleaseCurrent, TypeOK, wire
<1>11. CASE ReleaseNext
  <2>1. rx_next_buf \in Buf /\ rx_next_buf \notin heap \cup Queued
    BY <1>11, <1>a DEF ReleaseNext, TypeOK, SoleOwner
  <2>2. heap' \subseteq Buf /\ fifo' \in Seq(Buf)
    BY <1>11, <1>a, <2>1, ReleasedOwner DEF ReleaseNext, SoleOwner
  <2>3. QED BY <1>11, <1>a, <2>2 DEF ReleaseNext, TypeOK, wire
<1>12. CASE RxDisabled
  <2>1. CASE heap = {}
    BY <1>12, <1>a, <2>1 DEF RxDisabled, TypeOK, wire
  <2>2. CASE heap # {}
    BY <1>12, <1>a, <1>b, <2>2 DEF RxDisabled, TypeOK, wire
  <2>3. QED BY <2>1, <2>2
<1>13. CASE UartWork
  BY <1>13, <1>a, <1>b DEF UartWork, TypeOK, wire
<1>14. CASE WriterGet
  BY <1>14, <1>a, GetBuffer DEF WriterGet, TypeOK, SoleOwner, wire, driver
<1>15. CASE WriterPut
  <2>1. writer \in Buf
    BY <1>15, <1>a DEF WriterPut, TypeOK
  <2>2. json' \in Seq(Byte)
    BY <1>15, <1>a, <2>1, ContentType, ConcatProperties DEF WriterPut, TypeOK
  <2>3. QED BY <1>15, <1>a, <2>1, <2>2 DEF WriterPut, TypeOK, wire, driver
<1>16. CASE BtChunk
  BY <1>16, <1>a DEF BtChunk, TypeOK, wire, driver
<1>17. CASE BtChunkDone
  BY <1>17, <1>a DEF BtChunkDone, TypeOK, wire, driver
<1>18. CASE UNCHANGED vars
  BY <1>18, <1>a DEF vars, TypeOK, wire, driver
<1>19. QED
  BY <1>1, <1>2, <1>3, <1>4, <1>5, <1>6, <1>7, <1>8, <1>9, <1>10, <1>11, <1>12,
     <1>13, <1>14, <1>15, <1>16, <1>17, <1>18 DEF Next, Interrupt

-----------------------------------------------------------------------------
(* Every step preserves ownership: no block is lost and none is shared. *)
LEMMA StepOwnership == IInv /\ [Next]_vars => NoLeak' /\ SoleOwner'
<1> SUFFICES ASSUME IInv, [Next]_vars PROVE NoLeak' /\ SoleOwner'
  OBVIOUS
<1>a. /\ TypeOK /\ NoLeak /\ SoleOwner /\ DriverInv /\ ReceiverAlive
  BY DEF IInv
<1>b. NoBuf \notin heap \cup Queued \cup heap'\cup Queued'
  <2>1. NoBuf \notin heap \cup Queued
    BY <1>a, BufAssumption, RangeOfSeq DEF TypeOK, Queued
  <2>2. TypeOK'
    BY StepTypeOK
  <2>3. NoBuf \notin heap' \cup Queued'
    BY <2>2, BufAssumption, RangeOfSeq DEF TypeOK, Queued
  <2>4. QED BY <2>1, <2>3
(* A block taken from the heap by the driver, which is idle. *)
<1>c. ASSUME NEW b \in heap, RxEnable(b), rx_buf = NoBuf, rx_next_buf = NoBuf,
             UNCHANGED <<fifo, writer, bleTx>>
      PROVE  NoLeak' /\ SoleOwner'
  BY <1>a, <1>b, <1>c DEF RxEnable, NoLeak, SoleOwner, Queued
(* Steps that move no block. *)
<1>d. ASSUME UNCHANGED <<heap, fifo, writer, bleTx, rx_buf, rx_next_buf>>
      PROVE  NoLeak' /\ SoleOwner'
  BY <1>a, <1>d DEF NoLeak, SoleOwner, Queued
<1>1. CASE UartInit
  BY <1>1, <1>a, <1>c DEF UartInit, DriverInv
<1>2. CASE UartInitFails \/ GiveBleInitOk
  BY <1>2, <1>d DEF UartInitFails, GiveBleInitOk, driver
<1>3. CASE (\E eol \in BOOLEAN : StoreByte(eol)) \/ LoseByte \/ RxError \/ RxRdy
  BY <1>3, <1>d DEF StoreByte, LoseByte, RxError, RxRdy, driver
<1>4. CASE RxBufRequest
  <2>1. CASE heap = {}
    BY <1>4, <1>d, <2>1 DEF RxBufRequest
  <2>2. CASE heap # {}
    <3>1. PICK b \in heap : heap' = heap \ {b} /\ rx_next_buf' = b
      BY <1>4, <2>2 DEF RxBufRequest
    <3>2. UNCHANGED <<fifo, writer, bleTx, rx_buf>> /\ rx_next_buf = NoBuf
      BY <1>4, <1>a DEF RxBufRequest, DriverInv
    <3>3. b # NoBuf /\ b \notin Queued /\ b \notin {rx_buf, writer, bleTx}
      BY <1>a, <1>b, <3>1 DEF SoleOwner
    <3>4. Queued' = Queued
      BY <3>2 DEF Queued
    <3>5. NoLeak'
      <4> SUFFICES ASSUME NEW x \in Buf
                   PROVE  x \in heap' \cup Queued' \cup {rx_buf', b, writer', bleTx'}
        BY <3>1 DEF NoLeak
      <4>1. x \in heap \cup Queued \cup {rx_buf, NoBuf, writer, bleTx}
        BY <1>a, <3>2 DEF NoLeak
      <4>2. QED BY <3>1, <3>2, <3>4, <4>1, BufAssumption
    <3>6. SoleOwner'
      BY <1>a, <1>b, <3>1, <3>2, <3>3, <3>4 DEF SoleOwner
    <3>7. QED BY <3>5, <3>6
  <2>3. QED BY <2>1, <2>2
<1>5. CASE RxBufferFull
  <2>1. /\ rx_buf \in Buf /\ rx_buf \notin heap \cup Queued /\ Released(rx_buf)
        /\ rx_buf' = rx_next_buf /\ rx_next_buf' = NoBuf /\ UNCHANGED <<writer, bleTx>>
    BY <1>5, <1>a DEF RxBufferFull, TypeOK, DriverInv, SoleOwner
  <2>2. /\ heap' \cup Queued' = heap \cup Queued \cup {rx_buf}
        /\ heap' \cap Queued' = {} /\ IsInjective(fifo')
    BY <1>a, <2>1, ReleasedOwner DEF SoleOwner
  <2>3. QED BY <1>a, <1>b, <2>1, <2>2 DEF NoLeak, SoleOwner
<1>6. CASE ReleaseCurrent
  <2>1. /\ rx_buf \in Buf /\ rx_buf \notin heap \cup Queued /\ Released(rx_buf)
        /\ rx_buf' = NoBuf /\ UNCHANGED <<rx_next_buf, writer, bleTx>>
    BY <1>6, <1>a DEF ReleaseCurrent, TypeOK, SoleOwner
  <2>2. /\ heap' \cup Queued' = heap \cup Queued \cup {rx_buf}
        /\ heap' \cap Queued' = {} /\ IsInjective(fifo')
    BY <1>a, <2>1, ReleasedOwner DEF SoleOwner
  <2>3. QED BY <1>a, <1>b, <2>1, <2>2 DEF NoLeak, SoleOwner
<1>7. CASE ReleaseNext
  <2>1. /\ rx_next_buf \in Buf /\ rx_next_buf \notin heap \cup Queued
        /\ Released(rx_next_buf) /\ rx_buf = NoBuf /\ rx_buf' = NoBuf
        /\ rx_next_buf' = NoBuf /\ UNCHANGED <<writer, bleTx>>
    BY <1>7, <1>a DEF ReleaseNext, TypeOK, SoleOwner
  <2>2. /\ heap' \cup Queued' = heap \cup Queued \cup {rx_next_buf}
        /\ heap' \cap Queued' = {} /\ IsInjective(fifo')
    BY <1>a, <2>1, ReleasedOwner DEF SoleOwner
  <2>3. QED BY <1>a, <1>b, <2>1, <2>2 DEF NoLeak, SoleOwner
<1>8. CASE RxDisabled
  BY <1>8, <1>a, <1>c, <1>d DEF RxDisabled
<1>9. CASE UartWork
  BY <1>9, <1>a, <1>c DEF UartWork, ReceiverAlive, DriverInv
<1>10. CASE WriterGet
  <2>1. /\ writer' = Head(fifo) /\ fifo' = Tail(fifo) /\ writer = NoBuf
        /\ UNCHANGED <<heap, bleTx, rx_buf, rx_next_buf>> /\ fifo # <<>>
    BY <1>10 DEF WriterGet, driver
  <2>2. /\ Queued = Queued' \cup {writer'} /\ writer' \notin Queued' /\ IsInjective(fifo')
    BY <1>a, <2>1, GetBuffer DEF Queued, SoleOwner, TypeOK
  <2>3. writer' # NoBuf /\ writer' \notin heap /\ writer' \notin {rx_buf, rx_next_buf, bleTx}
    BY <1>a, <1>b, <2>2 DEF SoleOwner
  <2>4. NoLeak'
    <3> SUFFICES ASSUME NEW x \in Buf
                 PROVE  x \in heap' \cup Queued' \cup {rx_buf', rx_next_buf', writer', bleTx'}
      BY DEF NoLeak
    <3>1. x \in heap \cup Queued \cup {rx_buf, rx_next_buf, NoBuf, bleTx}
      BY <1>a, <2>1 DEF NoLeak
    <3>2. QED BY <2>1, <2>2, <3>1, BufAssumption
  <2>5. {rx_buf, rx_next_buf, writer', bleTx} \cap (heap \cup Queued') = {}
    BY <1>a, <2>2, <2>3 DEF SoleOwner
  <2>6. SoleOwner'
    BY <1>a, <2>1, <2>2, <2>3, <2>5 DEF SoleOwner
  <2>7. QED BY <2>4, <2>6
<1>11. CASE WriterPut
  <2>1. /\ heap' = heap \cup {writer} /\ writer # NoBuf /\ writer' = NoBuf
        /\ UNCHANGED <<fifo, bleTx, rx_buf, rx_next_buf>>
    BY <1>11 DEF WriterPut, driver
  <2>2. QED BY <1>a, <1>b, <2>1 DEF NoLeak, SoleOwner, Queued
<1>12. CASE BtChunk
  <2>1. PICK b \in heap : bleTx' = b /\ heap' = heap \ {b}
    BY <1>12 DEF BtChunk
  <2>2. bleTx = NoBuf /\ UNCHANGED <<fifo, writer, rx_buf, rx_next_buf>>
    BY <1>12 DEF BtChunk, driver
  <2>3. b # NoBuf /\ b \notin Queued /\ b \notin {rx_buf, rx_next_buf, writer}
    BY <1>a, <1>b, <2>1 DEF SoleOwner
  <2>4. Queued' = Queued
    BY <2>2 DEF Queued
  <2>5. NoLeak'
    <3> SUFFICES ASSUME NEW x \in Buf
                 PROVE  x \in heap' \cup Queued' \cup {rx_buf', rx_next_buf', writer', b}
      BY <2>1 DEF NoLeak
    <3>1. x \in heap \cup Queued \cup {rx_buf, rx_next_buf, writer, NoBuf}
      BY <1>a, <2>2 DEF NoLeak
    <3>2. QED BY <2>1, <2>2, <2>4, <3>1, BufAssumption
  <2>6. SoleOwner'
    BY <1>a, <1>b, <2>1, <2>2, <2>3, <2>4 DEF SoleOwner
  <2>7. QED BY <2>5, <2>6
<1>13. CASE BtChunkDone
  <2>1. /\ heap' = heap \cup {bleTx} /\ bleTx # NoBuf /\ bleTx' = NoBuf
        /\ UNCHANGED <<fifo, writer, rx_buf, rx_next_buf>>
    BY <1>13 DEF BtChunkDone, driver
  <2>2. QED BY <1>a, <1>b, <2>1 DEF NoLeak, SoleOwner, Queued
<1>14. CASE UNCHANGED vars
  BY <1>14, <1>d DEF vars, driver
<1>15. QED
  BY <1>1, <1>2, <1>3, <1>4, <1>5, <1>6, <1>7, <1>8, <1>9, <1>10, <1>11, <1>12,
     <1>13, <1>14 DEF Next, Interrupt

(* Every step preserves what is known of the driver and of disable_req. *)
LEMMA StepControl ==
  IInv /\ [Next]_vars => ReceiverAlive' /\ DisableReqNotStuck' /\ DriverInv'
<1> SUFFICES ASSUME IInv, [Next]_vars
             PROVE  ReceiverAlive' /\ DisableReqNotStuck' /\ DriverInv'
  OBVIOUS
<1>a. /\ TypeOK /\ DriverInv /\ ReceiverAlive /\ DisableReqNotStuck /\ SoleOwner
  BY DEF IInv
<1>n. NoBuf \notin heap
  BY <1>a, BufAssumption DEF TypeOK
<1> USE DEF DriverInv, ReceiverAlive, DisableReqNotStuck, driver
(* An idle driver starts to receive. *)
<1>r. ASSUME NEW b \in heap, RxEnable(b), rx_buf = NoBuf, rx_next_buf = NoBuf
      PROVE  rx' = "on" /\ rx_buf' # NoBuf /\ rx_next_buf' = NoBuf
  BY <1>r, <1>n DEF RxEnable
<1>1. CASE UartInit
  <2>1. rx = "off" /\ rx_buf = NoBuf /\ rx_next_buf = NoBuf /\ ~disable_req /\ ~work'
    BY <1>1, <1>a DEF UartInit
  <2>2. rx' = "on" /\ rx_buf' # NoBuf /\ rx_next_buf' = NoBuf
    BY <1>1, <1>r, <2>1 DEF UartInit
  <2>3. QED BY <1>1, <2>1, <2>2 DEF UartInit
<1>2. CASE UartInitFails \/ GiveBleInitOk
  BY <1>2, <1>a DEF UartInitFails, GiveBleInitOk
<1>3. CASE (\E eol \in BOOLEAN : StoreByte(eol)) \/ LoseByte \/ RxError
  <2>1. CASE \E eol \in BOOLEAN : StoreByte(eol)
    BY <1>a, <2>1 DEF StoreByte
  <2>2. CASE LoseByte
    BY <1>a, <2>2 DEF LoseByte
  <2>3. CASE RxError
    BY <1>a, <2>3 DEF RxError
  <2>4. QED BY <1>3, <2>1, <2>2, <2>3
<1>4. CASE RxRdy
  BY <1>4, <1>a DEF RxRdy
<1>5. CASE RxBufRequest
  BY <1>5, <1>a DEF RxBufRequest
<1>6. CASE RxBufferFull
  BY <1>6, <1>a DEF RxBufferFull
<1>7. CASE ReleaseCurrent \/ ReleaseNext
  BY <1>7, <1>a DEF ReleaseCurrent, ReleaseNext
<1>8. CASE RxDisabled
  BY <1>8, <1>a, <1>n DEF RxDisabled, RxEnable
<1>9. CASE UartWork
  <2>1. rx = "off" /\ rx_buf = NoBuf /\ rx_next_buf = NoBuf /\ boot' # "start" /\ ~work'
    BY <1>9, <1>a DEF UartWork
  <2>2. rx' = "on" /\ rx_buf' # NoBuf /\ rx_next_buf' = NoBuf
    BY <1>9, <1>r, <2>1 DEF UartWork
  <2>3. QED BY <1>9, <1>a, <2>1, <2>2 DEF UartWork
<1>10. CASE WriterGet \/ WriterPut \/ BtChunk \/ BtChunkDone
  BY <1>10, <1>a DEF WriterGet, WriterPut, BtChunk, BtChunkDone
<1>11. CASE UNCHANGED vars
  BY <1>11, <1>a DEF vars
<1>12. QED
  BY <1>1, <1>2, <1>3, <1>4, <1>5, <1>6, <1>7, <1>8, <1>9, <1>10, <1>11
  DEF Next, Interrupt

LEMMA StepIInv == IInv /\ [Next]_vars => IInv'
  BY StepTypeOK, StepOwnership, StepControl DEF IInv

-----------------------------------------------------------------------------
(* The inductive invariant holds throughout. *)
THEOREM Inductive == Spec => []IInv
  BY InitIInv, StepIInv, PTL DEF Spec

(* Every variable of the receive path keeps its type. *)
THEOREM TypeCorrect == Spec => []TypeOK
<1>1. IInv => TypeOK BY DEF IInv
<1>2. QED BY <1>1, Inductive, PTL

(* For any number of blocks, the heap never loses one and never has one with *)
(* two owners: every buffer given to uart_rx_enable, uart_rx_buf_rsp, the    *)
(* fifo, the writer or bt_receive_cb comes back exactly once.                *)
THEOREM Ownership == Spec => []OneOwner
<1>1. IInv => OneOwner BY DEF IInv, OneOwner
<1>2. QED BY <1>1, Inductive, PTL

(* For any number of blocks, reception never ends for good after uart_init, *)
(* and disable_req is set only while the stop it asked for is under way.    *)
THEOREM Reception == Spec => []ReceiverRuns
<1>1. IInv => ReceiverRuns BY DEF IInv, ReceiverRuns
<1>2. QED BY <1>1, Inductive, PTL

-----------------------------------------------------------------------------
(* The byte channel: what getJsonData is given is what the driver accepted, in order. *)

(* The sequence s is a stretch of a, behind place o. *)
Stretch(s, a, o) == \A i \in 1..Len(s) : a[o + i] = s[i]

(* Behind what getJsonData has been given come, without a gap, the writer's      *)
(* buffer, those of the fifo (the k-th behind place p[k]) and the driver's.      *)
Laid(p) ==
  /\ p \in Seq(Nat) /\ Len(p) = Len(fifo) + 1
  /\ \A k \in 1..(Len(fifo) + 1) : p[k] <= Len(accepted)
  /\ writer = NoBuf => p[1] = Len(json)
  /\ writer # NoBuf => /\ p[1] = Len(json) + Len(data[writer])
                       /\ Stretch(data[writer], accepted, Len(json))
  /\ \A k \in 1..Len(fifo) : /\ p[k + 1] = p[k] + Len(data[fifo[k]])
                             /\ Stretch(data[fifo[k]], accepted, p[k])
  /\ rx_buf = NoBuf => Len(accepted) = p[Len(fifo) + 1]
  /\ rx_buf # NoBuf => /\ Len(accepted) = p[Len(fifo) + 1] + Len(data[rx_buf])
                       /\ Stretch(data[rx_buf], accepted, p[Len(fifo) + 1])

(* A buffer in use counts the bytes it holds: all of them once it is handed over, *)
(* the reported ones before.                                                      *)
Counted ==
  /\ \A b \in Buf : b \in Queued \/ b = writer => len[b] = Len(data[b]) /\ len[b] > 0
  /\ rx_buf # NoBuf => len[rx_buf] = rx_offset /\ rx_offset <= Len(data[rx_buf])
  /\ rx_next_buf # NoBuf => len[rx_next_buf] = 0 /\ Len(data[rx_next_buf]) = 0

ChannelInv == Counted /\ \E p : Laid(p)


-----------------------------------------------------------------------------
LEMMA ChannelTypes ==
  ASSUME IInv
  PROVE  /\ fifo \in Seq(Buf) /\ Len(fifo) \in Nat /\ \A k \in 1..Len(fifo) : fifo[k] \in Buf
         /\ Queued = {fifo[k] : k \in 1..Len(fifo)}
         /\ writer \in Buf \cup {NoBuf} /\ rx_buf \in Buf \cup {NoBuf}
         /\ rx_next_buf \in Buf \cup {NoBuf} /\ NoBuf \notin Buf
         /\ \A b \in Buf : /\ data[b] \in Seq(Byte) /\ Len(data[b]) \in Nat
                           /\ len[b] \in Nat
         /\ len \in [Buf -> Nat] /\ data \in [Buf -> Seq(Byte)]
         /\ accepted \in Seq(Byte) /\ json \in Seq(Byte)
         /\ Len(accepted) \in Nat /\ Len(json) \in Nat /\ arrived \in Nat
         /\ rx_offset \in Nat
<1>1. /\ fifo \in Seq(Buf) /\ writer \in Buf \cup {NoBuf} /\ rx_buf \in Buf \cup {NoBuf}
      /\ rx_next_buf \in Buf \cup {NoBuf} /\ NoBuf \notin Buf
      /\ len \in [Buf -> Nat] /\ data \in [Buf -> Seq(Byte)]
      /\ accepted \in Seq(Byte) /\ json \in Seq(Byte)
      /\ arrived \in Nat /\ rx_offset \in Nat
  BY BufAssumption DEF IInv, TypeOK
<1>2. /\ Len(fifo) \in Nat /\ DOMAIN fifo = 1..Len(fifo)
      /\ \A k \in 1..Len(fifo) : fifo[k] \in Buf
  BY <1>1, LenProperties, ElementOfSeq
<1>3. Queued = {fifo[k] : k \in 1..Len(fifo)}
  BY <1>2 DEF Queued, Range
<1>4. \A b \in Buf : data[b] \in Seq(Byte) /\ len[b] \in Nat
  BY <1>1
<1>5. \A b \in Buf : Len(data[b]) \in Nat
  BY <1>4, LenProperties
<1>6. Len(accepted) \in Nat /\ Len(json) \in Nat
  BY <1>1, LenProperties
<1>7. QED BY <1>1, <1>2, <1>3, <1>4, <1>5, <1>6

(* The places grow from one buffer to the next. *)
LEMMA PlacesOf ==
  ASSUME IInv, NEW p, Laid(p)
  PROVE  /\ p \in Seq(Nat) /\ \A k \in 1..(Len(fifo) + 1) : p[k] \in Nat
         /\ p[1] \in Nat /\ p[Len(fifo) + 1] \in Nat
<1>1. p \in Seq(Nat) /\ Len(p) = Len(fifo) + 1 /\ Len(fifo) \in Nat
  BY ChannelTypes DEF Laid
<1>2. \A k \in 1..(Len(fifo) + 1) : p[k] \in Nat
  BY <1>1, ElementOfSeq
<1>3. 1 \in 1..(Len(fifo) + 1) /\ Len(fifo) + 1 \in 1..(Len(fifo) + 1)
  BY <1>1
<1>4. QED BY <1>1, <1>2, <1>3

(* A step that leaves the buffers in use and the stream alone. *)
LEMMA LaidKept ==
  ASSUME IInv, NEW p, Laid(p),
         UNCHANGED <<fifo, writer, json, accepted, rx_buf>>,
         \A b \in Buf : b \in Queued \/ b = writer \/ b = rx_buf => data'[b] = data[b]
  PROVE  Laid(p)'
<1>1. \A k \in 1..Len(fifo) : fifo[k] \in Buf /\ fifo[k] \in Queued
  BY ChannelTypes
<1>2. /\ writer # NoBuf => data'[writer] = data[writer]
      /\ rx_buf # NoBuf => data'[rx_buf] = data[rx_buf]
      /\ \A k \in 1..Len(fifo) : data'[fifo[k]] = data[fifo[k]]
  BY <1>1, ChannelTypes
<1>3. QED BY <1>2 DEF Laid


-----------------------------------------------------------------------------
(* A step that changes no more than blocks nobody uses, or what has been *)
(* reported of the driver's buffer.                                      *)
LEMMA Aside ==
  ASSUME IInv, ChannelInv,
         UNCHANGED <<fifo, writer, json, accepted, rx_buf>>,
         \A b \in Buf : b \in Queued \/ b = writer => len'[b] = len[b],
         \A b \in Buf : b \in Queued \/ b = writer \/ b = rx_buf => data'[b] = data[b],
         rx_buf # NoBuf => len'[rx_buf] = rx_offset' /\ rx_offset' <= Len(data[rx_buf]),
         rx_next_buf' # NoBuf => len'[rx_next_buf'] = 0 /\ Len(data'[rx_next_buf']) = 0
  PROVE  ChannelInv'
<1>1. \E p : Laid(p)'
  BY LaidKept DEF ChannelInv
<1>2. Counted'
  <2>1. Queued' = Queued /\ writer' = writer /\ rx_buf' = rx_buf
    BY DEF Queued
  <2>2. \A b \in Buf : b \in Queued' \/ b = writer' => len'[b] = Len(data'[b]) /\ len'[b] > 0
    BY <2>1 DEF ChannelInv, Counted
  <2>3. rx_buf' # NoBuf => len'[rx_buf'] = rx_offset' /\ rx_offset' <= Len(data'[rx_buf'])
    <3>1. rx_buf # NoBuf => data'[rx_buf] = data[rx_buf]
      BY ChannelTypes
    <3>2. QED BY <2>1, <3>1
  <2>4. QED BY <2>2, <2>3 DEF Counted
<1>3. QED BY <1>1, <1>2 DEF ChannelInv

(* The driver is given a first buffer (uart_rx_enable). *)
LEMMA EnableAside ==
  ASSUME IInv, ChannelInv, NEW b \in heap, RxEnable(b), rx_buf = NoBuf, rx_next_buf = NoBuf,
         UNCHANGED <<fifo, writer, json, accepted>>
  PROVE  ChannelInv'
<1>1. /\ rx_buf' = b /\ rx_next_buf' = NoBuf /\ rx_offset' = 0
      /\ data' = [data EXCEPT ![b] = <<>>] /\ len' = [len EXCEPT ![b] = 0]
  BY DEF RxEnable
<1>2. b \in Buf /\ b \notin Queued /\ b # writer /\ b # NoBuf
  BY BufAssumption DEF IInv, TypeOK, SoleOwner
<1>3. /\ data'[b] = <<>> /\ len'[b] = 0 /\ Len(data'[b]) = 0
      /\ \A c \in Buf : c # b => data'[c] = data[c] /\ len'[c] = len[c]
  <2>1. data'[b] = <<>> /\ len'[b] = 0
    BY <1>1, <1>2, ChannelTypes
  <2>2. \A c \in Buf : c # b => data'[c] = data[c] /\ len'[c] = len[c]
    BY <1>1, <1>2, ChannelTypes
  <2>3. QED BY <2>1, <2>2
<1>4. \A c \in Buf : c \in Queued \/ c = writer => data'[c] = data[c] /\ len'[c] = len[c]
  BY <1>2, <1>3
<1>5. Counted'
  <2>1. Queued' = Queued /\ writer' = writer
    BY DEF Queued
  <2>2. \A c \in Buf : c \in Queued' \/ c = writer' => len'[c] = Len(data'[c]) /\ len'[c] > 0
    BY <1>4, <2>1 DEF ChannelInv, Counted
  <2>3. len'[rx_buf'] = rx_offset' /\ rx_offset' <= Len(data'[rx_buf'])
    BY <1>1, <1>3
  <2>4. QED BY <1>1, <2>2, <2>3 DEF Counted
<1>6. PICK p : Laid(p)
  BY DEF ChannelInv
<1>7. Laid(p)'
  <2>1. /\ writer # NoBuf => data'[writer] = data[writer]
        /\ \A k \in 1..Len(fifo) : data'[fifo[k]] = data[fifo[k]]
    BY <1>4, ChannelTypes
  <2>2. /\ Len(accepted') = p[Len(fifo') + 1] + Len(data'[rx_buf'])
        /\ Stretch(data'[rx_buf'], accepted', p[Len(fifo') + 1])
    <3>1. Len(accepted) = p[Len(fifo) + 1] /\ p[Len(fifo) + 1] \in Nat
      BY <1>6, PlacesOf DEF Laid
    <3>2. Len(data'[rx_buf']) = 0 /\ 1..0 = {}
      BY <1>1, <1>3
    <3>3. \A m \in Nat : m = m + 0
      OBVIOUS
    <3>4. QED BY <3>1, <3>2, <3>3 DEF Stretch
  <2>3. QED BY <1>1, <1>2, <1>6, <2>1, <2>2 DEF Laid
<1>8. QED BY <1>5, <1>7 DEF ChannelInv

LEMMA ChannelRxBufRequest ==
  ASSUME IInv, ChannelInv, RxBufRequest
  PROVE  ChannelInv'
<1>1. UNCHANGED <<fifo, writer, json, accepted, rx_buf, rx_offset>> /\ rx_next_buf = NoBuf
  BY DEF RxBufRequest, wire, IInv, DriverInv
<1>2. rx_buf # NoBuf => len[rx_buf] = rx_offset /\ rx_offset <= Len(data[rx_buf])
  BY DEF ChannelInv, Counted
<1>3. CASE heap = {}
  <2>1. UNCHANGED <<len, data, rx_next_buf>>
    BY <1>3 DEF RxBufRequest
  <2>2. QED BY <1>1, <1>2, <2>1, Aside
<1>4. CASE heap # {}
  <2>1. PICK b \in heap : /\ len' = [len EXCEPT ![b] = 0] /\ data' = [data EXCEPT ![b] = <<>>]
                          /\ rx_next_buf' = b
    BY <1>4 DEF RxBufRequest
  <2>2. b \in Buf /\ b \notin Queued /\ b # writer /\ b # rx_buf
    BY DEF IInv, TypeOK, SoleOwner
  <2>3. data'[b] = <<>> /\ len'[b] = 0 /\ Len(data'[b]) = 0
    <3>1. data'[b] = <<>> /\ len'[b] = 0
      BY <2>1, <2>2, ChannelTypes
    <3>2. QED BY <3>1
  <2>4. \A c \in Buf : c # b => data'[c] = data[c] /\ len'[c] = len[c]
    BY <2>1, <2>2, ChannelTypes
  <2>5. rx_buf # NoBuf => len'[rx_buf] = rx_offset' /\ rx_offset' <= Len(data[rx_buf])
    BY <1>1, <1>2, <2>2, <2>4, ChannelTypes
  <2>6. QED BY <1>1, <2>1, <2>2, <2>3, <2>4, <2>5, Aside
<1>5. QED BY <1>3, <1>4

LEMMA ChannelRxRdy ==
  ASSUME IInv, ChannelInv, RxRdy
  PROVE  ChannelInv'
<1>1. /\ UNCHANGED <<fifo, writer, json, accepted, rx_buf, rx_next_buf, data>>
      /\ rx_buf # NoBuf /\ rx_offset' = Len(data[rx_buf])
      /\ len' = [len EXCEPT ![rx_buf] = len[rx_buf] + (Len(data[rx_buf]) - rx_offset)]
  BY DEF RxRdy, wire, Unreported
<1>2. /\ rx_buf \in Buf /\ rx_buf \notin Queued /\ rx_buf # writer /\ rx_buf # rx_next_buf
  BY <1>1 DEF IInv, TypeOK, SoleOwner
<1>3. /\ len'[rx_buf] = len[rx_buf] + (Len(data[rx_buf]) - rx_offset)
      /\ \A c \in Buf : c # rx_buf => len'[c] = len[c]
  BY <1>1, <1>2, ChannelTypes
<1>4. len'[rx_buf] = rx_offset' /\ rx_offset' <= Len(data[rx_buf])
  <2>1. len[rx_buf] = rx_offset /\ rx_offset \in Nat /\ Len(data[rx_buf]) \in Nat
    BY <1>1, <1>2, ChannelTypes DEF ChannelInv, Counted
  <2>2. \A m, n \in Nat : m + (n - m) = n /\ n <= n
    OBVIOUS
  <2>3. QED BY <1>1, <1>3, <2>1, <2>2
<1>5. \A b \in Buf : b \in Queued \/ b = writer => len'[b] = len[b]
  BY <1>2, <1>3
<1>6. rx_next_buf' # NoBuf => len'[rx_next_buf'] = 0 /\ Len(data'[rx_next_buf']) = 0
  <2>1. rx_next_buf # NoBuf => len'[rx_next_buf] = len[rx_next_buf]
    BY <1>2, <1>3, ChannelTypes
  <2>2. QED BY <1>1, <2>1 DEF ChannelInv, Counted
<1>7. QED BY <1>1, <1>4, <1>5, <1>6, Aside


-----------------------------------------------------------------------------
(* The driver's buffer is released with all of it reported: it is what the fifo *)
(* now ends with, or it was empty.                                              *)
LEMMA ReleaseInOrder ==
  ASSUME IInv, ChannelInv, rx_buf # NoBuf, Unreported = 0, Released(rx_buf),
         UNCHANGED <<len, data, writer, json, accepted>>, rx_offset' = 0,
         \/ rx_buf' = rx_next_buf /\ rx_next_buf' = NoBuf
         \/ rx_buf' = NoBuf /\ rx_next_buf' = rx_next_buf
  PROVE  ChannelInv'
<1> DEFINE b == rx_buf
           n == Len(fifo)
<1>1. b \in Buf /\ b \notin Queued /\ b # writer /\ n \in Nat
  BY ChannelTypes DEF IInv, SoleOwner
<1>2. len[b] = Len(data[b]) /\ Len(data[b]) \in Nat
  <2>1. len[b] = rx_offset /\ rx_offset \in Nat /\ Len(data[b]) \in Nat
            /\ Len(data[b]) - rx_offset = 0
    BY <1>1, ChannelTypes DEF ChannelInv, Counted, Unreported
  <2>2. QED BY <2>1
<1>3. PICK p : Laid(p)
  BY DEF ChannelInv
<1>4. /\ p \in Seq(Nat) /\ Len(p) = n + 1 /\ p[n + 1] \in Nat
      /\ Len(accepted) = p[n + 1] + Len(data[b]) /\ Stretch(data[b], accepted, p[n + 1])
            /\ Len(accepted) \in Nat
  BY <1>3, PlacesOf, ChannelTypes DEF Laid
<1>5. /\ \A k \in 1..(n + 1) : p[k] <= Len(accepted)
      /\ writer = NoBuf => p[1] = Len(json)
      /\ writer # NoBuf => p[1] = Len(json) + Len(data[writer])
                            /\ Stretch(data[writer], accepted, Len(json))
      /\ \A k \in 1..n : p[k + 1] = p[k] + Len(data[fifo[k]])
                          /\ Stretch(data[fifo[k]], accepted, p[k])
  BY <1>3 DEF Laid
<1>6. \A s, a : Len(s) = 0 => Stretch(s, accepted, a)
  <2>1. 1..0 = {}
    OBVIOUS
  <2>2. QED BY <2>1 DEF Stretch
<1>7. rx_buf' # NoBuf => len'[rx_buf'] = 0 /\ Len(data'[rx_buf']) = 0
  BY DEF ChannelInv, Counted
<1>8. Counted'
  <2>1. \A c \in Buf : c \in Queued' \/ c = writer' => len[c] = Len(data[c]) /\ len[c] > 0
    <3>1. \A c \in Buf : c \in Queued' => c \in Queued \/ (c = b /\ len[b] > 0)
      <4>1. CASE fifo' = fifo
        BY <4>1 DEF Queued
      <4>2. CASE fifo' # fifo
        <5>1. len[b] > 0 /\ fifo' = Append(fifo, b)
          BY <4>2 DEF Released
        <5>2. Range(Append(fifo, b)) = Range(fifo) \cup {b}
          BY <1>1, ChannelTypes, PutBuffer
        <5>3. QED BY <5>1, <5>2 DEF Queued
      <4>3. QED BY <4>1, <4>2
    <3>2. QED BY <1>2, <3>1 DEF ChannelInv, Counted
  <2>2. rx_buf' # NoBuf => len'[rx_buf'] = rx_offset' /\ rx_offset' <= Len(data'[rx_buf'])
    BY <1>7
  <2>3. rx_next_buf' # NoBuf => len'[rx_next_buf'] = 0 /\ Len(data'[rx_next_buf']) = 0
    BY DEF ChannelInv, Counted
  <2>4. QED BY <2>1, <2>2, <2>3 DEF Counted
<1>9. CASE len[b] > 0
  <2> DEFINE f == Append(fifo, b)
  <2>0. PICK r : r = Append(p, Len(accepted))
    OBVIOUS
  <2>1. fifo' = f
    BY <1>9 DEF Released
  <2>2. /\ Len(f) = n + 1 /\ f[n + 1] = b /\ \A k \in 1..n : f[k] = fifo[k]
    BY <1>1, ChannelTypes, AppendProperties
  <2>3. /\ r \in Seq(Nat) /\ Len(r) = (n + 1) + 1 /\ r[(n + 1) + 1] = Len(accepted)
        /\ \A k \in 1..(n + 1) : r[k] = p[k]
    BY <1>4, <2>0, AppendProperties
  <2> HIDE DEF f, n
  <2>4. /\ \A k \in 1..(n + 1) : k = n + 1 \/ k \in 1..n
        /\ \A k \in 1..n : k \in 1..(n + 1) /\ k + 1 \in 1..(n + 1)
        /\ 1 \in 1..(n + 1) /\ n + 1 \in 1..(n + 1)
    BY <1>1
  <2>5. \A k \in 1..(n + 1) : /\ r[k + 1] = r[k] + Len(data[f[k]])
                              /\ Stretch(data[f[k]], accepted, r[k])
    <3>1. ASSUME NEW k \in 1..n
          PROVE r[k + 1] = r[k] + Len(data[f[k]]) /\ Stretch(data[f[k]], accepted, r[k])
      BY <1>5, <2>2, <2>3, <2>4
    <3>2. r[(n + 1) + 1] = r[n + 1] + Len(data[f[n + 1]])
            /\ Stretch(data[f[n + 1]], accepted, r[n + 1])
      BY <1>4, <2>2, <2>3, <2>4
    <3>3. QED BY <2>4, <3>1, <3>2
  <2>7. /\ writer = NoBuf => r[1] = Len(json)
        /\ writer # NoBuf => r[1] = Len(json) + Len(data[writer])
                              /\ Stretch(data[writer], accepted, Len(json))
    BY <1>5, <2>3, <2>4
  <2>6. \A k \in 1..((n + 1) + 1) : r[k] <= Len(accepted)
    <3>1. \A k \in 1..((n + 1) + 1) : k = (n + 1) + 1 \/ k \in 1..(n + 1)
      BY <1>1
    <3>2. \A x \in Nat : x <= x
      OBVIOUS
    <3>3. QED BY <1>4, <1>5, <2>3, <3>1, <3>2
  <2>8. rx_buf' # NoBuf => /\ Len(accepted) = r[(n + 1) + 1] + Len(data[rx_buf'])
                           /\ Stretch(data[rx_buf'], accepted, r[(n + 1) + 1])
    <3>1. \A x \in Nat : x = x + 0
      OBVIOUS
    <3>2. QED BY <1>4, <1>6, <1>7, <2>3, <3>1
  <2>9. Laid(r)'
    <3>1. /\ Len(fifo') = n + 1 /\ writer' = writer /\ json' = json
          /\ accepted' = accepted /\ data' = data
      BY <2>1, <2>2
    <3>2. \A k \in 1..Len(fifo') : /\ r[k + 1] = r[k] + Len(data'[fifo'[k]])
                                   /\ Stretch(data'[fifo'[k]], accepted', r[k])
      BY <2>1, <2>5, <3>1
    <3>3. QED BY <2>3, <2>6, <2>7, <2>8, <3>1, <3>2 DEF Laid
  <2>10. QED BY <1>8, <2>9 DEF ChannelInv
<1>10. CASE ~(len[b] > 0)
  <2>1. fifo' = fifo /\ Len(data[b]) = 0 /\ Len(accepted) = p[n + 1]
    <3>1. \A m \in Nat : ~(m > 0) => m = 0 /\ \A x \in Nat : x + m = x
      OBVIOUS
    <3>2. QED BY <1>2, <1>4, <1>10, <3>1 DEF Released
  <2>2. rx_buf' # NoBuf => /\ Len(accepted) = p[n + 1] + Len(data[rx_buf'])
                           /\ Stretch(data[rx_buf'], accepted, p[n + 1])
    <3>1. \A x \in Nat : x = x + 0
      OBVIOUS
    <3>2. QED BY <1>4, <1>6, <1>7, <2>1, <3>1
  <2>3. Laid(p)'
    BY <1>4, <1>5, <2>1, <2>2 DEF Laid
  <2>4. QED BY <1>8, <2>3 DEF ChannelInv
<1>11. QED BY <1>9, <1>10


-----------------------------------------------------------------------------
(* What lies in a stream stays where it is when the stream grows. *)
LEMMA StretchStays ==
  ASSUME NEW S, NEW a \in Seq(S), NEW x \in S, NEW s \in Seq(S), NEW o \in Nat,
         Stretch(s, a, o), o + Len(s) <= Len(a)
  PROVE  Stretch(s, Append(a, x), o)
<1>1. /\ \A i \in 1..Len(a) : Append(a, x)[i] = a[i]
      /\ Len(a) \in Nat /\ Len(s) \in Nat
  BY AppendProperties, LenProperties
<1>2. \A i \in 1..Len(s) : o + i \in 1..Len(a)
  BY <1>1
<1>3. QED BY <1>1, <1>2 DEF Stretch

LEMMA StretchGrows ==
  ASSUME NEW S, NEW a \in Seq(S), NEW x \in S, NEW s \in Seq(S), NEW o \in Nat,
         Stretch(s, a, o), Len(a) = o + Len(s)
  PROVE  Stretch(Append(s, x), Append(a, x), o)
<1>1. /\ Append(a, x)[Len(a) + 1] = x /\ Append(s, x)[Len(s) + 1] = x
      /\ \A i \in 1..Len(a) : Append(a, x)[i] = a[i]
      /\ \A i \in 1..Len(s) : Append(s, x)[i] = s[i]
      /\ Len(Append(s, x)) = Len(s) + 1 /\ Len(a) \in Nat /\ Len(s) \in Nat
  BY AppendProperties, LenProperties
<1>2. \A i \in 1..Len(s) : o + i \in 1..Len(a)
  BY <1>1
<1>3. o + (Len(s) + 1) = Len(a) + 1
  BY <1>1
<1>4. \A i \in 1..(Len(s) + 1) : i = Len(s) + 1 \/ i \in 1..Len(s)
  BY <1>1
<1>5. \A i \in 1..Len(s) : Append(a, x)[o + i] = Append(s, x)[i]
  BY <1>1, <1>2 DEF Stretch
<1>6. Append(a, x)[o + (Len(s) + 1)] = Append(s, x)[Len(s) + 1]
  BY <1>1, <1>3
<1>7. QED BY <1>1, <1>4, <1>5, <1>6 DEF Stretch

LEMMA ChannelStoreByte ==
  ASSUME IInv, ChannelInv, NEW eol \in BOOLEAN, StoreByte(eol)
  PROVE  ChannelInv'
<1> DEFINE n == Len(fifo)
           b == rx_buf
<1>1. PICK byte \in Byte : /\ data' = [data EXCEPT ![b] = Append(data[b], byte)]
                           /\ accepted' = Append(accepted, byte)
  <2>1. [id |-> arrived + 1, eol |-> eol] \in Byte
    BY ChannelTypes DEF Byte
  <2>2. QED BY <2>1 DEF StoreByte
<1>2. /\ UNCHANGED <<fifo, writer, json, len, rx_buf, rx_next_buf, rx_offset>>
      /\ rx_buf # NoBuf
  BY DEF StoreByte, driver
<1>3. b \in Buf /\ b \notin Queued /\ b # writer /\ b # rx_next_buf
  BY <1>2 DEF IInv, TypeOK, SoleOwner
<1>4. data'[b] = Append(data[b], byte) /\ \A c \in Buf : c # b => data'[c] = data[c]
  BY <1>1, <1>3, ChannelTypes
<1>5. /\ data[b] \in Seq(Byte) /\ Len(data[b]) \in Nat /\ accepted \in Seq(Byte)
      /\ Len(data'[b]) = Len(data[b]) + 1 /\ Len(accepted') = Len(accepted) + 1
      /\ Len(accepted) \in Nat /\ n \in Nat
  BY <1>1, <1>3, <1>4, ChannelTypes, AppendProperties
<1>6. Counted'
  <2>1. Queued' = Queued
    BY <1>2 DEF Queued
  <2>2. \A c \in Buf : c \in Queued' \/ c = writer' => len'[c] = Len(data'[c]) /\ len'[c] > 0
    BY <1>2, <1>3, <1>4, <2>1 DEF ChannelInv, Counted
  <2>3. len[b] = rx_offset /\ rx_offset <= Len(data[b]) + 1
    <3>1. len[b] = rx_offset /\ rx_offset <= Len(data[b]) /\ rx_offset \in Nat
      BY <1>2, ChannelTypes DEF ChannelInv, Counted
    <3>2. \A x, y \in Nat : x <= y => x <= y + 1
      OBVIOUS
    <3>3. QED BY <1>5, <3>1, <3>2
  <2>4. rx_next_buf # NoBuf => len[rx_next_buf] = 0 /\ Len(data'[rx_next_buf]) = 0
    BY <1>3, <1>4, ChannelTypes DEF ChannelInv, Counted
  <2>5. QED BY <1>2, <1>5, <2>2, <2>3, <2>4 DEF Counted
<1>7. PICK p : Laid(p)
  BY DEF ChannelInv
<1>8. /\ p \in Seq(Nat) /\ Len(p) = n + 1 /\ \A k \in 1..(n + 1) : p[k] \in Nat
      /\ \A k \in 1..(n + 1) : p[k] <= Len(accepted)
      /\ Len(accepted) = p[n + 1] + Len(data[b]) /\ Stretch(data[b], accepted, p[n + 1])
      /\ writer = NoBuf => p[1] = Len(json)
      /\ writer # NoBuf => /\ p[1] = Len(json) + Len(data[writer])
                           /\ Stretch(data[writer], accepted, Len(json))
      /\ \A k \in 1..n : /\ p[k + 1] = p[k] + Len(data[fifo[k]])
                         /\ Stretch(data[fifo[k]], accepted, p[k])
  BY <1>2, <1>7, PlacesOf DEF Laid
<1> HIDE DEF n, b
<1>9. 1 \in 1..(n + 1) /\ n + 1 \in 1..(n + 1)
          /\ \A k \in 1..n : k \in 1..(n + 1) /\ k + 1 \in 1..(n + 1)
  BY <1>5
<1>10. \A k \in 1..n : fifo[k] \in Buf /\ fifo[k] # b /\ data'[fifo[k]] = data[fifo[k]]
  BY <1>3, <1>4, ChannelTypes DEF n
<1>11. writer # NoBuf => writer \in Buf /\ data'[writer] = data[writer]
  BY <1>3, <1>4, ChannelTypes
<1>12. /\ Len(accepted') = p[n + 1] + Len(data'[b])
       /\ \A k \in 1..(n + 1) : p[k] <= Len(accepted')
  <2>1. \A x, y, z \in Nat : /\ x = y + z => x + 1 = y + (z + 1)
                             /\ y <= x => y <= x + 1
    OBVIOUS
  <2>2. QED BY <1>5, <1>8, <1>9, <2>1
<1>13. Stretch(data'[b], accepted', p[n + 1])
  BY <1>1, <1>4, <1>5, <1>8, <1>9, StretchGrows
<1>14. writer # NoBuf => Stretch(data[writer], accepted', Len(json))
  <2>1. SUFFICES ASSUME writer # NoBuf PROVE Stretch(data[writer], accepted', Len(json))
    OBVIOUS
  <2>2. /\ data[writer] \in Seq(Byte) /\ Len(json) \in Nat
        /\ Len(json) + Len(data[writer]) <= Len(accepted)
    BY <1>8, <1>9, <1>11, <2>1, ChannelTypes
  <2>3. QED BY <1>1, <1>5, <1>8, <2>1, <2>2, StretchStays
<1>15. \A k \in 1..n : Stretch(data[fifo[k]], accepted', p[k])
  <2>1. SUFFICES ASSUME NEW k \in 1..n PROVE Stretch(data[fifo[k]], accepted', p[k])
    OBVIOUS
  <2>2. /\ data[fifo[k]] \in Seq(Byte) /\ p[k] \in Nat
        /\ p[k] + Len(data[fifo[k]]) <= Len(accepted)
    BY <1>8, <1>9, <1>10, ChannelTypes
  <2>3. QED BY <1>1, <1>5, <1>8, <2>2, StretchStays
<1>16. Laid(p)'
  BY <1>2, <1>8, <1>10, <1>11, <1>12, <1>13, <1>14, <1>15 DEF Laid, n, b
<1>17. QED BY <1>6, <1>16 DEF ChannelInv

LEMMA ChannelWriterGet ==
  ASSUME IInv, ChannelInv, WriterGet
  PROVE  ChannelInv'
<1> DEFINE n == Len(fifo)
           b == Head(fifo)
<1>1. /\ writer = NoBuf /\ fifo # <<>> /\ writer' = b /\ fifo' = Tail(fifo)
      /\ UNCHANGED <<len, data, json, accepted, rx_buf, rx_next_buf, rx_offset>>
  BY DEF WriterGet, driver, wire
<1>2. /\ n \in Nat /\ n >= 1 /\ b = fifo[1] /\ b \in Buf /\ b # NoBuf
      /\ Tail(fifo) \in Seq(Buf) /\ Len(Tail(fifo)) = n - 1
      /\ \A k \in 1..(n - 1) : Tail(fifo)[k] = fifo[k + 1]
      /\ Queued = Range(Tail(fifo)) \cup {b}
  <2>1. fifo \in Seq(Buf) /\ fifo # <<>> /\ NoBuf \notin Buf /\ IsInjective(fifo)
    BY <1>1, ChannelTypes DEF IInv, SoleOwner
  <2>2. /\ b \in Buf /\ Tail(fifo) \in Seq(Buf) /\ Range(fifo) = Range(Tail(fifo)) \cup {b}
    BY <2>1, GetBuffer
  <2>3. /\ n \in Nat /\ n >= 1 /\ b = fifo[1] /\ Len(Tail(fifo)) = n - 1
        /\ \A k \in 1..Len(Tail(fifo)) : Tail(fifo)[k] = fifo[k + 1]
    BY <2>1, HeadTailProperties, LenProperties, EmptySeq
  <2>4. QED BY <2>1, <2>2, <2>3 DEF Queued
<1>3. Counted'
  <2>1. \A c \in Buf : c \in Queued' \/ c = writer' => c \in Queued
    BY <1>1, <1>2 DEF Queued
  <2>2. QED BY <1>1, <2>1 DEF ChannelInv, Counted
<1>4. PICK p : Laid(p)
  BY DEF ChannelInv
<1>5. /\ p \in Seq(Nat) /\ Len(p) = n + 1
      /\ \A k \in 1..(n + 1) : p[k] <= Len(accepted)
      /\ p[1] = Len(json)
      /\ \A k \in 1..n : /\ p[k + 1] = p[k] + Len(data[fifo[k]])
                         /\ Stretch(data[fifo[k]], accepted, p[k])
      /\ rx_buf = NoBuf => Len(accepted) = p[n + 1]
      /\ rx_buf # NoBuf => /\ Len(accepted) = p[n + 1] + Len(data[rx_buf])
                           /\ Stretch(data[rx_buf], accepted, p[n + 1])
  BY <1>1, <1>4 DEF Laid
<1>6. PICK r : r = Tail(p)
  OBVIOUS
<1>7. /\ r \in Seq(Nat) /\ Len(r) = n /\ \A k \in 1..n : r[k] = p[k + 1]
  <2>1. p # <<>>
    BY <1>2, <1>5, EmptySeq
  <2>2. /\ Tail(p) \in Seq(Nat) /\ Len(Tail(p)) = Len(p) - 1
        /\ \A k \in 1..Len(Tail(p)) : Tail(p)[k] = p[k + 1]
    BY <1>5, <2>1, HeadTailProperties
  <2>3. (n + 1) - 1 = n
    BY <1>2
  <2>4. QED BY <1>5, <1>6, <2>2, <2>3
<1> HIDE DEF n, b
<1>8. /\ (n - 1) + 1 = n /\ 1 \in 1..n /\ n \in 1..n
      /\ \A k \in 1..n : k \in 1..(n + 1) /\ k + 1 \in 1..(n + 1)
      /\ \A k \in 1..(n - 1) : k \in 1..n /\ k + 1 \in 1..n
  BY <1>2
<1>9. /\ r[1] = Len(json) + Len(data[b]) /\ Stretch(data[b], accepted, Len(json))
  BY <1>2, <1>5, <1>7, <1>8
<1>10. \A k \in 1..(n - 1) : /\ r[k + 1] = r[k] + Len(data[Tail(fifo)[k]])
                             /\ Stretch(data[Tail(fifo)[k]], accepted, r[k])
  <2> SUFFICES ASSUME NEW k \in 1..(n - 1)
               PROVE  /\ r[k + 1] = r[k] + Len(data[Tail(fifo)[k]])
                      /\ Stretch(data[Tail(fifo)[k]], accepted, r[k])
    OBVIOUS
  <2>1. /\ k \in 1..n /\ k + 1 \in 1..n /\ Tail(fifo)[k] = fifo[k + 1]
        /\ r[k] = p[k + 1] /\ r[k + 1] = p[(k + 1) + 1]
    BY <1>2, <1>7, <1>8
  <2>2. QED BY <1>5, <2>1
<1>11. \A k \in 1..n : r[k] <= Len(accepted)
  BY <1>5, <1>7, <1>8
<1>12. r[n] = p[n + 1]
  BY <1>7, <1>8
<1>13. /\ Len(fifo') = n - 1 /\ fifo' = Tail(fifo) /\ writer' = b /\ data' = data
       /\ json' = json /\ accepted' = accepted /\ rx_buf' = rx_buf
  BY <1>1, <1>2 DEF b
<1>14. Laid(r)'
  <2>1. /\ r \in Seq(Nat) /\ Len(r) = Len(fifo') + 1
        /\ \A k \in 1..(Len(fifo') + 1) : r[k] <= Len(accepted')
    BY <1>7, <1>8, <1>11, <1>13
  <2>2. /\ writer' = NoBuf => r[1] = Len(json')
        /\ writer' # NoBuf => /\ r[1] = Len(json') + Len(data'[writer'])
                              /\ Stretch(data'[writer'], accepted', Len(json'))
    BY <1>1, <1>2, <1>9, <1>13, ChannelTypes
  <2>3. \A k \in 1..Len(fifo') : /\ r[k + 1] = r[k] + Len(data'[fifo'[k]])
                                 /\ Stretch(data'[fifo'[k]], accepted', r[k])
    BY <1>10, <1>13
  <2>4. /\ rx_buf' = NoBuf => Len(accepted') = r[Len(fifo') + 1]
        /\ rx_buf' # NoBuf => /\ Len(accepted') = r[Len(fifo') + 1] + Len(data'[rx_buf'])
                              /\ Stretch(data'[rx_buf'], accepted', r[Len(fifo') + 1])
    BY <1>5, <1>8, <1>12, <1>13
  <2>5. QED BY <2>1, <2>2, <2>3, <2>4 DEF Laid
<1>15. QED BY <1>3, <1>14 DEF ChannelInv

(* What the writer hands over is all that its buffer holds, and comes next. *)
LEMMA HandedOver ==
  ASSUME IInv, ChannelInv, writer # NoBuf
  PROVE  LET m == Len(data[writer])
         IN  /\ m \in 1..(Len(accepted) - Len(json)) /\ Content(writer) = data[writer]
             /\ data[writer] = SubSeq(accepted, Len(json) + 1, Len(json) + m)
<1> DEFINE b == writer
           s == data[b]
           m == Len(s)
           j == Len(json)
           t == SubSeq(accepted, j + 1, j + m)
<1>1. /\ b \in Buf /\ s \in Seq(Byte) /\ m \in Nat /\ j \in Nat
      /\ accepted \in Seq(Byte) /\ Len(accepted) \in Nat
  BY ChannelTypes
<1>2. len[b] = m /\ m > 0
  BY <1>1 DEF ChannelInv, Counted
<1>3. PICK p : Laid(p)
  BY DEF ChannelInv
<1>4. /\ j + m <= Len(accepted) /\ \A i \in 1..m : accepted[j + i] = s[i]
  <2>1. p[1] = j + m /\ Stretch(s, accepted, j)
            /\ \A k \in 1..(Len(fifo) + 1) : p[k] <= Len(accepted)
    BY <1>3 DEF Laid
  <2>2. 1 \in 1..(Len(fifo) + 1)
    BY ChannelTypes
  <2>3. QED BY <2>1, <2>2 DEF Stretch
<1>5. Content(b) = s
  <2>1. Content(b) = [i \in 1..m |-> IF i \in 1..m THEN s[i] ELSE Stale]
    BY <1>2 DEF Content
  <2>2. Content(b) = [i \in 1..m |-> s[i]]
    BY <2>1
  <2>3. s = [i \in 1..m |-> s[i]]
    BY <1>1, LenProperties
  <2>4. QED BY <2>2, <2>3
<1>6. t = s
  <2> HIDE DEF s, m, j
  <2>1. \A i \in (j + 1)..(j + m) : accepted[i] \in Byte
    <3>1. \A i \in (j + 1)..(j + m) : i \in 1..Len(accepted)
      BY <1>1, <1>4
    <3>2. QED BY <1>1, <3>1, ElementOfSeq
  <2>2. /\ t \in Seq(Byte)
        /\ Len(t) = IF j + 1 <= j + m THEN (j + m) - (j + 1) + 1 ELSE 0
        /\ \A i \in 1..((j + m) - (j + 1) + 1) : t[i] = accepted[(j + 1) + i - 1]
    <3>1. j + 1 \in Int /\ j + m \in Int
      BY <1>1
    <3>2. QED BY <2>1, <3>1, SubSeqProperties
  <2>3. /\ j + 1 <= j + m /\ (j + m) - (j + 1) + 1 = m
        /\ \A i \in 1..m : (j + 1) + i - 1 = j + i
    BY <1>1, <1>2
  <2>4. Len(t) = m /\ \A i \in 1..m : t[i] = s[i]
    BY <1>4, <2>2, <2>3
  <2>5. Len(s) = m /\ s \in Seq(Byte)
    BY <1>1 DEF m
  <2> HIDE DEF t
  <2>6. QED BY <2>2, <2>4, <2>5, SeqEqual
<1>7. m \in 1..(Len(accepted) - j)
  BY <1>1, <1>2, <1>4
<1>8. QED BY <1>5, <1>6, <1>7

LEMMA ChannelWriterPut ==
  ASSUME IInv, ChannelInv, WriterPut
  PROVE  ChannelInv'
<1>1. /\ writer # NoBuf /\ writer' = NoBuf /\ json' = json \o Content(writer)
      /\ UNCHANGED <<len, data, fifo, accepted, rx_buf, rx_next_buf, rx_offset>>
  BY DEF WriterPut, driver, wire
<1>2. Len(json') = Len(json) + Len(data[writer])
  <2>1. Content(writer) = data[writer]
    BY <1>1, HandedOver
  <2>2. json \in Seq(Byte) /\ data[writer] \in Seq(Byte)
    BY <1>1, ChannelTypes
  <2>3. QED BY <1>1, <2>1, <2>2, ConcatProperties
<1>3. Counted'
  <2>1. Queued' = Queued /\ NoBuf \notin Buf
    BY <1>1, BufAssumption DEF Queued
  <2>2. \A c \in Buf : c \in Queued' \/ c = writer' => c \in Queued
    BY <1>1, <2>1
  <2>3. QED BY <1>1, <2>2 DEF ChannelInv, Counted
<1>4. PICK p : Laid(p)
  BY DEF ChannelInv
<1>5. Laid(p)'
  BY <1>1, <1>2, <1>4 DEF Laid
<1>6. QED BY <1>3, <1>5 DEF ChannelInv

-----------------------------------------------------------------------------
LEMMA ChannelInit == Init => ChannelInv
<1>1. SUFFICES ASSUME Init PROVE ChannelInv
  OBVIOUS
<1>2. /\ fifo = <<>> /\ writer = NoBuf /\ rx_buf = NoBuf /\ rx_next_buf = NoBuf
      /\ accepted = <<>> /\ json = <<>> /\ NoBuf \notin Buf
  BY <1>1, BufAssumption DEF Init
<1>3. Counted
  <2>1. Queued = {}
    BY <1>2 DEF Queued, Range
  <2>2. QED BY <1>2, <2>1 DEF Counted
<1>4. Laid(<<0>>)
  <2>1. <<0>> \in Seq(Nat) /\ Len(<<0>>) = 1 /\ <<0>>[1] = 0
    OBVIOUS
  <2>2. /\ Len(fifo) = 0 /\ Len(json) = 0 /\ Len(accepted) = 0 /\ 0 + 1 = 1
        /\ \A k \in 1..0 : FALSE
    BY <1>2
  <2>3. \A k \in 1..1 : k = 1
    OBVIOUS
  <2>4. \A k \in 1..(0 + 1) : <<0>>[k] <= 0
    BY <2>1, <2>2, <2>3
  <2>5. QED BY <1>2, <2>1, <2>2, <2>4 DEF Laid
<1>5. QED BY <1>3, <1>4 DEF ChannelInv

(* Every step of uart_cb, its retry and the threads keeps the bytes in order. *)
LEMMA ChannelStep == IInv /\ ChannelInv /\ [Next]_vars => ChannelInv'
<1>1. SUFFICES ASSUME IInv, ChannelInv, [Next]_vars PROVE ChannelInv'
  OBVIOUS
<1>2. /\ rx_buf # NoBuf => len[rx_buf] = rx_offset /\ rx_offset <= Len(data[rx_buf])
      /\ rx_next_buf # NoBuf => len[rx_next_buf] = 0 /\ Len(data[rx_next_buf]) = 0
  BY <1>1 DEF ChannelInv, Counted
<1>3. ASSUME UNCHANGED <<fifo, writer, json, accepted, driver, len, data>> PROVE ChannelInv'
  <2>1. UNCHANGED <<rx_buf, rx_next_buf, rx_offset>>
    BY <1>3 DEF driver
  <2>2. QED BY <1>1, <1>2, <1>3, <2>1, Aside
<1>4. CASE UartInit
  <2>1. PICK b \in heap : RxEnable(b)
    BY <1>4 DEF UartInit
  <2>2. rx_buf = NoBuf /\ rx_next_buf = NoBuf /\ UNCHANGED <<fifo, writer, json, accepted>>
    BY <1>1, <1>4 DEF UartInit, wire, IInv, DriverInv
  <2>3. QED BY <1>1, <2>1, <2>2, EnableAside
<1>5. CASE UartInitFails \/ GiveBleInitOk \/ BtChunk \/ BtChunkDone
  BY <1>3, <1>5 DEF UartInitFails, GiveBleInitOk, BtChunk, BtChunkDone, wire
<1>6. CASE \E eol \in BOOLEAN : StoreByte(eol)
  BY <1>1, <1>6, ChannelStoreByte
<1>7. CASE LoseByte
  BY <1>3, <1>7 DEF LoseByte
<1>8. CASE RxError
  <2>1. UNCHANGED <<fifo, writer, json, accepted, len, data, rx_buf, rx_next_buf, rx_offset>>
    BY <1>8 DEF RxError, wire
  <2>2. QED BY <1>1, <1>2, <2>1, Aside
<1>9. CASE RxRdy
  BY <1>1, <1>9, ChannelRxRdy
<1>10. CASE RxBufRequest
  BY <1>1, <1>10, ChannelRxBufRequest
<1>11. CASE RxBufferFull
  <2>1. rx_buf # NoBuf
    BY <1>1, <1>11 DEF RxBufferFull, IInv, DriverInv
  <2>2. /\ Unreported = 0 /\ Released(rx_buf) /\ rx_offset' = 0
        /\ rx_buf' = rx_next_buf /\ rx_next_buf' = NoBuf
        /\ UNCHANGED <<len, data, writer, json, accepted>>
    BY <1>11 DEF RxBufferFull, wire
  <2>3. QED BY <1>1, <2>1, <2>2, ReleaseInOrder
<1>12. CASE ReleaseCurrent
  <2>1. /\ rx_buf # NoBuf /\ Unreported = 0 /\ Released(rx_buf) /\ rx_offset' = 0
        /\ rx_buf' = NoBuf /\ rx_next_buf' = rx_next_buf
        /\ UNCHANGED <<len, data, writer, json, accepted>>
    BY <1>12 DEF ReleaseCurrent, wire
  <2>2. QED BY <1>1, <2>1, ReleaseInOrder
<1>13. CASE ReleaseNext
  <2>1. /\ rx_next_buf # NoBuf /\ Released(rx_next_buf) /\ rx_next_buf' = NoBuf
        /\ UNCHANGED <<len, data, writer, json, accepted, rx_buf, rx_offset>>
    BY <1>13 DEF ReleaseNext, wire
  <2>2. fifo' = fifo
    BY <1>2, <2>1 DEF Released
  <2>3. QED BY <1>1, <1>2, <2>1, <2>2, Aside
<1>14. CASE RxDisabled
  <2>1. rx_buf = NoBuf /\ rx_next_buf = NoBuf /\ UNCHANGED <<fifo, writer, json, accepted>>
    BY <1>14 DEF RxDisabled, wire
  <2>2. CASE heap = {}
    <3>1. UNCHANGED <<len, data, rx_buf, rx_next_buf, rx_offset>>
      BY <1>14, <2>2 DEF RxDisabled
    <3>2. QED BY <1>1, <1>2, <2>1, <3>1, Aside
  <2>3. CASE heap # {}
    <3>1. PICK b \in heap : RxEnable(b)
      BY <1>14, <2>3 DEF RxDisabled
    <3>2. QED BY <1>1, <2>1, <3>1, EnableAside
  <2>4. QED BY <2>2, <2>3
<1>15. CASE UartWork
  <2>1. PICK b \in heap : RxEnable(b)
    BY <1>15 DEF UartWork
  <2>2. rx_buf = NoBuf /\ rx_next_buf = NoBuf /\ UNCHANGED <<fifo, writer, json, accepted>>
    BY <1>1, <1>15 DEF UartWork, wire, IInv, ReceiverAlive, DriverInv
  <2>3. QED BY <1>1, <2>1, <2>2, EnableAside
<1>16. CASE WriterGet
  BY <1>1, <1>16, ChannelWriterGet
<1>17. CASE WriterPut
  BY <1>1, <1>17, ChannelWriterPut
<1>18. CASE UNCHANGED vars
  BY <1>3, <1>18 DEF vars, wire
<1>19. QED
  BY <1>1, <1>4, <1>5, <1>6, <1>7, <1>8, <1>9, <1>10, <1>11, <1>12, <1>13, <1>14, <1>15, <1>16,
     <1>17, <1>18 DEF Next, Interrupt

(* A step of the receive path is one of the channel, or leaves it as it is. *)
LEMMA ChannelNext == IInv /\ ChannelInv /\ [Next]_vars => [Channel!Next]_(Channel!vars)
<1>1. SUFFICES ASSUME IInv, ChannelInv, [Next]_vars PROVE [Channel!Next]_(Channel!vars)
  OBVIOUS
<1>2. ASSUME UNCHANGED <<arrived, accepted, json>> PROVE [Channel!Next]_(Channel!vars)
  BY <1>2 DEF Channel!vars
<1>3. CASE \E eol \in BOOLEAN : StoreByte(eol)
  <2>1. PICK eol \in BOOLEAN : StoreByte(eol)
    BY <1>3
  <2>2. Channel!Accept(eol)
    BY <2>1 DEF StoreByte, Channel!Accept
  <2>3. QED BY <2>2 DEF Channel!Next
<1>4. CASE LoseByte
  <2>1. Channel!Lose
    BY <1>4 DEF LoseByte, Channel!Lose
  <2>2. QED BY <2>1 DEF Channel!Next
<1>5. CASE WriterPut
  <2>1. writer # NoBuf /\ json' = json \o Content(writer) /\ UNCHANGED <<arrived, accepted>>
    BY <1>5 DEF WriterPut, wire
  <2>2. PICK m \in 1..(Len(accepted) - Len(json)) :
          Content(writer) = SubSeq(accepted, Len(json) + 1, Len(json) + m)
    BY <1>1, <2>1, HandedOver
  <2>3. Channel!Deliver(m)
    BY <2>1, <2>2 DEF Channel!Deliver
  <2>4. QED BY <2>2, <2>3 DEF Channel!Next
<1>6. CASE UNCHANGED wire /\ UNCHANGED json
  BY <1>2, <1>6 DEF wire
<1>7. CASE UartInit \/ UartInitFails \/ GiveBleInitOk \/ RxError \/ UartWork
  BY <1>6, <1>7 DEF UartInit, UartInitFails, GiveBleInitOk, RxError, UartWork
<1>8. CASE Interrupt
  BY <1>6, <1>8 DEF Interrupt, RxRdy, RxBufRequest, RxBufferFull, ReleaseCurrent, ReleaseNext,
                    RxDisabled
<1>9. CASE WriterGet \/ BtChunk \/ BtChunkDone
  BY <1>6, <1>9 DEF WriterGet, BtChunk, BtChunkDone
<1>10. CASE UNCHANGED vars
  BY <1>6, <1>10 DEF vars
<1>11. QED BY <1>1, <1>3, <1>4, <1>5, <1>7, <1>8, <1>9, <1>10 DEF Next

(* However uart_cb cuts the stream into buffers, stops, runs out of them and   *)
(* starts again: getJsonData is given the bytes the DMA has stored, in their   *)
(* order, none twice, none skipped, none that was not written.                 *)
THEOREM BytesInOrder == Spec => InOrderDelivery
<1>1. Init => Channel!Init
  BY DEF Init, Channel!Init
<1>2. QED BY <1>1, Inductive, ChannelInit, ChannelStep, ChannelNext, PTL
            DEF Spec, InOrderDelivery, Channel!Spec

-----------------------------------------------------------------------------
(* JsonFrame: the halves of the commands between the stream and the frame. *)

(* The halves of commands: only these are looked at in a frame.               *)
Half(s)      == s.ch \in {"a", "b"}
Before(s, t) == Half(s) /\ s.ch = t.ch => s.cmd < t.cmd
Newer(s, e)  == /\ s.ch = "a" => e[1] < s.cmd
                /\ s.ch = "b" => e[2] < s.cmd
ToCopy       == (at + 1)..Len(chunk)    \* what Copy has still to do
Cell         == 0..(FRAME_SIZE - 1)

(* The writer stays in its buffer and the buffer's length bounds the frame. *)
InBuffer ==
  /\ Len(chunk) <= UART_BUF_SIZE /\ end < UART_BUF_SIZE
  /\ chunk = <<>> => at = 0
  /\ chunk # <<>> => at < Len(chunk)

(* Nothing under way is newer than the last command sent. *)
NoneAhead ==
  /\ \A k \in 1..Len(stream) : stream[k].cmd <= sent
  /\ \A k \in 1..Len(chunk) : chunk[k].cmd <= sent
  /\ \A f \in Cell : frame[f].cmd <= sent

(* The halves of each kind wait in the order they were sent: in the frame, in *)
(* what is left of the buffer, in the stream.                                 *)
InSequence ==
  /\ \A j, k \in 1..Len(stream) : j < k => Before(stream[j], stream[k])
  /\ \A j, k \in 1..Len(chunk) : j < k => Before(chunk[j], chunk[k])
  /\ \A j \in 1..Len(chunk), k \in 1..Len(stream) : Before(chunk[j], stream[k])
  /\ \A f \in Cell, k \in ToCopy : Before(frame[f], chunk[k])
  /\ \A f \in Cell, k \in 1..Len(stream) : Before(frame[f], stream[k])

(* What has been carried out is older than all that is still to come, and than *)
(* what the frame holds once it has been cleared.                              *)
ExecutedOld ==
  \A n \in 1..Len(executed) :
    /\ \A k \in 1..Len(stream) : Newer(stream[k], executed[n])
    /\ \A k \in ToCopy : Newer(chunk[k], executed[n])
    /\ pc # "sleep20" => \A f \in Cell : Newer(frame[f], executed[n])

(* A half is followed by its closing brace, which raises the flag. *)
BraceFollows ==
  /\ \A j \in 1..Len(stream) : Half(stream[j]) =>
       \E k \in 1..Len(stream) : j < k /\ stream[k].ch = "}"
  /\ \A j \in 1..Len(chunk) : Half(chunk[j]) =>
       \/ \E k \in 1..Len(chunk) : j < k /\ chunk[k].ch = "}"
       \/ \E k \in 1..Len(stream) : stream[k].ch = "}"
  /\ \A f \in Cell : Half(frame[f]) =>
       \/ flag = 1
       \/ \E k \in ToCopy : chunk[k].ch = "}"
       \/ \E k \in 1..Len(stream) : stream[k].ch = "}"

(* When main has seen everything copied, and again when it has said so, there *)
(* is nothing under way and no half left in the frame.                        *)
AllQuiet  == stream = <<>> /\ chunk = <<>>
NoHalves  == \A f \in Cell : ~Half(frame[f])
SeenQuiet ==
  /\ seen \/ permit => AllQuiet
  /\ (seen /\ pc # "sleep20") \/ permit => NoHalves

(* When nobody hurries, all halves under way are those of the last command. *)
LastOnly ==
  ~hurried =>
    /\ \A k \in 1..Len(stream) : Half(stream[k]) => stream[k].cmd = sent
    /\ \A k \in ToCopy : Half(chunk[k]) => chunk[k].cmd = sent
    /\ \A f \in Cell : Half(frame[f]) => frame[f].cmd = sent

(* The commands carried out were sent. *)
ExecutedSent ==
  \A n \in 1..Len(executed) : executed[n][1] <= sent /\ executed[n][2] <= sent

JsonInv ==
  /\ JsonTypes /\ AtMostOnce /\ NoTornCommand /\ InBuffer /\ NoneAhead /\ InSequence
  /\ ExecutedSent /\ ExecutedOld /\ BraceFollows /\ SeenQuiet /\ LastOnly

-----------------------------------------------------------------------------
LEMMA SixOf ==
  ASSUME NEW S, NEW s1 \in S, NEW s2 \in S, NEW s3 \in S, NEW s4 \in S, NEW s5 \in S, NEW s6 \in S
  PROVE  <<s1, s2, s3, s4, s5, s6>> \in Seq(S)
OBVIOUS

LEMMA SymIs ==
  ASSUME NEW ch, NEW c
  PROVE  Sym(ch, c).ch = ch /\ Sym(ch, c).cmd = c
BY DEF Sym

LEMMA SymbolFields ==
  ASSUME NEW s \in Symbol
  PROVE  s.cmd \in 0..MaxCommands /\ s.cmd \in Nat
<1>1. s.cmd \in 0..MaxCommands
  BY DEF Symbol
<1>2. QED BY <1>1, JsonFrameAssumption

(* A line is six symbols, its halves bear its number and come before its brace. *)
LEMMA LineIs ==
  ASSUME NEW c \in 0..MaxCommands
  PROVE  /\ Line(c) \in Seq(Symbol) /\ Len(Line(c)) = 6
         /\ \A k \in 1..6 : Line(c)[k].cmd <= c
         /\ \A k \in 1..6 : Half(Line(c)[k]) => Line(c)[k].cmd = c /\ k < 4
         /\ \A j, k \in 1..6 : Half(Line(c)[j]) /\ Line(c)[j].ch = Line(c)[k].ch => j = k
         /\ Line(c)[4].ch = "}"
<1>1. MaxCommands \in Nat /\ c \in Nat
  BY JsonFrameAssumption
<1>2. /\ Sym("{", 0) \in Symbol /\ Sym("}", 0) \in Symbol /\ Sym("CR", 0) \in Symbol
      /\ Sym("LF", 0) \in Symbol /\ Sym("a", c) \in Symbol /\ Sym("b", c) \in Symbol
  BY <1>1 DEF Sym, Symbol
<1>3. /\ Line(c)[1] = Sym("{", 0) /\ Line(c)[2] = Sym("a", c) /\ Line(c)[3] = Sym("b", c)
      /\ Line(c)[4] = Sym("}", 0) /\ Line(c)[5] = Sym("CR", 0) /\ Line(c)[6] = Sym("LF", 0)
      /\ Len(Line(c)) = 6
  BY DEF Line
<1>4. Line(c) \in Seq(Symbol)
  BY <1>2, SixOf DEF Line
<1>5. /\ Line(c)[1].ch = "{" /\ Line(c)[2].ch = "a" /\ Line(c)[3].ch = "b"
      /\ Line(c)[4].ch = "}" /\ Line(c)[5].ch = "CR" /\ Line(c)[6].ch = "LF"
  <2>1. /\ Sym("{", 0).ch = "{" /\ Sym("a", c).ch = "a" /\ Sym("b", c).ch = "b"
        /\ Sym("}", 0).ch = "}" /\ Sym("CR", 0).ch = "CR" /\ Sym("LF", 0).ch = "LF"
    BY SymIs
  <2>2. QED BY <1>3, <2>1
<1>6. /\ Line(c)[1].cmd = 0 /\ Line(c)[2].cmd = c /\ Line(c)[3].cmd = c
      /\ Line(c)[4].cmd = 0 /\ Line(c)[5].cmd = 0 /\ Line(c)[6].cmd = 0
  <2>1. /\ Sym("{", 0).cmd = 0 /\ Sym("a", c).cmd = c /\ Sym("b", c).cmd = c
        /\ Sym("}", 0).cmd = 0 /\ Sym("CR", 0).cmd = 0 /\ Sym("LF", 0).cmd = 0
    BY SymIs
  <2>2. QED BY <1>3, <2>1
<1>7. /\ Half(Line(c)[2]) /\ Half(Line(c)[3])
      /\ ~Half(Line(c)[1]) /\ ~Half(Line(c)[4]) /\ ~Half(Line(c)[5]) /\ ~Half(Line(c)[6])
  BY <1>5 DEF Half
<1>8. \A k \in 1..6 : k = 1 \/ k = 2 \/ k = 3 \/ k = 4 \/ k = 5 \/ k = 6
  OBVIOUS
<1>9. \A k \in 1..6 : Line(c)[k].cmd <= c
  BY <1>1, <1>6, <1>8
<1>10. \A k \in 1..6 : Half(Line(c)[k]) => k = 2 \/ k = 3
  BY <1>7, <1>8
<1>11. \A k \in 1..6 : Half(Line(c)[k]) => Line(c)[k].cmd = c /\ k < 4
  BY <1>6, <1>10
<1>12. \A j, k \in 1..6 : Half(Line(c)[j]) /\ Line(c)[j].ch = Line(c)[k].ch => j = k
  BY <1>5, <1>8, <1>10
<1>13. QED BY <1>3, <1>4, <1>5, <1>9, <1>11, <1>12

(* Cells of the frame, and what clearing puts into them. *)
LEMMA ClearedIs ==
  /\ Cleared \in [Cell -> Symbol]
  /\ \A f \in Cell : Cleared[f].cmd = 0 /\ ~Half(Cleared[f])
<1>1. Sym("NUL", 0) \in Symbol
  BY JsonFrameAssumption DEF Sym, Symbol
<1>2. Sym("NUL", 0).cmd = 0 /\ ~Half(Sym("NUL", 0))
  BY SymIs DEF Half
<1>3. QED BY <1>1, <1>2 DEF Cleared, Cell

LEMMA InitJsonInv == JsonInit => JsonInv
<1> SUFFICES ASSUME JsonInit PROVE JsonInv
  OBVIOUS
<1>1. /\ Len(stream) = 0 /\ Len(chunk) = 0 /\ Len(executed) = 0
      /\ stream \in Seq(Symbol) /\ chunk \in Seq(Symbol)
      /\ executed \in Seq((0..MaxCommands) \X (0..MaxCommands))
  BY DEF JsonInit
<1>2. UART_BUF_SIZE \in Nat \ {0} /\ MaxCommands \in Nat /\ FRAME_SIZE \in Nat
  BY JsonFrameAssumption, SizeAssumption
<1>3. JsonTypes
  <2>1. Cleared \in [0..(FRAME_SIZE - 1) -> Symbol]
    BY ClearedIs DEF Cell
  <2>2. 0 \in 0..MaxCommands /\ 0 \in 0..UART_BUF_SIZE /\ 0 \in Nat
    BY <1>2
  <2>3. NoOverrun
    BY DEF JsonInit, NoOverrun
  <2>4. /\ hurried \in BOOLEAN /\ cut \in BOOLEAN /\ seen \in BOOLEAN /\ permit \in BOOLEAN
        /\ odd \in BOOLEAN /\ pc \in {"delay", "sleep20", "status"}
    BY DEF JsonInit
  <2>5. /\ sent \in 0..MaxCommands /\ at \in 0..UART_BUF_SIZE /\ end \in Nat /\ flag \in 0..1
        /\ frame \in [0..(FRAME_SIZE - 1) -> Symbol]
    BY <2>1, <2>2 DEF JsonInit
  <2>6. QED BY <1>1, <2>3, <2>4, <2>5 DEF JsonTypes
<1>4. AtMostOnce /\ NoTornCommand /\ ExecutedSent /\ ExecutedOld
  BY <1>1 DEF AtMostOnce, NoTornCommand, ExecutedSent, ExecutedOld
<1>5. InBuffer /\ NoneAhead /\ InSequence /\ BraceFollows /\ SeenQuiet /\ LastOnly
  BY <1>1, <1>2, ClearedIs
     DEF JsonInit, InBuffer, NoneAhead, InSequence, BraceFollows, SeenQuiet, LastOnly, ToCopy, Before
<1>6. QED BY <1>3, <1>4, <1>5 DEF JsonInv

-----------------------------------------------------------------------------
(* A new line goes behind everything that is on its way. *)
LEMMA SendInv == JsonInv /\ Send => JsonInv'
<1> SUFFICES ASSUME JsonInv, Send PROVE JsonInv'
  OBVIOUS
<1>1. /\ JsonTypes /\ AtMostOnce /\ NoTornCommand /\ InBuffer /\ NoneAhead /\ InSequence
      /\ ExecutedSent /\ ExecutedOld /\ BraceFollows /\ SeenQuiet /\ LastOnly
  BY DEF JsonInv
<1> DEFINE c == sent + 1
           L == Len(stream)
<1>2. /\ UNCHANGED <<hurried, cut, chunk, at, frame, end, flag, pc, odd, executed>>
      /\ sent' = c /\ seen' = FALSE /\ permit' = FALSE /\ stream' = stream \o Line(c)
      /\ hurried \/ permit
  BY DEF Send, choice, copier, myJson
<1>3. c \in 0..MaxCommands /\ sent \in Nat /\ sent < c /\ c \in Nat
  BY <1>1, JsonFrameAssumption DEF Send, JsonTypes
<1>4. /\ stream \in Seq(Symbol) /\ L \in Nat /\ L = Len(stream)
      /\ chunk \in Seq(Symbol) /\ Len(chunk) \in Nat
  BY <1>1, LenProperties DEF JsonTypes
<1> HIDE DEF c, L
<1>5. /\ stream' \in Seq(Symbol) /\ Len(stream') = L + 6
      /\ \A k \in 1..L : stream'[k] = stream[k]
      /\ \A k \in (L + 1)..(L + 6) : stream'[k] = Line(c)[k - L] /\ k - L \in 1..6
  <2>1. Line(c) \in Seq(Symbol) /\ Len(Line(c)) = 6
    BY <1>3, LineIs
  <2>2. /\ stream \o Line(c) \in Seq(Symbol) /\ Len(stream \o Line(c)) = Len(stream) + Len(Line(c))
        /\ \A k \in 1..(Len(stream) + Len(Line(c))) :
             (stream \o Line(c))[k] = IF k <= Len(stream) THEN stream[k] ELSE Line(c)[k - Len(stream)]
    BY <1>4, <2>1, ConcatProperties
  <2>3. \A k \in 1..L : k \in 1..(L + 6) /\ k <= L
    BY <1>4
  <2>4. \A k \in (L + 1)..(L + 6) : k \in 1..(L + 6) /\ ~(k <= L) /\ k - L \in 1..6
    BY <1>4
  <2>5. QED BY <1>2, <1>4, <2>1, <2>2, <2>3, <2>4
<1>6. \A k \in 1..Len(stream') : k \in 1..L \/ k \in (L + 1)..(L + 6)
  BY <1>4, <1>5
<1>7. /\ \A k \in (L + 1)..(L + 6) : stream'[k].cmd <= c
      /\ \A k \in (L + 1)..(L + 6) : Half(stream'[k]) => stream'[k].cmd = c /\ k < L + 4
      /\ \A j, k \in (L + 1)..(L + 6) : Half(stream'[j]) /\ stream'[j].ch = stream'[k].ch => j = k
      /\ L + 4 \in 1..Len(stream') /\ stream'[L + 4].ch = "}"
  <2>1. /\ \A k \in 1..6 : Line(c)[k].cmd <= c
        /\ \A k \in 1..6 : Half(Line(c)[k]) => Line(c)[k].cmd = c /\ k < 4
        /\ \A j, k \in 1..6 : Half(Line(c)[j]) /\ Line(c)[j].ch = Line(c)[k].ch => j = k
        /\ Line(c)[4].ch = "}"
    BY <1>3, LineIs
  <2>2. L + 4 \in (L + 1)..(L + 6) /\ (L + 4) - L = 4 /\ L + 4 \in 1..(L + 6)
    BY <1>4
  <2>3. stream'[L + 4].ch = "}"
    BY <1>5, <2>1, <2>2
  <2>4. /\ \A k \in (L + 1)..(L + 6) : stream'[k].cmd <= c
        /\ \A k \in (L + 1)..(L + 6) : Half(stream'[k]) => stream'[k].cmd = c /\ k - L < 4
    BY <1>5, <2>1
  <2>5. \A k \in (L + 1)..(L + 6) : k - L < 4 => k < L + 4
    BY <1>4
  <2>6. \A j, k \in (L + 1)..(L + 6) :
          Half(stream'[j]) /\ stream'[j].ch = stream'[k].ch => j - L = k - L
    <3> SUFFICES ASSUME NEW j \in (L + 1)..(L + 6), NEW k \in (L + 1)..(L + 6),
                        Half(stream'[j]), stream'[j].ch = stream'[k].ch
                 PROVE  j - L = k - L
      OBVIOUS
    <3>1. /\ stream'[j] = Line(c)[j - L] /\ j - L \in 1..6
          /\ stream'[k] = Line(c)[k - L] /\ k - L \in 1..6
      BY <1>5
    <3>2. QED BY <2>1, <3>1
  <2>7. \A j, k \in (L + 1)..(L + 6) : j - L = k - L => j = k
    BY <1>4
  <2>8. QED BY <1>5, <2>2, <2>3, <2>4, <2>5, <2>6, <2>7
<1>8. JsonTypes'
  BY <1>1, <1>2, <1>3, <1>5 DEF JsonTypes, NoOverrun
<1>9. AtMostOnce' /\ NoTornCommand' /\ InBuffer'
  BY <1>1, <1>2 DEF AtMostOnce, NoTornCommand, InBuffer
<1>10. /\ \A k \in 1..L : stream[k].cmd \in Nat /\ stream[k].cmd < c
       /\ \A k \in 1..Len(chunk) : chunk[k].cmd \in Nat /\ chunk[k].cmd < c
       /\ \A f \in Cell : frame[f].cmd \in Nat /\ frame[f].cmd < c
  <2>1. /\ \A k \in 1..L : stream[k] \in Symbol
        /\ \A k \in 1..Len(chunk) : chunk[k] \in Symbol
        /\ \A f \in Cell : frame[f] \in Symbol
    BY <1>1, <1>4, ElementOfSeq DEF JsonTypes, Cell
  <2>2. /\ \A k \in 1..L : stream[k].cmd \in Nat
        /\ \A k \in 1..Len(chunk) : chunk[k].cmd \in Nat
        /\ \A f \in Cell : frame[f].cmd \in Nat
    BY <2>1, SymbolFields
  <2>3. \A x \in Nat : (x <= sent => x < c) /\ (x < c => x <= c)
    BY <1>3
  <2>4. QED BY <1>1, <1>4, <2>2, <2>3 DEF NoneAhead
<1>11. NoneAhead'
  <2>1. ASSUME NEW k \in 1..Len(stream') PROVE stream'[k].cmd <= c
    <3>1. CASE k \in 1..L
      BY <1>3, <1>5, <1>10, <3>1
    <3>2. CASE k \in (L + 1)..(L + 6)
      BY <1>7, <3>2
    <3>3. QED BY <1>6, <3>1, <3>2
  <2>2. \A x \in Nat : x < c => x <= c
    BY <1>3
  <2>3. QED BY <1>2, <1>10, <2>1, <2>2 DEF NoneAhead, Cell
<1>12. InSequence'
  <2>1. ASSUME NEW j \in 1..Len(stream'), NEW k \in 1..Len(stream'), j < k
        PROVE  Before(stream'[j], stream'[k])
    <3>1. CASE k \in 1..L
      <4>1. j \in 1..L
        BY <1>4, <1>5, <2>1, <3>1
      <4>2. QED BY <1>1, <1>4, <1>5, <2>1, <3>1, <4>1 DEF InSequence
    <3>2. CASE k \in (L + 1)..(L + 6) /\ j \in 1..L
      BY <1>5, <1>7, <1>10, <3>2 DEF Before, Half
    <3>3. CASE k \in (L + 1)..(L + 6) /\ j \in (L + 1)..(L + 6)
      <4>1. j # k
        BY <2>1
      <4>2. QED BY <1>7, <3>3, <4>1 DEF Before
    <3>4. QED BY <1>6, <3>1, <3>2, <3>3
  <2>2. ASSUME NEW j \in 1..Len(chunk), NEW k \in 1..Len(stream')
        PROVE  Before(chunk[j], stream'[k])
    BY <1>1, <1>4, <1>5, <1>6, <1>7, <1>10 DEF Before, Half, InSequence
  <2>3. ASSUME NEW f \in Cell, NEW k \in 1..Len(stream')
        PROVE  Before(frame[f], stream'[k])
    BY <1>1, <1>4, <1>5, <1>6, <1>7, <1>10 DEF Before, Half, InSequence
  <2>4. QED BY <1>1, <1>2, <2>1, <2>2, <2>3 DEF InSequence, ToCopy, Cell
<1>13. \A n \in 1..Len(executed) : /\ executed[n][1] \in Nat /\ executed[n][1] < c
                                   /\ executed[n][2] \in Nat /\ executed[n][2] < c
  <2>1. \A n \in 1..Len(executed) : executed[n] \in (0..MaxCommands) \X (0..MaxCommands)
    BY <1>1, ElementOfSeq DEF JsonTypes
  <2>2. \A n \in 1..Len(executed) : executed[n][1] \in Nat /\ executed[n][2] \in Nat
    BY <2>1, JsonFrameAssumption
  <2>3. QED BY <1>1, <1>3, <2>2 DEF ExecutedSent
<1>14. ExecutedSent'
  BY <1>2, <1>3, <1>13 DEF ExecutedSent
<1>15. ExecutedOld'
  <2>1. ASSUME NEW n \in 1..Len(executed), NEW k \in 1..Len(stream')
        PROVE  Newer(stream'[k], executed[n])
    <3>1. CASE k \in 1..L
      BY <1>1, <1>4, <1>5, <3>1 DEF ExecutedOld
    <3>2. CASE k \in (L + 1)..(L + 6)
      BY <1>7, <1>13, <3>2 DEF Newer, Half
    <3>3. QED BY <1>6, <3>1, <3>2
  <2>2. QED BY <1>1, <1>2, <2>1 DEF ExecutedOld, ToCopy, Cell
<1>16. BraceFollows'
  <2>1. ASSUME NEW j \in 1..Len(stream'), Half(stream'[j])
        PROVE  \E k \in 1..Len(stream') : j < k /\ stream'[k].ch = "}"
    <3>1. CASE j \in 1..L
      <4>1. j < L + 4
        BY <1>4, <3>1
      <4>2. QED BY <1>7, <4>1
    <3>2. CASE j \in (L + 1)..(L + 6)
      BY <1>7, <2>1, <3>2
    <3>3. QED BY <1>6, <3>1, <3>2
  <2>2. \E k \in 1..Len(stream') : stream'[k].ch = "}"
    BY <1>7
  <2>3. QED BY <1>1, <1>2, <2>1, <2>2 DEF BraceFollows, Cell
<1>17. SeenQuiet'
  BY <1>2 DEF SeenQuiet
<1>18. LastOnly'
  <2>1. SUFFICES ASSUME ~hurried
                 PROVE  /\ \A k \in 1..Len(stream') : Half(stream'[k]) => stream'[k].cmd = c
                        /\ chunk = <<>> /\ NoHalves
    BY <1>1, <1>2 DEF LastOnly, ToCopy, NoHalves, InBuffer, Cell
  <2>2. stream = <<>> /\ chunk = <<>> /\ NoHalves
    BY <1>1, <1>2, <2>1 DEF SeenQuiet, AllQuiet
  <2>3. L = 0
    BY <1>4, <2>2
  <2>4. \A k \in 1..Len(stream') : k \in (L + 1)..(L + 6)
    BY <1>6, <2>3
  <2>5. QED BY <1>7, <2>2, <2>4
<1>19. QED BY <1>8, <1>9, <1>11, <1>12, <1>14, <1>15, <1>16, <1>17, <1>18 DEF JsonInv

LEMMA Shift ==
  /\ \A l, m, k \in Nat : m + k = l => l - (m + 1) + 1 = k /\ (~(m + 1 <= l) => k = 0)
  /\ \A j, k, m, r \in Nat : j + m < k /\ k <= m + r
                             => k - m \in 1..r /\ j < k - m /\ (k - m) + m = k
OBVIOUS

(* The writer's next buffer is the front of the stream, which the rest follows. *)
LEMMA TakeInv ==
  JsonInv /\ (\E n \in 1..Len(stream) : n <= UART_BUF_SIZE /\ TakeBuffer(n)) => JsonInv'
<1> SUFFICES ASSUME JsonInv,
                    NEW n \in 1..Len(stream), n <= UART_BUF_SIZE, TakeBuffer(n)
             PROVE  JsonInv'
  OBVIOUS
<1> DEFINE R == Len(stream) - n
<1>1. /\ JsonTypes /\ AtMostOnce /\ NoTornCommand /\ InBuffer /\ NoneAhead /\ InSequence
      /\ ExecutedSent /\ ExecutedOld /\ BraceFollows /\ SeenQuiet /\ LastOnly
  BY DEF JsonInv
<1>2. /\ UNCHANGED <<hurried, cut, sent, seen, permit, frame, end, flag, pc, odd, executed>>
      /\ chunk = <<>> /\ chunk' = SubSeq(stream, 1, n) /\ at' = 0
      /\ stream' = SubSeq(stream, n + 1, Len(stream))
  BY DEF TakeBuffer, choice, myJson
<1>3. stream \in Seq(Symbol) /\ Len(stream) \in Nat /\ UART_BUF_SIZE \in Nat
  BY <1>1, LenProperties, SizeAssumption DEF JsonTypes
<1>4. n \in Nat /\ n > 0 /\ R \in Nat /\ Len(stream) \in Nat /\ n + R = Len(stream)
  BY <1>3
<1>5. /\ chunk' \in Seq(Symbol) /\ Len(chunk') = n
      /\ \A k \in 1..n : chunk'[k] = stream[k] /\ k \in 1..Len(stream)
  <2>1. \A k \in 1..n : k \in 1..Len(stream) /\ stream[k] \in Symbol
    BY <1>3, ElementOfSeq
  <2>2. /\ SubSeq(stream, 1, n) \in Seq(Symbol)
        /\ Len(SubSeq(stream, 1, n)) = IF 1 <= n THEN n - 1 + 1 ELSE 0
        /\ \A k \in 1..(n - 1 + 1) : SubSeq(stream, 1, n)[k] = stream[1 + k - 1]
    BY <1>4, <2>1, SubSeqProperties
  <2>3. n - 1 + 1 = n /\ 1 <= n /\ \A k \in 1..n : 1 + k - 1 = k
    BY <1>4
  <2>4. QED BY <1>2, <2>1, <2>2, <2>3
<1>6. /\ stream' \in Seq(Symbol) /\ Len(stream') = R
      /\ \A k \in 1..R : stream'[k] = stream[k + n] /\ k + n \in 1..Len(stream)
  <2>1. \A k \in (n + 1)..Len(stream) : stream[k] \in Symbol
    BY <1>3, <1>4, ElementOfSeq
  <2>2. n + 1 \in Int /\ Len(stream) \in Int
    BY <1>3, <1>4
  <2>3. /\ SubSeq(stream, n + 1, Len(stream)) \in Seq(Symbol)
        /\ Len(SubSeq(stream, n + 1, Len(stream)))
             = IF n + 1 <= Len(stream) THEN Len(stream) - (n + 1) + 1 ELSE 0
        /\ \A k \in 1..(Len(stream) - (n + 1) + 1) :
             SubSeq(stream, n + 1, Len(stream))[k] = stream[(n + 1) + k - 1]
    BY <2>1, <2>2, SubSeqProperties
  <2> HIDE DEF R
  <2>4. /\ Len(stream) - (n + 1) + 1 = R
        /\ ~(n + 1 <= Len(stream)) => R = 0
    BY <1>4, Shift
  <2>5. \A k \in 1..R : (n + 1) + k - 1 = k + n /\ k + n \in 1..Len(stream)
    BY <1>3, <1>4
  <2>6. QED BY <1>2, <2>3, <2>4, <2>5
<1>7. /\ ToCopy' = 1..n /\ Len(chunk) = 0
      /\ \A k \in 1..Len(stream) : k \in 1..n \/ k - n \in 1..R
      /\ \A j \in 1..n, k \in 1..R : j < k + n
      /\ chunk' # <<>> /\ ~AllQuiet
  <2>1. ToCopy' = 1..n /\ Len(chunk) = 0
    BY <1>2, <1>4, <1>5 DEF ToCopy
  <2>2. /\ \A k \in 1..Len(stream) : k \in 1..n \/ k - n \in 1..R
        /\ \A j \in 1..n, k \in 1..R : j < k + n
    BY <1>3, <1>4
  <2>3. chunk' # <<>> /\ ~AllQuiet
    BY <1>4, <1>5 DEF AllQuiet
  <2>4. QED BY <2>1, <2>2, <2>3
<1> HIDE DEF R
<1>8. JsonTypes'
  <2>1. at' \in 0..UART_BUF_SIZE /\ (chunk' # <<>> => at' < FRAME_SIZE)
    BY <1>2, <1>3, JsonFrameAssumption, SizeAssumption
  <2>2. NoOverrun'
    BY <1>1, <1>2, <2>1 DEF JsonTypes, NoOverrun
  <2>3. QED BY <1>1, <1>2, <1>5, <1>6, <2>1, <2>2 DEF JsonTypes
<1>9. AtMostOnce' /\ NoTornCommand' /\ ExecutedSent'
  BY <1>1, <1>2 DEF AtMostOnce, NoTornCommand, ExecutedSent
<1>10. InBuffer'
  BY <1>1, <1>2, <1>4, <1>5, <1>7 DEF InBuffer
<1>11. NoneAhead'
  BY <1>1, <1>2, <1>5, <1>6 DEF NoneAhead, Cell
<1>12. InSequence'
  <2>1. ASSUME NEW j \in 1..R, NEW k \in 1..R, j < k PROVE Before(stream'[j], stream'[k])
    <3>1. j + n < k + n
      BY <1>4, <2>1
    <3>2. QED BY <1>1, <1>6, <3>1 DEF InSequence
  <2>2. ASSUME NEW j \in 1..n, NEW k \in 1..n, j < k PROVE Before(chunk'[j], chunk'[k])
    BY <1>1, <1>5, <2>2 DEF InSequence
  <2>3. ASSUME NEW j \in 1..n, NEW k \in 1..R PROVE Before(chunk'[j], stream'[k])
    BY <1>1, <1>5, <1>6, <1>7 DEF InSequence
  <2>4. ASSUME NEW f \in Cell, NEW k \in 1..n PROVE Before(frame[f], chunk'[k])
    BY <1>1, <1>5 DEF InSequence
  <2>5. ASSUME NEW f \in Cell, NEW k \in 1..R PROVE Before(frame[f], stream'[k])
    BY <1>1, <1>6 DEF InSequence
  <2>6. QED BY <1>2, <1>5, <1>6, <1>7, <2>1, <2>2, <2>3, <2>4, <2>5 DEF InSequence, Cell
<1>13. ExecutedOld'
  <2>1. ASSUME NEW m \in 1..Len(executed)
        PROVE  /\ \A k \in 1..R : Newer(stream'[k], executed[m])
               /\ \A k \in 1..n : Newer(chunk'[k], executed[m])
    <3>1. \A k \in 1..Len(stream) : Newer(stream[k], executed[m])
      BY <1>1 DEF ExecutedOld
    <3>2. QED BY <1>5, <1>6, <3>1
  <2>2. QED BY <1>1, <1>2, <1>6, <1>7, <2>1 DEF ExecutedOld, Cell
<1>14. BraceFollows'
  <2>1. ASSUME NEW j \in 1..R, Half(stream'[j])
        PROVE  \E k \in 1..R : j < k /\ stream'[k].ch = "}"
    <3>1. Half(stream[j + n]) /\ j + n \in 1..Len(stream)
      BY <1>6, <2>1
    <3>2. PICK k \in 1..Len(stream) : j + n < k /\ stream[k].ch = "}"
      BY <1>1, <3>1 DEF BraceFollows
    <3>3. k \in Nat /\ j \in Nat
      BY <1>3, <1>4
    <3>4. k <= n + R
      BY <1>4, <3>3
    <3>5. k - n \in 1..R /\ j < k - n /\ (k - n) + n = k
      BY <1>4, <3>2, <3>3, <3>4, Shift
    <3>6. QED BY <1>6, <3>2, <3>5
  <2>2. ASSUME NEW k \in 1..Len(stream), stream[k].ch = "}"
        PROVE  \/ k \in 1..n /\ chunk'[k].ch = "}"
               \/ k - n \in 1..R /\ stream'[k - n].ch = "}"
    <3>1. (k - n) + n = k
      BY <1>4
    <3>2. QED BY <1>5, <1>6, <1>7, <2>2, <3>1
  <2>3. ASSUME NEW j \in 1..n, Half(chunk'[j])
        PROVE  \/ \E k \in 1..n : j < k /\ chunk'[k].ch = "}"
               \/ \E k \in 1..R : stream'[k].ch = "}"
    <3>1. PICK k \in 1..Len(stream) : j < k /\ stream[k].ch = "}"
      BY <1>1, <1>5, <2>3 DEF BraceFollows
    <3>2. QED BY <2>2, <3>1
  <2>4. ASSUME NEW f \in Cell, Half(frame[f]), flag # 1
        PROVE  \/ \E k \in 1..n : chunk'[k].ch = "}"
               \/ \E k \in 1..R : stream'[k].ch = "}"
    <3>1. \A k \in ToCopy : FALSE
      BY <1>1, <1>2, <1>7 DEF ToCopy, InBuffer
    <3>2. PICK k \in 1..Len(stream) : stream[k].ch = "}"
      BY <1>1, <2>4, <3>1 DEF BraceFollows
    <3>3. QED BY <2>2, <3>2
  <2>5. /\ \A j \in 1..Len(stream') : Half(stream'[j]) =>
             \E k \in 1..Len(stream') : j < k /\ stream'[k].ch = "}"
        /\ \A j \in 1..Len(chunk') : Half(chunk'[j]) =>
             \/ \E k \in 1..Len(chunk') : j < k /\ chunk'[k].ch = "}"
             \/ \E k \in 1..Len(stream') : stream'[k].ch = "}"
    BY <1>5, <1>6, <2>1, <2>3
  <2>6. \A f \in Cell : Half(frame'[f]) =>
             \/ flag' = 1
             \/ \E k \in ToCopy' : chunk'[k].ch = "}"
             \/ \E k \in 1..Len(stream') : stream'[k].ch = "}"
    BY <1>2, <1>6, <1>7, <2>4
  <2>7. QED BY <2>5, <2>6 DEF BraceFollows, Cell
<1>15. SeenQuiet'
  BY <1>1, <1>2, <1>7 DEF SeenQuiet
<1>16. LastOnly'
  BY <1>1, <1>2, <1>5, <1>6, <1>7 DEF LastOnly, Cell
<1>17. QED BY <1>8, <1>9, <1>10, <1>11, <1>12, <1>13, <1>14, <1>15, <1>16 DEF JsonInv

LEMMA FitsTest == \A e \in Nat : e < UART_BUF_SIZE => e + 1 <= TEST_MSG_SIZE
BY JsonFrameAssumption, SizeAssumption

(* One symbol goes from the buffer into the frame. *)
LEMMA CopyInv == JsonInv /\ Copy => JsonInv'
<1> SUFFICES ASSUME JsonInv, Copy PROVE JsonInv'
  OBVIOUS
<1> DEFINE s == chunk[at + 1]
<1>1. /\ JsonTypes /\ AtMostOnce /\ NoTornCommand /\ InBuffer /\ NoneAhead /\ InSequence
      /\ ExecutedSent /\ ExecutedOld /\ BraceFollows /\ SeenQuiet /\ LastOnly
  BY DEF JsonInv
<1>2. /\ UNCHANGED <<hurried, cut, sent, seen, permit, stream, pc, odd, executed>>
      /\ chunk # <<>> /\ frame' = [frame EXCEPT ![at] = s]
  BY DEF Copy, choice
<1>3. \/ s.ch = "}" /\ end' = at /\ flag' = 1
      \/ s.ch # "}" /\ end' = end /\ flag' = flag
  BY DEF Copy
<1>4. \/ at + 1 = Len(chunk) /\ chunk' = <<>> /\ at' = 0
      \/ at + 1 # Len(chunk) /\ chunk' = chunk /\ at' = at + 1
  BY DEF Copy
<1>5. /\ chunk \in Seq(Symbol) /\ Len(chunk) \in Nat /\ at \in Nat /\ at < Len(chunk)
      /\ Len(chunk) <= UART_BUF_SIZE /\ UART_BUF_SIZE \in Nat
      /\ FRAME_SIZE \in Nat /\ UART_BUF_SIZE <= FRAME_SIZE
      /\ TEST_MSG_SIZE \in Nat /\ UART_BUF_SIZE <= TEST_MSG_SIZE
  <2>1. chunk \in Seq(Symbol) /\ Len(chunk) \in Nat
    BY <1>1, LenProperties DEF JsonTypes
  <2>2. at \in Nat /\ at < Len(chunk) /\ Len(chunk) <= UART_BUF_SIZE
    BY <1>1, <1>2 DEF JsonTypes, InBuffer
  <2>3. /\ UART_BUF_SIZE \in Nat /\ FRAME_SIZE \in Nat /\ UART_BUF_SIZE <= FRAME_SIZE
        /\ TEST_MSG_SIZE \in Nat /\ UART_BUF_SIZE <= TEST_MSG_SIZE
    BY SizeAssumption, JsonFrameAssumption
  <2>4. QED BY <2>1, <2>2, <2>3
<1>6. /\ at + 1 \in ToCopy /\ at + 1 \in 1..Len(chunk) /\ at \in Cell /\ s \in Symbol
      /\ \A k \in ToCopy : k \in 1..Len(chunk)
  <2>1. at + 1 \in ToCopy /\ at + 1 \in 1..Len(chunk) /\ at \in Cell
    BY <1>5 DEF ToCopy, Cell
  <2>2. \A k \in ToCopy : k \in 1..Len(chunk)
    BY <1>5 DEF ToCopy
  <2>3. QED BY <1>5, <2>1, <2>2, ElementOfSeq
<1> HIDE DEF s
<1>7. end' \in Nat /\ end' < UART_BUF_SIZE /\ flag' \in 0..1
  <2>1. end \in Nat /\ flag \in 0..1 /\ end < UART_BUF_SIZE
    BY <1>1 DEF JsonTypes, InBuffer
  <2>2. at < UART_BUF_SIZE
    BY <1>5
  <2>3. CASE end' = at /\ flag' = 1
    BY <1>5, <2>2, <2>3
  <2>4. CASE end' = end /\ flag' = flag
    BY <2>1, <2>4
  <2>5. QED BY <1>3, <2>3, <2>4
<1>8. /\ frame' \in [Cell -> Symbol]
      /\ \A f \in Cell : frame'[f] = frame[f] \/ frame'[f] = s
  <2>1. frame \in [Cell -> Symbol]
    BY <1>1 DEF JsonTypes, Cell
  <2>2. QED BY <1>2, <1>6, <2>1
<1>9. /\ chunk' \in Seq(Symbol) /\ at' \in 0..UART_BUF_SIZE
      /\ \A k \in ToCopy' : k \in ToCopy /\ k # at + 1 /\ chunk'[k] = chunk[k]
      /\ \A k \in ToCopy : k > at + 1 => k \in ToCopy' /\ chunk'[k] = chunk[k]
      /\ \A k \in ToCopy : k = at + 1 \/ k > at + 1
      /\ chunk' = <<>> \/ chunk' = chunk
      /\ Len(<<>>) = 0
  <2>1. CASE at + 1 = Len(chunk)
    <3>1. chunk' = <<>> /\ at' = 0 /\ Len(chunk') = 0
      BY <1>4, <2>1
    <3>2. \A k \in ToCopy' : FALSE
      BY <3>1 DEF ToCopy
    <3>3. \A k \in ToCopy : k = at + 1
      BY <1>5, <2>1 DEF ToCopy
    <3>4. chunk' \in Seq(Symbol) /\ at' \in 0..UART_BUF_SIZE
      BY <1>5, <3>1
    <3>5. \A k \in ToCopy : ~(k > at + 1)
      BY <1>5, <3>3
    <3>6. QED BY <3>1, <3>2, <3>3, <3>4, <3>5
  <2>2. CASE at + 1 # Len(chunk)
    <3>1. at' = at + 1 /\ chunk' = chunk
      BY <1>4, <2>2
    <3>2. ToCopy' = (at + 2)..Len(chunk)
      BY <1>5, <3>1 DEF ToCopy
    <3>3. /\ \A k \in (at + 2)..Len(chunk) : k \in (at + 1)..Len(chunk) /\ k # at + 1
          /\ \A k \in (at + 1)..Len(chunk) : k > at + 1 => k \in (at + 2)..Len(chunk)
          /\ \A k \in (at + 1)..Len(chunk) : k = at + 1 \/ k > at + 1
      BY <1>5
    <3>4. at' \in 0..UART_BUF_SIZE
      BY <1>5, <3>1
    <3>5. ToCopy = (at + 1)..Len(chunk)
      BY DEF ToCopy
    <3>6. QED BY <1>5, <3>1, <3>2, <3>3, <3>4, <3>5
  <2>3. QED BY <2>1, <2>2
<1>10. InBuffer'
  <2>1. end' < UART_BUF_SIZE
    BY <1>7
  <2>2. CASE at + 1 = Len(chunk) /\ chunk' = <<>> /\ at' = 0
    <3>1. Len(chunk') = 0
      BY <2>2
    <3>2. QED BY <1>5, <2>1, <2>2, <3>1 DEF InBuffer
  <2>3. CASE at + 1 # Len(chunk) /\ chunk' = chunk /\ at' = at + 1
    <3>1. at + 1 < Len(chunk) /\ chunk' # <<>>
      BY <1>2, <1>5, <2>3
    <3>2. QED BY <1>5, <2>1, <2>3, <3>1 DEF InBuffer
  <2>4. QED BY <1>4, <2>2, <2>3
<1>11. JsonTypes'
  <2>1. end' + 1 <= TEST_MSG_SIZE
    BY <1>7, FitsTest
  <2>2. NoOverrun'
    <3>1. chunk' # <<>> => at + 1 < Len(chunk) /\ at' = at + 1
      BY <1>5, <1>4
    <3>2. at + 1 < Len(chunk) => at + 1 < FRAME_SIZE
      BY <1>5
    <3>3. chunk' # <<>> => at' < FRAME_SIZE
      BY <3>1, <3>2
    <3>4. QED BY <2>1, <3>3 DEF NoOverrun
  <2>3. QED BY <1>1, <1>2, <1>8, <1>9, <1>7, <2>2 DEF JsonTypes, Cell
<1>12. AtMostOnce' /\ NoTornCommand' /\ ExecutedSent'
  BY <1>1, <1>2 DEF AtMostOnce, NoTornCommand, ExecutedSent
<1>13. /\ \A k \in 1..Len(chunk') : k \in 1..Len(chunk) /\ chunk'[k] = chunk[k]
       /\ s.cmd <= sent
  BY <1>1, <1>6, <1>9 DEF NoneAhead, s
<1>14. NoneAhead'
  BY <1>1, <1>2, <1>8, <1>13 DEF NoneAhead, Cell
<1>15. InSequence'
  <2>1. ASSUME NEW k \in ToCopy' PROVE Before(s, chunk'[k])
    <3>1. at + 1 < k /\ k \in 1..Len(chunk) /\ chunk'[k] = chunk[k]
      BY <1>5, <1>6, <1>9
    <3>2. QED BY <1>1, <1>6, <3>1 DEF InSequence, s
  <2>2. ASSUME NEW k \in 1..Len(stream) PROVE Before(s, stream[k])
    BY <1>1, <1>6 DEF InSequence, s
  <2>3. ASSUME NEW f \in Cell, NEW k \in ToCopy' PROVE Before(frame'[f], chunk'[k])
    BY <1>1, <1>8, <1>9, <2>1 DEF InSequence
  <2>4. ASSUME NEW f \in Cell, NEW k \in 1..Len(stream) PROVE Before(frame'[f], stream[k])
    BY <1>1, <1>8, <2>2 DEF InSequence
  <2>5. /\ \A j, k \in 1..Len(chunk') : j < k => Before(chunk'[j], chunk'[k])
        /\ \A j \in 1..Len(chunk'), k \in 1..Len(stream) : Before(chunk'[j], stream[k])
    BY <1>1, <1>13 DEF InSequence
  <2>6. QED BY <1>1, <1>2, <2>3, <2>4, <2>5 DEF InSequence, Cell
<1>16. ExecutedOld'
  <2>1. ASSUME NEW m \in 1..Len(executed), pc # "sleep20", NEW f \in Cell
        PROVE  Newer(frame'[f], executed[m])
    <3>1. Newer(s, executed[m])
      BY <1>1, <1>6 DEF ExecutedOld, s
    <3>2. QED BY <1>1, <1>8, <2>1, <3>1 DEF ExecutedOld
  <2>2. QED BY <1>1, <1>2, <1>9, <2>1 DEF ExecutedOld, Cell
<1>17. BraceFollows'
  <2>1. ASSUME NEW j \in 1..Len(chunk'), Half(chunk'[j])
        PROVE  \/ \E k \in 1..Len(chunk') : j < k /\ chunk'[k].ch = "}"
               \/ \E k \in 1..Len(stream) : stream[k].ch = "}"
    <3>1. chunk' = chunk
      BY <1>9, <2>1
    <3>2. QED BY <1>1, <2>1, <3>1 DEF BraceFollows
  <2>2. ASSUME NEW f \in Cell, Half(frame'[f]), flag' # 1
        PROVE  \/ \E k \in ToCopy' : chunk'[k].ch = "}"
               \/ \E k \in 1..Len(stream) : stream[k].ch = "}"
    <3>1. s.ch # "}" /\ flag # 1
      BY <1>3, <2>2
    <3>2. ASSUME NEW k \in ToCopy, chunk[k].ch = "}"
          PROVE  k \in ToCopy' /\ chunk'[k].ch = "}"
      BY <1>9, <3>1, <3>2 DEF s
    <3>3. CASE frame'[f] = s
      <4>1. \/ \E k \in 1..Len(chunk) : at + 1 < k /\ chunk[k].ch = "}"
            \/ \E k \in 1..Len(stream) : stream[k].ch = "}"
        BY <1>1, <1>6, <2>2, <3>3 DEF BraceFollows, s
      <4>2. \A k \in 1..Len(chunk) : at + 1 < k => k \in ToCopy
        BY <1>5 DEF ToCopy
      <4>3. QED BY <3>2, <4>1, <4>2
    <3>4. CASE frame'[f] = frame[f]
      BY <1>1, <2>2, <3>1, <3>2, <3>4 DEF BraceFollows
    <3>5. QED BY <1>8, <3>3, <3>4
  <2>3. QED BY <1>1, <1>2, <2>1, <2>2 DEF BraceFollows, Cell
<1>18. SeenQuiet'
  BY <1>1, <1>2 DEF SeenQuiet, AllQuiet
<1>19. LastOnly'
  <2>1. ~hurried /\ Half(s) => s.cmd = sent
    BY <1>1, <1>6 DEF LastOnly, s
  <2>2. QED BY <1>1, <1>2, <1>8, <1>9, <2>1 DEF LastOnly, Cell
<1>20. QED BY <1>10, <1>11, <1>12, <1>14, <1>15, <1>16, <1>17, <1>18, <1>19 DEF JsonInv

-----------------------------------------------------------------------------
(* What json_obj_parse can return: two halves that lie in the frame. *)
LEMMA ParsedIs ==
  ASSUME end \in Nat, end < UART_BUF_SIZE, NEW command \in Parsed(end + 1)
  PROVE  \E f, g \in Cell : /\ frame[f].ch = "a" /\ frame[g].ch = "b"
                            /\ command = <<frame[f].cmd, frame[g].cmd>>
<1>1. PICK k \in 0..((end + 1) - 1) :
        /\ ObjectAt(k, end + 1)
        /\ command = <<frame[k + 1].cmd, frame[k + 2].cmd>>
  BY DEF Parsed
<1>2. k + 4 <= end + 1 /\ frame[k + 1].ch = "a" /\ frame[k + 2].ch = "b"
  BY <1>1 DEF ObjectAt
<1>3. \A j \in 0..((end + 1) - 1) : j \in Nat
  OBVIOUS
<1>4. k \in Nat
  BY <1>3
<1>5. UART_BUF_SIZE \in Nat /\ FRAME_SIZE \in Nat /\ UART_BUF_SIZE <= FRAME_SIZE
  BY SizeAssumption, JsonFrameAssumption
<1>6. k + 1 \in Cell /\ k + 2 \in Cell
  BY <1>2, <1>5, <1>4 DEF Cell
<1>7. QED BY <1>1, <1>2, <1>6

(* main carries out what the frame holds: it is newer than all it carried out *)
(* before and older than all that follows.                                    *)
LEMMA PollInv == JsonInv /\ Poll => JsonInv'
<1> SUFFICES ASSUME JsonInv, Poll PROVE JsonInv'
  OBVIOUS
<1> DEFINE Pairs == (0..MaxCommands) \X (0..MaxCommands)
           N == Len(executed)
<1>1. /\ JsonTypes /\ AtMostOnce /\ NoTornCommand /\ InBuffer /\ NoneAhead /\ InSequence
      /\ ExecutedSent /\ ExecutedOld /\ BraceFollows /\ SeenQuiet /\ LastOnly
  BY DEF JsonInv
<1>2. /\ UNCHANGED <<hurried, cut, sent, permit, stream, chunk, at, frame, end, flag, odd>>
      /\ pc = "delay" /\ seen' = AllQuiet
  BY DEF Poll, choice, copier, myJson, AllQuiet
<1>3. \/ flag = 1 /\ pc' = "sleep20"
      \/ flag # 1 /\ pc' = "status" /\ executed' = executed
  BY DEF Poll
<1>4. \/ executed' = executed
      \/ \E command \in Parsed(end + 1) : pc' = "sleep20" /\ executed' = Append(executed, command)
  BY DEF Poll
<1>5. executed \in Seq(Pairs) /\ N \in Nat /\ N = Len(executed)
  BY <1>1, LenProperties DEF JsonTypes
<1>6. InBuffer' /\ NoneAhead' /\ InSequence' /\ BraceFollows' /\ LastOnly'
  BY <1>1, <1>2 DEF InBuffer, NoneAhead, InSequence, BraceFollows, LastOnly, ToCopy, Cell
<1>7. SeenQuiet'
  <2>1. AllQuiet' = AllQuiet /\ NoHalves' = NoHalves
    BY <1>2 DEF AllQuiet, NoHalves, Cell
  <2>2. ASSUME AllQuiet, flag # 1 PROVE NoHalves
    <3>1. (\A k \in ToCopy : FALSE) /\ (\A k \in 1..Len(stream) : FALSE)
      BY <1>1, <2>2 DEF AllQuiet, InBuffer, ToCopy
    <3>2. QED BY <1>1, <2>2, <3>1 DEF BraceFollows, NoHalves
  <2>3. (seen' /\ pc' # "sleep20") => NoHalves
    BY <1>2, <1>3, <2>2
  <2>4. permit' => AllQuiet /\ NoHalves
    BY <1>1, <1>2 DEF SeenQuiet
  <2>5. QED BY <1>2, <2>1, <2>3, <2>4 DEF SeenQuiet
<1>8. ASSUME executed' \in Seq(Pairs) PROVE JsonTypes'
  <2>1. NoOverrun'
    BY <1>1, <1>2 DEF JsonTypes, NoOverrun
  <2>2. seen' \in BOOLEAN /\ pc' \in {"delay", "sleep20", "status"}
    BY <1>2, <1>3 DEF AllQuiet
  <2>3. QED BY <1>1, <1>2, <1>8, <2>1, <2>2 DEF JsonTypes
<1>9. CASE executed' = executed
  <2>1. JsonTypes'
    BY <1>5, <1>8, <1>9
  <2>2. AtMostOnce' /\ NoTornCommand' /\ ExecutedSent'
    BY <1>1, <1>2, <1>9 DEF AtMostOnce, NoTornCommand, ExecutedSent
  <2>3. ExecutedOld'
    BY <1>1, <1>2, <1>9 DEF ExecutedOld, ToCopy, Cell
  <2>4. QED BY <1>6, <1>7, <2>1, <2>2, <2>3 DEF JsonInv
<1>10. CASE \E command \in Parsed(end + 1) :
              pc' = "sleep20" /\ executed' = Append(executed, command)
  <2>1. PICK command \in Parsed(end + 1) :
          pc' = "sleep20" /\ executed' = Append(executed, command)
    BY <1>10
  <2>2. end \in Nat /\ end < UART_BUF_SIZE
    BY <1>1 DEF JsonTypes, InBuffer
  <2>3. PICK f \in Cell, g \in Cell : /\ frame[f].ch = "a" /\ frame[g].ch = "b"
                                      /\ command = <<frame[f].cmd, frame[g].cmd>>
    BY <2>2, ParsedIs
  <2> DEFINE a == frame[f].cmd
             b == frame[g].cmd
  <2>4. a \in 0..MaxCommands /\ b \in 0..MaxCommands
    <3>1. frame[f] \in Symbol /\ frame[g] \in Symbol
      BY <1>1 DEF JsonTypes, Cell
    <3>2. QED BY <3>1, SymbolFields
  <2>5. Half(frame[f]) /\ Half(frame[g])
    BY <2>3 DEF Half
  <2>6. command \in Pairs /\ command[1] = a /\ command[2] = b
    BY <2>3, <2>4
  <2>7. /\ executed' \in Seq(Pairs) /\ Len(executed') = N + 1
        /\ \A n \in 1..N : executed'[n] = executed[n]
        /\ executed'[N + 1] = command
    BY <1>5, <2>1, <2>6, AppendProperties
  <2>8. \A n \in 1..Len(executed') : n \in 1..N \/ n = N + 1
    BY <1>5, <2>7
  <2>9. \A n \in 1..N : executed[n][1] < a /\ executed[n][2] < b
    BY <1>1, <1>2, <1>5, <2>3 DEF ExecutedOld, Newer
  <2>10. a <= sent /\ b <= sent /\ (~hurried => a = b)
    BY <1>1, <2>5 DEF NoneAhead, LastOnly
  <2>11. /\ \A k \in 1..Len(stream) : Newer(stream[k], command)
         /\ \A k \in ToCopy : Newer(chunk[k], command)
    BY <1>1, <2>3, <2>5, <2>6 DEF InSequence, Before, Newer
  <2> HIDE DEF a, b, N
  <2>12. JsonTypes'
    BY <1>8, <2>7
  <2>13. AtMostOnce'
    <3>1. ASSUME NEW m \in 1..Len(executed'), NEW n \in 1..Len(executed'), m < n
          PROVE  executed'[m][1] < executed'[n][1] /\ executed'[m][2] < executed'[n][2]
      <4>1. m \in 1..N
        BY <1>5, <2>7, <3>1
      <4>2. CASE n \in 1..N
        BY <1>1, <1>5, <2>7, <3>1, <4>1, <4>2 DEF AtMostOnce
      <4>3. CASE n = N + 1
        BY <2>6, <2>7, <2>9, <4>1, <4>3
      <4>4. QED BY <2>8, <4>2, <4>3
    <3>2. QED BY <3>1 DEF AtMostOnce
  <2>14. NoTornCommand' /\ ExecutedSent'
    BY <1>1, <1>2, <1>5, <2>6, <2>7, <2>8, <2>10 DEF NoTornCommand, ExecutedSent
  <2>15. ExecutedOld'
    <3>1. ASSUME NEW n \in 1..Len(executed')
          PROVE  /\ \A k \in 1..Len(stream) : Newer(stream[k], executed'[n])
                 /\ \A k \in ToCopy : Newer(chunk[k], executed'[n])
      <4>1. CASE n \in 1..N
        BY <1>1, <1>5, <2>7, <4>1 DEF ExecutedOld
      <4>2. CASE n = N + 1
        BY <2>7, <2>11, <4>2
      <4>3. QED BY <2>8, <4>1, <4>2
    <3>2. QED BY <1>2, <2>1, <3>1 DEF ExecutedOld, ToCopy
  <2>16. QED BY <1>6, <1>7, <2>12, <2>13, <2>14, <2>15 DEF JsonInv
<1>11. QED BY <1>4, <1>9, <1>10

(* After clearJsonData no half is left in the frame. *)
LEMMA ClearInv == JsonInv /\ Clear => JsonInv'
<1> SUFFICES ASSUME JsonInv, Clear PROVE JsonInv'
  OBVIOUS
<1>1. /\ JsonTypes /\ AtMostOnce /\ NoTornCommand /\ InBuffer /\ NoneAhead /\ InSequence
      /\ ExecutedSent /\ ExecutedOld /\ BraceFollows /\ SeenQuiet /\ LastOnly
  BY DEF JsonInv
<1>2. /\ UNCHANGED <<hurried, cut, sent, seen, permit, stream, chunk, at, odd, executed>>
      /\ pc' = "status" /\ frame' = Cleared /\ end' = 0 /\ flag' = 0
  BY DEF Clear, choice, copier
<1>3. frame' \in [Cell -> Symbol] /\ \A f \in Cell : frame'[f].cmd = 0 /\ ~Half(frame'[f])
  BY <1>2, ClearedIs
<1>4. sent \in Nat /\ UART_BUF_SIZE \in Nat /\ 0 < UART_BUF_SIZE
  BY <1>1, JsonFrameAssumption, SizeAssumption DEF JsonTypes
<1>5. JsonTypes'
  <2>1. NoOverrun'
    BY <1>1, <1>2 DEF JsonTypes, NoOverrun
  <2>2. QED BY <1>1, <1>2, <1>3, <2>1 DEF JsonTypes, Cell
<1>6. AtMostOnce' /\ NoTornCommand' /\ ExecutedSent'
  BY <1>1, <1>2 DEF AtMostOnce, NoTornCommand, ExecutedSent
<1>7. InBuffer' /\ NoneAhead'
  BY <1>1, <1>2, <1>3, <1>4 DEF InBuffer, NoneAhead, Cell
<1>8. InSequence'
  <2>1. /\ \A f \in Cell, k \in ToCopy : Before(frame'[f], chunk[k])
        /\ \A f \in Cell, k \in 1..Len(stream) : Before(frame'[f], stream[k])
    BY <1>3 DEF Before
  <2>2. QED BY <1>1, <1>2, <2>1 DEF InSequence, ToCopy, Cell
<1>9. BraceFollows' /\ LastOnly'
  BY <1>1, <1>2, <1>3 DEF BraceFollows, LastOnly, ToCopy, Cell
<1>10. SeenQuiet'
  BY <1>1, <1>2, <1>3 DEF SeenQuiet, AllQuiet, NoHalves, Cell
<1>11. ExecutedOld'
  <2>1. ASSUME NEW n \in 1..Len(executed), NEW f \in Cell
        PROVE  Newer(frame'[f], executed[n])
    BY <1>3 DEF Newer, Half
  <2>2. QED BY <1>1, <1>2, <2>1 DEF ExecutedOld, ToCopy, Cell
<1>12. QED BY <1>5, <1>6, <1>11, <1>7, <1>8, <1>9, <1>10 DEF JsonInv

LEMMA StatusInv == JsonInv /\ Status => JsonInv'
<1> SUFFICES ASSUME JsonInv, Status PROVE JsonInv'
  OBVIOUS
<1>1. /\ JsonTypes /\ AtMostOnce /\ NoTornCommand /\ InBuffer /\ NoneAhead /\ InSequence
      /\ ExecutedSent /\ ExecutedOld /\ BraceFollows /\ SeenQuiet /\ LastOnly
  BY DEF JsonInv
<1>2. /\ UNCHANGED <<hurried, cut, sent, seen, stream, chunk, at, frame, end, flag, executed>>
      /\ pc = "status" /\ pc' = "delay" /\ odd' \in BOOLEAN
      /\ permit' \in BOOLEAN /\ (permit' => permit \/ seen)
  BY DEF Status, choice, copier, myJson
<1>3. JsonTypes'
  <2>1. NoOverrun'
    BY <1>1, <1>2 DEF JsonTypes, NoOverrun
  <2>2. QED BY <1>1, <1>2, <2>1 DEF JsonTypes
<1>4. AtMostOnce' /\ NoTornCommand' /\ ExecutedSent'
  BY <1>1, <1>2 DEF AtMostOnce, NoTornCommand, ExecutedSent
<1>5. InBuffer' /\ NoneAhead' /\ InSequence' /\ ExecutedOld'
  BY <1>1, <1>2 DEF InBuffer, NoneAhead, InSequence, ExecutedOld, ToCopy, Cell
<1>6. BraceFollows' /\ LastOnly'
  BY <1>1, <1>2 DEF BraceFollows, LastOnly, ToCopy, Cell
<1>7. SeenQuiet'
  BY <1>1, <1>2 DEF SeenQuiet, AllQuiet, NoHalves, Cell
<1>8. QED BY <1>3, <1>4, <1>5, <1>6, <1>7 DEF JsonInv

LEMMA JsonStutter == JsonInv /\ UNCHANGED jsonVars => JsonInv'
<1> SUFFICES ASSUME JsonInv, UNCHANGED jsonVars PROVE JsonInv'
  OBVIOUS
<1>1. /\ JsonTypes /\ AtMostOnce /\ NoTornCommand /\ InBuffer /\ NoneAhead /\ InSequence
      /\ ExecutedSent /\ ExecutedOld /\ BraceFollows /\ SeenQuiet /\ LastOnly
  BY DEF JsonInv
<1>2. UNCHANGED <<hurried, cut, sent, seen, permit, stream, chunk, at, frame, end, flag, pc, odd,
                  executed>>
  BY DEF jsonVars, choice, copier, myJson
<1>3. JsonTypes'
  BY <1>1, <1>2 DEF JsonTypes, NoOverrun
<1>4. AtMostOnce' /\ NoTornCommand' /\ ExecutedSent'
  BY <1>1, <1>2 DEF AtMostOnce, NoTornCommand, ExecutedSent
<1>5. InBuffer' /\ NoneAhead' /\ InSequence' /\ ExecutedOld'
  BY <1>1, <1>2 DEF InBuffer, NoneAhead, InSequence, ExecutedOld, ToCopy, Cell
<1>6. BraceFollows' /\ LastOnly'
  BY <1>1, <1>2 DEF BraceFollows, LastOnly, ToCopy, Cell
<1>7. SeenQuiet'
  BY <1>1, <1>2 DEF SeenQuiet, AllQuiet, NoHalves, Cell
<1>8. QED BY <1>3, <1>4, <1>5, <1>6, <1>7 DEF JsonInv

LEMMA JsonInvariant == JsonSpec => []JsonInv
<1>1. JsonInv /\ [JsonNext]_jsonVars => JsonInv'
  BY SendInv, CopyInv, TakeInv, PollInv, ClearInv, StatusInv, JsonStutter DEF JsonNext, Writer, Main
<1>2. QED BY InitJsonInv, <1>1, PTL DEF JsonSpec

(* The types, and with them that getJsonData stays inside myJson.frame and that *)
(* the length main passes on fits the test_msg of uttecJsonTest, wherever the   *)
(* lines are cut and whenever main looks.                                       *)
THEOREM JsonTypesCorrect == JsonSpec => []JsonTypes
<1>1. JsonInv => JsonTypes
  BY DEF JsonInv
<1>2. QED BY JsonInvariant, <1>1, PTL

(* No half of a command is carried out twice, or after a half of a later one. *)
THEOREM CarriedOutOnce == JsonSpec => []AtMostOnce
<1>1. JsonInv => AtMostOnce
  BY DEF JsonInv
<1>2. QED BY JsonInvariant, <1>1, PTL

(* To an unhurried sender, uttecJsonTest only ever carries out whole commands. *)
THEOREM NeverTorn == JsonSpec => []NoTornCommand
<1>1. JsonInv => NoTornCommand
  BY DEF JsonInv
<1>2. QED BY JsonInvariant, <1>1, PTL
=============================================================================
