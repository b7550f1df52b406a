------------------------------- MODULE UartRx -------------------------------
(***************************************************************************)
(* The UART receive path of the nRF node (nordic/whybizBle/src/myBle.c):   *)
(* uart_cb and its events, the uart_work retry, uart_init, the fifo of     *)
(* received buffers, ble_write_thread, and the heap they share with        *)
(* bt_receive_cb.                                                          *)
(*                                                                         *)
(* Actors: the UARTE interrupt (every event of uart_cb), the system work   *)
(* queue (uart_work_handler), the writer thread and the Bluetooth receive  *)
(* thread.  An event of uart_cb runs to completion in the interrupt, so it *)
(* is one step; a thread is preempted between its heap and fifo calls, so  *)
(* each of those is a step.                                                *)
(*                                                                         *)
(* External: Zephyr's asynchronous UART driver (rx, rx_buf, rx_next_buf,   *)
(* rx_offset, request), which reports ENDRX before RXSTARTED before RXTO,  *)
(* k_malloc (a pool of blocks, each the size of one uart_data_t) and       *)
(* k_fifo.  uart_tx is never called in this firmware, so the TX events of  *)
(* uart_cb cannot be delivered and are left out.                           *)
(***************************************************************************)
EXTENDS NodeUart, Naturals, Sequences, Functions

CONSTANTS Buf,             \* blocks of the heap, as uart_data_t buffers
          NoBuf,           \* NULL
          MaxBytes         \* bound on the bytes that arrive on the wire

ASSUMPTION BufAssumption == NoBuf \notin Buf /\ Buf # {}
ASSUMPTION BytesAssumption == MaxBytes \in Nat

VARIABLES
  heap,          \* blocks k_malloc can return
  len,           \* buf->len
  data,          \* bytes the DMA has written to a buffer since it was given to it
  fifo,          \* fifo_uart_rx_data
  writer,        \* buffer between ble_write_thread's k_fifo_get and k_free
  bleTx,         \* block bt_receive_cb holds for one chunk of a BLE write
  disable_req,   \* static disable_req of uart_cb
  work,          \* uart_work is scheduled
  boot,          \* progress of initBle: "start", "up" or "failed" (uart_init's result)
  ble_init_ok,   \* the semaphore has been given
  rx,            \* driver: "off", "on", "stopping"
  rx_buf,        \* driver: buffer being filled
  rx_next_buf,   \* driver: buffer to fill next
  rx_offset,     \* driver: bytes of rx_buf already reported
  request,       \* driver: reception into rx_buf started, RX_BUF_REQUEST is due
  arrived,       \* bytes that have arrived on the wire
  accepted,      \* those the DMA stored, in order
  json           \* bytes given to getJsonData, in order

driver == <<rx, rx_buf, rx_next_buf, rx_offset, request>>
wire   == <<arrived, accepted>>
vars   == <<heap, len, data, fifo, writer, bleTx, disable_req, work, boot,
            ble_init_ok, driver, wire, json>>

Byte  == [id : Nat, eol : BOOLEAN]    \* eol: the byte is '\n' or '\r'
Stale == [id |-> 0, eol |-> FALSE]    \* what the heap block held before

(* buf->data[0..len-1]: bytes the DMA did not write are whatever was there. *)
Content(b) ==
  [i \in 1..len[b] |-> IF i \in 1..Len(data[b]) THEN data[b][i] ELSE Stale]

Unreported == Len(data[rx_buf]) - rx_offset

Init ==
  /\ heap = Buf
  /\ len = [b \in Buf |-> 0]
  /\ data = [b \in Buf |-> <<>>]
  /\ fifo = <<>> /\ writer = NoBuf /\ bleTx = NoBuf
  /\ disable_req = FALSE /\ work = FALSE
  /\ boot = "start" /\ ble_init_ok = FALSE
  /\ rx = "off" /\ rx_buf = NoBuf /\ rx_next_buf = NoBuf
  /\ rx_offset = 0 /\ request = FALSE
  /\ arrived = 0 /\ accepted = <<>> /\ json = <<>>

-----------------------------------------------------------------------------
(* Mutant: the block's old length is kept. *)
RxEnableKeepsLen(b) ==
  /\ heap' = heap \ {b}
  /\ IF rx_buf = NoBuf /\ rx_next_buf = NoBuf
     THEN /\ rx' = "on" /\ rx_buf' = b /\ rx_offset' = 0 /\ request' = TRUE
          /\ data' = [data EXCEPT ![b] = <<>>]
          /\ UNCHANGED <<rx_next_buf, len>>
     ELSE UNCHANGED <<driver, data, len>>

(* uart_rx_enable(uart, buf->data, ...) with the block b just allocated: -EBUSY *)
(* while the driver has a buffer, and then nothing refers to b any more.        *)
RxEnable(b) ==
  /\ heap' = heap \ {b}
  /\ len' = [len EXCEPT ![b] = 0]
  /\ IF rx_buf = NoBuf /\ rx_next_buf = NoBuf
     THEN /\ rx' = "on" /\ rx_buf' = b /\ rx_offset' = 0 /\ request' = TRUE
          /\ data' = [data EXCEPT ![b] = <<>>]
          /\ UNCHANGED rx_next_buf
     ELSE UNCHANGED <<driver, data>>

(* Mutant: a queued buffer is freed as well. *)
ReleasedTwice(b) ==
  /\ fifo' = IF len[b] > 0 THEN Append(fifo, b) ELSE fifo
  /\ heap' = heap \cup {b}

(* UART_RX_BUF_RELEASED for b: to the fifo if it holds anything, else freed. *)
Released(b) ==
  IF len[b] > 0
  THEN fifo' = Append(fifo, b) /\ UNCHANGED heap
  ELSE heap' = heap \cup {b} /\ UNCHANGED fifo

(* uart_init, called by initBle. *)
UartInit ==
  /\ boot = "start" /\ boot' = "up"
  /\ \E b \in heap : RxEnable(b)
  /\ UNCHANGED <<fifo, writer, bleTx, disable_req, work, ble_init_ok, wire, json>>

(* uart_init fails (no device, no callback, reception refused): its buffer is *)
(* freed again and initBle goes on without a UART.                            *)
UartInitFails ==
  /\ boot = "start" /\ boot' = "failed"
  /\ UNCHANGED <<heap, len, data, fifo, writer, bleTx, disable_req, work,
                 ble_init_ok, driver, wire, json>>

(* initBle gives ble_init_ok after bt_enable, whatever uart_init returned. *)
GiveBleInitOk ==
  /\ boot # "start" /\ ~ble_init_ok /\ ble_init_ok' = TRUE
  /\ UNCHANGED <<heap, len, data, fifo, writer, bleTx, disable_req, work, boot,
                 driver, wire, json>>

-----------------------------------------------------------------------------
(* The wire: a byte is stored by the DMA, or is lost when reception is not on. *)
StoreByte(eol) ==
  LET byte == [id |-> arrived + 1, eol |-> eol]
  IN  /\ arrived < MaxBytes /\ arrived' = arrived + 1
      /\ rx_buf # NoBuf /\ Len(data[rx_buf]) < UART_BUF_SIZE
      /\ data' = [data EXCEPT ![rx_buf] = Append(@, byte)]
      /\ accepted' = Append(accepted, byte)
      /\ UNCHANGED <<heap, len, fifo, writer, bleTx, disable_req, work, boot,
                     ble_init_ok, driver, json>>

LoseByte ==
  /\ arrived < MaxBytes /\ arrived' = arrived + 1
  /\ rx # "on"
  /\ UNCHANGED <<heap, len, data, fifo, writer, bleTx, disable_req, work, boot,
                 ble_init_ok, driver, accepted, json>>

(* Mutant: the stop is noted but uart_rx_disable is not called. *)
RxRdyNoDisable ==
  /\ rx # "off" /\ rx_buf # NoBuf /\ Unreported > 0
  /\ LET n   == len[rx_buf] + Unreported
         eol == n \in 1..Len(data[rx_buf]) /\ data[rx_buf][n].eol
     IN  len' = [len EXCEPT ![rx_buf] = n] /\ disable_req' = (disable_req \/ eol)
  /\ rx_offset' = Len(data[rx_buf])
  /\ UNCHANGED <<heap, data, fifo, writer, bleTx, work, boot, ble_init_ok, rx,
                 rx_buf, rx_next_buf, request, wire, json>>

(* UART_RX_RDY, after a pause on the line or at the end of a buffer: a chunk *)
(* that ends in an end-of-line asks the driver to stop.                      *)
RxRdy ==
  /\ rx # "off" /\ rx_buf # NoBuf /\ Unreported > 0
  /\ LET n   == len[rx_buf] + Unreported
         eol == n \in 1..Len(data[rx_buf]) /\ data[rx_buf][n].eol
     IN  /\ len' = [len EXCEPT ![rx_buf] = n]
         /\ IF ~disable_req /\ eol
            THEN disable_req' = TRUE /\ rx' = "stopping"
            ELSE UNCHANGED <<disable_req, rx>>
  /\ rx_offset' = Len(data[rx_buf])
  /\ UNCHANGED <<heap, data, fifo, writer, bleTx, work, boot, ble_init_ok, rx_buf,
                 rx_next_buf, request, wire, json>>

(* UART_RX_BUF_REQUEST: without a block the driver simply gets no answer. *)
RxBufRequest ==
  /\ request /\ request' = FALSE
  /\ IF heap = {}
     THEN UNCHANGED <<heap, len, data, rx_next_buf>>
     ELSE \E b \in heap :
            /\ heap' = heap \ {b}
            /\ len' = [len EXCEPT ![b] = 0]
            /\ data' = [data EXCEPT ![b] = <<>>]
            /\ rx_next_buf' = b
  /\ UNCHANGED <<fifo, writer, bleTx, disable_req, work, boot, ble_init_ok, rx,
                 rx_buf, rx_offset, wire, json>>

(* The buffer is full: it is released, and the next one becomes current; when *)
(* there is none the driver stops.                                            *)
RxBufferFull ==
  /\ rx = "on" /\ ~request
  /\ Len(data[rx_buf]) = UART_BUF_SIZE /\ Unreported = 0
  /\ Released(rx_buf)
  /\ rx_buf' = rx_next_buf /\ rx_next_buf' = NoBuf /\ rx_offset' = 0
  /\ IF rx_next_buf = NoBuf
     THEN rx' = "stopping" /\ UNCHANGED request
     ELSE request' = TRUE /\ UNCHANGED rx
  /\ UNCHANGED <<len, data, writer, bleTx, disable_req, work, boot, ble_init_ok,
                 wire, json>>

(* A line error (UART_RX_STOPPED, which uart_cb ignores) stops the driver too. *)
RxError ==
  /\ rx = "on" /\ rx' = "stopping"
  /\ UNCHANGED <<heap, len, data, fifo, writer, bleTx, disable_req, work, boot,
                 ble_init_ok, rx_buf, rx_next_buf, rx_offset, request, wire, json>>

(* UART_RX_BUF_RELEASED while stopping: first rx_buf, then rx_next_buf. *)
ReleaseCurrent ==
  /\ rx = "stopping" /\ ~request /\ rx_buf # NoBuf /\ Unreported = 0
  /\ Released(rx_buf)
  /\ rx_buf' = NoBuf /\ rx_offset' = 0
  /\ UNCHANGED <<len, data, writer, bleTx, disable_req, work, boot, ble_init_ok,
                 rx, rx_next_buf, request, wire, json>>

ReleaseNext ==
  /\ rx = "stopping" /\ rx_buf = NoBuf /\ rx_next_buf # NoBuf
  /\ Released(rx_next_buf)
  /\ rx_next_buf' = NoBuf
  /\ UNCHANGED <<len, data, writer, bleTx, disable_req, work, boot, ble_init_ok,
                 rx, rx_buf, rx_offset, request, wire, json>>

(* Mutant: no retry is scheduled. *)
RxDisabledNoRetry ==
  /\ rx = "stopping" /\ rx_buf = NoBuf /\ rx_next_buf = NoBuf
  /\ disable_req' = FALSE
  /\ IF heap = {}
     THEN rx' = "off"
          /\ UNCHANGED <<heap, len, data, rx_buf, rx_next_buf, rx_offset, request>>
     ELSE \E b \in heap : RxEnable(b)
  /\ UNCHANGED <<work, fifo, writer, bleTx, boot, ble_init_ok, wire, json>>

(* UART_RX_DISABLED, once the driver is idle: uart_cb enables reception again *)
(* into a new buffer, or schedules uart_work when there is none.              *)
RxDisabled ==
  /\ rx = "stopping" /\ rx_buf = NoBuf /\ rx_next_buf = NoBuf
  /\ disable_req' = FALSE
  /\ IF heap = {}
     THEN /\ work' = TRUE /\ rx' = "off"
          /\ UNCHANGED <<heap, len, data, rx_buf, rx_next_buf, rx_offset, request>>
     ELSE /\ \E b \in heap : RxEnable(b)
          /\ UNCHANGED work
  /\ UNCHANGED <<fifo, writer, bleTx, boot, ble_init_ok, wire, json>>

(* Mutant: the handler does not schedule itself again. *)
UartWorkOnce ==
  /\ work /\ work' = FALSE
  /\ IF heap = {} THEN UNCHANGED <<heap, len, data, driver>>
                  ELSE \E b \in heap : RxEnable(b)
  /\ UNCHANGED <<fifo, writer, bleTx, disable_req, boot, ble_init_ok, wire, json>>

(* uart_work_handler: every 50 ms until it gets a block (without one it only *)
(* schedules itself again, which changes nothing).                           *)
UartWork ==
  /\ work /\ work' = FALSE
  /\ \E b \in heap : RxEnable(b)
  /\ UNCHANGED <<fifo, writer, bleTx, disable_req, boot, ble_init_ok, wire, json>>

-----------------------------------------------------------------------------
(* ble_write_thread: wait for ble_init_ok once, then k_fifo_get ... *)
WriterGet ==
  /\ ble_init_ok /\ writer = NoBuf /\ fifo # <<>>
  /\ writer' = Head(fifo) /\ fifo' = Tail(fifo)
  /\ UNCHANGED <<heap, len, data, bleTx, disable_req, work, boot, ble_init_ok,
                 driver, wire, json>>

(* ... getJsonData(buf->data, buf->len) and k_free(buf). *)
WriterPut ==
  /\ writer # NoBuf
  /\ json' = json \o Content(writer)
  /\ heap' = heap \cup {writer} /\ writer' = NoBuf
  /\ UNCHANGED <<len, data, fifo, bleTx, disable_req, work, boot, ble_init_ok,
                 driver, wire>>

(* bt_receive_cb: one chunk at a time, allocated ... *)
BtChunk ==
  /\ ble_init_ok /\ bleTx = NoBuf
  /\ \E b \in heap : bleTx' = b /\ heap' = heap \ {b}
  /\ UNCHANGED <<len, data, fifo, writer, disable_req, work, boot, ble_init_ok,
                 driver, wire, json>>

(* ... and freed once procRxBle has used it. *)
BtChunkDone ==
  /\ bleTx # NoBuf
  /\ heap' = heap \cup {bleTx} /\ bleTx' = NoBuf
  /\ UNCHANGED <<len, data, fifo, writer, disable_req, work, boot, ble_init_ok,
                 driver, wire, json>>

-----------------------------------------------------------------------------
Interrupt == RxRdy \/ RxBufRequest \/ RxBufferFull \/ ReleaseCurrent
               \/ ReleaseNext \/ RxDisabled

Next ==
  \/ UartInit \/ UartInitFails \/ GiveBleInitOk
  \/ \E eol \in BOOLEAN : StoreByte(eol)
  \/ LoseByte \/ RxError
  \/ Interrupt
  \/ UartWork \/ WriterGet \/ WriterPut \/ BtChunk \/ BtChunkDone

(* Pending interrupts are served, the boot goes on, the work item is run, and *)
(* both threads get to run: main, which outranks the writer, sleeps in every  *)
(* round of its loop.  Nothing obliges the wire or the phone to do anything.  *)
Fairness ==
  /\ WF_vars(UartInit \/ UartInitFails) /\ WF_vars(GiveBleInitOk)
  /\ WF_vars(Interrupt)
  /\ WF_vars(UartWork)
  /\ WF_vars(WriterGet) /\ WF_vars(WriterPut)
  /\ WF_vars(BtChunkDone)

Spec     == Init /\ [][Next]_vars
FairSpec == Spec /\ Fairness

-----------------------------------------------------------------------------
TypeOK ==
  /\ heap \subseteq Buf
  /\ len \in [Buf -> Nat] /\ data \in [Buf -> Seq(Byte)]
  /\ fifo \in Seq(Buf) /\ writer \in Buf \cup {NoBuf} /\ bleTx \in Buf \cup {NoBuf}
  /\ disable_req \in BOOLEAN /\ work \in BOOLEAN /\ ble_init_ok \in BOOLEAN
  /\ boot \in {"start", "up", "failed"} /\ rx \in {"off", "on", "stopping"}
  /\ rx_buf \in Buf \cup {NoBuf} /\ rx_next_buf \in Buf \cup {NoBuf}
  /\ rx_offset \in Nat /\ request \in BOOLEAN
  /\ arrived \in Nat /\ accepted \in Seq(Byte) /\ json \in Seq(Byte)

Queued == Range(fifo)

(* No block of the heap is ever lost: each is free or has an owner (a driver  *)
(* slot, the fifo, the writer or bt_receive_cb).  uart_cb and                 *)
(* uart_work_handler ignore the result of uart_rx_enable, and                 *)
(* RX_BUF_REQUEST that of uart_rx_buf_rsp, so a refusal would leak a block.   *)
NoLeak == Buf \subseteq heap \cup Queued \cup {rx_buf, rx_next_buf, writer, bleTx}

(* No block has two owners: the DMA, the writer and bt_receive_cb never share *)
(* memory, nothing is queued twice or freed while somebody still holds it.    *)
SoleOwner ==
  /\ {rx_buf, rx_next_buf, writer, bleTx} \cap (heap \cup Queued) = {}
  /\ rx_buf # NoBuf => rx_buf \notin {rx_next_buf, writer, bleTx}
  /\ rx_next_buf # NoBuf => rx_next_buf \notin {writer, bleTx}
  /\ writer # NoBuf => writer # bleTx
  /\ heap \cap Queued = {}
  /\ IsInjective(fifo)

(* At every moment a block is free or has exactly one owner, over the five    *)
(* call sites of uart_cb, the writer and bt_receive_cb that pass it on.       *)
OneOwner == NoLeak /\ SoleOwner

(* Once uart_init has succeeded the receiver never dies: either the driver    *)
(* will report an event that continues reception, or the retry is scheduled;  *)
(* and the retry never runs against a driver that is already receiving.       *)
ReceiverAlive ==
  /\ boot = "up" => rx # "off" \/ work
  /\ work => rx = "off"

(* disable_req never outlives the stop it asked for: were it still set with   *)
(* reception on, no end-of-line would ever hand a line over again.            *)
DisableReqNotStuck == disable_req => rx = "stopping"

(* Whatever runs out in whatever order, reception goes on or will, and lines  *)
(* will be handed over (uart_cb, uart_work_handler).                          *)
ReceiverRuns == ReceiverAlive /\ DisableReqNotStuck

(* The bytes given to getJsonData are exactly the accepted bytes, in order,   *)
(* none twice, none skipped, none that the DMA did not write.                 *)
Channel == INSTANCE ByteChannel WITH delivered <- json
InOrderDelivery == Channel!Spec

(* Reception always comes back on, however often the heap runs out.           *)
ReceptionResumes == (boot = "up" /\ rx # "on") ~> (rx = "on")

(* A line whose end was reported reaches getJsonData: the end-of-line for     *)
(* which uart_cb stopped reception is eventually delivered.                   *)
LineEnd(k) == disable_req /\ rx_buf # NoBuf /\ rx_offset > 0
                /\ data[rx_buf][rx_offset].id = k /\ data[rx_buf][rx_offset].eol
LineDelivered ==
  \A k \in 1..MaxBytes : LineEnd(k) ~> (\E i \in 1..Len(json) : json[i].id = k)
=============================================================================
