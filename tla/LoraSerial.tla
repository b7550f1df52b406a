----------------------------- MODULE LoraSerial -----------------------------
(***************************************************************************)
(* The serial port of the LoRa modem (LoRaStar_uttec): the interrupt that  *)
(* puts each byte into the receive ring, sio2host_rx that takes one out,   *)
(* and the console of application.c that obeys "at=u<data>" CR by          *)
(* broadcasting the data.  The ESP32 sends such a line every other second, *)
(* and the modem does not poll while its radio transmits.  Where bytes are *)
(* lost, any character of a line may come next after "at=", and most of    *)
(* those that the ESP32 prints are commands of the console.                *)
(*                                                                         *)
(* Bytes are numbered in the order they arrive since the modem started: a  *)
(* cell of the ring holds the number of its byte.  base bytes of the       *)
(* script came before, and Char gives the character at a place of it.      *)
(* head and tail are plain variables the interrupt shares with the main    *)
(* loop.  The committed build loads tail anew for the comparison, for the  *)
(* count and in the overflow branch (Debug/MiWionLoRa_SAMR34.lss,          *)
(* sio2host_rx); an optimised build may load it once.  Both are modelled.  *)
(***************************************************************************)
EXTENDS Integers, Sequences, SequencesExt

CONSTANTS N,      \* SERIAL_RX_BUF_SIZE_HOST, 128
          MAXDATA,\* bytes of data in a packet, 115
          Lines   \* the data of the lines the host sends, in order

\* the characters of {"no":1,"ca":2,"se":3,"va":4,"crc":10}, its signs as one
Printed == {"n", "o", "c", "a", "s", "e", "v", "r", "sign",
            "0", "1", "2", "3", "4", "5", "6", "7", "8", "9"}

ASSUMPTION LoraSerialAssumption ==
  /\ N \in Nat \ {0} /\ MAXDATA \in Nat
  /\ Lines \in Seq(Seq(Printed))
  \* five numbers and their names: at most 85 bytes
  /\ \A l \in DOMAIN Lines : Len(Lines[l]) < 2 * N

W == 2 * N        \* what a uint8_t counts: 256
\* a line on the wire: the ESP32 prints it with println
Wire(l)   == <<"a", "t", "=", "u">> \o Lines[l] \o <<"CR", "LF">>
Script    == FlattenSeq([l \in DOMAIN Lines |-> Wire(l)])
Char(i)   == IF i = 0 THEN "NUL" ELSE Script[i]

VARIABLES
  reload,   \* the build loads tail at each use (never changes)
  base,     \* History: bytes that had come when the modem last started
  sent,     \* bytes that have arrived since
  buf,      \* serial_rx_buf
  head, tail,
  pc,       \* where sio2host_rx is
  ge, seen, count, \* its comparison, the tail it loaded, serial_rx_count:
            \* locals, TRUE and 0 from one call to the next
  n,        \* rxLenCnt
  mode,     \* "cmd", "line" inside AT=U, "word" inside a command that waits for
            \* characters, "rate" inside AT=6, "reset" while the modem is down
  left,     \* characters the command still waits for
  index,    \* uartRxDataIndex
  tx,       \* TxBuffer, the bytes since MiApp_FlushTx, while AT=U goes on
  misrated, \* the record in the flash holds a rate other than the host's
  effects,  \* History: the commands carried out since last jumped, in order
  raced,    \* History: tail has wrapped between comparison and count, and the
            \* ring has not been found empty since
  last,     \* History: the byte handed over last
  run       \* History: how many bytes up to last were handed over one after the
            \* other, all of them or counted from -1 since the last jump; -2
            \* after a restart

ring    == <<base, sent, buf, tail>>
console == <<n, mode, left, index, tx, misrated, effects>>
call    == <<pc, ge, seen, count>>
handed  == <<last, run>>
serialVars    == <<reload, ring, head, call, console, raced, handed>>

Packet(bytes) == [kind |-> "packet", bytes |-> bytes]
Obeyed(c)     == [kind |-> c, bytes |-> <<>>]

(* The letters of the console's switch that can follow "at=" beside "u":   *)
(* no line holds a "d", "f" or "p".  AT=2 reads one more character, AT=7   *)
(* two, AT=3 and AT=8 four, whatever they are.                             *)
Commands == {"a", "c", "e", "n", "r", "s", "0", "1", "2", "3", "4", "5", "6", "7", "8", "9"}
Waits(c) == CASE c = "2" -> 1 [] c = "7" -> 2 [] c \in {"3", "8"} -> 4 [] OTHER -> 0

SerialInit ==
  /\ reload \in BOOLEAN /\ raced = FALSE
  /\ base = 0 /\ sent = 0 /\ buf = [c \in 0..(N - 1) |-> 0] /\ head = 0 /\ tail = 0
  /\ pc = "call" /\ ge = TRUE /\ seen = 0 /\ count = 0
  /\ n = 0 /\ mode = "cmd" /\ left = 0 /\ index = 0 /\ tx = <<>> /\ effects = <<>>
  /\ misrated = FALSE /\ last = 0 /\ run = 0

-----------------------------------------------------------------------------
(* The interrupt, whose body runs with interrupts off.  Mutant: the tail   *)
(* moves on before the byte is put, not after.                             *)
ReceiveAhead ==
  /\ mode # "reset" /\ base + sent < Len(Script) /\ sent' = sent + 1
  /\ tail' = (tail + 1) % N
  /\ buf' = [buf EXCEPT ![tail'] = sent + 1]
  /\ UNCHANGED <<reload, base, head, call, console, raced, handed>>

Receive ==
  /\ mode # "reset" /\ base + sent < Len(Script) /\ sent' = sent + 1
  /\ buf' = [buf EXCEPT ![tail] = sent + 1]
  /\ tail' = (tail + 1) % N
  /\ UNCHANGED <<reload, base, head, call, console, raced, handed>>

(* sio2host_rx(&c, 1), which the console calls round after round.          *)
Compare ==
  /\ mode # "reset" /\ pc = "call" /\ pc' = "count"
  /\ ge' = (tail >= head) /\ seen' = IF reload THEN 0 ELSE tail
  /\ raced' = (raced /\ tail # head)
  /\ UNCHANGED <<reload, ring, head, count, console, handed>>

Loaded == IF reload THEN tail ELSE seen
Wraps  == raced' = (raced \/ ge # (Loaded >= head)) \* History

(* Mutant: the count is not cut to a byte.                                 *)
CountWide ==
  /\ pc = "count"
  /\ count' = IF ge THEN Loaded - head ELSE Loaded + N - head
  /\ IF count' = 0
       THEN pc' = "call" /\ ge' = TRUE /\ seen' = 0
       ELSE pc' = (IF N <= count' THEN "resync" ELSE "take") /\ UNCHANGED <<ge, seen>>
  /\ Wraps /\ UNCHANGED <<reload, ring, head, console, handed>>

Count ==
  /\ pc = "count"
  /\ count' = IF ge THEN (Loaded - head) % W ELSE (Loaded + N - head) % W
  /\ IF count' = 0
       THEN pc' = "call" /\ ge' = TRUE /\ seen' = 0
       ELSE pc' = (IF N <= count' THEN "resync" ELSE "take") /\ UNCHANGED <<ge, seen>>
  /\ Wraps /\ UNCHANGED <<reload, ring, head, console, handed>>

(* The branch for a ring that has overflowed.                              *)
Resync ==
  /\ pc = "resync" /\ pc' = "take"
  /\ head' = Loaded /\ count' = N
  /\ UNCHANGED <<reload, ring, ge, seen, console, raced, handed>>

-----------------------------------------------------------------------------
Since(i) == IF i = base + last + 1 THEN effects ELSE <<>> \* History

(* The console: one character of "at=<command>".  The packets that AT=4    *)
(* and AT=5 have sent again and again (test_console) are not effects: they *)
(* are sent between two characters of "at=" only, and AT=U flushes them.   *)
Letter(i) ==
  LET c == Char(i) IN
  /\ n' = CASE n = 0 /\ c = "a" -> 1 [] n = 1 /\ c = "t" -> 2
            [] n = 2 /\ c = "=" -> 3 [] OTHER -> 0
  /\ mode' = CASE n = 3 /\ c = "u" -> "line" [] n = 3 /\ c = "e" -> "reset"
               [] n = 3 /\ c = "6" -> "rate" [] n = 3 /\ Waits(c) > 0 -> "word"
               [] OTHER -> "cmd"
  /\ left' = IF mode' = "word" THEN Waits(c) ELSE 0
  /\ misrated' = (misrated /\ ~(n = 3 /\ c = "c"))
  /\ effects' = Since(i) \o IF n = 3 /\ c \in Commands THEN <<Obeyed(c)>> ELSE <<>>
  /\ UNCHANGED <<index, tx>>

(* Mutant: the data is cut one byte too early.                             *)
DataShort(i) ==
  /\ IF Char(i) = "CR"
       THEN /\ effects' = Append(Since(i), Packet(tx)) /\ mode' = "cmd" /\ index' = 0
            /\ tx' = <<>>
       ELSE /\ tx' = IF index + 1 < MAXDATA THEN Append(tx, i) ELSE tx
            /\ index' = (index + 1) % W
            /\ effects' = Since(i) /\ UNCHANGED mode
  /\ UNCHANGED <<n, left, misrated>>

(* Mutant: the line is broadcast but the index is not reset.               *)
DataKeepsIndex(i) ==
  /\ IF Char(i) = "CR"
       THEN /\ effects' = Append(Since(i), Packet(tx)) /\ mode' = "cmd"
            /\ tx' = <<>> /\ UNCHANGED index
       ELSE /\ tx' = IF index < MAXDATA THEN Append(tx, i) ELSE tx
            /\ index' = (index + 1) % W
            /\ effects' = Since(i) /\ UNCHANGED mode
  /\ UNCHANGED <<n, left, misrated>>

Data(i) ==
  /\ IF Char(i) = "CR"
       THEN /\ effects' = Append(Since(i), Packet(tx)) /\ mode' = "cmd" /\ index' = 0
            /\ tx' = <<>>
       ELSE /\ tx' = IF index < MAXDATA THEN Append(tx, i) ELSE tx
            /\ index' = (index + 1) % W
            /\ effects' = Since(i) /\ UNCHANGED mode
  /\ UNCHANGED <<n, left, misrated>>

(* The characters that a command reads with sio2host_getchar.              *)
Word(i) ==
  /\ left' = left - 1
  /\ mode' = IF left = 1 THEN "cmd" ELSE "word"
  /\ effects' = Since(i)
  /\ UNCHANGED <<n, index, tx, misrated>>

(* AT=6 erases the record and stores the rate it is told: main knows three *)
(* beside the host's, and starts with the host's for any other.            *)
NewRate(i) ==
  /\ misrated' = (Char(i) \in {"2", "4", "5"})
  /\ mode' = "cmd" /\ effects' = Since(i)
  /\ UNCHANGED <<n, left, index, tx>>

(* The byte is copied, head moves on, and the console deals with it: it    *)
(* shares nothing with the interrupt, so its handling needs no step.       *)
Place == IF buf[head] = 0 THEN 0 ELSE base + buf[head]

Take ==
  /\ pc = "take" /\ pc' = "call" /\ ge' = TRUE /\ seen' = 0 /\ count' = 0
  /\ head' = IF head = N - 1 THEN 0 ELSE head + 1
  /\ CASE mode = "cmd" -> Letter(Place) [] mode = "line" -> Data(Place)
       [] mode = "word" -> Word(Place) [] mode = "rate" -> NewRate(Place)
  /\ last' = buf[head]
  /\ run' = IF buf[head] = last + 1 THEN run + 1 ELSE -1
  /\ UNCHANGED <<reload, ring, raced>>

(* AT=E: system_reset, and main from its start.  What the host sends until *)
(* the port is open is lost.  With another rate in the record the modem    *)
(* cannot read the host any more: all that comes is lost.                  *)
Restart ==
  /\ mode = "reset" /\ mode' = IF misrated THEN "reset" ELSE "cmd"
  /\ base' \in (base + sent)..Len(Script) /\ sent' = 0
  /\ buf' = [c \in 0..(N - 1) |-> 0] /\ head' = 0 /\ tail' = 0
  /\ pc' = "call" /\ ge' = TRUE /\ seen' = 0 /\ count' = 0 /\ raced' = FALSE
  /\ n' = 0 /\ left' = 0 /\ index' = 0 /\ tx' = <<>> /\ effects' = <<>>
  /\ last' = 0 /\ run' = -2
  /\ UNCHANGED <<reload, misrated>>

Poll == Compare \/ Count \/ Resync \/ Take
SerialNext == Receive \/ Poll \/ Restart

SerialSpec == SerialInit /\ [][SerialNext]_serialVars

-----------------------------------------------------------------------------
SerialTypes ==
  /\ reload \in BOOLEAN /\ raced \in BOOLEAN /\ misrated \in BOOLEAN
  /\ base \in 0..Len(Script)
  /\ sent \in 0..Len(Script) /\ buf \in [0..(N - 1) -> 0..Len(Script)]
  /\ head \in 0..(N - 1) /\ tail \in 0..(N - 1)
  /\ pc \in {"call", "count", "resync", "take"} /\ ge \in BOOLEAN
  /\ seen \in 0..(N - 1) /\ count \in 0..(W - 1)
  /\ n \in 0..3 /\ mode \in {"cmd", "line", "word", "rate", "reset"}
  /\ left \in 0..4 /\ index \in 0..(W - 1)
  /\ tx \in Seq(1..Len(Script)) /\ last \in 0..Len(Script) /\ run \in -2..Len(Script)

Ends(l)      == Len(FlattenSeq([k \in 1..l |-> Wire(k)])) - 1   \* where its CR is
Starts(l)    == Ends(l) - Len(Lines[l]) - 4                      \* where its "a" is
Cut(l)       == IF Len(Lines[l]) < MAXDATA THEN Len(Lines[l]) ELSE MAXDATA
Payload(l)   == [j \in 1..Cut(l) |-> Starts(l) + 3 + j]

(* Bytes are handed to the console in the order they arrived, none twice,  *)
(* and what is lost when the main loop is late is whole turns of the ring  *)
(* (the mask of the interrupt, the wrap of sio2host_rx and its count).     *)
(* Only if the committed build's two loads of tail straddle its wrap is a  *)
(* ring handed over again, until it has been found empty.                  *)
RingOrder ==
  [][mode # "reset" /\ last' # last
       => raced \/ (last' > last /\ (last' - last - 1) % N = 0)]_serialVars

(* As long as the ring has not lapped the console, each line has been      *)
(* broadcast once, whole or cut to the data a packet takes, in order, and  *)
(* nothing else has been done: no data byte was taken for a command.       *)
LinesAired ==
  run = last =>
    \E a \in 0..Len(Lines) :
      /\ \A l \in DOMAIN Lines : l <= a <=> Ends(l) <= last
      /\ effects = [l \in 1..a |-> Packet(Payload(l))]

(* The console finds its way back: whatever was lost or taken for a        *)
(* command before, be it one that reads on, one that clears the record or  *)
(* one that restarts the modem, the second of two lines that reach it      *)
(* without a gap is broadcast as it was sent, and nothing is obeyed beside *)
(* it.  (With which channel or PAN ID it is broadcast may have changed.)   *)
Heals ==
  [][\A l \in 2..Len(Lines) :
       base + last' = Ends(l) /\ last # last' /\ run' + 1 >= Ends(l) - Starts(l - 1)
         => effects' = Append(effects, Packet(Payload(l)))]_serialVars
=============================================================================
