----------------------------- MODULE MiWiFlood ------------------------------
(***************************************************************************)
(* How a broadcast gets from one LoRa modem to the others (MiWi.c as the   *)
(* modem is built: ROLE_TREE_PAN_COORDINATOR, no sleep, no indirect        *)
(* messages, no security): MultiCast numbers and sends it, MiWiPROTasks    *)
(* drops what it has had before, hands the rest to the host and sends it   *)
(* again after a random delay while it has hops left.                      *)
(*                                                                         *)
(* All modems are in one PAN.  What the buffer of a receiver does to a     *)
(* frame is in LoraRadio: here a frame is heard or lost, and one that has  *)
(* not been handled is overwritten by the next.                            *)
(***************************************************************************)
EXTENDS Integers, Sequences, FiniteSets

CONSTANTS Nodes,     \* the modems
          Addrs,     \* what myShortAddress can be
          Nets,      \* the nets to look at: which pairs hear each other, the address
                     \* of each modem (stored, not always distinct), whether frames
                     \* may be lost, who restarts (once) and the number of broadcasts
          RECORDS,   \* PACKET_RECORD_SIZE, 8
          SEQS,      \* numbers in MiWiPROSeqNum, 256
          Broadcasts \* bound

ASSUMPTION MiWiFloodAssumption ==
  /\ Nets \subseteq [links : SUBSET SUBSET Nodes, addr : [Nodes -> Addrs], lossy : BOOLEAN,
                    restarting : SUBSET Nodes, broadcasts : 0..Broadcasts]
  /\ RECORDS \in Nat /\ SEQS \in Nat \ {0} /\ Broadcasts \in Nat

Hops == 2              \* MAX_HOPS = NUM_COORDINATOR + 1
None == [none |-> TRUE]

VARIABLES
  net,     \* the net (never changes)
  seq,     \* MiWiPROSeqNum
  records, \* PacketRecords with a RxCounter above 0
  pending, \* RandomSendInfo while COMM_RANDOM_SEND, or None
  bank,    \* the packet received and not yet handled, or None
  log,     \* History: origin of each broadcast, its start count and number
  starts,  \* History: how often each modem was started anew
  got,     \* History: how often each modem handed each broadcast over (2: or more)
  forgot,  \* History: pairs of a modem and a broadcast it kept no record of
  mistook, \* History: broadcasts a modem dropped that never handed them over
  intact   \* History: no frame has been lost

vars == <<net, seq, records, pending, bank, log, starts, got, forgot, mistook, intact>>

Addr          == net.addr
Neighbours(n) == {m \in Nodes : m # n /\ {m, n} \in net.links}

Id == 1..Broadcasts
Packet == [src : Addrs, seq : 0..(SEQS - 1), hops : 1..Hops, id : Id]
Entry  == [src : Addrs, seq : 0..(SEQS - 1), id : Id]

Init ==
  /\ net \in Nets /\ mistook = {}
  /\ seq = [n \in Nodes |-> 0] /\ records = [n \in Nodes |-> {}]
  /\ pending = [n \in Nodes |-> None] /\ bank = [n \in Nodes |-> None]
  /\ log = <<>> /\ starts = [n \in Nodes |-> 0]
  /\ got = [n \in Nodes |-> [k \in Id |-> 0]] /\ forgot = {} /\ intact = TRUE

-----------------------------------------------------------------------------
(* MiMAC_SendPacket: heard by all neighbours, or by some.  rest is what    *)
(* the banks hold before.                                                  *)
Send(n, p, rest) ==
  \E D \in IF net.lossy THEN SUBSET Neighbours(n) ELSE {Neighbours(n)} :
    /\ bank' = [m \in Nodes |-> IF m \in D THEN p ELSE rest[m]]
    /\ intact' = (intact /\ D = Neighbours(n) /\ \A m \in D : rest[m] \in {None, p})

(* MultiCast.  Mutant: the number is sent again.                           *)
MultiCastSame(n) ==
  /\ Len(log) < net.broadcasts /\ log' = Append(log, [from |-> n, start |-> starts[n], seq |-> seq[n]])
  /\ Send(n, [src |-> Addr[n], seq |-> seq[n], hops |-> Hops, id |-> Len(log')], bank)
  /\ UNCHANGED <<net, seq, records, pending, starts, got, forgot, mistook>>

MultiCast(n) ==
  /\ Len(log) < net.broadcasts /\ log' = Append(log, [from |-> n, start |-> starts[n], seq |-> seq[n]])
  /\ Send(n, [src |-> Addr[n], seq |-> seq[n], hops |-> Hops, id |-> Len(log')], bank)
  /\ seq' = [seq EXCEPT ![n] = (@ + 1) % SEQS]
  /\ UNCHANGED <<net, records, pending, starts, got, forgot, mistook>>

Origin(k) == log[k].from
Clear(n)  == [bank EXCEPT ![n] = None]

FromMyself(n, p) == p.src = Addr[n]
KnownBy(n, p)    == \E r \in records[n] : r.src = p.src /\ r.seq = p.seq

(* A broadcast that is dropped.                                            *)
Drop(n) ==
  /\ bank[n] # None /\ (FromMyself(n, bank[n]) \/ KnownBy(n, bank[n]))
  /\ bank' = Clear(n)
  /\ mistook' = mistook \cup {k \in {bank[n].id} : got[n][k] = 0 /\ Origin(k) # n}
  /\ UNCHANGED <<net, seq, records, pending, log, starts, got, forgot, intact>>

(* It is recorded if there is room.                                        *)
Record(n, p) ==
  IF Cardinality(records[n]) < RECORDS
    THEN /\ records' = [records EXCEPT ![n] = @ \cup {[src |-> p.src, seq |-> p.seq, id |-> p.id]}]
         /\ UNCHANGED forgot
    ELSE forgot' = forgot \cup {<<n, p.id>>} /\ UNCHANGED records

(* One that still waits to be sent again goes out first.  Mutants: it is   *)
(* lost; or the hops are not counted down.                                 *)
RelayLoses(n, p) ==
  IF p.hops = 1 THEN UNCHANGED <<pending, intact>> /\ bank' = Clear(n)
  ELSE /\ pending' = [pending EXCEPT ![n] = [p EXCEPT !.hops = @ - 1]]
       /\ UNCHANGED intact /\ bank' = Clear(n)

RelayForever(n, p) ==
  /\ pending' = [pending EXCEPT ![n] = p]
  /\ IF pending[n] = None THEN UNCHANGED intact /\ bank' = Clear(n)
                          ELSE Send(n, pending[n], Clear(n))

Relay(n, p) ==
  IF p.hops = 1 THEN UNCHANGED <<pending, intact>> /\ bank' = Clear(n)
  ELSE /\ pending' = [pending EXCEPT ![n] = [p EXCEPT !.hops = @ - 1]]
       /\ IF pending[n] = None THEN UNCHANGED intact /\ bank' = Clear(n)
                               ELSE Send(n, pending[n], Clear(n))

\* Mutant: a duplicate is looked for among the packets of this modem.
TakeOwn(n) ==
  /\ bank[n] # None /\ ~KnownBy(n, bank[n])
  /\ Record(n, bank[n]) /\ Relay(n, bank[n])
  /\ got' = [got EXCEPT ![n][bank[n].id] = IF @ < 2 THEN @ + 1 ELSE 2]
  /\ UNCHANGED <<net, seq, log, starts, mistook>>

Take(n) ==
  /\ bank[n] # None /\ ~FromMyself(n, bank[n]) /\ ~KnownBy(n, bank[n])
  /\ Record(n, bank[n]) /\ Relay(n, bank[n])
  /\ got' = [got EXCEPT ![n][bank[n].id] = IF @ < 2 THEN @ + 1 ELSE 2]
  /\ UNCHANGED <<net, seq, log, starts, mistook>>

(* The random delay is over.                                               *)
Fire(n) ==
  /\ pending[n] # None /\ pending' = [pending EXCEPT ![n] = None]
  /\ Send(n, pending[n], bank)
  /\ UNCHANGED <<net, seq, records, log, starts, got, forgot, mistook>>

(* PACKET_RECORD_TIMEOUT: four seconds, which a frame can take in the air. *)
Expire(n) ==
  /\ \E r \in records[n] : /\ records' = [records EXCEPT ![n] = @ \ {r}]
                           /\ forgot' = forgot \cup {<<n, r.id>>}
  /\ UNCHANGED <<net, seq, pending, bank, log, starts, got, mistook, intact>>

(* MiApp_ProtocolInit after a reset.                                       *)
Restart(n) ==
  /\ n \in net.restarting /\ starts[n] = 0 /\ starts' = [starts EXCEPT ![n] = @ + 1]
  /\ seq' = [seq EXCEPT ![n] = 0] /\ records' = [records EXCEPT ![n] = {}]
  /\ pending' = [pending EXCEPT ![n] = None] /\ bank' = Clear(n)
  /\ forgot' = forgot \cup {<<n, r.id>> : r \in records[n]}
  /\ intact' = (intact /\ pending[n] = None /\ bank[n] = None)
  /\ UNCHANGED <<net, log, got, mistook>>

Handle(n) == Drop(n) \/ Take(n)
Next == \E n \in UNION net.links : MultiCast(n) \/ Handle(n) \/ Fire(n) \/ Expire(n) \/ Restart(n)

(* The main loop goes round and its clock runs; nobody need broadcast.     *)
Spec == Init /\ [][Next]_vars /\ \A n \in Nodes : WF_vars(Handle(n)) /\ WF_vars(Fire(n))

-----------------------------------------------------------------------------
TypeOK ==
  /\ net \in Nets /\ mistook \subseteq Id
  /\ seq \in [Nodes -> 0..(SEQS - 1)] /\ records \in [Nodes -> SUBSET Entry]
  /\ \A n \in Nodes : Cardinality(records[n]) <= RECORDS
  /\ pending \in [Nodes -> {None} \cup Packet] /\ bank \in [Nodes -> {None} \cup Packet]
  /\ log \in Seq([from : Nodes, start : Nat, seq : Nat]) /\ Len(log) <= Broadcasts
  /\ starts \in [Nodes -> 0..1] /\ got \in [Nodes -> [Id -> 0..2]]
  /\ forgot \subseteq Nodes \X Id /\ intact \in BOOLEAN

(* A modem hands a broadcast to its host once, however many copies reach   *)
(* it on how many ways, unless its record of it ran out, was lost or found *)
(* no room; and never one of its own that comes back.                      *)
OnceEach ==
  \A n \in Nodes, k \in Id :
    /\ got[n][k] > 1 => <<n, k>> \in forgot
    /\ got[n][k] > 0 => Origin(k) # n

(* A new broadcast is taken for one that was had before only if its modem  *)
(* was restarted in between, has come round with its numbers, or has the   *)
(* address of another.                                                     *)
Since(k, j) == Cardinality({i \in k..(j - 1) : Origin(i) = Origin(j)})
Mistaken ==
  [][\A n \in Nodes : Drop(n) /\ ~FromMyself(n, bank[n]) =>
       LET j == bank[n].id IN
       \E r \in records[n] :
         /\ r.src = bank[n].src /\ r.seq = bank[n].seq
         /\ \/ r.id = j \/ Origin(r.id) # Origin(j)
            \/ log[r.id].start # log[j].start
            \/ Since(r.id, j) >= SEQS \/ Since(j, r.id) >= SEQS]_vars

Near(n) == Neighbours(n) \cup UNION {Neighbours(m) : m \in Neighbours(n)}
Still   == \A n \in Nodes : bank[n] = None /\ pending[n] = None

(* A broadcast gets two hops from where it was made, no farther; and when  *)
(* nothing is under way any more, every modem that near has handed it to   *)
(* its host, also if another waited to be sent again when it came, unless  *)
(* a frame was lost or the broadcast was taken for another.                *)
Reaches ==
  \A k \in DOMAIN log :
    LET near == Near(Origin(k)) \ {Origin(k)}
        had  == {n \in Nodes : got[n][k] > 0}
    IN  had \subseteq near /\ (Still /\ intact /\ k \notin mistook => had = near)

(* Every broadcast dies out, even if the records of it run out meanwhile.  *)
Quiet == []<>Still
=============================================================================
