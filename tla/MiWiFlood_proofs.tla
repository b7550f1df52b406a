-------------------------- MODULE MiWiFlood_proofs --------------------------
(***************************************************************************)
(* For any number of modems, links, addresses and broadcasts, frames lost  *)
(* at any time and any restarts: every variable of MiWiFlood keeps its     *)
(* type, a broadcast is handed to a host a second time only by a modem     *)
(* that kept no record of it, reaches two hops and no farther, and is      *)
(* taken for another only for the reasons Mistaken names.                  *)
(*                                                                         *)
(* The number and the address in a packet or a record, by which MiWiPRO-   *)
(* Tasks knows a copy, are those its broadcast was sent with (True...):    *)
(* two copies of one broadcast are alike, so a record that is still there  *)
(* stops the second.  How far it gets follows from where its copies are    *)
(* and, while none is lost, who has it or will (SpreadInv); which number   *)
(* it has, from how many its modem made since (NumberInv).                 *)
(***************************************************************************)
EXTENDS MiWiFlood, FiniteSetTheorems, TLAPS

TruePackets ==
  {p \in Packet : /\ p.id \in 1..Len(log) /\ p.seq = log[p.id].seq
                  /\ p.src = net.addr[log[p.id].from]}
TrueEntries ==
  {r \in Entry : /\ r.id \in 1..Len(log) /\ r.seq = log[r.id].seq
                 /\ r.src = net.addr[log[r.id].from]}

FloodTypes ==
  /\ net \in Nets /\ seq \in [Nodes -> 0..(SEQS - 1)]
  /\ log \in Seq([from : Nodes, start : Nat, seq : Nat]) /\ Len(log) <= net.broadcasts
  /\ starts \in [Nodes -> 0..1] /\ got \in [Nodes -> [Id -> 0..2]]
  /\ forgot \subseteq Nodes \X Id /\ mistook \subseteq Id /\ intact \in BOOLEAN

Copies ==
  /\ records \in [Nodes -> SUBSET TrueEntries]
  /\ pending \in [Nodes -> {None} \cup TruePackets]
  /\ bank \in [Nodes -> {None} \cup TruePackets]

Room == \A n \in Nodes : IsFiniteSet(records[n]) /\ Cardinality(records[n]) <= RECORDS

\* What was handed over came from another modem and is on record, or not any more.
Recorded ==
  \A n \in Nodes, k \in Id :
    /\ got[n][k] > 0 => /\ k \in 1..Len(log) /\ log[k].from # n
                        /\ <<n, k>> \in forgot \/ \E r \in records[n] : r.id = k
    /\ got[n][k] > 1 => <<n, k>> \in forgot

IInv == FloodTypes /\ Copies /\ Room /\ Recorded

-----------------------------------------------------------------------------
(* The nets are well formed, and so are the bounds.                        *)
LEMMA NetTypes ==
  ASSUME net \in Nets
  PROVE  /\ net.addr \in [Nodes -> Addrs] /\ net.broadcasts \in 0..Broadcasts
         /\ UNION net.links \subseteq Nodes /\ RECORDS \in Nat /\ SEQS \in Nat \ {0}
         /\ Broadcasts \in Nat
BY MiWiFloodAssumption, SMT

(* A packet sent reaches banks that hold packets (MiMAC_SendPacket).       *)
LEMMA BankAfter ==
  ASSUME NEW S, NEW rest \in [Nodes -> S], NEW p \in S, NEW D
  PROVE  [m \in Nodes |-> IF m \in D THEN p ELSE rest[m]] \in [Nodes -> S]
OBVIOUS

(* Giving up the packet in a bank leaves the others.                       *)
LEMMA ClearBank ==
  ASSUME NEW n \in Nodes, bank \in [Nodes -> {None} \cup TruePackets]
  PROVE  Clear(n) \in [Nodes -> {None} \cup TruePackets]
BY SMT DEF Clear

(* The net before the first broadcast satisfies the invariant.             *)
LEMMA InitInv == Init => IInv
<1> SUFFICES ASSUME Init PROVE IInv
  OBVIOUS
<1>1. FloodTypes
  BY MiWiFloodAssumption, NetTypes, SMT DEF Init, FloodTypes
<1>2. Copies
  BY SMT DEF Init, Copies
<1>3. Room
  BY FS_EmptySet, MiWiFloodAssumption, SMT DEF Init, Room
<1>4. Recorded
  BY SMT DEF Init, Recorded
<1> QED
  BY <1>1, <1>2, <1>3, <1>4 DEF IInv

-----------------------------------------------------------------------------
(* A new broadcast is numbered and logged; those before keep their places. *)
LEMMA MultiCastStep == ASSUME IInv, NEW n \in Nodes, MultiCast(n) PROVE IInv'
<1> DEFINE k == Len(log) + 1
           p == [src |-> Addr[n], seq |-> seq[n], hops |-> Hops, id |-> k]
           entry == [from |-> n, start |-> starts[n], seq |-> seq[n]]
<1>1. /\ Len(log) < net.broadcasts /\ log' = Append(log, entry)
      /\ seq' = [seq EXCEPT ![n] = (@ + 1) % SEQS]
      /\ UNCHANGED <<net, records, pending, starts, got, forgot, mistook>>
  BY DEF MultiCast
<1>2. /\ log \in Seq([from : Nodes, start : Nat, seq : Nat])
      /\ entry \in [from : Nodes, start : Nat, seq : Nat]
      /\ net.addr \in [Nodes -> Addrs] /\ net.broadcasts \in 0..Broadcasts /\ SEQS \in Nat \ {0}
      /\ Broadcasts \in Nat /\ seq[n] \in 0..(SEQS - 1) /\ Len(log) \in Nat
  BY NetTypes, SMTT(20) DEF IInv, FloodTypes
<1>3. /\ log' \in Seq([from : Nodes, start : Nat, seq : Nat]) /\ Len(log') = k /\ log'[k] = entry
      /\ \A j \in 1..Len(log) : log'[j] = log[j]
  BY <1>1, <1>2, SMT
<1>4. p \in TruePackets'
  <2>1. p \in Packet /\ k \in Id
    BY <1>1, <1>2, SMT DEF Packet, Hops, Id, Addr
  <2> QED
    BY <2>1, <1>1, <1>2, <1>3, SMT DEF TruePackets, Packet, Addr
<1>5. TruePackets \subseteq TruePackets' /\ TrueEntries \subseteq TrueEntries'
  <2>1. ASSUME NEW x \in TruePackets PROVE x \in TruePackets'
    <3>1. /\ x \in Packet /\ x.id \in 1..Len(log) /\ x.seq = log[x.id].seq
          /\ x.src = net.addr[log[x.id].from]
      BY <2>1 DEF TruePackets
    <3>2. x.id \in 1..Len(log') /\ log'[x.id] = log[x.id] /\ net' = net
      BY <1>1, <1>2, <1>3, <3>1, SMT
    <3> QED
      BY <3>1, <3>2 DEF TruePackets, Packet
  <2>2. ASSUME NEW x \in TrueEntries PROVE x \in TrueEntries'
    <3>1. /\ x \in Entry /\ x.id \in 1..Len(log) /\ x.seq = log[x.id].seq
          /\ x.src = net.addr[log[x.id].from]
      BY <2>2 DEF TrueEntries
    <3>2. x.id \in 1..Len(log') /\ log'[x.id] = log[x.id] /\ net' = net
      BY <1>1, <1>2, <1>3, <3>1, SMT
    <3> QED
      BY <3>1, <3>2 DEF TrueEntries, Entry
  <2> QED
    BY <2>1, <2>2
<1>6. PICK D : /\ bank' = [m \in Nodes |-> IF m \in D THEN p ELSE bank[m]]
               /\ intact' = (intact /\ D = Neighbours(n) /\ \A m \in D : bank[m] \in {None, p})
  <2>1. Len(log') = k
    BY <1>3
  <2> QED
    BY <2>1 DEF MultiCast, Send
<1>7. bank' \in [Nodes -> {None} \cup TruePackets']
  <2>1. bank \in [Nodes -> {None} \cup TruePackets'] /\ p \in {None} \cup TruePackets'
    BY <1>4, <1>5, SMT DEF IInv, Copies
  <2> QED
    BY <2>1, <1>6, SMT
<1>8. FloodTypes'
  <2>1. seq' \in [Nodes -> 0..(SEQS - 1)]
    BY <1>1, <1>2, SMT DEF IInv, FloodTypes
  <2>2. intact' \in BOOLEAN
    BY <1>6
  <2> QED
    BY <1>1, <1>2, <1>3, <2>1, <2>2, SMTT(20) DEF IInv, FloodTypes
<1>9. Copies'
  BY <1>1, <1>5, <1>7, SMT DEF IInv, Copies
<1>10. Room' /\ Recorded'
  <2>1. Room'
    BY <1>1, SMT DEF IInv, Room
  <2>2. ASSUME NEW m \in Nodes, NEW j \in Id
        PROVE  /\ got[m][j] > 0 => /\ j \in 1..Len(log') /\ log'[j].from # m
                                   /\ <<m, j>> \in forgot \/ \E r \in records[m] : r.id = j
               /\ got[m][j] > 1 => <<m, j>> \in forgot
    <3>1. /\ got[m][j] > 0 => /\ j \in 1..Len(log) /\ log[j].from # m
                              /\ <<m, j>> \in forgot \/ \E r \in records[m] : r.id = j
          /\ got[m][j] > 1 => <<m, j>> \in forgot
      BY <2>2 DEF IInv, Recorded
    <3>2. j \in 1..Len(log) => j \in 1..Len(log') /\ log'[j] = log[j]
      BY <1>2, <1>3, SMT
    <3> QED
      BY <3>1, <3>2
  <2>3. Recorded'
    <3>1. got' = got /\ records' = records /\ forgot' = forgot
      BY <1>1
    <3> QED
      BY <2>2, <3>1 DEF Recorded, Id
  <2> QED
    BY <2>1, <2>3
<1> QED
  BY <1>8, <1>9, <1>10 DEF IInv

(* What is true of a packet stays true while nothing is broadcast.         *)
LEMMA TrueStays ==
  ASSUME UNCHANGED <<net, log>>
  PROVE  TruePackets' = TruePackets /\ TrueEntries' = TrueEntries
BY DEF TruePackets, TrueEntries, Packet, Entry

(* Sending a packet that is there already leaves the banks well formed.    *)
LEMMA SendKeeps ==
  ASSUME NEW n \in Nodes, NEW p \in TruePackets,
         NEW rest \in [Nodes -> {None} \cup TruePackets], Send(n, p, rest)
  PROVE  bank' \in [Nodes -> {None} \cup TruePackets] /\ intact' \in BOOLEAN
<1>1. PICK D : /\ bank' = [m \in Nodes |-> IF m \in D THEN p ELSE rest[m]]
               /\ intact' = (intact /\ D = Neighbours(n) /\ \A m \in D : rest[m] \in {None, p})
  BY DEF Send
<1>2. intact' \in BOOLEAN
  BY <1>1
<1>3. bank' \in [Nodes -> {None} \cup TruePackets]
  BY <1>1, SMT
<1> QED
  BY <1>2, <1>3

(* A copy that was had before, or an own broadcast that came back.         *)
LEMMA DropStep == ASSUME IInv, NEW n \in Nodes, Drop(n) PROVE IInv'
<1>1. /\ bank[n] # None /\ bank' = Clear(n)
      /\ UNCHANGED <<net, seq, records, pending, log, starts, got, forgot, intact>>
      /\ mistook' = mistook \cup {k \in {bank[n].id} : got[n][k] = 0 /\ Origin(k) # n}
  BY DEF Drop
<1>2. bank[n] \in TruePackets
  BY <1>1, SMT DEF IInv, Copies
<1>3. bank[n].id \in Id
  BY <1>2 DEF TruePackets, Packet
<1>4. TruePackets' = TruePackets /\ TrueEntries' = TrueEntries
  BY <1>1, TrueStays
<1>5. bank' \in [Nodes -> {None} \cup TruePackets]
  <2>1. bank \in [Nodes -> {None} \cup TruePackets]
    BY DEF IInv, Copies
  <2> QED
    BY <2>1, <1>1, ClearBank
<1>6. mistook' \subseteq Id
  BY <1>1, <1>3 DEF IInv, FloodTypes
<1>7. FloodTypes'
  BY <1>1, <1>6 DEF IInv, FloodTypes, Id
<1>8. Copies'
  BY <1>1, <1>4, <1>5 DEF IInv, Copies
<1>9. Room' /\ Recorded'
  BY <1>1 DEF IInv, Room, Recorded, Id
<1> QED
  BY <1>7, <1>8, <1>9 DEF IInv

(* A broadcast that is new to the modem: it is recorded while there is     *)
(* room, or counted as forgotten at once.                                  *)
LEMMA TakeStep == ASSUME IInv, NEW n \in Nodes, Take(n) PROVE IInv'
<1> DEFINE p == bank[n]
           e == [src |-> p.src, seq |-> p.seq, id |-> p.id]
<1>1. /\ p # None /\ ~FromMyself(n, p) /\ ~KnownBy(n, p) /\ Record(n, p) /\ Relay(n, p)
      /\ got' = [got EXCEPT ![n][p.id] = IF @ < 2 THEN @ + 1 ELSE 2]
      /\ UNCHANGED <<net, seq, log, starts, mistook>>
  BY DEF Take
<1>2. p \in TruePackets
  BY <1>1, SMT DEF IInv, Copies
<1>3. /\ p \in Packet /\ p.id \in 1..Len(log) /\ p.seq = log[p.id].seq
      /\ p.src = net.addr[log[p.id].from]
  BY <1>2 DEF TruePackets
<1>4. p.id \in Id /\ p.hops \in 1..2 /\ p.src \in Addrs /\ p.seq \in 0..(SEQS - 1)
  BY <1>3 DEF Packet, Hops
<1>5. TruePackets' = TruePackets /\ TrueEntries' = TrueEntries
  BY <1>1, TrueStays
<1>6. e \in TrueEntries
  <2>1. e \in Entry
    BY <1>4 DEF Entry
  <2>2. e.id = p.id /\ e.seq = p.seq /\ e.src = p.src
    OBVIOUS
  <2> QED
    BY <1>3, <2>1, <2>2 DEF TrueEntries
<1>7. log[p.id].from # n
  BY <1>1, <1>3 DEF FromMyself, Addr
<1>8. \/ /\ records' = [records EXCEPT ![n] = @ \cup {e}] /\ forgot' = forgot
         /\ Cardinality(records[n]) < RECORDS
      \/ /\ records' = records /\ forgot' = forgot \cup {<<n, p.id>>}
  BY <1>1 DEF Record
<1>9. /\ pending' \in [Nodes -> {None} \cup TruePackets]
      /\ bank' \in [Nodes -> {None} \cup TruePackets] /\ intact' \in BOOLEAN
  <2>1. Clear(n) \in [Nodes -> {None} \cup TruePackets]
    <3>1. bank \in [Nodes -> {None} \cup TruePackets]
      BY DEF IInv, Copies
    <3> QED
      BY <3>1, ClearBank
  <2>2. pending \in [Nodes -> {None} \cup TruePackets] /\ intact \in BOOLEAN
    BY DEF IInv, Copies, FloodTypes
  <2>3. CASE p.hops = 1
    BY <2>1, <2>2, <2>3, <1>1 DEF Relay
  <2>4. CASE p.hops # 1
    <3> DEFINE q == [p EXCEPT !.hops = @ - 1]
    <3>1. q \in TruePackets
      <4>1. p.hops - 1 \in 1..2
        BY <1>4, <2>4, SMT
      <4>2. q \in Packet /\ q.id = p.id /\ q.seq = p.seq /\ q.src = p.src
        BY <1>3, <4>1, SMT DEF Packet, Hops
      <4> QED
        BY <4>2, <1>3 DEF TruePackets
    <3>2. pending' = [pending EXCEPT ![n] = q]
      BY <1>1, <2>4 DEF Relay
    <3>3. pending' \in [Nodes -> {None} \cup TruePackets]
      BY <2>2, <3>1, <3>2
    <3>4. CASE pending[n] = None
      BY <1>1, <2>1, <2>2, <2>4, <3>3, <3>4 DEF Relay
    <3>5. CASE pending[n] # None
      <4>1. pending[n] \in TruePackets
        BY <2>2, <3>5
      <4>2. Send(n, pending[n], Clear(n))
        BY <1>1, <2>4, <3>5 DEF Relay
      <4> QED
        BY <4>1, <4>2, <2>1, <3>3, SendKeeps
    <3> QED
      BY <3>4, <3>5
  <2> QED
    BY <2>3, <2>4
<1>10. FloodTypes'
  <2>1. got' \in [Nodes -> [Id -> 0..2]]
    BY <1>1, <1>4, SMT DEF IInv, FloodTypes
  <2>2. forgot' \subseteq Nodes \X Id
    BY <1>8, <1>4 DEF IInv, FloodTypes
  <2> QED
    BY <1>1, <1>9, <2>1, <2>2 DEF IInv, FloodTypes, Id
<1>11. Copies'
  <2>1. records' \in [Nodes -> SUBSET TrueEntries]
    BY <1>6, <1>8, SMT DEF IInv, Copies
  <2> QED
    BY <1>5, <1>9, <2>1 DEF Copies
<1>12. Room'
  <2>1. ASSUME NEW m \in Nodes
        PROVE  IsFiniteSet(records'[m]) /\ Cardinality(records'[m]) <= RECORDS
    <3>1. IsFiniteSet(records[m]) /\ Cardinality(records[m]) <= RECORDS
      BY DEF IInv, Room
    <3>2. CASE records'[m] = records[m]
      BY <3>1, <3>2
    <3>3. CASE /\ records'[m] = records[m] \cup {e} /\ Cardinality(records[m]) < RECORDS
      <4>1. /\ IsFiniteSet(records[m] \cup {e})
            /\ Cardinality(records[m] \cup {e}) = IF e \in records[m] THEN Cardinality(records[m])
                                                  ELSE Cardinality(records[m]) + 1
        BY <3>1, FS_AddElement
      <4>2. Cardinality(records[m]) \in Nat /\ RECORDS \in Nat
        BY <3>1, FS_CardinalityType, MiWiFloodAssumption
      <4> QED
        BY <3>3, <4>1, <4>2, SMT
    <3>4. records \in [Nodes -> SUBSET TrueEntries]
      BY DEF IInv, Copies
    <3>5. \/ records'[m] = records[m]
          \/ records'[m] = records[m] \cup {e} /\ Cardinality(records[m]) < RECORDS
      BY <1>8, <3>4, SMT
    <3> QED
      BY <3>2, <3>3, <3>5
  <2> QED
    BY <2>1 DEF Room
<1>13. Recorded'
  <2>1. ASSUME NEW m \in Nodes, NEW j \in Id
        PROVE  /\ got'[m][j] > 0 => /\ j \in 1..Len(log) /\ log[j].from # m
                                    /\ <<m, j>> \in forgot' \/ \E r \in records'[m] : r.id = j
               /\ got'[m][j] > 1 => <<m, j>> \in forgot'
    <3>1. /\ got[m][j] > 0 => /\ j \in 1..Len(log) /\ log[j].from # m
                              /\ <<m, j>> \in forgot \/ \E r \in records[m] : r.id = j
          /\ got[m][j] > 1 => <<m, j>> \in forgot
      BY DEF IInv, Recorded
    <3>2. records \in [Nodes -> SUBSET TrueEntries] /\ got \in [Nodes -> [Id -> 0..2]]
      BY DEF IInv, Copies, FloodTypes
    <3>3. forgot \subseteq forgot' /\ records[m] \subseteq records'[m]
      BY <1>8, <3>2, SMT
    <3>4. CASE m = n /\ j = p.id
      <4>1. got'[m][j] > 1 => got[m][j] > 0
        BY <1>1, <1>4, <3>2, <3>4, SMT
      <4>2. ASSUME got[m][j] > 0, <<m, j>> \notin forgot PROVE FALSE
        <5>1. PICK r \in records[m] : r.id = j
          BY <3>1, <4>2
        <5>2. r \in TrueEntries
          BY <5>1, <3>2
        <5>3. r.seq = log[p.id].seq /\ r.src = net.addr[log[p.id].from]
          BY <5>1, <5>2, <3>4 DEF TrueEntries
        <5> QED
          BY <5>1, <5>3, <1>1, <1>3, <3>4 DEF KnownBy
      <4>3. <<m, j>> \in forgot' \/ \E r \in records'[m] : r.id = j
        <5>1. e.id = j
          BY <3>4
        <5>2. e \in records'[m] \/ <<m, j>> \in forgot'
          BY <1>8, <3>2, <3>4, SMT
        <5> QED
          BY <5>1, <5>2
      <4> QED
        BY <4>1, <4>2, <4>3, <1>3, <1>7, <3>3, <3>4
    <3>5. CASE ~(m = n /\ j = p.id)
      <4>1. got'[m][j] = got[m][j]
        BY <1>1, <1>4, <3>2, <3>5, SMT
      <4> QED
        BY <4>1, <3>1, <3>3
    <3> QED
      BY <3>4, <3>5
  <2>2. log' = log
    BY <1>1
  <2> QED
    BY <2>1, <2>2 DEF Recorded, Id
<1> QED
  BY <1>10, <1>11, <1>12, <1>13 DEF IInv

(* What waited is sent again.                                              *)
LEMMA FireStep == ASSUME IInv, NEW n \in Nodes, Fire(n) PROVE IInv'
<1>1. /\ pending[n] # None /\ pending' = [pending EXCEPT ![n] = None]
      /\ Send(n, pending[n], bank)
      /\ UNCHANGED <<net, seq, records, log, starts, got, forgot, mistook>>
  BY DEF Fire
<1>2. /\ pending \in [Nodes -> {None} \cup TruePackets]
      /\ bank \in [Nodes -> {None} \cup TruePackets]
  BY DEF IInv, Copies
<1>3. pending[n] \in TruePackets
  BY <1>1, <1>2
<1>4. bank' \in [Nodes -> {None} \cup TruePackets] /\ intact' \in BOOLEAN
  BY <1>1, <1>2, <1>3, SendKeeps
<1>5. pending' \in [Nodes -> {None} \cup TruePackets]
  BY <1>1, <1>2
<1>6. TruePackets' = TruePackets /\ TrueEntries' = TrueEntries
  BY <1>1, TrueStays
<1>7. FloodTypes'
  BY <1>1, <1>4 DEF IInv, FloodTypes, Id
<1>8. Copies'
  BY <1>1, <1>4, <1>5, <1>6 DEF IInv, Copies
<1>9. Room' /\ Recorded'
  BY <1>1 DEF IInv, Room, Recorded, Id
<1> QED
  BY <1>7, <1>8, <1>9 DEF IInv

(* A record runs out, and its broadcast counts as forgotten.               *)
LEMMA ExpireStep == ASSUME IInv, NEW n \in Nodes, Expire(n) PROVE IInv'
<1>1. PICK e \in records[n] : /\ records' = [records EXCEPT ![n] = @ \ {e}]
                              /\ forgot' = forgot \cup {<<n, e.id>>}
  BY DEF Expire
<1>2. UNCHANGED <<net, seq, pending, bank, log, starts, got, mistook, intact>>
  BY DEF Expire
<1>3. records \in [Nodes -> SUBSET TrueEntries]
  BY DEF IInv, Copies
<1>4. e.id \in Id
  <2>1. e \in TrueEntries
    BY <1>3
  <2> QED
    BY <2>1 DEF TrueEntries, Entry
<1>5. TruePackets' = TruePackets /\ TrueEntries' = TrueEntries
  BY <1>2, TrueStays
<1>6. FloodTypes'
  <2>1. forgot' \subseteq Nodes \X Id
    BY <1>1, <1>4 DEF IInv, FloodTypes
  <2> QED
    BY <1>2, <2>1 DEF IInv, FloodTypes, Id
<1>7. Copies'
  <2>1. records' \in [Nodes -> SUBSET TrueEntries]
    BY <1>1, <1>3, SMT
  <2> QED
    BY <1>2, <1>5, <2>1 DEF IInv, Copies
<1>8. Room'
  <2>1. ASSUME NEW m \in Nodes
        PROVE  IsFiniteSet(records'[m]) /\ Cardinality(records'[m]) <= RECORDS
    <3>1. IsFiniteSet(records[m]) /\ Cardinality(records[m]) <= RECORDS
      BY DEF IInv, Room
    <3>2. records'[m] = records[m] \/ records'[m] = records[m] \ {e}
      BY <1>1, <1>3, SMT
    <3>3. /\ IsFiniteSet(records[m] \ {e})
          /\ Cardinality(records[m] \ {e}) <= Cardinality(records[m])
      BY <3>1, FS_Subset
    <3>4. /\ Cardinality(records[m]) \in Nat /\ RECORDS \in Nat
          /\ Cardinality(records[m] \ {e}) \in Nat
      BY <3>1, <3>3, FS_CardinalityType, MiWiFloodAssumption
    <3>5. CASE records'[m] = records[m]
      BY <3>1, <3>5
    <3>6. CASE records'[m] = records[m] \ {e}
      <4>1. Cardinality(records[m] \ {e}) <= RECORDS
        BY <3>1, <3>3, <3>4, SMT
      <4> QED
        BY <3>3, <3>6, <4>1
    <3> QED
      BY <3>2, <3>5, <3>6
  <2> QED
    BY <2>1 DEF Room
<1>9. Recorded'
  <2>1. ASSUME NEW m \in Nodes, NEW j \in Id
        PROVE  /\ got[m][j] > 0 => /\ j \in 1..Len(log) /\ log[j].from # m
                                   /\ <<m, j>> \in forgot' \/ \E r \in records'[m] : r.id = j
               /\ got[m][j] > 1 => <<m, j>> \in forgot'
    <3>1. /\ got[m][j] > 0 => /\ j \in 1..Len(log) /\ log[j].from # m
                              /\ <<m, j>> \in forgot \/ \E r \in records[m] : r.id = j
          /\ got[m][j] > 1 => <<m, j>> \in forgot
      BY DEF IInv, Recorded
    <3>2. ASSUME NEW r \in records[m] PROVE r \in records'[m] \/ <<m, r.id>> \in forgot'
      BY <1>1, <1>3, SMT
    <3>3. forgot \subseteq forgot'
      BY <1>1
    <3> QED
      BY <3>1, <3>2, <3>3
  <2>2. got' = got /\ log' = log
    BY <1>2
  <2> QED
    BY <2>1, <2>2 DEF Recorded, Id
<1> QED
  BY <1>6, <1>7, <1>8, <1>9 DEF IInv

(* A restart forgets every record, and says so.                            *)
LEMMA RestartStep == ASSUME IInv, NEW n \in Nodes, Restart(n) PROVE IInv'
<1>1. /\ n \in net.restarting /\ starts[n] = 0 /\ starts' = [starts EXCEPT ![n] = @ + 1]
      /\ seq' = [seq EXCEPT ![n] = 0] /\ records' = [records EXCEPT ![n] = {}]
      /\ pending' = [pending EXCEPT ![n] = None] /\ bank' = Clear(n)
      /\ forgot' = forgot \cup {<<n, r.id>> : r \in records[n]}
      /\ intact' = (intact /\ pending[n] = None /\ bank[n] = None)
      /\ UNCHANGED <<net, log, got, mistook>>
  BY DEF Restart
<1>2. /\ records \in [Nodes -> SUBSET TrueEntries]
      /\ pending \in [Nodes -> {None} \cup TruePackets]
      /\ bank \in [Nodes -> {None} \cup TruePackets]
  BY DEF IInv, Copies
<1>3. \A r \in records[n] : r.id \in Id
  BY <1>2 DEF TrueEntries, Entry
<1>4. TruePackets' = TruePackets /\ TrueEntries' = TrueEntries
  BY <1>1, TrueStays
<1>5. bank' \in [Nodes -> {None} \cup TruePackets]
  BY <1>1, <1>2, ClearBank
<1>6. FloodTypes'
  <2>1. forgot' \subseteq Nodes \X Id
    BY <1>1, <1>3 DEF IInv, FloodTypes
  <2>2. seq' \in [Nodes -> 0..(SEQS - 1)] /\ starts' \in [Nodes -> 0..1]
    <3>1. SEQS \in Nat \ {0}
      BY MiWiFloodAssumption
    <3> QED
      BY <1>1, <3>1, SMT DEF IInv, FloodTypes
  <2>3. intact' \in BOOLEAN
    BY <1>1
  <2> QED
    BY <1>1, <2>1, <2>2, <2>3 DEF IInv, FloodTypes, Id
<1>7. Copies'
  BY <1>1, <1>2, <1>4, <1>5 DEF Copies
<1>8. Room'
  <2>1. ASSUME NEW m \in Nodes
        PROVE  IsFiniteSet(records'[m]) /\ Cardinality(records'[m]) <= RECORDS
    <3>1. IsFiniteSet(records[m]) /\ Cardinality(records[m]) <= RECORDS
      BY DEF IInv, Room
    <3>2. records'[m] = records[m] \/ records'[m] = {}
      BY <1>1, <1>2, SMT
    <3>3. RECORDS \in Nat /\ Cardinality({}) = 0 /\ IsFiniteSet({})
      BY FS_EmptySet, MiWiFloodAssumption
    <3> QED
      BY <3>1, <3>2, <3>3, SMT
  <2> QED
    BY <2>1 DEF Room
<1>9. Recorded'
  <2>1. ASSUME NEW m \in Nodes, NEW j \in Id
        PROVE  /\ got[m][j] > 0 => /\ j \in 1..Len(log) /\ log[j].from # m
                                   /\ <<m, j>> \in forgot' \/ \E r \in records'[m] : r.id = j
               /\ got[m][j] > 1 => <<m, j>> \in forgot'
    <3>1. /\ got[m][j] > 0 => /\ j \in 1..Len(log) /\ log[j].from # m
                              /\ <<m, j>> \in forgot \/ \E r \in records[m] : r.id = j
          /\ got[m][j] > 1 => <<m, j>> \in forgot
      BY DEF IInv, Recorded
    <3>2. ASSUME NEW r \in records[m] PROVE r \in records'[m] \/ <<m, r.id>> \in forgot'
      <4>1. CASE m = n
        BY <1>1, <4>1
      <4>2. CASE m # n
        BY <1>1, <1>2, <4>2
      <4> QED
        BY <4>1, <4>2
    <3>3. forgot \subseteq forgot'
      BY <1>1
    <3> QED
      BY <3>1, <3>2, <3>3
  <2>2. got' = got /\ log' = log
    BY <1>1
  <2> QED
    BY <2>1, <2>2 DEF Recorded, Id
<1> QED
  BY <1>6, <1>7, <1>8, <1>9 DEF IInv

-----------------------------------------------------------------------------
(* Every step of the net keeps the invariant.                              *)
LEMMA StepInv == IInv /\ [Next]_vars => IInv'
<1> SUFFICES ASSUME IInv, [Next]_vars PROVE IInv'
  OBVIOUS
<1>1. CASE UNCHANGED vars
  BY <1>1 DEF vars, IInv, FloodTypes, Copies, Room, Recorded, TruePackets, TrueEntries, Packet,
              Entry, Id
<1>2. ASSUME NEW n \in UNION net.links,
             MultiCast(n) \/ Handle(n) \/ Fire(n) \/ Expire(n) \/ Restart(n)
      PROVE  IInv'
  <2>1. n \in Nodes
    BY NetTypes DEF IInv, FloodTypes
  <2> QED
    BY <1>2, <2>1, MultiCastStep, DropStep, TakeStep, FireStep, ExpireStep, RestartStep DEF Handle
<1> QED
  BY <1>1, <1>2 DEF Next

(* The invariant holds in every state of the net.                          *)
THEOREM Invariant == Spec => []IInv
<1> QED
  BY InitInv, StepInv, PTL DEF Spec

(* The invariant gives every variable its type.                            *)
LEMMA InvTypes == IInv => TypeOK
<1> SUFFICES ASSUME IInv PROVE TypeOK
  OBVIOUS
<1>1. Len(log) <= Broadcasts
  BY NetTypes, SMT DEF IInv, FloodTypes
<1>2. TruePackets \subseteq Packet /\ TrueEntries \subseteq Entry
  BY DEF TruePackets, TrueEntries
<1>3. records \in [Nodes -> SUBSET Entry]
  BY <1>2, SMT DEF IInv, Copies
<1>4. pending \in [Nodes -> {None} \cup Packet] /\ bank \in [Nodes -> {None} \cup Packet]
  BY <1>2, SMT DEF IInv, Copies
<1> QED
  BY <1>1, <1>3, <1>4 DEF IInv, FloodTypes, Room, TypeOK

(* Every variable keeps its type, and no modem records more broadcasts     *)
(* than PacketRecords holds (MiWiPROTasks, case for a received packet).    *)
THEOREM FloodTypesCorrect == Spec => []TypeOK
<1> QED
  BY Invariant, InvTypes, PTL

(* A modem hands a broadcast to its host a second time only if its record  *)
(* of it ran out, was lost or found no room, and never its own             *)
(* (MiWiPROTasks: the search of PacketRecords).                            *)
THEOREM HandedOverOnce == Spec => []OnceEach
<1>1. IInv => OnceEach
  BY DEF IInv, Recorded, OnceEach, Origin
<1> QED
  BY Invariant, <1>1, PTL

-----------------------------------------------------------------------------
(* How far a broadcast gets.                                               *)

Is(x, k) == x # None /\ x.id = k

\* Two hops from where it was made at most, and one where it is sent again.
Within(k) ==
  \A n \in Nodes :
    /\ Is(bank[n], k) => /\ n \in Near(Origin(k))
                         /\ bank[n].hops = 2 => n \in Neighbours(Origin(k))
    /\ Is(pending[n], k) => pending[n].hops = 1 /\ n \in Neighbours(Origin(k))
    /\ got[n][k] > 0 => n \in Near(Origin(k))

\* While nothing is lost: every modem one hop away has it or will take it, ...
Heard(k) ==
  \A m \in Neighbours(Origin(k)) : got[m][k] > 0 \/ (Is(bank[m], k) /\ bank[m].hops = 2)

\* ... and every modem that one of them reaches has it, will take it or will hear it.
Passed(k) ==
  \A m \in Neighbours(Origin(k)), q \in Nodes :
    q \in Neighbours(m) /\ q # Origin(k) /\ got[m][k] > 0
      => Is(pending[m], k) \/ got[q][k] > 0 \/ Is(bank[q], k)

Spread(k)  == Within(k) /\ (intact /\ k \notin mistook => Heard(k) /\ Passed(k))
SpreadInv  == \A k \in 1..Len(log) : Spread(k)

\* What a step does to the copies of a broadcast k that was made before.
Moves(k) ==
  /\ \A m \in Nodes :
       /\ Is(bank'[m], k) => \/ bank'[m] = bank[m]
                             \/ \E n \in Nodes : /\ m \in Neighbours(n) /\ Is(pending[n], k)
                                                 /\ bank'[m] = pending[n]
       /\ Is(pending'[m], k) => \/ pending'[m] = pending[m]
                                \/ /\ Is(bank[m], k) /\ bank[m].hops = 2
                                   /\ pending'[m].hops = 1
       /\ got'[m][k] > 0 => got[m][k] > 0 \/ (Is(bank[m], k) /\ m # Origin(k))
  /\ intact' /\ k \notin mistook' =>
       /\ intact /\ k \notin mistook
       /\ \A m \in Nodes :
            /\ Is(bank[m], k) => bank'[m] = bank[m] \/ got'[m][k] > 0 \/ m = Origin(k)
            /\ Is(pending[m], k) => \/ Is(pending'[m], k)
                                    \/ \A q \in Neighbours(m) : bank'[q] = pending[m]
            /\ got[m][k] > 0 => got'[m][k] > 0
            /\ got'[m][k] > 0 /\ ~(got[m][k] > 0) /\ bank[m].hops = 2 => Is(pending'[m], k)

(* Nobody is a neighbour of its own, and neighbours are near.              *)
LEMMA Nearness ==
  ASSUME NEW o
  PROVE  /\ o \notin Neighbours(o) /\ Neighbours(o) \subseteq Nodes
         /\ Neighbours(o) \subseteq Near(o)
         /\ \A m \in Neighbours(o) : Neighbours(m) \subseteq Near(o)
BY DEF Near, Neighbours

(* Nothing changes who hears whom.                                         *)
LEMMA NearStays ==
  ASSUME net' = net, NEW o
  PROVE  Neighbours(o)' = Neighbours(o) /\ Near(o)' = Near(o)
BY DEF Near, Neighbours

(* A broadcast that moves so keeps within its hops and reaches whom it must. *)
LEMMA SpreadKept ==
  ASSUME NEW k \in 1..Len(log), Spread(k), Moves(k), net' = net, log'[k] = log[k]
  PROVE  Spread(k)'
<1> DEFINE o == log[k].from
<1>1. Origin(k) = o /\ Origin(k)' = o
  BY DEF Origin
<1>2. \A n : Neighbours(n)' = Neighbours(n) /\ Near(n)' = Near(n)
  BY NearStays
<1>3. \A n \in Nodes :
        /\ Is(bank[n], k) => n \in Near(o) /\ (bank[n].hops = 2 => n \in Neighbours(o))
        /\ Is(pending[n], k) => pending[n].hops = 1 /\ n \in Neighbours(o)
        /\ got[n][k] > 0 => n \in Near(o)
  BY <1>1 DEF Spread, Within
<1>4. \A n \in Nodes :
        /\ Is(bank'[n], k) => n \in Near(o) /\ (bank'[n].hops = 2 => n \in Neighbours(o))
        /\ Is(pending'[n], k) => pending'[n].hops = 1 /\ n \in Neighbours(o)
        /\ got'[n][k] > 0 => n \in Near(o)
  <2> SUFFICES ASSUME NEW n \in Nodes
               PROVE  /\ Is(bank'[n], k) => /\ n \in Near(o)
                                            /\ bank'[n].hops = 2 => n \in Neighbours(o)
                      /\ Is(pending'[n], k) => pending'[n].hops = 1 /\ n \in Neighbours(o)
                      /\ got'[n][k] > 0 => n \in Near(o)
    OBVIOUS
  <2>1. ASSUME Is(bank'[n], k)
        PROVE  n \in Near(o) /\ (bank'[n].hops = 2 => n \in Neighbours(o))
    <3>1. CASE bank'[n] = bank[n]
      BY <1>3, <2>1, <3>1
    <3>2. ASSUME NEW m \in Nodes, n \in Neighbours(m), Is(pending[m], k), bank'[n] = pending[m]
          PROVE  n \in Near(o) /\ bank'[n].hops # 2
      BY <1>3, <3>2, Nearness
    <3> QED
      BY <2>1, <3>1, <3>2 DEF Moves
  <2>2. ASSUME Is(pending'[n], k) PROVE pending'[n].hops = 1 /\ n \in Neighbours(o)
    BY <1>3, <2>2 DEF Moves
  <2>3. ASSUME got'[n][k] > 0 PROVE n \in Near(o)
    BY <1>3, <2>3 DEF Moves
  <2> QED
    BY <2>1, <2>2, <2>3
<1>5. Within(k)'
  BY <1>1, <1>2, <1>4 DEF Within, Is
<1>6. ASSUME intact', k \notin mistook' PROVE Heard(k)' /\ Passed(k)'
  <2>1. \A m \in Neighbours(o) : got[m][k] > 0 \/ (Is(bank[m], k) /\ bank[m].hops = 2)
    BY <1>1, <1>6 DEF Spread, Heard, Moves
  <2>2. \A m \in Neighbours(o), q \in Nodes :
          q \in Neighbours(m) /\ q # o /\ got[m][k] > 0
            => Is(pending[m], k) \/ got[q][k] > 0 \/ Is(bank[q], k)
    BY <1>1, <1>6 DEF Spread, Passed, Moves
  <2>3. \A m \in Nodes :
          /\ Is(bank[m], k) => bank'[m] = bank[m] \/ got'[m][k] > 0 \/ m = o
          /\ Is(pending[m], k) => \/ Is(pending'[m], k)
                                  \/ \A q \in Neighbours(m) : bank'[q] = pending[m]
          /\ got[m][k] > 0 => got'[m][k] > 0
          /\ got'[m][k] > 0 /\ ~(got[m][k] > 0) /\ bank[m].hops = 2 => Is(pending'[m], k)
    BY <1>1, <1>6 DEF Moves
  <2>4. \A m \in Neighbours(o) : got'[m][k] > 0 \/ (Is(bank'[m], k) /\ bank'[m].hops = 2)
    BY <2>1, <2>3, Nearness
  <2>5. ASSUME NEW m \in Neighbours(o), NEW q \in Nodes,
               q \in Neighbours(m), q # o, got'[m][k] > 0
        PROVE  Is(pending'[m], k) \/ got'[q][k] > 0 \/ Is(bank'[q], k)
    <3>1. m \in Nodes
      BY Nearness
    <3>2. CASE got[m][k] > 0
      <4>1. CASE Is(pending[m], k)
        BY <2>3, <2>5, <3>1, <4>1
      <4>2. CASE got[q][k] > 0 \/ Is(bank[q], k)
        BY <2>3, <2>5, <4>2
      <4> QED
        BY <2>2, <2>5, <3>2, <4>1, <4>2
    <3>3. CASE ~(got[m][k] > 0)
      BY <2>1, <2>3, <2>5, <3>1, <3>3
    <3> QED
      BY <3>2, <3>3
  <2>6. Heard(k)'
    BY <1>1, <1>2, <2>4 DEF Heard, Is
  <2>7. Passed(k)'
    BY <1>1, <1>2, <2>5 DEF Passed, Is
  <2> QED
    BY <2>6, <2>7
<1> QED
  BY <1>5, <1>6 DEF Spread

-----------------------------------------------------------------------------
(* Who has a packet after it was sent; when nothing is lost, all neighbours, *)
(* and no other packet made room for it.                                     *)
LEMMA SentTo ==
  ASSUME NEW n \in Nodes, NEW p, NEW rest, Send(n, p, rest)
  PROVE  /\ \A m \in Nodes : bank'[m] = rest[m] \/ (bank'[m] = p /\ m \in Neighbours(n))
         /\ intact' => /\ intact /\ \A m \in Neighbours(n) : bank'[m] = p
                       /\ \A m \in Nodes : bank'[m] = rest[m] \/ rest[m] \in {None, p}
<1>1. PICK D \in SUBSET Neighbours(n) :
             /\ bank' = [m \in Nodes |-> IF m \in D THEN p ELSE rest[m]]
             /\ intact' = (intact /\ D = Neighbours(n) /\ \A m \in D : rest[m] \in {None, p})
  BY DEF Send
<1>2. \A m \in Nodes : bank'[m] = IF m \in D THEN p ELSE rest[m]
  BY <1>1
<1>3. D \subseteq Neighbours(n) /\ Neighbours(n) \subseteq Nodes
  BY Nearness
<1>4. intact' => intact /\ D = Neighbours(n) /\ \A m \in D : rest[m] \in {None, p}
  BY <1>1
<1>5. \A m \in Nodes : bank'[m] = rest[m] \/ (bank'[m] = p /\ m \in Neighbours(n))
  BY <1>2, <1>3
<1>6. ASSUME intact'
      PROVE  /\ \A m \in Neighbours(n) : bank'[m] = p
             /\ \A m \in Nodes : bank'[m] = rest[m] \/ rest[m] \in {None, p}
  <2>1. D = Neighbours(n) /\ \A m \in D : rest[m] \in {None, p}
    BY <1>4, <1>6
  <2>2. \A m \in Neighbours(n) : bank'[m] = p
    BY <1>2, <1>3, <2>1
  <2>3. \A m \in Nodes : m \in D \/ bank'[m] = rest[m]
    BY <1>2
  <2> QED
    BY <2>1, <2>2, <2>3
<1> QED
  BY <1>4, <1>5, <1>6

(* The copies a modem holds are of broadcasts made, its own not handed over. *)
LEMMA Held ==
  ASSUME IInv
  PROVE  /\ \A n \in Nodes : /\ bank[n] # None => bank[n] \in TruePackets
                             /\ pending[n] # None => pending[n] \in TruePackets
         /\ \A p \in TruePackets : p \in Packet /\ p.id \in 1..Len(log) /\ p.hops \in 1..2
         /\ got \in [Nodes -> [Id -> 0..2]] /\ 1..Len(log) \subseteq Id
<1>1. \A p \in TruePackets : p \in Packet /\ p.id \in 1..Len(log) /\ p.hops \in 1..2
  BY DEF TruePackets, Packet, Hops
<1>2. 1..Len(log) \subseteq Id
  <2>1. /\ Len(log) <= net.broadcasts /\ net.broadcasts \in 0..Broadcasts
        /\ Broadcasts \in Nat
    BY NetTypes DEF IInv, FloodTypes
  <2>2. Len(log) \in Nat
    BY DEF IInv, FloodTypes
  <2>3. Len(log) <= Broadcasts
    BY <2>1, <2>2
  <2> QED
    BY <2>1, <2>2, <2>3 DEF Id
<1>3. \A n \in Nodes : /\ bank[n] # None => bank[n] \in TruePackets
                       /\ pending[n] # None => pending[n] \in TruePackets
  <2>1. /\ bank \in [Nodes -> {None} \cup TruePackets]
        /\ pending \in [Nodes -> {None} \cup TruePackets]
    BY DEF IInv, Copies
  <2> QED
    BY <2>1
<1>4. got \in [Nodes -> [Id -> 0..2]]
  BY DEF IInv, FloodTypes
<1> QED
  BY <1>1, <1>2, <1>3, <1>4

(* A new broadcast leaves the copies of the others alone.                  *)
LEMMA MultiCastMoves ==
  ASSUME IInv, NEW n \in Nodes, MultiCast(n), NEW k \in 1..Len(log)
  PROVE  Moves(k) /\ log'[k] = log[k] /\ net' = net
<1> DEFINE entry == [from |-> n, start |-> starts[n], seq |-> seq[n]]
<1>1. /\ log' = Append(log, entry)
      /\ UNCHANGED <<net, records, pending, starts, got, forgot, mistook>>
  BY DEF MultiCast
<1>2. PICK p : /\ p = [src |-> Addr[n], seq |-> seq[n], hops |-> Hops, id |-> Len(log')]
               /\ Send(n, p, bank)
  BY DEF MultiCast
<1>3. Len(log') = Len(log) + 1 /\ Len(log) \in Nat /\ log'[k] = log[k]
  BY <1>1, SMT DEF IInv, FloodTypes
<1>4. p.id # k
  BY <1>2, <1>3
<1>5. /\ \A m \in Nodes : bank'[m] = bank[m] \/ (bank'[m] = p /\ m \in Neighbours(n))
      /\ intact' => /\ intact /\ \A m \in Neighbours(n) : bank'[m] = p
                    /\ \A m \in Nodes : bank'[m] = bank[m] \/ bank[m] \in {None, p}
  BY <1>2, SentTo
<1>6. Moves(k)
  BY <1>1, <1>4, <1>5 DEF Moves, Is
<1> QED
  BY <1>1, <1>3, <1>6

(* It is itself where it may be.                                           *)
LEMMA MultiCastSpread ==
  ASSUME IInv, NEW n \in Nodes, MultiCast(n), NEW k, k = Len(log) + 1
  PROVE  Spread(k)' /\ Len(log') = k
<1> DEFINE entry == [from |-> n, start |-> starts[n], seq |-> seq[n]]
<1>1. /\ log' = Append(log, entry)
      /\ UNCHANGED <<net, records, pending, starts, got, forgot, mistook>>
  BY DEF MultiCast
<1>2. /\ Len(log') = k /\ Len(log) \in Nat /\ k \notin 1..Len(log) /\ log'[k] = entry
  BY <1>1, SMT DEF IInv, FloodTypes
<1>3. PICK p : /\ p = [src |-> Addr[n], seq |-> seq[n], hops |-> Hops, id |-> Len(log')]
               /\ Send(n, p, bank)
  BY DEF MultiCast
<1>4. p.id = k /\ p.hops = 2 /\ p # None
  BY <1>2, <1>3 DEF Hops, None
<1>5. /\ \A m \in Nodes : bank'[m] = bank[m] \/ (bank'[m] = p /\ m \in Neighbours(n))
      /\ intact' => \A m \in Neighbours(n) : bank'[m] = p
  BY <1>3, SentTo
<1>6. \A m \in Nodes : ~Is(bank[m], k) /\ ~Is(pending[m], k)
  BY <1>2, Held DEF Is
<1>7. \A m \in Nodes : ~(got[m][k] > 0)
  <2>1. k \in Id
    BY <1>2, NetTypes, SMT DEF IInv, FloodTypes, Id, MultiCast
  <2> QED
    BY <1>2, <2>1 DEF IInv, Recorded
<1>8. Origin(k)' = n
  BY <1>2 DEF Origin
<1>9. \A o : Neighbours(o)' = Neighbours(o) /\ Near(o)' = Near(o)
  BY <1>1, NearStays
<1>10. Within(k)'
  <2>1. ASSUME NEW m \in Nodes
        PROVE  /\ Is(bank'[m], k) => m \in Neighbours(n)
               /\ ~Is(pending'[m], k) /\ ~(got'[m][k] > 0)
    BY <1>1, <1>5, <1>6, <1>7 DEF Is
  <2> QED
    BY <1>8, <1>9, <2>1, Nearness DEF Within, Is
<1>11. ASSUME intact' PROVE Heard(k)' /\ Passed(k)'
  <2>1. \A m \in Neighbours(n) : Is(bank'[m], k) /\ bank'[m].hops = 2 /\ ~(got'[m][k] > 0)
    BY <1>1, <1>4, <1>5, <1>7, <1>11, Nearness DEF Is
  <2> QED
    BY <1>8, <1>9, <2>1 DEF Heard, Passed, Is
<1> QED
  BY <1>2, <1>10, <1>11 DEF Spread

(* A dropped copy was handed over before, unless its modem is mistaken.    *)
LEMMA DropMoves ==
  ASSUME IInv, NEW n \in Nodes, Drop(n), NEW k \in 1..Len(log)
  PROVE  Moves(k)
<1>1. /\ bank' = Clear(n)
      /\ UNCHANGED <<net, seq, records, pending, log, starts, got, forgot, intact>>
      /\ mistook' = mistook \cup {j \in {bank[n].id} : got[n][j] = 0 /\ Origin(j) # n}
  BY DEF Drop
<1>2. \A m \in Nodes : /\ m # n => bank'[m] = bank[m]
                       /\ m = n => bank'[m] = None
  BY <1>1 DEF IInv, Copies, Clear
<1>3. got[n][k] \in 0..2
  BY Held
<1>4. k \notin mistook' => /\ k \notin mistook
                           /\ Is(bank[n], k) => got[n][k] > 0 \/ n = Origin(k)
  BY <1>1, <1>3, SMT DEF Is
<1> QED
  BY <1>1, <1>2, <1>4 DEF Moves, Is

(* A copy is handed over; if it has a hop left it waits to be sent again,  *)
(* and what waited before goes out to all neighbours.                      *)
LEMMA TakeMoves ==
  ASSUME IInv, NEW n \in Nodes, Take(n), NEW k \in 1..Len(log)
  PROVE  Moves(k)
<1> DEFINE p == bank[n]
           q == [p EXCEPT !.hops = @ - 1]
<1>1. /\ p # None /\ ~FromMyself(n, p) /\ Relay(n, p)
      /\ got' = [got EXCEPT ![n][p.id] = IF @ < 2 THEN @ + 1 ELSE 2]
      /\ UNCHANGED <<net, seq, log, starts, mistook>>
  BY DEF Take
<1>2. /\ p \in TruePackets /\ p \in Packet /\ p.id \in 1..Len(log) /\ p.hops \in 1..2
      /\ p.id \in Id /\ k \in Id
  BY <1>1, Held
<1>3. Is(p, k) => n # Origin(k)
  BY <1>1, <1>2 DEF Is, FromMyself, Addr, Origin, TruePackets
<1>4. \A m \in Nodes : /\ Clear(n)[m] = bank[m] \/ (m = n /\ Clear(n)[m] = None)
  BY DEF IInv, Copies, Clear
<1>5. \A m \in Nodes : /\ got[m][k] > 0 => got'[m][k] > 0
                       /\ got'[m][k] > 0 => got[m][k] > 0 \/ (m = n /\ Is(p, k))
  BY <1>1, <1>2, Held DEF Is
<1>6. Is(p, k) => got'[n][k] > 0
  BY <1>1, <1>2, Held DEF Is
<1>7. CASE p.hops = 1
  <2>1. pending' = pending /\ intact' = intact /\ bank' = Clear(n)
    BY <1>1, <1>7 DEF Relay
  <2> QED
    BY <1>1, <1>3, <1>4, <1>5, <1>6, <1>7, <2>1 DEF Moves, Is
<1>8. CASE p.hops # 1
  <2>1. p.hops = 2 /\ q.hops = 1 /\ q.id = p.id /\ q # None
    BY <1>2, <1>8 DEF Packet, None
  <2>2. \A m \in Nodes : /\ m # n => pending'[m] = pending[m]
                         /\ m = n => pending'[m] = q
    BY <1>1, <1>8 DEF Relay, IInv, Copies
  <2>3. Is(p, k) => Is(pending'[n], k)
    BY <2>1, <2>2 DEF Is
  <2>4. CASE pending[n] = None
    <3>1. intact' = intact /\ bank' = Clear(n)
      BY <1>1, <1>8, <2>4 DEF Relay
    <3> QED
      BY <1>1, <1>3, <1>4, <1>5, <1>6, <2>1, <2>2, <2>3, <2>4, <3>1 DEF Moves, Is
  <2>5. CASE pending[n] # None
    <3>1. Send(n, pending[n], Clear(n))
      BY <1>1, <1>8, <2>5 DEF Relay
    <3>2. /\ \A m \in Nodes : \/ bank'[m] = Clear(n)[m]
                              \/ bank'[m] = pending[n] /\ m \in Neighbours(n)
          /\ intact' => /\ intact /\ \A m \in Neighbours(n) : bank'[m] = pending[n]
                        /\ \A m \in Nodes : \/ bank'[m] = Clear(n)[m]
                                            \/ Clear(n)[m] \in {None, pending[n]}
      BY <3>1, SentTo
    <3>3. \A m \in Nodes :
            /\ Is(bank'[m], k) => \/ bank'[m] = bank[m]
                                  \/ \E i \in Nodes : /\ m \in Neighbours(i) /\ Is(pending[i], k)
                                                      /\ bank'[m] = pending[i]
            /\ Is(pending'[m], k) => \/ pending'[m] = pending[m]
                                     \/ /\ Is(bank[m], k) /\ bank[m].hops = 2
                                        /\ pending'[m].hops = 1
            /\ got'[m][k] > 0 => got[m][k] > 0 \/ (Is(bank[m], k) /\ m # Origin(k))
      <4> SUFFICES ASSUME NEW m \in Nodes
                   PROVE  /\ Is(bank'[m], k) =>
                               \/ bank'[m] = bank[m]
                               \/ \E i \in Nodes : /\ m \in Neighbours(i) /\ Is(pending[i], k)
                                                   /\ bank'[m] = pending[i]
                          /\ Is(pending'[m], k) => \/ pending'[m] = pending[m]
                                                   \/ /\ Is(bank[m], k) /\ bank[m].hops = 2
                                                      /\ pending'[m].hops = 1
                          /\ got'[m][k] > 0 => got[m][k] > 0 \/ (Is(bank[m], k) /\ m # Origin(k))
        OBVIOUS
      <4>1. Is(bank'[m], k) => \/ bank'[m] = bank[m]
                               \/ bank'[m] = pending[n] /\ m \in Neighbours(n)
        BY <1>4, <3>2 DEF Is
      <4>2. Is(pending'[m], k) => \/ pending'[m] = pending[m]
                                  \/ /\ Is(bank[m], k) /\ bank[m].hops = 2
                                     /\ pending'[m].hops = 1
        BY <1>1, <2>1, <2>2 DEF Is
      <4>3. got'[m][k] > 0 => got[m][k] > 0 \/ (Is(bank[m], k) /\ m # Origin(k))
        BY <1>3, <1>5
      <4> QED
        BY <4>1, <4>2, <4>3
    <3>4. ASSUME intact', NEW m \in Nodes
          PROVE  /\ Is(bank[m], k) => bank'[m] = bank[m] \/ got'[m][k] > 0 \/ m = Origin(k)
                 /\ Is(pending[m], k) => \/ Is(pending'[m], k)
                                         \/ \A i \in Neighbours(m) : bank'[i] = pending[m]
                 /\ got[m][k] > 0 => got'[m][k] > 0
                 /\ got'[m][k] > 0 /\ ~(got[m][k] > 0) /\ bank[m].hops = 2 => Is(pending'[m], k)
      <4>1. Is(bank[m], k) => bank'[m] = bank[m] \/ got'[m][k] > 0
        <5>1. CASE m = n
          BY <1>6, <5>1
        <5>2. CASE m # n
          <6>1. bank[m] # None => Clear(n)[m] = bank[m]
            BY <1>4, <5>2
          <6> QED
            BY <3>2, <3>4, <6>1 DEF Is
        <5> QED
          BY <5>1, <5>2
      <4>2. Is(pending[m], k) => \/ Is(pending'[m], k)
                                 \/ \A i \in Neighbours(m) : bank'[i] = pending[m]
        BY <2>2, <3>2, <3>4 DEF Is
      <4>3. /\ got[m][k] > 0 => got'[m][k] > 0
            /\ got'[m][k] > 0 /\ ~(got[m][k] > 0) => Is(pending'[m], k)
        BY <1>5, <2>3
      <4> QED
        BY <4>1, <4>2, <4>3
    <3> QED
      BY <1>1, <3>2, <3>3, <3>4 DEF Moves
  <2> QED
    BY <2>4, <2>5
<1> QED
  BY <1>7, <1>8

(* What waited goes out to all neighbours.                                 *)
LEMMA FireMoves ==
  ASSUME IInv, NEW n \in Nodes, Fire(n), NEW k \in 1..Len(log)
  PROVE  Moves(k)
<1>1. /\ pending[n] # None /\ pending' = [pending EXCEPT ![n] = None]
      /\ Send(n, pending[n], bank)
      /\ UNCHANGED <<net, seq, records, log, starts, got, forgot, mistook>>
  BY DEF Fire
<1>2. /\ \A m \in Nodes : bank'[m] = bank[m] \/ (bank'[m] = pending[n] /\ m \in Neighbours(n))
      /\ intact' => /\ intact /\ \A m \in Neighbours(n) : bank'[m] = pending[n]
                    /\ \A m \in Nodes : bank'[m] = bank[m] \/ bank[m] \in {None, pending[n]}
  BY <1>1, SentTo
<1>3. \A m \in Nodes : /\ m # n => pending'[m] = pending[m]
                       /\ m = n => pending'[m] = None
  BY <1>1 DEF IInv, Copies
<1> QED
  BY <1>1, <1>2, <1>3 DEF Moves, Is

(* A record that runs out touches no copy.                                 *)
LEMMA ExpireMoves ==
  ASSUME IInv, NEW n \in Nodes, Expire(n), NEW k \in 1..Len(log)
  PROVE  Moves(k)
BY DEF Expire, Moves, Is

(* A restart loses what the modem held.                                    *)
LEMMA RestartMoves ==
  ASSUME IInv, NEW n \in Nodes, Restart(n), NEW k \in 1..Len(log)
  PROVE  Moves(k)
<1>1. /\ pending' = [pending EXCEPT ![n] = None] /\ bank' = Clear(n)
      /\ intact' = (intact /\ pending[n] = None /\ bank[n] = None)
      /\ UNCHANGED <<net, log, got, mistook>>
  BY DEF Restart
<1>2. \A m \in Nodes : /\ m # n => pending'[m] = pending[m] /\ bank'[m] = bank[m]
                       /\ m = n => pending'[m] = None /\ bank'[m] = None
  BY <1>1 DEF IInv, Copies, Clear
<1> QED
  BY <1>1, <1>2 DEF Moves, Is

-----------------------------------------------------------------------------
(* Every step keeps every broadcast within its hops and on its way.        *)
LEMMA SpreadStep == IInv /\ SpreadInv /\ [Next]_vars => SpreadInv'
<1> SUFFICES ASSUME IInv, SpreadInv, [Next]_vars PROVE SpreadInv'
  OBVIOUS
<1>1. ASSUME NEW k \in 1..Len(log), Moves(k), net' = net, log'[k] = log[k]
      PROVE  Spread(k)'
  BY <1>1, SpreadKept DEF SpreadInv
<1>2. CASE UNCHANGED vars
  <2>1. log' = log /\ net' = net /\ \A k \in 1..Len(log) : Moves(k)
    BY <1>2 DEF vars, Moves, Is
  <2> QED
    BY <1>1, <2>1 DEF SpreadInv
<1>3. ASSUME NEW n \in UNION net.links,
             MultiCast(n) \/ Handle(n) \/ Fire(n) \/ Expire(n) \/ Restart(n)
      PROVE  SpreadInv'
  <2>1. n \in Nodes
    BY NetTypes DEF IInv, FloodTypes
  <2>2. CASE MultiCast(n)
    <3>1. Len(log) \in Nat
      BY DEF IInv, FloodTypes
    <3>2. PICK j : j = Len(log) + 1
      OBVIOUS
    <3>3. Spread(j)' /\ Len(log') = j
      BY <2>1, <2>2, <3>2, MultiCastSpread
    <3>4. \A k \in 1..Len(log) : Spread(k)'
      BY <1>1, <2>1, <2>2, MultiCastMoves
    <3>5. \A k \in 1..j : k = j \/ k \in 1..Len(log)
      BY <3>1, <3>2
    <3> QED
      BY <3>3, <3>4, <3>5 DEF SpreadInv
  <2>3. CASE Handle(n) \/ Fire(n) \/ Expire(n) \/ Restart(n)
    <3>1. log' = log /\ net' = net
      BY <2>3 DEF Handle, Drop, Take, Fire, Expire, Restart
    <3>2. \A k \in 1..Len(log) : Moves(k)
      BY <2>1, <2>3, DropMoves, TakeMoves, FireMoves, ExpireMoves, RestartMoves DEF Handle
    <3> QED
      BY <1>1, <3>1, <3>2 DEF SpreadInv
  <2> QED
    BY <1>3, <2>2, <2>3
<1> QED
  BY <1>2, <1>3 DEF Next

(* When nothing is under way, what was to be passed on has been handed over. *)
LEMMA SpreadReaches == IInv /\ SpreadInv => Reaches
<1> SUFFICES ASSUME IInv, SpreadInv, NEW k \in DOMAIN log
             PROVE  LET near == Near(Origin(k)) \ {Origin(k)}
                        had  == {n \in Nodes : got[n][k] > 0}
                    IN  had \subseteq near /\ (Still /\ intact /\ k \notin mistook => had = near)
  BY DEF Reaches
<1> DEFINE o == Origin(k)
           had == {n \in Nodes : got[n][k] > 0}
<1>1. k \in 1..Len(log) /\ Spread(k) /\ k \in Id
  <2>1. DOMAIN log = 1..Len(log)
    BY SMT DEF IInv, FloodTypes
  <2> QED
    BY <2>1, Held DEF SpreadInv
<1>2. had \subseteq Near(o) \ {o}
  BY <1>1 DEF Spread, Within, IInv, Recorded, Origin
<1>3. ASSUME Still, intact, k \notin mistook, NEW q \in Near(o), q # o PROVE q \in had
  <2>1. \A n \in Nodes : ~Is(bank[n], k) /\ ~Is(pending[n], k)
    BY <1>3 DEF Still, Is
  <2>2. \A m \in Neighbours(o) : m \in Nodes /\ got[m][k] > 0
    BY <1>1, <1>3, <2>1, Nearness DEF Spread, Heard
  <2>3. CASE q \in Neighbours(o)
    BY <2>2, <2>3
  <2>4. ASSUME NEW m \in Neighbours(o), q \in Neighbours(m) PROVE q \in had
    BY <1>1, <1>3, <2>1, <2>2, <2>4, Nearness DEF Spread, Passed
  <2> QED
    BY <2>3, <2>4 DEF Near
<1> QED
  BY <1>2, <1>3

(* A broadcast gets two hops from where it was made and no farther; once   *)
(* nothing is under way, every modem that near has handed it to its host,  *)
(* unless a frame was lost or it was taken for another (MultiCast, and     *)
(* MiWiPROTasks with MAX_HOPS and COMM_RANDOM_SEND).                       *)
THEOREM ReachedTwoHops == Spec => []Reaches
<1>1. Init => SpreadInv
  BY DEF Init, SpreadInv
<1> QED
  BY <1>1, Invariant, SpreadStep, SpreadReaches, PTL DEF Spec

-----------------------------------------------------------------------------
(* The numbers of the broadcasts, which come round after SEQS of them.     *)

\* Those made by o among the broadcasts from a to b of the log l.
Made(l, a, b, o) == {x \in a..b : l[x].from = o}
After(i)         == Cardinality(Made(log, i, Len(log), log[i].from))  \* i and those after it

Alike(e, f)      == e.from = f.from /\ e.start = f.start /\ e.seq = f.seq

\* The next number is as far from one given since the start as there were broadcasts.
NumberInv ==
  /\ \A i \in 1..Len(log) :
       /\ log[i].start <= starts[log[i].from] /\ log[i].seq < SEQS
       /\ log[i].start = starts[log[i].from] /\ After(i) < SEQS
            => \/ seq[log[i].from] = log[i].seq + After(i)
               \/ seq[log[i].from] = log[i].seq + After(i) - SEQS
  /\ \A i, j \in 1..Len(log) :
       i < j /\ Alike(log[i], log[j]) => Since(i, j) >= SEQS

(* There are finitely many.                                                *)
LEMMA MadeFinite ==
  ASSUME NEW l, NEW a \in Nat, NEW b \in Nat, NEW o
  PROVE  IsFiniteSet(Made(l, a, b, o)) /\ Cardinality(Made(l, a, b, o)) \in Nat
<1>1. IsFiniteSet(a..b)
  BY FS_Interval
<1>2. Made(l, a, b, o) \subseteq a..b
  BY DEF Made
<1> QED
  BY <1>1, <1>2, FS_Subset, FS_CardinalityType

(* One more broadcast counts for who made it.                              *)
LEMMA OneMore ==
  ASSUME NEW l, NEW L, NEW a \in Nat, NEW b \in Nat, a <= b + 1, NEW o,
         \A x \in a..b : L[x] = l[x]
  PROVE  /\ IsFiniteSet(Made(l, a, b, o)) /\ Cardinality(Made(l, a, b, o)) \in Nat
         /\ L[b + 1].from = o =>
              Cardinality(Made(L, a, b + 1, o)) = Cardinality(Made(l, a, b, o)) + 1
         /\ L[b + 1].from # o => Made(L, a, b + 1, o) = Made(l, a, b, o)
<1>1. IsFiniteSet(Made(l, a, b, o)) /\ Cardinality(Made(l, a, b, o)) \in Nat
  BY MadeFinite
<1>2. Made(L, a, b, o) = Made(l, a, b, o)
  BY DEF Made
<1>3. a..(b + 1) = (a..b) \cup {b + 1} /\ b + 1 \notin a..b
  OBVIOUS
<1>4. ASSUME L[b + 1].from = o
      PROVE  Cardinality(Made(L, a, b + 1, o)) = Cardinality(Made(l, a, b, o)) + 1
  <2>1. Made(L, a, b + 1, o) = Made(l, a, b, o) \cup {b + 1} /\ b + 1 \notin Made(l, a, b, o)
    BY <1>2, <1>3, <1>4 DEF Made
  <2> QED
    BY <1>1, <2>1, FS_AddElement
<1>5. L[b + 1].from # o => Made(L, a, b + 1, o) = Made(l, a, b, o)
  BY <1>2, <1>3 DEF Made
<1> QED
  BY <1>1, <1>2, <1>4, <1>5

(* The broadcasts since another, counted alike.                            *)
LEMMA SinceIs ==
  ASSUME NEW i, NEW j, i \in Nat, j \in Nat
  PROVE  Since(i, j) = Cardinality(Made(log, i, j - 1, log[j].from))
BY DEF Since, Made, Origin

(* Where the next number is, if it was at most one turn away.              *)
LEMMA NextNumber ==
  ASSUME NEW S \in Nat \ {0}, NEW s \in 0..(S - 1), NEW a \in 0..(S - 1), NEW d \in Nat,
         d + 1 < S, s = a + d \/ s = a + d - S
  PROVE  (s + 1) % S = a + (d + 1) \/ (s + 1) % S = a + (d + 1) - S
<1>1. (s + 1 < S /\ (s + 1) % S = s + 1) \/ (s + 1 = S /\ (s + 1) % S = 0)
  BY SMT
<1> QED
  BY <1>1, SMT

(* The types the numbers need.                                             *)
LEMMA LogTypes ==
  ASSUME IInv
  PROVE  /\ Len(log) \in Nat /\ SEQS \in Nat \ {0}
         /\ \A i \in 1..Len(log) : /\ log[i].from \in Nodes /\ log[i].start \in Nat
                                   /\ log[i] \in [from : Nodes, start : Nat, seq : Nat]
         /\ \A n \in Nodes : seq[n] \in 0..(SEQS - 1) /\ starts[n] \in 0..1
<1>1. log \in Seq([from : Nodes, start : Nat, seq : Nat]) /\ SEQS \in Nat \ {0}
  BY MiWiFloodAssumption DEF IInv, FloodTypes
<1>2. \A i \in 1..Len(log) : log[i] \in [from : Nodes, start : Nat, seq : Nat]
  <2>1. \A T : log \in Seq(T) => \A i \in 1..Len(log) : log[i] \in T
    OBVIOUS
  <2> QED
    BY <1>1, <2>1
<1>3. \A n \in Nodes : seq[n] \in 0..(SEQS - 1) /\ starts[n] \in 0..1
  BY DEF IInv, FloodTypes
<1>4. \A i \in 1..Len(log) : log[i].from \in Nodes /\ log[i].start \in Nat
  BY <1>2
<1>5. Len(log) \in Nat
  BY DEF IInv, FloodTypes
<1> QED
  BY <1>1, <1>2, <1>3, <1>4, <1>5

-----------------------------------------------------------------------------
(* A new broadcast takes the next number.                                  *)
LEMMA MultiCastNumbers ==
  ASSUME IInv, NumberInv, NEW n \in Nodes, MultiCast(n)
  PROVE  NumberInv'
<1> DEFINE L == Len(log)
           entry == [from |-> n, start |-> starts[n], seq |-> seq[n]]
<1>1. /\ log' = Append(log, entry) /\ starts' = starts
      /\ seq' = [seq EXCEPT ![n] = (@ + 1) % SEQS]
  BY DEF MultiCast
<1>2. /\ Len(log') = L + 1 /\ L \in Nat /\ log'[L + 1] = entry
      /\ \A i \in 1..L : log'[i] = log[i]
  BY <1>1, SMT DEF IInv, FloodTypes
<1>3. /\ entry.from = n /\ entry.start = starts[n] /\ entry.seq = seq[n]
      /\ seq[n] \in 0..(SEQS - 1) /\ SEQS \in Nat \ {0} /\ starts[n] \in 0..1
      /\ seq'[n] = (seq[n] + 1) % SEQS /\ \A m \in Nodes : m # n => seq'[m] = seq[m]
  BY <1>1, LogTypes DEF IInv, FloodTypes
<1> HIDE DEF L, entry
<1>4. \A i \in 1..L : /\ log[i].start <= starts[log[i].from] /\ log[i].seq \in 0..(SEQS - 1)
                      /\ log[i].from \in Nodes /\ log[i].start \in Nat
  BY <1>2, LogTypes DEF NumberInv, L
<1>5. \A i \in 1..(L + 1) : i = L + 1 \/ i \in 1..L
  BY <1>2
<1>6. \A i \in 1..L : 
        /\ log[i].from = n => After(i)' = After(i) + 1
        /\ log[i].from # n => After(i)' = After(i)
        /\ After(i) \in Nat
  <2> SUFFICES ASSUME NEW i \in 1..L
               PROVE  /\ log[i].from = n => After(i)' = After(i) + 1
                      /\ log[i].from # n => After(i)' = After(i)
                      /\ After(i) \in Nat
    OBVIOUS
  <2> DEFINE o == log[i].from
  <2>1. /\ After(i) = Cardinality(Made(log, i, L, o))
        /\ After(i)' = Cardinality(Made(log', i, L + 1, o))
    BY <1>2 DEF After, L
  <2>2. i \in Nat /\ i <= L + 1 /\ \A x \in i..L : log'[x] = log[x]
    BY <1>2
  <2>3. log'[L + 1].from = n
    BY <1>2, <1>3
  <2> HIDE DEF o
  <2>4. /\ Cardinality(Made(log, i, L, o)) \in Nat
        /\ o = n => Cardinality(Made(log', i, L + 1, o)) = Cardinality(Made(log, i, L, o)) + 1
        /\ o # n => Made(log', i, L + 1, o) = Made(log, i, L, o)
    BY <1>2, <2>2, <2>3, OneMore
  <2>5. /\ o = n => After(i)' = After(i) + 1
        /\ o # n => After(i)' = After(i)
        /\ After(i) \in Nat
    BY <2>1, <2>4
  <2> QED
    BY <2>5 DEF o
<1>7. PICK j : j = L + 1
  OBVIOUS
<1>8. After(j)' = 1
  <2>1. After(j)' = Cardinality(Made(log', L + 1, L + 1, n))
    BY <1>2, <1>3, <1>7 DEF After
  <2>2. Made(log, L + 1, L, n) = {} /\ Cardinality({}) = 0
    BY <1>2, FS_EmptySet DEF Made
  <2>3. L + 1 \in Nat /\ L + 1 <= L + 1 /\ \A x \in (L + 1)..L : log'[x] = log[x]
    BY <1>2
  <2>4. log'[L + 1].from = n
    BY <1>2, <1>3
  <2>5. Cardinality(Made(log', L + 1, L + 1, n)) = Cardinality(Made(log, L + 1, L, n)) + 1
    BY <1>2, <2>3, <2>4, OneMore
  <2> QED
    BY <2>1, <2>2, <2>5
<1>9. ASSUME NEW i \in 1..(L + 1)
      PROVE  /\ log'[i].start <= starts'[log'[i].from] /\ log'[i].seq < SEQS
             /\ log'[i].start = starts'[log'[i].from] /\ After(i)' < SEQS
                  => \/ seq'[log'[i].from] = log'[i].seq + After(i)'
                     \/ seq'[log'[i].from] = log'[i].seq + After(i)' - SEQS
  <2>1. CASE i = j
    <3>1. /\ log'[i].from = n /\ log'[i].start = starts[n] /\ log'[i].seq = seq[n]
          /\ After(i)' = 1
      BY <1>2, <1>3, <1>7, <1>8, <2>1
    <3>2. \/ (seq[n] + 1) % SEQS = seq[n] + 1
          \/ (seq[n] + 1) % SEQS = seq[n] + 1 - SEQS
      BY <1>3, SMT
    <3> QED
      BY <1>1, <1>3, <3>1, <3>2
  <2>2. CASE i \in 1..L
    <3>1. log'[i] = log[i] /\ starts' = starts
      BY <1>1, <1>2, <2>2
    <3>2. log[i].start = starts[log[i].from] /\ After(i) < SEQS
            => \/ seq[log[i].from] = log[i].seq + After(i)
               \/ seq[log[i].from] = log[i].seq + After(i) - SEQS
      BY <1>2, <2>2 DEF NumberInv, L
    <3>3. CASE log[i].from # n
      BY <1>3, <1>4, <1>6, <2>2, <3>1, <3>2, <3>3
    <3>4. CASE log[i].from = n
      <4>1. /\ After(i)' = After(i) + 1 /\ After(i) \in Nat
            /\ log[i].seq \in 0..(SEQS - 1) /\ log[i].start <= starts[n]
        BY <1>4, <1>6, <2>2, <3>4
      <4>2. ASSUME log[i].start = starts[n], After(i) + 1 < SEQS
            PROVE  \/ seq'[n] = log[i].seq + (After(i) + 1)
                   \/ seq'[n] = log[i].seq + (After(i) + 1) - SEQS
        <5>1. After(i) < SEQS
          BY <1>3, <4>1, <4>2
        <5>2. seq[n] = log[i].seq + After(i) \/ seq[n] = log[i].seq + After(i) - SEQS
          BY <3>2, <3>4, <4>2, <5>1
        <5> QED
          BY <1>3, <4>1, <4>2, <5>2, NextNumber
      <4> QED
        BY <1>3, <3>1, <3>4, <4>1, <4>2
    <3> QED
      BY <3>3, <3>4
  <2> QED
    BY <1>5, <1>7, <2>1, <2>2
<1>10. ASSUME NEW i \in 1..(L + 1), NEW k \in 1..(L + 1), i < k, Alike(log'[i], log'[k])
       PROVE  Since(i, k)' >= SEQS
  <2>1. /\ i \in 1..L /\ i \in Nat /\ k \in Nat /\ k - 1 \in Nat /\ i <= (k - 1) + 1
        /\ k - 1 <= L /\ \A x \in i..(k - 1) : x \in 1..L
    BY <1>2, <1>10
  <2>2. \A x \in i..(k - 1) : log'[x] = log[x]
    BY <1>2, <2>1
  <2>3. Since(i, k)' = Cardinality(Made(log', i, k - 1, log'[k].from))
    BY <2>1 DEF Since, Made, Origin
  <2>4. \A o : Made(log', i, k - 1, o) = Made(log, i, k - 1, o)
    BY <2>2 DEF Made
  <2>5. log'[i] = log[i]
    BY <1>2, <2>1
  <2>6. CASE k \in 1..L
    <3>1. log'[k] = log[k] /\ Since(i, k) >= SEQS
      BY <1>2, <1>10, <2>1, <2>5, <2>6 DEF NumberInv, L
    <3> QED
      BY <2>1, <2>3, <2>4, <3>1, SinceIs
  <2>7. CASE k = j
    <3>1. /\ log[i].from = n /\ log[i].start = starts[n] /\ log[i].seq = seq[n]
          /\ log'[k].from = n /\ k - 1 = L
      BY <1>2, <1>3, <1>7, <1>10, <2>5, <2>7 DEF Alike
    <3>2. After(i) = Since(i, k)'
      BY <2>3, <2>4, <3>1 DEF After, L
    <3>3. After(i) < SEQS => \/ seq[n] = seq[n] + After(i)
                             \/ seq[n] = seq[n] + After(i) - SEQS
      BY <1>2, <2>1, <3>1 DEF NumberInv, L
    <3>4. After(i) \in Nat /\ After(i) # 0
      <4>1. i \in Made(log, i, L, n) /\ IsFiniteSet(Made(log, i, L, n))
        <5>1. i \in i..L
          BY <1>2, <2>1
        <5>2. i \in Made(log, i, L, n)
          BY <3>1, <5>1 DEF Made
        <5> QED
          BY <1>2, <2>1, <5>2, MadeFinite
      <4>2. After(i) = Cardinality(Made(log, i, L, n))
        BY <3>1 DEF After, L
      <4> QED
        BY <4>1, <4>2, FS_EmptySet, FS_CardinalityType
    <3> QED
      BY <1>3, <3>2, <3>3, <3>4
  <2> QED
    BY <1>5, <1>7, <2>6, <2>7
<1> QED
  BY <1>2, <1>9, <1>10 DEF NumberInv

(* A restart starts the numbers again, and counts as another start.        *)
LEMMA RestartNumbers ==
  ASSUME IInv, NumberInv, NEW n \in Nodes, Restart(n)
  PROVE  NumberInv'
<1>1. /\ starts' = [starts EXCEPT ![n] = @ + 1] /\ seq' = [seq EXCEPT ![n] = 0]
      /\ log' = log
  BY DEF Restart
<1>2. /\ \A m \in Nodes : m # n => starts'[m] = starts[m] /\ seq'[m] = seq[m]
      /\ starts'[n] = starts[n] + 1 /\ starts[n] \in Nat
  <2>1. seq \in [Nodes -> 0..(SEQS - 1)] /\ starts \in [Nodes -> 0..1]
    BY DEF IInv, FloodTypes
  <2>2. starts[n] \in Nat
    BY LogTypes
  <2> QED
    BY <1>1, <2>1, <2>2
<1>3. \A i, k : Since(i, k)' = Since(i, k) /\ After(i)' = After(i)
  BY <1>1 DEF Since, After, Made, Origin
<1>4. ASSUME NEW i \in 1..Len(log)
      PROVE  /\ log[i].start <= starts'[log[i].from]
             /\ log[i].start = starts'[log[i].from] => log[i].from # n
  <2>1. log[i].from \in Nodes /\ log[i].start \in Nat /\ log[i].start <= starts[log[i].from]
    BY LogTypes DEF NumberInv
  <2> QED
    BY <1>2, <2>1
<1>5. ASSUME NEW i \in 1..Len(log), log[i].start = starts'[log[i].from], After(i) < SEQS
      PROVE  \/ seq'[log[i].from] = log[i].seq + After(i)
             \/ seq'[log[i].from] = log[i].seq + After(i) - SEQS
  <2>1. log[i].from # n /\ log[i].from \in Nodes
    BY <1>4, <1>5, LogTypes
  <2>2. /\ seq'[log[i].from] = seq[log[i].from]
        /\ log[i].start = starts[log[i].from]
    BY <1>2, <1>5, <2>1
  <2> QED
    BY <1>5, <2>2 DEF NumberInv
<1>6. /\ \A i \in 1..Len(log) : log[i].seq < SEQS
      /\ \A i, k \in 1..Len(log) : i < k /\ Alike(log[i], log[k]) => Since(i, k) >= SEQS
  BY DEF NumberInv
<1> QED
  BY <1>1, <1>3, <1>4, <1>5, <1>6 DEF NumberInv

(* The numbers of a net, from its start.                                   *)
LEMMA NumberStep == IInv /\ NumberInv /\ [Next]_vars => NumberInv'
<1> SUFFICES ASSUME IInv, NumberInv, [Next]_vars PROVE NumberInv'
  OBVIOUS
<1>1. ASSUME log' = log, seq' = seq, starts' = starts PROVE NumberInv'
  <2>1. \A i, k : Since(i, k)' = Since(i, k) /\ After(i)' = After(i)
    BY <1>1 DEF Since, After, Made, Origin
  <2> QED
    BY <1>1, <2>1 DEF NumberInv
<1>2. CASE UNCHANGED vars
  BY <1>1, <1>2 DEF vars
<1>3. ASSUME NEW n \in UNION net.links,
             MultiCast(n) \/ Handle(n) \/ Fire(n) \/ Expire(n) \/ Restart(n)
      PROVE  NumberInv'
  <2>1. n \in Nodes
    BY NetTypes DEF IInv, FloodTypes
  <2>2. CASE Handle(n) \/ Fire(n) \/ Expire(n)
    BY <1>1, <2>2 DEF Handle, Drop, Take, Fire, Expire
  <2> QED
    BY <1>3, <2>1, <2>2, MultiCastNumbers, RestartNumbers
<1> QED
  BY <1>2, <1>3 DEF Next

(* Two broadcasts alike are from two starts, or a turn of numbers apart.   *)
LEMMA MistakenIf ==
  ASSUME IInv, NumberInv, NEW n \in Nodes, Drop(n), ~FromMyself(n, bank[n])
  PROVE  \E r \in records[n] :
           /\ r.src = bank[n].src /\ r.seq = bank[n].seq
           /\ \/ r.id = bank[n].id \/ Origin(r.id) # Origin(bank[n].id)
              \/ log[r.id].start # log[bank[n].id].start
              \/ Since(r.id, bank[n].id) >= SEQS \/ Since(bank[n].id, r.id) >= SEQS
<1>1. bank[n] # None /\ KnownBy(n, bank[n])
  BY DEF Drop
<1>2. PICK r \in records[n] : r.src = bank[n].src /\ r.seq = bank[n].seq
  BY <1>1 DEF KnownBy
<1>3. PICK j : j = bank[n].id
  OBVIOUS
<1>4. bank[n] \in TruePackets /\ r \in TrueEntries
  BY <1>1, Held DEF IInv, Copies
<1>5. /\ j \in 1..Len(log) /\ bank[n].seq = log[j].seq
      /\ r.id \in 1..Len(log) /\ r.seq = log[r.id].seq
  BY <1>3, <1>4 DEF TruePackets, TrueEntries
<1>6. ASSUME r.id # j, Origin(r.id) = Origin(j), log[r.id].start = log[j].start
      PROVE  Since(r.id, j) >= SEQS \/ Since(j, r.id) >= SEQS
  <2>1. Alike(log[r.id], log[j]) /\ Alike(log[j], log[r.id])
    BY <1>2, <1>5, <1>6 DEF Alike, Origin
  <2>2. r.id < j \/ j < r.id
    <3>1. \A N \in Nat : \A x, y \in 1..N : x # y => x < y \/ y < x
      OBVIOUS
    <3> QED
      BY <1>5, <1>6, <3>1, LogTypes
  <2> QED
    BY <1>5, <2>1, <2>2 DEF NumberInv
<1> QED
  BY <1>2, <1>3, <1>6

(* A broadcast is dropped as one had before only if it was had before, its *)
(* number is from another start or another turn, or its modem has the      *)
(* address of another (MiWiPROTasks: the search of PacketRecords, MultiCast *)
(* and MiWiPROSeqNum).                                                     *)
THEOREM TakenForAnother == Spec => Mistaken
<1>1. Init => NumberInv
  BY DEF Init, NumberInv
<1>2. IInv /\ NumberInv /\ [Next]_vars =>
        [\A n \in Nodes : Drop(n) /\ ~FromMyself(n, bank[n]) =>
           LET j == bank[n].id IN
           \E r \in records[n] :
             /\ r.src = bank[n].src /\ r.seq = bank[n].seq
             /\ \/ r.id = j \/ Origin(r.id) # Origin(j)
                \/ log[r.id].start # log[j].start
                \/ Since(r.id, j) >= SEQS \/ Since(j, r.id) >= SEQS]_vars
  BY MistakenIf
<1> QED
  BY <1>1, <1>2, Invariant, NumberStep, PTL DEF Spec, Mistaken
=============================================================================
