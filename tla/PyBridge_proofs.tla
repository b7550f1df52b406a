-------------------------- MODULE PyBridge_proofs --------------------------
(***************************************************************************)
(* Proofs about the bridge's two globals, for any number of status lines   *)
(* and commands and any failures.                                          *)
(***************************************************************************)
EXTENDS PyBridge, TLAPS

(* Every variable of the bridge keeps its type. *)
THEOREM BridgeTypes == Spec => []TypeOK
<1>1. Init => TypeOK
  <2> SUFFICES ASSUME Init PROVE TypeOK
    OBVIOUS
  <2>1. times \in [1..MaxCommands -> Nat]
    BY DEF Init
  <2>2. 0 \in 0..MaxCommands /\ 0 \in 0..MaxStatus
    BY BridgeAssumption
  <2> QED
    BY <2>1, <2>2 DEF Init, TypeOK
<1>2. TypeOK /\ [Next]_vars => TypeOK'
  <2> SUFFICES ASSUME TypeOK, [Next]_vars PROVE TypeOK'
    OBVIOUS
  <2> USE BridgeAssumption DEF TypeOK, globals, stream, history
  <2>1. CASE NodeSends
    BY <2>1 DEF NodeSends
  <2>2. CASE NodeEnds
    BY <2>2 DEF NodeEnds
  <2>3. CASE Recv
    BY <2>3 DEF Recv
  <2>4. CASE If
    BY <2>4 DEF If
  <2>5. CASE Clear
    BY <2>5 DEF Clear
  <2>6. CASE Sendall
    BY <2>6 DEF Sendall, Fail
  <2>7. CASE Forward
    BY <2>7 DEF Forward, Fail
  <2>8. CASE Accept
    BY <2>8 DEF Accept
  <2>9. CASE SetFlag
    BY <2>9 DEF SetFlag
  <2>10. CASE SetData
    BY <2>10 DEF SetData
  <2>11. CASE UNCHANGED vars
    BY <2>11 DEF vars
  <2> QED
    BY <2>1, <2>2, <2>3, <2>4, <2>5, <2>6, <2>7, <2>8, <2>9, <2>10, <2>11
    DEF Next, SendThread, ReceiveThread
<1> QED
  BY <1>1, <1>2, PTL DEF Spec

-----------------------------------------------------------------------------
(* How often the data now in sendData may still be sent: by a hand-over that *)
(* is under way, by the flag that is up (one that is about to be taken down  *)
(* does not count), and by the flag of the next command.                     *)
UnderWay == IF pc \in {"clear", "sendall"} THEN 1 ELSE 0
Raised   == IF sendFlag /\ pc # "clear" THEN 1 ELSE 0
NextFlag == IF accepting # "data" THEN 1 ELSE 0

(* sendData is the newest command once it is assigned, the one before until   *)
(* then, and what has been sent with what may still be sent comes to three.   *)
Counted ==
  /\ IF accepting = "accept" THEN sendData = command ELSE command = sendData + 1
  /\ obeyed <= sendData
  /\ \A c \in 1..MaxCommands : times[c] <= 3 /\ (times[c] > 0 => c <= obeyed)
  /\ sendData > 0 => times[sendData] + UnderWay + Raised + NextFlag <= 3

LEMMA CountedInductive == TypeOK /\ Counted /\ [Next]_vars => Counted'
<1> SUFFICES ASSUME TypeOK, Counted, [Next]_vars PROVE Counted'
  OBVIOUS
<1> USE BridgeAssumption DEF TypeOK, Counted, UnderWay, Raised, NextFlag
<1>1. CASE NodeSends \/ NodeEnds \/ Recv \/ Forward \/ UNCHANGED vars
  <2>1. /\ UNCHANGED <<sendFlag, sendData, accepting, command, obeyed, times>>
        /\ UNCHANGED pc \/ (pc' \notin {"clear", "sendall"} /\ pc \notin {"clear", "sendall"})
    BY <1>1 DEF NodeSends, NodeEnds, Recv, Forward, Fail, vars, globals, stream, history
  <2> QED
    BY <2>1
<1>2. CASE If \/ Clear
  <2>1. /\ UNCHANGED <<sendData, accepting, command, obeyed, times>>
        /\ UnderWay' + Raised' = UnderWay + Raised
    BY <1>2 DEF If, Clear, globals, stream, history
  <2> QED
    BY <2>1
<1>3. CASE Sendall
  <2>1. CASE UNCHANGED <<obeyed, times>>
    BY <1>3, <2>1 DEF Sendall, Fail, globals, stream
  <2>2. CASE sendData # 0 /\ obeyed' = sendData /\ pc' = "forward"
             /\ times' = [times EXCEPT ![sendData] = @ + 1]
    <3>1. /\ pc = "sendall" /\ UNCHANGED <<sendFlag, sendData, accepting, command>>
          /\ sendData \in 1..MaxCommands
      BY <1>3, <2>2 DEF Sendall, globals
    <3>2. \A c \in 1..MaxCommands : times[c] > 0 => c <= sendData
      OBVIOUS
    <3>3. times'[sendData] = times[sendData] + 1 /\ times[sendData] \in Nat
      BY <2>2, <3>1
    <3>4. times'[sendData] + UnderWay' + Raised' + NextFlag' <= 3
      BY <2>2, <3>1, <3>3
    <3>5. times'[sendData] <= 3
      BY <3>3, <3>4
    <3>6. \A c \in 1..MaxCommands : c # sendData => times'[c] = times[c]
      BY <2>2
    <3> QED
      BY <2>2, <3>1, <3>2, <3>3, <3>4, <3>5, <3>6
  <2> QED
    BY <1>3, <2>1, <2>2 DEF Sendall
<1>4. CASE Accept
  BY <1>4 DEF Accept, globals, stream, history
<1>5. CASE SetFlag
  BY <1>5 DEF SetFlag, globals, stream, history
<1>6. CASE SetData
  <2>1. sendData' = sendData + 1 /\ sendData' = command /\ accepting' = "accept"
        /\ UNCHANGED <<times, obeyed, command, pc, sendFlag>>
    BY <1>6 DEF SetData, history
  <2>2. times[command] = 0
    BY <2>1
  <2> QED
    BY <2>1, <2>2
<1> QED
  BY <1>1, <1>2, <1>3, <1>4, <1>5, <1>6 DEF Next, SendThread, ReceiveThread

(* Whatever the interleaving of the two threads, a command reaches the node at *)
(* most three times and never after a later one.                               *)
THEOREM Thrice == Spec => []AtMostThrice
<1>1. Init => Counted
  BY BridgeAssumption DEF Init, Counted, UnderWay, Raised, NextFlag
<1>2. Counted /\ TypeOK => AtMostThrice
  BY DEF Counted, AtMostThrice, TypeOK
<1> QED
  BY <1>1, <1>2, BridgeTypes, CountedInductive, PTL DEF Spec

-----------------------------------------------------------------------------
(* As long as no hand-overs have met: the flag that is up is that of a command *)
(* that has not been sent, one that has been seen stays up until it is taken   *)
(* down for the command that is then sent, and a command that is neither       *)
(* waiting nor under way has reached the node.                                 *)
Clean ==
  /\ pc \in {"clear", "sendall"} => accepting # "data"
  /\ pc = "clear" => sendFlag
  /\ pc = "sendall" => ~sendFlag
  /\ accepting = "data" => sendFlag
  /\ \A c \in 1..MaxCommands : times[c] <= 1
  /\ (sendFlag /\ accepting # "data") \/ pc = "sendall"
     => sendData > 0 /\ times[sendData] = 0
  /\ client = "open" /\ ~sendFlag /\ accepting # "data" /\ pc # "sendall"
     => obeyed = sendData

LEMMA CleanInductive ==
  TypeOK /\ Counted /\ (~overlapped => Clean) /\ [Next]_vars
  => (~overlapped => Clean)'
<1> SUFFICES ASSUME TypeOK, Counted, ~overlapped', ~overlapped => Clean, [Next]_vars
             PROVE  Clean'
  OBVIOUS
<1> USE BridgeAssumption DEF TypeOK
<1>1. ~overlapped
  BY DEF Next, SendThread, ReceiveThread, NodeSends, NodeEnds, Recv, If, Clear, Sendall,
         Forward, Accept, SetFlag, SetData, vars, history
<1>2. Clean
  BY <1>1
<1> HIDE DEF TypeOK
<1> USE <1>2 DEF Clean
<1>3. CASE NodeSends \/ NodeEnds \/ Recv \/ Forward \/ Accept \/ UNCHANGED vars
  BY <1>3 DEF NodeSends, NodeEnds, Recv, Forward, Fail, Accept,
              vars, globals, stream, history
<1>4. CASE If \/ Clear
  BY <1>4 DEF If, Clear, globals, stream, history, TypeOK
<1>5. CASE Sendall
  <2>1. pc = "sendall" /\ ~sendFlag /\ accepting # "data" /\ pc' # "sendall" /\ pc' # "clear"
        /\ UNCHANGED <<sendFlag, sendData, accepting>> /\ sendData > 0 /\ times[sendData] = 0
    BY <1>5 DEF Sendall, Fail, globals
  <2>2. sendData \in 1..MaxCommands
    BY <2>1 DEF TypeOK
  <2>3. CASE client = "open" /\ obeyed' = sendData
             /\ times' = [times EXCEPT ![sendData] = @ + 1]
    <3>1. \A c \in 1..MaxCommands : times'[c] = IF c = sendData THEN 1 ELSE times[c]
      BY <2>1, <2>2, <2>3 DEF TypeOK
    <3> QED
      BY <2>1, <2>3, <3>1
  <2>4. CASE client' # "open" /\ UNCHANGED times
    BY <2>1, <2>4
  <2> QED
    BY <1>5, <2>3, <2>4 DEF Sendall, Fail
<1>6. CASE SetFlag
  BY <1>6, <1>1 DEF SetFlag, globals, stream, history, TypeOK
<1>7. CASE SetData
  <2>1. sendData' = command /\ command = sendData + 1 /\ accepting = "data"
        /\ accepting' = "accept" /\ UNCHANGED <<times, obeyed, client, pc, sendFlag>>
    BY <1>7 DEF SetData, Counted, history
  <2>2. sendData' > 0 /\ times[sendData'] = 0
    BY <2>1 DEF Counted, TypeOK
  <2> QED
    BY <2>1, <2>2
<1> QED
  BY <1>3, <1>4, <1>5, <1>6, <1>7 DEF Next, SendThread, ReceiveThread

(* Without an overlap no command is sent twice, and when the flag is down the *)
(* node has the last one, unless the connection failed.                       *)
THEOREM HandOver == Spec => []HandedOver
<1>1. Init => Counted /\ (~overlapped => Clean)
  BY BridgeAssumption DEF Init, Counted, UnderWay, Raised, NextFlag, Clean
<1>2. TypeOK /\ Counted /\ (~overlapped => Clean) => HandedOver
  BY DEF Counted, Clean, HandedOver, TypeOK
<1> QED
  BY <1>1, <1>2, BridgeTypes, CountedInductive, CleanInductive, PTL DEF Spec
=============================================================================
