------------------------------ MODULE PyBridge ------------------------------
(***************************************************************************)
(* The bridge between a node's TCP server and Node-RED                     *)
(* (python/whybiz.py).  One thread reads the node's status lines, forwards *)
(* each piece it reads over a new connection to Node-RED and, in between,  *)
(* sends the node the command it finds in two globals, sendFlag and        *)
(* sendData.  The other thread receives Node-RED's commands and sets the   *)
(* two globals, the flag first, without a lock.  An exception in the first *)
(* thread closes its socket to the node, and nothing opens it again.       *)
(*                                                                         *)
(* Status lines and commands are numbered; command 0 is the empty string   *)
(* sendData starts as, which sendall refuses.  External: sockets.  A       *)
(* stream's bytes arrive in order, and recv returns any part of them.      *)
(***************************************************************************)
EXTENDS Naturals

CONSTANTS MaxStatus, MaxCommands, \* bounds
          MayFail                 \* whether connections may fail

ASSUMPTION BridgeAssumption ==
  MaxStatus \in Nat /\ MaxCommands \in Nat /\ MayFail \in BOOLEAN

VARIABLES
  sendFlag, sendData, \* the globals
  client,             \* the socket to the node: "open", "ended" (by the node) or "closed"
  pc,                 \* SendThread: "recv", "if", "clear", "sendall", "forward"
  accepting,          \* ReceiveThread: "accept", "flag" or "data", the assignment it is at
  command,            \* number of the last command accepted
  status, read, shown,\* status lines sent by the node, read, and seen by Node-RED
  obeyed,             \* number of the last command that reached the node
  times,              \* History: how often each command has reached it
  overlapped          \* History: a hand-over of one thread met one of the other's

globals == <<sendFlag, sendData>>
stream  == <<status, read, shown>>
history == <<obeyed, times, overlapped>>
vars    == <<globals, client, pc, accepting, command, stream, history>>

Init ==
  /\ sendFlag = FALSE /\ sendData = 0 /\ client = "open"
  /\ pc = "recv" /\ accepting = "accept" /\ command = 0
  /\ status = 0 /\ read = 0 /\ shown = 0
  /\ obeyed = 0 /\ times = [c \in 1..MaxCommands |-> 0] /\ overlapped = FALSE

-----------------------------------------------------------------------------
(* The node sends a status line, or its end of the connection is gone. *)
NodeSends ==
  /\ client = "open" /\ status < MaxStatus /\ status' = status + 1
  /\ UNCHANGED <<globals, client, pc, accepting, command, read, shown, history>>

NodeEnds ==
  /\ MayFail /\ client = "open" /\ client' = "ended"
  /\ UNCHANGED <<globals, pc, accepting, command, stream, history>>

(* recv waits for bytes; after the node's end it returns none at once, and on *)
(* the closed socket it raises, the handler runs and the loop goes round.     *)
Recv ==
  /\ pc = "recv" /\ client # "closed" /\ (client = "open" => read < status)
  /\ IF read < status THEN \E n \in (read + 1)..status : read' = n ELSE UNCHANGED read
  /\ pc' = "if"
  /\ UNCHANGED <<globals, client, accepting, command, status, shown, history>>

If ==
  /\ pc = "if" /\ pc' = IF sendFlag THEN "clear" ELSE "forward"
  /\ overlapped' = (overlapped \/ (sendFlag /\ accepting = "data"))
  /\ UNCHANGED <<globals, client, accepting, command, stream, obeyed, times>>

(* Mutant: the flag is left for the next round. *)
ClearNot ==
  /\ pc = "clear" /\ pc' = "sendall"
  /\ UNCHANGED <<globals, client, accepting, command, stream, history>>

Clear ==
  /\ pc = "clear" /\ sendFlag' = FALSE /\ pc' = "sendall"
  /\ UNCHANGED <<sendData, client, accepting, command, stream, history>>

(* The exception handler. *)
Fail == client' = "closed" /\ pc' = "recv"

Sendall ==
  /\ pc = "sendall"
  /\ \/ /\ client = "open" /\ sendData # 0
        /\ obeyed' = sendData /\ times' = [times EXCEPT ![sendData] = @ + 1]
        /\ pc' = "forward" /\ UNCHANGED client
     \/ /\ client = "ended" /\ sendData # 0
        /\ pc' = "forward" /\ UNCHANGED <<client, obeyed, times>>
     \/ /\ sendData = 0 \/ MayFail
        /\ Fail /\ UNCHANGED <<obeyed, times>>
  /\ UNCHANGED <<globals, accepting, command, stream, overlapped>>

(* Mutant: what Node-RED does not take is dropped and the reading goes on. *)
ForwardOrDrop ==
  /\ pc = "forward" /\ pc' = "recv" /\ shown' \in {read, shown}
  /\ UNCHANGED <<globals, client, accepting, command, status, read, history>>

(* Everything read so far, whose beginning is there already, goes to Node-RED. *)
Forward ==
  /\ pc = "forward"
  /\ \/ shown' = read /\ pc' = "recv" /\ UNCHANGED client
     \/ MayFail /\ Fail /\ UNCHANGED shown
  /\ UNCHANGED <<globals, accepting, command, status, read, history>>

-----------------------------------------------------------------------------
(* A connection from Node-RED with a command that can be decoded. *)
Accept ==
  /\ accepting = "accept" /\ accepting' = "flag"
  /\ command < MaxCommands /\ command' = command + 1
  /\ UNCHANGED <<globals, client, pc, stream, history>>

SetFlag ==
  /\ accepting = "flag" /\ accepting' = "data" /\ sendFlag' = TRUE
  /\ overlapped' = (overlapped \/ pc \in {"clear", "sendall"})
  /\ UNCHANGED <<sendData, client, pc, command, stream, obeyed, times>>

(* Mutant: the data is left as it was when a command is still waiting. *)
SetDataOnce ==
  /\ accepting = "data" /\ accepting' = "accept"
  /\ sendData' = IF sendData = obeyed THEN command ELSE sendData
  /\ UNCHANGED <<sendFlag, client, pc, command, stream, history>>

SetData ==
  /\ accepting = "data" /\ accepting' = "accept" /\ sendData' = command
  /\ UNCHANGED <<sendFlag, client, pc, command, stream, history>>

-----------------------------------------------------------------------------
SendThread    == Recv \/ If \/ Clear \/ Sendall \/ Forward
ReceiveThread == SetFlag \/ SetData
Next == NodeSends \/ NodeEnds \/ SendThread \/ Accept \/ ReceiveThread

Spec     == Init /\ [][Next]_vars
FairSpec == Spec /\ WF_vars(SendThread) /\ WF_vars(ReceiveThread)

-----------------------------------------------------------------------------
TypeOK ==
  /\ sendFlag \in BOOLEAN /\ sendData \in 0..MaxCommands /\ overlapped \in BOOLEAN
  /\ client \in {"open", "ended", "closed"}
  /\ pc \in {"recv", "if", "clear", "sendall", "forward"}
  /\ accepting \in {"accept", "flag", "data"}
  /\ command \in 0..MaxCommands /\ obeyed \in 0..MaxCommands
  /\ status \in 0..MaxStatus /\ read \in 0..MaxStatus /\ shown \in 0..MaxStatus
  /\ times \in [1..MaxCommands -> Nat]

(* Whatever the threads do to each other, a command reaches the node at most   *)
(* three times: early, when it overtakes the one whose flag was seen, with its *)
(* own flag, and once more when the next command's flag is seen before its     *)
(* data; and never after a later one (SendThread.bind, ReceiveThread.bind).    *)
AtMostThrice ==
  /\ \A c \in 1..MaxCommands : times[c] <= 3 /\ (times[c] > 0 => c <= obeyed)
  /\ obeyed <= command

(* Unless two hand-overs met, no command reaches the node twice, and once the *)
(* flag is down the node has the last one: a lost or repeated command takes   *)
(* an overlap or a failed connection.                                         *)
HandedOver ==
  ~overlapped =>
    /\ \A c \in 1..MaxCommands : times[c] <= 1
    /\ client = "open" /\ ~sendFlag /\ accepting = "accept" /\ pc # "sendall"
       => obeyed = command

(* Every status line the node sends reaches Node-RED, unless a connection fails *)
(* first: the bridge may not go on without it.                                  *)
StatusShown ==
  \A n \in 1..MaxStatus : status >= n ~> (shown >= n \/ client # "open")

(* A command waits for the node's next status line, since recv blocks, and then *)
(* reaches the node, unless a later one takes its place, the hand-overs met or  *)
(* the connection fails.                                                        *)
CommandLeaves ==
  \A c \in 1..MaxCommands :
    (command = c /\ sendFlag /\ accepting = "accept" /\ pc = "recv" /\ read < status)
      ~> (times[c] > 0 \/ command > c \/ overlapped \/ client # "open")

(* Both directions: the bridge stops only with a connection that fails.        *)
GetsThrough == StatusShown /\ CommandLeaves
=============================================================================
