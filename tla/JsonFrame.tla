------------------------------ MODULE JsonFrame ------------------------------
(***************************************************************************)
(* How a command line becomes a command on the nRF node: ble_write_thread  *)
(* copies each received buffer into the one shared myJson (getJsonData,    *)
(* myBle.c), and the main loop polls its flag every 500 ms, parses it      *)
(* (uttecJsonTest, uttec.c), sleeps 20 ms and clears it (main.c).  Nothing *)
(* locks myJson.  main outranks the writer (priority 0 against 7), so the  *)
(* writer runs while main sleeps and can be preempted between two bytes,   *)
(* while main runs from one sleep to the next in a single step.            *)
(*                                                                         *)
(* The lines come out of the receive path modelled by UartRx: the bytes in *)
(* order, cut into buffers.  A command is the line "{ a b }" CR LF, a and  *)
(* b being the two halves of its fields; only who sent each half matters.  *)
(***************************************************************************)
EXTENDS NodeUart, Naturals, Sequences

CONSTANTS MaxCommands,       \* bound on the commands sent
          MaxHurried,        \* ... in a hurry
          FRAME_SIZE,        \* sizeof(myJson.frame)
          TEST_MSG_SIZE      \* sizeof(test_msg) in uttecJsonTest

ASSUMPTION JsonFrameAssumption ==
  /\ MaxCommands \in Nat /\ MaxHurried \in 0..MaxCommands
  /\ TEST_MSG_SIZE \in Nat /\ TEST_MSG_SIZE >= UART_BUF_SIZE
  /\ FRAME_SIZE \in Nat /\ FRAME_SIZE >= UART_BUF_SIZE

VARIABLES
  hurried,    \* lines are sent while earlier ones are under way (never changes)
  cut,        \* a buffer may end anywhere, not only after LF (never changes)
  sent,       \* number of commands sent
  seen,       \* main has polled since the last symbol was copied
  permit,     \* ... and has printed a status frame after that
  stream,     \* symbols received and not yet taken by the writer
  chunk, at,  \* the writer's buffer and its index i in getJsonData
  frame, end, flag,   \* myJson
  pc,         \* where main sleeps: "delay", "sleep20", "status"
  odd,        \* parity of sendJsonForStatus's count
  executed    \* commands that uttecJsonTest has carried out

myJson == <<frame, end, flag>>
copier == <<chunk, at>>
choice == <<hurried, cut>>
jsonVars == <<choice, sent, seen, permit, stream, copier, myJson, pc, odd, executed>>

Sym(ch, c) == [ch |-> ch, cmd |-> c]
Symbol     == [ch : {"{", "a", "b", "}", "CR", "LF", "NUL"}, cmd : 0..MaxCommands]
Line(c)    == <<Sym("{", 0), Sym("a", c), Sym("b", c), Sym("}", 0), Sym("CR", 0), Sym("LF", 0)>>
Cleared    == [k \in 0..(FRAME_SIZE - 1) |-> Sym("NUL", 0)]

JsonInit ==
  /\ hurried \in BOOLEAN /\ cut \in BOOLEAN
  /\ sent = 0 /\ seen = FALSE /\ permit = FALSE /\ stream = <<>>
  /\ chunk = <<>> /\ at = 0
  /\ frame = Cleared /\ end = 0 /\ flag = 0
  /\ pc = "delay" /\ odd = FALSE /\ executed = <<>>

-----------------------------------------------------------------------------
(* Somebody sends a command line.  An unhurried sender (an operator who looks   *)
(* at the dashboard's next status frame before pressing again) lets the last    *)
(* line be dealt with first; a script, or a second operator, does not.          *)
Send ==
  /\ IF hurried THEN sent < MaxHurried ELSE permit /\ sent < MaxCommands
  /\ sent' = sent + 1 /\ seen' = FALSE /\ permit' = FALSE
  /\ stream' = stream \o Line(sent + 1)
  /\ UNCHANGED <<choice, copier, myJson, pc, odd, executed>>

(* The receive path closes a buffer after n symbols. *)
EndsBuffer(n) ==
  cut \/ n = UART_BUF_SIZE \/ stream[n].ch = "LF"

TakeBuffer(n) ==
  /\ chunk = <<>> /\ EndsBuffer(n)
  /\ chunk' = SubSeq(stream, 1, n) /\ at' = 0
  /\ stream' = SubSeq(stream, n + 1, Len(stream))
  /\ UNCHANGED <<choice, sent, seen, permit, myJson, pc, odd, executed>>

(* Mutant: the flag counts closing braces. *)
CopyCounts ==
  /\ chunk # <<>>
  /\ LET s == chunk[at + 1]
     IN  /\ frame' = [frame EXCEPT ![at] = s]
         /\ IF s.ch = "}" THEN end' = at /\ flag' = flag + 1 ELSE UNCHANGED <<end, flag>>
  /\ IF at + 1 = Len(chunk) THEN chunk' = <<>> /\ at' = 0 ELSE at' = at + 1 /\ UNCHANGED chunk
  /\ UNCHANGED <<choice, sent, seen, permit, stream, pc, odd, executed>>

(* One round of getJsonData's loop; after the last one the buffer is freed. *)
Copy ==
  /\ chunk # <<>>
  /\ LET s == chunk[at + 1]
     IN  /\ frame' = [frame EXCEPT ![at] = s]
         /\ IF s.ch = "}" THEN end' = at /\ flag' = 1 ELSE UNCHANGED <<end, flag>>
  /\ IF at + 1 = Len(chunk) THEN chunk' = <<>> /\ at' = 0 ELSE at' = at + 1 /\ UNCHANGED chunk
  /\ UNCHANGED <<choice, sent, seen, permit, stream, pc, odd, executed>>

-----------------------------------------------------------------------------
(* json_obj_parse on the first n symbols of the frame: white space, then one *)
(* object; a NUL, or anything else in front of it, is an error.              *)
Blank(k) == frame[k].ch \in {"CR", "LF"}
ObjectAt(k, n) ==
  /\ k + 4 <= n
  /\ frame[k].ch = "{" /\ frame[k + 1].ch = "a"
  /\ frame[k + 2].ch = "b" /\ frame[k + 3].ch = "}"

(* Mutant: the closing brace is left out of the length. *)
ParsedShort(n) ==
  {<<frame[k + 1].cmd, frame[k + 2].cmd>> :
     k \in {j \in 0..(n - 1) : ObjectAt(j, n - 1) /\ \A b \in 0..(j - 1) : Blank(b)}}

Parsed(n) ==
  {<<frame[k + 1].cmd, frame[k + 2].cmd>> :
     k \in {j \in 0..(n - 1) : ObjectAt(j, n) /\ \A b \in 0..(j - 1) : Blank(b)}}

(* main wakes up after its 500 ms and carries out the frame if there is one. *)
Poll ==
  /\ pc = "delay" /\ seen' = (stream = <<>> /\ chunk = <<>>)
  /\ IF flag = 1
     THEN /\ pc' = "sleep20"
          /\ \/ \E command \in Parsed(end + 1) : executed' = Append(executed, command)
             \/ Parsed(end + 1) = {} /\ UNCHANGED executed
     ELSE pc' = "status" /\ UNCHANGED executed
  /\ UNCHANGED <<choice, sent, permit, stream, copier, myJson, odd>>

(* Mutant: clearJsonData is forgotten. *)
ClearForgotten ==
  /\ pc = "sleep20" /\ pc' = "status"
  /\ UNCHANGED <<choice, sent, seen, permit, stream, copier, myJson, odd, executed>>

(* clearJsonData, after 20 ms. *)
Clear ==
  /\ pc = "sleep20" /\ pc' = "status"
  /\ frame' = Cleared /\ end' = 0 /\ flag' = 0
  /\ UNCHANGED <<choice, sent, seen, permit, stream, copier, odd, executed>>

(* sendJsonForStatus prints a status frame every second time. *)
Status ==
  /\ pc = "status" /\ pc' = "delay"
  /\ odd' = ~odd
  /\ permit' = (permit \/ (~odd /\ seen))
  /\ UNCHANGED <<choice, sent, seen, stream, copier, myJson, executed>>

-----------------------------------------------------------------------------
Writer   == Copy \/ \E n \in 1..Len(stream) : n <= UART_BUF_SIZE /\ TakeBuffer(n)
Main     == Poll \/ Clear \/ Status
JsonNext == Send \/ Writer \/ Main

(* Both threads run for ever; nobody is obliged to send. *)
JsonSpec     == JsonInit /\ [][JsonNext]_jsonVars
FairJsonSpec == JsonSpec /\ WF_jsonVars(Writer) /\ WF_jsonVars(Main)

-----------------------------------------------------------------------------
(* However the bytes are cut into buffers and whenever main looks, the length *)
(* main passes to uttecJsonTest fits its local test_msg, and getJsonData      *)
(* stays inside the frame.                                                    *)
NoOverrun ==
  /\ flag = 1 => end + 1 <= TEST_MSG_SIZE
  /\ chunk # <<>> => at < FRAME_SIZE

JsonTypes ==
  /\ hurried \in BOOLEAN /\ cut \in BOOLEAN
  /\ sent \in 0..MaxCommands /\ seen \in BOOLEAN /\ permit \in BOOLEAN
  /\ stream \in Seq(Symbol) /\ chunk \in Seq(Symbol) /\ at \in 0..UART_BUF_SIZE
  /\ frame \in [0..(FRAME_SIZE - 1) -> Symbol]
  /\ end \in Nat /\ flag \in 0..1
  /\ pc \in {"delay", "sleep20", "status"} /\ odd \in BOOLEAN
  /\ executed \in Seq((0..MaxCommands) \X (0..MaxCommands))
  /\ NoOverrun

(* However the bytes are cut and whenever main looks, no part of a command is *)
(* carried out twice or after a part of a later command.                      *)
AtMostOnce ==
  \A m, n \in 1..Len(executed) :
    m < n => executed[m][1] < executed[n][1] /\ executed[m][2] < executed[n][2]

(* When nobody hurries, what is carried out is a command somebody sent, never *)
(* one put together from two, wherever the line is cut.                       *)
NoTornCommand ==
  ~hurried => \A n \in 1..Len(executed) : executed[n][1] = executed[n][2]

(* When nobody hurries and lines are not cut, every command sent is in the    *)
(* end carried out: again and again there is none that is not.                *)
EveryCommandExecuted ==
  ~hurried /\ ~cut =>
    []<>(\A c \in 1..sent : \E n \in 1..Len(executed) : executed[n] = <<c, c>>)
=============================================================================
