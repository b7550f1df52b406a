----------------------------- MODULE EspSerial -----------------------------
(***************************************************************************)
(* How the ESP32 node takes command lines from its UART (parseReceiveJson, *)
(* arduino/forWifi/whybiz/myJson.cpp, called once a round of the loop: see *)
(* EspLoop).  It reads what has arrived into a local array until nothing   *)
(* more is there, parses the array's beginning as one object and carries   *)
(* it out.  What is left over when it returns is gone, and nothing is kept *)
(* for the next call; after MAX_DOC + 1 characters it returns at once and  *)
(* the rest stays in the serial buffer.                                    *)
(*                                                                         *)
(* A command line is a b in braces, CR LF, as in JsonFrame.  External: the *)
(* serial driver, which drops what arrives when its buffer is full, and    *)
(* ArduinoJson: white space, one object, what follows it is not looked at. *)
(***************************************************************************)
EXTENDS Naturals, Sequences

CONSTANTS MaxLines, \* bound on the lines sent
          MAX_DOC,  \* size of the local array
          RxSize    \* size of the driver's buffer

ASSUMPTION SerialAssumption == MaxLines \in Nat /\ MAX_DOC \in Nat /\ RxSize \in Nat

VARIABLES
  lines,    \* number of lines sent
  wire,     \* what is still to arrive
  rx,       \* the driver's buffer
  reading,  \* loop is in parseReceiveJson
  temp,     \* its array, as far as filled
  executed, \* commands carried out
  spoilt,   \* History: lines a call did not find whole, or not at the front
  dropped   \* History: the driver has dropped something

serialVars == <<lines, wire, rx, reading, temp, executed, spoilt, dropped>>

Sym(ch, l) == [ch |-> ch, line |-> l]
Line(l)    == <<Sym("open", l), Sym("a", l), Sym("b", l), Sym("close", l),
                Sym("CR", l), Sym("LF", l)>>
Blanks     == {"CR", "LF"}

SerialInit ==
  /\ lines = 0 /\ wire = <<>> /\ rx = <<>> /\ reading = FALSE /\ temp = <<>>
  /\ executed = <<>> /\ spoilt = {} /\ dropped = FALSE

-----------------------------------------------------------------------------
Send ==
  /\ lines < MaxLines /\ lines' = lines + 1
  /\ wire' = wire \o Line(lines + 1)
  /\ UNCHANGED <<rx, reading, temp, executed, spoilt, dropped>>

Arrive ==
  /\ wire # <<>> /\ wire' = Tail(wire)
  /\ IF Len(rx) < RxSize THEN rx' = Append(rx, Head(wire)) /\ UNCHANGED dropped
                         ELSE dropped' = TRUE /\ UNCHANGED rx
  /\ UNCHANGED <<lines, reading, temp, executed, spoilt>>

(* Mutant: the array is kept from the call before. *)
CallKeeps ==
  /\ ~reading /\ reading' = TRUE /\ UNCHANGED temp
  /\ UNCHANGED <<lines, wire, rx, executed, spoilt, dropped>>

Call ==
  /\ ~reading /\ reading' = TRUE /\ temp' = <<>>
  /\ UNCHANGED <<lines, wire, rx, executed, spoilt, dropped>>

-----------------------------------------------------------------------------
Chars(s) == {s[k].ch : k \in DOMAIN s}

(* deserializeJson: the two halves of the object at the front, if there is one. *)
Objects(s) ==
  {<<s[k + 1].line, s[k + 2].line>> :
     k \in {j \in DOMAIN s : /\ j + 3 <= Len(s)
                             /\ [i \in 1..4 |-> s[j + i - 1].ch] = <<"open", "a", "b", "close">>
                             /\ Chars(SubSeq(s, 1, j - 1)) \subseteq Blanks}}

(* History: the lines of which s holds a part that matters, and the first of *)
(* them that s holds whole.                                                  *)
In(s)    == {s[k].line : k \in {j \in DOMAIN s : s[j].ch \notin Blanks}}
Served(s) == {l \in In(s) : /\ \A m \in In(s) : l <= m
                           /\ \E k \in DOMAIN s : /\ k + 3 <= Len(s)
                                                  /\ \A i \in 1..4 : s[k + i - 1] = Line(l)[i]}

Return ==
  /\ reading' = FALSE /\ UNCHANGED temp
  /\ spoilt' = spoilt \cup (In(temp) \ Served(temp))

(* Mutant: the check is left out. *)
ReadOn ==
  /\ reading /\ rx # <<>>
  /\ temp' = Append(temp, Head(rx)) /\ rx' = Tail(rx)
  /\ UNCHANGED <<lines, wire, reading, executed, spoilt, dropped>>

(* One round of the loop: the character is stored, then counted. *)
Read ==
  /\ reading /\ rx # <<>> /\ Len(temp) <= MAX_DOC
  /\ temp' = Append(temp, Head(rx)) /\ rx' = Tail(rx)
  /\ UNCHANGED <<lines, wire, reading, executed, spoilt, dropped>>

(* The return in the loop: nothing is parsed. *)
GiveUp ==
  /\ reading /\ Len(temp) > MAX_DOC
  /\ reading' = FALSE /\ UNCHANGED temp
  /\ spoilt' = spoilt \cup In(temp)
  /\ UNCHANGED <<lines, wire, rx, executed, dropped>>

(* Mutant: the object has to end what was read. *)
ParseLast ==
  /\ reading /\ rx = <<>> /\ Len(temp) <= MAX_DOC
  /\ IF temp # <<>> /\ temp[Len(temp)].ch = "close" /\ Objects(temp) # {}
       THEN executed' = Append(executed, CHOOSE o \in Objects(temp) : TRUE)
       ELSE UNCHANGED executed
  /\ Return
  /\ UNCHANGED <<lines, wire, rx, dropped>>

(* Nothing more is available: parse, if there has been a brace of each kind. *)
Parse ==
  /\ reading /\ rx = <<>> /\ Len(temp) <= MAX_DOC
  /\ IF {"open", "close"} \subseteq Chars(temp) /\ Objects(temp) # {}
       THEN executed' = Append(executed, CHOOSE o \in Objects(temp) : TRUE)
       ELSE UNCHANGED executed
  /\ Return
  /\ UNCHANGED <<lines, wire, rx, dropped>>

-----------------------------------------------------------------------------
SerialTypes ==
  LET Stream == Seq([ch : {"open", "a", "b", "close", "CR", "LF"}, line : 1..MaxLines])
  IN  /\ lines \in 0..MaxLines /\ wire \in Stream /\ rx \in Stream /\ temp \in Stream
      /\ Len(rx) <= RxSize /\ Len(temp) <= MAX_DOC + 1
      /\ reading \in BOOLEAN /\ dropped \in BOOLEAN
      /\ executed \in Seq((1..MaxLines) \X (1..MaxLines))
      /\ spoilt \subseteq 1..MaxLines

Carried == {executed[k][1] : k \in DOMAIN executed}

(* As long as the driver drops nothing: no command is made of two lines, none  *)
(* is carried out twice and none out of turn, however the calls cut the        *)
(* stream, and the lines lost are those that a call found cut, behind another  *)
(* line or behind the rest of one (parseReceiveJson keeps nothing of a call).  *)
LinesKept ==
  ~dropped =>
    /\ \A k \in DOMAIN executed : executed[k][1] = executed[k][2]
    /\ \A j, k \in DOMAIN executed : j < k => executed[j][1] < executed[k][1]
    /\ wire = <<>> /\ rx = <<>> /\ ~reading => Carried = (1..lines) \ spoilt

(* Every line sent is in the end carried out, or one of those that are lost. *)
LineDealtWith ==
  \A l \in 1..MaxLines : lines >= l ~> (l \in Carried \cup spoilt \/ dropped)
=============================================================================
