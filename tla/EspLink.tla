------------------------------ MODULE EspLink ------------------------------
(***************************************************************************)
(* The phone's link to the ESP32 node (arduino/forWifi/whybiz, built with  *)
(* BLE_PROGRAM).  The Bluetooth task sets deviceConnected from its         *)
(* callbacks; loop_ble, once a round of the Arduino loop, compares it with *)
(* oldDeviceConnected and starts advertising again after a disconnection.  *)
(* The two run on different cores: every read of deviceConnected is a step *)
(* of its own.                                                             *)
(*                                                                         *)
(* External: the Bluetooth library.  Advertising ends with a connection    *)
(* and only startAdvertising starts it; a phone connects while it goes on. *)
(***************************************************************************)
EXTENDS Naturals

VARIABLES
  deviceConnected, oldDeviceConnected,
  advertising,
  where,   \* where loop is: "rest" (all of loop but loop_ble), "old", "restart",
           \* "record" and "new", the conditions and assignments of loop_ble
  rounds,  \* History: ends of loop_ble since the phone connected, counted to 2
  brief    \* History: a connection has ended before it saw a whole round

history == <<rounds, brief>>
vars    == <<deviceConnected, oldDeviceConnected, advertising, where, history>>

Init ==
  /\ deviceConnected = FALSE /\ oldDeviceConnected = FALSE /\ advertising = TRUE
  /\ where = "rest" /\ rounds = 0 /\ brief = FALSE

-----------------------------------------------------------------------------
(* onConnect and onDisconnect, in the Bluetooth task. *)
Connect ==
  /\ ~deviceConnected /\ advertising
  /\ deviceConnected' = TRUE /\ advertising' = FALSE /\ rounds' = 0
  /\ UNCHANGED <<oldDeviceConnected, where, brief>>

Disconnect ==
  /\ deviceConnected /\ deviceConnected' = FALSE
  /\ brief' = (brief \/ rounds < 2)
  /\ UNCHANGED <<oldDeviceConnected, advertising, where, rounds>>

(* loop calls loop_ble, which notifies a connected phone first. *)
Round ==
  /\ where = "rest" /\ where' = "old"
  /\ UNCHANGED <<deviceConnected, oldDeviceConnected, advertising, history>>

(* Mutant: the second condition is tried only if the first is false. *)
OldElse ==
  /\ where = "old" /\ where' = IF oldDeviceConnected THEN "restart" ELSE "new"
  /\ UNCHANGED <<deviceConnected, oldDeviceConnected, advertising, history>>

(* if (!deviceConnected && oldDeviceConnected), then 500 ms of delay. *)
Old ==
  /\ where = "old"
  /\ where' = IF ~deviceConnected /\ oldDeviceConnected THEN "restart" ELSE "new"
  /\ UNCHANGED <<deviceConnected, oldDeviceConnected, advertising, history>>

(* startAdvertising; with a phone connected there is nothing to start. *)
Restart ==
  /\ where = "restart" /\ where' = "record"
  /\ advertising' = ~deviceConnected
  /\ UNCHANGED <<deviceConnected, oldDeviceConnected, history>>

Record ==
  /\ where = "record" /\ where' = "new"
  /\ oldDeviceConnected' = deviceConnected
  /\ UNCHANGED <<deviceConnected, advertising, history>>

EndRound == where' = "rest" /\ rounds' = IF rounds < 2 THEN rounds + 1 ELSE rounds

(* if (deviceConnected && !oldDeviceConnected); the assignment reads again. *)
New ==
  /\ where = "new"
  /\ IF deviceConnected /\ ~oldDeviceConnected
       THEN where' = "record again" /\ UNCHANGED rounds
       ELSE EndRound
  /\ UNCHANGED <<deviceConnected, oldDeviceConnected, advertising, brief>>

RecordAgain ==
  /\ where = "record again" /\ EndRound
  /\ oldDeviceConnected' = deviceConnected
  /\ UNCHANGED <<deviceConnected, advertising, brief>>

-----------------------------------------------------------------------------
Rest == Old \/ Restart \/ Record \/ New \/ RecordAgain

LinkTypes ==
  /\ deviceConnected \in BOOLEAN /\ oldDeviceConnected \in BOOLEAN
  /\ advertising \in BOOLEAN /\ brief \in BOOLEAN /\ rounds \in 0..2
  /\ where \in {"rest", "old", "restart", "record", "new", "record again"}
=============================================================================
