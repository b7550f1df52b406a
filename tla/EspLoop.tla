------------------------------ MODULE EspLoop ------------------------------
(***************************************************************************)
(* The Arduino loop of the ESP32 node (whybiz.ino, built with              *)
(* BLE_PROGRAM): one round calls loop_ble (EspLink), then parseReceiveJson *)
(* (EspSerial), then waits.  The serial driver and the Bluetooth task go   *)
(* on meanwhile: characters arrive while loop_ble waits half a second for  *)
(* a phone that has gone, phones come and go while a line is being read.   *)
(***************************************************************************)
EXTENDS EspSerial

VARIABLES
  deviceConnected, oldDeviceConnected, advertising, where, rounds, brief, \* EspLink
  polled \* parseReceiveJson has been called in this round

Link == INSTANCE EspLink

link    == <<deviceConnected, oldDeviceConnected, advertising, where, rounds, brief>>
allVars == <<serialVars, link, polled>>

LoopInit == SerialInit /\ Link!Init /\ polled = TRUE

-----------------------------------------------------------------------------
(* loop_ble, from its call to its return. *)
LoopBle ==
  \/ Link!Round /\ polled /\ ~reading /\ polled' = FALSE /\ UNCHANGED serialVars
  \/ Link!Rest /\ UNCHANGED <<serialVars, polled>>

(* parseReceiveJson, once a round. *)
Receive ==
  \/ Call /\ where = "rest" /\ ~polled /\ polled' = TRUE /\ UNCHANGED link
  \/ (Read \/ GiveUp \/ Parse) /\ UNCHANGED <<link, polled>>

Bluetooth == (Link!Connect \/ Link!Disconnect) /\ UNCHANGED <<serialVars, polled>>
Serial    == (Send \/ Arrive) /\ UNCHANGED <<link, polled>>

LoopNext == LoopBle \/ Receive \/ Bluetooth \/ Serial

(* loop is called for ever, and the line delivers what it carries. *)
LoopSpec ==
  /\ LoopInit /\ [][LoopNext]_allVars
  /\ WF_allVars(LoopBle \/ Receive)
  /\ WF_allVars(Arrive /\ UNCHANGED <<link, polled>>)

-----------------------------------------------------------------------------
LoopTypes == SerialTypes /\ Link!LinkTypes /\ polled \in BOOLEAN

(* After every connection that has lasted a round of the loop, the node can be *)
(* connected to again; one that came and went between two looks of loop_ble    *)
(* leaves no trace, and the node is out of reach until a reset (brief).        *)
ComesBack == []<>(deviceConnected \/ advertising \/ brief)
=============================================================================
