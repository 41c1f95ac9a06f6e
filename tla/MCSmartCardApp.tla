--------------------------- MODULE MCSmartCardApp ---------------------------
(***************************************************************************)
(* SmartCardApp for TLC, with the exchange of its APDU button.             *)
(***************************************************************************)
EXTENDS SmartCardApp, HexCodec

(* Bound: exchanges are told of only when nothing else is under way.  They *)
(* share no variable with the application, so that what the threads and    *)
(* the environment do meanwhile may as well come before or after.          *)
Calm == /\ asked = {} /\ broadcasts = <<>> /\ attached = Devices
        /\ \A t \in Tasks : tasks[t] = "sleep"

MCInit == Init /\ CodecInit

SendAPDUOnClick == /\ Clicked("APDU") /\ Calm
                   /\ \E text \in Texts : SendText(text)

Exchange == \/ ToByteArray
            \/ \E octets \in Replies : Reply(octets)
            \/ LogBuffer
            \/ Finish

MCNext == \/ phase = "idle" /\ Next /\ UNCHANGED codecVars
          \/ (SendAPDUOnClick \/ Exchange) /\ UNCHANGED vars

MCSpec == MCInit /\ [][MCNext]_<<vars, codecVars>>
=============================================================================
