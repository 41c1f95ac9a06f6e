-------------------------- MODULE CardReaderSystem --------------------------
(***************************************************************************)
(* The reader as one system: the accessory's driver, of which UsbSwitch is *)
(* the promise that CardReaderDriver keeps, the USB bus, and SmartCardApp. *)
(* The driver's output routes the bus; the reader is attached and detached *)
(* as it is routed, later, and by nothing else.                            *)
(***************************************************************************)
EXTENDS SmartCardApp

CONSTANTS
  Reader,  \* the device behind the switch
  ToReader \* the output that routes USB to it: the board's, not the driver's

ASSUME SystemConstants == Reader \in Alcor /\ ToReader \in {"low", "high"}

VARIABLES serving, want, out, due

OPEN  == 1
CLOSE == 0

SwitchFor(s) == IF s = OPEN THEN "low" ELSE "high"

Driver == INSTANCE UsbSwitch WITH Wants <- {OPEN, CLOSE}, Outs <- {"low", "high"}, For <- SwitchFor

driver  == <<serving, want, out, due>>
sysVars == <<vars, driver>>

Routed == out = ToReader

SysInit == Init /\ Driver!Init /\ attached = IF Routed THEN {Reader} ELSE {}

-----------------------------------------------------------------------------
DriverStep == Driver!Next /\ UNCHANGED vars

Enumerate  == Routed /\ Attach(Reader) /\ UNCHANGED driver
Disconnect == ~Routed /\ Detach(Reader) /\ UNCHANGED driver
Bus        == Enumerate \/ Disconnect

AppStep == /\ ui # "crashed"
           /\ \/ Lifecycle \/ Click \/ PowerOffStop \/ Receive
              \/ \E t \in Tasks : TaskStep(t)
              \/ Answer(Reader) \/ MoveCard
           /\ UNCHANGED driver

SysNext == DriverStep \/ (Bus /\ ui # "crashed") \/ AppStep

SysSpec == SysInit /\ [][SysNext]_sysVars

(* The bus follows the driver (strongly, as MaxBroadcasts may hold it up   *)
(* for a while), the UI thread's queue is served in order, so that what    *)
(* waits comes through between clicks, PowerOff goes on to its end, and    *)
(* threads run; the user does nothing for it.  This is strong fairness of  *)
(* Bus and Receive and weak fairness of PowerOffStop, with what enables    *)
(* each, and what it alone changes time and again, written out.            *)
BusMay     == /\ ui # "crashed"
              /\ IF Routed THEN Reader \notin attached
                 ELSE Reader \in attached /\ (Registered => Len(broadcasts) < MaxBroadcasts)
ReceiveMay == Registered /\ UiFree /\ broadcasts # <<>>

SysFairSpec ==
  /\ SysSpec
  /\ <>[](~BusMay) \/ []<><<TRUE>>_attached
  /\ <>[](~ReceiveMay) \/ []<><<Len(broadcasts') < Len(broadcasts)>>_broadcasts
  /\ []<>(ui # "stopping")
  /\ \A t \in Tasks : Scheduled(t)

-----------------------------------------------------------------------------
(* PowerOff, ATR and APDU belong to a connection and are withdrawn by a    *)
(* detachment.  Protocol, which the same handler forgets (622-628), stays  *)
(* enabled beside Connect and shows nothing.                               *)
ShowsConnection == activity = "visible" /\ enabled \cap {"ATR", "APDU", "PowerOff"} # {}

News(k) == \E i \in 1 .. Len(broadcasts) : broadcasts[i] = [kind |-> k, device |-> Reader]

(* However the accessory bounces while the user clicks and the broadcasts  *)
(* lag behind: the application shows a connection (427-436) only while the *)
(* reader is on the bus or the news that it left is on its way.            *)
ConnectionKnown == ShowsConnection => Reader \in attached \/ News("detached")

(* Once the accessory stays away, and the outputs with it (the driver's    *)
(* promise, CardReaderDriver!PromiseAnswered), the application comes to    *)
(* show no connection and to poll no more, for good: through the bus, the  *)
(* broadcasts and the handlers.  A thread that lost its stop (99) goes on. *)
Withdrawn ==
  <>[](serving /\ ~Routed)
    => <>[](~ShowsConnection /\ \A t \in Tasks : tasks[t] = "ended" \/ t \in unheard)
=============================================================================
