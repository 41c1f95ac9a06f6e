----------------------- MODULE CardReaderDriverProofs -----------------------
(***************************************************************************)
(* Proofs about CardReaderDriver, for both builds (Uart), with and without *)
(* unbinding, on any pin; FollowsPin on a clean pin.                       *)
(***************************************************************************)
EXTENDS CardReaderDriver, TLAPS

(* How far probe has come says what is held and who can be running.        *)
Phases ==
  /\ "irq" \in held => probe \notin Probing \cup {"request", "failed", "abandoned"}
  /\ (isr \notin {"idle", "panic"} \/ pending \/ worker # "idle") => "irq" \in held
  /\ probe \in {"read", "bound", "abandoned", "draining", "unbound"} \cup Window
       => "work" \in held
  /\ probe = "draining" => "workqueue" \in held
  /\ probe = "unbound" => "workqueue" \notin held
  /\ probe \in {"chrdev", "class", "device", "error"}
       => held \subseteq {"chrdev", "class", "device"}
  /\ probe = "failed" => held = {}
  /\ probe = "unbound" => ~pending /\ worker = "idle"

(* SwitchAgrees, and what the worker must already have right half-way      *)
(* through for it to hold when the worker is done, also while the queue is *)
(* drained.                                                                *)
Removing == probe \in {"draining", "unbound"} /\ ~refused /\ isr # "panic"
Current  == (Serving \/ Removing) /\ ~pending /\ isr # "published"

SwitchInv ==
  /\ Current /\ worker \in {"idle", "sleep"} => Agrees(state)
  /\ Current /\ worker \in {"switch", "power"} => wstate = state
  /\ worker = "power" => usb_sw = SwitchFor(wstate)

(* On a clean pin.  Before registration nothing has happened on the line;  *)
(* during registration the pin moves at most once, so cur is the pin, or   *)
(* the pin has risen unseen, or it has fallen and the one interrupt of     *)
(* that fall is to come, under way or over; once bound, the line waits for *)
(* the pin to leave cur or is raised already, and the handler, which       *)
(* toggles, will come out right.                                           *)
Untouched == irqType \in {"none", "falling"} /\ isr = "idle" /\ state = cur

Registering ==
  \/ ~moved /\ cur = pin /\ Untouched /\ ~edge
  \/ moved /\ pin = 1 /\ cur = 0 /\ Untouched /\ ~edge
  \/ moved /\ pin = 0 /\ cur = 1 /\ Untouched /\ (edge => irqType = "falling")
  \/ /\ moved /\ pin = 0 /\ cur = 0 /\ ~edge /\ "irq" \in held
     /\ \/ isr = "toggled" /\ irqType = "falling"
        \/ isr = "typed" /\ irqType = "high"
        \/ isr \in {"published", "idle", "panic"} /\ irqType = "high" /\ state = cur

Bound ==
  /\ "irq" \in held /\ irqType \in {"low", "high"}
  /\ isr \in {"published", "idle"} => state = cur
  /\ isr \notin {"toggled", "panic"} => irqType = Awaiting(cur) \/ Asserted

FollowInv ==
  /\ probe \in Probing => /\ ~moved /\ ~edge
                         /\ irqType = "none" /\ isr \in {"idle", "panic"}
  /\ probe \in Window => Registering
  /\ probe = "set_low" => cur = 1 \/ (pin = 0 /\ moved)
  /\ probe = "set_high" => cur = 0
  /\ probe = "bound" => Bound

-----------------------------------------------------------------------------
(* Every step of every thread keeps the variables in their types.          *)
THEOREM TypeCorrect == Spec => []TypeOK
<1>1. Init => TypeOK
  BY DEF Init, TypeOK, Level, OPEN, Probing
<1>2. TypeOK /\ [Next]_vars => TypeOK'
  <2> SUFFICES ASSUME TypeOK, [Next]_vars PROVE TypeOK'
    OBVIOUS
  <2> USE DEF TypeOK, pinVars, irqVars, workerVars, outputs
  <2>1. CASE ProbeStep
    <3>1. CASE RegisterChrdev
      <4>1. probe' \in Probing
        BY <3>1 DEF RegisterChrdev, Probing
      <4>2. held' \in SUBSET Resources
        BY <3>1 DEF RegisterChrdev, Resources
      <4> QED
        BY <3>1, <4>1, <4>2 DEF RegisterChrdev
    <3>2. CASE ClassCreate
      <4>1. probe' \in Probing
        BY <3>2 DEF ClassCreate, Probing
      <4>2. held' \in SUBSET Resources
        BY <3>2 DEF ClassCreate, Resources
      <4> QED
        BY <3>2, <4>1, <4>2 DEF ClassCreate
    <3>3. CASE DeviceCreate
      <4>1. probe' \in Probing
        BY <3>3 DEF DeviceCreate, Probing
      <4>2. held' \in SUBSET Resources
        BY <3>3 DEF DeviceCreate, Resources
      <4> QED
        BY <3>3, <4>1, <4>2 DEF DeviceCreate
    <3>4. CASE ProbeError
      BY <3>4 DEF ProbeError, Ended
    <3>5. CASE GpioInit
      BY <3>5 DEF GpioInit, SwitchFor, PowerFor, Probing, Resources
    <3>11. CASE GpioInitFails
      BY <3>11 DEF GpioInitFails
    <3>6. CASE CreateWorkqueue
      <4>1. held' \in SUBSET Resources
        BY <3>6 DEF CreateWorkqueue, Resources
      <4>2. probe' \in Probing
        BY <3>6 DEF CreateWorkqueue, Probing
      <4> QED
        BY <3>6, <4>1, <4>2 DEF CreateWorkqueue
    <3>7. CASE ReadPin
      BY <3>7 DEF ReadPin, SwitchFor, PowerFor, Window
    <3>8. CASE RequestIrq
      <4>1. held' \in SUBSET Resources
        BY <3>8 DEF RequestIrq, Resources
      <4>2. probe' \in Window
        BY <3>8 DEF RequestIrq, Window
      <4> QED
        BY <3>8, <4>1, <4>2 DEF RequestIrq
    <3>9. CASE TestLevel
      BY <3>9 DEF TestLevel, Window
    <3>10. CASE SetTrigger
      <4>1. probe' \in Ended
        BY <3>10 DEF SetTrigger, Ended
      <4>2. edge' \in BOOLEAN /\ irqType' \in {"low", "high"}
        BY <3>10 DEF SetTrigger
      <4> QED
        BY <3>10, <4>1, <4>2 DEF SetTrigger
    <3> QED
      BY <2>1, <3>1, <3>2, <3>3, <3>4, <3>5, <3>6, <3>7, <3>8, <3>9, <3>10, <3>11
         DEF ProbeStep
  <2>2. CASE RemoveStep
    BY <2>2 DEF RemoveStep, RemoveBegin, RemoveEnd, Ended
  <2>3. CASE IsrStep
    <3>1. CASE IsrToggle
      <4>1. cur' \in Level
        BY <3>1 DEF IsrToggle, Level
      <4> QED
        BY <3>1, <4>1 DEF IsrToggle
    <3>2. CASE IsrSetTrigger
      BY <3>2 DEF IsrSetTrigger, Awaiting
    <3>3. CASE IsrPublish
      BY <3>3 DEF IsrPublish
    <3>4. CASE IsrQueueWork
      <4>1. pending' \in BOOLEAN
        BY <3>4, Zenon DEF IsrQueueWork
      <4>2. refused' \in BOOLEAN
        BY <3>4, Zenon DEF IsrQueueWork
      <4>3. isr' \in {"idle", "panic"}
        BY <3>4 DEF IsrQueueWork
      <4> QED
        BY <3>4, <4>1, <4>2, <4>3 DEF IsrQueueWork
    <3> QED
      BY <2>3, <3>1, <3>2, <3>3, <3>4 DEF IsrStep
  <2>4. CASE WorkerStep
    <3>1. CASE WorkStart \/ WorkRead \/ WorkDone
      BY <3>1 DEF WorkStart, WorkRead, WorkDone
    <3>2. CASE WorkSwitch
      BY <3>2 DEF WorkSwitch, SwitchFor
    <3>3. CASE WorkPower
      BY <3>3 DEF WorkPower, PowerFor
    <3> QED
      BY <2>4, <3>1, <3>2, <3>3 DEF WorkerStep
  <2>5. CASE PinMove
    BY <2>5 DEF PinMove, Level
  <2>6. CASE UNCHANGED vars
    BY <2>6 DEF vars
  <2> QED
    BY <2>1, <2>2, <2>3, <2>4, <2>5, <2>6 DEF Next
<1> QED
  BY <1>1, <1>2, PTL DEF Spec

LEMMA PhasesHold == Spec => []Phases
<1>1. Init => Phases
  BY DEF Init, Phases, Window
<1>2. TypeOK /\ Phases /\ [Next]_vars => Phases'
  <2> SUFFICES ASSUME TypeOK, Phases, [Next]_vars PROVE Phases'
    OBVIOUS
  <2> USE DEF Phases, Probing, Window, pinVars, irqVars, workerVars, outputs
  <2>1. CASE ProbeStep
    <3>1. CASE RegisterChrdev \/ ClassCreate \/ DeviceCreate \/ ProbeError
      BY <3>1 DEF RegisterChrdev, ClassCreate, DeviceCreate, ProbeError
    <3>2. CASE GpioInit \/ GpioInitFails \/ CreateWorkqueue
      BY <3>2 DEF GpioInit, GpioInitFails, CreateWorkqueue
    <3>3. CASE ReadPin
      BY <3>3 DEF ReadPin
    <3>4. CASE RequestIrq
      BY <3>4 DEF RequestIrq
    <3>5. CASE TestLevel
      BY <3>5 DEF TestLevel
    <3>6. CASE SetTrigger
      BY <3>6 DEF SetTrigger
    <3> QED
      BY <2>1, <3>1, <3>2, <3>4, <3>3, <3>5, <3>6 DEF ProbeStep
  <2>2. CASE RemoveStep
    BY <2>2 DEF RemoveStep, RemoveBegin, RemoveEnd
  <2>3. CASE IsrStep
    <3>1. CASE IsrToggle
      BY <3>1 DEF IsrToggle, Asserted
    <3>2. CASE IsrSetTrigger
      BY <3>2 DEF IsrSetTrigger
    <3>3. CASE IsrPublish
      BY <3>3 DEF IsrPublish
    <3>4. CASE IsrQueueWork
      <4>1. isr = "published" /\ isr' \in {"idle", "panic"} /\ UNCHANGED <<probe, held, worker>>
        BY <3>4 DEF IsrQueueWork
      <4>2. probe = "unbound" => pending' = pending
        BY <3>4 DEF IsrQueueWork, Phases
      <4> QED
        BY <4>1, <4>2
    <3> QED
      BY <2>3, <3>1, <3>2, <3>4, <3>3 DEF IsrStep
  <2>4. CASE WorkerStep
    BY <2>4 DEF WorkerStep, WorkStart, WorkRead, WorkSwitch, WorkPower, WorkDone
  <2>5. CASE PinMove
    BY <2>5 DEF PinMove
  <2>6. CASE UNCHANGED vars
    BY <2>6 DEF vars
  <2> QED
    BY <2>1, <2>2, <2>3, <2>4, <2>5, <2>6 DEF Next
<1> QED
  BY <1>1, <1>2, TypeCorrect, PTL DEF Spec

(* The handler finds its work item initialised, however far registration   *)
(* has come when the first interrupt is raised.                            *)
THEOREM WorkIsReady == Spec => []WorkReady
<1>1. TypeOK /\ Phases => WorkReady
  BY DEF TypeOK, Phases, WorkReady, Probing, Window, Ended
<1> QED
  BY <1>1, TypeCorrect, PhasesHold, PTL

(* A probe that fails at its error label holds nothing.                    *)
THEOREM ErrorPathIsClean == Spec => []ErrorPathReleases
<1>1. Phases => ErrorPathReleases
  BY DEF Phases, ErrorPathReleases
<1> QED
  BY <1>1, PhasesHold, PTL

LEMMA SwitchInvHolds == Spec => []SwitchInv
<1>1. Init => SwitchInv
  BY DEF Init, SwitchInv, Current, Serving, Removing, Window
<1>2. TypeOK /\ Phases /\ SwitchInv /\ [Next]_vars => SwitchInv'
  <2> SUFFICES ASSUME TypeOK, Phases, SwitchInv, [Next]_vars PROVE SwitchInv'
    OBVIOUS
  <2> USE DEF SwitchInv, Current, Removing, Serving, Agrees, Window,
              pinVars, irqVars, workerVars, outputs
  <2>1. CASE ProbeStep
    <3>1. CASE RegisterChrdev \/ ClassCreate \/ DeviceCreate \/ ProbeError
      BY <3>1 DEF RegisterChrdev, ClassCreate, DeviceCreate, ProbeError
    <3>2. CASE GpioInit \/ GpioInitFails \/ CreateWorkqueue
      BY <3>2 DEF GpioInit, GpioInitFails, CreateWorkqueue, Phases, Probing
    <3>3. CASE ReadPin
      BY <3>3 DEF ReadPin, Phases, Probing
    <3>4. CASE RequestIrq \/ TestLevel \/ SetTrigger
      BY <3>4 DEF RequestIrq, TestLevel, SetTrigger
    <3> QED
      BY <2>1, <3>1, <3>2, <3>3, <3>4 DEF ProbeStep
  <2>2. CASE RemoveStep
    BY <2>2 DEF RemoveStep, RemoveBegin, RemoveEnd
  <2>3. CASE IsrStep
    BY <2>3 DEF IsrStep, IsrToggle, IsrSetTrigger, IsrPublish, IsrQueueWork
  <2>4. CASE WorkerStep
    <3>1. CASE WorkStart \/ WorkRead \/ WorkDone
      BY <3>1 DEF WorkStart, WorkRead, WorkDone
    <3>2. CASE WorkSwitch
      BY <3>2 DEF WorkSwitch
    <3>3. CASE WorkPower
      BY <3>3 DEF WorkPower
    <3> QED
      BY <2>4, <3>1, <3>2, <3>3 DEF WorkerStep
  <2>5. CASE PinMove
    BY <2>5 DEF PinMove
  <2>6. CASE UNCHANGED vars
    BY <2>6 DEF vars
  <2> QED
    BY <2>1, <2>2, <2>3, <2>4, <2>5, <2>6 DEF Next
<1> QED
  BY <1>1, <1>2, TypeCorrect, PhasesHold, PTL DEF Spec

(* One pending bit and one reading of the state are enough: an interrupt   *)
(* that comes while the worker is under way queues it again, and one that  *)
(* comes before the worker reads is served by that reading.                *)
THEOREM SwitchIsRight == Spec => []SwitchAgrees
<1>1. SwitchInv => SwitchAgrees
  BY DEF SwitchInv, SwitchAgrees, Current
<1> QED
  BY <1>1, SwitchInvHolds, PTL

(* What was queued when remove began has been applied when it is over.     *)
THEOREM RemoveSettles == Spec => []RemovedSettled
<1>1. Phases /\ SwitchInv => RemovedSettled
  BY DEF Phases, SwitchInv, Current, Removing, RemovedSettled
<1> QED
  BY <1>1, PhasesHold, SwitchInvHolds, PTL

LEMMA FollowInvHolds == CleanPin /\ Spec => []FollowInv
<1> SUFFICES ASSUME CleanPin PROVE Spec => []FollowInv
  OBVIOUS
<1>1. Init => FollowInv
  BY DEF Init, FollowInv, Probing, Window
<1>2. TypeOK /\ Phases /\ FollowInv /\ [Next]_vars => FollowInv'
  <2> SUFFICES ASSUME TypeOK, Phases, FollowInv, [Next]_vars PROVE FollowInv'
    OBVIOUS
  <2>0. pin \in Level /\ cur \in Level /\ irqType \in {"none", "falling", "low", "high"}
    BY DEF TypeOK
  <2> USE DEF pinVars, irqVars, workerVars, outputs
  <2>1. CASE ProbeStep
    <3>1. CASE RegisterChrdev \/ ClassCreate \/ DeviceCreate \/ ProbeError
      BY <3>1 DEF RegisterChrdev, ClassCreate, DeviceCreate, ProbeError,
                  FollowInv, Probing, Window
    <3>2. CASE GpioInit \/ CreateWorkqueue
      BY <3>2 DEF GpioInit, CreateWorkqueue, FollowInv, Probing, Window
    <3>7. CASE GpioInitFails
      BY <3>7 DEF GpioInitFails, FollowInv, Probing, Window
    <3>3. CASE ReadPin
      BY <3>3 DEF Next, vars, ReadPin, FollowInv, Probing, Window, Registering, Untouched
    <3>4. CASE RequestIrq
      <4>1. Registering'
        BY <3>4 DEF RequestIrq, Phases, FollowInv, Window, Registering, Untouched
      <4> QED
        BY <3>4, <4>1 DEF RequestIrq, FollowInv, Probing, Window
    <3>5. CASE TestLevel
      BY <3>5, <2>0 DEF TestLevel, FollowInv, Probing, Window, Registering,
                        Untouched, Level
    <3>6. CASE SetTrigger
      BY <3>6, <2>0 DEF SetTrigger, FollowInv, Probing, Window, Registering,
                        Untouched, Bound, Asserted, Awaiting, Level
    <3> QED
      BY <2>1, <3>1, <3>2, <3>3, <3>4, <3>5, <3>6, <3>7 DEF ProbeStep
  <2>2. CASE RemoveStep
    BY <2>2 DEF RemoveStep, RemoveBegin, RemoveEnd, FollowInv, Probing, Window,
                Bound, Asserted
  <2>3. CASE IsrStep
    <3> USE <2>0 DEF Registering, Untouched, Bound, Asserted, Awaiting, Level
    <3>1. CASE IsrToggle
      <4>1. probe \notin Probing /\ UNCHANGED <<probe, pin, moved, held, state, irqType>>
        BY <3>1 DEF IsrToggle, Phases
      <4>2. probe \in Window => Registering'
        BY <3>1 DEF IsrToggle, FollowInv
      <4>3. probe = "bound" => Bound'
        BY <3>1 DEF IsrToggle, FollowInv
      <4>4. (probe = "set_low" => cur' = 1 \/ (pin = 0 /\ moved)) /\ (probe = "set_high" => cur' = 0)
        BY <3>1 DEF IsrToggle, FollowInv, Window
      <4> QED
        BY <4>1, <4>2, <4>3, <4>4 DEF FollowInv
    <3>2. CASE IsrSetTrigger
      <4>1. UNCHANGED <<probe, pin, moved, cur, held, state>>
        BY <3>2 DEF IsrSetTrigger
      <4>2. probe \notin Probing
        BY <3>2 DEF IsrSetTrigger, FollowInv
      <4>5. ~edge => ~edge'
        BY <3>2, Zenon DEF IsrSetTrigger
      <4>6. isr = "toggled" /\ isr' = "typed" /\ irqType' = Awaiting(cur)
        BY <3>2 DEF IsrSetTrigger
      <4>3. probe \in Window => Registering'
        BY <4>1, <4>5, <4>6 DEF FollowInv
      <4>4. probe = "bound" => Bound'
        BY <3>2 DEF IsrSetTrigger, FollowInv
      <4> QED
        BY <4>1, <4>2, <4>3, <4>4 DEF FollowInv
    <3>3. CASE IsrPublish
      BY <3>3 DEF IsrPublish, FollowInv, Probing, Window
    <3>4. CASE IsrQueueWork
      BY <3>4 DEF IsrQueueWork, FollowInv, Probing, Window
    <3> QED
      BY <2>3, <3>1, <3>2, <3>3, <3>4 DEF IsrStep
  <2>4. CASE WorkerStep
    BY <2>4 DEF WorkerStep, WorkStart, WorkRead, WorkSwitch, WorkPower, WorkDone,
                FollowInv, Registering, Untouched, Bound, Asserted
  <2>5. CASE PinMove
    <3>1. UNCHANGED <<probe, cur, isr, held, state, irqType>> /\ ~Asserted /\ isr = "idle"
      BY <2>5 DEF PinMove
    <3>2. probe \in Probing => ~moved' /\ ~edge'
      BY <2>5 DEF PinMove, FollowInv, Probing, Window
    <3>3. probe \in Window => Registering' /\ (probe = "set_low" => cur = 1 \/ (pin' = 0 /\ moved'))
      <4> SUFFICES ASSUME probe \in Window
                   PROVE  Registering' /\ (probe = "set_low" => cur = 1 \/ (pin' = 0 /\ moved'))
        OBVIOUS
      <4>1. ~moved /\ cur = pin /\ Untouched /\ ~edge
        BY <2>5 DEF PinMove, FollowInv, Registering
      <4>2. moved' /\ pin' = 1 - pin /\ Untouched'
        BY <2>5, <3>1, <4>1 DEF PinMove, Untouched
      <4>3. edge' => irqType = "falling" /\ pin = 1
        BY <2>5, <4>1 DEF PinMove
      <4>4. CASE pin = 1
        BY <3>1, <4>1, <4>2, <4>3, <4>4 DEF Registering
      <4>5. CASE pin = 0
        BY <3>1, <4>1, <4>2, <4>3, <4>5, <2>5 DEF Registering, FollowInv
      <4> QED
        BY <2>0, <4>4, <4>5 DEF Level
    <3>4. probe = "bound" => Bound'
      BY <2>5, <2>0, <3>1 DEF PinMove, FollowInv, Bound, Asserted, Awaiting, Level
    <3> QED
      BY <3>1, <3>2, <3>3, <3>4 DEF FollowInv, Window
  <2>6. CASE UNCHANGED vars
    BY <2>6 DEF vars, FollowInv, Registering, Untouched, Bound, Asserted
  <2> QED
    BY <2>1, <2>2, <2>3, <2>4, <2>5, <2>6 DEF Next
<1> QED
  BY <1>1, <1>2, TypeCorrect, PhasesHold, PTL DEF Spec

(* Toggling without reading the pin follows a clean pin, through the two-  *)
(* step choice of the trigger at registration and through spurious edges.  *)
THEOREM PinIsFollowed == CleanPin /\ Spec => []FollowsPin
<1>1. TypeOK /\ FollowInv => FollowsPin
  BY DEF TypeOK, FollowInv, FollowsPin, Bound, Asserted, Awaiting, Level
<1> QED
  BY <1>1, TypeCorrect, FollowInvHolds, PTL

(* The handler is over an edge when it has toggled: on a clean pin none is *)
(* latched while it runs.  While the device is bound and has a queue the   *)
(* kernel does not go down.                                                *)
HandlerInv == /\ isr \notin {"idle", "panic"} => ~edge
              /\ isr = "panic" /\ probe = "bound" => "workqueue" \notin held

LEMMA NoEdgeInHandler == CleanPin /\ Spec => []HandlerInv
<1> SUFFICES ASSUME CleanPin PROVE Spec => []HandlerInv
  OBVIOUS
<1>1. Init => HandlerInv
  BY DEF Init, HandlerInv
<1>2. HandlerInv /\ [Next]_vars => HandlerInv'
  <2> USE DEF pinVars, irqVars
  <2>1. ASSUME NEW e, NEW f, ~e, f \in {FALSE, e} PROVE ~f
    BY <2>1, Zenon
  <2>4. ASSUME Next PROVE isr # "panic"
    BY <2>4 DEF Next
  <2>2. ASSUME HandlerInv, Next, SetTrigger \/ IsrSetTrigger PROVE HandlerInv'
    <3>1. /\ edge' \in {FALSE, edge}
          /\ isr' \notin {"idle", "panic"} => isr \notin {"idle", "panic"}
          /\ isr' # "panic"
      BY <2>2, <2>4 DEF SetTrigger, IsrSetTrigger, HandlerInv
    <3>2. isr' \notin {"idle", "panic"} => ~edge'
      BY <2>1, <2>2, <3>1 DEF HandlerInv
    <3> QED
      BY <3>1, <3>2 DEF HandlerInv
  <2>3. ASSUME HandlerInv, Next, ~SetTrigger, ~IsrSetTrigger PROVE HandlerInv'
    BY <2>3 DEF HandlerInv, Next, ProbeStep, RegisterChrdev, ClassCreate, DeviceCreate,
                ProbeError, GpioInit, GpioInitFails, CreateWorkqueue, ReadPin, RequestIrq,
                TestLevel, RemoveStep, RemoveBegin, RemoveEnd, IsrStep, IsrToggle,
                IsrPublish, IsrQueueWork, WorkerStep, WorkStart, WorkRead, WorkSwitch, WorkPower,
                WorkDone, PinMove
  <2> QED
    BY <2>2, <2>3 DEF vars, HandlerInv
<1> QED
  BY <1>1, <1>2, PTL DEF Spec

(* What is still to be done once the pin rests: the interrupts that the    *)
(* line will raise (two if cur, which the handler toggles, is right while  *)
(* the trigger is not), the work they queue and what the worker is at.     *)
Raised == IF ~Asserted THEN 0 ELSE IF cur = pin THEN 20 ELSE 10

HandlerLeft == CASE isr = "idle"      -> Raised
                 [] isr = "toggled"   -> 9 + (IF cur = pin THEN 0 ELSE 10)
                 [] isr = "typed"     -> 8 + Raised
                 [] isr = "published" -> 7 + Raised
                 [] OTHER             -> 0
QueueLeft == IF pending THEN 5 ELSE 0
WorkerLeft == CASE worker = "idle"   -> 0
                [] worker = "sleep"  -> 1
                [] worker = "power"  -> 2
                [] worker = "switch" -> 3
                [] worker = "read"   -> 4
StepsLeft == HandlerLeft + QueueLeft + WorkerLeft

PartsAreNat == /\ Raised \in {0, 10, 20} /\ HandlerLeft \in Nat
               /\ QueueLeft \in Nat /\ QueueLeft <= 5 /\ WorkerLeft \in Nat

LEMMA StepsLeftIsNat == TypeOK => PartsAreNat
<1> SUFFICES ASSUME TypeOK PROVE PartsAreNat
  OBVIOUS
<1>1. Raised \in {0, 10, 20}
  BY DEF Raised
<1>2. HandlerLeft \in Nat
  BY <1>1 DEF HandlerLeft, TypeOK
<1>3. QueueLeft \in Nat /\ QueueLeft <= 5 /\ WorkerLeft \in Nat
  BY DEF QueueLeft, WorkerLeft, TypeOK
<1> QED
  BY <1>1, <1>2, <1>3 DEF PartsAreNat

Working == probe = "bound" /\ "workqueue" \in held

(* The trigger is a level, so an interrupt whose handler leaves the line   *)
(* as it was comes back at once (202-213).  On a clean pin it does not go  *)
(* on: while the device is bound, has its queue and the pin rests, every   *)
(* step of the handler and of the worker brings them nearer to their rest. *)
THEOREM InterruptsEnd ==
  CleanPin /\ Spec =>
    [][Working => pin' # pin \/ probe' # probe \/ StepsLeft' < StepsLeft]_vars
<1> SUFFICES ASSUME CleanPin
             PROVE  Spec => [][Working => pin' # pin \/ probe' # probe
                                              \/ StepsLeft' < StepsLeft]_vars
  OBVIOUS
<1>0. TypeOK' => PartsAreNat'
  BY StepsLeftIsNat, PTL
<1>1. ASSUME TypeOK, TypeOK', HandlerInv, Next, Working,
             pin' = pin, probe' = probe
      PROVE  StepsLeft' < StepsLeft
  <2> USE DEF pinVars, irqVars, workerVars, outputs
  <2>0. /\ Raised \in {0, 10, 20} /\ HandlerLeft \in Nat
        /\ QueueLeft \in Nat /\ QueueLeft <= 5 /\ WorkerLeft \in Nat
        /\ Raised' \in {0, 10, 20} /\ HandlerLeft' \in Nat
        /\ QueueLeft' \in Nat /\ QueueLeft' <= 5 /\ WorkerLeft' \in Nat
    BY <1>0, <1>1, StepsLeftIsNat DEF PartsAreNat
  <2>1. ASSUME UNCHANGED <<pin, irqType, edge, held, cur>> PROVE Raised' = Raised
    BY <2>1 DEF Raised, Asserted
  <2>7. PICK h \in Nat, q \in Nat, w \in Nat, h1 \in Nat, q1 \in Nat, w1 \in Nat :
          /\ h = HandlerLeft /\ q = QueueLeft /\ w = WorkerLeft
          /\ h1 = HandlerLeft' /\ q1 = QueueLeft' /\ w1 = WorkerLeft'
    BY <2>0
  <2>8. PICK r \in {0, 10, 20}, r1 \in {0, 10, 20} : r = Raised /\ r1 = Raised'
    BY <2>0
  <2>9. StepsLeft = h + q + w /\ StepsLeft' = h1 + q1 + w1
    BY <2>7 DEF StepsLeft
  <2> SUFFICES h1 + q1 + w1 < h + q + w
    BY <2>9
  <2>2. CASE IsrStep
    <3>1. w1 = w
      BY <2>2, <2>7 DEF IsrStep, IsrToggle, IsrSetTrigger, IsrPublish, IsrQueueWork, WorkerLeft
    <3>2. ASSUME pending' = pending PROVE q1 = q
      BY <3>2, <2>7 DEF QueueLeft
    <3>3. CASE IsrToggle
      <4>1. h = IF cur = pin THEN 20 ELSE 10
        BY <3>3, <2>7 DEF IsrToggle, HandlerLeft, Raised
      <4>2. h1 = IF cur' = pin THEN 9 ELSE 19
        BY <3>3, <1>1, <2>7 DEF IsrToggle, HandlerLeft
      <4>3. cur = pin <=> cur' # pin
        BY <3>3, <1>1 DEF IsrToggle, TypeOK, Level
      <4>4. h1 < h
        BY <4>1, <4>2, <4>3
      <4>5. q1 = q
        BY <3>2, <3>3 DEF IsrToggle
      <4> QED
        BY <3>1, <4>4, <4>5
    <3>4. CASE IsrSetTrigger
      <4>1. h = (IF cur = pin THEN 9 ELSE 19) /\ h1 = 8 + r1
        BY <3>4, <2>7, <2>8 DEF IsrSetTrigger, HandlerLeft
      <4>2. edge' = FALSE
        <5>1. ~edge /\ edge' \in {FALSE, edge}
          BY <3>4, <1>1 DEF IsrSetTrigger, HandlerInv
        <5> QED
          BY <5>1, <1>1, Zenon DEF TypeOK
      <4>3. cur = pin => ~Asserted'
        BY <3>4, <4>2, <1>1 DEF IsrSetTrigger, Asserted, Awaiting, TypeOK, Level
      <4>4. cur = pin => r1 = 0
        BY <4>3, <2>8 DEF Raised
      <4>5. cur # pin => r1 \in {0, 10}
        BY <3>4, <1>1, <2>8 DEF IsrSetTrigger, Raised
      <4>6. h1 < h
        BY <4>1, <4>4, <4>5
      <4>7. q1 = q
        BY <3>2, <3>4 DEF IsrSetTrigger
      <4> QED
        BY <3>1, <4>6, <4>7
    <3>5. CASE IsrPublish
      <4>1. q1 = q /\ r1 = r
        BY <2>1, <2>8, <3>2, <3>5 DEF IsrPublish
      <4>2. h = 8 + r /\ h1 = 7 + r1
        BY <3>5, <2>7, <2>8 DEF IsrPublish, HandlerLeft
      <4> QED
        BY <3>1, <4>1, <4>2
    <3>6. CASE IsrQueueWork
      <4>1. isr = "published" /\ isr' = "idle"
        BY <3>6, <1>1 DEF Working, IsrQueueWork
      <4>2. r1 = r
        BY <3>6, <2>1, <2>8 DEF IsrQueueWork
      <4>3. h = 7 + r /\ h1 = r1
        BY <4>1, <2>7, <2>8 DEF HandlerLeft
      <4>4. q1 <= 5
        BY <2>0, <2>7
      <4> QED
        BY <3>1, <4>2, <4>3, <4>4
    <3> QED
      BY <2>2, <3>3, <3>4, <3>5, <3>6 DEF IsrStep
  <2>3. CASE WorkerStep
    <3>1. h1 = h
      <4>1. UNCHANGED <<pin, irqType, edge, held, cur, isr>>
        BY <2>3 DEF WorkerStep, WorkStart, WorkRead, WorkSwitch, WorkPower, WorkDone
      <4> QED
        BY <4>1, <2>1, <2>7 DEF HandlerLeft
    <3>2. CASE WorkStart
      <4>1. q = 5 /\ q1 = 0 /\ w = 0 /\ w1 = 4
        BY <3>2, <2>7 DEF WorkStart, QueueLeft, WorkerLeft
      <4> QED
        BY <3>1, <4>1
    <3>3. CASE WorkRead \/ WorkSwitch \/ WorkPower \/ WorkDone
      <4>1. q1 = q
        BY <3>3, <2>7 DEF WorkRead, WorkSwitch, WorkPower, WorkDone, QueueLeft
      <4>2. w1 < w
        BY <3>3, <2>7 DEF WorkRead, WorkSwitch, WorkPower, WorkDone, WorkerLeft
      <4> QED
        BY <3>1, <4>1, <4>2
    <3> QED
      BY <2>3, <3>2, <3>3 DEF WorkerStep
  <2>4. ~PinMove
    BY <1>1 DEF PinMove, TypeOK, Level
  <2>5. ~ProbeStep
    BY <1>1 DEF Working, ProbeStep, RegisterChrdev, ClassCreate, DeviceCreate, ProbeError,
                GpioInit, GpioInitFails, CreateWorkqueue, ReadPin, RequestIrq, TestLevel, SetTrigger
  <2>6. ~RemoveStep
    BY <1>1 DEF Working, RemoveStep, RemoveBegin, RemoveEnd
  <2> QED
    BY <1>1, <2>2, <2>3, <2>4, <2>5, <2>6 DEF Next
<1>2. TypeOK /\ TypeOK' /\ HandlerInv /\ [Next]_vars
        => [Working => pin' # pin \/ probe' # probe \/ StepsLeft' < StepsLeft]_vars
  BY <1>1
<1> QED
  BY <1>2, TypeCorrect, NoEdgeInHandler, PTL DEF Spec

(* And where they come to rest the outputs are those of the pin.           *)
THEOREM RestsAtPin ==
  CleanPin /\ Spec => [](Working /\ StepsLeft = 0 => Agrees(pin))
<1>1. TypeOK /\ HandlerInv /\ FollowsPin /\ SwitchAgrees
        => (Working /\ StepsLeft = 0 => Agrees(pin))
  <2> SUFFICES ASSUME TypeOK, HandlerInv, FollowsPin, SwitchAgrees, Working, StepsLeft = 0
               PROVE  Agrees(pin)
    OBVIOUS
  <2>1. HandlerLeft = 0 /\ QueueLeft = 0 /\ WorkerLeft = 0
    BY StepsLeftIsNat DEF StepsLeft, PartsAreNat
  <2>2. ~pending /\ worker = "idle"
    BY <2>1 DEF QueueLeft, WorkerLeft, TypeOK
  <2>3. isr = "idle"
    BY <2>1, StepsLeftIsNat DEF HandlerLeft, TypeOK, PartsAreNat, HandlerInv, Working
  <2>4. ~Asserted
    BY <2>1, <2>3 DEF HandlerLeft, Raised
  <2> QED
    BY <2>2, <2>3, <2>4 DEF FollowsPin, SwitchAgrees, Serving, Working
<1> QED
  BY <1>1, TypeCorrect, NoEdgeInHandler, PinIsFollowed, SwitchIsRight, PTL

(* The driver implements UsbSwitch, whatever the pin and the scheduling:   *)
(* registration starts the abstract switch, IsrPublish asks, the last      *)
(* output driven with nothing queued settles, RemoveBegin stops, and so    *)
(* does a kernel that goes down.                                           *)
THEOREM ImplementsUsbSwitch == Spec => KeepsPromise
<1> DEFINE Outs == {"low", "high"} \X {"off", "on", "unused"}
<1>1. Init => Promise!Init
  BY DEF Init, Promise!Init, Level, OPEN, Output, Serving, Due, Window
<1>2. TypeOK /\ Phases /\ SwitchInv /\ SwitchInv' /\ [Next]_vars
        => [Promise!Next]_(Promise!vars)
  <2> SUFFICES ASSUME TypeOK, Phases, SwitchInv, SwitchInv', [Next]_vars
               PROVE  [Promise!Next]_(Promise!vars)
    OBVIOUS
  <2>0. state \in Level /\ Output \in Outs
    BY DEF TypeOK, Output
  <2>s. (Serving' <=> Serving) => Serving' = Serving
    BY DEF Serving
  <2>d. (Due' <=> Due) => Due' = Due
    BY DEF Due, Serving
  <2>i. (Due => Serving) /\ (Due' => Serving')
    BY DEF Due
  <2>idle. ASSUME ~Serving, ~Serving', state' \in Level, Output' \in Outs
           PROVE  Promise!Next
    <3>1. Serving' = Serving /\ Due' = Due
      BY <2>idle, <2>s, <2>d, <2>i
    <3> QED
      BY <2>idle, <3>1 DEF Promise!Next, Promise!Idle
  <2>stutter. ASSUME Serving' <=> Serving, Due' <=> Due, state' = state, Output' = Output
              PROVE  UNCHANGED Promise!vars
    <3>1. Serving' = Serving /\ Due' = Due
      BY <2>stutter, <2>s, <2>d
    <3> QED
      BY <2>stutter, <3>1 DEF Promise!vars
  <2> HIDE DEF Outs
  <2> USE DEF pinVars, irqVars, workerVars, outputs
  <2>1. CASE ProbeStep
    <3>1. CASE RegisterChrdev \/ ClassCreate \/ DeviceCreate \/ ProbeError
               \/ CreateWorkqueue \/ RequestIrq \/ TestLevel \/ SetTrigger
      <4>1. UNCHANGED <<state, usb_sw, vgp1, worker, isr>> /\ (Serving' <=> Serving)
        BY <3>1 DEF RegisterChrdev, ClassCreate, DeviceCreate, ProbeError,
                    CreateWorkqueue, RequestIrq, TestLevel, SetTrigger, Serving, Window
      <4>2. ~Serving \/ UNCHANGED pending
        BY <3>1 DEF RegisterChrdev, ClassCreate, DeviceCreate, ProbeError,
                    CreateWorkqueue, RequestIrq, TestLevel, SetTrigger, Serving, Window
      <4>3. (Due' <=> Due) /\ Output' = Output
        BY <4>1, <4>2 DEF Due, Output
      <4> QED
        BY <4>1, <4>3, <2>stutter
    <3>2. CASE GpioInit
      <4>1. ~Serving /\ ~Serving' /\ state' \in Level
        BY <3>2 DEF GpioInit, Serving, Window, TypeOK
      <4>2. Output' \in Outs
        BY <3>2 DEF GpioInit, Output, Outs, SwitchFor, PowerFor, TypeOK
      <4> QED
        BY <2>idle, <4>1, <4>2
    <3>4. CASE GpioInitFails
      <4>1. ~Serving /\ ~Serving' /\ state' \in Level
        BY <3>4 DEF GpioInitFails, Serving, Window, TypeOK
      <4>2. Output' = Output
        BY <3>4 DEF GpioInitFails, Output
      <4> QED
        BY <2>0, <2>idle, <4>1, <4>2
    <3>3. CASE ReadPin
      <4>5. isr # "panic"
        BY <3>3 DEF ReadPin, Next, vars
      <4>1. ~Serving /\ Serving' /\ Serving' = TRUE /\ state' \in Level
        BY <3>3, <4>5 DEF ReadPin, Serving, Window, TypeOK
      <4>2. Output' = OutputFor(state')
        BY <3>3 DEF ReadPin, Output, OutputFor, SwitchFor, PowerFor
      <4>3. ~Due /\ ~Due'
        BY <3>3, <4>1 DEF ReadPin, Phases, Probing, Due
      <4>4. Due' = Due
        BY <4>3, <2>d
      <4> QED
        BY <4>1, <4>2, <4>4 DEF Promise!Next, Promise!Start
    <3> QED
      BY <2>1, <3>1, <3>2, <3>3, <3>4 DEF ProbeStep
  <2>2. CASE isr # "panic" /\ RemoveStep
    <3>1. CASE RemoveBegin
      <4>1. Serving /\ Serving' = FALSE /\ Due' = FALSE
        BY <2>2, <3>1 DEF RemoveBegin, Serving, Window, Due
      <4>2. state' = state /\ Output' = Output
        BY <3>1 DEF RemoveBegin, Output
      <4> QED
        BY <4>1, <4>2 DEF Promise!Next, Promise!Stop
    <3>2. CASE RemoveEnd
      <4>1. ~Serving /\ ~Serving' /\ state' \in Level
        BY <3>2 DEF RemoveEnd, Serving, Window, TypeOK
      <4>2. Output' = Output
        BY <3>2 DEF RemoveEnd, Output
      <4> QED
        BY <2>0, <2>idle, <4>1, <4>2
    <3> QED
      BY <2>2, <3>1, <3>2 DEF RemoveStep
  <2>3. CASE IsrStep
    <3>1. CASE IsrToggle \/ IsrSetTrigger
      <4>1. UNCHANGED <<state, outputs, pending, workerVars, probe>>
        BY <3>1 DEF IsrToggle, IsrSetTrigger
      <4>2. isr \notin {"published", "panic"} /\ isr' \notin {"published", "panic"}
        BY <3>1 DEF IsrToggle, IsrSetTrigger
      <4>3. (Serving' <=> Serving) /\ (Due' <=> Due) /\ Output' = Output
        BY <4>1, <4>2 DEF Serving, Due, Output
      <4> QED
        BY <4>1, <4>3, <2>stutter
    <3>3. CASE IsrQueueWork
      <4>1. UNCHANGED <<state, usb_sw, vgp1, worker, probe>> /\ isr = "published"
        BY <3>3 DEF IsrQueueWork
      <4>2. Output' = Output /\ state' = state
        BY <4>1 DEF Output
      <4>3. CASE isr' = "panic" /\ Serving
        <5>1. Serving = TRUE /\ Serving' = FALSE /\ Due' = FALSE
          BY <4>3 DEF Serving, Due
        <5> QED
          BY <4>2, <5>1 DEF Promise!Next, Promise!Stop
      <4>4. CASE isr' = "panic" /\ ~Serving
        <5>1. ~Serving'
          BY <4>4 DEF Serving
        <5> QED
          BY <2>0, <2>idle, <4>2, <4>4, <5>1
      <4>5. CASE isr' # "panic"
        <5>1. Serving => pending'
          BY <3>3, <4>5 DEF IsrQueueWork, Serving, Window
        <5>2. (Serving' <=> Serving) /\ (Due' <=> Due)
          BY <4>1, <4>5, <5>1 DEF Serving, Due
        <5> QED
          BY <4>2, <5>2, <2>stutter
      <4> QED
        BY <4>3, <4>4, <4>5
    <3>2. CASE IsrPublish
      <4>1. state' \in Level /\ Output' = Output /\ (Serving' <=> Serving)
        BY <3>2 DEF IsrPublish, TypeOK, Output, Serving
      <4>2. CASE Serving
        <5>1. Due' = TRUE
          BY <3>2, <4>1, <4>2 DEF IsrPublish, Due
        <5> QED
          BY <2>s, <4>1, <4>2, <5>1 DEF Promise!Next, Promise!Ask
      <4>3. CASE ~Serving
        BY <2>0, <2>idle, <4>1, <4>3
      <4> QED
        BY <4>2, <4>3
    <3> QED
      BY <2>3, <3>1, <3>2, <3>3 DEF IsrStep
  <2>4. CASE WorkerStep
    <3>1. CASE WorkStart \/ WorkRead \/ WorkDone
      <4>1. (Serving' <=> Serving) /\ (Due' <=> Due) /\ Output' = Output /\ state' = state
        BY <3>1 DEF WorkStart, WorkRead, WorkDone, Serving, Due, Output
      <4> QED
        BY <4>1, <2>stutter
    <3>2. CASE WorkSwitch \/ WorkPower
      <4>1. UNCHANGED <<state, pending, isr, probe>> /\ worker \in {"switch", "power"}
        BY <3>2 DEF WorkSwitch, WorkPower
      <4>2. Output' \in Outs
        BY <3>2 DEF WorkSwitch, WorkPower, Output, Outs, SwitchFor, PowerFor, TypeOK
      <4>3. (Serving' <=> Serving) /\ (Due <=> Serving)
        BY <4>1 DEF Serving, Due
      <4>4. CASE ~Serving
        BY <2>0, <2>idle, <4>1, <4>2, <4>3, <4>4
      <4>5. CASE Serving /\ Due'
        BY <2>s, <2>d, <4>1, <4>2, <4>3, <4>5 DEF Promise!Next, Promise!Turn, Outs
      <4>6. CASE Serving /\ ~Due'
        <5>1. Agrees(state)'
          BY <4>3, <4>6 DEF Due, SwitchInv, Current
        <5>2. Output' = OutputFor(state)
          BY <4>1, <5>1 DEF Agrees, Output, OutputFor
        <5>3. Due' = FALSE /\ Serving' = Serving
          BY <2>s, <4>3, <4>6 DEF Due
        <5> QED
          BY <4>1, <4>3, <4>6, <5>2, <5>3 DEF Promise!Next, Promise!Settle
      <4> QED
        BY <4>4, <4>5, <4>6
    <3> QED
      BY <2>4, <3>1, <3>2 DEF WorkerStep
  <2>5. CASE PinMove
    <3>1. (Serving' <=> Serving) /\ (Due' <=> Due) /\ Output' = Output /\ state' = state
      BY <2>5 DEF PinMove, Serving, Due, Output
    <3> QED
      BY <3>1, <2>stutter
  <2>6. CASE UNCHANGED vars
    <3>1. (Serving' <=> Serving) /\ (Due' <=> Due) /\ Output' = Output /\ state' = state
      BY <2>6 DEF vars, Serving, Due, Output
    <3> QED
      BY <3>1, <2>stutter
  <2> QED
    BY <2>1, <2>2, <2>3, <2>4, <2>5, <2>6 DEF Next
<1> QED
  BY <1>1, <1>2, TypeCorrect, PhasesHold, SwitchInvHolds, PTL
     DEF Spec, KeepsPromise, Promise!Spec
=============================================================================
