-------------------------- MODULE CardReaderDriver --------------------------
(***************************************************************************)
(* The cardreader platform driver (src/cardreader_bird/cardreader_bird.c). *)
(*                                                                         *)
(* A detection pin says whether the card accessory is in place.  One       *)
(* interrupt line watches the pin: the handler toggles the remembered pin  *)
(* level, turns the line's trigger round and queues one work item; a       *)
(* single worker thread copies the published state to the USB switch and,  *)
(* in the UART build, to the supply VGP1.  probe sets all of this up in    *)
(* one thread while the interrupt may already fire.                        *)
(*                                                                         *)
(* Each action is a stretch of one thread that no other thread can observe *)
(* in the middle.  Logging, cardreader_irq_flag (written, never read) and  *)
(* the wake lock's clock are left out.                                     *)
(***************************************************************************)
EXTENDS Naturals

CONSTANTS
  Uart,       \* CONFIG_BIRD_CARDREADER_SUPPORT_FOR_MX2150P_V01_UART is set
  CleanPin,   \* the environment never moves the pin twice while the driver
              \* registers, nor while an interrupt is raised or being served
  Unbinding   \* the device may be unbound (the driver is built in: obj-y)

ASSUME DriverConstants == {Uart, CleanPin, Unbinding} \subseteq BOOLEAN

VARIABLES
  pin,      \* level of CARDREADER_SIM_EINT_PIN
  moved,    \* the pin has moved while irq_registration was running
  irqType,  \* trigger of cardreader_irq
  edge,     \* a falling edge is latched and not served yet
  cur,      \* cur_eint_gpio_state
  state,    \* cur_cardreader_sim_eint_state, what the worker is to apply
  usb_sw,   \* output that switches USB
  vgp1,     \* supply of the UART build
  pending,  \* the work item is queued
  worker,   \* what the worker thread does next
  wstate,   \* the state the worker read when it started
  isr,      \* what the interrupt handler does next
  probe,    \* what probe or remove does next, or how it ended
  held,     \* what the driver has registered, allocated or initialised
  refused   \* remove had begun when a state was to be queued

pinVars    == <<pin, moved>>
irqVars    == <<irqType, edge, cur, isr>>
workerVars == <<worker, wstate>>
outputs    == <<usb_sw, vgp1>>
vars == <<pinVars, irqVars, state, outputs, pending, workerVars, probe, held, refused>>

Level == {0, 1}
OPEN  == 1
CLOSE == 0

Window    == {"request", "test", "set_low", "set_high"}
Resources == {"chrdev", "class", "device", "gpio", "workqueue", "work", "irq"}
Probing   == {"chrdev", "class", "device", "gpio", "workqueue", "read", "error"}
Ended     == {"bound", "failed", "abandoned", "draining", "unbound"}

-----------------------------------------------------------------------------
(* What the outputs must be for a state, and the trigger that waits for    *)
(* the pin to leave a level.                                               *)

SwitchFor(s) == IF s = OPEN THEN "low" ELSE "high"
PowerFor(s)  == IF s = OPEN THEN "off" ELSE "on"
Awaiting(l)  == IF l = 1 THEN "low" ELSE "high"

Asserted == /\ "irq" \in held
            /\ \/ irqType = "low" /\ pin = 0
               \/ irqType = "high" /\ pin = 1
               \/ edge

Init ==
  /\ pin \in Level
  /\ moved = FALSE
  /\ irqType = "none" /\ edge = FALSE
  /\ cur = 0 /\ state = OPEN
  /\ usb_sw \in {"low", "high"} /\ vgp1 \in {"off", "on"}
  /\ pending = FALSE
  /\ worker = "idle" /\ wstate = OPEN
  /\ isr = "idle"
  /\ probe = "chrdev" /\ held = {} /\ refused = FALSE

-----------------------------------------------------------------------------
(* cardreader_probe.  class_create and device_create report a failure as   *)
(* an error pointer, which the NULL tests let through, or as NULL.         *)

RegisterChrdev ==
  /\ probe = "chrdev"
  /\ \/ held' = held \cup {"chrdev"} /\ probe' = "class"
     \/ held' = held /\ probe' = "error"
  /\ UNCHANGED <<pinVars, irqVars, state, outputs, pending, workerVars, refused>>

ClassCreate ==
  /\ probe = "class"
  /\ \/ held' = held \cup {"class"} /\ probe' = "device"
     \/ held' = held /\ probe' \in {"device", "error"}
  /\ UNCHANGED <<pinVars, irqVars, state, outputs, pending, workerVars, refused>>

DeviceCreate ==
  /\ probe = "device"
  /\ \/ "class" \in held /\ held' = held \cup {"device"} /\ probe' = "gpio"
     \/ "class" \in held /\ held' = held /\ probe' = "error"
     \/ held' = held /\ probe' = "gpio"
  /\ UNCHANGED <<pinVars, irqVars, state, outputs, pending, workerVars, refused>>

\* Mistake: the class is forgotten at the error label.
ProbeErrorKeepsClass ==
  /\ probe = "error"
  /\ held' = held \ {"device", "chrdev"}
  /\ probe' = "failed"
  /\ UNCHANGED <<pinVars, irqVars, state, outputs, pending, workerVars, refused>>

ProbeError ==
  /\ probe = "error"
  /\ held' = held \ {"device", "class", "chrdev"}
  /\ probe' = "failed"
  /\ UNCHANGED <<pinVars, irqVars, state, outputs, pending, workerVars, refused>>

\* Mistake: the interrupt is set up before the queue exists.
GpioInitSkipsQueue ==
  /\ probe = "gpio"
  /\ usb_sw' = SwitchFor(OPEN)
  /\ vgp1' = IF Uart THEN PowerFor(OPEN) ELSE vgp1
  /\ held' \in {held, held \cup {"gpio"}}
  /\ probe' = "read"
  /\ UNCHANGED <<pinVars, irqVars, state, pending, workerVars, refused>>

(* cardreader_gpio_init: a failed gpio_request is only logged.  So is an   *)
(* error pointer in place of the pin controller or of one of its states,   *)
(* which is then used: the kernel goes down here, or where a state is      *)
(* selected for the first time, until when all is as if it were there.     *)
GpioInitFails ==
  /\ probe = "gpio" /\ isr' = "panic"
  /\ UNCHANGED <<pinVars, irqType, edge, cur, state, outputs, pending, workerVars,
                 probe, held, refused>>

GpioInit ==
  /\ probe = "gpio"
  /\ usb_sw' = SwitchFor(OPEN)
  /\ vgp1' = IF Uart THEN PowerFor(OPEN) ELSE vgp1
  /\ held' \in {held, held \cup {"gpio"}}
  /\ probe' = "workqueue"
  /\ UNCHANGED <<pinVars, irqVars, state, pending, workerVars, refused>>

(* create_singlethread_workqueue returns NULL when it fails, which nobody  *)
(* tests; the work item is initialised all the same.                       *)
CreateWorkqueue ==
  /\ probe = "workqueue"
  /\ held' \in {held \cup {"workqueue", "work"}, held \cup {"work"}}
  /\ pending' = FALSE
  /\ probe' = "read"
  /\ UNCHANGED <<pinVars, irqVars, state, outputs, workerVars, refused>>

\* Mistake: the outputs are left as cardreader_gpio_init set them.
ReadPinLeavesOutputs ==
  /\ probe = "read"
  /\ cur' = pin
  /\ state' = cur'
  /\ probe' = "request"
  /\ UNCHANGED <<pinVars, irqType, edge, isr, outputs, pending, workerVars, held, refused>>

(* cardreader_irq_registration: read the pin and set the outputs directly, *)
(* which nobody else drives yet.                                           *)
ReadPin ==
  /\ probe = "read"
  /\ cur' = pin
  /\ state' = cur'
  /\ usb_sw' = SwitchFor(state')
  /\ vgp1' = IF Uart THEN PowerFor(state') ELSE vgp1
  /\ probe' = "request"
  /\ UNCHANGED <<pinVars, irqType, edge, isr, pending, workerVars, held, refused>>

(* request_irq, which a missing device node skips.                         *)
RequestIrq ==
  /\ probe = "request"
  /\ \/ held' = held \cup {"irq"} /\ irqType' = "falling"
     \/ UNCHANGED <<held, irqType>>
  /\ probe' = "test"
  /\ UNCHANGED <<pinVars, edge, cur, isr, state, outputs, pending, workerVars, refused>>

(* Test cur_eint_gpio_state, then set the trigger: the handler may run     *)
(* between the two.                                                        *)
TestLevel ==
  /\ probe = "test"
  /\ probe' = IF cur = 1 THEN "set_low" ELSE "set_high"
  /\ UNCHANGED <<pinVars, irqVars, state, outputs, pending, workerVars, held, refused>>

\* Mistake: the line keeps the falling edge it was requested with.
SetTriggerStaysFalling ==
  /\ probe \in {"set_low", "set_high"}
  /\ irqType' = irqType /\ edge' = edge
  /\ probe' = IF "irq" \in held THEN "bound" ELSE "abandoned"
  /\ UNCHANGED <<pinVars, cur, isr, state, outputs, pending, workerVars, held, refused>>

SetTrigger ==
  /\ \/ probe = "set_low" /\ irqType' = "low"
     \/ probe = "set_high" /\ irqType' = "high"
  /\ edge' \in {FALSE, edge}
  /\ probe' = IF "irq" \in held THEN "bound" ELSE "abandoned"
  /\ UNCHANGED <<pinVars, cur, isr, state, outputs, pending, workerVars, held, refused>>

-----------------------------------------------------------------------------
(* cardreader_remove: destroy_workqueue lets queued work finish and refuses *)
(* more, then the pins are freed; the interrupt stays requested.  Without  *)
(* a queue it follows the null pointer.                                    *)

RemoveBegin ==
  /\ Unbinding /\ probe = "bound"
  /\ \/ "workqueue" \in held /\ probe' = "draining" /\ isr' = isr
     \/ "workqueue" \notin held /\ probe' = probe /\ isr' = "panic"
  /\ UNCHANGED <<pinVars, irqType, edge, cur, state, outputs, pending, workerVars,
                 held, refused>>

\* Mistake: the queue is freed without waiting for its work.
RemoveEndUndrained ==
  /\ probe = "draining"
  /\ held' = held \ {"workqueue", "gpio"}
  /\ probe' = "unbound"
  /\ UNCHANGED <<pinVars, irqVars, state, outputs, pending, workerVars, refused>>

RemoveEnd ==
  /\ probe = "draining"
  /\ ~pending /\ worker = "idle"
  /\ held' = held \ {"workqueue", "gpio"}
  /\ probe' = "unbound"
  /\ UNCHANGED <<pinVars, irqVars, state, outputs, pending, workerVars, refused>>

-----------------------------------------------------------------------------
(* cardreader_sim_eint_interrupt_handler, never nested with itself.        *)

IsrToggle ==
  /\ isr = "idle" /\ Asserted
  /\ cur' = 1 - cur
  /\ edge' = FALSE
  /\ isr' = "toggled"
  /\ UNCHANGED <<pinVars, irqType, state, outputs, pending, workerVars, probe, held, refused>>

IsrSetTrigger ==
  /\ isr = "toggled"
  /\ irqType' = Awaiting(cur)
  /\ edge' \in {FALSE, edge}
  /\ isr' = "typed"
  /\ UNCHANGED <<pinVars, cur, state, outputs, pending, workerVars, probe, held, refused>>

IsrPublish ==
  /\ isr = "typed"
  /\ state' = cur
  /\ isr' = "published"
  /\ UNCHANGED <<pinVars, irqType, edge, cur, outputs, pending, workerVars, probe, held, refused>>

\* Mistake: work is not queued again while the worker is under way.
IsrQueueWorkOnlyIdle ==
  /\ isr = "published"
  /\ pending' = (worker = "idle") /\ isr' = "idle"
  /\ UNCHANGED <<pinVars, irqType, edge, cur, state, outputs, workerVars, probe, held, refused>>

(* queue_work coalesces with an item that is still pending.  On a queue    *)
(* being destroyed it is refused, on a freed queue it may bring the kernel *)
(* down, and without a queue it follows the null pointer.                  *)
IsrQueueWork ==
  /\ isr = "published"
  /\ \/ /\ "workqueue" \in held /\ probe # "draining"
        /\ pending' = TRUE /\ isr' = "idle" /\ refused' = refused
     \/ /\ probe = "draining"
        /\ pending' = pending /\ isr' = "idle" /\ refused' = TRUE
     \/ /\ probe = "unbound"
        /\ pending' = pending /\ isr' \in {"idle", "panic"} /\ refused' = TRUE
     \/ /\ "workqueue" \notin held /\ probe # "unbound"
        /\ pending' = pending /\ isr' = "panic" /\ refused' = refused
  /\ UNCHANGED <<pinVars, irqType, edge, cur, state, outputs, workerVars, probe, held>>

-----------------------------------------------------------------------------
(* cardreader_sim_eint_do_work on the single worker thread.                *)

WorkStart ==
  /\ worker = "idle" /\ pending
  /\ pending' = FALSE
  /\ worker' = "read"
  /\ UNCHANGED <<pinVars, irqVars, state, outputs, wstate, probe, held, refused>>

WorkRead ==
  /\ worker = "read"
  /\ wstate' = state
  /\ worker' = "switch"
  /\ UNCHANGED <<pinVars, irqVars, state, outputs, pending, probe, held, refused>>

WorkSwitch ==
  /\ worker = "switch"
  /\ usb_sw' = SwitchFor(wstate)
  /\ worker' = IF Uart THEN "power" ELSE "sleep"
  /\ UNCHANGED <<pinVars, irqVars, state, vgp1, pending, wstate, probe, held, refused>>

WorkPower ==
  /\ worker = "power"
  /\ vgp1' = PowerFor(wstate)
  /\ worker' = "sleep"
  /\ UNCHANGED <<pinVars, irqVars, state, usb_sw, pending, wstate, probe, held, refused>>

\* Mistake: the request is cleared when the work is done, not when it starts.
WorkDoneClears ==
  /\ worker = "sleep"
  /\ worker' = "idle" /\ pending' = FALSE
  /\ UNCHANGED <<pinVars, irqVars, state, outputs, wstate, probe, held, refused>>

WorkDone ==
  /\ worker = "sleep"
  /\ worker' = "idle"
  /\ UNCHANGED <<pinVars, irqVars, state, outputs, pending, wstate, probe, held, refused>>

-----------------------------------------------------------------------------
(* The accessory is put in place or taken away.                            *)

PinMove ==
  /\ CleanPin => ~Asserted /\ isr = "idle" /\ (probe \in Window => ~moved)
  /\ pin' = 1 - pin
  /\ moved' = (moved \/ probe \in Window)
  /\ edge' = (edge \/ ("irq" \in held /\ irqType = "falling" /\ pin = 1))
  /\ UNCHANGED <<irqType, cur, isr, state, outputs, pending, workerVars, probe, held, refused>>

ProbeStep == \/ RegisterChrdev \/ ClassCreate \/ DeviceCreate \/ ProbeError
             \/ GpioInit \/ GpioInitFails \/ CreateWorkqueue \/ ReadPin \/ RequestIrq
             \/ TestLevel \/ SetTrigger
RemoveStep == RemoveBegin \/ RemoveEnd
IsrStep    == IsrToggle \/ IsrSetTrigger \/ IsrPublish \/ IsrQueueWork
WorkerStep == WorkStart \/ WorkRead \/ WorkSwitch \/ WorkPower \/ WorkDone

Next == /\ isr # "panic"
        /\ ProbeStep \/ RemoveStep \/ IsrStep \/ WorkerStep \/ PinMove

Spec == Init /\ [][Next]_vars

(* The kernel runs probe to its end, serves a raised interrupt and         *)
(* schedules the worker; nothing makes the pin move.                       *)
FairSpec == /\ Spec
            /\ WF_vars(ProbeStep /\ isr # "panic")
            /\ WF_vars(IsrStep /\ isr # "panic")
            /\ WF_vars(WorkerStep /\ isr # "panic")

-----------------------------------------------------------------------------
(* Types of the variables.                                                 *)
TypeOK ==
  /\ pin \in Level /\ moved \in BOOLEAN
  /\ irqType \in {"none", "falling", "low", "high"} /\ edge \in BOOLEAN
  /\ cur \in Level /\ state \in Level
  /\ usb_sw \in {"low", "high"} /\ vgp1 \in {"off", "on"}
  /\ pending \in BOOLEAN
  /\ worker \in {"idle", "read", "switch", "power", "sleep"} /\ wstate \in Level
  /\ isr \in {"idle", "toggled", "typed", "published", "panic"}
  /\ probe \in Probing \cup Window \cup Ended
  /\ held \in SUBSET Resources /\ refused \in BOOLEAN

Serving == probe \in Window \cup {"bound", "abandoned"} /\ isr # "panic"

Agrees(s) == usb_sw = SwitchFor(s) /\ (Uart => vgp1 = PowerFor(s))

(* One pending bit coalesces any number of interrupts (219), and the       *)
(* worker reads the state once (175) and drives the outputs later: still,  *)
(* whenever no work is queued, about to be queued or under way, the        *)
(* outputs are those of the last published state.                          *)
SwitchAgrees ==
  (Serving /\ ~pending /\ isr # "published" /\ worker \in {"idle", "sleep"})
    => Agrees(state)

(* The handler uses the work item (219) and may run from 262 on: it never  *)
(* finds the item not yet initialised (416).                               *)
WorkReady == isr \in {"toggled", "typed", "published"} => "work" \in held

(* A probe that ends at its error label (430-432) has given back all it    *)
(* registered, however far it came.                                        *)
ErrorPathReleases == probe = "failed" => held = {}

(* destroy_workqueue (439) lets the work queued before it finish before    *)
(* the pins are freed (440): what remove leaves behind is the position of  *)
(* the last published state, unless that state came too late to be queued. *)
RemovedSettled ==
  (probe = "unbound" /\ ~refused /\ isr \notin {"published", "panic"}) => Agrees(state)

(* The handler never reads the pin: it toggles cur and turns the trigger.  *)
(* On a clean pin that is enough: once bound, whenever no interrupt is     *)
(* raised or served, cur is the level of the pin and the line waits for    *)
(* the pin to leave it, even though registration tests cur and sets the    *)
(* trigger in two steps (274-279).                                         *)
FollowsPin ==
  (probe = "bound" /\ isr = "idle" /\ ~Asserted)
    => cur = pin /\ state = pin /\ irqType = Awaiting(pin)

(* If the pin comes to rest while the device is bound and has a queue, the *)
(* outputs come to rest at the position of that level.                     *)
SwitchSettles ==
  \A l \in Level :
    <>[](probe = "bound" /\ "workqueue" \in held /\ pin = l) => <>[]Agrees(l)

-----------------------------------------------------------------------------
(* The driver keeps the promise of UsbSwitch: irq_registration starts it,  *)
(* publishing a state asks, and a request is due from there until the      *)
(* worker has driven the last output it needs, with nothing new queued.    *)

Output       == <<usb_sw, IF Uart THEN vgp1 ELSE "unused">>
OutputFor(s) == <<SwitchFor(s), IF Uart THEN PowerFor(s) ELSE "unused">>
Due == Serving /\ ~(~pending /\ isr # "published" /\ worker \in {"idle", "sleep"})

Promise == INSTANCE UsbSwitch
             WITH Wants <- Level, Outs <- {"low", "high"} \X {"off", "on", "unused"},
                  For <- OutputFor,
                  serving <- Serving, want <- state, out <- Output, due <- Due

(* Whatever the pin does and however often the handler preempts the        *)
(* worker, every step of the driver is a step of the abstract switch, or   *)
(* none: in particular the step with which the worker stops being late     *)
(* (187, 194) leaves the outputs of the last state the handler published   *)
(* (217), not of the one the worker read (175).                            *)
KeepsPromise == Promise!Spec

(* A published state that stands is applied, though its work item may have *)
(* been coalesced with an earlier one (219).                               *)
PromiseAnswered == Promise!Answered
=============================================================================
