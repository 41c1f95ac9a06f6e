---------------------------- MODULE SmartCardApp ----------------------------
(***************************************************************************)
(* The smart card application (TestActivity.java): one activity whose      *)
(* handlers run on the UI thread, HotPlug threads that poll the card slot, *)
(* and the USB broadcasts that arrive in between.  The reader library      *)
(* (amlib, a closed jar), the USB host and the card are the environment.   *)
(*                                                                         *)
(* A HotPlug object and the Thread that runs it are created together and   *)
(* are one Task here; a task whose thread has ended is used again for the  *)
(* next one.  A Reader that mReader no longer names is out of everybody's  *)
(* reach, so mReader stands for the Reader it names and what was done with *)
(* it.  Texts shown in views are left out; the interrupt of onStop only    *)
(* cuts a sleep short, and a sleep has no fixed length here.               *)
(***************************************************************************)
EXTENDS Integers, Sequences

CONSTANTS
  Devices,         \* names of USB devices
  Alcor,           \* those that isAlcorReader accepts
  Tasks,           \* HotPlug objects whose threads may run at once
  NoTask,          \* mTask = mThread = null
  NoDevice,        \* no device opened yet
  MaxListed,       \* bound: how often a name is listed in the spinner, as far
                   \* as it is told
  MaxBroadcasts,   \* bound: broadcasts on their way to the receiver
  HardwareMayFail  \* new HardwareInterface(eUSB) may throw in onCreate

ASSUME AppConstants ==
  /\ Alcor \subseteq Devices
  /\ NoTask \notin Tasks /\ NoDevice \notin Devices
  /\ MaxListed \in Nat /\ MaxBroadcasts \in Nat
  /\ HardwareMayFail \in BOOLEAN

VARIABLES
  activity,    \* "none" until onCreate, then "visible", "stopped", "destroyed"
  ui,          \* "idle", inside a handler, or "crashed"
  enabled,     \* the buttons that are enabled
  mReader,     \* "null", or what was last done with the Reader it names
  mTask,
  isRunning,   \* the flag of each task
  tasks,       \* what each task's thread does next
  unheard,     \* tasks that were told to stop between start() and run(), and
               \* not since
  mSlotStatus,
  mReaderAdapter, \* how often each device name is listed
  hw,          \* mMyDev: "null", "open" or "closed"
  hwDevice,    \* the device mMyDev was initialised with
  attached,    \* USB devices plugged in
  asked,       \* devices whose permission dialog is open
  broadcasts,  \* broadcasts on their way, in order
  card         \* a card is in the slot

uiVars     == <<ui, enabled>>
readerVars == <<mReader, hw, hwDevice>>
taskVars   == <<isRunning, tasks, unheard>>
usbVars    == <<attached, asked, broadcasts, card>>
vars == <<activity, uiVars, readerVars, mTask, taskVars, mSlotStatus,
          mReaderAdapter, usbVars>>

Buttons   == {"List", "Connect", "ATR", "APDU", "Protocol", "Switch", "PowerOff"}
CardOps   == {"ATR", "APDU", "Protocol"}
ReaderStates == {"null", "fresh", "connected", "closed", "destroyed"}
TaskStates == {"ended", "created", "check", "poll", "absent", "removing",
               "present", "inserting", "sleep"}
Broadcasts == [kind : {"granted", "denied", "detached"}, device : Devices]

Init ==
  /\ activity = "none" /\ ui = "idle" /\ enabled = {}
  /\ mReader = "null"
  /\ hw = "null" /\ hwDevice = NoDevice
  /\ mTask = NoTask
  /\ isRunning = [t \in Tasks |-> FALSE] /\ tasks = [t \in Tasks |-> "ended"]
  /\ unheard = {}
  /\ mSlotStatus = "removed"
  /\ mReaderAdapter = [d \in Devices |-> 0]
  /\ attached \in SUBSET Devices /\ asked = {} /\ broadcasts = <<>>
  /\ card \in BOOLEAN

-----------------------------------------------------------------------------
(* Helpers.                                                                *)

UiFree == ui = "idle"

Clicked(b) == activity = "visible" /\ UiFree /\ b \in enabled

(* The receiver is registered from onCreate to onDestroy, unless onCreate  *)
(* returned early.                                                         *)
Registered == activity \in {"visible", "stopped"} /\ hw # "null"

(* The library reaches the slot: the hardware is open, its device plugged  *)
(* in, and the Reader still has its members.                               *)
Reachable == /\ hw = "open" /\ hwDevice \in attached
             /\ mReader \notin {"null", "destroyed"}

(* mTask, if there is one, is told to stop; a thread that is still to      *)
(* enter run() will not hear of it.                                        *)
StopTask ==
  /\ isRunning' = [t \in Tasks |-> IF t = mTask THEN FALSE ELSE isRunning[t]]
  /\ unheard' = (unheard \ {mTask}) \cup {t \in Tasks : t = mTask /\ tasks[t] = "created"}

UpToMax(n) == IF n > MaxListed THEN MaxListed ELSE n

Attached(d) == IF d \in attached \cap Alcor THEN 1 ELSE 0

-----------------------------------------------------------------------------
(* Life cycle of the activity.                                             *)

OnCreate ==
  /\ activity = "none"
  /\ activity' = "visible"
  /\ enabled' = {"List", "Connect"}
  /\ mSlotStatus' = "removed"
  /\ \/ hw' = "closed"
     \/ HardwareMayFail /\ hw' = "null"
  /\ UNCHANGED <<ui, mReader, hwDevice, mTask, taskVars,
                 mReaderAdapter, usbVars>>

\* Mistake: the running task is not told to stop.
OnStopKeepsTask ==
  /\ activity = "visible" /\ UiFree
  /\ activity' = "stopped"
  /\ UNCHANGED <<uiVars, readerVars, mTask, taskVars, mSlotStatus, mReaderAdapter, usbVars>>

OnStop ==
  /\ activity = "visible" /\ UiFree
  /\ activity' = "stopped"
  /\ StopTask
  /\ UNCHANGED <<uiVars, readerVars, mTask, tasks, mSlotStatus, mReaderAdapter, usbVars>>

OnRestart ==
  /\ activity = "stopped" /\ UiFree
  /\ activity' = "visible"
  /\ UNCHANGED <<uiVars, readerVars, mTask, taskVars, mSlotStatus, mReaderAdapter, usbVars>>

(* unregisterReceiver drops what is still on its way; it throws when       *)
(* onCreate returned before registering.                                   *)
OnDestroy ==
  /\ activity = "stopped" /\ UiFree
  /\ activity' = "destroyed"
  /\ IF Registered
     THEN /\ hw' = "closed"
          /\ mReader' = IF mReader = "null" THEN "null" ELSE "destroyed"
          /\ ui' = ui /\ broadcasts' = <<>>
     ELSE /\ ui' = "crashed"
          /\ UNCHANGED <<hw, mReader, broadcasts>>
  /\ UNCHANGED <<enabled, hwDevice, mTask, taskVars, mSlotStatus,
                 mReaderAdapter, attached, asked, card>>

-----------------------------------------------------------------------------
(* The spinner: listing the readers and asking for permission.             *)

ListOnClick ==
  /\ Clicked("List")
  /\ mReaderAdapter' = [d \in Devices |-> Attached(d)]
  /\ UNCHANGED <<activity, uiVars, readerVars, mTask, taskVars, mSlotStatus, usbVars>>

OnItemSelected(d) ==
  /\ activity = "visible" /\ UiFree
  /\ mReaderAdapter[d] > 0
  /\ IF hw = "null"          \* mManager was never set
     THEN ui' = "crashed" /\ asked' = asked
     ELSE ui' = ui /\ asked' = asked \cup ({d} \cap attached)
  /\ UNCHANGED <<activity, enabled, readerVars, mTask, taskVars, mSlotStatus,
                 mReaderAdapter, attached, broadcasts, card>>

-----------------------------------------------------------------------------
(* Buttons.                                                                *)

ConnectOnClick ==
  /\ Clicked("Connect")
  /\ Reachable /\ card
  /\ mReader' = "connected"
  /\ enabled' = (enabled \ {"Connect"}) \cup CardOps \cup {"PowerOff"}
  /\ \E t \in Tasks :
       /\ tasks[t] = "ended"
       /\ mTask' = t
       /\ tasks' = [tasks EXCEPT ![t] = "created"]
       /\ isRunning' = [isRunning EXCEPT ![t] = TRUE]
       /\ unheard' = unheard \ {t}
  /\ UNCHANGED <<activity, ui, hw, hwDevice, mSlotStatus,
                 mReaderAdapter, usbVars>>

(* A connect that fails or throws (mReader = null included), APDU and      *)
(* Protocol only show a text; so does ATR when it throws.                  *)
GetATROnClick ==
  /\ Clicked("ATR")
  /\ mReader # "null"
  /\ enabled' = enabled \ {"ATR"}
  /\ UNCHANGED <<activity, ui, readerVars, mTask, taskVars, mSlotStatus,
                 mReaderAdapter, usbVars>>

\* Mistake: Protocol is left enabled.
PowerOffKeepsProtocol ==
  /\ Clicked("PowerOff")
  /\ IF mReader = "null"
     THEN ui' = "crashed" /\ UNCHANGED <<mReader, enabled>>
     ELSE /\ mReader' = "closed"
          /\ enabled' = (enabled \ {"ATR", "APDU", "Switch", "PowerOff"}) \cup {"Connect"}
          /\ ui' = "stopping"
  /\ UNCHANGED <<activity, hw, hwDevice, mTask, taskVars, mSlotStatus,
                 mReaderAdapter, usbVars>>

(* mReader.close() and the buttons first, mTask.stopThread() last.         *)
PowerOffOnClick ==
  /\ Clicked("PowerOff")
  /\ IF mReader = "null"
     THEN ui' = "crashed" /\ UNCHANGED <<mReader, enabled>>
     ELSE /\ mReader' = "closed"
          /\ enabled' = (enabled \ (CardOps \cup {"Switch", "PowerOff"})) \cup {"Connect"}
          /\ ui' = "stopping"
  /\ UNCHANGED <<activity, hw, hwDevice, mTask, taskVars, mSlotStatus,
                 mReaderAdapter, usbVars>>

PowerOffStop ==
  /\ ui = "stopping"
  /\ IF mTask = NoTask
     THEN ui' = "crashed" /\ UNCHANGED <<isRunning, unheard>>
     ELSE ui' = "idle" /\ StopTask
  /\ UNCHANGED <<activity, enabled, readerVars, mTask, tasks, mSlotStatus,
                 mReaderAdapter, usbVars>>

-----------------------------------------------------------------------------
(* mReceiver.onReceive.                                                    *)

Received(k, d) ==
  /\ Registered /\ UiFree
  /\ broadcasts # <<>> /\ Head(broadcasts) = [kind |-> k, device |-> d]
  /\ broadcasts' = Tail(broadcasts)

\* Mistake: mReader is cleared before Init, and stays null when Init fails.
PermissionGrantedClearsFirst(d) ==
  /\ Received("granted", d)
  /\ \/ mReader' = "null" /\ hw' \in {hw, "closed"} /\ hwDevice' = hwDevice
     \/ d \in attached /\ mReader' = "fresh" /\ hw' = "open" /\ hwDevice' = d
  /\ UNCHANGED <<activity, uiVars, mTask, taskVars, mSlotStatus,
                 mReaderAdapter, attached, asked, card>>

(* InitReader fails, perhaps leaving mMyDev unusable, or replaces mReader  *)
(* and leaves the old reader as it is, unless the new one throws.  No      *)
(* button changes.                                                         *)
PermissionGranted(d) ==
  /\ Received("granted", d)
  /\ \/ hw' \in {hw, "closed"} /\ UNCHANGED <<mReader, hwDevice>>
     \/ /\ d \in attached
        /\ hw' = "open" /\ hwDevice' = d
        /\ mReader' \in {"fresh", mReader}
  /\ UNCHANGED <<activity, uiVars, mTask, taskVars, mSlotStatus,
                 mReaderAdapter, attached, asked, card>>

PermissionDenied(d) ==
  /\ Received("denied", d)
  /\ UNCHANGED <<activity, uiVars, readerVars, mTask, taskVars, mSlotStatus,
                 mReaderAdapter, attached, asked, card>>

\* Mistake: PowerOff is left enabled.
DeviceDetachedKeepsPowerOff(d) ==
  /\ Received("detached", d)
  /\ enabled' = (enabled \ {"ATR", "APDU", "Switch"}) \cup {"Connect"}
  /\ StopTask
  /\ UNCHANGED <<activity, ui, readerVars, mTask, tasks, mSlotStatus, mReaderAdapter,
                 attached, asked, card>>

\* Mistake: the task is left running.
DeviceDetachedKeepsTask(d) ==
  /\ Received("detached", d)
  /\ enabled' = (enabled \ {"ATR", "APDU", "Switch", "PowerOff"}) \cup {"Connect"}
  /\ UNCHANGED <<activity, ui, readerVars, mTask, taskVars, mSlotStatus, mReaderAdapter,
                 attached, asked, card>>

(* The list is appended to, not rebuilt; Protocol stays as it was; the     *)
(* reader is not closed.                                                   *)
DeviceDetached(d) ==
  /\ Received("detached", d)
  /\ enabled' = (enabled \ {"ATR", "APDU", "Switch", "PowerOff"}) \cup {"Connect"}
  /\ mReaderAdapter' = [e \in Devices |-> UpToMax(mReaderAdapter[e] + Attached(e))]
  /\ StopTask
  /\ UNCHANGED <<activity, ui, readerVars, mTask, tasks, mSlotStatus, attached,
                 asked, card>>

-----------------------------------------------------------------------------
(* HotPlug.run, one thread per task.  run() sets isRunning again.          *)

Goto(t, s) == tasks' = [tasks EXCEPT ![t] = s]

Begin(t) ==
  /\ tasks[t] = "created"
  /\ isRunning' = [isRunning EXCEPT ![t] = TRUE]
  /\ Goto(t, "check")
  /\ UNCHANGED <<activity, uiVars, readerVars, mTask, unheard, mSlotStatus,
                 mReaderAdapter, usbVars>>

Check(t) ==
  /\ tasks[t] = "check"
  /\ Goto(t, IF isRunning[t] THEN "poll" ELSE "ended")
  /\ UNCHANGED <<activity, uiVars, readerVars, mTask, isRunning, unheard, mSlotStatus,
                 mReaderAdapter, usbVars>>

(* getCardStatus on whatever reader mReader names now.  An error code      *)
(* leads to the sleep, an exception skips it.                              *)
Poll(t) ==
  /\ tasks[t] = "poll"
  /\ IF Reachable
     THEN Goto(t, IF card THEN "present" ELSE "absent")
     ELSE Goto(t, "sleep") \/ Goto(t, "check")
  /\ UNCHANGED <<activity, uiVars, readerVars, mTask, isRunning, unheard, mSlotStatus,
                 mReaderAdapter, usbVars>>

(* mSlotStatus is tested and set in two steps: tasks may overlap.          *)
Compare(t) ==
  /\ \/ tasks[t] = "absent"
        /\ Goto(t, IF mSlotStatus = "inserted" THEN "removing" ELSE "sleep")
     \/ tasks[t] = "present"
        /\ Goto(t, IF mSlotStatus = "removed" THEN "inserting" ELSE "sleep")
  /\ UNCHANGED <<activity, uiVars, readerVars, mTask, isRunning, unheard, mSlotStatus,
                 mReaderAdapter, usbVars>>

\* Mistake: the message is built but the status is not set.
CardRemovingForgets(t) ==
  /\ tasks[t] = "removing"
  /\ Goto(t, "sleep")
  /\ UNCHANGED <<activity, uiVars, readerVars, mTask, isRunning, unheard, mSlotStatus,
                 mReaderAdapter, usbVars>>

(* The removal message is built but never sent; the insertion message only *)
(* shows a text.                                                           *)
CardRemoving(t) ==
  /\ tasks[t] = "removing"
  /\ mSlotStatus' = "removed"
  /\ Goto(t, "sleep")
  /\ UNCHANGED <<activity, uiVars, readerVars, mTask, isRunning, unheard,
                 mReaderAdapter, usbVars>>

CardInserting(t) ==
  /\ tasks[t] = "inserting"
  /\ mSlotStatus' = "inserted"
  /\ Goto(t, "sleep")
  /\ UNCHANGED <<activity, uiVars, readerVars, mTask, isRunning, unheard,
                 mReaderAdapter, usbVars>>

Wake(t) ==
  /\ tasks[t] = "sleep"
  /\ Goto(t, "check")
  /\ UNCHANGED <<activity, uiVars, readerVars, mTask, isRunning, unheard, mSlotStatus,
                 mReaderAdapter, usbVars>>

-----------------------------------------------------------------------------
(* The environment: plugging, the permission dialog, the card.             *)

Send(k, d) == /\ Len(broadcasts) < MaxBroadcasts
              /\ broadcasts' = Append(broadcasts, [kind |-> k, device |-> d])

Attach(d) ==
  /\ d \notin attached
  /\ attached' = attached \cup {d}
  /\ UNCHANGED <<activity, uiVars, readerVars, mTask, taskVars, mSlotStatus,
                 mReaderAdapter, asked, broadcasts, card>>

Detach(d) ==
  /\ d \in attached
  /\ attached' = attached \ {d}
  /\ IF Registered THEN Send("detached", d) ELSE broadcasts' = broadcasts
  /\ UNCHANGED <<activity, uiVars, readerVars, mTask, taskVars, mSlotStatus,
                 mReaderAdapter, asked, card>>

Answer(d) ==
  /\ d \in asked
  /\ asked' = asked \ {d}
  /\ IF Registered THEN Send("granted", d) \/ Send("denied", d)
                   ELSE broadcasts' = broadcasts
  /\ UNCHANGED <<activity, uiVars, readerVars, mTask, taskVars, mSlotStatus,
                 mReaderAdapter, attached, card>>

MoveCard ==
  /\ card' = ~card
  /\ UNCHANGED <<activity, uiVars, readerVars, mTask, taskVars, mSlotStatus,
                 mReaderAdapter, attached, asked, broadcasts>>

Lifecycle == OnCreate \/ OnStop \/ OnRestart \/ OnDestroy
Click == \/ ListOnClick \/ ConnectOnClick \/ PowerOffOnClick
         \/ GetATROnClick
         \/ \E d \in Devices : OnItemSelected(d)
Receive == \E d \in Devices :
              PermissionGranted(d) \/ PermissionDenied(d) \/ DeviceDetached(d)
TaskStep(t) == \/ Begin(t) \/ Check(t) \/ Poll(t) \/ Compare(t)
               \/ CardRemoving(t) \/ CardInserting(t) \/ Wake(t)
Environment == \/ \E d \in Devices : Attach(d) \/ Detach(d) \/ Answer(d)
               \/ MoveCard

(* A crash of the UI thread ends the process, its threads included.        *)
Next == /\ ui # "crashed"
        /\ \/ Lifecycle \/ Click \/ PowerOffStop \/ Receive
           \/ \E t \in Tasks : TaskStep(t)
           \/ Environment

Spec == Init /\ [][Next]_vars

(* A thread that has not ended can always go on, and is scheduled: weak    *)
(* fairness of TaskStep(t), which always changes tasks[t], written out in  *)
(* a way that TLC evaluates faster.  Nothing else changes tasks[t] but a   *)
(* connect, of an ended thread.                                            *)
Runnable(t)  == tasks[t] # "ended" /\ ui # "crashed"
Scheduled(t) == []<>(~Runnable(t)) \/ []<><<TRUE>>_(tasks[t])

(* Threads are scheduled; no user, handler, card or device has to do       *)
(* anything.                                                               *)
FairSpec == Spec /\ \A t \in Tasks : Scheduled(t)

-----------------------------------------------------------------------------
(* Types of the variables.                                                 *)
TypeOK ==
  /\ activity \in {"none", "visible", "stopped", "destroyed"}
  /\ ui \in {"idle", "stopping", "crashed"}
  /\ enabled \subseteq Buttons
  /\ mReader \in ReaderStates
  /\ mTask \in Tasks \cup {NoTask}
  /\ isRunning \in [Tasks -> BOOLEAN]
  /\ tasks \in [Tasks -> TaskStates]
  /\ unheard \subseteq Tasks
  /\ mSlotStatus \in {"removed", "inserted"}
  /\ mReaderAdapter \in [Devices -> Nat]
  /\ hw \in {"null", "open", "closed"}
  /\ hwDevice \in Devices \cup {NoDevice}
  /\ attached \subseteq Devices /\ asked \subseteq Devices
  /\ broadcasts \in Seq(Broadcasts)
  /\ card \in BOOLEAN

(* Six handlers switch buttons on and off one by one (280-287, 422-426,    *)
(* 446, 553-558, 624-628).  Whatever their order, exactly one of Connect   *)
(* and PowerOff is enabled: the user is never stuck and never offered both.*)
ConnectXorPowerOff ==
  activity # "none" => (("Connect" \in enabled) # ("PowerOff" \in enabled))

(* PowerOffOnClick uses mReader and mTask with no null test and no try     *)
(* (551, 559), the spinner uses mManager (337) and onDestroy the receiver  *)
(* (259): when onCreate ran to its end none of them takes the UI down.     *)
NoUiCrash == ~HardwareMayFail => ui # "crashed"

(* Every successful connect starts a new task while older ones may still   *)
(* be running (427-429), and nothing joins them.  Two monitors go on       *)
(* polling the slot together only when the older was told to stop between  *)
(* start() and run(), which sets isRunning again (99): in every other      *)
(* order of clicks, stops and detachments the current one is alone.        *)
OneMonitor ==
  \A t \in Tasks : isRunning[t] /\ tasks[t] # "ended" => t = mTask \/ t \in unheard

(* Reader.close(): "After this method is used, uses connect() before       *)
(* resuming the communication."  However buttons, permission answers and   *)
(* detachments follow each other, ATR, APDU and Protocol are never offered *)
(* on a reader that was closed or destroyed, nor on none.                  *)
CanTalk == activity = "visible" /\ ui # "crashed" /\ enabled \cap CardOps # {}
TalksToOpenReader == CanTalk => mReader \in {"fresh", "connected"}

(* mSlotStatus is shared by overlapping tasks without a lock (112-122).    *)
(* Still, if the current task goes on running, its reader stays reachable  *)
(* and the card stays put, mSlotStatus comes to tell where the card is.    *)
SlotStatusSettles ==
  \A c \in BOOLEAN :
    <>[](/\ \E t \in Tasks : t = mTask /\ isRunning[t]
         /\ Reachable /\ card = c /\ ui # "crashed")
      => <>[](mSlotStatus = IF c THEN "inserted" ELSE "removed")

(* onStop stops only the current task (235-236) and onDestroy stops none:  *)
(* even so the only HotPlug threads to outlive the activity are those that *)
(* lost their stop between start() and run() (99).                         *)
ThreadsEnd ==
  activity = "destroyed" ~> \A t \in Tasks : tasks[t] = "ended" \/ t \in unheard

-----------------------------------------------------------------------------
(* What the library's documentation says, and the code does not do.        *)

(* Reader.connect(): "Calls this method before communication with ICC."    *)
ConnectBeforeTalking == CanTalk => mReader = "connected"
=============================================================================
