------------------------- MODULE SmartCardAppProofs -------------------------
(***************************************************************************)
(* Proofs about SmartCardApp, for any devices, any number of HotPlug       *)
(* threads and any bounds, about CardReaderSystem, where it runs with the  *)
(* driver and the bus, and about the exchange of HexCodec.                 *)
(***************************************************************************)
EXTENDS CardReaderSystem, HexCodec, SequenceTheorems, FiniteSetTheorems, TLAPS

(* What the buttons that are enabled, and the handler under way, promise   *)
(* about mReader, mTask and mMyDev.                                        *)
UiInv ==
  /\ activity = "none" => ui = "idle" /\ enabled = {}
  /\ ConnectXorPowerOff
  /\ "PowerOff" \in enabled => mReader # "null" /\ mTask # NoTask
  /\ ui = "stopping" => mTask # NoTask
  /\ activity # "none" /\ ~HardwareMayFail => hw # "null"
  /\ NoUiCrash
  /\ activity # "destroyed" /\ enabled \cap CardOps # {}
       => mReader \in {"fresh", "connected"}

(* Only the current task may go on, and those that did not hear that they  *)
(* were to stop; while the activity is not visible, or Connect is enabled  *)
(* (except between the two halves of PowerOffOnClick), only the latter.    *)
Lively(t) == isRunning[t] \/ tasks[t] = "created"

TaskInv ==
  /\ \A t \in Tasks : Lively(t) => t = mTask \/ t \in unheard
  /\ activity # "visible" \/ ("Connect" \in enabled /\ ui # "stopping")
       => \A t \in Tasks : Lively(t) => t \in unheard

-----------------------------------------------------------------------------
(* Every step of the UI thread, of the tasks and of the environment keeps  *)
(* the variables in their types.                                           *)
THEOREM TypeCorrect == Spec => []TypeOK
<1> USE DEF TypeOK, uiVars, readerVars, taskVars, usbVars
<1>1. Init => TypeOK
  BY AppConstants DEF Init, ReaderStates, TaskStates
<1>2. TypeOK /\ [Next]_vars => TypeOK'
  <2> SUFFICES ASSUME TypeOK, [Next]_vars PROVE TypeOK'
    OBVIOUS
  <2>1. CASE Lifecycle
    <3>1. CASE OnCreate
      BY <3>1 DEF OnCreate, Buttons
    <3>2. CASE OnStop
      BY <3>2 DEF OnStop, StopTask
    <3>3. CASE OnRestart
      BY <3>3 DEF OnRestart
    <3>4. CASE OnDestroy
      <4>1. broadcasts' \in Seq(Broadcasts)
        <5>1. << >> \in Seq(Broadcasts)
          OBVIOUS
        <5>2. broadcasts' = << >> \/ broadcasts' = broadcasts
          BY <3>4 DEF OnDestroy
        <5> QED
          BY <5>1, <5>2
      <4>2. mReader' \in ReaderStates
        BY <3>4 DEF OnDestroy, ReaderStates
      <4> QED
        BY <3>4, <4>1, <4>2 DEF OnDestroy
    <3> QED
      BY <2>1, <3>1, <3>2, <3>3, <3>4 DEF Lifecycle
  <2>2. CASE Click
    <3>1. CASE ListOnClick
      BY <3>1 DEF ListOnClick, Attached
    <3>2. CASE ConnectOnClick
      <4>1. PICK t \in Tasks : /\ mTask' = t
                               /\ tasks' = [tasks EXCEPT ![t] = "created"]
                               /\ isRunning' = [isRunning EXCEPT ![t] = TRUE]
        BY <3>2 DEF ConnectOnClick
      <4>2. tasks' \in [Tasks -> TaskStates]
        BY <4>1 DEF TaskStates
      <4>3. isRunning' \in [Tasks -> BOOLEAN]
        BY <4>1
      <4>4. enabled' \subseteq Buttons /\ mReader' \in ReaderStates
        BY <3>2 DEF ConnectOnClick, Buttons, CardOps, ReaderStates
      <4> QED
        BY <3>2, <4>1, <4>2, <4>3, <4>4 DEF ConnectOnClick
    <3>3. CASE PowerOffOnClick
      <4>1. enabled' \subseteq Buttons
        BY <3>3 DEF PowerOffOnClick, Buttons
      <4>2. mReader' \in ReaderStates
        BY <3>3 DEF PowerOffOnClick, ReaderStates
      <4> QED
        BY <3>3, <4>1, <4>2 DEF PowerOffOnClick
    <3>4. CASE GetATROnClick
      BY <3>4 DEF GetATROnClick
    <3>5. CASE \E d \in Devices : OnItemSelected(d)
      BY <3>5 DEF OnItemSelected
    <3> QED
      BY <2>2, <3>1, <3>2, <3>3, <3>4, <3>5 DEF Click
  <2>3. CASE PowerOffStop
    BY <2>3 DEF PowerOffStop, StopTask
  <2>4. CASE Receive
    <3>1. PICK d \in Devices :
            PermissionGranted(d) \/ PermissionDenied(d) \/ DeviceDetached(d)
      BY <2>4 DEF Receive
    <3>2. broadcasts' \in Seq(Broadcasts)
      <4>1. broadcasts # <<>> /\ broadcasts' = Tail(broadcasts)
        BY <3>1 DEF PermissionGranted, PermissionDenied, DeviceDetached, Received
      <4> QED
        BY <4>1, HeadTailProperties
    <3>3. CASE PermissionGranted(d)
      BY <3>2, <3>3 DEF PermissionGranted, ReaderStates
    <3>4. CASE PermissionDenied(d)
      BY <3>2, <3>4 DEF PermissionDenied
    <3>5. CASE DeviceDetached(d)
      <4>1. mReaderAdapter' \in [Devices -> Nat]
        BY <3>5, AppConstants, SMT DEF DeviceDetached, Attached, UpToMax
      <4>2. enabled' \subseteq Buttons /\ isRunning' \in [Tasks -> BOOLEAN]
        BY <3>5 DEF DeviceDetached, Buttons, StopTask
      <4>3. unheard' \subseteq Tasks
        BY <3>5 DEF DeviceDetached, StopTask
      <4> QED
        BY <3>2, <3>5, <4>1, <4>2, <4>3 DEF DeviceDetached
    <3> QED
      BY <3>1, <3>3, <3>4, <3>5
  <2>5. CASE \E t \in Tasks : TaskStep(t)
    <3>1. PICK t \in Tasks : TaskStep(t)
      BY <2>5
    <3>2. tasks' \in [Tasks -> TaskStates]
      BY <3>1 DEF TaskStep, Begin, Check, Poll, Compare, CardRemoving, CardInserting,
                  Wake, Goto, TaskStates
    <3>3. isRunning' \in [Tasks -> BOOLEAN] /\ unheard' \subseteq Tasks
      BY <3>1 DEF TaskStep, Begin, Check, Poll, Compare, CardRemoving, CardInserting, Wake
    <3>4. /\ mSlotStatus' \in {"removed", "inserted"}
      BY <3>1 DEF TaskStep, Begin, Check, Poll, Compare, CardRemoving, CardInserting, Wake
    <3>5. UNCHANGED <<activity, uiVars, readerVars, mTask, mReaderAdapter, usbVars>>
      BY <3>1 DEF TaskStep, Begin, Check, Poll, Compare, CardRemoving, CardInserting, Wake
    <3> QED
      BY <3>2, <3>3, <3>4, <3>5
  <2>6. CASE Environment
    <3>1. ASSUME NEW k \in {"granted", "denied", "detached"}, NEW d \in Devices, Send(k, d)
          PROVE  broadcasts' \in Seq(Broadcasts)
      BY <3>1 DEF Send, Broadcasts
    <3>2. CASE \E d \in Devices : Attach(d)
      BY <3>2 DEF Attach
    <3>3. CASE \E d \in Devices : Detach(d)
      <4>1. broadcasts' \in Seq(Broadcasts)
        BY <3>1, <3>3 DEF Detach
      <4> QED
        BY <3>3, <4>1 DEF Detach
    <3>4. CASE \E d \in Devices : Answer(d)
      <4>1. broadcasts' \in Seq(Broadcasts)
        BY <3>1, <3>4 DEF Answer
      <4> QED
        BY <3>4, <4>1 DEF Answer
    <3>5. CASE MoveCard
      BY <3>5 DEF MoveCard
    <3> QED
      BY <2>6, <3>2, <3>3, <3>4, <3>5 DEF Environment
  <2>7. CASE UNCHANGED vars
    BY <2>7 DEF vars
  <2> QED
    BY <2>1, <2>2, <2>3, <2>4, <2>5, <2>6, <2>7 DEF Next
<1> QED
  BY <1>1, <1>2, PTL DEF Spec

(* The buttons and the handlers agree with what the fields hold.           *)
LEMMA UiInvHolds == Spec => []UiInv
<1> USE DEF UiInv, ConnectXorPowerOff, NoUiCrash, uiVars, readerVars, taskVars
<1>1. Init => UiInv
  BY DEF Init
<1>2. TypeOK /\ UiInv /\ [Next]_vars => UiInv'
  <2> SUFFICES ASSUME TypeOK, UiInv, [Next]_vars PROVE UiInv'
    OBVIOUS
  <2>1. CASE Lifecycle
    <3>1. CASE OnCreate
      BY <3>1 DEF OnCreate, CardOps
    <3>2. CASE OnStop \/ OnRestart
      BY <3>2 DEF OnStop, OnRestart
    <3>3. CASE OnDestroy
      BY <3>3 DEF OnDestroy, Registered, UiFree
    <3> QED
      BY <2>1, <3>1, <3>2, <3>3 DEF Lifecycle
  <2>2. CASE Click
    <3>1. CASE ListOnClick
      BY <3>1 DEF ListOnClick
    <3>2. CASE ConnectOnClick
      BY <3>2, AppConstants DEF ConnectOnClick, Clicked, CardOps
    <3>3. CASE PowerOffOnClick
      BY <3>3 DEF PowerOffOnClick, Clicked, CardOps
    <3>4. CASE GetATROnClick
      BY <3>4 DEF GetATROnClick, Clicked
    <3>5. CASE \E d \in Devices : OnItemSelected(d)
      BY <3>5 DEF OnItemSelected, UiFree
    <3> QED
      BY <2>2, <3>1, <3>2, <3>3, <3>4, <3>5 DEF Click
  <2>3. CASE PowerOffStop
    BY <2>3 DEF PowerOffStop
  <2>4. CASE Receive
    <3>1. PICK d \in Devices :
            PermissionGranted(d) \/ PermissionDenied(d) \/ DeviceDetached(d)
      BY <2>4 DEF Receive
    <3>2. CASE PermissionGranted(d)
      BY <3>2 DEF PermissionGranted, Received, Registered
    <3>3. CASE PermissionDenied(d)
      BY <3>3 DEF PermissionDenied
    <3>4. CASE DeviceDetached(d)
      BY <3>4 DEF DeviceDetached, Received, Registered, UiFree, CardOps
    <3> QED
      BY <3>1, <3>2, <3>3, <3>4
  <2>5. CASE \E t \in Tasks : TaskStep(t)
    BY <2>5 DEF TaskStep, Begin, Check, Poll, Compare, CardRemoving, CardInserting, Wake
  <2>6. CASE Environment
    BY <2>6 DEF Environment, Attach, Detach, Answer, MoveCard
  <2>7. CASE UNCHANGED vars
    BY <2>7 DEF vars
  <2> QED
    BY <2>1, <2>2, <2>3, <2>4, <2>5, <2>6, <2>7 DEF Next
<1> QED
  BY <1>1, <1>2, TypeCorrect, PTL DEF Spec

(* The user is always offered exactly one of Connect and PowerOff.         *)
THEOREM OneWayOn == Spec => []ConnectXorPowerOff
<1>1. UiInv => ConnectXorPowerOff
  BY DEF UiInv
<1> QED
  BY <1>1, UiInvHolds, PTL

(* No unguarded dereference of a UI handler meets null.                    *)
THEOREM UiDoesNotCrash == Spec => []NoUiCrash
<1>1. UiInv => NoUiCrash
  BY DEF UiInv
<1> QED
  BY <1>1, UiInvHolds, PTL

(* ATR, APDU and Protocol are offered only on a reader that is neither     *)
(* closed nor destroyed, whatever broadcasts came in between.              *)
THEOREM NoTalkAfterClose == Spec => []TalksToOpenReader
<1>1. UiInv => TalksToOpenReader
  BY DEF UiInv, TalksToOpenReader, CanTalk
<1> QED
  BY <1>1, UiInvHolds, PTL

(* TaskInv is inductive, given the types and UiInv.                        *)
LEMMA TaskInvHolds == Spec => []TaskInv
<1> USE DEF TaskInv, Lively
<1>1. Init => TaskInv
  BY DEF Init
<1>2. TypeOK /\ UiInv /\ TaskInv /\ [Next]_vars => TaskInv'
  <2> SUFFICES ASSUME TypeOK, UiInv, TaskInv, [Next]_vars PROVE TaskInv'
    OBVIOUS
  <2> USE DEF uiVars, taskVars
  <2>0. ASSUME StopTask, tasks' = tasks PROVE \A t \in Tasks : Lively(t)' => t \in unheard'
    BY <2>0 DEF StopTask
  <2>1. CASE Lifecycle
    <3>1. CASE OnCreate
      BY <3>1 DEF OnCreate
    <3>2. CASE OnStop
      BY <3>2, <2>0 DEF OnStop, UiFree
    <3>3. CASE OnRestart
      BY <3>3 DEF OnRestart
    <3>4. CASE OnDestroy
      BY <3>4 DEF OnDestroy, UiFree
    <3> QED
      BY <2>1, <3>1, <3>2, <3>3, <3>4 DEF Lifecycle
  <2>2. CASE Click
    <3>1. CASE ListOnClick
      BY <3>1 DEF ListOnClick
    <3>2. CASE ConnectOnClick
      <4>1. PICK t \in Tasks : /\ mTask' = t
                               /\ tasks' = [tasks EXCEPT ![t] = "created"]
                               /\ isRunning' = [isRunning EXCEPT ![t] = TRUE]
                               /\ unheard' = unheard \ {t}
        BY <3>2 DEF ConnectOnClick
      <4>2. \A u \in Tasks : Lively(u) => u \in unheard
        BY <3>2 DEF ConnectOnClick, Clicked, UiFree
      <4>3. activity' = "visible" /\ ui' # "stopping" /\ "Connect" \notin enabled'
        BY <3>2 DEF ConnectOnClick, Clicked, UiFree, CardOps
      <4> QED
        BY <4>1, <4>2, <4>3 DEF TypeOK
    <3>3. CASE PowerOffOnClick
      BY <3>3 DEF PowerOffOnClick, UiInv, Clicked, UiFree
    <3>4. CASE GetATROnClick
      BY <3>4 DEF GetATROnClick
    <3>5. CASE \E d \in Devices : OnItemSelected(d)
      BY <3>5 DEF OnItemSelected, UiFree
    <3> QED
      BY <2>2, <3>1, <3>2, <3>3, <3>4, <3>5 DEF Click
  <2>3. CASE PowerOffStop
    BY <2>0, <2>3 DEF PowerOffStop, UiInv
  <2>4. CASE Receive
    <3>1. PICK d \in Devices :
            PermissionGranted(d) \/ PermissionDenied(d) \/ DeviceDetached(d)
      BY <2>4 DEF Receive
    <3>2. CASE PermissionGranted(d)
      BY <3>2 DEF PermissionGranted
    <3>3. CASE PermissionDenied(d)
      BY <3>3 DEF PermissionDenied
    <3>4. CASE DeviceDetached(d)
      BY <3>4, <2>0 DEF DeviceDetached, Received, UiFree
    <3> QED
      BY <3>1, <3>2, <3>3, <3>4
  <2>5. CASE \E t \in Tasks : TaskStep(t)
    <3>1. PICK t \in Tasks : TaskStep(t)
      BY <2>5
    <3>2. UNCHANGED <<activity, uiVars, mTask>>
      BY <3>1 DEF TaskStep, Begin, Check, Poll, Compare, CardRemoving, CardInserting, Wake
    <3>3. unheard' = unheard
      BY <3>1 DEF TaskStep, Begin, Check, Poll, Compare, CardRemoving, CardInserting, Wake
    <3>4. \A u \in Tasks : Lively(u)' => Lively(u)
      BY <3>1 DEF TaskStep, Begin, Check, Poll, Compare, CardRemoving, CardInserting,
                  Wake, Goto, TypeOK
    <3> QED
      BY <3>2, <3>3, <3>4
  <2>6. CASE Environment
    BY <2>6 DEF Environment, Attach, Detach, Answer, MoveCard
  <2>7. CASE UNCHANGED vars
    BY <2>7 DEF vars
  <2> QED
    BY <2>1, <2>2, <2>3, <2>4, <2>5, <2>6, <2>7 DEF Next
<1> QED
  BY <1>1, <1>2, TypeCorrect, UiInvHolds, PTL DEF Spec

(* Replacing mTask leaves an older task running only when that task lost   *)
(* its stop between start() and run().                                     *)
THEOREM MonitorIsAlone == Spec => []OneMonitor
<1>1. TaskInv => OneMonitor
  BY DEF TaskInv, Lively, OneMonitor
<1> QED
  BY <1>1, TaskInvHolds, PTL

(* How many steps a thread still takes when it is to stop.                 *)
StepsLeft(s) == [ended |-> 0, check |-> 1, sleep |-> 2, removing |-> 3, inserting |-> 3,
                 absent |-> 4, present |-> 4, poll |-> 5, created |-> 6][s]

(* onStop tells only the task mTask names to stop, and onDestroy none, but *)
(* while the activity is not visible no thread, but those that lost their  *)
(* stop between start() and run(), goes round its loop again: whatever a   *)
(* thread does brings it nearer to its end, and what anybody else does     *)
(* leaves it where it is.                                                  *)
THEOREM ThreadsWindDown ==
  Spec =>
    [][activity # "visible" =>
         \A t \in Tasks \ unheard : tasks'[t] = tasks[t] \/ StepsLeft(tasks'[t]) < StepsLeft(tasks[t])]_vars
<1>1. ASSUME TypeOK, TaskInv, Next, activity # "visible", NEW u \in Tasks \ unheard, tasks'[u] # tasks[u]
      PROVE  StepsLeft(tasks'[u]) < StepsLeft(tasks[u])
  <2>1. PICK t \in Tasks : TaskStep(t)
    <3>1. tasks' # tasks
      BY <1>1
    <3>2. ~ConnectOnClick
      BY <1>1 DEF ConnectOnClick, Clicked
    <3> QED
      BY <1>1, <3>1, <3>2 DEF Next, Lifecycle, OnCreate, OnStop, OnRestart, OnDestroy, Click,
           ListOnClick, PowerOffOnClick, GetATROnClick, OnItemSelected, PowerOffStop,
           Receive, PermissionGranted, PermissionDenied, DeviceDetached, Environment,
           Attach, Detach, Answer, MoveCard, taskVars
  <2>2. ~isRunning[u] /\ tasks[u] # "created"
    BY <1>1 DEF TaskInv, Lively
  <2>3. t = u
    BY <1>1, <2>1 DEF TaskStep, Begin, Check, Poll, Compare, CardRemoving, CardInserting,
                      Wake, Goto, TypeOK
  <2>4. \/ tasks[u] = "check" /\ tasks'[u] = "ended"
        \/ tasks[u] = "poll" /\ tasks'[u] \in {"present", "absent", "sleep", "check"}
        \/ tasks[u] \in {"absent", "present"} /\ tasks'[u] \in {"removing", "inserting", "sleep"}
        \/ tasks[u] \in {"removing", "inserting"} /\ tasks'[u] = "sleep"
        \/ tasks[u] = "sleep" /\ tasks'[u] = "check"
    BY <1>1, <2>1, <2>2, <2>3 DEF TaskStep, Begin, Check, Poll, Compare, CardRemoving,
                      CardInserting, Wake, Goto, TypeOK
  <2> QED
    BY <2>4 DEF StepsLeft
<1>2. TypeOK /\ TaskInv /\ [Next]_vars
        => [activity # "visible" => \A t \in Tasks \ unheard :
              tasks'[t] = tasks[t] \/ StepsLeft(tasks'[t]) < StepsLeft(tasks[t])]_vars
  BY <1>1
<1> QED
  BY <1>2, TypeCorrect, TaskInvHolds, PTL DEF Spec

-----------------------------------------------------------------------------
(* The status of the slot.                                                 *)

Unmade == activity = "none" => mReader = "null"

LEMMA UnmadeHolds == Spec => []Unmade
<1>1. Init => Unmade
  BY DEF Init, Unmade
<1>2. Unmade /\ [Next]_vars => Unmade'
  BY DEF Unmade, Next, Lifecycle, OnCreate, OnStop, OnRestart, OnDestroy, Click, Clicked, ListOnClick,
     OnItemSelected, ConnectOnClick, GetATROnClick, PowerOffOnClick, PowerOffStop, Receive, Received,
     Registered, PermissionGranted, PermissionDenied, DeviceDetached, TaskStep, Begin, Check, Poll,
     Compare, CardRemoving, CardInserting, Wake, Environment, Attach, Detach, Answer, MoveCard,
     vars, readerVars
<1> QED
  BY <1>1, <1>2, PTL DEF Spec

Truth == IF card THEN "inserted" ELSE "removed"

(* Threads that saw the card, or its absence, before it was moved.         *)
Misled(s) == s \in IF card THEN {"absent", "removing"} ELSE {"present", "inserting"}

Converges ==
  /\ \A t \in Tasks : Misled(tasks[t])' =>
       /\ Misled(tasks[t])
       /\ tasks'[t] = tasks[t] \/ tasks'[t] \in {"removing", "inserting"}
  /\ (\A t \in Tasks : ~Misled(tasks[t])) =>
       /\ mSlotStatus = Truth => mSlotStatus' = Truth
       /\ \A t \in Tasks : tasks[t] # "sleep" /\ tasks'[t] = "sleep" => mSlotStatus' = Truth

(* mSlotStatus is tested and set with no lock by any number of threads.    *)
(* While the reader can be reached and the card rests, nobody is misled    *)
(* anew, and who is misled takes a last step or two; from then on a thread *)
(* that goes through its loop leaves the status true, and no other thread  *)
(* spoils it.                                                              *)
THEOREM StatusConverges == Spec => [][Reachable /\ card' = card => Converges]_vars
<1>1. ASSUME TypeOK, Unmade, Next, Reachable, card' = card PROVE Converges
  <2> USE <1>1 DEF TypeOK, Misled, Truth, Converges
  <2>1. ASSUME UNCHANGED <<tasks, mSlotStatus>> PROVE Converges
    BY <2>1
  <2>2. CASE Lifecycle
    BY <2>1, <2>2 DEF Lifecycle, OnCreate, OnStop, OnRestart, OnDestroy, taskVars, Unmade, Reachable
  <2>3. CASE ConnectOnClick
    <3>1. PICK u \in Tasks : tasks' = [tasks EXCEPT ![u] = "created"]
      BY <2>3 DEF ConnectOnClick
    <3>2. mSlotStatus' = mSlotStatus
      BY <2>3 DEF ConnectOnClick
    <3> QED
      BY <3>1, <3>2
  <2>4. CASE Click /\ ~ConnectOnClick
    BY <2>1, <2>4 DEF Click, ListOnClick, OnItemSelected, GetATROnClick, PowerOffOnClick, taskVars
  <2>5. CASE PowerOffStop \/ Receive \/ Environment
    BY <2>1, <2>5 DEF PowerOffStop, Receive, PermissionGranted, PermissionDenied, DeviceDetached,
       Environment, Attach, Detach, Answer, MoveCard, taskVars
  <2>6. ASSUME NEW u \in Tasks, TaskStep(u) PROVE Converges
    <3>1. CASE Begin(u) \/ Check(u) \/ Wake(u)
      BY <3>1 DEF Begin, Check, Wake, Goto
    <3>2. CASE Poll(u)
      BY <3>2 DEF Poll, Goto
    <3>3. CASE Compare(u)
      BY <3>3 DEF Compare, Goto
    <3>4. CASE CardRemoving(u) \/ CardInserting(u)
      BY <3>4 DEF CardRemoving, CardInserting, Goto
    <3> QED
      BY <2>6, <3>1, <3>2, <3>3, <3>4 DEF TaskStep
  <2> QED
    BY <2>2, <2>3, <2>4, <2>5, <2>6 DEF Next
<1>2. TypeOK /\ Unmade /\ [Next]_vars => [Reachable /\ card' = card => Converges]_vars
  BY <1>1
<1> QED
  BY <1>2, TypeCorrect, UnmadeHolds, PTL DEF Spec

-----------------------------------------------------------------------------
(* The reader as one system.                                               *)

(* In the system the application does nothing it could not do alone: the   *)
(* bus and the driver only take away steps of its environment.             *)
LEMMA SystemIsApplication == SysSpec => Spec
<1>1. SysInit => Init
  BY DEF SysInit
<1>2. [SysNext]_sysVars => [Next]_vars
  <2> SUFFICES ASSUME [SysNext]_sysVars PROVE [Next]_vars
    OBVIOUS
  <2>0. Reader \in Devices
    BY AppConstants, SystemConstants
  <2>1. CASE DriverStep
    BY <2>1 DEF DriverStep
  <2>2. CASE Bus /\ ui # "crashed"
    BY <2>0, <2>2 DEF Bus, Enumerate, Disconnect, Next, Environment
  <2>3. CASE AppStep
    BY <2>0, <2>3 DEF AppStep, Next, Environment
  <2>4. CASE UNCHANGED sysVars
    BY <2>4 DEF sysVars
  <2> QED
    BY <2>1, <2>2, <2>3, <2>4 DEF SysNext
<1> QED
  BY <1>1, <1>2, PTL DEF SysSpec, Spec

(* Only the reader is ever on the bus.  As long as a connection may be     *)
(* shown the receiver is registered, so that a reader that leaves sends    *)
(* news of it, and that news is not consumed without the connection being  *)
(* withdrawn.                                                              *)
SysInv ==
  /\ attached \subseteq {Reader}
  /\ (activity # "destroyed" /\ enabled \cap {"ATR", "APDU", "PowerOff"} # {})
       => hw # "null" /\ (Reader \in attached \/ News("detached"))

(* What waits stays, behind its predecessor's removal or before its        *)
(* successor's arrival.                                                    *)
LEMMA NewsWaits ==
  ASSUME TypeOK, News("detached")
  PROVE  /\ \A b \in Broadcasts : broadcasts' = Append(broadcasts, b) => News("detached")'
         /\ (/\ broadcasts # <<>> /\ Head(broadcasts).kind # "detached"
             /\ broadcasts' = Tail(broadcasts)) => News("detached")'
<1>0. broadcasts \in Seq(Broadcasts)
  BY DEF TypeOK
<1>1. PICK i \in 1 .. Len(broadcasts) :
        broadcasts[i] = [kind |-> "detached", device |-> Reader]
  BY DEF News
<1>2. ASSUME NEW b \in Broadcasts, broadcasts' = Append(broadcasts, b)
      PROVE  News("detached")'
  <2>1. /\ Len(broadcasts') = Len(broadcasts) + 1
        /\ broadcasts'[i] = broadcasts[i]
    BY <1>0, <1>2
  <2>2. i \in 1 .. Len(broadcasts')
    BY <1>0, <2>1
  <2> QED
    BY <1>1, <2>1, <2>2 DEF News
<1>3. ASSUME broadcasts # <<>>, Head(broadcasts).kind # "detached",
             broadcasts' = Tail(broadcasts)
      PROVE  News("detached")'
  <2>1. i # 1
    BY <1>0, <1>1, <1>3
  <2>2. i - 1 \in 1 .. Len(broadcasts') /\ broadcasts'[i - 1] = broadcasts[i]
    BY <1>0, <1>3, <2>1
  <2> QED
    BY <1>1, <2>2 DEF News
<1> QED
  BY <1>2, <1>3

(* However the accessory bounces and the broadcasts lag behind, the        *)
(* application shows a connection only while the reader is on the bus or   *)
(* the news that it left is on its way.                                    *)
THEOREM ShownIsKnown == SysSpec => []ConnectionKnown
<1> USE DEF SysInv, uiVars, readerVars, taskVars, usbVars
<1>1. SysInit => SysInv
  BY DEF SysInit, Init
<1>2. TypeOK /\ UiInv /\ SysInv /\ [SysNext]_sysVars => SysInv'
  <2> SUFFICES ASSUME TypeOK, UiInv, SysInv, [SysNext]_sysVars PROVE SysInv'
    OBVIOUS
  <2>0. broadcasts' = broadcasts => News("detached")' = News("detached")
    BY DEF News
  <2>1. CASE DriverStep \/ UNCHANGED sysVars
    BY <2>0, <2>1 DEF DriverStep, sysVars, vars
  <2>2. CASE Bus
    <3>1. CASE Enumerate
      BY <3>1 DEF Enumerate, Attach
    <3>2. CASE Disconnect
      <4>1. attached' \subseteq {Reader} /\ UNCHANGED <<activity, enabled, hw>>
        BY <3>2 DEF Disconnect, Detach
      <4>2. ASSUME activity # "destroyed", enabled \cap {"ATR", "APDU", "PowerOff"} # {}
            PROVE  News("detached")'
        <5>1. Registered
          BY <4>2 DEF Registered, UiInv, TypeOK
        <5>2. broadcasts' = Append(broadcasts, [kind |-> "detached", device |-> Reader])
          BY <3>2, <5>1 DEF Disconnect, Detach, Send
        <5>3. [kind |-> "detached", device |-> Reader] \in Broadcasts
          BY AppConstants, SystemConstants DEF Broadcasts
        <5>4. /\ Len(broadcasts) + 1 \in 1 .. Len(broadcasts')
              /\ broadcasts'[Len(broadcasts) + 1] = [kind |-> "detached", device |-> Reader]
          BY <5>2, <5>3 DEF TypeOK
        <5> QED
          BY <5>4 DEF News
      <4> QED
        BY <4>1, <4>2
    <3> QED
      BY <2>2, <3>1, <3>2 DEF Bus
  <2>3. CASE AppStep /\ Lifecycle
    BY <2>0, <2>3 DEF Lifecycle, OnCreate, OnStop, OnRestart, OnDestroy, UiInv
  <2>4. CASE AppStep /\ Click
    <3>1. CASE ConnectOnClick
      <4>1. Reader \in attached /\ hw # "null"
        BY <3>1 DEF ConnectOnClick, Reachable
      <4> QED
        BY <3>1, <4>1 DEF ConnectOnClick
    <3>2. CASE ListOnClick \/ PowerOffOnClick \/ GetATROnClick \/ \E d \in Devices : OnItemSelected(d)
      <4>1. /\ enabled' \cap {"ATR", "APDU", "PowerOff"} \subseteq enabled
            /\ UNCHANGED <<activity, hw, attached, broadcasts>>
        BY <3>2 DEF ListOnClick, PowerOffOnClick, GetATROnClick, OnItemSelected
      <4> QED
        BY <2>0, <4>1
    <3> QED
      BY <2>4, <3>1, <3>2 DEF Click
  <2>5. CASE AppStep /\ PowerOffStop
    BY <2>0, <2>5 DEF PowerOffStop
  <2>6. CASE AppStep /\ Receive
    <3>1. PICK d \in Devices :
            PermissionGranted(d) \/ PermissionDenied(d) \/ DeviceDetached(d)
      BY <2>6 DEF Receive
    <3>2. CASE PermissionGranted(d) \/ PermissionDenied(d)
      <4>1. /\ broadcasts # <<>> /\ Head(broadcasts).kind # "detached"
            /\ broadcasts' = Tail(broadcasts)
        BY <3>2 DEF PermissionGranted, PermissionDenied, Received
      <4>2. News("detached") => News("detached")'
        BY <4>1, NewsWaits
      <4> QED
        BY <3>2, <4>2 DEF PermissionGranted, PermissionDenied
    <3>3. CASE DeviceDetached(d)
      BY <3>3 DEF DeviceDetached
    <3> QED
      BY <3>1, <3>2, <3>3
  <2>7. CASE AppStep /\ \E t \in Tasks : TaskStep(t)
    BY <2>0, <2>7 DEF TaskStep, Begin, Check, Poll, Compare, CardRemoving, CardInserting, Wake
  <2>8. CASE AppStep /\ (Answer(Reader) \/ MoveCard)
    <3>1. UNCHANGED <<activity, enabled, hw, attached>>
      BY <2>8 DEF Answer, MoveCard
    <3>2. News("detached") => News("detached")'
      <4>1. CASE broadcasts' = broadcasts
        BY <2>0, <4>1
      <4>2. CASE \E k \in {"granted", "denied"} : Send(k, Reader)
        <5>1. PICK k \in {"granted", "denied"} :
                broadcasts' = Append(broadcasts, [kind |-> k, device |-> Reader])
          BY <4>2 DEF Send
        <5>2. [kind |-> k, device |-> Reader] \in Broadcasts
          BY AppConstants, SystemConstants DEF Broadcasts
        <5> QED
          BY <5>1, <5>2, NewsWaits
      <4> QED
        BY <2>8, <4>1, <4>2 DEF Answer, MoveCard
    <3> QED
      BY <3>1, <3>2
  <2> QED
    BY <2>1, <2>2, <2>3, <2>4, <2>5, <2>6, <2>7, <2>8 DEF SysNext, AppStep
<1>3. SysInv => ConnectionKnown
  BY DEF ConnectionKnown, ShowsConnection
<1> QED
  BY <1>1, <1>2, <1>3, SystemIsApplication, TypeCorrect, UiInvHolds, PTL DEF SysSpec

-----------------------------------------------------------------------------
(* The exchange of the APDU button.                                        *)

(* A digit has one value, and a space none.                                *)
LEMMA ValueType == \A c : Value(c) \in -1 .. 15 /\ (Value(c) >= 0 <=> IsHex(c))
<1> SUFFICES ASSUME NEW c PROVE Value(c) \in -1 .. 15 /\ (Value(c) >= 0 <=> IsHex(c))
  OBVIOUS
<1>1. CASE IsHex(c)
  <2>1. PICK v \in 0 .. 15 : c \in Spelled(v)
    BY <1>1 DEF IsHex
  <2> DEFINE w == CHOOSE v0 \in 0 .. 15 : c \in Spelled(v0)
  <2>2. w \in 0 .. 15
    BY <2>1
  <2>3. Value(c) = w
    BY <1>1, Zenon DEF Value
  <2> HIDE DEF w
  <2> QED
    BY <1>1, <2>2, <2>3
<1>2. CASE ~IsHex(c)
  BY <1>2 DEF Value
<1> QED
  BY <1>1, <1>2

LEMMA ValueOfUpper ==
  /\ \A v \in 0 .. 15 : Value(UpperDigits[v + 1]) = v
  /\ Value(" ") = -1
<1>1. ASSUME NEW v \in 0 .. 15, NEW w \in 0 .. 15, UpperDigits[v + 1] \in Spelled(w)
      PROVE  v = w
  BY <1>1 DEF Spelled, UpperDigits, LowerDigits
<1>2. ASSUME NEW v \in 0 .. 15 PROVE Value(UpperDigits[v + 1]) = v
  <2>1. UpperDigits[v + 1] \in Spelled(v)
    BY DEF Spelled
  <2> QED
    BY <1>1, <2>1 DEF Value, IsHex
<1>3. ~IsHex(" ")
  BY DEF IsHex, Spelled, UpperDigits, LowerDigits
<1> QED
  BY <1>2, <1>3 DEF Value

(* Counting digits.                                                        *)
LEMMA RankType ==
  ASSUME NEW text, NEW p \in Nat
  PROVE  IsFiniteSet(Digits(text, p)) /\ Rank(text, p) \in Nat
<1>1. IsFiniteSet(1 .. p)
  BY FS_Interval
<1>2. IsFiniteSet(Digits(text, p))
  BY <1>1, FS_Subset DEF Digits
<1> QED
  BY <1>2, FS_CardinalityType DEF Rank

LEMMA RankZero == \A text : Rank(text, 0) = 0
<1> SUFFICES ASSUME NEW text PROVE Rank(text, 0) = 0
  OBVIOUS
<1>1. Digits(text, 0) = {}
  BY DEF Digits
<1> QED
  BY <1>1, FS_EmptySet DEF Rank

LEMMA RankStep ==
  ASSUME NEW text, NEW p \in Nat
  PROVE  /\ Digits(text, p + 1) = Digits(text, p) \cup (IF IsHex(text[p + 1]) THEN {p + 1} ELSE {})
         /\ Rank(text, p + 1) = Rank(text, p) + (IF IsHex(text[p + 1]) THEN 1 ELSE 0)
<1>1. Digits(text, p + 1) = Digits(text, p) \cup (IF IsHex(text[p + 1]) THEN {p + 1} ELSE {})
  BY DEF Digits
<1>2. p + 1 \notin Digits(text, p)
  BY DEF Digits
<1>3. Cardinality(Digits(text, p) \cup {p + 1}) = Cardinality(Digits(text, p)) + 1
  BY <1>2, RankType, FS_AddElement
<1>4. CASE IsHex(text[p + 1])
  BY <1>1, <1>3, <1>4, RankType DEF Rank
<1>5. CASE ~IsHex(text[p + 1])
  BY <1>1, <1>5, RankType DEF Rank
<1> QED
  BY <1>1, <1>4, <1>5

LEMMA RankMonotone ==
  ASSUME NEW text, NEW p \in Nat, NEW q \in Nat, p <= q
  PROVE  Rank(text, p) <= Rank(text, q)
<1>1. Digits(text, p) \subseteq Digits(text, q)
  BY DEF Digits
<1> QED
  BY <1>1, RankType, FS_Subset DEF Rank

LEMMA RankOfDigit ==
  ASSUME NEW text, NEW n \in Nat, NEW p \in Digits(text, n)
  PROVE  p \in 1 .. n /\ Rank(text, p) \in 1 .. Rank(text, n)
<1>1. p \in 1 .. n /\ IsHex(text[p])
  BY DEF Digits
<1>2. p - 1 \in Nat /\ (p - 1) + 1 = p
  BY <1>1
<1>3. Rank(text, p) = Rank(text, p - 1) + 1
  BY <1>1, <1>2, RankStep
<1> QED
  BY <1>1, <1>2, <1>3, RankMonotone, RankType

LEMMA RankPrefix ==
  ASSUME NEW s, NEW t, NEW n \in Nat, \A q \in 1 .. n : s[q] = t[q]
  PROVE  \A p \in 0 .. n : Digits(s, p) = Digits(t, p) /\ Rank(s, p) = Rank(t, p)
BY DEF Digits, Rank

(* What Java's casts make of the halves of a byte.                         *)
JavaBytes == -128 .. 127

Holds(x, hi, lo) == x \in JavaBytes /\ (x % 256) \div 16 = hi /\ (x % 256) % 16 = lo

LEMMA ByteHigh == \A v \in 0 .. 15 : Holds(Byte(16 * v), v, 0)
BY SMT DEF Byte, JavaBytes, Holds

LEMMA ByteLow == \A b \in JavaBytes, u, v \in 0 .. 15 : Holds(b, u, 0) => Holds(Byte(b + v), u, v)
<1> SUFFICES ASSUME NEW b \in JavaBytes, NEW u \in 0 .. 15, NEW v \in 0 .. 15, Holds(b, u, 0)
             PROVE  Holds(Byte(b + v), u, v)
  OBVIOUS
<1>1. b % 256 = 16 * u
  BY DEF JavaBytes, Holds
<1>2. b + v \in -128 .. 127
  BY <1>1 DEF JavaBytes
<1>3. Byte(b + v) = b + v
  BY <1>2 DEF Byte
<1>4. (b + v) % 256 = 16 * u + v
  BY <1>1 DEF JavaBytes
<1> QED
  BY <1>2, <1>3, <1>4 DEF JavaBytes, Holds

LEMMA ByteCast == \A o \in 0 .. 255 : Byte(o) \in JavaBytes
BY SMT DEF Byte, JavaBytes

LEMMA Nibbles == \A b \in JavaBytes : (b % 256) \div 16 \in 0 .. 15 /\ (b % 256) % 16 \in 0 .. 15
BY SMT DEF JavaBytes

(* Storing a digit changes one half of one byte.                           *)
Stored(bytes, new, n, half, v) ==
  /\ new \in [1 .. n -> JavaBytes]
  /\ \A k \in 1 .. 2 * n : Half(new, k) = IF k = half THEN v ELSE Half(bytes, k)

LEMMA PutHalf ==
  ASSUME NEW n \in Nat, NEW bytes \in [1 .. n -> JavaBytes],
         NEW l \in Nat, l + 1 \in 1 .. n, NEW v \in 0 .. 15, NEW h \in {1, 2},
         Half(bytes, 2 * l + 2) = 0,
         h = 1 => Half(bytes, 2 * l + 1) = 0,
         NEW x,
         h = 1 => x = Byte(16 * v),
         h = 2 => x = Byte(bytes[l + 1] + v),
         NEW new, new = [bytes EXCEPT ![l + 1] = x]
  PROVE  Stored(bytes, new, n, 2 * l + h, v)
<1>1. /\ (2 * l + 1 + 1) \div 2 = l + 1 /\ (2 * l + 1) % 2 = 1
      /\ (2 * l + 2 + 1) \div 2 = l + 1 /\ (2 * l + 2) % 2 = 0
  OBVIOUS
<1>2. PICK b \in JavaBytes : b = bytes[l + 1]
  OBVIOUS
<1>3. PICK u \in 0 .. 15 : Holds(b, u, 0) /\ (h = 1 => u = 0)
  <2>1. (b % 256) % 16 = 0 /\ (h = 1 => (b % 256) \div 16 = 0)
    BY <1>1, <1>2 DEF Half
  <2>2. (b % 256) \div 16 \in 0 .. 15
    BY Nibbles
  <2> QED
    BY <2>1, <2>2 DEF Holds
<1>4. Holds(x, IF h = 1 THEN v ELSE u, IF h = 1 THEN 0 ELSE v)
  <2>1. Holds(Byte(16 * v), v, 0) /\ Holds(Byte(b + v), u, v)
    BY <1>3, ByteHigh, ByteLow, Zenon
  <2>2. CASE h = 1
    BY <2>1, <2>2
  <2>3. CASE h = 2
    BY <1>2, <2>1, <2>3
  <2> QED
    BY <2>2, <2>3
<1>5. new[l + 1] = x /\ \A j \in 1 .. n : j # l + 1 => new[j] = bytes[j]
  OBVIOUS
<1>6. new \in [1 .. n -> JavaBytes]
  BY <1>4 DEF Holds
<1>7. ASSUME NEW k \in 1 .. 2 * n
      PROVE  Half(new, k) = IF k = 2 * l + h THEN v ELSE Half(bytes, k)
  <2>1. CASE (k + 1) \div 2 # l + 1
    <3>1. (k + 1) \div 2 \in 1 .. n /\ k # 2 * l + 1 /\ k # 2 * l + 2
      BY <2>1
    <3>2. new[(k + 1) \div 2] = bytes[(k + 1) \div 2]
      BY <1>5, <2>1, <3>1
    <3> QED
      BY <3>1, <3>2 DEF Half
  <2>2. CASE (k + 1) \div 2 = l + 1
    <3>1. k = 2 * l + 1 \/ k = 2 * l + 2
      BY <2>2
    <3>2. CASE k = 2 * l + 1
      <4>1. Half(new, k) = (x % 256) \div 16 /\ Half(bytes, k) = (b % 256) \div 16
        BY <1>1, <1>2, <1>5, <3>2 DEF Half
      <4> QED
        BY <1>3, <1>4, <3>2, <4>1 DEF Holds
    <3>3. CASE k = 2 * l + 2
      <4>1. Half(new, k) = (x % 256) % 16 /\ Half(bytes, k) = (b % 256) % 16
        BY <1>1, <1>2, <1>5, <3>3 DEF Half
      <4> QED
        BY <1>3, <1>4, <3>3, <4>1 DEF Holds
    <3> QED
      BY <3>1, <3>2, <3>3
  <2> QED
    BY <2>1, <2>2
<1> QED
  BY <1>6, <1>7 DEF Stored

-----------------------------------------------------------------------------
(* The first n characters have filled the first halves, the others are     *)
(* empty.                                                                  *)
Filled(text, bytes, n) ==
  /\ \A p \in Digits(text, n) : Half(bytes, Rank(text, p)) = Value(text[p])
  /\ \A k \in 1 .. 2 * Len(bytes) : k > Rank(text, n) => Half(bytes, k) = 0

(* The text is that of the first n bytes.                                  *)
Glyphs == {UpperDigits[v + 1] : v \in 0 .. 15} \cup {" "}

Shows(text, bytes, n) ==
  /\ text \in Seq(Glyphs) /\ Len(text) = 3 * n
  /\ Rank(text, 3 * n) = 2 * n
  /\ \A p \in Digits(text, 3 * n) : Half(bytes, Rank(text, p)) = Value(text[p])

(* The three loops.                                                        *)
CountInv == at \in 0 .. Len(hexString) /\ count = Rank(hexString, at)

FillInv ==
  /\ at \in 0 .. Len(hexString) /\ count = Rank(hexString, Len(hexString))
  /\ byteArray \in [1 .. Size(count) -> JavaBytes]
  /\ first \in BOOLEAN /\ len \in Nat
  /\ Rank(hexString, at) = 2 * len + (IF first THEN 0 ELSE 1)
  /\ Filled(hexString, byteArray, at)

LogInv ==
  /\ at \in 0 .. Len(buffer)
  /\ bufferString \in Seq(Glyphs) /\ dbgString \in Seq(Glyphs)
  /\ Shows(bufferString \o dbgString, buffer, at)

CodecInv ==
  /\ phase \in {"idle", "count", "fill", "transmit", "log", "shown"}
  /\ hexString \in Seq(Chars) /\ buffer \in Seq(JavaBytes)
  /\ phase = "count" => CountInv
  /\ phase = "fill" => FillInv
  /\ phase = "transmit" => Reads(hexString, byteArray)
  /\ phase = "log" => LogInv
  /\ phase = "shown" => Shows(bufferString, buffer, Len(buffer))

LEMMA CountKeeps == CodecInv /\ CountChar => CodecInv'
<1> SUFFICES ASSUME CodecInv, CountChar PROVE CodecInv'
  OBVIOUS
<1>1. count' = Rank(hexString, at + 1) /\ at' = at + 1 /\ at' \in 0 .. Len(hexString)
  <2>1. at \in Nat
    BY DEF CountChar, CodecInv, CountInv
  <2>2. Rank(hexString, at + 1) = Rank(hexString, at) + (IF IsHex(hexString[at + 1]) THEN 1 ELSE 0)
    BY <2>1, RankStep
  <2>3. Rank(hexString, at) \in Nat
    BY <2>1, RankType
  <2> QED
    BY <2>1, <2>2, <2>3 DEF CountChar, CodecInv, CountInv
<1> QED
  BY <1>1 DEF CountChar, CodecInv, CountInv, arrayVars, logVars

LEMMA NewArrayFits == CodecInv /\ NewArray => CodecInv'
<1> SUFFICES ASSUME CodecInv, NewArray PROVE CodecInv'
  OBVIOUS
<1> DEFINE n == Len(hexString)
<1>1. n \in Nat /\ count = Rank(hexString, n) /\ count \in Nat
  BY RankType DEF NewArray, CodecInv, CountInv
<1>2. Size(count) \in Nat
  BY <1>1 DEF Size
<1>3. byteArray' \in [1 .. Size(count) -> JavaBytes]
  BY <1>2 DEF NewArray, JavaBytes
<1>4. Len(byteArray') = Size(count)
  BY <1>2, <1>3
<1>5. Rank(hexString, 0) = 0 /\ Digits(hexString, 0) = {}
  BY RankZero DEF Digits
<1>6. ASSUME NEW k \in 1 .. 2 * Size(count) PROVE Half(byteArray', k) = 0
  <2>1. (k + 1) \div 2 \in 1 .. Size(count)
    BY <1>2
  <2>2. byteArray'[(k + 1) \div 2] = 0
    BY <2>1 DEF NewArray
  <2> QED
    BY <2>2 DEF Half
<1>7. Filled(hexString, byteArray', 0)
  BY <1>4, <1>5, <1>6 DEF Filled
<1> QED
  BY <1>1, <1>3, <1>5, <1>7 DEF NewArray, CodecInv, FillInv, textVars, logVars

(* The loop that fills the array stays inside it.                          *)
LEMMA ArrayIsLargeEnough ==
  ASSUME CodecInv, NEW v \in 0 .. 15, Reached(v)
  PROVE  /\ len + 1 \in 1 .. Size(count)
         /\ Rank(hexString, at + 1) = Rank(hexString, at) + 1
         /\ at + 1 \in 1 .. Len(hexString)
         /\ IsHex(hexString[at + 1])
<1>0. FillInv
  BY DEF Reached, CodecInv
<1>1. at \in Nat /\ at + 1 \in 1 .. Len(hexString) /\ Len(hexString) \in Nat
  BY <1>0 DEF Reached, CodecInv, FillInv
<1>2. IsHex(hexString[at + 1])
  BY ValueType DEF Reached
<1>3. Rank(hexString, at + 1) = Rank(hexString, at) + 1
  BY <1>1, <1>2, RankStep
<1>4. Rank(hexString, at + 1) <= count
  BY <1>0, <1>1, RankMonotone DEF FillInv
<1>5. count \in Nat
  BY <1>0, <1>1, RankType DEF FillInv
<1>6. len + 1 \in 1 .. Size(count)
  BY <1>0, <1>3, <1>4, <1>5 DEF FillInv, Size
<1> QED
  BY <1>1, <1>2, <1>3, <1>6

LEMMA PutKeeps == ASSUME CodecInv, NEW v \in 0 .. 15, PutChar(v) PROVE CodecInv'
<1>0. FillInv /\ Reached(v)
  BY DEF PutChar, Reached, CodecInv
<1>1. /\ len + 1 \in 1 .. Size(count)
      /\ Rank(hexString, at + 1) = Rank(hexString, at) + 1
      /\ at + 1 \in 1 .. Len(hexString)
      /\ IsHex(hexString[at + 1])
  BY <1>0, ArrayIsLargeEnough
<1>2. DOMAIN byteArray = 1 .. Size(count)
  BY <1>0 DEF FillInv
<1>3. /\ byteArray' = [byteArray EXCEPT ![len + 1] = Byte(IF first THEN 16 * v ELSE @ + v)]
      /\ len' = IF first THEN len ELSE len + 1
      /\ first' = ~first
      /\ phase' = "fill" /\ at' = at + 1
      /\ UNCHANGED <<hexString, count, buffer, bufferString, dbgString>>
  BY <1>1, <1>2 DEF PutChar, textVars, logVars
<1> DEFINE n == Size(count)
           r == Rank(hexString, at)
<1>4. /\ n \in Nat /\ len \in Nat /\ first \in BOOLEAN /\ at \in Nat /\ r \in Nat
      /\ byteArray \in [1 .. n -> JavaBytes]
      /\ r = 2 * len + (IF first THEN 0 ELSE 1)
  <2>1. count \in Nat /\ at \in Nat /\ r \in Nat
    BY <1>0, RankType DEF FillInv, CodecInv
  <2> QED
    BY <1>0, <2>1 DEF FillInv, Size
<1>5. Len(byteArray) = n
  BY <1>4
<1>6. \A k \in 1 .. 2 * n : k > r => Half(byteArray, k) = 0
  BY <1>0, <1>5 DEF FillInv, Filled
<1>7. Half(byteArray, 2 * len + 2) = 0 /\ (first => Half(byteArray, 2 * len + 1) = 0)
  BY <1>1, <1>4, <1>6
<1>8. /\ byteArray' \in [1 .. n -> JavaBytes]
      /\ \A k \in 1 .. 2 * n :
           Half(byteArray', k) = IF k = r + 1 THEN v ELSE Half(byteArray, k)
  <2> HIDE DEF n, r
  <2>1. PICK h \in {1, 2} : h = IF first THEN 1 ELSE 2
    OBVIOUS
  <2>2. PICK x : byteArray' = [byteArray EXCEPT ![len + 1] = x] /\ x = Byte(IF first THEN 16 * v ELSE byteArray[len + 1] + v)
    BY <1>3, Zenon
  <2>3. (h = 1 => x = Byte(16 * v)) /\ (h = 2 => x = Byte(byteArray[len + 1] + v))
    BY <2>1, <2>2
  <2>4. h = 1 => Half(byteArray, 2 * len + 1) = 0
    BY <1>7, <2>1
  <2>5. len + 1 \in 1 .. n
    BY <1>1 DEF n
  <2>6. Stored(byteArray, byteArray', n, 2 * len + h, v)
    <3>1. n \in Nat /\ byteArray \in [1 .. n -> JavaBytes] /\ len \in Nat
      BY <1>4
    <3>2. byteArray' = [byteArray EXCEPT ![len + 1] = x]
      BY <2>2
    <3>3. Half(byteArray, 2 * len + 2) = 0
      BY <1>7
    <3> QED
      BY <2>3, <2>4, <2>5, <3>1, <3>2, <3>3, PutHalf, Zenon
  <2>7. r + 1 = 2 * len + h
    BY <1>4, <2>1
  <2> QED
    BY <2>6, <2>7 DEF Stored
<1>9. Len(byteArray') = n
  BY <1>4, <1>8
<1>10. Digits(hexString, at + 1) = Digits(hexString, at) \cup {at + 1}
  BY <1>1, <1>4, RankStep
<1>11. r + 1 <= 2 * n
  BY <1>1, <1>4
<1>12. ASSUME NEW p \in Digits(hexString, at + 1)
       PROVE  Half(byteArray', Rank(hexString, p)) = Value(hexString[p])
  <2>1. CASE p \in Digits(hexString, at)
    <3>1. Rank(hexString, p) \in 1 .. r
      BY <1>4, <2>1, RankOfDigit
    <3>2. Rank(hexString, p) \in 1 .. 2 * n /\ Rank(hexString, p) # r + 1
      BY <1>4, <1>11, <3>1
    <3> QED
      BY <1>0, <1>8, <2>1, <3>2 DEF FillInv, Filled
  <2>2. CASE p = at + 1
    <3>1. Rank(hexString, p) = r + 1 /\ r + 1 \in 1 .. 2 * n
      BY <1>1, <1>4, <1>11, <2>2
    <3> QED
      BY <1>0, <1>8, <2>2, <3>1 DEF Reached
  <2> QED
    BY <1>10, <2>1, <2>2
<1>13. ASSUME NEW k \in 1 .. 2 * n, k > r + 1 PROVE Half(byteArray', k) = 0
  BY <1>4, <1>6, <1>8, <1>13
<1>14. Filled(hexString, byteArray', at + 1)
  BY <1>1, <1>9, <1>12, <1>13 DEF Filled
<1>15. FillInv'
  <2>1. Rank(hexString, at + 1) = 2 * len' + (IF first' THEN 0 ELSE 1)
    <3>1. Rank(hexString, at + 1) = r + 1
      BY <1>1
    <3> HIDE DEF r, n
    <3>2. CASE first
      <4>1. ~first' /\ len' = len
        BY <1>3, <3>2, Zenon
      <4> QED
        BY <1>4, <3>1, <3>2, <4>1
    <3>3. CASE ~first
      <4>1. first' /\ len' = len + 1
        BY <1>3, <3>3, Zenon
      <4> QED
        BY <1>4, <3>1, <3>3, <4>1
    <3> QED
      BY <3>2, <3>3
  <2>2. at' \in 0 .. Len(hexString') /\ len' \in Nat /\ first' \in BOOLEAN
    BY <1>1, <1>3, <1>4
  <2> QED
    BY <1>0, <1>3, <1>8, <1>14, <2>1, <2>2 DEF FillInv
<1> QED
  BY <1>3, <1>15 DEF CodecInv

LEMMA SkipKeeps == CodecInv /\ SkipChar => CodecInv'
<1> SUFFICES ASSUME CodecInv, SkipChar PROVE CodecInv'
  OBVIOUS
<1>1. FillInv /\ at < Len(hexString) /\ at' = at + 1 /\ Value(hexString[at + 1]) = -1
  BY DEF SkipChar, Reached, CodecInv
<1>2. UNCHANGED <<phase, hexString, count, byteArray, first, len, buffer, bufferString, dbgString>>
  BY DEF SkipChar, textVars, arrayVars, logVars
<1>3. ~IsHex(hexString[at + 1])
  BY <1>1, ValueType
<1>4. at \in Nat /\ at + 1 \in 0 .. Len(hexString)
  BY <1>1 DEF FillInv, CodecInv
<1>5. Digits(hexString, at + 1) = Digits(hexString, at) /\ Rank(hexString, at + 1) = Rank(hexString, at)
  <2>1. /\ Digits(hexString, at + 1) = Digits(hexString, at) \cup {}
        /\ Rank(hexString, at + 1) = Rank(hexString, at) + 0
    BY <1>3, <1>4, RankStep
  <2>2. Rank(hexString, at) \in Nat
    BY <1>4, RankType
  <2> QED
    BY <2>1, <2>2
<1>6. FillInv'
  BY <1>1, <1>2, <1>4, <1>5 DEF FillInv, Filled
<1> QED
  BY <1>2, <1>6 DEF CodecInv, SkipChar, Reached

LEMMA ReturnReads == CodecInv /\ ReturnArray => CodecInv'
<1> SUFFICES ASSUME CodecInv, ReturnArray PROVE CodecInv'
  OBVIOUS
<1> DEFINE c == Rank(hexString, Len(hexString))
<1>1. FillInv /\ at = Len(hexString) /\ Len(hexString) \in Nat
  BY DEF ReturnArray, CodecInv
<1>2. count = c /\ c \in Nat
  BY <1>1, RankType DEF FillInv
<1>3. Size(count) \in Nat /\ 2 * Size(count) \in {c, c + 1}
  BY <1>2 DEF Size
<1>4. Len(byteArray) = Size(count)
  BY <1>1, <1>3 DEF FillInv
<1>5. Reads(hexString, byteArray)
  BY <1>1, <1>2, <1>3, <1>4 DEF FillInv, Filled, Reads
<1> QED
  BY <1>5 DEF ReturnArray, CodecInv, textVars, arrayVars, logVars

LEMMA ReplyStarts == ASSUME CodecInv, NEW octets \in Replies, Reply(octets) PROVE CodecInv'
<1>1. PICK n \in 0 .. MaxReply : octets \in [1 .. n -> Octets]
  BY DEF Replies
<1>2. n \in Nat /\ DOMAIN octets = 1 .. n /\ \A k \in 1 .. n : octets[k] \in 0 .. 255
  <2>1. n \in Nat
    BY CodecConstants
  <2>2. \A k \in 1 .. n : octets[k] \in Octets
    BY <1>1
  <2> QED
    BY <1>1, <2>1, <2>2, CodecConstants
<1>3. buffer' \in [1 .. n -> JavaBytes]
  BY <1>2, ByteCast DEF Reply
<1>4. buffer' \in Seq(JavaBytes) /\ Len(buffer') = n
  BY <1>2, <1>3
<1>5. <<>> \in Seq(Glyphs) /\ <<>> \o <<>> = <<>> /\ Len(<<>>) = 0
  BY ConcatEmptySeq
<1>6. Digits(<<>>, 0) = {} /\ Rank(<<>>, 0) = 0
  BY RankZero DEF Digits
<1>7. Shows(<<>>, buffer', 0)
  BY <1>5, <1>6 DEF Shows
<1>8. LogInv'
  <2>1. at' = 0 /\ bufferString' = <<>> /\ dbgString' = <<>>
    BY DEF Reply
  <2>2. (bufferString \o dbgString)' = <<>>
    BY <1>5, <2>1
  <2> QED
    BY <1>2, <1>4, <1>5, <1>7, <2>1, <2>2 DEF LogInv
<1>9. hexString' \in Seq(Chars)
  BY DEF Reply, Forget
<1> QED
  BY <1>4, <1>8, <1>9 DEF Reply, CodecInv

(* One more byte is shown.                                                 *)
LEMMA ShowsNext ==
  ASSUME NEW s, NEW n \in Nat, NEW bytes \in Seq(JavaBytes), n + 1 \in 1 .. Len(bytes),
         Shows(s, bytes, n)
  PROVE  /\ HexChar(bytes[n + 1]) \in Seq(Glyphs)
         /\ Shows(s \o HexChar(bytes[n + 1]), bytes, n + 1)
<1>1. PICK b \in JavaBytes : b = bytes[n + 1]
  BY ElementOfSeq
<1>2. PICK hi \in 0 .. 15, lo \in 0 .. 15 : hi = (b % 256) \div 16 /\ lo = (b % 256) % 16
  BY Nibbles
<1>3. PICK c \in Seq(Glyphs) :
        /\ c = HexChar(b) /\ Len(c) = 3
        /\ c[1] = UpperDigits[hi + 1] /\ c[2] = UpperDigits[lo + 1] /\ c[3] = " "
  <2>1. PICK x \in Glyphs, y \in Glyphs, z \in Glyphs :
          x = UpperDigits[hi + 1] /\ y = UpperDigits[lo + 1] /\ z = " "
    BY <1>2 DEF Glyphs
  <2>2. HexChar(b) = <<x, y, z>>
    BY <1>2, <2>1 DEF HexChar, Unsigned
  <2>3. /\ <<x, y, z>> \in Seq(Glyphs) /\ Len(<<x, y, z>>) = 3
        /\ <<x, y, z>>[1] = x /\ <<x, y, z>>[2] = y /\ <<x, y, z>>[3] = z
    OBVIOUS
  <2> QED
    BY <2>1, <2>2, <2>3, Zenon
<1>4. PICK m \in Nat, r \in Nat : m = 3 * n /\ r = 2 * n
  OBVIOUS
<1>5. /\ s \in Seq(Glyphs) /\ Len(s) = m /\ Rank(s, m) = r
      /\ \A p \in Digits(s, m) : Half(bytes, Rank(s, p)) = Value(s[p])
  BY <1>4 DEF Shows
<1>6. PICK t : t = s \o c
  OBVIOUS
<1>7. /\ t \in Seq(Glyphs) /\ Len(t) = m + 3
      /\ \A q \in 1 .. m : t[q] = s[q]
      /\ t[m + 1] = c[1] /\ t[m + 2] = c[2] /\ t[m + 3] = c[3]
  <2>1. /\ t \in Seq(Glyphs) /\ Len(t) = m + 3
        /\ \A q \in 1 .. m + 3 : t[q] = IF q <= m THEN s[q] ELSE c[q - m]
    <3>1. /\ s \o c \in Seq(Glyphs) /\ Len(s \o c) = Len(s) + Len(c)
          /\ \A q \in 1 .. Len(s) + Len(c) :
               (s \o c)[q] = IF q <= Len(s) THEN s[q] ELSE c[q - Len(s)]
      BY <1>5, ConcatProperties, Zenon
    <3> QED
      BY <1>3, <1>5, <1>6, <3>1
  <2>2. /\ m + 1 \in 1 .. m + 3 /\ ~(m + 1 <= m) /\ (m + 1) - m = 1
        /\ m + 2 \in 1 .. m + 3 /\ ~(m + 2 <= m) /\ (m + 2) - m = 2
        /\ m + 3 \in 1 .. m + 3 /\ ~(m + 3 <= m) /\ (m + 3) - m = 3
    OBVIOUS
  <2>3. t[m + 1] = c[1] /\ t[m + 2] = c[2] /\ t[m + 3] = c[3]
    BY <2>1, <2>2
  <2> QED
    BY <2>1, <2>3
<1>8. /\ Value(t[m + 1]) = hi /\ IsHex(t[m + 1])
      /\ Value(t[m + 2]) = lo /\ IsHex(t[m + 2])
      /\ ~IsHex(t[m + 3])
  <2>1. Value(t[m + 1]) = hi /\ Value(t[m + 2]) = lo /\ Value(t[m + 3]) = -1
    <3>1. Value(UpperDigits[hi + 1]) = hi /\ Value(UpperDigits[lo + 1]) = lo
      BY ValueOfUpper, Zenon
    <3> QED
      BY <1>3, <1>7, <3>1, ValueOfUpper
  <2>2. hi >= 0 /\ lo >= 0 /\ ~(-1 >= 0)
    OBVIOUS
  <2> QED
    BY <2>1, <2>2, ValueType, Zenon
<1>9. \A p \in 0 .. m : Digits(t, p) = Digits(s, p) /\ Rank(t, p) = Rank(s, p)
  BY <1>7, RankPrefix
<1>10. Rank(t, m) = r /\ Digits(t, m) = Digits(s, m)
  BY <1>5, <1>9
<1>11. /\ Rank(t, m + 1) = r + 1
       /\ Digits(t, m + 1) = Digits(s, m) \cup {m + 1}
  BY <1>8, <1>10, RankStep
<1>12. /\ Rank(t, m + 2) = r + 2
       /\ Digits(t, m + 2) = Digits(s, m) \cup {m + 1, m + 2}
  <2>1. m + 1 \in Nat /\ (m + 1) + 1 = m + 2
    OBVIOUS
  <2>2. /\ Rank(t, m + 2) = Rank(t, m + 1) + 1
        /\ Digits(t, m + 2) = Digits(t, m + 1) \cup {m + 2}
    BY <1>8, <2>1, RankStep
  <2> QED
    BY <1>11, <2>2
<1>13. /\ Rank(t, m + 3) = r + 2
       /\ Digits(t, m + 3) = Digits(s, m) \cup {m + 1, m + 2}
  <2>1. m + 2 \in Nat /\ (m + 2) + 1 = m + 3
    OBVIOUS
  <2>2. /\ Rank(t, m + 3) = Rank(t, m + 2) + 0
        /\ Digits(t, m + 3) = Digits(t, m + 2) \cup {}
    BY <1>8, <2>1, RankStep
  <2> QED
    BY <1>12, <2>2
<1>14. Half(bytes, r + 1) = hi /\ Half(bytes, r + 2) = lo
  <2>1. /\ (r + 1 + 1) \div 2 = n + 1 /\ (r + 1) % 2 = 1
        /\ (r + 2 + 1) \div 2 = n + 1 /\ (r + 2) % 2 = 0
    BY <1>4
  <2> QED
    BY <1>1, <1>2, <2>1 DEF Half
<1>15. ASSUME NEW p \in Digits(t, m + 3) PROVE Half(bytes, Rank(t, p)) = Value(t[p])
  <2>1. CASE p \in Digits(s, m)
    <3>1. p \in 1 .. m
      BY <2>1 DEF Digits
    <3>2. Rank(t, p) = Rank(s, p) /\ t[p] = s[p]
      BY <1>7, <1>9, <3>1
    <3> QED
      BY <1>5, <2>1, <3>2
  <2>2. CASE p = m + 1
    BY <1>8, <1>11, <1>14, <2>2
  <2>3. CASE p = m + 2
    BY <1>8, <1>12, <1>14, <2>3
  <2> QED
    BY <1>13, <2>1, <2>2, <2>3
<1>16. 3 * (n + 1) = m + 3 /\ 2 * (n + 1) = r + 2
  BY <1>4
<1>17. Shows(t, bytes, n + 1)
  BY <1>7, <1>13, <1>15, <1>16 DEF Shows
<1> QED
  BY <1>1, <1>3, <1>6, <1>17

LEMMA LogKeeps == CodecInv /\ LogByte => CodecInv'
<1> SUFFICES ASSUME CodecInv, LogByte PROVE CodecInv'
  OBVIOUS
<1> DEFINE h == HexChar(buffer[at + 1])
<1>1. LogInv /\ at < Len(buffer) /\ at \in Nat /\ buffer \in Seq(JavaBytes)
  BY DEF LogByte, CodecInv, LogInv
<1>2. at + 1 \in 1 .. Len(buffer)
  BY <1>1
<1>3. h \in Seq(Glyphs) /\ Shows((bufferString \o dbgString) \o h, buffer, at + 1)
  BY <1>1, <1>2, ShowsNext DEF LogInv
<1> HIDE DEF h
<1>4. /\ bufferString' \in Seq(Glyphs) /\ dbgString' \in Seq(Glyphs)
      /\ bufferString' \o dbgString' = (bufferString \o dbgString) \o h
  <2>1. bufferString \in Seq(Glyphs) /\ dbgString \in Seq(Glyphs)
    BY <1>1 DEF LogInv
  <2>2. bufferString \o (dbgString \o h) = (bufferString \o dbgString) \o h
    BY <1>3, <2>1, ConcatAssociative
  <2>3. \/ bufferString' = bufferString \o dbgString /\ dbgString' = h
        \/ bufferString' = bufferString /\ dbgString' = dbgString \o h
    BY DEF LogByte, h
  <2>4. bufferString \o dbgString \in Seq(Glyphs) /\ dbgString \o h \in Seq(Glyphs)
    BY <1>3, <2>1, ConcatProperties
  <2> QED
    BY <1>3, <2>1, <2>2, <2>3, <2>4
<1>5. at' = at + 1 /\ UNCHANGED <<phase, hexString, buffer>>
  BY DEF LogByte, textVars
<1>6. LogInv'
  BY <1>1, <1>3, <1>4, <1>5 DEF LogInv
<1> QED
  BY <1>5, <1>6 DEF CodecInv, LogByte

(* CodecInv is inductive.                                                  *)
LEMMA CodecInvHolds == CodecSpec => []CodecInv
<1>1. CodecInit => CodecInv
  BY DEF CodecInit, CodecInv
<1>2. CodecInv /\ [CodecNext]_codecVars => CodecInv'
  <2> SUFFICES ASSUME CodecInv, [CodecNext]_codecVars PROVE CodecInv'
    OBVIOUS
  <2>1. ASSUME NEW text \in Texts, SendText(text) PROVE CodecInv'
    <3>1. text \in Seq(Chars)
      <4>1. PICK n \in 0 .. MaxLength : text \in [1 .. n -> Chars]
        BY DEF Texts
      <4>2. n \in Nat
        BY CodecConstants
      <4> QED
        BY <4>1, <4>2
    <3>2. at' = 0 /\ count' = 0 /\ hexString' = text /\ phase' = "count" /\ buffer' = buffer
      BY <2>1 DEF SendText, logVars
    <3>3. CountInv'
      BY <3>1, <3>2, RankZero DEF CountInv
    <3> QED
      BY <3>1, <3>2, <3>3 DEF CodecInv
  <2>2. CASE ToByteArray
    BY <2>2, CountKeeps, NewArrayFits, SkipKeeps, PutKeeps, ReturnReads DEF ToByteArray
  <2>3. CASE \E octets \in Replies : Reply(octets)
    BY <2>3, ReplyStarts
  <2>4. CASE LogByte
    BY <2>4, LogKeeps
  <2>5. CASE ReturnString
    <3>1. LogInv /\ at = Len(buffer) /\ phase' = "shown"
      BY <2>5 DEF ReturnString, CodecInv
    <3>2. Shows(bufferString', buffer, Len(buffer))
      BY <2>5, <3>1 DEF ReturnString, LogInv
    <3>3. UNCHANGED <<hexString, buffer>>
      BY <2>5 DEF ReturnString, textVars
    <3> QED
      BY <3>1, <3>2, <3>3 DEF CodecInv
  <2>6. CASE Finish
    BY <2>6 DEF Finish, Forget, CodecInv
  <2>7. CASE UNCHANGED codecVars
    BY <2>7 DEF codecVars, textVars, arrayVars, logVars, CodecInv, CountInv, FillInv, LogInv
  <2> QED
    BY <2>1, <2>2, <2>3, <2>4, <2>5, <2>6, <2>7 DEF CodecNext, LogBuffer
<1> QED
  BY <1>1, <1>2, PTL DEF CodecSpec

(* For texts and replies of any length and any octets, the array is never  *)
(* too small, what is sent is what was typed, and what is shown reads as   *)
(* what was received.                                                      *)
THEOREM ExchangeIsExact == CodecSpec => []ApduExact
<1>1. CodecInv => ApduExact
  <2> SUFFICES ASSUME CodecInv PROVE ApduExact
    OBVIOUS
  <2>1. ASSUME phase = "shown"
        PROVE  /\ Reads(bufferString, buffer)
               /\ Rank(bufferString, Len(bufferString)) = 2 * Len(buffer)
    <3>1. Shows(bufferString, buffer, Len(buffer))
      BY <2>1 DEF CodecInv
    <3>2. Len(buffer) \in Nat
      BY DEF CodecInv
    <3> QED
      BY <3>1, <3>2 DEF Shows, Reads
  <2> QED
    BY <2>1 DEF CodecInv, ApduExact
<1> QED
  BY <1>1, CodecInvHolds, PTL
=============================================================================
