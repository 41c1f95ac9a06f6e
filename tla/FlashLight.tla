----------------------------- MODULE FlashLight -----------------------------
(***************************************************************************)
(* KCFlashLight: FlashLightActivity (the screen), its SOS timer and        *)
(* handler, TimeReceiver and TimeService (the time limit), one process and *)
(* one LED.                                                                *)
(*                                                                         *)
(* The main thread runs one handler at a time, call by call, and the       *)
(* process may be killed between two calls.  The end of the time, on the   *)
(* thread of the service's timer, goes on beside it.  (The fields are set  *)
(* as the handler begins: no other thread reads them, a kill loses them.)  *)
(*                                                                         *)
(* TimeReceiver gets the broadcasts in the order of sending; ACTION_RETURN *)
(* has a way of its own.  A tick is the service's timer, a second.  A      *)
(* screen is launched when the one before is destroyed.                    *)
(***************************************************************************)
EXTENDS Integers, Sequences

CONSTANTS
  BIRD_FLASHLIGHT_SOS_ON, BIRD_CLOSE_FLASHLIGHT_WITHOUT_EXIT,
  Limit,      \* 600
  MaxCrashes, MaxBcast \* bounds

ASSUME FlashConstants ==
  /\ {BIRD_FLASHLIGHT_SOS_ON, BIRD_CLOSE_FLASHLIGHT_WITHOUT_EXIT} \subseteq BOOLEAN
  /\ Limit \in Nat \ {0} /\ MaxCrashes \in Nat /\ MaxBcast \in Nat

VARIABLES
  by,           \* who lit the LED: "none" (it is off), "torch", "sos", or
                \* "late": a message posted before the timer was cancelled
  doing, todo,  \* the handler that runs on the main thread; its next call
  screen,       \* "none", "front", "finishing"
  status, sos,
  blink, inbox, \* what the SOS timer posts next; the message posted
  bcast,        \* TIME_ON and TIME_OFF under way
  svc, count,   \* TimeService: "none", "up", "restarting"; its TimeTask
  ending,       \* what the TimeTask whose time is up does next: "none",
                \* "return", "stop"; "orphan": return, its service is gone
  ret,          \* ACTION_RETURN is under way
  upset,        \* ghost: while the LED burns, the process was killed between
                \* TIME_OFF and the LED of an SOS click, or a service that
                \* was about to stop itself was told to start
  crashes

light    == <<by, upset>>
activity == <<screen, status, sos>>
timer    == <<blink, inbox>>
service  == <<svc, count, ending>>
main     == <<doing, todo>>
vars     == <<light, main, activity, timer, bcast, service, ret, crashes>>

Init ==
  /\ by = "none" /\ doing = "none" /\ todo = "none" /\ screen = "none" /\ status = 0 /\ sos = 0
  /\ blink = "none" /\ inbox = "none" /\ bcast = <<>> /\ svc = "none" /\ count = 0
  /\ ending = "none" /\ ret = FALSE /\ upset = FALSE /\ crashes = 0

(* The LED: get_state_flashlight, and turning it on and off.               *)
led      == by # "none"
Light(w) == by' = w /\ upset' = (upset /\ w # "none")

-----------------------------------------------------------------------------
(* FlashLightActivity, on the main thread: its handlers ...                *)
Idle == doing = "none"

(* Bound, for the handlers that send a broadcast.                          *)
Room == Len(bcast) < MaxBcast

(* Handler h begins, with call c.                                          *)
Handle(h, c) == Idle /\ doing' = h /\ todo' = c /\ UNCHANGED <<light, timer, bcast, service, crashes>>

NoCall == Handle("none", "none")

Launch ==
  /\ screen = "none" /\ screen' = "front"
  /\ NoCall /\ UNCHANGED <<status, sos, ret>>

FocusChanged ==
  /\ screen # "none" /\ sos # 1
  /\ status' = IF led THEN 1 ELSE 0
  /\ NoCall /\ UNCHANGED <<screen, sos, ret>>

TorchOn ==
  /\ screen = "front" /\ status = 0 /\ Room
  /\ status' = 1
  /\ Handle("torchOn", "TIME_ON") /\ UNCHANGED <<screen, sos, ret>>

TorchOff ==
  /\ screen = "front" /\ status # 0 /\ Room
  /\ status' = 0 /\ sos' = 0
  /\ Handle("torchOff", "off") /\ UNCHANGED <<screen, ret>>

SosOn ==
  /\ BIRD_FLASHLIGHT_SOS_ON /\ screen = "front" /\ sos = 0 /\ Room
  /\ sos' = 1 /\ status' = IF BIRD_CLOSE_FLASHLIGHT_WITHOUT_EXIT THEN 1 ELSE status
  /\ Handle("sosOn", "TIME_OFF") /\ UNCHANGED <<screen, ret>>

SosOff ==
  /\ BIRD_FLASHLIGHT_SOS_ON /\ screen = "front" /\ sos # 0 /\ Room
  /\ sos' = 0
  /\ Handle("sosOff", "TIME_ON") /\ UNCHANGED <<screen, status, ret>>

Back ==
  /\ screen = "front" /\ screen' = "finishing" /\ status' = 0 /\ sos' = 0
  /\ Handle("statusOff", "off") /\ UNCHANGED ret

(* After finish(), or by the system, as for a new locale.  A message was   *)
(* handled before, unless the timer still ran.                             *)
Destroy ==
  /\ screen # "none" /\ (blink = "none" => inbox = "none")
  /\ status' = 0 /\ sos' = 0
  /\ Handle("destroy", "off") /\ UNCHANGED <<screen, ret>>

(* ACTION_SOS_OFF, of the camera.                                          *)
CameraTakes ==
  /\ screen # "none" /\ status' = 0 /\ sos' = 0
  /\ Handle("statusOff", "off") /\ UNCHANGED <<screen, ret>>

(* ACTION_RETURN; nobody gets it without a screen.                         *)
Return ==
  /\ ret /\ ret' = FALSE
  /\ status' = IF screen = "none" THEN status ELSE 0
  /\ (IF screen = "none" THEN NoCall ELSE Handle("return", "off")) /\ UNCHANGED <<screen, sos>>

-----------------------------------------------------------------------------
(* ... and their calls; what comes after each.                             *)
Then == [TIME_ON  |-> IF doing = "torchOn" THEN "on" ELSE "cancel",
         on       |-> "none",
         off      |-> IF doing = "return" THEN "finish" ELSE "cancel",
         cancel   |-> CASE doing = "torchOff" -> "TIME_OFF"
                        [] doing = "sosOff" /\ status = 1 -> "on"
                        [] doing = "destroy" -> "gone"
                        [] OTHER -> "none",
         TIME_OFF |-> CASE doing = "sosOn" -> "dark"
                        [] doing # "sosOn" /\ ~BIRD_CLOSE_FLASHLIGHT_WITHOUT_EXIT -> "finish"
                        [] OTHER -> "none",
         dark |-> "sos", sos |-> "none", finish |-> "none", gone |-> "none"]

Call(c) ==
  /\ todo = c /\ todo' = Then[c] /\ doing' = IF Then[c] = "none" THEN "none" ELSE doing
  /\ UNCHANGED <<status, sos, inbox, service, ret, crashes>>

(* Of an SOS click, TIME_OFF is sent and the LED is next.                  *)
Switching == todo = "dark"

\* Mistake: the light goes on without the service being told.
NotTold == Call("TIME_ON") /\ UNCHANGED <<light, screen, blink, bcast>>

SendTimeOn == Call("TIME_ON") /\ bcast' = Append(bcast, "on") /\ UNCHANGED <<light, screen, blink>>

SendTimeOff == Call("TIME_OFF") /\ bcast' = Append(bcast, "off") /\ UNCHANGED <<light, screen, blink>>

TurnOn == Call("on") /\ Light("torch") /\ UNCHANGED <<screen, blink, bcast>>

TurnOff == (Call("off") \/ Call("dark")) /\ Light("none") /\ UNCHANGED <<screen, blink, bcast>>

sosCall == Call("sos") /\ Light("sos") /\ blink' = "on" /\ UNCHANGED <<screen, bcast>>

\* Mistake: the SOS timer goes on.
TimerStays == Call("cancel") /\ UNCHANGED <<light, screen, blink, bcast>>

(* A message the timer has posted stays; so does the light it finds on.    *)
timerCancel ==
  /\ Call("cancel") /\ blink' = "none"
  /\ by' = (IF by = "sos" THEN "torch" ELSE by)
  /\ UNCHANGED <<upset, screen, bcast>>

Leave ==
  /\ \/ Call("finish") /\ screen' = "finishing"
     \/ Call("gone") /\ screen' = "none"
  /\ UNCHANGED <<light, blink, bcast>>

-----------------------------------------------------------------------------
(* SosTask posts on and off in turn; the handler switches the LED.         *)
Post ==
  /\ blink # "none" /\ inbox = "none" /\ inbox' = blink
  /\ blink' = IF blink = "on" THEN "off" ELSE "on"
  /\ UNCHANGED <<light, main, activity, bcast, service, ret, crashes>>

HandleMessage ==
  /\ Idle /\ inbox # "none" /\ inbox' = "none"
  /\ Light(IF inbox = "off" THEN "none" ELSE IF blink = "none" THEN "late" ELSE "sos")
  /\ UNCHANGED <<main, activity, blink, bcast, service, ret, crashes>>

-----------------------------------------------------------------------------
Ends == ending \in {"return", "stop"}

(* TimeReceiver, on the main thread; a service that runs is not created    *)
(* again, one that is stopped lets its TimeTask finish.                    *)
Receive ==
  /\ Idle /\ bcast # <<>> /\ bcast' = Tail(bcast)
  /\ \/ /\ Head(bcast) = "on" /\ svc' = "up" /\ UNCHANGED <<by, ending>>
        /\ count' = (IF svc = "up" THEN count ELSE 0) /\ upset' = (upset \/ (svc = "up" /\ Ends))
     \/ /\ Head(bcast) = "off" /\ svc' = "none" /\ count' = 0 /\ UNCHANGED light
        /\ ending' = IF ending \in {"return", "orphan"} THEN "orphan" ELSE "none"
  /\ UNCHANGED <<main, activity, timer, ret, crashes>>

Counted == count + 1

Tick ==
  /\ svc = "up" /\ ~Ends /\ Counted # Limit
  /\ count' = Counted
  /\ UNCHANGED <<light, main, activity, timer, bcast, svc, ending, ret, crashes>>

(* TimeTask at the limit: the LED, the broadcast, stopSelf.  (A TimeTask   *)
(* left behind has finished before the next one comes to the limit.)       *)
TimeUp ==
  /\ svc = "up" /\ ending = "none" /\ Counted = Limit
  /\ Light("none") /\ ending' = "return"
  /\ UNCHANGED <<main, activity, timer, bcast, svc, count, ret, crashes>>

SendReturn ==
  /\ ending \in {"return", "orphan"} /\ ret' = TRUE
  /\ ending' = IF ending = "return" THEN "stop" ELSE "none"
  /\ UNCHANGED <<light, main, activity, timer, bcast, svc, count, crashes>>

StopSelf ==
  /\ ending = "stop" /\ ending' = "none" /\ svc' = "none" /\ count' = 0
  /\ UNCHANGED <<light, main, activity, timer, bcast, ret, crashes>>

\* Mistake: the service is not sticky.
NotSticky == "none"

Sticky == IF svc = "none" THEN "none" ELSE "restarting"

(* The process is killed: the LED and the broadcasts to come stay.         *)
Crash ==
  /\ crashes < MaxCrashes /\ crashes' = crashes + 1
  /\ screen # "none" \/ svc = "up" \/ ending # "none"
  /\ doing' = "none" /\ todo' = "none" /\ screen' = "none" /\ status' = 0 /\ sos' = 0 /\ blink' = "none" /\ inbox' = "none"
  /\ svc' = Sticky /\ count' = 0 /\ ending' = "none" /\ ret' = FALSE
  /\ upset' = (upset \/ Switching)
  /\ UNCHANGED <<by, bcast>>

Restart ==
  /\ svc = "restarting" /\ svc' = "up"
  /\ UNCHANGED <<light, main, activity, timer, bcast, count, ending, ret, crashes>>

User    == Launch \/ TorchOn \/ TorchOff \/ SosOn \/ SosOff \/ Back
System  == FocusChanged \/ Destroy \/ CameraTakes \/ Return
Calls   == SendTimeOn \/ SendTimeOff \/ TurnOn \/ TurnOff \/ sosCall \/ timerCancel \/ Leave
Limiter == Tick \/ TimeUp \/ SendReturn \/ StopSelf \/ Restart
Next == User \/ System \/ Calls \/ Post \/ HandleMessage \/ Receive \/ Limiter \/ Crash

Spec == Init /\ [][Next]_vars
FairSpec == Spec /\ WF_vars(Calls) /\ WF_vars(Receive) /\ WF_vars(Limiter)

-----------------------------------------------------------------------------
(* Every variable stays within its type.                                   *)
TypeOK ==
  /\ by \in {"none", "torch", "sos", "late"} /\ upset \in BOOLEAN
  /\ doing \in {"none", "torchOn", "torchOff", "sosOn", "sosOff", "statusOff", "destroy", "return"}
  /\ todo \in {"none"} \cup DOMAIN Then
  /\ screen \in {"none", "front", "finishing"} /\ {status, sos} \subseteq {0, 1}
  /\ blink \in {"none", "on", "off"} /\ inbox \in {"none", "on", "off"}
  /\ bcast \in Seq({"on", "off"}) /\ Len(bcast) <= MaxBcast
  /\ svc \in {"none", "up", "restarting"} /\ count \in 0 .. Limit - 1
  /\ ending \in {"none", "return", "stop", "orphan"} /\ ret \in BOOLEAN /\ crashes \in 0 .. MaxCrashes

(* A LED lit by the torch is under the time limit, between any two calls   *)
(* of the handlers and also after the process was killed between them: the *)
(* service runs or is to be started, and is not to be stopped.  Only an    *)
(* SOS click stops it just before it switches the LED off, and the two     *)
(* ways of upset are excepted.                                             *)
Limited ==
  by = "torch" /\ ~upset /\ ~Switching =>
    IF bcast = <<>> THEN svc # "none" ELSE bcast[Len(bcast)] = "on"

(* The LED is off when there is no screen to switch it off on, whatever    *)
(* way the screen went and whatever its timer had begun; unless the        *)
(* process was killed or the timer's last message came too late.           *)
OffWhenGone == screen = "none" => ~led \/ by = "late" \/ crashes > 0

(* The torch goes off in the end, or gives way to SOS, though its owner    *)
(* forgets it and the system kills it; unless it was upset.                *)
TurnsOff == by = "torch" ~> by # "torch" \/ upset
=============================================================================
