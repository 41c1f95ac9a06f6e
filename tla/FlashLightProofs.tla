-------------------------- MODULE FlashLightProofs --------------------------
(***************************************************************************)
(* Theorems about FlashLight, for every limit, feature and number of       *)
(* crashes and broadcasts: types, the time limit, and the dark LED behind  *)
(* a closed screen.                                                        *)
(***************************************************************************)
EXTENDS FlashLight, TLAPS

Flags == upset \in BOOLEAN /\ ret \in BOOLEAN

Values ==
  /\ by \in {"none", "torch", "sos", "late"}
  /\ screen \in {"none", "front", "finishing"} /\ status \in {0, 1} /\ sos \in {0, 1}
  /\ blink \in {"none", "on", "off"} /\ inbox \in {"none", "on", "off"}
  /\ svc \in {"none", "up", "restarting"} /\ count \in 0 .. Limit - 1
  /\ ending \in {"none", "return", "stop", "orphan"} /\ crashes \in 0 .. MaxCrashes

Queue == bcast \in Seq({"on", "off"}) /\ Len(bcast) <= MaxBcast

(* Where in which handler the main thread may be.                          *)
Places ==
  \/ doing = "none" /\ todo = "none"
  \/ doing = "torchOn" /\ todo \in {"TIME_ON", "on"}
  \/ doing = "torchOff" /\ todo \in {"off", "cancel", "TIME_OFF", "finish"}
  \/ doing = "sosOn" /\ todo \in {"TIME_OFF", "dark", "sos"}
  \/ doing = "sosOff" /\ todo \in {"TIME_ON", "cancel", "on"}
  \/ doing = "statusOff" /\ todo \in {"off", "cancel"}
  \/ doing = "destroy" /\ todo \in {"off", "cancel", "gone"}
  \/ doing = "return" /\ todo \in {"off", "finish"}

Handlers == User \/ System

(* A handler begins on an idle main thread and calls nothing yet.          *)
Beginnings == {<<"none", "none">>, <<"torchOn", "TIME_ON">>, <<"torchOff", "off">>, <<"sosOn", "TIME_OFF">>,
               <<"sosOff", "TIME_ON">>, <<"statusOff", "off">>, <<"destroy", "off">>, <<"return", "off">>}

LEMMA Begins ==
  ASSUME Handlers
  PROVE  /\ doing = "none" /\ UNCHANGED <<light, timer, bcast, service, crashes>>
         /\ \E h, c : <<h, c>> \in Beginnings /\ doing' = h /\ todo' = c
         /\ doing' # "none" => screen # "none"
         /\ screen # "none" => screen' # "none"
<1> DEFINE Begun(h, c) == <<h, c>> \in Beginnings /\ Handle(h, c)
<1>1. \E h, c : Begun(h, c)
  <2>1. CASE Launch \/ FocusChanged
    <3>1. Begun("none", "none")
      BY <2>1 DEF Launch, FocusChanged, NoCall, Beginnings
    <3> QED
      BY <3>1
  <2>2. CASE TorchOn
    <3>1. Begun("torchOn", "TIME_ON")
      BY <2>2 DEF TorchOn, Beginnings
    <3> QED
      BY <3>1
  <2>3. CASE TorchOff
    <3>1. Begun("torchOff", "off")
      BY <2>3 DEF TorchOff, Beginnings
    <3> QED
      BY <3>1
  <2>4. CASE SosOn
    <3>1. Begun("sosOn", "TIME_OFF")
      BY <2>4 DEF SosOn, Beginnings
    <3> QED
      BY <3>1
  <2>5. CASE SosOff
    <3>1. Begun("sosOff", "TIME_ON")
      BY <2>5 DEF SosOff, Beginnings
    <3> QED
      BY <3>1
  <2>6. CASE Back \/ CameraTakes
    <3>1. Begun("statusOff", "off")
      BY <2>6 DEF Back, CameraTakes, Beginnings
    <3> QED
      BY <3>1
  <2>7. CASE Destroy
    <3>1. Begun("destroy", "off")
      BY <2>7 DEF Destroy, Beginnings
    <3> QED
      BY <3>1
  <2>8. CASE Return
    <3>1. Begun("none", "none") \/ Begun("return", "off")
      BY <2>8 DEF Return, NoCall, Beginnings
    <3> QED
      BY <3>1
  <2> QED
    BY <2>1, <2>2, <2>3, <2>4, <2>5, <2>6, <2>7, <2>8 DEF Handlers, User, System
<1>2. (doing' # "none" => screen # "none") /\ (screen # "none" => screen' # "none")
  BY SMT DEF Handlers, User, System, Launch, FocusChanged, TorchOn, TorchOff, SosOn, SosOff, Back, Destroy,
     CameraTakes, Return, NoCall, Handle
<1> QED
  BY <1>1, <1>2, Zenon DEF Handle, Idle, Begun

LEMMA PlacesInductive == Spec => []Places
<1>1. Init => Places
  BY DEF Init, Places
<1>2. Places /\ [Next]_vars => Places'
  <2> SUFFICES ASSUME Places, [Next]_vars PROVE Places'
    OBVIOUS
  <2>1. CASE Handlers
    BY <2>1, Begins, SMT DEF Beginnings, Places
  <2>2. CASE Calls
    <3>1. CASE SendTimeOn \/ SendTimeOff
      BY <3>1, SMT DEF SendTimeOn, SendTimeOff, Call, Then, Places
    <3>2. CASE TurnOn \/ TurnOff
      BY <3>2, SMT DEF TurnOn, TurnOff, Call, Then, Places
    <3>3. CASE sosCall \/ timerCancel \/ Leave
      BY <3>3, SMT DEF sosCall, timerCancel, Leave, Call, Then, Places
    <3> QED
      BY <2>2, <3>1, <3>2, <3>3 DEF Calls
  <2>3. CASE Crash
    BY <2>3 DEF Crash, Places
  <2>4. CASE UNCHANGED main
    BY <2>4 DEF main, Places
  <2> QED
    BY <2>1, <2>2, <2>3, <2>4, Zenon DEF Next, Handlers, Post, HandleMessage, Receive, Limiter, Tick, TimeUp, SendReturn,
       StopSelf, Restart, vars
<1> QED
  BY <1>1, <1>2, PTL DEF Spec

LEMMA FlagsInductive == Spec => []Flags
<1> USE FlashConstants DEF Flags
<1>1. Init => Flags
  BY DEF Init
<1>2. Flags /\ [Next]_vars => Flags'
  BY Zenon DEF Next, User, System, Calls, Limiter, Launch, FocusChanged, TorchOn, TorchOff, SosOn, SosOff, Back,
     Destroy, CameraTakes, Return, Post, HandleMessage, Receive, Tick, TimeUp, SendReturn, StopSelf, Crash, Restart,
     SendTimeOn, SendTimeOff, TurnOn, TurnOff, sosCall, timerCancel, Leave, NoCall, Handle, Call, Light,
     vars, light
<1> QED
  BY <1>1, <1>2, PTL DEF Spec

LEMMA ValuesInductive == Spec => []Values
<1> USE FlashConstants DEF Values
<1>1. Init => Values
  BY SMT DEF Init
<1>2. Values /\ [Next]_vars => Values'
  <2> SUFFICES ASSUME Values, [Next]_vars PROVE Values'
    OBVIOUS
  <2>1. CASE Handlers
    <3>1. screen' \in {"none", "front", "finishing"} /\ status' \in {0, 1} /\ sos' \in {0, 1}
      BY <2>1, SMT DEF Handlers, User, System, Launch, FocusChanged, TorchOn, TorchOff, SosOn, SosOff, Back, Destroy,
         CameraTakes, Return
    <3> QED
      BY <2>1, <3>1, Begins, Zenon DEF light, timer, service
  <2>2. CASE Calls
    <3>1. UNCHANGED <<status, sos, inbox, service, crashes>>
      BY <2>2, Zenon DEF Calls, SendTimeOn, SendTimeOff, TurnOn, TurnOff, sosCall, timerCancel, Leave, Call
    <3>2. by' \in {"none", "torch", "sos", "late"} /\ blink' \in {"none", "on", "off"}
          /\ screen' \in {"none", "front", "finishing"}
      BY <2>2, Zenon DEF Calls, SendTimeOn, SendTimeOff, TurnOn, TurnOff, sosCall, timerCancel, Leave, Light, light
    <3> QED
      BY <3>1, <3>2, Zenon DEF service
  <2>3. CASE Post \/ HandleMessage
    BY <2>3, Zenon DEF Post, HandleMessage, Light, light, activity, service
  <2>4. CASE Receive
    BY <2>4, SMT DEF Receive, activity, timer, light
  <2>5. CASE Limiter
    BY <2>5, SMT DEF Limiter, Tick, TimeUp, SendReturn, StopSelf, Restart, Counted, Light, light, activity, timer
  <2>6. CASE Crash
    BY <2>6, SMT DEF Crash, Sticky
  <2>7. CASE UNCHANGED vars
    BY <2>7, SMT DEF vars, light, activity, timer, service
  <2> QED
    BY <2>1, <2>2, <2>3, <2>4, <2>5, <2>6, <2>7 DEF Next, Handlers
<1> QED
  BY <1>1, <1>2, PTL DEF Spec

-----------------------------------------------------------------------------
LEMMA TailLast ==
  ASSUME NEW T, NEW s \in Seq(T), s # <<>>
  PROVE  /\ Tail(s) \in Seq(T) /\ Len(Tail(s)) = Len(s) - 1 /\ Head(s) = s[1] /\ s[1] \in T
         /\ IF Tail(s) = <<>> THEN Head(s) = s[Len(s)] ELSE Tail(s)[Len(Tail(s))] = s[Len(s)]
<1>1. /\ Len(s) \in Nat \ {0} /\ Tail(s) \in Seq(T) /\ Len(Tail(s)) = Len(s) - 1
      /\ Head(s) = s[1] /\ s[1] \in T
  BY SMT
<1>2. CASE Tail(s) = <<>>
  <2>1. Len(s) = 1
    BY <1>1, <1>2, SMT
  <2> QED
    BY <1>1, <1>2, <2>1
<1>3. CASE Tail(s) # <<>>
  <2>1. Len(Tail(s)) # 0
    BY <1>1, <1>3, SMT
  <2>2. Len(s) - 1 \in 1 .. Len(s) - 1
    BY <1>1, <2>1, SMT
  <2>3. Tail(s)[Len(s) - 1] = s[Len(s)]
    BY <1>1, <2>2, SMT
  <2> QED
    BY <1>1, <1>3, <2>3
<1> QED
  BY <1>2, <1>3

LEMMA Delivered ==
  ASSUME Queue, bcast # <<>>, bcast' = Tail(bcast)
  PROVE  /\ Queue' /\ Head(bcast) \in {"on", "off"}
         /\ IF bcast' = <<>> THEN Head(bcast) = bcast[Len(bcast)] ELSE bcast'[Len(bcast')] = bcast[Len(bcast)]
<1>1. bcast \in Seq({"on", "off"}) /\ Len(bcast) \in Nat
  BY DEF Queue
<1>2. /\ Tail(bcast) \in Seq({"on", "off"}) /\ Len(Tail(bcast)) = Len(bcast) - 1 /\ Head(bcast) \in {"on", "off"}
      /\ IF Tail(bcast) = <<>> THEN Head(bcast) = bcast[Len(bcast)] ELSE Tail(bcast)[Len(Tail(bcast))] = bcast[Len(bcast)]
  BY <1>1, TailLast, Zenon
<1>3. Len(bcast') <= MaxBcast
  BY <1>1, <1>2, FlashConstants, SMT DEF Queue
<1> QED
  BY <1>2, <1>3 DEF Queue

(* What a broadcast sent does to the queue.                                *)
LEMMA Sent ==
  ASSUME Queue, Room, NEW c \in {"on", "off"}, bcast' = Append(bcast, c)
  PROVE  Queue' /\ bcast' # <<>> /\ bcast'[Len(bcast')] = c
BY FlashConstants, SMT DEF Queue, Room

(* A broadcast is still to be sent.                                        *)
Sending == todo \in {"TIME_ON", "TIME_OFF"} \/ (doing = "torchOff" /\ todo \in {"off", "cancel"})

(* A handler has room for its broadcast until it sends it.                 *)
QueueInv == Queue /\ (Sending => Room)

LEMMA QueueInductive == Spec => []QueueInv
<1>1. Init => QueueInv
  BY FlashConstants, SMT DEF Init, Queue, QueueInv, Sending
<1>2. Places /\ QueueInv /\ [Next]_vars => QueueInv'
  <2> SUFFICES ASSUME Places, QueueInv, [Next]_vars PROVE QueueInv'
    OBVIOUS
  <2> USE DEF QueueInv
  <2>1. CASE Handlers
    <3>1. bcast' = bcast /\ Queue' /\ (Room => Room')
      BY <2>1, Begins, Zenon DEF Queue, Room
    <3>2. CASE TorchOn \/ TorchOff \/ SosOn \/ SosOff
      BY <3>1, <3>2 DEF TorchOn, TorchOff, SosOn, SosOff
    <3>3. CASE Launch \/ FocusChanged \/ Back \/ Destroy \/ CameraTakes \/ Return
      <4>1. ~Sending'
        BY <3>3, SMT DEF Launch, FocusChanged, Back, Destroy, CameraTakes, Return, NoCall, Handle, Sending
      <4> QED
        BY <3>1, <4>1
    <3> QED
      BY <2>1, <3>2, <3>3 DEF Handlers, User, System
  <2>2. CASE SendTimeOn \/ SendTimeOff
    <3>1. Sending /\ (bcast' = Append(bcast, "on") \/ bcast' = Append(bcast, "off"))
      BY <2>2, Zenon DEF SendTimeOn, SendTimeOff, Call, Sending
    <3>2. ~Sending'
      BY <2>2, SMT DEF SendTimeOn, SendTimeOff, Call, Then, Sending, Places
    <3> QED
      BY <3>1, <3>2, Sent
  <2>3. CASE TurnOn \/ TurnOff \/ sosCall \/ timerCancel \/ Leave
    <3>1. bcast' = bcast
      BY <2>3, Zenon DEF TurnOn, TurnOff, sosCall, timerCancel, Leave
    <3>2. Sending' => Sending
      BY <2>3, SMT DEF TurnOn, TurnOff, sosCall, timerCancel, Leave, Call, Then, Sending, Places
    <3> QED
      BY <3>1, <3>2 DEF Queue, Room
  <2>4. CASE Receive
    <3>1. UNCHANGED main /\ doing = "none" /\ bcast # <<>> /\ bcast' = Tail(bcast)
      BY <2>4, Zenon DEF Receive, Idle
    <3>2. ~Sending'
      BY <3>1, SMT DEF Sending, Places, main
    <3> QED
      BY <3>1, <3>2, Delivered
  <2>5. CASE Crash
    <3>1. ~Sending' /\ bcast' = bcast
      BY <2>5, SMT DEF Crash, Sending
    <3> QED
      BY <3>1 DEF Queue
  <2>6. CASE UNCHANGED <<main, bcast>>
    BY <2>6 DEF Queue, Room, Sending, main
  <2> QED
    BY <2>1, <2>2, <2>3, <2>4, <2>5, <2>6, Zenon DEF Next, Handlers, Calls, Limiter, Post, HandleMessage, Tick, TimeUp,
       SendReturn, StopSelf, Restart, vars
<1> QED
  BY <1>1, <1>2, PlacesInductive, PTL DEF Spec

(* Every variable stays within its type: the task never counts past Limit. *)
THEOREM TypeCorrect == Spec => []TypeOK
<1>1. Places => /\ doing \in {"none", "torchOn", "torchOff", "sosOn", "sosOff", "statusOff", "destroy", "return"}
                /\ todo \in {"none"} \cup DOMAIN Then
  BY SMT DEF Places, Then
<1>2. Flags /\ Values /\ Places /\ QueueInv => TypeOK
  BY <1>1 DEF Flags, Values, Queue, QueueInv, TypeOK
<1> QED
  BY <1>2, FlagsInductive, ValuesInductive, PlacesInductive, QueueInductive, PTL

-----------------------------------------------------------------------------
OnLast == bcast # <<>> /\ bcast[Len(bcast)] = "on"

(* Who lights the LED has sent TIME_ON last, for between the two the main  *)
(* thread receives no broadcast; who sends TIME_OFF, SOS apart, finds the  *)
(* LED off.                                                                *)
CallsInv ==
  /\ todo = "on" => OnLast
  /\ todo = "cancel" => IF doing = "sosOff" THEN OnLast ELSE by = "none"
  /\ todo = "gone" => by = "none"
  /\ todo = "TIME_OFF" /\ doing = "torchOff" => by = "none"

Burns == by = "torch" /\ ~upset /\ ~Switching

(* A service about to stop itself does not have the torch in its care.     *)
EndInv == Ends => svc = "up" /\ (Burns => bcast # <<>>)

LEMMA CallsInductive == Spec => []CallsInv
<1> USE DEF CallsInv
<1>1. Init => CallsInv
  BY DEF Init
<1>2. Places /\ QueueInv /\ CallsInv /\ [Next]_vars => CallsInv'
  <2> SUFFICES ASSUME Places, QueueInv, CallsInv, [Next]_vars PROVE CallsInv'
    OBVIOUS
  <2>1. CASE Handlers
    BY <2>1, Begins, SMT DEF Beginnings
  <2>2. CASE SendTimeOn
    <3>1. OnLast'
      BY <2>2, Sent DEF SendTimeOn, Call, QueueInv, Sending, OnLast
    <3>2. todo' \in {"on", "cancel"} /\ (todo' = "cancel" => doing' = "sosOff")
      BY <2>2, SMT DEF SendTimeOn, Call, Then, Places
    <3> QED
      BY <3>1, <3>2
  <2>3. CASE SendTimeOff \/ TurnOn \/ sosCall \/ Leave
    <3>1. todo' \in {"dark", "finish", "none"}
      BY <2>3, SMT DEF SendTimeOff, TurnOn, sosCall, Leave, Call, Then, Places
    <3> QED
      BY <3>1
  <2>4. CASE TurnOff
    <3>1. by' = "none" /\ todo' \in {"cancel", "finish", "sos"} /\ (todo' = "cancel" => doing' # "sosOff")
      BY <2>4, SMT DEF TurnOff, Light, Call, Then, Places
    <3> QED
      BY <3>1
  <2>5. CASE timerCancel
    BY <2>5, SMT DEF timerCancel, Call, Then, Places, OnLast
  <2>6. CASE Post \/ Tick \/ SendReturn \/ StopSelf \/ Restart
    BY <2>6, SMT DEF Post, Tick, SendReturn, StopSelf, Restart, OnLast, light, main
  <2>7. CASE HandleMessage \/ Receive
    <3>1. todo' = "none"
      BY <2>7, SMT DEF HandleMessage, Receive, Idle, Places, main
    <3> QED
      BY <3>1
  <2>8. CASE TimeUp
    BY <2>8, SMT DEF TimeUp, Light, OnLast, main
  <2>9. CASE Crash
    BY <2>9 DEF Crash
  <2>10. CASE UNCHANGED vars
    BY <2>10, SMT DEF vars, OnLast, light, main
  <2> QED
    BY <2>1, <2>2, <2>3, <2>4, <2>5, <2>6, <2>7, <2>8, <2>9, <2>10 DEF Next, Handlers, Calls, Limiter
<1> QED
  BY <1>1, <1>2, PlacesInductive, QueueInductive, PTL DEF Spec

(* The time limit: a LED lit by the torch has a service that is to run,    *)
(* between any two calls and after any kill, save the two ways of upset.   *)
LimitInv == EndInv /\ Limited

THEOREM LimitHolds == Spec => []Limited
<1> USE DEF LimitInv
<1>1. Init => LimitInv
  BY SMT DEF Init, EndInv, Ends, Limited
<1>2. Places /\ Values /\ QueueInv /\ CallsInv /\ LimitInv /\ [Next]_vars => LimitInv'
  <2> SUFFICES ASSUME Places, Values, QueueInv, CallsInv, LimitInv, [Next]_vars PROVE LimitInv'
    OBVIOUS
  <2> USE DEF EndInv, Limited, Burns
  <2>1. CASE Handlers
    <3>1. UNCHANGED <<by, upset, bcast, svc, ending>> /\ ~Switching
      BY <2>1, Begins, Zenon DEF light, service, Switching, Places
    <3> QED
      BY <3>1, SMT DEF Ends
  <2>2. CASE SendTimeOn
    <3>1. bcast' # <<>> /\ bcast'[Len(bcast')] = "on"
      BY <2>2, Sent DEF SendTimeOn, Call, QueueInv, Sending
    <3>2. UNCHANGED <<svc, ending>>
      BY <2>2, Zenon DEF SendTimeOn, Call, service
    <3> QED
      BY <3>1, <3>2, SMT DEF Ends
  <2>3. CASE SendTimeOff
    <3>1. ~Burns'
      BY <2>3, SMT DEF SendTimeOff, Call, CallsInv, Then, Places, Switching, light
    <3>2. UNCHANGED <<svc, ending>>
      BY <2>3, Zenon DEF SendTimeOff, Call, service
    <3> QED
      BY <3>1, <3>2, SMT DEF Ends
  <2>4. CASE TurnOn
    <3>1. OnLast /\ UNCHANGED <<bcast, svc, ending>>
      BY <2>4, Zenon DEF TurnOn, Call, CallsInv, service
    <3> QED
      BY <3>1, SMT DEF Ends, OnLast
  <2>5. CASE TurnOff \/ sosCall
    <3>1. ~Burns' /\ UNCHANGED <<svc, ending>>
      BY <2>5, SMT DEF TurnOff, sosCall, Call, Light, service
    <3> QED
      BY <3>1, SMT DEF Ends
  <2>6. CASE timerCancel
    <3>1. UNCHANGED <<bcast, svc, ending>>
      BY <2>6, Zenon DEF timerCancel, Call, service
    <3>2. OnLast \/ ~Burns'
      BY <2>6, SMT DEF timerCancel, Call, CallsInv
    <3> QED
      BY <3>1, <3>2, SMT DEF Ends, OnLast
  <2>7. CASE Leave
    <3>1. UNCHANGED <<by, upset, bcast, svc, ending>> /\ ~Switching
      BY <2>7, Zenon DEF Leave, Call, light, service, Switching
    <3> QED
      BY <3>1, SMT DEF Ends
  <2>8. CASE Post \/ Tick \/ SendReturn \/ Restart
    <3>1. CASE Post
      BY <3>1, SMT DEF Post, light, main, service, Switching, Ends
    <3>2. CASE Tick
      BY <3>2, SMT DEF Tick, light, main, Switching, Ends
    <3>3. CASE SendReturn
      BY <3>3, SMT DEF SendReturn, light, main, Switching, Ends
    <3>4. CASE Restart
      BY <3>4, SMT DEF Restart, light, main, Switching, Ends
    <3> QED
      BY <2>8, <3>1, <3>2, <3>3, <3>4
  <2>9. CASE HandleMessage
    <3>1. by' # "torch" /\ UNCHANGED service
      BY <2>9, SMT DEF HandleMessage, Light
    <3> QED
      BY <3>1, SMT DEF service, Ends
  <2>10. CASE Receive
    <3>1. bcast # <<>> /\ bcast' = Tail(bcast) /\ ~Switching /\ ~Switching' /\ by' = by
      BY <2>10, SMT DEF Receive, Idle, Places, Switching, main, light
    <3>2. IF bcast' = <<>> THEN Head(bcast) = bcast[Len(bcast)] ELSE bcast'[Len(bcast')] = bcast[Len(bcast)]
      BY <3>1, Delivered, Zenon DEF QueueInv
    <3>3. CASE Head(bcast) = "on"
      <4>1. svc' = "up" /\ ending' = ending /\ upset' = (upset \/ (svc = "up" /\ Ends))
        BY <2>10, <3>3, SMT DEF Receive
      <4>2. Burns' => Burns /\ ~Ends'
        <5>1. Burns' => Burns /\ ~(svc = "up" /\ Ends)
          BY <3>1, <4>1, Zenon
        <5>2. Ends' <=> Ends
          BY <4>1 DEF Ends
        <5> QED
          BY <5>1, <5>2, Zenon
      <4> QED
        BY <3>1, <3>2, <4>1, <4>2, SMT DEF Ends
    <3>4. CASE Head(bcast) # "on"
      <4>1. Head(bcast) = "off" /\ upset' = upset /\ ~Ends'
        BY <2>10, <3>4, SMT DEF Receive, Ends, light
      <4>2. Burns' => Burns
        BY <3>1, <4>1, SMT
      <4> QED
        BY <3>1, <3>2, <4>1, <4>2, SMT
    <3> QED
      BY <3>3, <3>4
  <2>11. CASE TimeUp
    <3>1. by' = "none" /\ svc' = "up"
      BY <2>11, SMT DEF TimeUp, Light
    <3> QED
      BY <3>1
  <2>12. CASE StopSelf
    <3>1. Ends /\ ~Ends' /\ UNCHANGED <<by, upset, bcast, todo>>
      BY <2>12, SMT DEF StopSelf, Ends, light, main
    <3> QED
      BY <3>1, SMT DEF Switching
  <2>13. CASE Crash
    <3>1. ~Ends' /\ by' = by /\ bcast' = bcast /\ upset' = (upset \/ Switching)
      BY <2>13, SMT DEF Crash, Ends
    <3>2. svc # "none" => svc' # "none"
      BY <2>13, SMT DEF Crash, Sticky
    <3>3. Burns' => Burns
      BY <3>1, Zenon
    <3> QED
      BY <3>1, <3>2, <3>3, Zenon
  <2>14. CASE UNCHANGED vars
    BY <2>14, SMT DEF vars, light, main, service, Switching, Ends
  <2> QED
    BY <2>1, <2>2, <2>3, <2>4, <2>5, <2>6, <2>7, <2>8, <2>9, <2>10, <2>11, <2>12, <2>13, <2>14
       DEF Next, Handlers, Calls, Limiter
<1> QED
  BY <1>1, <1>2, PlacesInductive, ValuesInductive, QueueInductive, CallsInductive, PTL DEF Spec

-----------------------------------------------------------------------------
(* The SOS timer and the calls of a handler are those of a screen, and the *)
(* timer is off before the screen goes.                                    *)
TimerInv ==
  /\ blink # "none" \/ todo # "none" => screen # "none"
  /\ todo = "gone" => blink = "none"

GoneInv == TimerInv /\ OffWhenGone

(* The LED is off when there is no screen, whatever way the screen went    *)
(* and whatever its timer had begun; kills and a late message excepted.    *)
THEOREM GoneIsOff == Spec => []OffWhenGone
<1> USE DEF GoneInv, TimerInv, OffWhenGone, led
<1>1. Init => GoneInv
  BY SMT DEF Init
<1>2. Places /\ Values /\ CallsInv /\ GoneInv /\ [Next]_vars => GoneInv'
  <2> SUFFICES ASSUME Places, Values, CallsInv, GoneInv, [Next]_vars PROVE GoneInv'
    OBVIOUS
  <2>1. CASE Handlers
    <3>1. UNCHANGED <<by, blink, crashes>> /\ (screen # "none" => screen' # "none") /\ todo' # "gone"
      BY <2>1, Begins, SMT DEF Beginnings, light, timer
    <3>2. todo' # "none" => screen # "none"
      BY <2>1, Begins, SMT DEF Beginnings
    <3> QED
      BY <3>1, <3>2
  <2>2. CASE SendTimeOn \/ SendTimeOff \/ TurnOn \/ TurnOff \/ sosCall
    <3>1. todo # "none" /\ screen' = screen /\ todo' # "gone"
      BY <2>2, SMT DEF SendTimeOn, SendTimeOff, TurnOn, TurnOff, sosCall, Call, Then, Places
    <3> QED
      BY <3>1
  <2>3. CASE timerCancel
    <3>1. todo # "none" /\ screen' = screen /\ blink' = "none"
      BY <2>3, SMT DEF timerCancel, Call
    <3> QED
      BY <3>1
  <2>4. CASE Leave
    <3>1. todo' = "none" /\ UNCHANGED <<by, blink, crashes>> /\ (screen' = "none" => todo = "gone")
      BY <2>4, SMT DEF Leave, Call, Then, light
    <3> QED
      BY <3>1 DEF CallsInv
  <2>5. CASE Post
    BY <2>5, SMT DEF Post, light, main, activity
  <2>6. CASE HandleMessage
    <3>1. UNCHANGED <<todo, screen, blink, crashes>> /\ by' \in {"none", "late", "sos"} /\ (by' = "sos" => blink # "none")
      BY <2>6, SMT DEF HandleMessage, Light, main, activity
    <3> QED
      BY <3>1
  <2>7. CASE Receive \/ Limiter
    <3>1. UNCHANGED <<todo, screen, blink, crashes>> /\ by' \in {by, "none"}
      BY <2>7, SMT DEF Receive, Limiter, Tick, TimeUp, SendReturn, StopSelf, Restart, Light, light, main, activity, timer
    <3> QED
      BY <3>1
  <2>8. CASE Crash
    <3>1. crashes' > 0 /\ blink' = "none" /\ todo' = "none"
      BY <2>8, SMT DEF Crash, Values
    <3> QED
      BY <3>1
  <2>9. CASE UNCHANGED vars
    BY <2>9, SMT DEF vars, light, main, activity, timer
  <2> QED
    BY <2>1, <2>2, <2>3, <2>4, <2>5, <2>6, <2>7, <2>8, <2>9 DEF Next, Handlers, Calls
<1> QED
  BY <1>1, <1>2, PlacesInductive, ValuesInductive, CallsInductive, PTL DEF Spec
=============================================================================
