-------------------------- MODULE StudentSosProofs --------------------------
(***************************************************************************)
(* Theorems of StudentSos, for every number of starts, list of numbers and *)
(* bound on the calls that are asked for.                                  *)
(***************************************************************************)
EXTENDS StudentSos, TLAPS

(* The key's property is "1" from the click to onDestroy, and between a    *)
(* click and the start no service runs: a thread has a service of its own. *)
KeyInv ==
  /\ starCall => svc = None
  /\ stopping => svc # None
  /\ starCall \/ svc # None => sosProp = "1"
  /\ KeyWorksAgain
  /\ \A t \in Threads : owner[t] = (IF pc[t] = "new" THEN None ELSE t)
  /\ \A t \in Threads : pc[t] \in {"wait", "call"} => idx[t] <= Count

(* But for end_call only a thread that is done, or found no account, stops *)
(* its service: any other that dials has the running service, with its     *)
(* property set.                                                           *)
Dials(t) == Dialling(t) /\ mIsHasSIM[owner[t]]
DialInv  == \A t \in Threads : Dials(t) /\ owner[t] \notin endCalled => svc = t /\ ~stopping

-----------------------------------------------------------------------------
LEMMA StopSelfKeeps ==
  ASSUME NEW t \in Threads, KeyInv, pc[t] # "new", StopSelf(t) PROVE stopping' => svc # None
  BY SosConstants DEF StopSelf, KeyInv

(* Values and KeyInv are inductive together: a thread that runs reads the  *)
(* fields of the service that KeyInv gives it.                             *)
LEMMA ValuesInductive == Spec => [](Values /\ KeyInv)
<1> USE SosConstants
<1>1. Init => Values /\ KeyInv
  BY SMT DEF Init, Values, KeyInv, KeyWorksAgain, States, Foreground
<1>2. Values /\ KeyInv /\ [Next]_vars => Values' /\ KeyInv'
  <2> SUFFICES ASSUME Values, KeyInv, [Next]_vars PROVE Values' /\ KeyInv'
    OBVIOUS
  <2> USE DEF Values, KeyInv, KeyWorksAgain, States
  <2>1. CASE PowerKey
    BY <2>1, SMT DEF PowerKey, Clicked, flags, phoneVars
  <2>2. CASE EndCall
    BY <2>2, SMT DEF EndCall, keyVars, flags, phoneVars
  <2>3. CASE Destroy
    BY <2>3, SMT DEF Destroy, Cleared, flags, phoneVars
  <2>4. ASSUME NEW t \in Threads, StartCommand(t) PROVE Values' /\ KeyInv'
    BY <2>4, SMT DEF StartCommand, flags, phoneVars
  <2>5. ASSUME NEW t \in Threads, Handle(t) PROVE Values' /\ KeyInv'
    BY <2>5, SMT DEF Handle, keyVars, phoneVars
  <2>6. ASSUME NEW t \in Threads, While(t) PROVE Values' /\ KeyInv'
    <3>1. stopping' => svc # None
      BY <2>6, StopSelfKeeps DEF While
    <3>2. 1 \in 1 .. Count + 1
      BY SMT
    <3>3. pc' \in [Threads -> States]
      BY <2>6, SMT DEF While, Go
    <3>4. idx' \in [Threads -> 1 .. Count + 1]
      BY <2>6, <3>2, SMT DEF While, Go
    <3>5. \A u \in Threads : pc'[u] \in {"wait", "call"} => idx'[u] <= Count
      BY <2>6, <3>2, SMT DEF While, Go
    <3>6. \A u \in Threads : pc[u] = "new" <=> pc'[u] = "new"
      BY <2>6, SMT DEF While, Go
    <3> QED
      BY <2>6, <3>1, <3>3, <3>4, <3>5, <3>6, SMT DEF While, keyVars, flags, phoneVars
  <2>7. ASSUME NEW t \in Threads, For(t) PROVE Values' /\ KeyInv'
    <3>1. pc' \in [Threads -> States] /\ idx' \in [Threads -> 1 .. Count + 1]
      BY <2>7, SMT DEF For, Go
    <3>2. \A u \in Threads : pc'[u] \in {"wait", "call"} => idx'[u] <= Count
      BY <2>7, SMT DEF For, Go
    <3>3. \A u \in Threads : pc[u] = "new" <=> pc'[u] = "new"
      BY <2>7, SMT DEF For, Go
    <3> QED
      BY <2>7, <3>1, <3>2, <3>3, SMT DEF For, keyVars, flags, phoneVars
  <2>8. ASSUME NEW t \in Threads, Wait(t) PROVE Values' /\ KeyInv'
    BY <2>8, SMT DEF Wait, Go, keyVars, flags, phoneVars
  <2>9. ASSUME NEW t \in Threads, Call(t) PROVE Values' /\ KeyInv'
    <3>1. stopping' => svc # None
      BY <2>9, StopSelfKeeps DEF Call
    <3>2. pc' \in [Threads -> States] /\ idx' \in [Threads -> 1 .. Count + 1]
      BY <2>9, SMT DEF Call, Go
    <3>3. \A u \in Threads : pc[u] = "new" <=> pc'[u] = "new"
      BY <2>9, SMT DEF Call, Go
    <3>4. intents' \in 0 .. MaxIntents
      BY <2>9, SMT DEF Call, flags
    <3>5. \A u \in Threads : pc'[u] \in {"wait", "call"} => idx'[u] <= Count
      BY <2>9, SMT DEF Call, Go
    <3> QED
      BY <2>9, <3>1, <3>2, <3>3, <3>4, <3>5, SMT DEF Call, keyVars, phoneVars
  <2>13. ASSUME NEW t \in Threads, CallThrows(t) PROVE Values' /\ KeyInv'
    <3>1. stopping' => svc # None
      BY <2>13, StopSelfKeeps DEF CallThrows
    <3>2. 1 \in 1 .. Count + 1
      BY SMT
    <3>3. pc' \in [Threads -> States] /\ idx' \in [Threads -> 1 .. Count + 1]
      BY <2>13, <3>2, SMT DEF CallThrows, Go
    <3>4. \A u \in Threads : pc[u] = "new" <=> pc'[u] = "new"
      BY <2>13, SMT DEF CallThrows, Go
    <3>5. \A u \in Threads : pc'[u] \in {"wait", "call"} => idx'[u] <= Count
      BY <2>13, SMT DEF CallThrows, Go
    <3> QED
      BY <2>13, <3>1, <3>3, <3>4, <3>5, SMT DEF CallThrows, keyVars, phoneVars
  <2>10. ASSUME Phone PROVE Values' /\ KeyInv'
    <3>1. Registered \subseteq Threads
      BY DEF Registered
    <3> QED
      <4>1. UNCHANGED <<keyVars, svc, stopping, owner, flags, pc, idx>>
        BY <2>10 DEF Phone, PhoneMoves, SetUp, Answer, End, Hold, Ring, Refuse, Changed
      <4>2. note' \subseteq Threads /\ fg' \in Foreground
        BY <2>10, <3>1 DEF Foreground, Phone, PhoneMoves, SetUp, Answer, End, Hold, Ring, Refuse, Changed
      <4>3. intents' \in 0 .. MaxIntents
        BY <2>10, SMT DEF Phone, PhoneMoves, SetUp, Answer, End, Hold, Ring, Refuse, Changed
      <4> QED
        BY <4>1, <4>2, <4>3 DEF keyVars, flags
  <2>11. CASE UNCHANGED vars
    BY <2>11, SMT DEF vars, keyVars, flags, phoneVars
  <2>12. CASE CreateThrows
    <3>1. 1 \in 1 .. Count + 1
      BY SMT
    <3>2. pc' \in [Threads -> States] /\ idx' \in [Threads -> 1 .. Count + 1]
      BY <2>12, <3>1 DEF CreateThrows
    <3>3. \A t \in Threads : (pc[t] = "new" <=> pc'[t] = "new") /\ pc'[t] \notin {"wait", "call"}
      BY <2>12 DEF CreateThrows
    <3>4. "idle" \in Foreground
      BY DEF Foreground
    <3> QED
      BY <2>12, <3>2, <3>3, <3>4 DEF CreateThrows
  <2> QED
    BY <2>1, <2>2, <2>3, <2>4, <2>5, <2>6, <2>7, <2>8, <2>9, <2>10, <2>11, <2>12, <2>13 DEF Next, MainThread, SosThread
<1> QED
  BY <1>1, <1>2, PTL DEF Spec

LEMMA FlagsInductive == Spec => []Flags
<1>1. Init => Flags
  BY Zenon DEF Init, Flags
<1>2. Flags /\ [Next]_vars => Flags'
  <2> SUFFICES ASSUME Flags, [Next]_vars PROVE Flags'
    OBVIOUS
  <2> USE DEF Flags
  <2>1. CASE PowerKey
    BY <2>1 DEF PowerKey, flags, phoneVars
  <2>2. CASE EndCall
    BY <2>2 DEF EndCall, keyVars, flags, phoneVars
  <2>3. CASE Destroy
    BY <2>3 DEF Destroy, flags, phoneVars
  <2>4. ASSUME NEW t \in Threads, StartCommand(t) PROVE Flags'
    BY <2>4 DEF StartCommand, flags, phoneVars
  <2>5. ASSUME NEW t \in Threads, Handle(t) PROVE Flags'
    BY <2>5 DEF Handle, keyVars, phoneVars
  <2>6. ASSUME NEW t \in Threads, While(t) PROVE Flags'
    BY <2>6 DEF While, StopSelf, keyVars, flags, phoneVars
  <2>7. ASSUME NEW t \in Threads, For(t) PROVE Flags'
    BY <2>7 DEF For, keyVars, flags, phoneVars
  <2>8. ASSUME NEW t \in Threads, Wait(t) PROVE Flags'
    BY <2>8 DEF Wait, keyVars, flags, phoneVars
  <2>9. ASSUME NEW t \in Threads, Call(t) \/ CallThrows(t) PROVE Flags'
    <3>1. mIsDialing' \in [Threads -> BOOLEAN] /\ mIsHasSIM' \in [Threads -> BOOLEAN] /\ UNCHANGED mIsSosSuccess
      BY <2>9, Zenon DEF Call, CallThrows, Tries, flags
    <3>2. stopping' \in BOOLEAN
      BY <2>9 DEF Call, CallThrows, StopSelf, flags
    <3> QED
      BY <2>9, <3>1, <3>2 DEF Call, CallThrows, keyVars, phoneVars
  <2>10. ASSUME Phone PROVE Flags'
    BY <2>10 DEF Phone, PhoneMoves, SetUp, Answer, End, Hold, Ring, Refuse, Changed,
                 keyVars, flags, phoneVars
  <2>11. CASE UNCHANGED vars
    BY <2>11 DEF vars, keyVars, flags, phoneVars
  <2>12. CASE CreateThrows
    BY <2>12 DEF CreateThrows, flags
  <2> QED
    BY <2>1, <2>2, <2>3, <2>4, <2>5, <2>6, <2>7, <2>8, <2>9, <2>10, <2>11, <2>12 DEF Next, MainThread, SosThread
<1> QED
  BY <1>1, <1>2, PTL DEF Spec

(* Type correctness: a thread leaves the list of numbers at most one past  *)
(* its end, and every instance's fields stay flags.                        *)
THEOREM TypeCorrect == Spec => []TypeOK
<1>1. Values /\ Flags <=> TypeOK
  BY DEF TypeOK
<1> QED
  BY <1>1, ValuesInductive, FlagsInductive, PTL

(* No two threads work on the fields of one service, whatever is stopped   *)
(* and whenever: the property the key tests is "1" while a service runs.   *)
THEOREM ThreadsApart == Spec => []OneThreadPerService
<1>1. KeyInv => OneThreadPerService
  BY SosConstants DEF KeyInv, OneThreadPerService
<1> QED
  BY <1>1, ValuesInductive, PTL

(* The key is never dead but by a start that died in onCreate: without a   *)
(* service, and with none being started, the property it tests is "0".     *)
THEOREM KeyIsNotDead == Spec => []KeyWorksAgain
<1>1. KeyInv => KeyWorksAgain
  BY DEF KeyInv
<1> QED
  BY <1>1, ValuesInductive, PTL

-----------------------------------------------------------------------------
LEMMA SuccessStays ==
  ASSUME Flags, KeyInv, NEW i \in Threads, Handle(i), NEW u \in Threads, Success(u) PROVE Success(u)'
<1>1. owner'[u] # None /\ mIsSosSuccess[owner[u]] /\ owner' = owner
  BY DEF Success, Handle
<1>2. CASE owner[u] = i
  <2>1. mIsSosSuccess'[i]
    BY <1>1, <1>2 DEF Handle, Flags
  <2> QED
    BY <1>1, <1>2, <2>1 DEF Success
<1>3. CASE owner[u] # i
  <2>1. mIsSosSuccess'[owner[u]] = mIsSosSuccess[owner[u]]
    BY <1>1, <1>3, SosConstants DEF Handle, Flags, KeyInv
  <2> QED
    BY <1>1, <2>1 DEF Success
<1> QED
  BY <1>2, <1>3

LEMMA CallEffect ==
  ASSUME Values, Flags, KeyInv, NEW t \in Threads, Call(t) \/ CallThrows(t)
  PROVE  /\ \A u \in Threads : mIsHasSIM'[u] => mIsHasSIM[u]
         /\ stopping' => \/ stopping
                         \/ svc = owner[t] /\ (~mIsHasSIM'[owner[t]] \/ pc'[t] = "ended")
         /\ UNCHANGED <<svc, owner, mIsSosSuccess>>
<1>1. owner[t] \in Threads
  BY Zenon DEF Call, CallThrows, KeyInv
<1>2. UNCHANGED <<svc, owner, mIsSosSuccess>>
  BY DEF Call, CallThrows, Tries, flags
<1>3. ASSUME NEW noSIM, Tries(t, noSIM)
      PROVE  (\A u \in Threads : mIsHasSIM'[u] => mIsHasSIM[u]) /\ (noSIM => ~mIsHasSIM'[owner[t]])
  <2>1. mIsHasSIM' = [mIsHasSIM EXCEPT ![owner[t]] = mIsHasSIM[owner[t]] /\ ~noSIM]
    BY <1>3, Zenon DEF Tries
  <2> QED
    BY <1>1, <2>1, Zenon DEF Flags
<1>4. \A u \in Threads : mIsHasSIM'[u] => mIsHasSIM[u]
  BY <1>3 DEF Call, CallThrows, flags
<1>5. CASE Call(t) /\ Success(t)
  BY <1>2, <1>4, <1>5 DEF Call
<1>6. CASE Call(t) /\ ~Success(t)
  <2>1. Tries(t, NoAccount(t)) /\ (IF NoAccount(t) THEN StopSelf(t) ELSE UNCHANGED stopping)
    BY <1>6, Zenon DEF Call
  <2>2. NoAccount(t) => ~mIsHasSIM'[owner[t]]
    BY <1>3, <2>1
  <2> QED
    BY <1>2, <1>4, <2>1, <2>2 DEF StopSelf
<1>7. CASE CallThrows(t)
  <2>1. pc'[t] = "ended" /\ StopSelf(t)
    BY <1>7, SMT DEF CallThrows, Go, Values
  <2> QED
    BY <1>2, <1>4, <2>1 DEF StopSelf
<1> QED
  BY <1>5, <1>6, <1>7

LEMMA DialInductive == Spec => []DialInv
<1> USE SosConstants
<1>1. Init => DialInv
  BY DEF Init, DialInv, Dials, Dialling
<1>2. (Values /\ KeyInv) /\ Flags /\ DialInv /\ [Next]_vars => DialInv'
  <2> SUFFICES ASSUME Values, KeyInv, Flags, DialInv, [Next]_vars PROVE DialInv'
    OBVIOUS
  <2> USE DEF Values, KeyInv, DialInv, Dials, Dialling, Success
  <2>1. CASE PowerKey
    BY <2>1 DEF PowerKey, flags, phoneVars
  <2>2. CASE EndCall
    BY <2>2, SMT DEF EndCall, flags, phoneVars
  <2>3. CASE Destroy
    BY <2>3, SMT DEF Destroy, flags, phoneVars
  <2>4. ASSUME NEW t \in Threads, StartCommand(t) PROVE DialInv'
    BY <2>4, SMT DEF StartCommand, flags, phoneVars
  <2>5. ASSUME NEW t \in Threads, Handle(t) PROVE DialInv'
    <3>1. \A u \in Threads : Dialling(u)' => Dialling(u)
      BY <2>5, SuccessStays DEF Handle
    <3> HIDE DEF Dialling
    <3> QED
      BY <2>5, <3>1 DEF Handle, keyVars
  <2>6. ASSUME NEW t \in Threads, While(t) PROVE DialInv'
    <3>1. \A u \in Threads : Dialling(u)' => Dialling(u)
      BY <2>6, SMT DEF While, Go, flags
    <3>2. Dialling(t)' => UNCHANGED stopping
      BY <2>6, SMT DEF While, Go
    <3>3. owner[t] = t /\ UNCHANGED <<svc, owner, endCalled, mIsHasSIM>>
      BY <2>6 DEF While, keyVars, flags
    <3>4. stopping' => stopping \/ svc = t
      BY <2>6, <3>3 DEF While, StopSelf
    <3> HIDE DEF Dialling
    <3> QED
      BY <3>1, <3>2, <3>3, <3>4
  <2>7. ASSUME NEW t \in Threads, For(t) PROVE DialInv'
    BY <2>7, SMT DEF For, Go, keyVars, flags, phoneVars
  <2>8. ASSUME NEW t \in Threads, Wait(t) PROVE DialInv'
    BY <2>8, SMT DEF Wait, Go, keyVars, flags, phoneVars
  <2>9. ASSUME NEW t \in Threads, Call(t) \/ CallThrows(t) PROVE DialInv'
    <3>1. \A u \in Threads : pc'[u] \notin {"new", "ended", "dead"} => pc[u] \notin {"new", "ended", "dead"}
      <4>1. CASE Call(t)
        BY <4>1, SMT DEF Call, Go
      <4>2. CASE CallThrows(t)
        BY <4>2, SMT DEF CallThrows, Go
      <4> QED
        BY <2>9, <4>1, <4>2
    <3>2. endCalled' = endCalled /\ owner[t] = t /\ pc[t] # "new"
      BY <2>9 DEF Call, CallThrows, keyVars
    <3>3. \A u \in Threads : Dials(u)' => Dials(u)
      <4>1. UNCHANGED <<owner, mIsSosSuccess>> /\ \A u \in Threads : mIsHasSIM'[u] => mIsHasSIM[u]
        BY <2>9, CallEffect
      <4>2. SUFFICES ASSUME NEW u \in Threads, Dials(u)' PROVE Dials(u)
        OBVIOUS
      <4>3. pc[u] \notin {"new", "ended", "dead"} /\ owner[u] = u
        BY <3>1, <4>2
      <4> QED
        BY <4>1, <4>2, <4>3
    <3>4. stopping' => stopping \/ (svc = t /\ ~Dials(t)')
      BY <2>9, <3>2, CallEffect
    <3>5. UNCHANGED <<svc, owner>>
      BY <2>9, CallEffect
    <3> HIDE DEF Dials
    <3> QED
      BY <3>2, <3>3, <3>4, <3>5
  <2>10. ASSUME Phone PROVE DialInv'
    BY <2>10, SMT DEF Phone, PhoneMoves, SetUp, Answer, End, Hold, Ring, Refuse, Changed,
                      keyVars, flags, phoneVars
  <2>11. CASE UNCHANGED vars
    BY <2>11 DEF vars, keyVars, flags, phoneVars
  <2>12. CASE CreateThrows
    BY <2>12 DEF CreateThrows, flags
  <2> QED
    BY <2>1, <2>2, <2>3, <2>4, <2>5, <2>6, <2>7, <2>8, <2>9, <2>10, <2>11, <2>12 DEF Next, MainThread, SosThread
<1> QED
  BY <1>1, <1>2, ValuesInductive, FlagsInductive, PTL DEF Spec

(* Calls are allowed while a thread dials whose service no end_call took   *)
(* away and which has an account: it still runs, so onDestroy has not      *)
(* reset the property.                                                     *)
THEOREM CallsAllowed == Spec => []SosAllowsCalls
<1>1. KeyInv /\ DialInv => SosAllowsCalls
  BY SosConstants DEF KeyInv, DialInv, Dials, SosAllowsCalls
<1> QED
  BY <1>1, ValuesInductive, DialInductive, PTL

-----------------------------------------------------------------------------
(* A thread that is done told its service to stop, unless it was gone.     *)
EndedStops == \A t \in Threads : pc[t] = "ended" => svc # t \/ stopping

LEMMA EndedStopsHolds == Spec => []EndedStops
<1> USE SosConstants
<1>1. Init => EndedStops
  BY DEF Init, EndedStops
<1>2. (Values /\ KeyInv) /\ EndedStops /\ [Next]_vars => EndedStops'
  <2> SUFFICES ASSUME Values, KeyInv, EndedStops, [Next]_vars PROVE EndedStops'
    OBVIOUS
  <2> USE DEF Values, KeyInv, EndedStops
  <2>1. CASE Destroy
    BY <2>1 DEF Destroy
  <2>2. ASSUME NEW t \in Threads, StartCommand(t) PROVE EndedStops'
    BY <2>2, SMT DEF StartCommand
  <2>3. ASSUME NEW t \in Threads, While(t) PROVE EndedStops'
    <3>1. UNCHANGED svc /\ owner[t] = t
      BY <2>3 DEF While
    <3>2. stopping => stopping'
      BY <2>3, Zenon DEF While, StopSelf
    <3>3. \A u \in Threads \ {t} : pc'[u] = pc[u]
      BY <2>3 DEF While, Go
    <3>4. pc'[t] = "ended" => (svc = t => stopping')
      BY <2>3, <3>1 DEF While, Go, StopSelf
    <3> QED
      BY <3>1, <3>2, <3>3, <3>4
  <2>4. ASSUME NEW t \in Threads, For(t) \/ Wait(t) PROVE EndedStops'
    BY <2>4, SMT DEF For, Wait, Go
  <2>5. ASSUME NEW t \in Threads, Call(t) PROVE EndedStops'
    <3>1. UNCHANGED svc /\ (stopping => stopping')
      BY <2>5 DEF Call, StopSelf
    <3>2. \A u \in Threads : pc'[u] = "ended" => pc[u] = "ended"
      BY <2>5, SMT DEF Call, Go
    <3> QED
      BY <3>1, <3>2
  <2>8. ASSUME NEW t \in Threads, CallThrows(t) PROVE EndedStops'
    <3>1. UNCHANGED svc /\ owner[t] = t /\ StopSelf(t)
      BY <2>8 DEF CallThrows
    <3>2. \A u \in Threads \ {t} : pc'[u] = pc[u]
      BY <2>8, SMT DEF CallThrows, Go
    <3> QED
      BY <3>1, <3>2 DEF StopSelf
  <2>9. CASE CreateThrows
    BY <2>9 DEF CreateThrows
  <2>6. CASE UNCHANGED <<pc, svc>> /\ (stopping => stopping')
    BY <2>6
  <2>7. CASE PowerKey \/ EndCall \/ (\E t \in Threads : Handle(t)) \/ Phone \/ UNCHANGED vars
    BY <2>6, <2>7 DEF PowerKey, EndCall, Handle, Phone, PhoneMoves, SetUp, Answer, End, Hold, Ring, Refuse,
       Changed, vars
  <2> QED
    BY <2>1, <2>2, <2>3, <2>4, <2>5, <2>7, <2>8, <2>9 DEF Next, MainThread, SosThread
<1> QED
  BY <1>1, <1>2, ValuesInductive, PTL DEF Spec

(* How many steps a thread whose service has succeeded still takes.        *)
StepsLeft(s) == [dead |-> 0, ended |-> 0, while |-> 1, for |-> 2, call |-> 3, wait |-> 4, new |-> 5][s]

SuccessEnds == \A t \in Threads : Success(t) =>
  /\ Success(t)'
  /\ \/ pc'[t] = pc[t]
     \/ StepsLeft(pc'[t]) < StepsLeft(pc[t]) /\ intents' = intents

(* A success is for good: whatever call state messages, end_call and       *)
(* onDestroy bring, no flag forgets it, the thread calls nobody any more   *)
(* and every step it takes brings it nearer to its end.                    *)
THEOREM SuccessWindsDown == Spec => [][SuccessEnds]_vars
<1> USE SosConstants
<1>1. ASSUME Values, KeyInv, Flags, Next PROVE SuccessEnds
  <2> USE <1>1 DEF Values, KeyInv, Flags
  <2>1. SUFFICES ASSUME NEW u \in Threads, Success(u)
                 PROVE  /\ Success(u)'
                        /\ \/ pc'[u] = pc[u]
                           \/ StepsLeft(pc'[u]) < StepsLeft(pc[u]) /\ intents' = intents
    BY DEF SuccessEnds
  <2>2. pc[u] # "new" /\ owner[u] = u /\ mIsSosSuccess[u]
    BY <2>1 DEF Success
  <2>3. ASSUME NEW t \in Threads, Handle(t) PROVE Success(u)' /\ pc' = pc
    BY <2>1, <2>3, SuccessStays DEF Handle
  <2>4. ASSUME NEW t \in Threads, StartCommand(t) PROVE Success(u)' /\ pc'[u] = pc[u]
    BY <2>2, <2>4 DEF StartCommand, Success, flags
  <2>5. ASSUME NEW t \in Threads, SosThread(t) PROVE Success(u)'
    BY <2>1, <2>5, CallEffect DEF SosThread, While, For, Wait, Success, flags
  <2>6. ASSUME NEW t \in Threads, SosThread(t), t # u PROVE pc'[u] = pc[u]
    BY <2>6 DEF SosThread, While, For, Wait, Call, CallThrows, Go
  <2>7. CASE SosThread(u)
    <3>1. CASE While(u)
      <4>1. pc[u] = "while" /\ pc'[u] = "ended" /\ intents' = intents
        BY <2>1, <3>1 DEF While, Go, Done
      <4> QED
        BY <2>5, <2>7, <4>1 DEF StepsLeft
    <3>2. CASE For(u)
      <4>1. pc[u] = "for" /\ pc'[u] = "while" /\ intents' = intents
        BY <2>1, <3>2 DEF For, Go
      <4> QED
        BY <2>5, <2>7, <4>1 DEF StepsLeft
    <3>3. CASE Wait(u)
      <4>1. pc[u] = "wait" /\ pc'[u] = "call" /\ intents' = intents
        BY <3>3 DEF Wait, Go
      <4> QED
        BY <2>5, <2>7, <4>1 DEF StepsLeft
    <3>4. CASE Call(u)
      <4>1. pc[u] = "call" /\ pc'[u] = "for" /\ intents' = intents
        BY <2>1, <3>4 DEF Call, Go
      <4>2. StepsLeft("for") < StepsLeft("call")
        BY DEF StepsLeft
      <4> QED
        BY <2>5, <2>7, <4>1, <4>2
    <3> QED
      BY <2>1, <2>7, <3>1, <3>2, <3>3, <3>4 DEF SosThread, CallThrows
  <2>8. CASE PowerKey \/ EndCall \/ Destroy \/ Phone
    BY <2>1, <2>8 DEF PowerKey, EndCall, Destroy, Phone, PhoneMoves, SetUp, Answer, End, Hold, Ring, Refuse,
       Changed, Success, flags
  <2>9. CASE CreateThrows
    <3>1. Success(u)' /\ intents' = intents
      BY <2>2, <2>9 DEF CreateThrows, Success, flags
    <3>2. pc'[u] = pc[u] \/ (pc[u] \in {"while", "for", "call", "wait"} /\ pc'[u] = "dead")
      BY <2>2, <2>9 DEF CreateThrows, States
    <3> QED
      BY <3>1, <3>2 DEF StepsLeft
  <2> QED
    BY <2>3, <2>4, <2>5, <2>6, <2>7, <2>8, <2>9 DEF Next, MainThread
<1>2. Values /\ KeyInv /\ Flags /\ [Next]_vars => [SuccessEnds]_vars
  BY <1>1
<1> QED
  BY <1>2, ValuesInductive, FlagsInductive, PTL DEF Spec

(* Once ended it has its service's end under way or behind it.             *)
THEOREM EndedLeavesNoService ==
  Spec => [](\A t \in Threads : pc[t] = "ended" => svc # owner[t] \/ stopping)
<1>1. KeyInv /\ EndedStops => \A t \in Threads : pc[t] = "ended" => svc # owner[t] \/ stopping
  BY DEF KeyInv, EndedStops
<1> QED
  BY <1>1, ValuesInductive, EndedStopsHolds, PTL
=============================================================================
