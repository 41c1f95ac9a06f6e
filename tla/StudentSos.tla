----------------------------- MODULE StudentSos -----------------------------
(***************************************************************************)
(* Emergency dialling (StudentSosService): three clicks of the power key   *)
(* start a service whose thread calls the family numbers in turn until one *)
(* of them answers, while call state messages reach the main thread.       *)
(*                                                                         *)
(* A service instance bears the name of the first thread it started.  The  *)
(* SOS tone is left out: mCanPalyTone is never set, so it is never played. *)
(* The telephone, Telecom and the other senders of STUDENTSOS are the      *)
(* environment; the telephone lives in the service's process, which an     *)
(* exception of onCreate ends.  A reboot, which resets the property, and   *)
(* other deaths of that persistent process are left out.                   *)
(***************************************************************************)
EXTENDS Integers, FiniteSets

CONSTANTS
  Threads,   \* SosThreads, one for each start, numbered as they start
  None,      \* no service instance
  Count,     \* EMEGERCY_NUM_MAX
  Kind,      \* of each number: "empty", "plain" or "emergency"
  MaxIntents,\* bound: calls asked for and not yet set up
  EndCalls,  \* bound: services that an end_call stops
  Refuses,   \* a call may be refused before it is set up, or lost
  Rings      \* bound: states of the foreground call in which calls come in

Foreground == {"idle", "dialing", "active", "holding", "ending"}

ASSUME SosConstants ==
  /\ Threads \subseteq Nat /\ None \notin Threads /\ Count \in Nat /\ MaxIntents \in Nat /\ MaxIntents > 0
  /\ Kind \in [1 .. Count -> {"empty", "plain", "emergency"}]
  /\ EndCalls \in Nat /\ Refuses \in BOOLEAN /\ Rings \subseteq Foreground

VARIABLES
  sosProp,   \* persist.sys.student.sos
  starCall,  \* a star_call broadcast is on its way
  svc,       \* the running service instance
  stopping,  \* it has been told to stop
  owner,     \* the instance each thread belongs to
  mIsSosSuccess, mIsDialing, mIsHasSIM, \* fields of each instance
  pc, idx,   \* of each thread
  note,      \* instances with a PHONE_STATE_CHANGED message waiting
  intents,   \* calls asked for and not yet set up
  fg, ring,  \* the foreground call; an incoming call rings
  sim,       \* there is a call capable account
  endCalled, \* instances that an end_call stopped
  givenUp,   \* the last start died in onCreate and is not tried again
  refused    \* the last thing about a call was that it was refused

keyVars   == <<sosProp, starCall, endCalled, givenUp>>
flags     == <<mIsSosSuccess, mIsDialing, mIsHasSIM>>
phoneVars == <<fg, ring, sim, refused>>
vars == <<keyVars, svc, stopping, owner, flags, pc, idx, note, intents, phoneVars>>

Init ==
  /\ sosProp = "0" /\ starCall = FALSE /\ svc = None /\ stopping = FALSE
  /\ owner = [t \in Threads |-> None]
  /\ mIsSosSuccess = [t \in Threads |-> FALSE] /\ mIsDialing = [t \in Threads |-> FALSE]
  /\ mIsHasSIM = [t \in Threads |-> TRUE]
  /\ pc = [t \in Threads |-> "new"] /\ idx = [t \in Threads |-> 1]
  /\ note = {} /\ intents = 0 /\ fg = "idle" /\ ring = FALSE
  /\ sim \in BOOLEAN /\ endCalled = {} /\ givenUp = FALSE /\ refused = FALSE

-----------------------------------------------------------------------------
\* Mistake: the click does not set the property.
ClickedUnset == "0"

Clicked == "1"

(* The third click of the power key (PhoneWindowManager).                  *)
PowerKey ==
  /\ sosProp = "0" /\ ~starCall
  /\ sosProp' = Clicked /\ starCall' = TRUE
  /\ UNCHANGED <<svc, stopping, owner, flags, pc, idx, note, intents, phoneVars, endCalled, givenUp>>

(* startService: onCreate unless the service runs, then onStartCommand.    *)
StartCommand(t) ==
  /\ starCall /\ ~stopping /\ pc[t] = "new"
  /\ \A u \in Threads : pc[u] = "new" => t <= u
  /\ starCall' = FALSE
  /\ svc' = IF svc = None THEN t ELSE svc
  /\ owner' = [owner EXCEPT ![t] = svc']
  /\ pc' = [pc EXCEPT ![t] = "while"]
  /\ UNCHANGED <<sosProp, endCalled, givenUp, stopping, flags, idx, note, intents, phoneVars>>

(* quertFamilyNum counts the rows of a cursor before it tests that there   *)
(* is one: without the provider the process dies in onCreate, with every   *)
(* thread and call in it, and the system may try the start again.          *)
CreateThrows ==
  /\ starCall /\ ~stopping /\ svc = None
  /\ starCall' \in BOOLEAN /\ givenUp' = ~starCall'
  /\ pc' = [t \in Threads |-> IF pc[t] \in {"new", "ended"} THEN pc[t] ELSE "dead"]
  /\ idx' = [t \in Threads |-> 1] /\ note' = {} /\ fg' = "idle" /\ ring' = FALSE
  /\ UNCHANGED <<sosProp, endCalled, svc, stopping, owner, flags, intents, sim, refused>>

(* stopService, for an end_call.                                           *)
EndCall ==
  /\ svc # None /\ (svc \in endCalled \/ Cardinality(endCalled) < EndCalls)
  /\ stopping' = TRUE /\ endCalled' = endCalled \cup {svc}
  /\ UNCHANGED <<sosProp, starCall, givenUp, svc, owner, flags, pc, idx, note, intents, phoneVars>>

\* Mistake: onDestroy leaves the property as it is.
ClearedNot == sosProp

Cleared == "0"

(* onDestroy: the thread and the handler live on.                          *)
Destroy ==
  /\ stopping /\ stopping' = FALSE
  /\ svc' = None /\ sosProp' = Cleared
  /\ UNCHANGED <<starCall, endCalled, givenUp, owner, flags, pc, idx, note, intents, phoneVars>>

-----------------------------------------------------------------------------
(* SosThread.run.  TelephonyManager.getCallState is not CALL_STATE_IDLE    *)
(* during a call and while one comes in.                                   *)
OffHook    == fg # "idle" \/ ring
Success(t) == owner[t] # None /\ mIsSosSuccess[owner[t]]
Go(t, at)  == pc' = [pc EXCEPT ![t] = at]

\* Mistake: stopService, which stops whichever instance runs.
StopAny(t) == stopping' = (stopping \/ svc # None)

(* stopSelf does nothing for an instance that was destroyed.               *)
StopSelf(t) == stopping' = (stopping \/ owner[t] = svc)

\* Mistake: the outer loop does not look at the success.
DoneByCount(t) == Count = 0 \/ ~mIsHasSIM[owner[t]]

Done(t) == Success(t) \/ Count = 0 \/ ~mIsHasSIM[owner[t]]

While(t) ==
  /\ pc[t] = "while"
  /\ \/ /\ Done(t)
        /\ Go(t, "ended") /\ StopSelf(t)
     \/ /\ ~Done(t)
        /\ Go(t, "for") /\ UNCHANGED stopping
  /\ UNCHANGED <<keyVars, svc, owner, flags, idx, note, intents, phoneVars>>

For(t) ==
  /\ pc[t] = "for"
  /\ \/ /\ idx[t] > Count \/ Success(t)
        /\ Go(t, "while") /\ idx' = [idx EXCEPT ![t] = 1]
     \/ /\ idx[t] <= Count /\ ~Success(t) /\ Kind[idx[t]] = "empty"
        /\ idx' = [idx EXCEPT ![t] = @ + 1] /\ UNCHANGED pc
     \/ /\ idx[t] <= Count /\ ~Success(t) /\ Kind[idx[t]] # "empty"
        /\ Go(t, "wait") /\ UNCHANGED idx
  /\ UNCHANGED <<keyVars, svc, stopping, owner, flags, note, intents, phoneVars>>

MayCall(t) == (~mIsDialing[owner[t]] /\ ~OffHook) \/ Success(t)

Wait(t) ==
  /\ pc[t] = "wait" /\ MayCall(t)
  /\ Go(t, "call")
  /\ UNCHANGED <<keyVars, svc, stopping, owner, flags, idx, note, intents, phoneVars>>

(* startCall: isMultiSim finds out, but for an emergency number, that      *)
(* there is no account, and stops the service; the call is asked for all   *)
(* the same.                                                               *)
NoAccount(t) == Kind[idx[t]] = "plain" /\ ~sim

Tries(t, noSIM) ==
  /\ mIsDialing' = [mIsDialing EXCEPT ![owner[t]] = ~noSIM]
  /\ mIsHasSIM' = [mIsHasSIM EXCEPT ![owner[t]] = @ /\ ~noSIM]
  /\ UNCHANGED mIsSosSuccess

Call(t) ==
  /\ pc[t] = "call" /\ Go(t, "for") /\ idx' = [idx EXCEPT ![t] = @ + 1]
  /\ \/ Success(t) /\ UNCHANGED <<flags, stopping, intents>>
     \/ /\ ~Success(t) /\ Tries(t, NoAccount(t))
        /\ IF NoAccount(t) THEN StopSelf(t) ELSE UNCHANGED stopping
        /\ intents < MaxIntents /\ intents' = intents + 1
  /\ UNCHANGED <<keyVars, svc, owner, note, phoneVars>>

(* An exception of startCall, before isMultiSim or after it, ends the      *)
(* thread: a name that is null, an activity that may not be started.       *)
CallThrows(t) ==
  /\ pc[t] = "call" /\ ~Success(t) /\ Go(t, "ended") /\ idx' = [idx EXCEPT ![t] = 1]
  /\ StopSelf(t)
  /\ \E noSIM \in {FALSE, NoAccount(t)} : Tries(t, noSIM)
  /\ UNCHANGED <<keyVars, svc, owner, note, intents, phoneVars>>

\* Mistake: a call that is gone counts as being dialled.
BusyStatesAndIdle == {"dialing", "holding", "idle"}

BusyStates == {"dialing", "holding"}

(* updatePhoneSateChange, on the main thread: what counts is the state of  *)
(* the call when the message is handled.                                   *)
Handle(i) ==
  /\ i \in note /\ note' = note \ {i}
  /\ LET state == IF ring THEN "ringing" ELSE fg IN
     /\ mIsSosSuccess' = [mIsSosSuccess EXCEPT ![i] = @ \/ state = "active"]
     /\ mIsDialing' = [mIsDialing EXCEPT ![i] = state \in BusyStates]
  /\ UNCHANGED <<keyVars, svc, stopping, owner, mIsHasSIM, pc, idx, intents, phoneVars>>

-----------------------------------------------------------------------------
(* The telephone.  Every instance ever created in the process is           *)
(* registered; what it is told matters while it has a thread.              *)
Registered == {owner[t] : t \in {u \in Threads : pc[u] \notin {"new", "ended", "dead"}}}

Changed == /\ note' = Registered
           /\ refused' = FALSE
           /\ UNCHANGED <<keyVars, svc, stopping, owner, flags, pc, idx, sim>>

SetUp  == /\ intents > 0 /\ fg = "idle" /\ fg' = "dialing"
          /\ sim \/ \E n \in 1 .. Count : Kind[n] = "emergency"
          /\ intents' = intents - 1 /\ UNCHANGED ring /\ Changed
Answer == fg = "dialing" /\ fg' = "active" /\ UNCHANGED <<ring, intents>> /\ Changed
End    == /\ \/ fg \in {"dialing", "active", "holding"} /\ fg' = "ending"
             \/ fg = "ending" /\ fg' = "idle"
          /\ UNCHANGED <<ring, intents>> /\ Changed
Hold   == /\ \/ fg = "active" /\ fg' = "holding"
             \/ fg = "holding" /\ fg' = "active"
          /\ UNCHANGED <<ring, intents>> /\ Changed
Ring   == /\ sim /\ (ring \/ fg \in Rings) /\ ring' = ~ring /\ UNCHANGED intents
          /\ \/ UNCHANGED fg
             \/ ring /\ fg = "idle" /\ fg' = "active"
          /\ Changed

(* No message tells the service of a call that was never set up.           *)
Refuse == /\ intents > 0 /\ (Refuses \/ ~sim) /\ intents' = intents - 1 /\ refused' = TRUE
          /\ UNCHANGED <<keyVars, svc, stopping, owner, flags, pc, idx, note, fg, ring, sim>>

SosThread(t) == While(t) \/ For(t) \/ Wait(t) \/ Call(t) \/ CallThrows(t)
MainThread   == Destroy \/ CreateThrows \/ (\E t \in Threads : StartCommand(t) \/ Handle(t))
PhoneMoves   == SetUp \/ Refuse \/ End
Phone        == PhoneMoves \/ Answer \/ Hold \/ Ring

Next == PowerKey \/ EndCall \/ MainThread \/ Phone \/ (\E t \in Threads : SosThread(t))

(* Threads run, messages are handled, a service that is told to stop is    *)
(* destroyed, and calls that are asked for are set up, or refused, and     *)
(* end: weak fairness, with what enables an action written out, which TLC  *)
(* evaluates faster.  The user, callers and whoever answers are free.      *)
Runnable(t)  == pc[t] \notin {"new", "ended", "dead"} /\ (pc[t] = "wait" => MayCall(t))
Scheduled(t) == []<>(~Runnable(t)) \/ []<><<SosThread(t)>>_<<pc, idx>>
Handled      == []<>(note = {}) \/ []<><<\E t \in Threads : Handle(t)>>_note
CallsEnd     == []<>(fg = "idle" /\ intents = 0) \/ []<><<PhoneMoves>>_<<fg, intents>>

Spec == /\ Init /\ [][Next]_vars /\ WF_vars(Destroy)
        /\ Handled /\ CallsEnd /\ \A t \in Threads : Scheduled(t)

-----------------------------------------------------------------------------
States == {"new", "while", "for", "wait", "call", "ended", "dead"}

Values ==
  /\ sosProp \in {"0", "1"} /\ svc \in Threads \cup {None}
  /\ owner \in [Threads -> Threads \cup {None}]
  /\ pc \in [Threads -> States] /\ idx \in [Threads -> 1 .. Count + 1]
  /\ note \subseteq Threads /\ endCalled \subseteq Threads /\ intents \in 0 .. MaxIntents
  /\ fg \in Foreground

Flags ==
  /\ starCall \in BOOLEAN /\ givenUp \in BOOLEAN /\ stopping \in BOOLEAN
  /\ ring \in BOOLEAN /\ sim \in BOOLEAN /\ refused \in BOOLEAN
  /\ mIsSosSuccess \in [Threads -> BOOLEAN] /\ mIsDialing \in [Threads -> BOOLEAN]
  /\ mIsHasSIM \in [Threads -> BOOLEAN]

(* Every variable stays within its type: in particular a thread leaves the *)
(* list of numbers at most one past its end.                               *)
TypeOK == Values /\ Flags

(* The property that the key tests keeps two threads off the fields of one *)
(* service, although star_call, stopSelf, end_call and onDestroy are all   *)
(* asynchronous.                                                           *)
OneThreadPerService ==
  \A t, u \in Threads : owner[t] = owner[u] /\ owner[t] # None => t = u

Dialling(t) == pc[t] \notin {"new", "ended", "dead"} /\ ~Success(t)

(* "During sos, calls can go out whether or not dialling is forbidden":    *)
(* the property stays "1" while a thread is dialling, with two exceptions  *)
(* that are the code's own.  An end_call took its service away; or it      *)
(* found no account for a call, and goes through the rest of its list      *)
(* although its service has ended.                                         *)
SosAllowsCalls ==
  \A t \in Threads :
    Dialling(t) => sosProp = "1" \/ owner[t] \in endCalled \/ ~mIsHasSIM[owner[t]]

(* The key is never dead but by a start that the system gave up: without a *)
(* service and without a start under way the property that it tests is     *)
(* "0", unless the last start died in onCreate, which leaves it at "1".    *)
KeyWorksAgain == svc = None /\ ~starCall /\ ~givenUp => sosProp = "0"

(* A success ends the service and its thread wherever that is, the thread  *)
(* of a service already destroyed included.                                *)
SuccessEndsDialling ==
  \A t \in Threads : Success(t) ~> pc[t] \in {"ended", "dead"} /\ svc # owner[t]

(* "to call familyNum util that is success": a thread that waits for its   *)
(* turn calls, or has succeeded, some time; unless calls keep coming in,   *)
(* its own was refused, of which no message tells it, an end_call has let  *)
(* a second thread call, whose calls may always come first, or the process *)
(* died in the start of another service.                                   *)
CallsUntilSuccess ==
  \A t \in Threads :
    pc[t] = "wait" ~> pc[t] \in {"call", "dead"} \/ Success(t) \/ ring \/ refused \/ endCalled # {}
=============================================================================
