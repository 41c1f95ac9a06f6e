--------------------------- MODULE SecureContainer ---------------------------
(***************************************************************************)
(* BirdContainerManagerService: a second user of the phone, made, entered, *)
(* left and destroyed through binder calls, with the parts of              *)
(* UserManagerService and UserController they use.                         *)
(*                                                                         *)
(* A switch is asked for and happens later; a broadcast is sent to who is  *)
(* registered then, and one receiver takes them all.  Broadcasts of one    *)
(* kind that wait together are one, as are registrations for one kind.     *)
(* adb stands for the settings that are kept and closed together: ADB,     *)
(* development settings, Bluetooth.  Left out: location, start screens,    *)
(* lock, mStopContainer (never read), mContainerJustRemoved.               *)
(*                                                                         *)
(* Callers call at any time, and what the service calls may refuse or      *)
(* throw, which it swallows: slips remembers the ways known to go wrong.   *)
(***************************************************************************)
EXTENDS Integers

CONSTANTS
  MAX_ATTEMPT_COUNT, \* 20
  MaxReboots         \* bound

ASSUME ContainerConstants == MAX_ATTEMPT_COUNT \in Nat \ {0} /\ MaxReboots \in Nat

VARIABLES
  current, target, \* mCurrentUserId, mTargetUserId: "owner", "secure"; "none"
  starting,        \* START_USER_SWITCH_UI_MSG is under way
  user,            \* "absent", "present", "stopping", "stopped"; "aborted": its
                   \* removal got stuck, it is purged at the next start
  running,         \* in mStartedUsers
  removing,        \* in mRemovingUserIds, or left half-made: not made anew
  filters, pending, \* what the receiver is registered for; what it has yet to get
  adb,
  saved, times,    \* the database: KEY_RESTORE_ADB, KEY_REMAINING_TIMES
  mDelContainer, mRemoving,
  wanted,          \* ghost: the values of adb the owner may find outside
  slips,           \* ghost, since the last start: "closed": the settings were
                   \* closed but nobody entered; "again": entering was asked
                   \* for during a visit or a removal; "deaf": the receiver
                   \* was unregistered while it was waited for; "refused":
                   \* removeUser failed; "inside": destroyed, yet not left
  reboots

switch == <<current, target, starting>>
secure == <<user, running, removing>>
news   == <<filters, pending>>
data   == <<adb, saved, times, wanted>>
flags  == <<mDelContainer, mRemoving>>
vars   == <<switch, secure, news, data, flags, slips, reboots>>

Kinds == {"added", "switched", "removed"}

Init ==
  /\ current = "owner" /\ target = "none" /\ starting = FALSE
  /\ user \in {"absent", "present"} /\ running = FALSE /\ removing = FALSE
  /\ filters = {} /\ pending = {}
  /\ adb \in BOOLEAN /\ wanted = {adb} /\ saved = FALSE /\ times = MAX_ATTEMPT_COUNT
  /\ mDelContainer = FALSE /\ mRemoving = FALSE /\ slips = {} /\ reboots = 0

Rest  == ~starting /\ pending = {}

(* The owner's settings are still to be restored; a removal is to come.    *)
Visit   == current = "secure" \/ starting \/ "switched" \in pending
Leaving == mDelContainer \/ user \in {"stopping", "stopped"}

Chosen     == IF target = "none" THEN current ELSE target
Deliver(k) == pending' = pending \cup ({k} \cap filters)

-----------------------------------------------------------------------------
(* UserManagerService.removeUser refuses the user that is current or       *)
(* chosen, or what is restricted, and may fail on its way; mRemoving is    *)
(* set before.                                                             *)
removeDefaultSecurityUser ==
  IF user = "absent" THEN UNCHANGED <<user, removing, mRemoving, slips>>
  ELSE /\ mRemoving' = TRUE
       /\ \/ /\ Chosen # "secure" /\ ~removing
             /\ user' = "stopping" /\ removing' = TRUE /\ UNCHANGED slips
          \/ /\ slips' = slips \cup {"refused"}
             /\ \/ UNCHANGED <<user, removing>>
                \/ ~removing /\ user' = "aborted" /\ removing' = TRUE

(* The number of the user is fixed, and not given twice before a reboot;   *)
(* createUser may fail, also half-way.                                     *)
addDefaultSecurityUser ==
  /\ user = "absent"
  /\ filters' = filters \cup {"added"}
  /\ \/ ~removing /\ user' = "present" /\ pending' = pending \cup {"added"} /\ UNCHANGED removing
     \/ removing' \in {removing, TRUE} /\ UNCHANGED <<user, pending>>
  /\ UNCHANGED <<switch, running, data, flags, slips, reboots>>

\* Mistake: the settings are kept after they were closed.
StoredClosed == FALSE

Stored == adb

(* An exception is caught, and the answer of switchUser not looked at.     *)
switchToSecurityContainer ==
  /\ current # "secure" /\ user # "absent"
  /\ filters' = filters \cup {"switched"}
  /\ LET early == IF Visit \/ Leaving THEN {"again"} ELSE {} IN
     \/ /\ saved' = Stored /\ adb' = FALSE /\ slips' = slips \cup early
        /\ target' = "secure" /\ starting' = TRUE
     \/ /\ saved' = Stored /\ adb' = FALSE /\ slips' = slips \cup early \cup {"closed"}
        /\ UNCHANGED <<target, starting>>
     \/ /\ saved' \in {saved, Stored} /\ slips' = slips \cup early
        /\ UNCHANGED <<adb, target, starting>>
  /\ UNCHANGED <<current, secure, pending, times, wanted, flags, reboots>>

(* The end of a visit, to be asked for once more when it fails.            *)
SwitchToZERO(slip) ==
  \/ target' = "owner" /\ starting' = TRUE /\ UNCHANGED slips
  \/ slips' = slips \cup slip /\ UNCHANGED <<target, starting>>

switchToZEROUserContainer ==
  /\ current # "owner" /\ SwitchToZERO({})
  /\ UNCHANGED <<current, secure, news, data, flags, reboots>>

\* Mistake: nobody listens for the end of the removal.
NotHeard == filters

Heard == filters \cup {"removed"}

(* Inside, the removal waits for the switch; the database is cleared, with *)
(* the settings to restore.                                                *)
destroyContainer ==
  /\ saved' = FALSE /\ times' = MAX_ATTEMPT_COUNT /\ wanted' = IF Visit THEN BOOLEAN ELSE wanted
  /\ IF current = "secure"
     THEN /\ mDelContainer' = TRUE /\ filters' = Heard \cup {"switched"} /\ SwitchToZERO({"inside"})
          /\ UNCHANGED <<user, removing, mRemoving>>
     ELSE /\ filters' = Heard /\ removeDefaultSecurityUser
          /\ UNCHANGED <<mDelContainer, target, starting>>
  /\ UNCHANGED <<current, running, pending, adb, reboots>>

(* Outside, a running user that is not being removed is stopped.           *)
stopContainer ==
  /\ \/ current = "secure" /\ filters' = filters \cup {"switched"} /\ SwitchToZERO({}) /\ UNCHANGED running
     \/ /\ current # "secure" /\ running' = (running /\ (Chosen = "secure" \/ user = "stopping"))
        /\ UNCHANGED <<filters, target, starting, slips>>
  /\ UNCHANGED <<current, user, removing, pending, data, flags, reboots>>

OutOfAttempts == times - 1 = 0

reportFailedPasswordAttempt ==
  /\ current = "secure"
  /\ IF OutOfAttempts THEN destroyContainer
     ELSE times' = times - 1 /\ UNCHANGED <<switch, secure, news, adb, saved, wanted, flags, slips, reboots>>

reportSuccessfulPasswordAttempt ==
  /\ current = "secure" /\ times' = MAX_ATTEMPT_COUNT
  /\ UNCHANGED <<switch, secure, news, adb, saved, wanted, flags, slips, reboots>>

(* The settings, by hand, on either side; between the two sides the old    *)
(* ones may win.                                                           *)
Set ==
  /\ adb' = ~adb
  /\ wanted' = IF current = "secure" THEN wanted ELSE IF Visit THEN BOOLEAN ELSE {~adb}
  /\ UNCHANGED <<switch, secure, news, saved, times, flags, slips, reboots>>

-----------------------------------------------------------------------------
(* startUser: a user that stops is brought back, and then not removed.     *)
Start ==
  /\ starting /\ starting' = FALSE
  /\ IF target = "secure" /\ user = "absent" THEN UNCHANGED <<current, target, user, running, pending>>
     ELSE /\ current' = target /\ target' = "none" /\ Deliver("switched")
          /\ IF target = "secure"
             THEN /\ running' = (running \/ user # "stopping")
                  /\ user' = IF running /\ user = "stopping" THEN "aborted" ELSE user
             ELSE UNCHANGED <<user, running>>
  /\ UNCHANGED <<removing, filters, data, flags, slips, reboots>>

Stopped ==
  /\ user = "stopping" /\ user' = "stopped" /\ Deliver("removed")
  /\ UNCHANGED <<switch, running, removing, filters, data, flags, slips, reboots>>

(* USER_REMOVED is ordered: the state goes after its last receiver.        *)
removeUserState ==
  /\ user = "stopped" /\ "removed" \notin pending /\ user' = "absent"
  /\ UNCHANGED <<switch, running, removing, news, data, flags, slips, reboots>>

\* Mistake: the flag is cleared before it is looked at.
Forgotten == UNCHANGED <<user, removing, mRemoving, slips>>

RemoveOnLeaving == IF mDelContainer THEN removeDefaultSecurityUser
                   ELSE UNCHANGED <<user, removing, mRemoving, slips>>

UserSwitched ==
  /\ "switched" \in pending /\ pending' = pending \ {"switched"}
  /\ IF current = "secure" THEN UNCHANGED <<user, removing, mRemoving, mDelContainer, adb, slips>>
     ELSE RemoveOnLeaving /\ mDelContainer' = FALSE /\ adb' = saved
  /\ UNCHANGED <<switch, running, filters, saved, times, wanted, reboots>>

(* unregisterReceiver takes every registration, and what it had yet to get.*)
unregisterReceiver(awaited) ==
  /\ filters' = {} /\ pending' = {}
  /\ slips' = IF awaited THEN slips \cup {"deaf"} ELSE slips

UserRemoved ==
  /\ "removed" \in pending /\ unregisterReceiver(Visit \/ mDelContainer)
  /\ mRemoving' = FALSE
  /\ UNCHANGED <<switch, secure, data, mDelContainer, reboots>>

UserAdded ==
  /\ "added" \in pending /\ unregisterReceiver(Visit \/ Leaving)
  /\ times' = MAX_ATTEMPT_COUNT
  /\ UNCHANGED <<switch, secure, adb, saved, wanted, flags, reboots>>

(* What was being removed is purged at the next start.                     *)
Reboot ==
  /\ reboots < MaxReboots /\ reboots' = reboots + 1
  /\ current' = "owner" /\ target' = "none" /\ starting' = FALSE
  /\ user' = IF user = "present" THEN "present" ELSE "absent"
  /\ running' = FALSE /\ removing' = FALSE /\ filters' = {} /\ pending' = {}
  /\ mDelContainer' = FALSE /\ mRemoving' = FALSE
  /\ slips' = {} /\ wanted' = IF Visit \/ slips # {} THEN BOOLEAN ELSE wanted
  /\ UNCHANGED <<adb, saved, times>>

Call ==
  \/ addDefaultSecurityUser \/ switchToSecurityContainer \/ switchToZEROUserContainer
  \/ destroyContainer \/ stopContainer
  \/ reportFailedPasswordAttempt \/ reportSuccessfulPasswordAttempt

Receiver == UserSwitched \/ UserRemoved \/ UserAdded
Android  == Start \/ Stopped \/ removeUserState

Next == Call \/ Set \/ Android \/ Receiver \/ Reboot

Spec     == Init /\ [][Next]_vars
FairSpec == /\ Spec /\ WF_vars(Start) /\ WF_vars(Stopped) /\ WF_vars(removeUserState)
            /\ WF_vars(UserSwitched) /\ WF_vars(UserRemoved) /\ WF_vars(UserAdded)

-----------------------------------------------------------------------------
(* Types; in particular an attempt is left as long as there is a container.*)
TypeOK ==
  /\ current \in {"owner", "secure"} /\ target \in {"owner", "secure", "none"}
  /\ starting \in BOOLEAN /\ running \in BOOLEAN /\ removing \in BOOLEAN
  /\ user \in {"absent", "present", "stopping", "aborted", "stopped"}
  /\ filters \in SUBSET Kinds /\ pending \in SUBSET Kinds
  /\ adb \in BOOLEAN /\ saved \in BOOLEAN /\ wanted \in SUBSET BOOLEAN
  /\ times \in 1 .. MAX_ATTEMPT_COUNT /\ slips \in SUBSET {"closed", "again", "deaf", "refused", "inside"}
  /\ mDelContainer \in BOOLEAN /\ mRemoving \in BOOLEAN /\ reboots \in 0 .. MaxReboots

(* After a visit the owner finds the settings as he left them, whatever    *)
(* was set inside, stopped, or made and removed in between.  Lost are only *)
(* those of a visit that ends by destroying or by a reboot, of an entry    *)
(* that fails half-way or is asked for too early, and of a receiver that   *)
(* was unregistered.                                                       *)
Restored ==
  Rest /\ current = "owner" /\ slips \cap {"closed", "again", "deaf"} = {} => adb \in wanted

(* mRemoving, which isUserRemoving() tells the user interface, is on as    *)
(* long as the removal goes on and its end has not been heard of.  It is   *)
(* on without one only when the removal was refused, got stuck, or its end *)
(* was missed.                                                             *)
RemovingTold ==
  LET goes == user = "stopping" \/ "removed" \in pending IN
  (goes => mRemoving) /\ (mRemoving => goes \/ slips \cap {"again", "deaf", "refused"} # {})

(* A container that was destroyed, from inside too, is removed in the end, *)
(* whatever is called meanwhile, unless the phone starts anew before the   *)
(* switch that removes it, the switch or the removal fails, it is entered  *)
(* anew, or the receiver is unregistered.                                  *)
DestroyEnds ==
  reboots = MaxReboots /\ (mDelContainer \/ user = "stopping") ~> user = "absent" \/ slips \ {"closed"} # {}
=============================================================================
