------------------------ MODULE SecureContainerProofs ------------------------
(***************************************************************************)
(* Theorems about SecureContainer, for calls at any time, failures and any *)
(* number of reboots: types, what the user interface is told of a removal, *)
(* that the owner's settings come back, and that a removal is not turned   *)
(* back.                                                                   *)
(***************************************************************************)
EXTENDS SecureContainer, TLAPS

Flags ==
  /\ starting \in BOOLEAN /\ running \in BOOLEAN /\ removing \in BOOLEAN
  /\ adb \in BOOLEAN /\ saved \in BOOLEAN /\ mDelContainer \in BOOLEAN /\ mRemoving \in BOOLEAN

Values ==
  /\ current \in {"owner", "secure"} /\ target \in {"owner", "secure", "none"}
  /\ user \in {"absent", "present", "stopping", "aborted", "stopped"}
  /\ (starting => target # "none")
  /\ times \in 1 .. MAX_ATTEMPT_COUNT /\ reboots \in 0 .. MaxReboots

LEMMA FlagsInductive == Spec => []Flags
<1> USE DEF Flags
<1>1. Init => Flags
  BY DEF Init
<1>2. Flags /\ [Next]_vars => Flags'
  <2> SUFFICES ASSUME Flags, [Next]_vars PROVE Flags'
    OBVIOUS
  <2>1. CASE Call
    BY <2>1, Zenon DEF Call, addDefaultSecurityUser, switchToSecurityContainer, switchToZEROUserContainer,
       destroyContainer, SwitchToZERO, stopContainer, reportFailedPasswordAttempt, reportSuccessfulPasswordAttempt,
       removeDefaultSecurityUser, Stored, switch, secure, news, data, flags
  <2>2. CASE Set \/ Android
    BY <2>2, Zenon DEF Set, Android, Start, Stopped, removeUserState, switch, secure, news, data, flags
  <2>3. CASE Receiver \/ Reboot
    BY <2>3, Zenon DEF Receiver, UserSwitched, UserRemoved, UserAdded, unregisterReceiver, Reboot, RemoveOnLeaving,
       removeDefaultSecurityUser, switch, secure, news, data, flags
  <2>4. CASE UNCHANGED vars
    BY <2>4 DEF vars, switch, secure, news, data, flags
  <2> QED
    BY <2>1, <2>2, <2>3, <2>4 DEF Next
<1> QED
  BY <1>1, <1>2, PTL DEF Spec

LEMMA ValuesInductive == Spec => []Values
<1> USE ContainerConstants DEF Values, Kinds
<1>1. Init => Values
  BY DEF Init
<1>2. Values /\ [Next]_vars => Values'
  <2> SUFFICES ASSUME Values, [Next]_vars PROVE Values'
    OBVIOUS
  <2> USE DEF switch, secure, news, data, flags
  <2>1. CASE addDefaultSecurityUser \/ switchToSecurityContainer \/ switchToZEROUserContainer
    <3>1. CASE addDefaultSecurityUser
      BY <3>1 DEF addDefaultSecurityUser
    <3>2. CASE switchToSecurityContainer
      BY <3>2 DEF switchToSecurityContainer
    <3>3. CASE switchToZEROUserContainer
      BY <3>3 DEF switchToZEROUserContainer, SwitchToZERO
    <3> QED
      BY <2>1, <3>1, <3>2, <3>3
  <2>2. CASE destroyContainer
    BY <2>2 DEF destroyContainer, SwitchToZERO, removeDefaultSecurityUser
  <2>3. CASE stopContainer
    BY <2>3 DEF stopContainer, SwitchToZERO
  <2>4. CASE reportFailedPasswordAttempt \/ reportSuccessfulPasswordAttempt
    BY <2>2, <2>4 DEF reportFailedPasswordAttempt, OutOfAttempts, reportSuccessfulPasswordAttempt
  <2>5. CASE Set \/ Android
    BY <2>5 DEF Set, Android, Start, Stopped, removeUserState, Deliver
  <2>6. CASE Receiver
    BY <2>6 DEF Receiver, UserSwitched, UserRemoved, UserAdded, RemoveOnLeaving, removeDefaultSecurityUser
  <2>7. CASE Reboot
    BY <2>7 DEF Reboot
  <2>8. CASE UNCHANGED vars
    BY <2>8 DEF vars
  <2> QED
    BY <2>1, <2>2, <2>3, <2>4, <2>5, <2>6, <2>7, <2>8 DEF Next, Call
<1> QED
  BY <1>1, <1>2, PTL DEF Spec

Slips == {"closed", "again", "deaf", "refused", "inside"}

Sets == /\ filters \in SUBSET Kinds /\ pending \in SUBSET Kinds /\ wanted \in SUBSET BOOLEAN
        /\ slips \in SUBSET Slips

LEMMA SetsInductive == Spec => []Sets
<1> USE DEF Sets
<1>1. Init => Sets
  BY DEF Init
<1>2. Sets /\ Flags /\ [Next]_vars => Sets'
  <2> SUFFICES ASSUME Sets, Flags, [Next]_vars PROVE Sets'
    OBVIOUS
  <2> USE DEF switch, secure, news, data, flags
  <2>1. {"added", "switched", "removed"} \subseteq Kinds
    BY DEF Kinds
  <2>2. CASE Call
    <3>1. \/ filters' = filters \/ \E k \in {"added", "switched", "removed"} : filters' = filters \cup {k}
          \/ filters' = (filters \cup {"removed"}) \cup {"switched"}
      BY <2>2, Zenon DEF Call, addDefaultSecurityUser, switchToSecurityContainer, switchToZEROUserContainer,
         destroyContainer, Heard, stopContainer, reportFailedPasswordAttempt,
         reportSuccessfulPasswordAttempt
    <3>2. pending' = pending \/ pending' = pending \cup {"added"}
      BY <2>2, Zenon DEF Call, addDefaultSecurityUser, switchToSecurityContainer, switchToZEROUserContainer,
         destroyContainer, stopContainer, reportFailedPasswordAttempt, reportSuccessfulPasswordAttempt
    <3>3. wanted' = wanted \/ wanted' = BOOLEAN
      BY <2>2, Zenon DEF Call, addDefaultSecurityUser, switchToSecurityContainer, switchToZEROUserContainer,
         destroyContainer, stopContainer, reportFailedPasswordAttempt, reportSuccessfulPasswordAttempt
    <3>4. slips' \subseteq slips \cup Slips
      <4>1. CASE addDefaultSecurityUser \/ reportSuccessfulPasswordAttempt
        BY <4>1 DEF addDefaultSecurityUser, reportSuccessfulPasswordAttempt
      <4>2. CASE switchToSecurityContainer
        BY <4>2 DEF switchToSecurityContainer, Slips
      <4>3. CASE switchToZEROUserContainer \/ stopContainer
        BY <4>3 DEF switchToZEROUserContainer, stopContainer, SwitchToZERO
      <4>4. CASE destroyContainer
        BY <4>4 DEF destroyContainer, SwitchToZERO, removeDefaultSecurityUser, Slips
      <4>5. CASE reportFailedPasswordAttempt
        BY <4>4, <4>5 DEF reportFailedPasswordAttempt
      <4> QED
        BY <2>2, <4>1, <4>2, <4>3, <4>4, <4>5 DEF Call
    <3> QED
      BY <2>1, <3>1, <3>2, <3>3, <3>4
  <2>3. CASE Set
    <3>1. wanted' = wanted \/ wanted' = BOOLEAN \/ wanted' = {~adb}
      BY <2>3, Zenon DEF Set
    <3>2. UNCHANGED <<filters, pending, slips>>
      BY <2>3 DEF Set
    <3>3. \A b \in BOOLEAN : {~b} \in SUBSET BOOLEAN
      OBVIOUS
    <3>4. wanted' \in SUBSET BOOLEAN
      BY <3>1, <3>3, Zenon DEF Flags
    <3> QED
      BY <3>2, <3>4
  <2>4. CASE Android
    <3>1. filters' = filters /\ wanted' = wanted /\ slips' = slips
      BY <2>4, Zenon DEF Android, Start, Stopped, removeUserState
    <3>2. pending' = pending \/ \E k : pending' = pending \cup ({k} \cap filters)
      BY <2>4, Zenon DEF Android, Start, Stopped, removeUserState, Deliver
    <3> QED
      BY <3>1, <3>2
  <2>5. CASE Receiver \/ Reboot
    <3>1. filters' = filters \/ filters' = {}
      BY <2>5, Zenon DEF Receiver, UserSwitched, UserRemoved, UserAdded, unregisterReceiver, Reboot
    <3>2. pending' = {} \/ pending' = pending \ {"switched"}
      BY <2>5, Zenon DEF Receiver, UserSwitched, UserRemoved, UserAdded, unregisterReceiver, Reboot
    <3>3. wanted' = wanted \/ wanted' = BOOLEAN
      BY <2>5, Zenon DEF Receiver, UserSwitched, UserRemoved, UserAdded, Reboot
    <3>4. slips' \in {slips, slips \cup {"deaf"}, slips \cup {"refused"}, {}}
      BY <2>5, Zenon DEF Receiver, UserSwitched, RemoveOnLeaving, removeDefaultSecurityUser, UserRemoved, UserAdded,
         unregisterReceiver, Reboot
    <3> QED
      BY <3>1, <3>2, <3>3, <3>4 DEF Slips
  <2>6. CASE UNCHANGED vars
    BY <2>6 DEF vars
  <2> QED
    BY <2>2, <2>3, <2>4, <2>5, <2>6 DEF Next
<1> QED
  BY <1>1, <1>2, FlagsInductive, PTL DEF Spec

(* Type correctness, for callers of any patience: in particular an attempt *)
(* is left whenever one can be made.                                       *)
THEOREM TypeCorrect == Spec => []TypeOK
<1>1. Flags /\ Values /\ Sets => TypeOK
  BY DEF Flags, Values, Sets, Slips, TypeOK
<1> QED
  BY <1>1, FlagsInductive, ValuesInductive, SetsInductive, PTL

-----------------------------------------------------------------------------
(* Where a removal is, and that it is heard of unless something slipped.   *)
RemovalInv ==
  /\ user \in {"stopping", "stopped", "aborted"} => removing
  /\ user = "stopping" => mRemoving
  /\ "removed" \in pending => user = "stopped" /\ mRemoving
  /\ target = "secure" /\ user \notin {"present", "aborted"} => "again" \in slips
  /\ mDelContainer \/ user = "stopping" => "removed" \in filters \/ "deaf" \in slips
  /\ RemovingTold

LEMMA RemovalInductive == Spec => []RemovalInv
<1> USE DEF RemovalInv, RemovingTold
<1>1. Init => RemovalInv
  BY DEF Init
<1>2. Flags /\ Values /\ RemovalInv /\ [Next]_vars => RemovalInv'
  <2> SUFFICES ASSUME Flags, Values, RemovalInv, [Next]_vars PROVE RemovalInv'
    OBVIOUS
  <2> USE DEF Flags, Values, switch, secure, news, data, flags
  <2>1. CASE addDefaultSecurityUser
    BY <2>1 DEF addDefaultSecurityUser
  <2>2. CASE switchToSecurityContainer
    BY <2>2 DEF switchToSecurityContainer, Leaving
  <2>3. CASE switchToZEROUserContainer \/ stopContainer
    BY <2>3 DEF switchToZEROUserContainer, stopContainer, SwitchToZERO
  <2>4. CASE destroyContainer
    BY <2>4 DEF destroyContainer, SwitchToZERO, removeDefaultSecurityUser, Heard, Chosen
  <2>5. CASE reportFailedPasswordAttempt \/ reportSuccessfulPasswordAttempt \/ Set
    BY <2>4, <2>5 DEF reportFailedPasswordAttempt, reportSuccessfulPasswordAttempt, Set
  <2>6. CASE Start
    BY <2>6 DEF Start, Deliver
  <2>7. CASE Stopped \/ removeUserState
    BY <2>7 DEF Stopped, removeUserState, Deliver
  <2>8. CASE UserSwitched
    BY <2>8 DEF UserSwitched, RemoveOnLeaving, removeDefaultSecurityUser, Chosen
  <2>9. CASE UserRemoved
    BY <2>9 DEF UserRemoved, unregisterReceiver
  <2>10. CASE UserAdded
    BY <2>10 DEF UserAdded, unregisterReceiver, Leaving
  <2>11. CASE Reboot
    BY <2>11 DEF Reboot
  <2>12. CASE UNCHANGED vars
    BY <2>12 DEF vars
  <2> QED
    BY <2>1, <2>2, <2>3, <2>4, <2>5, <2>6, <2>7, <2>8, <2>9, <2>10, <2>11, <2>12 DEF Next, Call, Android, Receiver
<1> QED
  BY <1>1, <1>2, FlagsInductive, ValuesInductive, PTL DEF Spec

(* isUserRemoving() is true as long as a removal goes on whose end has not *)
(* been heard of, and true for nothing else unless something slipped.      *)
THEOREM RemovalIsTold == Spec => []RemovingTold
<1>1. RemovalInv => RemovingTold
  BY DEF RemovalInv
<1> QED
  BY <1>1, RemovalInductive, PTL

-----------------------------------------------------------------------------
(* During a visit the database holds what the owner may find, and the end  *)
(* of the visit is listened for; else the settings are right as they are.  *)
Kept ==
  slips \cap {"closed", "again", "deaf"} = {} =>
    IF Visit
    THEN /\ saved \in wanted
         /\ starting \/ current = "secure" => "switched" \in filters
         /\ "switched" \in pending /\ current = "owner" => ~starting
    ELSE adb \in wanted

(* The owner finds his settings again after any number of visits, removals *)
(* and reboots, unless something slipped.                                  *)
THEOREM SettingsComeBack == Spec => []Restored
<1> USE DEF Kept, Visit
<1>1. Init => Kept
  BY DEF Init
<1>2. Flags /\ Values /\ RemovalInv /\ Kept /\ [Next]_vars => Kept'
  <2> SUFFICES ASSUME Flags, Values, RemovalInv, Kept, [Next]_vars PROVE Kept'
    OBVIOUS
  <2> USE DEF Flags, Values, RemovalInv, switch, secure, news, data, flags
  <2>1. CASE addDefaultSecurityUser
    BY <2>1 DEF addDefaultSecurityUser
  <2>2. CASE switchToSecurityContainer
    BY <2>2 DEF switchToSecurityContainer, Stored
  <2>3. CASE switchToZEROUserContainer \/ stopContainer
    BY <2>3 DEF switchToZEROUserContainer, stopContainer, SwitchToZERO
  <2>4. CASE destroyContainer
    BY <2>4 DEF destroyContainer, SwitchToZERO, removeDefaultSecurityUser, Heard
  <2>5. CASE reportFailedPasswordAttempt \/ reportSuccessfulPasswordAttempt
    BY <2>4, <2>5 DEF reportFailedPasswordAttempt, reportSuccessfulPasswordAttempt
  <2>6. CASE Set
    BY <2>6 DEF Set
  <2>7. CASE Start
    BY <2>7 DEF Start, Deliver
  <2>8. CASE Stopped \/ removeUserState
    BY <2>8 DEF Stopped, removeUserState, Deliver
  <2>9. CASE UserSwitched
    BY <2>9 DEF UserSwitched, RemoveOnLeaving, removeDefaultSecurityUser
  <2>10. CASE UserRemoved \/ UserAdded
    BY <2>10 DEF UserRemoved, UserAdded, unregisterReceiver
  <2>11. CASE Reboot
    BY <2>11 DEF Reboot
  <2>12. CASE UNCHANGED vars
    BY <2>12 DEF vars
  <2> QED
    BY <2>1, <2>2, <2>3, <2>4, <2>5, <2>6, <2>7, <2>8, <2>9, <2>10, <2>11, <2>12 DEF Next, Call, Android, Receiver
<1>3. Values /\ Kept => Restored
  BY DEF Values, Restored, Rest
<1> QED
  BY <1>1, <1>2, <1>3, FlagsInductive, ValuesInductive, RemovalInductive, PTL DEF Spec

-----------------------------------------------------------------------------
(* What a removal has still to go through: the switch that leaves the      *)
(* container and the news of it, the stop of the user, the news of that,   *)
(* and the end of the user's state.                                        *)
RemovalLeft ==
  CASE mDelContainer /\ starting -> 5
    [] mDelContainer /\ ~starting -> 4
    [] ~mDelContainer /\ user = "stopping" -> 3
    [] ~mDelContainer /\ user = "stopped" /\ "removed" \in pending -> 2
    [] ~mDelContainer /\ user = "stopped" /\ "removed" \notin pending -> 1
    [] OTHER -> 0

Unslipped == slips \subseteq {"closed"}

(* What an unslipped removal from inside is waiting for.                   *)
OnItsWay ==
  Unslipped =>
    /\ current = "secure" => user \in {"present", "aborted"}
    /\ mDelContainer => IF current = "secure" THEN starting /\ target = "owner" /\ "switched" \in filters
                        ELSE ~starting /\ "switched" \in pending

Removing ==
  RemovalLeft > 0 /\ Unslipped' /\ reboots' = reboots =>
    RemovalLeft' <= RemovalLeft /\ (RemovalLeft' = 0 => user' = "absent")

LEMMA StillOnItsWay ==
  ASSUME OnItsWay, UNCHANGED <<current, user, slips, mDelContainer, starting, target, filters, pending>>
  PROVE  OnItsWay'
BY Zenon DEF OnItsWay, Unslipped

LEMMA OnItsWayInductive == Spec => []OnItsWay
<1> USE DEF OnItsWay, Unslipped
<1>1. Init => OnItsWay
  BY DEF Init
<1>2. Flags /\ Values /\ RemovalInv /\ OnItsWay /\ [Next]_vars => OnItsWay'
  <2> SUFFICES ASSUME Flags, Values, RemovalInv, OnItsWay, [Next]_vars PROVE OnItsWay'
    OBVIOUS
  <2> USE DEF Flags, Values, RemovalInv, switch, secure, news, data, flags
  <2>1. CASE addDefaultSecurityUser
    BY <2>1 DEF addDefaultSecurityUser
  <2>2. CASE switchToSecurityContainer
    BY <2>2 DEF switchToSecurityContainer, Leaving
  <2>3. CASE switchToZEROUserContainer \/ stopContainer
    <3>1. CASE switchToZEROUserContainer
      <4>1. /\ current # "owner" /\ slips' = slips /\ UNCHANGED <<current, user, mDelContainer, filters, pending>>
            /\ (target' = "owner" /\ starting') \/ UNCHANGED <<target, starting>>
        BY <3>1 DEF switchToZEROUserContainer, SwitchToZERO
      <4>2. CASE target' = "owner" /\ starting'
        BY <4>1, <4>2
      <4> QED
        BY <4>1, <4>2, StillOnItsWay
    <3>2. CASE stopContainer /\ current = "secure"
      BY <3>2 DEF stopContainer, SwitchToZERO
    <3>3. CASE stopContainer /\ current # "secure"
      <4>1. UNCHANGED <<current, user, slips, mDelContainer, starting, target, filters, pending>>
        BY <3>3, Zenon DEF stopContainer
      <4> QED
        BY <4>1, StillOnItsWay
    <3> QED
      BY <2>3, <3>1, <3>2, <3>3
  <2>4. CASE destroyContainer
    BY <2>4 DEF destroyContainer, SwitchToZERO, removeDefaultSecurityUser, Heard
  <2>5. CASE reportFailedPasswordAttempt \/ reportSuccessfulPasswordAttempt \/ Set
    <3>1. UNCHANGED <<current, user, slips, mDelContainer, starting, target, filters, pending>> \/ destroyContainer
      BY <2>5 DEF reportFailedPasswordAttempt, reportSuccessfulPasswordAttempt, Set
    <3> QED
      BY <2>4, <3>1, StillOnItsWay
  <2>6. CASE Start
    BY <2>6 DEF Start, Deliver
  <2>7. CASE Stopped \/ removeUserState
    <3>1. UNCHANGED <<current, slips, mDelContainer, starting, target, filters>> /\ pending \subseteq pending'
      BY <2>7 DEF Stopped, removeUserState, Deliver
    <3>2. user \in {"stopping", "stopped"}
      BY <2>7 DEF Stopped, removeUserState
    <3> QED
      BY <3>1, <3>2
  <2>8. CASE UserSwitched
    BY <2>8 DEF UserSwitched, RemoveOnLeaving, removeDefaultSecurityUser
  <2>9. CASE UserRemoved \/ UserAdded
    BY <2>9 DEF UserRemoved, UserAdded, unregisterReceiver, Visit, Leaving
  <2>10. CASE Reboot
    BY <2>10 DEF Reboot
  <2>11. CASE UNCHANGED vars
    BY <2>11 DEF vars
  <2> QED
    BY <2>1, <2>2, <2>3, <2>4, <2>5, <2>6, <2>7, <2>8, <2>9, <2>10, <2>11 DEF Next, Call, Android, Receiver
<1> QED
  BY <1>1, <1>2, FlagsInductive, ValuesInductive, RemovalInductive, PTL DEF Spec

(* A container that was destroyed, from inside or from outside, is on its  *)
(* way out: whatever is called, no step leads it back, and the way ends    *)
(* only where the user is gone; slips and reboots apart.                   *)
THEOREM RemovalGoesOn == Spec => [][Removing]_vars
<1>1. Flags /\ Values /\ RemovalInv /\ OnItsWay /\ [Next]_vars => [Removing]_vars
  <2> SUFFICES ASSUME Flags, Values, RemovalInv, OnItsWay, Next, RemovalLeft > 0, Unslipped', reboots' = reboots
               PROVE  RemovalLeft' <= RemovalLeft /\ (RemovalLeft' = 0 => user' = "absent")
    BY DEF Removing
  <2> USE DEF Flags, Values, RemovalInv, OnItsWay, Unslipped, switch, secure, news, data, flags
  <2>1. mDelContainer \/ user \in {"stopping", "stopped"}
    BY DEF RemovalLeft
  <2>2. CASE addDefaultSecurityUser \/ Set \/ reportSuccessfulPasswordAttempt
    <3>1. CASE addDefaultSecurityUser
      <4>1. mDelContainer /\ UNCHANGED <<mDelContainer, starting>>
        BY <2>1, <3>1 DEF addDefaultSecurityUser
      <4> QED
        BY <4>1 DEF RemovalLeft
    <3>2. CASE Set \/ reportSuccessfulPasswordAttempt
      <4>1. UNCHANGED <<mDelContainer, starting, user, pending>>
        BY <3>2 DEF Set, reportSuccessfulPasswordAttempt
      <4> QED
        BY <4>1 DEF RemovalLeft
    <3> QED
      BY <2>2, <3>1, <3>2
  <2>3. CASE switchToSecurityContainer
    BY <2>1, <2>3 DEF switchToSecurityContainer, Leaving
  <2>4. CASE switchToZEROUserContainer \/ stopContainer
    BY <2>1, <2>4 DEF switchToZEROUserContainer, stopContainer, SwitchToZERO, RemovalLeft
  <2>5. CASE destroyContainer
    BY <2>1, <2>5 DEF destroyContainer, SwitchToZERO, removeDefaultSecurityUser, RemovalLeft
  <2>6. CASE reportFailedPasswordAttempt
    BY <2>1, <2>5, <2>6 DEF reportFailedPasswordAttempt, RemovalLeft
  <2>7. CASE Start
    BY <2>1, <2>7 DEF Start, Deliver, RemovalLeft
  <2>8. CASE Stopped \/ removeUserState
    BY <2>1, <2>8 DEF Stopped, removeUserState, Deliver, RemovalLeft
  <2>9. CASE UserSwitched
    BY <2>1, <2>9 DEF UserSwitched, RemoveOnLeaving, removeDefaultSecurityUser, RemovalLeft
  <2>10. CASE UserRemoved \/ UserAdded
    BY <2>1, <2>10 DEF UserRemoved, UserAdded, unregisterReceiver, Visit, Leaving, RemovalLeft
  <2>11. ~Reboot
    BY DEF Reboot
  <2> QED
    BY <2>2, <2>3, <2>4, <2>5, <2>6, <2>7, <2>8, <2>9, <2>10, <2>11 DEF Next, Call, Android, Receiver
<1> QED
  BY <1>1, FlagsInductive, ValuesInductive, RemovalInductive, OnItsWayInductive, PTL DEF Spec
=============================================================================
