----------------------------- MODULE RebootTest -----------------------------
(***************************************************************************)
(* The reboot endurance test (RebootTestActivity, BootBroadcastReceiver    *)
(* and the start button of OptionsActivity): the phone reboots itself      *)
(* testCount times and keeps the count in its preferences.  Both           *)
(* activities are singleTask and share a task; an activity that Android    *)
(* destroys leaves its delayed message in the looper.                      *)
(***************************************************************************)
EXTENDS Integers

CONSTANTS
  MaxCount,    \* bound: largest testCount the user types (100 in the code)
  MaxActs,     \* bound: what the user does
  MaxCrashes   \* bound: power failures

ASSUME RebootConstants == MaxCount \in 1 .. 100 /\ MaxActs \in Nat /\ MaxCrashes \in Nat

VARIABLES
  pFlag, pUsed, pTest, \* preferences isRebootTest, usedCount, testCount
  root, top,    \* the activities of the task; top is "none" if there is one
  away,         \* something else covers the task
  usedCount, testCount, isCancelFlag, shown, \* fields of RebootTestActivity
  armed,        \* its START_REBOOT message waits
  orphans,      \* counts of destroyed activities whose message waits
  pc, firing,   \* how far handleMessage is, and the counts it works with
  bootDue,      \* BOOT_COMPLETED is to come
  reboots, lost, \* since the test was set up: reboots it caused, and power
                \* failures after counting one and before causing it
  relaunched,   \* OptionsActivity was once opened while RebootTestActivity lived
  acts, crashes

fields == <<usedCount, testCount, isCancelFlag, shown, armed>>
screen == <<root, top, away, fields, orphans>>
run    == <<pc, firing, bootDue>>
ghost  == <<reboots, lost, relaunched>>
prefs  == <<pFlag, pUsed, pTest>>
vars   == <<prefs, screen, run, ghost, acts, crashes>>

Counts == [used : 0 .. MaxCount, test : 0 .. MaxCount]
Activities == {"Options", "Reboot"}

Init ==
  /\ pFlag = FALSE /\ pUsed = 0 /\ pTest = 0
  /\ root = "none" /\ top = "none" /\ away = TRUE
  /\ usedCount = 0 /\ testCount = 0 /\ isCancelFlag = FALSE /\ shown = "none"
  /\ armed = FALSE /\ orphans = {}
  /\ pc = "idle" /\ firing = [used |-> 0, test |-> 0] /\ bootDue = FALSE
  /\ reboots = 0 /\ lost = 0 /\ relaunched = FALSE /\ acts = 0 /\ crashes = 0

-----------------------------------------------------------------------------
(* Android starts a singleTask activity: activities above it are finished. *)
Launch(a) == /\ root' = IF root = "none" THEN a ELSE root
             /\ top' = IF root \in {"none", a} THEN "none" ELSE a
             /\ away' = FALSE
Alive     == "Reboot" \in {root, top}
OnTop(a)  == top = a \/ (top = "none" /\ root = a)
Front(a)  == ~away /\ OnTop(a)

User == pc = "idle" /\ acts < MaxActs /\ acts' = acts + 1 /\ UNCHANGED <<run, crashes>>

NoScreen == /\ usedCount' = 0 /\ testCount' = 0 /\ isCancelFlag' = FALSE
            /\ shown' = "none" /\ armed' = FALSE

\* Mistakes: the count is not committed; is the number asked for.
CountedInMemory(r) == pUsed
CountedAll(r)      == r.test

(* updatePreference                                                        *)
Counted(r) == IF r.used < r.test THEN r.used + 1 ELSE r.test

\* Mistake: isRebootTest stays committed.
FlagKept == UNCHANGED pFlag

FlagCleared == pFlag' = FALSE

(* processReboot: the result, or a message in five seconds.                *)
Process(u, t) ==
  /\ usedCount' = u /\ testCount' = t
  /\ armed' = (u < t)
  /\ shown' = IF u < t THEN "none" ELSE IF u > t THEN "error" ELSE "tip"
  /\ FlagCleared

Resume ==
  \/ ~isCancelFlag /\ Process(usedCount, testCount) /\ UNCHANGED isCancelFlag
  \/ isCancelFlag /\ UNCHANGED <<pFlag, fields>>

(* Only a new activity reads the preferences (setData in onCreate).        *)
Show(used, test) ==
  /\ Launch("Reboot")
  /\ IF Alive THEN Resume ELSE Process(used, test) /\ isCancelFlag' = FALSE
  /\ UNCHANGED orphans

(* The start button of OptionsActivity.                                    *)
StartTest(n) ==
  /\ Front("Options") /\ User
  /\ pUsed' = 0 /\ pTest' = n
  /\ Show(0, n)
  /\ reboots' = 0 /\ lost' = 0 /\ UNCHANGED relaunched

StopButton ==
  /\ Front("Reboot") /\ shown = "none" /\ User
  /\ isCancelFlag' = ~isCancelFlag /\ FlagCleared
  /\ armed' = isCancelFlag
  /\ UNCHANGED <<pUsed, pTest, root, top, away, usedCount, testCount, shown, orphans, ghost>>

ClearButton ==
  /\ Front("Reboot") /\ shown # "none" /\ User
  /\ pUsed' = 0 /\ Process(0, pTest)
  /\ reboots' = 0 /\ lost' = 0
  /\ UNCHANGED <<pTest, root, top, away, isCancelFlag, orphans, relaunched>>

BackKey ==
  /\ Front("Reboot") /\ User
  /\ FlagCleared /\ pUsed' = 0 /\ pTest' = 0
  /\ NoScreen /\ root' = "Options" /\ top' = "none"
  /\ reboots' = 0 /\ lost' = 0
  /\ UNCHANGED <<away, orphans, relaunched>>

(* HOME, whether or not the key reaches the activity, or another screen.   *)
Leave(handled) ==
  /\ ~away /\ User /\ away' = TRUE
  /\ \/ handled /\ Front("Reboot") /\ armed' = FALSE /\ FlagCleared
     \/ ~handled /\ UNCHANGED <<armed, pFlag>>
  /\ UNCHANGED <<pUsed, pTest, root, top, usedCount, testCount, isCancelFlag, shown, orphans, ghost>>

Return ==
  /\ away /\ root # "none" /\ User
  /\ away' = FALSE /\ UNCHANGED <<pUsed, pTest, root, top, orphans, ghost>>
  /\ IF OnTop("Reboot") THEN Resume ELSE UNCHANGED <<pFlag, fields>>

OpenOptions ==
  /\ away /\ User /\ relaunched' = (relaunched \/ Alive)
  /\ Launch("Options")
  /\ IF top = "Reboot"
     THEN /\ orphans' = IF armed THEN orphans \cup {[used |-> usedCount, test |-> testCount]}
                        ELSE orphans
          /\ NoScreen
     ELSE UNCHANGED <<fields, orphans>>
  /\ UNCHANGED <<prefs, reboots, lost>>

-----------------------------------------------------------------------------
(* handleMessage: commit the flag, commit the count, reboot.               *)
Fire ==
  /\ pc = "idle" /\ pc' = "flagged"
  /\ \/ /\ armed /\ armed' = FALSE /\ UNCHANGED orphans
        /\ firing' = [used |-> usedCount, test |-> testCount]
     \/ /\ firing' \in orphans /\ orphans' = orphans \ {firing'} /\ UNCHANGED armed
  /\ pFlag' = TRUE
  /\ UNCHANGED <<pUsed, pTest, root, top, away, usedCount, testCount, isCancelFlag, shown, bootDue, ghost, acts, crashes>>

Count ==
  /\ pc = "flagged" /\ pc' = "counted"
  /\ pUsed' = Counted(firing)
  /\ UNCHANGED <<pFlag, pTest, screen, firing, bootDue, ghost, acts, crashes>>

PowerCycle ==
  /\ NoScreen /\ root' = "none" /\ top' = "none" /\ away' = TRUE /\ orphans' = {}
  /\ pc' = "idle" /\ firing' = [used |-> 0, test |-> 0] /\ bootDue' = TRUE
  /\ UNCHANGED <<prefs, acts>>

Reboot == /\ pc = "counted" /\ PowerCycle
          /\ reboots' = (IF reboots > MaxCount THEN reboots ELSE reboots + 1) /\ UNCHANGED <<lost, relaunched, crashes>>

Crash == /\ crashes < MaxCrashes /\ crashes' = crashes + 1
         /\ PowerCycle
         /\ lost' = IF pc = "counted" THEN lost + 1 ELSE lost
         /\ UNCHANGED <<reboots, relaunched>>

BootCompleted ==
  /\ bootDue /\ pc = "idle" /\ bootDue' = FALSE
  /\ IF pFlag THEN Show(pUsed, pTest) ELSE UNCHANGED <<pFlag, screen>>
  /\ UNCHANGED <<pUsed, pTest, pc, firing, ghost, acts, crashes>>

UserStep == \/ \E n \in 1 .. MaxCount : StartTest(n)
            \/ StopButton \/ ClearButton \/ BackKey \/ Return \/ OpenOptions
            \/ \E handled \in BOOLEAN : Leave(handled)

PhoneStep == Fire \/ Count \/ Reboot \/ BootCompleted

Next == UserStep \/ PhoneStep \/ Crash

(* Time passes and the phone boots; the user and the power do as they like. *)
Spec == Init /\ [][Next]_vars /\ WF_vars(PhoneStep)

-----------------------------------------------------------------------------
Values ==
  /\ pUsed \in 0 .. MaxCount /\ pTest \in 0 .. MaxCount
  /\ root \in Activities \cup {"none"} /\ top \in (Activities \ {root}) \cup {"none"}
  /\ usedCount \in 0 .. MaxCount /\ testCount \in 0 .. MaxCount
  /\ shown \in {"none", "tip", "error"} /\ orphans \subseteq Counts
  /\ pc \in {"idle", "flagged", "counted"} /\ firing \in Counts
  /\ reboots \in Nat /\ lost \in Nat /\ acts \in 0 .. MaxActs /\ crashes \in 0 .. MaxCrashes

Flags == /\ pFlag \in BOOLEAN /\ away \in BOOLEAN /\ isCancelFlag \in BOOLEAN
         /\ armed \in BOOLEAN /\ bootDue \in BOOLEAN /\ relaunched \in BOOLEAN

TypeOK == Values /\ Flags

(* A reboot is committed to the preferences before it happens, so however  *)
(* power fails and whichever activity's message fires, the test never      *)
(* causes more reboots than it has counted.                                *)
NoUncountedReboot == reboots + lost <= pUsed

(* Until OptionsActivity is opened beside a living test, the count is      *)
(* exact: each counted reboot happened, or power failed between the commit *)
(* and the call.                                                           *)
CountExact ==
  ~relaunched => pUsed = reboots + lost + (IF pc = "counted" THEN 1 ELSE 0)

(* isRebootTest outlives the handler only to the next BOOT_COMPLETED: a    *)
(* phone that boots for another reason does not start the test again.      *)
FlagConsumed == pFlag /\ pc = "idle" => bootDue

(* Whatever is stopped, covered, relaunched or cut short, the phone        *)
(* stops rebooting some time after the last thing the user does.           *)
TestEnds == <>[](pc = "idle" /\ ~armed /\ orphans = {})
=============================================================================
