-------------------------- MODULE RebootTestProofs --------------------------
(***************************************************************************)
(* Proofs about RebootTest, for any number of reboots asked for, of user   *)
(* actions and of power failures.                                          *)
(***************************************************************************)
EXTENDS RebootTest, TLAPS

(* What a living activity, a waiting message and the handler under way     *)
(* know of the count: enough for the next commit to be large enough.       *)
Ahead ==
  /\ NoUncountedReboot
  /\ Alive /\ pc = "idle" => reboots + lost <= usedCount
  /\ Alive /\ shown = "none" => usedCount < testCount
  /\ armed => usedCount < testCount /\ reboots + lost <= usedCount
  /\ \A r \in orphans : r.used < r.test /\ reboots + lost <= r.used
  /\ pc = "flagged" => firing.used < firing.test /\ reboots + lost <= firing.used
  /\ pc = "counted" => reboots + lost < pUsed

(* Until OptionsActivity is opened beside a living test, whoever holds a   *)
(* count holds the one in the preferences.                                 *)
InStep ==
  /\ pUsed = reboots + lost + (IF pc = "counted" THEN 1 ELSE 0)
  /\ orphans = {} /\ top # "Options"
  /\ Alive /\ pc = "idle" => usedCount = pUsed /\ testCount = pTest
  /\ Alive /\ shown = "none" => usedCount < testCount
  /\ armed => Alive /\ usedCount < testCount
  /\ pc = "flagged" => firing.used = pUsed /\ firing.used < firing.test

(* A living activity has cleared the flag, and so has whoever made a       *)
(* message wait, so the receiver never finds it set under a stopped test.  *)
FlagInv ==
  /\ FlagConsumed
  /\ pFlag /\ pc = "idle" => ~Alive /\ ~armed /\ orphans = {}

-----------------------------------------------------------------------------
LEMMA ProcessLeaves ==
  ASSUME NEW u \in 0 .. MaxCount, NEW t \in 0 .. MaxCount, Process(u, t)
  PROVE  /\ usedCount' = u /\ testCount' = t
         /\ shown' \in {"none", "tip", "error"}
         /\ armed' => u < t
         /\ shown' = "none" => u < t
         /\ ~pFlag'
  BY RebootConstants DEF Process, FlagCleared

LEMMA ProcessFlags ==
  ASSUME NEW u, NEW t, Process(u, t)
  PROVE  armed' \in BOOLEAN /\ pFlag' \in BOOLEAN
<1>1. armed' \in BOOLEAN
  <2>1. armed' = (u < t)
    BY DEF Process
  <2>2. CASE u < t
    BY <2>1, <2>2
  <2>3. CASE ~(u < t)
    BY <2>1, <2>3
  <2> QED
    BY <2>2, <2>3
<1>2. pFlag' \in BOOLEAN
  BY DEF Process, FlagCleared
<1> QED
  BY <1>1, <1>2

-----------------------------------------------------------------------------
(* Every step keeps the variables in their types; in particular the count  *)
(* never exceeds the largest number that can be asked for.                 *)
THEOREM TypeCorrect == Spec => []TypeOK
<1> USE RebootConstants DEF prefs, screen, fields, run, ghost
<1>1. Init => Values
  BY DEF Init, Values, Activities, Counts
<1>2. Init => Flags
  BY DEF Init, Flags
<1>3. TypeOK /\ [Next]_vars => Values'
  <2> SUFFICES ASSUME Values, [Next]_vars PROVE Values'
    BY DEF TypeOK
  <2> USE DEF Values, Activities
  <2>1. CASE UserStep
    <3>1. /\ acts' \in 0 .. MaxActs /\ crashes' \in 0 .. MaxCrashes
          /\ pc' = pc /\ firing' = firing
      <4>1. User
        BY <2>1 DEF UserStep, StartTest, StopButton, ClearButton, BackKey, Return, OpenOptions, Leave
      <4> QED
        BY <4>1 DEF User
    <3>2. ASSUME NEW n \in 1 .. MaxCount, StartTest(n) PROVE Values'
      BY <3>1, <3>2, ProcessLeaves DEF StartTest, Show, Resume, Launch
    <3>3. CASE StopButton
      BY <3>1, <3>3 DEF StopButton, FlagCleared
    <3>4. CASE ClearButton
      BY <3>1, <3>4, ProcessLeaves DEF ClearButton
    <3>5. CASE BackKey
      BY <3>1, <3>5 DEF BackKey, NoScreen
    <3>6. CASE Return
      BY <3>1, <3>6, ProcessLeaves DEF Return, Resume
    <3>7. CASE OpenOptions
      BY <3>1, <3>7 DEF OpenOptions, Launch, NoScreen, Counts
    <3>8. CASE \E handled \in BOOLEAN : Leave(handled)
      BY <3>1, <3>8 DEF Leave, FlagCleared
    <3> QED
      BY <2>1, <3>2, <3>3, <3>4, <3>5, <3>6, <3>7, <3>8 DEF UserStep
  <2>2. CASE Fire
    BY <2>2 DEF Fire, Counts
  <2>3. CASE Count
    BY <2>3 DEF Count, Counted, Counts
  <2>4. CASE Reboot
    BY <2>4 DEF Reboot, PowerCycle, NoScreen, Counts
  <2>5. CASE BootCompleted
    BY <2>5, ProcessLeaves DEF BootCompleted, Show, Resume, Launch
  <2>6. CASE Crash
    BY <2>6 DEF Crash, PowerCycle, NoScreen, Counts
  <2>7. CASE UNCHANGED vars
    BY <2>7 DEF vars
  <2> QED
    BY <2>1, <2>2, <2>3, <2>4, <2>5, <2>6, <2>7 DEF Next, PhoneStep
<1>4. TypeOK /\ [Next]_vars => Flags'
  <2> SUFFICES ASSUME Flags, [Next]_vars PROVE Flags'
    BY DEF TypeOK
  <2> USE DEF Flags
  <2>1. CASE UserStep
    <3>1. bootDue' = bootDue
      <4>1. User
        BY <2>1 DEF UserStep, StartTest, StopButton, ClearButton, BackKey, Return, OpenOptions, Leave
      <4> QED
        BY <4>1 DEF User
    <3>2. CASE \E n \in 1 .. MaxCount : StartTest(n)
      BY <3>1, <3>2, ProcessFlags DEF StartTest, Show, Resume, Launch
    <3>3. CASE StopButton \/ ClearButton \/ BackKey
      BY <3>1, <3>3, ProcessFlags DEF StopButton, ClearButton, BackKey, NoScreen, FlagCleared
    <3>4. CASE Return \/ OpenOptions
      BY <3>1, <3>4, ProcessFlags DEF Return, Resume, OpenOptions, Launch, NoScreen
    <3>5. CASE \E handled \in BOOLEAN : Leave(handled)
      BY <3>1, <3>5 DEF Leave, FlagCleared
    <3> QED
      BY <2>1, <3>2, <3>3, <3>4, <3>5 DEF UserStep
  <2>2. CASE PhoneStep
    <3>1. CASE Fire \/ Count
      BY <3>1 DEF Fire, Count
    <3>2. CASE Reboot
      BY <3>2 DEF Reboot, PowerCycle, NoScreen
    <3>3. CASE BootCompleted
      BY <3>3, ProcessFlags DEF BootCompleted, Show, Resume, Launch
    <3> QED
      BY <2>2, <3>1, <3>2, <3>3 DEF PhoneStep
  <2>3. CASE Crash
    BY <2>3 DEF Crash, PowerCycle, NoScreen
  <2>4. CASE UNCHANGED vars
    BY <2>4 DEF vars
  <2> QED
    BY <2>1, <2>2, <2>3, <2>4 DEF Next
<1> QED
  BY <1>1, <1>2, <1>3, <1>4, PTL DEF Spec, TypeOK

-----------------------------------------------------------------------------
(* No reboot is left uncounted, whichever activity's message causes it.    *)
THEOREM EveryRebootCounted == Spec => []NoUncountedReboot
<1> USE RebootConstants DEF prefs, screen, fields, run, ghost
<1>1. Init => Ahead
  BY DEF Init, Ahead, NoUncountedReboot, Alive
<1>2. Values /\ Ahead /\ [Next]_vars => Ahead'
  <2> SUFFICES ASSUME Values, Ahead, [Next]_vars PROVE Ahead'
    OBVIOUS
  <2> USE DEF Ahead, NoUncountedReboot, Values, Activities
  <2>1. CASE UserStep
    <3>1. pc = "idle" /\ pc' = pc /\ firing' = firing
      BY <2>1 DEF UserStep, StartTest, StopButton, ClearButton, BackKey, Return, OpenOptions, Leave, User
    <3>2. ASSUME NEW n \in 1 .. MaxCount, StartTest(n) PROVE Ahead'
      BY <3>1, <3>2, ProcessLeaves DEF StartTest, Show, Resume, Launch, Counts
    <3>3. CASE StopButton
      BY <3>1, <3>3 DEF StopButton, FlagCleared, Front, OnTop, Alive
    <3>4. CASE ClearButton
      BY <3>1, <3>4, ProcessLeaves DEF ClearButton, Counts
    <3>5. CASE BackKey
      BY <3>1, <3>5 DEF BackKey, NoScreen, Alive, Counts
    <3>6. CASE Return
      BY <3>1, <3>6, ProcessLeaves DEF Return, OnTop, Resume, Alive
    <3>7. CASE OpenOptions
      BY <3>1, <3>7 DEF OpenOptions, Launch, NoScreen, Counts, Alive
    <3>8. CASE \E handled \in BOOLEAN : Leave(handled)
      BY <3>1, <3>8 DEF Leave, FlagCleared, Alive
    <3> QED
      BY <2>1, <3>2, <3>3, <3>4, <3>5, <3>6, <3>7, <3>8 DEF UserStep
  <2>2. CASE Fire
    <3>1. firing'.used < firing'.test /\ reboots + lost <= firing'.used
      BY <2>2 DEF Fire
    <3>2. orphans' \subseteq orphans /\ (armed' => armed)
      BY <2>2 DEF Fire
    <3> QED
      BY <2>2, <3>1, <3>2 DEF Fire, Alive
  <2>3. CASE Count
    BY <2>3 DEF Count, Counted, Counts, Alive
  <2>4. CASE Reboot
    BY <2>4 DEF Reboot, PowerCycle, NoScreen, Alive
  <2>5. CASE BootCompleted
    BY <2>5, ProcessLeaves DEF BootCompleted, Show, Resume, Launch, Alive
  <2>6. CASE Crash
    BY <2>6 DEF Crash, PowerCycle, NoScreen, Alive
  <2>7. CASE UNCHANGED vars
    BY <2>7 DEF vars, Alive
  <2> QED
    BY <2>1, <2>2, <2>3, <2>4, <2>5, <2>6, <2>7 DEF Next, PhoneStep
<1>3. Ahead => NoUncountedReboot
  BY DEF Ahead
<1> QED
  BY <1>1, <1>2, <1>3, TypeCorrect, PTL DEF Spec, TypeOK

-----------------------------------------------------------------------------
(* Until OptionsActivity is opened beside a living test the count is exact.*)
THEOREM CountIsExact == Spec => []CountExact
<1> USE RebootConstants DEF prefs, screen, fields, run, ghost
<1> DEFINE Inv == ~relaunched => InStep
<1>1. Init => Inv
  BY DEF Init, InStep, Alive
<1>4. [Next]_vars /\ ~relaunched' => ~relaunched
  BY DEF Next, PhoneStep, UserStep, StartTest, StopButton, ClearButton, BackKey, Return, OpenOptions, Leave,
         Fire, Count, Reboot, BootCompleted, Crash, vars
<1>2. Values /\ Inv /\ [Next]_vars => Inv'
  <2> SUFFICES ASSUME Values, InStep, ~relaunched', [Next]_vars PROVE InStep'
    BY <1>4
  <2> USE DEF InStep, Values, Activities
  <2>1. CASE UserStep
    <3>1. pc = "idle" /\ pc' = pc /\ firing' = firing
      BY <2>1 DEF UserStep, StartTest, StopButton, ClearButton, BackKey, Return, OpenOptions, Leave, User
    <3>2. ASSUME NEW n \in 1 .. MaxCount, StartTest(n) PROVE InStep'
      <4>1. ~Alive
        BY <3>2 DEF StartTest, Front, OnTop, Alive, Activities
      <4> QED
        BY <3>1, <3>2, <4>1, ProcessLeaves DEF StartTest, Show, Launch, Alive
    <3>3. CASE StopButton
      <4>1. Alive
        BY <3>3 DEF StopButton, Front, OnTop, Alive
      <4> QED
        BY <3>1, <3>3, <4>1 DEF StopButton, FlagCleared, Alive
    <3>4. CASE ClearButton
      BY <3>1, <3>4, ProcessLeaves DEF ClearButton, Front, OnTop, Alive
    <3>5. CASE BackKey
      BY <3>1, <3>5 DEF BackKey, NoScreen, Alive
    <3>6. CASE Return
      BY <3>1, <3>6, ProcessLeaves DEF Return, OnTop, Resume, Alive
    <3>7. CASE OpenOptions
      BY <3>1, <3>7 DEF OpenOptions, Launch, Alive
    <3>8. CASE \E handled \in BOOLEAN : Leave(handled)
      BY <3>1, <3>8 DEF Leave, FlagCleared, Alive
    <3> QED
      BY <2>1, <3>2, <3>3, <3>4, <3>5, <3>6, <3>7, <3>8 DEF UserStep
  <2>2. CASE Fire
    BY <2>2 DEF Fire
  <2>3. CASE Count
    BY <2>3 DEF Count, Counted, Counts, Alive
  <2>4. CASE Reboot
    BY <2>4 DEF Reboot, PowerCycle, NoScreen, Alive
  <2>5. CASE BootCompleted
    BY <2>5, ProcessLeaves DEF BootCompleted, Show, Resume, Launch, Alive
  <2>6. CASE Crash
    BY <2>6 DEF Crash, PowerCycle, NoScreen, Alive
  <2>7. CASE UNCHANGED vars
    BY <2>7 DEF vars, Alive
  <2> QED
    BY <2>1, <2>2, <2>3, <2>4, <2>5, <2>6, <2>7 DEF Next, PhoneStep
<1>3. Inv => CountExact
  BY DEF InStep, CountExact
<1> QED
  BY <1>1, <1>2, <1>3, TypeCorrect, PTL DEF Spec, TypeOK

-----------------------------------------------------------------------------
LEMMA FlagInvHolds == Spec => []FlagInv
<1> USE RebootConstants DEF prefs, screen, fields, run, ghost
<1>1. Init => FlagInv
  BY DEF Init, FlagInv, FlagConsumed, Alive
<1>2. Values /\ FlagInv /\ [Next]_vars => FlagInv'
  <2> SUFFICES ASSUME Values, FlagInv, [Next]_vars PROVE FlagInv'
    OBVIOUS
  <2> USE DEF FlagInv, FlagConsumed, Values, Activities
  <2>1. CASE UserStep
    <3>1. pc = "idle" /\ pc' = pc /\ bootDue' = bootDue
      BY <2>1 DEF UserStep, StartTest, StopButton, ClearButton, BackKey, Return, OpenOptions, Leave, User
    <3>2. ASSUME NEW n \in 1 .. MaxCount, StartTest(n) PROVE FlagInv'
      BY <3>1, <3>2, ProcessLeaves DEF StartTest, Show, Resume, Launch
    <3>3. CASE StopButton
      BY <3>1, <3>3 DEF StopButton, FlagCleared
    <3>4. CASE ClearButton
      BY <3>1, <3>4, ProcessLeaves DEF ClearButton
    <3>5. CASE BackKey
      BY <3>1, <3>5 DEF BackKey, FlagCleared
    <3>6. CASE Return
      BY <3>1, <3>6, ProcessLeaves DEF Return, OnTop, Resume, Alive
    <3>7. CASE OpenOptions
      BY <3>1, <3>7 DEF OpenOptions, Launch, Alive
    <3>8. CASE \E handled \in BOOLEAN : Leave(handled)
      BY <3>1, <3>8 DEF Leave, FlagCleared, Alive
    <3> QED
      BY <2>1, <3>2, <3>3, <3>4, <3>5, <3>6, <3>7, <3>8 DEF UserStep
  <2>2. CASE Fire \/ Count
    BY <2>2 DEF Fire, Count
  <2>3. CASE Reboot \/ Crash
    BY <2>3 DEF Reboot, Crash, PowerCycle, NoScreen, Alive
  <2>4. CASE BootCompleted
    BY <2>4, ProcessLeaves DEF BootCompleted, Show, Resume, Launch, Alive
  <2>5. CASE UNCHANGED vars
    BY <2>5 DEF vars, Alive
  <2> QED
    BY <2>1, <2>2, <2>3, <2>4, <2>5 DEF Next, PhoneStep
<1> QED
  BY <1>1, <1>2, TypeCorrect, PTL DEF Spec, TypeOK

(* The flag that restarts the test is never left for a boot that the test  *)
(* did not cause.                                                          *)
THEOREM FlagIsConsumed == Spec => []FlagConsumed
<1>1. FlagInv => FlagConsumed
  BY DEF FlagInv
<1> QED
  BY <1>1, FlagInvHolds, PTL

-----------------------------------------------------------------------------
(* Within(n): left alone, the phone takes at most n more steps.  A message *)
(* that fires costs a reboot and a boot, after which pTest - pUsed reboots *)
(* are to come, whatever the counts the message had.                       *)
ToCome(u) == IF u < pTest THEN pTest - u ELSE 0
Owed(c)   == 5 * ToCome(Counted(c)) + 4
Shown     == [used |-> usedCount, test |-> testCount]
ToBoot    == IF bootDue THEN 1 ELSE 0

Within(n) ==
  /\ pc = "counted" => 5 * ToCome(pUsed) + 2 <= n
  /\ pc = "flagged" => 5 * ToCome(Counted(firing)) + 3 <= n
  /\ pc = "idle" =>
       /\ armed => Owed(Shown) + ToBoot <= n
       /\ \A c \in orphans : Owed(c) + ToBoot <= n
       /\ bootDue => (IF pFlag THEN 5 * ToCome(pUsed) ELSE 0) + 1 <= n

CountsDown ==
  \A n \in Nat : Within(n) => UserStep \/ Crash \/ (n > 0 /\ Within(n - 1)')

LEMMA CountedType == \A c \in Counts : Counted(c) \in 0 .. MaxCount
  BY RebootConstants DEF Counts, Counted

LEMMA ToComeType ==
  ASSUME pTest \in 0 .. MaxCount
  PROVE  \A u \in 0 .. MaxCount : ToCome(u) \in 0 .. MaxCount
  BY RebootConstants DEF ToCome

(* Messages of activities that Android destroyed fire with old counts, a   *)
(* test opened twice counts twice, boots come late: still every step the   *)
(* phone takes by itself brings the test nearer to its end, and only what  *)
(* the user does or a power failure puts it off.                           *)
THEOREM TestCountsDown == Spec => [][CountsDown]_vars
<1>1. ASSUME TypeOK, FlagInv, PhoneStep, NEW n \in Nat, Within(n)
      PROVE  n > 0 /\ Within(n - 1)'
  <2>1. /\ pUsed \in 0 .. MaxCount /\ pTest \in 0 .. MaxCount /\ firing \in Counts
        /\ usedCount \in 0 .. MaxCount /\ testCount \in 0 .. MaxCount /\ orphans \subseteq Counts
    BY <1>1 DEF TypeOK, Values
  <2>2. Shown \in Counts
    BY <2>1 DEF Shown, Counts
  <2>3. ToBoot \in {0, 1}
    BY DEF ToBoot
  <2>4. \A c \in Counts : ToCome(Counted(c)) \in Nat
    BY <2>1, CountedType, ToComeType, RebootConstants
  <2>5. ToCome(pUsed) \in Nat
    BY <2>1, ToComeType, RebootConstants
  <2>6. CASE Fire
    <3>1. PICK c \in Counts : firing' = c /\ Owed(c) + ToBoot <= n
      BY <1>1, <2>1, <2>2, <2>6 DEF Fire, Within, Shown
    <3>2. PICK k \in Nat : k = ToCome(Counted(c)) /\ 5 * k + 4 <= n
      BY <2>3, <2>4, <3>1 DEF Owed
    <3>3. ToCome(Counted(firing))' = k
      BY <2>6, <3>1, <3>2 DEF Fire, ToCome, Counted
    <3>4. 5 * k + 3 <= n - 1
      BY <3>2
    <3> QED
      BY <2>6, <3>2, <3>3, <3>4 DEF Fire, Within
  <2>7. CASE Count
    <3>1. PICK k \in Nat : k = ToCome(Counted(firing)) /\ 5 * k + 3 <= n
      BY <1>1, <2>1, <2>4, <2>7 DEF Count, Within
    <3>2. ToCome(pUsed)' = k
      BY <2>7, <3>1 DEF Count, ToCome
    <3>3. 5 * k + 2 <= n - 1
      BY <3>1
    <3> QED
      BY <2>7, <3>1, <3>2, <3>3 DEF Count, Within
  <2>8. CASE Reboot
    <3>1. PICK k \in Nat : k = ToCome(pUsed) /\ 5 * k + 2 <= n
      BY <1>1, <2>5, <2>8 DEF Reboot, Within
    <3>2. ToCome(pUsed)' = k
      BY <2>8, <3>1 DEF Reboot, PowerCycle, prefs, ToCome
    <3>3. 5 * k + 1 <= n - 1 /\ 0 + 1 <= n - 1
      BY <3>1
    <3> QED
      BY <2>8, <3>1, <3>2, <3>3 DEF Reboot, PowerCycle, NoScreen, Within
  <2>9. CASE BootCompleted
    <3>1. /\ pc = "idle" /\ bootDue /\ pc' = "idle" /\ ~bootDue' /\ ToBoot' = 0 /\ ToBoot = 1
          /\ pTest' = pTest
      BY <2>9 DEF BootCompleted, ToBoot
    <3>2. CASE pFlag
      <4>1. ~armed /\ orphans = {} /\ ~Alive
        BY <1>1, <3>1, <3>2 DEF FlagInv
      <4>2. PICK k \in Nat : k = ToCome(pUsed) /\ 5 * k + 1 <= n
        BY <1>1, <2>5, <3>1, <3>2 DEF Within
      <4>3. /\ usedCount' = pUsed /\ testCount' = pTest /\ orphans' = {}
            /\ armed' => pUsed < pTest
        BY <2>1, <2>9, <3>2, <4>1, ProcessLeaves DEF BootCompleted, Show
      <4>4. armed' => ToCome(Counted(Shown))' = k - 1 /\ k > 0
        <5> SUFFICES ASSUME armed' PROVE ToCome(Counted(Shown))' = k - 1 /\ k > 0
          OBVIOUS
        <5>1. Counted(Shown)' = pUsed + 1
          BY <4>3 DEF Counted, Shown
        <5>2. k = pTest - pUsed
          BY <4>2, <4>3 DEF ToCome
        <5> QED
          BY <2>1, <3>1, <4>3, <5>1, <5>2 DEF ToCome
      <4>5. armed' => (Owed(Shown) + ToBoot)' <= n - 1
        BY <3>1, <4>2, <4>4 DEF Owed
      <4>6. n > 0
        BY <4>2
      <4> QED
        BY <3>1, <4>3, <4>5, <4>6 DEF Within
    <3>3. CASE ~pFlag
      <4>1. UNCHANGED <<pUsed, pTest, usedCount, testCount, armed, orphans>>
        BY <2>9, <3>3 DEF BootCompleted, screen, fields
      <4>2. n > 0
        BY <1>1, <3>1, <3>3 DEF Within
      <4>3. armed' => (Owed(Shown) + ToBoot)' <= n - 1
        <5> SUFFICES ASSUME armed' PROVE (Owed(Shown) + ToBoot)' <= n - 1
          OBVIOUS
        <5>1. PICK k \in Nat : k = Owed(Shown) /\ k + 1 <= n
          BY <1>1, <2>2, <2>4, <3>1, <4>1 DEF Within, Owed
        <5>2. Owed(Shown)' = k
          BY <4>1, <5>1 DEF Owed, Shown, ToCome, Counted
        <5> QED
          BY <3>1, <5>1, <5>2
      <4>4. ASSUME NEW c \in orphans' PROVE (Owed(c) + ToBoot)' <= n - 1
        <5>1. PICK k \in Nat : k = Owed(c) /\ k + 1 <= n
          BY <1>1, <2>1, <2>4, <3>1, <4>1, <4>4 DEF Within, Owed
        <5>2. Owed(c)' = k
          BY <4>1, <5>1 DEF Owed, ToCome, Counted
        <5> QED
          BY <3>1, <5>1, <5>2
      <4> QED
        BY <3>1, <4>2, <4>3, <4>4 DEF Within
    <3> QED
      BY <3>2, <3>3
  <2> QED
    BY <1>1, <2>6, <2>7, <2>8, <2>9 DEF PhoneStep
<1>2. TypeOK /\ FlagInv /\ [Next]_vars => [CountsDown]_vars
  <2>1. ASSUME TypeOK, FlagInv, Next PROVE CountsDown
    BY <1>1, <2>1 DEF Next, CountsDown
  <2> QED
    BY <2>1
<1> QED
  BY <1>2, TypeCorrect, FlagInvHolds, PTL DEF Spec

(* So the phone reboots by itself at most once for each reboot asked for   *)
(* and is at rest after five steps for each, and as many as a boot and a   *)
(* message need.                                                           *)
THEOREM TestIsShort ==
  Spec => [](Within(5 * MaxCount + 5) /\ (Within(0) => pc = "idle" /\ ~armed /\ orphans = {}))
<1>1. TypeOK => Within(5 * MaxCount + 5) /\ (Within(0) => pc = "idle" /\ ~armed /\ orphans = {})
  <2> SUFFICES ASSUME TypeOK
               PROVE  /\ Within(5 * MaxCount + 5)
                      /\ Within(0) => pc = "idle" /\ ~armed /\ orphans = {}
    OBVIOUS
  <2>1. /\ pUsed \in 0 .. MaxCount /\ pTest \in 0 .. MaxCount /\ firing \in Counts
        /\ orphans \subseteq Counts /\ pc \in {"idle", "flagged", "counted"} /\ Shown \in Counts
    BY DEF TypeOK, Values, Shown, Counts
  <2>2. ToBoot \in {0, 1}
    BY DEF ToBoot
  <2>3. ToCome(pUsed) \in 0 .. MaxCount
    BY <2>1, ToComeType
  <2>4. \A c \in Counts : ToCome(Counted(c)) \in 0 .. MaxCount
    BY <2>1, CountedType, ToComeType
  <2>5. \A c \in Counts : Owed(c) \in 4 .. 5 * MaxCount + 4
    BY <2>4, RebootConstants DEF Owed
  <2>6. Within(5 * MaxCount + 5)
    BY <2>1, <2>2, <2>3, <2>4, <2>5, RebootConstants DEF Within
  <2>7. ASSUME Within(0) PROVE pc = "idle" /\ ~armed /\ orphans = {}
    BY <2>1, <2>2, <2>3, <2>4, <2>5, <2>7, RebootConstants DEF Within
  <2> QED
    BY <2>6, <2>7
<1> QED
  BY <1>1, TypeCorrect, PTL
=============================================================================
