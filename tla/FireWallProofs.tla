--------------------------- MODULE FireWallProofs ---------------------------
(***************************************************************************)
(* Theorems of FireWall, for any set of applications, any sharing of uids  *)
(* and any number of changes, starts and crashes.                          *)
(***************************************************************************)
EXTENDS FireWall, TLAPS

(* Tasks run one at a time, before the keys of their list are looked at.   *)
Serial ==
  /\ stale => phase = "queued"
  /\ keys # {} => phase = "none"
  /\ restart => phase = "none"

Target(a) == IF a = School THEN "unlock" ELSE list[a]

(* The school's application is never stored as locked.                     *)
Listed == prefs[School] # "lock"

(* What the current task has read is the list; what it has not yet to      *)
(* store is in the preferences.                                            *)
InStep == Fresh /\ "query" \notin failed =>
  /\ phase = "running" => \A a \in Apps : rows[a] \in {"none", list[a]}
  /\ phase # "queued" => \A a \in Apps :
       list[a] # "none" => prefs[a] = Target(a) \/ (phase = "running" /\ rows[a] = list[a])

(* The chains hold what was not cleared until setFireWall adds the locked  *)
(* ones.                                                                   *)
ChainsOpen == Fresh =>
  /\ kept["wifi"] \subseteq wifi /\ kept["mobile"] \subseteq mobile
  /\ phase # "none" => wifi = kept["wifi"] /\ mobile = kept["mobile"]
  /\ OnlyLockedDenied

(* Unless a step failed, a locked application is denied or its key is      *)
(* still to come.                                                          *)
Denies == Fresh /\ phase = "none" /\ failed = {} => \A a \in Apps \ {School} :
  list[a] = "lock" \/ Left(a) => a \in keys \/ Uid[a] \in wifi \cap mobile

Others == {Uid[a] : a \in Apps \ {School}}

NeverSchool == prefs[School] # "lock" /\ wifi \subseteq Others /\ mobile \subseteq Others

-----------------------------------------------------------------------------
LEMMA FlagsInductive == Spec => []Flags
<1>1. Init => Flags
  BY DEF Init, Flags
<1>2. Flags /\ [Next]_vars => Flags'
  BY DEF Flags, Next, Service, Broadcast, Crash, Sticky, StartCommand, Start, Query, Done, Post, Row, Key, Change,
         vars, school, chains, faults
<1> QED
  BY <1>1, <1>2, PTL DEF Spec

LEMMA ValuesInductive == Spec => [](Values /\ Serial)
<1> USE FireWallConstants DEF Values, Serial, Rows, Chains
<1>1. Init => Values /\ Serial
  BY SMT DEF Init, NoRows
<1>2. Values /\ Serial /\ [Next]_vars => Values' /\ Serial'
  <2> SUFFICES ASSUME Values, Serial, [Next]_vars PROVE Values' /\ Serial'
    OBVIOUS
  <2>1. ASSUME NEW a \in Apps, Change(a) PROVE Values' /\ Serial'
    BY <2>1, SMT DEF Change, chains, faults
  <2>2. CASE Broadcast
    BY <2>2, SMT DEF Broadcast, chains, faults
  <2>3. CASE StartCommand
    BY <2>3, SMT DEF StartCommand, Start, clearFireWall, Clears, Chains
  <2>4. CASE Query
    <3>1. failed' \subseteq {"query", "rule"} /\ NoRows \in Rows
      BY <2>4 DEF Query, NoRows
    <3> QED
      BY <2>4, <3>1, SMT DEF Query, SerialExecutor, school, chains
  <2>5. ASSUME NEW a \in Apps, Row(a) PROVE Values' /\ Serial'
    BY <2>5, SMT DEF Row, Stored, school, chains, faults
  <2>6. CASE Done
    BY <2>6, SMT DEF Done, school, chains, faults
  <2>7. CASE Post
    BY <2>7, SMT DEF Post, school, chains, faults
  <2>8. ASSUME NEW a \in Apps, Key(a) PROVE Values' /\ Serial'
    <3>1. failed' \subseteq {"query", "rule"}
      BY <2>8 DEF Key
    <3> QED
      BY <2>8, <3>1, SMT DEF Key, school, chains
  <2>9. CASE Crash
    BY <2>9, SMT DEF Crash, NoRows, school, faults
  <2>10. CASE UNCHANGED vars
    BY <2>10, SMT DEF vars, school, chains, faults
  <2> QED
    BY <2>1, <2>2, <2>3, <2>4, <2>5, <2>6, <2>7, <2>8, <2>9, <2>10 DEF Next, Service
<1> QED
  BY <1>1, <1>2, PTL DEF Spec

(* Type correctness.                                                       *)
THEOREM TypeCorrect == Spec => []TypeOK
<1>1. Values /\ Flags <=> TypeOK
  BY DEF TypeOK
<1> QED
  BY <1>1, ValuesInductive, FlagsInductive, PTL

-----------------------------------------------------------------------------
LEMMA StepsKeep == Spec => [](Listed /\ InStep)
<1> USE FireWallConstants DEF Values, Serial, Rows, Listed, InStep, Fresh, Target
<1>1. Init => Listed /\ InStep
  BY SMT DEF Init, NoRows
<1>2. (Values /\ Serial) /\ Listed /\ InStep /\ [Next]_vars => (Listed /\ InStep)'
  <2> SUFFICES ASSUME Values, Serial, Listed, InStep, [Next]_vars PROVE (Listed /\ InStep)'
    OBVIOUS
  <2>1. ASSUME NEW a \in Apps, Change(a) PROVE (Listed /\ InStep)'
    BY <2>1, SMT DEF Change, chains, faults
  <2>2. CASE Broadcast
    BY <2>2, SMT DEF Broadcast, chains, faults
  <2>3. CASE StartCommand
    BY <2>3, SMT DEF StartCommand, Start
  <2>4. CASE Query
    BY <2>4, SMT DEF Query, SerialExecutor, school, chains, faults
  <2>5. ASSUME NEW a \in Apps, Row(a) PROVE (Listed /\ InStep)'
    BY <2>5, SMT DEF Row, Stored, school, chains, faults
  <2>6. CASE Done
    BY <2>6, SMT DEF Done, NoRows, school, chains, faults
  <2>7. CASE Post
    BY <2>7, SMT DEF Post, school, chains, faults
  <2>8. ASSUME NEW a \in Apps, Key(a) PROVE (Listed /\ InStep)'
    BY <2>8, SMT DEF Key, school, chains, faults
  <2>9. CASE Crash
    BY <2>9, SMT DEF Crash, Sticky, NoRows, school, faults
  <2>10. CASE UNCHANGED vars
    BY <2>10, SMT DEF vars, school, chains, faults
  <2> QED
    BY <2>1, <2>2, <2>3, <2>4, <2>5, <2>6, <2>7, <2>8, <2>9, <2>10 DEF Next, Service
<1> QED
  BY <1>1, <1>2, ValuesInductive, PTL DEF Spec

LEMMA ChainsKeep == Spec => []ChainsOpen
<1> USE FireWallConstants DEF Values, Serial, Rows, Listed, InStep, ChainsOpen, OnlyLockedDenied, Chains, Fresh, Target, Locked, Left
<1>1. Init => ChainsOpen
  BY SMT DEF Init
<1>2. (Values /\ Serial) /\ (Listed /\ InStep) /\ ChainsOpen /\ [Next]_vars => ChainsOpen'
  <2> SUFFICES ASSUME Values, Serial, Listed, InStep, ChainsOpen, [Next]_vars PROVE ChainsOpen'
    OBVIOUS
  <2>1. ASSUME NEW a \in Apps, Change(a) PROVE ChainsOpen'
    BY <2>1, SMT DEF Change, chains, faults
  <2>2. CASE Broadcast
    BY <2>2, SMT DEF Broadcast, chains, faults
  <2>3. CASE StartCommand
    BY <2>3, SMT DEF StartCommand, Start, clearFireWall, Clears, Chains
  <2>4. CASE Query
    BY <2>4, SMT DEF Query, school, chains, faults
  <2>5. ASSUME NEW a \in Apps, Row(a) PROVE ChainsOpen'
    BY <2>5, SMT DEF Row, Stored, school, chains, faults
  <2>6. CASE Done
    BY <2>6, SMT DEF Done, school, chains, faults
  <2>7. CASE Post
    BY <2>7, SMT DEF Post, school, chains, faults
  <2>8. ASSUME NEW a \in Apps, Key(a) PROVE ChainsOpen'
    BY <2>8, SMT DEF Key, school, chains, faults
  <2>9. CASE Crash
    BY <2>9, SMT DEF Crash, Sticky, school, faults
  <2>10. CASE UNCHANGED vars
    BY <2>10, SMT DEF vars, school, chains, faults
  <2> QED
    BY <2>1, <2>2, <2>3, <2>4, <2>5, <2>6, <2>7, <2>8, <2>9, <2>10 DEF Next, Service
<1> QED
  BY <1>1, <1>2, ValuesInductive, StepsKeep, PTL DEF Spec

(* From the start for the last change on, nothing but locked and left over *)
(* applications is denied if the list could be read, but what a clearing   *)
(* that failed left, whatever cancelled tasks and crashes came before.     *)
THEOREM NothingElseDenied == Spec => []OnlyLockedDenied
<1>1. ChainsOpen => OnlyLockedDenied
  BY DEF ChainsOpen, OnlyLockedDenied
<1> QED
  BY <1>1, ChainsKeep, PTL

-----------------------------------------------------------------------------
LEMMA DeniesKeep == Spec => []Denies
<1> USE FireWallConstants DEF Values, Serial, Rows, Listed, InStep, Denies, Fresh, Target, Left
<1>1. Init => Denies
  BY SMT DEF Init, NoRows
<1>2. (Values /\ Serial) /\ (Listed /\ InStep) /\ Denies /\ [Next]_vars => Denies'
  <2> SUFFICES ASSUME Values, Serial, Listed, InStep, Denies, [Next]_vars PROVE Denies'
    OBVIOUS
  <2>1. ASSUME NEW a \in Apps, Change(a) PROVE Denies'
    BY <2>1, SMT DEF Change, chains, faults
  <2>2. CASE Broadcast
    BY <2>2, SMT DEF Broadcast, chains, faults
  <2>3. CASE StartCommand
    BY <2>3, SMT DEF StartCommand, Start, clearFireWall, Clears, Chains
  <2>4. CASE Query
    BY <2>4, SMT DEF Query, school, chains, faults
  <2>5. ASSUME NEW a \in Apps, Row(a) PROVE Denies'
    BY <2>5, SMT DEF Row, Stored, school, chains, faults
  <2>6. CASE Done
    BY <2>6, SMT DEF Done, school, chains, faults
  <2>7. CASE Post
    BY <2>7, SMT DEF Post, school, chains, faults
  <2>8. ASSUME NEW a \in Apps, Key(a) PROVE Denies'
    BY <2>8, SMT DEF Key, school, chains, faults
  <2>9. CASE Crash
    BY <2>9, SMT DEF Crash, Sticky, school, faults
  <2>10. CASE UNCHANGED vars
    BY <2>10, SMT DEF vars, school, chains, faults
  <2> QED
    BY <2>1, <2>2, <2>3, <2>4, <2>5, <2>6, <2>7, <2>8, <2>9, <2>10 DEF Next, Service
<1> QED
  BY <1>1, <1>2, ValuesInductive, StepsKeep, PTL DEF Spec

(* Unless a rule is refused or the list cannot be read, the service comes  *)
(* to rest with exactly the locked applications, and what was not cleared, *)
(* denied on each chain.                                                   *)
THEOREM RestsExact == Spec => []Exact
<1>1. (Values /\ Serial) /\ ChainsOpen /\ Denies => Exact
  BY SMT DEF ChainsOpen, OnlyLockedDenied, Denies, Exact, Denied, Locked, Left
<1> QED
  BY <1>1, ChainsKeep, DeniesKeep, ValuesInductive, PTL

-----------------------------------------------------------------------------
LEMMA NeverSchoolKeeps == Spec => []NeverSchool
<1> USE FireWallConstants DEF Values, Serial, Rows, NeverSchool, Others
<1>1. Init => NeverSchool
  BY SMT DEF Init, NoRows
<1>2. (Values /\ Serial) /\ NeverSchool /\ [Next]_vars => NeverSchool'
  <2> SUFFICES ASSUME Values, Serial, NeverSchool, [Next]_vars PROVE NeverSchool'
    OBVIOUS
  <2>1. ASSUME NEW a \in Apps, Change(a) PROVE NeverSchool'
    BY <2>1, SMT DEF Change, chains, faults
  <2>2. CASE Broadcast
    BY <2>2, SMT DEF Broadcast, chains, faults
  <2>3. CASE StartCommand
    BY <2>3, SMT DEF StartCommand, Start, clearFireWall, Clears, Chains
  <2>4. CASE Query
    BY <2>4, SMT DEF Query, school, chains, faults
  <2>5. ASSUME NEW a \in Apps, Row(a) PROVE NeverSchool'
    BY <2>5, SMT DEF Row, Stored, school, chains, faults
  <2>6. CASE Done
    BY <2>6, SMT DEF Done, school, chains, faults
  <2>7. CASE Post
    BY <2>7, SMT DEF Post, school, chains, faults
  <2>8. ASSUME NEW a \in Apps, Key(a) PROVE NeverSchool'
    BY <2>8, SMT DEF Key, school, chains, faults
  <2>9. CASE Crash
    BY <2>9, SMT DEF Crash, Sticky, school, faults
  <2>10. CASE UNCHANGED vars
    BY <2>10, SMT DEF vars, school, chains, faults
  <2> QED
    BY <2>1, <2>2, <2>3, <2>4, <2>5, <2>6, <2>7, <2>8, <2>9, <2>10 DEF Next, Service
<1> QED
  BY <1>1, <1>2, ValuesInductive, PTL DEF Spec

(* A school application with a uid of its own is never denied anything,    *)
(* even if the list has it locked.                                         *)
THEOREM SchoolIsFree ==
  ASSUME \A a \in Apps \ {School} : Uid[a] # Uid[School] PROVE Spec => []SchoolFree
<1>1. NeverSchool => SchoolFree
  BY DEF NeverSchool, Others, SchoolFree
<1> QED
  BY <1>1, NeverSchoolKeeps, PTL

-----------------------------------------------------------------------------
(* What the service still has to do.  A cancelled task that runs comes     *)
(* before the one that waits for it.                                       *)
Stage    == IF stale THEN 6 ELSE [queued |-> 5, running |-> 4, posted |-> 3, none |-> 2][phase]
Unstored == {a \in Apps : rows[a] # "none"}

Fewer(new, old) == new \subseteq old /\ new # old

Nearer ==
  \/ Stage' < Stage
  \/ Stage' = Stage /\ Fewer(Unstored', Unstored) /\ keys' = keys
  \/ Stage' = Stage /\ Fewer(keys', keys) /\ Unstored' = Unstored

AtRest == phase = "none" /\ keys = {}

WindsDown == Fresh /\ Fresh' => Nearer /\ ~AtRest

(* From the start for the last change on the service only gets nearer to   *)
(* its rest: to the next stage, or by one row or one key within a stage;   *)
(* cancelled tasks and refused rules make it do nothing again.  Once at    *)
(* rest, with what RestsExact says of the chains, nothing moves.           *)
THEOREM ServiceWindsDown == Spec => [][WindsDown]_vars
<1> USE FireWallConstants DEF Values, Flags, Serial, Rows, Fresh
<1>1. ASSUME Values, Flags, Serial, Next, Fresh, Fresh' PROVE Nearer /\ ~AtRest
  <2> USE DEF Nearer, AtRest, Stage
  <2>1. ASSUME NEW a \in Apps, Change(a) PROVE FALSE
    BY <1>1, <2>1 DEF Change
  <2>2. ~Broadcast /\ ~Crash /\ ~StartCommand
    BY <1>1 DEF Broadcast, Crash, Sticky, StartCommand, Start
  <2>3. CASE Query
    BY <1>1, <2>3 DEF Query, SerialExecutor
  <2>4. ASSUME NEW a \in Apps, Row(a) PROVE Nearer /\ ~AtRest
    <3>1. Fewer(Unstored', Unstored)
      BY <1>1, <2>4 DEF Row, Fewer, Unstored
    <3> QED
      BY <1>1, <2>4, <3>1 DEF Row
  <2>5. CASE Done
    BY <1>1, <2>5 DEF Done
  <2>6. CASE Post
    BY <1>1, <2>6 DEF Post
  <2>7. ASSUME NEW a \in Apps, Key(a) PROVE Nearer /\ ~AtRest
    <3>1. Fewer(keys', keys) /\ Unstored' = Unstored
      BY <1>1, <2>7 DEF Key, Fewer, Unstored
    <3> QED
      BY <1>1, <2>7, <3>1 DEF Key
  <2> QED
    BY <1>1, <2>1, <2>2, <2>3, <2>4, <2>5, <2>6, <2>7 DEF Next, Service
<1>2. Values /\ Serial /\ Flags /\ [Next]_vars => [WindsDown]_vars
  BY <1>1 DEF WindsDown
<1> QED
  BY <1>2, ValuesInductive, FlagsInductive, PTL DEF Spec
=============================================================================
