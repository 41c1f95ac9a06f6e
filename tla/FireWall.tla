------------------------------ MODULE FireWall ------------------------------
(***************************************************************************)
(* StudentTrafficManage: the school's application keeps a list of locked   *)
(* and unlocked applications and broadcasts its changes; MyFireWallService *)
(* copies the list to its preferences in an AsyncTask and, on the main     *)
(* thread, denies the locked ones WiFi and mobile data.                    *)
(*                                                                         *)
(* Every call to the network service and the query may fail, which the     *)
(* code passes over.  Rows of packages that are not installed are skipped  *)
(* by the code and left out here; a package keeps its uid.                 *)
(***************************************************************************)
EXTENDS Integers

CONSTANTS
  Apps, School, \* packages; School is com.xycm.schoolbased
  Uids, Uid,    \* packages may share a uid
  MaxPending    \* bound: broadcasts on their way

ASSUME FireWallConstants ==
  /\ School \in Apps /\ Uid \in [Apps -> Uids]
  /\ MaxPending \in Nat /\ MaxPending > 0

VARIABLES
  list,    \* what the provider holds: "none" for no row
  told,    \* the last change has been broadcast
  pending, \* broadcasts on their way
  restart, \* the process died: the system starts the service again
  prefs,   \* myfirewall
  phase,   \* of mQueryDataAsyncTask
  stale,   \* a cancelled task still runs
  rows,    \* rows that the running task has yet to store
  keys,    \* keys that setFireWall has yet to look at
  wifi, mobile, \* uids denied in each chain
  kept,    \* uids that a failed clearing left in each chain at the last start
  failed   \* what else has failed since the last start

school == <<list, told, pending>>
chains == <<wifi, mobile>>
faults == <<kept, failed>>
vars   == <<school, restart, prefs, phase, stale, rows, keys, chains, faults>>

Chains == {"wifi", "mobile"}

NoRows == [a \in Apps |-> "none"]

Init ==
  /\ list = NoRows /\ told = TRUE /\ pending = 0 /\ restart = FALSE
  /\ prefs = NoRows /\ phase = "none" /\ stale = FALSE /\ rows = NoRows /\ keys = {}
  /\ wifi = {} /\ mobile = {}
  /\ kept = [c \in Chains |-> {}] /\ failed = {}

-----------------------------------------------------------------------------
(* The school's application.                                               *)
Change(a) ==
  /\ \E s \in {"none", "lock", "unlock"} : list' = [list EXCEPT ![a] = s]
  /\ told' = FALSE
  /\ UNCHANGED <<pending, restart, prefs, phase, stale, rows, keys, chains, faults>>

Broadcast ==
  /\ pending < MaxPending /\ pending' = pending + 1 /\ told' = TRUE
  /\ UNCHANGED <<list, restart, prefs, phase, stale, rows, keys, chains, faults>>

-----------------------------------------------------------------------------
\* Mistake: only the WiFi chain is cleared.
ClearWifi(cleared) ==
  wifi' = (IF "wifi" \in cleared THEN {} ELSE wifi) /\ UNCHANGED mobile

clearFireWall(cleared) ==
  /\ wifi' = IF "wifi" \in cleared THEN {} ELSE wifi
  /\ mobile' = IF "mobile" \in cleared THEN {} ELSE mobile

(* Without mNetworkService nothing is cleared; a RemoteException of either *)
(* call ends the clearing, and the service goes on.                        *)
Clears == {{}, {"wifi"}, {"wifi", "mobile"}}

Start == \/ restart /\ restart' = FALSE /\ UNCHANGED pending
         \/ pending > 0 /\ pending' = pending - 1 /\ restart' = FALSE

(* onStartCommand, for a broadcast or after a restart.  A cancelled task   *)
(* that waits never runs; one that runs goes on, and does not call         *)
(* setFireWall.                                                            *)
StartCommand ==
  /\ keys = {} /\ Start
  /\ \E cleared \in Clears :
       /\ clearFireWall(cleared)
       /\ kept' = [c \in Chains |-> IF c \in cleared THEN {} ELSE IF c = "wifi" THEN wifi ELSE mobile]
  /\ failed' = {}
  /\ stale' = (stale \/ phase = "running") /\ phase' = "queued"
  /\ UNCHANGED <<list, told, prefs, rows, keys>>

SerialExecutor == ~stale

(* quertBlackApp: the query, which may yield no cursor.                    *)
Query ==
  /\ phase = "queued" /\ SerialExecutor
  /\ phase' = "running"
  /\ \/ rows' = list /\ UNCHANGED failed
     \/ rows' = NoRows /\ failed' = failed \cup {"query"}
  /\ UNCHANGED <<school, restart, prefs, stale, keys, chains, kept>>

\* Mistakes: the school's application is not exempted; unlocked rows are not stored.
StoredAsIs(a, old) == rows[a]
StoredLocks(a, old) == IF rows[a] = "unlock" THEN old ELSE rows[a]

Stored(a, old) == IF a = School THEN "unlock" ELSE rows[a]

(* quertBlackApp: one row.                                                 *)
Row(a) ==
  /\ stale \/ phase = "running"
  /\ rows[a] # "none" /\ rows' = [rows EXCEPT ![a] = "none"]
  /\ prefs' = [prefs EXCEPT ![a] = Stored(a, @)]
  /\ UNCHANGED <<school, restart, phase, stale, keys, chains, faults>>

(* doInBackground returns.                                                 *)
Done ==
  /\ rows = NoRows
  /\ \/ stale /\ stale' = FALSE /\ UNCHANGED phase
     \/ ~stale /\ phase = "running" /\ phase' = "posted" /\ UNCHANGED stale
  /\ UNCHANGED <<school, restart, prefs, rows, keys, chains, faults>>

(* onPostExecute: setFireWall.                                             *)
Post ==
  /\ phase = "posted" /\ phase' = "none"
  /\ keys' = {a \in Apps : prefs[a] # "none"}
  /\ UNCHANGED <<school, restart, prefs, stale, rows, chains, faults>>

(* One key: nothing is done for an unlocked one.  A rule may be refused,   *)
(* which leaves the rest of its key undone.                                *)
Key(a) ==
  /\ a \in keys /\ keys' = keys \ {a}
  /\ \/ /\ prefs[a] = "lock"
        /\ wifi' = wifi \cup {Uid[a]} /\ mobile' = mobile \cup {Uid[a]} /\ UNCHANGED failed
     \/ /\ prefs[a] = "lock" /\ failed' = failed \cup {"rule"}
        /\ UNCHANGED wifi \/ wifi' = wifi \cup {Uid[a]}
        /\ UNCHANGED mobile
     \/ prefs[a] # "lock" /\ UNCHANGED <<chains, failed>>
  /\ UNCHANGED <<school, restart, prefs, phase, stale, rows, kept>>

\* Mistake: onStartCommand returns START_NOT_STICKY.
NotSticky == FALSE

Sticky == TRUE

(* The process dies, between the two calls of clearFireWall perhaps; the   *)
(* rules and the preferences stay.                                         *)
Crash ==
  /\ phase # "none" \/ keys # {} \/ pending > 0
  /\ restart' = Sticky
  /\ phase' = "none" /\ stale' = FALSE /\ rows' = NoRows /\ keys' = {}
  /\ UNCHANGED wifi \/ (keys = {} /\ wifi' = {})
  /\ UNCHANGED <<school, prefs, mobile, faults>>

Service == StartCommand \/ Query \/ Done \/ Post \/ (\E a \in Apps : Row(a) \/ Key(a))
Next    == Broadcast \/ Crash \/ Service \/ (\E a \in Apps : Change(a))

(* The service's threads run; changes, broadcasts and crashes are free.    *)
Spec == Init /\ [][Next]_vars /\ WF_vars(Service)

-----------------------------------------------------------------------------
Rows == [Apps -> {"none", "lock", "unlock"}]

Values ==
  /\ list \in Rows /\ prefs \in Rows /\ rows \in Rows
  /\ pending \in 0 .. MaxPending
  /\ phase \in {"none", "queued", "running", "posted"}
  /\ keys \subseteq Apps /\ wifi \subseteq Uids /\ mobile \subseteq Uids
  /\ kept \in [Chains -> SUBSET Uids] /\ failed \subseteq {"query", "rule"}

Flags == told \in BOOLEAN /\ restart \in BOOLEAN /\ stale \in BOOLEAN

(* Every variable stays within its type.                                   *)
TypeOK == Values /\ Flags

(* Off the list, but locked when it was last stored: nothing removes keys. *)
Left(a) == list[a] = "none" /\ prefs[a] = "lock"

Locked == {Uid[a] : a \in {b \in Apps \ {School} : list[b] = "lock" \/ Left(b)}}

(* The service has been told of the last change and has started for it.    *)
Fresh == told /\ pending = 0 /\ ~restart

(* From the moment the service starts for the last change, an application  *)
(* that is neither locked nor left over is not denied anything but by a    *)
(* rule that the start failed to clear, if it could read the list:         *)
(* cancelled tasks that are still storing an older list, crashes and       *)
(* refused rules notwithstanding.                                          *)
OnlyLockedDenied ==
  Fresh /\ "query" \notin failed =>
    wifi \subseteq Locked \cup kept["wifi"] /\ mobile \subseteq Locked \cup kept["mobile"]

Denied == wifi = Locked \cup kept["wifi"] /\ mobile = Locked \cup kept["mobile"]

(* When the service has come to rest the chains deny exactly the locked    *)
(* applications, and what the start failed to clear, however its starts    *)
(* overlapped and wherever it crashed, if since it started it could read   *)
(* the list and no rule has been refused.                                  *)
Exact == Fresh /\ phase = "none" /\ keys = {} /\ failed = {} => Denied

(* The school's own application is never denied anything.                  *)
SchoolFree == Uid[School] \notin wifi \cup mobile

(* When changes, broadcasts and crashes come to an end, the chains deny    *)
(* the locked applications, and what the last start failed to clear, for   *)
(* good, or the list was not read or a rule refused.                       *)
Settles == <>[]Fresh => <>[](failed # {} \/ Denied)
=============================================================================
