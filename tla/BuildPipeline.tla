--------------------------- MODULE BuildPipeline ---------------------------
(***************************************************************************)
(* The build scripts (makeBird, main, clone.sh, build_action.sh and        *)
(* copy_and_pac.sh): one invocation after the other on one source tree.    *)
(*                                                                         *)
(* Copying, lunch, make and the cp of a packaging may fail at any time and *)
(* an invocation may be killed between any two steps (rm, mv and mkdir of  *)
(* the packaging succeed).  The flow of PIPESTATUS through build_action.sh *)
(* is that of bash.  Images and OTA archives are reduced to where they come   *)
(* from, a package to whether it is a full one.  make, lunch and the file  *)
(* system are the environment.  The targets that neither clone nor package *)
(* stand under "snod"; the mode only changes the name lunch is given.      *)
(***************************************************************************)
EXTENDS Integers, FiniteSets

CONSTANTS
  Projects,   \* BIRD_BUILD_PROJECT_MK_NAME
  None,       \* no project, or no images
  Mixed,      \* files of no one project
  Products, Product, \* out/target/product/*, numbered in the order of *; of each project
  Actions,
  Asked,      \* bound: what is asked for which project
  MaxFaults   \* bound: invocations killed, and packagings whose cp fails

ASSUME BuildConstants ==
  /\ None \notin Projects \cup {Mixed} /\ Mixed \notin Projects
  /\ Products \subseteq Nat /\ Product \in [Projects -> Products]
  /\ Actions \subseteq {"new", "r", "R", "ota", "snod", "clean", "clone", "copybin"}
  /\ MaxFaults \in Nat

ASSUME BuildBound == Asked \subseteq Projects \X Actions

Trees == Projects \cup {Mixed}
Otas  == {"none", "same", "older"}

Packages == {"none", "part", "full"}

VARIABLES
  pc, proj, action, \* the invocation
  pipestatus, \* PIPESTATUS[0] in build_action.sh, 0 or 1
  tree,     \* the project whose files the source tree holds, or Mixed
  img,      \* of each product: the tree its images were built from
  built,    \* of each product: its images are those of a make that succeeded
  ota,      \* of each product: an OTA archive, of the images or older
  pkg, old, \* of each project: the package directory and its _old
  since,    \* ghost: of each project, the packagings since its last full one,
            \* 2 for more or when there was none
  littered, \* ghost: the make clean of this invocation failed
  faults

invocation == <<proj, action>>
output     == <<img, built, ota>>
packages   == <<pkg, old, since>>
vars       == <<pc, invocation, pipestatus, tree, output, packages, littered, faults>>

Init ==
  /\ pc = "idle" /\ proj = None /\ action = "none" /\ pipestatus = 0
  /\ tree = Mixed
  /\ img = [d \in Products |-> None] /\ built = [d \in Products |-> FALSE]
  /\ ota = [d \in Products |-> "none"]
  /\ pkg = [p \in Projects |-> "none"] /\ old = [p \in Projects |-> "none"]
  /\ since = [p \in Projects |-> 2] /\ littered = FALSE /\ faults = 0

Mine == Product[proj]

-----------------------------------------------------------------------------
(* main: the arguments; what comes first depends on the action.            *)
Start(p, a) ==
  /\ pc = "idle" /\ proj' = p /\ action' = a /\ littered' = FALSE /\ pipestatus' = 0
  /\ pc' = CASE a \in {"clone", "new", "R", "ota"} -> "clone"
             [] a = "copybin" -> "remove"
             [] OTHER -> "lunch"
  /\ UNCHANGED <<tree, output, packages, faults>>

(* clone.sh up to its last command.  The cp -a lay the files over what is  *)
(* there and delete nothing; a part that fails is not noticed, and         *)
(* drive_only copies a part on purpose: the tree may come to hold the      *)
(* project's files, a mixture, or still what it held.                      *)
CopyFiles ==
  /\ pc = "clone" /\ tree' \in {proj, Mixed, tree} /\ pc' = "modify"
  /\ UNCHANGED <<invocation, pipestatus, output, packages, littered, faults>>

(* bird_config_modify.sh, whose status is that of clone.sh.                *)
Modify ==
  /\ pc = "modify"
  /\ \/ pc' = (IF action = "clone" THEN "idle" ELSE "lunch")
     \/ pc' = "idle"
  /\ UNCHANGED <<invocation, pipestatus, tree, output, packages, littered, faults>>

-----------------------------------------------------------------------------
\* Mistake: new goes without make clean.
CleanedByOta == {"ota", "clean"}

Cleaned == {"new", "ota", "clean"}

(* build_action.sh: lunch may fail, and ends it.                           *)
Lunch ==
  /\ pc = "lunch" /\ pc' \in {"idle", IF action \in Cleaned THEN "clean" ELSE "make"}
  /\ UNCHANGED <<invocation, pipestatus, tree, output, packages, littered, faults>>

(* make clean: new and ota go on whatever its status is.  One that fails   *)
(* leaves the output of some products, in part.                            *)
Clean ==
  /\ pc = "clean" /\ pc' = IF action = "clean" THEN "status" ELSE "make"
  /\ \E left \in SUBSET Products, failed \in BOOLEAN :
       /\ left # {} => failed
       /\ img' = [d \in Products |-> IF d \in left THEN img[d] ELSE None]
       /\ ota' = [d \in Products |-> IF d \in left THEN ota[d] ELSE "none"]
       /\ pipestatus' = (IF failed THEN 1 ELSE 0) /\ littered' = failed
  /\ built' = [d \in Products |-> FALSE]
  /\ UNCHANGED <<invocation, tree, packages, faults>>

Older(o) == IF o = "none" THEN "none" ELSE "older"

(* make | tee: the pipeline leaves the status of make in PIPESTATUS[0].    *)
(* Only a make of everything that succeeds on a cleaned product surely     *)
(* makes its images of the tree: a failed one and the targets under snod   *)
(* leave some old ones, and cp -a keeps the times make goes by.            *)
Make ==
  /\ pc = "make" /\ pc' = IF action = "ota" THEN "test" ELSE "status"
  /\ \E ok \in BOOLEAN, new \in {tree, img[Mine], Mixed} :
       /\ ok /\ action # "snod" /\ img[Mine] = None => new = tree
       /\ img' = [img EXCEPT ![Mine] = new]
       /\ built' = [built EXCEPT ![Mine] = ok /\ (action = "snod" => @)]
       /\ pipestatus' = IF ok THEN 0 ELSE 1
  /\ ota' = [ota EXCEPT ![Mine] = Older(@)]
  /\ UNCHANGED <<invocation, tree, packages, littered, faults>>

\* Mistake: it is $? that is looked at after the if of the ota branch.
StatusOfIf == 0

(* What [ ${PIPESTATUS[0]} == "0" ] leaves in PIPESTATUS itself.           *)
StatusOfTest == IF pipestatus = 0 THEN 0 ELSE 1

(* The if of the ota branch.                                               *)
TestMake ==
  /\ pc = "test" /\ pc' = IF pipestatus = 0 THEN "otapackage" ELSE "status"
  /\ pipestatus' = StatusOfTest
  /\ UNCHANGED <<invocation, tree, output, packages, littered, faults>>

OtaPackage ==
  /\ pc = "otapackage" /\ pc' = "status"
  /\ \/ ota' = [ota EXCEPT ![Mine] = "same"] /\ pipestatus' = 0
     \/ UNCHANGED ota /\ pipestatus' = 1
  /\ UNCHANGED <<invocation, tree, img, built, packages, littered, faults>>

Packaged == {"new", "r", "R", "ota"}

(* The exit status of build_action.sh, and what main makes of it.          *)
ExitStatus ==
  /\ pc = "status" /\ pc' = IF pipestatus = 0 /\ action \in Packaged THEN "remove" ELSE "idle"
  /\ UNCHANGED <<invocation, pipestatus, tree, output, packages, littered, faults>>

-----------------------------------------------------------------------------
Worse(n) == IF n = 0 THEN 1 ELSE 2

(* copy_and_pac.sh                                                         *)
RemoveOld ==
  /\ pc = "remove" /\ pc' = "move"
  /\ old' = [old EXCEPT ![proj] = "none"]
  /\ UNCHANGED <<invocation, pipestatus, tree, output, pkg, since, littered, faults>>

\* Mistake: the previous package is deleted instead of moved.
NothingKept == "none"

Kept == pkg[proj]

MovePrevious ==
  /\ pc = "move" /\ pc' = "copy"
  /\ old' = [old EXCEPT ![proj] = Kept]
  /\ pkg' = [pkg EXCEPT ![proj] = "none"]
  /\ UNCHANGED <<invocation, pipestatus, tree, output, since, littered, faults>>

(* cp does not overwrite what it has just copied: of several products the  *)
(* first one's images are packaged.  [ -e ] with several files is false.   *)
Present == {d \in Products : img[d] # None}
WithOta == {d \in Products : ota[d] # "none"}
Copied  == CHOOSE d \in Present : \A e \in Present : d <= e

CopiedImg == IF Present = {} THEN None ELSE img[Copied]

CopiedOta == IF Cardinality(WithOta) # 1 THEN "none"
             ELSE LET d == CHOOSE e \in WithOta : TRUE
                  IN IF img[d] = CopiedImg THEN ota[d] ELSE "older"

(* All the images of a make that succeeded are there to be copied.         *)
Complete == Present # {} /\ built[Copied]

(* A cp that fails, or that finds nothing to copy, is ignored.             *)
CopyOut ==
  /\ pc = "copy" /\ pc' = "idle"
  /\ \E failed \in {FALSE} \cup (IF faults < MaxFaults THEN {TRUE} ELSE {}) :
       /\ pkg' = [pkg EXCEPT ![proj] = IF Complete /\ ~failed THEN "full" ELSE "part"]
       /\ since' = [since EXCEPT ![proj] = IF Complete /\ ~failed THEN 0 ELSE Worse(@)]
       /\ faults' = IF failed THEN faults + 1 ELSE faults
  /\ UNCHANGED <<invocation, pipestatus, tree, output, old, littered>>

-----------------------------------------------------------------------------
(* The invocation is killed (a copy or a make that is cut short is one     *)
(* that fails, before).                                                    *)
Kill ==
  /\ pc # "idle" /\ pc' = "idle" /\ faults < MaxFaults /\ faults' = faults + 1
  /\ since' = IF pc \in {"move", "copy"} THEN [since EXCEPT ![proj] = Worse(@)] ELSE since
  /\ UNCHANGED <<invocation, pipestatus, tree, output, pkg, old, littered>>

Invoke == \E p \in Projects, a \in Actions : <<p, a>> \in Asked /\ Start(p, a)
BuildAction == Lunch \/ Clean \/ Make \/ TestMake \/ OtaPackage \/ ExitStatus
CopyAndPac  == RemoveOld \/ MovePrevious \/ CopyOut
Next == Invoke \/ CopyFiles \/ Modify \/ BuildAction \/ CopyAndPac \/ Kill
Spec == Init /\ [][Next]_vars

-----------------------------------------------------------------------------
Packaging == {"remove", "move", "copy"}

(* Every variable stays within its type.                                   *)
TypeOK ==
  /\ pc \in {"idle", "clone", "modify", "lunch", "clean", "make", "test", "otapackage", "status"} \cup Packaging
  /\ proj \in Projects \cup {None} /\ action \in Actions \cup {"none"} /\ pipestatus \in {0, 1}
  /\ tree \in Trees
  /\ img \in [Products -> Trees \cup {None}] /\ built \in [Products -> BOOLEAN]
  /\ ota \in [Products -> Otas]
  /\ pkg \in [Projects -> Packages] /\ old \in [Projects -> Packages]
  /\ since \in [Projects -> 0 .. 2] /\ littered \in BOOLEAN /\ faults \in 0 .. MaxFaults

(* Only a build that succeeded, its OTA archive included, is packaged,     *)
(* except for copybin: the status of make gets past make clean, past the   *)
(* test of the ota branch, which sets PIPESTATUS itself, and past main.    *)
PackagesSuccess ==
  pc \in Packaging /\ action # "copybin" =>
    built[Mine] /\ (action = "ota" => ota[Mine] = "same")

(* new and ota package what this invocation made of the tree, and an OTA   *)
(* archive of that very build, whatever other products and builds were     *)
(* made, failed or killed before: unless its make clean failed, which      *)
(* build_action.sh does not ask.                                           *)
PackagesOwnBuild ==
  pc \in Packaging /\ action \in {"new", "ota"} /\ ~littered =>
    CopiedImg = tree /\ CopiedOta = IF action = "ota" THEN "same" ELSE "none"

(* "keep the last one": a packaging that failed, was killed or found no    *)
(* complete build to copy leaves the full package there was before it, as  *)
(* the package or as _old.  (Two of them in a row may lose it.)            *)
KeepsAPackage ==
  pc = "idle" => \A p \in Projects : since[p] < 2 => pkg[p] = "full" \/ old[p] = "full"
=============================================================================
