------------------------ MODULE BuildPipelineProofs ------------------------
(***************************************************************************)
(* Theorems of BuildPipeline, for any projects, products and actions.      *)
(***************************************************************************)
EXTENDS BuildPipeline, FiniteSetTheorems, WellFoundedInduction, TLAPS

Building == pc # "idle" => proj \in Projects /\ action \in Actions

Types ==
  /\ Building
  /\ proj \in Projects \cup {None} /\ tree \in Trees
  /\ built \in [Products -> BOOLEAN]
  /\ img \in [Products -> Trees \cup {None}]
  /\ ota \in [Products -> Otas]
  /\ DOMAIN pkg = Projects /\ DOMAIN old = Projects
  /\ since \in [Projects -> 0 .. 2]

(* The first product with images is one of them.                           *)
LEMMA CopiedTyped == TypeOK /\ Present # {} => Copied \in Present
<1> SUFFICES ASSUME TypeOK, Present # {} PROVE Copied \in Present
  OBVIOUS
<1>1. Present \subseteq Nat
  BY BuildConstants DEF Present
<1>2. PICK x \in Present : \A y \in Present : <<y, x>> \notin OpToRel(<, Nat)
  BY <1>1, NatLessThanWellFounded, WFMin
<1>3. \A y \in Present : x <= y
  <2> TAKE y \in Present
  <2>1. <<y, x>> \in OpToRel(<, Nat) <=> <<y, x>> \in Nat \X Nat /\ y < x
    BY DEF OpToRel
  <2>2. ~(<<y, x>> \in Nat \X Nat /\ y < x)
    BY <1>2, <2>1, Zenon
  <2>3. x \in Nat /\ y \in Nat
    BY <1>1, <1>2, Zenon
  <2> QED
    BY <2>2, <2>3
<1> QED
  BY <1>2, <1>3, Zenon DEF Copied

LEMMA TypesInductive == Spec => [](TypeOK /\ Building)
<1> USE BuildConstants DEF Building, Packaging, Trees
<1>1. Init => TypeOK /\ Building
  <2> SUFFICES ASSUME Init PROVE TypeOK /\ Building
    OBVIOUS
  <2>1. proj \in Projects \cup {None} /\ tree \in Trees /\ img \in [Products -> Trees \cup {None}]
    BY DEF Init
  <2>2. built \in [Products -> BOOLEAN] /\ ota \in [Products -> Otas]
    BY DEF Init, Otas
  <2>3. pkg \in [Projects -> Packages] /\ old \in [Projects -> Packages] /\ since \in [Projects -> 0 .. 2]
    BY DEF Init, Packages
  <2>4. pc = "idle" /\ action = "none" /\ pipestatus = 0 /\ faults \in 0 .. MaxFaults
    BY DEF Init
  <2>5. littered \in BOOLEAN
    BY Zenon DEF Init
  <2> QED
    BY <2>1, <2>2, <2>3, <2>4, <2>5 DEF TypeOK
<1>2. TypeOK /\ Building /\ [Next]_vars => TypeOK' /\ Building'
  <2> SUFFICES ASSUME TypeOK, Building, [Next]_vars PROVE TypeOK' /\ Building'
    OBVIOUS
  <2> USE DEF TypeOK
  <2>1. CASE Invoke
    BY <2>1 DEF Invoke, Start, output, packages
  <2>2. CASE CopyFiles \/ Modify
    BY <2>2, SMT DEF CopyFiles, Modify, invocation, output, packages
  <2>3. CASE Lunch
    BY <2>3 DEF Lunch, invocation, packages, output
  <2>4. CASE Clean
    <3>1. PICK left \in SUBSET Products, failed \in BOOLEAN :
            /\ img' = [d \in Products |-> IF d \in left THEN img[d] ELSE None]
            /\ ota' = [d \in Products |-> IF d \in left THEN ota[d] ELSE "none"]
            /\ pipestatus' = (IF failed THEN 1 ELSE 0) /\ littered' = failed
      BY <2>4, Zenon DEF Clean
    <3>2. img' \in [Products -> Trees \cup {None}] /\ ota' \in [Products -> Otas]
      BY <3>1 DEF Otas
    <3>3. pipestatus' \in {0, 1} /\ littered' \in BOOLEAN
      BY <3>1, Zenon
    <3> QED
      BY <2>4, <3>2, <3>3 DEF Clean, invocation, packages
  <2>5. CASE Make
    <3>1. Mine \in Products
      BY <2>5 DEF Make, Mine
    <3>2. PICK ok \in BOOLEAN, new \in {tree, img[Mine], Mixed} :
            /\ img' = [img EXCEPT ![Mine] = new]
            /\ built' = [built EXCEPT ![Mine] = ok /\ (action = "snod" => @)]
            /\ pipestatus' = IF ok THEN 0 ELSE 1
      BY <2>5, Zenon DEF Make
    <3>3. img' \in [Products -> Trees \cup {None}]
      BY <3>1, <3>2
    <3>4. built' \in [Products -> BOOLEAN]
      <4>1. (ok /\ (action = "snod" => built[Mine])) \in BOOLEAN
        OBVIOUS
      <4> QED
        BY <3>1, <3>2, <4>1
    <3>5. pipestatus' \in {0, 1}
      BY <3>2, Zenon
    <3>6. ota' \in [Products -> Otas]
      BY <2>5, <3>1 DEF Make, Older, Otas
    <3> QED
      BY <2>5, <3>3, <3>4, <3>5, <3>6 DEF Make, invocation, packages
  <2>6. CASE TestMake \/ ExitStatus
    BY <2>6, SMT DEF TestMake, ExitStatus, StatusOfTest, invocation, output, packages
  <2>7. CASE OtaPackage
    <3>1. Mine \in Products
      BY <2>7 DEF OtaPackage, Mine
    <3>2. ota' \in [Products -> Otas]
      BY <2>7, <3>1 DEF OtaPackage, Otas
    <3> QED
      BY <2>7, <3>2 DEF OtaPackage, invocation, packages
  <2>8. CASE CopyAndPac
    <3>1. CASE RemoveOld
      BY <3>1 DEF RemoveOld, Packages, invocation, output
    <3>2. CASE MovePrevious
      BY <3>2 DEF MovePrevious, Kept, Packages, invocation, output
    <3>3. CASE CopyOut
      <4>1. PICK failed \in {FALSE} \cup (IF faults < MaxFaults THEN {TRUE} ELSE {}) :
              /\ pkg' = [pkg EXCEPT ![proj] = IF Complete /\ ~failed THEN "full" ELSE "part"]
              /\ since' = [since EXCEPT ![proj] = IF Complete /\ ~failed THEN 0 ELSE Worse(@)]
              /\ faults' = IF failed THEN faults + 1 ELSE faults
        BY <3>3, Zenon DEF CopyOut
      <4>2. pkg' \in [Projects -> Packages]
        BY <4>1 DEF Packages
      <4>3. since' \in [Projects -> 0 .. 2]
        <5>1. Worse(since[proj]) \in 0 .. 2
          BY SMT DEF Worse
        <5>2. (IF Complete /\ ~failed THEN 0 ELSE Worse(since[proj])) \in 0 .. 2
          BY <5>1
        <5> QED
          BY <4>1, <5>2
      <4>4. faults' \in 0 .. MaxFaults
        <5>1. CASE failed
          <6>1. faults < MaxFaults /\ faults' = faults + 1
            BY <5>1, <4>1, Zenon
          <6> QED
            BY <6>1
        <5>2. CASE ~failed
          BY <5>2, <4>1
        <5> QED
          BY <5>1, <5>2
      <4> QED
        BY <3>3, <4>2, <4>3, <4>4 DEF CopyOut, invocation, output
    <3> QED
      BY <2>8, <3>1, <3>2, <3>3 DEF CopyAndPac
  <2>9. CASE Kill
    BY <2>9 DEF Kill, Worse, invocation, packages, output
  <2>10. CASE UNCHANGED vars
    BY <2>10, SMT DEF vars, invocation, output, packages
  <2> QED
    BY <2>1, <2>2, <2>3, <2>4, <2>5, <2>6, <2>7, <2>8, <2>9, <2>10 DEF Next, BuildAction
<1> QED
  BY <1>1, <1>2, PTL DEF Spec

(* Type correctness, for any projects, products and faults.                *)
THEOREM TypeCorrect == Spec => []TypeOK
BY TypesInductive, PTL

LEMMA TypesHold == Spec => []Types
<1>1. TypeOK /\ Building => Types
  BY DEF TypeOK, Types
<1> QED
  BY <1>1, TypesInductive, PTL

-----------------------------------------------------------------------------
(* What PIPESTATUS says of the build on its way to the exit: in the ota    *)
(* branch only after the archive was made.                                 *)
StatusInv ==
  /\ PackagesSuccess
  /\ pc \in {"test", "status"} /\ pipestatus = 0 /\ action \in Packaged => built[Mine]
  /\ pc = "status" /\ pipestatus = 0 /\ action = "ota" => ota[Mine] = "same"
  /\ pc = "otapackage" => built[Mine]
  /\ pc \in {"test", "otapackage"} => action = "ota"

(* Only what was built without an error is packaged, copybin apart, for    *)
(* any products and faults.                                                *)
THEOREM SuccessPackaged == Spec => []PackagesSuccess
<1> USE BuildConstants DEF Types, Building, StatusInv, PackagesSuccess, Packaging
<1>1. Init => StatusInv
  BY SMT DEF Init
<1>2. Types /\ StatusInv /\ [Next]_vars => StatusInv'
  <2> SUFFICES ASSUME Types, StatusInv, [Next]_vars PROVE StatusInv'
    OBVIOUS
  <2>1. CASE Invoke
    BY <2>1, SMT DEF Invoke, Start
  <2>2. CASE CopyFiles \/ Modify
    BY <2>2, SMT DEF CopyFiles, Modify
  <2>3. CASE Lunch
    BY <2>3, SMT DEF Lunch
  <2>4. CASE Clean
    BY <2>4, SMT DEF Clean, Packaged, invocation
  <2>5. CASE Make
    <3>1. PICK ok \in BOOLEAN : /\ built' = [built EXCEPT ![Mine] = ok /\ (action = "snod" => @)]
                                /\ pipestatus' = IF ok THEN 0 ELSE 1
      BY <2>5, Zenon DEF Make
    <3>2. Mine \in Products /\ Mine' = Mine /\ action' = action
      BY <2>5 DEF Make, Mine, invocation
    <3>3. pc' = IF action = "ota" THEN "test" ELSE "status"
      BY <2>5 DEF Make
    <3>4. pipestatus' = 0 /\ action \in Packaged => built'[Mine]
      <4>1. pipestatus' = 0 => ok
        <5> SUFFICES ASSUME ~ok PROVE pipestatus' = 1
          OBVIOUS
        <5> QED
          BY <3>1, Zenon
      <4> QED
        BY <3>1, <3>2, <4>1 DEF Packaged
    <3> QED
      BY <3>2, <3>3, <3>4, SMT
  <2>6. CASE TestMake
    BY <2>6, SMT DEF TestMake, StatusOfTest, Packaged, Mine, invocation, output
  <2>7. CASE OtaPackage
    <3>1. Mine \in Products
      BY <2>7 DEF OtaPackage, Mine
    <3> QED
      BY <2>7, <3>1, SMT DEF OtaPackage, Mine, invocation
  <2>8. CASE ExitStatus
    BY <2>8, SMT DEF ExitStatus, Mine, invocation, output
  <2>9. CASE RemoveOld \/ MovePrevious
    BY <2>9, SMT DEF RemoveOld, MovePrevious, Mine, invocation, output
  <2>10. CASE CopyOut \/ Kill
    BY <2>10, Zenon DEF CopyOut, Kill
  <2>11. CASE UNCHANGED vars
    BY <2>11, SMT DEF vars, Mine, invocation, output
  <2> QED
    BY <2>1, <2>2, <2>3, <2>4, <2>5, <2>6, <2>7, <2>8, <2>9, <2>10, <2>11 DEF Next, BuildAction, CopyAndPac
<1>3. StatusInv => PackagesSuccess
  OBVIOUS
<1> QED
  BY <1>1, <1>2, <1>3, TypesHold, PTL DEF Spec

-----------------------------------------------------------------------------
Moved(p) == pc = "copy" /\ p = proj
Busy(p)  == pc \in {"move", "copy"} /\ p = proj

(* After a full packaging the package itself is full, until it is moved;   *)
(* after one that went wrong it or its _old is, until the next one begins. *)
KeptInv ==
  \A p \in Projects :
    /\ since[p] = 0 => IF Moved(p) THEN old[p] = "full" ELSE pkg[p] = "full"
    /\ since[p] = 1 => pkg[p] = "full" \/ old[p] = "full" \/ Busy(p)

(* A packaging that goes wrong leaves the full package there was, whatever *)
(* comes before and after it.                                              *)
THEOREM FullIsKept == Spec => []KeepsAPackage
<1> USE BuildConstants DEF Types, Building, KeptInv, Moved, Busy
<1>1. Init => KeptInv
  BY SMT DEF Init
<1>2. Types /\ KeptInv /\ [Next]_vars => KeptInv'
  <2> SUFFICES ASSUME Types, KeptInv, [Next]_vars, NEW p \in Projects
               PROVE  /\ since'[p] = 0 => IF Moved(p)' THEN old'[p] = "full" ELSE pkg'[p] = "full"
                      /\ since'[p] = 1 => pkg'[p] = "full" \/ old'[p] = "full" \/ Busy(p)'
    BY DEF KeptInv
  <2>1. CASE Invoke
    BY <2>1, SMT DEF Invoke, Start, packages
  <2>2. CASE CopyFiles \/ Modify \/ Lunch
    BY <2>2, SMT DEF CopyFiles, Modify, Lunch, packages
  <2>3. CASE Clean \/ Make \/ TestMake \/ OtaPackage \/ ExitStatus
    <3>1. UNCHANGED packages /\ pc \notin {"move", "copy"} /\ pc' \notin {"move", "copy"}
      BY <2>3, Zenon DEF Clean, Make, TestMake, OtaPackage, ExitStatus, packages
    <3> QED
      BY <3>1, SMT DEF packages
  <2>4. CASE RemoveOld
    BY <2>4, SMT DEF RemoveOld, invocation
  <2>5. CASE MovePrevious
    BY <2>5, SMT DEF MovePrevious, Kept, invocation
  <2>6. CASE CopyOut
    <3>1. PICK failed : /\ pkg' = [pkg EXCEPT ![proj] = IF Complete /\ ~failed THEN "full" ELSE "part"]
                        /\ since' = [since EXCEPT ![proj] = IF Complete /\ ~failed THEN 0 ELSE Worse(@)]
      BY <2>6, Zenon DEF CopyOut
    <3>2. pc = "copy" /\ pc' = "idle" /\ old' = old /\ proj' = proj
      BY <2>6 DEF CopyOut, invocation
    <3>3. CASE p = proj
      BY <3>1, <3>2, <3>3 DEF Worse
    <3>4. CASE p # proj
      BY <3>1, <3>2, <3>4
    <3> QED
      BY <3>3, <3>4
  <2>7. CASE Kill
    BY <2>7, SMT DEF Kill, Worse, invocation
  <2>8. CASE UNCHANGED vars
    BY <2>8, SMT DEF vars, invocation, packages
  <2> QED
    BY <2>1, <2>2, <2>3, <2>4, <2>5, <2>6, <2>7, <2>8 DEF Next, BuildAction, CopyAndPac
<1>3. Types /\ KeptInv => KeepsAPackage
  BY DEF KeepsAPackage
<1> QED
  BY <1>1, <1>2, <1>3, TypesHold, PTL DEF Spec

-----------------------------------------------------------------------------
Own == action \in {"new", "ota"} /\ ~littered

(* From a make clean that succeeded the only output is that of the         *)
(* product made since, and its images are of the tree once make succeeds.  *)
OwnInv ==
  /\ Own /\ pc = "make" => \A d \in Products : img[d] = None /\ ota[d] = "none"
  /\ Own /\ pc \in {"test", "otapackage", "status"} \cup Packaging => \A d \in Products : d # Mine => img[d] = None /\ ota[d] = "none"
  /\ Own /\ pc \in {"test", "status"} /\ pipestatus = 0 => img[Mine] = tree
  /\ Own /\ pc \in {"otapackage"} \cup Packaging => img[Mine] = tree
  /\ Own /\ pc = "status" /\ pipestatus = 0 => ota[Mine] = IF action = "ota" THEN "same" ELSE "none"
  /\ Own /\ pc \in Packaging => ota[Mine] = IF action = "ota" THEN "same" ELSE "none"
  /\ pc \in {"test", "otapackage"} => action = "ota"

LEMMA OwnCopied ==
  ASSUME Types, OwnInv, pc \in Packaging, Own
  PROVE  CopiedImg = tree /\ CopiedOta = IF action = "ota" THEN "same" ELSE "none"
<1> USE BuildConstants DEF Types, Building, OwnInv, Packaging
<1>1. Mine \in Products /\ tree # None
  BY DEF Mine, Trees
<1>2. Present = {Mine}
  <2>1. img[Mine] = tree /\ \A d \in Products : d # Mine => img[d] = None
    BY Zenon
  <2> QED
    BY <1>1, <2>1, Zenon DEF Present
<1> DEFINE Ota == IF action = "ota" THEN "same" ELSE "none"
<1>6. \A d \in Products : ota[d] = IF d = Mine THEN Ota ELSE "none"
  BY SMT
<1>3. CopiedImg = tree
  <2>1. \A d : (d \in {Mine} /\ \A e \in {Mine} : d <= e) <=> d = Mine
    BY <1>1, SMT
  <2>2. (CHOOSE d \in {Mine} : \A e \in {Mine} : d <= e) = Mine
    BY <2>1
  <2> QED
    BY <1>1, <1>2, <2>2 DEF CopiedImg, Copied
<1>4. CASE action = "ota"
  <2>1. WithOta = {Mine}
    <3>1. \A d \in Products : ota[d] # "none" <=> d = Mine
      BY <1>4, <1>6, SMT
    <3> QED
      BY <1>1, <3>1, Zenon DEF WithOta
  <2>2. Cardinality(WithOta) = 1
    BY <2>1, FS_Singleton
  <2>3. (CHOOSE e \in {Mine} : TRUE) = Mine
    OBVIOUS
  <2>4. ota[Mine] = "same" /\ img[Mine] = CopiedImg
    BY <1>1, <1>3, <1>4, SMT
  <2> QED
    BY <1>3, <1>4, <2>1, <2>2, <2>3, <2>4 DEF CopiedOta
<1>5. CASE action # "ota"
  <2>1. WithOta = {}
    <3>1. \A d \in Products : ota[d] = "none"
      BY <1>5, <1>6, SMT
    <3> QED
      BY <3>1, Zenon DEF WithOta
  <2>2. Cardinality(WithOta) = 0
    BY <2>1, FS_EmptySet
  <2> QED
    BY <1>3, <1>5, <2>2, SMT DEF CopiedOta
<1> QED
  BY <1>4, <1>5

(* new and ota package this invocation's build of the tree, for every      *)
(* assignment of products and any number of faults.                        *)
THEOREM OwnBuildPackaged == Spec => []PackagesOwnBuild
<1>1. Init => OwnInv
  BY SMT DEF Init, OwnInv, Packaging
<1>2. Types /\ OwnInv /\ [Next]_vars => OwnInv'
  <2> USE BuildConstants DEF Types, Building, OwnInv, Own, Packaging
  <2> SUFFICES ASSUME Types, OwnInv, [Next]_vars PROVE OwnInv'
    OBVIOUS
  <2>1. CASE Invoke
    BY <2>1, SMT DEF Invoke, Start
  <2>2. CASE CopyFiles \/ Modify
    BY <2>2, SMT DEF CopyFiles, Modify
  <2>3. CASE Lunch
    BY <2>3, SMT DEF Lunch, Cleaned, invocation
  <2>4. CASE Clean
    <3>1. PICK left \in SUBSET Products, failed \in BOOLEAN :
            /\ left # {} => failed
            /\ img' = [d \in Products |-> IF d \in left THEN img[d] ELSE None]
            /\ ota' = [d \in Products |-> IF d \in left THEN ota[d] ELSE "none"]
            /\ littered' = failed
      BY <2>4, Zenon DEF Clean
    <3>2. action' = action /\ pc' = IF action = "clean" THEN "status" ELSE "make"
      BY <2>4 DEF Clean, invocation
    <3>3. ~littered' => \A d \in Products : img'[d] = None /\ ota'[d] = "none"
      BY <3>1
    <3> QED
      BY <3>2, <3>3, SMT
  <2>5. CASE Make
    <3>1. PICK ok \in BOOLEAN, new \in {tree, img[Mine], Mixed} :
            /\ ok /\ action # "snod" /\ img[Mine] = None => new = tree
            /\ img' = [img EXCEPT ![Mine] = new]
            /\ pipestatus' = IF ok THEN 0 ELSE 1
      BY <2>5, Zenon DEF Make
    <3>2. /\ Mine \in Products /\ Mine' = Mine /\ tree' = tree /\ littered' = littered /\ action' = action
          /\ ota' = [ota EXCEPT ![Mine] = Older(@)] /\ pc = "make" /\ pc' = IF action = "ota" THEN "test" ELSE "status"
      BY <2>5 DEF Make, Mine, invocation
    <3>3. Own => \A d \in Products : ota'[d] = "none" /\ (d # Mine => img'[d] = None)
      BY <3>1, <3>2 DEF Older
    <3>4. pipestatus' = 0 => ok
      <4> SUFFICES ASSUME ~ok PROVE pipestatus' = 1
        OBVIOUS
      <4> QED
        BY <3>1, Zenon
    <3>5. Own /\ pipestatus' = 0 => img'[Mine] = tree
      BY <3>1, <3>2, <3>4
    <3> QED
      BY <3>2, <3>3, <3>5, SMT
  <2>6. CASE TestMake
    BY <2>6, SMT DEF TestMake, StatusOfTest, Mine, invocation, output
  <2>7. CASE OtaPackage
    <3>1. Mine \in Products /\ Mine' = Mine
      BY <2>7 DEF OtaPackage, Mine, invocation
    <3> QED
      BY <2>7, <3>1, SMT DEF OtaPackage, invocation
  <2>8. CASE ExitStatus
    BY <2>8, SMT DEF ExitStatus, Mine, invocation, output
  <2>9. CASE RemoveOld \/ MovePrevious
    BY <2>9, SMT DEF RemoveOld, MovePrevious, Mine, invocation, output
  <2>10. CASE CopyOut \/ Kill
    BY <2>10, Zenon DEF CopyOut, Kill
  <2>11. CASE UNCHANGED vars
    BY <2>11, SMT DEF vars, Mine, invocation, output
  <2> QED
    BY <2>1, <2>2, <2>3, <2>4, <2>5, <2>6, <2>7, <2>8, <2>9, <2>10, <2>11 DEF Next, BuildAction, CopyAndPac
<1>3. Types /\ OwnInv => PackagesOwnBuild
  BY OwnCopied DEF PackagesOwnBuild, Own
<1> QED
  BY <1>1, <1>2, <1>3, TypesHold, PTL DEF Spec
=============================================================================
