-------------------------- MODULE SetInstalled_proofs --------------------------
(***************************************************************************)
(* A run of SetInstalled removes and installs packages only as PackageTree *)
(* says: every step is one of its steps or leaves its variables alone.  So *)
(* the theorems about PackageTree hold of SetInstalled as well.            *)
(*                                                                         *)
(* On top of PackageTree's invariant, RunInv says what the plan and the    *)
(* ABI tags have to do with what is installed; it gives SetInv and that    *)
(* what matches is kept.  With the history of the tree DependencyInv and   *)
(* WholeInv say what a tree looks like that no run went on with after a    *)
(* failure, and that no kill interrupted.                                  *)
(***************************************************************************)
EXTENDS SetInstalled, TLAPS

(***************************************************************************)
(* PackageTree: its invariant, for every set of packages, features and     *)
(* files, and what follows from it.                                        *)
(***************************************************************************)
\* Only one of the status lines means that a package is installed.
LEMMA OneInstalled == Installed \notin {InstallHalf, PurgeHalf, NotInstalled}
  BY DEF Installed, InstallHalf, PurgeHalf, NotInstalled

LEMMA InitInv == Init => Inv
  <1> SUFFICES ASSUME Init PROVE Inv
    OBVIOUS
  <1> USE DEF Init
  <1>1. TypeOK
    BY ConstantsAssumption DEF TypeOK, Maps, Lists, NoList, NoOp, BetweenPackages, InstallLabels,
       RemoveLabels, FileLoops
  <1>2. InstalledOwnFiles
    <2>1. \A p \in Pkg : ~ IsInstalled(store, p)
      BY ConstantsAssumption DEF IsInstalled, Key, State
    <2> QED
      BY <2>1 DEF InstalledOwnFiles
  <1>3. MemoryIsDisk /\ InstallInv /\ RemoveInv
    BY DEF MemoryIsDisk, InstallInv, RemoveInv
  <1> QED
    BY <1>1, <1>2, <1>3 DEF Inv

LEMMA StartInv ==
    ASSUME Inv, Start
    PROVE  Inv'
  <1>1. TypeOK'
    BY DEF Inv, Start, disk, BetweenPackages, InstallLabels, RemoveLabels, FileLoops, TypeOK
  <1>2. InstalledOwnFiles'
    BY DEF Inv, Start, disk, InstalledOwnFiles
  <1>3. MemoryIsDisk'
    BY DEF Start, disk, MemoryIsDisk
  <1>4. InstallInv'
    BY DEF Start, InstallInv
  <1>5. RemoveInv'
    BY DEF Start, RemoveInv
  <1> QED
    BY <1>1, <1>2, <1>3, <1>4, <1>5 DEF Inv

LEMMA GetInstalledPortsInv ==
    ASSUME Inv, GetInstalledPorts
    PROVE  Inv'
  <1>1. TypeOK'
    BY DEF Inv, GetInstalledPorts, disk, BetweenPackages, InstallLabels, RemoveLabels, FileLoops, TypeOK
  <1>2. InstalledOwnFiles'
    BY DEF Inv, GetInstalledPorts, disk, InstalledOwnFiles
  <1>3. MemoryIsDisk'
    BY DEF Inv, GetInstalledPorts, disk, MemoryIsDisk, Stale
  <1>4. InstallInv'
    BY DEF GetInstalledPorts, InstallInv
  <1>5. RemoveInv'
    BY DEF GetInstalledPorts, RemoveInv
  <1> QED
    BY <1>1, <1>2, <1>3, <1>4, <1>5 DEF Inv

LEMMA StopInv ==
    ASSUME Inv, Stop
    PROVE  Inv'
  <1>1. TypeOK'
    BY DEF Inv, Stop, disk, BetweenPackages, InstallLabels, RemoveLabels, TypeOK, Maps, NoOp
  <1>2. InstalledOwnFiles'
    BY DEF Inv, Stop, disk, InstalledOwnFiles
  <1>3. MemoryIsDisk'
    BY DEF Stop, MemoryIsDisk
  <1>4. InstallInv'
    BY DEF Stop, InstallInv
  <1>5. RemoveInv'
    BY DEF Stop, RemoveInv
  <1> QED
    BY <1>1, <1>2, <1>3, <1>4, <1>5 DEF Inv

LEMMA BeginInstallInv ==
    ASSUME Inv, NEW p \in Pkg, NEW feats \in SUBSET Feat, NEW content \in Contents[p], BeginInstall(p, feats, content)
    PROVE  Inv'
  <1>1. TypeOK'
    BY ConstantsAssumption DEF Inv, BeginInstall, disk, BetweenPackages, InstallLabels, RemoveLabels,
       FileLoops,
       TypeOK, NoOp
  <1>2. InstalledOwnFiles'
    BY DEF Inv, BeginInstall, disk, InstalledOwnFiles
  <1>3. MemoryIsDisk'
    BY DEF Inv, BeginInstall, disk, MemoryIsDisk, Stale
  <1>4. InstallInv'
    BY DEF Inv, BeginInstall, IsInstalled, disk, InstallInv, Key, Conflict, MemoryIsDisk, Stale
  <1>5. RemoveInv'
    BY DEF BeginInstall, RemoveInv
  <1> QED
    BY <1>1, <1>2, <1>3, <1>4, <1>5 DEF Inv

LEMMA InstallCoreHalfInv ==
    ASSUME Inv, InstallCoreHalf
    PROVE  Inv'
  <1>1. TypeOK'
    BY DEF Inv, InstallCoreHalf, WriteAndInsert, BetweenPackages, InstallLabels, FileLoops, TypeOK,
       Maps, State
  <1>2. InstalledOwnFiles'
    BY OneInstalled DEF Inv, InstallCoreHalf, IsInstalled, WriteAndInsert, InstalledOwnFiles
  <1>3. MemoryIsDisk'
    BY DEF Inv, InstallCoreHalf, WriteAndInsert, TypeOK, MemoryIsDisk, Stale, Maps
  <1>4. InstallInv'
    BY OneInstalled DEF Inv, InstallCoreHalf, IsInstalled, WriteAndInsert, InstallInv
  <1>5. RemoveInv'
    BY DEF InstallCoreHalf, RemoveInv
  <1> QED
    BY <1>1, <1>2, <1>3, <1>4, <1>5 DEF Inv

LEMMA InstallFeatureHalfInv ==
    ASSUME Inv, NEW f \in Feat, InstallFeatureHalf(f)
    PROVE  Inv'
  <1>1. TypeOK'
    BY DEF Inv, InstallFeatureHalf, WriteAndInsert, TypeOK, Maps, State
  <1>2. InstalledOwnFiles'
    BY ConstantsAssumption DEF Inv, InstallFeatureHalf, IsInstalled, WriteAndInsert,
       InstalledOwnFiles
  <1>3. MemoryIsDisk'
    BY DEF Inv, InstallFeatureHalf, WriteAndInsert, TypeOK, MemoryIsDisk, Stale, Maps
  <1>4. InstallInv'
    BY ConstantsAssumption DEF Inv, InstallFeatureHalf, IsInstalled, WriteAndInsert, InstallInv
  <1>5. RemoveInv'
    BY DEF InstallFeatureHalf, RemoveInv
  <1> QED
    BY <1>1, <1>2, <1>3, <1>4, <1>5 DEF Inv

LEMMA BeginCopyInv ==
    ASSUME Inv, BeginCopy
    PROVE  Inv'
  <1>1. TypeOK'
    BY DEF Inv, BeginCopy, disk, BetweenPackages, InstallLabels, FileLoops, TypeOK
  <1>2. InstalledOwnFiles'
    BY DEF Inv, BeginCopy, disk, InstalledOwnFiles
  <1>3. MemoryIsDisk'
    BY DEF Inv, BeginCopy, disk, MemoryIsDisk, Stale
  <1>4. InstallInv'
    BY DEF Inv, BeginCopy, disk, InstallInv
  <1>5. RemoveInv'
    BY DEF BeginCopy, RemoveInv
  <1> QED
    BY <1>1, <1>2, <1>3, <1>4, <1>5 DEF Inv

LEMMA CopyFileInv ==
    ASSUME Inv, NEW x \in File, CopyFile(x)
    PROVE  Inv'
  <1>1. TypeOK'
    BY DEF Inv, CopyFile, TypeOK
  <1>2. InstalledOwnFiles'
    BY DEF Inv, CopyFile, InstalledOwnFiles, InstallInv
  <1>3. MemoryIsDisk'
    BY DEF Inv, CopyFile, MemoryIsDisk, Stale
  <1>4. InstallInv'
    BY DEF Inv, CopyFile, TypeOK, InstallInv
  <1>5. RemoveInv'
    BY DEF CopyFile, RemoveInv
  <1> QED
    BY <1>1, <1>2, <1>3, <1>4, <1>5 DEF Inv

LEMMA CreateListfileInv ==
    ASSUME Inv, CreateListfile
    PROVE  Inv'
  <1>1. TypeOK'
    BY DEF Inv, CreateListfile, BetweenPackages, InstallLabels, TypeOK, Lists, TornList
  <1>2. InstalledOwnFiles'
    BY DEF Inv, CreateListfile, InstalledOwnFiles, InstallInv
  <1>3. MemoryIsDisk'
    BY DEF Inv, CreateListfile, MemoryIsDisk, Stale
  <1>4. InstallInv'
    BY DEF Inv, CreateListfile, InstallInv
  <1>5. RemoveInv'
    BY DEF CreateListfile, RemoveInv
  <1> QED
    BY <1>1, <1>2, <1>3, <1>4, <1>5 DEF Inv

LEMMA WriteListfileInv ==
    ASSUME Inv, WriteListfile
    PROVE  Inv'
  <1>1. TypeOK'
    BY DEF Inv, WriteListfile, BetweenPackages, InstallLabels, FileLoops, TypeOK, Lists, WholeList
  <1>2. InstalledOwnFiles'
    BY DEF Inv, WriteListfile, InstalledOwnFiles, InstallInv
  <1>3. MemoryIsDisk'
    BY DEF Inv, WriteListfile, MemoryIsDisk, Stale
  <1>4. InstallInv'
    BY DEF Inv, WriteListfile, InstallLabels, TypeOK, InstallInv
  <1>5. RemoveInv'
    BY DEF WriteListfile, RemoveInv
  <1> QED
    BY <1>1, <1>2, <1>3, <1>4, <1>5 DEF Inv

LEMMA InstallCoreInv ==
    ASSUME Inv, InstallCore
    PROVE  Inv'
  <1>1. TypeOK'
    BY DEF Inv, InstallCore, WriteAndInsert, BetweenPackages, InstallLabels, FileLoops, TypeOK, Maps, State
  <1>2. InstalledOwnFiles'
    BY DEF Inv, InstallCore, IsInstalled, WriteAndInsert, InstalledOwnFiles, InstallInv,
       WholeList
  <1>3. MemoryIsDisk'
    BY DEF Inv, InstallCore, WriteAndInsert, TypeOK, MemoryIsDisk, Stale, Maps
  <1>4. InstallInv'
    BY DEF Inv, InstallCore, IsInstalled, WriteAndInsert, InstallLabels, TypeOK, InstallInv, Key, Maps
  <1>5. RemoveInv'
    BY DEF InstallCore, RemoveInv
  <1> QED
    BY <1>1, <1>2, <1>3, <1>4, <1>5 DEF Inv

LEMMA InstallFeatureInv ==
    ASSUME Inv, NEW f \in Feat, InstallFeature(f)
    PROVE  Inv'
  <1>1. TypeOK'
    BY DEF Inv, InstallFeature, WriteAndInsert, TypeOK, Maps, State
  <1>2. InstalledOwnFiles'
    BY DEF Inv, InstallFeature, IsInstalled, WriteAndInsert, InstalledOwnFiles, InstallInv
  <1>3. MemoryIsDisk'
    BY DEF Inv, InstallFeature, WriteAndInsert, TypeOK, MemoryIsDisk, Stale, Maps
  <1>4. InstallInv'
    BY DEF Inv, InstallFeature, IsInstalled, WriteAndInsert, InstallInv
  <1>5. RemoveInv'
    BY DEF InstallFeature, RemoveInv
  <1> QED
    BY <1>1, <1>2, <1>3, <1>4, <1>5 DEF Inv

LEMMA EndInstallInv ==
    ASSUME Inv, EndInstall
    PROVE  Inv'
  <1>1. TypeOK'
    BY DEF Inv, EndInstall, disk, BetweenPackages, InstallLabels, RemoveLabels, TypeOK, NoOp
  <1>2. InstalledOwnFiles'
    BY DEF Inv, EndInstall, disk, InstalledOwnFiles
  <1>3. MemoryIsDisk'
    BY DEF Inv, EndInstall, disk, MemoryIsDisk, Stale
  <1>4. InstallInv'
    BY DEF EndInstall, InstallInv
  <1>5. RemoveInv'
    BY DEF EndInstall, RemoveInv
  <1> QED
    BY <1>1, <1>2, <1>3, <1>4, <1>5 DEF Inv

LEMMA BeginRemoveInv ==
    ASSUME Inv, NEW p \in Pkg, BeginRemove(p)
    PROVE  Inv'
  <1>1. TypeOK'
    BY DEF Inv, BeginRemove, disk, BetweenPackages, InstallLabels, RemoveLabels, FileLoops, TypeOK, NoOp,
       InstalledFeatures
  <1>2. InstalledOwnFiles'
    BY DEF Inv, BeginRemove, disk, InstalledOwnFiles
  <1>3. MemoryIsDisk'
    BY DEF Inv, BeginRemove, disk, MemoryIsDisk, Stale
  <1>4. InstallInv'
    BY DEF BeginRemove, InstallInv
  <1>5. RemoveInv'
    BY DEF Inv, BeginRemove, IsInstalled, disk, RemoveInv, Key, MemoryIsDisk, Stale
  <1> QED
    BY <1>1, <1>2, <1>3, <1>4, <1>5 DEF Inv

LEMMA RemoveCoreHalfInv ==
    ASSUME Inv, RemoveCoreHalf
    PROVE  Inv'
  <1>1. TypeOK'
    BY DEF Inv, RemoveCoreHalf, BetweenPackages, RemoveLabels, FileLoops, TypeOK, Maps, State
  <1>2. InstalledOwnFiles'
    BY DEF Inv, RemoveCoreHalf, IsInstalled, InstalledOwnFiles, RemoveInv
  <1>3. MemoryIsDisk'
    BY DEF Inv, RemoveCoreHalf, MemoryIsDisk, Stale
  <1>4. InstallInv'
    BY DEF RemoveCoreHalf, InstallInv
  <1>5. RemoveInv'
    BY OneInstalled DEF Inv, RemoveCoreHalf, IsInstalled, RemoveLabels, TypeOK, RemoveInv, Key, Maps,
       InstalledOwnFiles
  <1> QED
    BY <1>1, <1>2, <1>3, <1>4, <1>5 DEF Inv

LEMMA RemoveFeatureHalfInv ==
    ASSUME Inv, NEW f \in Feat, RemoveFeatureHalf(f)
    PROVE  Inv'
  <1>1. TypeOK'
    BY DEF Inv, RemoveFeatureHalf, TypeOK, Maps, State
  <1>2. InstalledOwnFiles'
    BY DEF Inv, RemoveFeatureHalf, IsInstalled, InstalledOwnFiles, RemoveInv
  <1>3. MemoryIsDisk'
    BY DEF Inv, RemoveFeatureHalf, FileLoops, TypeOK, MemoryIsDisk, Stale
  <1>4. InstallInv'
    BY DEF RemoveFeatureHalf, InstallInv
  <1>5. RemoveInv'
    BY ConstantsAssumption DEF Inv, RemoveFeatureHalf, IsInstalled, RemoveInv
  <1> QED
    BY <1>1, <1>2, <1>3, <1>4, <1>5 DEF Inv

LEMMA ReadListfileInv ==
    ASSUME Inv, ReadListfile
    PROVE  Inv'
  <1>1. TypeOK'
    BY DEF Inv, ReadListfile, disk, BetweenPackages, RemoveLabels, FileLoops, TypeOK, Lists
  <1>2. InstalledOwnFiles'
    BY DEF Inv, ReadListfile, disk, InstalledOwnFiles
  <1>3. MemoryIsDisk'
    BY DEF Inv, ReadListfile, disk, MemoryIsDisk, Stale
  <1>4. InstallInv'
    BY DEF ReadListfile, InstallInv
  <1>5. RemoveInv'
    BY DEF Inv, ReadListfile, disk, RemoveInv, InstalledOwnFiles
  <1> QED
    BY <1>1, <1>2, <1>3, <1>4, <1>5 DEF Inv

LEMMA DeleteFileInv ==
    ASSUME Inv, NEW x \in File, DeleteFile(x)
    PROVE  Inv'
  <1>1. TypeOK'
    BY DEF Inv, DeleteFile, TypeOK
  <1>2. InstalledOwnFiles'
    BY DEF Inv, DeleteFile, InstalledOwnFiles, RemoveInv
  <1>3. MemoryIsDisk'
    BY DEF Inv, DeleteFile, MemoryIsDisk, Stale
  <1>4. InstallInv'
    BY DEF DeleteFile, InstallInv
  <1>5. RemoveInv'
    BY DEF Inv, DeleteFile, RemoveInv
  <1> QED
    BY <1>1, <1>2, <1>3, <1>4, <1>5 DEF Inv

LEMMA DeleteListfileInv ==
    ASSUME Inv, DeleteListfile
    PROVE  Inv'
  <1>1. TypeOK'
    BY DEF Inv, DeleteListfile, BetweenPackages, RemoveLabels, TypeOK, Lists, NoList
  <1>2. InstalledOwnFiles'
    BY DEF Inv, DeleteListfile, InstalledOwnFiles, RemoveInv
  <1>3. MemoryIsDisk'
    BY DEF Inv, DeleteListfile, MemoryIsDisk, Stale
  <1>4. InstallInv'
    BY DEF DeleteListfile, InstallInv
  <1>5. RemoveInv'
    BY DEF Inv, DeleteListfile, RemoveInv
  <1> QED
    BY <1>1, <1>2, <1>3, <1>4, <1>5 DEF Inv

LEMMA RemoveCoreInv ==
    ASSUME Inv, RemoveCore
    PROVE  Inv'
  <1>1. TypeOK'
    BY DEF Inv, RemoveCore, WriteAndInsert, BetweenPackages, RemoveLabels, FileLoops, TypeOK, Maps, State
  <1>2. InstalledOwnFiles'
    BY OneInstalled DEF Inv, RemoveCore, IsInstalled, WriteAndInsert, InstalledOwnFiles
  <1>3. MemoryIsDisk'
    BY DEF Inv, RemoveCore, WriteAndInsert, TypeOK, MemoryIsDisk, Stale, Maps
  <1>4. InstallInv'
    BY DEF RemoveCore, InstallInv
  <1>5. RemoveInv'
    BY DEF RemoveCore, RemoveInv
  <1> QED
    BY <1>1, <1>2, <1>3, <1>4, <1>5 DEF Inv

LEMMA RemoveFeatureInv ==
    ASSUME Inv, NEW f \in Feat, RemoveFeature(f)
    PROVE  Inv'
  <1>1. TypeOK'
    BY DEF Inv, RemoveFeature, WriteAndInsert, TypeOK, Maps, State
  <1>2. InstalledOwnFiles'
    BY ConstantsAssumption DEF Inv, RemoveFeature, IsInstalled, WriteAndInsert,
       InstalledOwnFiles
  <1>3. MemoryIsDisk'
    BY DEF Inv, RemoveFeature, WriteAndInsert, TypeOK, MemoryIsDisk, Stale, Maps
  <1>4. InstallInv'
    BY DEF RemoveFeature, InstallInv
  <1>5. RemoveInv'
    BY DEF RemoveFeature, RemoveInv
  <1> QED
    BY <1>1, <1>2, <1>3, <1>4, <1>5 DEF Inv

LEMMA EndRemoveInv ==
    ASSUME Inv, EndRemove
    PROVE  Inv'
  <1>1. TypeOK'
    BY DEF Inv, EndRemove, disk, BetweenPackages, InstallLabels, RemoveLabels, TypeOK, NoOp
  <1>2. InstalledOwnFiles'
    BY DEF Inv, EndRemove, disk, InstalledOwnFiles
  <1>3. MemoryIsDisk'
    BY DEF Inv, EndRemove, disk, MemoryIsDisk, Stale
  <1>4. InstallInv'
    BY DEF EndRemove, InstallInv
  <1>5. RemoveInv'
    BY DEF EndRemove, RemoveInv
  <1> QED
    BY <1>1, <1>2, <1>3, <1>4, <1>5 DEF Inv

LEMMA StutterInv == ASSUME Inv, UNCHANGED vars PROVE Inv'
  BY DEF Inv, vars, disk, TypeOK, InstalledOwnFiles, MemoryIsDisk, InstallInv, RemoveInv, Stale

LEMMA NextInv == Inv /\ [Next]_vars => Inv'
  <1> SUFFICES ASSUME Inv, [Next]_vars PROVE Inv'
    OBVIOUS
  <1>1. CASE Start \/ GetInstalledPorts \/ Stop
    BY <1>1, StartInv, GetInstalledPortsInv, StopInv
  <1>2. CASE \E p \in Pkg, feats \in SUBSET Feat : \E content \in Contents[p] : BeginInstall(p, feats, content)
    BY <1>2, BeginInstallInv
  <1>3. CASE \E p \in Pkg : BeginRemove(p)
    BY <1>3, BeginRemoveInv
  <1>4. CASE InstallStep
    BY <1>4, InstallCoreHalfInv, InstallFeatureHalfInv, BeginCopyInv, CopyFileInv, CreateListfileInv, WriteListfileInv, InstallCoreInv, InstallFeatureInv, EndInstallInv DEF InstallStep
  <1>5. CASE RemoveStep
    BY <1>5, RemoveCoreHalfInv, RemoveFeatureHalfInv, ReadListfileInv, DeleteFileInv, DeleteListfileInv, RemoveCoreInv, RemoveFeatureInv, EndRemoveInv DEF RemoveStep
  <1>6. CASE UNCHANGED vars
    BY <1>6, StutterInv
  <1> QED
    BY <1>1, <1>2, <1>3, <1>4, <1>5, <1>6 DEF Next

\* Inv is an invariant: whatever is killed, and wherever.
THEOREM InvHolds == Tree => []Inv
  <1>1. Inv /\ [Next]_vars => Inv'
    BY NextInv
  <1> QED
    BY InitInv, <1>1, PTL DEF Tree

\* An installed package wrote every file its list file names (install_package records it as
\* installed after its files and its list, remove_package withdraws the record first).
THEOREM InstalledPackagesOwnTheirFiles == Tree => []InstalledOwnFiles
  <1>1. Inv => InstalledOwnFiles
    BY DEF Inv
  <1> QED
    BY InvHolds, <1>1, PTL

\* No two installed packages list the same file, so that removing one leaves the other whole.
NoSharedFile ==
    \A p, q \in Pkg : IsInstalled(store, p) /\ IsInstalled(store, q) /\ p # q =>
        listfile[p].names \cap listfile[q].names = {}

THEOREM InstalledPackagesShareNoFile == Tree => []NoSharedFile
  <1>1. InstalledOwnFiles => NoSharedFile
    BY DEF InstalledOwnFiles, NoSharedFile
  <1> QED
    BY InstalledPackagesOwnTheirFiles, <1>1, PTL

\* The process's paragraphs are those on disk, but for the package being removed (remove_package
\* updates status_db at its end).
THEOREM MemoryFollowsDisk == Tree => []MemoryIsDisk
  <1>1. Inv => MemoryIsDisk
    BY DEF Inv
  <1> QED
    BY InvHolds, <1>1, PTL

\* Only InstallFeature records a feature as installed, and its package is installed by then.
LEMMA FeatureStep ==
    ASSUME Inv, [Next]_vars, NEW p \in Pkg, NEW f \in Feat,
           store[<<p, f>>] # Installed, store'[<<p, f>>] = Installed
    PROVE  IsInstalled(store, p)
  <1> USE ConstantsAssumption, OneInstalled
  <1>1. CASE \E g \in Feat : InstallFeature(g)
    BY <1>1 DEF Inv, InstallInv, TypeOK, Maps, Key, InstallFeature, WriteAndInsert, InstallLabels
  <1>2. CASE InstallStep /\ ~ \E g \in Feat : InstallFeature(g)
    BY <1>2 DEF InstallStep, Inv, TypeOK, Maps, Key, InstallCoreHalf, InstallFeatureHalf, BeginCopy,
                CopyFile, CreateListfile, WriteListfile, InstallCore, EndInstall, WriteAndInsert, disk
  <1>3. CASE RemoveStep
    BY <1>3 DEF RemoveStep, Inv, TypeOK, Maps, Key, RemoveCoreHalf, RemoveFeatureHalf, ReadListfile,
                DeleteFile, DeleteListfile, RemoveCore, RemoveFeature, EndRemove, WriteAndInsert, disk
  <1>4. CASE ~ (InstallStep \/ RemoveStep)
    BY <1>4 DEF Next, vars, disk, Start, GetInstalledPorts, Stop, BeginInstall, BeginRemove
  <1> QED
    BY <1>1, <1>2, <1>3, <1>4

\* A feature is recorded as installed only when its package is.
THEOREM FeaturesFollowTheirPackage == Tree => FeatureAfterCore
  <1>1. Inv /\ [Next]_vars =>
            [\A p \in Pkg, f \in Feat :
                (store[<<p, f>>] # Installed /\ store'[<<p, f>>] = Installed) => IsInstalled(store, p)]_vars
    BY FeatureStep
  <1> QED
    BY InvHolds, <1>1, PTL DEF Tree, FeatureAfterCore

(***************************************************************************)
(* SetInstalled.                                                           *)
(***************************************************************************)
\* The request in work is one of those that may be asked for, or empty.
WantOK == want \in SUBSET Key

LEMMA WantInit == InitSet => WantOK
  BY DEF InitSet, WantOK

LEMMA WantNext == WantOK /\ [NextSet]_setVars => WantOK'
  <1> SUFFICES ASSUME WantOK, [NextSet]_setVars PROVE WantOK'
    OBVIOUS
  <1>1. ASSUME NEW w \in Requests, AdjustPlan(w) PROVE WantOK'
    BY <1>1, RequestsAssumption DEF AdjustPlan, WantOK
  <1>2. CASE End
    BY <1>2 DEF End, WantOK
  <1>3. CASE UNCHANGED want
    BY <1>3 DEF WantOK
  <1> QED
    BY <1>1, <1>2, <1>3
       DEF NextSet, setVars, plan, Refuse, RemoveNext, InstallNext, FailNext, PackageStep, Done

LEMMA InitImplies == InitSet => Packaging!Init
  BY DEF InitSet, Init, Packaging!Init, NoOp, Packaging!NoOp, Key, Packaging!Key, NoList, Packaging!NoList

LEMMA SameIsInstalled ==
    ASSUME NEW m, NEW p
    PROVE  IsInstalled(m, p) <=> Packaging!IsInstalled(m, p)
  BY DEF IsInstalled, Packaging!IsInstalled, Installed, Packaging!Installed

LEMMA SameInstalledFeatures ==
    ASSUME NEW m, NEW p
    PROVE  InstalledFeatures(m, p) = Packaging!InstalledFeatures(m, p)
  BY DEF InstalledFeatures, Packaging!InstalledFeatures, Installed, Packaging!Installed

LEMMA SameCorrupted == Corrupted(mem) <=> Packaging!Corrupted(mem)
  BY SameIsInstalled, SameInstalledFeatures DEF Corrupted, Packaging!Corrupted

LEMMA SameConflict ==
    ASSUME NEW content
    PROVE  Conflict(content) <=> Packaging!Conflict(content)
  BY SameIsInstalled DEF Conflict, Packaging!Conflict

LEMMA InstallSteps ==
    ASSUME InstallStep
    PROVE  Packaging!InstallStep
  <1>1. ASSUME InstallCoreHalf PROVE Packaging!InstallCoreHalf
    BY <1>1 DEF InstallCoreHalf, Packaging!InstallCoreHalf, WriteAndInsert,
       Packaging!WriteAndInsert, InstallHalf, Packaging!InstallHalf
  <1>2. ASSUME NEW f \in Feat, InstallFeatureHalf(f) PROVE Packaging!InstallFeatureHalf(f)
    BY <1>2 DEF InstallFeatureHalf, Packaging!InstallFeatureHalf, WriteAndInsert,
       Packaging!WriteAndInsert, InstallHalf, Packaging!InstallHalf
  <1>3. ASSUME BeginCopy PROVE Packaging!BeginCopy
    BY <1>3 DEF BeginCopy, Packaging!BeginCopy, disk, Packaging!disk
  <1>4. ASSUME NEW x \in File, CopyFile(x) PROVE Packaging!CopyFile(x)
    BY <1>4 DEF CopyFile, Packaging!CopyFile
  <1>5. ASSUME CreateListfile PROVE Packaging!CreateListfile
    BY <1>5 DEF CreateListfile, Packaging!CreateListfile, TornList, Packaging!TornList
  <1>6. ASSUME WriteListfile PROVE Packaging!WriteListfile
    BY <1>6 DEF WriteListfile, Packaging!WriteListfile, WholeList, Packaging!WholeList
  <1>7. ASSUME InstallCore PROVE Packaging!InstallCore
    BY <1>7 DEF InstallCore, Packaging!InstallCore, WriteAndInsert, Packaging!WriteAndInsert,
       Installed, Packaging!Installed
  <1>8. ASSUME NEW f \in Feat, InstallFeature(f) PROVE Packaging!InstallFeature(f)
    BY <1>8 DEF InstallFeature, Packaging!InstallFeature, WriteAndInsert,
       Packaging!WriteAndInsert, Installed, Packaging!Installed
  <1>9. ASSUME EndInstall PROVE Packaging!EndInstall
    BY <1>9 DEF EndInstall, Packaging!EndInstall, disk, Packaging!disk, NoOp, Packaging!NoOp
  <1> QED
    BY <1>1, <1>2, <1>3, <1>4, <1>5, <1>6, <1>7, <1>8, <1>9 DEF InstallStep, Packaging!InstallStep

LEMMA RemoveSteps ==
    ASSUME RemoveStep
    PROVE  Packaging!RemoveStep
  <1>1. ASSUME RemoveCoreHalf PROVE Packaging!RemoveCoreHalf
    BY <1>1 DEF RemoveCoreHalf, Packaging!RemoveCoreHalf, PurgeHalf, Packaging!PurgeHalf
  <1>2. ASSUME NEW f \in Feat, RemoveFeatureHalf(f) PROVE Packaging!RemoveFeatureHalf(f)
    BY <1>2 DEF RemoveFeatureHalf, Packaging!RemoveFeatureHalf, PurgeHalf, Packaging!PurgeHalf
  <1>3. ASSUME ReadListfile PROVE Packaging!ReadListfile
    BY <1>3 DEF ReadListfile, Packaging!ReadListfile, disk, Packaging!disk
  <1>4. ASSUME NEW x \in File, DeleteFile(x) PROVE Packaging!DeleteFile(x)
    BY <1>4 DEF DeleteFile, Packaging!DeleteFile
  <1>5. ASSUME DeleteListfile PROVE Packaging!DeleteListfile
    BY <1>5 DEF DeleteListfile, Packaging!DeleteListfile, NoList, Packaging!NoList
  <1>6. ASSUME RemoveCore PROVE Packaging!RemoveCore
    BY <1>6 DEF RemoveCore, Packaging!RemoveCore, WriteAndInsert, Packaging!WriteAndInsert,
       NotInstalled, Packaging!NotInstalled
  <1>7. ASSUME NEW f \in Feat, RemoveFeature(f) PROVE Packaging!RemoveFeature(f)
    BY <1>7 DEF RemoveFeature, Packaging!RemoveFeature, WriteAndInsert,
       Packaging!WriteAndInsert, NotInstalled, Packaging!NotInstalled
  <1>8. ASSUME EndRemove PROVE Packaging!EndRemove
    BY <1>8 DEF EndRemove, Packaging!EndRemove, disk, Packaging!disk, NoOp, Packaging!NoOp
  <1> QED
    BY <1>1, <1>2, <1>3, <1>4, <1>5, <1>6, <1>7, <1>8 DEF RemoveStep, Packaging!RemoveStep

LEMMA StepImplies == WantOK /\ [NextSet]_setVars => [Packaging!Next]_(Packaging!vars)
  <1> SUFFICES ASSUME WantOK, [NextSet]_setVars PROVE [Packaging!Next]_(Packaging!vars)
    OBVIOUS
  <1>1. CASE Start
    <2>1. Packaging!Start
      BY <1>1 DEF Start, Packaging!Start, disk, Packaging!disk
    <2> QED
      BY <2>1 DEF Packaging!Next
  <1>2. CASE Refuse
    <2>1. Packaging!GetInstalledPorts
      BY <1>2, SameCorrupted DEF Refuse, GetInstalledPorts, Packaging!GetInstalledPorts, disk, Packaging!disk
    <2> QED
      BY <2>1 DEF Packaging!Next
  <1>3. ASSUME NEW w \in Requests, AdjustPlan(w) PROVE Packaging!Next
    <2>1. Packaging!GetInstalledPorts
      BY <1>3, SameCorrupted DEF AdjustPlan, Packaging!GetInstalledPorts, disk, Packaging!disk
    <2> QED
      BY <2>1 DEF Packaging!Next
  <1>4. ASSUME NEW p \in Pkg, RemoveNext(p) PROVE Packaging!Next
    <2>1. Packaging!BeginRemove(p)
      BY <1>4, SameIsInstalled, SameInstalledFeatures
         DEF RemoveNext, BeginRemove, Packaging!BeginRemove, disk, Packaging!disk
    <2> QED
      BY <2>1 DEF Packaging!Next
  <1>5. ASSUME NEW p \in Pkg, NEW content \in Contents[p], InstallNext(p, content) PROVE Packaging!Next
    <2>1. FeaturesOf(p, want) \in SUBSET Feat
      BY DEF WantOK, Key, FeaturesOf, KeysOf
    <2>2. Packaging!BeginInstall(p, FeaturesOf(p, want), content)
      BY <1>5, SameIsInstalled, SameConflict
         DEF InstallNext, BeginInstall, Packaging!BeginInstall, disk, Packaging!disk
    <2> QED
      BY <2>1, <2>2 DEF Packaging!Next
  <1>6. ASSUME NEW p \in Pkg, NEW content \in Contents[p], FailNext(p, content)
        PROVE  UNCHANGED Packaging!vars
    BY <1>6 DEF FailNext, IsNext, Packaging!vars, disk, Packaging!disk
  <1>7. CASE PackageStep
    BY <1>7, InstallSteps, RemoveSteps DEF PackageStep, Packaging!Next
  <1>8. CASE Done
    BY <1>8 DEF Done, Packaging!vars, disk, Packaging!disk
  <1>9. CASE End
    <2>1. Packaging!Stop
      BY <1>9 DEF End, Stop, Packaging!Stop, disk, Packaging!disk, NoOp, Packaging!NoOp, Key, Packaging!Key
    <2> QED
      BY <2>1 DEF Packaging!Next
  <1>10. CASE UNCHANGED setVars
    BY <1>10 DEF setVars, vars, disk, Packaging!vars, Packaging!disk
  <1> QED
    BY <1>1, <1>2, <1>3, <1>4, <1>5, <1>6, <1>7, <1>8, <1>9, <1>10 DEF NextSet

\* Every run of x-set-installed, with kills and failures, is a run of PackageTree: the plan decides
\* which package comes next and nothing else.
THEOREM RunsArePackageSteps == SetInstalled => OnlyTreeSteps
  <1> QED
    BY WantInit, WantNext, InitImplies, StepImplies, PTL
       DEF SetInstalled, OnlyTreeSteps, Packaging!Tree

--------------------------------------------------------------------------------
(***************************************************************************)
(* Reachable is the least set that has S and is closed.                    *)
(***************************************************************************)
LEMMA ReachableHas ==
    ASSUME NEW R, NEW S \in SUBSET Pkg
    PROVE  S \subseteq Reachable(R, S) /\ Reachable(R, S) \subseteq Pkg
  BY DEF Reachable

LEMMA ReachableClosed ==
    ASSUME NEW R \in SUBSET (Pkg \X Pkg), NEW S
    PROVE  ClosedUnder(R, Reachable(R, S))
  <1> SUFFICES ASSUME NEW e \in R, e[1] \in Reachable(R, S) PROVE e[2] \in Reachable(R, S)
    BY DEF ClosedUnder
  <1>1. e[2] \in Pkg
    OBVIOUS
  <1>2. ASSUME NEW T \in SUBSET Pkg, S \subseteq T, ClosedUnder(R, T) PROVE e[2] \in T
    BY <1>2 DEF Reachable, ClosedUnder
  <1> QED
    BY <1>1, <1>2 DEF Reachable

LEMMA ReachableLeast ==
    ASSUME NEW R, NEW S, NEW T \in SUBSET Pkg, S \subseteq T, ClosedUnder(R, T)
    PROVE  Reachable(R, S) \subseteq T
  BY DEF Reachable

(***************************************************************************)
(* ABI tags.  Covers(w, p) is what the tag of p covers in the request w.   *)
(***************************************************************************)
Covers(w, p) == Reachable(BuiltAgainst(w), {p})

LEMMA CoversClosed ==
    ASSUME NEW w, NEW p \in Pkg
    PROVE  /\ p \in Covers(w, p) /\ Covers(w, p) \in SUBSET Pkg
           /\ \A q \in Covers(w, p), r \in Pkg : r \in Dependencies(q, w) => r \in Covers(w, p)
  <1>1. BuiltAgainst(w) \in SUBSET (Pkg \X Pkg) /\ {p} \in SUBSET Pkg
    BY DEF BuiltAgainst
  <1>2. p \in Covers(w, p) /\ Covers(w, p) \in SUBSET Pkg
    BY <1>1, ReachableHas DEF Covers
  <1>3. ClosedUnder(BuiltAgainst(w), Covers(w, p))
    BY <1>1, ReachableClosed DEF Covers
  <1>4. ASSUME NEW q \in Covers(w, p), NEW r \in Pkg, r \in Dependencies(q, w) PROVE r \in Covers(w, p)
    <2>1. <<q, r>> \in BuiltAgainst(w)
      BY <1>2, <1>4 DEF BuiltAgainst
    <2> QED
      BY <1>3, <1>4, <2>1 DEF ClosedUnder
  <1> QED
    BY <1>2, <1>4

LEMMA CoversLeast ==
    ASSUME NEW w, NEW p, NEW T \in SUBSET Pkg, p \in T,
           \A q \in T, r \in Pkg : r \in Dependencies(q, w) => r \in T
    PROVE  Covers(w, p) \subseteq T
  <1>1. ClosedUnder(BuiltAgainst(w), T)
    BY DEF ClosedUnder, BuiltAgainst
  <1> QED
    BY <1>1, ReachableLeast DEF Covers

LEMMA CoversLess ==
    ASSUME NEW w, NEW p \in Pkg, NEW q \in Covers(w, p)
    PROVE  Covers(w, q) \subseteq Covers(w, p)
  BY CoversClosed, CoversLeast

\* Two requests that agree on what the tag of q covers in one give q the same tag.
LEMMA SameTag ==
    ASSUME NEW v \in SUBSET Key, NEW w \in SUBSET Key, NEW q \in Pkg,
           \A r \in Covers(v, q) : KeysOf(r, v) = KeysOf(r, w)
    PROVE  Covers(v, q) = Covers(w, q) /\ AbiTag(q, v) = AbiTag(q, w)
  <1> DEFINE C == Covers(v, q)
             D == Covers(w, q)
  <1>1. /\ q \in C /\ C \in SUBSET Pkg /\ q \in D /\ D \in SUBSET Pkg
        /\ \A r \in C, s \in Pkg : s \in Dependencies(r, v) => s \in C
        /\ \A r \in D, s \in Pkg : s \in Dependencies(r, w) => s \in D
    BY CoversClosed
  <1>2. \A r \in C : Dependencies(r, v) = Dependencies(r, w)
    BY DEF Dependencies
  <1> HIDE DEF C, D
  <1>3. D \subseteq C
    <2>1. \A r \in C, s \in Pkg : s \in Dependencies(r, w) => s \in C
      BY <1>1, <1>2
    <2> QED
      BY <1>1, <2>1, CoversLeast DEF D
  <1>4. C \subseteq C \cap D
    <2>1. \A r \in C \cap D, s \in Pkg : s \in Dependencies(r, v) => s \in C \cap D
      BY <1>1, <1>2
    <2> QED
      BY <1>1, <2>1, CoversLeast DEF C
  <1>5. C = D
    BY <1>3, <1>4
  <1>6. \A k \in Key : k[1] \in C => (k \in v <=> k \in w)
    BY DEF KeysOf, C
  <1>7. {k \in v : k[1] \in C} = {k \in w : k[1] \in C}
    BY <1>6
  <1> QED
    BY <1>5, <1>7 DEF AbiTag, Covers, C, D

LEMMA KeysOfTag ==
    ASSUME NEW w, NEW p, NEW r \in Covers(w, p)
    PROVE  KeysOf(r, AbiTag(p, w)) = KeysOf(r, w)
  BY DEF AbiTag, Covers, KeysOf

LEMMA TagHasPackage ==
    ASSUME NEW w \in Requests, NEW p \in Packages(w)
    PROVE  w \in SUBSET Key /\ p \in Pkg /\ AbiTag(p, w) \in SUBSET Key /\ <<p, Core>> \in AbiTag(p, w)
  <1>1. w \in SUBSET Key /\ <<p, Core>> \in w
    BY RequestsAssumption DEF Packages
  <1>2. p \in Pkg
    BY <1>1 DEF Key
  <1> QED
    BY <1>1, <1>2, CoversClosed DEF AbiTag, Covers

\* The tag of p has the tag of everything that p is built against.
LEMMA TagWithinTag ==
    ASSUME NEW w \in Requests, NEW p \in Packages(w), NEW q \in Covers(w, p)
    PROVE  AbiTag(q, AbiTag(p, w)) = AbiTag(q, w)
  <1>1. w \in SUBSET Key /\ AbiTag(p, w) \in SUBSET Key /\ p \in Pkg
    BY TagHasPackage
  <1>2. q \in Pkg /\ Covers(w, q) \subseteq Covers(w, p)
    BY <1>1, CoversLess, CoversClosed
  <1>3. \A r \in Covers(w, q) : KeysOf(r, w) = KeysOf(r, AbiTag(p, w))
    BY <1>2, KeysOfTag
  <1> QED
    BY <1>1, <1>2, <1>3, SameTag

\* A tag that some package of another request has, its own package has there too: comparing tags
\* alone, as adjust_action_plan_to_status_db does, finds the right package.
LEMMA TagIdentifies ==
    ASSUME NEW v \in Requests, NEW p \in Packages(v), NEW w \in Requests, NEW q \in Packages(w),
           AbiTag(p, v) = AbiTag(q, w)
    PROVE  p \in Packages(w) /\ AbiTag(p, v) = AbiTag(p, w)
  <1>1. /\ v \in SUBSET Key /\ p \in Pkg /\ <<p, Core>> \in AbiTag(p, v)
        /\ w \in SUBSET Key /\ q \in Pkg
    BY TagHasPackage
  <1>2. p \in Covers(w, q) /\ p \in Packages(w)
    BY <1>1 DEF AbiTag, Covers, Packages
  <1>3. /\ \A r \in Covers(v, p) : KeysOf(r, v) = KeysOf(r, AbiTag(p, v))
        /\ \A r \in Covers(w, q) : KeysOf(r, w) = KeysOf(r, AbiTag(p, v))
    BY KeysOfTag
  <1> DEFINE T == Covers(v, p) \cap Covers(w, q)
  <1>4. /\ T \in SUBSET Pkg /\ p \in T
        /\ \A r \in T : Dependencies(r, v) = Dependencies(r, w)
    BY <1>1, <1>2, <1>3, CoversClosed DEF Dependencies
  <1>5. \A r \in T, s \in Pkg : s \in Dependencies(r, v) => s \in T
    BY <1>1, <1>4, CoversClosed
  <1> HIDE DEF T
  <1>6. Covers(v, p) \subseteq T
    BY <1>4, <1>5, CoversLeast
  <1>7. \A r \in Covers(v, p) : KeysOf(r, v) = KeysOf(r, w)
    <2>1. Covers(v, p) \subseteq Covers(w, q)
      BY <1>6 DEF T
    <2> QED
      BY <1>3, <2>1
  <1> QED
    BY <1>1, <1>2, <1>7, SameTag

(***************************************************************************)
(* The invariants.                                                         *)
(***************************************************************************)
Running == pc \in {"ready", "done", "failed"} \cup InstallLabels \cup RemoveLabels

\* A package that is not installed has no installed features, but for the package in work.
FeaturesInv ==
    /\ Running => \A p \in Pkg : p # op.pkg /\ InstalledFeatures(store, p) # {} => IsInstalled(store, p)
    /\ pc \in {"installCore", "installFeatures", "copy", "list", "core", "delete", "removedCore", "removedFeatures"}
           => InstalledFeatures(store, op.pkg) = {}
    /\ pc = "removedFeatures" => ~ IsInstalled(store, op.pkg)
    /\ pc \in {"features", "removeCore"} => InstalledFeatures(store, op.pkg) \subseteq op.feats
    /\ pc = "removeFeatures" => InstalledFeatures(store, op.pkg) \subseteq todo

\* What is installed and not to be removed is wanted; what is wanted and not to be installed is there.
PlanInv ==
    Running =>
        /\ want \in Requests
        /\ removals # {} => pc \in {"ready"} \cup RemoveLabels
        /\ pc = "done" => removals = {} /\ installs = {}
        /\ \A p \in removals : p # op.pkg /\ IsInstalled(store, p)
        /\ removals \cap Packages(want) \subseteq installs
        /\ pc \in RemoveLabels /\ op.pkg \in Packages(want) => op.pkg \in installs
        /\ pc \in InstallLabels => op.pkg \in Packages(want) \ installs /\ op.feats = FeaturesOf(op.pkg, want)
        /\ \A p \in Pkg \ removals : p # op.pkg /\ IsInstalled(store, p) => p \in Packages(want) \ installs
        /\ ~ failed => \A p \in Packages(want) \ installs : p # op.pkg => IsInstalled(store, p)

\* An installed package carries the tag of some request; in a run, that of this request unless it is to
\* be removed.
Matches(p) == abi[p] = AbiTag(p, want)

TagInv ==
    /\ \A p \in Pkg : IsInstalled(store, p) =>
           /\ \E w \in Requests : p \in Packages(w) /\ abi[p] = AbiTag(p, w)
           /\ KeysOf(p, Recorded(store)) \subseteq abi[p]
    /\ Running => \A p \in Pkg \ removals : p # op.pkg /\ IsInstalled(store, p) => Matches(p)
    /\ pc \in InstallLabels \ {"installCore"} => Matches(op.pkg)

\* The tags of two installed packages, one built against the other, agree; so a package is never
\* removed for a dependency that matches.
Coherent ==
    \A p, q \in Pkg : IsInstalled(store, p) /\ IsInstalled(store, q) /\ p \in Dependencies(q, Recorded(store))
        => abi[p] = AbiTag(p, abi[q])

RemovalInv ==
    /\ Coherent
    /\ Running => \A p \in removals : ~ Matches(p)
    /\ pc = "removeCore" => ~ Matches(op.pkg)

\* As long as no run has kept going: what depends on a package that is to be removed is to be removed,
\* and what a package needs is installed before it.
DependencyInv ==
    /\ failed /\ keepGoing => "keptGoing" \in past
    /\ failed /\ ~ keepGoing => pc = "failed"
    /\ "keptGoing" \notin past =>
        /\ DependenciesInstalled
        /\ Running => \A p \in removals, q \in Pkg :
               IsInstalled(store, q) /\ p \in Dependencies(q, Recorded(store)) => q \in removals \cup {op.pkg}
        /\ pc = "removeCore" => \A q \in Pkg : IsInstalled(store, q) => op.pkg \notin Dependencies(q, Recorded(store))
        /\ pc \in InstallLabels => \A q \in Dependencies(op.pkg, want) : IsInstalled(store, q)

\* Every file belongs to an installed package that lists it, or to the package in work.
FilesOwned ==
    \A x \in File : files[x] # NoPkg =>
        \/ IsInstalled(store, files[x]) /\ x \in listfile[files[x]].names
        \/ /\ files[x] = op.pkg
           /\ \/ pc \in {"copy", "list", "core"} /\ x \in op.content
              \/ pc = "removeFeatures" /\ x \in listfile[op.pkg].names
              \/ pc = "delete" /\ x \in todo

ListsOwned ==
    \A p \in Pkg : listfile[p] # NoList =>
        IsInstalled(store, p) \/ (p = op.pkg /\ pc \in {"list", "core", "removeFeatures", "delete"})

\* Every installed package has all the features of its tag, but for the one in work.
FeaturesWhole ==
    \A p \in Pkg : IsInstalled(store, p) =>
        IF pc = "features" /\ p = op.pkg THEN op.feats \ todo \subseteq InstalledFeatures(store, p)
        ELSE KeysOf(p, Recorded(store)) = KeysOf(p, abi[p])

\* As long as no process was killed.
WholeInv ==
    "killed" \notin past =>
        /\ pc # "refused"
        /\ ~ Running => ~ Corrupted(store)
        /\ FeaturesWhole
        /\ FilesOwned
        /\ ListsOwned

(***************************************************************************)
(* PackageTree's invariant holds in every run.                             *)
(***************************************************************************)
LEMMA PlanStepTree ==
    ASSUME WantOK, Inv, Done \/ \E p \in Pkg : \E content \in Contents[p] : FailNext(p, content)
    PROVE  Inv'
  <1>1. /\ pc = "ready" /\ pc' \in {"ready", "done", "failed"}
        /\ UNCHANGED <<disk, mem, op, todo>>
    BY DEF Done, FailNext, IsNext
  <1>2. TypeOK'
    BY <1>1 DEF Inv, TypeOK, disk, BetweenPackages, InstallLabels, RemoveLabels, FileLoops
  <1>3. MemoryIsDisk'
    BY <1>1 DEF Inv, MemoryIsDisk, Stale, disk
  <1>4. InstalledOwnFiles' /\ InstallInv' /\ RemoveInv'
    BY <1>1 DEF Inv, InstalledOwnFiles, InstallInv, RemoveInv, disk
  <1> QED
    BY <1>2, <1>3, <1>4 DEF Inv

LEMMA TreeInvStep == WantOK /\ Inv /\ [NextSet]_setVars => Inv'
  <1> SUFFICES ASSUME WantOK, Inv, [NextSet]_setVars PROVE Inv'
    OBVIOUS
  <1>1. CASE [Next]_vars
    BY <1>1, NextInv
  <1>2. CASE Done \/ \E p \in Pkg : \E content \in Contents[p] : FailNext(p, content)
    BY <1>2, PlanStepTree
  <1>3. CASE Start \/ Refuse \/ PackageStep \/ End \/ UNCHANGED setVars
    BY <1>1, <1>3 DEF Next, Refuse, PackageStep, End, setVars
  <1>4. ASSUME NEW w \in Requests, AdjustPlan(w) PROVE Next
    BY <1>4 DEF AdjustPlan, GetInstalledPorts, Next
  <1>5. ASSUME NEW p \in Pkg, RemoveNext(p) PROVE Next
    BY <1>5 DEF RemoveNext, Next
  <1>6. ASSUME NEW p \in Pkg, NEW content \in Contents[p], InstallNext(p, content) PROVE Next
    <2>1. FeaturesOf(p, want) \in SUBSET Feat
      BY DEF WantOK, Key, FeaturesOf, KeysOf
    <2> QED
      BY <1>6, <2>1 DEF InstallNext, Next
  <1> QED
    BY <1>1, <1>2, <1>3, <1>4, <1>5, <1>6 DEF NextSet

(***************************************************************************)
(* What the paragraphs say, and what the steps inside one package do to    *)
(* it.                                                                     *)
(***************************************************************************)
LEMMA RecordedKeys ==
    ASSUME NEW m
    PROVE  /\ Recorded(m) \subseteq Key
           /\ \A p \in Pkg : IsInstalled(m, p) <=> <<p, Core>> \in Recorded(m)
           /\ \A p \in Pkg, f \in Feat : f \in InstalledFeatures(m, p) <=> <<p, f>> \in Recorded(m)
           /\ \A p \in Pkg : InstalledFeatures(m, p) \subseteq Feat
  <1>1. Recorded(m) \subseteq Key /\ \A k \in Key : k \in Recorded(m) <=> m[k] = Installed
    BY DEF Recorded
  <1>2. \A p \in Pkg : <<p, Core>> \in Key /\ \A f \in Feat : <<p, f>> \in Key
    BY DEF Key
  <1>3. \A p \in Pkg, f \in Feat : f \in InstalledFeatures(m, p) <=> <<p, f>> \in Recorded(m)
    BY <1>1, <1>2 DEF InstalledFeatures
  <1>4. \A p \in Pkg : IsInstalled(m, p) <=> <<p, Core>> \in Recorded(m)
    BY <1>1, <1>2 DEF IsInstalled
  <1> QED
    BY <1>1, <1>3, <1>4 DEF InstalledFeatures

LEMMA SameRecorded ==
    ASSUME NEW m, NEW n, Recorded(m) = Recorded(n), NEW p \in Pkg
    PROVE  (IsInstalled(m, p) <=> IsInstalled(n, p)) /\ InstalledFeatures(m, p) = InstalledFeatures(n, p)
  <1>1. IsInstalled(m, p) <=> IsInstalled(n, p)
    BY RecordedKeys
  <1>2. InstalledFeatures(m, p) \subseteq Feat /\ InstalledFeatures(n, p) \subseteq Feat
    BY RecordedKeys
  <1>3. \A f \in Feat : f \in InstalledFeatures(m, p) <=> f \in InstalledFeatures(n, p)
    BY RecordedKeys
  <1> QED
    BY <1>1, <1>2, <1>3

LEMMA RecordedUpdate ==
    ASSUME NEW m \in Maps, NEW k \in Key, NEW v
    PROVE  Recorded([m EXCEPT ![k] = v]) = IF v = Installed THEN Recorded(m) \cup {k} ELSE Recorded(m) \ {k}
  BY DEF Recorded, Maps

Early == {"installCore", "installFeatures", "copy", "list", "core"}
Late == {"delete", "removedCore", "removedFeatures"}

\* The steps up to the paragraph that says that the package is installed.
Prepare ==
    /\ pc \in Early /\ pc' \in Early \ {"installCore"}
    /\ op' = op /\ Recorded(store') = Recorded(store)

RecordCore ==
    /\ pc = "core" /\ pc' = "features"
    /\ op' = op /\ todo' = op.feats
    /\ Recorded(store') = Recorded(store) \cup {<<op.pkg, Core>>}

RecordFeature ==
    /\ pc = "features" /\ pc' = "features"
    /\ op' = op
    /\ \E f \in todo : todo' = todo \ {f} /\ Recorded(store') = Recorded(store) \cup {<<op.pkg, f>>}

WithdrawCore ==
    /\ pc = "removeCore" /\ pc' = "removeFeatures"
    /\ op' = op /\ todo' = op.feats
    /\ Recorded(store') = Recorded(store) \ {<<op.pkg, Core>>}

WithdrawFeature ==
    /\ pc = "removeFeatures" /\ pc' = "removeFeatures"
    /\ op' = op
    /\ \E f \in todo : todo' = todo \ {f} /\ Recorded(store') = Recorded(store) \ {<<op.pkg, f>>}

\* The steps after the last installed paragraph of the package is withdrawn.
Clean ==
    /\ pc \in {"removeFeatures"} \cup Late /\ pc' \in Late
    /\ pc = "removeFeatures" => todo = {}
    /\ op' = op /\ Recorded(store') = Recorded(store)

Finish ==
    /\ pc \in {"features", "removedFeatures"} /\ pc' = "ready"
    /\ todo = {}
    /\ op' = NoOp /\ Recorded(store') = Recorded(store)

LEMMA PackageEffects ==
    ASSUME Inv, FeaturesInv, InstallStep \/ RemoveStep
    PROVE  Prepare \/ RecordCore \/ RecordFeature \/ WithdrawCore \/ WithdrawFeature \/ Clean \/ Finish
  <1>1. TypeOK /\ store \in Maps
    BY DEF Inv, TypeOK
  <1>2. ASSUME NEW k \in Feat \cup {Core}, pc \in InstallLabels \cup RemoveLabels
        PROVE  op.pkg \in Pkg /\ <<op.pkg, k>> \in Key
    BY <1>1, <1>2 DEF TypeOK, Key
  <1>3. pc \in InstallLabels => op.feats \subseteq Feat
    BY <1>1 DEF TypeOK
  <1>4. ASSUME pc \in Early \cup Late, NEW k \in Feat \cup {Core}
        PROVE  Recorded(store) \ {<<op.pkg, k>>} = Recorded(store)
    <2>1. op.pkg \in Pkg /\ ~ IsInstalled(store, op.pkg) /\ InstalledFeatures(store, op.pkg) = {}
      BY <1>2, <1>4 DEF Early, Late, Inv, InstallInv, RemoveInv, FeaturesInv, InstallLabels, RemoveLabels
    <2> QED
      BY <1>4, <2>1, RecordedKeys
  <1>5. ASSUME InstallStep PROVE Prepare \/ RecordCore \/ RecordFeature \/ Finish
    <2>1. CASE InstallCoreHalf
      <3>1. Recorded(store') = Recorded(store) \ {<<op.pkg, Core>>}
        BY <1>1, <1>2, <2>1, OneInstalled, RecordedUpdate DEF InstallCoreHalf, WriteAndInsert, InstallLabels
      <3>2. Recorded(store') = Recorded(store)
        BY <1>4, <2>1, <3>1 DEF InstallCoreHalf, Early
      <3> QED
        BY <2>1, <3>2 DEF InstallCoreHalf, Prepare, Early
    <2>2. ASSUME NEW f \in Feat, InstallFeatureHalf(f) PROVE Prepare
      <3>1. Recorded(store') = Recorded(store) \ {<<op.pkg, f>>}
        BY <1>1, <1>2, <2>2, OneInstalled, RecordedUpdate DEF InstallFeatureHalf, WriteAndInsert, InstallLabels
      <3>2. Recorded(store') = Recorded(store)
        BY <1>4, <2>2, <3>1 DEF InstallFeatureHalf, Early
      <3> QED
        BY <2>2, <3>2 DEF InstallFeatureHalf, Prepare, Early
    <2>3. CASE BeginCopy \/ (\E x \in File : CopyFile(x)) \/ CreateListfile \/ WriteListfile
      BY <2>3 DEF BeginCopy, CopyFile, CreateListfile, WriteListfile, Prepare, Early, disk
    <2>4. CASE InstallCore
      <3>1. Recorded(store') = Recorded(store) \cup {<<op.pkg, Core>>}
        BY <1>1, <1>2, <2>4, RecordedUpdate DEF InstallCore, WriteAndInsert, InstallLabels
      <3> QED
        BY <2>4, <3>1 DEF InstallCore, RecordCore
    <2>5. ASSUME NEW f \in Feat, InstallFeature(f) PROVE RecordFeature
      <3>1. Recorded(store') = Recorded(store) \cup {<<op.pkg, f>>}
        BY <1>1, <1>2, <2>5, RecordedUpdate DEF InstallFeature, WriteAndInsert, InstallLabels
      <3> QED
        BY <2>5, <3>1 DEF InstallFeature, RecordFeature
    <2>6. CASE EndInstall
      BY <2>6 DEF EndInstall, Finish, disk
    <2> QED
      BY <1>5, <2>1, <2>2, <2>3, <2>4, <2>5, <2>6 DEF InstallStep
  <1>6. ASSUME RemoveStep PROVE WithdrawCore \/ WithdrawFeature \/ Clean \/ Finish
    <2>1. CASE RemoveCoreHalf
      <3>1. Recorded(store') = Recorded(store) \ {<<op.pkg, Core>>}
        BY <1>1, <1>2, <2>1, OneInstalled, RecordedUpdate DEF RemoveCoreHalf, RemoveLabels
      <3> QED
        BY <2>1, <3>1 DEF RemoveCoreHalf, WithdrawCore
    <2>2. ASSUME NEW f \in Feat, RemoveFeatureHalf(f) PROVE WithdrawFeature
      <3>1. Recorded(store') = Recorded(store) \ {<<op.pkg, f>>}
        BY <1>1, <1>2, <2>2, OneInstalled, RecordedUpdate DEF RemoveFeatureHalf, RemoveLabels
      <3> QED
        BY <2>2, <3>1 DEF RemoveFeatureHalf, WithdrawFeature
    <2>3. CASE ReadListfile \/ (\E x \in File : DeleteFile(x)) \/ DeleteListfile
      BY <2>3 DEF ReadListfile, DeleteFile, DeleteListfile, Clean, Late, disk
    <2>4. CASE RemoveCore
      <3>1. Recorded(store') = Recorded(store) \ {<<op.pkg, Core>>}
        BY <1>1, <1>2, <2>4, OneInstalled, RecordedUpdate DEF RemoveCore, WriteAndInsert, RemoveLabels
      <3>2. Recorded(store') = Recorded(store)
        BY <1>4, <2>4, <3>1 DEF RemoveCore, Late
      <3> QED
        BY <2>4, <3>2 DEF RemoveCore, Clean, Late
    <2>5. ASSUME NEW f \in Feat, RemoveFeature(f) PROVE Clean
      <3>1. Recorded(store') = Recorded(store) \ {<<op.pkg, f>>}
        BY <1>1, <1>2, <2>5, OneInstalled, RecordedUpdate DEF RemoveFeature, WriteAndInsert, RemoveLabels
      <3>2. Recorded(store') = Recorded(store)
        BY <1>4, <2>5, <3>1 DEF RemoveFeature, Late
      <3> QED
        BY <2>5, <3>2 DEF RemoveFeature, Clean, Late
    <2>6. CASE EndRemove
      BY <2>6 DEF EndRemove, Finish, disk
    <2> QED
      BY <1>6, <2>1, <2>2, <2>3, <2>4, <2>5, <2>6 DEF RemoveStep
  <1> QED
    BY <1>5, <1>6

LEMMA MemoryIsStore == Inv /\ pc \in {"loaded", "ready"} => mem = store
  <1> SUFFICES ASSUME Inv, pc \in {"loaded", "ready"} PROVE mem = store
    OBVIOUS
  <1>1. mem \in Maps /\ store \in Maps
    BY DEF Inv, TypeOK
  <1>2. \A k \in Key : mem[k] = store[k]
    BY DEF Inv, MemoryIsDisk, Stale
  <1> QED
    BY <1>1, <1>2 DEF Maps

\* Between two packages none is in work.
LEMMA NoneInWork == Inv /\ pc \in BetweenPackages => op = NoOp /\ op.pkg \notin Pkg
  BY ConstantsAssumption DEF Inv, TypeOK, BetweenPackages, InstallLabels, RemoveLabels, NoOp

LEMMA OneInWork == Inv /\ pc \in InstallLabels \cup RemoveLabels => op.pkg \in Pkg
  BY DEF Inv, TypeOK

LEMMA CoreChange ==
    ASSUME NEW m, NEW n, NEW o \in Pkg,
           Recorded(n) = Recorded(m) \cup {<<o, Core>>} \/ Recorded(n) = Recorded(m) \ {<<o, Core>>}
    PROVE  /\ IsInstalled(n, o) <=> Recorded(n) = Recorded(m) \cup {<<o, Core>>}
           /\ \A p \in Pkg : p # o => (IsInstalled(n, p) <=> IsInstalled(m, p))
           /\ \A p \in Pkg : InstalledFeatures(n, p) = InstalledFeatures(m, p)
  <1>1. \A p \in Pkg : p # o => (IsInstalled(n, p) <=> IsInstalled(m, p))
    BY RecordedKeys
  <1>2. IsInstalled(n, o) <=> Recorded(n) = Recorded(m) \cup {<<o, Core>>}
    BY RecordedKeys
  <1>3. ASSUME NEW p \in Pkg PROVE InstalledFeatures(n, p) = InstalledFeatures(m, p)
    <2>1. InstalledFeatures(n, p) \subseteq Feat /\ InstalledFeatures(m, p) \subseteq Feat
      BY RecordedKeys
    <2>2. \A f \in Feat : f \in InstalledFeatures(n, p) <=> f \in InstalledFeatures(m, p)
      BY RecordedKeys, ConstantsAssumption
    <2> QED
      BY <2>1, <2>2
  <1> QED
    BY <1>1, <1>2, <1>3

LEMMA FeatureChange ==
    ASSUME NEW m, NEW n, NEW o \in Pkg, NEW f \in Feat,
           Recorded(n) = Recorded(m) \cup {<<o, f>>} \/ Recorded(n) = Recorded(m) \ {<<o, f>>}
    PROVE  /\ \A p \in Pkg : IsInstalled(n, p) <=> IsInstalled(m, p)
           /\ \A p \in Pkg : p # o => InstalledFeatures(n, p) = InstalledFeatures(m, p)
  <1>1. \A p \in Pkg : InstalledFeatures(n, p) \subseteq Feat /\ InstalledFeatures(m, p) \subseteq Feat
    BY RecordedKeys
  <1>2. \A p \in Pkg : IsInstalled(n, p) <=> IsInstalled(m, p)
    BY RecordedKeys, ConstantsAssumption
  <1>3. ASSUME NEW p \in Pkg, p # o PROVE InstalledFeatures(n, p) = InstalledFeatures(m, p)
    <2>1. \A g \in Feat : g \in InstalledFeatures(n, p) <=> g \in InstalledFeatures(m, p)
      BY <1>3, RecordedKeys
    <2> QED
      BY <1>1, <2>1
  <1> QED
    BY <1>2, <1>3

LEMMA FeatureGained ==
    ASSUME NEW m, NEW n, NEW o \in Pkg, NEW f \in Feat, Recorded(n) = Recorded(m) \cup {<<o, f>>}
    PROVE  /\ \A p \in Pkg : IsInstalled(n, p) <=> IsInstalled(m, p)
           /\ \A p \in Pkg : p # o => InstalledFeatures(n, p) = InstalledFeatures(m, p)
           /\ InstalledFeatures(n, o) = InstalledFeatures(m, o) \cup {f}
  <1>1. InstalledFeatures(n, o) \subseteq Feat /\ InstalledFeatures(m, o) \subseteq Feat
    BY RecordedKeys
  <1>2. \A g \in Feat : g \in InstalledFeatures(n, o) <=> g \in InstalledFeatures(m, o) \cup {f}
    BY RecordedKeys
  <1>3. InstalledFeatures(n, o) = InstalledFeatures(m, o) \cup {f}
    BY <1>1, <1>2
  <1> QED
    BY <1>3, FeatureChange

(***************************************************************************)
(* The features of packages that are not installed.                        *)
(***************************************************************************)
LEMMA FeaturesPackageStep ==
    ASSUME Inv, FeaturesInv, InstallStep \/ RemoveStep
    PROVE  FeaturesInv'
  <1> DEFINE s == store
             t == store'
             o == op.pkg
  <1>1. \A p \in Pkg : Recorded(t) = Recorded(s) =>
            (IsInstalled(t, p) <=> IsInstalled(s, p)) /\ InstalledFeatures(t, p) = InstalledFeatures(s, p)
    BY SameRecorded
  <1>2. CASE Prepare
    <2>1. o \in Pkg /\ op'.pkg = o
      BY <1>2, OneInWork DEF Prepare, Early, InstallLabels
    <2>2. InstalledFeatures(s, o) = {} /\ \A p \in Pkg : p # o /\ InstalledFeatures(s, p) # {} => IsInstalled(s, p)
      BY <1>2 DEF Prepare, Early, FeaturesInv, Running, InstallLabels
    <2> QED
      BY <1>1, <1>2, <2>1, <2>2 DEF Prepare, Early, FeaturesInv
  <1>3. CASE RecordCore
    <2>1. o \in Pkg /\ op'.pkg = o
      BY <1>3, OneInWork DEF RecordCore, InstallLabels
    <2>2. InstalledFeatures(s, o) = {} /\ \A p \in Pkg : p # o /\ InstalledFeatures(s, p) # {} => IsInstalled(s, p)
      BY <1>3 DEF RecordCore, FeaturesInv, Running, InstallLabels
    <2>3. \A p \in Pkg : (p # o => (IsInstalled(t, p) <=> IsInstalled(s, p))) /\ InstalledFeatures(t, p) = InstalledFeatures(s, p)
      BY <1>3, <2>1, CoreChange DEF RecordCore
    <2> QED
      BY <1>3, <2>1, <2>2, <2>3 DEF RecordCore, FeaturesInv
  <1>4. CASE RecordFeature
    <2>1. o \in Pkg /\ op'.pkg = o /\ todo \subseteq op.feats /\ op.feats \subseteq Feat
      BY <1>4, OneInWork DEF RecordFeature, InstallLabels, Inv, TypeOK, FileLoops
    <2>2. /\ InstalledFeatures(s, o) \subseteq op.feats
          /\ \A p \in Pkg : p # o /\ InstalledFeatures(s, p) # {} => IsInstalled(s, p)
      BY <1>4 DEF RecordFeature, FeaturesInv, Running, InstallLabels
    <2>3. PICK f \in todo : Recorded(t) = Recorded(s) \cup {<<o, f>>}
      BY <1>4 DEF RecordFeature
    <2>4. /\ \A p \in Pkg : (IsInstalled(t, p) <=> IsInstalled(s, p))
          /\ \A p \in Pkg : p # o => InstalledFeatures(t, p) = InstalledFeatures(s, p)
          /\ InstalledFeatures(t, o) = InstalledFeatures(s, o) \cup {f}
      BY <2>1, <2>3, FeatureGained
    <2> QED
      BY <1>4, <2>1, <2>2, <2>4 DEF RecordFeature, FeaturesInv
  <1>5. CASE WithdrawCore
    <2>1. o \in Pkg /\ op'.pkg = o
      BY <1>5, OneInWork DEF WithdrawCore, RemoveLabels
    <2>2. /\ InstalledFeatures(s, o) \subseteq op.feats
          /\ \A p \in Pkg : p # o /\ InstalledFeatures(s, p) # {} => IsInstalled(s, p)
      BY <1>5 DEF WithdrawCore, FeaturesInv, Running, RemoveLabels
    <2>3. \A p \in Pkg : (p # o => (IsInstalled(t, p) <=> IsInstalled(s, p))) /\ InstalledFeatures(t, p) = InstalledFeatures(s, p)
      BY <1>5, <2>1, CoreChange DEF WithdrawCore
    <2> QED
      BY <1>5, <2>1, <2>2, <2>3 DEF WithdrawCore, FeaturesInv
  <1>6. CASE WithdrawFeature
    <2>1. o \in Pkg /\ op'.pkg = o /\ todo \subseteq op.feats /\ op.feats \subseteq Feat
      BY <1>6, OneInWork DEF WithdrawFeature, RemoveLabels, Inv, TypeOK, FileLoops
    <2>2. /\ InstalledFeatures(s, o) \subseteq todo
          /\ \A p \in Pkg : p # o /\ InstalledFeatures(s, p) # {} => IsInstalled(s, p)
      BY <1>6 DEF WithdrawFeature, FeaturesInv, Running, RemoveLabels
    <2>3. PICK f \in todo : todo' = todo \ {f} /\ Recorded(t) = Recorded(s) \ {<<o, f>>}
      BY <1>6 DEF WithdrawFeature
    <2>4. InstalledFeatures(t, o) \subseteq todo'
      <3>1. InstalledFeatures(t, o) \subseteq Feat
        BY <2>1, RecordedKeys
      <3>2. \A g \in Feat : g \in InstalledFeatures(t, o) => g # f /\ g \in InstalledFeatures(s, o)
        BY <2>1, <2>3, RecordedKeys
      <3> QED
        BY <2>2, <2>3, <3>1, <3>2
    <2>5. /\ \A p \in Pkg : (IsInstalled(t, p) <=> IsInstalled(s, p))
          /\ \A p \in Pkg : p # o => InstalledFeatures(t, p) = InstalledFeatures(s, p)
      BY <2>1, <2>3, FeatureChange
    <2> QED
      BY <1>6, <2>1, <2>2, <2>4, <2>5 DEF WithdrawFeature, FeaturesInv
  <1>7. CASE Clean
    <2>1. o \in Pkg /\ op'.pkg = o
      BY <1>7, OneInWork DEF Clean, Late, RemoveLabels
    <2>2. /\ InstalledFeatures(s, o) = {} /\ ~ IsInstalled(s, o)
          /\ \A p \in Pkg : p # o /\ InstalledFeatures(s, p) # {} => IsInstalled(s, p)
      BY <1>7 DEF Clean, Late, FeaturesInv, Running, RemoveLabels, Inv, RemoveInv
    <2>3. \A p \in Pkg : (IsInstalled(t, p) <=> IsInstalled(s, p)) /\ InstalledFeatures(t, p) = InstalledFeatures(s, p)
      BY <1>1, <1>7 DEF Clean
    <2> QED
      BY <1>7, <2>1, <2>2, <2>3 DEF Clean, Late, FeaturesInv
  <1>8. CASE Finish
    <2>1. o \in Pkg
      BY <1>8, OneInWork DEF Finish, InstallLabels, RemoveLabels
    <2>2. \A p \in Pkg : InstalledFeatures(s, p) # {} => IsInstalled(s, p)
      BY <1>8, <2>1 DEF Finish, FeaturesInv, Running, InstallLabels, RemoveLabels, Inv, InstallInv
    <2>3. \A p \in Pkg : (IsInstalled(t, p) <=> IsInstalled(s, p)) /\ InstalledFeatures(t, p) = InstalledFeatures(s, p)
      BY <1>1, <1>8 DEF Finish
    <2> QED
      BY <1>8, <2>2, <2>3 DEF Finish, FeaturesInv
  <1> QED
    BY <1>2, <1>3, <1>4, <1>5, <1>6, <1>7, <1>8, PackageEffects

LEMMA FeaturesStep == Inv /\ FeaturesInv /\ [NextSet]_setVars => FeaturesInv'
  <1> SUFFICES ASSUME Inv, FeaturesInv, [NextSet]_setVars PROVE FeaturesInv'
    OBVIOUS
  <1>1. CASE Start \/ Refuse \/ End
    <2>1. pc' \in {"off", "loaded", "refused"}
      BY <1>1 DEF Start, Refuse, GetInstalledPorts, End, Stop
    <2> QED
      BY <2>1 DEF FeaturesInv, Running, InstallLabels, RemoveLabels
  <1>2. ASSUME NEW w \in Requests, AdjustPlan(w) PROVE FeaturesInv'
    <2>1. mem = store /\ ~ Corrupted(mem) /\ pc' = "ready" /\ store' = store
      BY <1>2, MemoryIsStore DEF AdjustPlan, disk
    <2> QED
      BY <2>1 DEF FeaturesInv, Corrupted
  <1>3. ASSUME NEW p \in Pkg, RemoveNext(p) PROVE FeaturesInv'
    <2>1. /\ pc = "ready" /\ pc' = "removeCore" /\ store' = store
          /\ op'.pkg = p /\ op'.feats = InstalledFeatures(store, p)
      BY <1>3, MemoryIsStore DEF RemoveNext, BeginRemove, disk
    <2>2. \A q \in Pkg : InstalledFeatures(store, q) # {} => IsInstalled(store, q)
      BY <2>1, NoneInWork DEF FeaturesInv, Running, BetweenPackages
    <2> QED
      BY <2>1, <2>2 DEF FeaturesInv
  <1>4. ASSUME NEW p \in Pkg, NEW content \in Contents[p], InstallNext(p, content) PROVE FeaturesInv'
    <2>1. /\ pc = "ready" /\ pc' = "installCore" /\ store' = store
          /\ op'.pkg = p /\ ~ IsInstalled(store, p)
      BY <1>4, MemoryIsStore DEF InstallNext, BeginInstall, disk
    <2>2. \A q \in Pkg : InstalledFeatures(store, q) # {} => IsInstalled(store, q)
      BY <2>1, NoneInWork DEF FeaturesInv, Running, BetweenPackages
    <2> QED
      BY <2>1, <2>2 DEF FeaturesInv
  <1>5. CASE Done \/ \E p \in Pkg : \E content \in Contents[p] : FailNext(p, content)
    <2>1. pc = "ready" /\ pc' \in {"ready", "done", "failed"} /\ store' = store /\ op' = op
      BY <1>5 DEF Done, FailNext, IsNext, disk
    <2> QED
      BY <2>1 DEF FeaturesInv, Running
  <1>6. CASE PackageStep
    BY <1>6, FeaturesPackageStep DEF PackageStep
  <1>7. CASE UNCHANGED setVars
    BY <1>7 DEF setVars, vars, disk, FeaturesInv, Running
  <1> QED
    BY <1>1, <1>2, <1>3, <1>4, <1>5, <1>6, <1>7 DEF NextSet

(***************************************************************************)
(* The plan.                                                               *)
(***************************************************************************)
LEMMA SetTypeStep == Inv /\ SetTypeOK /\ [NextSet]_setVars => SetTypeOK'
  <1> SUFFICES ASSUME Inv, SetTypeOK, [NextSet]_setVars PROVE SetTypeOK'
    OBVIOUS
  <1>1. CASE (Start /\ UNCHANGED <<abi, plan>>) \/ Refuse \/ Done \/ UNCHANGED setVars
    BY <1>1 DEF Start, Refuse, Done, setVars, plan, SetTypeOK
  <1>2. ASSUME NEW w \in Requests, AdjustPlan(w) PROVE SetTypeOK'
    <2>1. w \in SUBSET Key /\ KeepGoing \subseteq BOOLEAN
      BY RequestsAssumption
    <2>2. removals' \subseteq Pkg
      BY <1>2 DEF AdjustPlan, RemovePlan, Reachable
    <2> QED
      BY <1>2, <2>1, <2>2 DEF AdjustPlan, SetTypeOK
  <1>3. ASSUME NEW p \in Pkg, RemoveNext(p) PROVE SetTypeOK'
    BY <1>3 DEF RemoveNext, SetTypeOK
  <1>4. ASSUME NEW p \in Pkg, NEW content \in Contents[p], InstallNext(p, content) \/ FailNext(p, content)
        PROVE  SetTypeOK'
    BY <1>4 DEF InstallNext, FailNext, SetTypeOK
  <1>5. CASE PackageStep
    <2>1. AbiTag(op.pkg, want) \in SUBSET Key
      BY DEF AbiTag, SetTypeOK
    <2> QED
      BY <1>5, <2>1 DEF PackageStep, plan, SetTypeOK
  <1>6. CASE End
    BY <1>6 DEF End, SetTypeOK
  <1> QED
    BY <1>1, <1>2, <1>3, <1>4, <1>5, <1>6 DEF NextSet

\* What a new plan says.
LEMMA Adjusted ==
    ASSUME Inv, TagInv, NEW w \in Requests, AdjustPlan(w)
    PROVE  /\ \A p \in removals' : p \in Pkg /\ IsInstalled(store, p)
           /\ \A p \in Pkg \ removals' : IsInstalled(store, p) => p \in Packages(w) \ installs' /\ abi[p] = AbiTag(p, w)
           /\ removals' \cap Packages(w) \subseteq installs'
           /\ \A p \in Packages(w) \ installs' : IsInstalled(store, p)
           /\ \A p \in removals', q \in Pkg :
                  IsInstalled(store, q) /\ p \in Dependencies(q, Recorded(store)) => q \in removals'
  <1> DEFINE stale == {p \in Pkg : IsInstalled(store, p) /\ \A q \in Packages(w) : abi[p] # AbiTag(q, w)}
             there == {p \in Pkg : IsInstalled(store, p)}
  <1>1. /\ mem = store
        /\ removals' = Reachable(Dependents(Recorded(store)), stale)
        /\ installs' = Packages(w) \ ({p \in Packages(w) : IsInstalled(store, p)} \ removals')
    BY MemoryIsStore DEF AdjustPlan, RemovePlan, AlreadyInstalled
  <1>2. Dependents(Recorded(store)) \in SUBSET (Pkg \X Pkg)
    BY DEF Dependents
  <1>3. stale \subseteq removals' /\ removals' \subseteq Pkg
    BY <1>1, ReachableHas
  <1>4. removals' \subseteq there
    <2>1. ClosedUnder(Dependents(Recorded(store)), there)
      BY RecordedKeys DEF ClosedUnder, Dependents
    <2> QED
      BY <1>1, <2>1, ReachableLeast
  <1>5. ASSUME NEW p \in Pkg \ removals', IsInstalled(store, p)
        PROVE  p \in Packages(w) \ installs' /\ abi[p] = AbiTag(p, w)
    <2>1. PICK v \in Requests : p \in Packages(v) /\ abi[p] = AbiTag(p, v)
      BY <1>5 DEF TagInv
    <2>2. PICK q \in Packages(w) : abi[p] = AbiTag(q, w)
      BY <1>3, <1>5
    <2>3. p \in Packages(w) /\ abi[p] = AbiTag(p, w)
      <3>1. AbiTag(p, v) = AbiTag(q, w)
        BY <2>1, <2>2
      <3>2. p \in Packages(w) /\ AbiTag(p, v) = AbiTag(p, w)
        BY <2>1, <3>1, TagIdentifies
      <3> QED
        BY <2>1, <3>2
    <2> QED
      BY <1>1, <1>5, <2>3
  <1>6. ASSUME NEW p \in removals', NEW q \in Pkg, IsInstalled(store, q), p \in Dependencies(q, Recorded(store))
        PROVE  q \in removals'
    <2>1. <<p, q>> \in Dependents(Recorded(store))
      BY <1>3, <1>6, RecordedKeys DEF Dependents
    <2>2. ClosedUnder(Dependents(Recorded(store)), removals')
      BY <1>1, <1>2, ReachableClosed
    <2> QED
      BY <1>6, <2>1, <2>2 DEF ClosedUnder
  <1> QED
    BY <1>1, <1>3, <1>4, <1>5, <1>6

\* A step inside one package leaves the paragraphs of the others alone.
LEMMA OthersKept ==
    ASSUME Inv, FeaturesInv, InstallStep \/ RemoveStep
    PROVE  /\ op.pkg \in Pkg
           /\ \A p \in Pkg : p # op.pkg =>
                  /\ IsInstalled(store', p) <=> IsInstalled(store, p)
                  /\ KeysOf(p, Recorded(store')) = KeysOf(p, Recorded(store))
                  /\ Dependencies(p, Recorded(store')) = Dependencies(p, Recorded(store))
  <1>1. Prepare \/ RecordCore \/ RecordFeature \/ WithdrawCore \/ WithdrawFeature \/ Clean \/ Finish
    BY PackageEffects
  <1>2. op.pkg \in Pkg
    BY <1>1, OneInWork DEF Prepare, RecordCore, RecordFeature, WithdrawCore, WithdrawFeature, Clean, Finish,
                           Early, Late, InstallLabels, RemoveLabels
  <1>3. \/ Recorded(store') = Recorded(store)
        \/ \E k : \/ Recorded(store') = Recorded(store) \cup {<<op.pkg, k>>}
                 \/ Recorded(store') = Recorded(store) \ {<<op.pkg, k>>}
    BY <1>1 DEF Prepare, RecordCore, RecordFeature, WithdrawCore, WithdrawFeature, Clean, Finish
  <1>4. ASSUME NEW p \in Pkg, p # op.pkg
        PROVE  /\ IsInstalled(store', p) <=> IsInstalled(store, p)
               /\ KeysOf(p, Recorded(store')) = KeysOf(p, Recorded(store))
    <2>1. \A k \in Key : k[1] = p => (k \in Recorded(store') <=> k \in Recorded(store))
      BY <1>3, <1>4
    <2>2. KeysOf(p, Recorded(store')) = KeysOf(p, Recorded(store))
      <3>1. Recorded(store') \subseteq Key /\ Recorded(store) \subseteq Key
        BY RecordedKeys
      <3> QED
        BY <2>1, <3>1 DEF KeysOf
    <2>3. IsInstalled(store', p) <=> IsInstalled(store, p)
      <3>1. <<p, Core>> \in Key /\ <<p, Core>>[1] = p
        BY DEF Key
      <3> QED
        BY <2>1, <3>1, RecordedKeys
    <2> QED
      BY <2>2, <2>3
  <1>5. \A p \in Pkg : p # op.pkg => Dependencies(p, Recorded(store')) = Dependencies(p, Recorded(store))
    BY <1>4 DEF Dependencies
  <1> QED
    BY <1>2, <1>4, <1>5

LEMMA PlanPackageStep ==
    ASSUME Inv, SetTypeOK, FeaturesInv, PlanInv, PackageStep
    PROVE  PlanInv'
  <1> DEFINE o == op.pkg
             P == Packages(want)
  <1>1. UNCHANGED <<want, removals, installs, failed>> /\ (InstallStep \/ RemoveStep)
    BY DEF PackageStep, plan
  <1>2. Prepare \/ RecordCore \/ RecordFeature \/ WithdrawCore \/ WithdrawFeature \/ Clean \/ Finish
    BY <1>1, PackageEffects
  <1>3. pc \in InstallLabels \cup RemoveLabels /\ o \in Pkg
    BY <1>2, OneInWork DEF Prepare, RecordCore, RecordFeature, WithdrawCore, WithdrawFeature, Clean, Finish,
                           Early, Late, InstallLabels, RemoveLabels
  <1>4. /\ want \in Requests /\ removals \subseteq Pkg /\ P \subseteq Pkg
        /\ removals # {} => pc \in RemoveLabels
        /\ \A p \in removals : p # o /\ IsInstalled(store, p)
        /\ removals \cap P \subseteq installs
        /\ pc \in RemoveLabels /\ o \in P => o \in installs
        /\ pc \in InstallLabels => o \in P \ installs /\ op.feats = FeaturesOf(o, want)
        /\ \A p \in Pkg \ removals : p # o /\ IsInstalled(store, p) => p \in P \ installs
        /\ ~ failed => \A p \in P \ installs : p # o => IsInstalled(store, p)
    <2>1. P \subseteq Pkg
      BY DEF SetTypeOK, Packages, Key
    <2>2. Running /\ pc # "ready"
      BY <1>3 DEF Running, InstallLabels, RemoveLabels
    <2> QED
      BY <2>1, <2>2 DEF PlanInv, SetTypeOK
  <1> HIDE DEF P
  <1>5. \A p \in Pkg : p # o => (IsInstalled(store', p) <=> IsInstalled(store, p))
    BY <1>1, OthersKept
  <1>6. CASE ~ Finish
    <2>1. /\ op' = op
          /\ (pc \in InstallLabels /\ pc' \in InstallLabels) \/ (pc \in RemoveLabels /\ pc' \in RemoveLabels)
      BY <1>2, <1>6 DEF Prepare, RecordCore, RecordFeature, WithdrawCore, WithdrawFeature, Clean,
                        Early, Late, InstallLabels, RemoveLabels
    <2>2. pc' # "done"
      BY <2>1 DEF InstallLabels, RemoveLabels
    <2>3. P' = P
      BY <1>1 DEF P
    <2> QED
      BY <1>1, <1>4, <1>5, <2>1, <2>2, <2>3 DEF PlanInv, P, InstallLabels, RemoveLabels
  <1>7. CASE Finish
    <2>1. /\ pc' = "ready" /\ op'.pkg \notin Pkg
          /\ pc \in InstallLabels => IsInstalled(store', o) /\ o \in P \ installs
          /\ pc \notin InstallLabels => ~ IsInstalled(store', o) /\ (o \in P => o \in installs)
      <3>1. IsInstalled(store', o) <=> IsInstalled(store, o)
        BY <1>3, <1>7, SameRecorded DEF Finish
      <3>2. pc' = "ready" /\ op'.pkg \notin Pkg
        BY <1>7, ConstantsAssumption DEF Finish, NoOp
      <3>3. \/ pc = "features" /\ IsInstalled(store, o)
            \/ pc = "removedFeatures" /\ ~ IsInstalled(store, o)
        BY <1>7 DEF Finish, Inv, InstallInv, FeaturesInv
      <3> QED
        BY <1>4, <3>1, <3>2, <3>3 DEF InstallLabels, RemoveLabels
    <2>2. P' = P
      BY <1>1 DEF P
    <2>3. /\ \A p \in removals : p # op'.pkg /\ IsInstalled(store', p)
          /\ \A p \in Pkg \ removals : IsInstalled(store', p) => p \in P \ installs
          /\ ~ failed => \A p \in P \ installs : IsInstalled(store', p)
      BY <1>4, <1>5, <2>1
    <2> QED
      BY <1>1, <1>4, <2>1, <2>2, <2>3 DEF PlanInv, P, InstallLabels, RemoveLabels
  <1> QED
    BY <1>6, <1>7

LEMMA PlanStep == Inv /\ SetTypeOK /\ FeaturesInv /\ PlanInv /\ TagInv /\ [NextSet]_setVars => PlanInv'
  <1> SUFFICES ASSUME Inv, SetTypeOK, FeaturesInv, PlanInv, TagInv, [NextSet]_setVars PROVE PlanInv'
    OBVIOUS
  <1> DEFINE P == Packages(want)
  <1>1. CASE Start \/ Refuse \/ End
    <2>1. pc' \in {"off", "loaded", "refused"}
      BY <1>1 DEF Start, Refuse, GetInstalledPorts, End, Stop
    <2> QED
      BY <2>1 DEF PlanInv, Running, InstallLabels, RemoveLabels
  <1>2. ASSUME NEW w \in Requests, AdjustPlan(w) PROVE PlanInv'
    <2>1. /\ pc' = "ready" /\ store' = store /\ want' = w /\ op' = op /\ op.pkg \notin Pkg
      BY <1>2, NoneInWork DEF AdjustPlan, disk, BetweenPackages
    <2>2. Packages(w) \subseteq Pkg
      BY RequestsAssumption DEF Packages, Key
    <2> QED
      BY <1>2, <2>1, <2>2, Adjusted DEF PlanInv, InstallLabels, RemoveLabels
  <1>3. pc = "ready" =>
            /\ want \in Requests /\ op.pkg \notin Pkg /\ removals \subseteq Pkg /\ P \subseteq Pkg
            /\ \A p \in removals : IsInstalled(store, p)
            /\ removals \cap P \subseteq installs
            /\ \A p \in Pkg \ removals : IsInstalled(store, p) => p \in P \ installs
            /\ ~ failed => \A p \in P \ installs : IsInstalled(store, p)
    <2>1. P \subseteq Pkg
      BY DEF SetTypeOK, Packages, Key
    <2>2. pc = "ready" => Running /\ op.pkg \notin Pkg
      BY NoneInWork DEF Running, BetweenPackages
    <2> QED
      BY <2>1, <2>2 DEF PlanInv, SetTypeOK
  <1>4. ASSUME NEW p \in Pkg, RemoveNext(p) PROVE PlanInv'
    <2>1. /\ pc = "ready" /\ pc' = "removeCore" /\ op'.pkg = p /\ store' = store
          /\ p \in removals /\ removals' = removals \ {p} /\ UNCHANGED <<want, installs, failed>>
      BY <1>4 DEF RemoveNext, BeginRemove, disk
    <2> QED
      BY <1>3, <2>1 DEF PlanInv, InstallLabels, RemoveLabels
  <1>5. ASSUME NEW p \in Pkg, NEW content \in Contents[p], InstallNext(p, content) PROVE PlanInv'
    <2>1. /\ pc = "ready" /\ pc' = "installCore" /\ store' = store
          /\ op'.pkg = p /\ op'.feats = FeaturesOf(p, want)
          /\ removals = {} /\ p \in installs /\ installs' = installs \ {p} /\ UNCHANGED <<want, removals, failed>>
      BY <1>5 DEF InstallNext, IsNext, BeginInstall, disk
    <2>2. installs \subseteq P
      BY DEF SetTypeOK
    <2> QED
      BY <1>3, <2>1, <2>2 DEF PlanInv, InstallLabels, RemoveLabels
  <1>6. ASSUME NEW p \in Pkg, NEW content \in Contents[p], FailNext(p, content) PROVE PlanInv'
    <2>1. /\ pc = "ready" /\ pc' \in {"ready", "failed"} /\ store' = store /\ op' = op /\ failed' = TRUE
          /\ removals = {} /\ installs' = installs \ {p} /\ UNCHANGED <<want, removals>>
      BY <1>6 DEF FailNext, IsNext, disk
    <2> QED
      BY <1>3, <2>1 DEF PlanInv, InstallLabels, RemoveLabels
  <1>7. CASE Done
    <2>1. /\ pc = "ready" /\ pc' = "done" /\ store' = store /\ op' = op /\ removals = {} /\ installs = {}
          /\ UNCHANGED <<want, removals, installs, failed>>
      BY <1>7 DEF Done, plan, disk
    <2> QED
      BY <1>3, <2>1 DEF PlanInv, InstallLabels, RemoveLabels
  <1>8. CASE PackageStep
    BY <1>8, PlanPackageStep
  <1>9. CASE UNCHANGED setVars
    BY <1>9 DEF setVars, vars, disk, plan, PlanInv, Running
  <1> QED
    BY <1>1, <1>2, <1>4, <1>5, <1>6, <1>7, <1>8, <1>9 DEF NextSet

(***************************************************************************)
(* The tags of what is installed.                                          *)
(***************************************************************************)
\* What is built against each other for one request has tags that agree.
LEMMA SameRequest ==
    ASSUME NEW w \in Requests, NEW p \in Pkg, NEW q \in Packages(w), NEW keys,
           KeysOf(q, keys) \subseteq AbiTag(q, w), p \in Dependencies(q, keys)
    PROVE  AbiTag(p, w) = AbiTag(p, AbiTag(q, w))
  <1>1. q \in Pkg
    BY TagHasPackage
  <1>2. p \in Dependencies(q, w)
    <2>1. KeysOf(q, keys) \subseteq KeysOf(q, w)
      BY DEF AbiTag, KeysOf
    <2> QED
      BY <2>1 DEF Dependencies, Packages
  <1>3. p \in Covers(w, q)
    BY <1>1, <1>2, CoversClosed
  <1> QED
    BY <1>3, TagWithinTag

LEMMA WantedKey ==
    ASSUME NEW w \in Requests, NEW p \in Packages(w), NEW k \in KeysOf(p, w)
    PROVE  k \in AbiTag(p, w)
  BY TagHasPackage, CoversClosed DEF AbiTag, Covers, KeysOf

LEMMA NothingRecorded ==
    ASSUME NEW m, NEW p \in Pkg, ~ IsInstalled(m, p), InstalledFeatures(m, p) = {}
    PROVE  KeysOf(p, Recorded(m)) = {}
  <1> SUFFICES ASSUME NEW k \in Recorded(m), k[1] = p PROVE FALSE
    BY DEF KeysOf
  <1>1. PICK f \in Feat \cup {Core} : k = <<p, f>>
    BY RecordedKeys DEF Key
  <1> QED
    BY <1>1, RecordedKeys

LEMMA TagPackageStep ==
    ASSUME Inv, SetTypeOK, FeaturesInv, PlanInv, TagInv, PackageStep
    PROVE  TagInv'
  <1> DEFINE o == op.pkg
             keys(p) == KeysOf(p, Recorded(store))
             then(p) == KeysOf(p, Recorded(store'))
  <1>1. /\ UNCHANGED <<want, removals>> /\ (InstallStep \/ RemoveStep)
        /\ abi' = IF pc = "installCore" THEN [abi EXCEPT ![o] = AbiTag(o, want)] ELSE abi
    BY DEF PackageStep, plan
  <1>2. /\ o \in Pkg
        /\ \A p \in Pkg : p # o => (IsInstalled(store', p) <=> IsInstalled(store, p)) /\ then(p) = keys(p)
    BY <1>1, OthersKept
  <1>3. Prepare \/ RecordCore \/ RecordFeature \/ WithdrawCore \/ WithdrawFeature \/ Clean \/ Finish
    BY <1>1, PackageEffects
  <1>4. Running /\ want \in Requests /\ (pc \in InstallLabels => o \in Packages(want) /\ op.feats = FeaturesOf(o, want))
    BY <1>3 DEF Prepare, RecordCore, RecordFeature, WithdrawCore, WithdrawFeature, Clean, Finish,
                Early, Late, InstallLabels, RemoveLabels, Running, PlanInv
  <1>5. \A p \in Pkg : p # o => abi'[p] = abi[p]
    BY <1>1 DEF SetTypeOK
  <1>6. pc \in InstallLabels => abi'[o] = AbiTag(o, want)
    <2>1. CASE pc = "installCore"
      <3>1. abi \in [Pkg -> SUBSET Key]
        BY DEF SetTypeOK
      <3> QED
        BY <1>1, <1>2, <2>1, <3>1
    <2>2. CASE pc # "installCore"
      BY <1>1, <2>2 DEF TagInv, Matches
    <2> QED
      BY <2>1, <2>2
  <1>7. IsInstalled(store', o) =>
            /\ then(o) \subseteq abi'[o]
            /\ pc \in InstallLabels
    <2>1. CASE RecordCore
      <3>1. ~ IsInstalled(store, o) /\ InstalledFeatures(store, o) = {}
        BY <2>1 DEF RecordCore, FeaturesInv, Inv, InstallInv
      <3>2. keys(o) = {}
        BY <1>2, <3>1, NothingRecorded
      <3>3. then(o) \subseteq {<<o, Core>>}
        BY <2>1, <3>2 DEF RecordCore, KeysOf
      <3>4. <<o, Core>> \in abi'[o]
        BY <1>4, <1>6, <2>1, TagHasPackage DEF RecordCore, InstallLabels
      <3> QED
        BY <2>1, <3>3, <3>4 DEF RecordCore, InstallLabels
    <2>2. CASE RecordFeature
      <3>1. PICK f \in todo : Recorded(store') = Recorded(store) \cup {<<o, f>>}
        BY <2>2 DEF RecordFeature
      <3>2. pc = "features" /\ pc \in InstallLabels /\ abi' = abi
        BY <1>1, <2>2 DEF RecordFeature, InstallLabels
      <3>3. f \in FeaturesOf(o, want)
        BY <1>4, <3>2 DEF Inv, TypeOK, FileLoops
      <3>4. <<o, f>> \in KeysOf(o, want)
        <4>1. PICK k \in KeysOf(o, want) : k[2] = f
          BY <3>3 DEF FeaturesOf
        <4>2. k \in Key /\ k[1] = o
          BY <4>1 DEF KeysOf, SetTypeOK
        <4>3. k = <<o, f>>
          BY <4>1, <4>2 DEF Key
        <4> QED
          BY <4>1, <4>3
      <3>5. <<o, f>> \in abi'[o]
        BY <1>4, <1>6, <3>2, <3>4, WantedKey
      <3>6. IsInstalled(store, o) /\ keys(o) \subseteq abi[o]
        BY <1>2, <3>2 DEF Inv, InstallInv, TagInv
      <3>7. then(o) \subseteq keys(o) \cup {<<o, f>>}
        BY <3>1 DEF KeysOf
      <3> QED
        BY <3>2, <3>5, <3>6, <3>7
    <2>3. CASE Prepare \/ WithdrawCore \/ WithdrawFeature \/ Clean
      <3>1. pc \in Early \cup RemoveLabels
        BY <2>3 DEF Prepare, WithdrawCore, WithdrawFeature, Clean, Early, Late, RemoveLabels
      <3>2. pc # "removeCore" => ~ IsInstalled(store, o)
        BY <3>1 DEF Early, RemoveLabels, Inv, InstallInv, RemoveInv, FeaturesInv
      <3>3. <<o, Core>> \notin Recorded(store')
        BY <1>2, <2>3, <3>2, RecordedKeys DEF Prepare, WithdrawCore, WithdrawFeature, Clean, Early, Late
      <3> QED
        BY <1>2, <3>3, RecordedKeys
    <2>4. CASE Finish
      <3>1. (IsInstalled(store', o) <=> IsInstalled(store, o)) /\ then(o) = keys(o)
        BY <1>2, <2>4, SameRecorded DEF Finish
      <3>2. pc # "features" => ~ IsInstalled(store, o)
        BY <2>4 DEF Finish, FeaturesInv
      <3>3. abi' = abi
        BY <1>1, <2>4 DEF Finish
      <3> QED
        BY <1>2, <3>1, <3>2, <3>3 DEF TagInv, InstallLabels
    <2> QED
      BY <1>3, <2>1, <2>2, <2>3, <2>4
  <1>8. \/ op' = op /\ (pc' \in InstallLabels => pc \in InstallLabels)
        \/ pc' = "ready"
    BY <1>3 DEF Prepare, RecordCore, RecordFeature, WithdrawCore, WithdrawFeature, Clean, Finish,
                Early, Late, InstallLabels
  <1>9. ASSUME NEW p \in Pkg, IsInstalled(store', p)
        PROVE  /\ \E w \in Requests : p \in Packages(w) /\ abi'[p] = AbiTag(p, w)
               /\ then(p) \subseteq abi'[p]
    <2>1. CASE p = o
      BY <1>4, <1>6, <1>7, <1>9, <2>1
    <2>2. CASE p # o
      BY <1>2, <1>5, <1>9, <2>2 DEF TagInv
    <2> QED
      BY <2>1, <2>2
  <1>10. ASSUME NEW p \in Pkg \ removals, p # op'.pkg, IsInstalled(store', p)
         PROVE  Matches(p)'
    <2>1. CASE p = o
      BY <1>1, <1>6, <1>7, <1>10, <2>1 DEF Matches
    <2>2. CASE p # o
      <3>1. Matches(p)
        BY <1>2, <1>4, <1>10, <2>2 DEF TagInv
      <3> QED
        BY <1>1, <1>5, <1>10, <2>2, <3>1 DEF Matches
    <2> QED
      BY <2>1, <2>2
  <1>11. ASSUME pc' \in InstallLabels \ {"installCore"} PROVE Matches(op.pkg)'
    <2>1. op' = op /\ pc \in InstallLabels
      BY <1>8, <1>11 DEF InstallLabels
    <2> QED
      BY <1>1, <1>6, <2>1 DEF Matches
  <1> QED
    BY <1>1, <1>9, <1>10, <1>11 DEF TagInv

LEMMA TagStep == Inv /\ SetTypeOK /\ FeaturesInv /\ PlanInv /\ TagInv /\ [NextSet]_setVars => TagInv'
  <1> SUFFICES ASSUME Inv, SetTypeOK, FeaturesInv, PlanInv, TagInv, [NextSet]_setVars PROVE TagInv'
    OBVIOUS
  <1>1. CASE (Start /\ UNCHANGED <<abi, plan>>) \/ Refuse \/ End
    <2>1. pc' \in {"off", "loaded", "refused"} /\ store' = store /\ abi' = abi
      BY <1>1 DEF Start, Refuse, GetInstalledPorts, End, Stop, disk
    <2> QED
      BY <2>1 DEF TagInv, Running, InstallLabels, RemoveLabels
  <1>2. ASSUME NEW w \in Requests, AdjustPlan(w) PROVE TagInv'
    <2>1. /\ pc' = "ready" /\ store' = store /\ want' = w /\ op' = op /\ abi' = abi
      BY <1>2 DEF AdjustPlan, disk
    <2>2. \A p \in Pkg \ removals' : IsInstalled(store, p) => abi[p] = AbiTag(p, w)
      BY <1>2, Adjusted
    <2> QED
      BY <2>1, <2>2 DEF TagInv, Matches, InstallLabels
  <1>3. pc = "ready" => \A p \in Pkg \ removals : IsInstalled(store, p) => Matches(p)
    <2>1. pc = "ready" => Running /\ op.pkg \notin Pkg
      BY NoneInWork DEF Running, BetweenPackages
    <2> QED
      BY <2>1 DEF TagInv
  <1>4. ASSUME NEW p \in Pkg, RemoveNext(p) PROVE TagInv'
    <2>1. /\ pc = "ready" /\ pc' = "removeCore" /\ op'.pkg = p /\ store' = store
          /\ removals' = removals \ {p} /\ UNCHANGED <<abi, want>>
      BY <1>4 DEF RemoveNext, BeginRemove, disk
    <2> QED
      BY <1>3, <2>1 DEF TagInv, Matches, InstallLabels
  <1>5. ASSUME NEW p \in Pkg, NEW content \in Contents[p], InstallNext(p, content) PROVE TagInv'
    <2>1. /\ pc = "ready" /\ pc' = "installCore" /\ store' = store /\ UNCHANGED <<abi, want, removals>>
      BY <1>5 DEF InstallNext, IsNext, BeginInstall, disk
    <2> QED
      BY <1>3, <2>1 DEF TagInv, Matches
  <1>6. CASE Done \/ \E p \in Pkg : \E content \in Contents[p] : FailNext(p, content)
    <2>1. /\ pc = "ready" /\ pc' \in {"ready", "done", "failed"} /\ store' = store
          /\ UNCHANGED <<abi, want, removals>>
      BY <1>6 DEF Done, FailNext, IsNext, disk, plan
    <2> QED
      BY <1>3, <2>1 DEF TagInv, Matches, InstallLabels
  <1>7. CASE PackageStep
    BY <1>7, TagPackageStep
  <1>8. CASE UNCHANGED setVars
    BY <1>8 DEF setVars, vars, disk, plan, TagInv, Matches, Running
  <1> QED
    BY <1>1, <1>2, <1>4, <1>5, <1>6, <1>7, <1>8 DEF NextSet

(***************************************************************************)
(* What is removed.                                                        *)
(***************************************************************************)
LEMMA FewerDependencies ==
    ASSUME NEW m, NEW n, Recorded(n) \subseteq Recorded(m), NEW p \in Pkg
    PROVE  /\ IsInstalled(n, p) => IsInstalled(m, p)
           /\ KeysOf(p, Recorded(n)) \subseteq KeysOf(p, Recorded(m))
           /\ Dependencies(p, Recorded(n)) \subseteq Dependencies(p, Recorded(m))
  <1>1. IsInstalled(n, p) => IsInstalled(m, p)
    BY RecordedKeys
  <1>2. KeysOf(p, Recorded(n)) \subseteq KeysOf(p, Recorded(m))
    BY DEF KeysOf
  <1>3. Dependencies(p, Recorded(n)) \subseteq Dependencies(p, Recorded(m))
    BY <1>2 DEF Dependencies, Packages
  <1> QED
    BY <1>1, <1>2, <1>3

\* Two installed packages that match the request, one built against the other, have tags that agree.
LEMMA MatchingAgree ==
    ASSUME TagInv, NEW w \in Requests, NEW p \in Pkg, NEW q \in Pkg, IsInstalled(store, q),
           p \in Dependencies(q, Recorded(store)), abi[q] = AbiTag(q, w)
    PROVE  q \in Packages(w) /\ AbiTag(p, w) = AbiTag(p, abi[q])
  <1>1. PICK v \in Requests : q \in Packages(v) /\ abi[q] = AbiTag(q, v)
    BY DEF TagInv
  <1>2. q \in Packages(w)
    <2>1. <<q, Core>> \in AbiTag(q, w)
      BY <1>1, TagHasPackage
    <2> QED
      BY <2>1 DEF AbiTag, Packages
  <1>3. KeysOf(q, Recorded(store)) \subseteq AbiTag(q, w)
    BY DEF TagInv
  <1> QED
    BY <1>2, <1>3, SameRequest

LEMMA CoherentPackageStep ==
    ASSUME Inv, SetTypeOK, FeaturesInv, PlanInv, TagInv, PlanInv', TagInv', Coherent, Inv', PackageStep
    PROVE  Coherent'
  <1>1. UNCHANGED <<want, removals>> /\ (InstallStep \/ RemoveStep)
    BY DEF PackageStep, plan
  <1>2. Prepare \/ RecordCore \/ RecordFeature \/ WithdrawCore \/ WithdrawFeature \/ Clean \/ Finish
    BY <1>1, PackageEffects
  <1>3. CASE pc \in InstallLabels
    <2>1. removals = {}
      BY <1>3 DEF PlanInv, Running, InstallLabels, RemoveLabels
    <2>2. pc' \in InstallLabels \ {"installCore"} \/ pc' = "ready"
      BY <1>2, <1>3 DEF Prepare, RecordCore, RecordFeature, WithdrawCore, WithdrawFeature, Clean, Finish,
                        Early, Late, InstallLabels
    <2>3. ASSUME NEW p \in Pkg, IsInstalled(store, p)' PROVE Matches(p)'
      <3>1. CASE p # op'.pkg
        BY <1>1, <2>1, <2>2, <2>3, <3>1 DEF TagInv, Running
      <3>2. CASE p = op'.pkg
        <4>1. pc' # "ready"
          BY <2>3, <3>2, ConstantsAssumption DEF Inv, TypeOK, InstallLabels, RemoveLabels, NoOp
        <4> QED
          BY <2>2, <3>2, <4>1 DEF TagInv
      <3> QED
        BY <3>1, <3>2
    <2>4. want' \in Requests
      BY <2>2 DEF PlanInv, Running
    <2>5. ASSUME NEW p \in Pkg, NEW q \in Pkg, IsInstalled(store, p)', IsInstalled(store, q)',
                 (p \in Dependencies(q, Recorded(store)))'
          PROVE  (abi[p] = AbiTag(p, abi[q]))'
      <3>1. (abi[p] = AbiTag(p, want) /\ abi[q] = AbiTag(q, want))'
        BY <2>3, <2>5 DEF Matches
      <3>2. PICK v \in Requests : q \in Packages(v) /\ abi'[q] = AbiTag(q, v)
        BY <2>5 DEF TagInv
      <3>3. <<q, Core>> \in abi'[q]
        BY <3>2, TagHasPackage
      <3>4. q \in Packages(want')
        BY <3>1, <3>3 DEF AbiTag, Packages
      <3>5. KeysOf(q, Recorded(store')) \subseteq AbiTag(q, want')
        BY <2>5, <3>1 DEF TagInv
      <3>6. AbiTag(p, want') = AbiTag(p, AbiTag(q, want'))
        BY <2>4, <2>5, <3>4, <3>5, SameRequest
      <3> QED
        BY <3>1, <3>6
    <2> QED
      BY <2>5 DEF Coherent
  <1>4. CASE pc \notin InstallLabels
    <2>1. abi' = abi /\ Recorded(store') \subseteq Recorded(store)
      BY <1>2, <1>4 DEF PackageStep, Prepare, RecordCore, RecordFeature, WithdrawCore, WithdrawFeature, Clean,
                        Finish, Early, InstallLabels
    <2> QED
      BY <2>1, FewerDependencies DEF Coherent
  <1> QED
    BY <1>3, <1>4

LEMMA RemovalStep ==
    ASSUME Inv, SetTypeOK, FeaturesInv, PlanInv, TagInv, Inv', PlanInv', TagInv', RemovalInv, [NextSet]_setVars
    PROVE  RemovalInv'
  <1>1. CASE (Start /\ UNCHANGED <<abi, plan>>) \/ Refuse \/ End
    <2>1. pc' \in {"off", "loaded", "refused"} /\ store' = store /\ abi' = abi
      BY <1>1 DEF Start, Refuse, GetInstalledPorts, End, Stop, disk
    <2> QED
      BY <2>1 DEF RemovalInv, Coherent, Running, InstallLabels, RemoveLabels
  <1>2. ASSUME NEW w \in Requests, AdjustPlan(w) PROVE RemovalInv'
    <2> DEFINE stale == {p \in Pkg : IsInstalled(store, p) /\ \A q \in Packages(w) : abi[p] # AbiTag(q, w)}
               T == {p \in Pkg : IsInstalled(store, p) /\ abi[p] # AbiTag(p, w)}
    <2>1. /\ pc' = "ready" /\ store' = store /\ want' = w /\ abi' = abi
          /\ removals' = Reachable(Dependents(Recorded(store)), stale)
      BY <1>2, MemoryIsStore DEF AdjustPlan, RemovePlan, disk
    <2>2. stale \subseteq T
      <3> SUFFICES ASSUME NEW p \in stale, abi[p] = AbiTag(p, w) PROVE FALSE
        OBVIOUS
      <3>1. PICK v \in Requests : p \in Packages(v) /\ abi[p] = AbiTag(p, v)
        BY DEF TagInv
      <3>2. <<p, Core>> \in AbiTag(p, w)
        BY <3>1, TagHasPackage
      <3>3. p \in Packages(w)
        BY <3>2 DEF AbiTag, Packages
      <3> QED
        BY <3>3
    <2>3. ClosedUnder(Dependents(Recorded(store)), T)
      <3> SUFFICES ASSUME NEW p \in T, NEW q \in Pkg, IsInstalled(store, q), p \in Dependencies(q, Recorded(store)),
                          abi[q] = AbiTag(q, w)
                   PROVE  FALSE
        BY RecordedKeys DEF ClosedUnder, Dependents
      <3>1. AbiTag(p, w) = AbiTag(p, abi[q])
        BY MatchingAgree
      <3>2. abi[p] = AbiTag(p, abi[q])
        BY DEF RemovalInv, Coherent
      <3> QED
        BY <3>1, <3>2
    <2>4. removals' \subseteq T
      BY <2>1, <2>2, <2>3, ReachableLeast
    <2> QED
      BY <2>1, <2>4 DEF RemovalInv, Coherent, Matches
  <1>3. ASSUME NEW p \in Pkg, RemoveNext(p) PROVE RemovalInv'
    <2>1. /\ pc = "ready" /\ pc' = "removeCore" /\ op'.pkg = p /\ store' = store
          /\ p \in removals /\ removals' = removals \ {p} /\ UNCHANGED <<abi, want>>
      BY <1>3 DEF RemoveNext, BeginRemove, disk
    <2> QED
      BY <2>1 DEF RemovalInv, Coherent, Matches, Running
  <1>4. CASE \/ Done
             \/ \E p \in Pkg : \E content \in Contents[p] : InstallNext(p, content) \/ FailNext(p, content)
    <2>1. /\ pc = "ready" /\ pc' # "removeCore" /\ store' = store
          /\ UNCHANGED <<abi, want, removals>>
      BY <1>4 DEF Done, InstallNext, BeginInstall, FailNext, IsNext, disk, plan
    <2> QED
      BY <2>1 DEF RemovalInv, Coherent, Matches, Running
  <1>5. CASE PackageStep
    <2>1. UNCHANGED <<want, removals>> /\ (InstallStep \/ RemoveStep) /\ pc' # "removeCore" /\ Running
      <3>1. Prepare \/ RecordCore \/ RecordFeature \/ WithdrawCore \/ WithdrawFeature \/ Clean \/ Finish
        BY <1>5, PackageEffects DEF PackageStep
      <3> QED
        BY <1>5, <3>1 DEF PackageStep, plan, Prepare, RecordCore, RecordFeature, WithdrawCore, WithdrawFeature,
                          Clean, Finish, Early, Late, Running, InstallLabels, RemoveLabels
    <2>2. \A p \in removals : p \in Pkg /\ abi'[p] = abi[p]
      BY <1>5, <2>1 DEF PackageStep, PlanInv, SetTypeOK
    <2>3. \A p \in removals' : ~ Matches(p)'
      BY <2>1, <2>2 DEF RemovalInv, Matches
    <2> QED
      BY <1>5, <2>1, <2>3, CoherentPackageStep DEF RemovalInv
  <1>6. CASE UNCHANGED setVars
    BY <1>6 DEF setVars, vars, disk, plan, RemovalInv, Coherent, Matches, Running
  <1> QED
    BY <1>1, <1>2, <1>3, <1>4, <1>5, <1>6 DEF NextSet

(***************************************************************************)
(* The theorems.                                                           *)
(***************************************************************************)
RunInv == WantOK /\ Inv /\ SetTypeOK /\ FeaturesInv /\ PlanInv /\ TagInv /\ RemovalInv

LEMMA RunInvInit == InitSet => RunInv
  <1> SUFFICES ASSUME InitSet PROVE RunInv
    OBVIOUS
  <1>1. Init /\ pc = "off" /\ ~ Running
    BY DEF InitSet, Init, Running, InstallLabels, RemoveLabels
  <1>2. WantOK /\ Inv
    BY <1>1, WantInit, InitInv
  <1>3. SetTypeOK
    BY DEF InitSet, SetTypeOK, Packages
  <1>4. \A p \in Pkg : ~ IsInstalled(store, p)
    <2>1. \A p \in Pkg : store[<<p, Core>>] = Absent
      BY <1>1 DEF Init, Key
    <2> QED
      BY <2>1, ConstantsAssumption DEF IsInstalled, State
  <1>5. FeaturesInv /\ PlanInv /\ TagInv /\ RemovalInv
    BY <1>1, <1>4 DEF FeaturesInv, PlanInv, TagInv, RemovalInv, Coherent, InstallLabels, RemoveLabels
  <1> QED
    BY <1>2, <1>3, <1>5 DEF RunInv

LEMMA RunInvNext == RunInv /\ [NextSet]_setVars => RunInv'
  <1> SUFFICES ASSUME RunInv, [NextSet]_setVars PROVE RunInv'
    OBVIOUS
  <1>1. WantOK' /\ Inv' /\ SetTypeOK' /\ FeaturesInv'
    BY WantNext, TreeInvStep, SetTypeStep, FeaturesStep DEF RunInv
  <1>2. PlanInv' /\ TagInv'
    BY PlanStep, TagStep DEF RunInv
  <1>3. RemovalInv'
    BY <1>1, <1>2, RemovalStep DEF RunInv
  <1> QED
    BY <1>1, <1>2, <1>3 DEF RunInv

LEMMA RunInvSetInv == RunInv => SetInv
  <1> SUFFICES ASSUME RunInv PROVE SetInv
    OBVIOUS
  <1>1. pc \in {"ready", "done"} => Running /\ op.pkg \notin Pkg
    BY NoneInWork DEF Running, BetweenPackages, RunInv
  <1>2. removals \subseteq Pkg /\ installs \subseteq Pkg /\ Packages(want) \subseteq Pkg
    BY DEF RunInv, SetTypeOK, Packages, Key
  <1>3. ASSUME pc = "ready"
        PROVE  /\ \A p \in removals : IsInstalled(mem, p)
               /\ removals = {} => \A p \in installs : ~ IsInstalled(mem, p)
    BY <1>1, <1>2, <1>3, MemoryIsStore DEF RunInv, PlanInv
  <1>4. ASSUME pc = "done", ~ failed
        PROVE  /\ {p \in Pkg : IsInstalled(store, p)} = Packages(want)
               /\ \A p \in Packages(want) : abi[p] = AbiTag(p, want)
    <2>1. removals = {} /\ installs = {}
      BY <1>1, <1>4 DEF RunInv, PlanInv
    <2>2. {p \in Pkg : IsInstalled(store, p)} = Packages(want)
      BY <1>1, <1>2, <1>4, <2>1 DEF RunInv, PlanInv
    <2> QED
      BY <1>1, <1>4, <2>1, <2>2 DEF RunInv, TagInv, Matches
  <1>5. InstalledOwnFiles
    BY DEF RunInv, Inv
  <1> QED
    BY <1>3, <1>4, <1>5 DEF RunInv, SetInv

\* Whatever earlier runs left, installed packages own their files, the plan agrees with the paragraphs
\* in memory when a package is removed or installed, and a run that ends well leaves the requested packages with the requested tags.
THEOREM RunsEndAsRequested == SetInstalled => []SetInv
  <1> QED
    BY RunInvInit, RunInvNext, RunInvSetInv, PTL DEF SetInstalled

\* adjust_action_plan_to_status_db never removes a package that has the tag of the request, neither as
\* stale nor for something that it depends on.
THEOREM RunsKeepWhatMatches == SetInstalled => KeepsWhatMatches
  <1> DEFINE Kept == \A p \in Pkg : pc \notin {"off", "loaded"} /\ IsInstalled(store, p) /\ ~ IsInstalled(store', p)
                         => abi[p] # AbiTag(p, want)
  <1>1. RunInv /\ [NextSet]_setVars => [Kept]_setVars
    <2> SUFFICES ASSUME RunInv, NextSet, NEW p \in Pkg, IsInstalled(store, p), ~ IsInstalled(store', p)
                 PROVE  abi[p] # AbiTag(p, want)
      BY DEF Kept
    <2>1. store' # store
      OBVIOUS
    <2>2. PackageStep
      BY <2>1 DEF NextSet, Start, Refuse, GetInstalledPorts, AdjustPlan, RemoveNext, BeginRemove, InstallNext,
                  BeginInstall, FailNext, Done, End, Stop, disk
    <2>3. Prepare \/ RecordCore \/ RecordFeature \/ WithdrawCore \/ WithdrawFeature \/ Clean \/ Finish
      BY <2>2, PackageEffects DEF PackageStep, RunInv
    <2>4. p = op.pkg
      BY <2>2, OthersKept DEF PackageStep, RunInv
    <2>5. CASE WithdrawCore
      BY <2>4, <2>5 DEF WithdrawCore, RunInv, RemovalInv, Matches
    <2>6. CASE ~ WithdrawCore
      <3>1. <<p, Core>> \in Recorded(store) /\ <<p, Core>> \notin Recorded(store')
        BY RecordedKeys
      <3>2. WithdrawFeature
        BY <2>3, <2>6, <3>1 DEF Prepare, RecordCore, RecordFeature, Clean, Finish
      <3>3. pc = "removeFeatures"
        BY <3>2 DEF WithdrawFeature
      <3> QED
        BY <2>4, <3>3 DEF RunInv, Inv, RemoveInv
    <2> QED
      BY <2>5, <2>6
  <1>2. SetInstalled => [][Kept]_setVars
    BY <1>1, RunInvInit, RunInvNext, PTL DEF SetInstalled
  <1> QED
    BY <1>2 DEF KeepsWhatMatches

--------------------------------------------------------------------------------
(***************************************************************************)
(* What packages depend on, as long as no run has kept going.              *)
(***************************************************************************)
LEMMA ClosedRequest ==
    ASSUME NEW w \in Requests, NEW p
    PROVE  Dependencies(p, w) \subseteq Packages(w)
  <1> SUFFICES ASSUME NEW q \in Dependencies(p, w) PROVE q \in Packages(w)
    OBVIOUS
  <1>1. PICK k \in w : \E d \in Needs[k] : d[1] = q
    BY DEF Dependencies, KeysOf, Packages
  <1>2. Needs[k] \subseteq w
    BY RequestsAssumption
  <1> QED
    BY <1>1, <1>2 DEF Packages

LEMMA DependencyIsPackage ==
    ASSUME NEW keys \in SUBSET Key, NEW p
    PROVE  Dependencies(p, keys) \subseteq Pkg
  <1> SUFFICES ASSUME NEW q \in Dependencies(p, keys) PROVE q \in Pkg
    OBVIOUS
  <1>1. PICK k \in keys : \E d \in Needs[k] : d[1] = q
    BY DEF Dependencies, KeysOf, Packages
  <1>2. Needs[k] \subseteq Key
    BY RequestsAssumption
  <1> QED
    BY <1>1, <1>2 DEF Key

\* What a package with the tag of a request depends on, the request says too.
LEMMA TagDependencies ==
    ASSUME NEW w, NEW keys, NEW p, KeysOf(p, keys) \subseteq AbiTag(p, w)
    PROVE  Dependencies(p, keys) \subseteq Dependencies(p, w)
  <1>1. KeysOf(p, keys) \subseteq KeysOf(p, w)
    BY DEF KeysOf, AbiTag
  <1> QED
    BY <1>1 DEF Dependencies, Packages

LEMMA DependencyPackageStep ==
    ASSUME RunInv, RunInv', DependencyInv, PackageStep, "keptGoing" \notin past, past' = past
    PROVE  DependencyInv'
  <1> DEFINE o == op.pkg
  <1>1. UNCHANGED <<want, removals, installs, failed, keepGoing>> /\ (InstallStep \/ RemoveStep)
    BY DEF PackageStep, plan
  <1>2. Prepare \/ RecordCore \/ RecordFeature \/ WithdrawCore \/ WithdrawFeature \/ Clean \/ Finish
    BY <1>1, PackageEffects DEF RunInv
  <1>3. /\ o \in Pkg
        /\ \A p \in Pkg : p # o => /\ IsInstalled(store', p) <=> IsInstalled(store, p)
                                   /\ Dependencies(p, Recorded(store')) = Dependencies(p, Recorded(store))
    BY <1>1, OthersKept DEF RunInv
  <1>4. /\ pc \in InstallLabels \cup RemoveLabels /\ Running /\ pc # "failed" /\ pc' # "removeCore"
        /\ (op' = op /\ (pc' \in InstallLabels => pc \in InstallLabels)) \/ pc' = "ready"
        /\ pc \in InstallLabels => pc' \in (InstallLabels \ {"installCore"}) \cup {"ready"}
    BY <1>2 DEF Prepare, RecordCore, RecordFeature, WithdrawCore, WithdrawFeature, Clean, Finish,
                Early, Late, InstallLabels, RemoveLabels, Running
  <1>5. /\ pc \in InstallLabels => \A q \in Pkg : IsInstalled(store, q) => IsInstalled(store', q)
        /\ pc \notin InstallLabels => ~ IsInstalled(store', o)
    <2>1. CASE pc \in InstallLabels
      <3>1. Recorded(store) \subseteq Recorded(store')
        BY <1>2, <2>1 DEF Prepare, RecordCore, RecordFeature, WithdrawCore, WithdrawFeature, Clean, Finish,
                          Late, InstallLabels
      <3> QED
        BY <2>1, <3>1, RecordedKeys
    <2>2. CASE pc \notin InstallLabels
      <3>1. pc = "removeCore" \/ ~ IsInstalled(store, o)
        BY <1>4, <2>2 DEF RemoveLabels, RunInv, Inv, RemoveInv, FeaturesInv
      <3>2. \/ Recorded(store') = Recorded(store) \ {<<o, Core>>}
            \/ pc # "removeCore" /\ Recorded(store') \subseteq Recorded(store)
        BY <1>2, <2>2 DEF Prepare, RecordCore, RecordFeature, WithdrawCore, WithdrawFeature, Clean, Finish,
                          Early, Late, InstallLabels
      <3> QED
        BY <1>3, <2>2, <3>1, <3>2, RecordedKeys
    <2> QED
      BY <2>1, <2>2
  <1>6. DependenciesInstalled'
    <2> SUFFICES ASSUME NEW q \in Pkg, IsInstalled(store', q), NEW p \in Dependencies(q, Recorded(store'))
                 PROVE  IsInstalled(store', p)
      BY DEF DependenciesInstalled
    <2>1. p \in Pkg
      BY RecordedKeys, DependencyIsPackage
    <2>2. CASE q # o
      <3>1. IsInstalled(store, p)
        BY <1>3, <2>2 DEF DependencyInv, DependenciesInstalled
      <3>2. pc \notin InstallLabels => p # o
        BY <1>3, <1>4, <1>5, <2>2, <3>1 DEF DependencyInv, RemoveLabels, RunInv, Inv, RemoveInv, FeaturesInv
      <3> QED
        BY <1>3, <1>5, <2>1, <3>1, <3>2
    <2>3. CASE q = o
      <3>1. pc \in InstallLabels
        BY <1>5, <2>3
      <3>2. IsInstalled(store, p)
        <4>1. CASE Finish
          <5>1. Recorded(store') = Recorded(store) /\ IsInstalled(store, o)
            BY <1>3, <2>3, <4>1, SameRecorded DEF Finish
          <5> QED
            BY <2>3, <5>1 DEF DependencyInv, DependenciesInstalled
        <4>2. CASE ~ Finish
          <5>1. op' = op /\ pc' \in InstallLabels \ {"installCore"}
            BY <1>2, <1>4, <3>1, <4>2 DEF Prepare, RecordCore, RecordFeature, WithdrawCore, WithdrawFeature,
                                          Clean, Early, Late, InstallLabels
          <5>2. KeysOf(o, Recorded(store')) \subseteq abi'[o] /\ abi'[o] = AbiTag(o, want)
            BY <1>1, <1>3, <2>3, <5>1 DEF RunInv, TagInv, Matches
          <5>3. p \in Dependencies(o, want)
            BY <2>3, <5>2, TagDependencies
          <5> QED
            BY <3>1, <5>3 DEF DependencyInv
        <4> QED
          BY <4>1, <4>2
      <3> QED
        BY <1>5, <2>1, <3>1, <3>2
    <2> QED
      BY <2>2, <2>3
  <1>7. ASSUME NEW p \in removals, NEW q \in Pkg, IsInstalled(store', q), p \in Dependencies(q, Recorded(store'))
        PROVE  q \in removals
    <2>1. pc \notin InstallLabels
      BY <1>4, <1>7 DEF RunInv, PlanInv, InstallLabels, RemoveLabels
    <2>2. q # o
      BY <1>5, <1>7, <2>1
    <2> QED
      BY <1>3, <1>4, <1>7, <2>2 DEF DependencyInv
  <1>8. ASSUME pc' \in InstallLabels, NEW q \in Dependencies(op'.pkg, want) PROVE IsInstalled(store', q)
    <2>1. op' = op /\ pc \in InstallLabels
      BY <1>4, <1>8 DEF InstallLabels
    <2>2. q \in Pkg /\ IsInstalled(store, q)
      BY <1>8, <2>1, DependencyIsPackage DEF DependencyInv, RunInv, SetTypeOK
    <2> QED
      BY <1>5, <2>1, <2>2
  <1>9. /\ (failed /\ keepGoing => "keptGoing" \in past)'
        /\ (failed /\ ~ keepGoing => pc = "failed")'
    BY <1>1, <1>4 DEF DependencyInv
  <1> QED
    BY <1>1, <1>4, <1>6, <1>7, <1>8, <1>9 DEF DependencyInv

LEMMA DependencyStep ==
    ASSUME RunInv, RunInv', DependencyInv, [NextPast]_pastVars
    PROVE  DependencyInv'
  <1>1. CASE UNCHANGED pastVars
    BY <1>1 DEF pastVars, setVars, vars, disk, plan, DependencyInv, DependenciesInstalled, Running
  <1>2. CASE NextPast
    <2>1. NextSet /\ past \subseteq past' /\ (failed' /\ keepGoing => "keptGoing" \in past')
      BY <1>2 DEF NextPast
    <2>2. ("keptGoing" \notin past' => "keptGoing" \notin past) /\ ("keptGoing" \in past' <=> ("keptGoing" \in past \/ (failed' /\ keepGoing)))
      BY <1>2 DEF NextPast
    <2>3. CASE (Start /\ UNCHANGED <<abi, plan>>) \/ Refuse \/ End
      <3>1. /\ pc # "failed" \/ failed' = FALSE
            /\ pc' \in {"off", "loaded", "refused"} /\ store' = store
            /\ (UNCHANGED <<failed, keepGoing>>) \/ failed' = FALSE
        BY <2>3 DEF Start, Refuse, GetInstalledPorts, End, Stop, disk, plan
      <3> QED
        BY <2>2, <3>1 DEF DependencyInv, DependenciesInstalled, Running, InstallLabels, RemoveLabels
    <2>4. ASSUME NEW w \in Requests, AdjustPlan(w) PROVE DependencyInv'
      <3>1. pc' = "ready" /\ store' = store /\ failed' = FALSE
        BY <2>4 DEF AdjustPlan, disk
      <3>2. \A p \in removals', q \in Pkg :
                IsInstalled(store, q) /\ p \in Dependencies(q, Recorded(store)) => q \in removals'
        BY <2>4, Adjusted DEF RunInv
      <3> QED
        BY <2>2, <3>1, <3>2 DEF DependencyInv, DependenciesInstalled, InstallLabels
    <2>5. ASSUME NEW p \in Pkg, RemoveNext(p) PROVE DependencyInv'
      <3>1. /\ pc = "ready" /\ pc' = "removeCore" /\ op'.pkg = p /\ store' = store /\ mem = store
            /\ p \in removals /\ removals' = removals \ {p} /\ UNCHANGED <<failed, keepGoing>>
            /\ \A q \in removals : p \notin Dependencies(q, Recorded(store))
        BY <2>5, MemoryIsStore DEF RemoveNext, BeginRemove, disk, RunInv
      <3>2. Running /\ op.pkg \notin Pkg
        BY <3>1, NoneInWork DEF Running, BetweenPackages, RunInv
      <3> QED
        BY <2>2, <3>1, <3>2 DEF DependencyInv, DependenciesInstalled, InstallLabels
    <2>6. ASSUME NEW p \in Pkg, NEW content \in Contents[p], InstallNext(p, content) PROVE DependencyInv'
      <3>1. /\ pc = "ready" /\ pc' = "installCore" /\ op'.pkg = p /\ store' = store
            /\ removals = {} /\ Dependencies(p, want) \cap installs = {}
            /\ UNCHANGED <<want, keepGoing, removals, failed>>
        BY <2>6 DEF InstallNext, IsNext, BeginInstall, disk
      <3>2. Running /\ op.pkg \notin Pkg /\ want \in Requests /\ want \in SUBSET Key
        BY <3>1, NoneInWork DEF Running, BetweenPackages, RunInv, PlanInv, WantOK
      <3>3. ASSUME "keptGoing" \notin past, NEW q \in Dependencies(p, want) PROVE IsInstalled(store, q)
        <4>1. ~ failed
          BY <3>1, <3>3 DEF DependencyInv
        <4>2. q \in Pkg /\ q \in Packages(want) \ installs
          BY <3>1, <3>2, <3>3, ClosedRequest, DependencyIsPackage
        <4> QED
          BY <3>2, <4>1, <4>2 DEF RunInv, PlanInv
      <3>4. ~ (failed /\ ~ keepGoing)
        BY <3>1 DEF DependencyInv
      <3> QED
        BY <2>2, <3>1, <3>3, <3>4 DEF DependencyInv, DependenciesInstalled
    <2>7. CASE Done \/ \E p \in Pkg : \E content \in Contents[p] : FailNext(p, content)
      <3>1. /\ pc = "ready" /\ pc' \in {"ready", "done", "failed"} /\ store' = store /\ op' = op
            /\ removals = {} /\ removals' = {} /\ keepGoing' = keepGoing
            /\ failed' = failed \/ (failed' = TRUE /\ (~ keepGoing => pc' = "failed"))
        BY <2>7 DEF Done, FailNext, IsNext, disk, plan
      <3>2. ~ (failed /\ ~ keepGoing)
        BY <3>1 DEF DependencyInv
      <3> QED
        BY <2>2, <3>1, <3>2 DEF DependencyInv, DependenciesInstalled, InstallLabels
    <2>8. CASE PackageStep
      <3>1. UNCHANGED <<failed, keepGoing>> /\ pc # "failed" /\ (failed /\ ~ keepGoing => pc = "failed")
        <4>1. pc \in InstallLabels \cup RemoveLabels
          BY <2>8 DEF PackageStep, InstallStep, RemoveStep, InstallCoreHalf, InstallFeatureHalf, BeginCopy, CopyFile,
                      CreateListfile, WriteListfile, InstallCore, InstallFeature, EndInstall, RemoveCoreHalf,
                      RemoveFeatureHalf, ReadListfile, DeleteFile, DeleteListfile, RemoveCore, RemoveFeature,
                      EndRemove, InstallLabels, RemoveLabels
        <4> QED
          BY <2>8, <4>1 DEF PackageStep, plan, DependencyInv, InstallLabels, RemoveLabels
      <3>2. pc' # "off"
        BY <2>8 DEF PackageStep, InstallStep, RemoveStep, InstallCoreHalf, InstallFeatureHalf, BeginCopy, CopyFile,
                    CreateListfile, WriteListfile, InstallCore, InstallFeature, EndInstall, RemoveCoreHalf,
                    RemoveFeatureHalf, ReadListfile, DeleteFile, DeleteListfile, RemoveCore, RemoveFeature, EndRemove
      <3>3. CASE "keptGoing" \in past'
        BY <3>1, <3>3 DEF DependencyInv
      <3>4. CASE "keptGoing" \notin past'
        <4>1. past' = past /\ "keptGoing" \notin past
          BY <1>2, <2>2, <3>2, <3>4 DEF NextPast
        <4> QED
          BY <2>8, <4>1, DependencyPackageStep
      <3> QED
        BY <3>3, <3>4
    <2>9. CASE UNCHANGED setVars
      BY <2>2, <2>9 DEF setVars, vars, disk, plan, DependencyInv, DependenciesInstalled, Running
    <2> QED
      BY <2>1, <2>3, <2>4, <2>5, <2>6, <2>7, <2>8 DEF NextSet
  <1> QED
    BY <1>1, <1>2

LEMMA DependencyInit == InitPast => DependencyInv
  <1> SUFFICES ASSUME InitPast PROVE DependencyInv
    OBVIOUS
  <1>1. \A p \in Pkg : ~ IsInstalled(store, p)
    <2>1. \A p \in Pkg : store[<<p, Core>>] = Absent
      BY DEF InitPast, InitSet, Init, Key
    <2> QED
      BY <2>1, ConstantsAssumption DEF IsInstalled, State
  <1> QED
    BY <1>1 DEF InitPast, InitSet, Init, DependencyInv, DependenciesInstalled, Running, InstallLabels, RemoveLabels

\* create_feature_install_graph exits on an installed package without what it depends on: only a run
\* that kept going after a failure can have left one.
THEOREM DependenciesStayInstalled == SetInstalledPast => []DependenciesStay
  <1>1. InitPast => RunInv /\ DependencyInv
    BY RunInvInit, DependencyInit DEF InitPast
  <1>2. RunInv /\ DependencyInv /\ [NextPast]_pastVars => (RunInv /\ DependencyInv)'
    <2> SUFFICES ASSUME RunInv, DependencyInv, [NextPast]_pastVars PROVE (RunInv /\ DependencyInv)'
      OBVIOUS
    <2>1. [NextSet]_setVars
      BY DEF NextPast, pastVars
    <2>2. RunInv'
      BY <2>1, RunInvNext
    <2> QED
      BY <2>2, DependencyStep
  <1>3. DependencyInv => DependenciesStay
    BY DEF DependencyInv, DependenciesStay
  <1> QED
    BY <1>1, <1>2, <1>3, PTL DEF SetInstalledPast

--------------------------------------------------------------------------------
(***************************************************************************)
(* Exactly what was asked for, as long as no process was killed.           *)
(***************************************************************************)
LEMMA FilesPackageStep ==
    ASSUME RunInv, PackageStep, FilesOwned, ListsOwned
    PROVE  FilesOwned' /\ ListsOwned'
  <1> DEFINE o == op.pkg
  <1>1. /\ InstallStep \/ RemoveStep
        /\ files \in [File -> Pkg \cup {NoPkg}] /\ listfile \in [Pkg -> Lists] /\ store \in Maps
    BY DEF PackageStep, RunInv, Inv, TypeOK
  <1>2. /\ o \in Pkg /\ o # NoPkg
        /\ \A p \in Pkg : p # o => (IsInstalled(store', p) <=> IsInstalled(store, p))
    BY <1>1, OthersKept, ConstantsAssumption DEF RunInv
  <1>3. pc \in Early \cup {"removeFeatures"} \cup Late => ~ IsInstalled(store, o)
    BY DEF Early, Late, RunInv, Inv, InstallInv, RemoveInv, FeaturesInv
  <1>4. pc = "core" => listfile[o].names = op.content
    BY DEF RunInv, Inv, InstallInv, WholeList
  <1>5. pc = "copy" => todo \subseteq op.content
    BY DEF RunInv, Inv, InstallInv
  <1>6. CASE InstallCoreHalf \/ (\E f \in Feat : InstallFeatureHalf(f)) \/ BeginCopy
    <2>1. /\ UNCHANGED <<files, listfile>> /\ pc \in {"installCore", "installFeatures"}
      BY <1>6 DEF InstallCoreHalf, InstallFeatureHalf, BeginCopy, disk
    <2>2. /\ \A x \in File : files[x] # NoPkg => files[x] # o /\ files[x] \in Pkg
          /\ listfile[o] = NoList
      BY <1>1, <1>2, <1>3, <2>1 DEF FilesOwned, ListsOwned, Early
    <2> QED
      BY <1>2, <2>1, <2>2 DEF FilesOwned, ListsOwned
  <1>7. ASSUME NEW x \in File, CopyFile(x) PROVE FilesOwned' /\ ListsOwned'
    <2>1. /\ UNCHANGED <<store, listfile, op>> /\ pc = "copy" /\ pc' = "copy" /\ x \in op.content
          /\ files' = [files EXCEPT ![x] = o]
      BY <1>5, <1>7 DEF CopyFile
    <2>2. files'[x] = o /\ \A y \in File : y # x => files'[y] = files[y]
      BY <1>1, <2>1
    <2> QED
      BY <2>1, <2>2 DEF FilesOwned, ListsOwned
  <1>8. CASE CreateListfile \/ WriteListfile
    <2>1. /\ UNCHANGED <<store, files, op>> /\ pc \in {"copy", "list"} /\ pc' \in {"list", "core"}
          /\ \A p \in Pkg : p # o => listfile'[p] = listfile[p]
      BY <1>1, <1>8 DEF CreateListfile, WriteListfile
    <2>2. \A x \in File : files[x] # NoPkg => files[x] \in Pkg
      BY <1>1
    <2> QED
      BY <1>3, <2>1, <2>2 DEF FilesOwned, ListsOwned, Early
  <1>9. CASE InstallCore
    <2>1. UNCHANGED <<files, listfile, op>> /\ pc = "core" /\ pc' = "features"
      BY <1>9 DEF InstallCore
    <2>2. IsInstalled(store', o)
      BY <1>1, <1>2, <1>9 DEF InstallCore, WriteAndInsert, IsInstalled, Maps, Key
    <2>3. \A x \in File : files[x] # NoPkg => files[x] \in Pkg
      BY <1>1
    <2> QED
      BY <1>2, <1>3, <1>4, <2>1, <2>2, <2>3 DEF FilesOwned, ListsOwned, Early
  <1>10. CASE (\E f \in Feat : InstallFeature(f)) \/ EndInstall
    <2>1. UNCHANGED <<files, listfile>> /\ pc = "features" /\ pc' \in {"features", "ready"}
      BY <1>10 DEF InstallFeature, EndInstall, disk
    <2>2. \A p \in Pkg : IsInstalled(store, p) => IsInstalled(store', p)
      <3>1. PackageStep /\ (RecordFeature \/ Finish)
        BY <1>1, <2>1, PackageEffects DEF RunInv, Prepare, RecordCore, WithdrawCore, WithdrawFeature, Clean, Early, Late
      <3> QED
        BY <3>1, RecordedKeys DEF RecordFeature, Finish
    <2>3. \A x \in File : files[x] # NoPkg => files[x] \in Pkg
      BY <1>1
    <2> QED
      BY <2>1, <2>2, <2>3 DEF FilesOwned, ListsOwned
  <1>11. CASE RemoveCoreHalf \/ \E f \in Feat : RemoveFeatureHalf(f)
    <2>1. /\ UNCHANGED <<files, listfile, op>> /\ pc \in {"removeCore", "removeFeatures"} /\ pc' = "removeFeatures"
      BY <1>11 DEF RemoveCoreHalf, RemoveFeatureHalf
    <2>2. \A x \in File : files[x] # NoPkg => files[x] \in Pkg
      BY <1>1
    <2> QED
      BY <1>2, <1>3, <2>1, <2>2 DEF FilesOwned, ListsOwned
  <1>12. CASE ReadListfile
    BY <1>12 DEF ReadListfile, disk, FilesOwned, ListsOwned
  <1>13. ASSUME NEW x \in File, DeleteFile(x) PROVE FilesOwned' /\ ListsOwned'
    <2>1. /\ UNCHANGED <<store, listfile, op>> /\ pc = "delete" /\ pc' = "delete" /\ todo' = todo \ {x}
          /\ files' = [files EXCEPT ![x] = NoPkg]
      BY <1>13 DEF DeleteFile
    <2>2. files'[x] = NoPkg /\ \A y \in File : y # x => files'[y] = files[y]
      BY <1>1, <2>1
    <2> QED
      BY <2>1, <2>2 DEF FilesOwned, ListsOwned
  <1>14. CASE DeleteListfile
    <2>1. /\ UNCHANGED <<store, files, op>> /\ pc = "delete" /\ pc' = "removedCore" /\ todo = {}
          /\ listfile'[o] = NoList /\ \A p \in Pkg : p # o => listfile'[p] = listfile[p]
      BY <1>1, <1>2, <1>14 DEF DeleteListfile
    <2>2. \A x \in File : files[x] # NoPkg => files[x] \in Pkg
      BY <1>1
    <2> QED
      BY <1>3, <2>1, <2>2 DEF FilesOwned, ListsOwned, Late
  <1>15. CASE RemoveCore \/ (\E f \in Feat : RemoveFeature(f)) \/ EndRemove
    <2>1. UNCHANGED <<files, listfile>> /\ pc \in {"removedCore", "removedFeatures"}
      BY <1>15 DEF RemoveCore, RemoveFeature, EndRemove, disk
    <2>2. /\ \A x \in File : files[x] # NoPkg => files[x] # o /\ files[x] \in Pkg
          /\ listfile[o] = NoList
      BY <1>1, <1>2, <1>3, <2>1 DEF FilesOwned, ListsOwned, Late
    <2> QED
      BY <1>2, <2>1, <2>2 DEF FilesOwned, ListsOwned
  <1> QED
    BY <1>1, <1>6, <1>7, <1>8, <1>9, <1>10, <1>11, <1>12, <1>13, <1>14, <1>15 DEF InstallStep, RemoveStep

\* The package in work is whole when its last feature is recorded.
LEMMA WholeFeatures ==
    ASSUME RunInv, pc = "features", todo = {}, op.pkg \in Pkg, op.feats \ todo \subseteq InstalledFeatures(store, op.pkg)
    PROVE  KeysOf(op.pkg, Recorded(store)) = KeysOf(op.pkg, abi[op.pkg])
  <1> DEFINE o == op.pkg
  <1>1. /\ IsInstalled(store, o) /\ want \in Requests /\ want \in SUBSET Key
        /\ op.feats = FeaturesOf(o, want) /\ abi[o] = AbiTag(o, want)
        /\ KeysOf(o, Recorded(store)) \subseteq abi[o]
    BY DEF RunInv, Inv, InstallInv, PlanInv, TagInv, Matches, Running, InstallLabels, WantOK
  <1>2. KeysOf(o, Recorded(store)) \subseteq KeysOf(o, abi[o])
    BY <1>1 DEF KeysOf
  <1>3. ASSUME NEW k \in KeysOf(o, abi[o]) PROVE k \in Recorded(store)
    <2>1. k \in KeysOf(o, want) /\ k \in Key /\ k[1] = o
      BY <1>1, <1>3 DEF AbiTag, KeysOf
    <2>2. CASE k[2] = Core
      BY <1>1, <2>1, <2>2, RecordedKeys DEF Key
    <2>3. CASE k[2] # Core
      <3>1. k[2] \in Feat /\ k = <<o, k[2]>> /\ k[2] \in FeaturesOf(o, want)
        BY <2>1, <2>3 DEF Key, FeaturesOf
      <3> QED
        BY <1>1, <3>1, RecordedKeys
    <2> QED
      BY <2>2, <2>3
  <1> QED
    BY <1>2, <1>3 DEF KeysOf

LEMMA FeaturesWholeStep ==
    ASSUME RunInv, PackageStep, FeaturesWhole
    PROVE  FeaturesWhole'
  <1> DEFINE o == op.pkg
  <1>1. /\ InstallStep \/ RemoveStep
        /\ Prepare \/ RecordCore \/ RecordFeature \/ WithdrawCore \/ WithdrawFeature \/ Clean \/ Finish
    BY PackageEffects DEF PackageStep, RunInv
  <1>2. /\ o \in Pkg
        /\ \A p \in Pkg : p # o => /\ IsInstalled(store', p) <=> IsInstalled(store, p)
                                   /\ KeysOf(p, Recorded(store')) = KeysOf(p, Recorded(store))
                                   /\ abi'[p] = abi[p]
    BY <1>1, OthersKept DEF RunInv, PackageStep, SetTypeOK
  <1>3. \A p \in Pkg : p # o /\ IsInstalled(store', p) => KeysOf(p, Recorded(store')) = KeysOf(p, abi'[p])
    BY <1>2 DEF FeaturesWhole
  <1>4. CASE Prepare \/ WithdrawCore \/ WithdrawFeature \/ Clean
    <2>1. pc = "removeCore" \/ ~ IsInstalled(store, o)
      BY <1>4 DEF Prepare, WithdrawCore, WithdrawFeature, Clean, Early, Late, RunInv, Inv, InstallInv, RemoveInv,
                  FeaturesInv
    <2>2. ~ IsInstalled(store', o)
      <3>1. <<o, Core>> \notin Recorded(store')
        BY <1>2, <1>4, <2>1, RecordedKeys DEF Prepare, WithdrawCore, WithdrawFeature, Clean, Early, Late
      <3> QED
        BY <1>2, <3>1, RecordedKeys
    <2>3. op'.pkg = o
      BY <1>4 DEF Prepare, WithdrawCore, WithdrawFeature, Clean
    <2> QED
      BY <1>3, <2>2, <2>3 DEF FeaturesWhole
  <1>5. CASE RecordCore
    <2>1. op'.pkg = o /\ pc' = "features" /\ op'.feats \ todo' = {}
      BY <1>5 DEF RecordCore
    <2> QED
      BY <1>3, <2>1 DEF FeaturesWhole
  <1>6. CASE RecordFeature
    <2>1. PICK f \in todo : todo' = todo \ {f} /\ Recorded(store') = Recorded(store) \cup {<<o, f>>}
      BY <1>6 DEF RecordFeature
    <2>2. pc = "features" /\ pc' = "features" /\ op' = op /\ IsInstalled(store, o)
      BY <1>6 DEF RecordFeature, RunInv, Inv, InstallInv
    <2>3. f \in Feat /\ todo \subseteq op.feats
      BY <2>2 DEF RunInv, Inv, TypeOK, FileLoops, InstallLabels
    <2>4. InstalledFeatures(store', o) = InstalledFeatures(store, o) \cup {f}
      BY <1>2, <2>1, <2>3, FeatureGained
    <2>5. op.feats \ todo' \subseteq InstalledFeatures(store', o)
      BY <1>2, <2>1, <2>2, <2>4 DEF FeaturesWhole
    <2> QED
      BY <1>3, <2>2, <2>5 DEF FeaturesWhole
  <1>7. CASE Finish
    <2>1. pc' = "ready" /\ todo = {} /\ Recorded(store') = Recorded(store) /\ abi' = abi
      BY <1>7 DEF Finish, PackageStep
    <2>2. IsInstalled(store', o) <=> IsInstalled(store, o)
      BY <1>2, <2>1, SameRecorded
    <2>3. IsInstalled(store, o) => pc = "features" /\ op.feats \ todo \subseteq InstalledFeatures(store, o)
      BY <1>2, <1>7 DEF Finish, FeaturesWhole, RunInv, FeaturesInv
    <2>4. IsInstalled(store, o) => KeysOf(o, Recorded(store)) = KeysOf(o, abi[o])
      BY <1>2, <2>1, <2>3, WholeFeatures
    <2> QED
      BY <1>3, <2>1, <2>2, <2>4 DEF FeaturesWhole
  <1> QED
    BY <1>1, <1>4, <1>5, <1>6, <1>7

LEMMA WholeStep ==
    ASSUME RunInv, RunInv', WholeInv, [NextPast]_pastVars
    PROVE  WholeInv'
  <1>1. CASE UNCHANGED pastVars
    BY <1>1 DEF pastVars, setVars, vars, disk, plan, WholeInv, FeaturesWhole, FilesOwned, ListsOwned, Running
  <1>2. CASE NextPast
    <2> SUFFICES ASSUME "killed" \notin past' PROVE WholeInv'
      BY DEF WholeInv
    <2>1. /\ NextSet /\ pc # "refused" /\ (~ Running => ~ Corrupted(store))
          /\ FeaturesWhole /\ FilesOwned /\ ListsOwned
          /\ pc # "off" /\ pc' = "off" => pc \in {"refused", "failed", "done"}
      BY <1>2 DEF NextPast, WholeInv
    <2>2. pc \in BetweenPackages => op = NoOp /\ op.pkg \notin Pkg
      BY NoneInWork DEF RunInv
    <2>3. pc \in {"ready", "failed", "done"} => ~ Corrupted(store)
      BY <2>2 DEF RunInv, FeaturesInv, Running, Corrupted, BetweenPackages
    <2>4. files \in [File -> Pkg \cup {NoPkg}]
      BY DEF RunInv, Inv, TypeOK
    <2>5. CASE Start /\ UNCHANGED <<abi, plan>>
      BY <2>1, <2>5 DEF Start, disk, WholeInv, FeaturesWhole, FilesOwned, ListsOwned, Running, InstallLabels, RemoveLabels
    <2>6. ~ Refuse
      <3>1. pc = "loaded" => ~ Running /\ mem = store
        BY MemoryIsStore DEF Running, InstallLabels, RemoveLabels, RunInv
      <3> QED
        BY <2>1, <3>1 DEF Refuse, GetInstalledPorts
    <2>7. CASE End
      <3>1. /\ pc' = "off" /\ pc \in {"refused", "failed", "done"} /\ UNCHANGED <<store, files, listfile, abi>>
        BY <2>1, <2>7 DEF End, Stop, disk
      <3> QED
        BY <2>1, <2>3, <3>1 DEF WholeInv, FeaturesWhole, FilesOwned, ListsOwned
    <2>8. CASE \/ \E w \in Requests : AdjustPlan(w)
               \/ \E p \in Pkg : RemoveNext(p)
               \/ \E p \in Pkg : \E content \in Contents[p] : InstallNext(p, content) \/ FailNext(p, content)
               \/ Done
      <3>1. /\ pc \in {"loaded", "ready"} /\ UNCHANGED <<store, files, listfile, abi>>
            /\ pc' \in {"ready", "removeCore", "installCore", "failed", "done"}
        BY <2>8 DEF AdjustPlan, RemoveNext, BeginRemove, InstallNext, BeginInstall, FailNext, IsNext, Done, disk
      <3>2. pc' \notin {"features", "copy", "list", "core", "removeFeatures", "delete", "refused"} /\ Running'
        BY <3>1 DEF Running, InstallLabels, RemoveLabels
      <3> QED
        BY <2>1, <3>1, <3>2 DEF WholeInv, FeaturesWhole, FilesOwned, ListsOwned
    <2>9. CASE PackageStep
      <3>1. Running' /\ pc' # "refused"
        <4>1. Prepare \/ RecordCore \/ RecordFeature \/ WithdrawCore \/ WithdrawFeature \/ Clean \/ Finish
          BY <2>9, PackageEffects DEF PackageStep, RunInv
        <4> QED
          BY <4>1 DEF Prepare, RecordCore, RecordFeature, WithdrawCore, WithdrawFeature, Clean, Finish, Early, Late,
                      Running, InstallLabels, RemoveLabels
      <3> QED
        BY <2>1, <2>9, <3>1, FilesPackageStep, FeaturesWholeStep DEF WholeInv
    <2> QED
      BY <2>1, <2>5, <2>6, <2>7, <2>8, <2>9 DEF NextSet
  <1> QED
    BY <1>1, <1>2

LEMMA WholeInit == InitPast => WholeInv
  <1> SUFFICES ASSUME InitPast PROVE WholeInv
    OBVIOUS
  <1>1. \A p \in Pkg : ~ IsInstalled(store, p) /\ InstalledFeatures(store, p) = {}
    <2>1. \A p \in Pkg : \A f \in Feat \cup {Core} : store[<<p, f>>] = Absent
      BY DEF InitPast, InitSet, Init, Key
    <2> QED
      BY <2>1, ConstantsAssumption DEF IsInstalled, InstalledFeatures, State
  <1> QED
    BY <1>1 DEF InitPast, InitSet, Init, WholeInv, FeaturesWhole, FilesOwned, ListsOwned, Corrupted

LEMMA WholeExact == RunInv /\ WholeInv => ExactUnlessKilled
  <1> SUFFICES ASSUME RunInv, WholeInv, "killed" \notin past PROVE MatchesRequest /\ NeverRefused /\ EveryFileOwned
    BY DEF ExactUnlessKilled
  <1>1. NeverRefused /\ FeaturesWhole /\ FilesOwned /\ ListsOwned
    BY DEF WholeInv, NeverRefused
  <1>2. EveryFileOwned
    BY <1>1 DEF EveryFileOwned, FilesOwned, ListsOwned
  <1>3. ASSUME pc = "done", ~ failed PROVE Recorded(store) = want
    <2>1. /\ {p \in Pkg : IsInstalled(store, p)} = Packages(want)
          /\ \A p \in Packages(want) : abi[p] = AbiTag(p, want)
      BY <1>3, RunInvSetInv DEF SetInv
    <2>2. Running /\ want \in Requests /\ want \in SUBSET Key /\ op.pkg \notin Pkg
      BY <1>3, NoneInWork DEF Running, RunInv, PlanInv, WantOK, BetweenPackages
    <2>3. \A p \in Packages(want) : KeysOf(p, Recorded(store)) = KeysOf(p, want)
      <3> SUFFICES ASSUME NEW p \in Packages(want) PROVE KeysOf(p, Recorded(store)) = KeysOf(p, want)
        OBVIOUS
      <3>1. p \in Pkg /\ KeysOf(p, Recorded(store)) = KeysOf(p, abi[p])
        BY <1>1, <1>3, <2>1 DEF FeaturesWhole
      <3>2. p \in Covers(want, p)
        BY <3>1, CoversClosed
      <3> QED
        BY <2>1, <3>1, <3>2, KeysOfTag
    <2>4. ASSUME NEW k \in want PROVE k \in Recorded(store)
      BY <2>3 DEF Packages, KeysOf
    <2>5. ASSUME NEW k \in Recorded(store) PROVE k \in want
      <3>1. PICK p \in Pkg, f \in Feat \cup {Core} : k = <<p, f>>
        BY RecordedKeys DEF Key
      <3>2. IsInstalled(store, p)
        <4>1. f \in Feat => f \in InstalledFeatures(store, p)
          BY <3>1, RecordedKeys
        <4>2. f = Core => IsInstalled(store, p)
          BY <3>1, RecordedKeys
        <4> QED
          BY <2>2, <4>1, <4>2 DEF RunInv, FeaturesInv
      <3> QED
        BY <2>1, <2>3, <3>1, <3>2 DEF KeysOf
    <2> QED
      BY <2>4, <2>5
  <1> QED
    BY <1>1, <1>2, <1>3 DEF MatchesRequest

\* CmdSetInstalledSynopsis: as long as no process is killed, a run that ends well leaves exactly the
\* packages and the features asked for, no process is refused, and no file is left without a package.
THEOREM RunsAreExactUnlessKilled == SetInstalledPast => []ExactUnlessKilled
  <1>1. InitPast => RunInv /\ WholeInv
    BY RunInvInit, WholeInit DEF InitPast
  <1>2. RunInv /\ WholeInv /\ [NextPast]_pastVars => (RunInv /\ WholeInv)'
    <2> SUFFICES ASSUME RunInv, WholeInv, [NextPast]_pastVars PROVE (RunInv /\ WholeInv)'
      OBVIOUS
    <2>1. [NextSet]_setVars
      BY DEF NextPast, pastVars
    <2>2. RunInv'
      BY <2>1, RunInvNext
    <2> QED
      BY <2>2, WholeStep
  <1> QED
    BY <1>1, <1>2, WholeExact, PTL DEF SetInstalledPast
================================================================================
