------------------------------ MODULE PackageTree ------------------------------
(***************************************************************************)
(* Installing one package into the installed tree and removing one from it *)
(* (install_package in commands.install.cpp, remove_package in             *)
(* commands.remove.cpp), step by step: the paragraphs written to the       *)
(* installed database, the files copied or deleted, and the list file that *)
(* says which files a package owns.  The process may be killed between any *)
(* two steps; the next one finds what is on disk.                          *)
(*                                                                         *)
(* The database is the durable map that InstalledDatabase is shown to      *)
(* implement: a write of one paragraph is one step that no kill undoes.    *)
(* Directories are left out, and so are the errors of copying or deleting  *)
(* a single file, which the code reports and passes over.                  *)
(***************************************************************************)
EXTENDS Naturals

CONSTANTS Pkg,       \* packages: a port for a triplet
          Feat,      \* names of features
          Core,      \* the key of the paragraph of the package itself
          File,      \* paths below the triplet directory
          Contents,  \* the sets of files a build of each package may produce
          Absent,    \* no paragraph
          NoPkg      \* no file at this path; no package in work

Key == Pkg \X (Feat \cup {Core})

\* StatusLine: what is wanted and how far it got.
InstallHalf == "install half-installed"
Installed == "install installed"
PurgeHalf == "purge half-installed"
NotInstalled == "purge not-installed"
State == {InstallHalf, Installed, PurgeHalf, NotInstalled}

ASSUME ConstantsAssumption ==
    /\ Core \notin Feat
    /\ Absent \notin State
    /\ NoPkg \notin Pkg
    /\ Contents \in [Pkg -> SUBSET SUBSET File]

Maps == [Key -> State \cup {Absent}]

\* A list file: not there, created and not completely written, or whole.
Lists == [mark : {"none", "torn", "whole"}, names : SUBSET File]
NoList == [mark |-> "none", names |-> {}]
TornList == [mark |-> "torn", names |-> {}]
WholeList(names) == [mark |-> "whole", names |-> names]

VARIABLES
    store,     \* the paragraphs recorded on disk
    files,     \* which package wrote the file at each path
    listfile,  \* <installed>/vcpkg/info/<package>.list
    pc,        \* what the process is doing
    mem,       \* status_db, the process's copy of the paragraphs
    op,        \* the package in work, its features and its files
    todo       \* the features or files the running loop has yet to visit

disk == <<store, files, listfile>>
vars == <<disk, pc, mem, op, todo>>

NoOp == [pkg |-> NoPkg, feats |-> {}, content |-> {}]

Init ==
    /\ store = [k \in Key |-> Absent]
    /\ files = [x \in File |-> NoPkg]
    /\ listfile = [p \in Pkg |-> NoList]
    /\ pc = "off"
    /\ mem = [k \in Key |-> Absent]
    /\ op = NoOp
    /\ todo = {}

IsInstalled(m, p) == m[<<p, Core>>] = Installed
InstalledFeatures(m, p) == {f \in Feat : m[<<p, f>>] = Installed}

\* get_installed_ports exits with msgCorruptedDatabase on such a database.
Corrupted(m) == \E p \in Pkg : InstalledFeatures(m, p) # {} /\ ~ IsInstalled(m, p)

(***************************************************************************)
(* A process.                                                              *)
(***************************************************************************)
\* database_sync.
Start ==
    /\ pc = "off"
    /\ mem' = store
    /\ pc' = "loaded"
    /\ UNCHANGED <<disk, op, todo>>

\* Every plan begins with get_installed_ports, which refuses a corrupted database.
GetInstalledPorts ==
    /\ pc = "loaded"
    /\ pc' = IF Corrupted(mem) THEN "refused" ELSE "ready"
    /\ UNCHANGED <<disk, mem, op, todo>>

\* The process exits or is killed, wherever it is.
Stop ==
    /\ pc # "off"
    /\ pc' = "off"
    /\ mem' = [k \in Key |-> Absent]
    /\ op' = NoOp
    /\ todo' = {}
    /\ UNCHANGED disk

(***************************************************************************)
(* install_package.                                                        *)
(***************************************************************************)
WriteAndInsert(k, v) ==
    /\ store' = [store EXCEPT ![k] = v]
    /\ mem' = [mem EXCEPT ![k] = v]

\* The list files of the installed packages are read and compared with the new files.  With a
\* conflict install_package returns FILE_CONFLICTS and has changed nothing.
Conflict(content) == \E q \in Pkg : IsInstalled(mem, q) /\ listfile[q].names \cap content # {}

BeginInstall(p, feats, content) ==
    /\ pc = "ready"
    /\ ~ IsInstalled(mem, p)
    /\ ~ Conflict(content)
    /\ op' = [pkg |-> p, feats |-> feats, content |-> content]
    /\ pc' = "installCore"
    /\ UNCHANGED <<disk, mem, todo>>

InstallCoreHalf ==
    /\ pc = "installCore"
    /\ WriteAndInsert(<<op.pkg, Core>>, InstallHalf)
    /\ todo' = op.feats
    /\ pc' = "installFeatures"
    /\ UNCHANGED <<files, listfile, op>>

InstallFeatureHalf(f) ==
    /\ pc = "installFeatures"
    /\ f \in todo
    /\ WriteAndInsert(<<op.pkg, f>>, InstallHalf)
    /\ todo' = todo \ {f}
    /\ UNCHANGED <<files, listfile, pc, op>>

BeginCopy ==
    /\ pc = "installFeatures"
    /\ todo = {}
    /\ todo' = op.content
    /\ pc' = "copy"
    /\ UNCHANGED <<disk, mem, op>>

\* install_files_and_write_listfile: the files are copied in parallel, over what is there.
CopyFile(x) ==
    /\ pc = "copy"
    /\ x \in todo
    /\ files' = [files EXCEPT ![x] = op.pkg]
    /\ todo' = todo \ {x}
    /\ UNCHANGED <<store, listfile, pc, mem, op>>

\* The list file is written when every file is copied; write_lines is not atomic.
CreateListfile ==
    /\ pc = "copy"
    /\ todo = {}
    /\ listfile' = [listfile EXCEPT ![op.pkg] = TornList]
    /\ pc' = "list"
    /\ UNCHANGED <<store, files, mem, op, todo>>

WriteListfile ==
    /\ pc = "list"
    /\ listfile' = [listfile EXCEPT ![op.pkg] = WholeList(op.content)]
    /\ pc' = "core"
    /\ UNCHANGED <<store, files, mem, op, todo>>

InstallCore ==
    /\ pc = "core"
    /\ WriteAndInsert(<<op.pkg, Core>>, Installed)
    /\ todo' = op.feats
    /\ pc' = "features"
    /\ UNCHANGED <<files, listfile, op>>

InstallFeature(f) ==
    /\ pc = "features"
    /\ f \in todo
    /\ WriteAndInsert(<<op.pkg, f>>, Installed)
    /\ todo' = todo \ {f}
    /\ UNCHANGED <<files, listfile, pc, op>>

EndInstall ==
    /\ pc = "features"
    /\ todo = {}
    /\ pc' = "ready"
    /\ op' = NoOp
    /\ UNCHANGED <<disk, mem, todo>>

(***************************************************************************)
(* remove_package.  The copy in memory is updated at the end only.         *)
(***************************************************************************)
\* Fault: the paragraphs of the features are forgotten.
FaultyBeginRemove(p) ==
    /\ pc = "ready"
    /\ IsInstalled(mem, p)
    /\ op' = [pkg |-> p, feats |-> {}, content |-> {}]
    /\ pc' = "removeCore"
    /\ UNCHANGED <<disk, mem, todo>>

BeginRemove(p) ==
    /\ pc = "ready"
    /\ IsInstalled(mem, p)
    /\ op' = [pkg |-> p, feats |-> InstalledFeatures(mem, p), content |-> {}]
    /\ pc' = "removeCore"
    /\ UNCHANGED <<disk, mem, todo>>

RemoveCoreHalf ==
    /\ pc = "removeCore"
    /\ store' = [store EXCEPT ![<<op.pkg, Core>>] = PurgeHalf]
    /\ todo' = op.feats
    /\ pc' = "removeFeatures"
    /\ UNCHANGED <<files, listfile, mem, op>>

RemoveFeatureHalf(f) ==
    /\ pc = "removeFeatures"
    /\ f \in todo
    /\ store' = [store EXCEPT ![<<op.pkg, f>>] = PurgeHalf]
    /\ todo' = todo \ {f}
    /\ UNCHANGED <<files, listfile, pc, mem, op>>

ReadListfile ==
    /\ pc = "removeFeatures"
    /\ todo = {}
    /\ todo' = listfile[op.pkg].names
    /\ pc' = "delete"
    /\ UNCHANGED <<disk, mem, op>>

DeleteFile(x) ==
    /\ pc = "delete"
    /\ x \in todo
    /\ files' = [files EXCEPT ![x] = NoPkg]
    /\ todo' = todo \ {x}
    /\ UNCHANGED <<store, listfile, pc, mem, op>>

DeleteListfile ==
    /\ pc = "delete"
    /\ todo = {}
    /\ listfile' = [listfile EXCEPT ![op.pkg] = NoList]
    /\ pc' = "removedCore"
    /\ UNCHANGED <<store, files, mem, op, todo>>

RemoveCore ==
    /\ pc = "removedCore"
    /\ WriteAndInsert(<<op.pkg, Core>>, NotInstalled)
    /\ todo' = op.feats
    /\ pc' = "removedFeatures"
    /\ UNCHANGED <<files, listfile, op>>

RemoveFeature(f) ==
    /\ pc = "removedFeatures"
    /\ f \in todo
    /\ WriteAndInsert(<<op.pkg, f>>, NotInstalled)
    /\ todo' = todo \ {f}
    /\ UNCHANGED <<files, listfile, pc, op>>

EndRemove ==
    /\ pc = "removedFeatures"
    /\ todo = {}
    /\ pc' = "ready"
    /\ op' = NoOp
    /\ UNCHANGED <<disk, mem, todo>>

InstallStep ==
    \/ InstallCoreHalf
    \/ \E f \in Feat : InstallFeatureHalf(f)
    \/ BeginCopy
    \/ \E x \in File : CopyFile(x)
    \/ CreateListfile
    \/ WriteListfile
    \/ InstallCore
    \/ \E f \in Feat : InstallFeature(f)
    \/ EndInstall

RemoveStep ==
    \/ RemoveCoreHalf
    \/ \E f \in Feat : RemoveFeatureHalf(f)
    \/ ReadListfile
    \/ \E x \in File : DeleteFile(x)
    \/ DeleteListfile
    \/ RemoveCore
    \/ \E f \in Feat : RemoveFeature(f)
    \/ EndRemove

Next ==
    \/ Start
    \/ GetInstalledPorts
    \/ Stop
    \/ \E p \in Pkg, feats \in SUBSET Feat : \E content \in Contents[p] :
           BeginInstall(p, feats, content)
    \/ \E p \in Pkg : BeginRemove(p)
    \/ InstallStep
    \/ RemoveStep

Tree == Init /\ [][Next]_vars

--------------------------------------------------------------------------------
InstallLabels == {"installCore", "installFeatures", "copy", "list", "core", "features"}
RemoveLabels == {"removeCore", "removeFeatures", "delete", "removedCore", "removedFeatures"}
FileLoops == {"copy", "delete"}
\* "done" and "failed" are the ends of a plan (SetInstalled).
BetweenPackages == {"off", "loaded", "refused", "ready", "done", "failed"}

TypeOK ==
    /\ store \in Maps
    /\ files \in [File -> Pkg \cup {NoPkg}]
    /\ listfile \in [Pkg -> Lists]
    /\ pc \in BetweenPackages \cup InstallLabels \cup RemoveLabels
    /\ mem \in Maps
    /\ op \in [pkg : Pkg \cup {NoPkg}, feats : SUBSET Feat, content : SUBSET File]
    /\ IF pc \in InstallLabels \cup RemoveLabels THEN op.pkg \in Pkg ELSE op = NoOp
    /\ IF pc \in FileLoops THEN todo \in SUBSET File ELSE todo \in SUBSET op.feats

(***************************************************************************)
(* The inductive invariant.                                                *)
(***************************************************************************)
\* An installed package has its list file, and wrote every file the list names.  Two installed
\* packages therefore never share a file.
InstalledOwnFiles ==
    \A p \in Pkg : IsInstalled(store, p) =>
        /\ listfile[p].mark = "whole"
        /\ \A x \in listfile[p].names : files[x] = p

\* The copy in memory is the database on disk, except for the paragraphs of a package that is
\* being removed.  The next plan and the next conflict check of the same process rely on it.
Stale == IF pc \in {"removeCore", "removeFeatures", "delete", "removedCore"}
         THEN {op.pkg} \X (op.feats \cup {Core})
         ELSE IF pc = "removedFeatures" THEN {op.pkg} \X todo ELSE {}

MemoryIsDisk == pc # "off" => \A k \in Key \ Stale : mem[k] = store[k]

\* A package in work is not installed until its files and its list file are in place, and no
\* installed package owns a file it copies or deletes.
InstallInv ==
    /\ pc \in {"installCore", "installFeatures", "copy", "list", "core"} =>
           /\ ~ IsInstalled(store, op.pkg)
           /\ \A q \in Pkg : IsInstalled(store, q) => listfile[q].names \cap op.content = {}
    /\ pc = "copy" => todo \subseteq op.content /\ \A x \in op.content \ todo : files[x] = op.pkg
    /\ pc \in {"list", "core"} => \A x \in op.content : files[x] = op.pkg
    /\ pc = "core" => listfile[op.pkg] = WholeList(op.content)
    /\ pc = "features" => IsInstalled(store, op.pkg)

RemoveInv ==
    /\ pc = "removeCore" => IsInstalled(store, op.pkg)
    /\ pc \in {"removeFeatures", "delete", "removedCore"} => ~ IsInstalled(store, op.pkg)
    /\ pc = "removeFeatures" =>
           /\ listfile[op.pkg].mark = "whole"
           /\ \A x \in listfile[op.pkg].names : files[x] = op.pkg
    /\ pc = "delete" =>
           \A q \in Pkg : IsInstalled(store, q) => listfile[q].names \cap todo = {}

Inv ==
    /\ TypeOK
    /\ InstalledOwnFiles
    /\ MemoryIsDisk
    /\ InstallInv
    /\ RemoveInv

(***************************************************************************)
(* Further properties.                                                     *)
(***************************************************************************)
\* A feature is recorded as installed only when its package is: installing never creates the
\* database that get_installed_ports refuses.
FeatureAfterCore ==
    [][\A p \in Pkg, f \in Feat :
          (store[<<p, f>>] # Installed /\ store'[<<p, f>>] = Installed) => IsInstalled(store, p)]_vars

\* No process finds a corrupted database (installedpaths.h, lines 55-58: the update files avoid
\* "the status database being corrupted if vcpkg is terminated while it is running").
NeverRefused == pc # "refused"

\* Between two packages every file below the triplet directory is on the list of the installed
\* package that wrote it, and only installed packages have a list.
EveryFileOwned ==
    pc = "ready" =>
        /\ \A x \in File : files[x] # NoPkg => IsInstalled(store, files[x]) /\ x \in listfile[files[x]].names
        /\ \A p \in Pkg : listfile[p] # NoList => IsInstalled(store, p)
================================================================================
