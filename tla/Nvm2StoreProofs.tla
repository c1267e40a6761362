-------------------------- MODULE Nvm2StoreProofs --------------------------
(***************************************************************************)
(* What holds of Nvm2Store for every set of processes, versions and files  *)
(* and for every combination of faults.                                    *)
(***************************************************************************)
EXTENDS Nvm2Store, TLAPS

\* Where the directory steps lead.
LEMMA Directories ==
    \A l \in DirSteps : /\ AfterTopDir(l) \in Labels \ PopulatePcs
                        /\ MkdirPc(l) \in Labels \ PopulatePcs
                        /\ DirAt(l) \in TopDirs
  BY DEF DirSteps, DirAt, TopDirs, AfterTopDir, MkdirPc, Labels, Installing,
         Unreceipted, Fetching, Unpacking, Gmaking, Asking, PopulatePcs

\* Where the commands begin.
LEMMA FirstSteps ==
    \A c \in AllCommands : Entry(c) \in Labels \ PopulatePcs
  BY DEF AllCommands, Entry, Labels, Installing, Uninstalling, Asking, Gmaking,
                PopulatePcs

\* The names install computes are names of files in ~/.nvm2/downloads.
LEMMA CacheNames ==
    ASSUME NEW v \in Versions, NEW s \in BOOLEAN
    PROVE  {Sums(v), Tarball(v, s), Index, Gmake} \subseteq CacheFiles
  BY DEF Sums, Tarball, Index, Gmake, CacheFiles

\* Where the steps that fetch and check a file lead.
LEMMA FetchSteps ==
    /\ \A l \in OpenPcs : AfterOpen(l) \in Labels \ PopulatePcs
    /\ \A l \in ReceivePcs : AfterReceive(l) \in Labels \ PopulatePcs
    /\ \A l \in Labels : AfterVerified(l) \in Labels \ PopulatePcs
  BY DEF OpenPcs, ReceivePcs, AfterOpen, AfterReceive, AfterVerified, Labels, Installing,
         Unreceipted, Fetching, Unpacking, Gmaking, Asking, PopulatePcs

\* A process fetches, checks and unpacks files that have a name.
LEMMA TargetIsFile ==
    ASSUME TypeOK, NEW p \in Procs
    PROVE  Target(p) \in CacheFiles
  BY CacheNames DEF Target, TypeOK

\* The machine nobody has used yet is well typed.
LEMMA TypeInit == Init => TypeOK
  <1> SUFFICES ASSUME Init PROVE TypeOK
    OBVIOUS
  <1>1. StartWith({}, "none")
    BY DEF Init
  <1>2. (CHOOSE v \in Versions : TRUE) \in Versions
    BY ConstantsAssumption
  <1>3. ver \in [Procs -> Versions]
    BY <1>1, <1>2 DEF StartWith
  <1>4. src = [p \in Procs |-> FALSE] /\ calm = (Faults = {})
    BY <1>1 DEF StartWith
  <1>5. src \in [Procs -> BOOLEAN] /\ calm \in BOOLEAN
    BY <1>4, Zenon
  <1> QED
    BY <1>1, <1>3, <1>5 DEF StartWith, TypeOK, AllCommands, Contents, Labels, Returns,
                            PopulatePcs

\* No step of any command leaves the types.
LEMMA TypeStep == TypeOK /\ [Next]_vars => TypeOK'
  <1> SUFFICES ASSUME TypeOK, [Next]_vars PROVE TypeOK'
    OBVIOUS
  <1>a. CASE UNCHANGED vars
    BY <1>a DEF TypeOK, vars, disk, downloads, tree, args
  <1>b. CASE Settle
    BY <1>b DEF TypeOK, Settle, disk, downloads, tree, args
  <1>c. ASSUME NEW p \in Procs, Start(p) PROVE TypeOK'
    BY <1>c, FirstSteps, ConstantsAssumption
    DEF TypeOK, Start, BusyWith, disk, downloads, tree, Returns
  <1>d. ASSUME NEW p \in Procs, Kill(p) PROVE TypeOK'
    BY <1>d DEF TypeOK, Kill, Return, args, Labels, Returns
  <1>e. ASSUME NEW p \in Procs, Step(p) PROVE TypeOK'
    <2> USE DEF TypeOK, disk, downloads, tree, args, Goto, Return, Labels, Returns,
                Installing, Unreceipted, Fetching, Unpacking, Uninstalling,
                Asking, PopulatePcs, ReceivePcs, OpenPcs, CheckPcs, VerifyPcs,
                RmOpenPcs, RmPcs, Gmaking
    <2>1. CASE InstallCheck(p)
      BY <2>1 DEF InstallCheck
    <2>2. CASE StatTopDir(p)
      BY <2>2, Directories DEF StatTopDir
    <2>3. CASE MakeTopDir(p)
      BY <2>3, Directories DEF MakeTopDir
    <2>4. CASE FetchOpens(p)
      <3>1. Target(p) \in CacheFiles
        BY TargetIsFile
      <3>2. Truncate(p, Target(p)) \/ UNCHANGED downloads
        BY <2>4 DEF FetchOpens
      <3>3. cache' \in [CacheFiles -> Contents] /\ latest' \in [CacheFiles -> SUBSET Procs]
        BY <3>1, <3>2 DEF Truncate, Contents
      <3> QED
        BY <2>4, <3>3, FetchSteps DEF FetchOpens
    <2>5. CASE ParseIndex(p)
      BY <2>5 DEF ParseIndex
    <2>6. CASE Receive(p)
      BY <2>6, TargetIsFile DEF Receive, Contents
    <2>7. CASE FetchEnds(p)
      <3>1. Target(p) \in CacheFiles
        BY TargetIsFile
      <3>2. PICK content \in {"good", "bad", "partial"} : Deliver(p, Target(p), content)
        BY <2>7 DEF FetchEnds
      <3>3. cache' \in [CacheFiles -> Contents] /\ latest' \in [CacheFiles -> SUBSET Procs]
        BY <3>1, <3>2 DEF Deliver, Contents
      <3> QED
        BY <2>7, <3>3, FetchSteps DEF FetchEnds
    <2>8. CASE FetchFails(p)
      BY <2>8, TargetIsFile DEF FetchFails, Abandon
    <2>9. CASE ParseSums(p)
      BY <2>9 DEF ParseSums
    <2>10. CASE CheckCached(p)
      BY <2>10, FetchSteps, SMTT(30) DEF CheckCached
    <2>11. CASE VerifyFetched(p)
      <3>1. AfterVerified(pc[p]) \in Labels \ PopulatePcs
        BY FetchSteps
      <3>2. \/ pc' = [pc EXCEPT ![p] = AfterVerified(pc[p])] /\ UNCHANGED ret
            \/ Return(p, "SHA256_MISMATCH") \/ Return(p, "ERROR")
        BY <2>11 DEF VerifyFetched
      <3> QED
        BY <2>11, <3>1, <3>2 DEF VerifyFetched
    <2>12. CASE VersionStat(p)
      BY <2>12 DEF VersionStat
    <2>13. CASE VersionMkdir(p)
      BY <2>13 DEF VersionMkdir
    <2>14. CASE PrepareScratch(p)
      BY <2>14 DEF PrepareScratch
    <2>15. CASE ExtractSource(p)
      BY <2>15, SMTT(30) DEF ExtractSource
    <2>16. CASE Build(p)
      BY <2>16 DEF Build
    <2>17. CASE ExtractOpen(p)
      BY <2>17 DEF ExtractOpen
    <2>18. CASE Populate(p)
      BY <2>18, ConstantsAssumption DEF Populate
    <2>19. CASE PopulateEnds(p)
      BY <2>19 DEF PopulateEnds
    <2>20. CASE PopulateFails(p)
      BY <2>20 DEF PopulateFails
    <2>21. CASE OpenReceipt(p)
      BY <2>21, SMTT(30) DEF OpenReceipt
    <2>22. CASE WriteReceipt(p)
      BY <2>22 DEF WriteReceipt
    <2>23. CASE RmOpen(p)
      BY <2>23, SMTT(30) DEF RmOpen, Entries
    <2>24. CASE RmUnlink(p)
      BY <2>24 DEF RmUnlink, Entries
    <2>25. CASE RmFails(p)
      BY <2>25 DEF RmFails
    <2>26. CASE RmDir(p)
      BY <2>26 DEF RmDir
    <2>27. CASE CheckInstalled(p)
      BY <2>27 DEF CheckInstalled
    <2>28. CASE UninstallCheck(p)
      BY <2>28 DEF UninstallCheck
    <2>29. CASE ExecCheck(p)
      BY <2>29 DEF ExecCheck
    <2>30. CASE ExecRun(p)
      BY <2>30 DEF ExecRun
    <2>31. CASE FindGmake(p)
      BY <2>31 DEF FindGmake
    <2>32. CASE ExtractGmake(p)
      BY <2>32, SMTT(30) DEF ExtractGmake
    <2> QED
      BY <1>e, <2>1, <2>2, <2>3, <2>4, <2>5, <2>6, <2>7, <2>8, <2>9, <2>10, <2>11,
         <2>12, <2>13, <2>14, <2>15, <2>16, <2>17, <2>18, <2>19, <2>20, <2>21, <2>22,
         <2>23, <2>24, <2>25, <2>26, <2>27, <2>28, <2>29, <2>30, <2>31, <2>32 DEF Step
  <1> QED
    BY <1>a, <1>b, <1>c, <1>d, <1>e DEF Next

\* Every reachable state is well typed, with any commands and any faults.
THEOREM TypeCorrect == Spec => []TypeOK
  BY TypeInit, TypeStep, PTL DEF Spec
-----------------------------------------------------------------------------
(* Every step of a process stays within the process and its version, so that what the
   processes that work on other versions know is not disturbed. *)

OwnWork(p) ==
    /\ \A q \in Procs \ {p} : /\ pc'[q] = pc[q]
                              /\ todo'[q] = todo[q]
    /\ cmd' = cmd /\ ver' = ver /\ src' = src /\ shared' = shared
    /\ \A v \in Versions \ {ver[p]} : /\ files'[v] = files[v]
                                      /\ receipt'[v] = receipt[v]
                                      /\ ((v \in dirs') <=> (v \in dirs))
                                      /\ \A s \in BOOLEAN :
                                             cache'[Tarball(v, s)] = cache[Tarball(v, s)]

\* Versions share no cached file.
LEMMA TarballsDiffer ==
    ASSUME NEW v \in Versions, NEW w \in Versions, v # w,
           NEW s \in BOOLEAN, NEW t \in BOOLEAN
    PROVE  Tarball(v, s) # Tarball(w, t) /\ Tarball(v, s) # Sums(w)
  BY DEF Tarball, Sums

\* The list of versions and gmake are nobody's tarball.
LEMMA SharedAreNoTarballs ==
    ASSUME NEW v \in Versions, NEW s \in BOOLEAN
    PROVE  Tarball(v, s) # Index /\ Tarball(v, s) # Gmake
  BY DEF Tarball, Index, Gmake

\* Nobody fetches another version's tarball.
LEMMA TargetIsOwn ==
    ASSUME TypeOK, NEW p \in Procs, NEW v \in Versions, v # ver[p], NEW s \in BOOLEAN
    PROVE  Target(p) # Tarball(v, s)
  BY TarballsDiffer, SharedAreNoTarballs DEF Target, TypeOK

\* A step of a process touches the tree and the tarballs of its own version only.
LEMMA StepIsOwnWork ==
    ASSUME TypeOK, NEW p \in Procs, Step(p)
    PROVE  OwnWork(p) /\ pc[p] # "idle"
  <1> USE DEF TypeOK, disk, downloads, tree, args, Goto, Return, OwnWork, RmPcs,
              RmOpenPcs, PopulatePcs, ReceivePcs, OpenPcs, CheckPcs, VerifyPcs
  <1>1. CASE InstallCheck(p)
    BY <1>1 DEF InstallCheck
  <1>2. CASE StatTopDir(p)
    BY <1>2 DEF StatTopDir, DirSteps
  <1>3. CASE MakeTopDir(p)
    BY <1>3 DEF MakeTopDir, DirSteps, MkdirPc
  <1>4. CASE FetchOpens(p)
    <2>1. \A v \in Versions \ {ver[p]}, s \in BOOLEAN :
             cache'[Tarball(v, s)] = cache[Tarball(v, s)]
      BY <1>4, TargetIsOwn, CacheNames DEF FetchOpens, Truncate
    <2> QED
      BY <1>4, <2>1 DEF FetchOpens
  <1>5. CASE ParseIndex(p)
    BY <1>5 DEF ParseIndex
  <1>6. CASE Receive(p)
    BY <1>6, TargetIsOwn DEF Receive
  <1>7. CASE FetchEnds(p)
    <2>1. \A v \in Versions \ {ver[p]}, s \in BOOLEAN :
             cache'[Tarball(v, s)] = cache[Tarball(v, s)]
      <3>1. PICK content : Deliver(p, Target(p), content)
        BY <1>7 DEF FetchEnds
      <3> QED
        BY <3>1, TargetIsOwn, CacheNames DEF Deliver
    <2> QED
      BY <1>7, <2>1 DEF FetchEnds
  <1>8. CASE FetchFails(p)
    BY <1>8, TargetIsOwn DEF FetchFails, Abandon
  <1>9. CASE ParseSums(p)
    BY <1>9 DEF ParseSums
  <1>10. CASE CheckCached(p)
    BY <1>10 DEF CheckCached
  <1>11. CASE VerifyFetched(p)
    BY <1>11 DEF VerifyFetched
  <1>12. CASE VersionStat(p)
    BY <1>12 DEF VersionStat
  <1>13. CASE VersionMkdir(p)
    BY <1>13 DEF VersionMkdir
  <1>14. CASE PrepareScratch(p)
    BY <1>14 DEF PrepareScratch
  <1>15. CASE ExtractSource(p)
    BY <1>15 DEF ExtractSource
  <1>16. CASE Build(p)
    BY <1>16 DEF Build
  <1>17. CASE ExtractOpen(p)
    BY <1>17 DEF ExtractOpen
  <1>18. CASE Populate(p)
    BY <1>18 DEF Populate
  <1>19. CASE PopulateEnds(p)
    BY <1>19 DEF PopulateEnds
  <1>20. CASE PopulateFails(p)
    BY <1>20 DEF PopulateFails
  <1>21. CASE OpenReceipt(p)
    BY <1>21 DEF OpenReceipt
  <1>22. CASE WriteReceipt(p)
    BY <1>22 DEF WriteReceipt
  <1>23. CASE RmOpen(p)
    BY <1>23 DEF RmOpen
  <1>24. CASE RmUnlink(p)
    BY <1>24 DEF RmUnlink
  <1>25. CASE RmFails(p)
    BY <1>25 DEF RmFails
  <1>26. CASE RmDir(p)
    BY <1>26 DEF RmDir
  <1>27. CASE CheckInstalled(p)
    BY <1>27 DEF CheckInstalled
  <1>28. CASE UninstallCheck(p)
    BY <1>28 DEF UninstallCheck
  <1>29. CASE ExecCheck(p)
    BY <1>29 DEF ExecCheck
  <1>30. CASE ExecRun(p)
    BY <1>30 DEF ExecRun
  <1>31. CASE FindGmake(p)
    BY <1>31 DEF FindGmake
  <1>32. CASE ExtractGmake(p)
    BY <1>32 DEF ExtractGmake
  <1> QED
    BY <1>1, <1>2, <1>3, <1>4, <1>5, <1>6, <1>7, <1>8, <1>9, <1>10, <1>11, <1>12,
       <1>13, <1>14, <1>15, <1>16, <1>17, <1>18, <1>19, <1>20, <1>21, <1>22, <1>23,
       <1>24, <1>25, <1>26, <1>27, <1>28, <1>29, <1>30, <1>31, <1>32 DEF Step

\* Another process keeps what it knows: it works on another version.
LEMMA OthersProgress ==
    ASSUME TypeOK, StoreInv, NEW p \in Procs, pc[p] # "idle", OwnWork(p),
           NEW q \in Procs \ shared, q # p
    PROVE  Progress(q)'
  <1>1. CASE pc[q] = "idle"
    BY <1>1 DEF OwnWork, Progress, Unreceipted, Fetching, Unpacking, Gmaking, PopulatePcs
  <1>2. CASE pc[q] # "idle"
    <2>1. ver[q] # ver[p]
      BY <1>2 DEF StoreInv, OverlapsAreShared
    <2>2. ver[q] \in Versions \ {ver[p]} /\ src[q] \in BOOLEAN
      BY <2>1 DEF TypeOK
    <2>3. Progress(q)
      BY DEF StoreInv
    <2>4. /\ pc'[q] = pc[q] /\ todo'[q] = todo[q]
          /\ cmd' = cmd /\ ver' = ver /\ src' = src
      BY DEF OwnWork
    <2>5. /\ files'[ver[q]] = files[ver[q]]
          /\ receipt'[ver[q]] = receipt[ver[q]]
          /\ cache'[Tarball(ver[q], src[q])] = cache[Tarball(ver[q], src[q])]
      BY <2>2 DEF OwnWork
    <2> QED
      BY <2>3, <2>4, <2>5 DEF Progress, Complete
  <1> QED
    BY <1>1, <1>2

\* Only these steps touch the tree of a version.
LEMMA TreeSteps ==
    ASSUME NEW p \in Procs, Step(p)
    PROVE  \/ UNCHANGED <<dirs, files, receipt, receiptFds>>
           \/ VersionMkdir(p) \/ Populate(p) \/ OpenReceipt(p) \/ WriteReceipt(p)
           \/ RmUnlink(p) \/ RmDir(p)
  BY DEF Step, disk, tree, InstallCheck, StatTopDir, MakeTopDir, FetchOpens, ParseIndex,
         Receive, FetchEnds, FetchFails, ParseSums, CheckCached, VerifyFetched, VersionStat,
         PrepareScratch, ExtractSource, Build, ExtractOpen, PopulateEnds, PopulateFails,
         RmOpen, RmFails, CheckInstalled, UninstallCheck, ExecCheck, ExecRun, FindGmake,
         ExtractGmake

\* No step, of whoever shares what with whom, puts anything where there is no directory, or
\* leaves a descriptor of a receipt that is gone.
LEMMA StepKeepsTree ==
    ASSUME TypeOK, StoreInv, NEW p \in Procs, Step(p)
    PROVE  NothingWithoutDirectory' /\ NothingOpenUnnamed'
  <1> DEFINE v == ver[p]
  <1>a. /\ v \in Versions /\ NothingWithoutDirectory /\ NothingOpenUnnamed
        /\ dirs \subseteq Versions
        /\ files \in [Versions -> SUBSET Files]
        /\ receipt \in [Versions -> {"none", "short", "full"}]
        /\ receiptFds \in [Versions -> SUBSET Procs]
    BY DEF TypeOK, StoreInv
  <1> HIDE DEF v
  <1> USE <1>a DEF NothingWithoutDirectory, NothingOpenUnnamed
  <1>1. CASE UNCHANGED <<dirs, files, receipt, receiptFds>>
    BY <1>1
  <1>2. CASE VersionMkdir(p)
    BY <1>2 DEF VersionMkdir
  <1>3. CASE Populate(p)
    <2>1. /\ dirs' = dirs \cup {v} /\ UNCHANGED <<receipt, receiptFds>>
          /\ \E f \in todo[p] : files' = [files EXCEPT ![v] = @ \cup {f}]
      BY <1>3 DEF Populate, v
    <2> QED
      BY <2>1
  <1>4. CASE OpenReceipt(p)
    <2>1. /\ UNCHANGED <<dirs, files>>
          /\ \/ /\ v \in dirs
                /\ receipt' = [receipt EXCEPT ![v] = "short"]
                /\ receiptFds' = [receiptFds EXCEPT ![v] = @ \cup {p}]
             \/ UNCHANGED <<receipt, receiptFds>>
      BY <1>4 DEF OpenReceipt, v
    <2> QED
      BY <2>1
  <1>5. CASE WriteReceipt(p)
    <2>1. /\ UNCHANGED <<dirs, files>>
          /\ receiptFds' = [receiptFds EXCEPT ![v] = @ \ {p}]
          /\ \/ p \in receiptFds[v] /\ receipt' = [receipt EXCEPT ![v] = "full"]
             \/ receipt' = receipt
      BY <1>5 DEF WriteReceipt, v
    <2> QED
      BY <2>1
  <1>6. CASE RmUnlink(p)
    <2>1. /\ dirs' = dirs
          /\ \/ /\ receipt' = [receipt EXCEPT ![v] = "none"]
                /\ receiptFds' = [receiptFds EXCEPT ![v] = {}]
                /\ UNCHANGED files
             \/ /\ \E e : files' = [files EXCEPT ![v] = @ \ {e}]
                /\ UNCHANGED <<receipt, receiptFds>>
      BY <1>6 DEF RmUnlink, v
    <2> QED
      BY <2>1
  <1>7. CASE RmDir(p)
    <2>1. /\ UNCHANGED <<files, receipt, receiptFds>>
          /\ \/ dirs' = dirs
             \/ dirs' = dirs \ {v} /\ files[v] = {} /\ receipt[v] = "none"
      BY <1>7 DEF RmDir, Entries, v
    <2> QED
      BY <2>1
  <1> QED
    BY <1>1, <1>2, <1>3, <1>4, <1>5, <1>6, <1>7, TreeSteps

\* A process stays at places of its command.
LEMMA StepPlaces ==
    ASSUME TypeOK, StoreInv, NEW p \in Procs, Step(p)
    PROVE  Places'
  <1>a. OwnWork(p) /\ Places
    BY StepIsOwnWork DEF StoreInv
  <1>b. ASSUME \/ pc'[p] = pc[p] \/ pc'[p] = "idle"
               \/ \E s \in {Installing, Uninstalling, Asking, {"ex_check", "ex_run"}} :
                      pc[p] \in s /\ pc'[p] \in s
               \/ pc'[p] = "inst_check" /\ cmd[p] = "reinstall"
               \/ pc'[p] = "un_installed" /\ cmd[p] = "reinstall"
        PROVE  Places'
    <2>1. ASSUME NEW q \in Procs
          PROVE  /\ pc'[q] \in Installing => cmd[q] \in {"install", "reinstall"}
                 /\ pc'[q] \in Uninstalling => cmd[q] \in {"uninstall", "reinstall"}
                 /\ pc'[q] \in Asking => cmd[q] \in {"reinstall", "is-available"}
                 /\ pc'[q] \in {"ex_check", "ex_run"} => cmd[q] = "exec"
      <3>1. CASE q # p
        BY <1>a, <3>1 DEF OwnWork, Places
      <3>2. CASE q = p
        BY <1>a, <1>b, <3>2 DEF Places, Installing, Unreceipted, Fetching, Unpacking, Gmaking,
                                Uninstalling, Asking
      <3> QED
        BY <3>1, <3>2
    <2> QED
      BY <1>a, <2>1 DEF Places, OwnWork
  <1> USE DEF TypeOK, disk, downloads, tree, args, Goto, Return, RmPcs, RmOpenPcs, PopulatePcs,
              Installing, Unreceipted, Fetching, Unpacking, Uninstalling, Asking,
              Gmaking, ReceivePcs, OpenPcs, CheckPcs, VerifyPcs
  <1>1. CASE InstallCheck(p)
    BY <1>b, <1>1 DEF InstallCheck
  <1>2. CASE StatTopDir(p)
    BY <1>b, <1>2 DEF StatTopDir, DirSteps, MkdirPc, AfterTopDir
  <1>3. CASE MakeTopDir(p)
    BY <1>b, <1>3 DEF MakeTopDir, DirSteps, MkdirPc, AfterTopDir
  <1>4. CASE FetchOpens(p)
    BY <1>b, <1>4 DEF FetchOpens, AfterOpen
  <1>5. CASE ParseIndex(p)
    BY <1>b, <1>5 DEF ParseIndex
  <1>6. CASE Receive(p)
    BY <1>b, <1>6 DEF Receive
  <1>7. CASE FetchEnds(p)
    BY <1>b, <1>7 DEF FetchEnds, AfterReceive
  <1>8. CASE FetchFails(p)
    BY <1>b, <1>8 DEF FetchFails
  <1>9. CASE ParseSums(p)
    BY <1>b, <1>9 DEF ParseSums
  <1>10. CASE CheckCached(p)
    BY <1>b, <1>10 DEF CheckCached, AfterVerified
  <1>11. CASE VerifyFetched(p)
    BY <1>b, <1>11 DEF VerifyFetched, AfterVerified
  <1>12. CASE VersionStat(p)
    BY <1>b, <1>12 DEF VersionStat
  <1>13. CASE VersionMkdir(p)
    BY <1>b, <1>13 DEF VersionMkdir
  <1>14. CASE PrepareScratch(p)
    BY <1>b, <1>14 DEF PrepareScratch
  <1>15. CASE ExtractSource(p)
    BY <1>b, <1>15 DEF ExtractSource
  <1>16. CASE Build(p)
    BY <1>b, <1>16 DEF Build
  <1>17. CASE ExtractOpen(p)
    BY <1>b, <1>17 DEF ExtractOpen
  <1>18. CASE Populate(p)
    BY <1>b, <1>18 DEF Populate
  <1>19. CASE PopulateEnds(p)
    BY <1>b, <1>19 DEF PopulateEnds
  <1>20. CASE PopulateFails(p)
    BY <1>b, <1>20 DEF PopulateFails
  <1>21. CASE OpenReceipt(p)
    BY <1>b, <1>21 DEF OpenReceipt
  <1>22. CASE WriteReceipt(p)
    BY <1>b, <1>22 DEF WriteReceipt
  <1>23. CASE RmOpen(p)
    BY <1>b, <1>23 DEF RmOpen
  <1>24. CASE RmUnlink(p)
    BY <1>b, <1>24 DEF RmUnlink
  <1>25. CASE RmFails(p)
    BY <1>b, <1>25 DEF RmFails
  <1>26. CASE RmDir(p)
    BY <1>b, <1>26 DEF RmDir
  <1>27. CASE CheckInstalled(p)
    BY <1>b, <1>27 DEF CheckInstalled
  <1>28. CASE UninstallCheck(p)
    BY <1>b, <1>28 DEF UninstallCheck
  <1>29. CASE ExecCheck(p)
    BY <1>b, <1>29 DEF ExecCheck
  <1>30. CASE ExecRun(p)
    BY <1>b, <1>30 DEF ExecRun
  <1>31. CASE FindGmake(p)
    BY <1>b, <1>31 DEF FindGmake
  <1>32. CASE ExtractGmake(p)
    BY <1>b, <1>32 DEF ExtractGmake
  <1> QED
    BY <1>1, <1>2, <1>3, <1>4, <1>5, <1>6, <1>7, <1>8, <1>9, <1>10, <1>11, <1>12,
       <1>13, <1>14, <1>15, <1>16, <1>17, <1>18, <1>19, <1>20, <1>21, <1>22, <1>23,
       <1>24, <1>25, <1>26, <1>27, <1>28, <1>29, <1>30, <1>31, <1>32 DEF Step

\* The process that moves knows at its next label what it has to know there.
LEMMA StepProgress ==
    ASSUME TypeOK, StoreInv, NEW p \in Procs \ shared, Step(p)
    PROVE  Progress(p)'
  <1>a. Progress(p) /\ NothingWithoutDirectory
    BY DEF StoreInv
  <1> USE <1>a DEF TypeOK, Progress, Complete, disk, downloads, tree, args, Goto, Return, RmPcs,
              RmOpenPcs, PopulatePcs, Installing, Unreceipted, Fetching, Unpacking,
              Uninstalling, Asking, Gmaking, ReceivePcs, OpenPcs, CheckPcs, VerifyPcs
  <1>1. CASE InstallCheck(p)
    BY <1>1 DEF InstallCheck, Installed, NothingWithoutDirectory
  <1>2. CASE StatTopDir(p)
    BY <1>2 DEF StatTopDir, DirSteps, MkdirPc, AfterTopDir
  <1>3. CASE MakeTopDir(p)
    BY <1>3 DEF MakeTopDir, DirSteps, MkdirPc, AfterTopDir
  <1>4. CASE FetchOpens(p)
    BY <1>4 DEF FetchOpens, Target, Truncate, AfterOpen
  <1>5. CASE ParseIndex(p)
    BY <1>5 DEF ParseIndex
  <1>6. CASE Receive(p)
    BY <1>6 DEF Receive, Target
  <1>7. CASE FetchEnds(p)
    <2>1. /\ pc[p] \in ReceivePcs /\ pc'[p] = AfterReceive(pc[p])
          /\ UNCHANGED <<dirs, files, receipt, cmd, ver>>
      BY <1>7 DEF FetchEnds
    <2>2. \/ pc[p] = "ix_recv" /\ pc'[p] = "ix_parse"
          \/ pc[p] = "sums_recv" /\ pc'[p] = "sums_parse"
          \/ pc[p] = "tar_recv" /\ pc'[p] = "tar_verify"
          \/ pc[p] = "gm_recv" /\ pc'[p] = "gm_verify"
      BY <2>1 DEF AfterReceive
    <2> QED
      BY <2>1, <2>2
  <1>8. CASE FetchFails(p)
    BY <1>8 DEF FetchFails, Target, Abandon
  <1>9. CASE ParseSums(p)
    BY <1>9 DEF ParseSums
  <1>10. CASE CheckCached(p)
    BY <1>10 DEF CheckCached, Target, AfterVerified
  <1>11. CASE VerifyFetched(p)
    BY <1>11 DEF VerifyFetched, Target, AfterVerified
  <1>12. CASE VersionStat(p)
    BY <1>12 DEF VersionStat
  <1>13. CASE VersionMkdir(p)
    BY <1>13 DEF VersionMkdir
  <1>14. CASE PrepareScratch(p)
    BY <1>14 DEF PrepareScratch
  <1>15. CASE ExtractSource(p)
    BY <1>15 DEF ExtractSource
  <1>16. CASE Build(p)
    BY <1>16 DEF Build
  <1>17. CASE ExtractOpen(p)
    BY <1>17 DEF ExtractOpen
  <1>18. CASE Populate(p)
    BY <1>18 DEF Populate
  <1>19. CASE PopulateEnds(p)
    <2>1. todo[p] = {} /\ pc[p] \in PopulatePcs
      BY <1>19 DEF PopulateEnds
    <2>2. Files \subseteq files[ver[p]] \cup todo[p]
      BY <2>1
    <2>3. files[ver[p]] \in SUBSET Files
      OBVIOUS
    <2>4. files[ver[p]] = Files
      <3> HIDE DEF TypeOK, Progress
      <3> QED
        BY <2>1, <2>2, <2>3
    <2> QED
      BY <1>19, <2>4 DEF PopulateEnds
  <1>20. CASE PopulateFails(p)
    BY <1>20 DEF PopulateFails
  <1>21. CASE OpenReceipt(p)
    BY <1>21 DEF OpenReceipt
  <1>22. CASE WriteReceipt(p)
    BY <1>22 DEF WriteReceipt
  <1>23. CASE RmOpen(p)
    BY <1>23 DEF RmOpen
  <1>24. CASE RmUnlink(p)
    BY <1>24 DEF RmUnlink, Entries
  <1>25. CASE RmFails(p)
    BY <1>25 DEF RmFails
  <1>26. CASE RmDir(p)
    <2>1. CASE ver[p] \in dirs /\ Entries(ver[p]) = {}
      <3>1. files[ver[p]] = {} /\ receipt[ver[p]] = "none"
        BY <2>1 DEF Entries
      <3>2. dirs' = dirs \ {ver[p]} /\ UNCHANGED <<files, receipt, cache, args>>
        BY <1>26, <2>1 DEF RmDir
      <3>3. CASE pc[p] = "in_rm"
        BY <1>26, <2>1, <3>1, <3>2, <3>3 DEF RmDir
      <3>4. CASE pc[p] = "un_rm"
        BY <1>26, <2>1, <3>1, <3>2, <3>4 DEF RmDir
      <3> QED
        BY <1>26, <3>3, <3>4 DEF RmDir
    <2>2. CASE ~(ver[p] \in dirs /\ Entries(ver[p]) = {})
      BY <1>26, <2>2 DEF RmDir
    <2> QED
      BY <2>1, <2>2
  <1>27. CASE CheckInstalled(p)
    BY <1>27 DEF CheckInstalled
  <1>28. CASE UninstallCheck(p)
    BY <1>28 DEF UninstallCheck
  <1>29. CASE ExecCheck(p)
    BY <1>29 DEF ExecCheck
  <1>30. CASE ExecRun(p)
    BY <1>30 DEF ExecRun
  <1>31. CASE FindGmake(p)
    BY <1>31 DEF FindGmake
  <1>32. CASE ExtractGmake(p)
    BY <1>32 DEF ExtractGmake
  <1> QED
    BY <1>1, <1>2, <1>3, <1>4, <1>5, <1>6, <1>7, <1>8, <1>9, <1>10, <1>11, <1>12,
       <1>13, <1>14, <1>15, <1>16, <1>17, <1>18, <1>19, <1>20, <1>21, <1>22, <1>23,
       <1>24, <1>25, <1>26, <1>27, <1>28, <1>29, <1>30, <1>31, <1>32 DEF Step

\* StoreInv is inductive: whoever shares a version with whom, the others know what they know.
LEMMA StoreStep ==
    ASSUME TypeOK, StoreInv, [Next]_vars
    PROVE  StoreInv'
  <1>a. CASE UNCHANGED vars
    BY <1>a DEF StoreInv, NothingWithoutDirectory, NothingOpenUnnamed, OverlapsAreShared,
                AllAlone, Places, Progress, Complete, vars, disk, downloads, tree, args
  <1>b. CASE Settle
    BY <1>b DEF StoreInv, NothingWithoutDirectory, NothingOpenUnnamed, OverlapsAreShared,
                AllAlone, Places, Progress, Complete, Settle, disk, downloads, tree, args
  <1>c. ASSUME NEW p \in Procs, Start(p) PROVE StoreInv'
    <2>1. PICK c \in Commands, v \in Versions :
             /\ Exclusive => ~Busy(v)
             /\ cmd' = [cmd EXCEPT ![p] = c]
             /\ ver' = [ver EXCEPT ![p] = v]
             /\ \E s \in BOOLEAN : src' = [src EXCEPT ![p] = s]
             /\ shared' = (shared \ {p}) \cup BusyWith(v) \cup (IF Busy(v) THEN {p} ELSE {})
             /\ pc' = [pc EXCEPT ![p] = Entry(c)]
      BY <1>c, ConstantsAssumption DEF Start
    <2>2. UNCHANGED <<dirs, files, receipt, receiptFds, cache, todo>>
      BY <1>c DEF Start, disk, downloads, tree
    <2>3. NothingWithoutDirectory' /\ NothingOpenUnnamed'
      BY <2>2 DEF StoreInv, NothingWithoutDirectory, NothingOpenUnnamed
    <2>4. ASSUME NEW q \in Procs, q # p
          PROVE  pc'[q] = pc[q] /\ cmd'[q] = cmd[q] /\ ver'[q] = ver[q] /\ src'[q] = src[q]
      BY <2>1, <2>4 DEF TypeOK
    <2>5. c \in AllCommands /\ cmd'[p] = c /\ pc'[p] = Entry(c) /\ ver'[p] = v
      BY <2>1, ConstantsAssumption DEF TypeOK
    <2>6. OverlapsAreShared'
      <3>1. ASSUME NEW a \in Procs, NEW b \in Procs, a # b, pc'[a] # "idle", pc'[b] # "idle",
                   ver'[a] = ver'[b]
            PROVE  a \in shared'
        <4>1. CASE a = p
          BY <2>1, <2>4, <2>5, <3>1, <4>1 DEF Busy, BusyWith
        <4>2. CASE b = p
          BY <2>1, <2>4, <2>5, <3>1, <4>2 DEF BusyWith
        <4>3. CASE a # p /\ b # p
          BY <2>1, <2>4, <3>1, <4>3 DEF StoreInv, OverlapsAreShared
        <4> QED
          BY <4>1, <4>2, <4>3
      <3> QED
        BY <3>1 DEF OverlapsAreShared
    <2>7. AllAlone'
      BY <2>1 DEF StoreInv, AllAlone, Busy
    <2>8. Places'
      <3>1. ASSUME NEW q \in Procs
            PROVE  /\ pc'[q] \in Installing => cmd'[q] \in {"install", "reinstall"}
                   /\ pc'[q] \in Uninstalling => cmd'[q] \in {"uninstall", "reinstall"}
                   /\ pc'[q] \in Asking => cmd'[q] \in {"reinstall", "is-available"}
                   /\ pc'[q] \in {"ex_check", "ex_run"} => cmd'[q] = "exec"
        <4>1. CASE q = p
          BY <2>5, <4>1 DEF Entry, AllCommands, Installing, Unreceipted, Fetching, Unpacking,
                            Uninstalling, Asking, Gmaking
        <4>2. CASE q # p
          BY <2>4, <4>2 DEF StoreInv, Places
        <4> QED
          BY <4>1, <4>2
      <3> QED
        BY <3>1 DEF Places
    <2>9. Progress(p)'
      BY <2>5 DEF Progress, Entry, AllCommands, Unreceipted, Fetching, Unpacking, Gmaking,
                  PopulatePcs
    <2>10. ASSUME NEW q \in Procs \ shared', q # p PROVE Progress(q)'
      <3>1. q \in Procs \ shared
        BY <2>1, <2>10
      <3> QED
        BY <2>2, <2>4, <2>10, <3>1 DEF StoreInv, Progress, Complete
    <2> QED
      BY <2>3, <2>6, <2>7, <2>8, <2>9, <2>10 DEF StoreInv
  <1>d. ASSUME NEW p \in Procs, Kill(p) PROVE StoreInv'
    <2>1. /\ pc' = [pc EXCEPT ![p] = "idle"]
          /\ todo' = [todo EXCEPT ![p] = {}]
          /\ receiptFds' = [v \in Versions |-> receiptFds[v] \ {p}]
          /\ UNCHANGED <<dirs, files, receipt, cache, cmd, ver, src, shared>>
      BY <1>d DEF Kill, Return, args
    <2>2. NothingWithoutDirectory' /\ NothingOpenUnnamed'
      BY <2>1 DEF StoreInv, NothingWithoutDirectory, NothingOpenUnnamed
    <2>3. ASSUME NEW q \in Procs
          PROVE  pc'[q] = "idle" \/ (q # p /\ pc'[q] = pc[q] /\ todo'[q] = todo[q])
      BY <2>1 DEF TypeOK
    <2>4. OverlapsAreShared' /\ AllAlone'
      BY <2>1, <2>3 DEF StoreInv, OverlapsAreShared, AllAlone
    <2>5. Places'
      BY <2>1, <2>3 DEF StoreInv, Places, Installing, Unreceipted, Fetching, Unpacking,
                        Uninstalling, Asking, Gmaking
    <2>6. ASSUME NEW q \in Procs \ shared PROVE Progress(q)'
      <3>1. CASE pc'[q] = "idle"
        BY <3>1 DEF Progress, Unreceipted, Fetching, Unpacking, Gmaking, PopulatePcs
      <3>2. CASE pc'[q] = pc[q] /\ todo'[q] = todo[q]
        BY <2>1, <3>2 DEF StoreInv, Progress, Complete
      <3> QED
        BY <2>3, <3>1, <3>2
    <2> QED
      BY <2>1, <2>2, <2>4, <2>5, <2>6 DEF StoreInv
  <1>e. ASSUME NEW p \in Procs, Step(p) PROVE StoreInv'
    <2>1. OwnWork(p) /\ pc[p] # "idle"
      BY <1>e, StepIsOwnWork
    <2>2. OverlapsAreShared' /\ AllAlone'
      BY <2>1 DEF OwnWork, StoreInv, OverlapsAreShared, AllAlone
    <2>3. NothingWithoutDirectory' /\ NothingOpenUnnamed' /\ Places'
      BY <1>e, StepKeepsTree, StepPlaces
    <2>4. \A q \in Procs \ shared : Progress(q)'
      BY <1>e, <2>1, OthersProgress, StepProgress
    <2>5. shared' = shared
      BY <2>1 DEF OwnWork
    <2> QED
      BY <2>2, <2>3, <2>4, <2>5 DEF StoreInv
  <1> QED
    BY <1>a, <1>b, <1>c, <1>d, <1>e DEF Next

\* Nobody knows anything yet, and there is nothing to know.
LEMMA StoreInit == Init => StoreInv
  BY DEF Init, StartWith, StoreInv, NothingWithoutDirectory, NothingOpenUnnamed,
         OverlapsAreShared, AllAlone, Places, Progress, Installing, Unreceipted, Fetching,
         Unpacking, Uninstalling, Asking, Gmaking, PopulatePcs

\* Whatever fails and whoever else runs, also on one version at once, each process that has
\* its version for itself can rely on what it has found out about it.
THEOREM StoreInvariant == Spec => []StoreInv
  <1>1. TypeOK /\ StoreInv /\ [Next]_vars => StoreInv'
    BY StoreStep
  <1> QED
    BY <1>1, StoreInit, TypeCorrect, PTL DEF Spec
-----------------------------------------------------------------------------
(* What a step can do to receipts and to finished trees, shared versions included *)

\* Only the fopen of install makes a receipt.
LEMMA ReceiptAppears ==
    ASSUME TypeOK, StoreInv, NEW p \in Procs, Step(p), NEW v \in Versions,
           receipt[v] = "none", receipt'[v] # "none"
    PROVE  ver[p] = v /\ pc[p] = "receipt_open"
  <1>a. /\ ver[p] \in Versions /\ receipt \in [Versions -> {"none", "short", "full"}]
        /\ receiptFds[v] = {}
    BY DEF TypeOK, StoreInv, NothingOpenUnnamed
  <1>1. CASE OpenReceipt(p)
    BY <1>a, <1>1 DEF OpenReceipt
  <1>2. CASE WriteReceipt(p)
    <2>1. receipt' = receipt \/ p \in receiptFds[ver[p]]
      BY <1>2 DEF WriteReceipt
    <2>2. receipt' = receipt \/ receipt' = [receipt EXCEPT ![ver[p]] = "full"]
      BY <1>2 DEF WriteReceipt
    <2> QED
      BY <1>a, <2>1, <2>2
  <1>3. CASE RmUnlink(p)
    <2>1. receipt' = receipt \/ receipt' = [receipt EXCEPT ![ver[p]] = "none"]
      BY <1>3 DEF RmUnlink
    <2> QED
      BY <1>a, <2>1
  <1>4. CASE receipt' = receipt
    BY <1>4
  <1> QED
    BY <1>1, <1>2, <1>3, <1>4, TreeSteps DEF VersionMkdir, Populate, RmDir

\* A receipt appears only over a complete tree, whatever failed before, unless another
\* command ran on the same version next to the install.
THEOREM ReceiptsAreEarned == Spec => ReceiptOnlyOverCompleteTree
  <1>1. ASSUME TypeOK, StoreInv, [Next]_vars, NEW v \in Versions,
               receipt[v] = "none", receipt'[v] # "none"
        PROVE  Complete(v) \/ \E p \in shared : ver[p] = v /\ pc[p] = "receipt_open"
    <2>1. PICK p \in Procs : Step(p)
      BY <1>1 DEF Next, Start, Kill, Settle, vars, disk, tree
    <2>2. ver[p] = v /\ pc[p] = "receipt_open"
      BY <1>1, <2>1, ReceiptAppears
    <2>3. p \notin shared => Complete(v)
      BY <1>1, <2>2 DEF StoreInv, Progress
    <2> QED
      BY <2>2, <2>3
  <1>2. TypeOK /\ StoreInv /\ [Next]_vars =>
          [\A v \in Versions :
             receipt[v] = "none" /\ receipt'[v] # "none" =>
                 Complete(v) \/ \E p \in shared : ver[p] = v /\ pc[p] = "receipt_open"]_vars
    BY <1>1
  <1> QED
    BY <1>2, TypeCorrect, StoreInvariant, PTL DEF Spec, ReceiptOnlyOverCompleteTree

\* Only a removal takes anything from an installed version.
LEMMA DamageIsRemoval ==
    ASSUME TypeOK, StoreInv, NEW p \in Procs, Step(p), NEW v \in Versions,
           Installed(v), Complete(v), ~(Installed(v) /\ Complete(v))'
    PROVE  ver[p] = v /\ pc[p] \in RmPcs
  <1>a. /\ ver[p] \in Versions /\ receipt \in [Versions -> {"none", "short", "full"}]
        /\ files \in [Versions -> SUBSET Files] /\ todo[p] \subseteq Files \cup {Receipt}
        /\ dirs \subseteq Versions
    BY DEF TypeOK
  <1>1. CASE RmUnlink(p)
    <2>1. /\ dirs' = dirs /\ pc[p] \in RmPcs
          /\ \/ /\ receipt' = [receipt EXCEPT ![ver[p]] = "none"]
                /\ files' = files
             \/ /\ \E e : files' = [files EXCEPT ![ver[p]] = @ \ {e}]
                /\ receipt' = receipt
      BY <1>1 DEF RmUnlink
    <2> QED
      BY <1>a, <2>1 DEF Installed, Complete
  <1>2. CASE RmDir(p)
    <2>1. /\ UNCHANGED <<files, receipt>>
          /\ dirs' = dirs \/ (dirs' = dirs \ {ver[p]} /\ receipt[ver[p]] = "none")
      BY <1>2 DEF RmDir, Entries
    <2> QED
      BY <1>a, <2>1 DEF Installed, Complete
  <1>3. CASE Populate(p)
    <2>1. /\ dirs' = dirs \cup {ver[p]} /\ receipt' = receipt
          /\ \E f \in Files : files' = [files EXCEPT ![ver[p]] = @ \cup {f}]
      BY <1>3 DEF Populate, TypeOK
    <2> QED
      BY <1>a, <2>1 DEF Installed, Complete
  <1>4. CASE OpenReceipt(p)
    <2>1. /\ UNCHANGED <<dirs, files>>
          /\ receipt' = receipt \/ receipt' = [receipt EXCEPT ![ver[p]] = "short"]
      BY <1>4 DEF OpenReceipt
    <2> QED
      BY <1>a, <2>1 DEF Installed, Complete
  <1>5. CASE WriteReceipt(p)
    <2>1. /\ UNCHANGED <<dirs, files>>
          /\ receipt' = receipt \/ receipt' = [receipt EXCEPT ![ver[p]] = "full"]
      BY <1>5 DEF WriteReceipt
    <2> QED
      BY <1>a, <2>1 DEF Installed, Complete
  <1>6. CASE VersionMkdir(p)
    <2>1. UNCHANGED <<files, receipt>> /\ dirs \subseteq dirs'
      BY <1>6 DEF VersionMkdir
    <2> QED
      BY <2>1 DEF Installed, Complete
  <1>7. CASE UNCHANGED <<dirs, files, receipt, receiptFds>>
    BY <1>7 DEF Installed, Complete
  <1> QED
    BY <1>1, <1>2, <1>3, <1>4, <1>5, <1>6, <1>7, TreeSteps

\* Only a command asked to remove a version damages an installed one, or an install next to
\* which another one finished it.
THEOREM InstallsDoNoDamage == Spec => OnlyUninstallDamages
  <1>1. ASSUME TypeOK, StoreInv, [Next]_vars, NEW v \in Versions,
               Installed(v), Complete(v), ~(Installed(v) /\ Complete(v))'
        PROVE  \E p \in Procs :
                  /\ ver[p] = v
                  /\ \/ pc[p] = "un_rm" /\ cmd[p] \in {"uninstall", "reinstall"}
                     \/ pc[p] = "in_rm" /\ p \in shared
    <2>1. PICK p \in Procs : Step(p)
      BY <1>1 DEF Next, Start, Kill, Settle, vars, disk, tree, Installed, Complete
    <2>2. ver[p] = v /\ pc[p] \in RmPcs
      BY <1>1, <2>1, DamageIsRemoval
    <2>3. pc[p] = "un_rm" => cmd[p] \in {"uninstall", "reinstall"}
      BY <1>1 DEF StoreInv, Places, Uninstalling
    <2>4. pc[p] = "in_rm" => p \in shared
      BY <1>1, <2>2 DEF StoreInv, Progress, Unreceipted, Unpacking, Installed
    <2> QED
      BY <2>2, <2>3, <2>4 DEF RmPcs
  <1>2. TypeOK /\ StoreInv /\ [Next]_vars =>
          [\A v \in Versions :
              Installed(v) /\ Complete(v) /\ ~(Installed(v) /\ Complete(v))' =>
                  \E p \in Procs :
                      /\ ver[p] = v
                      /\ \/ pc[p] = "un_rm" /\ cmd[p] \in {"uninstall", "reinstall"}
                         \/ pc[p] = "in_rm" /\ p \in shared]_vars
    BY <1>1
  <1> QED
    BY <1>2, TypeCorrect, StoreInvariant, PTL DEF Spec, OnlyUninstallDamages

\* Success means what it says, for a command next to which no other one runs on the version.
THEOREM SuccessIsEarned == Spec => SuccessIsTrue
  <1>1. ASSUME TypeOK, StoreInv, [Next]_vars, NEW p \in Procs \ shared,
               pc[p] # "idle", pc'[p] = "idle", ret'[p] = "OK"
        PROVE  /\ cmd[p] \in {"install", "reinstall"} => Installed(ver[p])'
               /\ pc[p] = "receipt_write" => Complete(ver[p])'
               /\ cmd[p] = "uninstall" => ver[p] \notin dirs' /\ Entries(ver[p])' = {}
    <2>1. PICK q \in Procs : Start(q) \/ Kill(q) \/ Step(q)
      BY <1>1 DEF Next, Settle, vars
    <2>2. q = p
      <3>1. CASE Start(q)
        BY <1>1, <3>1 DEF Start, TypeOK
      <3>2. CASE Kill(q)
        BY <1>1, <3>2 DEF Kill, Return, TypeOK
      <3>3. CASE Step(q)
        BY <1>1, <3>3, StepIsOwnWork DEF OwnWork
      <3> QED
        BY <2>1, <3>1, <3>2, <3>3
    <2>3. ~Start(p) /\ ~Kill(p)
      BY <1>1 DEF Start, Kill, Return, TypeOK
    <2>4. Step(p) /\ ver' = ver
      BY <1>1, <2>1, <2>2, <2>3, StepIsOwnWork DEF OwnWork
    <2>5. InstallCheck(p) \/ WriteReceipt(p) \/ RmDir(p) \/ ParseIndex(p) \/ ExecRun(p)
      <3> USE <1>1 DEF Goto, Return, TypeOK
      <3>1. ~StatTopDir(p)
        BY DEF StatTopDir, DirSteps, AfterTopDir, MkdirPc
      <3>2. ~MakeTopDir(p)
        BY DEF MakeTopDir, DirSteps, AfterTopDir
      <3>3. ~FetchOpens(p)
        BY DEF FetchOpens, OpenPcs, AfterOpen
      <3>4. ~Receive(p)
        BY DEF Receive, ReceivePcs
      <3>5. ~FetchEnds(p)
        BY DEF FetchEnds, ReceivePcs, AfterReceive
      <3>6. ~FetchFails(p)
        BY DEF FetchFails
      <3>7. ~ParseSums(p)
        BY DEF ParseSums
      <3>8. ~CheckCached(p)
        BY DEF CheckCached, CheckPcs, AfterVerified
      <3>9. ~VerifyFetched(p)
        BY DEF VerifyFetched, VerifyPcs, AfterVerified
      <3>10. ~VersionStat(p)
        BY DEF VersionStat
      <3>11. ~VersionMkdir(p)
        BY DEF VersionMkdir
      <3>12. ~PrepareScratch(p)
        BY DEF PrepareScratch
      <3>13. ~ExtractSource(p)
        BY DEF ExtractSource
      <3>14. ~Build(p)
        BY DEF Build
      <3>15. ~ExtractOpen(p)
        BY DEF ExtractOpen
      <3>16. ~Populate(p)
        BY DEF Populate
      <3>17. ~PopulateEnds(p)
        BY DEF PopulateEnds
      <3>18. ~PopulateFails(p)
        BY DEF PopulateFails
      <3>19. ~OpenReceipt(p)
        BY DEF OpenReceipt
      <3>20. ~RmOpen(p)
        BY DEF RmOpen
      <3>21. ~RmUnlink(p)
        BY DEF RmUnlink
      <3>22. ~RmFails(p)
        BY DEF RmFails
      <3>23. ~CheckInstalled(p)
        BY DEF CheckInstalled
      <3>24. ~UninstallCheck(p)
        BY DEF UninstallCheck
      <3>25. ~ExecCheck(p)
        BY DEF ExecCheck
      <3>26. ~FindGmake(p)
        BY DEF FindGmake
      <3>27. ~ExtractGmake(p)
        BY DEF ExtractGmake
      <3> QED
        BY <2>4, <3>1, <3>2, <3>3, <3>4, <3>5, <3>6, <3>7, <3>8, <3>9, <3>10, <3>11,
           <3>12, <3>13, <3>14, <3>15, <3>16, <3>17, <3>18, <3>19, <3>20, <3>21,
           <3>22, <3>23, <3>24, <3>25, <3>26, <3>27 DEF Step
    <2>6. ver[p] \in Versions /\ Progress(p) /\ Places
      BY <1>1 DEF TypeOK, StoreInv
    <2>7. CASE InstallCheck(p)
      BY <1>1, <2>4, <2>6, <2>7 DEF InstallCheck, Places, Installing, Installed, Goto,
                                    TypeOK, disk, tree
    <2>8. CASE WriteReceipt(p)
      <3>1. /\ cmd[p] \in {"install", "reinstall"}
            /\ Complete(ver[p]) /\ receipt[ver[p]] # "none" /\ ver[p] \in dirs
        BY <1>1, <2>6, <2>8 DEF WriteReceipt, Progress, Places, Installing, StoreInv,
                                NothingWithoutDirectory
      <3>2. /\ UNCHANGED <<files, dirs>>
            /\ UNCHANGED receipt \/ receipt' = [receipt EXCEPT ![ver[p]] = "full"]
        BY <2>8 DEF WriteReceipt
      <3> QED
        BY <1>1, <2>4, <2>6, <3>1, <3>2 DEF Installed, Complete, TypeOK
    <2>9. CASE RmDir(p)
      <3>1. pc[p] = "un_rm" /\ cmd[p] # "reinstall" /\ Entries(ver[p]) = {}
        BY <1>1, <2>9 DEF RmDir, Goto, Return, TypeOK, RmPcs
      <3>2. cmd[p] = "uninstall"
        BY <2>6, <3>1 DEF Places, Uninstalling
      <3>3. dirs' = dirs \ {ver[p]} /\ UNCHANGED <<files, receipt>>
        BY <1>1, <2>9 DEF RmDir, Return, TypeOK
      <3> QED
        BY <2>4, <3>1, <3>2, <3>3 DEF Entries
    <2>10. CASE ParseIndex(p)
      <3>1. cmd[p] = "is-available" /\ pc[p] = "ix_parse"
        BY <1>1, <2>6, <2>10 DEF ParseIndex, Places, Asking, Goto, Return,
                                 TypeOK
      <3> QED
        BY <3>1
    <2>11. CASE ExecRun(p)
      BY <2>6, <2>11 DEF ExecRun, Places
    <2> QED
      BY <2>5, <2>7, <2>8, <2>9, <2>10, <2>11
  <1>2. TypeOK /\ StoreInv /\ [Next]_vars =>
          [\A p \in Procs \ shared :
              pc[p] # "idle" /\ pc'[p] = "idle" /\ ret'[p] = "OK" =>
                  /\ cmd[p] \in {"install", "reinstall"} => Installed(ver[p])'
                  /\ pc[p] = "receipt_write" => Complete(ver[p])'
                  /\ cmd[p] = "uninstall" => ver[p] \notin dirs' /\ Entries(ver[p])' = {}]_vars
    BY <1>1
  <1> QED
    BY <1>2, TypeCorrect, StoreInvariant, PTL DEF Spec, SuccessIsTrue
-----------------------------------------------------------------------------
(* The store implements the lifecycle of versions *)

(* What a step can do to the tree of a version that nobody shares *)

Makes(v) ==
    /\ v \notin dirs /\ dirs' = dirs \cup {v}
    /\ UNCHANGED <<files, receipt>>

Fills(v) ==
    /\ receipt[v] = "none" /\ dirs' = dirs \cup {v}
    /\ \E f \in Files : files' = [files EXCEPT ![v] = @ \cup {f}]
    /\ UNCHANGED receipt

Signs(v) ==
    /\ Complete(v) /\ v \in dirs
    /\ \/ receipt[v] = "none" /\ receipt' = [receipt EXCEPT ![v] = "short"]
       \/ receipt[v] # "none" /\ receipt' = [receipt EXCEPT ![v] = "full"]
    /\ UNCHANGED <<dirs, files>>

Strips(v) ==
    /\ v \in dirs
    /\ \/ \E e \in Files : files' = [files EXCEPT ![v] = @ \ {e}] /\ UNCHANGED receipt
       \/ receipt' = [receipt EXCEPT ![v] = "none"] /\ UNCHANGED files
    /\ UNCHANGED dirs

Removes(v) ==
    /\ files[v] = {} /\ receipt[v] = "none" /\ v \in dirs
    /\ dirs' = dirs \ {v}
    /\ UNCHANGED <<files, receipt>>

TreeStep(p) ==
    \/ UNCHANGED <<dirs, files, receipt>>
    \/ Makes(ver[p]) \/ Fills(ver[p]) \/ Signs(ver[p]) \/ Removes(ver[p])
    \/ Strips(ver[p]) /\ (pc[p] = "un_rm" \/ receipt[ver[p]] = "none")

\* A step makes, fills, signs, strips or removes its version's tree, or leaves it.
LEMMA EveryStepOnTree ==
    ASSUME TypeOK, StoreInv, NEW p \in Procs \ shared, Step(p)
    PROVE  TreeStep(p)
  <1> DEFINE v == ver[p]
  <1>0. v \in Versions /\ Progress(p) /\ files[v] \in SUBSET Files
    BY DEF TypeOK, StoreInv
  <1> USE DEF TreeStep, disk, tree
  <1>1. CASE InstallCheck(p)
    BY <1>1 DEF InstallCheck
  <1>2. CASE StatTopDir(p)
    BY <1>2 DEF StatTopDir
  <1>3. CASE MakeTopDir(p)
    BY <1>3 DEF MakeTopDir
  <1>4. CASE FetchOpens(p)
    BY <1>4 DEF FetchOpens
  <1>5. CASE ParseIndex(p)
    BY <1>5 DEF ParseIndex
  <1>6. CASE Receive(p)
    BY <1>6 DEF Receive
  <1>7. CASE FetchEnds(p)
    BY <1>7 DEF FetchEnds
  <1>8. CASE FetchFails(p)
    BY <1>8 DEF FetchFails
  <1>9. CASE ParseSums(p)
    BY <1>9 DEF ParseSums
  <1>10. CASE CheckCached(p)
    BY <1>10 DEF CheckCached
  <1>11. CASE VerifyFetched(p)
    BY <1>11 DEF VerifyFetched
  <1>12. CASE VersionStat(p)
    BY <1>12 DEF VersionStat
  <1>13. CASE VersionMkdir(p)
    BY <1>13 DEF VersionMkdir, Makes
  <1>14. CASE PrepareScratch(p)
    BY <1>14 DEF PrepareScratch
  <1>15. CASE ExtractSource(p)
    BY <1>15 DEF ExtractSource
  <1>16. CASE Build(p)
    BY <1>16 DEF Build
  <1>17. CASE ExtractOpen(p)
    BY <1>17 DEF ExtractOpen
  <1>18. CASE Populate(p)
    <2>1. receipt[v] = "none"
      BY <1>0, <1>18 DEF Populate, PopulatePcs, Progress, Unreceipted, Unpacking
    <2>2. PICK f \in todo[p] : files' = [files EXCEPT ![v] = @ \cup {f}]
      BY <1>18 DEF Populate
    <2>3. f \in Files
      BY <1>18, <2>2 DEF Populate, TypeOK
    <2> QED
      BY <1>18, <2>1, <2>2, <2>3 DEF Populate, Fills
  <1>19. CASE PopulateEnds(p)
    BY <1>19 DEF PopulateEnds
  <1>20. CASE PopulateFails(p)
    BY <1>20 DEF PopulateFails
  <1>21. CASE OpenReceipt(p)
    <2>1. receipt[v] = "none" /\ Complete(v)
      BY <1>0, <1>21 DEF OpenReceipt, Progress, Unreceipted
    <2> QED
      BY <1>21, <2>1 DEF OpenReceipt, Signs
  <1>22. CASE WriteReceipt(p)
    <2>1. receipt[v] # "none" /\ Complete(v)
      BY <1>0, <1>22 DEF WriteReceipt, Progress
    <2>2. v \in dirs
      BY <1>0, <2>1 DEF StoreInv, NothingWithoutDirectory
    <2> QED
      BY <1>22, <2>1, <2>2 DEF WriteReceipt, Signs
  <1>23. CASE RmOpen(p)
    BY <1>23 DEF RmOpen
  <1>24. CASE RmUnlink(p)
    <2>1. PICK e \in Entries(v) :
             IF e = Receipt
             THEN receipt' = [receipt EXCEPT ![v] = "none"] /\ UNCHANGED files
             ELSE files' = [files EXCEPT ![v] = @ \ {e}] /\ UNCHANGED receipt
      BY <1>24 DEF RmUnlink
    <2>2. v \in dirs
      BY <1>0, <2>1 DEF StoreInv, NothingWithoutDirectory, Entries
    <2>3. e = Receipt \/ e \in Files
      BY <1>0, <2>1 DEF Entries
    <2>4. pc[p] = "un_rm" \/ receipt[v] = "none"
      BY <1>0, <1>24 DEF RmUnlink, RmPcs, Progress, Unreceipted, Unpacking
    <2>5. UNCHANGED dirs
      BY <1>24 DEF RmUnlink
    <2> QED
      BY <2>1, <2>2, <2>3, <2>4, <2>5 DEF Strips
  <1>25. CASE RmFails(p)
    BY <1>25 DEF RmFails
  <1>26. CASE RmDir(p)
    BY <1>26 DEF RmDir, Removes, Entries
  <1>27. CASE CheckInstalled(p)
    BY <1>27 DEF CheckInstalled
  <1>28. CASE UninstallCheck(p)
    BY <1>28 DEF UninstallCheck
  <1>29. CASE ExecCheck(p)
    BY <1>29 DEF ExecCheck
  <1>30. CASE ExecRun(p)
    BY <1>30 DEF ExecRun
  <1>31. CASE FindGmake(p)
    BY <1>31 DEF FindGmake
  <1>32. CASE ExtractGmake(p)
    BY <1>32 DEF ExtractGmake
  <1> QED
    BY <1>1, <1>2, <1>3, <1>4, <1>5, <1>6, <1>7, <1>8, <1>9, <1>10, <1>11, <1>12,
       <1>13, <1>14, <1>15, <1>16, <1>17, <1>18, <1>19, <1>20, <1>21, <1>22, <1>23,
       <1>24, <1>25, <1>26, <1>27, <1>28, <1>29, <1>30, <1>31, <1>32 DEF Step

\* So does every step of the system, a kill included.
LEMMA NextOnTree ==
    ASSUME Exclusive, TypeOK, StoreInv, [Next]_vars
    PROVE  UNCHANGED <<dirs, files, receipt>> \/ \E p \in Procs : TreeStep(p)
  <1>1. CASE \E p \in Procs : Step(p)
    BY <1>1, EveryStepOnTree DEF StoreInv, AllAlone
  <1>2. CASE \E p \in Procs : Start(p) \/ Kill(p)
    BY <1>2 DEF Start, Kill, disk, tree
  <1>3. CASE Settle \/ UNCHANGED vars
    BY <1>3 DEF Settle, vars, disk, tree
  <1> QED
    BY <1>1, <1>2, <1>3 DEF Next

Statuses == [v \in Versions |-> Status(v)]

\* A change of one version's status is a change of the status function there.
LEMMA OneStatusMoves ==
    ASSUME TypeOK, NEW v \in Versions,
           Makes(v) \/ Fills(v) \/ Signs(v) \/ Strips(v) \/ Removes(v)
    PROVE  Statuses' = [Statuses EXCEPT ![v] = Status(v)']
  <1>1. ASSUME NEW w \in Versions, w # v PROVE Status(w)' = Status(w)
    BY <1>1 DEF Makes, Fills, Signs, Strips, Removes, TypeOK, Status, Complete
  <1> QED
    BY <1>1 DEF Statuses

\* Every step of the system is a lifecycle step or leaves all statuses alone.
LEMMA StatusMoves ==
    ASSUME TypeOK, StoreInv, NEW v \in Versions,
           Makes(v) \/ Fills(v) \/ Signs(v) \/ Strips(v) \/ Removes(v)
    PROVE  UNCHANGED Statuses \/ Lifecycle!Next
  <1>1. v \notin dirs => files[v] = {} /\ receipt[v] = "none"
    BY DEF StoreInv, NothingWithoutDirectory
  <1>3. ASSUME NEW from, NEW to, Status(v) \in from, Status(v)' = to,
               Statuses' = [Statuses EXCEPT ![v] = Status(v)']
        PROVE  Lifecycle!Move(v, from, to)
    BY <1>1, <1>3 DEF Lifecycle!Move, Statuses
  <1>4. CASE Makes(v)
    <2>1. Status(v) = "absent" /\ Status(v)' = "broken"
      BY <1>1, <1>4 DEF Makes, Status
    <2>2. Lifecycle!Prepare(v)
      BY <1>1, <1>3, <1>4, <2>1, OneStatusMoves DEF Lifecycle!Prepare
    <2> QED
      BY <1>1, <2>2 DEF Lifecycle!Next
  <1>5. CASE Fills(v)
    <2>1. Status(v) \in {"absent", "broken"} /\ Status(v)' = "broken"
      BY <1>1, <1>5 DEF Fills, Status
    <2>2. Statuses' = [Statuses EXCEPT ![v] = Status(v)']
      BY <1>1, <1>5, OneStatusMoves
    <2>3. CASE Status(v) = "absent"
      <3>1. Lifecycle!Prepare(v)
        BY <1>3, <2>1, <2>2, <2>3 DEF Lifecycle!Prepare
      <3> QED
        BY <1>1, <3>1 DEF Lifecycle!Next
    <2>4. CASE Status(v) = "broken"
      BY <1>1, <2>1, <2>2, <2>4 DEF Statuses
    <2> QED
      BY <2>1, <2>3, <2>4
  <1>6. CASE Signs(v)
    <2>1. Statuses' = [Statuses EXCEPT ![v] = Status(v)']
      BY <1>1, <1>6, OneStatusMoves
    <2>2. CASE receipt[v] = "none"
      <3>1. Status(v) = "broken" /\ Status(v)' = "installed"
        BY <1>1, <1>6, <2>2 DEF Signs, Status, Complete, TypeOK
      <3>2. Lifecycle!Complete(v)
        BY <1>3, <2>1, <3>1 DEF Lifecycle!Complete
      <3> QED
        BY <1>1, <3>2 DEF Lifecycle!Next
    <2>3. CASE receipt[v] # "none"
      <3>1. Status(v)' = Status(v)
        BY <1>1, <1>6, <2>3 DEF Signs, Status, Complete, TypeOK
      <3> QED
        BY <1>1, <2>1, <3>1 DEF Statuses
    <2> QED
      BY <2>2, <2>3
  <1>7. CASE Strips(v)
    <2>1. Statuses' = [Statuses EXCEPT ![v] = Status(v)']
      BY <1>1, <1>7, OneStatusMoves
    <2>2. v \in dirs /\ v \in dirs'
      BY <1>7 DEF Strips
    <2>3. CASE receipt'[v] = "none"
      <3>1. Status(v)' = "broken" /\ Status(v) \in {"broken", "installed", "damaged"}
        BY <2>2, <2>3 DEF Status
      <3>2. CASE Status(v) = "broken"
        BY <1>1, <2>1, <3>1, <3>2 DEF Statuses
      <3>3. CASE Status(v) \in {"installed", "damaged"}
        <4>1. Lifecycle!Withdraw(v)
          BY <1>3, <2>1, <3>1, <3>3 DEF Lifecycle!Withdraw
        <4> QED
          BY <1>1, <4>1 DEF Lifecycle!Next
      <3> QED
        BY <3>1, <3>2, <3>3
    <2>4. CASE receipt'[v] # "none"
      <3>1. UNCHANGED receipt /\ \E e \in Files : files' = [files EXCEPT ![v] = @ \ {e}]
        BY <1>1, <1>7, <2>4 DEF Strips, TypeOK
      <3>2. CASE Status(v)' = Status(v)
        BY <1>1, <2>1, <3>2 DEF Statuses
      <3>3. CASE Status(v)' # Status(v)
        <4>1. Status(v)' \in {"installed", "damaged"} /\ Status(v) \in {"installed", "damaged"}
          BY <2>2, <2>4, <3>1 DEF Status
        <4>2. Status(v) = "installed" /\ Status(v)' = "damaged"
          <5>1. ~(Complete(v)' /\ ~Complete(v))
            BY <1>1, <3>1 DEF Complete, TypeOK
          <5> QED
            BY <2>2, <2>4, <3>1, <3>3, <4>1, <5>1 DEF Status
        <4>3. Lifecycle!Spoil(v)
          BY <1>3, <2>1, <4>2 DEF Lifecycle!Spoil
        <4> QED
          BY <1>1, <4>3 DEF Lifecycle!Next
      <3> QED
        BY <3>2, <3>3
    <2> QED
      BY <2>3, <2>4
  <1>8. CASE Removes(v)
    <2>1. Status(v) = "broken" /\ Status(v)' = "absent"
      BY <1>8 DEF Removes, Status
    <2>2. Lifecycle!Discard(v)
      BY <1>1, <1>3, <1>8, <2>1, OneStatusMoves DEF Lifecycle!Discard
    <2> QED
      BY <1>1, <2>2 DEF Lifecycle!Next
  <1> QED
    BY <1>4, <1>5, <1>6, <1>7, <1>8

\* Every version goes through its lifecycle, whatever fails, while users run one command per
\* version at a time.
THEOREM Refinement ==
    ASSUME Exclusive
    PROVE  Spec => ImplementsLifecycle
  <1>1. Init => Lifecycle!Init
    BY DEF Init, StartWith, Lifecycle!Init, Status
  <1>2. TypeOK /\ StoreInv /\ [Next]_vars => UNCHANGED Statuses \/ Lifecycle!Next
    <2> SUFFICES ASSUME TypeOK, StoreInv, [Next]_vars
                 PROVE  UNCHANGED Statuses \/ Lifecycle!Next
      OBVIOUS
    <2>1. UNCHANGED <<dirs, files, receipt>> => UNCHANGED Statuses
      BY DEF Statuses, Status, Complete
    <2>2. CASE \E p \in Procs : TreeStep(p)
      <3>1. PICK p \in Procs : TreeStep(p)
        BY <2>2
      <3>2. PICK v \in Versions : v = ver[p]
        BY DEF TypeOK
      <3>3. \/ UNCHANGED <<dirs, files, receipt>>
            \/ Makes(v) \/ Fills(v) \/ Signs(v) \/ Strips(v) \/ Removes(v)
        BY <3>1, <3>2 DEF TreeStep
      <3> QED
        BY <2>1, <3>3, StatusMoves
    <2> QED
      BY <2>1, <2>2, NextOnTree
  <1>3. TypeOK /\ StoreInv /\ [Next]_vars => [Lifecycle!Next]_Statuses
    BY <1>2
  <1> QED
    BY <1>1, <1>3, TypeCorrect, StoreInvariant, PTL
    DEF Spec, ImplementsLifecycle, Lifecycle!Spec, Statuses
-----------------------------------------------------------------------------
(* Where nothing fails: what commands on different versions can do to each other *)

\* Where install has made the directory of its version.
Made ==
    {"installing", "mkdir_installing", "scratch", "src_extract", "extract_open", "extract",
     "build", "make_install", "receipt_open"} \cup Gmaking

\* What a process has found or made of its version where no call fails.
Undisturbed(p) ==
    LET v == ver[p] IN
    /\ pc[p] # "idle" => ret[p] = "running"
    /\ pc[p] = "sums_recv" => p \in latest[Sums(v)]
    /\ pc[p] \in {"sums_parse", "tar_check", "tar_open", "tar_recv", "tar_verify"} =>
           cache[Sums(v)] = "good"
    /\ pc[p] = "tar_recv" => p \in latest[Tarball(v, src[p])]
    /\ pc[p] = "tar_verify" => cache[Tarball(v, src[p])] = "good"
    /\ pc[p] \in RmOpenPcs \cup RmPcs \cup Made => v \in dirs
    /\ pc[p] \in RmPcs => todo[p] = Entries(v)
    /\ pc[p] = "ver_mkdir" => v \notin dirs
    /\ pc[p] \in {"un_check", "un_rm_open", "ex_run"} => Installed(v)

FairWeather == \A p \in Procs \ shared : Undisturbed(p)

\* A step fetches nothing of another version.
LEMMA StepLeavesDownloads ==
    ASSUME TypeOK, NEW p \in Procs, Step(p), NEW v \in Versions, v # ver[p],
           NEW f \in {Sums(v)} \cup {Tarball(v, s) : s \in BOOLEAN}
    PROVE  cache'[f] = cache[f] /\ latest'[f] = latest[f]
  <1>1. Target(p) # f
    <2>1. ver[p] \in Versions /\ src[p] \in BOOLEAN
      BY DEF TypeOK
    <2>2. /\ Sums(v) # Sums(ver[p]) /\ Sums(v) # Index /\ Sums(v) # Gmake
          /\ Sums(v) # Tarball(ver[p], src[p])
      BY <2>1, TarballsDiffer DEF Sums, Index, Gmake
    <2>3. Target(p) # Sums(v)
      BY <2>2 DEF Target
    <2> QED
      BY <2>3, TargetIsOwn
  <1>2. f \in CacheFiles
    BY CacheNames
  <1> USE <1>1, <1>2 DEF TypeOK, downloads, disk
  <1>3. CASE FetchOpens(p)
    BY <1>3 DEF FetchOpens, Truncate
  <1>4. CASE Receive(p)
    BY <1>4 DEF Receive
  <1>5. CASE FetchEnds(p)
    <2>1. PICK content : Deliver(p, Target(p), content)
      BY <1>5 DEF FetchEnds
    <2> QED
      BY <2>1 DEF Deliver
  <1>6. CASE FetchFails(p)
    BY <1>6 DEF FetchFails, Abandon
  <1>7. CASE UNCHANGED downloads
    BY <1>7
  <1> QED
    BY <1>3, <1>4, <1>5, <1>6, <1>7
    DEF Step, InstallCheck, StatTopDir, MakeTopDir, ParseIndex, ParseSums, CheckCached,
        VerifyFetched, VersionStat, VersionMkdir, PrepareScratch, ExtractSource, FindGmake,
        ExtractGmake, Build, ExtractOpen, Populate, PopulateEnds, PopulateFails, OpenReceipt,
        WriteReceipt, RmOpen, RmUnlink, RmFails, RmDir, CheckInstalled, UninstallCheck,
        ExecCheck, ExecRun

\* A step returns from its own command only.
LEMMA StepReturnsItself ==
    ASSUME TypeOK, NEW p \in Procs, Step(p), NEW q \in Procs, q # p
    PROVE  ret'[q] = ret[q]
  <1>1. ret' = ret \/ \E r : ret' = [ret EXCEPT ![p] = r]
    BY DEF Step, InstallCheck, StatTopDir, MakeTopDir, FetchOpens, ParseIndex, Receive,
        FetchEnds, FetchFails, ParseSums, CheckCached, VerifyFetched, VersionStat,
        VersionMkdir, PrepareScratch, ExtractSource, FindGmake, ExtractGmake, Build,
        ExtractOpen, Populate, PopulateEnds, PopulateFails, OpenReceipt, WriteReceipt,
        RmOpen, RmUnlink, RmFails, RmDir, CheckInstalled, UninstallCheck, ExecCheck, ExecRun,
        Goto, Return
  <1> QED
    BY <1>1 DEF TypeOK

\* Others keep what they have found and made.
LEMMA OthersUndisturbed ==
    ASSUME TypeOK, StoreInv, FairWeather, NEW p \in Procs, Step(p),
           NEW q \in Procs \ shared, q # p
    PROVE  Undisturbed(q)'
  <1>1. OwnWork(p) /\ pc[p] # "idle"
    BY StepIsOwnWork
  <1>2. pc'[q] = pc[q] /\ todo'[q] = todo[q] /\ ver' = ver /\ src' = src
    BY <1>1 DEF OwnWork
  <1>5. ret'[q] = ret[q]
    BY StepReturnsItself
  <1>3. CASE pc[q] = "idle"
    BY <1>2, <1>3 DEF Undisturbed, Made, Gmaking, RmPcs, RmOpenPcs
  <1>4. CASE pc[q] # "idle"
    <2>1. ver[q] \in Versions \ {ver[p]} /\ src[q] \in BOOLEAN
      BY <1>1, <1>4 DEF StoreInv, OverlapsAreShared, TypeOK
    <2>2. /\ files'[ver[q]] = files[ver[q]] /\ receipt'[ver[q]] = receipt[ver[q]]
          /\ (ver[q] \in dirs') <=> (ver[q] \in dirs)
      BY <1>1, <2>1 DEF OwnWork
    <2>3. /\ cache'[Sums(ver[q])] = cache[Sums(ver[q])]
          /\ latest'[Sums(ver[q])] = latest[Sums(ver[q])]
          /\ cache'[Tarball(ver[q], src[q])] = cache[Tarball(ver[q], src[q])]
          /\ latest'[Tarball(ver[q], src[q])] = latest[Tarball(ver[q], src[q])]
      BY <2>1, StepLeavesDownloads
    <2>4. Undisturbed(q)
      BY DEF FairWeather
    <2> QED
      BY <1>2, <1>5, <2>2, <2>3, <2>4 DEF Undisturbed, Entries, Installed
  <1> QED
    BY <1>3, <1>4

\* What a command returns that did not do what it was asked to do.
Failures == {"ERROR", "ARCHIVE", "SHA256_MISMATCH", "NETWORK", "NOT_AVAILABLE"}

\* Where another version's command may be the reason.
Shared(p) ==
    \/ \E l \in DirSteps : pc[p] = MkdirPc(l) /\ DirAt(l) \in topDirs
    \/ pc[p] = "ix_parse" /\ cache[Index] # "good"
    \/ pc[p] \in {"gm_verify", "gm_extract"} /\ cache[Gmake] # "good"
    \/ pc[p] = "build" /\ scratch[p] # "good"
    \/ pc[p] = "ex_run" /\ ~Complete(ver[p])

\* A process goes on with what it has found and made, and fails only over what it shares.
LEMMA FairStep ==
    ASSUME TypeOK, StoreInv, FairWeather, Faults = {}, NEW p \in Procs \ shared, Step(p)
    PROVE  /\ Undisturbed(p)'
           /\ ret'[p] \in Failures => Shared(p)
  <1> DEFINE v == ver[p]
  <1>a. /\ Undisturbed(p) /\ Progress(p) /\ NothingWithoutDirectory
        /\ \A k : ~Fault(k)
        /\ v \in Versions /\ src[p] \in BOOLEAN
        /\ {Sums(v), Tarball(v, src[p])} \subseteq CacheFiles
        /\ ver' = ver /\ src' = src
        /\ \A q \in Procs \ {p} : pc'[q] = pc[q]
        /\ pc[p] \in Labels
    BY CacheNames, StepIsOwnWork DEF FairWeather, Fault, StoreInv, TypeOK, OwnWork
  <1>b. ret[p] = "running" /\ pc[p] # "idle"
    BY <1>a, StepIsOwnWork DEF Undisturbed
  <1> USE <1>a, <1>b
      DEF TypeOK, disk, downloads, tree, args, Goto, Return, Failures, Undisturbed, Made,
          Gmaking, RmOpenPcs, RmPcs
  <1>1. CASE InstallCheck(p)
    BY <1>1 DEF InstallCheck
  <1>2. CASE StatTopDir(p)
    <2>1. /\ UNCHANGED <<disk, todo, ret>> /\ pc[p] \in DirSteps
          /\ pc'[p] \in {AfterTopDir(pc[p]), MkdirPc(pc[p])}
      BY <1>2 DEF StatTopDir
    <2> QED
      BY <2>1 DEF DirSteps, AfterTopDir, MkdirPc, Installed, Entries
  <1>3. CASE MakeTopDir(p)
    <2>1. PICK l \in DirSteps :
            /\ pc[p] = MkdirPc(l)
            /\ \/ pc'[p] = AfterTopDir(l) /\ ret' = ret
               \/ DirAt(l) \in topDirs /\ pc'[p] = "idle"
            /\ UNCHANGED <<downloads, tree, todo>>
      BY <1>3 DEF MakeTopDir
    <2>2. Undisturbed(p)'
      BY <2>1 DEF DirSteps, AfterTopDir, MkdirPc, Installed, Entries
    <2>3. ret'[p] \in Failures => Shared(p)
      BY <2>1 DEF Shared
    <2> QED
      BY <2>2, <2>3
  <1>4. CASE FetchOpens(p)
    <2>1. /\ pc[p] \in OpenPcs /\ UNCHANGED <<tree, todo, ret>>
          /\ pc'[p] = AfterOpen(pc[p]) /\ Truncate(p, Target(p))
      BY <1>4 DEF FetchOpens
    <2>2. Sums(v) # Tarball(v, src[p]) /\ Sums(v) # Index /\ Sums(v) # Gmake
      BY DEF Sums, Tarball, Index, Gmake
    <2> QED
      BY <2>1, <2>2 DEF OpenPcs, AfterOpen, Truncate, Target
  <1>5. CASE ParseIndex(p)
    BY <1>5 DEF ParseIndex, Shared
  <1>6. CASE Receive(p)
    BY <1>6 DEF Receive, ReceivePcs, Target, Entries, Installed
  <1>7. CASE FetchEnds(p)
    <2>1. /\ pc[p] \in ReceivePcs /\ UNCHANGED <<tree, todo, ret>>
          /\ pc'[p] = AfterReceive(pc[p]) /\ Deliver(p, Target(p), "good")
      BY <1>7 DEF FetchEnds
    <2> QED
      BY <2>1 DEF ReceivePcs, AfterReceive, Deliver, Target
  <1>8. CASE FetchFails(p)
    BY <1>8 DEF FetchFails
  <1>9. CASE ParseSums(p)
    BY <1>9 DEF ParseSums
  <1>10. CASE CheckCached(p)
    BY <1>10 DEF CheckCached, CheckPcs, AfterVerified
  <1>11. CASE VerifyFetched(p)
    <2>1. CASE pc[p] = "tar_verify"
      BY <1>11, <2>1 DEF VerifyFetched, AfterVerified, Target, SumMayDiffer
    <2>2. CASE pc[p] = "gm_verify"
      BY <1>11, <2>2 DEF VerifyFetched, AfterVerified, Target, SumMayDiffer, Shared
    <2> QED
      BY <1>11, <2>1, <2>2 DEF VerifyFetched, VerifyPcs
  <1>12. CASE VersionStat(p)
    BY <1>12 DEF VersionStat
  <1>13. CASE VersionMkdir(p)
    BY <1>13 DEF VersionMkdir
  <1>14. CASE PrepareScratch(p)
    BY <1>14 DEF PrepareScratch
  <1>15. CASE ExtractSource(p)
    BY <1>15 DEF ExtractSource, Progress, Unpacking
  <1>16. CASE FindGmake(p)
    BY <1>16 DEF FindGmake
  <1>17. CASE ExtractGmake(p)
    BY <1>17 DEF ExtractGmake, Shared
  <1>18. CASE Build(p)
    BY <1>18 DEF Build, Shared
  <1>19. CASE ExtractOpen(p)
    BY <1>19 DEF ExtractOpen
  <1>20. CASE Populate(p)
    <2>1. /\ pc[p] \in PopulatePcs /\ pc' = pc /\ ret' = ret /\ receipt' = receipt
          /\ v \in dirs' /\ cache' = cache /\ latest' = latest
      BY <1>20 DEF Populate
    <2> QED
      BY <2>1 DEF PopulatePcs
  <1>21. CASE PopulateEnds(p)
    BY <1>21 DEF PopulateEnds, PopulatePcs
  <1>22. CASE PopulateFails(p)
    <2>1. pc[p] = "extract" /\ cache[Tarball(v, src[p])] # "good"
      BY <1>22 DEF PopulateFails
    <2> QED
      BY <2>1 DEF Progress, Unpacking
  <1>23. CASE OpenReceipt(p)
    BY <1>23 DEF OpenReceipt
  <1>24. CASE WriteReceipt(p)
    BY <1>24 DEF WriteReceipt
  <1>25. CASE RmOpen(p)
    <2>1. /\ UNCHANGED <<dirs, files, receipt, ret>> /\ todo'[p] = Entries(v)
          /\ pc[p] \in RmOpenPcs
          /\ pc'[p] = IF pc[p] = "un_rm_open" THEN "un_rm" ELSE "in_rm"
      BY <1>25 DEF RmOpen
    <2>2. Entries(v)' = Entries(v)
      BY <2>1 DEF Entries
    <2> QED
      BY <2>1, <2>2
  <1>26. CASE RmUnlink(p)
    <2>1. PICK e \in Entries(v) :
            /\ IF e = Receipt
               THEN receipt' = [receipt EXCEPT ![v] = "none"] /\ files' = files
               ELSE files' = [files EXCEPT ![v] = @ \ {e}] /\ receipt' = receipt
            /\ todo'[p] = todo[p] \ {e}
      BY <1>26 DEF RmUnlink
    <2>2. pc[p] \in RmPcs /\ pc' = pc /\ ret' = ret /\ dirs' = dirs
      BY <1>26 DEF RmUnlink
    <2>3. Entries(v)' = Entries(v) \ {e}
      <3>1. Receipt \notin files[v]
        BY ConstantsAssumption
      <3>2. CASE e = Receipt
        BY <2>1, <3>1, <3>2 DEF Entries
      <3>3. CASE e # Receipt
        BY <2>1, <3>1, <3>3 DEF Entries
      <3> QED
        BY <3>2, <3>3
    <2> QED
      BY <2>1, <2>2, <2>3
  <1>27. CASE RmFails(p)
    <2>1. pc[p] \in RmPcs /\ todo[p] \ Entries(v) # {}
      BY <1>27 DEF RmFails
    <2> QED
      BY <2>1
  <1>28. CASE RmDir(p)
    <2>1. pc[p] \in RmPcs /\ Entries(v) = {} /\ v \in dirs
      BY <1>28 DEF RmDir
    <2>2. /\ UNCHANGED <<files, receipt>> /\ dirs' = dirs \ {v}
          /\ \/ pc'[p] \in {"ver_mkdir", "inst_check"} /\ ret' = ret
             \/ pc'[p] = "idle" /\ ret'[p] = "OK"
      BY <1>28, <2>1 DEF RmDir
    <2> QED
      BY <2>2
  <1>29. CASE CheckInstalled(p)
    BY <1>29 DEF CheckInstalled, Installed
  <1>30. CASE UninstallCheck(p)
    BY <1>30 DEF UninstallCheck, Installed
  <1>31. CASE ExecCheck(p)
    BY <1>31 DEF ExecCheck, Installed
  <1>32. CASE ExecRun(p)
    BY <1>32 DEF ExecRun, Shared, Complete
  <1> QED
    BY <1>1, <1>2, <1>3, <1>4, <1>5, <1>6, <1>7, <1>8, <1>9, <1>10, <1>11, <1>12, <1>13,
       <1>14, <1>15, <1>16, <1>17, <1>18, <1>19, <1>20, <1>21, <1>22, <1>23, <1>24, <1>25,
       <1>26, <1>27, <1>28, <1>29, <1>30, <1>31, <1>32 DEF Step

\* In fair weather it stays fair.
LEMMA FairWeatherStep ==
    ASSUME Faults = {}, TypeOK, StoreInv, FairWeather, [Next]_vars
    PROVE  FairWeather'
  <1>1. CASE UNCHANGED vars \/ Settle
    <2>1. /\ UNCHANGED <<cache, latest, dirs, files, receipt, pc, ver, src, todo, ret>>
          /\ shared' = shared
      BY <1>1 DEF vars, disk, downloads, tree, args, Settle
    <2> QED
      BY <2>1 DEF FairWeather, Undisturbed, Entries, Installed
  <1>2. ASSUME NEW p \in Procs, Start(p) PROVE FairWeather'
    <2>1. PICK c \in AllCommands : pc' = [pc EXCEPT ![p] = Entry(c)]
      BY <1>2, ConstantsAssumption DEF Start
    <2>2. /\ UNCHANGED <<disk, todo>> /\ pc[p] = "idle"
          /\ ret' = [ret EXCEPT ![p] = "running"]
          /\ shared \ {p} \subseteq shared'
          /\ \A q \in Procs \ {p} : ver'[q] = ver[q] /\ src'[q] = src[q]
      BY <1>2 DEF Start, TypeOK
    <2>3. ASSUME NEW q \in Procs \ shared', q # p PROVE Undisturbed(q)'
      <3>1. pc'[q] = pc[q] /\ ret'[q] = ret[q] /\ ver'[q] = ver[q] /\ src'[q] = src[q]
        BY <2>1, <2>2, <2>3 DEF TypeOK
      <3>2. Undisturbed(q)
        BY <2>2, <2>3 DEF FairWeather
      <3> QED
        BY <2>2, <3>1, <3>2 DEF Undisturbed, disk, downloads, tree, Entries, Installed
    <2>4. Undisturbed(p)'
      <3>1. pc'[p] = Entry(c) /\ ret'[p] = "running"
        BY <2>1, <2>2 DEF TypeOK
      <3> QED
        BY <3>1 DEF Undisturbed, Entry, AllCommands, RmOpenPcs, RmPcs, Made, Gmaking
    <2> QED
      BY <2>3, <2>4 DEF FairWeather
  <1>3. ASSUME NEW p \in Procs, Step(p) PROVE FairWeather'
    <2>1. shared' = shared
      BY <1>3, StepIsOwnWork DEF OwnWork
    <2>2. \A q \in Procs \ shared : Undisturbed(q)'
      BY <1>3, FairStep, OthersUndisturbed
    <2> QED
      BY <2>1, <2>2 DEF FairWeather
  <1>4. ASSUME NEW p \in Procs PROVE ~Kill(p)
    BY DEF Kill, Fault
  <1> QED
    BY <1>1, <1>2, <1>3, <1>4 DEF Next

\* Where no call fails, commands on different versions keep out of each other's way in
\* everything but ~/.nvm2 itself, the list of versions and gmake: a command next to which no
\* other one runs on its version fails only where it meets another one there (install.c:385,
\* 402, 605, 641, 238, 267, check.c:61, 79, 93, 103), or runs what two installs left short.
THEOREM DifferentVersionsOnlyShare ==
    ASSUME Faults = {}
    PROVE  Spec => FailsOnlyInSharedPlaces
  <1>1. Init => FairWeather
    BY DEF Init, StartWith, FairWeather, Undisturbed, RmOpenPcs, RmPcs, Made, Gmaking
  <1>2. TypeOK /\ StoreInv /\ FairWeather /\ [Next]_vars => FairWeather'
    BY FairWeatherStep
  <1>3. TypeOK /\ StoreInv /\ FairWeather /\ [Next]_vars =>
          [\A p \in Procs \ shared :
             pc[p] # "idle" /\ ret'[p] \in {"ERROR", "ARCHIVE", "SHA256_MISMATCH", "NETWORK",
                                            "NOT_AVAILABLE"}
                 => \/ \E l \in DirSteps : pc[p] = MkdirPc(l) /\ DirAt(l) \in topDirs
                    \/ pc[p] = "ix_parse" /\ cache[Index] # "good"
                    \/ pc[p] \in {"gm_verify", "gm_extract"} /\ cache[Gmake] # "good"
                    \/ pc[p] = "build" /\ scratch[p] # "good"
                    \/ pc[p] = "ex_run" /\ ~Complete(ver[p])]_ret
    <2>1. ASSUME TypeOK, StoreInv, FairWeather, [Next]_vars, NEW p \in Procs \ shared,
                 pc[p] # "idle", ret'[p] \in Failures
          PROVE  Shared(p)
      <3>1. ret[p] = "running"
        BY <2>1 DEF FairWeather, Undisturbed
      <3>2. PICK q \in Procs : Start(q) \/ Step(q)
        BY <2>1, <3>1 DEF Next, vars, Settle, Kill, Fault, Failures
      <3>3. ~Start(q)
        BY <2>1, <3>1 DEF Start, Failures, TypeOK
      <3>4. q = p
        BY <2>1, <3>1, <3>2, <3>3, StepReturnsItself DEF Failures
      <3> QED
        BY <2>1, <3>2, <3>3, <3>4, FairStep
    <2> QED
      BY <2>1 DEF Failures, Shared
  <1> QED
    BY <1>1, <1>2, <1>3, TypeCorrect, StoreInvariant, PTL DEF Spec, FailsOnlyInSharedPlaces
=============================================================================
