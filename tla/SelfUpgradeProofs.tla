------------------------- MODULE SelfUpgradeProofs -------------------------
(***************************************************************************)
(* What holds of SelfUpgrade for every set of processes and releases: type *)
(* correctness whatever happens, and the safety of the executable when     *)
(* users run upgrade-self and cleanup one at a time and no fclose loses    *)
(* bytes nobody looks for.                                                 *)
(***************************************************************************)
EXTENDS SelfUpgrade, TLAPS

\* The files have names of their own.
LEMMA FileNames ==
    ASSUME NEW r \in Releases
    PROVE  /\ \A c \in AllCommands : Json(c) \notin {Tarball(r), Unpacked(r), Exe, Link}
           /\ Exe \notin TmpFiles /\ Link \notin TmpFiles
           /\ Tarball(r) # Unpacked(r)
           /\ Exe \notin {Tarball(r), Unpacked(r), Link}
           /\ Link \notin {Tarball(r), Unpacked(r)}
  <1>1. /\ Tarball(r)[1] = "tarball" /\ Unpacked(r)[1] = "bin/nvm2"
        /\ Exe[1] = "nvm2" /\ Link[1] = "link"
    BY DEF Tarball, Unpacked, Exe, Link
  <1>2. \A c \in AllCommands :
            Json(c)[1] \in {"index.json", "schedule.json", "_nvm2", "latest.json"}
    BY DEF Json
  <1>3. \A s \in Releases : Tarball(s)[1] = "tarball" /\ Unpacked(s)[1] = "bin/nvm2"
    BY DEF Tarball, Unpacked
  <1>4. \A f \in TmpFiles : f[1] \notin {"nvm2", "link"}
    BY <1>2, <1>3 DEF TmpFiles
  <1> QED
    BY <1>1, <1>2, <1>4

\* What is fetched and unpacked is a file of the model.
LEMMA FilesThereAre ==
    /\ \A c \in AllCommands : Json(c) \in Files
    /\ \A r \in Releases : Tarball(r) \in Files /\ Unpacked(r) \in Files
    /\ Exe \in Files /\ Link \in Files
    /\ TmpFiles \subseteq Files
  BY DEF Files, TmpFiles, AllCommands, Json

\* A process writes a file that has a name.
LEMMA TargetIsFile ==
    ASSUME TypeOK, NEW p \in Procs
    PROVE  Target(p) \in Files
  BY FilesThereAre DEF Target, TypeOK

\* A file that is delivered has a content, and so have all others.
LEMMA DeliverTypes ==
    ASSUME TypeOK, NEW p \in Procs, NEW c \in Contents, Deliver(p, c)
    PROVE  /\ content' \in [Files -> Contents]
           /\ fd' \in [Procs -> {"none", "fresh", "cut", "gone"}]
  BY TargetIsFile DEF Deliver, TypeOK, Contents
-----------------------------------------------------------------------------
\* A machine on which nobody has used nvm2 yet is well typed.
LEMMA TypeInit == Init => TypeOK
  <1> SUFFICES ASSUME Init PROVE TypeOK
    OBVIOUS
  <1>1. calm \in BOOLEAN
    <2>1. calm = (Faults = {})
      BY DEF Init
    <2> QED
      BY <2>1, Zenon
  <1> QED
    BY <1>1, FilesThereAre DEF Init, TypeOK, Contents, Labels, Returns, AllCommands

\* The releases a step learns of are releases, and types survive every step.
LEMMA TypeStep == TypeOK /\ [Next]_vars => TypeOK'
  <1> SUFFICES ASSUME TypeOK, [Next]_vars PROVE TypeOK'
    OBVIOUS
  <1> USE DEF disk, local
  <1>a. CASE UNCHANGED vars
    BY <1>a DEF TypeOK, vars
  <1>b. CASE Settle
    BY <1>b DEF TypeOK, Settle
  <1>c. CASE Publish
    BY <1>c DEF TypeOK, Publish
  <1>d. ASSUME NEW p \in Procs, Start(p) PROVE TypeOK'
    <2>1. spared' \in [Procs -> BOOLEAN]
      BY <1>d, Zenon DEF Start
    <2>2. cmd' \in [Procs -> AllCommands] /\ pc' \in [Procs -> Labels]
      BY <1>d, ConstantsAssumption DEF Start, TypeOK, Labels, DirPcs
    <2> QED
      BY <1>d, <2>1, <2>2 DEF Start, TypeOK, Returns
  <1>e. ASSUME NEW p \in Procs, Kill(p) PROVE TypeOK'
    BY <1>e DEF TypeOK, Kill, Return, CloseRead, Labels, Returns
  <1>f. ASSUME NEW p \in Procs, Step(p) PROVE TypeOK'
    <2> DEFINE PcOK == pc' \in [Procs -> Labels] /\ ret' \in [Procs -> Returns]
    <2>g. ASSUME NEW l \in Labels, Goto(p, l) PROVE PcOK
      BY <2>g DEF Goto, TypeOK
    <2>r. ASSUME NEW r \in Returns, Return(p, r) PROVE PcOK
      BY <2>r DEF Return, TypeOK, Labels
    <2>l. /\ DirPcs \cup OpenPcs \cup ReceivePcs \cup Replacing \subseteq Labels
          /\ {"idle", "json_read", "unpack_open", "unpack_make", "unpack_end", "self_path",
              "self_unlink", "rm_stat", "rm_open", "rm"} \subseteq Labels
          /\ \A d \in DirPcs : MkdirPc(d) \in Labels
          /\ \A c \in AllCommands : DirOf(c) \in DirPcs
      BY DEF Labels, DirPcs, MkdirPc, DirOf
    <2>m. {"OK", "ERROR", "NETWORK", "ARCHIVE"} \subseteq Returns
      BY DEF Returns
    <2>t. Target(p) \in Files /\ cmd[p] \in AllCommands /\ rel[p] \in Releases
      BY TargetIsFile DEF TypeOK
    <2> HIDE DEF PcOK
    <2>1. CASE StatDir(p)
      <3>1. PcOK
        BY <2>1, <2>g, <2>l, <2>t DEF StatDir, OpenPcs
      <3> QED
        BY <2>1, <3>1 DEF StatDir, TypeOK, PcOK
    <2>2. CASE MakeDir(p)
      <3>1. PcOK
        BY <2>2, <2>g, <2>r, <2>l, <2>m, <2>t DEF MakeDir, OpenPcs
      <3> QED
        BY <2>2, <3>1 DEF MakeDir, TypeOK, PcOK
    <2>3. CASE FetchOpens(p)
      <3>1. PcOK
        BY <2>3, <2>g, <2>r, <2>l, <2>m DEF FetchOpens, ReceivePcs
      <3>2. content' \in [Files -> Contents]
        BY <2>3, <2>t DEF FetchOpens, TypeOK, Contents
      <3>3. fd' \in [Procs -> {"none", "fresh", "cut", "gone"}]
        BY <2>3 DEF FetchOpens, TypeOK, Cut
      <3>4. rel' \in [Procs -> Releases] /\ named' \in Releases
        BY <2>3 DEF FetchOpens, TypeOK
      <3> QED
        BY <2>3, <3>1, <3>2, <3>3, <3>4 DEF FetchOpens, TypeOK, PcOK
    <2>4. CASE Receive(p)
      BY <2>4, <2>t DEF Receive, TypeOK, Contents
    <2>5. CASE FetchEnds(p)
      <3>1. PcOK
        BY <2>5, <2>g, <2>l DEF FetchEnds
      <3>2. /\ content' \in [Files -> Contents]
            /\ fd' \in [Procs -> {"none", "fresh", "cut", "gone"}]
        BY <2>5, DeliverTypes DEF FetchEnds, Contents, Close, TypeOK
      <3> QED
        BY <2>5, <3>1, <3>2 DEF FetchEnds, TypeOK, PcOK
    <2>6. CASE FetchFails(p)
      <3>1. PcOK
        BY <2>6, <2>r, <2>m DEF FetchFails
      <3> QED
        BY <2>6, <3>1 DEF FetchFails, Close, TypeOK, PcOK
    <2>7. CASE ReadJson(p)
      <3>1. PcOK
        BY <2>7, <2>r, <2>m DEF ReadJson
      <3> QED
        BY <2>7, <3>1 DEF ReadJson, TypeOK, PcOK
    <2>8. CASE ReadLatest(p)
      <3>1. PcOK
        BY <2>8, <2>g, <2>r, <2>l, <2>m DEF ReadLatest, OpenPcs
      <3> QED
        BY <2>8, <3>1 DEF ReadLatest, TypeOK, PcOK
    <2>9. CASE LinkCompletion(p)
      <3>1. PcOK
        BY <2>9, <2>r, <2>m DEF LinkCompletion
      <3>2. content' \in [Files -> Contents]
        BY <2>9, FilesThereAre DEF LinkCompletion, TypeOK, Contents
      <3> QED
        BY <2>9, <3>1, <3>2 DEF LinkCompletion, TypeOK, PcOK
    <2>10. CASE UnpackOpen(p)
      <3>1. PcOK
        BY <2>10, <2>g, <2>r, <2>l, <2>m DEF UnpackOpen
      <3> QED
        BY <2>10, <3>1 DEF UnpackOpen, TypeOK, PcOK
    <2>11. CASE UnpackMake(p)
      <3>1. PcOK
        BY <2>11, <2>g, <2>r, <2>l, <2>m DEF UnpackMake
      <3>2. content' \in [Files -> Contents]
        BY <2>11, <2>t, FilesThereAre DEF UnpackMake, TypeOK, Contents
      <3>3. /\ fd' \in [Procs -> {"none", "fresh", "cut", "gone"}]
            /\ topDirs' \subseteq DirPcs
        BY <2>11 DEF UnpackMake, TypeOK, DirPcs
      <3> QED
        BY <2>11, <3>1, <3>2, <3>3 DEF UnpackMake, CloseRead, TypeOK, PcOK
    <2>12. CASE UnpackEnd(p)
      <3>1. PcOK
        BY <2>12, <2>g, <2>r, <2>l, <2>m DEF UnpackEnd
      <3>2. /\ content' \in [Files -> Contents]
            /\ fd' \in [Procs -> {"none", "fresh", "cut", "gone"}]
        BY <2>12, DeliverTypes DEF UnpackEnd, Contents, Close, TypeOK
      <3> QED
        BY <2>12, <3>1, <3>2 DEF UnpackEnd, CloseRead, TypeOK, PcOK
    <2>13. CASE SelfPath(p)
      <3>1. PcOK
        BY <2>13, <2>g, <2>r, <2>l, <2>m DEF SelfPath
      <3> QED
        BY <2>13, <3>1 DEF SelfPath, TypeOK, PcOK
    <2>14. CASE SelfUnlink(p)
      <3>1. PcOK
        BY <2>14, <2>g, <2>r, <2>l, <2>m DEF SelfUnlink, Replacing
      <3>2. content' \in [Files -> Contents]
        BY <2>14, FilesThereAre DEF SelfUnlink, TypeOK, Contents
      <3>3. fd' \in [Procs -> {"none", "fresh", "cut", "gone"}]
        BY <2>14 DEF SelfUnlink, TypeOK, Lose
      <3> QED
        BY <2>14, <3>1, <3>2, <3>3 DEF SelfUnlink, TypeOK, PcOK
    <2>15. CASE CopyOpen(p)
      <3>1. PcOK
        BY <2>15, <2>g, <2>r, <2>l, <2>m DEF CopyOpen, Replacing
      <3>2. content' \in [Files -> Contents]
        BY <2>15, FilesThereAre DEF CopyOpen, TypeOK, Contents
      <3>3. fd' \in [Procs -> {"none", "fresh", "cut", "gone"}]
        BY <2>15 DEF CopyOpen, TypeOK, Cut
      <3>4. exeRel' \in Releases /\ from' \in [Procs -> {"none", "partial", "good", "bad"}]
        BY <2>15, <2>t DEF CopyOpen, TypeOK
      <3> QED
        BY <2>15, <3>1, <3>2, <3>3, <3>4 DEF CopyOpen, TypeOK, PcOK
    <2>16. CASE CopyEnd(p)
      <3>1. PcOK
        BY <2>16, <2>g, <2>r, <2>l, <2>m DEF CopyEnd, Replacing
      <3>2. from[p] \in Contents /\ "partial" \in Contents
        BY DEF TypeOK, Contents
      <3>3. /\ content' \in [Files -> Contents]
            /\ fd' \in [Procs -> {"none", "fresh", "cut", "gone"}]
        BY <2>16, <3>2, DeliverTypes DEF CopyEnd
      <3> QED
        BY <2>16, <3>1, <3>3 DEF CopyEnd, CloseRead, TypeOK, PcOK
    <2>17. CASE Chmod(p)
      <3>1. PcOK
        BY <2>17, <2>r, <2>m DEF Chmod
      <3>2. exeMode' \in BOOLEAN
        BY <2>17 DEF Chmod, TypeOK
      <3> QED
        BY <2>17, <3>1, <3>2 DEF Chmod, TypeOK, PcOK
    <2>18. CASE RmStat(p)
      <3>1. PcOK
        BY <2>18, <2>g, <2>r, <2>l, <2>m DEF RmStat
      <3> QED
        BY <2>18, <3>1 DEF RmStat, TypeOK, PcOK
    <2>19. CASE RmOpen(p)
      <3>1. PcOK
        BY <2>19, <2>g, <2>r, <2>l, <2>m DEF RmOpen
      <3> QED
        BY <2>19, <3>1 DEF RmOpen, TypeOK, PcOK, Entries
    <2>20. CASE RmUnlink(p)
      BY <2>20, FilesThereAre DEF RmUnlink, TypeOK, Contents, Lose, Entries
    <2>21. CASE RmFails(p)
      <3>1. PcOK
        BY <2>21, <2>r, <2>m DEF RmFails
      <3> QED
        BY <2>21, <3>1 DEF RmFails, TypeOK, PcOK
    <2>22. CASE RmDir(p)
      <3>1. PcOK
        BY <2>22, <2>r, <2>m DEF RmDir
      <3> QED
        BY <2>22, <3>1 DEF RmDir, TypeOK, PcOK
    <2> QED
      BY <1>f, <2>1, <2>2, <2>3, <2>4, <2>5, <2>6, <2>7, <2>8, <2>9, <2>10, <2>11, <2>12,
         <2>13, <2>14, <2>15, <2>16, <2>17, <2>18, <2>19, <2>20, <2>21, <2>22 DEF Step
  <1> QED
    BY <1>a, <1>b, <1>c, <1>d, <1>e, <1>f DEF Next

\* Every variable keeps its type, whatever fails and whoever runs what.
THEOREM TypeCorrect == Spec => []TypeOK
  <1> QED
    BY TypeInit, TypeStep, PTL DEF Spec
-----------------------------------------------------------------------------
(* One upgrade or cleanup at a time *)

\* Where the directory steps lead.
LEMMA DirectorySteps ==
    /\ \A d \in DirPcs : MkdirPc(d) \in {"mkdir_home", "mkdir_tmp", "mkdir_zsh"}
    /\ \A c \in AllCommands : DirOf(c) \in DirPcs
  BY DEF DirPcs, MkdirPc, DirOf

\* A process changes nothing of what another one knows and does.
LEMMA StepIsOwn ==
    ASSUME TypeOK, NEW p \in Procs, NEW q \in Procs, p # q, Start(q) \/ Step(q) \/ Kill(q)
    PROVE  /\ pc'[p] = pc[p] /\ ret'[p] = ret[p] /\ cmd'[p] = cmd[p]
           /\ rel'[p] = rel[p] /\ self'[p] = self[p] /\ from'[p] = from[p]
  <1> USE DEF TypeOK, disk, local, Goto, Return
  <1>1. CASE Start(q)
    BY <1>1 DEF Start
  <1>2. CASE Kill(q)
    BY <1>2 DEF Kill, CloseRead
  <1>3. CASE Step(q)
    <2>1. CASE StatDir(q) \/ MakeDir(q)
      BY <2>1 DEF StatDir, MakeDir
    <2>2. CASE FetchOpens(q)
      BY <2>2 DEF FetchOpens
    <2>3. CASE Receive(q) \/ FetchEnds(q) \/ FetchFails(q)
      BY <2>3 DEF Receive, FetchEnds, FetchFails
    <2>4. CASE ReadJson(q) \/ ReadLatest(q) \/ LinkCompletion(q)
      BY <2>4 DEF ReadJson, ReadLatest, LinkCompletion
    <2>5. CASE UnpackOpen(q) \/ UnpackMake(q) \/ UnpackEnd(q)
      BY <2>5 DEF UnpackOpen, UnpackMake, UnpackEnd, CloseRead
    <2>6. CASE SelfPath(q) \/ SelfUnlink(q)
      BY <2>6 DEF SelfPath, SelfUnlink
    <2>7. CASE CopyOpen(q) \/ CopyEnd(q) \/ Chmod(q)
      BY <2>7 DEF CopyOpen, CopyEnd, Chmod, CloseRead
    <2>8. CASE RmStat(q) \/ RmOpen(q) \/ RmUnlink(q) \/ RmFails(q) \/ RmDir(q)
      BY <2>8 DEF RmStat, RmOpen, RmUnlink, RmFails, RmDir
    <2> QED
      BY <1>3, <2>1, <2>2, <2>3, <2>4, <2>5, <2>6, <2>7, <2>8 DEF Step
  <1> QED
    BY <1>1, <1>2, <1>3

\* A step goes on with the same command, at a place of that command's code.
LEMMA StepStaysInPlace ==
    ASSUME TypeOK, Places, NEW q \in Procs, Step(q)
    PROVE  /\ cmd' = cmd /\ self' = self
           /\ Running(q)
           /\ pc'[q] \in UpgradePcs => cmd[q] = "upgrade-self"
           /\ Running(q)' => (pc'[q] \in CleanupPcs <=> cmd[q] = "cleanup")
  <1>1. /\ pc[q] \in UpgradePcs => cmd[q] = "upgrade-self"
        /\ Running(q) => (pc[q] \in CleanupPcs <=> cmd[q] = "cleanup")
    BY DEF Places
  <1> USE <1>1 DEF TypeOK, disk, local, Goto, Return, Running, UpgradePcs, UnpackPcs,
                   ReplacePcs, Replacing, CleanupPcs, DirPcs, OpenPcs, ReceivePcs
  <1>2. CASE StatDir(q)
    BY <1>2, DirectorySteps DEF StatDir
  <1>3. CASE MakeDir(q)
    BY <1>3, DirectorySteps DEF MakeDir
  <1>4. CASE FetchOpens(q)
    BY <1>4 DEF FetchOpens
  <1>5. CASE Receive(q) \/ FetchEnds(q) \/ FetchFails(q)
    BY <1>5 DEF Receive, FetchEnds, FetchFails
  <1>6. CASE ReadJson(q) \/ ReadLatest(q) \/ LinkCompletion(q)
    BY <1>6 DEF ReadJson, ReadLatest, LinkCompletion
  <1>7. CASE UnpackOpen(q) \/ UnpackMake(q) \/ UnpackEnd(q)
    BY <1>7 DEF UnpackOpen, UnpackMake, UnpackEnd
  <1>8. CASE SelfPath(q) \/ SelfUnlink(q)
    BY <1>8 DEF SelfPath, SelfUnlink
  <1>9. CASE CopyOpen(q) \/ CopyEnd(q) \/ Chmod(q)
    BY <1>9 DEF CopyOpen, CopyEnd, Chmod
  <1>10. CASE RmStat(q) \/ RmOpen(q) \/ RmUnlink(q) \/ RmFails(q) \/ RmDir(q)
    BY <1>10 DEF RmStat, RmOpen, RmUnlink, RmFails, RmDir
  <1> QED
    BY <1>2, <1>3, <1>4, <1>5, <1>6, <1>7, <1>8, <1>9, <1>10 DEF Step

\* What neither upgrades nor cleans up writes its own JSON or completion file and the link
\* only, and cuts only those who write that file.
LEMMA LightStep ==
    ASSUME TypeOK, Places, NEW q \in Procs, Step(q), cmd[q] \notin Heavy
    PROVE  /\ exeRel' = exeRel /\ exeMode' = exeMode
           /\ \A f \in Files \ {Json(cmd[q]), Link} : content'[f] = content[f]
           /\ \A p \in Procs \ {q} : Target(p) # Json(cmd[q]) => fd'[p] = fd[p]
  <1>1. pc[q] \notin UpgradePcs \cup CleanupPcs /\ pc[q] # "idle"
    BY StepStaysInPlace DEF Places, Heavy, Running
  <1>2. Target(q) = Json(cmd[q])
    BY <1>1 DEF Target, UpgradePcs, UnpackPcs, Replacing
  <1>3. \/ StatDir(q) \/ MakeDir(q) \/ FetchOpens(q) \/ Receive(q) \/ FetchEnds(q)
        \/ FetchFails(q) \/ ReadJson(q) \/ ReadLatest(q) \/ LinkCompletion(q)
    BY <1>1 DEF Step, UpgradePcs, CleanupPcs, UnpackPcs, ReplacePcs, Replacing, UnpackOpen,
                UnpackMake, UnpackEnd, SelfPath, SelfUnlink, CopyOpen, CopyEnd, Chmod, RmStat,
                RmOpen, RmUnlink, RmFails, RmDir
  <1> USE DEF TypeOK, disk
  <1>4. CASE StatDir(q) \/ MakeDir(q) \/ ReadJson(q) \/ ReadLatest(q)
    BY <1>4 DEF StatDir, MakeDir, ReadJson, ReadLatest
  <1>5. CASE LinkCompletion(q)
    BY <1>5 DEF LinkCompletion
  <1>6. CASE FetchOpens(q)
    BY <1>6, <1>2 DEF FetchOpens, Cut
  <1>7. CASE Receive(q)
    BY <1>7, <1>2 DEF Receive
  <1>8. CASE FetchEnds(q)
    <2>1. CASE Close(q)
      BY <1>8, <2>1 DEF FetchEnds, Close
    <2>2. CASE ~Close(q)
      <3>1. PICK c \in Contents : Deliver(q, c)
        BY <1>8, <2>2 DEF FetchEnds, Contents
      <3> QED
        BY <1>8, <1>2, <3>1 DEF FetchEnds, Deliver
    <2> QED
      BY <2>1, <2>2
  <1>9. CASE FetchFails(q)
    BY <1>9 DEF FetchFails, Close
  <1> QED
    BY <1>3, <1>4, <1>5, <1>6, <1>7, <1>8, <1>9

\* A process that is started begins with its command's code.
LEMMA StartsInPlace ==
    ASSUME TypeOK, NEW q \in Procs, Start(q)
    PROVE  /\ pc[q] = "idle"
           /\ pc'[q] = IF cmd'[q] = "cleanup" THEN "rm_stat" ELSE "home"
           /\ Exclusive /\ cmd'[q] \in Heavy =>
                  \A r \in Procs : Running(r) => cmd[r] \notin Heavy
  BY ConstantsAssumption DEF Start, Heavy, TypeOK

\* Every step of a process leaves all of them at places of their own code.
LEMMA PlacesStep ==
    ASSUME TypeOK, Places, NEW q \in Procs, Start(q) \/ Step(q) \/ Kill(q)
    PROVE  Places'
  <1>1. \A p \in Procs \ {q} : pc'[p] = pc[p] /\ cmd'[p] = cmd[p]
    BY StepIsOwn
  <1>2. CASE Step(q)
    <2>1. Running(q) /\ cmd' = cmd
      BY <1>2, StepStaysInPlace
    <2> QED
      BY <1>1, <1>2, <2>1, StepStaysInPlace DEF Places, Running
  <1>3. CASE Kill(q)
    <2>1. pc'[q] = "idle" /\ cmd' = cmd
      BY <1>3 DEF Kill, Return, local, TypeOK
    <2> QED
      BY <1>1, <2>1 DEF Places, Running, UpgradePcs, UnpackPcs, ReplacePcs, Replacing
  <1>4. CASE Start(q)
    BY <1>1, <1>4, StartsInPlace DEF Places, Running, CleanupPcs, UpgradePcs, UnpackPcs,
                                     ReplacePcs, Replacing
  <1> QED
    BY <1>2, <1>3, <1>4

\* The users' discipline survives every step of a process.
LEMMA OneAtATimeStep ==
    ASSUME TypeOK, Exclusive, Places, OneAtATime, NEW q \in Procs,
           Start(q) \/ Step(q) \/ Kill(q)
    PROVE  OneAtATime'
  <1>1. \A p \in Procs \ {q} : pc'[p] = pc[p] /\ cmd'[p] = cmd[p]
    BY StepIsOwn
  <1>2. CASE Step(q)
    <2>1. Running(q) /\ cmd' = cmd
      BY <1>2, StepStaysInPlace
    <2> QED
      BY <1>1, <2>1 DEF OneAtATime, Running
  <1>3. CASE Kill(q)
    <2>1. pc'[q] = "idle" /\ cmd' = cmd
      BY <1>3 DEF Kill, Return, local, TypeOK
    <2> QED
      BY <1>1, <2>1 DEF OneAtATime, Running
  <1>4. CASE Start(q)
    BY <1>1, <1>4, StartsInPlace DEF OneAtATime, Running
  <1> QED
    BY <1>2, <1>3, <1>4

\* What an upgrade has made sure of survives the steps of others.
LEMMA ProgressByOthers ==
    ASSUME TypeOK, Exclusive, UpgradeInv, NEW p \in Procs, NEW q \in Procs, p # q,
           Start(q) \/ Step(q) \/ Kill(q)
    PROVE  Progress(p)'
  <1>1. /\ pc'[p] = pc[p] /\ cmd'[p] = cmd[p] /\ rel'[p] = rel[p] /\ self'[p] = self[p]
        /\ from'[p] = from[p]
    BY StepIsOwn
  <1>2. rel[p] \in Releases /\ cmd[q] \in AllCommands
    BY DEF TypeOK
  <1>3. CASE ~(Running(p) /\ cmd[p] = "upgrade-self")
    <2>1. pc[p] \notin UpgradePcs
      BY <1>3 DEF UpgradeInv, Places, Running, UpgradePcs, UnpackPcs, ReplacePcs, Replacing
    <2> QED
      BY <1>1, <1>3, <2>1 DEF Progress, Running, UpgradePcs, UnpackPcs, ReplacePcs, Replacing
  <1>4. CASE Running(p) /\ cmd[p] = "upgrade-self"
    <2>1. Step(q) => Running(q) /\ cmd[q] \notin Heavy
      BY <1>4, StepStaysInPlace DEF UpgradeInv, OneAtATime, Heavy
    <2>2. /\ exeRel' = exeRel
          /\ content'[Tarball(rel[p])] = content[Tarball(rel[p])]
          /\ content'[Unpacked(rel[p])] = content[Unpacked(rel[p])]
          /\ content'[Exe] = content[Exe]
      <3>1. CASE Start(q) \/ Kill(q)
        BY <3>1 DEF Start, Kill, disk
      <3>2. CASE Step(q)
        BY <3>2, <1>2, <2>1, LightStep, FileNames, FilesThereAre DEF UpgradeInv
      <3> QED
        BY <3>1, <3>2
    <2>3. pc[p] \in {"tar_recv", "unpack_end", "copy"} => fd'[p] = fd[p]
      <3>1. CASE Start(q) \/ Kill(q)
        BY <3>1 DEF Start, Kill, TypeOK
      <3>2. CASE Step(q)
        <4>1. ASSUME pc[p] \in {"tar_recv", "unpack_end", "copy"}
              PROVE  Target(p) \in {Tarball(rel[p]), Unpacked(rel[p]), Exe}
          BY <4>1 DEF Target, Replacing
        <4> QED
          BY <3>2, <4>1, <1>2, <2>1, LightStep, FileNames DEF UpgradeInv
      <3> QED
        BY <3>1, <3>2
    <2>4. Progress(p)
      BY DEF UpgradeInv
    <2>5. /\ Running(p)' = Running(p) /\ Newer(rel[p], self[p])' = Newer(rel[p], self[p])
          /\ OtherArchive(p)' = OtherArchive(p)
      BY <1>1, <2>2 DEF Running, Newer, OtherArchive
    <2> HIDE DEF Newer
    <2> QED
      BY <1>1, <2>2, <2>3, <2>4, <2>5 DEF Progress, UnpackPcs, ReplacePcs
  <1> QED
    BY <1>3, <1>4

\* At every place an upgrade makes sure of what its Progress says.
LEMMA ProgressByItself ==
    ASSUME TypeOK, "flush" \notin Faults, UpgradeInv, NEW q \in Procs,
           Start(q) \/ Step(q) \/ Kill(q)
    PROVE  Progress(q)'
  <1>1. Progress(q) /\ Places
    BY DEF UpgradeInv
  <1>2. ~Fault("flush")
    BY DEF Fault
  <1> USE DEF Running, UpgradePcs, UnpackPcs, ReplacePcs, Replacing
  <1>3. CASE Start(q)
    <2>1. /\ pc'[q] \in {"home", "rm_stat"}
          /\ self'[q] = exeRel /\ exeRel' = exeRel
      BY <1>3 DEF Start, TypeOK, disk
    <2> QED
      BY <2>1 DEF Progress
  <1>4. CASE Kill(q)
    <2>1. pc'[q] = "idle"
      BY <1>4 DEF Kill, Return, TypeOK
    <2> QED
      BY <2>1 DEF Progress
  <1>5. CASE Step(q)
    <2> USE <1>1 DEF disk, local, Goto, Return
    <2>a. cmd' = cmd /\ self' = self
      BY <1>5, StepStaysInPlace
    <2>b. /\ cmd[q] = "upgrade-self" /\ pc[q] \notin {"idle", "copy", "chmod"} =>
                 self[q] = exeRel
          /\ pc[q] \in UpgradePcs => cmd[q] = "upgrade-self"
      BY DEF Progress, Places
    <2>c. rel[q] \in Releases
      BY DEF TypeOK
    \* The steps of all commands.
    <2>1. CASE StatDir(q)
      <3>1. pc'[q] \in {"mkdir_home", "mkdir_tmp", "mkdir_zsh", "json_open"} \cup DirPcs
        BY <2>1, DirectorySteps DEF StatDir, TypeOK
      <3> QED
        BY <2>1, <2>a, <2>b, <3>1 DEF StatDir, Progress, DirPcs
    <2>2. CASE MakeDir(q)
      <3>1. /\ pc'[q] \in {"json_open", "idle"} \cup DirPcs
            /\ pc[q] \in {"mkdir_home", "mkdir_tmp", "mkdir_zsh"}
        BY <2>2, DirectorySteps DEF MakeDir, TypeOK
      <3> QED
        BY <2>2, <2>a, <2>b, <3>1 DEF MakeDir, Progress, DirPcs
    <2>3. CASE FetchOpens(q)
      <3>1. CASE pc'[q] = "idle"
        BY <3>1 DEF Progress
      <3>2. CASE pc[q] = "json_open" /\ pc'[q] # "idle"
        <4>1. pc'[q] = "json_recv" /\ exeRel' = exeRel
          BY <2>3, <3>2 DEF FetchOpens, TypeOK
        <4> QED
          BY <4>1, <2>a, <2>b, <3>2 DEF Progress
      <3>3. CASE pc[q] = "tar_open" /\ pc'[q] # "idle"
        <4>1. /\ pc'[q] = "tar_recv" /\ exeRel' = exeRel /\ rel' = rel
              /\ fd'[q] = "fresh"
          BY <2>3, <3>3 DEF FetchOpens, TypeOK, Cut
        <4>2. Newer(rel[q], self[q])'
          BY <3>3, <4>1, <2>a DEF Progress, Newer
        <4> QED
          BY <4>1, <4>2, <2>a, <2>b, <3>3 DEF Progress
      <3> QED
        BY <2>3, <3>1, <3>2, <3>3 DEF FetchOpens, OpenPcs
    <2>4. CASE Receive(q)
      <3>1. /\ pc' = pc /\ exeRel' = exeRel /\ rel' = rel /\ fd' = fd
            /\ pc[q] \in {"json_recv", "tar_recv"}
        BY <2>4 DEF Receive, ReceivePcs
      <3>2. Newer(rel[q], self[q])' = Newer(rel[q], self[q])
        BY <3>1, <2>a DEF Newer
      <3> QED
        BY <3>1, <3>2, <2>a DEF Progress
    <2>5. CASE FetchEnds(q)
      <3>1. /\ exeRel' = exeRel /\ rel' = rel
            /\ pc[q] \in {"json_recv", "tar_recv"}
            /\ pc'[q] = IF pc[q] = "json_recv" THEN "json_read" ELSE "unpack_open"
        BY <2>5 DEF FetchEnds, ReceivePcs, TypeOK
      <3>2. CASE pc[q] = "json_recv"
        BY <3>1, <3>2, <2>a, <2>b DEF Progress
      <3>3. CASE pc[q] = "tar_recv"
        <4>1. Newer(rel[q], self[q])'
          BY <3>1, <3>3, <2>a DEF Progress, Newer
        <4> QED
          BY <3>1, <3>3, <4>1, <2>a, <2>b DEF Progress
      <3> QED
        BY <3>1, <3>2, <3>3
    <2>6. CASE FetchFails(q) \/ ReadJson(q) \/ LinkCompletion(q)
      <3>1. pc'[q] = "idle"
        BY <2>6 DEF FetchFails, ReadJson, LinkCompletion, TypeOK
      <3> QED
        BY <3>1 DEF Progress
    \* The steps of upgrade-self.
    <2>7. CASE ReadLatest(q)
      <3>1. CASE pc'[q] = "idle"
        BY <3>1 DEF Progress
      <3>2. CASE pc'[q] # "idle"
        <4>1. PICK r \in Releases :
                /\ pc'[q] = "tar_open" /\ exeRel' = exeRel /\ rel'[q] = r
                /\ Newer(r, self[q]) /\ pc[q] = "json_read" /\ cmd[q] = "upgrade-self"
          BY <2>7, <3>2 DEF ReadLatest, TypeOK
        <4>2. Newer(rel[q], self[q])'
          BY <4>1, <2>a DEF Newer
        <4> QED
          BY <4>1, <4>2, <2>a, <2>b DEF Progress
      <3> QED
        BY <3>1, <3>2
    <2>8. CASE UnpackOpen(q)
      <3>1. CASE pc'[q] = "idle"
        BY <3>1 DEF Progress
      <3>2. CASE pc'[q] # "idle"
        <4>1. /\ exeRel' = exeRel /\ rel' = rel /\ content' = content
              /\ pc[q] = "unpack_open"
              /\ \/ pc'[q] = "unpack_make" /\ from'[q] = content[Tarball(rel[q])]
                 \/ pc'[q] = "self_path" /\ content[Tarball(rel[q])] \in {"empty", "bad"}
          BY <2>8, <3>2 DEF UnpackOpen, TypeOK
        <4>2. Newer(rel[q], self[q])'
          BY <4>1, <2>a DEF Progress, Newer
        <4> QED
          BY <4>1, <4>2, <2>a, <2>b DEF Progress, OtherArchive
      <3> QED
        BY <3>1, <3>2
    <2>9. CASE UnpackMake(q)
      <3>1. CASE pc'[q] = "idle"
        BY <3>1 DEF Progress
      <3>2. CASE pc'[q] # "idle"
        <4>1. /\ pc'[q] = "unpack_end" /\ exeRel' = exeRel /\ rel' = rel
              /\ content' = [content EXCEPT ![Unpacked(rel[q])] = "partial"]
              /\ fd'[q] = "fresh" /\ from' = from /\ pc[q] = "unpack_make"
          BY <2>9, <3>2 DEF UnpackMake, TypeOK
        <4>2. content'[Tarball(rel[q])] = content[Tarball(rel[q])]
          BY <4>1, <2>c, FileNames, FilesThereAre DEF TypeOK
        <4>3. Newer(rel[q], self[q])'
          BY <4>1, <2>a DEF Progress, Newer
        <4> QED
          BY <4>1, <4>2, <4>3, <2>a, <2>b DEF Progress
      <3> QED
        BY <3>1, <3>2
    <2>10. CASE UnpackEnd(q)
      <3>1. CASE pc'[q] = "idle"
        BY <3>1 DEF Progress
      <3>2. CASE pc'[q] # "idle"
        <4>1. /\ pc'[q] = "self_path" /\ exeRel' = exeRel /\ rel' = rel
              /\ pc[q] = "unpack_end"
              /\ \E c \in {from[q], content[Tarball(rel[q])]} \cap {"good", "bad"} :
                    Deliver(q, c)
          BY <2>10, <3>2 DEF UnpackEnd, TypeOK
        <4>2. (OtherArchive(q) \/ content[Unpacked(rel[q])] = "good")'
          <5>1. Target(q) = Unpacked(rel[q]) /\ fd[q] = "fresh"
            BY <4>1 DEF Target, Progress
          <5>2. content[Tarball(rel[q])] \in {"good", "bad"}
                /\ Deliver(q, content[Tarball(rel[q])])
            BY <4>1 DEF Progress
          <5>3. content' = [content EXCEPT ![Unpacked(rel[q])] = content[Tarball(rel[q])]]
            BY <5>1, <5>2 DEF Deliver
          <5> QED
            BY <4>1, <5>2, <5>3, <2>c, FileNames, FilesThereAre DEF OtherArchive, TypeOK
        <4>3. Newer(rel[q], self[q])'
          BY <4>1, <2>a DEF Progress, Newer
        <4> QED
          BY <4>1, <4>2, <4>3, <2>a, <2>b DEF Progress
      <3> QED
        BY <3>1, <3>2
    <2>11. CASE SelfPath(q) \/ SelfUnlink(q)
      <3>1. CASE pc'[q] = "idle"
        BY <3>1 DEF Progress
      <3>2. CASE pc'[q] # "idle"
        <4>1. /\ pc'[q] \in {"self_unlink", "copy_open"} /\ exeRel' = exeRel /\ rel' = rel
              /\ content' \in {content, [content EXCEPT ![Exe] = "none"]}
              /\ pc[q] \in {"self_path", "self_unlink"}
          BY <2>11, <3>2 DEF SelfPath, SelfUnlink, TypeOK
        <4>2. (OtherArchive(q) \/ content[Unpacked(rel[q])] = "good")'
          <5>1. OtherArchive(q) \/ content[Unpacked(rel[q])] = "good"
            BY <4>1 DEF Progress
          <5> QED
            BY <4>1, <5>1, <2>c, FileNames, FilesThereAre DEF OtherArchive, TypeOK
        <4>3. Newer(rel[q], self[q])'
          BY <4>1, <2>a DEF Progress, Newer
        <4> QED
          BY <4>1, <4>2, <4>3, <2>a, <2>b DEF Progress
      <3> QED
        BY <3>1, <3>2
    <2>12. CASE CopyOpen(q)
      <3>1. CASE pc'[q] = "idle"
        BY <3>1 DEF Progress
      <3>2. CASE pc'[q] # "idle"
        <4>1. /\ pc'[q] = "copy" /\ exeRel' = rel[q] /\ rel' = rel /\ fd'[q] = "fresh"
              /\ content' = [content EXCEPT ![Exe] = "empty"] /\ pc[q] = "copy_open"
          BY <2>12, <3>2 DEF CopyOpen, TypeOK, Cut
        <4>2. content[Unpacked(rel[q])] = "good" => from'[q] = "good"
          BY <2>12, <3>2 DEF CopyOpen, TypeOK
        <4>3. (OtherArchive(q) \/ from[q] = "good")'
          <5>1. OtherArchive(q) \/ content[Unpacked(rel[q])] = "good"
            BY <4>1 DEF Progress
          <5> QED
            BY <4>1, <4>2, <5>1, <2>c, FileNames, FilesThereAre DEF OtherArchive, TypeOK
        <4> QED
          BY <4>1, <4>3 DEF Progress
      <3> QED
        BY <3>1, <3>2
    <2>13. CASE CopyEnd(q)
      <3>1. CASE pc'[q] = "idle"
        BY <3>1 DEF Progress
      <3>2. CASE pc'[q] # "idle"
        <4>1. /\ pc'[q] = "chmod" /\ exeRel' = exeRel /\ rel' = rel
              /\ Deliver(q, from[q]) /\ pc[q] = "copy"
          BY <1>2, <2>13, <3>2 DEF CopyEnd, TypeOK
        <4>2. (OtherArchive(q) \/ content[Exe] = "good")'
          <5>1. /\ Target(q) = Exe /\ fd[q] = "fresh"
                /\ OtherArchive(q) \/ from[q] = "good"
            BY <4>1 DEF Target, Progress
          <5>2. content' = [content EXCEPT ![Exe] = from[q]]
            BY <4>1, <5>1 DEF Deliver
          <5> QED
            BY <4>1, <5>1, <5>2, <2>c, FileNames, FilesThereAre DEF OtherArchive, TypeOK
        <4>3. exeRel = rel[q]
          BY <4>1 DEF Progress
        <4> QED
          BY <4>1, <4>2, <4>3 DEF Progress
      <3> QED
        BY <3>1, <3>2
    <2>14. CASE Chmod(q)
      <3>1. pc'[q] = "idle"
        BY <2>14 DEF Chmod, TypeOK
      <3> QED
        BY <3>1 DEF Progress
    \* The steps of cleanup.
    <2>15. CASE RmStat(q) \/ RmOpen(q) \/ RmUnlink(q) \/ RmFails(q) \/ RmDir(q)
      <3>1. pc'[q] \in {"idle", "rm_open", "rm"} /\ cmd[q] = "cleanup"
        BY <2>15 DEF RmStat, RmOpen, RmUnlink, RmFails, RmDir, TypeOK, Places, CleanupPcs
      <3> QED
        BY <3>1, <2>a DEF Progress
    <2> QED
      BY <1>5, <2>1, <2>2, <2>3, <2>4, <2>5, <2>6, <2>7, <2>8, <2>9, <2>10, <2>11, <2>12,
         <2>13, <2>14, <2>15 DEF Step
  <1> QED
    BY <1>3, <1>4, <1>5

\* Before anybody has used nvm2 nothing has been made sure of.
LEMMA UpgradeInit == Init => UpgradeInv
  <1> SUFFICES ASSUME Init PROVE UpgradeInv
    OBVIOUS
  <1>1. \A p \in Procs : pc[p] = "idle"
    BY DEF Init
  <1> QED
    BY <1>1 DEF UpgradeInv, Places, OneAtATime, Progress, Running, UpgradePcs, UnpackPcs,
                ReplacePcs, Replacing

\* The invariant survives every step.
LEMMA UpgradeStep ==
    ASSUME Exclusive, "flush" \notin Faults
    PROVE  TypeOK /\ UpgradeInv /\ [Next]_vars => UpgradeInv'
  <1> SUFFICES ASSUME TypeOK, UpgradeInv, [Next]_vars PROVE UpgradeInv'
    OBVIOUS
  <1>1. CASE UNCHANGED vars \/ Settle \/ Publish
    <2>1. UNCHANGED <<disk, pc, cmd, self, rel, fd, from>>
      BY <1>1 DEF vars, local, Settle, Publish
    <2>2. \A p \in Procs : Newer(rel[p], self[p])' = Newer(rel[p], self[p])
      BY <2>1 DEF Newer
    <2>3. \A p \in Procs : Progress(p)'
      BY <2>1, <2>2 DEF UpgradeInv, Progress, OtherArchive, disk, Running
    <2>4. Places' /\ OneAtATime'
      BY <2>1 DEF UpgradeInv, Places, OneAtATime, Running
    <2> QED
      BY <2>3, <2>4 DEF UpgradeInv
  <1>2. ASSUME NEW q \in Procs, Start(q) \/ Step(q) \/ Kill(q) PROVE UpgradeInv'
    <2>1. Places' /\ OneAtATime'
      BY <1>2, PlacesStep, OneAtATimeStep DEF UpgradeInv
    <2>2. \A p \in Procs : Progress(p)'
      BY <1>2, ProgressByOthers, ProgressByItself
    <2> QED
      BY <2>1, <2>2 DEF UpgradeInv
  <1> QED
    BY <1>1, <1>2 DEF Next

\* While one upgrade or cleanup runs at a time and fclose loses no bytes, what an upgrade
\* has made sure of stays so until it has used it, whatever the light commands do
\* meanwhile in the same directory (upgrade-self.c:187, 244, 262, 268).
THEOREM UpgradeInvariant ==
    ASSUME Exclusive, "flush" \notin Faults
    PROVE  Spec => []UpgradeInv
  <1>1. TypeOK /\ UpgradeInv /\ [Next]_vars => UpgradeInv'
    BY UpgradeStep
  <1> QED
    BY <1>1, UpgradeInit, TypeCorrect, PTL DEF Spec
-----------------------------------------------------------------------------
(* What that means for the executable *)

\* A step that changes something of the executable is one of an upgrade that replaces it.
LEMMA OnlyUpgradesWrite ==
    ASSUME TypeOK, UpgradeInv, NEW q \in Procs, Step(q),
           <<content[Exe], exeMode, exeRel>>' # <<content[Exe], exeMode, exeRel>>
    PROVE  SelfUnlink(q) \/ CopyOpen(q) \/ CopyEnd(q) \/ Chmod(q)
  <1> SUFFICES ASSUME ~(SelfUnlink(q) \/ CopyOpen(q) \/ CopyEnd(q) \/ Chmod(q))
               PROVE  /\ exeMode' = exeMode /\ exeRel' = exeRel
                      /\ content'[Exe] = content[Exe]
    OBVIOUS
  <1>1. rel[q] \in Releases /\ cmd[q] \in AllCommands
    BY DEF TypeOK
  <1>2. Json(cmd[q]) # Exe /\ Tarball(rel[q]) # Exe /\ Unpacked(rel[q]) # Exe /\ Link # Exe
    BY <1>1, FileNames
  <1>3. Target(q) = Exe => pc[q] \in Replacing
    BY <1>2 DEF Target
  <1> USE <1>2, FilesThereAre DEF TypeOK, disk
  <1>4. CASE StatDir(q) \/ MakeDir(q) \/ ReadJson(q) \/ ReadLatest(q) \/ UnpackOpen(q)
             \/ SelfPath(q) \/ RmStat(q) \/ RmOpen(q) \/ RmFails(q) \/ RmDir(q)
    BY <1>4 DEF StatDir, MakeDir, ReadJson, ReadLatest, UnpackOpen, SelfPath, RmStat, RmOpen,
                RmFails, RmDir
  <1>5. CASE FetchOpens(q) \/ Receive(q) \/ FetchFails(q)
    BY <1>3, <1>5 DEF FetchOpens, Receive, FetchFails, Close, OpenPcs, ReceivePcs, Replacing
  <1>6. CASE FetchEnds(q)
    BY <1>3, <1>6 DEF FetchEnds, Deliver, Close, ReceivePcs, Replacing
  <1>7. CASE LinkCompletion(q) \/ UnpackMake(q)
    BY <1>7 DEF LinkCompletion, UnpackMake
  <1>8. CASE UnpackEnd(q)
    BY <1>3, <1>8 DEF UnpackEnd, Deliver, Close, Replacing
  <1>9. CASE RmUnlink(q)
    <2>1. Exe \notin TmpFiles
      BY <1>1, FileNames
    <2> QED
      BY <1>9, <2>1 DEF RmUnlink, Entries
  <1> QED
    BY <1>4, <1>5, <1>6, <1>7, <1>8, <1>9 DEF Step

\* While it is lost nobody can start another upgrade, so that what excuses the loss stays.
NobodyHeavy == \A q \in Procs : Running(q) => cmd[q] \notin Heavy

Excuse(p) ==
    /\ cmd[p] = "upgrade-self"
    /\ \/ pc[p] \in Replacing
       \/ ~Running(p) /\ ret[p] \in {"killed", "ERROR"}
       \/ ~Running(p) /\ OtherArchive(p) /\ NobodyHeavy

LostSo == ~Runnable => \E p \in Procs : Excuse(p)

\* Once there is an excuse for the loss, no step of another process takes it away.
LEMMA ExcuseLasts ==
    ASSUME TypeOK, UpgradeInv, NEW p \in Procs, NEW q \in Procs, p # q, Step(q) \/ Kill(q),
           Excuse(p)
    PROVE  Excuse(p)'
  <1>1. pc'[p] = pc[p] /\ ret'[p] = ret[p] /\ cmd'[p] = cmd[p] /\ rel'[p] = rel[p]
    BY StepIsOwn
  <1>2. CASE pc[p] \in Replacing \/ (~Running(p) /\ ret[p] \in {"killed", "ERROR"})
    BY <1>1, <1>2 DEF Excuse, Running
  <1>3. CASE ~Running(p) /\ OtherArchive(p) /\ NobodyHeavy
    <2>1. cmd' = cmd /\ (Running(q)' => Running(q))
          /\ \A r \in Procs \ {q} : pc'[r] = pc[r]
      <3>1. CASE Step(q)
        BY <3>1, StepIsOwn, StepStaysInPlace DEF UpgradeInv
      <3>2. CASE Kill(q)
        BY <3>2, StepIsOwn DEF Kill, local
      <3> QED
        BY <3>1, <3>2
    <2>2. NobodyHeavy'
      BY <1>3, <2>1 DEF NobodyHeavy, Running
    <2>3. content'[Tarball(rel[p])] = content[Tarball(rel[p])]
      <3>1. CASE Step(q)
        <4>1. Running(q) /\ cmd[q] \notin Heavy /\ cmd[q] \in AllCommands
          BY <1>3, <3>1, StepStaysInPlace DEF UpgradeInv, NobodyHeavy, TypeOK
        <4>2. rel[p] \in Releases
          BY DEF TypeOK
        <4> QED
          BY <3>1, <4>1, <4>2, LightStep, FileNames, FilesThereAre DEF UpgradeInv
      <3>2. CASE Kill(q)
        BY <3>2 DEF Kill, disk
      <3> QED
        BY <3>1, <3>2
    <2> QED
      BY <1>1, <1>3, <2>2, <2>3 DEF Excuse, Running, OtherArchive
  <1> QED
    BY <1>2, <1>3 DEF Excuse

\* There is an executable that can be run except while an upgrade replaces it, after one
\* that died or failed over that, and after one that was sent an archive of nothing or of
\* something else (upgrade-self.c:232-277): nothing any other command does takes it away,
\* and a download that was cut short does not either once a byte of it has come.
THEOREM ExecutableIsThere ==
    ASSUME Exclusive, "flush" \notin Faults
    PROVE  Spec => []LostOnlyToUpgrades
  <1>1. Init => LostSo
    BY FilesThereAre DEF Init, LostSo, Runnable
  <1>2. TypeOK /\ UpgradeInv /\ LostSo /\ [Next]_vars => LostSo'
    <2> SUFFICES ASSUME TypeOK, UpgradeInv, LostSo, [Next]_vars, ~Runnable'
                 PROVE  \E p \in Procs : Excuse(p)'
      BY DEF LostSo
    <2>1. CASE UNCHANGED vars \/ Settle \/ Publish
      <3>1. UNCHANGED <<content, exeMode, pc, cmd, ret, rel>>
        BY <2>1 DEF vars, local, disk, Settle, Publish
      <3>2. PICK p \in Procs : Excuse(p)
        BY <3>1 DEF LostSo, Runnable
      <3>3. Excuse(p)'
        BY <3>1, <3>2 DEF Excuse, NobodyHeavy, OtherArchive, Running
      <3> QED
        BY <3>3
    <2>2. ASSUME NEW q \in Procs, Start(q) PROVE FALSE
      BY <2>2 DEF Start, Runnable, disk
    <2>3. ASSUME NEW q \in Procs, Kill(q) PROVE \E p \in Procs : Excuse(p)'
      <3>1. PICK p \in Procs : Excuse(p)
        BY <2>3 DEF LostSo, Runnable, Kill, disk
      <3>2. CASE p # q
        BY <2>3, <3>1, <3>2, ExcuseLasts
      <3>3. CASE p = q
        BY <2>3, <3>1, <3>3 DEF Excuse, NobodyHeavy, Kill, Return, Running, Replacing, local,
                                TypeOK
      <3> QED
        BY <3>2, <3>3
    <2>4. ASSUME NEW q \in Procs, Step(q) PROVE \E p \in Procs : Excuse(p)'
      <3>1. ASSUME pc[q] \in {"self_unlink", "copy_open", "copy", "chmod"},
                   pc[q] = "self_unlink" => content'[Exe] # content[Exe]
            PROVE  Excuse(q)'
        <4>1. cmd'[q] = "upgrade-self"
          BY <2>4, <3>1, StepStaysInPlace DEF UpgradeInv, Places, UpgradePcs, ReplacePcs,
                                              Replacing
        <4> USE <2>4, <3>1 DEF TypeOK, Goto, Return, Replacing, Running, Excuse
        <4>2. SelfUnlink(q) \/ CopyOpen(q) \/ CopyEnd(q) \/ Chmod(q)
          BY DEF Step, StatDir, MakeDir, FetchOpens, Receive, FetchEnds, FetchFails, ReadJson,
                 ReadLatest, LinkCompletion, UnpackOpen, UnpackMake, UnpackEnd, SelfPath,
                 RmStat, RmOpen, RmUnlink, RmFails, RmDir, DirPcs, OpenPcs, ReceivePcs, MkdirPc
        <4>3. CASE SelfUnlink(q)
          BY <4>1, <4>3 DEF SelfUnlink
        <4>4. CASE CopyOpen(q) \/ CopyEnd(q)
          BY <4>1, <4>4 DEF CopyOpen, CopyEnd
        <4>5. CASE Chmod(q)
          <5>1. pc'[q] = "idle" /\ content' = content /\ rel' = rel
            BY <4>5 DEF Chmod
          <5>2. CASE ret'[q] = "ERROR"
            BY <4>1, <5>1, <5>2
          <5>3. CASE ret'[q] # "ERROR"
            <6>1. OtherArchive(q) \/ content[Exe] = "good"
              BY <4>5 DEF Chmod, UpgradeInv, Progress
            <6>2. OtherArchive(q)'
              BY <4>5, <5>1, <5>3, <6>1 DEF Chmod, Runnable, OtherArchive
            <6>3. NobodyHeavy'
              BY <4>1, <5>1, StepIsOwn, StepStaysInPlace
              DEF NobodyHeavy, UpgradeInv, OneAtATime, Heavy
            <6> QED
              BY <4>1, <5>1, <6>2, <6>3
          <5> QED
            BY <5>2, <5>3
        <4> QED
          BY <4>2, <4>3, <4>4, <4>5
      <3>2. CASE Runnable
        <4>1. SelfUnlink(q) \/ CopyOpen(q) \/ CopyEnd(q) \/ Chmod(q)
          BY <2>4, <3>2, OnlyUpgradesWrite DEF Runnable
        <4>2. pc[q] \in {"self_unlink", "copy_open", "copy", "chmod"}
          BY <4>1 DEF SelfUnlink, CopyOpen, CopyEnd, Chmod
        <4>3. ASSUME pc[q] = "self_unlink" PROVE content'[Exe] # content[Exe]
          <5>1. SelfUnlink(q)
            BY <4>1, <4>3 DEF CopyOpen, CopyEnd, Chmod
          <5>2. ~UNCHANGED <<content, fd, exeMode, linked>>
            BY <3>2 DEF Runnable
          <5>3. content[Exe] # "none" /\ content' = [content EXCEPT ![Exe] = "none"]
            BY <5>1, <5>2 DEF SelfUnlink
          <5> QED
            BY <5>3, FilesThereAre DEF TypeOK
        <4> QED
          BY <3>1, <4>2, <4>3
      <3>3. CASE ~Runnable
        <4>1. PICK p \in Procs : Excuse(p)
          BY <3>3 DEF LostSo
        <4>2. CASE p # q
          BY <2>4, <4>1, <4>2, ExcuseLasts
        <4>3. CASE p = q
          <5>1. pc[q] \in Replacing
            BY <2>4, <4>1, <4>3, StepStaysInPlace DEF UpgradeInv, Excuse
          <5> QED
            BY <3>1, <5>1 DEF Replacing
        <4> QED
          BY <4>2, <4>3
      <3> QED
        BY <3>2, <3>3
    <2> QED
      BY <2>1, <2>2, <2>3, <2>4 DEF Next
  <1>3. LostSo => LostOnlyToUpgrades
    BY DEF LostSo, Excuse, LostOnlyToUpgrades
  <1> QED
    BY <1>1, <1>2, <1>3, TypeCorrect, UpgradeInvariant, PTL DEF Spec

\* An upgrade that ends with success leaves a whole executable of the release it has
\* fetched, with the mode to run it, unless what it was sent is an archive of nothing or of
\* something else (upgrade-self.c:232-283).
THEOREM SuccessMeansUpgraded ==
    ASSUME Exclusive, "flush" \notin Faults
    PROVE  Spec => SuccessIsUpgrade
  <1>1. ASSUME TypeOK, UpgradeInv, [Next]_vars, NEW p \in Procs,
               pc[p] = "chmod", ~Running(p)', ret'[p] = "OK"
        PROVE  OtherArchive(p) \/ (Runnable' /\ exeRel' = rel[p])
    <2>1. PICK q \in Procs : Start(q) \/ Step(q) \/ Kill(q)
      BY <1>1 DEF Next, vars, Settle, Publish, Running
    <2>2. q = p
      BY <1>1, <2>1, StepIsOwn DEF Running
    <2>3. ~Start(p) /\ ~Kill(p)
      BY <1>1 DEF Start, Kill, Return, TypeOK
    <2>4. Chmod(p)
      BY <1>1, <2>1, <2>2, <2>3
      DEF Step, StatDir, MakeDir, FetchOpens, Receive, FetchEnds, FetchFails, ReadJson,
          ReadLatest, LinkCompletion, UnpackOpen, UnpackMake, UnpackEnd, SelfPath, SelfUnlink,
          CopyOpen, CopyEnd, RmStat, RmOpen, RmUnlink, RmFails, RmDir, DirPcs, OpenPcs,
          ReceivePcs, MkdirPc
    <2>5. exeMode' = TRUE /\ content' = content /\ exeRel' = exeRel
      BY <1>1, <2>4 DEF Chmod, Return, TypeOK
    <2> QED
      BY <1>1, <2>5 DEF UpgradeInv, Progress, Runnable
  <1>2. TypeOK /\ UpgradeInv /\ [Next]_vars =>
          [\A p \in Procs : pc[p] = "chmod" /\ ~Running(p)' /\ ret'[p] = "OK" =>
               OtherArchive(p) \/ (Runnable' /\ exeRel' = rel[p])]_vars
    BY <1>1
  <1> QED
    BY <1>2, TypeCorrect, UpgradeInvariant, PTL DEF Spec, SuccessIsUpgrade

\* The code's comparison, one part after the other, is the order of releases.
LEMMA NewerIsLater ==
    ASSUME NEW r \in Releases, NEW s \in Releases, Newer(r, s)
    PROVE  Precedes(s, r)
  <1>1. r \in Nat \X Nat \X Nat /\ s \in Nat \X Nat \X Nat
    BY ConstantsAssumption
  <1>2. CASE r[1] > s[1]
    <2>1. s[1] < r[1] /\ \A j \in 1 .. 1 - 1 : s[j] = r[j]
      BY <1>1, <1>2
    <2> QED
      BY <2>1 DEF Precedes
  <1>3. CASE r[1] = s[1] /\ r[2] > s[2]
    <2>1. s[2] < r[2] /\ \A j \in 1 .. 2 - 1 : s[j] = r[j]
      BY <1>1, <1>3
    <2> QED
      BY <2>1 DEF Precedes
  <1>4. CASE r[1] = s[1] /\ r[2] = s[2] /\ r[3] > s[3]
    <2>1. s[3] < r[3] /\ \A j \in 1 .. 3 - 1 : s[j] = r[j]
      BY <1>1, <1>4
    <2> QED
      BY <2>1 DEF Precedes
  <1> QED
    BY <1>2, <1>3, <1>4 DEF Newer

\* The executable is replaced by later releases only: the one an upgrade compared with is
\* still the one it replaces, however long it took to fetch and unpack
\* (upgrade-self.c:182-200).
THEOREM OnlyUpwards ==
    ASSUME Exclusive, "flush" \notin Faults
    PROVE  Spec => NeverDowngrades
  <1>1. ASSUME TypeOK, UpgradeInv, [Next]_vars, exeRel' # exeRel
        PROVE  Precedes(exeRel, exeRel')
    <2>1. PICK q \in Procs : Step(q)
      BY <1>1 DEF Next, vars, disk, Start, Kill, Settle, Publish
    <2>2. CopyOpen(q)
      BY <1>1, <2>1, OnlyUpgradesWrite DEF SelfUnlink, CopyEnd, Chmod
    <2>3. exeRel' = rel[q] /\ rel[q] \in Releases /\ exeRel \in Releases
      BY <1>1, <2>2 DEF CopyOpen, TypeOK
    <2>4. self[q] = exeRel /\ Newer(rel[q], self[q])
      <3>1. cmd[q] = "upgrade-self" /\ pc[q] = "copy_open"
        BY <1>1, <2>2 DEF CopyOpen, UpgradeInv, Places, UpgradePcs, ReplacePcs
      <3> QED
        BY <1>1, <3>1 DEF UpgradeInv, Progress, Running, UpgradePcs, ReplacePcs
    <2> QED
      BY <2>3, <2>4, NewerIsLater
  <1>2. TypeOK /\ UpgradeInv /\ [Next]_vars =>
          [exeRel' # exeRel => Precedes(exeRel, exeRel')]_exeRel
    BY <1>1
  <1> QED
    BY <1>2, TypeCorrect, UpgradeInvariant, PTL DEF Spec, NeverDowngrades
-----------------------------------------------------------------------------
(* A command that has ~/.nvm2 for itself: no discipline and no luck assumed *)

\* What a command that nothing has disturbed has made sure of.
Alone(p) ==
    /\ calm
    /\ \A q \in Procs \ {p} : ~Running(q)
    /\ \A d \in DirPcs : pc[p] = MkdirPc(d) => d \notin topDirs
    /\ \A d \in DirPcs \ {"home"} : pc[p] \in {d, MkdirPc(d)} => d = DirOf(cmd[p])
    /\ pc[p] \in {"json_open", "json_recv", "json_read"} \cup UpgradePcs =>
           DirOf(cmd[p]) \in topDirs
    /\ pc[p] \in {"json_recv", "tar_recv", "unpack_end", "copy"} => fd[p] = "fresh"
    /\ pc[p] = "json_read" => content[Json(cmd[p])] = "good"
    /\ pc[p] \in UnpackPcs => content[Tarball(rel[p])] = "good"
    /\ pc[p] \in {"unpack_make", "unpack_end", "copy"} => from[p] = "good"
    /\ pc[p] \in ReplacePcs => content[Unpacked(rel[p])] = "good"
    /\ pc[p] \notin Replacing => p \in linked
    /\ pc[p] \notin {"copy_open", "copy"} => content[Exe] # "none"
    /\ pc[p] \in {"rm_open", "rm"} => "tmp" \in topDirs
    /\ pc[p] = "rm" => todo[p] = Entries

AloneInv == \A p \in Procs : spared[p] /\ Running(p) => Alone(p)

\* The steps of a command that is alone: it goes on with what it has made sure of, or it
\* ends as a command that is alone ends.
LEMMA AloneGoesOn ==
    ASSUME TypeOK, Places, NEW p \in Procs, Alone(p), Running(p), Step(p)
    PROVE  /\ Running(p)' => Alone(p)'
           /\ ~Running(p)' =>
                  /\ cmd[p] = "integrate" => content'[Json("integrate")] = "good"
                  /\ \/ cmd[p] = "integrate"
                     \/ ret'[p] = "OK"
                     \/ /\ cmd[p] = "upgrade-self" /\ pc[p] = "json_read"
                        /\ named \notin Legible \ {NoNumbers}
  <1>a. /\ calm /\ \A k \in FaultKinds : ~Fault(k)
        /\ cmd' = cmd /\ pc[p] # "idle"
        /\ cmd[p] \in AllCommands /\ rel[p] \in Releases /\ Target(p) \in Files
        /\ pc[p] \in UpgradePcs => cmd[p] = "upgrade-self"
        /\ pc[p] \in CleanupPcs <=> cmd[p] = "cleanup"
    BY StepStaysInPlace, TargetIsFile DEF Alone, Fault, Places, Running, TypeOK
  <1>b. /\ \A q \in Procs \ {p} : pc'[q] = pc[q]
        /\ \A q \in Procs \ {p} : pc[q] = "idle"
    BY StepIsOwn DEF Alone, Running
  <1>c. /\ \A r \in Releases : /\ Unpacked(r) \in Files /\ Tarball(r) \in Files
                               /\ Tarball(r) # Unpacked(r)
                               /\ Exe \notin {Tarball(r), Unpacked(r)}
        /\ \A c \in AllCommands : Json(c) \in Files /\ Json(c) \notin {Exe, Link}
        /\ Exe \in Files /\ Link \in Files /\ Link # Exe /\ Exe \notin TmpFiles
    <2>1. rel[p] \in Releases
      BY <1>a
    <2> QED
      BY <2>1, FileNames, FilesThereAre
  <1>d. /\ \A d \in DirPcs : MkdirPc(d) \in {"mkdir_home", "mkdir_tmp", "mkdir_zsh"}
        /\ \A d, e \in DirPcs : MkdirPc(d) = MkdirPc(e) => d = e
        /\ \A c \in AllCommands : DirOf(c) \in DirPcs \ {"home"}
        /\ DirOf("upgrade-self") = "tmp"
    BY DEF DirPcs, MkdirPc, DirOf
  <1> USE <1>a, <1>b
      DEF disk, local, Goto, Return, Running, FaultKinds, UpgradePcs, UnpackPcs, ReplacePcs,
          Replacing, CleanupPcs, TypeOK
  <1>1. CASE StatDir(p)
    <2>1. /\ content' = content /\ linked' = linked /\ topDirs' = topDirs /\ calm' = calm
          /\ pc[p] \in DirPcs
          /\ pc[p] # "home" => pc[p] = DirOf(cmd[p])
      BY <1>1 DEF StatDir, Alone
    <2>2. CASE pc[p] \notin topDirs
      <3>1. pc'[p] = MkdirPc(pc[p])
        BY <1>1, <2>2 DEF StatDir
      <3> QED
        BY <1>d, <2>1, <2>2, <3>1 DEF Alone, DirPcs
    <2>3. CASE pc[p] \in topDirs /\ pc[p] = "home"
      <3>1. pc'[p] = DirOf(cmd[p])
        BY <1>1, <2>3 DEF StatDir
      <3> QED
        BY <1>d, <2>1, <2>3, <3>1 DEF Alone, DirPcs
    <2>4. CASE pc[p] \in topDirs /\ pc[p] # "home"
      <3>1. pc'[p] = "json_open"
        BY <1>1, <2>4 DEF StatDir
      <3> QED
        BY <1>d, <2>1, <2>4, <3>1 DEF Alone, DirPcs
    <2> QED
      BY <2>2, <2>3, <2>4
  <1>2. CASE MakeDir(p)
    <2>1. PICK d \in DirPcs :
            /\ pc[p] = MkdirPc(d) /\ d \notin topDirs
            /\ content' = content /\ linked' = linked /\ calm' = calm
            /\ topDirs' = topDirs \cup {d}
            /\ pc'[p] = IF d = "home" THEN DirOf(cmd[p]) ELSE "json_open"
            /\ d # "home" => d = DirOf(cmd[p])
      BY <1>2 DEF MakeDir, Alone
    <2>2. CASE d = "home"
      BY <1>d, <2>1, <2>2 DEF Alone, DirPcs
    <2>3. CASE d # "home"
      BY <1>d, <2>1, <2>3 DEF Alone, DirPcs
    <2> QED
      BY <2>2, <2>3
  <1>3. CASE FetchOpens(p)
    <2>1. DirOf(cmd[p]) \in topDirs /\ pc[p] \in OpenPcs
      BY <1>3 DEF FetchOpens, Alone, OpenPcs
    <2>2. /\ content' = [content EXCEPT ![Target(p)] = "empty"]
          /\ linked' = linked /\ calm' = calm /\ topDirs' = topDirs
          /\ fd'[p] = "fresh"
          /\ pc'[p] = IF pc[p] = "json_open" THEN "json_recv" ELSE "tar_recv"
      BY <1>3, <2>1 DEF FetchOpens, Cut
    <2>3. Target(p) # Exe
      BY <1>c, <2>1 DEF Target, OpenPcs
    <2> QED
      BY <1>c, <1>d, <2>1, <2>2, <2>3 DEF Alone, OpenPcs, DirPcs
  <1>4. CASE Receive(p)
    <2>1. /\ pc[p] \in ReceivePcs /\ pc' = pc /\ fd' = fd /\ linked' = linked
          /\ topDirs' = topDirs /\ calm' = calm
          /\ content' = [content EXCEPT ![Target(p)] = "partial"]
      BY <1>4 DEF Receive
    <2>2. Target(p) # Exe
      BY <1>c, <2>1 DEF Target, ReceivePcs
    <2> QED
      BY <1>c, <1>d, <2>1, <2>2 DEF Alone, ReceivePcs, DirPcs
  <1>5. CASE FetchEnds(p)
    <2>1. /\ pc[p] \in ReceivePcs /\ fd[p] = "fresh"
          /\ pc'[p] = IF pc[p] = "json_recv" THEN "json_read" ELSE "unpack_open"
          /\ linked' = linked /\ topDirs' = topDirs /\ calm' = calm /\ rel' = rel
          /\ Deliver(p, "good")
      BY <1>5 DEF FetchEnds, ReceivePcs, Alone
    <2>2. content' = [content EXCEPT ![Target(p)] = "good"]
      BY <2>1 DEF Deliver
    <2>3. /\ pc[p] = "json_recv" => Target(p) = Json(cmd[p])
          /\ pc[p] = "tar_recv" => Target(p) = Tarball(rel[p])
          /\ Target(p) # Exe
      BY <1>c, <2>1 DEF Target, ReceivePcs
    <2> QED
      BY <1>c, <1>d, <2>1, <2>2, <2>3 DEF Alone, ReceivePcs, DirPcs
  <1>6. CASE FetchFails(p)
    BY <1>6 DEF FetchFails
  <1>7. CASE ReadJson(p)
    BY <1>7 DEF ReadJson, Alone
  <1>8. CASE LinkCompletion(p)
    BY <1>8, <1>c DEF LinkCompletion, Alone
  <1>9. CASE ReadLatest(p)
    <2>1. CASE pc'[p] = "idle"
      <3>1. content[Json(cmd[p])] = "good" /\ cmd[p] = "upgrade-self" /\ pc[p] = "json_read"
        BY <1>9 DEF ReadLatest, Alone
      <3>2. ret'[p] = "OK" \/ named \notin Legible \/ named = NoNumbers
        BY <1>9, <2>1, <3>1 DEF ReadLatest
      <3> QED
        BY <2>1, <3>1, <3>2
    <2>2. CASE pc'[p] # "idle"
      <3>1. /\ pc'[p] = "tar_open" /\ content' = content /\ linked' = linked
            /\ topDirs' = topDirs /\ calm' = calm /\ pc[p] = "json_read"
        BY <1>9, <2>2 DEF ReadLatest
      <3> QED
        BY <1>d, <3>1 DEF Alone, DirPcs
    <2> QED
      BY <2>1, <2>2
  <1>10. CASE UnpackOpen(p)
    <2>1. /\ pc[p] = "unpack_open" /\ pc'[p] = "unpack_make" /\ content' = content
          /\ linked' = linked /\ topDirs' = topDirs /\ calm' = calm /\ rel' = rel
          /\ from'[p] = "good"
      BY <1>10 DEF UnpackOpen, Alone
    <2> QED
      BY <1>d, <2>1 DEF Alone, DirPcs
  <1>11. CASE UnpackMake(p)
    <2>1. /\ pc[p] = "unpack_make" /\ pc'[p] = "unpack_end"
          /\ content' = [content EXCEPT ![Unpacked(rel[p])] = "partial"]
          /\ linked' = linked /\ topDirs' = topDirs \cup {"home", "tmp"} /\ calm' = calm
          /\ rel' = rel /\ from' = from /\ fd'[p] = "fresh"
      BY <1>11 DEF UnpackMake
    <2>2. from[p] = "good"
      BY <2>1 DEF Alone
    <2> QED
      BY <1>c, <1>d, <2>1, <2>2 DEF Alone, DirPcs
  <1>12. CASE UnpackEnd(p)
    <2>1. /\ pc[p] = "unpack_end" /\ pc'[p] = "self_path" /\ fd[p] = "fresh"
          /\ linked' = linked /\ topDirs' = topDirs /\ calm' = calm /\ rel' = rel
          /\ Deliver(p, "good")
      BY <1>12 DEF UnpackEnd, Alone
    <2>2. content' = [content EXCEPT ![Unpacked(rel[p])] = "good"]
      BY <2>1 DEF Deliver, Target
    <2> QED
      BY <1>c, <1>d, <2>1, <2>2 DEF Alone, DirPcs
  <1>13. CASE SelfPath(p)
    <2>1. /\ pc[p] = "self_path" /\ pc'[p] = "self_unlink" /\ content' = content
          /\ linked' = linked /\ topDirs' = topDirs /\ calm' = calm /\ rel' = rel
      BY <1>13 DEF SelfPath, Alone
    <2> QED
      BY <1>d, <2>1 DEF Alone, DirPcs
  <1>14. CASE SelfUnlink(p)
    <2>1. /\ pc[p] = "self_unlink" /\ pc'[p] = "copy_open"
          /\ content' = [content EXCEPT ![Exe] = "none"]
          /\ topDirs' = topDirs /\ calm' = calm /\ rel' = rel
      BY <1>14 DEF SelfUnlink, Alone
    <2> QED
      BY <1>c, <1>d, <2>1 DEF Alone, DirPcs
  <1>15. CASE CopyOpen(p)
    <2>1. /\ pc[p] = "copy_open" /\ pc'[p] = "copy" /\ fd'[p] = "fresh" /\ from'[p] = "good"
          /\ topDirs' = topDirs /\ calm' = calm
      BY <1>15 DEF CopyOpen, Alone, Cut
    <2> QED
      BY <1>d, <2>1 DEF Alone, DirPcs
  <1>16. CASE CopyEnd(p)
    <2>1. /\ pc[p] = "copy" /\ pc'[p] = "chmod" /\ fd[p] = "fresh"
          /\ topDirs' = topDirs /\ calm' = calm /\ Deliver(p, "good")
      BY <1>16 DEF CopyEnd, Alone
    <2>2. content' = [content EXCEPT ![Exe] = "good"]
      BY <2>1 DEF Deliver, Target
    <2> QED
      BY <1>c, <1>d, <2>1, <2>2 DEF Alone, DirPcs
  <1>17. CASE Chmod(p)
    BY <1>17 DEF Chmod, Alone
  <1>18. CASE RmStat(p)
    <2>1. \/ pc'[p] = "idle" /\ ret'[p] = "OK" /\ pc[p] = "rm_stat"
          \/ /\ pc'[p] = "rm_open" /\ "tmp" \in topDirs /\ pc[p] = "rm_stat"
             /\ topDirs' = topDirs /\ content' = content /\ linked' = linked /\ calm' = calm
      BY <1>18 DEF RmStat
    <2> QED
      BY <1>d, <2>1 DEF Alone, DirPcs
  <1>19. CASE RmOpen(p)
    <2>1. /\ pc'[p] = "rm" /\ pc[p] = "rm_open" /\ todo'[p] = Entries
          /\ topDirs' = topDirs /\ content' = content /\ linked' = linked /\ calm' = calm
      BY <1>19 DEF RmOpen, Alone
    <2>2. Entries' = Entries
      BY <2>1 DEF Entries
    <2> QED
      BY <1>d, <2>1, <2>2 DEF Alone, DirPcs
  <1>20. CASE RmUnlink(p)
    <2>1. PICK f \in Entries : /\ content' = [content EXCEPT ![f] = "none"]
                               /\ todo'[p] = todo[p] \ {f}
      BY <1>20 DEF RmUnlink
    <2>2. /\ pc' = pc /\ pc[p] = "rm" /\ topDirs' = topDirs /\ linked' = linked
          /\ calm' = calm
      BY <1>20 DEF RmUnlink
    <2>3. f \in TmpFiles /\ f \in Files
      BY <2>1, FilesThereAre DEF Entries
    <2>4. Entries' = Entries \ {f}
      BY <2>1, <2>3, FilesThereAre DEF Entries
    <2>5. todo'[p] = Entries' /\ content'[Exe] = content[Exe]
      BY <1>c, <2>1, <2>2, <2>3, <2>4 DEF Alone
    <2> QED
      BY <1>d, <2>2, <2>5 DEF Alone, DirPcs
  <1>21. CASE RmFails(p)
    <2>1. pc[p] = "rm" /\ todo[p] \ Entries # {}
      BY <1>21 DEF RmFails
    <2> QED
      BY <2>1 DEF Alone
  <1>22. CASE RmDir(p)
    <2>1. /\ pc[p] = "rm" /\ todo[p] \cap Entries = {} /\ todo[p] = Entries
          /\ "tmp" \in topDirs
      BY <1>22 DEF RmDir, Alone
    <2> QED
      BY <1>22, <2>1 DEF RmDir
  <1> QED
    BY <1>1, <1>2, <1>3, <1>4, <1>5, <1>6, <1>7, <1>8, <1>9, <1>10, <1>11, <1>12, <1>13,
       <1>14, <1>15, <1>16, <1>17, <1>18, <1>19, <1>20, <1>21, <1>22 DEF Step

\* What a command that is alone has made sure of stays so: others that are started end the
\* claim, and nothing else happens to it.
LEMMA AloneStep == TypeOK /\ Places /\ AloneInv /\ [Next]_vars => AloneInv'
  <1> SUFFICES ASSUME TypeOK, Places, AloneInv, [Next]_vars, NEW p \in Procs,
                      spared'[p], Running(p)'
               PROVE  Alone(p)'
    BY DEF AloneInv
  <1>1. CASE UNCHANGED vars \/ Publish
    <2>1. UNCHANGED <<topDirs, content, pc, cmd, linked, rel, fd, from, todo, spared, calm>>
      BY <1>1 DEF vars, disk, local, Publish
    <2>2. Entries' = Entries
      BY <2>1 DEF Entries
    <2> QED
      BY <2>1, <2>2 DEF AloneInv, Alone, Running
  <1>2. CASE Settle
    BY <1>2 DEF Settle, local, AloneInv, Alone, Running
  <1>3. ASSUME NEW q \in Procs, Start(q) PROVE Alone(p)'
    <2>1. /\ q = p /\ calm /\ calm' = calm /\ \A o \in Procs : ~Running(o)
          /\ pc' = [pc EXCEPT ![p] = IF cmd'[p] = "cleanup" THEN "rm_stat" ELSE "home"]
          /\ linked' = linked \cup {p} /\ content' = content /\ Runnable
      BY <1>3, StartsInPlace DEF Start, TypeOK, disk
    <2>2. pc'[p] \in {"rm_stat", "home"} /\ \A o \in Procs \ {p} : pc'[o] = pc[o]
      BY <2>1 DEF TypeOK
    <2> QED
      BY <2>1, <2>2 DEF Alone, Runnable, Running, DirPcs, MkdirPc, UpgradePcs, UnpackPcs,
                        ReplacePcs, Replacing
  <1>4. ASSUME NEW q \in Procs, Step(q) \/ Kill(q) PROVE Alone(p)'
    <2>1. Running(q) /\ spared' = spared
      BY <1>4
      DEF Running, Kill, local, Step, StatDir, MakeDir, FetchOpens, Receive, FetchEnds,
          FetchFails, ReadJson, ReadLatest, LinkCompletion, UnpackOpen, UnpackMake, UnpackEnd,
          SelfPath, SelfUnlink, CopyOpen, CopyEnd, Chmod, RmStat, RmOpen, RmUnlink, RmFails,
          RmDir, OpenPcs, ReceivePcs, DirPcs, MkdirPc
    <2>2. Running(p)
      BY <1>4, <2>1, StepIsOwn DEF Running
    <2>3. Alone(p)
      BY <2>1, <2>2 DEF AloneInv
    <2>4. q = p /\ ~Kill(q)
      BY <2>1, <2>3 DEF Alone, Kill, Fault
    <2> QED
      BY <1>4, <2>2, <2>3, <2>4, AloneGoesOn
  <1> QED
    BY <1>1, <1>2, <1>3, <1>4 DEF Next

\* Every command is at a place of its own code, and what one that nothing has disturbed
\* has made sure of is so.
THEOREM AloneInvariant == Spec => [](Places /\ AloneInv)
  <1>1. Init => Places /\ AloneInv
    BY DEF Init, Places, AloneInv, Running, UpgradePcs, UnpackPcs, ReplacePcs, Replacing
  <1>2. TypeOK /\ Places /\ [Next]_vars => Places'
    <2>1. ASSUME TypeOK, Places, UNCHANGED vars \/ Settle \/ Publish PROVE Places'
      BY <2>1 DEF vars, local, Settle, Publish, Places, Running
    <2> QED
      BY <2>1, PlacesStep DEF Next
  <1>3. TypeOK /\ Places /\ AloneInv /\ [Next]_vars => AloneInv'
    BY AloneStep
  <1> QED
    BY <1>1, <1>2, <1>3, TypeCorrect, PTL DEF Spec

\* When a command that nothing has disturbed ends, it was its own last step.
LEMMA AloneEnds ==
    ASSUME TypeOK, Places, AloneInv, [Next]_vars, NEW p \in Procs,
           spared[p], Running(p), ~Running(p)'
    PROVE  Alone(p) /\ Step(p)
  <1>1. Alone(p)
    BY DEF AloneInv
  <1>2. PICK q \in Procs : Start(q) \/ Step(q) \/ Kill(q)
    BY DEF Next, vars, Settle, Publish, Running
  <1>3. q = p
    BY <1>2, StepIsOwn DEF Running
  <1> QED
    BY <1>1, <1>2, <1>3 DEF Start, Kill, Fault, Running, Alone

\* A command that has ~/.nvm2 for itself succeeds, whatever killed and failed commands
\* left there, except for an upgrade when the tag of the latest release cannot be made out
\* in the site's answer or has no number in it (upgrade-self.c:98-185, cleanup.c,
\* list-available-versions.c): every file it reads it has cut and written itself, and every
\* directory it needs it has made or found.
THEOREM AloneIsEnough == Spec => AloneSucceeds
  <1>1. TypeOK /\ (Places /\ AloneInv) /\ [Next]_vars =>
          [\A p \in Procs :
             spared[p] /\ Running(p) /\ ~Running(p)' /\ cmd[p] # "integrate" =>
                 \/ ret'[p] = "OK"
                 \/ /\ cmd[p] = "upgrade-self" /\ pc[p] = "json_read"
                    /\ named \notin Legible \ {NoNumbers}]_vars
    BY AloneEnds, AloneGoesOn
  <1> QED
    BY <1>1, TypeCorrect, AloneInvariant, PTL DEF Spec, AloneSucceeds

\* integrate by itself renews the completion file, whatever it finds and whatever it
\* returns (integrate.c:67, 91).
THEOREM CompletionIsRenewed == Spec => IntegrateRenews
  <1>1. TypeOK /\ (Places /\ AloneInv) /\ [Next]_vars =>
          [\A p \in Procs :
             spared[p] /\ cmd[p] = "integrate" /\ Running(p) /\ ~Running(p)' =>
                 content'[Json("integrate")] = "good"]_vars
    BY AloneEnds, AloneGoesOn
  <1> QED
    BY <1>1, TypeCorrect, AloneInvariant, PTL DEF Spec, IntegrateRenews
=============================================================================
