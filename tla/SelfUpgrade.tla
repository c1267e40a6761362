---------------------------- MODULE SelfUpgrade ----------------------------
(***************************************************************************)
(* The commands that share ~/.nvm2/tmp: ls-available and                   *)
(* show-release-schedule fetch a JSON file into it and read it,            *)
(* upgrade-self fetches and unpacks a release of nvm2 there and copies it  *)
(* over the executable every command is started from, cleanup removes it   *)
(* all.  integrate fetches a completion file beside tmp, and may link it   *)
(* into a directory of zsh's.  Nothing is locked, and a process may be     *)
(* killed between any two system calls.                                    *)
(*                                                                         *)
(* pc[p] names the next system call (or run of calls no other command can  *)
(* tell apart) of process p.  Where a system's self_realpath differs, this *)
(* is Linux's: /proc/self/exe.                                             *)
(***************************************************************************)
EXTENDS Integers

CONSTANTS
    Procs,      \* pids
    Releases,   \* releases of nvm2: <<major, minor, patch>>
    Legible,    \* those whose tag upgrade-self can make out in the site's answer
    Commands,   \* the commands users run, a subset of AllCommands
    Faults,     \* what may go wrong, a subset of FaultKinds
    Exclusive   \* TRUE: users run upgrade-self and cleanup one at a time

AllCommands ==
    {"ls-available", "show-release-schedule", "upgrade-self", "cleanup", "integrate"}

\* kill: the process dies.  net: a transfer breaks off, or delivers fewer or other bytes.
\* disk: a call on a file or directory fails.  flush: the last bytes are lost in an fclose
\* nobody looks at.
FaultKinds == {"kill", "net", "disk", "flush"}

ASSUME ConstantsAssumption ==
    /\ Releases \subseteq Nat \X Nat \X Nat
    /\ Releases # {}
    /\ Legible \subseteq Releases
    /\ Commands \subseteq AllCommands
    /\ Faults \subseteq FaultKinds
    /\ Exclusive \in BOOLEAN

VARIABLES
    topDirs,    \* which of ~/.nvm2, its tmp and its zsh_completion exist
    content,    \* of each file
    named,      \* the release tmp/latest.json names, from its beginning on
    exeRel,     \* the release the executable is of
    exeMode,    \* whether it may be executed
    published,  \* the latest release
    pc, cmd,    \* where each process is, and its command
    self,       \* the release it is running
    linked,     \* the processes running the file that now is the executable
    rel,        \* the release its request or its upgrade is about
    fd,         \* what became of the file it has open for writing
    from,       \* what there was to be read in the file it has open to unpack or copy
    todo,       \* entries its rm_r has still to visit
    ret,        \* what its last command returned
    spared,     \* since it was started no other process has run, and nothing failed
    calm        \* from now on nothing goes wrong

disk == <<topDirs, content, named, exeRel, exeMode>>
local == <<cmd, self, spared>>
vars == <<disk, published, pc, local, linked, rel, fd, from, todo, ret, calm>>
-----------------------------------------------------------------------------
Json(c) ==
    CASE c = "ls-available"          -> <<"index.json">>
      [] c = "show-release-schedule" -> <<"schedule.json">>
      [] c = "integrate"             -> <<"_nvm2">>
      [] OTHER                       -> <<"latest.json">>

\* The link to the completion file.
Link == <<"link">>

Tarball(r) == <<"tarball", r>>
Unpacked(r) == <<"bin/nvm2", r>>
Exe == <<"nvm2">>

TmpFiles ==
    {Json(c) : c \in AllCommands \ {"integrate"}} \cup {Tarball(r) : r \in Releases}
        \cup {Unpacked(r) : r \in Releases}

Files == TmpFiles \cup {Exe, Json("integrate"), Link}

DirPcs == {"home", "tmp", "zsh"}
MkdirPc(d) ==
    CASE d = "home" -> "mkdir_home" [] d = "tmp" -> "mkdir_tmp" [] d = "zsh" -> "mkdir_zsh"

\* Where what a command fetches first is put.
DirOf(c) == IF c = "integrate" THEN "zsh" ELSE "tmp"

OpenPcs == {"json_open", "tar_open"}
ReceivePcs == {"json_recv", "tar_recv"}

\* The labels of upgrade-self from the time the old executable is gone.
Replacing == {"copy_open", "copy", "chmod"}

Labels ==
    DirPcs \cup {"mkdir_home", "mkdir_tmp", "mkdir_zsh"} \cup OpenPcs \cup ReceivePcs \cup Replacing
        \cup {"idle", "json_read", "unpack_open", "unpack_make", "unpack_end",
              "self_path", "self_unlink", "rm_stat", "rm_open", "rm"}

\* The file a process writes at its label.
Target(p) ==
    IF pc[p] \in {"tar_open", "tar_recv"} THEN Tarball(rel[p])
    ELSE IF pc[p] \in {"unpack_make", "unpack_end"} THEN Unpacked(rel[p])
    ELSE IF pc[p] \in Replacing THEN Exe
    ELSE Json(cmd[p])

\* partial: some of the bytes from the beginning on.  bad: anything else.
Contents == {"none", "empty", "partial", "good", "bad"}

Returns == {"OK", "ERROR", "NETWORK", "ARCHIVE", "killed", "running"}

TypeOK ==
    /\ topDirs \subseteq DirPcs
    /\ content \in [Files -> Contents]
    /\ named \in Releases
    /\ exeRel \in Releases
    /\ exeMode \in BOOLEAN
    /\ published \in Releases
    /\ pc \in [Procs -> Labels]
    /\ cmd \in [Procs -> AllCommands]
    /\ self \in [Procs -> Releases]
    /\ linked \subseteq Procs
    /\ rel \in [Procs -> Releases]
    /\ fd \in [Procs -> {"none", "fresh", "cut", "gone"}]
    /\ from \in [Procs -> {"none", "partial", "good", "bad"}]
    /\ todo \in [Procs -> SUBSET TmpFiles]
    /\ ret \in [Procs -> Returns]
    /\ spared \in [Procs -> BOOLEAN]
    /\ calm \in BOOLEAN

\* Some release is installed, and nobody has used it yet.
Init ==
    /\ topDirs = {}
    /\ content = [f \in Files |-> IF f = Exe THEN "good" ELSE "none"]
    /\ exeRel \in Releases
    /\ named = exeRel
    /\ exeMode = TRUE
    /\ published \in Releases
    /\ pc = [p \in Procs |-> "idle"]
    /\ cmd = [p \in Procs |-> "cleanup"]
    /\ self = [p \in Procs |-> exeRel]
    /\ linked = {}
    /\ rel = [p \in Procs |-> exeRel]
    /\ fd = [p \in Procs |-> "none"]
    /\ from = [p \in Procs |-> "none"]
    /\ todo = [p \in Procs |-> {}]
    /\ ret = [p \in Procs |-> "OK"]
    /\ spared = [p \in Procs |-> FALSE]
    /\ calm = (Faults = {})
-----------------------------------------------------------------------------
Fault(k) == k \in Faults /\ ~calm

Goto(p, l) == pc' = [pc EXCEPT ![p] = l] /\ UNCHANGED ret

Return(p, r) ==
    /\ pc' = [pc EXCEPT ![p] = "idle"]
    /\ ret' = [ret EXCEPT ![p] = r]

Runnable == content[Exe] = "good" /\ exeMode

\* A slip the properties catch: the parts of the releases are compared one by one.
NewerByParts(l, c) == \E i \in 1 .. 3 : l[i] > c[i]

\* The comparison of nvm2_upgrade_self.
Newer(l, c) ==
    \/ l[1] > c[1]
    \/ l[1] = c[1] /\ l[2] > c[2]
    \/ l[1] = c[1] /\ l[2] = c[2] /\ l[3] > c[3]

\* A release whose tag has no number in it.
NoNumbers == <<0, 0, 0>>

Running(q) == pc[q] # "idle"

\* main: a user runs a command, with the executable that is there.
Start(p) ==
    /\ pc[p] = "idle"
    /\ Runnable
    /\ \E c \in Commands :
        /\ (Exclusive /\ c \in {"upgrade-self", "cleanup"}) =>
               \A q \in Procs : Running(q) => cmd[q] \notin {"upgrade-self", "cleanup"}
        /\ cmd' = [cmd EXCEPT ![p] = c]
        /\ pc' = [pc EXCEPT ![p] = IF c = "cleanup" THEN "rm_stat" ELSE "home"]
    /\ self' = [self EXCEPT ![p] = exeRel]
    /\ linked' = linked \cup {p}
    /\ spared' = [q \in Procs |-> q = p /\ calm /\ \A o \in Procs : ~Running(o)]
    /\ ret' = [ret EXCEPT ![p] = "running"]
    /\ UNCHANGED <<disk, published, rel, fd, from, todo, calm>>
-----------------------------------------------------------------------------
(* What becomes of the file f that processes have open when its name changes *)

\* fopen "wb", or the same by p itself: the file others write is cut.
Cut(p, f) ==
    fd' = [q \in Procs |-> IF q = p THEN "fresh"
                           ELSE IF fd[q] = "fresh" /\ Target(q) = f THEN "cut"
                           ELSE fd[q]]

\* unlink: what others write no longer has a name.
Lose(f) ==
    fd' = [q \in Procs |-> IF fd[q] # "none" /\ Target(q) = f THEN "gone" ELSE fd[q]]

\* p writes what the file's beginning is from.
Agrees(p) ==
    CASE Target(p) = Exe                  -> exeRel = rel[p]
      [] Target(p) = Json("upgrade-self") -> named = rel[p]
      [] OTHER                            -> TRUE

\* The last byte is written and the file closed.  If another process has cut the
\* file since it was opened, it is whole only if that one has written the same.
Deliver(p, c) ==
    LET f == Target(p) IN
    /\ content' = CASE fd[p] = "fresh" -> [content EXCEPT ![f] = c]
                    [] fd[p] = "cut"   -> [content EXCEPT ![f] =
                                              IF @ = c /\ Agrees(p) THEN c ELSE "bad"]
                    [] OTHER           -> content
    /\ fd' = [fd EXCEPT ![p] = "none"]

Close(p) == fd' = [fd EXCEPT ![p] = "none"] /\ UNCHANGED content

\* The file p reads is closed.
CloseRead(p) == from' = [from EXCEPT ![p] = "none"]
-----------------------------------------------------------------------------
(* Slips the properties catch: each stands for the definition in its name, with *)
(* the mistake the comment names.                                               *)

\* A file that is there already is not written again.
FetchOpensOnce(p) ==
    /\ pc[p] \in OpenPcs
    /\ \/ /\ DirOf(cmd[p]) \in topDirs /\ content[Target(p)] = "none"
          /\ content' = [content EXCEPT ![Target(p)] = "empty"]
          /\ Cut(p, Target(p))
          /\ Goto(p, IF pc[p] = "json_open" THEN "json_recv" ELSE "tar_recv")
       \/ /\ content[Target(p)] # "none"
          /\ Return(p, "ERROR")
          /\ UNCHANGED <<content, fd>>
    /\ UNCHANGED <<topDirs, named, rel, exeRel, exeMode, published, local, linked, from,
                   todo, calm>>

\* An extraction that fails goes on as one that succeeds.
UnpackEndUnnoticed(p) ==
    /\ pc[p] = "unpack_end"
    /\ \/ Deliver(p, from[p])
       \/ Fault("disk") /\ Close(p)
    /\ CloseRead(p)
    /\ Goto(p, "self_path")
    /\ UNCHANGED <<topDirs, named, exeRel, exeMode, published, local, linked, rel, todo, calm>>

\* The result of fwrite is not looked at.
CopyEndUnnoticed(p) ==
    /\ pc[p] = "copy"
    /\ \/ Deliver(p, from[p])
       \/ Fault("disk") /\ Deliver(p, "partial")
    /\ CloseRead(p)
    /\ Goto(p, "chmod")
    /\ UNCHANGED <<topDirs, named, exeRel, exeMode, published, local, linked, rel, todo, calm>>

\* The end of the file that is copied is not noticed.
CopyEndNever(p) ==
    /\ pc[p] = "copy"
    /\ UNCHANGED vars

\* What is removed begins one directory up.
RmOpenAll(p) ==
    /\ pc[p] = "rm_open"
    /\ todo' = [todo EXCEPT ![p] = {f \in Files : content[f] # "none"}]
    /\ Goto(p, "rm")
    /\ UNCHANGED <<disk, published, local, linked, rel, fd, from, calm>>
-----------------------------------------------------------------------------
(* The commands that fetch a JSON file: up to its last byte they are the same *)

StatDir(p) ==
    /\ pc[p] \in DirPcs
    /\ Goto(p, IF pc[p] \notin topDirs THEN MkdirPc(pc[p])
               ELSE IF pc[p] = "home" THEN DirOf(cmd[p]) ELSE "json_open")
    /\ UNCHANGED <<disk, published, local, linked, rel, fd, from, todo, calm>>

\* mkdir fails when another process made the directory since the stat.
MakeDir(p) ==
    \E d \in DirPcs :
        /\ pc[p] = MkdirPc(d)
        /\ \/ /\ d \notin topDirs
              /\ topDirs' = topDirs \cup {d}
              /\ Goto(p, IF d = "home" THEN DirOf(cmd[p]) ELSE "json_open")
           \/ /\ d \in topDirs \/ Fault("disk")
              /\ Return(p, "ERROR")
              /\ UNCHANGED topDirs
        /\ UNCHANGED <<content, named, exeRel, exeMode, published, local, linked, rel, fd,
                       from, todo, calm>>

\* http_fetch_to_file: the file is cut, and the site asked.
FetchOpens(p) ==
    LET asks == pc[p] = "json_open" /\ cmd[p] = "upgrade-self" IN
    /\ pc[p] \in OpenPcs
    /\ \/ /\ DirOf(cmd[p]) \in topDirs
          /\ content' = [content EXCEPT ![Target(p)] = "empty"]
          /\ Cut(p, Target(p))
          /\ rel' = IF asks THEN [rel EXCEPT ![p] = published] ELSE rel
          /\ named' = IF asks THEN published ELSE named
          /\ Goto(p, IF pc[p] = "json_open" THEN "json_recv" ELSE "tar_recv")
       \/ /\ DirOf(cmd[p]) \notin topDirs \/ Fault("disk")
          /\ Return(p, "ERROR")
          /\ UNCHANGED <<content, fd, rel, named>>
    /\ UNCHANGED <<topDirs, exeRel, exeMode, published, local, linked, from, todo, calm>>

\* The first bytes reach the disk.
Receive(p) ==
    /\ pc[p] \in ReceivePcs
    /\ fd[p] = "fresh" /\ content[Target(p)] = "empty"
    /\ content' = [content EXCEPT ![Target(p)] = "partial"]
    /\ UNCHANGED <<topDirs, named, exeRel, exeMode, published, pc, local, linked, rel, fd,
                   from, todo, ret, calm>>

\* CURLE_OK says that the server has closed the connection as it should.  Where it tells
\* no length that may be before the last byte, or before the first.
FetchEnds(p) ==
    /\ pc[p] \in ReceivePcs
    /\ \/ Deliver(p, "good")
       \/ Fault("net") /\ (Close(p) \/ Deliver(p, "bad"))
       \/ Fault("flush") /\ Deliver(p, "partial")
    /\ Goto(p, IF pc[p] = "json_recv" THEN "json_read" ELSE "unpack_open")
    /\ UNCHANGED <<topDirs, named, exeRel, exeMode, published, local, linked, rel, from,
                   todo, calm>>

FetchFails(p) ==
    /\ pc[p] \in ReceivePcs
    /\ Fault("net") \/ Fault("disk")
    /\ Close(p)
    /\ Return(p, "NETWORK")
    /\ UNCHANGED <<topDirs, named, exeRel, exeMode, published, local, linked, rel, from,
                   todo, calm>>

\* ls-available and show-release-schedule print what they have fetched, if it is JSON.
ReadJson(p) ==
    LET c == content[Json(cmd[p])] IN
    /\ pc[p] = "json_read" /\ cmd[p] \in {"ls-available", "show-release-schedule"}
    /\ \/ c \in {"good", "bad"} /\ Return(p, "OK")
       \/ (c # "good" \/ Fault("disk")) /\ Return(p, "ERROR")
    /\ UNCHANGED <<disk, published, local, linked, rel, fd, from, todo, calm>>

\* integrate has fetched the completion file.  With --output-dir it makes a link to it in
\* that directory: which fails when there is no such directory, or when the link is there.
LinkCompletion(p) ==
    /\ pc[p] = "json_read" /\ cmd[p] = "integrate"
    /\ \/ \E r \in {"OK", "ERROR"} : Return(p, r) /\ UNCHANGED content
       \/ /\ content[Link] = "none"
          /\ content' = [content EXCEPT ![Link] = "good"]
          /\ Return(p, "OK")
    /\ UNCHANGED <<topDirs, named, exeRel, exeMode, published, local, linked, rel, fd, from,
                   todo, calm>>
-----------------------------------------------------------------------------
(* nvm2_upgrade_self *)

\* fgets hands out the file in pieces of 29 characters.  The tag is found if a piece begins
\* with "tag_name" (after blanks, or after what a shorter piece left of the one before it)
\* and has the tag's + in it as well; and if the tag is not found, or no + after it, that is
\* an error.  Part of the file may do, and other bytes may name any release.
ReadLatest(p) ==
    LET c == content[Json(cmd[p])] IN
    /\ pc[p] = "json_read" /\ cmd[p] = "upgrade-self"
    /\ \/ /\ c \in {"partial", "bad", "good"}
          /\ \E r \in IF c = "bad" THEN Releases ELSE {named} :
                /\ rel' = [rel EXCEPT ![p] = r]
                /\ IF r \notin Legible \/ r = NoNumbers THEN Return(p, "ERROR")
                   ELSE IF Newer(r, self[p]) THEN Goto(p, "tar_open")
                   ELSE Return(p, "OK")
       \/ /\ c # "good" \/ Fault("disk")
          /\ Return(p, "ERROR")
          /\ UNCHANGED rel
    /\ UNCHANGED <<disk, published, local, linked, fd, from, todo, calm>>

\* tar_extract opens the tarball; no sum is compared.  An empty file is an archive
\* without entries, and other bytes may be an archive of something else.
UnpackOpen(p) ==
    LET c == content[Tarball(rel[p])] IN
    /\ pc[p] = "unpack_open"
    /\ \/ /\ c \in {"partial", "bad", "good"}
          /\ from' = [from EXCEPT ![p] = c]
          /\ Goto(p, "unpack_make")
       \/ c \in {"empty", "bad"} /\ Goto(p, "self_path") /\ UNCHANGED from
       \/ /\ c \notin {"empty", "good"} \/ Fault("disk")
          /\ Return(p, "ARCHIVE")
          /\ UNCHANGED from
    /\ UNCHANGED <<disk, published, local, linked, rel, fd, todo, calm>>

\* libarchive replaces a file that is in the way, and makes missing directories.
UnpackMake(p) ==
    LET f == Unpacked(rel[p]) IN
    /\ pc[p] = "unpack_make"
    /\ \/ /\ topDirs' = topDirs \cup {"home", "tmp"}
          /\ content' = [content EXCEPT ![f] = "partial"]
          /\ fd' = [q \in Procs |-> IF q = p THEN "fresh"
                                    ELSE IF fd[q] # "none" /\ Target(q) = f THEN "gone"
                                    ELSE fd[q]]
          /\ Goto(p, "unpack_end")
          /\ UNCHANGED from
       \/ /\ Fault("disk")
          /\ CloseRead(p)
          /\ Return(p, "ARCHIVE")
          /\ UNCHANGED <<topDirs, content, fd>>
    /\ UNCHANGED <<named, exeRel, exeMode, published, local, linked, rel, todo, calm>>

\* The tarball is read as it was when it was opened, or as it has become since.
UnpackEnd(p) ==
    LET read == {from[p], content[Tarball(rel[p])]} IN
    /\ pc[p] = "unpack_end"
    /\ \/ /\ \E c \in read \cap {"good", "bad"} : Deliver(p, c)
          /\ Goto(p, "self_path")
       \/ /\ read # {"good"} \/ Fault("disk")
          /\ Close(p)
          /\ Return(p, "ARCHIVE")
    /\ CloseRead(p)
    /\ UNCHANGED <<topDirs, named, exeRel, exeMode, published, local, linked, rel, todo, calm>>

\* self_realpath: if the running file was unlinked, the path that the system tells ends
\* in " (deleted)", and there is nothing to unlink at it.
SelfPath(p) ==
    /\ pc[p] = "self_path"
    /\ \/ p \in linked /\ Goto(p, "self_unlink")
       \/ (p \notin linked \/ Fault("disk")) /\ Return(p, "ERROR")
    /\ UNCHANGED <<disk, published, local, linked, rel, fd, from, todo, calm>>

SelfUnlink(p) ==
    /\ pc[p] = "self_unlink"
    /\ \/ /\ content[Exe] # "none"
          /\ content' = [content EXCEPT ![Exe] = "none"]
          /\ Lose(Exe)
          /\ exeMode' = FALSE
          /\ linked' = {}
          /\ Goto(p, "copy_open")
       \/ /\ content[Exe] = "none" \/ Fault("disk")
          /\ Return(p, "ERROR")
          /\ UNCHANGED <<content, fd, exeMode, linked>>
    /\ UNCHANGED <<topDirs, named, exeRel, published, local, rel, from, todo, calm>>

\* copy_file opens both files.  What another process is unpacking right now may have become
\* whole by the time it is read.
CopyOpen(p) ==
    LET c == content[Unpacked(rel[p])] IN
    /\ pc[p] = "copy_open"
    /\ \/ /\ c # "none"
          /\ content' = [content EXCEPT ![Exe] = "empty"]
          /\ Cut(p, Exe)
          /\ exeRel' = rel[p]
          /\ \E k \in {"partial", "good", "bad"} :
                /\ c \in {"good", "bad"} => k = c
                /\ c = "partial" /\ k # c =>
                       \E q \in Procs : pc[q] = "unpack_end" /\ rel[q] = rel[p]
                /\ from' = [from EXCEPT ![p] = k]
          /\ Goto(p, "copy")
       \/ /\ c = "none" \/ Fault("disk")
          /\ Return(p, "ERROR")
          /\ UNCHANGED <<content, fd, exeRel, from>>
    /\ UNCHANGED <<topDirs, named, exeMode, published, local, linked, rel, todo, calm>>

\* fread and fwrite are looked at, fclose is not.
CopyEnd(p) ==
    /\ pc[p] = "copy"
    /\ \/ Deliver(p, from[p]) /\ Goto(p, "chmod")
       \/ Fault("flush") /\ Deliver(p, "partial") /\ Goto(p, "chmod")
       \/ Fault("disk") /\ Deliver(p, "partial") /\ Return(p, "ERROR")
    /\ CloseRead(p)
    /\ UNCHANGED <<topDirs, named, exeRel, exeMode, published, local, linked, rel, todo, calm>>

Chmod(p) ==
    /\ pc[p] = "chmod"
    /\ \/ content[Exe] # "none" /\ exeMode' = TRUE /\ Return(p, "OK")
       \/ (content[Exe] = "none" \/ Fault("disk")) /\ Return(p, "ERROR") /\ UNCHANGED exeMode
    /\ UNCHANGED <<topDirs, content, named, exeRel, published, local, linked, rel, fd, from,
                   todo, calm>>
-----------------------------------------------------------------------------
(* nvm2_cleanup: rm_r of tmp/ *)

Entries == {f \in TmpFiles : content[f] # "none"}

RmStat(p) ==
    /\ pc[p] = "rm_stat"
    /\ IF "tmp" \in topDirs THEN Goto(p, "rm_open") ELSE Return(p, "OK")
    /\ UNCHANGED <<disk, published, local, linked, rel, fd, from, todo, calm>>

\* opendir: the entries that are there now will be visited.
RmOpen(p) ==
    /\ pc[p] = "rm_open"
    /\ \/ "tmp" \in topDirs /\ todo' = [todo EXCEPT ![p] = Entries] /\ Goto(p, "rm")
       \/ ("tmp" \notin topDirs \/ Fault("disk")) /\ Return(p, "ERROR") /\ UNCHANGED todo
    /\ UNCHANGED <<disk, published, local, linked, rel, fd, from, calm>>

\* In any order, those made meanwhile too.
RmUnlink(p) ==
    /\ pc[p] = "rm"
    /\ \E f \in Entries :
        /\ content' = [content EXCEPT ![f] = "none"]
        /\ Lose(f)
        /\ todo' = [todo EXCEPT ![p] = @ \ {f}]
    /\ UNCHANGED <<topDirs, named, exeRel, exeMode, published, pc, local, linked, rel, from,
                   ret, calm>>

\* An entry cannot be removed, or another process removed it first.
RmFails(p) ==
    /\ pc[p] = "rm"
    /\ Fault("disk") \/ todo[p] \ Entries # {}
    /\ todo' = [todo EXCEPT ![p] = {}]
    /\ Return(p, "ERROR")
    /\ UNCHANGED <<disk, published, local, linked, rel, fd, from, calm>>

\* rmdir fails if the directory is gone or an entry nobody visited is in it.
RmDir(p) ==
    /\ pc[p] = "rm"
    /\ todo[p] \cap Entries = {}
    /\ todo' = [todo EXCEPT ![p] = {}]
    /\ IF "tmp" \in topDirs /\ Entries = {}
       THEN topDirs' = topDirs \ {"tmp"} /\ Return(p, "OK")
       ELSE Return(p, "ERROR") /\ UNCHANGED topDirs
    /\ UNCHANGED <<content, named, exeRel, exeMode, published, local, linked, rel, fd, from,
                   calm>>
-----------------------------------------------------------------------------
Step(p) ==
    \/ StatDir(p) \/ MakeDir(p)
    \/ FetchOpens(p) \/ Receive(p) \/ FetchEnds(p) \/ FetchFails(p)
    \/ ReadJson(p) \/ ReadLatest(p) \/ LinkCompletion(p)
    \/ UnpackOpen(p) \/ UnpackMake(p) \/ UnpackEnd(p)
    \/ SelfPath(p) \/ SelfUnlink(p) \/ CopyOpen(p) \/ CopyEnd(p) \/ Chmod(p)
    \/ RmStat(p) \/ RmOpen(p) \/ RmUnlink(p) \/ RmFails(p) \/ RmDir(p)

\* The process dies: its files are closed as they are.
Kill(p) ==
    /\ Running(p)
    /\ Fault("kill")
    /\ fd' = [fd EXCEPT ![p] = "none"]
    /\ CloseRead(p)
    /\ todo' = [todo EXCEPT ![p] = {}]
    /\ Return(p, "killed")
    /\ UNCHANGED <<disk, published, local, linked, rel, calm>>

\* A release comes out.
Publish ==
    /\ published' \in {r \in Releases : Newer(r, published)}
    /\ UNCHANGED <<disk, pc, local, linked, rel, fd, from, todo, ret, calm>>

\* From now on the environment behaves.
Settle ==
    /\ ~calm
    /\ calm' = TRUE
    /\ UNCHANGED <<disk, published, pc, local, linked, rel, fd, from, todo, ret>>

Next ==
    \/ \E p \in Procs : Start(p) \/ Step(p) \/ Kill(p)
    \/ Publish
    \/ Settle

Spec == Init /\ [][Next]_vars

\* Once nothing goes wrong any more, a running process is not stopped for ever (and no
\* transfer stalls: libcurl is used without a timeout).
Fairness == \A p \in Procs : WF_vars(calm /\ Step(p))

FairSpec == Spec /\ Fairness
-----------------------------------------------------------------------------
(* Properties *)

\* r is of an earlier release than s: they differ first in a smaller number.
Precedes(r, s) ==
    \E i \in 1 .. 3 : r[i] < s[i] /\ \A j \in 1 .. i - 1 : r[j] = s[j]

\* Where only upgrade-self is, where only cleanup is, and where the replacement of the
\* executable is still to come.
ReplacePcs == {"self_path", "self_unlink", "copy_open"}
UnpackPcs == {"unpack_open", "unpack_make", "unpack_end"}
UpgradePcs == {"tar_open", "tar_recv"} \cup UnpackPcs \cup ReplacePcs \cup Replacing
CleanupPcs == {"rm_stat", "rm_open", "rm"}
Heavy == {"upgrade-self", "cleanup"}

\* Every command is at a place of its own code.
Places ==
    \A p \in Procs :
        /\ pc[p] \in UpgradePcs => cmd[p] = "upgrade-self"
        /\ Running(p) => (pc[p] \in CleanupPcs <=> cmd[p] = "cleanup")

OneAtATime ==
    \A p, q \in Procs :
        Running(p) /\ Running(q) /\ cmd[p] \in Heavy /\ cmd[q] \in Heavy => p = q

\* What p has fetched as the release is an archive, but of nothing or of something else.
OtherArchive(p) == content[Tarball(rel[p])] \in {"empty", "bad"}

\* What an upgrade has made sure of by the time it comes to a place: unless the archive is
\* another one, which nothing tells it.
Progress(p) ==
    /\ pc[p] \in {"tar_recv", "unpack_end", "copy"} => fd[p] = "fresh"
    /\ pc[p] \in {"unpack_make", "unpack_end"} => from[p] = content[Tarball(rel[p])]
    /\ pc[p] \in ReplacePcs => OtherArchive(p) \/ content[Unpacked(rel[p])] = "good"
    /\ pc[p] = "copy" => OtherArchive(p) \/ from[p] = "good"
    /\ pc[p] = "chmod" => OtherArchive(p) \/ content[Exe] = "good"
    /\ pc[p] \in {"copy", "chmod"} => exeRel = rel[p]
    /\ Running(p) /\ cmd[p] = "upgrade-self" /\ pc[p] \notin {"copy", "chmod"} =>
           self[p] = exeRel
    /\ pc[p] \in UpgradePcs \ {"copy", "chmod"} => Newer(rel[p], self[p])

\* With one upgrade or cleanup at a time, what an upgrade has made sure of stays so while
\* the other commands go on in tmp/: the tarball it unpacks is the one it has fetched, cut
\* or not; a cut one never gets as far as the executable, whatever an earlier upgrade left
\* unpacked; the file it copies is the one it has unpacked, and the executable still the
\* one it compared the release with (upgrade-self.c:187, 244, 262, 268).
UpgradeInv == Places /\ OneAtATime /\ \A p \in Procs : Progress(p)

\* There is an executable all the time, except while upgrade-self replaces it, when it
\* died or failed over that, and when the site's answer was an archive without it: a
\* transfer that ends too early costs nobody the executable unless not a byte came of it
\* (upgrade-self.c:232-277).
LostOnlyToUpgrades ==
    ~Runnable => \E p \in Procs :
                    /\ cmd[p] = "upgrade-self"
                    /\ \/ pc[p] \in Replacing
                       \/ ~Running(p) /\ ret[p] \in {"killed", "ERROR"}
                       \/ ~Running(p) /\ OtherArchive(p)

\* The executable is replaced by later releases only, whatever the site calls its latest
\* one (upgrade-self.c:182-200).
NeverDowngrades == [][exeRel' # exeRel => Precedes(exeRel, exeRel')]_exeRel

\* An upgrade that says that nvm2 is up to date leaves a whole executable of the release
\* it has fetched, with the mode to run it, unless what it has fetched is an archive of
\* something else: a tarball of which the end is missing does not pass for the release
\* (upgrade-self.c:232-283).
SuccessIsUpgrade ==
    [][\A p \in Procs :
          pc[p] = "chmod" /\ ~Running(p)' /\ ret'[p] = "OK" =>
              OtherArchive(p) \/ (Runnable' /\ exeRel' = rel[p])]_vars

\* A command that has ~/.nvm2 for itself succeeds, whatever killed and failed commands
\* left there: cut files, half-unpacked releases, half-removed directories.  Only an upgrade
\* whose site has a latest release with a tag that it cannot make out, or without numbers,
\* says so (upgrade-self.c:98-185).
AloneSucceeds ==
    [][\A p \in Procs :
          spared[p] /\ Running(p) /\ ~Running(p)' /\ cmd[p] # "integrate" =>
              \/ ret'[p] = "OK"
              \/ /\ cmd[p] = "upgrade-self" /\ pc[p] = "json_read"
                 /\ named \notin Legible \ {NoNumbers}]_vars

\* Once nothing goes wrong any more, every command ends.
CommandEnds == \A p \in Procs : (calm /\ Running(p)) ~> ~Running(p)

\* An upgrade that fails over the replacement leaves the download to replace the
\* executable by hand (upgrade-self.c:285).
FailureLeavesDownload ==
    [][\A p \in Procs :
          pc[p] \in {"self_path", "self_unlink"} \cup Replacing /\ ~Running(p)'
              /\ ret'[p] = "ERROR" => content[Unpacked(rel[p])] = "good"]_vars

\* integrate renews the completion file whenever it is by itself, whatever a killed run or
\* a broken transfer left of it, and whatever it returns: the file is written in place
\* (integrate.c:67), and when the link cannot be made because an earlier run has made it
\* (integrate.c:91) that link leads to the new file.
IntegrateRenews ==
    [][\A p \in Procs :
          spared[p] /\ cmd[p] = "integrate" /\ Running(p) /\ ~Running(p)' =>
              content'[Json("integrate")] = "good"]_vars
=============================================================================
