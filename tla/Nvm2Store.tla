----------------------------- MODULE Nvm2Store -----------------------------
(***************************************************************************)
(* The commands that share ~/.nvm2: install (from a binary or a source     *)
(* tarball), uninstall, reinstall, is-available and exec, as processes     *)
(* that interleave between system calls.  Nothing is locked.  A process    *)
(* may be killed between any two steps; what it left on disk stays.        *)
(*                                                                         *)
(* A process p is a pid.  pc[p] names the next system call (or the next    *)
(* run of calls no other command can tell apart) of the code it executes.  *)
(***************************************************************************)
CONSTANTS
    Procs,      \* pids
    Versions,   \* versions the site offers
    Files,      \* what a distribution of a version consists of
    Commands,   \* the commands users run, a subset of AllCommands
    Sources,    \* values of fromSource: {TRUE} where no binary is published
    HasGmake,   \* whether a gmake is published for this platform
    Faults,     \* what may go wrong, a subset of FaultKinds
    Exclusive   \* TRUE: users run one command per version at a time

AllCommands == {"install", "uninstall", "reinstall", "is-available", "exec"}

\* kill: the process dies.  net: a transfer fails or delivers other bytes.
\* disk: a file or directory cannot be made, read or written.  unlink: one cannot
\* be removed.  build: a step of the build fails.
FaultKinds == {"kill", "net", "disk", "unlink", "build"}

Receipt == "receipt.yml"

ASSUME ConstantsAssumption ==
    /\ Versions # {}
    /\ Receipt \notin Files
    /\ Commands \subseteq AllCommands
    /\ Sources \subseteq BOOLEAN
    /\ HasGmake \in BOOLEAN
    /\ Faults \subseteq FaultKinds
    /\ Exclusive \in BOOLEAN

VARIABLES
    topDirs,    \* which directories of TopDirs exist
    cache,      \* content of each fetched file, in downloads/ and tmp/
    latest,     \* who has a cached file open since it was last truncated
    dirs,       \* the versions v whose directory versions/<v> exists
    files,      \* the distribution's files in versions/<v>
    receipt,    \* versions/<v>/receipt.yml: none, short of text, or full
    receiptFds, \* who has that very receipt open for writing
    scratch,    \* ~/.nvm2/installing/<pid>
    pc, cmd, ver, src,  \* where each process is, and its arguments
    todo,       \* entries its current rm_r or extraction has still to visit
    ret,        \* what its last command returned
    shared,     \* history: next to whom another command has run on the same version
    calm        \* from now on nothing goes wrong

downloads == <<cache, latest>>
tree == <<dirs, files, receipt, receiptFds>>
disk == <<topDirs, downloads, tree, scratch>>
args == <<cmd, ver, src, shared>>
vars == <<disk, pc, args, todo, ret, calm>>
-----------------------------------------------------------------------------
TopDirs == {"home", "downloads", "versions", "installing", "tmp"}

\* Where the code looks for one of them, and which.
DirSteps == {"home", "downloads", "versions", "installing", "ix_home", "ix_tmp"}

DirAt(l) == IF l = "ix_home" THEN "home" ELSE IF l = "ix_tmp" THEN "tmp" ELSE l

\* What is done once the directory is known to exist.
AfterTopDir(l) ==
    CASE l = "home"       -> "downloads"
      [] l = "downloads"  -> "sums_open"
      [] l = "versions"   -> "ver_stat"
      [] l = "installing" -> "scratch"
      [] l = "ix_home"    -> "ix_tmp"
      [] l = "ix_tmp"     -> "ix_open"

MkdirPc(l) ==
    CASE l = "home"       -> "mkdir_home"
      [] l = "downloads"  -> "mkdir_downloads"
      [] l = "versions"   -> "mkdir_versions"
      [] l = "installing" -> "mkdir_installing"
      [] l = "ix_home"    -> "ix_mkdir_home"
      [] l = "ix_tmp"     -> "ix_mkdir_tmp"

RmOpenPcs == {"un_rm_open", "in_rm_open"}
RmPcs == {"un_rm", "in_rm"}
PopulatePcs == {"extract", "make_install"}
OpenPcs == {"ix_open", "sums_open", "tar_open", "gm_open"}
ReceivePcs == {"ix_recv", "sums_recv", "tar_recv", "gm_recv"}
CheckPcs == {"tar_check", "gm_check"}
VerifyPcs == {"tar_verify", "gm_verify"}

AfterOpen(l) ==
    CASE l = "ix_open"   -> "ix_recv"
      [] l = "sums_open" -> "sums_recv"
      [] l = "tar_open"  -> "tar_recv"
      [] l = "gm_open"   -> "gm_recv"

AfterReceive(l) ==
    CASE l = "ix_recv"   -> "ix_parse"
      [] l = "sums_recv" -> "sums_parse"
      [] l = "tar_recv"  -> "tar_verify"
      [] l = "gm_recv"   -> "gm_verify"

\* What is done with a file whose sum is the expected one.
AfterVerified(l) == IF l \in {"tar_check", "tar_verify"} THEN "versions" ELSE "gm_extract"

\* The labels of install from its first stat to the receipt.  Up to and including
\* "receipt_open" there is none.
Fetching ==
    {"home", "mkdir_home", "downloads", "mkdir_downloads", "sums_open", "sums_recv",
     "sums_parse", "tar_check", "tar_open", "tar_recv", "tar_verify"}

Unpacking ==
    {"versions", "mkdir_versions", "ver_stat", "in_rm_open", "in_rm", "ver_mkdir",
     "installing", "mkdir_installing", "scratch", "src_extract", "extract_open",
     "extract"}

\* nvm2_find_or_install_gmake
Gmaking == {"gm_find", "gm_check", "gm_open", "gm_recv", "gm_verify", "gm_extract"}

Unreceipted ==
    Fetching \cup Unpacking \cup Gmaking \cup {"build", "make_install", "receipt_open"}

Installing == Unreceipted \cup {"inst_check", "receipt_write"}

Uninstalling == {"un_installed", "un_check", "un_rm_open", "un_rm"}

\* Is the version on the site's list?
Asking ==
    {"ix_home", "ix_mkdir_home", "ix_tmp", "ix_mkdir_tmp", "ix_open", "ix_recv",
     "ix_parse"}

Labels == {"idle", "ex_check", "ex_run"} \cup Installing \cup Uninstalling \cup Asking

Entry(c) ==
    CASE c = "install"      -> "inst_check"
      [] c = "uninstall"    -> "un_installed"
      [] c = "reinstall"    -> "ix_home"
      [] c = "is-available" -> "ix_home"
      [] c = "exec"         -> "ex_check"

\* Names of fetched files.  All versions share the list of versions and gmake.
Index == <<"tmp", "index.json">>
Gmake == <<"downloads", "gmake-4.3.tar.xz">>
Sums(v) == <<"SHASUMS256", v>>

\* A slip the properties catch: every version's tarball has the same name.
OneNameTarball(v, s) ==
    <<IF s THEN "source" ELSE "binary", CHOOSE w \in Versions : TRUE>>

Tarball(v, s) == <<IF s THEN "source" ELSE "binary", v>>
CacheFiles == {Index, Gmake} \cup ({"SHASUMS256", "source", "binary"} \X Versions)

\* good: what the site publishes (SHASUMS256 has the tarball's line, the list of
\* versions has the version).
\* partial: the beginning of a transfer.  bad: some other content.
Contents == {"none", "empty", "partial", "good", "bad"}

Returns == {"OK", "ERROR", "NETWORK", "SHA256_MISMATCH", "ARCHIVE",
            "NOT_AVAILABLE", "NOT_INSTALLED", "BROKEN", "killed", "running"}

TypeOK ==
    /\ topDirs \subseteq TopDirs
    /\ cache \in [CacheFiles -> Contents]
    /\ latest \in [CacheFiles -> SUBSET Procs]
    /\ dirs \subseteq Versions
    /\ files \in [Versions -> SUBSET Files]
    /\ receipt \in [Versions -> {"none", "short", "full"}]
    /\ receiptFds \in [Versions -> SUBSET Procs]
    /\ scratch \in [Procs -> {"none", "empty", "partial", "good"}]
    /\ pc \in [Procs -> Labels]
    /\ cmd \in [Procs -> AllCommands]
    /\ ver \in [Procs -> Versions]
    /\ src \in [Procs -> BOOLEAN]
    /\ todo \in [Procs -> SUBSET (Files \cup {Receipt})]
    /\ \A p \in Procs : pc[p] \in PopulatePcs => todo[p] \subseteq Files
    /\ ret \in [Procs -> Returns]
    /\ shared \subseteq Procs
    /\ calm \in BOOLEAN

\* No version is installed and no command runs.
StartWith(made, content) ==
    /\ topDirs = made
    /\ cache = [f \in CacheFiles |-> content]
    /\ latest = [f \in CacheFiles |-> {}]
    /\ dirs = {}
    /\ files = [v \in Versions |-> {}]
    /\ receipt = [v \in Versions |-> "none"]
    /\ receiptFds = [v \in Versions |-> {}]
    /\ scratch = [p \in Procs |-> "none"]
    /\ pc = [p \in Procs |-> "idle"]
    /\ cmd = [p \in Procs |-> "install"]
    /\ ver \in [Procs -> {CHOOSE v \in Versions : TRUE}]
    /\ src = [p \in Procs |-> FALSE]
    /\ todo = [p \in Procs |-> {}]
    /\ ret = [p \in Procs |-> "OK"]
    /\ shared = {}
    /\ calm = (Faults = {})

\* Nobody has used nvm2 yet.
Init == StartWith({}, "none")
-----------------------------------------------------------------------------
Fault(k) == k \in Faults /\ ~calm

Goto(p, l) == pc' = [pc EXCEPT ![p] = l] /\ UNCHANGED ret

Return(p, r) ==
    /\ pc' = [pc EXCEPT ![p] = "idle"]
    /\ ret' = [ret EXCEPT ![p] = r]

Installed(v) == v \in dirs /\ receipt[v] # "none"

Entries(v) == files[v] \cup (IF receipt[v] = "none" THEN {} ELSE {Receipt})

BusyWith(v) == {q \in Procs : pc[q] # "idle" /\ ver[q] = v}
Busy(v) == BusyWith(v) # {}

-----------------------------------------------------------------------------
(* Slips the properties catch: each stands for the definition in its name, with *)
(* the mistake the comment names.                                               *)

\* The receipt already counts as a file of the build.
BuildWithReceipt(p) ==
    /\ pc[p] = "build"
    /\ \/ /\ scratch[p] = "good"
          /\ todo' = [todo EXCEPT ![p] = Files \cup {Receipt}]
          /\ Goto(p, "make_install")
       \/ /\ scratch[p] # "good" \/ Fault("build")
          /\ Return(p, "ERROR")
          /\ UNCHANGED todo
    /\ UNCHANGED <<disk, args, calm>>

\* A failed extraction is not noticed.
PopulateFailsUnnoticed(p) ==
    /\ pc[p] \in PopulatePcs
    /\ \/ Fault("disk")
       \/ pc[p] = "extract" /\ cache[Tarball(ver[p], src[p])] # "good"
       \/ pc[p] = "make_install" /\ Fault("build")
    /\ todo' = [todo EXCEPT ![p] = {}]
    /\ Goto(p, "receipt_open")
    /\ UNCHANGED <<disk, args, calm>>

\* An install does not look for a receipt first.
InstallCheckNever(p) ==
    /\ pc[p] = "inst_check"
    /\ Goto(p, "home")
    /\ UNCHANGED <<disk, args, todo, calm>>

\* The receipt is written before the files.
ExtractOpenLate(p) ==
    /\ pc[p] = "extract_open"
    /\ todo' = [todo EXCEPT ![p] = Files]
    /\ Goto(p, "receipt_open")
    /\ UNCHANGED <<disk, args, calm>>

\* A removal that fails half-way reports success.
RmFailsQuietly(p) ==
    /\ pc[p] \in RmPcs
    /\ Fault("unlink") \/ todo[p] \ Entries(ver[p]) # {}
    /\ todo' = [todo EXCEPT ![p] = {}]
    /\ Return(p, "OK")
    /\ UNCHANGED <<disk, args, calm>>

\* Half-made directories are extracted into as they are.
VersionStatReuses(p) ==
    /\ pc[p] = "ver_stat"
    /\ Goto(p, IF ver[p] \in dirs THEN "extract" ELSE "ver_mkdir")
    /\ UNCHANGED <<disk, args, todo, calm>>

\* The end of the sums is not noticed: the search goes on.
ParseSumsForEver(p) ==
    /\ pc[p] = "sums_parse"
    /\ IF cache[Sums(ver[p])] = "good" THEN Goto(p, "tar_check") ELSE UNCHANGED <<pc, ret>>
    /\ UNCHANGED <<disk, args, todo, calm>>
-----------------------------------------------------------------------------
\* main: a user runs a command.  Only install and reinstall have --from-source.
Start(p) ==
    /\ pc[p] = "idle"
    /\ \E c \in Commands, v \in Versions, s \in Sources :
        /\ Exclusive => ~Busy(v)
        /\ cmd' = [cmd EXCEPT ![p] = c]
        /\ ver' = [ver EXCEPT ![p] = v]
        /\ src' = [src EXCEPT ![p] = s /\ c \in {"install", "reinstall"}]
        /\ shared' = (shared \ {p}) \cup BusyWith(v) \cup (IF Busy(v) THEN {p} ELSE {})
        /\ pc' = [pc EXCEPT ![p] = Entry(c)]
    /\ ret' = [ret EXCEPT ![p] = "running"]
    /\ UNCHANGED <<disk, todo, calm>>
-----------------------------------------------------------------------------
(* nvm2_install *)

\* A receipt, whatever is in it and next to it, ends the command with success.
InstallCheck(p) ==
    /\ pc[p] = "inst_check"
    /\ IF Installed(ver[p]) THEN Return(p, "OK") ELSE Goto(p, "home")
    /\ UNCHANGED <<disk, args, todo, calm>>

StatTopDir(p) ==
    /\ pc[p] \in DirSteps
    /\ Goto(p, IF DirAt(pc[p]) \in topDirs THEN AfterTopDir(pc[p]) ELSE MkdirPc(pc[p]))
    /\ UNCHANGED <<disk, args, todo, calm>>

\* mkdir fails when another process made the directory since the stat.
MakeTopDir(p) ==
    \E l \in DirSteps :
        /\ pc[p] = MkdirPc(l)
        /\ \/ /\ DirAt(l) \notin topDirs
              /\ topDirs' = topDirs \cup {DirAt(l)}
              /\ Goto(p, AfterTopDir(l))
           \/ /\ DirAt(l) \in topDirs \/ Fault("disk")
              /\ Return(p, "ERROR")
              /\ UNCHANGED topDirs
        /\ UNCHANGED <<downloads, tree, scratch, args, todo, calm>>

\* http_fetch_to_file: fopen "wb" cuts a file others may be reading or writing.
Truncate(p, f) ==
    /\ cache' = [cache EXCEPT ![f] = "empty"]
    /\ latest' = [latest EXCEPT ![f] = {p}]

\* The transfer ends.  Its bytes make up the whole file only if nobody else
\* truncated it in between; otherwise they leave a hole, until the one who did
\* has written the bytes before it.
Deliver(p, f, content) ==
    /\ cache' = [cache EXCEPT ![f] =
                    IF p \in latest[f] \/ cache[f] = content THEN content ELSE "bad"]
    /\ latest' = [latest EXCEPT ![f] = @ \ {p}]

\* The transfer breaks off.
Abandon(p, f) == latest' = [latest EXCEPT ![f] = @ \ {p}] /\ UNCHANGED cache

\* The file p is fetching, checking or unpacking.
Target(p) ==
    CASE pc[p] \in {"ix_open", "ix_recv"}     -> Index
      [] pc[p] \in {"sums_open", "sums_recv"} -> Sums(ver[p])
      [] pc[p] \in Gmaking                    -> Gmake
      [] OTHER                                -> Tarball(ver[p], src[p])

FetchOpens(p) ==
    /\ pc[p] \in OpenPcs
    /\ \/ Truncate(p, Target(p)) /\ Goto(p, AfterOpen(pc[p]))
       \/ Fault("disk") /\ UNCHANGED downloads /\ Return(p, "ERROR")
    /\ UNCHANGED <<topDirs, tree, scratch, args, todo, calm>>

\* The first bytes reach the disk.
Receive(p) ==
    /\ pc[p] \in ReceivePcs
    /\ cache[Target(p)] = "empty"
    /\ cache' = [cache EXCEPT ![Target(p)] = "partial"]
    /\ UNCHANGED <<topDirs, latest, tree, scratch, pc, args, todo, ret, calm>>

\* fclose's result is not looked at: the last bytes may be missing.
FetchEnds(p) ==
    /\ pc[p] \in ReceivePcs
    /\ \/ Deliver(p, Target(p), "good")
       \/ Fault("net") /\ Deliver(p, Target(p), "bad")
       \/ Fault("disk") /\ Deliver(p, Target(p), "partial")
    /\ Goto(p, AfterReceive(pc[p]))
    /\ UNCHANGED <<topDirs, tree, scratch, args, todo, calm>>

FetchFails(p) ==
    /\ pc[p] \in ReceivePcs
    /\ Fault("net") \/ Fault("disk")
    /\ Abandon(p, Target(p))
    /\ Return(p, "NETWORK")
    /\ UNCHANGED <<topDirs, tree, scratch, args, todo, calm>>

\* Look for the tarball's line; the beginning of the file may hold it or not, and so may
\* other bytes, with whatever sum.
ParseSums(p) ==
    /\ pc[p] = "sums_parse"
    /\ \/ cache[Sums(ver[p])] \in {"good", "partial", "bad"} /\ Goto(p, "tar_check")
       \/ (cache[Sums(ver[p])] # "good" \/ Fault("disk")) /\ Return(p, "ERROR")
    /\ UNCHANGED <<disk, args, todo, calm>>

\* A slip the properties catch: a file that is there counts as fetched.
CheckCachedByName(p) ==
    /\ pc[p] \in CheckPcs
    /\ \/ cache[Target(p)] # "none" /\ Goto(p, AfterReceive(AfterOpen(
              IF pc[p] = "tar_check" THEN "tar_open" ELSE "gm_open")))
       \/ /\ cache[Target(p)] = "none"
          /\ Goto(p, IF pc[p] = "tar_check" THEN "tar_open" ELSE "gm_open")
    /\ UNCHANGED <<disk, args, todo, calm>>

\* The expected sum is not that of the file: a sum from a SHASUMS256 with other bytes is
\* taken for that of no file at all, or for the right one.
SumMayDiffer(p) ==
    \/ cache[Target(p)] # "good"
    \/ pc[p] \in {"tar_check", "tar_verify"} /\ cache[Sums(ver[p])] = "bad"

\* Is the file of an earlier run the one the expected sum is of?
CheckCached(p) ==
    /\ pc[p] \in CheckPcs
    /\ \/ cache[Target(p)] = "good" /\ Goto(p, AfterVerified(pc[p]))
       \/ /\ SumMayDiffer(p)
          /\ Goto(p, IF pc[p] = "tar_check" THEN "tar_open" ELSE "gm_open")
       \/ cache[Target(p)] # "none" /\ Fault("disk") /\ Return(p, "ERROR")
    /\ UNCHANGED <<disk, args, todo, calm>>

\* A slip the properties catch: the sum of a fetched file is not compared.
VerifyFetchedNever(p) ==
    /\ pc[p] \in VerifyPcs
    /\ Goto(p, AfterVerified(pc[p]))
    /\ UNCHANGED <<disk, args, todo, calm>>

VerifyFetched(p) ==
    /\ pc[p] \in VerifyPcs
    /\ \/ cache[Target(p)] = "good" /\ Goto(p, AfterVerified(pc[p]))
       \/ SumMayDiffer(p) /\ Return(p, "SHA256_MISMATCH")
       \/ Fault("disk") /\ Return(p, "ERROR")
    /\ UNCHANGED <<disk, args, todo, calm>>

VersionStat(p) ==
    /\ pc[p] = "ver_stat"
    /\ Goto(p, IF ver[p] \in dirs THEN "in_rm_open" ELSE "ver_mkdir")
    /\ UNCHANGED <<disk, args, todo, calm>>

VersionMkdir(p) ==
    /\ pc[p] = "ver_mkdir"
    /\ \/ /\ ver[p] \notin dirs
          /\ dirs' = dirs \cup {ver[p]}
          /\ Goto(p, IF src[p] THEN "installing" ELSE "extract_open")
       \/ /\ ver[p] \in dirs \/ Fault("disk")
          /\ Return(p, "ERROR")
          /\ UNCHANGED dirs
    /\ UNCHANGED <<topDirs, downloads, files, receipt, receiptFds, scratch,
                   args, todo, calm>>

\* installing/<pid> is removed if a process with the same pid left it behind,
\* and then not made again: the extraction makes it.
PrepareScratch(p) ==
    /\ pc[p] = "scratch"
    /\ \/ /\ scratch[p] = "none"
          /\ scratch' = [scratch EXCEPT ![p] = "empty"]
          /\ Goto(p, "src_extract")
       \/ /\ scratch[p] # "none"
          /\ scratch' = [scratch EXCEPT ![p] = "none"]
          /\ Goto(p, "src_extract")
       \/ /\ scratch[p] = "none" /\ Fault("disk")
          /\ UNCHANGED scratch
          /\ Return(p, "ERROR")
       \/ /\ scratch[p] # "none" /\ Fault("unlink")
          /\ scratch' = [scratch EXCEPT ![p] = "partial"]
          /\ Return(p, "ERROR")
    /\ UNCHANGED <<topDirs, downloads, tree, args, todo, calm>>

\* tar_extract of the sources.  An empty file is an archive without entries.
ExtractSource(p) ==
    LET content == cache[Tarball(ver[p], src[p])] IN
    /\ pc[p] = "src_extract"
    /\ \/ /\ content = "good"
          /\ scratch' = [scratch EXCEPT ![p] = "good"]
          /\ Goto(p, "gm_find")
       \/ /\ content = "empty"
          /\ Goto(p, "gm_find")
          /\ UNCHANGED scratch
       \/ /\ content \notin {"good", "empty"} \/ Fault("disk")
          /\ scratch' = [scratch EXCEPT ![p] = "partial"]
          /\ Return(p, "ARCHIVE")
    /\ UNCHANGED <<topDirs, downloads, tree, args, todo, calm>>

\* Where no gmake is published the one in PATH is used, if there is one.
FindGmake(p) ==
    /\ pc[p] = "gm_find"
    /\ \/ Goto(p, IF HasGmake THEN "gm_check" ELSE "build")
       \/ ~HasGmake /\ Fault("build") /\ Return(p, "ERROR")
    /\ UNCHANGED <<disk, args, todo, calm>>

\* The published one goes to installing/<pid>/gmake.
ExtractGmake(p) ==
    /\ pc[p] = "gm_extract"
    /\ \/ /\ cache[Gmake] = "good"
          /\ Goto(p, "build")
          /\ UNCHANGED scratch
       \/ /\ cache[Gmake] = "empty"
          /\ Goto(p, "build")
          /\ scratch' = [scratch EXCEPT ![p] = "partial"]
       \/ /\ cache[Gmake] \notin {"good", "empty"} \/ Fault("disk")
          /\ scratch' = [scratch EXCEPT ![p] = "partial"]
          /\ Return(p, "ARCHIVE")
    /\ UNCHANGED <<topDirs, downloads, tree, args, todo, calm>>

\* nvm2_build_nodejs_from_source: ./configure and make run in installing/<pid>.
Build(p) ==
    /\ pc[p] = "build"
    /\ \/ /\ scratch[p] = "good"
          /\ todo' = [todo EXCEPT ![p] = Files]
          /\ Goto(p, "make_install")
       \/ /\ scratch[p] # "good" \/ Fault("build")
          /\ Return(p, "ERROR")
          /\ UNCHANGED todo
    /\ UNCHANGED <<disk, args, calm>>

\* tar_extract of a binary opens the tarball by name, after it was verified.
ExtractOpen(p) ==
    /\ pc[p] = "extract_open"
    /\ LET empty == cache[Tarball(ver[p], src[p])] = "empty" IN
        /\ todo' = [todo EXCEPT ![p] = IF empty THEN {} ELSE Files]
        /\ Goto(p, IF empty THEN "receipt_open" ELSE "extract")
    /\ UNCHANGED <<disk, args, calm>>

\* One file of the distribution is written, and the directory made if it is gone.
Populate(p) ==
    /\ pc[p] \in PopulatePcs
    /\ \E f \in todo[p] :
        /\ files' = [files EXCEPT ![ver[p]] = @ \cup {f}]
        /\ todo' = [todo EXCEPT ![p] = @ \ {f}]
    /\ dirs' = dirs \cup {ver[p]}
    /\ UNCHANGED <<topDirs, downloads, receipt, receiptFds, scratch, pc, args,
                   ret, calm>>

\* Another tarball than the verified one may end earlier.
PopulateEnds(p) ==
    /\ pc[p] \in PopulatePcs
    /\ \/ todo[p] = {}
       \/ pc[p] = "extract" /\ cache[Tarball(ver[p], src[p])] = "bad"
    /\ todo' = [todo EXCEPT ![p] = {}]
    /\ Goto(p, "receipt_open")
    /\ UNCHANGED <<disk, args, calm>>

\* What has been written stays; there is no receipt.
PopulateFails(p) ==
    /\ pc[p] \in PopulatePcs
    /\ \/ Fault("disk")
       \/ pc[p] = "extract" /\ cache[Tarball(ver[p], src[p])] # "good"
       \/ pc[p] = "make_install" /\ Fault("build")
    /\ todo' = [todo EXCEPT ![p] = {}]
    /\ Return(p, IF pc[p] = "extract" THEN "ARCHIVE" ELSE "ERROR")
    /\ UNCHANGED <<disk, args, calm>>

OpenReceipt(p) ==
    LET v == ver[p] IN
    /\ pc[p] = "receipt_open"
    /\ \/ /\ v \in dirs
          /\ receipt' = [receipt EXCEPT ![v] = "short"]
          /\ receiptFds' = [receiptFds EXCEPT ![v] = @ \cup {p}]
          /\ Goto(p, "receipt_write")
       \/ /\ v \notin dirs \/ Fault("disk")
          /\ Return(p, "ERROR")
          /\ UNCHANGED <<receipt, receiptFds>>
    /\ UNCHANGED <<topDirs, downloads, dirs, files, scratch, args, todo, calm>>

\* The text goes to the file that was opened, even if that is unlinked by now.
\* Neither fprintf's nor fclose's result is looked at.
WriteReceipt(p) ==
    LET v == ver[p] IN
    /\ pc[p] = "receipt_write"
    /\ \/ /\ p \in receiptFds[v]
          /\ receipt' = [receipt EXCEPT ![v] = "full"]
       \/ /\ p \notin receiptFds[v] \/ Fault("disk")
          /\ UNCHANGED receipt
    /\ receiptFds' = [receiptFds EXCEPT ![v] = @ \ {p}]
    /\ Return(p, "OK")
    /\ UNCHANGED <<topDirs, downloads, dirs, files, scratch, args, todo, calm>>
-----------------------------------------------------------------------------
(* rm_r, called by nvm2_uninstall ("un_rm") and nvm2_install ("in_rm") *)

\* opendir: the entries that are there now will be visited.
RmOpen(p) ==
    /\ pc[p] \in RmOpenPcs
    /\ IF ver[p] \in dirs
       THEN /\ todo' = [todo EXCEPT ![p] = Entries(ver[p])]
            /\ Goto(p, IF pc[p] = "un_rm_open" THEN "un_rm" ELSE "in_rm")
       ELSE /\ Return(p, "ERROR")
            /\ UNCHANGED todo
    /\ UNCHANGED <<disk, args, calm>>

\* readdir hands out the entries in any order, those made meanwhile too.
RmUnlink(p) ==
    LET v == ver[p] IN
    /\ pc[p] \in RmPcs
    /\ \E e \in Entries(v) :
        /\ IF e = Receipt
           THEN /\ receipt' = [receipt EXCEPT ![v] = "none"]
                /\ receiptFds' = [receiptFds EXCEPT ![v] = {}]
                /\ UNCHANGED files
           ELSE /\ files' = [files EXCEPT ![v] = @ \ {e}]
                /\ UNCHANGED <<receipt, receiptFds>>
        /\ todo' = [todo EXCEPT ![p] = @ \ {e}]
    /\ UNCHANGED <<topDirs, downloads, dirs, scratch, pc, args, ret, calm>>

\* An entry cannot be removed, or another process removed it first.
RmFails(p) ==
    /\ pc[p] \in RmPcs
    /\ Fault("unlink") \/ todo[p] \ Entries(ver[p]) # {}
    /\ todo' = [todo EXCEPT ![p] = {}]
    /\ Return(p, "ERROR")
    /\ UNCHANGED <<disk, args, calm>>

\* rmdir fails if the directory is gone or an entry nobody visited is in it.
RmDir(p) ==
    LET v == ver[p] IN
    /\ pc[p] \in RmPcs
    /\ todo[p] \cap Entries(v) = {}
    /\ todo' = [todo EXCEPT ![p] = {}]
    /\ IF v \in dirs /\ Entries(v) = {}
       THEN /\ dirs' = dirs \ {v}
            /\ IF pc[p] = "in_rm" THEN Goto(p, "ver_mkdir")
               ELSE IF cmd[p] = "reinstall" THEN Goto(p, "inst_check")
               ELSE Return(p, "OK")
       ELSE Return(p, "ERROR") /\ UNCHANGED dirs
    /\ UNCHANGED <<topDirs, downloads, files, receipt, receiptFds, scratch, args, calm>>
-----------------------------------------------------------------------------
(* nvm2_reinstall, nvm2_uninstall, is-available, exec *)

\* nvm2_check_if_the_given_version_is_available reads the list it has fetched.  Other bytes
\* may be a list as well, with the version or without.
ParseIndex(p) ==
    /\ pc[p] = "ix_parse"
    /\ \/ /\ cache[Index] \in {"good", "bad"}
          /\ IF cmd[p] = "reinstall" THEN Goto(p, "un_installed") ELSE Return(p, "OK")
       \/ (cache[Index] # "good" \/ Fault("disk")) /\ Return(p, "ERROR")
       \/ cache[Index] = "bad" /\ Return(p, "NOT_AVAILABLE")
    /\ UNCHANGED <<disk, args, todo, calm>>

\* nvm2_check_if_the_given_version_is_installed, for uninstall and reinstall.
CheckInstalled(p) ==
    LET v == ver[p] IN
    /\ pc[p] = "un_installed"
    /\ IF Installed(v) THEN Goto(p, "un_check")
                       ELSE Return(p, IF v \in dirs THEN "BROKEN" ELSE "NOT_INSTALLED")
    /\ UNCHANGED <<disk, args, todo, calm>>

\* nvm2_uninstall looks again, and calls a broken version not installed.
UninstallCheck(p) ==
    /\ pc[p] = "un_check"
    /\ IF Installed(ver[p]) THEN Goto(p, "un_rm_open")
                            ELSE Return(p, "NOT_INSTALLED")
    /\ UNCHANGED <<disk, args, todo, calm>>

ExecCheck(p) ==
    LET v == ver[p] IN
    /\ pc[p] = "ex_check"
    /\ IF Installed(v) THEN Goto(p, "ex_run")
                       ELSE Return(p, IF v \in dirs THEN "BROKEN" ELSE "NOT_INSTALLED")
    /\ UNCHANGED <<disk, args, todo, calm>>

\* execv of one of the version's commands.
ExecRun(p) ==
    /\ pc[p] = "ex_run"
    /\ \E f \in Files : Return(p, IF f \in files[ver[p]] THEN "OK" ELSE "ERROR")
    /\ UNCHANGED <<disk, args, todo, calm>>
-----------------------------------------------------------------------------
Step(p) ==
    \/ InstallCheck(p) \/ StatTopDir(p) \/ MakeTopDir(p)
    \/ FetchOpens(p) \/ ParseIndex(p) \/ Receive(p) \/ FetchEnds(p) \/ FetchFails(p)
    \/ ParseSums(p) \/ CheckCached(p) \/ VerifyFetched(p)
    \/ VersionStat(p) \/ VersionMkdir(p)
    \/ PrepareScratch(p) \/ ExtractSource(p)
    \/ FindGmake(p) \/ ExtractGmake(p) \/ Build(p)
    \/ ExtractOpen(p) \/ Populate(p) \/ PopulateEnds(p) \/ PopulateFails(p)
    \/ OpenReceipt(p) \/ WriteReceipt(p)
    \/ RmOpen(p) \/ RmUnlink(p) \/ RmFails(p) \/ RmDir(p)
    \/ CheckInstalled(p) \/ UninstallCheck(p)
    \/ ExecCheck(p) \/ ExecRun(p)

\* The process dies: its descriptors close, buffered receipt text is lost.
Kill(p) ==
    /\ pc[p] # "idle"
    /\ Fault("kill")
    /\ latest' = [f \in CacheFiles |-> latest[f] \ {p}]
    /\ receiptFds' = [v \in Versions |-> receiptFds[v] \ {p}]
    /\ todo' = [todo EXCEPT ![p] = {}]
    /\ Return(p, "killed")
    /\ UNCHANGED <<topDirs, cache, dirs, files, receipt, scratch, args, calm>>

\* From now on the environment behaves.
Settle ==
    /\ ~calm
    /\ calm' = TRUE
    /\ UNCHANGED <<disk, pc, args, todo, ret>>

Next ==
    \/ \E p \in Procs : Start(p) \/ Step(p) \/ Kill(p)
    \/ Settle

Spec == Init /\ [][Next]_vars

\* Once nothing goes wrong any more (no transfer stalls, either: libcurl is used
\* without a timeout), a running process is not stopped for ever.
Fairness == \A p \in Procs : WF_vars(calm /\ Step(p))

FairSpec == Spec /\ Fairness
-----------------------------------------------------------------------------
(* Properties *)

Complete(v) == files[v] = Files

(* The inductive invariant *)

NothingWithoutDirectory ==
    \A v \in Versions : v \notin dirs => files[v] = {} /\ receipt[v] = "none"

NothingOpenUnnamed == \A v \in Versions : receipt[v] = "none" => receiptFds[v] = {}

\* Who runs a command on the same version as another is known.
OverlapsAreShared ==
    \A p, q \in Procs :
        p # q /\ pc[p] # "idle" /\ pc[q] # "idle" /\ ver[p] = ver[q] => p \in shared

AllAlone == Exclusive => shared = {}

\* Every process is at a place of its own command.
Places ==
    \A p \in Procs :
        /\ pc[p] \in Installing => cmd[p] \in {"install", "reinstall"}
        /\ pc[p] \in Uninstalling => cmd[p] \in {"uninstall", "reinstall"}
        /\ pc[p] \in Asking => cmd[p] \in {"reinstall", "is-available"}
        /\ pc[p] \in {"ex_check", "ex_run"} => cmd[p] = "exec"

\* What a process knows about its version at each label, unless it shares it.
Progress(p) ==
    LET v == ver[p] IN
    /\ pc[p] \in Unreceipted => receipt[v] = "none"
    /\ pc[p] \in Unpacking => cache[Tarball(v, src[p])] = "good"
    /\ pc[p] \in PopulatePcs => Files \subseteq files[v] \cup todo[p]
    /\ pc[p] \in {"receipt_open", "receipt_write"} => Complete(v)
    /\ pc[p] = "receipt_write" => receipt[v] # "none"

\* What a process found out about its version stays true until it changes it itself, as
\* long as no other command runs on that version, and whatever earlier ones, also ones that
\* did run at the same time, have left of it (install.c:339-729, uninstall.c:34-52).
StoreInv ==
    /\ NothingWithoutDirectory /\ NothingOpenUnnamed
    /\ OverlapsAreShared /\ AllAlone
    /\ Places
    /\ \A p \in Procs \ shared : Progress(p)

Status(v) ==
    IF v \notin dirs THEN "absent"
    ELSE IF receipt[v] = "none" THEN "broken"
    ELSE IF Complete(v) THEN "installed" ELSE "damaged"

Lifecycle == INSTANCE VersionLifecycle WITH status <- [v \in Versions |-> Status(v)]

\* Whatever fails, every version goes through the states of its lifecycle: it is
\* never reported installed before its tree is complete, and it disappears only
\* after its receipt (install.c:599-728, uninstall.c:34-52, rm-r.c:27-89).
ImplementsLifecycle == Lifecycle!Spec

\* A receipt appears only over a complete tree: neither a broken-off extraction nor
\* a failed build, nor the leftovers of either, ever gets one, except from an install next
\* to which another command ran on the same version (install.c:549, 585, 702-711).
ReceiptOnlyOverCompleteTree ==
    [][\A v \in Versions :
          receipt[v] = "none" /\ receipt'[v] # "none" =>
              Complete(v) \/ \E p \in shared : ver[p] = v /\ pc[p] = "receipt_open"]_vars

\* An installed version loses files only to a command asked to remove it, and to an install
\* that looked for the receipt before another one finished: the rm_r with which install
\* clears a half-made directory hits a finished version only then (install.c:368 and 610
\* look at different moments).
OnlyUninstallDamages ==
    [][\A v \in Versions :
          Installed(v) /\ Complete(v) /\ ~(Installed(v) /\ Complete(v))' =>
              \E p \in Procs :
                  /\ ver[p] = v
                  /\ \/ pc[p] = "un_rm" /\ cmd[p] \in {"uninstall", "reinstall"}
                     \/ pc[p] = "in_rm" /\ p \in shared]_vars

\* A command that reports success has done its work at that moment, unless another one ran
\* on the same version: install leaves an installed version, complete if it was the one to
\* unpack it, and uninstall leaves no trace (install.c:370, 728; uninstall.c:44).
SuccessIsTrue ==
    [][\A p \in Procs \ shared :
          pc[p] # "idle" /\ pc'[p] = "idle" /\ ret'[p] = "OK" =>
              /\ cmd[p] \in {"install", "reinstall"} => Installed(ver[p])'
              /\ pc[p] = "receipt_write" => Complete(ver[p])'
              /\ cmd[p] = "uninstall" => ver[p] \notin dirs' /\ Entries(ver[p])' = {}]_vars

\* In the absence of faults, a command next to which no other one runs on the same version
\* fails only where it meets others: two first commands ever race to make a directory of
\* ~/.nvm2 (install.c:385, 402, 605, 641, check.c:61, 79), or one cuts the list of versions
\* or the gmake tarball another is about to read (check.c:93, 103, install.c:238, 267); exec
\* also misses what two installs at once have left out (install.c:612).
FailsOnlyInSharedPlaces ==
    [][\A p \in Procs \ shared :
          pc[p] # "idle" /\ ret'[p] \in {"ERROR", "ARCHIVE", "SHA256_MISMATCH", "NETWORK",
                                          "NOT_AVAILABLE"}
              => \/ \E l \in DirSteps : pc[p] = MkdirPc(l) /\ DirAt(l) \in topDirs
                 \/ pc[p] = "ix_parse" /\ cache[Index] # "good"
                 \/ pc[p] \in {"gm_verify", "gm_extract"} /\ cache[Gmake] # "good"
                 \/ pc[p] = "build" /\ scratch[p] # "good"
                 \/ pc[p] = "ex_run" /\ ~Complete(ver[p])]_ret

\* A receipt stands for a complete tree, except while an uninstall is at work.
ReceiptMeansComplete ==
    \A v \in Versions : Installed(v) /\ ~Busy(v) => Complete(v)

\* Once nothing goes wrong any more, an install repairs whatever earlier commands
\* left behind: partial downloads, a half-unpacked tree, a stale installing/<pid>
\* (install.c:497, 536-591, 610-621, 653-668).
InstallRepairs ==
    \A p \in Procs, v \in Versions :
        (calm /\ pc[p] = "inst_check" /\ ver[p] = v /\ receipt[v] = "none")
            ~> (receipt[v] = "full" /\ Complete(v))

\* Once nothing goes wrong any more, every command ends.
CommandEnds ==
    \A p \in Procs : (calm /\ pc[p] # "idle") ~> (pc[p] = "idle")
=============================================================================
