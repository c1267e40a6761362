-------------------------- MODULE VersionDirectory --------------------------
(***************************************************************************)
(* The directories of installed versions, while one command changes them   *)
(* and another reads them: install and uninstall, as Nvm2Store has them    *)
(* but with rm_r's recursion (RemoveTree), and info, tree, ls-installed,   *)
(* call by call.  What a reader does changes nothing, so that one reader   *)
(* stands for any number.                                                  *)
(***************************************************************************)
EXTENDS RemoveTree, ReceiptFile

CONSTANTS
    Versions,   \* names
    Urls,       \* which kinds of tarball users install from: a subset of UrlKeys
    Torn        \* what may be left of a text when not all of it can be written

VARIABLES
    text,       \* of each version's receipt
    job,        \* what the command that changes is doing, to the version top
    query,      \* the reader's command
    rpc,        \* its next call
    about,      \* the version that call is about
    fd,         \* its open receipt: "none", "named", or "gone" when it has lost its name
    listing,    \* the entries of versions/ that readdir has still to return
    visited,    \* what it has returned so far
    printed,    \* the versions ls-installed has printed
    got,        \* the text it reads once that is certain, and has read in the end
    answer,     \* what its command returned
    was,        \* how the version info or tree is about has looked since it was started
    stayed      \* the versions installed all the time since ls-installed was started

changerVars == <<text, job>>
readerVars == <<query, rpc, about, listing, visited, printed, answer>>
fdVars == <<fd, got>>
historyVars == <<was, stayed>>
vars == <<treeVars, changerVars, fdVars, readerVars, historyVars>>

ASSUME VersionsAssumption ==
    /\ Versions # {} /\ Urls \subseteq UrlKeys /\ Urls # {} /\ Torn \subseteq Texts
    /\ \A v \in Versions : <<v>> \in Dirs /\ <<v, "receipt.yml">> \in Files \cap Shipped
-----------------------------------------------------------------------------
Whichever == CHOOSE v \in Versions : TRUE

Dir(v) == <<v>>
Receipt(v) == <<v, "receipt.yml">>

Statuses == {"none", "broken", "installed"}

Status(v) ==
    IF Dir(v) \notin there THEN "none"
    ELSE IF Receipt(v) \notin there THEN "broken"
    ELSE "installed"

Jobs == {"idle", "uninstall", "clear", "make", "fill", "receipt", "close"}
Queries == {"info", "tree", "ls"}
Calls == {"idle", "done", "stat_dir", "stat_receipt", "fopen", "read", "opendir", "readdir"}
\* NO_SUCH_FILE is NVM2_ERROR after perror's message that there is no such file; ERROR is
\* NVM2_ERROR after any other.
Refusals == {"NOT_INSTALLED", "IS_BROKEN", "NO_SUCH_FILE", "ERROR"}
Answers == Refusals \cup {"OK", "RECEIPT_SYNTAX", "RECEIPT_SCHEME", "CRASH"}

TypeOK ==
    /\ TreeTypeOK
    /\ text \in [Versions -> Texts]
    /\ job \in Jobs
    /\ query \in Queries /\ rpc \in Calls /\ about \in Versions
    /\ fd \in {"none", "named", "gone"}
    /\ listing \subseteq Versions /\ visited \subseteq Versions /\ printed \subseteq Versions
    /\ got \in Texts
    /\ answer \in Answers
    /\ was \subseteq Statuses
    /\ stayed \subseteq Versions

\* No version has been installed yet.
Init ==
    /\ TreeInit
    /\ there = {n \in Nodes : \A v \in Versions : ~IsPrefix(Dir(v), n)}
    /\ text = [v \in Versions |-> Empty]
    /\ top \in Versions /\ job = "idle"
    /\ query = "ls" /\ rpc = "idle" /\ about = Whichever
    /\ fd = "none"
    /\ listing = {} /\ visited = {} /\ printed = {}
    /\ got = Empty
    /\ answer = "OK"
    /\ was = {}
    /\ stayed = {}
-----------------------------------------------------------------------------
(* The command that changes *)

\* nvm2_uninstall, when it finds directory and receipt: otherwise it changes nothing.
Uninstall(v) ==
    /\ job = "idle" /\ Status(v) = "installed"
    /\ Begin(v)
    /\ job' = "uninstall"
    /\ UNCHANGED <<text, fdVars>>

\* nvm2_install comes to the version's directory: a directory without a receipt is
\* removed first, a version that is installed is left alone.
Install(v) ==
    /\ job = "idle"
    /\ \/ /\ Status(v) = "broken"
          /\ Begin(v)
          /\ job' = "clear"
          /\ UNCHANGED <<text, fdVars>>
       \/ /\ Status(v) = "none"
          /\ job' = "make" /\ top' = v
          /\ UNCHANGED <<there, frames, path, step, found, alone, outcome, text, fdVars>>

\* Unlinking an open receipt leaves its text to those who have it open.
KeepsText(v) ==
    IF fd = "named" /\ about = v /\ Receipt(v) \notin there'
    THEN fd' = "gone" /\ got' = text[v]
    ELSE UNCHANGED fdVars

Removes ==
    /\ job \in {"uninstall", "clear"}
    /\ \/ RmStep /\ UNCHANGED job
       \/ Returned /\ job' = IF job = "clear" /\ outcome = "OK" THEN "make" ELSE "idle"
    /\ KeepsText(top)
    /\ text' = [v \in Versions |-> IF Receipt(v) \in there' THEN text[v] ELSE Empty]

\* What the later calls of an installation leave alone.
ElseUnchanged == UNCHANGED <<rmVars, fdVars>>

MakeDir ==
    /\ job = "make"
    /\ \/ there' = there \cup {Dir(top)} /\ job' = "fill"
       \/ "disk" \in Faults /\ job' = "idle" /\ UNCHANGED there
    /\ UNCHANGED text /\ ElseUnchanged

Content(v) == (Shipped \cap Tree[v]) \ {Receipt(v)}

\* The extraction, or the installation of what was built, entry by entry.
Fill ==
    /\ job = "fill"
    /\ \/ \E n \in Content(top) \ there :
              /\ Front(n) \in there
              /\ there' = there \cup {n}
              /\ UNCHANGED job
       \/ Content(top) \subseteq there /\ job' = "receipt" /\ UNCHANGED there
       \/ "disk" \in Faults /\ job' = "idle" /\ UNCHANGED there
    /\ UNCHANGED text /\ ElseUnchanged

\* fopen "w": the text stays in the stream's buffer until fclose.
OpenReceipt ==
    /\ job = "receipt"
    /\ \/ there' = there \cup {Receipt(top)} /\ job' = "close"
       \/ "disk" \in Faults /\ job' = "idle" /\ UNCHANGED there
    /\ UNCHANGED text /\ ElseUnchanged

\* fclose writes it.  Nobody looks at what it returns.
CloseReceipt ==
    /\ job = "close"
    /\ \E t \in {Whole(url) : url \in Urls} \cup Torn :
        /\ t \in Torn => "disk" \in Faults
        /\ text' = [text EXCEPT ![top] = t]
    /\ job' = "idle"
    /\ UNCHANGED there /\ ElseUnchanged

Kill ==
    /\ "kill" \in Faults
    /\ job # "idle"
    /\ job' = "idle"
    /\ IF step # "idle" THEN Abort ELSE
           Forget /\ UNCHANGED <<there, frames, top, path, step>>
    /\ UNCHANGED <<text, fdVars>>

Others == Grow /\ UNCHANGED <<text, job, fdVars>>

Work == Removes \/ MakeDir \/ Fill \/ OpenReceipt \/ CloseReceipt

Lists == query = "ls"

\* Whatever happens while a reader runs becomes part of its history.
Watch ==
    /\ UNCHANGED <<query, rpc, about, visited, printed, answer>>
    /\ was' = IF Lists \/ rpc = "idle" THEN {} ELSE was \cup {Status(about)'}
    /\ stayed' = {v \in stayed : Status(v)' = "installed"}
    /\ listing' = {v \in listing : Dir(v) \in there'}

Change ==
    /\ rpc # "done"
    /\ \/ \E v \in Versions : Uninstall(v) \/ Install(v)
       \/ Work \/ Kill \/ Others
    /\ Watch
-----------------------------------------------------------------------------
(* The command that reads *)

Reads == UNCHANGED <<treeVars, changerVars, historyVars, query>>

Ask ==
    /\ rpc = "idle"
    /\ query' \in Queries
    /\ about' \in IF Lists' THEN {Whichever} ELSE Versions
    /\ rpc' = IF Lists' THEN "opendir" ELSE "stat_dir"
    /\ was' = IF Lists' THEN {} ELSE {Status(about')}
    /\ stayed' = IF Lists' THEN {v \in Versions : Status(v) = "installed"} ELSE {}
    /\ UNCHANGED <<treeVars, changerVars, fdVars, listing, visited, printed, answer>>

\* The user has seen the answer.
Dismiss ==
    /\ rpc = "done"
    /\ query' = "ls" /\ rpc' = "idle" /\ about' = Whichever
    /\ listing' = {} /\ visited' = {} /\ printed' = {}
    /\ got' = Empty
    /\ answer' = "OK"
    /\ was' = {} /\ stayed' = {}
    /\ UNCHANGED <<treeVars, changerVars, fd>>

\* The command returns, or goes on to its next call.
Reply(a) == rpc' = "done" /\ answer' = a
GoOn(call) == rpc' = call /\ UNCHANGED answer

StatDir ==
    /\ rpc = "stat_dir"
    /\ IF Status(about) = "none" THEN Reply("NOT_INSTALLED")
       ELSE GoOn("stat_receipt")
    /\ Reads /\ UNCHANGED <<about, fd, listing, visited, printed, got>>

\* A slip the properties catch: a version that is broken is taken for one that is not
\* there, as uninstall takes it.
StatReceiptLikeUninstall ==
    /\ rpc = "stat_receipt"
    /\ IF Status(about) # "installed" THEN Reply("NOT_INSTALLED")
       ELSE IF query = "tree" THEN \E a \in {"OK", "ERROR"} : Reply(a)
       ELSE GoOn("fopen")
    /\ Reads /\ UNCHANGED <<about, fd, listing, visited, printed, got>>

\* The receipt is looked for by its path, directory or not.  tree is then executed, if
\* users have it.
StatReceipt ==
    /\ rpc = "stat_receipt"
    /\ IF Status(about) # "installed" THEN Reply("IS_BROKEN")
       ELSE IF query = "tree" THEN \E a \in {"OK", "ERROR"} : Reply(a)
       ELSE GoOn("fopen")
    /\ Reads /\ UNCHANGED <<about, fd, listing, visited, printed, got>>

\* A receipt that is there may not be opened all the same, or there is no memory for the
\* parser.
Fopen ==
    /\ rpc = "fopen"
    /\ \/ Status(about) = "installed" /\ fd' = "named" /\ GoOn("read")
       \/ Status(about) # "installed" /\ Reply("NO_SUCH_FILE") /\ UNCHANGED fd
       \/ "disk" \in Faults /\ Reply("ERROR") /\ UNCHANGED fd
    /\ Reads /\ UNCHANGED <<about, listing, visited, printed, got>>

\* The text is read at once; the rest of nvm2_receipt_parse and of nvm2_info is local.
Read ==
    /\ rpc = "read"
    /\ got' = IF fd = "named" THEN text[about] ELSE got
    /\ Reply(Parse(got'))
    /\ fd' = "none"
    /\ Reads /\ UNCHANGED <<about, listing, visited, printed>>

OpenVersions ==
    /\ rpc = "opendir"
    /\ listing' = {v \in Versions : Dir(v) \in there}
    /\ rpc' = "readdir"
    /\ Reads /\ UNCHANGED <<about, fd, visited, printed, got, answer>>

\* A slip the properties catch: what has no receipt ends the list.
NextVersionStops ==
    /\ rpc = "readdir"
    /\ \E v \in Versions \ visited :
        /\ Dir(v) \in there
        /\ visited' = visited \cup {v}
        /\ listing' = listing \ {v}
        /\ IF Status(v) = "installed" THEN printed' = printed \cup {v} /\ UNCHANGED rpc
                                     ELSE rpc' = "done" /\ UNCHANGED printed
    /\ Reads /\ UNCHANGED <<about, fd, got, answer>>

\* readdir and the stat of the receipt.  Entries that came or went since opendir may be
\* returned or not, each at most once.
NextVersion ==
    /\ rpc = "readdir"
    /\ \E v \in Versions \ visited :
        /\ Dir(v) \in there
        /\ visited' = visited \cup {v}
        /\ listing' = listing \ {v}
        /\ printed' = printed \cup IF Status(v) = "installed" THEN {v} ELSE {}
    /\ Reads /\ UNCHANGED <<rpc, about, fd, got, answer>>

EndOfVersions ==
    /\ rpc = "readdir"
    /\ listing = {}
    /\ rpc' = "done" /\ answer' = "OK"
    /\ Reads /\ UNCHANGED <<about, fd, listing, visited, printed, got>>

Look ==
    StatDir \/ StatReceipt \/ Fopen \/ Read \/ OpenVersions \/ NextVersion \/ EndOfVersions

Next == Change \/ Ask \/ Look \/ Dismiss

Spec == Init /\ [][Next]_vars

\* The scheduler lets both commands go on: weak fairness of Work and of Look, with what
\* enables them written out, since a command that is not at its end has a next call.
FairSpec ==
    /\ Spec
    /\ []<>(job = "idle") \/ []<><<Work>>_vars
    /\ []<>(rpc \in {"idle", "done"}) \/ []<><<Look>>_vars
    /\ WF_vars(Dismiss)
-----------------------------------------------------------------------------
Promise ==
    INSTANCE Removal WITH Inside <- Tree,
                          left <- [d \in Tops |-> there \cap Tree[d]]

\* The recursion, which names everything by paths, implements what callers use of it:
\* entries go one by one in any order, and success means that nothing is left, whatever
\* other programs add meanwhile.
ImplementsRemoval == Promise!Spec

\* Two stats tell how a version looks.  However an install or an uninstall runs between
\* them, the version did look so at some moment while the command ran; when its receipt is
\* no longer there to be opened it was installed and then was being removed; and when info
\* or tree fails for another reason, it was installed (receipt-parse.c:239-266,
\* tree.c:33-63).
AnswersHeldOnce ==
    rpc = "done" /\ ~Lists =>
        CASE answer = "NOT_INSTALLED" -> "none" \in was
          [] answer = "IS_BROKEN"     -> "broken" \in was
          [] answer = "NO_SUCH_FILE"  -> {"installed", "broken"} \subseteq was
          [] OTHER                    -> "installed" \in was

\* A list that is reported complete misses no version that was installed all the while,
\* whatever versions/ has in it besides and whatever order readdir takes.
ListsAllThatStay ==
    rpc = "done" /\ Lists /\ answer = "OK" => stayed \subseteq printed

\* info presents a receipt if and only if all of it was there: what a killed install, a
\* full disk or an install that is not done leaves is never taken for one.
ReadsOnlyWholeReceipts ==
    rpc = "done" /\ query = "info" /\ answer \notin Refusals =>
        (answer = "OK" <=> IsWhole(got))

\* nvm2_receipt_check uses fields it has not asked for (receipt-parse.c:167, 172), but
\* only a receipt cut before the value of its sum makes it: one that is empty because its
\* install is not done, was killed there, or met a full disk.
CrashOnlyOnCutReceipt ==
    rpc = "done" /\ answer = "CRASH" => got.lines <= 1 /\ ~IsWhole(got)

\* Both commands end, even when links lead round in circles, since the kernel refuses
\* paths with too many of them: unless other programs add entries without end.
CommandsEnd ==
    \/ []<><<Others>>_vars
    \/ (job # "idle" ~> job = "idle") /\ (rpc # "idle" ~> rpc = "idle")
-----------------------------------------------------------------------------
(* Why that is so: what holds between any two steps. *)

\* Only a job that removes makes calls of rm_r, and what an installation makes stays.
JobInv ==
    /\ top \in Versions
    /\ job \in {"uninstall", "clear"} <=> outcome # "none"
    /\ job \in {"fill", "receipt", "close"} => Dir(top) \in there

\* What a reader has seen so far has been so.
ReaderInv ==
    /\ rpc \notin {"idle", "done"} => (Lists <=> rpc \in {"opendir", "readdir"})
    /\ rpc \notin {"idle", "done"} /\ ~Lists => Status(about) \in was
    /\ rpc \in {"stat_receipt", "fopen"} => "broken" \in was \/ Status(about) = "installed"
    /\ rpc \in {"fopen", "read"} => query = "info" /\ "installed" \in was
    /\ rpc \in {"opendir", "readdir"} => \A v \in stayed : Status(v) = "installed"
    /\ rpc = "readdir" => stayed \subseteq printed \cup listing
    /\ rpc = "done" /\ answer \notin Refusals =>
          answer = IF query = "info" THEN Parse(got) ELSE "OK"

\* What is known of a whole tree, of the job and of the reader, between any two steps of
\* either command (rm-r.c, install.c, uninstall.c, receipt-parse.c:239-256, tree.c:33-43,
\* list-installed-versions.c:77).
DirectoryInv == TreeInv /\ JobInv /\ ReaderInv
=============================================================================
