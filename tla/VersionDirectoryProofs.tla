----------------------- MODULE VersionDirectoryProofs -----------------------
(***************************************************************************)
(* What holds of the version directories whatever one command does to them *)
(* and another sees, for any trees, links and receipts; and that rm_r's    *)
(* recursion keeps the promise its callers rely on.                        *)
(***************************************************************************)
EXTENDS VersionDirectory, RemoveTreeProofs, ReceiptFileProofs

\* A version's directory is one all paths start from, and its receipt is an entry of it.
LEMMA VersionFacts ==
    ASSUME NEW v \in Versions
    PROVE  /\ v \in Tops
           /\ Dir(v) \in Dirs /\ Dir(v) \in Nodes /\ Front(Dir(v)) = <<>>
           /\ Receipt(v) \in Nodes /\ Front(Receipt(v)) = Dir(v)
  <1>1. <<v>> \in Dirs /\ <<v>> \in Nodes /\ <<v, "receipt.yml">> \in Nodes
    BY VersionsAssumption DEF Nodes
  <1>2. v \in Tops
    <2>1. Len(<<v>>) = 1 /\ <<v>>[1] = v
      OBVIOUS
    <2> QED
      BY <1>1, <2>1 DEF Tops
  <1>3. v \in STRING
    BY <1>2, TreeFacts
  <1>4. Front(<<v>>) = <<>>
    BY <1>3, Singleton, EmptySeq, FrontAndLastOfAppend
  <1>5. Front(<<v, "receipt.yml">>) = <<v>>
    <2>1. <<v>> \in Seq(STRING)
      BY <1>3, Singleton
    <2>2. "receipt.yml" \in STRING /\ Append(<<v>>, "receipt.yml") = <<v, "receipt.yml">>
      <3> DEFINE T == STRING
      <3>1. <<v, "receipt.yml">> \in Seq(T)
        BY <1>1, NodeFacts
      <3> HIDE DEF T
      <3>2. "receipt.yml" \in T
        BY <3>1
      <3>3. v \in T
        BY <1>3 DEF T
      <3>4. Append(<<v>>, "receipt.yml") = <<v, "receipt.yml">>
        BY <3>2, <3>3, Pair
      <3> QED
        BY <3>2, <3>4 DEF T
    <2>3. Front(Append(<<v>>, "receipt.yml")) = <<v>>
      BY <2>1, <2>2, FrontAndLastOfAppend
    <2> QED
      BY <2>2, <2>3
  <1> QED
    BY <1>1, <1>2, <1>4, <1>5 DEF Dir, Receipt

\* The texts there may be.
LEMMA TextFacts ==
    /\ Empty \in Texts
    /\ \A url \in Urls : Whole(url) \in Texts
    /\ Torn \subseteq Texts
    /\ \A t \in Texts : Parse(t) \in Answers
  <1>1. Empty \in Texts
    BY DEF Empty, Texts, UrlKeys, Cuts
  <1>2. \A url \in Urls : Whole(url) \in Texts
    BY VersionsAssumption DEF Whole, Texts, Cuts
  <1>3. \A t \in Texts : Parse(t) \in Answers
    BY ParseIsRight DEF Answers, Refusals
  <1> QED
    BY <1>1, <1>2, <1>3, VersionsAssumption

DirInv == TypeOK /\ DirectoryInv

AnswersInv == AnswersHeldOnce /\ ListsAllThatStay

\* A node is added below one that is there.
LEMMA AddKeeps ==
    ASSUME TreeTypeOK, TreeInv, step = "idle", NEW n \in Nodes, Front(n) \in there \cup {<<>>},
           there' = there \cup {n}, UNCHANGED rmVars
    PROVE  TreeTypeOK' /\ TreeInv' /\ there \subseteq there'
  <1>1. UNCHANGED <<frames, top, path, step, found, alone, outcome>>
    BY DEF rmVars
  <1>2. TreeOK'
    BY DEF TreeOK, TreeTypeOK, Closed
  <1>3. top' \in Tops
    BY <1>1 DEF TreeTypeOK
  <1> QED
    BY <1>1, <1>2, <1>3, IdleKeeps

\* Nothing is removed for an installation but by the calls of rm_r.
LEMMA Idle ==
    ASSUME DirInv, job \notin {"uninstall", "clear"}
    PROVE  step = "idle" /\ outcome = "none" /\ frames = <<>> /\ path = <<>>
  BY DEF DirInv, DirectoryInv, JobInv, TreeInv, CallsNest, TypeOK, TreeTypeOK

Held == \A v \in Versions : Status(v) = "installed" => Status(v)' # "none"

\* A version that loses nothing stays installed.
LEMMA HeldWhenAdded ==
    ASSUME there \subseteq there'
    PROVE  Held
  BY DEF Held, Status, Dir, Receipt

\* Steps that remove: from an installed version no step takes the directory.
LEMMA RemovesKeeps ==
    ASSUME DirInv, Removes
    PROVE  /\ TreeTypeOK' /\ TreeInv' /\ JobInv' /\ job' \in Jobs
           /\ text' \in [Versions -> Texts] /\ fd' \in {"none", "named", "gone"} /\ got' \in Texts
           /\ Held
  <1>0. TreeTypeOK /\ TreeInv /\ JobInv /\ TypeOK /\ job \in {"uninstall", "clear"} /\ top \in Versions
    BY DEF Removes, DirInv, DirectoryInv, JobInv, TypeOK
  <1>1. text' \in [Versions -> Texts] /\ fd' \in {"none", "named", "gone"} /\ got' \in Texts
    <2>1. text \in [Versions -> Texts] /\ Empty \in Texts /\ got \in Texts
          /\ fd \in {"none", "named", "gone"}
      BY <1>0, TextFacts DEF TypeOK
    <2>2. text' \in [Versions -> Texts]
      BY <2>1 DEF Removes
    <2>3. KeepsText(top)
      BY DEF Removes
    <2>4. fd' \in {"none", "named", "gone"} /\ got' \in Texts
      BY <1>0, <2>1, <2>3 DEF KeepsText, fdVars
    <2> QED
      BY <2>2, <2>4
  <1>2. CASE RmStep /\ UNCHANGED job
    <2>1. TreeTypeOK' /\ TreeInv'
      BY <1>0, <1>2, RmStepKeeps
    <2>2. outcome' # "none" /\ top' = top
      BY <1>0, <1>2, RmStepRuns
    <2>3. JobInv'
      BY <1>0, <1>2, <2>2 DEF JobInv
    <2>4. Held
      <3> SUFFICES ASSUME NEW v \in Versions, Status(v) = "installed", Status(v)' = "none" PROVE FALSE
        BY DEF Held
      <3>1. Dir(v) \in there \ there' /\ Receipt(v) \in there
        BY DEF Status, Dir, Receipt
      <3>2. Entries(Dir(v)) = {}
        BY <1>0, <1>2, <3>1, RmStepTakesLeaves
      <3> QED
        BY <3>1, <3>2, VersionFacts DEF Entries
    <2> QED
      BY <1>0, <1>1, <1>2, <2>1, <2>3, <2>4 DEF TypeOK
  <1>3. CASE Returned /\ job' = IF job = "clear" /\ outcome = "OK" THEN "make" ELSE "idle"
    <2>1. /\ step = "idle" /\ Forget /\ UNCHANGED <<there, frames, top, path, step>>
          /\ outcome' = "none"
      BY <1>3 DEF Returned, Forget
    <2>2. TreeTypeOK' /\ TreeInv'
      BY <1>0, <2>1, ForgetKeeps
    <2>3. JobInv' /\ job' \in Jobs
      BY <1>0, <1>3, <2>1 DEF JobInv, Jobs
    <2>4. Held
      BY <2>1, HeldWhenAdded
    <2> QED
      BY <1>1, <2>2, <2>3, <2>4
  <1> QED
    BY <1>2, <1>3 DEF Removes

\* Steps that start: a removal, or an installation where nothing is.
LEMMA StartsKeep ==
    ASSUME DirInv, NEW v \in Versions, Uninstall(v) \/ Install(v)
    PROVE  /\ TreeTypeOK' /\ TreeInv' /\ JobInv' /\ job' \in Jobs
           /\ UNCHANGED <<text, fd, got, there>>
  <1>0. TreeTypeOK /\ TreeInv /\ JobInv /\ job = "idle" /\ v \in Tops
    BY VersionFacts DEF DirInv, DirectoryInv, TypeOK, Uninstall, Install
  <1>1. CASE Begin(v) /\ job' \in {"uninstall", "clear"} /\ UNCHANGED <<text, fdVars>>
    <2>1. TreeTypeOK' /\ TreeInv'
      BY <1>0, <1>1, BeginKeeps
    <2>2. outcome' # "none" /\ top' = v /\ there' = there
      BY <1>1 DEF Begin
    <2>3. JobInv' /\ job' \in Jobs
      BY <1>0, <1>1, <2>2 DEF JobInv, Jobs
    <2> QED
      BY <1>1, <2>1, <2>2, <2>3 DEF fdVars
  <1>2. CASE /\ job' = "make" /\ top' = v
             /\ UNCHANGED <<there, frames, path, step, found, alone, outcome, text, fdVars>>
    <2>1. step = "idle" /\ outcome = "none"
      BY <1>0, Idle
    <2>2. TreeOK'
      BY <1>0, <1>2 DEF TreeTypeOK, TreeOK, Closed
    <2>3. TreeTypeOK' /\ TreeInv'
      BY <1>0, <1>2, <2>1, <2>2, IdleKeeps
    <2>4. JobInv' /\ job' \in Jobs
      BY <1>0, <1>2, <2>1 DEF JobInv, Jobs
    <2> QED
      BY <1>2, <2>3, <2>4 DEF fdVars
  <1> QED
    BY <1>1, <1>2 DEF Uninstall, Install

\* Steps of an installation: they only add.
LEMMA InstallsKeep ==
    ASSUME DirInv, MakeDir \/ Fill \/ OpenReceipt \/ CloseReceipt
    PROVE  /\ TreeTypeOK' /\ TreeInv' /\ JobInv' /\ job' \in Jobs
           /\ text' \in [Versions -> Texts] /\ UNCHANGED <<fd, got, top, outcome>>
           /\ there' = there \/ \E n \in Nodes \ there : there' = there \cup {n}
  <1>0. /\ TreeTypeOK /\ TreeInv /\ JobInv /\ job \in {"make", "fill", "receipt", "close"}
        /\ top \in Versions /\ text \in [Versions -> Texts]
        /\ step = "idle" /\ outcome = "none"
    BY Idle DEF DirInv, DirectoryInv, TypeOK, JobInv, MakeDir, Fill, OpenReceipt, CloseReceipt
  <1>1. UNCHANGED rmVars /\ UNCHANGED <<fd, got, top, outcome>>
    BY DEF MakeDir, Fill, OpenReceipt, CloseReceipt, ElseUnchanged, rmVars, fdVars
  <1>2. ASSUME there' = there
        PROVE  TreeTypeOK' /\ TreeInv'
    BY <1>0, <1>1, <1>2, NothingKeeps DEF treeVars
  <1>3. ASSUME NEW n \in Nodes, Front(n) \in there \cup {<<>>}, there' = there \cup {n}
        PROVE  TreeTypeOK' /\ TreeInv'
    BY <1>0, <1>1, <1>3, AddKeeps
  <1>4. CASE MakeDir
    <2>1. Dir(top) \in Nodes /\ Front(Dir(top)) = <<>>
      BY <1>0, VersionFacts
    <2>2. TreeTypeOK' /\ TreeInv' /\ (there' = there \/ \E n \in Nodes \ there : there' = there \cup {n})
      BY <1>2, <1>3, <1>4, <2>1 DEF MakeDir
    <2>3. JobInv' /\ job' \in Jobs
      BY <1>0, <1>1, <1>4 DEF MakeDir, JobInv, Jobs, Dir
    <2> QED
      BY <1>0, <1>1, <1>4, <2>2, <2>3 DEF MakeDir
  <1>5. CASE Fill
    <2>1. Content(top) \subseteq Nodes
      BY TreeAssumption DEF Content
    <2>2. TreeTypeOK' /\ TreeInv' /\ (there' = there \/ \E n \in Nodes \ there : there' = there \cup {n})
      BY <1>2, <1>3, <1>5, <2>1 DEF Fill
    <2>3. JobInv' /\ job' \in Jobs
      BY <1>0, <1>1, <1>5 DEF Fill, JobInv, Jobs, Dir
    <2> QED
      BY <1>0, <1>1, <1>5, <2>2, <2>3 DEF Fill
  <1>6. CASE OpenReceipt
    <2>1. Receipt(top) \in Nodes /\ Front(Receipt(top)) \in there
      BY <1>0, <1>6, VersionFacts DEF JobInv, OpenReceipt
    <2>2. TreeTypeOK' /\ TreeInv' /\ (there' = there \/ \E n \in Nodes \ there : there' = there \cup {n})
      BY <1>2, <1>3, <1>6, <2>1 DEF OpenReceipt
    <2>3. JobInv' /\ job' \in Jobs
      BY <1>0, <1>1, <1>6 DEF OpenReceipt, JobInv, Jobs, Dir
    <2> QED
      BY <1>0, <1>1, <1>6, <2>2, <2>3 DEF OpenReceipt
  <1>7. CASE CloseReceipt
    <2>1. TreeTypeOK' /\ TreeInv' /\ there' = there
      BY <1>2, <1>7 DEF CloseReceipt
    <2>2. JobInv' /\ job' \in Jobs
      BY <1>0, <1>1, <1>7 DEF CloseReceipt, JobInv, Jobs
    <2>3. text' \in [Versions -> Texts]
      BY <1>0, <1>7, TextFacts DEF CloseReceipt
    <2> QED
      BY <1>1, <2>1, <2>2, <2>3
  <1> QED
    BY <1>4, <1>5, <1>6, <1>7

\* The command that changes is killed: what is there stays.
LEMMA KillKeeps ==
    ASSUME DirInv, Kill
    PROVE  /\ TreeTypeOK' /\ TreeInv' /\ JobInv' /\ job' \in Jobs
           /\ UNCHANGED <<text, fd, got, there, top>> /\ outcome' = "none"
  <1>0. TreeTypeOK /\ TreeInv /\ JobInv
    BY DEF DirInv, DirectoryInv, TypeOK
  <1>1. job' = "idle" /\ outcome' = "none" /\ UNCHANGED <<text, fd, got, there, top>>
    BY DEF Kill, Abort, Forget, fdVars
  <1>2. TreeTypeOK' /\ TreeInv'
    BY <1>0, AbortKeeps, ForgetKeeps DEF Kill
  <1>3. JobInv' /\ job' \in Jobs
    BY <1>0, <1>1 DEF JobInv, Jobs
  <1> QED
    BY <1>1, <1>2, <1>3

\* Other programs add.
LEMMA OthersKeep ==
    ASSUME DirInv, Others
    PROVE  /\ TreeTypeOK' /\ TreeInv' /\ JobInv' /\ job' \in Jobs
           /\ UNCHANGED <<text, fd, got, top, outcome>>
           /\ \E n \in Nodes \ there : there' = there \cup {n}
  <1>0. TreeTypeOK /\ TreeInv /\ JobInv /\ job \in Jobs
    BY DEF DirInv, DirectoryInv, TypeOK
  <1>1. TreeTypeOK' /\ TreeInv'
    BY <1>0, GrowKeeps DEF Others
  <1>2. /\ UNCHANGED <<text, job, fd, got, top, outcome>>
        /\ \E n \in Nodes \ there : there' = there \cup {n}
    BY DEF Others, Grow, fdVars
  <1>3. JobInv'
    BY <1>0, <1>2 DEF JobInv, Dir
  <1> QED
    BY <1>0, <1>1, <1>2, <1>3
-----------------------------------------------------------------------------
(* The invariant *)

\* Initially no version is installed, and nothing runs.
LEMMA InitHolds ==
    ASSUME Init
    PROVE  DirInv /\ AnswersInv
  <1>1. TreeOK
    <2>1. there = {n \in Nodes : \A v \in Versions : ~IsPrefix(Dir(v), n)}
      BY DEF Init
    <2>2. ASSUME NEW n \in there, Front(n) # <<>> PROVE Front(n) \in there
      <3>1. n \in Nodes /\ Front(n) \in Nodes /\ Front(n) \in Seq(STRING)
            /\ n = Append(Front(n), Last(n)) /\ Last(n) \in STRING
        BY <2>1, <2>2, NodeFacts DEF Nodes
      <3>2. ASSUME NEW v \in Versions, IsPrefix(Dir(v), Front(n)) PROVE FALSE
        <4>1. Dir(v) \in Seq(STRING)
          BY VersionFacts, NodeFacts
        <4>2. IsPrefix(Dir(v), n)
          BY <3>1, <3>2, <4>1, PrefixAppend
        <4> QED
          BY <2>1, <4>2
      <3> QED
        BY <2>1, <3>1, <3>2
    <2> QED
      BY <2>1, <2>2 DEF TreeOK, Closed
  <1>2. TreeTypeOK /\ TreeInv
    BY <1>1, TreeInitInv DEF Init
  <1>3. Whichever \in Versions
    BY VersionsAssumption DEF Whichever
  <1>4. TypeOK
    BY <1>2, <1>3, TextFacts DEF Init, TypeOK, Jobs, Queries, Calls, Answers, Refusals
  <1>5. JobInv /\ ReaderInv
    BY DEF Init, TreeInit, JobInv, ReaderInv
  <1>6. AnswersInv
    BY DEF Init, AnswersInv, AnswersHeldOnce, ListsAllThatStay
  <1> QED
    BY <1>2, <1>4, <1>5, <1>6 DEF DirInv, DirectoryInv

\* Whatever the command that changes does, it keeps the tree, and an installed version
\* is not gone in one step.
LEMMA ChangeKeeps ==
    ASSUME DirInv, Change
    PROVE  /\ TreeTypeOK' /\ TreeInv' /\ JobInv' /\ job' \in Jobs
           /\ text' \in [Versions -> Texts] /\ fd' \in {"none", "named", "gone"} /\ got' \in Texts
           /\ Held
  <1>0. text \in [Versions -> Texts] /\ fd \in {"none", "named", "gone"} /\ got \in Texts
    BY DEF DirInv, TypeOK
  <1>1. CASE \E v \in Versions : Uninstall(v) \/ Install(v)
    BY <1>0, <1>1, StartsKeep, HeldWhenAdded
  <1>2. CASE Removes
    BY <1>2, RemovesKeeps
  <1>3. CASE MakeDir \/ Fill \/ OpenReceipt \/ CloseReceipt
    <2>1. there \subseteq there'
      BY <1>3, InstallsKeep
    <2> QED
      BY <1>0, <1>3, <2>1, InstallsKeep, HeldWhenAdded
  <1>4. CASE Kill
    BY <1>0, <1>4, KillKeeps, HeldWhenAdded
  <1>5. CASE Others
    <2>1. there \subseteq there'
      BY <1>5, OthersKeep
    <2> QED
      BY <1>0, <1>5, <2>1, OthersKeep, HeldWhenAdded
  <1> QED
    BY <1>1, <1>2, <1>3, <1>4, <1>5 DEF Change, Work

\* What a reader knows stays so while the other command runs.
LEMMA ChangeKeepsReader ==
    ASSUME DirInv, Change
    PROVE  DirInv' /\ AnswersInv'
  <1>1. /\ TreeTypeOK' /\ TreeInv' /\ JobInv' /\ job' \in Jobs
        /\ text' \in [Versions -> Texts] /\ fd' \in {"none", "named", "gone"} /\ got' \in Texts
        /\ Held
    BY ChangeKeeps
  <1>2. /\ UNCHANGED <<query, rpc, about, visited, printed, answer>> /\ rpc # "done"
        /\ was' = IF Lists \/ rpc = "idle" THEN {} ELSE was \cup {Status(about)'}
        /\ stayed' = {v \in stayed : Status(v)' = "installed"}
        /\ listing' = {v \in listing : Dir(v) \in there'}
    BY DEF Change, Watch
  <1>3. TypeOK /\ ReaderInv /\ about \in Versions /\ stayed \subseteq Versions
    BY DEF DirInv, DirectoryInv, TypeOK
  <1>4. Status(about)' \in Statuses
    BY DEF Status, Statuses
  <1>5. TypeOK'
    BY <1>1, <1>2, <1>3, <1>4 DEF TypeOK
  <1>6. \A v : Status(v)' = "installed" => Dir(v) \in there'
    BY DEF Status, Dir
  <1>7. Status(about)' \in {"none", "broken", "installed"}
    BY <1>4 DEF Statuses
  <1>8. Lists' = Lists
    BY <1>2 DEF Lists
  <1>9. rpc \notin {"idle", "done"} /\ ~Lists => Status(about)' \in was' /\ was \subseteq was'
    BY <1>2
  <1>10. rpc \in {"stat_receipt", "fopen"} => "broken" \in was' \/ Status(about)' = "installed"
    <2>1. rpc \in {"stat_receipt", "fopen"} => rpc \notin {"idle", "done"} /\ ~Lists
      BY <1>3 DEF ReaderInv
    <2>2. rpc \in {"stat_receipt", "fopen"} => "broken" \in was \/ Status(about) = "installed"
      BY <1>3 DEF ReaderInv
    <2>3. Status(about) = "installed" => Status(about)' # "none"
      BY <1>1, <1>2, <1>3 DEF Held, Status, Dir, Receipt
    <2> QED
      BY <1>7, <1>9, <2>1, <2>2, <2>3
  <1>11. rpc \in {"fopen", "read"} => query = "info" /\ "installed" \in was'
    BY <1>3, <1>9 DEF ReaderInv, Lists
  <1>12. rpc = "readdir" => stayed' \subseteq printed \cup listing'
    BY <1>2, <1>3, <1>6 DEF ReaderInv
  <1>13. ReaderInv'
    BY <1>2, <1>3, <1>8, <1>9, <1>10, <1>11, <1>12 DEF ReaderInv
  <1>14. AnswersInv'
    BY <1>2 DEF AnswersInv, AnswersHeldOnce, ListsAllThatStay
  <1> QED
    BY <1>1, <1>5, <1>13, <1>14 DEF DirInv, DirectoryInv

\* What a reader does changes nothing it reads.
LEMMA ReaderKeepsTree ==
    ASSUME DirInv, UNCHANGED <<treeVars, changerVars>>
    PROVE  /\ TreeTypeOK' /\ TreeInv' /\ JobInv'
           /\ UNCHANGED <<there, text, job>>
           /\ \A v \in Versions : Status(v)' = Status(v)
  <1>1. UNCHANGED <<there, text, job, top, outcome>>
    BY DEF treeVars, rmVars, changerVars
  <1>2. TreeTypeOK' /\ TreeInv'
    BY NothingKeeps DEF DirInv, DirectoryInv, TypeOK
  <1>3. JobInv'
    BY <1>1 DEF DirInv, DirectoryInv, JobInv, Dir
  <1>4. \A v \in Versions : Status(v)' = Status(v)
    BY <1>1 DEF Status, Dir, Receipt
  <1> QED
    BY <1>1, <1>2, <1>3, <1>4

\* A reader is started.
LEMMA AskKeeps ==
    ASSUME DirInv, Ask
    PROVE  DirInv' /\ AnswersInv'
  <1>1. /\ query' \in Queries /\ about' \in Versions
        /\ rpc' = IF Lists' THEN "opendir" ELSE "stat_dir"
        /\ was' = IF Lists' THEN {} ELSE {Status(about')}
        /\ stayed' = IF Lists' THEN {v \in Versions : Status(v) = "installed"} ELSE {}
        /\ UNCHANGED <<fd, got, listing, visited, printed, answer>>
        /\ UNCHANGED <<treeVars, changerVars>>
    <2>1. Whichever \in Versions
      BY VersionsAssumption DEF Whichever
    <2> QED
      BY <2>1 DEF Ask, fdVars
  <1>2. /\ TreeTypeOK' /\ TreeInv' /\ JobInv' /\ UNCHANGED <<there, text, job>>
        /\ \A v \in Versions : Status(v)' = Status(v)
    BY <1>1, ReaderKeepsTree
  <1>3. TypeOK'
    <2>1. \A v : Status(v) \in Statuses
      BY DEF Status, Statuses
    <2> QED
      BY <1>1, <1>2, <2>1 DEF DirInv, TypeOK, Calls
  <1>4. Status(about)' = Status(about')
    BY <1>2 DEF Status, Dir, Receipt
  <1>5. ReaderInv'
    BY <1>1, <1>2, <1>4 DEF ReaderInv, Lists
  <1>6. AnswersInv'
    BY <1>1 DEF AnswersInv, AnswersHeldOnce, ListsAllThatStay
  <1> QED
    BY <1>2, <1>3, <1>5, <1>6 DEF DirInv, DirectoryInv

\* The user has seen the answer.
LEMMA DismissKeeps ==
    ASSUME DirInv, Dismiss
    PROVE  DirInv' /\ AnswersInv'
  <1>1. /\ query' = "ls" /\ rpc' = "idle" /\ about' = Whichever
        /\ listing' = {} /\ visited' = {} /\ printed' = {} /\ got' = Empty /\ answer' = "OK"
        /\ was' = {} /\ stayed' = {} /\ UNCHANGED fd
        /\ UNCHANGED <<treeVars, changerVars>>
    BY DEF Dismiss
  <1>2. TreeTypeOK' /\ TreeInv' /\ JobInv' /\ UNCHANGED <<there, text, job>>
    BY <1>1, ReaderKeepsTree
  <1>3. Whichever \in Versions
    BY VersionsAssumption DEF Whichever
  <1>4. TypeOK'
    BY <1>1, <1>2, <1>3, TextFacts DEF DirInv, TypeOK, Calls, Queries, Answers, Refusals
  <1>5. ReaderInv' /\ AnswersInv'
    BY <1>1 DEF ReaderInv, AnswersInv, AnswersHeldOnce, ListsAllThatStay
  <1> QED
    BY <1>2, <1>4, <1>5 DEF DirInv, DirectoryInv

\* The calls of info and tree.
LEMMA InfoCallsKeep ==
    ASSUME DirInv, StatDir \/ StatReceipt \/ Fopen \/ Read
    PROVE  DirInv' /\ AnswersInv'
  <1>1. /\ UNCHANGED <<treeVars, changerVars, query, about, listing, visited, printed, was, stayed>>
        /\ rpc \in {"stat_dir", "stat_receipt", "fopen", "read"}
    BY DEF StatDir, StatReceipt, Fopen, Read, Reads, historyVars
  <1>2. /\ TreeTypeOK' /\ TreeInv' /\ JobInv' /\ UNCHANGED <<there, text, job>>
    BY <1>1, ReaderKeepsTree
  <1>3. /\ TypeOK /\ ReaderInv /\ about \in Versions /\ text \in [Versions -> Texts] /\ got \in Texts
        /\ answer \in Answers /\ fd \in {"none", "named", "gone"}
    BY DEF DirInv, DirectoryInv, TypeOK
  <1>4. /\ ~Lists /\ ~Lists' /\ Status(about) \in was
        /\ rpc = "stat_receipt" => "broken" \in was \/ Status(about) = "installed"
        /\ rpc = "fopen" => "broken" \in was \/ Status(about) = "installed"
        /\ rpc \in {"fopen", "read"} => query = "info" /\ "installed" \in was
    BY <1>1, <1>3 DEF ReaderInv, Lists
  <1>5. Status(about)' = Status(about) /\ Status(about) \in {"none", "broken", "installed"}
    BY <1>1, <1>2 DEF Status, Dir, Receipt
  <1>6. /\ rpc' \in {"done", "stat_receipt", "fopen", "read"} /\ fd' \in {"none", "named", "gone"}
        /\ got' \in Texts /\ answer' \in Answers
    BY <1>3, TextFacts DEF StatDir, StatReceipt, Fopen, Read, Reply, GoOn, Answers, Refusals
  <1>7. TypeOK'
    BY <1>1, <1>2, <1>3, <1>6 DEF TypeOK, Calls
  <1>8. /\ rpc' = "stat_receipt" => "broken" \in was \/ Status(about) = "installed"
        /\ rpc' = "fopen" => "broken" \in was \/ Status(about) = "installed"
        /\ rpc' \in {"fopen", "read"} => query = "info" /\ "installed" \in was
    BY <1>1, <1>3, <1>4, <1>5 DEF StatDir, StatReceipt, Fopen, Read, Reply, GoOn, TypeOK, Queries, Lists
  <1>9. rpc' = "done" =>
           /\ answer' = "NOT_INSTALLED" => "none" \in was
           /\ answer' = "IS_BROKEN" => "broken" \in was
           /\ answer' = "NO_SUCH_FILE" => {"installed", "broken"} \subseteq was
           /\ answer' = "ERROR" => "installed" \in was
           /\ answer' \notin Refusals =>
                 "installed" \in was /\ answer' = IF query = "info" THEN Parse(got') ELSE "OK"
    <2>1. CASE StatDir
      BY <1>4, <2>1 DEF StatDir, Reply, GoOn, Refusals
    <2>2. CASE StatReceipt
      BY <1>4, <1>5, <2>2 DEF StatReceipt, Reply, GoOn, Refusals
    <2>3. CASE Fopen
      BY <1>4, <2>3 DEF Fopen, Reply, GoOn, Refusals
    <2>4. CASE Read
      BY <1>3, <1>4, <2>4, ParseIsRight DEF Read, Reply, Refusals
    <2> QED
      BY <2>1, <2>2, <2>3, <2>4
  <1>10. ReaderInv'
    BY <1>1, <1>4, <1>5, <1>6, <1>8, <1>9 DEF ReaderInv
  <1>11. AnswersInv'
    BY <1>1, <1>4, <1>9 DEF AnswersInv, AnswersHeldOnce, ListsAllThatStay, Refusals
  <1> QED
    BY <1>2, <1>7, <1>10, <1>11 DEF DirInv, DirectoryInv

\* The calls of ls-installed.
LEMMA ListCallsKeep ==
    ASSUME DirInv, OpenVersions \/ NextVersion \/ EndOfVersions
    PROVE  DirInv' /\ AnswersInv'
  <1>1. /\ UNCHANGED <<treeVars, changerVars, query, about, fd, got, was, stayed>>
        /\ rpc \in {"opendir", "readdir"}
    BY DEF OpenVersions, NextVersion, EndOfVersions, Reads, historyVars
  <1>2. /\ TreeTypeOK' /\ TreeInv' /\ JobInv' /\ UNCHANGED <<there, text, job>>
        /\ \A v \in Versions : Status(v)' = Status(v)
    BY <1>1, ReaderKeepsTree
  <1>3. /\ TypeOK /\ stayed \subseteq Versions /\ listing \subseteq Versions
        /\ visited \subseteq Versions /\ printed \subseteq Versions /\ answer \in Answers
        /\ Lists /\ Lists'
        /\ \A v \in stayed : Status(v) = "installed"
        /\ rpc = "readdir" => stayed \subseteq printed \cup listing
    BY <1>1 DEF DirInv, DirectoryInv, TypeOK, ReaderInv, Lists
  <1>4. /\ rpc' \in {"readdir", "done"}
        /\ listing' \subseteq Versions /\ visited' \subseteq Versions /\ printed' \subseteq Versions
        /\ answer' \in Answers
        /\ rpc' = "done" => answer' = "OK"
    BY <1>3 DEF OpenVersions, NextVersion, EndOfVersions, Answers, Refusals
  <1>5. TypeOK'
    BY <1>1, <1>2, <1>3, <1>4 DEF TypeOK, Calls
  <1>6. stayed \subseteq printed' \cup listing' /\ (rpc' = "done" => stayed \subseteq printed')
    <2>1. \A v \in stayed : Dir(v) \in there
      BY <1>3 DEF Status
    <2>2. CASE OpenVersions
      BY <1>3, <2>1, <2>2 DEF OpenVersions
    <2>3. CASE NextVersion
      <3>1. PICK v \in Versions \ visited :
               /\ listing' = listing \ {v}
               /\ printed' = printed \cup IF Status(v) = "installed" THEN {v} ELSE {}
               /\ rpc' = "readdir" /\ rpc = "readdir"
        BY <2>3 DEF NextVersion
      <3>2. v \in stayed => v \in printed'
        BY <1>3, <3>1
      <3> QED
        BY <1>3, <3>1, <3>2
    <2>4. CASE EndOfVersions
      BY <1>3, <2>4 DEF EndOfVersions
    <2> QED
      BY <2>2, <2>3, <2>4
  <1>7. ReaderInv'
    <2>1. \A v \in stayed' : Status(v)' = "installed"
      BY <1>1, <1>2, <1>3
    <2>2. query' # "info"
      BY <1>3 DEF Lists
    <2> QED
      BY <1>1, <1>3, <1>4, <1>6, <2>1, <2>2 DEF ReaderInv
  <1>8. AnswersInv'
    BY <1>1, <1>3, <1>6 DEF AnswersInv, AnswersHeldOnce, ListsAllThatStay
  <1> QED
    BY <1>2, <1>5, <1>7, <1>8 DEF DirInv, DirectoryInv

\* Every step keeps the invariant: the tree's part by what rm_r's steps keep, the
\* reader's because no version is ever seen to pass from installed to gone at once.
LEMMA Invariance == Spec => [](DirInv /\ AnswersInv)
  <1>1. Init => DirInv /\ AnswersInv
    BY InitHolds
  <1>2. DirInv /\ AnswersInv /\ [Next]_vars => DirInv' /\ AnswersInv'
    <2> SUFFICES ASSUME DirInv, AnswersInv, [Next]_vars
                 PROVE  DirInv' /\ AnswersInv'
      OBVIOUS
    <2>1. CASE Change
      BY <2>1, ChangeKeepsReader
    <2>2. CASE Ask
      BY <2>2, AskKeeps
    <2>3. CASE StatDir \/ StatReceipt \/ Fopen \/ Read
      BY <2>3, InfoCallsKeep
    <2>4. CASE OpenVersions \/ NextVersion \/ EndOfVersions
      BY <2>4, ListCallsKeep
    <2>5. CASE Dismiss
      BY <2>5, DismissKeeps
    <2>6. CASE UNCHANGED vars
      <3>1. /\ UNCHANGED <<treeVars, changerVars>>
            /\ UNCHANGED <<fd, got, query, rpc, about, listing, visited, printed, answer, was, stayed>>
        BY <2>6 DEF vars, fdVars, readerVars, historyVars
      <3>2. /\ TreeTypeOK' /\ TreeInv' /\ JobInv' /\ UNCHANGED <<there, text, job>>
            /\ \A v \in Versions : Status(v)' = Status(v)
        BY <3>1, ReaderKeepsTree
      <3>3. TypeOK'
        BY <3>1, <3>2 DEF DirInv, TypeOK
      <3>4. Status(about)' = Status(about) /\ (Lists' <=> Lists)
        BY <3>1, <3>2 DEF Status, Dir, Receipt, Lists
      <3>5. \A v \in stayed' : Status(v) = Status(v)'
        BY <3>1, <3>2 DEF DirInv, TypeOK
      <3>6. ReaderInv'
        BY <3>1, <3>4, <3>5 DEF DirInv, DirectoryInv, ReaderInv
      <3>7. AnswersInv'
        BY <3>1, <3>4 DEF AnswersInv, AnswersHeldOnce, ListsAllThatStay
      <3> QED
        BY <3>2, <3>3, <3>6, <3>7 DEF DirInv, DirectoryInv
    <2> QED
      BY <2>1, <2>2, <2>3, <2>4, <2>5, <2>6 DEF Next, Look
  <1> QED
    BY <1>1, <1>2, PTL DEF Spec
-----------------------------------------------------------------------------
(* What follows *)

\* Every variable has the values it is meant to have.
THEOREM TypeCorrect == Spec => []TypeOK
  BY Invariance, PTL DEF DirInv

\* What holds between any two steps of the commands.
THEOREM DirectoryCorrect == Spec => []DirectoryInv
  BY Invariance, PTL DEF DirInv

\* rm_r never reports success when it has come upon a link to a directory elsewhere:
\* rmdir refuses such a link, and nothing takes it away before (rm-r.c:59-100).
THEOREM SuccessMeetsNoDirLink == Spec => []SuccessMetNoDirLink
  <1>1. DirectoryInv => SuccessMetNoDirLink
    BY DEF DirectoryInv, TreeInv
  <1> QED
    BY <1>1, DirectoryCorrect, PTL

\* rm_r removes whatever is left of a version when nothing interferes and no link leads to
\* a directory: links to files whose file is gone do not stop it (rm-r.c:76).
THEOREM RemovesAllWhenAlone == Spec => []RemovesAllAlone
  <1>1. DirectoryInv => RemovesAllAlone
    BY DEF DirectoryInv, TreeInv
  <1> QED
    BY <1>1, DirectoryCorrect, PTL

\* What info and tree answer held at some moment while they ran.
THEOREM AnswersHold == Spec => []AnswersHeldOnce
  BY Invariance, PTL DEF AnswersInv

\* ls-installed misses no version that is installed all the while.
THEOREM ListIsComplete == Spec => []ListsAllThatStay
  BY Invariance, PTL DEF AnswersInv

\* info presents a receipt if and only if all of it was there.
THEOREM ReadsWhole == Spec => []ReadsOnlyWholeReceipts
  <1>1. DirInv => ReadsOnlyWholeReceipts
    BY ParseIsRight DEF DirInv, DirectoryInv, TypeOK, ReaderInv, ReadsOnlyWholeReceipts
  <1> QED
    BY <1>1, Invariance, PTL

\* Only a receipt cut before the value of its sum makes nvm2_receipt_check use what is
\* not there.
THEOREM CrashesOnCutOnly == Spec => []CrashOnlyOnCutReceipt
  <1>1. DirInv => CrashOnlyOnCutReceipt
    <2>1. DirInv /\ rpc = "done" /\ answer = "CRASH" => Parse(got) = "CRASH" /\ got \in Texts
      BY DEF DirInv, DirectoryInv, TypeOK, ReaderInv, Refusals
    <2> QED
      BY <2>1, ParseIsRight DEF CrashOnlyOnCutReceipt
  <1> QED
    BY <1>1, Invariance, PTL

\* Only rm_r removes.
LEMMA OnlyRemovalTakes ==
    ASSUME DirInv, [Next]_vars
    PROVE  there \subseteq there' \/ (RmStep /\ UNCHANGED job)
  <1>1. CASE Change
    <2>1. CASE \E v \in Versions : Uninstall(v) \/ Install(v)
      BY <2>1, StartsKeep
    <2>2. CASE Removes
      BY <2>2 DEF Removes, Returned
    <2>3. CASE MakeDir \/ Fill \/ OpenReceipt \/ CloseReceipt
      BY <2>3, InstallsKeep
    <2>4. CASE Kill
      BY <2>4, KillKeeps
    <2>5. CASE Others
      BY <2>5, OthersKeep
    <2> QED
      BY <1>1, <2>1, <2>2, <2>3, <2>4, <2>5 DEF Change, Work
  <1>2. CASE Ask \/ Look \/ Dismiss \/ UNCHANGED vars
    BY <1>2 DEF Ask, Look, StatDir, StatReceipt, Fopen, Read, OpenVersions, NextVersion,
                EndOfVersions, Reads, Dismiss, vars, treeVars
  <1> QED
    BY <1>1, <1>2 DEF Next

\* What rm_r removes is below the directory it was given, or strictly below a directory
\* some link leads to: it never takes such a directory itself, nor what is beside it.
THEOREM TakesThroughLinksOnly == Spec => TakesOnlyThroughLinks
  <1> DEFINE Step == step # "idle" =>
                 \A n \in there \ there' :
                     \/ n \in Tree[top]
                     \/ \E l \in Links : n \in Below(Target[l]) \ {Target[l]}
  <1>1. DirInv /\ [Next]_vars => Step
    <2> SUFFICES ASSUME DirInv, [Next]_vars PROVE Step
      OBVIOUS
    <2>1. CASE there \subseteq there'
      BY <2>1
    <2>2. CASE RmStep
      BY <2>2, RmStepTakes DEF DirInv, DirectoryInv, TypeOK, ThroughLink
    <2> QED
      BY <2>1, <2>2, OnlyRemovalTakes
  <1>2. DirInv /\ [Next]_vars => [Step]_treeVars
    BY <1>1
  <1>3. Spec => [][Step]_treeVars
    BY <1>2, Invariance, PTL DEF Spec
  <1> QED
    BY <1>3 DEF TakesOnlyThroughLinks
-----------------------------------------------------------------------------
(* The promise *)

Left == [d \in Tops |-> there \cap Tree[d]]

\* What is left of each directory, before and after a step.
LEMMA LeftFacts ==
    /\ DOMAIN Left = Tops /\ \A d \in Tops : Left[d] = {n \in there : n \in Nodes /\ n[1] = d}
    /\ DOMAIN Left' = Tops /\ \A d \in Tops : Left'[d] = {n \in there' : n \in Nodes /\ n[1] = d}
  <1>1. \A d \in Tops : Tree[d] = {n \in Nodes : n[1] = d}
    BY TreeFacts
  <1>2. Left' = [d \in Tops |-> there' \cap Tree[d]]
    BY DEF Left, Tree, Below
  <1> QED
    BY <1>1, <1>2 DEF Left

\* A node less is one entry taken, from one directory or from none.
LEMMA TakesOne ==
    ASSUME there \subseteq Nodes, there' \subseteq there,
           \A n, o \in there \ there' : n = o
    PROVE  \/ Left' = Left
           \/ \E d \in Tops : \E n \in Left[d] : Left' = [Left EXCEPT ![d] = @ \ {n}]
  <1>1. CASE there' = there
    BY <1>1 DEF Left, Tree, Below
  <1>2. CASE there' # there
    <2>1. PICK n \in there : n \notin there'
      BY <1>2
    <2>2. there' = there \ {n} /\ n \in Nodes
      BY <2>1
    <2>3. CASE n[1] \in Tops
      <3> DEFINE d == n[1]
      <3>1. n \in Left[d]
        BY <2>1, <2>2, <2>3, LeftFacts
      <3>2. \A e \in Tops : Left'[e] = IF e = d THEN Left[d] \ {n} ELSE Left[e]
        <4>1. \A x : x \in there' <=> x \in there /\ x # n
          BY <2>2
        <4>2. Left'[d] = Left[d] \ {n}
          BY <2>3, <4>1, LeftFacts
        <4>3. \A e \in Tops : e # d => Left'[e] = Left[e]
          BY <4>1, LeftFacts
        <4> HIDE DEF d
        <4> QED
          BY <4>2, <4>3
      <3>3. Left' = [Left EXCEPT ![d] = @ \ {n}]
        <4>1. Left' = [e \in Tops |-> Left'[e]] /\ Left = [e \in Tops |-> Left[e]]
          BY DEF Left, Tree, Below
        <4> HIDE DEF d
        <4> QED
          BY <3>2, <4>1
      <3> QED
        BY <2>3, <3>1, <3>3
    <2>4. CASE n[1] \notin Tops
      <3>1. \A e \in Tops : Left'[e] = Left[e]
        BY <2>2, <2>4, LeftFacts
      <3>2. Left' = [e \in Tops |-> Left'[e]] /\ Left = [e \in Tops |-> Left[e]]
        BY DEF Left, Tree, Below
      <3>3. Left' = Left
        BY <3>1, <3>2
      <3> QED
        BY <3>3
    <2> QED
      BY <2>3, <2>4
  <1> QED
    BY <1>1, <1>2

\* A node more is one entry that appears, in one directory or in none.
LEMMA AddsOne ==
    ASSUME NEW n \in Nodes, n \notin there, there' = there \cup {n}
    PROVE  \/ Left' = Left
           \/ \E d \in Tops : \E x \in Tree[d] \ Left[d] : Left' = [Left EXCEPT ![d] = @ \cup {x}]
  <1>0. Left' = [e \in Tops |-> Left'[e]] /\ Left = [e \in Tops |-> Left[e]]
    BY DEF Left, Tree, Below
  <1>1. CASE n[1] \in Tops
    <2> DEFINE d == n[1]
    <2>1. n \in Tree[d] \ Left[d]
      BY <1>1, LeftFacts, TreeFacts
    <2>2. \A e \in Tops : Left'[e] = IF e = d THEN Left[d] \cup {n} ELSE Left[e]
      <3>1. \A x : x \in there' <=> x \in there \/ x = n
        OBVIOUS
      <3>2. Left'[d] = Left[d] \cup {n}
        BY <1>1, <3>1, LeftFacts
      <3>3. ASSUME NEW e \in Tops, e # d PROVE Left'[e] = Left[e]
        <4>1. \A x \in Nodes : x[1] = e => (x \in there' <=> x \in there)
          BY <3>1, <3>3
        <4>2. /\ Left'[e] = {x \in there' : x \in Nodes /\ x[1] = e}
              /\ Left[e] = {x \in there : x \in Nodes /\ x[1] = e}
          BY LeftFacts
        <4> HIDE DEF d
        <4> QED
          BY <4>1, <4>2
      <3> HIDE DEF d
      <3> QED
        BY <3>2, <3>3
    <2>3. Left' = [Left EXCEPT ![d] = @ \cup {n}]
      <3> HIDE DEF d
      <3> QED
        BY <1>0, <2>2
    <2> QED
      BY <1>1, <2>1, <2>3
  <1>2. CASE n[1] \notin Tops
    <2>1. \A e \in Tops : Left'[e] = Left[e]
      BY <1>2, LeftFacts
    <2> QED
      BY <1>0, <2>1
  <1> QED
    BY <1>1, <1>2

\* The last step of rm_r takes the directory itself, which is all there is of it.
LEMMA TakesLast ==
    ASSUME there' = there \ {<<top>>}, top \in Tops, Tree[top] \cap there' = {}
    PROVE  Left' = [Left EXCEPT ![top] = {}]
  <1>1. \A d \in Tops : Left'[d] = IF d = top THEN {} ELSE Left[d]
    <2>1. Left'[top] = {}
      <3>1. \A n \in there' : n \in Nodes => n[1] # top
        BY TreeFacts
      <3> QED
        BY <3>1, LeftFacts
    <2>2. <<top>>[1] = top
      OBVIOUS
    <2>3. \A d \in Tops \ {top} : Left'[d] = Left[d]
      BY <2>2, LeftFacts
    <2> QED
      BY <2>1, <2>3
  <1>2. Left' = [e \in Tops |-> Left'[e]] /\ Left = [e \in Tops |-> Left[e]]
    BY DEF Left, Tree, Below
  <1> QED
    BY <1>1, <1>2

\* Every step of either command is one the promise allows.
LEMMA StepIsPromised ==
    ASSUME DirInv, [Next]_vars
    PROVE  [Promise!Next]_<<Left, top, outcome>>
  <1>0. TreeTypeOK /\ TreeInv /\ JobInv /\ there \subseteq Nodes /\ top \in Tops /\ outcome \in Outcomes
    BY DEF DirInv, DirectoryInv, TypeOK, TreeTypeOK
  <1>1. ASSUME there' = there PROVE Left' = Left
    BY <1>1 DEF Left, Tree, Below
  <1>2. ASSUME NEW v \in Versions, Uninstall(v) \/ Install(v)
        PROVE  [Promise!Next]_<<Left, top, outcome>>
    <2>1. v \in Tops /\ Left' = Left
      BY <1>1, <1>2, StartsKeep, VersionFacts
    <2>2. CASE Begin(v)
      <3>1. Promise!Begin
        BY <2>1, <2>2 DEF Begin, Promise!Begin, Left
      <3> QED
        BY <3>1 DEF Promise!Next
    <2>3. CASE top' = v /\ UNCHANGED outcome /\ job = "idle"
      <3>1. outcome = "none"
        BY <1>0, <2>3 DEF JobInv
      <3>2. Promise!Return
        BY <2>1, <2>3, <3>1 DEF Promise!Return, Left
      <3> QED
        BY <3>2 DEF Promise!Next
    <2> QED
      BY <1>2, <2>2, <2>3 DEF Uninstall, Install
  <1>3. CASE RmStep
    <2>1. /\ outcome = "running" /\ top' = top
          /\ outcome' = "running" \/ (outcome' = "ERROR" /\ there' = there) \/ (outcome' = "OK" /\ EndDir)
      BY <1>0, <1>3, RmStepRuns
    <2>2. CASE outcome' = "running"
      <3>1. there' \subseteq there /\ \A n, o \in there \ there' : n = o
        BY <1>0, <1>3, RmStepTakes
      <3>2. Left' = Left \/ \E d \in Tops : \E n \in Left[d] : Left' = [Left EXCEPT ![d] = @ \ {n}]
        BY <1>0, <3>1, TakesOne
      <3>3. Left' = Left \/ Promise!Take
        BY <2>1, <2>2, <3>2 DEF Promise!Take, Left
      <3> QED
        BY <2>1, <2>2, <3>3 DEF Promise!Next
    <2>3. CASE outcome' = "ERROR" /\ there' = there
      <3>1. Promise!GiveUp
        BY <1>1, <2>1, <2>3 DEF Promise!GiveUp, Left
      <3> QED
        BY <3>1 DEF Promise!Next
    <2>4. CASE outcome' = "OK" /\ EndDir
      <3>1. Left' = [Left EXCEPT ![top] = {}]
        BY <1>0, <2>4, LastCallEnds, TakesLast
      <3>2. Promise!Succeed
        BY <2>1, <2>4, <3>1 DEF Promise!Succeed, Left
      <3> QED
        BY <3>2 DEF Promise!Next
    <2> QED
      BY <2>1, <2>2, <2>3, <2>4
  <1>4. ASSUME outcome' = "none", top' = top, there' = there
        PROVE  [Promise!Next]_<<Left, top, outcome>>
    <2>1. Left' = Left
      BY <1>1, <1>4
    <2>2. Promise!GiveUp \/ Promise!Return
      BY <1>0, <1>4, <2>1 DEF Outcomes, Promise!GiveUp, Promise!Return, Left
    <2> QED
      BY <2>2 DEF Promise!Next
  <1>5. ASSUME UNCHANGED <<top, outcome>>,
               there' = there \/ \E n \in Nodes \ there : there' = there \cup {n}
        PROVE  [Promise!Next]_<<Left, top, outcome>>
    <2>1. Left' = Left
          \/ \E d \in Tops : \E x \in Tree[d] \ Left[d] : Left' = [Left EXCEPT ![d] = @ \cup {x}]
      BY <1>1, <1>5, AddsOne
    <2>2. Left' = Left \/ Promise!Appear
      BY <1>5, <2>1 DEF Promise!Appear, Left
    <2> QED
      BY <1>5, <2>2 DEF Promise!Next
  <1>6. CASE Change
    <2>1. CASE Removes
      <3>1. RmStep \/ Returned
        BY <2>1 DEF Removes
      <3>2. Returned => outcome' = "none" /\ top' = top /\ there' = there
        BY DEF Returned, Forget
      <3> QED
        BY <1>3, <1>4, <3>1, <3>2
    <2>2. CASE MakeDir \/ Fill \/ OpenReceipt \/ CloseReceipt
      BY <1>5, <2>2, InstallsKeep
    <2>3. CASE Kill
      BY <1>4, <2>3, KillKeeps
    <2>4. CASE Others
      BY <1>5, <2>4, OthersKeep
    <2> QED
      BY <1>2, <1>6, <2>1, <2>2, <2>3, <2>4 DEF Change, Work
  <1>7. CASE Ask \/ Look \/ Dismiss \/ UNCHANGED vars
    <2>1. UNCHANGED <<there, top, outcome>>
      BY <1>7 DEF Ask, Look, StatDir, StatReceipt, Fopen, Read, OpenVersions, NextVersion,
                  EndOfVersions, Reads, Dismiss, vars, treeVars, rmVars
    <2> QED
      BY <1>5, <2>1
  <1> QED
    BY <1>6, <1>7 DEF Next

\* rm_r, which names everything by paths and looks each up again, keeps the promise its
\* callers use: entries go one by one, and success means that nothing is left.
THEOREM RecursionKeepsPromise == Spec => ImplementsRemoval
  <1>1. Init => Promise!Init
    <2> SUFFICES ASSUME Init PROVE Promise!Init
      OBVIOUS
    <2>1. top \in Tops /\ outcome = "none"
      BY DEF Init, TreeInit
    <2>2. Left \in [Tops -> UNION {SUBSET Tree[d] : d \in Tops}]
      BY DEF Left
    <2> QED
      BY <2>1, <2>2 DEF Promise!Init, Left
  <1>2. DirInv /\ [Next]_vars => [Promise!Next]_<<Left, top, outcome>>
    BY StepIsPromised
  <1>3. Spec => Promise!Init /\ [][Promise!Next]_<<Left, top, outcome>>
    BY <1>1, <1>2, Invariance, PTL DEF Spec
  <1> QED
    BY <1>3, PTL DEF ImplementsRemoval, Promise!Spec, Left
=============================================================================
