# nvm2 in TLA+

nvm2 is a command line program, written in C, that installs versions of Node.js under
`~/.nvm2` and runs their commands.  This directory holds TLA+ models of it, the TLC
configurations that check them, and proofs that TLAPS checks.  File names below are
relative to `src/src/`.

## The system

There is no daemon and no lock.  Each command is a process of its own; processes meet
only in the files under `~/.nvm2`.  A user may run several at once, and any of them may
be killed at any time.

| component | state it keeps | operations | meets |
|---|---|---|---|
| version store: `install.c`, `uninstall.c`, `reinstall.c`, `check.c`, `exec.c`, `core/rm-r.c` | `versions/<v>/` with `receipt.yml`, written last; `installing/<pid>/` | install (binary or source), uninstall, reinstall, is-available, is-installed, exec | downloads, the list of versions |
| downloads: `http-fetch-to-file.c`, `core/http.c`, `core/sha256sum.c` | `downloads/`: tarballs, `SHASUMS256` files, gmake | fetch to a file (which cuts it), compare a sum, reuse what is there | every process that uses the same name |
| temporary files: `list-available-versions.c`, `show-release-schedule.c`, `check.c`, `cleanup.c` | `tmp/` | fetch a JSON file and read it; remove everything | each other, self upgrade |
| self upgrade: `upgrade-self.c`, `core/cp.c`, `core/self.c` | the executable itself, `tmp/latest.json`, `tmp/nvm2-*.tar.xz` and `.d` | compare releases, fetch, unpack, unlink, copy, chmod | cleanup, other upgrades |
| removal of trees: `core/rm-r.c` | the calls of its recursion, each with an open directory | remove a directory and what is below it | install, uninstall, cleanup, and other programs that add entries or links |
| receipts: `receipt-parse.c`, `info.c` | none | read `receipt.yml` | whatever install left on disk, or has open |
| readers: `tree.c`, `list-installed-versions.c` | none | `stat` directory and receipt, then print or execute `tree` | install, uninstall |
| `prefix.c` | none | print a path, without a look at it | nothing |
| codecs: `util.c`, `core/base16.c`, `core/zlib-flate.c`, `core/sha256sum.c` | one chunk of input, what stdout holds back | encode, decode, (de)compress, digest | stdin, stdout |
| command lookup: `core/exe.c` | none | first, or all, of a command in `PATH` | builds from source, `util which` |
| archives: `core/tar.c` | none | `tar_extract` | install, self upgrade |
| platform: `core/sysinfo.c`, `sysinfo.c`, `env.c`, the tables in `install.c` | none | name the platform, choose tarball and gmake | install |
| shell integration: `integrate.c` | `zsh_completion/_nvm2`, a link to it | fetch, symlink | nothing |
| command line: `nvm2.c`, `help.c` | none | parse options, call one of the above | all |

What is hard here:

- *Interleavings.*  Nothing is locked, and every check is a `stat` that is stale when
  used: the receipt is looked for minutes before the directory is removed, the sum of a
  tarball is compared before it is opened again by name, a directory is made if it was
  not there.
- *Crashes.*  What a killed command leaves is what the next one finds: partial downloads
  under their final names, half-unpacked trees, a stale `installing/<pid>`, a receipt
  over a partial tree, no executable.
- *Partial failure.*  A transfer that breaks off or delivers something else, a full disk,
  an entry that cannot be unlinked, results nobody looks at (`fclose`).
- *Progress.*  libcurl is used without any timeout.

What makes the components correct: a version counts as installed only when its tree is
complete; what is unpacked is what was verified; a command that reports success has done
its work; whatever a killed command left, the next one copes with; commands on different
versions disturb each other only where they share a file by design; a transfer that is cut
short never costs the user the executable, and an upgrade never goes back; every command
ends.  PROJECT.json lists, under `hazards`, where in the code each of these could break.

## Modules

| module | models |
|---|---|
| `VersionLifecycle` | the promise of `versions/<v>` to those who look at it: absent, broken, installed, damaged, and the moves between them |
| `Nvm2Store` | install, uninstall, reinstall, is-available and exec, interleaved between system calls; instantiates `VersionLifecycle` as its abstract specification |
| `MCNvm2Store` | instances of `Nvm2Store` for TLC |
| `Nvm2StoreProofs` | theorems about `Nvm2Store` |
| `SelfUpgrade` | ls-available, show-release-schedule, upgrade-self, cleanup and integrate, interleaved between system calls over `tmp/` and the executable |
| `MCSelfUpgrade` | instances of `SelfUpgrade` for TLC |
| `SelfUpgradeProofs` | theorems about `SelfUpgrade` |
| `Removal` | what `rm_r` promises to callers that do not look at the order of its work |
| `RemoveTree` | `rm_r`'s recursion, with symbolic links, and by itself as a specification |
| `RemoveTreeProofs` | theorems about `RemoveTree`: paths, and what one call of `rm_r` after the other keeps |
| `MCRemoveTree` | an instance of `RemoveTree` for TLC |
| `ReceiptFile` | the text of `receipt.yml`, whole or cut, and the parser; operators only |
| `ReceiptFileProofs` | the parser is right about every text |
| `VersionDirectory` | composes the two: one command installs or uninstalls versions, another (info, tree, ls-installed) looks at them; instantiates `Removal` as the abstract specification of the removal |
| `VersionDirectoryProofs` | theorems about `VersionDirectory`: the invariant of the two commands, the answers, the refinement of `Removal` |
| `MCVersionDirectory` | an instance of `VersionDirectory` for TLC |
| `Codecs` | base16, base64 and zlib streams on sequences of numbers; operators only |
| `CodecsProofs` | lemmas about `Codecs`: what can be done piece by piece, and what undoes what |
| `Util` | one run of a command of `nvm2 util`, read by read and write by write |
| `UtilProofs` | theorems about `Util` |
| `MCUtil` | an instance of `Util` for TLC |
| `Inductions` | induction over numbers and sequences, for the modules with proofs |

### Nvm2Store

`pc[p]` names the system call process `p` makes next; runs of calls that no other command
can tell apart are one step.  An action stands for one such call wherever the code makes
it: `StatTopDir` and `MakeTopDir` for the `stat`/`mkdir` pairs of install and of the check
of availability, `FetchOpens`, `Receive`, `FetchEnds`, `FetchFails` for
`nvm2_http_fetch_to_file` of the list of versions, the sums, the tarball and gmake,
`CheckCached` and `VerifyFetched` for the comparisons of sums, `RmOpen`, `RmUnlink`,
`RmFails`, `RmDir` for `rm_r` as uninstall and install call it.  The rest follows
`nvm2_install` from top to bottom: `InstallCheck`, `ParseSums`, `VersionStat`,
`VersionMkdir`, then either `ExtractOpen`, `Populate`... (binary) or `PrepareScratch`,
`ExtractSource`, `FindGmake`, `ExtractGmake`, `Build`, `Populate`... (source), and
`OpenReceipt`, `WriteReceipt`.

- The disk: `topDirs` (which of `~/.nvm2` and its directories exist), `cache` (what is in
  each downloaded file, as far as anyone can tell the difference: none, empty, partial,
  good, bad), `dirs`, `files`, `receipt` (versions/<v>), `scratch` (installing/<pid>).
- Descriptors: a file may be cut by one process while another writes it, or unlinked.
  `latest` says who has a download open since it was last cut; `Deliver` makes a download
  whole only for those.  `receiptFds` says whose open receipt still has a name.
- `Faults` chooses what may go wrong: kill, net, disk, unlink, build.  `calm` becomes
  true when nothing goes wrong any more.
- `shared` is a history variable: the processes next to whom another command has run on
  the same version since they were started.  What the properties claim they claim of the
  others, and of these what is left: that it is they who did the damage.
- `Exclusive` is the users' discipline of one command per version at a time (`shared` stays
  empty).  The code does not enforce it, and `store_two_installs` shows what happens
  without it.  Only the refinement needs it.
- `HasGmake` is whether the platform is in the table of `nvm2_find_or_install_gmake`.
- `Sources` is which kind of tarball users ask for; `{TRUE}` is a platform without
  binaries.

Sums and the list of versions are taken at their word, as the code does: a `SHASUMS256`
with other bytes may have a line for the tarball all the same (`ParseSums`), with a sum
that is right or is that of no file (`SumMayDiffer`), and a list with other bytes may name
the version (`ParseIndex`).

### SelfUpgrade

The first half of all fetching commands is the same code four times; `StatDir`,
`MakeDir`, `FetchOpens`, `Receive`, `FetchEnds`, `FetchFails` stand for it.  `ReadJson`,
`ReadLatest` and `LinkCompletion` are what the commands do with the file, `UnpackOpen`, `UnpackMake`,
`UnpackEnd` are `tar_extract`, `SelfPath` to `Chmod` the replacement of the executable,
`RmStat` to `RmDir` cleanup.  Every process is started from the executable, so none starts
when it is gone (`Runnable`): the system may really stop there, and the runs do not check
for deadlock.

- `content` is what is in each file of `tmp/` and in the executable; `fd[p]` says what
  became of the file `p` writes: not touched (fresh), cut by another process, without a
  name (gone); `from[p]` what there was to be read in the file it unpacks or copies.
- A transfer ends well when the server closes the connection as it should, with all of
  the bytes, fewer, none or others (`FetchEnds`; no sum is compared anywhere in
  `upgrade-self.c`).  `OtherArchive(p)` says that what `p` has fetched as the release is an
  archive of nothing (no byte came) or of something else: nothing tells the code, which
  then replaces the executable by whatever an earlier upgrade left unpacked, and says that
  nvm2 is up to date.  A tarball with bytes missing is noticed when it is unpacked.
- `Legible` are the releases whose tag upgrade-self can make out: it searches the answer in
  pieces of 29 characters, and the tag's `+` has to be in the piece its key begins
  (`upgrade-self.c:98-137`).  `NoNumbers` is what a tag without numbers reads as.
- `self[p]` is the release `p` was compiled as, `linked` the processes whose executable
  is still the one at its path: for the others `/proc/self/exe` ends in " (deleted)".
- `published` is the site's latest release and may advance at any time.
- `spared[p]` is a history variable: nothing has disturbed `p` since it was started.
- `Exclusive`: one upgrade-self or cleanup at a time; the others run freely beside it.

### RemoveTree

A node is where an entry is; a path is the names the code has put together, which `Walk`
resolves again in every call, through links and at most `MaxLinks` of them, as the kernel
does.  `frames` is the stack of calls: each has its path, the node it has opened and the
entries `readdir` has still to return.  `OpenDir`, `NextEntry`, `Unlink`, `EndDir` are
`opendir`, `readdir` with `stat`, `unlink`, and `closedir` with `rmdir`; `Fail` is how -1
goes up through all calls.  `Grow` is another program, `npm install -g` or `npm link`, that
adds an entry.  `found` and `alone` are history variables of one removal.

The flat removals of `Nvm2Store` (`RmUnlink`...) and `SelfUpgrade` take entries in any
order and report success only when nothing is left.  That is the specification `Removal`,
which the recursion implements (`ImplementsRemoval`).

### ReceiptFile and VersionDirectory

A text is the number of its complete lines and where the next one is cut.  `Scan` is what
the parser's loop makes of libyaml's tokens of it, line by line (`AfterLines`) and then the
line that is cut (`Rest`); `Token` is one round of that loop, `Check` `nvm2_receipt_check`;
`"CRASH"` is a NULL that is used.  `text` changes only in
`CloseReceipt`, because the four lines stay in the stream's buffer until then, and an
unlinked receipt keeps its text for those who have it open (`fd`, `got`).

The changer is `Nvm2Store`'s install from the removal of the directory on, and its
uninstall.  The reader makes its `stat`s one at a time.  `was` and `stayed` record how
versions looked while it ran; `Change` is held back between the reader's answer and
`Dismiss` so that an answer is compared with its own run only.

### Util

The chunks of 1024, 1023, 1024 and 16384 bytes are constants, with the assumption that the
encoder's is a multiple of three and the decoder's of four; stdout can hold at least one
byte back, and every command is given what it can be given (`Symbols`).  `Read` is `fread`, whose end
of file shows only when less than a chunk was left; `Write` is `fwrite` into a stream that
holds `OutBuf` bytes back; `Exit` is the flush after `main`.  `Deflate` is one call of
zlib's deflate, which may take and emit what it likes as long as it fills its output chunk
before it stops; inflate goes byte by byte (`InflateByte`, `InflateUnit`) up to the return
of one call (`InflateReturns`).  A zlib stream is a header, units that stand for a byte so
many times, and a sum.  `SearchItem` is one round of `exe_search`.

## Runs

| run | instance | shows |
|---|---|---|
| `store_together` | 2 processes, 2 versions of one file, not `Exclusive`, no faults; install and reinstall from source with gmake, exec | the inductive invariant `StoreInv`, `FailsOnlyInSharedPlaces`, `OnlyUninstallDamages` |
| `store_faults` | 1 process, 1 version of one file, every command that changes the store and is-available, both kinds of tarball, all faults until `Settle`; fairness | `TypeOK`, `StoreInv`, the refinement `ImplementsLifecycle`, `ReceiptOnlyOverCompleteTree`, `SuccessIsTrue`, `InstallRepairs`, `CommandEnds` |
| `store_killed_uninstall` | 1 process, 1 version of two files, kill | `ReceiptMeansComplete` is violated |
| `store_two_installs` | 2 processes, 1 version of two files, not `Exclusive`, no faults | `ReceiptMeansComplete` is violated |
| `upgrade_faults` | 2 processes, 2 releases, ls-available and upgrade-self; kill, net, disk | the inductive invariant `UpgradeInv`, `LostOnlyToUpgrades`, `NeverDowngrades`, `SuccessIsUpgrade`, `AloneSucceeds` |
| `upgrade_recovery` | 1 process, upgrade-self, cleanup and integrate; a tag without numbers and one that cannot be made out; all faults until `Settle`; fairness | `TypeOK`, `CommandEnds`, `AloneSucceeds`, `IntegrateRenews` |
| `upgrade_cleanup` | 2 processes, not `Exclusive`, no faults | `FailureLeavesDownload` is violated |
| `upgrade_lost_bytes` | 1 process, lost bytes in `fclose` | `SuccessIsUpgrade` is violated |
| `version_directory` | 2 versions, a link to a file, a link to a directory of the user's, which has a link to itself; kill, unlink, disk, other programs' entries; fairness | `TypeOK`, the inductive invariant `DirectoryInv`, `AnswersHeldOnce`, `ListsAllThatStay`, `ReadsOnlyWholeReceipts`, `CrashOnlyOnCutReceipt`, `RemovesAllAlone`, `SuccessMetNoDirLink`, `TakesOnlyThroughLinks`, the refinement `ImplementsRemoval`, `CommandsEnd` |
| `remove_links` | the same tree, no faults, `rm_r` alone | `SparesTheRest` is violated |
| `util` | all commands; chunks of 2, 3, 4 and 2, inputs of up to 7 bytes and what they encode to; failing reads, a full disk; fairness | `TypeOK`, `EncodesAsInOnePiece`, `FlatesExactly`, `Base16Inverts`, `Base64Inverts`, `NewlineIsRefusedAfterAFullChunk`, `WhichListsInOrder`, `SuccessLosesABufferAtMost`, `EveryRunEnds` |
| `util_base16` | what the README gives base16-decode and base64-decode, no faults | `HexadecimalIsDecoded` is violated |

*Bounds.*  They are the sizes of the sets; no counter had to be cut.  Every command works
on one version.  `store_together` lets two processes meet on it, and on everything that
commands on different versions share; `store_faults` has every fault in one process after
another.  The theorems are about any number of processes with any faults.  In both one
file tells a complete tree from one that is not, and keeps a run within minutes; the two
that show a partial tree have two files, and the theorems are about any number.
`uninstall` and `is-available` are not in `store_together` because reinstall makes the
same calls.  Two releases whose minor numbers are ordered the
other way than their major numbers show a wrong comparison.

In `version_directory` one reader is enough because a reader changes nothing, and one
changer because `Exclusive` commands on one version follow one another and those on two
have no directory in common.  The circle needs one link, and `MaxLinks = 2` lets paths go
round it more than once, which is where 40 lets them go, too.  In `util` the inputs have
every length around one and two chunks of each command, bytes with and without the top
bit, streams that are cut, damaged, empty or followed by something, and `PATH`s of up to
four items of every kind.  A `PATH` of a single empty item is the empty string, which
`<<>>` stands for.

*Symmetry.*  `store_together` and `upgrade_faults` permute the processes: no property names
one, and both check safety only.

*Fairness.*  `WF_vars(calm /\ Step(p))`: once nothing goes wrong, a process that can go
on does.  The operating system's scheduler justifies it for every call but a transfer:
without a timeout in the code nothing ends a transfer that stalls, and the liveness
properties speak of environments where none does.  Liveness of the store and the upgrade
is checked with one process: nothing bounds how long others keep making entries that an
`rm_r` then finds.  `VersionDirectory` says that explicitly: `CommandsEnd` has the
disjunct that other programs add entries without end.  Its fairness is weak fairness of
`Work` and of `Look`; what enables them is written out (`job # "idle"`; `rpc` neither
`"idle"` nor `"done"`), because a command that is not at its end always has a next call.
`Util` is one process: `WF_vars(Step)`, which assumes that stdin never stalls for ever.

*Findings.*  (1) `rm_r` takes entries in `readdir`'s order, so a killed uninstall can
leave the receipt over a partial tree; that version counts as installed ever after, and
install does not repair it (`core/rm-r.c:68`).  (2) Two installs of one version at the
same time: one removes what the other has unpacked, which then writes its receipt and
reports success (`install.c:612`).  (3) A cleanup during an upgrade removes the new
executable after the old one is gone; the message then names a file that is not there
(`upgrade-self.c:262`).  (4) Bytes lost in `fclose` leave a cut executable and a message
that nvm2 is up to date (`core/cp.c:45`).  (5) `rm_r` follows a link to a directory, such
as `npm link` makes, empties that directory, and then fails because `rmdir` refuses the
link (`core/rm-r.c:59`).  `TakesOnlyThroughLinks` and `SuccessMetNoDirLink` say how far
this can go: only what lies below the end of a link is taken, and never silently.  (6) Where
`char` is signed, base16-decode takes every byte from 0x80 on for an invalid digit
(`core/base16.c:85`), and refuses the `ABCD` that nvm2's README gives it.
`Base16Inverts` says that it refuses no other encoded text, and decodes what it does not
refuse.

Four properties say what the code does where a reader may expect something else.
`CrashOnlyOnCutReceipt`: a receipt that is cut before its sum makes info use a NULL
(`receipt-parse.c:167`, `172`); every other cut is refused.  `SuccessIsUpgrade`: "up to
date" is printed over a cut or another executable when the transfer of the tarball ended
well with no byte, or with another archive, because no sum is compared
(`upgrade-self.c:232-283`).  `OnlyUninstallDamages`: an install next to which another
command ran on the version may remove a finished one (finding 2 is what comes of it).
`NewlineIsRefusedAfterAFullChunk`: base64-decode of a text that fills its chunks, and ends
with a newline, writes all of it and then fails (`util.c:204`).

## Proofs

`Nvm2StoreProofs` proves, for any sets of processes, versions and files and any faults:

| theorem | says | assumes |
|---|---|---|
| `TypeCorrect` | `Spec => []TypeOK` | - |
| `StoreInvariant` | `Spec => []StoreInv` | - |
| `ReceiptsAreEarned` | `ReceiptOnlyOverCompleteTree` | - |
| `InstallsDoNoDamage` | `OnlyUninstallDamages` | - |
| `SuccessIsEarned` | `SuccessIsTrue` | - |
| `Refinement` | `Nvm2Store` implements `VersionLifecycle` | `Exclusive` |
| `DifferentVersionsOnlyShare` | `FailsOnlyInSharedPlaces` | no faults |

`ConstantsAssumption` is the only assumption on the constants; TLC evaluates it in every
run.  None of the safety properties is inductive: that a tree is complete when the receipt
is opened depends on the extraction having had the verified tarball, which depends on
nobody else having cut it.  `StoreInv` adds what is needed: `Progress(p)` says, label by
label, what a process that is not in `shared` knows about its version (no receipt yet,
tarball verified, files present or still to come), `OverlapsAreShared` that whoever meets
another on a version is in `shared`, `Places` that each is at a label of its own command,
and `NothingWithoutDirectory` and `NothingOpenUnnamed` tie files and open receipts to
names.  It holds whatever those in `shared` do on other versions, and whatever they have
left on this one: a new command starts from any state.  The proof that a step of `p`
preserves `Progress(q)` rests on two facts, proved as lemmas: a step changes nothing of
other versions (`StepIsOwnWork`; file names of different versions differ,
`TarballsDiffer`), and `p` and `q` have different versions unless `q` is in `shared`.  The
action properties and the refinement follow from `StoreInv` and from lemmas on what one
step can do to a tree (`NextOnTree`, `OneStatusMoves`).  The refinement needs `Exclusive`:
two installs at once do make an installed version incomplete.

`FailsOnlyInSharedPlaces` speaks of a world without faults (`Faults = {}`), which is its
hypothesis in the run, too.  Its invariant `FairWeather` adds to `StoreInv` what only holds
there: a process that fetches the sums or a tarball is the last to have cut it, and what
`rm_r` has still to visit is what there is (so that it never misses an entry or meets a
missing one).  The theorem is about all commands, `uninstall` included, which the run
leaves out.

`SelfUpgradeProofs` proves, for any sets of processes and releases:

| theorem | says | assumes |
|---|---|---|
| `TypeCorrect` | `Spec => []TypeOK` | - |
| `UpgradeInvariant` | `Spec => []UpgradeInv` | `Exclusive`, no flush |
| `ExecutableIsThere` | `Spec => []LostOnlyToUpgrades` | `Exclusive`, no flush |
| `SuccessMeansUpgraded` | `SuccessIsUpgrade` | `Exclusive`, no flush |
| `OnlyUpwards` | `NeverDowngrades` | `Exclusive`, no flush |
| `AloneInvariant` | `Spec => [](Places /\ AloneInv)` | - |
| `AloneIsEnough` | `AloneSucceeds` | - |
| `CompletionIsRenewed` | `IntegrateRenews` | - |

`Exclusive` is that users run one upgrade-self or cleanup at a time; "no flush", that
`fclose` loses no bytes unseen (`"flush" \notin Faults`).  Neither can be dropped:
`upgrade_cleanup` and `upgrade_lost_bytes` show what happens without.  Kills, broken
transfers, those that end well with fewer, other or no bytes, failing disks and any number
of other commands are all in.

The executable's safety is not inductive: that what is copied over it is whole depends on
the extraction, that on the download, and that its release is a later one on a comparison
made before either.  `UpgradeInv` follows the release from the comparison to the chmod:
`Progress(p)` says for each label what `p` has made sure of, unless the archive is another
one (`OtherArchive`), `OneAtATime` that no other
upgrade or cleanup runs, `Places` that a process at a label of upgrade-self runs
upgrade-self.  `ProgressByItself` goes through the steps of `p`; `ProgressByOthers` rests on
`LightStep`: what neither upgrades nor cleans up writes its own JSON or completion file
only, whose names differ from the tarball's and the executable's (`FileNames`).
`ExecutableIsThere` needs more than the state says: that the executable was lost to an
upgrade stays true until somebody starts, and nobody starts what is not there (`LostSo`).
`OnlyUpgradesWrite` says which steps reach the executable at all, and `NewerIsLater` that
the code's nested comparison is the order in which releases come.

The last three need no discipline and no luck: a command that nothing has disturbed since
it was started (`spared`) finds what it needs or makes it, whatever was there before.
`Alone(p)` says for each label what that is, and survives because any other command that is
started ends the claim (`AloneStep`).

`RemoveTreeProofs` proves, for any tree, any links and any number of them on a path:

| theorem | says | assumes |
|---|---|---|
| `RmInvariant` | `RmSpec => [](TreeTypeOK /\ TreeInv)` | - |

`TreeInv` is the two properties of the run, `SuccessMetNoDirLink` and `RemovesAllAlone`,
and what they rest on.  `CallsNest`: each call's path is that of the call before it and one
name more, whatever directory it has led to.  `SparesLinks`: until a call goes through a
link, the calls are where their paths say, and the links they would have to go through, and
what these lead to, are still there.  `KnowsAll`: while nothing else changes the tree, a
directory that is open holds what its call has still to visit, the child it is waiting for,
and nothing else.  Every step keeps them
(`RmStepKeeps`, one lemma a step); `RmStepTakes` and `RmStepTakesLeaves` say what a step can
take, `LastCallEnds` what is left when the last call returns.  A path is resolved name by
name: `WalkIs` and `WalkAppend` show that this recursion does what it says for paths of any
length, `WalkToDir` that the path of a directory leads to it or, once it is gone, nowhere.

`ReceiptFileProofs` proves `ParseIsRight`: of every text that install can leave, the parser
accepts the whole ones and no other, and crashes only on those that are cut before their
second line is complete.

`VersionDirectoryProofs` proves, for any versions, tree, links and faults:

| theorem | says | assumes |
|---|---|---|
| `TypeCorrect` | `Spec => []TypeOK` | - |
| `DirectoryCorrect` | `Spec => []DirectoryInv` | - |
| `SuccessMeetsNoDirLink` | `Spec => []SuccessMetNoDirLink` | - |
| `RemovesAllWhenAlone` | `Spec => []RemovesAllAlone` | - |
| `AnswersHold` | `Spec => []AnswersHeldOnce` | - |
| `ListIsComplete` | `Spec => []ListsAllThatStay` | - |
| `ReadsWhole` | `Spec => []ReadsOnlyWholeReceipts` | - |
| `CrashesOnCutOnly` | `Spec => []CrashOnlyOnCutReceipt` | - |
| `TakesThroughLinksOnly` | `TakesOnlyThroughLinks` | - |
| `RecursionKeepsPromise` | `ImplementsRemoval` | - |

The assumptions are those on the constants: `TreeAssumption` (the links' targets are
directories and files of the tree, and paths may go through at least one link) and
`VersionsAssumption`.  `DirectoryInv` is `TreeInv`, `JobInv` (which jobs remove, and that
the directory an installation fills stays) and `ReaderInv` (at each of its calls, what the
reader has seen was so at some moment of its run).  No answer is
inductive by itself: that a listed version was installed depends on the removal taking one
leaf at a time (`OnlyRemovalTakes`), so that a version on its way from installed to gone is
broken in between, where the reader sees it.  The refinement (`StepIsPromised`) maps a step
of the recursion to the removal of one leaf, to the report of success, which needs that all
of the tree is gone (`LastCallEnds`), or to a stutter.

`UtilProofs` proves all of the run's invariants, for inputs of any length, for chunks and a
buffer of stdout of any size that `UtilAssumption` allows, and for any faults:

| theorem | says | assumes |
|---|---|---|
| `TypeCorrect` | `Spec => []TypeOK` | - |
| `SuccessKeepsTheRest` | `Spec => []SuccessLosesABufferAtMost` | - |
| `EncodesInOnePiece` | `Spec => []EncodesAsInOnePiece` | - |
| `FlatesAreExact` | `Spec => []FlatesExactly` | - |
| `Base16IsUndone` | `Spec => []Base16Inverts` | - |
| `Base64IsUndone` | `Spec => []Base64Inverts` | - |
| `NewlineIsRefusedAlone` | `Spec => []NewlineIsRefusedAfterAFullChunk` | - |
| `WhichIsInOrder` | `Spec => []WhichListsInOrder` | - |

All but the first speak of the end of a run, so each invariant says the same of its middle.
`ReadInv`: what has been read is a beginning of the input, of whole chunks until the end of
file shows.  On it rest `EncodeInv` (what is out is the encoding of what was read and is not
in the chunk), `Decode64Inv` (the same for the decoder, for any text of `base64-encode` with
or without a newline after it), `DeflateInv` (what was emitted is a beginning of the stream
of what was taken in) and `InflateInv` (what is out and in the output chunk is the content
of the units that were passed, `StreamInv`).  Beside them, `WhichInv` says that the list
holds the matches of the items already passed, in order, and `BufferInv` that no more than
`OutBuf` bytes are given to stdout and not written.  The proofs need facts about
the codecs on sequences of any length, which are lemmas of `CodecsProofs`: the encoders give
of two pieces what they give of the whole, base64's when the first piece's length is a
multiple of three (`Base16EncodeConcat`, `Base64EncodeConcat`); decoding undoes encoding
(`Base16Inverse`, `Base64Inverse`), also in pieces whose length is a multiple of four
(`PieceOfText`); a newline is taken off a text and is no text by itself
(`NewlineIsTrimmed`, `NewlineIsRefused`); deflate's units expand to what went into them
(`DeflatedInflates`), and a unit more to what it stands for more (`ContentSteps`).

`Inductions` is how a proof gets at recursive definitions without theorems that take
operators: induction as a statement about sets, from the well-foundedness of < on the
numbers; and that a sequence put together from pieces is the pieces (`ConcatIs`).

Only model-checked is liveness (`InstallRepairs`, both `CommandEnds`, `CommandsEnd`,
`EveryRunEnds`): it needs fairness and `ENABLED`, which the prover cannot reason about.
Every invariant and every action property of the passing runs is a theorem.
`ReceiptMeansComplete`, `FailureLeavesDownload`, `SparesTheRest` and `HexadecimalIsDecoded`
are violated, and `SuccessIsUpgrade` is where `fclose` loses bytes.

## Not modelled, and why

- In `Nvm2Store` the tree of a version is flat and the pair of `stat`s of a reader is one
  step: `RemoveTree` and `VersionDirectory` are about these two.
- `VersionDirectory` starts where install has its tarball: what comes before is
  `Nvm2Store`.  What info prints of a receipt, and `ls-installed -v`, which is info of one
  version after the other, are left out.
- Something else than a directory or a regular file where the code expects one: nvm2
  itself never puts it there, and the code returns an error.
- After a kill of an install, the child that `run_cmd` has forked (`install.c:39-100`) may go
  on writing in `installing/<pid>` and in `versions/<v>`: the model's `Kill` ends all of it.
- show-release-schedule is ls-available with another file; it is in the theorems and in no
  run.  cleanup next to other commands is in `upgrade_cleanup` only.
- The text of JSON files and sums: a file is what its reader can tell apart.  The regular
  expression for version names: a version is a model value whose name matches.
- `core/base64.c`, `core/url.c`, `zlib_deflate_string_to_string`, `exe_lookup2`,
  `core/mkdir_p.c`, `tar_list`, `tar_create`: no command calls them.  `exe_lookup` is the
  first match of `exe_search`.
- The options of `util` (`-L`, `-a`, `-h`) and the newline it prints to a terminal.
- Printing, options, help; `sysinfo` and `env`, which print what the operating system says.
- The tables of platforms in `install.c` (what the preprocessor chose is the constant
  `HasGmake`), with the uninitialized name at `install.c:447` and the length of the make
  command at `install.c:316`: single executions without a state to explore.

## Plan

1. *Done*: `VersionLifecycle`, `Nvm2Store` and its proofs; `SelfUpgrade` and its runs.
2. *Done*: `RemoveTree` and `Removal`; `ReceiptFile` and `VersionDirectory`; `Codecs` and
   `Util` with the search of `PATH`; integrate in `SelfUpgrade`.
3. *Done*: `SelfUpgradeProofs`, type correctness and the safety of the executable (one
   upgrade at a time), by an invariant that follows the release from the comparison to the
   chmod.
4. *Done*: `RemoveTreeProofs`, `ReceiptFileProofs`, `VersionDirectoryProofs`; the
   commands that are alone in `SelfUpgrade`, those on different versions in `Nvm2Store`.
5. *Done*: `CodecsProofs` and `UtilProofs`: what is out, in the buffers and left makes up
   the input; the codecs piece by piece, and what undoes what.
6. Still open: `RemoveTree`'s paths and `Nvm2Store`'s flat trees in one theorem, that is,
   that a store whose removals are those of `RemoveTree` implements `VersionLifecycle`.
