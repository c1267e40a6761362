---------------------------- MODULE MCNvm2Store ----------------------------
(***************************************************************************)
(* Instances of Nvm2Store for TLC.  The sets of the .cfg files are small   *)
(* because every command works on one version: two processes show every    *)
(* pair of steps that can meet, and two files tell a complete tree from a  *)
(* partial and from an empty one.                                          *)
(***************************************************************************)
EXTENDS Nvm2Store, TLC

PidSymmetry == Permutations(Procs)

\* Every version was installed from either tarball once and then uninstalled: the
\* directories and the verified tarballs are still there.
UsedBefore == StartWith(TopDirs, "good") /\ [][Next]_vars
=============================================================================
