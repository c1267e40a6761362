------------------------ MODULE MCVersionDirectory ------------------------
(***************************************************************************)
(* An instance of VersionDirectory for TLC: two versions, v and w, in the  *)
(* tree of MCRemoveTree.                                                   *)
(***************************************************************************)
EXTENDS VersionDirectory, MCRemoveTree

\* A timestamp that is cut.
MCTorn == {[url |-> "binaryurl", lines |-> 3, cut |-> "value"]}
=============================================================================
