--------------------------- MODULE MCSelfUpgrade ---------------------------
(***************************************************************************)
(* Instances of SelfUpgrade for TLC.  The releases differ so that a part   *)
(* of the earlier one is greater than that of the later one.  NoNumbers is *)
(* what a tag without numbers reads as; the tag of the last release cannot *)
(* be made out.                                                            *)
(***************************************************************************)
EXTENDS SelfUpgrade, TLC

TwoReleases == {<<0, 2, 1>>, <<1, 0, 0>>}
TagTrouble == {NoNumbers, <<1, 0, 0>>, <<1, 0, 1>>}
TagsRead == TagTrouble \ {<<1, 0, 1>>}

PidSymmetry == Permutations(Procs)
=============================================================================
