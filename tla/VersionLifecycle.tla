-------------------------- MODULE VersionLifecycle --------------------------
(***************************************************************************)
(* What the directory ~/.nvm2/versions promises to its readers.  Every     *)
(* command that looks at an installed version (is-installed, exec, tree,   *)
(* info, ls-installed, uninstall) decides with two stat calls: is there a  *)
(* directory versions/<v>, and is there a regular file receipt.yml in it.  *)
(* The promise is that the receipt is written last, so that it stands for  *)
(* a complete tree.                                                        *)
(*                                                                         *)
(*   absent     no directory              NVM2_ERROR_VERSION_NOT_INSTALLED *)
(*   broken     directory, no receipt     NVM2_ERROR_VERSION_IS_BROKEN     *)
(*   installed  receipt, complete tree    NVM2_OK                          *)
(*   damaged    receipt, files missing    NVM2_OK (an unfinished removal)  *)
(***************************************************************************)
CONSTANT Versions

VARIABLE status

Statuses == {"absent", "broken", "installed", "damaged"}

TypeOK == status \in [Versions -> Statuses]

Init == status = [v \in Versions |-> "absent"]

Move(v, from, to) ==
    /\ status[v] \in from
    /\ status' = [status EXCEPT ![v] = to]

\* An install makes the directory it is going to fill.
Prepare(v) == Move(v, {"absent"}, "broken")

\* The receipt appears: only ever over a complete tree.
Complete(v) == Move(v, {"broken"}, "installed")

\* A removal takes away a file before it takes away the receipt.
Spoil(v) == Move(v, {"installed"}, "damaged")

\* A removal takes away the receipt.
Withdraw(v) == Move(v, {"installed", "damaged"}, "broken")

\* The empty directory is removed.
Discard(v) == Move(v, {"broken"}, "absent")

Next ==
    \E v \in Versions :
        Prepare(v) \/ Complete(v) \/ Spoil(v) \/ Withdraw(v) \/ Discard(v)

Spec == Init /\ [][Next]_status
=============================================================================
