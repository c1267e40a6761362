------------------------------ MODULE Removal ------------------------------
(***************************************************************************)
(* What rm_r promises of a directory it is given, to callers that do not   *)
(* look at the order of its work: entries go one by one, others may appear *)
(* until the end, and it reports success only when nothing is left.  That  *)
(* is all Nvm2Store and SelfUpgrade use of it.                             *)
(***************************************************************************)
CONSTANTS
    Tops,       \* the directories
    Inside      \* each of them and all that may be below it

VARIABLES
    left,       \* what of it is there
    top,        \* the one the last removal was about
    outcome     \* of that removal, until its caller has taken notice

Init ==
    /\ left \in [Tops -> UNION {SUBSET Inside[d] : d \in Tops}]
    /\ top \in Tops
    /\ outcome = "none"

Begin ==
    /\ outcome = "none"
    /\ top' \in Tops
    /\ outcome' = "running"
    /\ UNCHANGED left

\* By rm_r, or by somebody else.
Take ==
    /\ \E d \in Tops : \E n \in left[d] : left' = [left EXCEPT ![d] = @ \ {n}]
    /\ UNCHANGED <<top, outcome>>

\* The step that takes the directory itself is the one that succeeds.
Succeed ==
    /\ outcome = "running"
    /\ left' = [left EXCEPT ![top] = {}]
    /\ outcome' = "OK"
    /\ UNCHANGED top

\* It fails, or is killed and tells nobody.
GiveUp ==
    /\ outcome = "running"
    /\ outcome' \in {"ERROR", "none"}
    /\ UNCHANGED <<left, top>>

\* The caller goes on, perhaps with something else.
Return ==
    /\ outcome \in {"OK", "ERROR", "none"}
    /\ outcome' = "none"
    /\ top' \in Tops
    /\ UNCHANGED left

\* Somebody else adds an entry, or makes the directory again.
Appear ==
    /\ \E d \in Tops : \E n \in Inside[d] \ left[d] : left' = [left EXCEPT ![d] = @ \cup {n}]
    /\ UNCHANGED <<top, outcome>>

Next == Begin \/ Take \/ Succeed \/ GiveUp \/ Return \/ Appear

Spec == Init /\ [][Next]_<<left, top, outcome>>
=============================================================================
