----------------------------- MODULE RemoveTree -----------------------------
(***************************************************************************)
(* rm_r of core/rm-r.c on a tree that may have symbolic links in it: a     *)
(* recursion that names every entry by a path from the top, and looks each *)
(* path up again in every call.  stat follows links; unlink and rmdir do   *)
(* not follow the last name of theirs.                                     *)
(*                                                                         *)
(* A node is where an entry is, <<"v", "lib">>; a path is the names the    *)
(* code puts together, which may lead to a node through links.  <<>> is    *)
(* the directory all paths start from.                                     *)
(***************************************************************************)
EXTENDS Naturals, SequencesExt

CONSTANTS
    Dirs, Files, Links,     \* the nodes there may be
    Shipped,                \* those that come with a version; other programs add the rest
    Target,                 \* where each link leads
    Nowhere,                \* a path that leads to nothing
    MaxLinks,               \* how many links a path may lead through (40 in Linux)
    Faults                  \* what may go wrong, a subset of FaultKinds

Nodes == Dirs \cup Files \cup Links

\* kill: the process dies.  unlink: an entry cannot be removed.  disk: nothing more can
\* be written.  grow: a program adds entries of its own.
FaultKinds == {"kill", "unlink", "disk", "grow"}

ASSUME TreeAssumption ==
    /\ Nodes \subseteq Seq(STRING) \ {<<>>}
    /\ Dirs \cap Files = {} /\ Dirs \cap Links = {} /\ Files \cap Links = {}
    /\ \A n \in Nodes : Front(n) \in Dirs \cup {<<>>}
    /\ Shipped \subseteq Nodes
    /\ Target \in [Links -> Dirs \cup Files \cup {Nowhere}]
    /\ \A n \in Nodes : ~IsPrefix(Nowhere, n)
    /\ Nowhere \in Seq(STRING)
    /\ MaxLinks \in Nat \ {0}
    /\ Faults \subseteq FaultKinds

VARIABLES
    there,      \* the nodes that are there
    frames,     \* the calls of rm_r, innermost last: path, node and entries still to come
    top,        \* the name of the directory the last call from outside was about
    path,       \* what the next call is about
    step,       \* the next call
    found,      \* the links to directories that were there when the removal began
    alone,      \* since then nothing went wrong, and nobody added anything
    outcome     \* of the removal, until its caller has taken notice

rmVars == <<frames, top, path, step, found, alone, outcome>>
treeVars == <<there, rmVars>>
-----------------------------------------------------------------------------
Tops == {d[1] : d \in {e \in Dirs : Len(e) = 1}}

Below(d) == {n \in Nodes : IsPrefix(d, n)}

\* All that there may be of the directory each name stands for.
Tree == [d \in Tops |-> Below(<<d>>)]

Entries(d) == {n \in there : Front(n) = d}

\* One name of a path further: where it leads, and through how many links so far.
Follow(w, name) ==
    LET n == Append(w.at, name) IN
    IF n \notin there THEN [w EXCEPT !.at = Nowhere]
    ELSE IF n \in Links THEN [at |-> Target[n], links |-> w.links + 1]
    ELSE [w EXCEPT !.at = n]

Walk(p) ==
    LET after[i \in 0 .. Len(p)] ==
            IF i = 0 THEN [at |-> <<>>, links |-> 0] ELSE Follow(after[i - 1], p[i])
    IN after[Len(p)]

\* stat succeeds and says it is a directory.
IsDir(p) == LET w == Walk(p) IN w.links <= MaxLinks /\ w.at \in there \cap Dirs

\* The node whose name unlink and rmdir take away, if it is there.
Named(p) ==
    LET w == Walk(Front(p)) IN {n \in there : w.links <= MaxLinks /\ n = Append(w.at, Last(p))}
-----------------------------------------------------------------------------
\* The caller of rm_r has seen that the directory d is there.
Begin(d) ==
    /\ step = "idle" /\ outcome = "none" /\ <<d>> \in there
    /\ top' = d
    /\ path' = <<d>>
    /\ step' = "open"
    /\ found' = {l \in Links \cap Tree[d] \cap there : Target[l] \in there \cap Dirs}
    /\ alone' = TRUE
    /\ outcome' = "running"
    /\ UNCHANGED <<there, frames>>

\* A slip the properties catch: the directories stay open.
FailLeaks ==
    /\ UNCHANGED frames
    /\ step' = "idle"
    /\ path' = <<>>
    /\ outcome' = "ERROR"

\* Every call of the recursion returns -1.
Fail ==
    /\ frames' = <<>>
    /\ step' = "idle"
    /\ path' = <<>>
    /\ outcome' = "ERROR"

\* opendir, for the directory itself or one below it.
OpenDir ==
    /\ step = "open"
    /\ \/ /\ IsDir(path)
          /\ LET d == Walk(path).at IN
             frames' = Append(frames, [path |-> path, node |-> d, todo |-> Entries(d)])
          /\ step' = "next"
          /\ path' = <<>>
          /\ UNCHANGED <<outcome, alone>>
       \/ /\ ~IsDir(path) \/ "unlink" \in Faults
          /\ Fail
          /\ alone' = (alone /\ ~IsDir(path))
    /\ UNCHANGED <<there, top, found>>

\* readdir and stat.  An entry added since opendir may be returned, and one removed since.
NextEntry ==
    /\ step = "next"
    /\ LET f == Last(frames) IN
       \E n \in f.todo \cup Entries(f.node) :
           /\ frames' = [frames EXCEPT ![Len(frames)].todo = @ \ {n}]
           /\ path' = Append(f.path, Last(n))
           /\ step' = IF IsDir(path') THEN "open" ELSE "unlink"
    /\ UNCHANGED <<there, top, found, alone, outcome>>

\* A slip the properties catch: what stat cannot find is an error.
UnlinkOnlyFound ==
    /\ step = "unlink"
    /\ \/ /\ Walk(path).at \in there
          /\ there' = there \ Named(path)
          /\ step' = "next"
          /\ path' = <<>>
          /\ UNCHANGED <<frames, outcome, alone>>
       \/ /\ Walk(path).at \notin there
          /\ Fail
          /\ UNCHANGED <<there, alone>>
    /\ UNCHANGED <<top, found>>

\* unlink, for what is no directory and for what stat could not find.
Unlink ==
    LET gone == Named(path) \ Dirs IN
    /\ step = "unlink"
    /\ \/ /\ gone # {}
          /\ there' = there \ gone
          /\ step' = "next"
          /\ path' = <<>>
          /\ UNCHANGED <<frames, outcome, alone>>
       \/ /\ gone = {} \/ "unlink" \in Faults
          /\ Fail
          /\ alone' = (alone /\ gone = {})
          /\ UNCHANGED there
    /\ UNCHANGED <<top, found>>

\* A slip the properties catch: a link is removed with the directory it leads to.
EndDirFollows ==
    /\ step = "next"
    /\ LET f == Last(frames) IN
       /\ f.todo \cap there = {}
       /\ \/ /\ Entries(f.node) = {}
             /\ there' = there \ ({f.node} \cup Named(f.path))
             /\ frames' = Front(frames)
             /\ IF frames' = <<>> THEN step' = "idle" /\ outcome' = "OK"
                                  ELSE UNCHANGED <<step, outcome>>
             /\ UNCHANGED <<path, alone>>
          \/ /\ Entries(f.node) # {}
             /\ Fail
             /\ UNCHANGED <<there, alone>>
    /\ UNCHANGED <<top, found>>

\* A slip the properties catch: nobody looks at what rmdir returns.
EndDirRegardless ==
    /\ step = "next"
    /\ LET f == Last(frames) IN
       /\ f.todo \cap there = {}
       /\ there' = there \ {n \in Named(f.path) \cap Dirs : Entries(n) = {}}
       /\ frames' = Front(frames)
       /\ IF frames' = <<>> THEN step' = "idle" /\ outcome' = "OK"
                            ELSE UNCHANGED <<step, outcome>>
    /\ UNCHANGED <<path, top, found, alone>>

\* A slip the properties catch: a directory that stays is read once more.
EndDirRetries ==
    /\ step = "next"
    /\ LET f == Last(frames)
           gone == {n \in Named(f.path) \cap Dirs : Entries(n) = {}} IN
       /\ f.todo \cap there = {}
       /\ there' = there \ gone
       /\ frames' = Front(frames)
       /\ IF gone = {} THEN step' = "open" /\ path' = f.path /\ UNCHANGED outcome
          ELSE /\ UNCHANGED path
               /\ IF frames' = <<>> THEN step' = "idle" /\ outcome' = "OK"
                                    ELSE UNCHANGED <<step, outcome>>
    /\ UNCHANGED <<top, found, alone>>

\* The end of a directory: closedir and rmdir.
EndDir ==
    /\ step = "next"
    /\ LET f == Last(frames)
           gone == {n \in Named(f.path) \cap Dirs : Entries(n) = {}} IN
       /\ f.todo \cap there = {}
       /\ \/ /\ gone # {}
             /\ there' = there \ gone
             /\ frames' = Front(frames)
             /\ IF frames' = <<>> THEN step' = "idle" /\ outcome' = "OK"
                                  ELSE UNCHANGED <<step, outcome>>
             /\ UNCHANGED <<path, alone>>
          \/ /\ gone = {} \/ "unlink" \in Faults
             /\ Fail
             /\ alone' = (alone /\ gone = {})
             /\ UNCHANGED there
    /\ UNCHANGED <<top, found>>

RmStep == OpenDir \/ NextEntry \/ Unlink \/ EndDir

\* What it was about is of no more interest.
Forget == outcome' = "none" /\ found' = {} /\ alone' = FALSE

\* The caller takes notice of what rm_r has returned.
Returned ==
    /\ step = "idle" /\ outcome # "none"
    /\ Forget
    /\ UNCHANGED <<there, frames, top, path, step>>

\* The process is killed while it removes.
Abort ==
    /\ step # "idle"
    /\ frames' = <<>>
    /\ step' = "idle"
    /\ path' = <<>>
    /\ Forget
    /\ UNCHANGED <<there, top>>

\* Some other program, npm say, adds an entry to a directory.
Grow ==
    /\ "grow" \in Faults
    /\ \E n \in Nodes \ (Shipped \cup there) :
        /\ Front(n) \in there
        /\ there' = there \cup {n}
    /\ alone' = FALSE
    /\ UNCHANGED <<frames, top, path, step, found, outcome>>
-----------------------------------------------------------------------------
(* rm_r by itself, on whatever an installation, npm and earlier removals left. *)

Closed(S) == \A n \in S : Front(n) \in S \cup {<<>>}

TreeInit ==
    /\ frames = <<>>
    /\ top \in Tops
    /\ path = <<>>
    /\ step = "idle"
    /\ found = {}
    /\ alone = FALSE
    /\ outcome = "none"

RmInit == TreeInit /\ there \in {S \in SUBSET Nodes : Closed(S)}

RmSpec == RmInit /\ [][(\E d \in Tops : Begin(d)) \/ RmStep \/ Returned]_treeVars
-----------------------------------------------------------------------------
Outcomes == {"none", "running", "OK", "ERROR"}

Names == UNION {ToSet(n) : n \in Nodes}

Frame == [path : Seq(Names), node : Dirs, todo : SUBSET Nodes]

TreeTypeOK ==
    /\ there \subseteq Nodes /\ Closed(there)
    /\ frames \in Seq(Frame)
    /\ top \in Tops
    /\ path \in Seq(Names)
    /\ step \in {"idle", "open", "next", "unlink"}
    /\ (step = "idle") => (frames = <<>>)
    /\ found \subseteq Links
    /\ alone \in BOOLEAN
    /\ outcome \in Outcomes

\* "remove the given directory and it's contents recursively", says core/rm-r.h:6 of
\* rm_r: nothing else is removed.  It is when a link leads to a directory (rm-r.c:59).
SparesTheRest ==
    [][step # "idle" => there \ there' \subseteq Tree[top]]_treeVars

\* What it removes elsewhere lies below a directory that a link leads to: never that
\* directory itself, and nothing beside it.
TakesOnlyThroughLinks ==
    [][step # "idle" =>
           \A n \in there \ there' :
               \/ n \in Tree[top]
               \/ \E l \in Links : n \in Below(Target[l]) \ {Target[l]}]_treeVars

\* A link to a directory cannot be removed while that is there: rmdir refuses it.  So
\* rm_r never reports success when it has come upon a link to one elsewhere.
SuccessMetNoDirLink == outcome = "OK" => \A l \in found : Target[l] \in Tree[top]

\* Whatever is left of a version, and in whatever order its entries come, rm_r removes
\* it when nothing interferes: links to files, and links whose file is already gone
\* (the comment at rm-r.c:76), do not stop it.  Only a link to a directory may.
RemovesAllAlone == outcome = "ERROR" /\ alone => found # {}
-----------------------------------------------------------------------------
(* Why that is so: what holds between any two steps. *)

\* The path of the i-th call.
Above(i) == IF i = 0 THEN <<>> ELSE frames[i].path

\* What the i-th call is waiting for: the next one, or the one to come.
Child(i) == IF i < Len(frames) THEN frames[i + 1].path ELSE path

IsBelow(p, i) == Len(p) = i + 1 /\ p[1] = top /\ Front(p) = Above(i)

\* Each call is about an entry of the directory the one before is about.
CallsNest ==
    /\ step = "idle" <=> outcome # "running"
    /\ step \in {"idle", "next"} <=> path = <<>>
    /\ step \in {"next", "unlink"} => frames # <<>>
    /\ path # <<>> => IsBelow(path, Len(frames))
    /\ \A i \in DOMAIN frames :
        /\ IsBelow(frames[i].path, i - 1)
        /\ \A n \in frames[i].todo : Front(n) = frames[i].node
    /\ \A l \in found : l \in Tree[top] /\ Target[l] \in Dirs
    /\ outcome = "none" => found = {}

\* A call has gone through a link to a directory: rmdir will refuse that.
InLink == \E i \in DOMAIN frames : frames[i].path \in Links

Outside == {l \in found : Target[l] \notin Tree[top]}

\* Until it goes through a link rm_r is where its paths say, and spares the links it
\* would have to go through.
SparesLinks ==
    step # "idle" /\ ~InLink =>
        /\ \A i \in DOMAIN frames : frames[i].path = frames[i].node
        /\ path # <<>> => path \in Nodes
        /\ \A l \in Outside : l \in there /\ Target[l] \in there
        /\ step = "unlink" => path \notin Outside

\* When nothing interferes every call still has to see just what is there.
KnowsAll ==
    step # "idle" /\ alone /\ found = {} =>
        /\ \A i \in DOMAIN frames :
            /\ frames[i].path = frames[i].node
            /\ frames[i].node \in there
            /\ frames[i].todo = Entries(frames[i].node) \ {Child(i)}
        /\ path # <<>> => path \in there /\ (path \in Dirs <=> step = "open")
        /\ \A l \in Links \cap Tree[top] \cap there : Target[l] \notin there \cap Dirs

TreeInv == CallsNest /\ SparesLinks /\ KnowsAll /\ SuccessMetNoDirLink /\ RemovesAllAlone
=============================================================================
