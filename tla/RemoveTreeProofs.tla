-------------------------- MODULE RemoveTreeProofs --------------------------
(***************************************************************************)
(* What holds of paths, and of every step of rm_r, in any tree.            *)
(***************************************************************************)
EXTENDS RemoveTree, Inductions, SequenceTheorems

WalkStates == [at : Seq(STRING), links : Nat]
WalkStart == [at |-> <<>>, links |-> 0]

\* A node is a sequence of names, the last of which is its own.
LEMMA NodeFacts ==
    ASSUME NEW n \in Nodes
    PROVE  /\ n \in Seq(STRING) /\ n # <<>> /\ Len(n) \in Nat \ {0}
           /\ Front(n) \in Seq(STRING) /\ Last(n) \in STRING
           /\ Len(Front(n)) = Len(n) - 1
           /\ n = Append(Front(n), Last(n))
           /\ Front(n) \in Dirs \cup {<<>>}
  <1>1. n \in Seq(STRING) /\ n # <<>> /\ Front(n) \in Dirs \cup {<<>>}
    BY TreeAssumption
  <1> QED
    BY <1>1, FrontAndLast

\* A name further is a place in the tree, or nowhere.
LEMMA FollowType ==
    ASSUME NEW w \in WalkStates, NEW x \in STRING
    PROVE  Follow(w, x) \in WalkStates
  <1> DEFINE n == Append(w.at, x)
  <1>1. n \in Seq(STRING)
    BY AppendProperties DEF WalkStates
  <1>2. \A l \in Links : Target[l] \in Seq(STRING)
    <2>1. \A l \in Links : Target[l] \in Nodes \cup {Nowhere}
      BY TreeAssumption DEF Nodes
    <2> QED
      BY <2>1, TreeAssumption, NodeFacts
  <1>3. Nowhere \in Seq(STRING)
    BY TreeAssumption
  <1>4. w = [at |-> w.at, links |-> w.links] /\ w.links \in Nat
    BY DEF WalkStates
  <1>5. Follow(w, x) = IF n \notin there THEN [w EXCEPT !.at = Nowhere]
                       ELSE IF n \in Links THEN [at |-> Target[n], links |-> w.links + 1]
                       ELSE [w EXCEPT !.at = n]
    BY DEF Follow
  <1> HIDE DEF n
  <1>6. \A q \in Seq(STRING) : [w EXCEPT !.at = q] \in WalkStates
    <2> DEFINE P == Seq(STRING)
    <2>1. \A q \in P : w \in [at : P, links : Nat] => [w EXCEPT !.at = q] \in [at : P, links : Nat]
      <3> HIDE DEF P
      <3> QED
        OBVIOUS
    <2> QED
      BY <2>1 DEF WalkStates
  <1>7. n \in Links => [at |-> Target[n], links |-> w.links + 1] \in WalkStates
    BY <1>2, <1>4 DEF WalkStates
  <1> QED
    BY <1>1, <1>3, <1>5, <1>6, <1>7

\* The walk is what the definition says, one name after the other.
LEMMA WalkIs ==
    ASSUME NEW p \in Seq(STRING), NEW f \in [0 .. Len(p) -> WalkStates], f[0] = WalkStart,
           \A i \in 1 .. Len(p) : f[i] = Follow(f[i - 1], p[i])
    PROVE  Walk(p) = f[Len(p)]
  <1> DEFINE Def(g) == [i \in 0 .. Len(p) |-> IF i = 0 THEN WalkStart
                                              ELSE Follow(g[i - 1], p[i])]
             after == CHOOSE g : g = Def(g)
  <1>0. Len(p) \in Nat
    OBVIOUS
  <1>1. f = Def(f)
    BY <1>0
  <1>2. after = Def(after)
    <2> HIDE DEF Def
    <2> QED
      BY <1>1
  <1>3. \A i \in 0 .. Len(p) : after[i] = f[i]
    <2> DEFINE S == {i \in 0 .. Len(p) : after[i] = f[i]}
    <2>1. 0 \in S
      BY <1>0, <1>2
    <2>2. ASSUME NEW n \in 0 .. Len(p) - 1, n \in S PROVE n + 1 \in S
      <3>1. after[n + 1] = Follow(after[n], p[n + 1])
        <4> HIDE DEF after
        <4> QED
          BY <1>2
      <3>2. f[n + 1] = Follow(f[n], p[n + 1])
        OBVIOUS
      <3> QED
        BY <2>2, <3>1, <3>2
    <2>3. \A i \in 0 .. Len(p) : i \in S
      <3> HIDE DEF S
      <3> QED
        BY <1>0, <2>1, <2>2, InductionUpTo
    <2> QED
      BY <2>3
  <1>4. Walk(p) = after[Len(p)]
    BY DEF Walk, WalkStart
  <1> QED
    BY <1>0, <1>3, <1>4

\* A path can be walked, and each name adds one step.
LEMMA WalkIterates ==
    ASSUME NEW p \in Seq(STRING)
    PROVE  \E f \in [0 .. Len(p) -> WalkStates] :
               f[0] = WalkStart /\ \A i \in 1 .. Len(p) : f[i] = Follow(f[i - 1], p[i])
  <1> DEFINE D == [a \in WalkStates \X STRING |-> Follow(a[1], a[2])]
  <1>1. D \in [WalkStates \X STRING -> WalkStates]
    BY FollowType
  <1>2. WalkStart \in WalkStates
    BY DEF WalkStart, WalkStates
  <1>3. PICK f : f \in Runs(WalkStates, D, WalkStart, p)
    <2> HIDE DEF D
    <2>1. D \in Steps(WalkStates, STRING)
      BY <1>1 DEF Steps
    <2>2. Runs(WalkStates, D, WalkStart, p) # {}
      BY <1>2, <2>1, Iteration
    <2> QED
      BY <2>2
  <1>4. ASSUME NEW i \in 1 .. Len(p) PROVE f[i] = Follow(f[i - 1], p[i])
    <2>1. i - 1 \in 0 .. Len(p) /\ f \in [0 .. Len(p) -> WalkStates] /\ f[i] = D[<<f[i - 1], p[i]>>]
      <3> HIDE DEF D
      <3> QED
        BY <1>3 DEF Runs
    <2>2. f[i - 1] \in WalkStates /\ p[i] \in STRING
      BY <2>1, ElementOfSeq
    <2> QED
      BY <2>1, <2>2
  <1> QED
    BY <1>3, <1>4 DEF Runs

\* No name, no step.
LEMMA WalkEmpty == Walk(<<>>) = WalkStart
  <1> DEFINE e == <<>>
  <1>1. e \in Seq(STRING) /\ Len(e) = 0
    OBVIOUS
  <1> HIDE DEF e
  <1>2. PICK f \in [0 .. Len(e) -> WalkStates] :
            f[0] = WalkStart /\ \A i \in 1 .. Len(e) : f[i] = Follow(f[i - 1], e[i])
    BY <1>1, WalkIterates
  <1>3. Walk(e) = f[0]
    BY <1>1, <1>2, WalkIs
  <1> QED
    BY <1>2, <1>3 DEF e

\* One name more is one step more.
LEMMA WalkAppend ==
    ASSUME NEW p \in Seq(STRING), NEW x \in STRING
    PROVE  /\ Walk(p) \in WalkStates
           /\ Walk(Append(p, x)) = Follow(Walk(p), x)
  <1> DEFINE q == Append(p, x)
  <1>1. /\ q \in Seq(STRING) /\ Len(q) = Len(p) + 1 /\ Len(p) \in Nat
        /\ \A i \in 1 .. Len(p) : q[i] = p[i]
        /\ q[Len(q)] = x
    BY AppendProperties, LenProperties
  <1>2. PICK f \in [0 .. Len(q) -> WalkStates] :
            f[0] = WalkStart /\ \A i \in 1 .. Len(q) : f[i] = Follow(f[i - 1], q[i])
    BY <1>1, WalkIterates
  <1>3. Walk(q) = f[Len(q)]
    <2> HIDE DEF q
    <2> QED
      BY <1>1, <1>2, WalkIs
  <1> DEFINE g == [i \in 0 .. Len(p) |-> f[i]]
  <1>4. g \in [0 .. Len(p) -> WalkStates] /\ g[0] = WalkStart
    BY <1>1, <1>2
  <1>5. ASSUME NEW i \in 1 .. Len(p) PROVE g[i] = Follow(g[i - 1], p[i])
    <2>1. q[i] = p[i] /\ i \in 1 .. Len(q) /\ g[i] = f[i] /\ g[i - 1] = f[i - 1]
      BY <1>1
    <2> QED
      BY <1>2, <2>1
  <1>6. Walk(p) = g[Len(p)]
    <2> HIDE DEF g
    <2> QED
      BY <1>4, <1>5, WalkIs
  <1>7. q[Len(q)] = x /\ g[Len(p)] = f[Len(p)] /\ Len(q) \in 1 .. Len(q)
    BY <1>1
  <1> QED
    BY <1>1, <1>2, <1>3, <1>4, <1>6, <1>7
-----------------------------------------------------------------------------
(* The tree *)

\* Paths are made of the names of nodes.
LEMMA NamesFacts ==
    /\ Names \subseteq STRING
    /\ Seq(Names) \subseteq Seq(STRING)
    /\ \A n \in Nodes : n \in Seq(Names) /\ Last(n) \in Names
  <1>1. ASSUME NEW n \in Nodes PROVE ToSet(n) \subseteq STRING /\ n \in Seq(ToSet(n)) /\ Last(n) \in ToSet(n)
    <2>1. n \in Seq(STRING) /\ n # <<>> /\ Len(n) \in Nat \ {0} /\ DOMAIN n = 1 .. Len(n)
      BY NodeFacts, LenProperties
    <2>2. ToSet(n) = Range(n)
      BY DEF ToSet, Range
    <2>3. ToSet(n) \subseteq STRING
      BY <2>1, ElementOfSeq DEF ToSet
    <2>4. n \in Seq(ToSet(n))
      BY <2>1, <2>2, SeqOfRange
    <2>5. Last(n) \in ToSet(n)
      BY <2>1 DEF ToSet, Last
    <2> QED
      BY <2>3, <2>4, <2>5
  <1>2. Names \subseteq STRING
    BY <1>1 DEF Names
  <1>3. Seq(Names) \subseteq Seq(STRING)
    BY <1>2, SeqMonotonic
  <1>4. ASSUME NEW n \in Nodes PROVE n \in Seq(Names) /\ Last(n) \in Names
    <2>1. ToSet(n) \subseteq Names
      BY DEF Names
    <2>2. n \in Seq(Names)
      BY <1>1, <2>1, SeqMonotonic
    <2> QED
      BY <1>1, <2>1, <2>2
  <1> QED
    BY <1>2, <1>3, <1>4

\* What a name stands for is what begins with that name.
LEMMA TreeFacts ==
    ASSUME NEW d \in Tops
    PROVE  /\ d \in STRING /\ <<d>> \in Dirs /\ <<d>> \in Tree[d]
           /\ Tree[d] = {n \in Nodes : n[1] = d}
  <1>1. PICK e \in Dirs : Len(e) = 1 /\ d = e[1]
    BY DEF Tops
  <1>2. e \in Seq(STRING) /\ e \in Nodes
    BY NodeFacts DEF Nodes
  <1>3. d \in STRING
    BY <1>1, <1>2, ElementOfSeq
  <1>4. <<d>> \in Seq(STRING) /\ Len(<<d>>) = 1 /\ <<d>>[1] = d
    BY <1>3, Singleton
  <1>5. e = <<d>>
    <2> DEFINE s == <<d>>
    <2>1. s \in Seq(STRING) /\ Len(s) = 1 /\ s[1] = d
      BY <1>4
    <2> HIDE DEF s
    <2>2. e = s
      BY <1>1, <1>2, <2>1, SeqEqual
    <2> QED
      BY <2>2 DEF s
  <1>6. ASSUME NEW n \in Nodes PROVE IsPrefix(<<d>>, n) <=> n[1] = d
    <2> DEFINE s == <<d>>
    <2>1. s \in Seq(STRING) /\ Len(s) = 1 /\ s[1] = d
      BY <1>4
    <2>2. n \in Seq(STRING) /\ Len(n) \in Nat \ {0}
      BY NodeFacts
    <2> HIDE DEF s
    <2>3. IsPrefix(s, n) <=> Len(s) <= Len(n) /\ \A i \in 1 .. Len(s) : s[i] = n[i]
      <3> DEFINE T == STRING
      <3>1. s \in Seq(T) /\ n \in Seq(T)
        BY <2>1, <2>2
      <3> HIDE DEF T
      <3> QED
        BY <3>1, PrefixElements
    <2>4. IsPrefix(s, n) <=> n[1] = d
      BY <2>1, <2>2, <2>3
    <2> QED
      BY <2>4 DEF s
  <1>7. Tree[d] = {n \in Nodes : n[1] = d}
    BY <1>6 DEF Tree, Below
  <1> QED
    BY <1>1, <1>2, <1>3, <1>4, <1>5, <1>7

\* What is in a tree has all that lies above it in it.
LEMMA ClosedAbove ==
    ASSUME NEW S, S \subseteq Nodes, Closed(S), NEW q \in Seq(STRING), q # <<>>,
           NEW n \in S, IsPrefix(q, n)
    PROVE  q \in S
  <1> DEFINE Q == {s \in Seq(STRING) : s \in S /\ IsPrefix(q, s) => q \in S}
  <1>1. <<>> \in Q
    <2>1. <<>> \notin Nodes
      BY NodeFacts
    <2> QED
      BY <2>1, EmptySeq
  <1>2. ASSUME NEW s \in Seq(STRING), NEW e \in STRING, s \in Q PROVE Append(s, e) \in Q
    <2> DEFINE u == Append(s, e)
    <2>1. u \in Seq(STRING) /\ Front(u) = s
      BY AppendProperties, FrontAndLastOfAppend
    <2> HIDE DEF u
    <2>2. ASSUME u \in S, IsPrefix(q, u), q # u PROVE q \in S
      <3>1. IsPrefix(q, s)
        BY <2>2, PrefixAppend DEF u
      <3>2. s # <<>>
        <4>1. Len(q) <= Len(s) /\ Len(q) \in Nat \ {0}
          BY <3>1, EmptySeq DEF IsPrefix
        <4> QED
          BY <4>1, EmptySeq
      <3>3. s \in S
        BY <2>1, <2>2, <3>2 DEF Closed
      <3> QED
        BY <1>2, <3>1, <3>3
    <2>3. u \in Q
      BY <2>1, <2>2
    <2> QED
      BY <2>3 DEF u
  <1>3. \A s \in Seq(STRING) : s \in Q
    <2> HIDE DEF Q
    <2> QED
      BY <1>1, <1>2, SequenceInduction
  <1>4. n \in Seq(STRING)
    BY NodeFacts
  <1> QED
    BY <1>3, <1>4

\* Nothing lies where a link that leads nowhere leads.
LEMMA NowhereIsNoNode ==
    ASSUME NEW q \in Seq(STRING), IsPrefix(Nowhere, q), NEW x \in STRING
    PROVE  q \notin Nodes /\ Append(q, x) \notin Nodes
  <1>1. Nowhere \in Seq(STRING) /\ \A n \in Nodes : ~IsPrefix(Nowhere, n)
    BY TreeAssumption
  <1>2. IsPrefix(Nowhere, Append(q, x))
    BY <1>1, PrefixAppend
  <1> QED
    BY <1>1, <1>2
-----------------------------------------------------------------------------
(* Where paths lead *)

TreeOK == there \subseteq Nodes /\ Closed(there)

\* One name further, from a directory and from nowhere.
LEMMA FollowFacts ==
    ASSUME TreeOK, NEW n \in Nodes, NEW w \in WalkStates
    PROVE  /\ w.at = Nowhere => Follow(w, Last(n)).at = Nowhere
           /\ w.at = Front(n) =>
                  Follow(w, Last(n)) = IF n \notin there THEN [w EXCEPT !.at = Nowhere]
                                       ELSE IF n \in Links THEN [at |-> Target[n], links |-> w.links + 1]
                                       ELSE [w EXCEPT !.at = n]
  <1>1. Last(n) \in STRING /\ n = Append(Front(n), Last(n))
    BY NodeFacts
  <1>2. ASSUME w.at = Nowhere PROVE Follow(w, Last(n)).at = Nowhere
    <2>1. Nowhere \in Seq(STRING)
      BY TreeAssumption
    <2>2. Append(Nowhere, Last(n)) \notin there
      <3>1. IsPrefix(Nowhere, Nowhere)
        BY <2>1, PrefixOrder
      <3> QED
        BY <1>1, <2>1, <3>1, NowhereIsNoNode DEF TreeOK
    <2>3. Follow(w, Last(n)) = [w EXCEPT !.at = Nowhere]
      BY <1>2, <2>2 DEF Follow
    <2> QED
      BY <2>3 DEF WalkStates
  <1>3. w.at = Front(n) =>
            Follow(w, Last(n)) = IF n \notin there THEN [w EXCEPT !.at = Nowhere]
                                 ELSE IF n \in Links THEN [at |-> Target[n], links |-> w.links + 1]
                                 ELSE [w EXCEPT !.at = n]
    BY <1>1 DEF Follow
  <1> QED
    BY <1>2, <1>3

\* The path that is the name of a directory leads there, or nowhere once it is gone.
LEMMA WalkToDir ==
    ASSUME TreeOK, NEW d \in Dirs \cup {<<>>}
    PROVE  /\ d \in Seq(STRING) /\ Walk(d) \in WalkStates
           /\ Walk(d).at \in {d, Nowhere}
           /\ d \in there \cup {<<>>} => Walk(d) = [at |-> d, links |-> 0]
  <1> DEFINE OK(s) == /\ Walk(s) \in WalkStates
                      /\ Walk(s).at \in {s, Nowhere}
                      /\ s \in there \cup {<<>>} => Walk(s) = [at |-> s, links |-> 0]
             Q == {s \in Seq(STRING) : s \in Dirs \cup {<<>>} => OK(s)}
  <1>1. <<>> \in Q
    <2>1. OK(<<>>)
      <3>1. <<>> \in Seq(STRING)
        BY EmptySeq
      <3>2. WalkStart \in WalkStates
        BY <3>1 DEF WalkStart, WalkStates
      <3> QED
        BY <3>2, WalkEmpty DEF WalkStart
    <2> QED
      BY <2>1, EmptySeq
  <1>2. ASSUME NEW s \in Seq(STRING), NEW e \in STRING, s \in Q PROVE Append(s, e) \in Q
    <2> DEFINE u == Append(s, e)
    <2>1. u \in Seq(STRING) /\ Front(u) = s /\ Last(u) = e /\ u # <<>>
      <3>1. u \in Seq(STRING) /\ u # <<>>
        <4>1. u \in Seq(STRING) /\ Len(u) = Len(s) + 1 /\ Len(s) \in Nat
          BY AppendProperties, LenProperties
        <4>2. Len(<<>>) = 0
          OBVIOUS
        <4> HIDE DEF u
        <4> QED
          BY <4>1, <4>2
      <3>2. Front(u) = s
        BY FrontAndLastOfAppend
      <3>3. Last(u) = e
        BY FrontAndLastOfAppend
      <3> QED
        BY <3>1, <3>2, <3>3
    <2>2. Walk(u) = Follow(Walk(s), e) /\ Walk(s) \in WalkStates
      BY WalkAppend
    <2> HIDE DEF u
    <2>3. ASSUME u \in Dirs PROVE OK(u)
      <3>1. u \in Nodes /\ u \notin Links /\ s \in Dirs \cup {<<>>}
        BY <2>1, <2>3, NodeFacts, TreeAssumption DEF Nodes
      <3>2. OK(s)
        BY <1>2, <3>1
      <3>3. Walk(u) \in WalkStates
        BY <2>2, FollowType
      <3>4. /\ Walk(s).at = Nowhere => Walk(u).at = Nowhere
            /\ Walk(s).at = s => Walk(u) = IF u \notin there THEN [Walk(s) EXCEPT !.at = Nowhere]
                                           ELSE [Walk(s) EXCEPT !.at = u]
        BY <2>1, <2>2, <3>1, FollowFacts
      <3>5. u \in there => s \in there \cup {<<>>}
        BY <2>1 DEF TreeOK, Closed
      <3>6. Walk(u).at \in {u, Nowhere}
        BY <2>2, <3>2, <3>4 DEF WalkStates
      <3>7. u \in there => Walk(u) = [at |-> u, links |-> 0]
        BY <3>2, <3>4, <3>5
      <3> QED
        BY <2>1, <3>3, <3>6, <3>7
    <2>4. u \in Q
      BY <2>1, <2>3
    <2> QED
      BY <2>4 DEF u
  <1>3. \A s \in Seq(STRING) : s \in Q
    <2> HIDE DEF Q
    <2> QED
      BY <1>1, <1>2, SequenceInduction
  <1>4. d \in Seq(STRING)
    <2>1. CASE d = <<>>
      BY <2>1, EmptySeq
    <2>2. CASE d \in Dirs
      BY <2>2, NodeFacts DEF Nodes
    <2> QED
      BY <2>1, <2>2
  <1> QED
    BY <1>3, <1>4

\* The path that is the name of a node names nothing but that.
LEMMA NamedNode ==
    ASSUME TreeOK, NEW p \in Nodes
    PROVE  /\ Named(p) \subseteq {p}
           /\ p \in there => Named(p) = {p}
  <1>1. Front(p) \in Dirs \cup {<<>>} /\ p = Append(Front(p), Last(p)) /\ Last(p) \in STRING
    BY NodeFacts
  <1>2. Walk(Front(p)).at \in {Front(p), Nowhere}
    BY <1>1, WalkToDir
  <1>3. Append(Nowhere, Last(p)) \notin Nodes
    <2>1. Nowhere \in Seq(STRING)
      BY TreeAssumption
    <2>2. IsPrefix(Nowhere, Nowhere)
      BY <2>1, PrefixOrder
    <2> QED
      BY <1>1, <2>1, <2>2, NowhereIsNoNode
  <1>4. Named(p) \subseteq {p}
    BY <1>1, <1>2, <1>3 DEF Named, TreeOK
  <1>5. ASSUME p \in there PROVE p \in Named(p)
    <2>1. Front(p) \in there \cup {<<>>}
      BY <1>5 DEF TreeOK, Closed
    <2>2. Walk(Front(p)) = [at |-> Front(p), links |-> 0]
      BY <1>1, <2>1, WalkToDir
    <2>3. 0 <= MaxLinks
      BY TreeAssumption
    <2> QED
      BY <1>1, <1>5, <2>2, <2>3 DEF Named
  <1> QED
    BY <1>4, <1>5

\* What stat finds at the name of a node.
LEMMA IsDirOfNode ==
    ASSUME TreeOK, NEW p \in Nodes
    PROVE  /\ p \in Dirs /\ p \in there => IsDir(p)
           /\ p \in Dirs /\ IsDir(p) => p \in there /\ Walk(p).at = p
           /\ p \in Files => ~IsDir(p)
           /\ p \in Links /\ p \in there /\ Target[p] \in there \cap Dirs => IsDir(p)
           /\ p \in Links /\ IsDir(p) => p \in there /\ Target[p] \in there \cap Dirs
  <1>1. /\ Front(p) \in Dirs \cup {<<>>} /\ Front(p) \in Seq(STRING) /\ Last(p) \in STRING
        /\ p = Append(Front(p), Last(p)) /\ p \in Seq(STRING)
    BY NodeFacts
  <1> DEFINE w == Walk(Front(p))
  <1>2. w \in WalkStates /\ w.at \in {Front(p), Nowhere}
    BY <1>1, WalkToDir
  <1>3. Walk(p) = Follow(w, Last(p)) /\ Walk(p) \in WalkStates
    BY <1>1, <1>2, WalkAppend, FollowType
  <1>4. Nowhere \notin there
    <2>1. Nowhere \in Seq(STRING)
      BY TreeAssumption
    <2>2. IsPrefix(Nowhere, Nowhere)
      BY <2>1, PrefixOrder
    <2> QED
      BY <2>2, TreeAssumption DEF TreeOK
  <1>5. /\ w.at = Nowhere => Walk(p).at = Nowhere
        /\ w.at = Front(p) =>
              Walk(p) = IF p \notin there THEN [w EXCEPT !.at = Nowhere]
                        ELSE IF p \in Links THEN [at |-> Target[p], links |-> w.links + 1]
                        ELSE [w EXCEPT !.at = p]
    BY <1>2, <1>3, FollowFacts
  <1>6. IsDir(p) <=> Walk(p).links <= MaxLinks /\ Walk(p).at \in there \cap Dirs
    BY DEF IsDir
  <1>7. p \in there => w = [at |-> Front(p), links |-> 0]
    <2>1. p \in there => Front(p) \in there \cup {<<>>}
      BY DEF TreeOK, Closed
    <2> QED
      BY <1>1, <2>1, WalkToDir
  <1>8. p \notin there => Walk(p).at = Nowhere
    BY <1>2, <1>5 DEF WalkStates
  <1>9. p \in there /\ p \in Links => Walk(p) = [at |-> Target[p], links |-> 1]
    BY <1>5, <1>7
  <1>10. p \in there /\ p \notin Links => Walk(p) = [at |-> p, links |-> 0]
    BY <1>5, <1>7
  <1>11. 0 <= MaxLinks /\ 1 <= MaxLinks
    BY TreeAssumption
  <1>12. Dirs \cap Files = {} /\ Dirs \cap Links = {} /\ Files \cap Links = {}
    BY TreeAssumption
  <1> HIDE DEF w
  <1>13. p \in Dirs => (IsDir(p) <=> p \in there) /\ (p \in there => Walk(p).at = p)
    BY <1>4, <1>6, <1>8, <1>10, <1>11, <1>12
  <1>14. p \in Files => ~IsDir(p)
    BY <1>4, <1>6, <1>8, <1>10, <1>12
  <1>15. p \in Links => (IsDir(p) <=> p \in there /\ Target[p] \in there \cap Dirs)
    BY <1>4, <1>6, <1>8, <1>9, <1>11
  <1> QED
    BY <1>13, <1>14, <1>15

\* Below the directory d, below what a link leads to, or nowhere.
Reach(d) == {q \in Seq(STRING) : \/ IsPrefix(<<d>>, q) \/ IsPrefix(Nowhere, q)
                                 \/ \E l \in Links : IsPrefix(Target[l], q)}

ThroughLink(n) == \E l \in Links : n \in Below(Target[l]) \ {Target[l]}

\* What lies one name further from such a place lies at one again.
LEMMA ReachStep ==
    ASSUME TreeOK, NEW d \in Tops, NEW q \in Reach(d), NEW x \in STRING, Append(q, x) \in there
    PROVE  /\ Append(q, x) \in Reach(d)
           /\ Append(q, x) \in Tree[d] \/ ThroughLink(Append(q, x))
  <1> DEFINE n == Append(q, x)
  <1>1. q \in Seq(STRING) /\ <<d>> \in Seq(STRING) /\ Nowhere \in Seq(STRING)
    BY TreeFacts, Singleton, TreeAssumption DEF Reach
  <1>2. n \in Seq(STRING) /\ Len(n) = Len(q) + 1 /\ Len(q) \in Nat /\ n \in Nodes
    BY <1>1, AppendProperties, LenProperties DEF TreeOK
  <1>3. ~IsPrefix(Nowhere, q)
    BY <1>1, <1>2, NowhereIsNoNode
  <1>4. CASE IsPrefix(<<d>>, q)
    <2>1. IsPrefix(<<d>>, n)
      BY <1>1, <1>4, PrefixAppend
    <2> HIDE DEF n
    <2>2. n \in Tree[d] /\ n \in Reach(d)
      BY <1>2, <2>1 DEF Tree, Below, Reach
    <2> QED
      BY <2>2 DEF n
  <1>5. CASE \E l \in Links : IsPrefix(Target[l], q)
    <2>1. PICK l \in Links : IsPrefix(Target[l], q)
      BY <1>5
    <2>2. Target[l] \in Seq(STRING)
      <3>1. Target[l] \in Nodes \cup {Nowhere}
        BY TreeAssumption DEF Nodes
      <3> QED
        BY <1>1, <3>1, NodeFacts
    <2>3. IsPrefix(Target[l], n)
      BY <1>1, <2>1, <2>2, PrefixAppend
    <2>4. n # Target[l]
      <3>1. Len(Target[l]) <= Len(q)
        BY <2>1 DEF IsPrefix
      <3> HIDE DEF n
      <3> QED
        BY <1>2, <3>1
    <2> HIDE DEF n
    <2>5. ThroughLink(n) /\ n \in Reach(d)
      BY <1>2, <2>3, <2>4 DEF ThroughLink, Below, Reach
    <2> QED
      BY <2>5 DEF n
  <1> QED
    BY <1>3, <1>4, <1>5 DEF Reach

\* A path from a directory leads below it, or through a link.
LEMMA WalkReaches ==
    ASSUME TreeOK, NEW d \in Tops, NEW p \in Seq(STRING), p # <<>>, p[1] = d
    PROVE  Walk(p).at \in Reach(d)
  <1> DEFINE Q == {s \in Seq(STRING) : s # <<>> /\ s[1] = d => Walk(s).at \in Reach(d)}
  <1>0. /\ Nowhere \in Reach(d)
        /\ \A l \in Links : Target[l] \in Reach(d)
        /\ <<d>> \in Reach(d)
    <2>1. \A q \in Seq(STRING) : IsPrefix(q, q)
      BY PrefixOrder
    <2>2. \A l \in Links : Target[l] \in Seq(STRING)
      <3>1. \A l \in Links : Target[l] \in Nodes \cup {Nowhere}
        BY TreeAssumption DEF Nodes
      <3> QED
        BY <3>1, TreeAssumption, NodeFacts
    <2>3. Nowhere \in Seq(STRING) /\ <<d>> \in Seq(STRING)
      BY TreeAssumption, TreeFacts, Singleton
    <2> QED
      BY <2>1, <2>2, <2>3 DEF Reach
  <1>1. <<>> \in Q
    BY EmptySeq
  <1>2. ASSUME NEW s \in Seq(STRING), NEW e \in STRING, s \in Q PROVE Append(s, e) \in Q
    <2> DEFINE u == Append(s, e)
               w == Walk(s)
               n == Append(w.at, e)
    <2>1. u \in Seq(STRING)
      BY AppendProperties
    <2>2. Walk(u) = Follow(w, e) /\ w \in WalkStates
      BY WalkAppend
    <2>3. Walk(u).at = IF n \notin there THEN Nowhere ELSE IF n \in Links THEN Target[n] ELSE n
      <3> HIDE DEF w, u
      <3> QED
        BY <2>2 DEF Follow, WalkStates
    <2>4. CASE s = <<>>
      <3>1. w.at = <<>>
        BY <2>4, WalkEmpty DEF WalkStart
      <3>2. n = <<e>> /\ u[1] = e
        <4>1. Append(<<>>, e) = <<e>> /\ <<e>>[1] = e
          BY Singleton
        <4> HIDE DEF w
        <4> QED
          BY <2>4, <3>1, <4>1
      <3>3. <<d>> \notin Links
        BY TreeFacts, TreeAssumption
      <3>4. u[1] = d => Walk(u).at \in Reach(d)
        <4> HIDE DEF n, u, w
        <4> QED
          BY <1>0, <2>3, <3>2, <3>3
      <3> QED
        BY <2>1, <3>4
    <2>5. CASE s # <<>>
      <3>1. u[1] = s[1]
        <4>1. Len(s) \in Nat \ {0}
          BY <2>5, EmptySeq
        <4>2. \A i \in 1 .. Len(s) : u[i] = s[i]
          BY AppendProperties
        <4> HIDE DEF u
        <4> QED
          BY <4>1, <4>2
      <3>2. ASSUME u[1] = d PROVE Walk(u).at \in Reach(d)
        <4>1. w.at \in Reach(d)
          <5> HIDE DEF u, w
          <5> QED
            BY <1>2, <2>5, <3>1, <3>2 DEF w
        <4>2. n \in there => n \in Reach(d)
          <5> HIDE DEF w
          <5> QED
            BY <4>1, ReachStep
        <4> HIDE DEF u, w, n
        <4> QED
          BY <1>0, <2>3, <4>2
      <3> QED
        BY <2>1, <3>2
    <2> QED
      BY <2>4, <2>5
  <1>3. \A s \in Seq(STRING) : s \in Q
    <2> HIDE DEF Q
    <2> QED
      BY <1>1, <1>2, SequenceInduction
  <1> QED
    BY <1>3

\* What a path from a directory names lies in that, or further than where a link leads.
LEMMA NamedThroughLinks ==
    ASSUME TreeOK, NEW d \in Tops, NEW p \in Seq(STRING), p # <<>>, p[1] = d, NEW n \in Named(p)
    PROVE  n \in Tree[d] \/ ThroughLink(n)
  <1>1. /\ Front(p) \in Seq(STRING) /\ Last(p) \in STRING /\ p = Append(Front(p), Last(p))
        /\ Len(p) \in Nat \ {0} /\ Len(Front(p)) = Len(p) - 1
        /\ \A i \in 1 .. Len(p) - 1 : Front(p)[i] = p[i]
    BY FrontAndLast
  <1>2. n \in there /\ n = Append(Walk(Front(p)).at, Last(p)) /\ n \in Nodes
    BY DEF Named, TreeOK
  <1>3. CASE Front(p) = <<>>
    <2>1. Walk(Front(p)).at = Front(p)
      BY <1>3, WalkEmpty DEF WalkStart
    <2>2. n = p
      BY <1>1, <1>2, <2>1
    <2> QED
      BY <1>2, <2>2, TreeFacts
  <1>4. CASE Front(p) # <<>>
    <2>1. Len(Front(p)) \in Nat \ {0}
      BY <1>1, <1>4, EmptySeq
    <2>2. Front(p)[1] = d
      BY <1>1, <2>1
    <2>3. Walk(Front(p)).at \in Reach(d)
      BY <1>1, <1>4, <2>2, WalkReaches
    <2> QED
      BY <1>1, <1>2, <2>3, ReachStep
  <1> QED
    BY <1>3, <1>4
-----------------------------------------------------------------------------
(* The steps of rm_r *)

\* The calls, and what becomes of them when one begins or ends.
LEMMA FrameFacts ==
    ASSUME frames \in Seq(Frame)
    PROVE  /\ Len(frames) \in Nat /\ DOMAIN frames = 1 .. Len(frames)
           /\ \A i \in 1 .. Len(frames) : frames[i] \in Frame
           /\ frames # <<>> =>
                 /\ Len(frames) \in Nat \ {0} /\ Last(frames) = frames[Len(frames)]
                 /\ Front(frames) \in Seq(Frame) /\ Len(Front(frames)) = Len(frames) - 1
                 /\ DOMAIN Front(frames) = 1 .. Len(frames) - 1
                 /\ \A i \in 1 .. Len(frames) - 1 : Front(frames)[i] = frames[i]
  <1>1. /\ Len(frames) \in Nat /\ DOMAIN frames = 1 .. Len(frames)
        /\ \A i \in 1 .. Len(frames) : frames[i] \in Frame
    BY LenProperties, ElementOfSeq
  <1>2. ASSUME frames # <<>>
        PROVE  /\ Len(frames) \in Nat \ {0} /\ Last(frames) = frames[Len(frames)]
               /\ Front(frames) \in Seq(Frame) /\ Len(Front(frames)) = Len(frames) - 1
               /\ DOMAIN Front(frames) = 1 .. Len(frames) - 1
               /\ \A i \in 1 .. Len(frames) - 1 : Front(frames)[i] = frames[i]
    <2>1. /\ Len(frames) \in Nat \ {0}
          /\ Front(frames) \in Seq(Frame) /\ Len(Front(frames)) = Len(frames) - 1
          /\ \A i \in 1 .. Len(frames) - 1 : Front(frames)[i] = frames[i]
      BY <1>2, FrontAndLast
    <2>2. DOMAIN Front(frames) = 1 .. Len(Front(frames))
      BY <2>1, LenProperties
    <2>3. Last(frames) = frames[Len(frames)]
      BY DEF Last
    <2> QED
      BY <2>1, <2>2, <2>3
  <1> QED
    BY <1>1, <1>2

\* A path to an entry is not the empty one, and the node with that name is in the tree.
LEMMA BelowFacts ==
    ASSUME NEW p \in Seq(Names), NEW i \in Nat, IsBelow(p, i)
    PROVE  /\ p \in Seq(STRING) /\ p # <<>> /\ Len(p) = i + 1 /\ p[1] = top
           /\ i = 0 => p = <<top>>
  <1>1. p \in Seq(STRING) /\ Len(p) = i + 1 /\ p[1] = top
    BY NamesFacts DEF IsBelow
  <1>2. p # <<>>
    BY <1>1, EmptySeq
  <1>3. ASSUME i = 0 PROVE p = <<top>>
    <2> DEFINE T == STRING
               s == <<top>>
    <2>1. p \in Seq(T) /\ Len(p) = 1 /\ p[1] = top
      BY <1>1, <1>3
    <2>2. top \in T
      BY <2>1, ElementOfSeq
    <2>3. s \in Seq(T) /\ Len(s) = 1 /\ s[1] = top
      BY <2>2, Singleton
    <2> HIDE DEF s, T
    <2>4. p = s
      BY <2>1, <2>3, SeqEqual
    <2> QED
      BY <2>4 DEF s
  <1> QED
    BY <1>1, <1>2, <1>3

\* A removal that fails leaves nothing to be remembered but why.
LEMMA FailKeeps ==
    ASSUME TreeTypeOK, CallsNest, Fail, UNCHANGED <<there, top, found>>,
           alone' \in BOOLEAN, alone' => found # {}
    PROVE  TreeTypeOK' /\ TreeInv'
  <1>1. <<>> \in Seq(Frame) /\ <<>> \in Seq(Names) /\ DOMAIN <<>> = {}
    BY EmptySeq
  <1>2. frames' = <<>> /\ step' = "idle" /\ path' = <<>> /\ outcome' = "ERROR"
    BY DEF Fail
  <1>3. TreeTypeOK'
    BY <1>1, <1>2 DEF TreeTypeOK, Outcomes, Closed
  <1>4. CallsNest'
    BY <1>1, <1>2 DEF CallsNest, Tree, Below
  <1>5. SparesLinks' /\ KnowsAll'
    BY <1>2 DEF SparesLinks, KnowsAll
  <1>6. SuccessMetNoDirLink' /\ RemovesAllAlone'
    BY <1>2 DEF SuccessMetNoDirLink, RemovesAllAlone
  <1> QED
    BY <1>3, <1>4, <1>5, <1>6 DEF TreeInv

\* While nothing is removed other programs and other commands may do what they like.
LEMMA IdleKeeps ==
    ASSUME TreeTypeOK, TreeInv, step = "idle",
           UNCHANGED <<frames, path, step, found, alone, outcome>>,
           top' \in Tops, top' = top \/ outcome = "none", TreeOK'
    PROVE  TreeTypeOK' /\ TreeInv'
  <1>1. TreeTypeOK'
    BY DEF TreeTypeOK, TreeOK
  <1>2. CallsNest'
    <2>1. frames = <<>> /\ DOMAIN frames = {} /\ path = <<>>
      BY DEF TreeTypeOK, TreeInv, CallsNest
    <2>2. (\A l \in found : l \in Tree[top] /\ Target[l] \in Dirs)'
      BY DEF TreeInv, CallsNest, Tree, Below
    <2> QED
      BY <2>1, <2>2 DEF TreeInv, CallsNest
  <1>3. SparesLinks' /\ KnowsAll'
    BY DEF SparesLinks, KnowsAll
  <1>4. SuccessMetNoDirLink' /\ RemovesAllAlone'
    BY DEF TreeInv, SuccessMetNoDirLink, RemovesAllAlone, Tree, Below
  <1> QED
    BY <1>1, <1>2, <1>3, <1>4 DEF TreeInv

\* A removal begins at a directory that is there.
LEMMA BeginKeeps ==
    ASSUME TreeTypeOK, TreeInv, NEW d \in Tops, Begin(d)
    PROVE  TreeTypeOK' /\ TreeInv'
  <1>1. /\ step = "idle" /\ outcome = "none" /\ <<d>> \in there /\ frames = <<>>
        /\ top' = d /\ path' = <<d>> /\ step' = "open" /\ alone' = TRUE /\ outcome' = "running"
        /\ found' = {l \in Links \cap Tree[d] \cap there : Target[l] \in there \cap Dirs}
        /\ there' = there /\ frames' = <<>>
    BY DEF Begin, TreeTypeOK
  <1>2. /\ <<d>> \in Nodes /\ <<d>> \in Dirs /\ <<d>> \in Seq(Names) /\ <<d>> # <<>>
        /\ Len(<<d>>) = 1 /\ <<d>>[1] = d /\ Front(<<d>>) = <<>>
    <2>1. <<d>> \in Dirs /\ <<d>> \in Nodes /\ d \in STRING
      BY TreeFacts DEF Nodes
    <2>2. <<d>> \in Seq(Names) /\ <<d>> # <<>>
      BY <2>1, NamesFacts, NodeFacts
    <2>3. Append(<<>>, d) = <<d>> /\ <<>> \in Seq(STRING)
      BY <2>1, Singleton, EmptySeq
    <2>4. Front(<<d>>) = <<>>
      BY <2>1, <2>3, FrontAndLastOfAppend
    <2> QED
      BY <2>1, <2>2, <2>4
  <1>3. DOMAIN <<>> = {} /\ Len(<<>>) = 0 /\ frames' \in Seq(Frame)
    BY <1>1, EmptySeq
  <1>4. TreeTypeOK'
    BY <1>1, <1>2, <1>3 DEF TreeTypeOK, Outcomes, Closed
  <1>5. CallsNest'
    BY <1>1, <1>2, <1>3 DEF CallsNest, IsBelow, Above
  <1>6. SparesLinks'
    BY <1>1, <1>2, <1>3 DEF SparesLinks, Outside
  <1>7. KnowsAll'
    BY <1>1, <1>2, <1>3 DEF KnowsAll
  <1>8. SuccessMetNoDirLink' /\ RemovesAllAlone'
    BY <1>1 DEF SuccessMetNoDirLink, RemovesAllAlone
  <1> QED
    BY <1>4, <1>5, <1>6, <1>7, <1>8 DEF TreeInv

\* A directory is opened.
LEMMA OpenDirKeeps ==
    ASSUME TreeTypeOK, TreeInv, OpenDir
    PROVE  TreeTypeOK' /\ TreeInv'
  <1>0. /\ step = "open" /\ outcome = "running" /\ path # <<>> /\ IsBelow(path, Len(frames))
        /\ UNCHANGED <<there, top, found>>
        /\ TreeOK /\ path \in Seq(Names) /\ frames \in Seq(Frame) /\ CallsNest
    BY DEF OpenDir, TreeTypeOK, TreeInv, CallsNest, TreeOK, Outcomes
  <1>1. CASE Fail /\ alone' = (alone /\ ~IsDir(path))
    <2>1. alone' => found # {}
      <3>1. KnowsAll /\ found = {} /\ alone => path \in there /\ path \in Dirs
        BY <1>0 DEF KnowsAll
      <3>2. path \in Nodes /\ path \in there /\ path \in Dirs => IsDir(path)
        BY <1>0, IsDirOfNode
      <3> QED
        BY <1>0, <1>1, <3>1, <3>2 DEF TreeInv, TreeOK
    <2>2. alone' \in BOOLEAN
      BY <1>1 DEF TreeTypeOK
    <2> QED
      BY <1>0, <1>1, <2>1, <2>2, FailKeeps
  <1>2. CASE /\ IsDir(path)
             /\ frames' = Append(frames, [path |-> path, node |-> Walk(path).at,
                                           todo |-> Entries(Walk(path).at)])
             /\ step' = "next" /\ path' = <<>>
             /\ UNCHANGED <<outcome, alone>>
    <2> DEFINE m == Len(frames)
               d == Walk(path).at
               f == [path |-> path, node |-> d, todo |-> Entries(d)]
    <2>1. d \in there /\ d \in Dirs
      BY <1>2 DEF IsDir
    <2>2. f \in Frame /\ f.path = path /\ f.node = d /\ f.todo = Entries(d)
      BY <1>0, <2>1 DEF Frame, Entries, TreeOK
    <2> HIDE DEF d, f
    <2>3. /\ frames' \in Seq(Frame) /\ Len(frames') = m + 1 /\ m \in Nat /\ frames' # <<>>
          /\ DOMAIN frames' = 1 .. m + 1 /\ DOMAIN frames = 1 .. m
          /\ \A i \in 1 .. m : frames'[i] = frames[i]
          /\ frames'[m + 1] = f
      <3>1. frames' = Append(frames, f)
        BY <1>2 DEF f, d
      <3> DEFINE g == Append(frames, f)
      <3>2. /\ g \in Seq(Frame) /\ Len(g) = m + 1 /\ g # <<>>
            /\ \A i \in 1 .. m : g[i] = frames[i]
            /\ g[m + 1] = f
        BY <1>0, <2>2, AppendProperties
      <3>3. m \in Nat
        BY <1>0, LenProperties
      <3> HIDE DEF g
      <3>4. frames' = g
        BY <3>1 DEF g
      <3> QED
        BY <1>0, <3>2, <3>3, <3>4, LenProperties
    <2>4. TreeTypeOK'
      BY <1>0, <1>2, <2>3, EmptySeq DEF TreeTypeOK, Closed
    <2>5. CallsNest'
      <3>1. \A i \in 0 .. m : Above(i)' = Above(i)
        BY <2>3 DEF Above
      <3>2. ASSUME NEW i \in 1 .. m + 1
            PROVE  IsBelow(frames[i].path, i - 1)' /\ \A n \in frames'[i].todo : Front(n) = frames'[i].node
        <4>1. CASE i = m + 1
          <5>1. frames'[i] = f /\ i - 1 = m
            BY <2>3, <4>1
          <5> QED
            BY <1>0, <2>2, <2>3, <3>1, <5>1 DEF IsBelow, Entries
        <4>2. CASE i \in 1 .. m
          BY <1>0, <2>3, <3>1, <4>2 DEF CallsNest, IsBelow
        <4> QED
          BY <2>3, <4>1, <4>2
      <3>3. (\A l \in found : l \in Tree[top] /\ Target[l] \in Dirs)'
        BY <1>0 DEF CallsNest, Tree, Below
      <3> QED
        BY <1>0, <1>2, <2>3, <3>2, <3>3 DEF CallsNest
    <2>6. ~InLink' => ~InLink /\ path \notin Links
      <3>1. InLink => InLink'
        BY <2>3 DEF InLink
      <3>2. path \in Links => InLink'
        BY <2>2, <2>3 DEF InLink
      <3> QED
        BY <3>1, <3>2
    <2>7. path \in Nodes /\ path \notin Links => path \in Dirs /\ d = path
      BY <1>0, <1>2, IsDirOfNode DEF Nodes, d
    <2>8. SparesLinks'
      <3> SUFFICES ASSUME ~InLink'
                   PROVE  /\ \A i \in 1 .. m + 1 : frames'[i].path = frames'[i].node
                          /\ \A l \in Outside' : l \in there /\ Target[l] \in there
        BY <1>0, <1>2, <2>3 DEF SparesLinks
      <3>1. /\ \A i \in 1 .. m : frames[i].path = frames[i].node
            /\ path \in Nodes
            /\ \A l \in Outside : l \in there /\ Target[l] \in there
        BY <1>0, <2>3, <2>6 DEF TreeInv, SparesLinks
      <3>2. d = path
        BY <2>6, <2>7, <3>1
      <3>3. Outside' = Outside
        BY <1>0 DEF Outside, Tree, Below
      <3> QED
        BY <2>2, <2>3, <3>1, <3>2, <3>3
    <2>9. KnowsAll'
      <3> SUFFICES ASSUME alone, found = {}
                   PROVE  /\ \A i \in 1 .. m + 1 :
                               /\ frames'[i].path = frames'[i].node
                               /\ frames'[i].node \in there
                               /\ frames'[i].todo = Entries(frames'[i].node) \ {Child(i)'}
                          /\ \A l \in Links \cap Tree[top] \cap there : Target[l] \notin there \cap Dirs
        BY <1>0, <1>2, <2>3 DEF KnowsAll, Entries, Tree, Below
      <3>1. /\ \A i \in 1 .. m :
                  /\ frames[i].path = frames[i].node
                  /\ frames[i].node \in there
                  /\ frames[i].todo = Entries(frames[i].node) \ {Child(i)}
            /\ path \in there /\ path \in Dirs
            /\ \A l \in Links \cap Tree[top] \cap there : Target[l] \notin there \cap Dirs
        BY <1>0, <2>3 DEF TreeInv, KnowsAll
      <3>2. d = path
        BY <1>0, <1>2, <3>1, IsDirOfNode DEF TreeOK, d
      <3>3. \A i \in 1 .. m : Child(i)' = Child(i)
        BY <2>2, <2>3 DEF Child
      <3>5. Entries(d) \ {<<>>} = Entries(d)
        <4>1. <<>> \notin Nodes
          BY NodeFacts
        <4> QED
          BY <1>0, <4>1 DEF Entries, TreeOK
      <3>6. ASSUME NEW i \in 1 .. m + 1
            PROVE  /\ frames'[i].path = frames'[i].node
                   /\ frames'[i].node \in there
                   /\ frames'[i].todo = Entries(frames'[i].node) \ {Child(i)'}
        <4>1. CASE i = m + 1
          <5>1. frames'[i] = f /\ Child(i)' = <<>>
            BY <1>2, <2>3, <4>1 DEF Child
          <5> QED
            BY <2>1, <2>2, <3>2, <3>5, <5>1
        <4>2. CASE i \in 1 .. m
          BY <2>3, <3>1, <3>3, <4>2
        <4> QED
          BY <2>3, <4>1, <4>2
      <3> QED
        BY <3>1, <3>6
    <2>10. SuccessMetNoDirLink' /\ RemovesAllAlone'
      BY <1>0, <1>2 DEF SuccessMetNoDirLink, RemovesAllAlone
    <2> QED
      BY <2>4, <2>5, <2>8, <2>9, <2>10 DEF TreeInv
  <1> QED
    BY <1>1, <1>2 DEF OpenDir

\* The innermost call, while it looks for its next entry.
LEMMA LastCall ==
    ASSUME TreeTypeOK, TreeInv, step \in {"next", "unlink"}
    PROVE  /\ outcome = "running" /\ frames # <<>> /\ Len(frames) \in Nat \ {0}
           /\ Last(frames) = frames[Len(frames)] /\ Last(frames) \in Frame
           /\ Len(frames) \in 1 .. Len(frames) /\ DOMAIN frames = 1 .. Len(frames)
           /\ step = "next" => path = <<>>
           /\ \A i \in 1 .. Len(frames) :
                 /\ frames[i] \in Frame /\ IsBelow(frames[i].path, i - 1)
                 /\ frames[i].path \in Seq(STRING) /\ frames[i].path # <<>>
                 /\ Len(frames[i].path) = i /\ frames[i].path[1] = top
  <1>1. /\ outcome = "running" /\ frames # <<>> /\ frames \in Seq(Frame)
        /\ step = "next" => path = <<>>
    BY DEF TreeTypeOK, TreeInv, CallsNest
  <1>2. /\ Len(frames) \in Nat \ {0} /\ Last(frames) = frames[Len(frames)]
        /\ DOMAIN frames = 1 .. Len(frames)
        /\ \A i \in 1 .. Len(frames) : frames[i] \in Frame
    BY <1>1, FrameFacts
  <1>3. ASSUME NEW i \in 1 .. Len(frames)
        PROVE  /\ IsBelow(frames[i].path, i - 1)
               /\ frames[i].path \in Seq(STRING) /\ frames[i].path # <<>>
               /\ Len(frames[i].path) = i /\ frames[i].path[1] = top
    <2>1. IsBelow(frames[i].path, i - 1) /\ frames[i].path \in Seq(Names) /\ i - 1 \in Nat
      BY <1>2 DEF TreeInv, CallsNest, Frame
    <2> DEFINE p == frames[i].path
    <2>2. p \in Seq(STRING) /\ p # <<>> /\ Len(p) = i - 1 + 1 /\ p[1] = top
      <3> HIDE DEF p
      <3>1. p \in Seq(Names) /\ IsBelow(p, i - 1)
        BY <2>1 DEF p
      <3> QED
        BY <2>1, <3>1, BelowFacts
    <2> QED
      BY <1>2, <2>1, <2>2
  <1> QED
    BY <1>1, <1>2, <1>3

\* An entry is looked at.
LEMMA NextEntryKeeps ==
    ASSUME TreeTypeOK, TreeInv, NextEntry
    PROVE  TreeTypeOK' /\ TreeInv'
  <1> DEFINE m == Len(frames)
             f == Last(frames)
  <1>0. /\ step = "next" /\ UNCHANGED <<there, top, found, alone, outcome>>
        /\ TreeOK /\ frames \in Seq(Frame) /\ CallsNest
    BY DEF NextEntry, TreeTypeOK, TreeInv, TreeOK
  <1>1. /\ outcome = "running" /\ frames # <<>> /\ m \in Nat \ {0}
        /\ f = frames[m] /\ f \in Frame /\ m \in 1 .. m /\ DOMAIN frames = 1 .. m
        /\ path = <<>>
        /\ \A i \in 1 .. m : frames[i] \in Frame
        /\ f.path \in Seq(STRING) /\ f.path # <<>> /\ Len(f.path) = m /\ f.path[1] = top
    BY <1>0, LastCall
  <1>2. PICK n \in f.todo \cup Entries(f.node) :
            /\ frames' = [frames EXCEPT ![m].todo = @ \ {n}]
            /\ path' = Append(f.path, Last(n))
            /\ step' = IF IsDir(path') THEN "open" ELSE "unlink"
    BY DEF NextEntry
  <1> HIDE DEF f
  <1>3. n \in Nodes /\ Front(n) = f.node
    <2>1. f.todo \subseteq Nodes /\ \A x \in f.todo : Front(x) = f.node
      BY <1>0, <1>1 DEF CallsNest, Frame
    <2> QED
      BY <1>0, <2>1 DEF Entries, TreeOK
  <1>4. n = Append(f.node, Last(n)) /\ Last(n) \in STRING /\ Last(n) \in Names
    BY <1>3, NodeFacts, NamesFacts
  <1>5. /\ path' \in Seq(Names) /\ path' \in Seq(STRING) /\ path' # <<>> /\ Len(path') = m + 1
        /\ path'[1] = top /\ Front(path') = f.path
    <2> DEFINE p == Append(f.path, Last(n))
    <2>1. f.path \in Seq(Names)
      BY <1>1 DEF Frame
    <2>2. p \in Seq(Names) /\ p # <<>> /\ Len(p) = m + 1 /\ \A i \in 1 .. m : p[i] = f.path[i]
      BY <1>1, <1>4, <2>1, AppendProperties
    <2>3. Front(p) = f.path
      BY <1>4, <2>1, FrontAndLastOfAppend
    <2>4. path' = p
      BY <1>2
    <2> HIDE DEF p
    <2> QED
      BY <1>1, <2>2, <2>3, <2>4, NamesFacts
  <1>6. /\ frames' \in Seq(Frame) /\ Len(frames') = m /\ frames' # <<>> /\ DOMAIN frames' = 1 .. m
        /\ \A i \in 1 .. m : /\ frames'[i].path = frames[i].path /\ frames'[i].node = frames[i].node
                             /\ frames'[i].todo = IF i = m THEN f.todo \ {n} ELSE frames[i].todo
    <2> DEFINE g == [f EXCEPT !.todo = @ \ {n}]
               h == [frames EXCEPT ![m] = g]
    <2>1. g \in Frame /\ g.path = f.path /\ g.node = f.node /\ g.todo = f.todo \ {n}
      BY <1>1 DEF Frame
    <2>2. frames' = h
      BY <1>1, <1>2
    <2> HIDE DEF g
    <2>3. h \in Seq(Frame) /\ Len(h) = m /\ \A i \in 1 .. m : h[i] = IF i = m THEN g ELSE frames[i]
      BY <1>0, <1>1, <2>1, ExceptSeq
    <2> HIDE DEF h
    <2>4. DOMAIN h = 1 .. m /\ h # <<>>
      BY <1>1, <2>3, LenProperties, EmptySeq
    <2> QED
      BY <1>1, <2>1, <2>2, <2>3, <2>4
  <1>7. step' \in {"open", "unlink"}
    BY <1>2
  <1>8. TreeTypeOK'
    BY <1>0, <1>1, <1>5, <1>6, <1>7 DEF TreeTypeOK, Closed
  <1>9. CallsNest'
    <2>1. ASSUME NEW i \in 0 .. m PROVE Above(i)' = Above(i)
      <3>1. ASSUME i # 0 PROVE frames'[i].path = frames[i].path
        <4>1. i \in 1 .. m
          BY <1>1, <3>1
        <4> QED
          BY <1>6, <4>1
      <3> QED
        BY <3>1 DEF Above
    <2>2. ASSUME NEW i \in 1 .. m
          PROVE  IsBelow(frames[i].path, i - 1)' /\ \A x \in frames'[i].todo : Front(x) = frames'[i].node
      <3>1. IsBelow(frames[i].path, i - 1) /\ \A x \in frames[i].todo : Front(x) = frames[i].node
        BY <1>0, <1>1 DEF CallsNest
      <3>2. IsBelow(frames[i].path, i - 1)'
        <4>1. frames'[i].path = frames[i].path /\ i - 1 \in 0 .. m
          <5>1. frames'[i].path = frames[i].path
            BY <1>6
          <5>2. i - 1 \in 0 .. m
            BY <1>1
          <5> QED
            BY <5>1, <5>2
        <4>2. Above(i - 1)' = Above(i - 1)
          BY <2>1, <4>1
        <4> QED
          BY <1>0, <3>1, <4>1, <4>2 DEF IsBelow
      <3> QED
        BY <1>1, <1>6, <3>1, <3>2
    <2>3. IsBelow(path, Len(frames))'
      <3>1. Above(m)' = f.path
        BY <1>1, <1>6 DEF Above
      <3> QED
        BY <1>0, <1>5, <1>6, <3>1 DEF IsBelow, Above
    <2>4. (\A l \in found : l \in Tree[top] /\ Target[l] \in Dirs)'
      BY <1>0 DEF CallsNest, Tree, Below
    <2> QED
      BY <1>0, <1>1, <1>5, <1>6, <1>7, <2>2, <2>3, <2>4 DEF CallsNest
  <1>10. f.path = f.node => path' = n
    BY <1>2, <1>4
  <1>11. SparesLinks'
    <2> SUFFICES ASSUME ~InLink'
                 PROVE  /\ \A i \in 1 .. m : frames'[i].path = frames'[i].node
                        /\ path' \in Nodes
                        /\ \A l \in Outside' : l \in there /\ Target[l] \in there
                        /\ step' = "unlink" => path' \notin Outside'
      BY <1>0, <1>6 DEF SparesLinks
    <2>1. ~InLink
      BY <1>1, <1>6 DEF InLink
    <2>2. /\ \A i \in 1 .. m : frames[i].path = frames[i].node
          /\ \A l \in Outside : l \in there /\ Target[l] \in there
      BY <1>0, <1>1, <2>1 DEF TreeInv, SparesLinks
    <2>3. Outside' = Outside
      BY <1>0 DEF Outside, Tree, Below
    <2>4. path' = n
      BY <1>1, <1>10, <2>2
    <2>5. path' \in Outside => IsDir(path')
      <3>1. n \in Outside => n \in Links /\ n \in there /\ Target[n] \in there \cap Dirs
        BY <1>0, <2>2 DEF Outside, CallsNest, TreeTypeOK
      <3>2. n \in Outside => IsDir(n)
        BY <1>0, <1>3, <3>1, IsDirOfNode
      <3> QED
        BY <2>4, <3>2
    <2> QED
      BY <1>2, <1>3, <1>6, <2>2, <2>3, <2>4, <2>5
  <1>12. KnowsAll'
    <2> SUFFICES ASSUME alone, found = {}
                 PROVE  /\ \A i \in 1 .. m :
                             /\ frames'[i].path = frames'[i].node
                             /\ frames'[i].node \in there
                             /\ frames'[i].todo = Entries(frames'[i].node) \ {Child(i)'}
                        /\ path' \in there /\ (path' \in Dirs <=> step' = "open")
                        /\ \A l \in Links \cap Tree[top] \cap there : Target[l] \notin there \cap Dirs
      BY <1>0, <1>6 DEF KnowsAll, Entries, Tree, Below
    <2>1. /\ \A i \in 1 .. m :
                /\ frames[i].path = frames[i].node
                /\ frames[i].node \in there
                /\ frames[i].todo = Entries(frames[i].node) \ {Child(i)}
          /\ \A l \in Links \cap Tree[top] \cap there : Target[l] \notin there \cap Dirs
      BY <1>0, <1>1 DEF TreeInv, KnowsAll
    <2>2. path' = n
      BY <1>1, <1>10, <2>1
    <2>3. f.todo \subseteq Entries(f.node) /\ n \in Entries(f.node) /\ n \in there
      BY <1>1, <2>1 DEF Entries
    <2>4. f.todo = Entries(f.node)
      <3>1. Child(m) = <<>>
        BY <1>1 DEF Child
      <3>2. <<>> \notin Entries(f.node)
        BY <1>0, NodeFacts DEF Entries, TreeOK
      <3>3. f.todo = Entries(f.node) \ {Child(m)}
        BY <1>1, <2>1
      <3> QED
        BY <3>1, <3>2, <3>3
    <2>5. ASSUME NEW i \in 1 .. m
          PROVE  /\ frames'[i].path = frames'[i].node
                 /\ frames'[i].node \in there
                 /\ frames'[i].todo = Entries(frames'[i].node) \ {Child(i)'}
      <3>1. CASE i = m
        <4>1. Child(i)' = n
          <5>1. Len(frames') = m /\ ~(m < m)
            BY <1>1, <1>6
          <5> QED
            BY <2>2, <3>1, <5>1 DEF Child
        <4> QED
          BY <1>1, <1>6, <2>1, <2>4, <3>1, <4>1
      <3>2. CASE i # m
        <4>1. Child(i)' = Child(i)
          <5>1. Len(frames') = m /\ i < m /\ i + 1 \in 1 .. m
            <6>1. i < m /\ i + 1 \in 1 .. m
              <7>1. m \in Nat
                BY <1>1
              <7> HIDE DEF m
              <7> QED
                BY <3>2, <7>1
            <6> QED
              BY <1>6, <6>1
          <5>2. frames'[i + 1].path = frames[i + 1].path
            BY <1>6, <5>1
          <5> QED
            BY <5>1, <5>2 DEF Child
        <4> QED
          BY <1>6, <2>1, <3>2, <4>1
      <3> QED
        BY <3>1, <3>2
    <2>6. path' \in Dirs <=> step' = "open"
      <3>1. n \in Tree[top]
        <4>1. top \in Tops
          BY DEF TreeTypeOK
        <4> QED
          BY <1>3, <1>5, <2>2, <4>1, TreeFacts
      <3>2. n \in Dirs <=> IsDir(n)
        BY <1>0, <1>3, <2>1, <2>3, <3>1, IsDirOfNode DEF Nodes
      <3> QED
        BY <1>2, <2>2, <3>2
    <2> QED
      BY <2>1, <2>2, <2>3, <2>5, <2>6
  <1>13. SuccessMetNoDirLink' /\ RemovesAllAlone'
    BY <1>0, <1>1 DEF SuccessMetNoDirLink, RemovesAllAlone
  <1> QED
    BY <1>8, <1>9, <1>11, <1>12, <1>13 DEF TreeInv

\* An entry that is no directory is removed.
LEMMA UnlinkKeeps ==
    ASSUME TreeTypeOK, TreeInv, Unlink
    PROVE  TreeTypeOK' /\ TreeInv'
  <1> DEFINE gone == Named(path) \ Dirs
  <1>0. /\ step = "unlink" /\ UNCHANGED <<top, found>>
        /\ TreeOK /\ frames \in Seq(Frame) /\ CallsNest
        /\ path # <<>> /\ path \in Seq(Names) /\ IsBelow(path, Len(frames))
    BY DEF Unlink, TreeTypeOK, TreeInv, TreeOK, CallsNest
  <1>1. PICK m \in Nat \ {0} : m = Len(frames)
    BY <1>0, LastCall
  <1>2. /\ outcome = "running" /\ frames # <<>> /\ DOMAIN frames = 1 .. m /\ m \in 1 .. m
        /\ \A i \in 1 .. m : /\ frames[i] \in Frame /\ IsBelow(frames[i].path, i - 1)
                             /\ Len(frames[i].path) = i
    BY <1>0, <1>1, LastCall
  <1>3. CASE Fail /\ alone' = (alone /\ gone = {}) /\ UNCHANGED there
    <2>1. alone' => found # {}
      <3> SUFFICES ASSUME alone, gone = {}, found = {} PROVE FALSE
        BY <1>3
      <3>1. path \in there /\ path \notin Dirs /\ path \in Nodes
        BY <1>0 DEF TreeInv, KnowsAll, TreeOK
      <3>2. Named(path) = {path}
        BY <1>0, <3>1, NamedNode
      <3> QED
        BY <3>1, <3>2
    <2>2. alone' \in BOOLEAN
      BY <1>3 DEF TreeTypeOK
    <2> QED
      BY <1>0, <1>3, <2>1, <2>2, FailKeeps
  <1>4. CASE /\ gone # {} /\ there' = there \ gone
             /\ step' = "next" /\ path' = <<>>
             /\ UNCHANGED <<frames, outcome, alone>>
    <2>0. there' \subseteq there /\ \A x \in Dirs : x \in there => x \in there'
      BY <1>4
    <2>1. TreeTypeOK'
      <3>1. ASSUME NEW x \in there' PROVE Front(x) \in there' \cup {<<>>}
        <4>1. x \in there /\ x \in Nodes
          BY <1>0, <2>0 DEF TreeOK
        <4>2. Front(x) \in there \cup {<<>>} /\ Front(x) \in Dirs \cup {<<>>}
          BY <1>0, <4>1, NodeFacts DEF TreeOK, Closed
        <4> QED
          BY <2>0, <4>2
      <3> QED
        BY <1>0, <1>2, <1>4, <2>0, <3>1, EmptySeq DEF TreeTypeOK, Closed
    <2>2. CallsNest'
      BY <1>0, <1>2, <1>4 DEF CallsNest, IsBelow, Above, Tree, Below
    <2>3. SparesLinks'
      <3> SUFFICES ASSUME ~InLink'
                   PROVE  /\ \A i \in DOMAIN frames : frames[i].path = frames[i].node
                          /\ \A l \in Outside' : l \in there' /\ Target[l] \in there'
        BY <1>0, <1>4 DEF SparesLinks
      <3>1. ~InLink /\ Outside' = Outside
        BY <1>0, <1>4 DEF InLink, Outside, Tree, Below
      <3>2. /\ \A i \in DOMAIN frames : frames[i].path = frames[i].node
            /\ path \in Nodes /\ path \notin Outside
            /\ \A l \in Outside : l \in there /\ Target[l] \in there
        BY <1>0, <3>1 DEF TreeInv, SparesLinks
      <3>3. gone \subseteq {path}
        BY <1>0, <3>2, NamedNode
      <3>4. \A l \in Outside : Target[l] \in Dirs
        BY <1>0 DEF Outside, CallsNest
      <3> QED
        BY <1>4, <2>0, <3>1, <3>2, <3>3, <3>4
    <2>4. KnowsAll'
      <3> SUFFICES ASSUME alone, found = {}
                   PROVE  /\ \A i \in 1 .. m :
                               /\ frames[i].path = frames[i].node
                               /\ frames[i].node \in there'
                               /\ frames[i].todo = Entries(frames[i].node)' \ {Child(i)'}
                          /\ \A l \in Links \cap Tree[top] \cap there' : Target[l] \notin there' \cap Dirs
        BY <1>0, <1>2, <1>4 DEF KnowsAll, Tree, Below, Entries
      <3>1. /\ \A i \in 1 .. m :
                  /\ frames[i].path = frames[i].node
                  /\ frames[i].node \in there
                  /\ frames[i].todo = Entries(frames[i].node) \ {Child(i)}
            /\ path \in there /\ path \notin Dirs
            /\ \A l \in Links \cap Tree[top] \cap there : Target[l] \notin there \cap Dirs
        BY <1>0, <1>2 DEF TreeInv, KnowsAll
      <3>2. there' = there \ {path}
        <4>1. Named(path) = {path}
          BY <1>0, <3>1, NamedNode DEF TreeOK
        <4> QED
          BY <1>4, <3>1, <4>1
      <3>3. \A i \in 1 .. m : Entries(frames[i].node)' = Entries(frames[i].node) \ {path}
        BY <1>4, <3>2 DEF Entries
      <3>4. ASSUME NEW i \in 1 .. m
            PROVE  /\ frames[i].node \in there'
                   /\ frames[i].todo = Entries(frames[i].node)' \ {Child(i)'}
        <4>1. frames[i].node \in Dirs
          BY <1>2 DEF Frame
        <4>2. CASE i = m
          <5>1. Child(i) = path
            BY <1>1, <4>2 DEF Child
          <5>2. Child(i)' = <<>>
            BY <1>1, <1>4, <4>2 DEF Child
          <5>3. <<>> \notin there
            BY <1>0, NodeFacts DEF TreeOK
          <5> QED
            BY <2>0, <3>1, <3>3, <4>1, <5>1, <5>2, <5>3 DEF Entries
        <4>3. CASE i # m
          <5>1. Child(i)' = Child(i)
            BY <1>1, <1>4, <4>3 DEF Child
          <5>2. Front(path) # frames[i].node
            <6>1. Front(path) = frames[m].path
              BY <1>0, <1>1 DEF IsBelow, Above
            <6>2. Len(frames[m].path) = m /\ Len(frames[i].path) = i
              BY <1>2
            <6> QED
              BY <3>1, <4>3, <6>1, <6>2
          <5>3. path \notin Entries(frames[i].node)
            BY <5>2 DEF Entries
          <5> QED
            BY <2>0, <3>1, <3>3, <4>1, <5>1, <5>3
        <4> QED
          BY <4>2, <4>3
      <3> QED
        BY <2>0, <3>1, <3>4
    <2>5. SuccessMetNoDirLink' /\ RemovesAllAlone'
      BY <1>2, <1>4 DEF SuccessMetNoDirLink, RemovesAllAlone
    <2> QED
      BY <2>1, <2>2, <2>3, <2>4, <2>5 DEF TreeInv
  <1> QED
    BY <1>3, <1>4 DEF Unlink

\* A call ends.
LEMMA EndDirKeeps ==
    ASSUME TreeTypeOK, TreeInv, EndDir
    PROVE  TreeTypeOK' /\ TreeInv'
  <1> DEFINE f == Last(frames)
             gone == {n \in Named(f.path) \cap Dirs : Entries(n) = {}}
  <1>0. /\ step = "next" /\ UNCHANGED <<top, found>> /\ f.todo \cap there = {}
        /\ TreeOK /\ frames \in Seq(Frame) /\ CallsNest /\ top \in Tops
    BY DEF EndDir, TreeTypeOK, TreeInv, TreeOK
  <1>1. PICK m \in Nat \ {0} : m = Len(frames)
    BY <1>0, LastCall
  <1>2. /\ outcome = "running" /\ frames # <<>> /\ DOMAIN frames = 1 .. m /\ m \in 1 .. m
        /\ path = <<>> /\ f = frames[m]
        /\ \A i \in 1 .. m : /\ frames[i] \in Frame /\ IsBelow(frames[i].path, i - 1)
                             /\ Len(frames[i].path) = i /\ frames[i].path[1] = top
    BY <1>0, <1>1, LastCall
  <1>3. f \in Frame /\ f.path \in Seq(Names) /\ f.node \in Dirs
    BY <1>2 DEF Frame
  <1>6. /\ f.path \in Nodes => gone \subseteq {f.path}
        /\ f.path \in Links => gone = {}
        /\ f.path \in Dirs /\ f.path \in there /\ Entries(f.path) = {} => gone = {f.path}
    <2> HIDE DEF f
    <2>1. f.path \in Nodes =>
             /\ Named(f.path) \subseteq {f.path}
             /\ f.path \in there => Named(f.path) = {f.path}
      BY <1>0, NamedNode
    <2>2. f.path \in Links \cup Dirs => f.path \in Nodes
      BY DEF Nodes
    <2>3. f.path \in Links => f.path \notin Dirs
      BY TreeAssumption
    <2> QED
      BY <2>1, <2>2, <2>3
  <1>4. CASE Fail /\ alone' = (alone /\ gone = {}) /\ UNCHANGED there
    <2>1. alone' => found # {}
      <3> SUFFICES ASSUME alone, gone = {}, found = {} PROVE FALSE
        BY <1>4
      <3>1. f.path = f.node /\ f.node \in there /\ f.todo = Entries(f.node) \ {Child(m)}
        BY <1>0, <1>2 DEF TreeInv, KnowsAll
      <3>2. Child(m) = <<>> /\ <<>> \notin there
        BY <1>0, <1>1, <1>2, NodeFacts DEF Child, TreeOK
      <3>3. Entries(f.node) = {}
        <4> HIDE DEF f
        <4> QED
          BY <1>0, <3>1, <3>2 DEF Entries
      <3>4. f.path \in Nodes /\ f.path \in Dirs /\ f.path \in there
        BY <1>3, <3>1 DEF Nodes
      <3>5. gone # {}
        <4> HIDE DEF f, gone
        <4> QED
          BY <1>6, <3>1, <3>3, <3>4
      <3> QED
        BY <3>5
    <2>2. alone' \in BOOLEAN
      BY <1>4 DEF TreeTypeOK
    <2> QED
      BY <1>0, <1>4, <2>1, <2>2, FailKeeps
  <1>5. CASE /\ gone # {} /\ there' = there \ gone /\ frames' = Front(frames)
             /\ IF frames' = <<>> THEN step' = "idle" /\ outcome' = "OK"
                                  ELSE UNCHANGED <<step, outcome>>
             /\ UNCHANGED <<path, alone>>
    <2>1. /\ frames' \in Seq(Frame) /\ Len(frames') = m - 1 /\ DOMAIN frames' = 1 .. m - 1
          /\ \A i \in 1 .. m - 1 : frames'[i] = frames[i]
      BY <1>0, <1>1, <1>2, <1>5, FrameFacts
    <2>2. /\ frames' = <<>> => m = 1 /\ step' = "idle" /\ outcome' = "OK"
          /\ frames' # <<>> => m - 1 \in Nat \ {0} /\ step' = "next" /\ outcome' = "running"
      <3>1. frames' = <<>> => Len(frames') = 0
        BY EmptySeq
      <3>2. frames' # <<>> => Len(frames') # 0
        BY <2>1, EmptySeq
      <3> QED
        BY <1>0, <1>2, <1>5, <2>1, <3>1, <3>2
    <2>3. there' \subseteq there /\ (\A x \in gone : x \in Dirs /\ Entries(x) = {})
      BY <1>5
    <2> HIDE DEF gone, f
    <2>4. TreeOK'
      <3>1. ASSUME NEW x \in there' PROVE Front(x) \in there' \cup {<<>>}
        <4>1. x \in there /\ Front(x) \in there \cup {<<>>}
          BY <1>0, <2>3 DEF TreeOK, Closed
        <4>2. x \in Entries(Front(x))
          BY <4>1 DEF Entries
        <4>3. Front(x) \notin gone
          BY <2>3, <4>2
        <4> QED
          BY <1>5, <4>1, <4>3
      <3> QED
        BY <1>0, <2>3, <3>1 DEF TreeOK, Closed
    <2>5. TreeTypeOK'
      BY <1>0, <1>5, <2>1, <2>2, <2>4 DEF TreeTypeOK, TreeOK, Closed, Outcomes
    <2>6. CallsNest'
      <3>1. ASSUME NEW i \in 1 .. m - 1
            PROVE  IsBelow(frames[i].path, i - 1)' /\ \A n \in frames'[i].todo : Front(n) = frames'[i].node
        <4>1. IsBelow(frames[i].path, i - 1) /\ \A n \in frames[i].todo : Front(n) = frames[i].node
          BY <1>0, <1>2 DEF CallsNest
        <4>2. Above(i - 1)' = Above(i - 1)
          <5>1. i - 1 = 0 \/ i - 1 \in 1 .. m - 1
            OBVIOUS
          <5> QED
            BY <2>1, <5>1 DEF Above
        <4> QED
          BY <1>0, <2>1, <4>1, <4>2 DEF IsBelow
      <3>2. (\A l \in found : l \in Tree[top] /\ Target[l] \in Dirs)'
        BY <1>0 DEF CallsNest, Tree, Below
      <3> QED
        BY <1>0, <1>2, <1>5, <2>1, <2>2, <3>1, <3>2 DEF CallsNest
    <2>7. /\ f.path \notin Links
          /\ f.path \in Nodes => gone = {f.path}
      <3> QED
        BY <1>5, <1>6
    <2>8. ~InLink' => ~InLink
      <3>1. InLink => \E i \in 1 .. m - 1 : frames[i].path \in Links
        <4>1. ASSUME NEW i \in 1 .. m, frames[i].path \in Links PROVE i \in 1 .. m - 1
          <5>1. i # m
            BY <1>2, <2>7, <4>1
          <5> QED
            BY <5>1
        <4> QED
          BY <1>2, <4>1 DEF InLink
      <3> QED
        BY <2>1, <3>1 DEF InLink
    <2>9. ~InLink => /\ \A i \in 1 .. m : frames[i].path = frames[i].node
                     /\ gone = {f.path} /\ f.path \in Tree[top] /\ f.path \in Dirs
                     /\ \A l \in Outside : l \in there' /\ Target[l] \in there'
      <3> SUFFICES ASSUME ~InLink
                   PROVE  /\ \A i \in 1 .. m : frames[i].path = frames[i].node
                          /\ gone = {f.path} /\ f.path \in Tree[top] /\ f.path \in Dirs
                          /\ \A l \in Outside : l \in there' /\ Target[l] \in there'
        OBVIOUS
      <3>1. /\ \A i \in 1 .. m : frames[i].path = frames[i].node
            /\ \A l \in Outside : l \in there /\ Target[l] \in there
        BY <1>0, <1>2 DEF TreeInv, SparesLinks
      <3>2. f.path \in Dirs /\ f.path \in Nodes
        BY <1>2, <1>3, <3>1 DEF Nodes
      <3>3. f.path \in Tree[top]
        BY <1>0, <1>2, <3>2, TreeFacts
      <3>4. \A l \in Outside : l \in Links /\ l \notin Dirs /\ Target[l] \notin Tree[top]
        BY TreeAssumption DEF Outside, TreeTypeOK
      <3> QED
        BY <1>5, <2>7, <3>1, <3>2, <3>3, <3>4
    <2>10. SparesLinks'
      <3> SUFFICES ASSUME step' # "idle", ~InLink'
                   PROVE  /\ \A i \in DOMAIN frames' : frames'[i].path = frames'[i].node
                          /\ path' = <<>> /\ step' = "next"
                          /\ \A l \in Outside' : l \in there' /\ Target[l] \in there'
        BY DEF SparesLinks
      <3>1. Outside' = Outside
        BY <1>0 DEF Outside, Tree, Below
      <3> QED
        BY <1>2, <1>5, <2>1, <2>2, <2>8, <2>9, <3>1
    <2>11. KnowsAll'
      <3> SUFFICES ASSUME step' # "idle", alone, found = {}
                   PROVE  /\ \A i \in 1 .. m - 1 :
                               /\ frames'[i].path = frames'[i].node
                               /\ frames'[i].node \in there'
                               /\ frames'[i].todo = Entries(frames[i].node)' \ {Child(i)'}
                          /\ \A l \in Links \cap Tree[top] \cap there' : Target[l] \notin there' \cap Dirs
        <4>1. DOMAIN frames' = 1 .. m - 1 /\ path' = <<>>
          BY <1>2, <1>5, <2>1
        <4>2. alone' = alone /\ found' = found /\ top' = top
          BY <1>0, <1>5
        <4>3. (\A l \in Links \cap Tree[top] \cap there : Target[l] \notin there \cap Dirs)'
              <=> \A l \in Links \cap Tree[top] \cap there' : Target[l] \notin there' \cap Dirs
          BY <4>2 DEF Tree, Below
        <4> QED
          BY <4>1, <4>2, <4>3 DEF KnowsAll
      <3>1. /\ \A i \in 1 .. m :
                  /\ frames[i].path = frames[i].node
                  /\ frames[i].node \in there
                  /\ frames[i].todo = Entries(frames[i].node) \ {Child(i)}
            /\ \A l \in Links \cap Tree[top] \cap there : Target[l] \notin there \cap Dirs
        BY <1>0, <1>2 DEF TreeInv, KnowsAll
      <3>2. f.path \in Nodes /\ f.path = frames[m].path
        BY <1>2, <1>3, <3>1 DEF Nodes
      <3>3. there' = there \ {f.path}
        BY <1>5, <2>7, <3>2
      <3>4. \A i \in 1 .. m : {n \in there' : Front(n) = frames[i].node} = Entries(frames[i].node) \ {f.path}
        BY <3>3 DEF Entries
      <3>5. ASSUME NEW i \in 1 .. m - 1
            PROVE  /\ frames[i].node \in there'
                   /\ frames[i].todo = {n \in there' : Front(n) = frames[i].node} \ {Child(i)'}
        <4>0. i \in 1 .. m /\ i # m
          OBVIOUS
        <4>1. frames[i].node # f.path
          <5>1. Len(frames[i].path) = i /\ Len(f.path) = m
            BY <1>2, <3>2, <4>0
          <5> QED
            BY <3>1, <4>0, <5>1
        <4>2. frames[i].todo = Entries(frames[i].node) \ {Child(i)}
          BY <3>1, <4>0
        <4>5. frames[i].node \in there'
          BY <3>1, <3>3, <4>0, <4>1
        <4>3. CASE i = m - 1
          <5>1. Child(i) = f.path
            <6>1. i < Len(frames) /\ i + 1 = m
              BY <1>1, <4>3
            <6> QED
              BY <3>2, <6>1 DEF Child
          <5>2. Child(i)' = <<>>
            <6>1. ~(i < Len(frames'))
              BY <2>1, <4>3
            <6> QED
              BY <1>2, <1>5, <6>1 DEF Child
          <5>3. <<>> \notin there
            BY <1>0, NodeFacts DEF TreeOK
          <5>4. frames[i].todo = {n \in there' : Front(n) = frames[i].node}
            BY <3>4, <4>0, <4>2, <5>1
          <5>5. <<>> \notin there'
            BY <3>3, <5>3
          <5> QED
            BY <4>5, <5>2, <5>4, <5>5
        <4>4. CASE i # m - 1
          <5>1. i < Len(frames) /\ i < Len(frames') /\ i + 1 \in 1 .. m - 1
            BY <1>1, <2>1, <4>4
          <5>2. Child(i)' = Child(i)
            BY <2>1, <5>1 DEF Child
          <5>3. Front(f.path) # frames[i].node
            <6>1. Front(f.path) = frames[m - 1].path
              <7>1. Front(f.path) = Above(m - 1) /\ m - 1 # 0
                BY <1>2, <3>2, <5>1 DEF IsBelow
              <7> QED
                BY <7>1 DEF Above
            <6>2. Len(frames[m - 1].path) = m - 1 /\ Len(frames[i].path) = i
              <7>1. m - 1 \in 1 .. m
                BY <5>1
              <7> QED
                BY <1>2, <4>0, <7>1
            <6> QED
              BY <3>1, <4>0, <4>4, <6>1, <6>2
          <5>4. f.path \notin Entries(frames[i].node)
            BY <5>3 DEF Entries
          <5>5. {n \in there' : Front(n) = frames[i].node} = Entries(frames[i].node)
            BY <3>4, <4>0, <5>4
          <5> QED
            BY <4>2, <4>5, <5>2, <5>5
        <4> QED
          BY <4>3, <4>4
      <3>6. ASSUME NEW i \in 1 .. m - 1
            PROVE  /\ frames'[i].path = frames'[i].node
                   /\ frames'[i].node \in there'
                   /\ frames'[i].todo = Entries(frames[i].node)' \ {Child(i)'}
        <4>1. i \in 1 .. m /\ frames'[i] = frames[i]
          BY <2>1
        <4>2. PICK c : c = Child(i)'
          OBVIOUS
        <4>3. frames[i].node \in there' /\ frames[i].todo = {n \in there' : Front(n) = frames[i].node} \ {c}
          BY <3>5, <4>2
        <4>4. Entries(frames[i].node)' = {n \in there' : Front(n) = frames[i].node}
          BY <4>1 DEF Entries
        <4> QED
          BY <3>1, <4>1, <4>2, <4>3, <4>4
      <3> QED
        BY <2>3, <3>1, <3>6
    <2>12. SuccessMetNoDirLink'
      <3> SUFFICES ASSUME m = 1, NEW l \in Outside PROVE FALSE
        BY <1>0, <2>2 DEF SuccessMetNoDirLink, Outside, Tree, Below
      <3>1. f.path = <<top>>
        BY <1>2, <1>3, BelowFacts
      <3>2. \A i \in 1 .. m : frames[i].path \notin Links
        BY <1>2, <2>7
      <3>3. ~InLink
        BY <1>2, <3>2 DEF InLink
      <3>4. <<top>> \notin there' /\ l \in there'
        BY <1>5, <2>9, <3>1, <3>3
      <3>5. l \in Tree[top]
        BY <1>0 DEF Outside, CallsNest
      <3>6. IsPrefix(<<top>>, l)
        BY <1>0, <3>5 DEF Tree, Below
      <3>7. <<top>> \in there'
        <4>1. <<top>> \in Seq(STRING) /\ <<top>> # <<>>
          BY <1>0, TreeFacts, NodeFacts DEF Nodes
        <4>2. there' \subseteq Nodes /\ Closed(there')
          BY <2>4 DEF TreeOK, Closed
        <4> QED
          BY <3>4, <3>6, <4>1, <4>2, ClosedAbove
      <3> QED
        BY <3>4, <3>7
    <2>13. RemovesAllAlone'
      BY <2>2 DEF RemovesAllAlone
    <2> QED
      BY <2>5, <2>6, <2>10, <2>11, <2>12, <2>13 DEF TreeInv
  <1> QED
    BY <1>4, <1>5 DEF EndDir

\* The caller of rm_r has seen what it returned, or dies before it does.
LEMMA ForgetKeeps ==
    ASSUME TreeTypeOK, TreeInv, step = "idle", Forget, UNCHANGED <<there, frames, top, path, step>>
    PROVE  TreeTypeOK' /\ TreeInv'
  <1>1. outcome' = "none" /\ found' = {} /\ alone' = FALSE
    BY DEF Forget
  <1>2. TreeTypeOK'
    BY <1>1 DEF TreeTypeOK, Outcomes, Closed
  <1>3. frames = <<>> /\ DOMAIN frames = {} /\ path = <<>>
    BY <1>1 DEF TreeTypeOK, TreeInv, CallsNest
  <1>4. CallsNest'
    BY <1>1, <1>3 DEF CallsNest
  <1>5. SparesLinks' /\ KnowsAll' /\ SuccessMetNoDirLink' /\ RemovesAllAlone'
    BY <1>1 DEF SparesLinks, KnowsAll, SuccessMetNoDirLink, RemovesAllAlone
  <1> QED
    BY <1>2, <1>4, <1>5 DEF TreeInv

\* A process that is killed leaves what is there, and forgets all calls.
LEMMA AbortKeeps ==
    ASSUME TreeTypeOK, TreeInv, Abort
    PROVE  TreeTypeOK' /\ TreeInv'
  <1>1. /\ step' = "idle" /\ path' = <<>> /\ frames' = <<>>
        /\ outcome' = "none" /\ found' = {} /\ alone' = FALSE
        /\ UNCHANGED <<there, top>>
    BY DEF Abort, Forget
  <1>2. <<>> \in Seq(Frame) /\ <<>> \in Seq(Names) /\ DOMAIN <<>> = {}
    BY EmptySeq
  <1>3. TreeTypeOK'
    BY <1>1, <1>2 DEF TreeTypeOK, Outcomes, Closed
  <1>4. CallsNest'
    BY <1>1, <1>2 DEF CallsNest
  <1>5. SparesLinks' /\ KnowsAll' /\ SuccessMetNoDirLink' /\ RemovesAllAlone'
    BY <1>1 DEF SparesLinks, KnowsAll, SuccessMetNoDirLink, RemovesAllAlone
  <1> QED
    BY <1>3, <1>4, <1>5 DEF TreeInv

\* What other programs add does no harm to what is known of links.
LEMMA GrowKeeps ==
    ASSUME TreeTypeOK, TreeInv, Grow
    PROVE  TreeTypeOK' /\ TreeInv'
  <1>1. PICK n \in Nodes \ (Shipped \cup there) : Front(n) \in there /\ there' = there \cup {n}
    BY DEF Grow
  <1>2. alone' = FALSE /\ UNCHANGED <<frames, top, path, step, found, outcome>>
    BY DEF Grow
  <1>3. TreeOK'
    BY <1>1 DEF TreeOK, TreeTypeOK, Closed
  <1>4. TreeTypeOK'
    BY <1>2, <1>3 DEF TreeTypeOK, TreeOK, Closed
  <1>5. Outside' = Outside /\ (InLink' <=> InLink)
    BY <1>2 DEF Outside, InLink, Tree, Below
  <1>6. CallsNest'
    BY <1>2 DEF TreeInv, CallsNest, IsBelow, Above, Tree, Below
  <1>7. SparesLinks'
    BY <1>1, <1>2, <1>5 DEF TreeInv, SparesLinks
  <1>8. KnowsAll' /\ RemovesAllAlone'
    BY <1>2 DEF KnowsAll, RemovesAllAlone
  <1>9. SuccessMetNoDirLink'
    BY <1>2 DEF TreeInv, SuccessMetNoDirLink, Tree, Below
  <1> QED
    BY <1>4, <1>6, <1>7, <1>8, <1>9 DEF TreeInv

\* Where nothing changes nothing is lost.
LEMMA NothingKeeps ==
    ASSUME TreeTypeOK, TreeInv, UNCHANGED treeVars
    PROVE  TreeTypeOK' /\ TreeInv'
  <1>1. UNCHANGED <<there, frames, top, path, step, found, alone, outcome>>
    BY DEF treeVars, rmVars
  <1>2. TreeTypeOK'
    BY <1>1 DEF TreeTypeOK, Closed
  <1>3. CallsNest'
    BY <1>1 DEF TreeInv, CallsNest, IsBelow, Above, Tree, Below
  <1>4. Outside' = Outside /\ (InLink' <=> InLink)
    BY <1>1 DEF Outside, InLink, Tree, Below
  <1>5. SparesLinks'
    BY <1>1, <1>4 DEF TreeInv, SparesLinks
  <1>6. KnowsAll'
    BY <1>1 DEF TreeInv, KnowsAll, Child, Entries, Tree, Below
  <1>7. SuccessMetNoDirLink' /\ RemovesAllAlone'
    BY <1>1 DEF TreeInv, SuccessMetNoDirLink, RemovesAllAlone, Tree, Below
  <1> QED
    BY <1>2, <1>3, <1>5, <1>6, <1>7 DEF TreeInv

\* Every step of the recursion.
LEMMA RmStepKeeps ==
    ASSUME TreeTypeOK, TreeInv, RmStep
    PROVE  TreeTypeOK' /\ TreeInv'
  BY OpenDirKeeps, NextEntryKeeps, UnlinkKeeps, EndDirKeeps DEF RmStep

\* A step of the recursion takes one node at most, which has no entries: it is below the
\* directory that is removed, or below one that a link leads to.
LEMMA RmStepTakes ==
    ASSUME TreeTypeOK, TreeInv, RmStep
    PROVE  /\ there' \subseteq there
           /\ \A n \in there \ there' : n \in Tree[top] \/ ThroughLink(n)
           /\ \A n, o \in there \ there' : n = o
  <1>0. TreeOK /\ top \in Tops
    BY DEF TreeTypeOK, TreeOK
  <1>1. ASSUME NEW p \in Seq(STRING), p # <<>>, p[1] = top, there' \subseteq there,
               there \ there' \subseteq Named(p)
        PROVE  /\ \A n \in there \ there' : n \in Tree[top] \/ ThroughLink(n)
               /\ \A n, o \in there \ there' : n = o
    <2>1. \A n \in there \ there' : n \in Tree[top] \/ ThroughLink(n)
      BY <1>0, <1>1, NamedThroughLinks
    <2>2. \A n, o \in Named(p) : n = o
      BY DEF Named
    <2> QED
      BY <1>1, <2>1, <2>2
  <1>2. CASE OpenDir
    BY <1>2 DEF OpenDir
  <1>3. CASE NextEntry
    BY <1>3 DEF NextEntry
  <1>4. CASE Unlink
    <2>1. path \in Seq(STRING) /\ path # <<>> /\ path[1] = top
      <3>1. path # <<>> /\ IsBelow(path, Len(frames)) /\ path \in Seq(Names) /\ Len(frames) \in Nat
        BY <1>4, FrameFacts DEF Unlink, TreeTypeOK, TreeInv, CallsNest
      <3> QED
        BY <3>1, BelowFacts
    <2>2. there' \subseteq there /\ there \ there' \subseteq Named(path)
      BY <1>4 DEF Unlink
    <2> QED
      BY <1>1, <2>1, <2>2
  <1>5. CASE EndDir
    <2> DEFINE f == Last(frames)
    <2>1. step = "next"
      BY <1>5 DEF EndDir
    <2>2. f.path \in Seq(STRING) /\ f.path # <<>> /\ f.path[1] = top
      BY <2>1, LastCall
    <2>3. there' \subseteq there /\ there \ there' \subseteq Named(f.path)
      BY <1>5 DEF EndDir
    <2> HIDE DEF f
    <2> QED
      BY <1>1, <2>2, <2>3
  <1> QED
    BY <1>2, <1>3, <1>4, <1>5 DEF RmStep

\* What is taken has no entries, so that no path through it is cut.
LEMMA RmStepTakesLeaves ==
    ASSUME TreeTypeOK, RmStep
    PROVE  \A n \in there \ there' : Entries(n) = {}
  <1>1. \A n, e \in there : Front(e) = n => n \in Dirs
    <2>1. \A e \in there : Front(e) \in Dirs \cup {<<>>}
      BY NodeFacts DEF TreeTypeOK
    <2>2. <<>> \notin there
      BY NodeFacts DEF TreeTypeOK
    <2> QED
      BY <2>1, <2>2
  <1>2. CASE OpenDir \/ NextEntry
    BY <1>2 DEF OpenDir, NextEntry
  <1>3. CASE Unlink
    <2>1. \A n \in there \ there' : n \notin Dirs
      BY <1>3 DEF Unlink
    <2> QED
      BY <1>1, <2>1 DEF Entries
  <1>4. CASE EndDir
    BY <1>4 DEF EndDir
  <1> QED
    BY <1>2, <1>3, <1>4 DEF RmStep

\* While it runs it has not returned, and it stays with its directory.
LEMMA RmStepRuns ==
    ASSUME TreeTypeOK, TreeInv, RmStep
    PROVE  /\ outcome = "running" /\ outcome' # "none" /\ top' = top
           /\ outcome' = "running" \/ (outcome' = "ERROR" /\ there' = there)
                                   \/ (outcome' = "OK" /\ EndDir /\ frames' = <<>>)
  <1>1. step # "idle" /\ outcome = "running"
    BY DEF RmStep, OpenDir, NextEntry, Unlink, EndDir, TreeInv, CallsNest
  <1> QED
    BY <1>1 DEF RmStep, OpenDir, NextEntry, Unlink, EndDir, Fail

\* It succeeds when the directory itself goes: then nothing is left of it.
LEMMA LastCallEnds ==
    ASSUME TreeTypeOK, TreeInv, EndDir, outcome' = "OK"
    PROVE  there' = there \ {<<top>>} /\ Tree[top] \cap there' = {}
  <1> DEFINE f == Last(frames)
             gone == {n \in Named(f.path) \cap Dirs : Entries(n) = {}}
  <1>1. step = "next" /\ outcome = "running"
    BY LastCall DEF EndDir
  <1>2. gone # {} /\ there' = there \ gone /\ frames' = Front(frames) /\ frames' = <<>>
    BY <1>1 DEF EndDir, Fail
  <1>3. /\ f.path \in Seq(Names) /\ IsBelow(f.path, Len(frames) - 1) /\ Len(frames) \in Nat \ {0}
        /\ Len(frames) = 1
    <2>1. /\ frames \in Seq(Frame) /\ frames # <<>> /\ f = frames[Len(frames)] /\ f \in Frame
          /\ Len(frames) \in Nat \ {0} /\ IsBelow(frames[Len(frames)].path, Len(frames) - 1)
      BY <1>1, LastCall DEF TreeTypeOK
    <2>2. Len(frames') = Len(frames) - 1
      BY <1>2, <2>1, FrameFacts
    <2>3. Len(frames') = 0
      BY <1>2, EmptySeq
    <2> QED
      BY <2>1, <2>2, <2>3 DEF Frame
  <1>4. f.path = <<top>>
    <2> HIDE DEF f
    <2>1. IsBelow(f.path, 0)
      BY <1>3
    <2> QED
      BY <1>3, <2>1, BelowFacts
  <1>5. TreeOK /\ top \in Tops /\ <<top>> \in Nodes
    BY TreeFacts DEF TreeTypeOK, TreeOK, Nodes
  <1>6. Named(f.path) \subseteq {<<top>>}
    BY <1>4, <1>5, NamedNode
  <1>7. there' = there \ {<<top>>}
    <2> HIDE DEF f
    <2> QED
      BY <1>2, <1>6
  <1>8. TreeOK'
    BY EndDirKeeps DEF TreeTypeOK, TreeOK
  <1>9. ASSUME NEW n \in Tree[top] \cap there' PROVE FALSE
    <2>1. IsPrefix(<<top>>, n)
      BY <1>5 DEF Tree, Below
    <2>2. <<top>> \in Seq(STRING) /\ <<top>> # <<>>
      BY <1>5, NodeFacts
    <2>3. there' \subseteq Nodes /\ Closed(there')
      BY <1>8 DEF TreeOK, Closed
    <2>4. <<top>> \in there'
      BY <2>1, <2>2, <2>3, ClosedAbove
    <2> QED
      BY <1>7, <2>4
  <1> QED
    BY <1>7, <1>9
-----------------------------------------------------------------------------
(* rm_r by itself *)

\* Initially nothing is being removed.
LEMMA TreeInitInv ==
    ASSUME TreeInit, TreeOK
    PROVE  TreeTypeOK /\ TreeInv
  <1>1. <<>> \in Seq(Frame) /\ <<>> \in Seq(Names) /\ DOMAIN <<>> = {}
    BY EmptySeq
  <1>2. TreeTypeOK
    BY <1>1 DEF TreeInit, TreeTypeOK, TreeOK, Outcomes
  <1>3. TreeInv
    BY <1>1 DEF TreeInit, TreeInv, CallsNest, SparesLinks, KnowsAll, SuccessMetNoDirLink, RemovesAllAlone
  <1> QED
    BY <1>2, <1>3

\* Whatever was left of a version, and wherever the links in it lead: the calls of rm_r
\* nest, and what is known of links holds, so that rm_r succeeds on what has no link to a
\* directory, and never when it has met one that leads elsewhere (core/rm-r.c).
THEOREM RmInvariant == RmSpec => [](TreeTypeOK /\ TreeInv)
  <1>1. RmInit => TreeTypeOK /\ TreeInv
    <2>1. RmInit => TreeOK
      BY DEF RmInit, TreeOK
    <2> QED
      BY <2>1, TreeInitInv DEF RmInit
  <1>2. TreeTypeOK /\ TreeInv /\ [(\E d \in Tops : Begin(d)) \/ RmStep \/ Returned]_treeVars
        => TreeTypeOK' /\ TreeInv'
    <2> SUFFICES ASSUME TreeTypeOK, TreeInv, [(\E d \in Tops : Begin(d)) \/ RmStep \/ Returned]_treeVars
                 PROVE  TreeTypeOK' /\ TreeInv'
      OBVIOUS
    <2>1. CASE \E d \in Tops : Begin(d)
      BY <2>1, BeginKeeps
    <2>2. CASE RmStep
      BY <2>2, RmStepKeeps
    <2>3. CASE Returned
      BY <2>3, ForgetKeeps DEF Returned
    <2>4. CASE UNCHANGED treeVars
      BY <2>4, NothingKeeps
    <2> QED
      BY <2>1, <2>2, <2>3, <2>4
  <1> QED
    BY <1>1, <1>2, PTL DEF RmSpec
=============================================================================
