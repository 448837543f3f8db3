---------------------------- MODULE GraphProofs ----------------------------
(***************************************************************************)
(* The containment graph, for every finite set of subscriptions and every  *)
(* covering that is a preorder.                                            *)
(*                                                                         *)
(* Its shape: whatever is added and removed, in whatever order, its state  *)
(* keeps its types, the links are the Hasse diagram of covering, and       *)
(* search finds the node of every equivalent subscription.  The inductive  *)
(* invariant is Shape, and its heart LinksDescend: from a node one can     *)
(* always step down towards any node it strictly covers.  Without it a     *)
(* search could answer NULL although an equivalent node exists, and the    *)
(* node added next would be covered by what it covers.                     *)
(*                                                                         *)
(* What it answers: under every operation the counters count the live      *)
(* subscriptions; as long as nothing is removed (the router's use), a      *)
(* publication is answered with exactly the live subscriptions that match  *)
(* it, so that the graph implements a plain store.                         *)
(***************************************************************************)
EXTENDS GraphProperties, FiniteSetTheorems, WellFoundedInduction, TLAPS

-----------------------------------------------------------------------------
(* Types, and the bound of the loop over overriden_.                       *)

\* The entries that the loop of match may read exist, for every node that
\* could come into being: OverridenInRange, made inductive.
EntriesInRange == \A n \in Sub : count[n] - 1 <= Len(overriden[n])

CountsPositive == \A n \in nodes : count[n] >= 1

TypeInv == TypeOK /\ EntriesInRange /\ CountsPositive

\* A search answers with a subscription that names a node, or with NULL.
LEMMA SearchType ==
    ASSUME NEW s
    PROVE  SearchResults(s) \ {NoNode} \subseteq Sub
BY DEF SearchResults, SearchVisits, Reachable

LEMMA TypeInit == Init => TypeInv
BY DEF Init, TypeInv, TypeOK, EntriesInRange, CountsPositive, NoMatches

LEMMA TypeAddDuplicate ==
    ASSUME TypeInv, NEW s \in Sub, AddDuplicate(s)
    PROVE  TypeInv'
<1>1. PICK n \in SearchResults(s) \ {NoNode} :
         /\ attr' = [attr EXCEPT ![s] = n]
         /\ overriden' = [overriden EXCEPT ![n] = Append(@, s)]
         /\ count' = [count EXCEPT ![n] = @ + 1]
  BY DEF AddDuplicate
<1>2. n \in Sub
  BY <1>1, SearchType
<1>3. TypeOK'
  <2>1. overriden' \in [Sub -> Seq(Sub)]
    BY <1>1, <1>2 DEF TypeInv, TypeOK
  <2>2. count' \in [Sub -> Int] /\ attr' \in [Sub -> Sub \cup {NoNode}]
    BY <1>1, <1>2 DEF TypeInv, TypeOK
  <2> QED
    BY <2>1, <2>2 DEF TypeInv, TypeOK, AddDuplicate, structure, NoMatches
<1>4. EntriesInRange'
  <2> SUFFICES ASSUME NEW m \in Sub
               PROVE  count'[m] - 1 <= Len(overriden'[m])
    BY DEF EntriesInRange
  <2>1. count[m] \in Int /\ overriden[m] \in Seq(Sub) /\ count[m] - 1 <= Len(overriden[m])
    BY DEF TypeInv, TypeOK, EntriesInRange
  <2>2. CASE m = n
    <3>1. count'[m] = count[m] + 1 /\ overriden'[m] = Append(overriden[m], s)
      BY <1>1, <1>2, <2>2 DEF TypeInv, TypeOK
    <3>2. Len(overriden'[m]) = Len(overriden[m]) + 1
      BY <2>1, <3>1
    <3> QED
      BY <2>1, <3>1, <3>2
  <2>3. CASE m # n
    BY <1>1, <1>2, <2>1, <2>3 DEF TypeInv, TypeOK
  <2> QED
    BY <2>2, <2>3
<1>5. CountsPositive'
  BY <1>1, <1>2 DEF TypeInv, TypeOK, CountsPositive, AddDuplicate, structure
<1> QED
  BY <1>3, <1>4, <1>5 DEF TypeInv

LEMMA TypeAddNode ==
    ASSUME TypeInv, NEW s \in Sub, AddNode(s)
    PROVE  TypeInv'
<1> DEFINE P == FindContainers(s)
           C == FindContainees(s)
<1>1. P \subseteq Sub /\ C \subseteq Sub
  BY DEF FindContainers, FindContainees, Reachable
<1>2. Insert(s, P, C)
  BY DEF AddNode
<1> HIDE DEF P, C
<1>3. containers' \in [Sub -> SUBSET Sub] /\ containees' \in [Sub -> SUBSET Sub]
  BY <1>1, <1>2 DEF Insert, TypeInv, TypeOK
<1>4. nodes' \subseteq Sub /\ roots' \subseteq Sub /\ leaves' \subseteq Sub
  BY <1>2 DEF Insert, TypeInv, TypeOK
<1>5. TypeOK'
  <2>1. overriden' \in [Sub -> Seq(Sub)] /\ count' \in [Sub -> Int]
    BY DEF AddNode, TypeInv, TypeOK
  <2>2. size' \in Int /\ attr' \in [Sub -> Sub \cup {NoNode}]
    BY DEF AddNode, TypeInv, TypeOK
  <2>3. reply'.event = {} /\ reply'.subs = {}
    BY DEF AddNode, NoMatches
  <2> QED
    BY <1>3, <1>4, <2>1, <2>2, <2>3 DEF TypeOK
<1>6. EntriesInRange'
  BY DEF AddNode, TypeInv, TypeOK, EntriesInRange
<1>7. CountsPositive'
  BY <1>2 DEF Insert, AddNode, TypeInv, TypeOK, CountsPositive
<1> QED
  BY <1>5, <1>6, <1>7 DEF TypeInv

LEMMA TypeMatch ==
    ASSUME TypeInv, NEW e \in Event, Match(e)
    PROVE  TypeInv'
<1>1. ASSUME NEW n \in Sub
      PROVE  Entries(n) \subseteq Sub
  <2>1. count[n] \in Int /\ overriden[n] \in Seq(Sub) /\ count[n] - 1 <= Len(overriden[n])
    BY DEF TypeInv, TypeOK, EntriesInRange
  <2> QED
    BY <2>1 DEF Entries
<1>2. MatchingNodes(e) \subseteq Sub
  BY DEF MatchingNodes, Tested, Reachable
<1>3. reply'.event = {e} /\ reply'.subs = UNION {Entries(n) : n \in MatchingNodes(e)}
  BY DEF Match
<1>4. reply'.event \subseteq Event /\ reply'.subs \subseteq Sub
  BY <1>1, <1>2, <1>3
<1> QED
  BY <1>4 DEF Match, TypeInv, TypeOK, EntriesInRange, CountsPositive, structure

LEMMA TypeRemoveDuplicate ==
    ASSUME TypeInv, NEW s \in Sub, RemoveDuplicate(s)
    PROVE  TypeInv'
<1>1. PICK n \in SearchResults(s) \ {NoNode} :
         count[n] > 1 /\ count' = [count EXCEPT ![n] = @ - 1]
  BY DEF RemoveDuplicate
<1>2. n \in Sub
  BY <1>1, SearchType
<1>3. TypeOK'
  <2>1. count' \in [Sub -> Int]
    BY <1>1, <1>2 DEF TypeInv, TypeOK
  <2>2. size' \in Int /\ attr' \in [Sub -> Sub \cup {NoNode}]
    BY DEF RemoveDuplicate, TypeInv, TypeOK
  <2>3. reply'.event = {} /\ reply'.subs = {}
    BY DEF RemoveDuplicate, NoMatches
  <2> QED
    BY <2>1, <2>2, <2>3 DEF RemoveDuplicate, structure, TypeInv, TypeOK
<1>4. EntriesInRange'
  BY <1>1, <1>2 DEF RemoveDuplicate, structure, TypeInv, TypeOK, EntriesInRange
<1>5. CountsPositive'
  BY <1>1, <1>2 DEF RemoveDuplicate, structure, TypeInv, TypeOK, CountsPositive
<1> QED
  BY <1>3, <1>4, <1>5 DEF TypeInv

LEMMA TypeRemoveNode ==
    ASSUME TypeInv, NEW s \in Sub, RemoveNode(s)
    PROVE  TypeInv'
<1>1. PICK n \in SearchResults(s) \ {NoNode} :
         /\ Delete(n)
         /\ overriden' = [overriden EXCEPT ![n] = <<>>]
         /\ count' = [count EXCEPT ![n] = 0]
  BY DEF RemoveNode
<1>2. n \in Sub
  BY <1>1, SearchType
<1>3. containers' \in [Sub -> SUBSET Sub] /\ containees' \in [Sub -> SUBSET Sub]
  BY <1>1, <1>2 DEF Delete, Without, TypeInv, TypeOK
<1>4. nodes' \subseteq Sub /\ roots' \subseteq Sub /\ leaves' \subseteq Sub
  BY <1>1, <1>2 DEF Delete, TypeInv, TypeOK
<1>5. TypeOK'
  <2>1. overriden' \in [Sub -> Seq(Sub)] /\ count' \in [Sub -> Int]
    BY <1>1, <1>2 DEF TypeInv, TypeOK
  <2>2. size' \in Int /\ attr' \in [Sub -> Sub \cup {NoNode}]
    BY DEF RemoveNode, TypeInv, TypeOK
  <2>3. reply'.event = {} /\ reply'.subs = {}
    BY DEF RemoveNode, NoMatches
  <2> QED
    BY <1>3, <1>4, <2>1, <2>2, <2>3 DEF TypeOK
<1>6. EntriesInRange'
  BY <1>1, <1>2 DEF TypeInv, TypeOK, EntriesInRange
<1>7. CountsPositive'
  BY <1>1, <1>2 DEF Delete, TypeInv, TypeOK, CountsPositive
<1> QED
  BY <1>5, <1>6, <1>7 DEF TypeInv

LEMMA TypeStep == TypeInv /\ [Next]_vars => TypeInv'
<1> SUFFICES ASSUME TypeInv, [Next]_vars
             PROVE  TypeInv'
  OBVIOUS
<1>1. CASE UNCHANGED vars
  BY <1>1 DEF vars, structure, TypeInv, TypeOK, EntriesInRange, CountsPositive
<1>2. CASE Next
  BY <1>2, TypeAddDuplicate, TypeAddNode, TypeMatch, TypeRemoveDuplicate, TypeRemoveNode
     DEF Next, RouterNext
<1> QED
  BY <1>1, <1>2

\* The state of the graph keeps its types through any sequence of operations;
\* in particular every entry that match pushes is a subscription.
THEOREM TypeCorrect == Spec => []TypeOK
<1>1. TypeInv => TypeOK
  BY DEF TypeInv
<1> QED
  BY <1>1, TypeInit, TypeStep, PTL DEF Spec

\* match never reads past the end of overriden_, although remove leaves
\* overriden_ as it is and only decrements count_.
THEOREM OverridenAlwaysInRange == Spec => []OverridenInRange
<1>1. TypeInv => OverridenInRange
  BY DEF TypeInv, TypeOK, EntriesInRange, CountsPositive, OverridenInRange
<1> QED
  BY <1>1, TypeInit, TypeStep, PTL DEF Spec

-----------------------------------------------------------------------------
(* Covering as an order.                                                   *)

LEMMA CoversTransitive ==
    ASSUME NEW s \in Sub, NEW t \in Sub, NEW u \in Sub, Covers(s, t), Covers(t, u)
    PROVE  Covers(s, u)
BY CoveringIsPreorder

LEMMA StrictTransitive ==
    ASSUME NEW s \in Sub, NEW t \in Sub, NEW u \in Sub
    PROVE  /\ StrictlyCovers(s, t) /\ Covers(t, u) => StrictlyCovers(s, u)
           /\ Covers(s, t) /\ StrictlyCovers(t, u) => StrictlyCovers(s, u)
BY CoveringIsPreorder DEF StrictlyCovers

\* A nonempty set of subscriptions has a maximal and a minimal element.  The
\* strict upper sets of its elements are finite, and a strictly larger element
\* has a strictly smaller upper set.
LEMMA Maximal ==
    ASSUME NEW T \in SUBSET Sub, T # {}
    PROVE  \E m \in T : \A x \in T : ~StrictlyCovers(x, m)
<1> DEFINE Up(m) == {x \in Sub : StrictlyCovers(x, m)}
           U == {Up(m) : m \in T}
<1>1. IsWellFoundedOn(StrictSubsetOrdering(Sub), SUBSET Sub)
  BY GraphAssumption, FS_FiniteSubsetsOfFinite, FS_StrictSubsetOrderingWellFounded
<1>2. U \subseteq SUBSET Sub /\ U # {}
  OBVIOUS
<1>3. PICK u \in U : \A v \in U : <<v, u>> \notin StrictSubsetOrdering(Sub)
  BY <1>1, <1>2, WFMin
<1>4. PICK m \in T : u = Up(m)
  OBVIOUS
<1>5. ASSUME NEW x \in T, StrictlyCovers(x, m)
      PROVE  FALSE
  <2>1. Up(x) \subseteq Up(m)
    BY <1>5, StrictTransitive DEF StrictlyCovers
  <2>2. x \in Up(m) /\ x \notin Up(x)
    BY <1>5 DEF StrictlyCovers
  <2>3. <<Up(x), Up(m)>> \in StrictSubsetOrdering(Sub)
    BY <2>1, <2>2 DEF StrictSubsetOrdering
  <2> QED
    BY <1>3, <1>4, <2>3
<1> QED
  BY <1>5

LEMMA Minimal ==
    ASSUME NEW T \in SUBSET Sub, T # {}
    PROVE  \E m \in T : \A x \in T : ~StrictlyCovers(m, x)
<1> DEFINE Down(m) == {x \in Sub : StrictlyCovers(m, x)}
           U == {Down(m) : m \in T}
<1>1. IsWellFoundedOn(StrictSubsetOrdering(Sub), SUBSET Sub)
  BY GraphAssumption, FS_FiniteSubsetsOfFinite, FS_StrictSubsetOrderingWellFounded
<1>2. U \subseteq SUBSET Sub /\ U # {}
  OBVIOUS
<1>3. PICK u \in U : \A v \in U : <<v, u>> \notin StrictSubsetOrdering(Sub)
  BY <1>1, <1>2, WFMin
<1>4. PICK m \in T : u = Down(m)
  OBVIOUS
<1>5. ASSUME NEW x \in T, StrictlyCovers(m, x)
      PROVE  FALSE
  <2>1. Down(x) \subseteq Down(m)
    BY <1>5, StrictTransitive DEF StrictlyCovers
  <2>2. x \in Down(m) /\ x \notin Down(x)
    BY <1>5 DEF StrictlyCovers
  <2>3. <<Down(x), Down(m)>> \in StrictSubsetOrdering(Sub)
    BY <2>1, <2>2 DEF StrictSubsetOrdering
  <2> QED
    BY <1>3, <1>4, <2>3
<1> QED
  BY <1>5

-----------------------------------------------------------------------------
(* Traversals.                                                             *)

\* A traversal visits its start nodes and the successors of visited nodes.
LEMMA ReachGrows ==
    ASSUME NEW start, NEW next, NEW n \in Sub,
           \/ n \in start
           \/ \E m \in Reachable(start, next) : n \in next[m]
    PROVE  n \in Reachable(start, next)
BY DEF Reachable

\* It visits nothing outside a set that holds the former and is closed under
\* the latter.
LEMMA ReachLeast ==
    ASSUME NEW start, NEW next, NEW X \in SUBSET Sub,
           start \subseteq X,
           \A x \in X : next[x] \subseteq X
    PROVE  Reachable(start, next) \subseteq X
BY DEF Reachable

\* The part of the shape that the walks up and down rely on.
LEMMA LinksFacts ==
    ASSUME TypeOK, Shape
    PROVE  /\ nodes \subseteq Sub
           /\ \A a, b \in Sub : b \in containees[a] =>
                 a \in nodes /\ b \in nodes /\ StrictlyCovers(a, b) /\ a \in containers[b]
           /\ \A a, b \in Sub : a \in containers[b] =>
                 a \in nodes /\ b \in nodes /\ StrictlyCovers(a, b) /\ b \in containees[a]
           /\ \A a \in Sub : containees[a] \subseteq nodes /\ containers[a] \subseteq nodes
           /\ \A n \in nodes : n \in roots <=> containers[n] = {}
           /\ \A n \in nodes : n \in leaves <=> containees[n] = {}
           /\ roots \subseteq nodes /\ leaves \subseteq nodes
<1>1. \A a, b \in Sub : b \in containees[a] =>
         a \in nodes /\ b \in nodes /\ StrictlyCovers(a, b) /\ a \in containers[b]
  BY DEF Shape, LinksCover, LinksPaired
<1>2. \A a, b \in Sub : a \in containers[b] =>
         a \in nodes /\ b \in nodes /\ StrictlyCovers(a, b) /\ b \in containees[a]
  BY DEF Shape, LinksCover, LinksPaired
<1>3. \A a \in Sub : containees[a] \subseteq Sub /\ containers[a] \subseteq Sub
  BY DEF TypeOK
<1> QED
  BY <1>1, <1>2, <1>3 DEF Shape, EndsExact, TypeOK

\* find_containers returns the nodes that cover s and have no containee that
\* does: its walk from the roots reaches every node that covers s.
LEMMA ContainersFound ==
    ASSUME TypeOK, Shape, NEW s \in Sub
    PROVE  FindContainers(s) =
             {n \in nodes : Covers(n, s) /\ \A c \in containees[n] : ~Covers(c, s)}
<1> DEFINE start == {r \in roots : Covers(r, s)}
           next == [n \in Sub |-> {c \in containees[n] : Covers(c, s)}]
           K == {n \in nodes : Covers(n, s)}
<1>1. Reachable(start, next) \subseteq K
  <2>1. K \subseteq Sub /\ start \subseteq K /\ \A x \in K : next[x] \subseteq K
    BY LinksFacts
  <2> QED
    BY <2>1, ReachLeast
<1>2. ASSUME NEW X \in SUBSET Sub, start \subseteq X, \A x \in X : next[x] \subseteq X
      PROVE  K \subseteq X
  <2> SUFFICES ASSUME K \ X # {}
               PROVE  FALSE
    OBVIOUS
  <2>1. PICK m \in K \ X : \A x \in K \ X : ~StrictlyCovers(x, m)
    <3>1. K \ X \in SUBSET Sub
      BY LinksFacts
    <3> QED
      BY <3>1, Maximal
  <2>2. m \in nodes /\ m \in Sub /\ m \notin roots
    BY <1>2, LinksFacts
  <2>3. PICK p \in containers[m] : TRUE
    BY <2>2, LinksFacts
  <2>4. p \in nodes /\ p \in Sub /\ StrictlyCovers(p, m) /\ m \in containees[p]
    BY <2>2, <2>3, LinksFacts
  <2>5. Covers(p, s)
    BY <2>1, <2>2, <2>4, CoversTransitive DEF StrictlyCovers
  <2>6. p \in X
    BY <2>1, <2>4, <2>5
  <2> QED
    BY <1>2, <2>1, <2>4, <2>6
<1>3. K \subseteq Reachable(start, next)
  <2>1. K \subseteq Sub
    BY LinksFacts
  <2> QED
    BY <1>2, <2>1 DEF Reachable
<1> QED
  BY <1>1, <1>3 DEF FindContainers

\* find_containees, the other way up.
LEMMA ContaineesFound ==
    ASSUME TypeOK, Shape, NEW s \in Sub
    PROVE  FindContainees(s) =
             {n \in nodes : Covers(s, n) /\ \A c \in containers[n] : ~Covers(s, c)}
<1> DEFINE start == {l \in leaves : Covers(s, l)}
           next == [n \in Sub |-> {c \in containers[n] : Covers(s, c)}]
           K == {n \in nodes : Covers(s, n)}
<1>1. Reachable(start, next) \subseteq K
  <2>1. K \subseteq Sub /\ start \subseteq K /\ \A x \in K : next[x] \subseteq K
    BY LinksFacts
  <2> QED
    BY <2>1, ReachLeast
<1>2. ASSUME NEW X \in SUBSET Sub, start \subseteq X, \A x \in X : next[x] \subseteq X
      PROVE  K \subseteq X
  <2> SUFFICES ASSUME K \ X # {}
               PROVE  FALSE
    OBVIOUS
  <2>1. PICK m \in K \ X : \A x \in K \ X : ~StrictlyCovers(m, x)
    <3>1. K \ X \in SUBSET Sub
      BY LinksFacts
    <3> QED
      BY <3>1, Minimal
  <2>2. m \in nodes /\ m \in Sub /\ m \notin leaves
    BY <1>2, LinksFacts
  <2>3. PICK c \in containees[m] : TRUE
    BY <2>2, LinksFacts
  <2>4. c \in nodes /\ c \in Sub /\ StrictlyCovers(m, c) /\ m \in containers[c]
    BY <2>2, <2>3, LinksFacts
  <2>5. Covers(s, c)
    BY <2>1, <2>2, <2>4, CoversTransitive DEF StrictlyCovers
  <2>6. c \in X
    BY <2>1, <2>4, <2>5
  <2> QED
    BY <1>2, <2>1, <2>4, <2>6
<1>3. K \subseteq Reachable(start, next)
  <2>1. K \subseteq Sub
    BY LinksFacts
  <2> QED
    BY <1>2, <2>1 DEF Reachable
<1> QED
  BY <1>1, <1>3 DEF FindContainees

-----------------------------------------------------------------------------
(* Searching.                                                              *)

\* Every node is reached from a root that covers it.
LEMMA RootAbove ==
    ASSUME TypeOK, Shape, NEW q \in nodes
    PROVE  \E r \in roots : Covers(r, q)
<1> DEFINE T == {x \in nodes : Covers(x, q)}
<1>1. T \in SUBSET Sub /\ q \in T
  BY LinksFacts, CoveringIsPreorder
<1>2. PICK m \in T : \A x \in T : ~StrictlyCovers(x, m)
  BY <1>1, Maximal
<1>3. m \in roots
  <2> SUFFICES ASSUME containers[m] # {}
               PROVE  FALSE
    BY LinksFacts
  <2>1. PICK p \in containers[m] : TRUE
    OBVIOUS
  <2>2. p \in nodes /\ p \in Sub /\ m \in Sub /\ q \in Sub /\ StrictlyCovers(p, m)
    BY <1>1, <2>1, LinksFacts
  <2>3. Covers(p, q)
    BY <2>2, CoversTransitive DEF StrictlyCovers
  <2> QED
    BY <1>2, <2>2, <2>3
<1> QED
  BY <1>3

\* The nodes a search visits cover what it looks for.
LEMMA SearchVisitsCover ==
    ASSUME TypeOK, Shape, NEW s \in Sub
    PROVE  SearchVisits(s) \subseteq {n \in nodes : Covers(n, s)}
<1> DEFINE start == {r \in roots : Covers(r, s)}
           next == [n \in Sub |-> IF Covers(s, n) THEN {}
                                                  ELSE {c \in containees[n] : Covers(c, s)}]
           K == {n \in nodes : Covers(n, s)}
<1>1. K \subseteq Sub /\ start \subseteq K /\ \A x \in K : next[x] \subseteq K
  BY LinksFacts
<1>2. Reachable(start, next) \subseteq K
  BY <1>1, ReachLeast
<1> QED
  BY <1>2 DEF SearchVisits

\* A search visits the covering roots, and the covering containees of the
\* nodes it visits that are not equivalent to s.
LEMMA SearchVisitsGrow ==
    ASSUME TypeOK, Shape, NEW s \in Sub
    PROVE  /\ \A r \in roots : Covers(r, s) => r \in SearchVisits(s)
           /\ \A n \in SearchVisits(s) : ~Covers(s, n) =>
                 \A c \in containees[n] : Covers(c, s) => c \in SearchVisits(s)
<1> DEFINE start == {r \in roots : Covers(r, s)}
           next == [n \in Sub |-> IF Covers(s, n) THEN {}
                                                  ELSE {c \in containees[n] : Covers(c, s)}]
<1>1. ASSUME NEW r \in roots, Covers(r, s)
      PROVE  r \in Reachable(start, next)
  <2>1. r \in Sub /\ r \in start
    BY <1>1, LinksFacts
  <2> QED
    BY <2>1, ReachGrows
<1>2. ASSUME NEW n \in Reachable(start, next), ~Covers(s, n),
             NEW c \in containees[n], Covers(c, s)
      PROVE  c \in Reachable(start, next)
  <2>1. n \in Sub
    BY DEF Reachable
  <2>2. c \in Sub /\ c \in next[n]
    BY <1>2, <2>1, LinksFacts
  <2> QED
    BY <2>2, ReachGrows
<1> QED
  BY <1>1, <1>2 DEF SearchVisits

\* If a node is equivalent to s, every path of the search ends in it.
LEMMA SearchHit ==
    ASSUME TypeOK, Shape, NEW s \in Sub, NEW q \in nodes, EquivalentSubs(q, s)
    PROVE  SearchResults(s) = {q}
<1> DEFINE V == SearchVisits(s)
<1>1. q \in Sub /\ V \subseteq Sub /\ nodes \subseteq Sub
  BY LinksFacts, SearchVisitsCover
<1>2. ASSUME NEW n \in V, ~Covers(s, n)
      PROVE  n \in nodes /\ StrictlyCovers(n, q) /\ \E c \in containees[n] : Covers(c, q)
  <2>1. n \in nodes /\ Covers(n, s)
    BY SearchVisitsCover
  <2>2. StrictlyCovers(n, q)
    BY <1>1, <1>2, <2>1, CoveringIsPreorder DEF StrictlyCovers, EquivalentSubs
  <2> QED
    BY <2>1, <2>2 DEF Shape, LinksDescend
<1>3. ASSUME NEW c \in Sub, Covers(c, q)
      PROVE  Covers(c, s)
  BY <1>1, <1>3, CoversTransitive DEF EquivalentSubs
<1>4. NoNode \notin SearchResults(s)
  <2>1. \E r \in roots : Covers(r, s)
    BY <1>3, RootAbove, LinksFacts
  <2>2. ASSUME NEW n \in V, ~Covers(s, n)
        PROVE  \E c \in containees[n] : Covers(c, s)
    BY <1>1, <1>2, <1>3, <2>2, LinksFacts
  <2>3. NoNode \notin V
    BY <1>1, GraphAssumption
  <2> QED
    BY <2>1, <2>2, <2>3 DEF SearchResults
<1>5. q \in V
  <2> SUFFICES ASSUME q \notin V
               PROVE  FALSE
    OBVIOUS
  <2> DEFINE T == {x \in V : ~Covers(s, x)}
  <2>1. ASSUME NEW x \in V
        PROVE  x \in T
    <3> SUFFICES ASSUME Covers(s, x)
                 PROVE  FALSE
      OBVIOUS
    <3>1. x \in nodes /\ Covers(x, s)
      BY SearchVisitsCover
    <3>2. EquivalentSubs(x, q)
      BY <1>1, <3>1, CoversTransitive DEF EquivalentSubs
    <3> QED
      BY <3>1, <3>2 DEF Shape, NodesDistinct
  <2>2. T # {}
    <3>1. PICK r \in roots : Covers(r, q)
      BY RootAbove
    <3>2. r \in V
      BY <1>3, <3>1, SearchVisitsGrow, LinksFacts
    <3> QED
      BY <2>1, <3>2
  <2>3. PICK m \in T : \A x \in T : ~StrictlyCovers(m, x)
    BY <1>1, <2>2, Minimal
  <2>4. PICK c \in containees[m] : Covers(c, q)
    BY <1>2, <2>3
  <2>5. c \in Sub /\ StrictlyCovers(m, c)
    BY <1>1, <2>3, <2>4, LinksFacts
  <2>6. c \in V
    BY <1>3, <2>3, <2>4, <2>5, SearchVisitsGrow
  <2> QED
    BY <2>1, <2>3, <2>5, <2>6
<1>6. \A n \in V : Covers(s, n) => n = q
  <2> SUFFICES ASSUME NEW n \in V, Covers(s, n)
               PROVE  n = q
    OBVIOUS
  <2>1. n \in nodes /\ Covers(n, s)
    BY SearchVisitsCover
  <2>2. EquivalentSubs(n, q)
    BY <1>1, <2>1, CoversTransitive DEF EquivalentSubs
  <2> QED
    BY <2>1, <2>2 DEF Shape, NodesDistinct
<1> QED
  BY <1>4, <1>5, <1>6 DEF SearchResults, EquivalentSubs

\* If no node is equivalent to s, every path of the search ends in NULL.
LEMMA SearchMiss ==
    ASSUME TypeOK, Shape, NEW s \in Sub, \A n \in nodes : ~EquivalentSubs(n, s)
    PROVE  SearchResults(s) = {NoNode}
<1> DEFINE V == SearchVisits(s)
<1>1. V \subseteq Sub /\ nodes \subseteq Sub
  BY LinksFacts, SearchVisitsCover
<1>2. \A n \in V : ~Covers(s, n)
  BY SearchVisitsCover DEF EquivalentSubs
<1>3. NoNode \in SearchResults(s)
  <2>1. CASE \A r \in roots : ~Covers(r, s)
    BY <2>1 DEF SearchResults
  <2>2. CASE \E r \in roots : Covers(r, s)
    <3>1. V # {}
      BY <2>2, SearchVisitsGrow
    <3>2. PICK m \in V : \A x \in V : ~StrictlyCovers(m, x)
      BY <1>1, <3>1, Minimal
    <3>3. \A c \in containees[m] : ~Covers(c, s)
      BY <1>1, <1>2, <3>2, SearchVisitsGrow, LinksFacts
    <3> QED
      BY <1>2, <3>2, <3>3 DEF SearchResults
  <2> QED
    BY <2>1, <2>2
<1> QED
  BY <1>2, <1>3 DEF SearchResults

LEMMA SearchCorrect ==
    ASSUME TypeOK, Shape
    PROVE  SearchExact
<1> SUFFICES ASSUME NEW s \in Sub
             PROVE  SearchResults(s) =
                      IF \E n \in nodes : EquivalentSubs(n, s)
                      THEN {n \in nodes : EquivalentSubs(n, s)}
                      ELSE {NoNode}
  BY DEF SearchExact
<1>1. CASE \A n \in nodes : ~EquivalentSubs(n, s)
  BY <1>1, SearchMiss
<1>2. ASSUME NEW q \in nodes, EquivalentSubs(q, s)
      PROVE  SearchResults(s) = {n \in nodes : EquivalentSubs(n, s)}
  <2>1. \A n \in nodes : EquivalentSubs(n, s) => EquivalentSubs(n, q)
    BY <1>2, LinksFacts, CoversTransitive DEF EquivalentSubs
  <2>2. {n \in nodes : EquivalentSubs(n, s)} = {q}
    BY <1>2, <2>1 DEF Shape, NodesDistinct
  <2> QED
    BY <1>2, <2>2, SearchHit
<1> QED
  BY <1>1, <1>2

-----------------------------------------------------------------------------
(* Adding a node.                                                          *)

\* Links also ascend: from a node one can step up towards any node that
\* strictly covers it.  Dual of LinksDescend, and a consequence of it.
LEMMA LinksAscend ==
    ASSUME TypeOK, Shape, NEW a \in nodes, NEW b \in nodes, StrictlyCovers(a, b)
    PROVE  \E p \in containers[b] : Covers(a, p)
<1> DEFINE T == {x \in nodes : Covers(a, x) /\ StrictlyCovers(x, b)}
<1>1. nodes \subseteq Sub
  BY LinksFacts
<1>2. T \in SUBSET Sub /\ a \in T
  BY <1>1, CoveringIsPreorder
<1>3. PICK m \in T : \A x \in T : ~StrictlyCovers(m, x)
  BY <1>2, Minimal
<1>4. PICK c \in containees[m] : Covers(c, b)
  BY <1>3 DEF Shape, LinksDescend
<1>5. c \in nodes /\ StrictlyCovers(m, c) /\ m \in containers[c]
  BY <1>1, <1>3, <1>4, LinksFacts
<1>6. c = b
  <2> SUFFICES ASSUME c # b
               PROVE  FALSE
    OBVIOUS
  <2>1. StrictlyCovers(c, b)
    BY <1>4, <1>5 DEF Shape, NodesDistinct, EquivalentSubs, StrictlyCovers
  <2>2. Covers(a, c)
    BY <1>1, <1>3, <1>5, CoversTransitive DEF StrictlyCovers
  <2> QED
    BY <1>3, <1>5, <2>1, <2>2
<1> QED
  BY <1>3, <1>5, <1>6

\* The shape after Insert, from what is known of the containers P and the
\* containees C of the new node.
LEMMA InsertShape ==
    ASSUME TypeOK, Shape, NEW s \in Sub, s \notin nodes,
           NEW P \in SUBSET nodes, NEW C \in SUBSET nodes,
           \A p \in P : StrictlyCovers(p, s) /\ \A c \in containees[p] : ~Covers(c, s),
           \A n \in nodes : Covers(n, s) /\ (\A c \in containees[n] : ~Covers(c, s)) => n \in P,
           \A c \in C : StrictlyCovers(s, c) /\ \A p \in containers[c] : ~Covers(s, p),
           \A n \in nodes : Covers(s, n) /\ (\A p \in containers[n] : ~Covers(s, p)) => n \in C,
           \A n \in nodes : ~EquivalentSubs(n, s),
           Insert(s, P, C)
    PROVE  Shape'
<1>1. nodes \subseteq Sub /\ nodes' = nodes \cup {s}
  BY LinksFacts DEF Insert
<1>2. \A a \in Sub : containees'[a] =
         IF a = s THEN C ELSE IF a \in P THEN (containees[a] \ C) \cup {s} ELSE containees[a]
  BY DEF Insert
<1>3. \A a \in Sub : containers'[a] =
         IF a = s THEN P ELSE IF a \in C THEN (containers[a] \ P) \cup {s} ELSE containers[a]
  BY DEF Insert
<1>4. \A a \in Sub : s \notin containees[a] /\ s \notin containers[a]
  BY LinksFacts
<1>5. \A a \in Sub : containees[a] \subseteq Sub /\ containers[a] \subseteq Sub
  BY <1>1, LinksFacts
<1>6. \A a, b \in Sub : a # s /\ b # s =>
         /\ b \in containees'[a] <=> b \in containees[a] /\ ~(a \in P /\ b \in C)
         /\ a \in containers'[b] <=> a \in containers[b] /\ ~(a \in P /\ b \in C)
  <2> SUFFICES ASSUME NEW a \in Sub, NEW b \in Sub, a # s, b # s
               PROVE  /\ b \in containees'[a] <=> b \in containees[a] /\ ~(a \in P /\ b \in C)
                      /\ a \in containers'[b] <=> a \in containers[b] /\ ~(a \in P /\ b \in C)
    OBVIOUS
  <2>1. containees'[a] = IF a \in P THEN (containees[a] \ C) \cup {s} ELSE containees[a]
    BY <1>2
  <2>2. containers'[b] = IF b \in C THEN (containers[b] \ P) \cup {s} ELSE containers[b]
    BY <1>3
  <2> QED
    BY <2>1, <2>2
<1>7. LinksCover'
  <2> SUFFICES ASSUME NEW a \in Sub, NEW b \in Sub, b \in containees'[a]
               PROVE  a \in nodes' /\ b \in nodes' /\ StrictlyCovers(a, b)
    BY DEF LinksCover, StrictlyCovers, Covers
  <2>1. CASE a = s
    BY <1>1, <1>2, <2>1
  <2>2. CASE a # s /\ b = s
    BY <1>1, <1>2, <1>4, <2>2
  <2>3. CASE a # s /\ b # s
    <3>1. b \in containees[a]
      BY <1>6, <2>3
    <3> QED
      BY <1>1, <3>1, LinksFacts
  <2> QED
    BY <2>1, <2>2, <2>3
<1>8. LinksPaired'
  <2> SUFFICES ASSUME NEW a \in Sub, NEW b \in Sub
               PROVE  b \in containees'[a] <=> a \in containers'[b]
    BY DEF LinksPaired
  <2>1. b \in containees[a] <=> a \in containers[b]
    BY DEF Shape, LinksPaired
  <2>2. CASE a = s
    BY <1>2, <1>3, <1>4, <2>2
  <2>3. CASE b = s
    BY <1>2, <1>3, <1>4, <2>3
  <2>4. CASE a # s /\ b # s
    BY <1>6, <2>1, <2>4
  <2> QED
    BY <2>2, <2>3, <2>4
<1>9. EndsExact'
  <2>1. \A m \in nodes : m # s
    OBVIOUS
  <2>2. roots' = {n \in nodes' : containers'[n] = {}}
    <3>1. roots' = {m \in roots : ~(m \in C /\ containers[m] = {})} \cup {x \in {s} : P = {}}
      BY DEF Insert
    <3>2. ASSUME NEW m \in nodes
          PROVE  m \in roots' <=> containers'[m] = {}
      <4>1. containers'[m] = {} <=> m \notin C /\ containers[m] = {}
        BY <1>1, <1>3, <2>1
      <4>2. m \in roots <=> containers[m] = {}
        BY LinksFacts
      <4> QED
        BY <2>1, <3>1, <4>1, <4>2
    <3>3. s \in roots' <=> containers'[s] = {}
      BY <1>3, <3>1, LinksFacts
    <3>4. roots' \subseteq nodes'
      BY <1>1, <3>1, LinksFacts
    <3> QED
      BY <1>1, <3>2, <3>3, <3>4
  <2>3. leaves' = {n \in nodes' : containees'[n] = {}}
    <3>1. leaves' = {m \in leaves : ~(m \in P /\ containees[m] = {})} \cup {x \in {s} : C = {}}
      BY DEF Insert
    <3>2. ASSUME NEW m \in nodes
          PROVE  m \in leaves' <=> containees'[m] = {}
      <4>1. containees'[m] = {} <=> m \notin P /\ containees[m] = {}
        BY <1>1, <1>2, <2>1
      <4>2. m \in leaves <=> containees[m] = {}
        BY LinksFacts
      <4> QED
        BY <2>1, <3>1, <4>1, <4>2
    <3>3. s \in leaves' <=> containees'[s] = {}
      BY <1>2, <3>1, LinksFacts
    <3>4. leaves' \subseteq nodes'
      BY <1>1, <3>1, LinksFacts
    <3> QED
      BY <1>1, <3>2, <3>3, <3>4
  <2> QED
    BY <2>2, <2>3 DEF EndsExact
<1>10. ASSUME NEW b \in nodes, Covers(s, b)
       PROVE  \E c \in C : Covers(c, b)
  <2> DEFINE T == {x \in nodes : Covers(s, x) /\ Covers(x, b)}
  <2>1. T \in SUBSET Sub /\ b \in T
    BY <1>1, <1>10, CoveringIsPreorder
  <2>2. PICK m \in T : \A x \in T : ~StrictlyCovers(x, m)
    BY <2>1, Maximal
  <2>3. ASSUME NEW p \in containers[m], Covers(s, p)
        PROVE  FALSE
    <3>1. p \in nodes /\ StrictlyCovers(p, m)
      BY <1>1, <2>3, LinksFacts
    <3>2. Covers(p, b)
      BY <1>1, <3>1, CoversTransitive DEF StrictlyCovers
    <3> QED
      BY <2>2, <2>3, <3>1, <3>2
  <2> QED
    BY <2>2, <2>3
<1>11. LinksDescend'
  <2> SUFFICES ASSUME NEW a \in nodes', NEW b \in nodes', StrictlyCovers(a, b)
               PROVE  \E c \in containees'[a] : Covers(c, b)
    BY DEF LinksDescend, StrictlyCovers, Covers
  <2>1. a \in Sub /\ b \in Sub
    BY <1>1
  <2>2. CASE a = s
    <3>1. b \in nodes /\ Covers(s, b)
      BY <1>1, <2>2, CoveringIsPreorder DEF StrictlyCovers
    <3> QED
      BY <1>2, <1>10, <2>2, <3>1
  <2>3. CASE a # s /\ b = s
    <3>1. a \in nodes /\ Covers(a, s)
      BY <1>1, <2>3 DEF StrictlyCovers
    <3>2. CASE a \in P
      BY <1>2, <2>1, <2>3, <3>2, CoveringIsPreorder
    <3>3. CASE a \notin P
      BY <1>2, <2>1, <2>3, <3>1, <3>3
    <3> QED
      BY <3>2, <3>3
  <2>4. CASE a # s /\ b # s
    <3>1. PICK c \in containees[a] : Covers(c, b)
      BY <1>1, <2>4 DEF Shape, LinksDescend
    <3>2. CASE c \in containees'[a]
      BY <3>1, <3>2
    <3>3. CASE c \notin containees'[a]
      <4>1. a \in P /\ c \in C /\ s \in containees'[a]
        BY <1>2, <2>1, <2>4, <3>1, <3>3
      <4>2. Covers(s, b)
        BY <1>1, <2>1, <3>1, <4>1, CoversTransitive DEF StrictlyCovers
      <4> QED
        BY <4>1, <4>2
    <3> QED
      BY <3>2, <3>3
  <2> QED
    BY <2>2, <2>3, <2>4
<1>12. LinksDirect'
  <2> SUFFICES ASSUME NEW a \in nodes', NEW x \in containees'[a], NEW y \in containees'[a],
                      StrictlyCovers(x, y)
               PROVE  FALSE
    BY DEF LinksDirect, StrictlyCovers, Covers
  <2>1. a \in Sub /\ x \in Sub /\ y \in Sub
    BY <1>1, <1>2, <1>5
  <2>2. CASE a = s
    <3>1. x \in C /\ y \in C
      BY <1>2, <2>2
    <3>2. PICK p \in containers[y] : Covers(x, p)
      BY <3>1, LinksAscend
    <3>3. p \in Sub /\ Covers(s, p)
      BY <1>1, <1>5, <2>1, <3>1, <3>2, CoversTransitive DEF StrictlyCovers
    <3> QED
      BY <3>1, <3>2, <3>3
  <2>3. CASE a # s /\ a \notin P
    BY <1>1, <1>2, <2>1, <2>3 DEF Shape, LinksDirect
  <2>4. CASE a # s /\ a \in P
    <3>1. a \in nodes
      BY <2>4
    <3>2. x # y
      BY <2>1 DEF StrictlyCovers
    <3>3. CASE x # s /\ y # s
      BY <1>2, <2>1, <2>4, <3>1, <3>3 DEF Shape, LinksDirect
    <3>4. CASE y = s
      BY <1>2, <2>1, <2>4, <3>2, <3>4 DEF StrictlyCovers
    <3>5. CASE x = s
      <4>1. y \in containees[a] /\ y \notin C /\ y \in nodes
        <5>1. y \in (containees[a] \ C) \cup {s}
          BY <1>2, <2>1, <2>4
        <5>2. y \in containees[a] /\ y \notin C
          BY <3>2, <3>5, <5>1
        <5> QED
          BY <2>1, <5>2, LinksFacts
      <4>2. PICK p \in containers[y] : Covers(s, p)
        BY <3>5, <4>1 DEF StrictlyCovers
      <4>3. p \in nodes /\ p \in Sub /\ StrictlyCovers(p, y)
        BY <2>1, <4>2, LinksFacts
      <4>4. StrictlyCovers(a, p)
        BY <1>1, <2>1, <2>4, <4>2, <4>3, StrictTransitive
      <4>5. PICK c \in containees[a] : Covers(c, p)
        BY <3>1, <4>3, <4>4 DEF Shape, LinksDescend
      <4>6. StrictlyCovers(c, y)
        BY <1>5, <2>1, <4>3, <4>5, StrictTransitive
      <4> QED
        BY <3>1, <4>1, <4>5, <4>6 DEF Shape, LinksDirect
    <3> QED
      BY <3>3, <3>4, <3>5
  <2> QED
    BY <2>2, <2>3, <2>4
<1>13. NodesDistinct'
  <2> SUFFICES ASSUME NEW n \in nodes', NEW m \in nodes', EquivalentSubs(n, m)
               PROVE  n = m
    BY DEF NodesDistinct, EquivalentSubs, Covers
  <2>1. EquivalentSubs(m, n)
    BY DEF EquivalentSubs
  <2> QED
    BY <1>1, <2>1 DEF Shape, NodesDistinct
<1> QED
  BY <1>7, <1>8, <1>9, <1>11, <1>12, <1>13 DEF Shape

\* A node is only created for a subscription that no node is equivalent to.
LEMMA AddNodeFresh ==
    ASSUME TypeOK, Shape, NEW s \in Sub, AddNode(s)
    PROVE  s \notin nodes /\ \A n \in nodes : ~EquivalentSubs(n, s)
<1>1. \A n \in nodes : ~EquivalentSubs(n, s)
  <2> SUFFICES ASSUME NEW q \in nodes, EquivalentSubs(q, s)
               PROVE  FALSE
    OBVIOUS
  <2>1. NoNode \in {q}
    BY SearchHit DEF AddNode
  <2> QED
    BY <2>1, GraphAssumption, LinksFacts
<1> QED
  BY <1>1, CoveringIsPreorder DEF EquivalentSubs

LEMMA AddNodeShape ==
    ASSUME TypeOK, Shape, NEW s \in Sub, AddNode(s)
    PROVE  Shape'
<1> DEFINE P == FindContainers(s)
           C == FindContainees(s)
<1>1. nodes \subseteq Sub
  BY LinksFacts
<1>2. \A n \in nodes : ~EquivalentSubs(n, s)
  BY AddNodeFresh
<1>3. s \notin nodes
  BY AddNodeFresh
<1>4. \A n \in nodes : /\ Covers(n, s) => StrictlyCovers(n, s)
                       /\ Covers(s, n) => StrictlyCovers(s, n)
  BY <1>2 DEF EquivalentSubs, StrictlyCovers
<1>5. P = {n \in nodes : Covers(n, s) /\ \A c \in containees[n] : ~Covers(c, s)}
  BY ContainersFound
<1>6. C = {n \in nodes : Covers(s, n) /\ \A c \in containers[n] : ~Covers(s, c)}
  BY ContaineesFound
<1>7. Insert(s, P, C)
  BY DEF AddNode
<1> HIDE DEF P, C
<1>8. /\ P \in SUBSET nodes /\ C \in SUBSET nodes
      /\ \A p \in P : StrictlyCovers(p, s) /\ \A c \in containees[p] : ~Covers(c, s)
      /\ \A n \in nodes : Covers(n, s) /\ (\A c \in containees[n] : ~Covers(c, s)) => n \in P
      /\ \A c \in C : StrictlyCovers(s, c) /\ \A p \in containers[c] : ~Covers(s, p)
      /\ \A n \in nodes : Covers(s, n) /\ (\A p \in containers[n] : ~Covers(s, p)) => n \in C
  BY <1>4, <1>5, <1>6
<1> QED
  BY <1>2, <1>3, <1>7, <1>8, InsertShape

-----------------------------------------------------------------------------
(* Deleting a node.                                                        *)

\* Of two nodes that directly cover the same node, neither covers the other.
LEMMA ContainersDirect ==
    ASSUME TypeOK, Shape, NEW b \in nodes, NEW x \in containers[b], NEW y \in containers[b]
    PROVE  ~StrictlyCovers(x, y)
<1> SUFFICES ASSUME StrictlyCovers(x, y)
             PROVE  FALSE
  OBVIOUS
<1>1. nodes \subseteq Sub /\ x \in nodes /\ y \in nodes
  BY LinksFacts
<1>2. b \in containees[x] /\ StrictlyCovers(y, b)
  BY <1>1, LinksFacts
<1>3. PICK c \in containees[x] : Covers(c, y)
  BY <1>1 DEF Shape, LinksDescend
<1>4. StrictlyCovers(c, b)
  BY <1>1, <1>2, <1>3, LinksFacts, StrictTransitive
<1> QED
  BY <1>1, <1>2, <1>3, <1>4 DEF Shape, LinksDirect

\* ancestor, asked of a parent and a child of the node that is taken away: the
\* child is reached exactly when another containee of the parent covers it.
LEMMA AncestorFound ==
    ASSUME TypeOK, Shape, NEW n \in nodes, NEW p \in containers[n], NEW c \in containees[n]
    PROVE  c \in Reachable(Without(containees, n)[p], Without(containees, n)) <=>
              \E d \in containees[p] : d # n /\ Covers(d, c)
<1> DEFINE down == Without(containees, n)
           K == {x \in nodes : \E d \in down[p] : Covers(d, x)}
<1>1. nodes \subseteq Sub /\ p \in nodes /\ c \in nodes /\ n \in Sub
  BY LinksFacts
<1>2. StrictlyCovers(p, n) /\ n \in containees[p] /\ StrictlyCovers(n, c) /\ p # n
  BY <1>1, LinksFacts DEF StrictlyCovers
<1>3. \A x \in Sub : down[x] = IF x = n THEN {} ELSE containees[x] \ {n}
  BY DEF Without
<1> HIDE DEF down
<1>4. down[p] = containees[p] \ {n} /\ down[p] \subseteq nodes
  <2>1. down[p] = containees[p] \ {n}
    BY <1>1, <1>2, <1>3
  <2>2. containees[p] \subseteq nodes
    BY <1>1, LinksFacts
  <2> QED
    BY <2>1, <2>2
<1>5. Reachable(down[p], down) \subseteq K
  <2>1. K \subseteq Sub /\ down[p] \subseteq K
    BY <1>1, <1>4, CoveringIsPreorder
  <2>2. ASSUME NEW x \in K, NEW y \in down[x]
        PROVE  y \in K
    <3>1. x \in nodes /\ y \in containees[x]
      BY <1>1, <1>3, <2>2
    <3>2. y \in nodes /\ y \in Sub /\ StrictlyCovers(x, y)
      BY <1>1, <3>1, LinksFacts
    <3>3. PICK d \in down[p] : Covers(d, x)
      BY <2>2
    <3>4. Covers(d, y)
      BY <1>1, <1>4, <3>1, <3>2, <3>3, CoversTransitive DEF StrictlyCovers
    <3> QED
      BY <3>2, <3>4
  <2> QED
    BY <2>1, <2>2, ReachLeast
<1>6. ASSUME NEW d \in down[p], Covers(d, c),
             NEW X \in SUBSET Sub, down[p] \subseteq X, \A x \in X : down[x] \subseteq X
      PROVE  c \in X
  <2> SUFFICES ASSUME c \notin X
               PROVE  FALSE
    OBVIOUS
  <2> DEFINE T == {x \in X \cap nodes : Covers(d, x) /\ Covers(x, c)}
  <2>1. T \in SUBSET Sub /\ d \in T
    BY <1>1, <1>4, <1>6, CoveringIsPreorder
  <2>2. PICK m \in T : \A x \in T : ~StrictlyCovers(m, x)
    BY <2>1, Minimal
  <2>3. m \in nodes /\ m # c
    BY <2>2
  <2>4. StrictlyCovers(m, c)
    BY <1>1, <2>2, <2>3 DEF Shape, NodesDistinct, EquivalentSubs, StrictlyCovers
  <2>5. PICK y \in containees[m] : Covers(y, c)
    BY <1>1, <2>3, <2>4 DEF Shape, LinksDescend
  <2>6. y \in nodes /\ y \in Sub /\ m \in Sub /\ StrictlyCovers(m, y)
    BY <1>1, <2>3, <2>5, LinksFacts
  <2>7. d \in nodes /\ d \in Sub /\ d \in containees[p] /\ d # n
    BY <1>1, <1>2, <1>3, <1>4
  <2>8. Covers(d, y)
    BY <2>2, <2>6, <2>7, CoversTransitive DEF StrictlyCovers
  <2>9. y # n
    <3> SUFFICES ASSUME y = n
                 PROVE  FALSE
      OBVIOUS
    <3>1. StrictlyCovers(d, n)
      BY <1>1, <2>7, <2>8 DEF Shape, NodesDistinct, EquivalentSubs, StrictlyCovers
    <3> QED
      BY <1>1, <1>2, <2>7, <3>1 DEF Shape, LinksDirect
  <2>10. m # n
    <3> SUFFICES ASSUME m = n
                 PROVE  FALSE
      OBVIOUS
    <3>1. StrictlyCovers(d, n)
      BY <1>1, <2>2, <2>7 DEF Shape, NodesDistinct, EquivalentSubs, StrictlyCovers
    <3> QED
      BY <1>1, <1>2, <2>7, <3>1 DEF Shape, LinksDirect
  <2>11. y \in down[m]
    BY <1>3, <2>5, <2>6, <2>9, <2>10
  <2>12. y \in T
    BY <1>6, <2>2, <2>5, <2>6, <2>8, <2>11
  <2> QED
    BY <2>2, <2>6, <2>12
<1>7. c \in Reachable(down[p], down) <=> \E d \in down[p] : Covers(d, c)
  <2>1. c \in Reachable(down[p], down) => \E d \in down[p] : Covers(d, c)
    BY <1>5
  <2>2. ASSUME NEW d \in down[p], Covers(d, c)
        PROVE  c \in Reachable(down[p], down)
    <3>1. \A X \in SUBSET Sub : (down[p] \subseteq X /\ \A x \in X : down[x] \subseteq X) => c \in X
      BY <1>6, <2>2
    <3> QED
      BY <1>1, <3>1 DEF Reachable
  <2> QED
    BY <2>1, <2>2
<1> QED
  BY <1>4, <1>7 DEF down

\* descendant, asked of a child and a parent of the node that is taken away.
LEMMA DescendantFound ==
    ASSUME TypeOK, Shape, NEW n \in nodes, NEW p \in containers[n], NEW c \in containees[n]
    PROVE  p \in Reachable(Without(containers, n)[c], Without(containers, n)) <=>
              \E d \in containers[c] : d # n /\ Covers(p, d)
<1> DEFINE up == Without(containers, n)
           K == {x \in nodes : \E d \in up[c] : Covers(x, d)}
<1>1. nodes \subseteq Sub /\ p \in nodes /\ c \in nodes /\ n \in Sub
  BY LinksFacts
<1>2. StrictlyCovers(n, c) /\ n \in containers[c] /\ StrictlyCovers(p, n) /\ c # n
  BY <1>1, LinksFacts DEF StrictlyCovers
<1>3. \A x \in Sub : up[x] = IF x = n THEN {} ELSE containers[x] \ {n}
  BY DEF Without
<1> HIDE DEF up
<1>4. up[c] = containers[c] \ {n} /\ up[c] \subseteq nodes
  <2>1. up[c] = containers[c] \ {n}
    BY <1>1, <1>2, <1>3
  <2>2. containers[c] \subseteq nodes
    BY <1>1, LinksFacts
  <2> QED
    BY <2>1, <2>2
<1>5. Reachable(up[c], up) \subseteq K
  <2>1. K \subseteq Sub /\ up[c] \subseteq K
    BY <1>1, <1>4, CoveringIsPreorder
  <2>2. ASSUME NEW x \in K, NEW y \in up[x]
        PROVE  y \in K
    <3>1. x \in nodes /\ y \in containers[x]
      BY <1>1, <1>3, <2>2
    <3>2. y \in nodes /\ y \in Sub /\ StrictlyCovers(y, x)
      BY <1>1, <3>1, LinksFacts
    <3>3. PICK d \in up[c] : Covers(x, d)
      BY <2>2
    <3>4. Covers(y, d)
      BY <1>1, <1>4, <3>1, <3>2, <3>3, CoversTransitive DEF StrictlyCovers
    <3> QED
      BY <3>2, <3>4
  <2> QED
    BY <2>1, <2>2, ReachLeast
<1>6. ASSUME NEW d \in up[c], Covers(p, d),
             NEW X \in SUBSET Sub, up[c] \subseteq X, \A x \in X : up[x] \subseteq X
      PROVE  p \in X
  <2> SUFFICES ASSUME p \notin X
               PROVE  FALSE
    OBVIOUS
  <2> DEFINE T == {x \in X \cap nodes : Covers(x, d) /\ Covers(p, x)}
  <2>1. T \in SUBSET Sub /\ d \in T
    BY <1>1, <1>4, <1>6, CoveringIsPreorder
  <2>2. PICK m \in T : \A x \in T : ~StrictlyCovers(x, m)
    BY <2>1, Maximal
  <2>3. m \in nodes /\ m # p
    BY <2>2
  <2>4. StrictlyCovers(p, m)
    BY <1>1, <2>2, <2>3 DEF Shape, NodesDistinct, EquivalentSubs, StrictlyCovers
  <2>5. PICK y \in containers[m] : Covers(p, y)
    BY <1>1, <2>3, <2>4, LinksAscend
  <2>6. y \in nodes /\ y \in Sub /\ m \in Sub /\ StrictlyCovers(y, m)
    BY <1>1, <2>3, <2>5, LinksFacts
  <2>7. d \in nodes /\ d \in Sub /\ d \in containers[c] /\ d # n
    BY <1>1, <1>2, <1>3, <1>4
  <2>8. Covers(y, d)
    BY <2>2, <2>6, <2>7, CoversTransitive DEF StrictlyCovers
  <2>9. y # n
    <3> SUFFICES ASSUME y = n
                 PROVE  FALSE
      OBVIOUS
    <3>1. StrictlyCovers(n, d)
      BY <1>1, <2>7, <2>8 DEF Shape, NodesDistinct, EquivalentSubs, StrictlyCovers
    <3> QED
      BY <1>1, <1>2, <2>7, <3>1, ContainersDirect
  <2>10. m # n
    <3> SUFFICES ASSUME m = n
                 PROVE  FALSE
      OBVIOUS
    <3>1. StrictlyCovers(n, d)
      BY <1>1, <2>2, <2>7 DEF Shape, NodesDistinct, EquivalentSubs, StrictlyCovers
    <3> QED
      BY <1>1, <1>2, <2>7, <3>1, ContainersDirect
  <2>11. y \in up[m]
    BY <1>3, <2>5, <2>6, <2>9, <2>10
  <2>12. y \in T
    BY <1>6, <2>2, <2>5, <2>6, <2>8, <2>11
  <2> QED
    BY <2>2, <2>6, <2>12
<1>7. p \in Reachable(up[c], up) <=> \E d \in up[c] : Covers(p, d)
  <2>1. p \in Reachable(up[c], up) => \E d \in up[c] : Covers(p, d)
    BY <1>5
  <2>2. ASSUME NEW d \in up[c], Covers(p, d)
        PROVE  p \in Reachable(up[c], up)
    <3>1. \A X \in SUBSET Sub : (up[c] \subseteq X /\ \A x \in X : up[x] \subseteq X) => p \in X
      BY <1>6, <2>2
    <3> QED
      BY <1>1, <3>1 DEF Reachable
  <2> QED
    BY <2>1, <2>2
<1> QED
  BY <1>4, <1>7 DEF up

\* The two questions have the same answer: a parent and a child are linked in
\* both directions or in neither.
LEMMA PairingKept ==
    ASSUME TypeOK, Shape, NEW n \in nodes, NEW p \in containers[n], NEW c \in containees[n]
    PROVE  (\E d \in containees[p] : d # n /\ Covers(d, c)) <=>
              (\E d \in containers[c] : d # n /\ Covers(p, d))
<1>1. nodes \subseteq Sub /\ p \in nodes /\ c \in nodes
  BY LinksFacts
<1>2. /\ StrictlyCovers(p, n) /\ n \in containees[p]
      /\ StrictlyCovers(n, c) /\ n \in containers[c]
  BY <1>1, LinksFacts
<1>3. ASSUME NEW d \in containees[p], d # n, Covers(d, c)
      PROVE  \E e \in containers[c] : e # n /\ Covers(p, e)
  <2>1. d \in nodes /\ StrictlyCovers(p, d)
    BY <1>1, <1>3, LinksFacts
  <2>2. d # c
    BY <1>1, <1>2, <1>3 DEF Shape, LinksDirect
  <2>3. StrictlyCovers(d, c)
    BY <1>1, <1>3, <2>1, <2>2 DEF Shape, NodesDistinct, EquivalentSubs, StrictlyCovers
  <2>4. PICK e \in containers[c] : Covers(d, e)
    BY <1>1, <2>1, <2>3, LinksAscend
  <2>5. e \in Sub /\ Covers(p, e)
    BY <1>1, <2>1, <2>4, LinksFacts, CoversTransitive DEF StrictlyCovers
  <2>6. e # n
    BY <1>1, <1>2, <1>3, <2>1, <2>4
       DEF Shape, LinksDirect, NodesDistinct, EquivalentSubs, StrictlyCovers
  <2> QED
    BY <2>5, <2>6
<1>4. ASSUME NEW d \in containers[c], d # n, Covers(p, d)
      PROVE  \E e \in containees[p] : e # n /\ Covers(e, c)
  <2>1. d \in nodes /\ StrictlyCovers(d, c)
    BY <1>1, <1>4, LinksFacts
  <2>2. d # p
    BY <1>1, <1>2, <1>4, ContainersDirect
  <2>3. StrictlyCovers(p, d)
    BY <1>1, <1>4, <2>1, <2>2 DEF Shape, NodesDistinct, EquivalentSubs, StrictlyCovers
  <2>4. PICK e \in containees[p] : Covers(e, d)
    BY <1>1, <2>1, <2>3 DEF Shape, LinksDescend
  <2>5. e \in Sub /\ e \in nodes /\ Covers(e, c)
    BY <1>1, <2>1, <2>4, LinksFacts, CoversTransitive DEF StrictlyCovers
  <2>6. e # n
    <3> SUFFICES ASSUME e = n
                 PROVE  FALSE
      OBVIOUS
    <3>1. StrictlyCovers(n, d)
      BY <1>1, <1>4, <2>1, <2>4 DEF Shape, NodesDistinct, EquivalentSubs, StrictlyCovers
    <3> QED
      BY <1>1, <1>2, <3>1, ContainersDirect
  <2> QED
    BY <2>5, <2>6
<1> QED
  BY <1>3, <1>4

\* Parent p and child c of n get a link of their own when n goes.
Relinked(n, p, c) ==
    p \in containers[n] /\ c \in containees[n] /\ ~ \E d \in containees[p] : d # n /\ Covers(d, c)

LEMMA DeleteLinks ==
    ASSUME TypeOK, Shape, NEW n \in nodes, Delete(n)
    PROVE  \A a, b \in Sub :
             /\ b \in containees'[a] <=>
                   a # n /\ b # n /\ (b \in containees[a] \/ Relinked(n, a, b))
             /\ a \in containers'[b] <=>
                   a # n /\ b # n /\ (a \in containers[b] \/ Relinked(n, a, b))
<1> DEFINE down == Without(containees, n)
           up == Without(containers, n)
<1> SUFFICES ASSUME NEW a \in Sub, NEW b \in Sub
             PROVE  /\ b \in containees'[a] <=>
                         a # n /\ b # n /\ (b \in containees[a] \/ Relinked(n, a, b))
                    /\ a \in containers'[b] <=>
                         a # n /\ b # n /\ (a \in containers[b] \/ Relinked(n, a, b))
  OBVIOUS
<1>1. n \in Sub /\ n \notin containers[n] /\ n \notin containees[n]
  BY LinksFacts DEF StrictlyCovers
<1>2. /\ down[a] = IF a = n THEN {} ELSE containees[a] \ {n}
      /\ up[b] = IF b = n THEN {} ELSE containers[b] \ {n}
  BY DEF Without
<1>3. /\ containees'[a] = down[a] \cup
            {c \in containees[n] : a \in containers[n] /\ c \notin Reachable(down[a], down)}
      /\ containers'[b] = up[b] \cup
            {p \in containers[n] : b \in containees[n] /\ p \notin Reachable(up[b], up)}
  BY DEF Delete
<1>4. ASSUME a \in containers[n], b \in containees[n]
      PROVE  /\ b \notin Reachable(down[a], down) <=> Relinked(n, a, b)
             /\ a \notin Reachable(up[b], up) <=> Relinked(n, a, b)
  BY <1>4, AncestorFound, DescendantFound, PairingKept DEF Relinked
<1> HIDE DEF down, up
<1>5. Relinked(n, a, b) => a \in containers[n] /\ b \in containees[n] /\ a # n /\ b # n
  BY <1>1 DEF Relinked
<1>6. b \in containees'[a] <=> a # n /\ b # n /\ (b \in containees[a] \/ Relinked(n, a, b))
  BY <1>1, <1>2, <1>3, <1>4, <1>5
<1>7. a \in containers'[b] <=> a # n /\ b # n /\ (a \in containers[b] \/ Relinked(n, a, b))
  BY <1>1, <1>2, <1>3, <1>4, <1>5
<1> QED
  BY <1>6, <1>7

LEMMA DeleteShape ==
    ASSUME TypeOK, Shape, NEW n \in nodes, Delete(n), TypeOK'
    PROVE  Shape'
<1>1. nodes \subseteq Sub /\ nodes' = nodes \ {n} /\ n \in Sub
  BY LinksFacts DEF Delete
<1>2. \A a, b \in Sub :
         b \in containees'[a] <=> a # n /\ b # n /\ (b \in containees[a] \/ Relinked(n, a, b))
  BY DeleteLinks
<1>3. \A a, b \in Sub :
         a \in containers'[b] <=> a # n /\ b # n /\ (a \in containers[b] \/ Relinked(n, a, b))
  BY DeleteLinks
<1>4. \A a \in Sub : containees'[a] \subseteq Sub /\ containers'[a] \subseteq Sub
  BY DEF TypeOK
<1>5. \A a, b \in Sub : Relinked(n, a, b) =>
         /\ a \in nodes /\ b \in nodes /\ a # n /\ b # n
         /\ StrictlyCovers(a, n) /\ n \in containees[a]
         /\ StrictlyCovers(n, b) /\ n \in containers[b]
         /\ StrictlyCovers(a, b)
  <2> SUFFICES ASSUME NEW a \in Sub, NEW b \in Sub, Relinked(n, a, b)
               PROVE  /\ a \in nodes /\ b \in nodes /\ a # n /\ b # n
                      /\ StrictlyCovers(a, n) /\ n \in containees[a]
                      /\ StrictlyCovers(n, b) /\ n \in containers[b]
                      /\ StrictlyCovers(a, b)
    OBVIOUS
  <2>1. /\ StrictlyCovers(a, n) /\ n \in containees[a] /\ a \in nodes
        /\ StrictlyCovers(n, b) /\ n \in containers[b] /\ b \in nodes
    BY <1>1, LinksFacts DEF Relinked
  <2>2. StrictlyCovers(a, b)
    BY <1>1, <2>1, StrictTransitive DEF StrictlyCovers
  <2> QED
    BY <2>1, <2>2 DEF StrictlyCovers
<1>6. LinksCover'
  <2> SUFFICES ASSUME NEW a \in Sub, NEW b \in Sub, b \in containees'[a]
               PROVE  a \in nodes' /\ b \in nodes' /\ StrictlyCovers(a, b)
    BY DEF LinksCover, StrictlyCovers, Covers
  <2>1. a # n /\ b # n /\ (b \in containees[a] \/ Relinked(n, a, b))
    BY <1>2
  <2> QED
    BY <1>1, <1>5, <2>1, LinksFacts
<1>7. LinksPaired'
  <2> SUFFICES ASSUME NEW a \in Sub, NEW b \in Sub
               PROVE  b \in containees'[a] <=> a \in containers'[b]
    BY DEF LinksPaired
  <2>1. b \in containees[a] <=> a \in containers[b]
    BY DEF Shape, LinksPaired
  <2> QED
    BY <1>2, <1>3, <2>1
<1>8. EndsExact'
  <2>1. roots' = {m \in nodes' : containers'[m] = {}}
    <3>1. roots' = (roots \ {x \in {n} : containers[n] = {}})
                     \cup {c \in containees[n] : containers'[c] = {}}
      BY DEF Delete
    <3>2. ASSUME NEW m \in nodes'
          PROVE  m \in roots' <=> containers'[m] = {}
      <4>1. m \in nodes /\ m # n /\ m \in Sub
        BY <1>1
      <4>2. ASSUME m \in roots
            PROVE  containers'[m] = {}
        <5>1. containers[m] = {}
          BY <4>1, <4>2, LinksFacts
        <5> QED
          BY <1>1, <1>3, <1>4, <1>5, <4>1, <5>1
      <4>3. ASSUME containers'[m] = {}
            PROVE  m \in roots \/ m \in containees[n]
        <5>1. \A a \in containers[m] : a = n
          BY <1>3, <4>1, <4>3, LinksFacts
        <5> QED
          BY <1>1, <4>1, <5>1, LinksFacts
      <4> QED
        BY <3>1, <4>1, <4>2, <4>3
    <3>3. n \notin roots'
      BY <1>1, <3>1, LinksFacts DEF StrictlyCovers
    <3>4. roots' \subseteq nodes'
      BY <1>1, <3>1, <3>3, LinksFacts
    <3> QED
      BY <3>2, <3>4
  <2>2. leaves' = {m \in nodes' : containees'[m] = {}}
    <3>1. leaves' = (leaves \ {x \in {n} : containees[n] = {}})
                      \cup {p \in containers[n] : containees'[p] = {}}
      BY DEF Delete
    <3>2. ASSUME NEW m \in nodes'
          PROVE  m \in leaves' <=> containees'[m] = {}
      <4>1. m \in nodes /\ m # n /\ m \in Sub
        BY <1>1
      <4>2. ASSUME m \in leaves
            PROVE  containees'[m] = {}
        <5>1. containees[m] = {}
          BY <4>1, <4>2, LinksFacts
        <5> QED
          BY <1>1, <1>2, <1>4, <1>5, <4>1, <5>1
      <4>3. ASSUME containees'[m] = {}
            PROVE  m \in leaves \/ m \in containers[n]
        <5>1. \A a \in containees[m] : a = n
          BY <1>2, <4>1, <4>3, LinksFacts
        <5> QED
          BY <1>1, <4>1, <5>1, LinksFacts
      <4> QED
        BY <3>1, <4>1, <4>2, <4>3
    <3>3. n \notin leaves'
      BY <1>1, <3>1, LinksFacts DEF StrictlyCovers
    <3>4. leaves' \subseteq nodes'
      BY <1>1, <3>1, <3>3, LinksFacts
    <3> QED
      BY <3>2, <3>4
  <2> QED
    BY <2>1, <2>2 DEF EndsExact
<1>9. ASSUME NEW a \in nodes', NEW b \in nodes', NEW c \in containees[a], c # n
      PROVE  c \in containees'[a]
  BY <1>1, <1>2, <1>9, LinksFacts
<1>10. LinksDescend'
  <2> SUFFICES ASSUME NEW a \in nodes', NEW b \in nodes', StrictlyCovers(a, b)
               PROVE  \E c \in containees'[a] : Covers(c, b)
    BY DEF LinksDescend, StrictlyCovers, Covers
  <2>1. a \in Sub /\ a \in nodes /\ a # n /\ b \in Sub /\ b \in nodes /\ b # n
    BY <1>1
  <2>2. PICK c \in containees[a] : Covers(c, b)
    BY <2>1 DEF Shape, LinksDescend
  <2>3. CASE c # n
    BY <1>9, <2>2, <2>3
  <2>4. CASE c = n
    <3>1. StrictlyCovers(n, b)
      BY <2>1, <2>2, <2>4 DEF Shape, NodesDistinct, EquivalentSubs, StrictlyCovers
    <3>2. PICK e \in containees[n] : Covers(e, b)
      BY <2>1, <3>1 DEF Shape, LinksDescend
    <3>3. e \in Sub /\ e # n /\ a \in containers[n]
      BY <1>1, <2>1, <2>2, <2>4, <3>2, LinksFacts DEF StrictlyCovers
    <3>4. CASE Relinked(n, a, e)
      BY <1>2, <2>1, <3>2, <3>3, <3>4
    <3>5. CASE ~Relinked(n, a, e)
      <4>1. PICK d \in containees[a] : d # n /\ Covers(d, e)
        BY <3>2, <3>3, <3>5 DEF Relinked
      <4>2. Covers(d, b)
        BY <1>1, <2>1, <3>2, <3>3, <4>1, LinksFacts, CoversTransitive
      <4> QED
        BY <1>9, <4>1, <4>2
    <3> QED
      BY <3>4, <3>5
  <2> QED
    BY <2>3, <2>4
<1>11. LinksDirect'
  <2> SUFFICES ASSUME NEW a \in nodes', NEW x \in containees'[a], NEW y \in containees'[a],
                      StrictlyCovers(x, y)
               PROVE  FALSE
    BY DEF LinksDirect, StrictlyCovers, Covers
  <2>1. a \in Sub /\ a \in nodes /\ x \in Sub /\ y \in Sub
    BY <1>1, <1>4
  <2>2. /\ x # n /\ (x \in containees[a] \/ Relinked(n, a, x))
        /\ y # n /\ (y \in containees[a] \/ Relinked(n, a, y))
    BY <1>2, <2>1
  <2>3. CASE x \in containees[a] /\ y \in containees[a]
    BY <2>1, <2>3 DEF Shape, LinksDirect
  <2>4. CASE x \in containees[a] /\ Relinked(n, a, y)
    BY <2>2, <2>4 DEF Relinked, StrictlyCovers
  <2>5. CASE Relinked(n, a, x) /\ y \in containees[a]
    <3>1. StrictlyCovers(n, x) /\ n \in containees[a]
      BY <1>5, <2>1, <2>5
    <3>2. StrictlyCovers(n, y)
      BY <1>1, <2>1, <3>1, StrictTransitive DEF StrictlyCovers
    <3> QED
      BY <2>1, <2>5, <3>1, <3>2 DEF Shape, LinksDirect
  <2>6. CASE Relinked(n, a, x) /\ Relinked(n, a, y)
    BY <2>6 DEF Relinked, Shape, LinksDirect
  <2> QED
    BY <2>2, <2>3, <2>4, <2>5, <2>6
<1>12. NodesDistinct'
  BY <1>1 DEF Shape, NodesDistinct, EquivalentSubs, Covers
<1> QED
  BY <1>6, <1>7, <1>8, <1>10, <1>11, <1>12 DEF Shape

-----------------------------------------------------------------------------
(* The theorems.                                                           *)

ShapeInv == TypeInv /\ Shape

LEMMA ShapeInit == Init => Shape
BY DEF Init, Shape, LinksCover, LinksPaired, EndsExact, LinksDescend, LinksDirect, NodesDistinct

LEMMA ShapeUnchanged ==
    ASSUME Shape, UNCHANGED structure
    PROVE  Shape'
BY DEF structure, Shape, LinksCover, LinksPaired, EndsExact, LinksDescend, LinksDirect,
       NodesDistinct, StrictlyCovers, EquivalentSubs, Covers

LEMMA RemoveNodeShape ==
    ASSUME TypeOK, Shape, NEW s \in Sub, RemoveNode(s), TypeOK'
    PROVE  Shape'
<1>1. PICK n \in SearchResults(s) \ {NoNode} : Delete(n)
  BY DEF RemoveNode
<1>2. n \in nodes
  BY <1>1, SearchVisitsCover DEF SearchResults
<1> QED
  BY <1>1, <1>2, DeleteShape

LEMMA ShapeStep == ShapeInv /\ [Next]_vars => ShapeInv'
<1> SUFFICES ASSUME ShapeInv, [Next]_vars
             PROVE  ShapeInv'
  OBVIOUS
<1>1. TypeInv' /\ TypeOK /\ TypeOK' /\ Shape
  BY TypeStep DEF ShapeInv, TypeInv
<1>2. CASE UNCHANGED vars
  BY <1>1, <1>2, ShapeUnchanged DEF ShapeInv, vars
<1>3. ASSUME NEW s \in Sub, AddDuplicate(s) \/ RemoveDuplicate(s)
      PROVE  Shape'
  BY <1>1, <1>3, ShapeUnchanged DEF AddDuplicate, RemoveDuplicate
<1>4. ASSUME NEW s \in Sub, AddNode(s)
      PROVE  Shape'
  BY <1>1, <1>4, AddNodeShape
<1>5. ASSUME NEW s \in Sub, RemoveNode(s)
      PROVE  Shape'
  BY <1>1, <1>5, RemoveNodeShape
<1>6. ASSUME NEW e \in Event, Match(e)
      PROVE  Shape'
  BY <1>1, <1>6, ShapeUnchanged DEF Match
<1> QED
  BY <1>1, <1>2, <1>3, <1>4, <1>5, <1>6 DEF Next, RouterNext, ShapeInv

\* The shape is an invariant of the graph, through add and remove.
THEOREM ShapeAlways == Spec => []ShapeInv
<1>1. Init => ShapeInv
  BY TypeInit, ShapeInit DEF ShapeInv
<1> QED
  BY <1>1, ShapeStep, PTL DEF Spec

\* The links of a well-shaped graph are those of the Hasse diagram.
LEMMA ShapeIsHasse ==
    ASSUME TypeOK, Shape
    PROVE  HasseDiagram
<1>1. nodes \subseteq Sub
  BY LinksFacts
<1>2. ASSUME NEW a \in nodes, NEW b \in nodes
      PROVE  b \in containees[a] <=> DirectlyCovers(a, b)
  <2>1. ASSUME b \in containees[a], NEW c \in nodes, StrictlyCovers(a, c), StrictlyCovers(c, b)
        PROVE  FALSE
    <3>1. PICK d \in containees[a] : Covers(d, c)
      BY <2>1 DEF Shape, LinksDescend
    <3>2. StrictlyCovers(d, b)
      BY <1>1, <2>1, <3>1, LinksFacts, StrictTransitive
    <3> QED
      BY <2>1, <3>1, <3>2 DEF Shape, LinksDirect
  <2>2. ASSUME DirectlyCovers(a, b)
        PROVE  b \in containees[a]
    <3>1. PICK c \in containees[a] : Covers(c, b)
      BY <2>2 DEF Shape, LinksDescend, DirectlyCovers
    <3>2. c \in nodes /\ StrictlyCovers(a, c)
      BY <1>1, <3>1, LinksFacts
    <3>3. c = b
      BY <2>2, <3>1, <3>2
         DEF DirectlyCovers, Shape, NodesDistinct, EquivalentSubs, StrictlyCovers
    <3> QED
      BY <3>1, <3>3
  <2> QED
    BY <1>1, <2>1, <2>2, LinksFacts DEF DirectlyCovers
<1>3. \A a \in nodes : containees[a] = {b \in nodes : DirectlyCovers(a, b)}
  BY <1>1, <1>2, LinksFacts
<1>4. \A a \in nodes : containers[a] = {b \in nodes : DirectlyCovers(b, a)}
  <2> SUFFICES ASSUME NEW a \in nodes, NEW b \in Sub
               PROVE  b \in containers[a] <=> b \in nodes /\ DirectlyCovers(b, a)
    BY <1>1, LinksFacts
  <2> QED
    BY <1>1, <1>2, LinksFacts
<1>5. ASSUME NEW n \in nodes
      PROVE  n \in roots <=> \A m \in nodes : ~StrictlyCovers(m, n)
  BY <1>1, LinksFacts, LinksAscend
<1>6. ASSUME NEW n \in nodes
      PROVE  n \in leaves <=> \A m \in nodes : ~StrictlyCovers(n, m)
  BY <1>1, LinksFacts DEF Shape, LinksDescend
<1> QED
  BY <1>3, <1>4, <1>5, <1>6, LinksFacts DEF HasseDiagram

\* Whatever is added and removed, in whatever order, the links of the graph are
\* the direct coverings, the roots the subscriptions nothing covers, and the
\* leaves those that cover nothing.
THEOREM HasseAlways == Spec => []HasseDiagram
<1>1. ShapeInv => HasseDiagram
  BY ShapeIsHasse DEF ShapeInv, TypeInv
<1> QED
  BY <1>1, ShapeAlways, PTL

\* search finds the node of every equivalent subscription and nothing else,
\* whichever covering child it walks into.
THEOREM SearchAlwaysExact == Spec => []SearchExact
<1>1. ShapeInv => SearchExact
  BY SearchCorrect DEF ShapeInv, TypeInv
<1> QED
  BY <1>1, ShapeAlways, PTL

-----------------------------------------------------------------------------
(* Counters.                                                               *)

\* Every live subscription points to the node of its class.
AttrExact == \A s \in Live : attr[s] \in nodes /\ EquivalentSubs(s, attr[s])

\* The live subscriptions that node n stands for.
Class(n) == {s \in Live : attr[s] = n}

CountInv == ShapeInv /\ AttrExact /\ CountsExact

LEMMA ClassesFinite ==
    IsFiniteSet(Live) /\ \A n : IsFiniteSet(Class(n))
<1>1. IsFiniteSet(Sub)
  BY GraphAssumption
<1> QED
  BY <1>1, FS_Subset DEF Live, Class

\* A search for a live subscription can only end in the node it points to.
LEMMA SearchLive ==
    ASSUME TypeOK, Shape, AttrExact, NEW s \in Live
    PROVE  SearchResults(s) = {attr[s]}
<1>1. s \in Sub /\ attr[s] \in nodes /\ EquivalentSubs(attr[s], s)
  BY DEF AttrExact, Live, EquivalentSubs
<1> QED
  BY <1>1, SearchHit

LEMMA CountInit == Init => AttrExact /\ CountsExact
<1> SUFFICES ASSUME Init
             PROVE  AttrExact /\ CountsExact
  OBVIOUS
<1>1. Live = {}
  BY DEF Init, Live
<1> QED
  BY <1>1, FS_EmptySet DEF Init, AttrExact, CountsExact

LEMMA CountAddDuplicate ==
    ASSUME TypeOK, Shape, AttrExact, CountsExact, NEW s \in Sub, AddDuplicate(s)
    PROVE  AttrExact' /\ CountsExact'
<1>1. PICK n \in SearchResults(s) \ {NoNode} :
         attr' = [attr EXCEPT ![s] = n] /\ count' = [count EXCEPT ![n] = @ + 1]
  BY DEF AddDuplicate
<1>2. n \in nodes /\ n \in Sub /\ EquivalentSubs(s, n) /\ n # NoNode
  <2>1. n \in SearchVisits(s) /\ Covers(s, n)
    BY <1>1 DEF SearchResults
  <2> QED
    BY <1>1, <2>1, SearchVisitsCover, LinksFacts DEF EquivalentSubs
<1>3. s \notin Live /\ nodes' = nodes /\ size' = size + 1
  BY DEF AddDuplicate, Live, structure
<1>4. attr'[s] = n /\ \A t \in Sub \ {s} : attr'[t] = attr[t]
  BY <1>1 DEF TypeOK
<1>5. Live' = Live \cup {s}
  BY <1>2, <1>4 DEF Live
<1>6. AttrExact'
  BY <1>2, <1>3, <1>4, <1>5 DEF AttrExact, EquivalentSubs, Covers, Live
<1>7. size' = Cardinality(Live')
  BY <1>3, <1>5, ClassesFinite, FS_AddElement DEF CountsExact
<1>8. ASSUME NEW m \in nodes
      PROVE  count'[m] = Cardinality(Class(m)')
  <2>1. m \in Sub /\ count[m] = Cardinality(Class(m))
    BY <1>8, LinksFacts DEF CountsExact, Class
  <2>2. CASE m = n
    <3>1. Class(m)' = Class(m) \cup {s} /\ s \notin Class(m)
      BY <1>3, <1>4, <1>5, <2>2 DEF Class, Live
    <3>2. count'[m] = count[m] + 1
      BY <1>1, <2>1, <2>2 DEF TypeOK
    <3> QED
      BY <2>1, <3>1, <3>2, ClassesFinite, FS_AddElement
  <2>3. CASE m # n
    <3>1. Class(m)' = Class(m)
      BY <1>3, <1>4, <1>5, <2>3 DEF Class, Live
    <3>2. count'[m] = count[m]
      BY <1>1, <2>1, <2>3 DEF TypeOK
    <3> QED
      BY <2>1, <3>1, <3>2
  <2> QED
    BY <2>2, <2>3
<1> QED
  BY <1>3, <1>6, <1>7, <1>8 DEF CountsExact, Class

LEMMA CountAddNode ==
    ASSUME TypeOK, Shape, AttrExact, CountsExact, NEW s \in Sub, AddNode(s)
    PROVE  AttrExact' /\ CountsExact'
<1>1. s \notin nodes /\ nodes' = nodes \cup {s}
  BY AddNodeFresh DEF AddNode, Insert
<1>2. s \notin Live /\ size' = size + 1
  BY DEF AddNode, Live
<1>3. attr'[s] = s /\ \A t \in Sub \ {s} : attr'[t] = attr[t]
  BY DEF AddNode, TypeOK
<1>4. Live' = Live \cup {s}
  BY <1>3, GraphAssumption DEF Live
<1>5. AttrExact'
  <2> SUFFICES ASSUME NEW t \in Live'
               PROVE  attr'[t] \in nodes' /\ EquivalentSubs(t, attr'[t])
    BY DEF AttrExact, EquivalentSubs, Covers
  <2>1. CASE t = s
    BY <1>1, <1>3, <2>1, CoveringIsPreorder DEF EquivalentSubs
  <2>2. CASE t # s
    BY <1>1, <1>3, <1>4, <2>2 DEF AttrExact, Live
  <2> QED
    BY <2>1, <2>2
<1>6. size' = Cardinality(Live')
  BY <1>2, <1>4, ClassesFinite, FS_AddElement DEF CountsExact
<1>7. ASSUME NEW m \in nodes'
      PROVE  count'[m] = Cardinality(Class(m)')
  <2>1. CASE m = s
    <3>1. Class(m)' = {s}
      BY <1>1, <1>2, <1>3, <1>4, <2>1 DEF Class, Live, AttrExact
    <3>2. count'[m] = 1
      BY <2>1 DEF AddNode, TypeOK
    <3> QED
      BY <3>1, <3>2, FS_Singleton
  <2>2. CASE m # s
    <3>1. m \in nodes /\ m \in Sub /\ count[m] = Cardinality(Class(m))
      BY <1>1, <1>7, <2>2, LinksFacts DEF CountsExact, Class
    <3>2. Class(m)' = Class(m)
      BY <1>2, <1>3, <1>4, <2>2 DEF Class, Live
    <3>3. count'[m] = count[m]
      BY <2>2, <3>1 DEF AddNode, TypeOK
    <3> QED
      BY <3>1, <3>2, <3>3
  <2> QED
    BY <2>1, <2>2
<1> QED
  BY <1>5, <1>6, <1>7 DEF CountsExact, Class

\* What both forms of remove do to the live subscriptions.
LEMMA CountForget ==
    ASSUME TypeOK, AttrExact, CountsExact, NEW s \in Live,
           attr' = [attr EXCEPT ![s] = NoNode], size' = size - 1
    PROVE  /\ Live' = Live \ {s} /\ size' = Cardinality(Live')
           /\ \A m \in nodes :
                 /\ m # attr[s] => Class(m)' = Class(m)
                 /\ m = attr[s] => Class(m)' = Class(m) \ {s} /\ s \in Class(m)
                                   /\ Cardinality(Class(m)') = count[m] - 1
           /\ \A t \in Live' : t \in Live /\ attr'[t] = attr[t]
<1>1. s \in Sub /\ attr[s] \in nodes
  BY DEF Live, AttrExact
<1>2. attr'[s] = NoNode /\ \A t \in Sub \ {s} : attr'[t] = attr[t]
  BY <1>1 DEF TypeOK
<1>3. Live' = Live \ {s}
  BY <1>2 DEF Live
<1>4. size' = Cardinality(Live')
  BY <1>3, ClassesFinite, FS_RemoveElement DEF CountsExact
<1>5. ASSUME NEW m \in nodes
      PROVE  /\ m # attr[s] => Class(m)' = Class(m)
             /\ m = attr[s] => Class(m)' = Class(m) \ {s} /\ s \in Class(m)
                               /\ Cardinality(Class(m)') = count[m] - 1
  <2>1. CASE m # attr[s]
    BY <1>2, <1>3, <2>1 DEF Class, Live
  <2>2. CASE m = attr[s]
    <3>1. Class(m)' = Class(m) \ {s} /\ s \in Class(m)
      BY <1>2, <1>3, <2>2 DEF Class, Live
    <3>2. count[m] = Cardinality(Class(m))
      BY <1>5 DEF CountsExact, Class
    <3> QED
      BY <2>2, <3>1, <3>2, ClassesFinite, FS_RemoveElement
  <2> QED
    BY <2>1, <2>2
<1>6. \A t \in Live' : t \in Live /\ attr'[t] = attr[t]
  BY <1>2, <1>3 DEF Live
<1> QED
  BY <1>3, <1>4, <1>5, <1>6

LEMMA CountRemoveDuplicate ==
    ASSUME TypeOK, Shape, AttrExact, CountsExact, NEW s \in Sub, RemoveDuplicate(s)
    PROVE  AttrExact' /\ CountsExact'
<1>1. s \in Live
  BY DEF RemoveDuplicate, Live
<1>2. PICK n \in SearchResults(s) \ {NoNode} : count' = [count EXCEPT ![n] = @ - 1]
  BY DEF RemoveDuplicate
<1>3. n = attr[s]
  BY <1>1, <1>2, SearchLive
<1>4. nodes' = nodes /\ attr' = [attr EXCEPT ![s] = NoNode] /\ size' = size - 1
  BY DEF RemoveDuplicate, structure
<1>5. AttrExact'
  <2> SUFFICES ASSUME NEW t \in Live'
               PROVE  attr'[t] \in nodes' /\ EquivalentSubs(t, attr'[t])
    BY DEF AttrExact, EquivalentSubs, Covers
  <2>1. t \in Live /\ attr'[t] = attr[t]
    BY <1>1, <1>4, CountForget
  <2> QED
    BY <1>4, <2>1 DEF AttrExact
<1>6. ASSUME NEW m \in nodes
      PROVE  count'[m] = Cardinality(Class(m)')
  <2>1. m \in Sub /\ count[m] = Cardinality(Class(m))
    BY <1>6, LinksFacts DEF CountsExact, Class
  <2>2. CASE m = attr[s]
    <3>1. count'[m] = count[m] - 1
      BY <1>2, <1>3, <2>1, <2>2 DEF TypeOK
    <3> QED
      BY <1>1, <1>4, <1>6, <2>2, <3>1, CountForget
  <2>3. CASE m # attr[s]
    <3>1. count'[m] = count[m]
      BY <1>2, <1>3, <2>1, <2>3 DEF TypeOK
    <3> QED
      BY <1>1, <1>4, <1>6, <2>1, <2>3, <3>1, CountForget
  <2> QED
    BY <2>2, <2>3
<1>7. size' = Cardinality(Live')
  BY <1>1, <1>4, CountForget
<1> QED
  BY <1>4, <1>5, <1>6, <1>7 DEF CountsExact, Class

LEMMA CountRemoveNode ==
    ASSUME TypeOK, Shape, AttrExact, CountsExact, NEW s \in Sub, RemoveNode(s)
    PROVE  AttrExact' /\ CountsExact'
<1>1. s \in Live
  BY DEF RemoveNode, Live
<1>2. PICK n \in SearchResults(s) \ {NoNode} :
         count[n] <= 1 /\ Delete(n) /\ count' = [count EXCEPT ![n] = 0]
  BY DEF RemoveNode
<1>3. n = attr[s] /\ n \in nodes /\ n \in Sub
  BY <1>1, <1>2, SearchLive, LinksFacts DEF AttrExact
<1>4. nodes' = nodes \ {n} /\ attr' = [attr EXCEPT ![s] = NoNode] /\ size' = size - 1
  BY <1>2 DEF RemoveNode, Delete
<1>5. Class(n)' = {}
  <2>1. Cardinality(Class(n)') = count[n] - 1
    BY <1>1, <1>3, <1>4, CountForget
  <2>2. Class(n)' = Class(n) \ {s} /\ s \in Class(n)
    BY <1>1, <1>3, <1>4, CountForget
  <2>3. IsFiniteSet(Class(n)) /\ Cardinality(Class(n)) = count[n]
    BY <1>3, ClassesFinite DEF CountsExact, Class
  <2>4. IsFiniteSet(Class(n)') /\ Cardinality(Class(n)') \in Nat
    BY <2>2, <2>3, FS_RemoveElement, FS_CardinalityType
  <2>5. count[n] \in Int
    BY <1>3 DEF TypeOK
  <2>6. Cardinality(Class(n)') = 0
    BY <1>2, <2>1, <2>4, <2>5
  <2> QED
    BY <2>4, <2>6, FS_EmptySet
<1>6. AttrExact'
  <2> SUFFICES ASSUME NEW t \in Live'
               PROVE  attr'[t] \in nodes' /\ EquivalentSubs(t, attr'[t])
    BY DEF AttrExact, EquivalentSubs, Covers
  <2>1. t \in Live /\ attr'[t] = attr[t]
    BY <1>1, <1>4, CountForget
  <2>2. attr'[t] # n
    BY <1>5 DEF Class
  <2> QED
    BY <1>4, <2>1, <2>2 DEF AttrExact
<1>7. ASSUME NEW m \in nodes'
      PROVE  count'[m] = Cardinality(Class(m)')
  <2>1. m \in nodes /\ m # attr[s] /\ m \in Sub /\ count[m] = Cardinality(Class(m))
    <3>1. m \in nodes /\ m # attr[s]
      BY <1>3, <1>4, <1>7
    <3>2. m \in Sub
      BY <3>1, LinksFacts
    <3> QED
      BY <3>1, <3>2 DEF CountsExact, Class
  <2>2. count'[m] = count[m]
    BY <1>2, <1>3, <2>1 DEF TypeOK
  <2> QED
    BY <1>1, <1>4, <2>1, <2>2, CountForget
<1>8. size' = Cardinality(Live')
  BY <1>1, <1>4, CountForget
<1> QED
  BY <1>6, <1>7, <1>8 DEF CountsExact, Class

LEMMA CountStep == CountInv /\ [Next]_vars => CountInv'
<1> SUFFICES ASSUME CountInv, [Next]_vars
             PROVE  CountInv'
  OBVIOUS
<1>1. ShapeInv' /\ TypeOK /\ Shape /\ AttrExact /\ CountsExact
  BY ShapeStep DEF CountInv, ShapeInv, TypeInv
<1>2. ASSUME UNCHANGED <<nodes, attr, count, size>>
      PROVE  AttrExact' /\ CountsExact'
  BY <1>1, <1>2 DEF AttrExact, CountsExact, Live, EquivalentSubs, Covers
<1>3. ASSUME UNCHANGED vars
      PROVE  AttrExact' /\ CountsExact'
  BY <1>2, <1>3 DEF vars, structure
<1>4. ASSUME NEW e \in Event, Match(e)
      PROVE  AttrExact' /\ CountsExact'
  BY <1>2, <1>4 DEF Match, structure
<1> QED
  BY <1>1, <1>3, <1>4, CountAddDuplicate, CountAddNode, CountRemoveDuplicate, CountRemoveNode
     DEF CountInv, Next, RouterNext

LEMMA CountAlways == Spec => []CountInv
<1>1. Init => CountInv
  BY TypeInit, ShapeInit, CountInit DEF CountInv, ShapeInv
<1> QED
  BY <1>1, CountStep, PTL DEF Spec

\* size_ and count_ are the numbers of stored subscriptions, in all and per
\* node, through any sequence of add and remove.
THEOREM CountsAlwaysExact == Spec => []CountsExact
<1>1. CountInv => CountsExact
  BY DEF CountInv
<1> QED
  BY <1>1, CountAlways, PTL

\* The three counts of the graph agree with what it stores and with each other,
\* through any sequence of add and remove.
THEOREM CountersAlwaysExact == Spec => []CountersExact
BY CountsAlwaysExact, OverridenAlwaysInRange, PTL DEF CountersExact

\* Equivalent subscriptions share one node, and each points to it.
THEOREM OneNodePerClassAlways == Spec => []OneNodePerClass
<1>1. CountInv => OneNodePerClass
  BY DEF CountInv, AttrExact, OneNodePerClass, ShapeInv, Shape, NodesDistinct
<1> QED
  BY <1>1, CountAlways, PTL

-----------------------------------------------------------------------------
(* Answers.                                                                *)

\* match reaches every node that matches: a node that covers a matching node
\* matches too, so no test on the way down from a root fails.
LEMMA MatchReaches ==
    ASSUME TypeOK, Shape, NEW e \in Event
    PROVE  MatchingNodes(e) = {n \in nodes : <<n, e>> \in Matching}
<1> DEFINE next == [n \in Sub |-> IF <<n, e>> \in Matching THEN containees[n] ELSE {}]
           K == {n \in nodes : <<n, e>> \in Matching}
<1>1. nodes \subseteq Sub /\ roots \subseteq nodes
  BY LinksFacts
<1>2. Reachable(roots, next) \subseteq nodes
  <2>1. \A x \in nodes : next[x] \subseteq nodes
    BY <1>1, LinksFacts
  <2> QED
    BY <1>1, <2>1, ReachLeast
<1>3. ASSUME NEW X \in SUBSET Sub, roots \subseteq X, \A x \in X : next[x] \subseteq X
      PROVE  K \subseteq X
  <2> SUFFICES ASSUME K \ X # {}
               PROVE  FALSE
    OBVIOUS
  <2>1. PICK m \in K \ X : \A x \in K \ X : ~StrictlyCovers(x, m)
    <3>1. K \ X \in SUBSET Sub
      BY <1>1
    <3> QED
      BY <3>1, Maximal
  <2>2. m \in nodes /\ m \in Sub /\ m \notin roots
    BY <1>1, <1>3
  <2>3. PICK p \in containers[m] : TRUE
    BY <2>2, LinksFacts
  <2>4. p \in nodes /\ p \in Sub /\ StrictlyCovers(p, m) /\ m \in containees[p]
    BY <2>2, <2>3, LinksFacts
  <2>5. <<p, e>> \in Matching
    BY <2>1, <2>2, <2>4, CoveringIsSound DEF StrictlyCovers
  <2>6. p \in X
    BY <2>1, <2>4, <2>5
  <2>7. next[p] = containees[p]
    BY <2>4, <2>5
  <2> QED
    BY <1>3, <2>1, <2>4, <2>6, <2>7
<1>4. K \subseteq Reachable(roots, next)
  BY <1>1, <1>3 DEF Reachable
<1> QED
  BY <1>2, <1>4 DEF MatchingNodes, Tested

\* With the entries of every node right, a publication is answered with the
\* live subscriptions that match it.
LEMMA MatchAnswers ==
    ASSUME TypeOK, Shape, EntriesExact, NEW e \in Event, Match(e)
    PROVE  reply'.event = {e} /\ reply'.subs = {s \in Live : <<s, e>> \in Matching}
<1>1. reply'.event = {e} /\ reply'.subs = UNION {Entries(n) : n \in MatchingNodes(e)}
  BY DEF Match
<1>2. nodes \subseteq Sub
  BY LinksFacts
<1>3. ASSUME NEW n \in nodes
      PROVE  Entries(n) = {s \in Sub : attr[s] = n}
  <2>1. n \in Sub /\ overriden[n] \in Seq(Sub) /\ count[n] - 1 = Len(overriden[n])
    BY <1>2, <1>3 DEF TypeOK, EntriesExact
  <2>2. \A i \in 1 .. Len(overriden[n]) : overriden[n][i] \in Sub
    BY <2>1
  <2>3. Entries(n) = {n} \cup {overriden[n][i] : i \in 1 .. Len(overriden[n])}
    BY <2>1 DEF Entries
  <2> QED
    BY <1>3, <2>1, <2>2, <2>3 DEF EntriesExact
<1>4. ASSUME NEW s \in Live
      PROVE  /\ s \in Sub /\ attr[s] \in nodes
             /\ <<s, e>> \in Matching <=> <<attr[s], e>> \in Matching
  BY <1>2, <1>4, CoveringIsSound DEF EntriesExact, EquivalentSubs, Live
<1>5. \A s \in Sub : attr[s] \in nodes => s \in Live
  BY <1>2, GraphAssumption DEF Live
<1>6. reply'.subs = {s \in Live : <<s, e>> \in Matching}
  <2>1. ASSUME NEW s \in reply'.subs
        PROVE  s \in Live /\ <<s, e>> \in Matching
    <3>1. PICK n \in nodes : <<n, e>> \in Matching /\ s \in Entries(n)
      BY <1>1, <2>1, MatchReaches
    <3>2. s \in Sub /\ attr[s] = n
      BY <1>3, <3>1
    <3> QED
      BY <1>4, <1>5, <3>1, <3>2
  <2>2. ASSUME NEW s \in Live, <<s, e>> \in Matching
        PROVE  s \in reply'.subs
    <3>1. attr[s] \in MatchingNodes(e) /\ s \in Entries(attr[s])
      BY <1>3, <1>4, <2>2, MatchReaches
    <3> QED
      BY <1>1, <3>1
  <2> QED
    BY <2>1, <2>2
<1> QED
  BY <1>1, <1>6

RouterInv == ShapeInv /\ EntriesExact /\ MatchExact

LEMMA EntriesInit == Init => EntriesExact /\ MatchExact
<1> SUFFICES ASSUME Init
             PROVE  EntriesExact /\ MatchExact
  OBVIOUS
<1>1. Live = {} /\ nodes = {}
  BY DEF Init, Live
<1> QED
  BY <1>1 DEF Init, EntriesExact, MatchExact, Expected, NoMatches

\* The entries of a vector after push_back: the old ones and the new one.
LEMMA EntriesOfAppend ==
    ASSUME NEW S, NEW q \in Seq(S), NEW s \in S, NEW t
    PROVE  (\E i \in 1 .. Len(Append(q, s)) : Append(q, s)[i] = t) <=>
              t = s \/ \E i \in 1 .. Len(q) : q[i] = t
<1>1. /\ Len(Append(q, s)) = Len(q) + 1 /\ Len(q) \in Nat
      /\ Append(q, s)[Len(q) + 1] = s
      /\ \A i \in 1 .. Len(q) : Append(q, s)[i] = q[i]
  OBVIOUS
<1>2. ASSUME NEW i \in 1 .. Len(Append(q, s)), Append(q, s)[i] = t
      PROVE  t = s \/ \E j \in 1 .. Len(q) : q[j] = t
  <2>1. i \in 1 .. Len(q) \/ i = Len(q) + 1
    BY <1>1
  <2> QED
    BY <1>1, <1>2, <2>1, Zenon
<1>3. ASSUME t = s
      PROVE  \E i \in 1 .. Len(Append(q, s)) : Append(q, s)[i] = t
  <2>1. Len(q) + 1 \in 1 .. Len(Append(q, s))
    BY <1>1
  <2> QED
    BY <1>1, <1>3, <2>1, Zenon
<1>4. ASSUME NEW i \in 1 .. Len(q), q[i] = t
      PROVE  \E j \in 1 .. Len(Append(q, s)) : Append(q, s)[j] = t
  <2>1. i \in 1 .. Len(Append(q, s))
    BY <1>1
  <2> QED
    BY <1>1, <1>4, <2>1, Zenon
<1> QED
  BY <1>2, <1>3, <1>4, Zenon

LEMMA EntriesAddDuplicate ==
    ASSUME TypeOK, Shape, EntriesExact, NEW s \in Sub, AddDuplicate(s)
    PROVE  EntriesExact'
<1>1. PICK n \in SearchResults(s) \ {NoNode} :
         /\ attr' = [attr EXCEPT ![s] = n]
         /\ overriden' = [overriden EXCEPT ![n] = Append(@, s)]
         /\ count' = [count EXCEPT ![n] = @ + 1]
  BY DEF AddDuplicate
<1>2. n \in nodes /\ n \in Sub /\ EquivalentSubs(s, n) /\ n # NoNode
  <2>1. n \in SearchVisits(s) /\ Covers(s, n)
    BY <1>1 DEF SearchResults
  <2> QED
    BY <1>1, <2>1, SearchVisitsCover, LinksFacts DEF EquivalentSubs
<1>3. attr[s] = NoNode /\ nodes' = nodes /\ nodes \subseteq Sub
  BY LinksFacts DEF AddDuplicate, structure
<1>4. attr'[s] = n /\ \A t \in Sub \ {s} : attr'[t] = attr[t]
  BY <1>1 DEF TypeOK
<1>5. \A m \in nodes : attr[m] = m /\ m # s /\ m # NoNode
  BY <1>3, GraphAssumption DEF EntriesExact
<1>6. Live' = Live \cup {s}
  BY <1>2, <1>4 DEF Live
<1>7. \A t \in Live' : attr'[t] \in nodes' /\ EquivalentSubs(t, attr'[t])
  BY <1>2, <1>3, <1>4, <1>6 DEF EntriesExact, Live
<1>8. ASSUME NEW m \in nodes
      PROVE  /\ count'[m] = Len(overriden'[m]) + 1 /\ attr'[m] = m
             /\ \A t \in Sub : attr'[t] = m <=>
                   t = m \/ \E i \in 1 .. Len(overriden'[m]) : overriden'[m][i] = t
  <2>1. /\ m \in Sub /\ overriden[m] \in Seq(Sub) /\ count[m] = Len(overriden[m]) + 1
        /\ attr'[m] = m
    BY <1>3, <1>4, <1>5 DEF TypeOK, EntriesExact
  <2>2. \A t \in Sub : attr[t] = m <=>
           t = m \/ \E i \in 1 .. Len(overriden[m]) : overriden[m][i] = t
    BY DEF EntriesExact
  <2>3. CASE m # n
    <3>1. overriden'[m] = overriden[m] /\ count'[m] = count[m]
      BY <1>1, <2>1, <2>3 DEF TypeOK
    <3>2. \A t \in Sub : attr'[t] = m <=> attr[t] = m
      BY <1>3, <1>4, <1>5, <2>3
    <3> QED
      BY <2>1, <2>2, <3>1, <3>2
  <2>4. CASE m = n
    <3>1. overriden'[m] = Append(overriden[m], s) /\ count'[m] = count[m] + 1
      BY <1>1, <2>1, <2>4 DEF TypeOK
    <3>2. Len(overriden'[m]) = Len(overriden[m]) + 1 /\ Len(overriden[m]) \in Nat
      BY <2>1, <3>1
    <3>3. \A t \in Sub : attr'[t] = m <=> t = s \/ attr[t] = m
      BY <1>4, <2>4
    <3>4. ASSUME NEW t \in Sub
          PROVE  (\E i \in 1 .. Len(overriden'[m]) : overriden'[m][i] = t) <=>
                    t = s \/ \E i \in 1 .. Len(overriden[m]) : overriden[m][i] = t
      BY <2>1, <3>1, EntriesOfAppend
    <3>5. count'[m] = Len(overriden'[m]) + 1
      BY <2>1, <3>1, <3>2
    <3>6. ASSUME NEW t \in Sub
          PROVE  attr'[t] = m <=>
                    t = m \/ \E i \in 1 .. Len(overriden'[m]) : overriden'[m][i] = t
      <4>1. attr'[t] = m <=> t = s \/ attr[t] = m
        BY <3>3
      <4>2. attr[t] = m <=>
               t = m \/ \E i \in 1 .. Len(overriden[m]) : overriden[m][i] = t
        BY <2>2
      <4> QED
        BY <4>1, <4>2, <3>4, Zenon
    <3> QED
      BY <2>1, <3>5, <3>6, Zenon
  <2> QED
    BY <2>3, <2>4
<1> QED
  BY <1>3, <1>7, <1>8 DEF EntriesExact, EquivalentSubs, Covers

LEMMA EntriesAddNode ==
    ASSUME TypeOK, Shape, EntriesExact, NEW s \in Sub, AddNode(s)
    PROVE  EntriesExact'
<1>1. s \notin nodes /\ nodes' = nodes \cup {s} /\ nodes \subseteq Sub
  BY AddNodeFresh, LinksFacts DEF AddNode, Insert
<1>2. attr[s] = NoNode /\ s # NoNode
  BY GraphAssumption DEF AddNode
<1>3. attr'[s] = s /\ \A t \in Sub \ {s} : attr'[t] = attr[t]
  BY DEF AddNode, TypeOK
<1>4. Live' = Live \cup {s}
  BY <1>2, <1>3 DEF Live
<1>5. \A t \in Live' : attr'[t] \in nodes' /\ EquivalentSubs(t, attr'[t])
  <2> SUFFICES ASSUME NEW t \in Live'
               PROVE  attr'[t] \in nodes' /\ EquivalentSubs(t, attr'[t])
    OBVIOUS
  <2>1. CASE t = s
    BY <1>1, <1>3, <2>1, CoveringIsPreorder DEF EquivalentSubs
  <2>2. CASE t # s
    BY <1>1, <1>3, <1>4, <2>2 DEF EntriesExact, Live
  <2> QED
    BY <2>1, <2>2
<1>6. ASSUME NEW m \in nodes'
      PROVE  /\ count'[m] = Len(overriden'[m]) + 1 /\ attr'[m] = m
             /\ \A t \in Sub : attr'[t] = m <=>
                   t = m \/ \E i \in 1 .. Len(overriden'[m]) : overriden'[m][i] = t
  <2>1. CASE m = s
    <3>1. overriden'[m] = <<>> /\ count'[m] = 1
      BY <2>1 DEF AddNode, TypeOK
    <3>2. \A t \in Sub \ {s} : attr[t] # s
      BY <1>1, <1>2 DEF EntriesExact, Live
    <3> QED
      BY <1>3, <2>1, <3>1, <3>2
  <2>2. CASE m # s
    <3>1. m \in nodes /\ m \in Sub
      BY <1>1, <2>2
    <3>2. overriden'[m] = overriden[m] /\ count'[m] = count[m]
      BY <2>2, <3>1 DEF AddNode, TypeOK
    <3>3. \A t \in Sub : attr'[t] = m <=> attr[t] = m
      BY <1>2, <1>3, <2>2, <3>1, GraphAssumption
    <3> QED
      BY <3>1, <3>2, <3>3 DEF EntriesExact
  <2> QED
    BY <2>1, <2>2
<1> QED
  BY <1>5, <1>6 DEF EntriesExact, EquivalentSubs, Covers

LEMMA RouterStep == RouterInv /\ [RouterNext]_vars => RouterInv'
<1> SUFFICES ASSUME RouterInv, [RouterNext]_vars
             PROVE  RouterInv'
  OBVIOUS
<1>1. ShapeInv' /\ TypeOK /\ Shape /\ EntriesExact
  BY ShapeStep DEF RouterInv, ShapeInv, TypeInv, Next
<1>2. ASSUME UNCHANGED <<nodes, attr, count, overriden>>
      PROVE  EntriesExact'
  BY <1>1, <1>2 DEF EntriesExact, Live, EquivalentSubs, Covers
<1>3. CASE UNCHANGED vars
  <2>1. MatchExact'
    BY <1>3 DEF RouterInv, MatchExact, Expected, Live, vars
  <2> QED
    BY <1>1, <1>2, <1>3, <2>1 DEF RouterInv, vars, structure
<1>4. ASSUME NEW e \in Event, Match(e)
      PROVE  RouterInv'
  <2>1. Live' = Live
    BY <1>4 DEF Match, Live
  <2>2. reply'.event = {e} /\ reply'.subs = {s \in Live : <<s, e>> \in Matching}
    BY <1>1, <1>4, MatchAnswers
  <2>3. MatchExact'
    BY <2>1, <2>2 DEF MatchExact, Expected
  <2> QED
    BY <1>1, <1>2, <1>4, <2>3 DEF RouterInv, Match, structure
<1>5. ASSUME NEW s \in Sub, AddDuplicate(s) \/ AddNode(s)
      PROVE  RouterInv'
  <2>1. EntriesExact'
    BY <1>1, <1>5, EntriesAddDuplicate, EntriesAddNode
  <2>2. reply'.event = {} /\ reply'.subs = {}
    BY <1>5 DEF AddDuplicate, AddNode, NoMatches
  <2>3. MatchExact'
    BY <2>2 DEF MatchExact, Expected
  <2> QED
    BY <1>1, <2>1, <2>3 DEF RouterInv
<1> QED
  BY <1>3, <1>4, <1>5 DEF RouterNext

LEMMA RouterAlways == RouterSpec => []RouterInv
<1>1. Init => RouterInv
  BY TypeInit, ShapeInit, EntriesInit DEF RouterInv, ShapeInv
<1> QED
  BY <1>1, RouterStep, PTL DEF RouterSpec

\* In the router's use, a publication is answered with exactly the stored
\* subscriptions that match it: none is lost below a node that does not match,
\* none is lost among equivalents, none is invented.
THEOREM MatchAlwaysExact == RouterSpec => []MatchExact
<1>1. RouterInv => MatchExact
  BY DEF RouterInv
<1> QED
  BY <1>1, RouterAlways, PTL

\* The router's graph implements the plain store.
THEOREM RouterImplementsStore == RouterSpec => ImplementsRouterStore
<1>1. Init => Store!Init
  BY DEF Init, Store!Init, Store!NoAnswer, Live, NoMatches
<1>2. RouterInv /\ [RouterNext]_vars =>
        [(\E s \in Sub : Store!Subscribe(s)) \/ (\E e \in Event : Store!Publish(e))]_(Store!vars)
  <2> SUFFICES ASSUME RouterInv, [RouterNext]_vars
               PROVE  \/ (\E s \in Sub : Store!Subscribe(s)) \/ (\E e \in Event : Store!Publish(e))
                      \/ UNCHANGED Store!vars
    OBVIOUS
  <2>1. TypeOK /\ Shape /\ EntriesExact
    BY DEF RouterInv, ShapeInv, TypeInv
  <2>2. CASE UNCHANGED vars
    BY <2>2 DEF vars, Store!vars, Live
  <2>3. ASSUME NEW e \in Event, Match(e)
        PROVE  Store!Publish(e)
    <3>1. Live' = Live
      BY <2>3 DEF Match, Live
    <3> QED
      BY <2>1, <2>3, <3>1, MatchAnswers DEF Store!Publish
  <2>4. ASSUME NEW s \in Sub, AddDuplicate(s) \/ AddNode(s)
        PROVE  Store!Subscribe(s)
    <3>1. s \notin Live
      BY <2>4 DEF AddDuplicate, AddNode, Live
    <3>2. PICK n \in Sub : attr' = [attr EXCEPT ![s] = n]
      BY <2>4, SearchType DEF AddDuplicate, AddNode
    <3>3. Live' = Live \cup {s}
      BY <2>1, <3>2, GraphAssumption DEF Live, TypeOK
    <3>4. reply'.event = {} /\ reply'.subs = {}
      BY <2>4 DEF AddDuplicate, AddNode, NoMatches
    <3> QED
      BY <3>1, <3>3, <3>4 DEF Store!Subscribe, Store!NoAnswer
  <2> QED
    BY <2>2, <2>3, <2>4 DEF RouterNext
<1> QED
  BY <1>1, <1>2, RouterAlways, PTL DEF RouterSpec, ImplementsRouterStore, Store!Spec

-----------------------------------------------------------------------------
(* Answers when subscriptions are removed.                                 *)

\* What remains of EntriesExact when subscriptions are removed: overriden_ may
\* name a subscription that is gone, but never one of another class.
OverridenEquivalent ==
    \A n \in nodes : \A i \in 1 .. Len(overriden[n]) : EquivalentSubs(n, overriden[n][i])

AloneInv == CountInv /\ OverridenEquivalent /\ AloneExact

\* An operation that answers nothing has nothing wrong in its answer.
LEMMA AloneOfNothing ==
    ASSUME reply' = NoMatches
    PROVE  AloneExact'
BY DEF NoMatches, AloneExact, Expected

LEMMA AloneAddDuplicate ==
    ASSUME AloneInv, NEW s \in Sub, AddDuplicate(s)
    PROVE  OverridenEquivalent'
<1>1. PICK n \in SearchResults(s) \ {NoNode} :
         overriden' = [overriden EXCEPT ![n] = Append(@, s)]
  BY DEF AddDuplicate
<1>2. TypeOK /\ Shape
  BY DEF AloneInv, CountInv, ShapeInv, TypeInv
<1>3. n \in Sub /\ EquivalentSubs(n, s)
  <2>1. n \in SearchVisits(s) /\ Covers(s, n)
    BY <1>1 DEF SearchResults
  <2> QED
    BY <1>1, <1>2, <2>1, SearchType, SearchVisitsCover DEF EquivalentSubs
<1>4. nodes' = nodes /\ nodes \subseteq Sub
  BY <1>2, LinksFacts DEF AddDuplicate, structure
<1> SUFFICES ASSUME NEW m \in nodes, NEW i \in 1 .. Len(overriden'[m])
             PROVE  EquivalentSubs(m, overriden'[m][i])
  BY <1>4 DEF OverridenEquivalent, EquivalentSubs, Covers
<1>5. overriden[m] \in Seq(Sub) /\ \A j \in 1 .. Len(overriden[m]) : EquivalentSubs(m, overriden[m][j])
  BY <1>2, <1>4 DEF AloneInv, OverridenEquivalent, TypeOK
<1>6. CASE m = n
  <2>1. overriden'[m] = Append(overriden[m], s)
    BY <1>1, <1>2, <1>3, <1>6 DEF TypeOK
  <2>2. \/ overriden'[m][i] = s
        \/ \E j \in 1 .. Len(overriden[m]) : overriden[m][j] = overriden'[m][i]
    BY <1>5, <2>1, EntriesOfAppend
  <2> QED
    BY <1>3, <1>5, <1>6, <2>2
<1>7. CASE m # n
  <2>1. overriden'[m] = overriden[m]
    BY <1>1, <1>2, <1>4, <1>7 DEF TypeOK
  <2> QED
    BY <1>5, <2>1
<1> QED
  BY <1>6, <1>7

LEMMA AloneAddNode ==
    ASSUME AloneInv, NEW s \in Sub, AddNode(s)
    PROVE  OverridenEquivalent'
<1>1. TypeOK /\ nodes \subseteq Sub
  BY LinksFacts DEF AloneInv, CountInv, ShapeInv, TypeInv
<1>2. nodes' = nodes \cup {s} /\ overriden' = [overriden EXCEPT ![s] = <<>>]
  BY DEF AddNode, Insert
<1>3. overriden'[s] = <<>> /\ \A m \in Sub \ {s} : overriden'[m] = overriden[m]
  BY <1>1, <1>2 DEF TypeOK
<1> QED
  BY <1>1, <1>2, <1>3 DEF AloneInv, OverridenEquivalent, EquivalentSubs, Covers

LEMMA AloneRemoveNode ==
    ASSUME AloneInv, NEW s \in Sub, RemoveNode(s)
    PROVE  OverridenEquivalent'
<1>1. TypeOK /\ nodes \subseteq Sub
  BY LinksFacts DEF AloneInv, CountInv, ShapeInv, TypeInv
<1>2. PICK n \in SearchResults(s) \ {NoNode} :
         nodes' = nodes \ {n} /\ overriden' = [overriden EXCEPT ![n] = <<>>]
  BY DEF RemoveNode, Delete
<1>3. \A m \in nodes' : m \in nodes /\ overriden'[m] = overriden[m]
  BY <1>1, <1>2 DEF TypeOK
<1> QED
  BY <1>3 DEF AloneInv, OverridenEquivalent, EquivalentSubs, Covers

\* A publication finds a subscription that has no equivalents at its own node,
\* and that node only while it is stored.
LEMMA AloneMatch ==
    ASSUME AloneInv, NEW e \in Event, Match(e)
    PROVE  AloneExact'
<1>1. /\ TypeOK /\ Shape /\ AttrExact /\ CountsExact /\ OverridenEquivalent
      /\ EntriesInRange /\ CountsPositive
  BY DEF AloneInv, CountInv, ShapeInv, TypeInv
<1>2. nodes \subseteq Sub /\ Live \subseteq Sub
  BY <1>1, LinksFacts DEF Live
<1>3. reply'.event = {e} /\ reply'.subs = UNION {Entries(n) : n \in MatchingNodes(e)}
  BY DEF Match
<1>4. MatchingNodes(e) = {n \in nodes : <<n, e>> \in Matching}
  BY <1>1, MatchReaches
<1>5. Live' = Live
  BY DEF Match, Live
<1>6. ASSUME NEW s \in nodes, Alone(s)
      PROVE  s \in Live
  <2>1. count[s] = Cardinality(Class(s)) /\ count[s] \in Int /\ count[s] >= 1
    BY <1>1, <1>2 DEF CountsExact, CountsPositive, Class, TypeOK
  <2>2. Class(s) # {}
    BY <2>1, FS_EmptySet
  <2>3. PICK t \in Live : attr[t] = s
    BY <2>2 DEF Class
  <2>4. EquivalentSubs(t, s)
    BY <1>1, <2>3 DEF AttrExact
  <2> QED
    BY <1>2, <1>6, <2>3, <2>4 DEF Alone, EquivalentSubs
<1>7. ASSUME NEW s \in reply'.subs, Alone(s)
      PROVE  s \in Live /\ <<s, e>> \in Matching
  <2>1. PICK n \in nodes : <<n, e>> \in Matching /\ s \in Entries(n)
    BY <1>3, <1>4
  <2>2. /\ overriden[n] \in Seq(Sub) /\ count[n] \in Int
        /\ count[n] - 1 <= Len(overriden[n])
    BY <1>1, <1>2 DEF TypeOK, EntriesInRange
  <2>3. s = n \/ \E i \in 1 .. Len(overriden[n]) : s = overriden[n][i]
    BY <2>1, <2>2 DEF Entries
  <2>4. s = n \/ EquivalentSubs(n, s)
    BY <1>1, <2>3 DEF OverridenEquivalent
  <2>5. s = n
    BY <1>2, <1>7, <2>4 DEF Alone, EquivalentSubs
  <2> QED
    BY <1>6, <1>7, <2>1, <2>5
<1>8. ASSUME NEW s \in Live, <<s, e>> \in Matching, Alone(s)
      PROVE  s \in reply'.subs
  <2>1. attr[s] \in nodes /\ EquivalentSubs(s, attr[s])
    BY <1>1 DEF AttrExact
  <2>2. attr[s] = s
    BY <1>2, <1>8, <2>1 DEF Alone
  <2>3. s \in MatchingNodes(e) /\ s \in Entries(s)
    BY <1>4, <1>8, <2>1, <2>2 DEF Entries
  <2> QED
    BY <1>3, <2>3
<1>9. Expected' = {s \in Live : <<s, e>> \in Matching}
  BY <1>3, <1>5 DEF Expected
<1> QED
  BY <1>7, <1>8, <1>9 DEF AloneExact, Alone, EquivalentSubs, Covers

LEMMA AloneStep == AloneInv /\ [Next]_vars => AloneInv'
<1> SUFFICES ASSUME AloneInv, [Next]_vars
             PROVE  AloneInv'
  OBVIOUS
<1>1. CountInv'
  BY CountStep DEF AloneInv
<1>2. CASE UNCHANGED vars
  <2>1. OverridenEquivalent' /\ AloneExact'
    BY <1>2 DEF AloneInv, OverridenEquivalent, AloneExact, Expected, Alone, Live,
                EquivalentSubs, Covers, vars, structure
  <2> QED
    BY <1>1, <2>1 DEF AloneInv
<1>3. ASSUME NEW s \in Sub, AddDuplicate(s)
      PROVE  AloneInv'
  BY <1>1, <1>3, AloneAddDuplicate, AloneOfNothing DEF AloneInv, AddDuplicate
<1>4. ASSUME NEW s \in Sub, AddNode(s)
      PROVE  AloneInv'
  BY <1>1, <1>4, AloneAddNode, AloneOfNothing DEF AloneInv, AddNode
<1>5. ASSUME NEW s \in Sub, RemoveDuplicate(s)
      PROVE  AloneInv'
  <2>1. OverridenEquivalent'
    BY <1>5 DEF AloneInv, OverridenEquivalent, EquivalentSubs, Covers, RemoveDuplicate, structure
  <2> QED
    BY <1>1, <1>5, <2>1, AloneOfNothing DEF AloneInv, RemoveDuplicate
<1>6. ASSUME NEW s \in Sub, RemoveNode(s)
      PROVE  AloneInv'
  BY <1>1, <1>6, AloneRemoveNode, AloneOfNothing DEF AloneInv, RemoveNode
<1>7. ASSUME NEW e \in Event, Match(e)
      PROVE  AloneInv'
  <2>1. OverridenEquivalent'
    BY <1>7 DEF AloneInv, OverridenEquivalent, EquivalentSubs, Covers, Match, structure
  <2> QED
    BY <1>1, <1>7, <2>1, AloneMatch DEF AloneInv
<1> QED
  BY <1>2, <1>3, <1>4, <1>5, <1>6, <1>7 DEF Next, RouterNext

\* Whatever is added and removed around it, a subscription that has no
\* equivalents is in the answer to a publication exactly while it is stored and
\* matches.
THEOREM AloneAlwaysExact == Spec => []AloneExact
<1>1. Init => AloneInv
  <2>1. Init => CountInv
    BY TypeInit, ShapeInit, CountInit DEF CountInv, ShapeInv
  <2>2. Init => OverridenEquivalent /\ AloneExact
    BY DEF Init, OverridenEquivalent, AloneExact, Expected, NoMatches
  <2> QED
    BY <2>1, <2>2 DEF AloneInv
<1>2. AloneInv => AloneExact
  BY DEF AloneInv
<1> QED
  BY <1>1, <1>2, AloneStep, PTL DEF Spec

-----------------------------------------------------------------------------
(* Sums over a finite set.  MapThenSumSet is a recursive function on the   *)
(* subsets of the set, which takes one element away at a time.             *)

\* A set with 0, and with m + 1 for every m in it, has every number.
LEMMA NatSetInduction ==
    ASSUME NEW S, 0 \in S, \A m \in Nat : m \in S => m + 1 \in S
    PROVE  Nat \subseteq S
<1> SUFFICES ASSUME Nat \ S # {}
             PROVE  FALSE
  OBVIOUS
<1> DEFINE R == OpToRel(<, Nat)
<1>1. IsWellFoundedOn(R, Nat)
  BY NatLessThanWellFounded
<1>2. \A m, k \in Nat : k < m => <<k, m>> \in R
  BY DEF OpToRel
<1> HIDE DEF R
<1>3. PICK m \in Nat \ S : \A k \in Nat \ S : <<k, m>> \notin R
  BY <1>1, WFMin
<1>4. m # 0 /\ m - 1 \in Nat /\ m - 1 < m /\ (m - 1) + 1 = m
  OBVIOUS
<1>5. m - 1 \in S
  BY <1>2, <1>3, <1>4
<1> QED
  BY <1>3, <1>4, <1>5

\* The element that the sum over T takes first.
First(T) == CHOOSE x \in T : TRUE

\* f[T] is the sum of g over T, for each T in D.
IsSum(f, g, D) == f = [T \in D |-> IF T = {} THEN 0 ELSE g[First(T)] + f[T \ {First(T)}]]

LEMMA FirstTaken ==
    ASSUME NEW T, IsFiniteSet(T), T # {}
    PROVE  /\ First(T) \in T /\ IsFiniteSet(T \ {First(T)})
           /\ Cardinality(T) \in Nat \ {0} /\ Cardinality(T \ {First(T)}) = Cardinality(T) - 1
<1>1. First(T) \in T
  BY DEF First
<1> QED
  BY <1>1, FS_RemoveElement, FS_CardinalityType, FS_EmptySet

\* There is such a function, for the subsets of any finite set.
LEMMA SumDefined ==
    ASSUME NEW S, IsFiniteSet(S), NEW g
    PROVE  \E f : IsSum(f, g, SUBSET S)
<1> DEFINE Small(m) == {T \in SUBSET S : Cardinality(T) <= m}
           M == {m \in Nat : \E f : IsSum(f, g, Small(m))}
<1>1. \A T \in SUBSET S : IsFiniteSet(T) /\ Cardinality(T) \in Nat /\ Cardinality(T) <= Cardinality(S)
  BY FS_Subset, FS_CardinalityType
<1>2. 0 \in M
  <2>1. \A T \in Small(0) : T = {}
    BY <1>1, FS_EmptySet
  <2> DEFINE f == [T \in Small(0) |-> 0]
  <2> HIDE DEF Small
  <2>2. f = [T \in Small(0) |-> IF T = {} THEN 0 ELSE g[First(T)] + f[T \ {First(T)}]]
    BY <2>1
  <2> QED
    BY <2>2 DEF IsSum
<1>3. ASSUME NEW m \in Nat, m \in M
      PROVE  m + 1 \in M
  <2>1. PICK f : IsSum(f, g, Small(m))
    BY <1>3
  <2> DEFINE h == [T \in Small(m + 1) |-> IF T = {} THEN 0 ELSE g[First(T)] + f[T \ {First(T)}]]
  <2>2. ASSUME NEW T \in Small(m + 1), T # {}
        PROVE  T \ {First(T)} \in Small(m) /\ T \ {First(T)} \in Small(m + 1)
    <3>1. /\ T \in SUBSET S /\ Cardinality(T) \in Nat /\ Cardinality(T) <= m + 1
          /\ Cardinality(T \ {First(T)}) = Cardinality(T) - 1
      BY <1>1, <2>2, FirstTaken
    <3> QED
      BY <3>1
  <2>3. \A T \in Small(m) : T \in Small(m + 1)
    BY <1>1
  <2> HIDE DEF Small
  <2>4. \A T \in Small(m) : h[T] = f[T]
    BY <2>1, <2>3 DEF IsSum
  <2>5. \A T \in Small(m + 1) :
          h[T] = IF T = {} THEN 0 ELSE g[First(T)] + h[T \ {First(T)}]
    BY <2>2, <2>4
  <2>6. h = [T \in Small(m + 1) |-> h[T]]
    OBVIOUS
  <2> HIDE DEF h
  <2>7. IsSum(h, g, Small(m + 1))
    BY <2>5, <2>6 DEF IsSum
  <2> QED
    BY <2>7
<1> HIDE DEF M
<1>4. Cardinality(S) \in Nat /\ Cardinality(S) \in M
  BY <1>2, <1>3, FS_CardinalityType, NatSetInduction
<1>5. Small(Cardinality(S)) = SUBSET S
  BY <1>1
<1> QED
  BY <1>4, <1>5 DEF M

SumOf(g, S) == MapThenSumSet(LAMBDA n : g[n], S)

\* What holds of 0 for the empty set, and of a sum when one more element is
\* added to what is summed, holds of the sum.
LEMMA SumInduction ==
    ASSUME NEW S, IsFiniteSet(S), NEW g, NEW G, 0 \in G[{}],
           \A T \in SUBSET S : \A x \in T : \A v \in G[T \ {x}] : g[x] + v \in G[T]
    PROVE  SumOf(g, S) \in G[S]
<1> DEFINE Is(f) == IsSum(f, g, SUBSET S)
           sum == CHOOSE f : Is(f)
<1>1. Is(sum)
  BY SumDefined
<1>2. SumOf(g, S) = sum[S]
  BY Zenon DEF SumOf, MapThenSumSet, MapThenFoldSet, IsSum, First
<1> HIDE DEF sum
<1> DEFINE M == {m \in Nat : \A T \in SUBSET S : Cardinality(T) = m => sum[T] \in G[T]}
<1>3. \A T \in SUBSET S : IsFiniteSet(T) /\ Cardinality(T) \in Nat
  BY FS_Subset, FS_CardinalityType
<1>4. 0 \in M
  <2>1. \A T \in SUBSET S : Cardinality(T) = 0 => T = {}
    BY <1>3, FS_EmptySet
  <2>2. sum[{}] = 0
    BY <1>1 DEF IsSum
  <2> QED
    BY <2>1, <2>2
<1>5. ASSUME NEW m \in Nat, m \in M
      PROVE  m + 1 \in M
  <2>1. ASSUME NEW T \in SUBSET S, Cardinality(T) = m + 1
        PROVE  sum[T] \in G[T]
    <3>1. T # {} /\ IsFiniteSet(T)
      BY <1>3, <2>1, FS_EmptySet
    <3>2. First(T) \in T /\ Cardinality(T \ {First(T)}) = Cardinality(T) - 1
      BY <3>1, FirstTaken
    <3>3. T \ {First(T)} \in SUBSET S /\ Cardinality(T \ {First(T)}) = m
      BY <2>1, <3>2
    <3>4. sum[T \ {First(T)}] \in G[T \ {First(T)}]
      BY <1>5, <3>3
    <3>5. sum[T] = g[First(T)] + sum[T \ {First(T)}]
      BY <1>1, <3>1 DEF IsSum
    <3> QED
      BY <3>2, <3>4, <3>5
  <2> QED
    BY <2>1
<1> HIDE DEF M
<1>6. Cardinality(S) \in M
  BY <1>3, <1>4, <1>5, NatSetInduction
<1> QED
  BY <1>2, <1>6 DEF M

-----------------------------------------------------------------------------
(* The number of matches.                                                  *)

\* The subscriptions that a set of nodes stands for.
Behind(T) == {s \in Live : attr[s] \in T}

\* Summing the counts of nodes counts the subscriptions behind them.
LEMMA CountsAdd ==
    ASSUME CountsExact, NEW S \in SUBSET nodes, IsFiniteSet(S)
    PROVE  SumOf(count, S) = Cardinality(Behind(S))
<1> DEFINE G == [T \in SUBSET S |-> {Cardinality(Behind(T))}]
<1>1. \A T : IsFiniteSet(Behind(T)) /\ Cardinality(Behind(T)) \in Nat
  BY ClassesFinite, FS_Subset, FS_CardinalityType DEF Behind
<1>2. 0 \in G[{}]
  <2>1. Behind({}) = {}
    BY DEF Behind
  <2> QED
    BY <2>1, FS_EmptySet
<1>3. ASSUME NEW T \in SUBSET S, NEW x \in T, NEW v \in G[T \ {x}]
      PROVE  count[x] + v \in G[T]
  <2>1. v = Cardinality(Behind(T \ {x})) /\ count[x] = Cardinality(Class(x))
    BY DEF CountsExact, Class
  <2>2. Behind(T) = Class(x) \cup Behind(T \ {x}) /\ Class(x) \cap Behind(T \ {x}) = {}
    BY DEF Behind, Class
  <2>3. IsFiniteSet(Class(x)) /\ Cardinality(Class(x)) \in Nat
    BY ClassesFinite, FS_CardinalityType
  <2> DEFINE A == Class(x)
             B == Behind(T \ {x})
  <2>4. Cardinality(A \cup B) = Cardinality(A) + Cardinality(B)
    <3>1. IsFiniteSet(A) /\ IsFiniteSet(B) /\ A \cap B = {}
      BY <1>1, <2>2, <2>3
    <3>2. Cardinality(A) \in Nat /\ Cardinality(B) \in Nat
      BY <1>1, <2>3
    <3> HIDE DEF A, B
    <3>3. Cardinality(A \cup B) = Cardinality(A) + Cardinality(B) - Cardinality(A \cap B)
      BY <3>1, FS_Union
    <3>4. Cardinality(A \cap B) = 0
      BY <3>1, FS_EmptySet
    <3> QED
      BY <3>2, <3>3, <3>4
  <2> QED
    BY <2>1, <2>2, <2>4
<1> HIDE DEF G
<1>4. SumOf(count, S) \in G[S]
  BY <1>2, <1>3, SumInduction
<1> QED
  BY <1>4 DEF G

MatchCountInv == CountInv /\ MatchCountExact

LEMMA MatchCounts ==
    ASSUME CountInv, NEW e \in Event, Match(e)
    PROVE  MatchCountExact'
<1>1. /\ TypeOK /\ Shape /\ AttrExact /\ CountsExact
  BY DEF CountInv, ShapeInv, TypeInv
<1>2. nodes \subseteq Sub
  BY <1>1, LinksFacts
<1>3. MatchingNodes(e) = {n \in nodes : <<n, e>> \in Matching}
  BY <1>1, MatchReaches
<1>4. Behind(MatchingNodes(e)) = {s \in Live : <<s, e>> \in Matching}
  <2>1. ASSUME NEW s \in Live
        PROVE  /\ attr[s] \in nodes
               /\ <<s, e>> \in Matching <=> <<attr[s], e>> \in Matching
    BY <1>1, <1>2, <2>1, CoveringIsSound DEF AttrExact, EquivalentSubs, Live
  <2> QED
    BY <1>3, <2>1 DEF Behind
<1>5. IsFiniteSet(MatchingNodes(e))
  BY <1>2, <1>3, GraphAssumption, FS_Subset
<1>6. reply'.match = Cardinality(Behind(MatchingNodes(e)))
  <2>1. reply'.match = SumOf(count, MatchingNodes(e))
    BY Zenon DEF Match, SumOf
  <2>2. MatchingNodes(e) \in SUBSET nodes
    BY <1>3
  <2> QED
    BY <1>1, <1>5, <2>1, <2>2, CountsAdd
<1>7. Expected' = {s \in Live : <<s, e>> \in Matching}
  BY DEF Match, Expected, Live
<1> QED
  BY <1>4, <1>6, <1>7 DEF MatchCountExact

LEMMA MatchCountStep == MatchCountInv /\ [Next]_vars => MatchCountExact'
<1> SUFFICES ASSUME MatchCountInv, [Next]_vars
             PROVE  MatchCountExact'
  OBVIOUS
<1>1. CASE UNCHANGED vars
  BY <1>1 DEF MatchCountInv, MatchCountExact, Expected, Live, vars
<1>2. CASE reply' = NoMatches
  <2>1. Expected' = {}
    BY <1>2 DEF Expected, NoMatches
  <2> QED
    BY <1>2, <2>1, FS_EmptySet DEF MatchCountExact, NoMatches
<1>3. ASSUME NEW e \in Event, Match(e)
      PROVE  MatchCountExact'
  BY <1>3, MatchCounts DEF MatchCountInv
<1> QED
  BY <1>1, <1>2, <1>3 DEF Next, RouterNext, AddDuplicate, AddNode, RemoveDuplicate, RemoveNode

\* Through any sequence of add and remove, a publication counts every stored
\* subscription that matches it exactly once: the sum of the counts of the
\* matching nodes is the number of subscriptions that match.
THEOREM MatchCountAlwaysExact == Spec => []MatchCountExact
<1>1. Init => MatchCountExact
  <2>1. Init => Expected = {} /\ reply.match = 0
    BY DEF Init, Expected, NoMatches
  <2> QED
    BY <2>1, FS_EmptySet DEF MatchCountExact
<1>2. MatchCountInv /\ [Next]_vars => MatchCountExact'
  BY MatchCountStep
<1> QED
  BY <1>1, <1>2, CountAlways, PTL DEF Spec, MatchCountInv
=============================================================================
