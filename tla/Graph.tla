-------------------------------- MODULE Graph --------------------------------
(***************************************************************************)
(* The containment graph of src/router/matching/graph.cc.                  *)
(*                                                                         *)
(* Subscriptions are ordered by covering.  The graph keeps one node per    *)
(* class of equivalent subscriptions; a node points to the nodes it        *)
(* directly covers (containees_) and to those that directly cover it       *)
(* (containers_).  A publication is matched from the roots downwards: the  *)
(* containees of a node are looked at only when the node matches.          *)
(*                                                                         *)
(* A node is named by its primary subscription (Node::sub_, a reference    *)
(* bound for the node's life).  The vectors of nodes are modelled as sets: *)
(* their order is arbitrary, and where the code takes the first element    *)
(* that passes a test (search) the model takes any.  The traversal marks   *)
(* last_, drawn from a fresh next_id_ per traversal, are modelled by what  *)
(* they are for: a node is visited at most once per traversal.  Statistics *)
(* are left out.                                                           *)
(***************************************************************************)
EXTENDS Integers, Sequences, FiniteSets, FiniteSetsExt

CONSTANTS
    Sub,        \* the Subscription objects a client of the graph owns
    Event,      \* the events it publishes
    Covering,   \* set of pairs <<s, t>>: s >= t
    Matching,   \* set of pairs <<s, e>>: s.matches(e)
    NoNode      \* the NULL node

ASSUME GraphAssumption ==
    /\ IsFiniteSet(Sub)
    /\ Covering \subseteq Sub \X Sub
    /\ Matching \subseteq Sub \X Event
    /\ NoNode \notin Sub

VARIABLES
    nodes,      \* nodes_
    containers, \* containers_ of each node
    containees, \* containees_ of each node
    overriden,  \* overriden_ of each node: equivalents that came after sub_
    count,      \* count_ of each node
    roots,      \* roots_
    leaves,     \* leaves_
    size,       \* size_
    attr,       \* the GRAPH_ATTR attribute of each subscription
    reply       \* what the last operation returned

structure == <<nodes, containers, containees, roots, leaves>>
vars == <<structure, overriden, count, size, attr, reply>>

Covers(s, t) == <<s, t>> \in Covering
StrictlyCovers(s, t) == Covers(s, t) /\ ~Covers(t, s)

\* What match returned: the event, the subscriptions pushed to `matches`, and
\* the local counter `match`.  Other operations return nothing to observe.
NoMatches == [event |-> {}, subs |-> {}, match |-> 0]

-----------------------------------------------------------------------------
\* The nodes a traversal visits when it starts from the nodes `start` and goes
\* on from a visited node n to the nodes next[n]: the least set with both.
Reachable(start, next) ==
    {n \in Sub : \A X \in SUBSET Sub :
        (start \subseteq X /\ \A x \in X : next[x] \subseteq X) => n \in X}

\* Graph::search walks down from the roots, at each step into one child that
\* covers s, and stops at the first equivalent node.
SearchVisits(s) ==
    Reachable({r \in roots : Covers(r, s)},
              [n \in Sub |-> IF Covers(s, n) THEN {}
                                             ELSE {c \in containees[n] : Covers(c, s)}])

\* (Slip: search looks at the roots only.)
SearchResultsRootsOnly(s) ==
    {n \in roots : Covers(n, s) /\ Covers(s, n)}
    \cup {x \in {NoNode} : \A r \in roots : ~(Covers(r, s) /\ Covers(s, r))}

\* Its possible results, over every order of the vectors: there is no
\* backtracking, so a dead end answers NULL.
SearchResults(s) ==
    {n \in SearchVisits(s) : Covers(s, n)}
    \cup {x \in {NoNode} :
            \/ \A r \in roots : ~Covers(r, s)
            \/ \E n \in SearchVisits(s) :
                  ~Covers(s, n) /\ \A c \in containees[n] : ~Covers(c, s)}

\* (Slip: a node without a container gets the NULL node as its parent.)
FindContainersOrNull(s) ==
    LET found == {n \in Reachable({r \in roots : Covers(r, s)},
                                  [n \in Sub |-> {c \in containees[n] : Covers(c, s)}]) :
                     \A c \in containees[n] : ~Covers(c, s)}
    IN found \cup {x \in {NoNode} : found = {}}

\* Node::find_containers from every root that covers s: the nodes that cover s
\* and have no containee that does.
FindContainers(s) ==
    {n \in Reachable({r \in roots : Covers(r, s)},
                     [n \in Sub |-> {c \in containees[n] : Covers(c, s)}]) :
        \A c \in containees[n] : ~Covers(c, s)}

\* Node::find_containees from every leaf that s covers, upwards.
FindContainees(s) ==
    {n \in Reachable({l \in leaves : Covers(s, l)},
                     [n \in Sub |-> {c \in containers[n] : Covers(s, c)}]) :
        \A c \in containers[n] : ~Covers(s, c)}

\* Graph::match: the nodes popped and tested, and those of them that match.
Tested(e) ==
    Reachable(roots, [n \in Sub |-> IF <<n, e>> \in Matching THEN containees[n] ELSE {}])
MatchingNodes(e) == {n \in Tested(e) : <<n, e>> \in Matching}

\* (Slip, once in the code: every entry of a node is its primary.)
EntriesPrimaryOnly(n) == {n}

\* The entries a matching node contributes: sub_, then overriden_[0 .. count_-2].
Entries(n) == {n} \cup {overriden[n][i] : i \in 1 .. count[n] - 1}

-----------------------------------------------------------------------------
Init ==
    /\ nodes = {}
    /\ containers = [n \in Sub |-> {}]
    /\ containees = [n \in Sub |-> {}]
    /\ overriden = [n \in Sub |-> <<>>]
    /\ count = [n \in Sub |-> 0]
    /\ roots = {}
    /\ leaves = {}
    /\ size = 0
    /\ attr = [s \in Sub |-> NoNode]
    /\ reply = NoMatches

\* A new node named n between its containers P and its containees C: unlink
\* the parents and children that it separates, link it, fix roots and leaves.
Insert(n, P, C) ==
    /\ nodes' = nodes \cup {n}
    /\ containees' = [m \in Sub |->
          IF m = n THEN C
          ELSE IF m \in P THEN (containees[m] \ C) \cup {n} ELSE containees[m]]
    /\ containers' = [m \in Sub |->
          IF m = n THEN P
          ELSE IF m \in C THEN (containers[m] \ P) \cup {n} ELSE containers[m]]
    /\ leaves' = {m \in leaves : ~(m \in P /\ containees[m] = {})}
                 \cup {x \in {n} : C = {}}
    /\ roots' = {m \in roots : ~(m \in C /\ containers[m] = {})}
                \cup {x \in {n} : P = {}}

\* Graph::add of a subscription that is not in the graph.  (A Subscription
\* object is added once: parse_sub allocates a new one per message.)
AddDuplicate(s) ==
    /\ attr[s] = NoNode
    /\ \E n \in SearchResults(s) \ {NoNode} :
          /\ attr' = [attr EXCEPT ![s] = n]
          /\ overriden' = [overriden EXCEPT ![n] = Append(@, s)]
          /\ count' = [count EXCEPT ![n] = @ + 1]
    /\ size' = size + 1
    /\ reply' = NoMatches
    /\ UNCHANGED structure

AddNode(s) ==
    /\ attr[s] = NoNode
    /\ NoNode \in SearchResults(s)
    /\ Insert(s, FindContainers(s), FindContainees(s))
    /\ attr' = [attr EXCEPT ![s] = s]
    /\ overriden' = [overriden EXCEPT ![s] = <<>>]
    /\ count' = [count EXCEPT ![s] = 1]
    /\ size' = size + 1
    /\ reply' = NoMatches

\* (Slip: `match` counts nodes.)
MatchCountingNodes(e) ==
    /\ reply' = [event |-> {e},
                 subs |-> UNION {Entries(n) : n \in MatchingNodes(e)},
                 match |-> Cardinality(MatchingNodes(e))]
    /\ UNCHANGED <<structure, overriden, count, size, attr>>

\* Graph::match
Match(e) ==
    /\ reply' = [event |-> {e},
                 subs |-> UNION {Entries(n) : n \in MatchingNodes(e)},
                 match |-> MapThenSumSet(LAMBDA n : count[n], MatchingNodes(e))]
    /\ UNCHANGED <<structure, overriden, count, size, attr>>

-----------------------------------------------------------------------------
\* (Slip: the count of the node stays.)
RemoveDuplicateStillCounted(s) ==
    /\ attr[s] # NoNode
    /\ \E n \in SearchResults(s) \ {NoNode} : count[n] > 1
    /\ attr' = [attr EXCEPT ![s] = NoNode]
    /\ size' = size - 1
    /\ reply' = NoMatches
    /\ UNCHANGED <<structure, overriden, count>>

\* Graph::remove of a subscription of the graph.  A node that stands for
\* several subscriptions only loses one of its count; overriden_ and sub_ stay.
RemoveDuplicate(s) ==
    /\ attr[s] # NoNode
    /\ \E n \in SearchResults(s) \ {NoNode} :
          /\ count[n] > 1
          /\ count' = [count EXCEPT ![n] = @ - 1]
    /\ attr' = [attr EXCEPT ![s] = NoNode]
    /\ size' = size - 1
    /\ reply' = NoMatches
    /\ UNCHANGED <<structure, overriden>>

\* The edges left when node n and its edges are taken away.
Without(edges, n) == [m \in Sub |-> IF m = n THEN {} ELSE edges[m] \ {n}]

\* (Slip: the children of the node are not linked to its parents.)
DeleteWithoutLinking(n) ==
    LET P == containers[n]
        C == containees[n]
    IN
    /\ nodes' = nodes \ {n}
    /\ containees' = Without(containees, n)
    /\ containers' = Without(containers, n)
    /\ leaves' = (leaves \ {x \in {n} : C = {}}) \cup {p \in P : containees'[p] = {}}
    /\ roots' = roots \ {x \in {n} : P = {}}

\* (Slip: each parent is linked to each child, whether it reaches it or not.)
DeleteLinkingAll(n) ==
    LET P == containers[n]
        C == containees[n]
    IN
    /\ nodes' = nodes \ {n}
    /\ containees' = [m \in Sub |-> Without(containees, n)[m] \cup {c \in C : m \in P}]
    /\ containers' = [m \in Sub |-> Without(containers, n)[m] \cup {p \in P : m \in C}]
    /\ leaves' = (leaves \ {x \in {n} : C = {}}) \cup {p \in P : containees'[p] = {}}
    /\ roots' = (roots \ {x \in {n} : P = {}}) \cup {c \in C : containers'[c] = {}}

\* Delete node n: link each parent to each child it no longer reaches.  (The
\* parents, like the children, do not cover each other, so that the links made
\* for one pair do not change the answer of ancestor or descendant for another.)
Delete(n) ==
    LET P == containers[n]
        C == containees[n]
        down == Without(containees, n)
        up == Without(containers, n)
    IN
    /\ nodes' = nodes \ {n}
    /\ containees' = [m \in Sub |->
          down[m] \cup {c \in C : m \in P /\ c \notin Reachable(down[m], down)}]
    /\ containers' = [m \in Sub |->
          up[m] \cup {p \in P : m \in C /\ p \notin Reachable(up[m], up)}]
    /\ leaves' = (leaves \ {x \in {n} : C = {}}) \cup {p \in P : containees'[p] = {}}
    /\ roots' = (roots \ {x \in {n} : P = {}}) \cup {c \in C : containers'[c] = {}}

RemoveNode(s) ==
    /\ attr[s] # NoNode
    /\ \E n \in SearchResults(s) \ {NoNode} :
          /\ count[n] <= 1
          /\ Delete(n)
          /\ overriden' = [overriden EXCEPT ![n] = <<>>]
          /\ count' = [count EXCEPT ![n] = 0]
    /\ attr' = [attr EXCEPT ![s] = NoNode]
    /\ size' = size - 1
    /\ reply' = NoMatches

-----------------------------------------------------------------------------
\* What the router does with a graph: it never removes a subscription.
RouterNext ==
    \/ \E s \in Sub : AddDuplicate(s) \/ AddNode(s)
    \/ \E e \in Event : Match(e)

\* Every operation of the class.
Next ==
    \/ RouterNext
    \/ \E s \in Sub : RemoveDuplicate(s) \/ RemoveNode(s)

RouterSpec == Init /\ [][RouterNext]_vars
Spec == Init /\ [][Next]_vars
=============================================================================
