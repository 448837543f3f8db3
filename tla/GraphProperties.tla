--------------------------- MODULE GraphProperties ---------------------------
(***************************************************************************)
(* What makes the containment graph correct, stated about module Graph:    *)
(* its shape is the covering order (HasseDiagram), its walks find what     *)
(* they look for (SearchExact), its counters count the subscriptions it    *)
(* stores (CountersExact), and publications get the answers of a plain set *)
(* of subscriptions (Store).                                               *)
(***************************************************************************)
EXTENDS Graph

\* What the graph needs of Subscription::operator>=.  Module Covering checks
\* both for the subscriptions of the client library, and shows that ranges
\* that hold an equality can break them.
ASSUME CoveringIsPreorder ==
    /\ \A s \in Sub : Covers(s, s)
    /\ \A s, t, u \in Sub : Covers(s, t) /\ Covers(t, u) => Covers(s, u)

ASSUME CoveringIsSound ==
    \A s, t \in Sub, e \in Event :
        Covers(s, t) /\ <<t, e>> \in Matching => <<s, e>> \in Matching

EquivalentSubs(s, t) == Covers(s, t) /\ Covers(t, s)

\* The subscriptions stored: those whose GRAPH_ATTR names a node.
Live == {s \in Sub : attr[s] # NoNode}

-----------------------------------------------------------------------------
\* The state of the graph is well typed.
TypeOK ==
    /\ nodes \subseteq Sub
    /\ containers \in [Sub -> SUBSET Sub]
    /\ containees \in [Sub -> SUBSET Sub]
    /\ overriden \in [Sub -> Seq(Sub)]
    /\ count \in [Sub -> Int]
    /\ roots \subseteq Sub
    /\ leaves \subseteq Sub
    /\ size \in Int
    /\ attr \in [Sub -> Sub \cup {NoNode}]
    /\ reply.event \subseteq Event
    /\ reply.subs \subseteq Sub

\* No node of the graph lies strictly between a and b.
DirectlyCovers(a, b) ==
    /\ StrictlyCovers(a, b)
    /\ ~ \E c \in nodes : StrictlyCovers(a, c) /\ StrictlyCovers(c, b)

\* Whatever the order of the subscriptions, the graph is the Hasse diagram of
\* covering: add links and unlinks exactly the right parents and children, and
\* remove restores exactly the links the removed node stood for.
HasseDiagram ==
    /\ \A a \in nodes : containees[a] = {b \in nodes : DirectlyCovers(a, b)}
    /\ \A a \in nodes : containers[a] = {b \in nodes : DirectlyCovers(b, a)}
    /\ roots = {n \in nodes : \A m \in nodes : ~StrictlyCovers(m, n)}
    /\ leaves = {n \in nodes : \A m \in nodes : ~StrictlyCovers(n, m)}

\* Equivalent subscriptions share one node.
OneNodePerClass ==
    /\ \A n, m \in nodes : EquivalentSubs(n, m) => n = m
    /\ \A s \in Live : attr[s] \in nodes /\ EquivalentSubs(s, attr[s])

\* search has no backtracking, and still finds the node of every equivalent
\* subscription, whichever covering child it walks into first; it answers NULL
\* only when there is none.
SearchExact ==
    \A s \in Sub :
        SearchResults(s) =
            IF \E n \in nodes : EquivalentSubs(n, s)
            THEN {n \in nodes : EquivalentSubs(n, s)}
            ELSE {NoNode}

\* size_ is the number of stored subscriptions and count_ the number of those
\* that share the node, through any sequence of add and remove: the
\* denominators and weights of the match statistics.
CountsExact ==
    /\ size = Cardinality(Live)
    /\ \A n \in nodes : count[n] = Cardinality({s \in Live : attr[s] = n})

\* The stored subscriptions that match the event of the last answer.
Expected == {s \in Live : \E e \in reply.event : <<s, e>> \in Matching}

\* A publication counts every stored subscription that matches it exactly
\* once, pruned subtrees and shared nodes notwithstanding.
MatchCountExact == reply.match = Cardinality(Expected)

\* A publication is answered with the stored subscriptions that match it:
\* none is hidden below a node that does not match, none comes from a node
\* that should have been skipped.
MatchExact == reply.subs = Expected

\* A subscription without equivalents is answered exactly, whatever was added
\* and removed around it: removals reconnect what lies below them.
Alone(s) == \A t \in Sub : EquivalentSubs(s, t) => t = s
AloneExact == {s \in reply.subs : Alone(s)} = {s \in Expected : Alone(s)}

\* overriden_ lists the equivalents of a node beyond its primary, so that the
\* loop of match reads entries that exist.
OverridenInRange == \A n \in nodes : count[n] >= 1 /\ count[n] - 1 <= Len(overriden[n])

\* Three counts that three operations keep, for one purpose: size_, count_ and
\* overriden_ agree with the subscriptions there are, and with each other.
CountersExact == CountsExact /\ OverridenInRange

-----------------------------------------------------------------------------
\* The inductive invariant of the graph's shape, in the terms of the links
\* that the code follows.  It does not mention the counters: it holds through
\* add and remove alike.

\* Links join nodes, the upper one strictly covering the lower one.
LinksCover ==
    \A a, b \in Sub : b \in containees[a] =>
        a \in nodes /\ b \in nodes /\ StrictlyCovers(a, b)

\* containers_ and containees_ are inverse to each other.
LinksPaired == \A a, b \in Sub : b \in containees[a] <=> a \in containers[b]

\* The roots have no container and the leaves no containee.
EndsExact ==
    /\ roots = {n \in nodes : containers[n] = {}}
    /\ leaves = {n \in nodes : containees[n] = {}}

\* A node reaches every node it strictly covers, through a containee.
LinksDescend ==
    \A a, b \in nodes : StrictlyCovers(a, b) => \E c \in containees[a] : Covers(c, b)

\* No containee of a node is redundant.
LinksDirect ==
    \A a \in nodes : \A x, y \in containees[a] : ~StrictlyCovers(x, y)

\* No two nodes are equivalent.
NodesDistinct == \A n, m \in nodes : EquivalentSubs(n, m) => n = m

Shape ==
    /\ LinksCover /\ LinksPaired /\ EndsExact
    /\ LinksDescend /\ LinksDirect /\ NodesDistinct

\* What the entries of a node are as long as nothing is removed: the primary
\* and overriden_ list exactly the subscriptions whose GRAPH_ATTR is the node.
EntriesExact ==
    /\ \A s \in Live : attr[s] \in nodes /\ EquivalentSubs(s, attr[s])
    /\ \A n \in nodes : count[n] = Len(overriden[n]) + 1 /\ attr[n] = n
    /\ \A n \in nodes, s \in Sub :
          attr[s] = n <=> s = n \/ \E i \in 1 .. Len(overriden[n]) : overriden[n][i] = s

-----------------------------------------------------------------------------
\* As the router uses it, the graph implements the plain store: every operation
\* answers as a search through all the subscriptions would.
Store == INSTANCE SubscriptionStore WITH
            live <- Live,
            answer <- [event |-> reply.event, subs |-> reply.subs]

ImplementsRouterStore == Store!Spec
=============================================================================
