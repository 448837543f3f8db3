-------------------------------- MODULE Walks --------------------------------
(***************************************************************************)
(* The traversals of the containment graph (src/router/matching/graph.cc), *)
(* step by step, with the marks last_ and next_id_ and the statistics that *)
(* module Graph leaves out.  A publication pops one candidate at a time,   *)
(* stats computes the depths by recursive calls, and the destructor        *)
(* deletes the nodes one by one.                                           *)
(*                                                                         *)
(* The vectors of nodes are sets here, as in module Graph: the stack of    *)
(* match and the loops over a vector take their elements in any order.     *)
(* The arithmetic of SmartCounter is exact (a sum in place of a running    *)
(* mean, no variance), except that it knows NaN.                           *)
(***************************************************************************)
EXTENDS Graph, SequencesExt

CONSTANTS
    MaxInt,     \* the largest int
    UsedIds,    \* next_id_ of an empty graph that has been used before
    Unit,       \* what relative counts are measured in: a multiple of any size
    NaN,        \* 0.0 / 0.0
    NoStats     \* what stats holds before Graph::stats has filled it

\* (Adding a subscription takes two ids, and so does stats.)
ASSUME WalksAssumption ==
    /\ MaxInt \in Nat /\ MaxInt >= 3 /\ Unit \in Nat \ {0}
    /\ UsedIds \subseteq {2 * k : k \in 0 .. MaxInt \div 2}

ASSUME UnitAssumption == \A k \in 1 .. Cardinality(Sub) : Unit % k = 0

VARIABLES
    nextId,     \* next_id_
    last,       \* last_ of each node
    pubs,       \* pubs_
    tests,      \* tests_ of each node
    hits,       \* matches_ of each node
    depthMin,   \* depth_min_ of each node
    depthMax,   \* depth_max_ of each node
    testStats,  \* test_stats_
    matchStats, \* match_stats_
    stats,      \* the Graph::Stats of the caller
    task,       \* the operation under way, with its local variables
    freed       \* the nodes that the destructor has deleted

nodeStats == <<tests, hits, depthMin, depthMax>>
walkVars == <<nextId, last, pubs, nodeStats, testStats, matchStats, stats, task, freed>>

Idle == [op |-> "idle"]

-----------------------------------------------------------------------------
(* SmartCounter.                                                           *)

NoSamples == [samples |-> 0, total |-> 0, min |-> 0, max |-> 0]

\* Comparing with NaN is false either way.
Below(x, y) == NaN \notin {x, y} /\ x < y

AddSample(c, x) ==
    [samples |-> c.samples + 1,
     total |-> IF NaN \in {c.total, x} THEN NaN ELSE c.total + x,
     min |-> IF c.samples = 0 \/ Below(x, c.min) THEN x ELSE c.min,
     max |-> IF c.samples = 0 \/ Below(c.max, x) THEN x ELSE c.max]

\* k / size_
Relative(k) == IF size = 0 THEN NaN ELSE k * (Unit \div size)

\* k / pubs, in pubs-ths.
PerPub(k) == IF pubs = 0 THEN 0 ELSE k

\* What adding the samples of every node leaves (none of them is NaN).
Counter(samples) ==
    LET values == UNION {ToSet(samples[n]) : n \in DOMAIN samples}
        Over(f) == MapThenSumSet(LAMBDA n : f[n], DOMAIN samples)
    IN [samples |-> Over([n \in DOMAIN samples |-> Len(samples[n])]),
        total |-> Over([n \in DOMAIN samples |-> FoldLeft(+, 0, samples[n])]),
        min |-> IF values = {} THEN 0 ELSE Min(values),
        max |-> IF values = {} THEN 0 ELSE Max(values)]

-----------------------------------------------------------------------------
WalksInit ==
    /\ Init
    /\ nextId \in {0} \cup UsedIds /\ pubs = 0
    /\ last = [n \in Sub |-> 0]
    /\ tests = last /\ hits = last /\ depthMin = last /\ depthMax = last
    /\ testStats = NoSamples /\ matchStats = NoSamples
    /\ stats = NoStats
    /\ task = Idle
    /\ freed = {}

\* ++next_id_, of an int.  Bound: the ids have not come round.
Bump(n) == IF n = MaxInt THEN -MaxInt - 1 ELSE n + 1
NotComeRound == nextId \notin -3 .. -1

\* The nodes that a walk over all of the graph visits.
All == Reachable(roots, containees)

Marked(S, mark) == [n \in Sub |-> IF n \in S THEN mark ELSE last[n]]

\* Graph::add, with the marks of find_containers and find_containees.
AddMarked(s) ==
    /\ task = Idle /\ NotComeRound
    /\ \/ /\ AddDuplicate(s)
          /\ UNCHANGED <<nextId, last>>
       \/ /\ AddNode(s)
          /\ nextId' = Bump(Bump(nextId))
          /\ LET above == Reachable({r \in roots : Covers(r, s)},
                                    [n \in Sub |-> {c \in containees[n] : Covers(c, s)}])
                 below == Reachable({l \in leaves : Covers(s, l)},
                                    [n \in Sub |-> {c \in containers[n] : Covers(s, c)}])
             IN last' = [n \in Sub |-> IF n \in below THEN nextId'
                                       ELSE IF n \in above THEN Bump(nextId) ELSE last[n]]
    /\ stats' = NoStats
    /\ UNCHANGED <<pubs, nodeStats, testStats, matchStats, task, freed>>

\* Graph::remove; the node is deleted, with all it holds.
RemoveMarked(s) ==
    /\ task = Idle
    /\ RemoveDuplicate(s) \/ RemoveNode(s)
    /\ LET Kept(f) == [n \in Sub |-> IF n \in nodes' THEN f[n] ELSE 0]
       IN /\ last' = Kept(last) /\ tests' = Kept(tests) /\ hits' = Kept(hits)
          /\ depthMin' = Kept(depthMin) /\ depthMax' = Kept(depthMax)
    /\ stats' = NoStats
    /\ UNCHANGED <<nextId, pubs, testStats, matchStats, task, freed>>

-----------------------------------------------------------------------------
(* Graph::match                                                            *)

\* The candidates on the stack, each with the node that pushed it.
BeginMatch(e) ==
    /\ task = Idle /\ NotComeRound
    /\ pubs' = pubs + 1
    /\ nextId' = Bump(nextId)
    /\ task' = [op |-> "match", event |-> e, cands |-> {<<NoNode, r>> : r \in roots},
                test |-> 0, match |-> 0, subs |-> {}]
    /\ stats' = NoStats
    /\ UNCHANGED <<vars, last, nodeStats, testStats, matchStats, freed>>

\* (Slip: nobody marks what has been popped.)
MatchedNever(n, mark) == last[n] > mark

\* Node::matched
Matched(n, mark) == last[n] >= mark

\* A node that was reached from another container before is left alone.
PopMatched ==
    /\ task.op = "match"
    /\ \E c \in task.cands :
          /\ Matched(c[2], nextId)
          /\ task' = [task EXCEPT !.cands = @ \ {c}]
    /\ UNCHANGED <<vars, nextId, last, pubs, nodeStats, testStats, matchStats, stats, freed>>

PopCandidate ==
    /\ task.op = "match"
    /\ \E c \in task.cands :
          LET n == c[2]
              matches == <<n, task.event>> \in Matching
              rest == [task EXCEPT !.cands = @ \ {c}, !.test = @ + 1]
          IN /\ ~Matched(n, nextId)
             /\ last' = [last EXCEPT ![n] = nextId]
             /\ tests' = [tests EXCEPT ![n] = @ + 1]
             /\ IF matches
                THEN /\ task' = [rest EXCEPT !.cands = @ \cup {<<n, m>> : m \in containees[n]},
                                             !.match = @ + count[n],
                                             !.subs = @ \cup Entries(n)]
                     /\ hits' = [hits EXCEPT ![n] = @ + 1]
                ELSE task' = rest /\ UNCHANGED hits
    /\ UNCHANGED <<vars, nextId, pubs, depthMin, depthMax, testStats, matchStats, stats, freed>>

FinishMatch ==
    /\ task.op = "match" /\ task.cands = {}
    /\ testStats' = AddSample(testStats, Relative(task.test))
    /\ matchStats' = AddSample(matchStats, Relative(task.match))
    /\ reply' = [event |-> {task.event}, subs |-> task.subs, match |-> task.match]
    /\ task' = Idle
    /\ UNCHANGED <<structure, overriden, count, size, attr,
                   nextId, last, pubs, nodeStats, stats, freed>>

-----------------------------------------------------------------------------
(* Graph::stats                                                            *)

\* One more call under way: a node and the containees it has yet to call, if any.
Push(calls, call) == IF call.todo = {} THEN calls ELSE Append(calls, call)

\* (Slip: the depths of the last time stay.)
StartStatsAnew ==
    /\ task = Idle /\ NotComeRound
    /\ nextId' = Bump(nextId)
    /\ last' = Marked(All, nextId')
    /\ task' = [op |-> "stats", calls |-> Push(<<>>, [node |-> NoNode, todo |-> roots])]
    /\ stats' = NoStats
    /\ UNCHANGED <<vars, pubs, nodeStats, testStats, matchStats, freed>>

\* reset_stats from every root.
StartStats ==
    /\ task = Idle /\ NotComeRound
    /\ nextId' = Bump(nextId)
    /\ \E seen \in {All} :
          /\ last' = Marked(seen, nextId')
          /\ depthMin' = [n \in Sub |-> IF n \in seen THEN 0 ELSE depthMin[n]]
          /\ depthMax' = [n \in Sub |-> IF n \in seen THEN 0 ELSE depthMax[n]]
    /\ task' = [op |-> "stats", calls |-> Push(<<>>, [node |-> NoNode, todo |-> roots])]
    /\ stats' = NoStats
    /\ UNCHANGED <<vars, pubs, tests, hits, testStats, matchStats, freed>>

\* prepare_stats of one more node n, called for `parent`: it calls its own
\* containees when one of its depths has changed.
PrepareStats ==
    /\ task.op = "stats" /\ task.calls # <<>>
    /\ LET top == Last(task.calls)
           parent == top.node
       IN \E n \in top.todo :
          LET max == IF parent = NoNode THEN 1 ELSE depthMax[parent] + 1
              min == IF parent = NoNode THEN 1 ELSE depthMin[parent] + 1
              deeper == parent = NoNode \/ depthMax[n] = 0 \/ depthMax[n] < max
              nearer == parent = NoNode \/ depthMin[n] = 0 \/ depthMin[n] > min
              returned == [top EXCEPT !.todo = @ \ {n}]
              called == [node |-> n, todo |-> IF deeper \/ nearer THEN containees[n] ELSE {}]
          IN /\ depthMax' = [depthMax EXCEPT ![n] = IF deeper THEN max ELSE @]
             /\ depthMin' = [depthMin EXCEPT ![n] = IF nearer THEN min ELSE @]
             /\ task' = [task EXCEPT !.calls = Push(Push(Front(@), returned), called)]
    /\ UNCHANGED <<vars, nextId, last, pubs, tests, hits, testStats, matchStats, stats, freed>>

\* (Slip: a node counts once for all of its subscriptions.)
MatchSamplesOnce(n) == <<PerPub(hits[n])>>

\* What compute_stats adds for a node to stats.matches and to stats.tests.
MatchSamples(n) == [i \in 1 .. count[n] |-> PerPub(hits[n])]
TestSamples(n) == [i \in 1 .. count[n] |-> IF i = 1 THEN PerPub(tests[n]) ELSE 0]

\* compute_stats from every root.
ComputeStats ==
    /\ task.op = "stats" /\ task.calls = <<>>
    /\ nextId' = Bump(nextId)
    /\ \E seen \in {All} :
          /\ last' = Marked(seen, nextId')
          /\ stats' = [nodes |-> Cardinality(nodes), roots |-> Cardinality(roots),
                   leaves |-> Cardinality(leaves),
                   singletons |-> Cardinality({r \in roots : containees[r] = {}}),
                   depthMin |-> Counter([n \in seen |-> <<depthMin[n]>>]),
                   depthMax |-> Counter([n \in seen |-> <<depthMax[n]>>]),
                   containees |-> Counter([n \in seen |-> <<Cardinality(containees[n])>>]),
                   containers |-> Counter([n \in seen |-> <<Cardinality(containers[n])>>]),
                   count |-> Counter([n \in seen |-> <<count[n]>>]),
                   matches |-> Counter([n \in seen |-> MatchSamples(n)]),
                   tests |-> Counter([n \in seen |-> TestSamples(n)])]
    /\ task' = Idle
    /\ UNCHANGED <<vars, pubs, nodeStats, testStats, matchStats, freed>>

-----------------------------------------------------------------------------
(* Graph::~Graph and Node::clear                                           *)

BeginDelete ==
    /\ task = Idle
    /\ task' = [op |-> "delete", calls |-> <<>>, roots |-> roots]
    /\ UNCHANGED <<vars, nextId, last, pubs, nodeStats, testStats, matchStats, stats, freed>>

\* Clear the next root, or the next child of the node that is being cleared.
ClearNext ==
    /\ task.op = "delete"
    /\ IF task.calls = <<>>
       THEN \E r \in task.roots :
                task' = [task EXCEPT !.calls = <<r>>, !.roots = @ \ {r}]
       ELSE \E n \in containees[Last(task.calls)] :
                task' = [task EXCEPT !.calls = Append(@, n)]
    /\ UNCHANGED <<vars, nextId, last, pubs, nodeStats, testStats, matchStats, stats, freed>>

\* (Slip: the node stays among the children of its parents.)
DeleteSelfStillLinked ==
    /\ task.op = "delete" /\ task.calls # <<>>
    /\ containees[Last(task.calls)] = {}
    /\ freed' = freed \cup {Last(task.calls)}
    /\ task' = [task EXCEPT !.calls = Front(@)]
    /\ UNCHANGED <<vars, nextId, last, pubs, nodeStats, testStats, matchStats, stats>>

\* A node without children leaves its parents and is deleted by its caller.
DeleteSelf ==
    /\ task.op = "delete" /\ task.calls # <<>>
    /\ LET n == Last(task.calls)
       IN /\ containees[n] = {}
          /\ containees' = [m \in Sub |-> IF m \in containers[n] THEN containees[m] \ {n}
                                                                 ELSE containees[m]]
          /\ freed' = freed \cup {n}
    /\ task' = [task EXCEPT !.calls = Front(@)]
    /\ UNCHANGED <<nodes, containers, roots, leaves, overriden, count, size, attr, reply,
                   nextId, last, pubs, nodeStats, testStats, matchStats, stats>>

Deleted ==
    /\ task.op = "delete" /\ task.calls = <<>> /\ task.roots = {}
    /\ task' = [op |-> "deleted"]
    /\ UNCHANGED <<vars, nextId, last, pubs, nodeStats, testStats, matchStats, stats, freed>>

\* The operation under way goes on.
TaskNext ==
    \/ PopMatched \/ PopCandidate \/ FinishMatch
    \/ PrepareStats \/ ComputeStats
    \/ ClearNext \/ DeleteSelf \/ Deleted

\* Any use of the class: one operation after another.
Operation ==
    \/ \E s \in Sub : AddMarked(s) \/ RemoveMarked(s)
    \/ \E e \in Event : BeginMatch(e)
    \/ StartStats \/ BeginDelete

graphState == <<vars, walkVars>>

WalksNext == Operation \/ TaskNext

WalksSpec == WalksInit /\ [][WalksNext]_graphState

-----------------------------------------------------------------------------
\* A publication that overlooks some of the subscriptions.
LossyMatch(e) ==
    /\ reply'.event = {e}
    /\ \E found \in SUBSET MatchingNodes(e) :
          /\ reply'.subs = UNION {Entries(n) : n \in found}
          /\ reply'.match = MapThenSumSet(LAMBDA n : count[n], found)
    /\ UNCHANGED <<structure, overriden, count, size, attr>>

\* Step by step, in whatever order the candidates are popped and however many
\* containers push the same one, a publication gets the answer that module Graph
\* gives in one step, as long as next_id_ has not run over.  From then on marks of
\* before look newer than the id of a publication, which may overlook nodes; it
\* still counts none twice and none that does not match.
WalkImplementsMatch ==
    [][task.op = "match" =>
          \E e \in Event : IF nextId >= 0 THEN Match(e) ELSE LossyMatch(e)]_vars

\* After stats every node is one deeper than the deepest of its containers, and
\* one deeper than the least deep one, in whatever order the calls went and
\* whatever depths an earlier call has left.
DepthsExact ==
    stats # NoStats => \A n \in nodes :
        /\ depthMax[n] = 1 + Max({depthMax[p] : p \in containers[n]} \cup {0})
        /\ depthMin[n] = IF containers[n] = {} THEN 1
                         ELSE 1 + Min({depthMin[p] : p \in containers[n]})

\* While the destructor runs, no node that is still there points to a deleted
\* one below it, none is on its way to be cleared twice, and the containers that
\* a node will be removed from are there; at the end every node is deleted.
NoDanglingNode ==
    /\ \A n \in nodes \ freed : (containees[n] \cup containers[n]) \cap freed = {}
    /\ task.op = "delete" => (task.roots \cup ToSet(task.calls)) \cap freed = {}
    /\ task.op = "deleted" => freed = nodes
=============================================================================
