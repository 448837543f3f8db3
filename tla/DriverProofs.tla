----------------------------- MODULE DriverProofs -----------------------------
(***************************************************************************)
(* The traversals of the graph, step by step, among any operations of the  *)
(* class and for every graph: a publication finds what one look at the     *)
(* graph would find, stats ends with the depths of the graph, and the      *)
(* destructor follows no link to what it has deleted.                      *)
(* Then the program that uses the graph and the prefilter: whatever the    *)
(* files and the options, it uses the graph as those proofs have it, its   *)
(* test leaves nothing, the two engines agree, and what the statistics     *)
(* print of the samples is what the samples hold.                          *)
(***************************************************************************)
EXTENDS Driver, PreFilterProofs

-----------------------------------------------------------------------------
(* The inductive invariant.                                                *)

Deleting == task.op \in {"delete", "deleted"}

\* Until the ids have run over, no mark is newer than the latest id.
MarksOld ==
    /\ nextId \in Int /\ nextId # -1 /\ (task.op = "stats" => nextId # -2)
    /\ last \in [Sub -> Int]
    /\ nextId >= 0 => \A n \in Sub : last[n] <= nextId

TaskTyped ==
    /\ task.op \in {"idle", "match", "stats", "delete", "deleted"}
    /\ task.op = "idle" => task = Idle

\* Until it is deleted, the graph is as module Graph has it.
GraphPart == ~Deleting => CountInv /\ freed = {}

\* What a publication e has found, having visited the nodes in V.
FoundIn(V, e) == {n \in V : <<n, e>> \in Matching}

\* The nodes still on the stack.
Stacked == {c[2] : c \in task.cands}

\* What is counted belongs to the visited nodes that match.  No node is visited
\* twice, and while marks can be trusted, none that is not visited is marked, and
\* the next ones below the visited nodes are visited or on the stack.
Walked(V) ==
    /\ \A n \in V : last[n] = nextId
    /\ task.subs = UNION {Entries(n) : n \in FoundIn(V, task.event)}
    /\ task.match = Cardinality(Behind(FoundIn(V, task.event)))
    /\ nextId >= 0 =>
          /\ \A n \in nodes \ V : last[n] < nextId
          /\ roots \subseteq V \cup Stacked
          /\ \A n \in FoundIn(V, task.event) : containees[n] \subseteq V \cup Stacked

MatchPart ==
    task.op = "match" =>
        /\ task = [op |-> "match", event |-> task.event, cands |-> task.cands,
                   test |-> task.test, match |-> task.match, subs |-> task.subs]
        /\ task.event \in Event /\ Stacked \subseteq nodes
        /\ \E V \in SUBSET nodes : Walked(V)

\* prepare_stats is still to be called for n on behalf of p.
Due(p, n) == \E i \in 1 .. Len(task.calls) : task.calls[i].node = p /\ n \in task.calls[i].todo

CallsTyped ==
    /\ task = [op |-> "stats", calls |-> task.calls]
    /\ task.calls \in Seq([node : nodes \cup {NoNode}, todo : SUBSET nodes])
    /\ \A i \in 1 .. Len(task.calls) :
          LET f == task.calls[i]
          IN IF f.node = NoNode THEN f.todo \subseteq roots
             ELSE depthMax[f.node] # 0 /\ f.todo \subseteq containees[f.node]

Visited(n) == depthMax[n] # 0

\* A depth comes from a container.
DepthsReached ==
    \A n \in nodes :
        /\ depthMax[n] = 0 <=> depthMin[n] = 0
        /\ Visited(n) /\ containers[n] = {} => depthMax[n] = 1 /\ depthMin[n] = 1
        /\ Visited(n) /\ containers[n] # {} =>
              /\ \E p \in containers[n] : Visited(p) /\ depthMax[n] <= depthMax[p] + 1
              /\ \E p \in containers[n] : Visited(p) /\ depthMin[n] >= depthMin[p] + 1

\* A depth has been handed on to the containees, or will be.
DepthsHandedOn ==
    /\ \A r \in roots : Visited(r) \/ Due(NoNode, r)
    /\ \A p \in nodes : \A n \in containees[p] :
          Visited(p) => \/ Due(p, n)
                        \/ Visited(n) /\ depthMax[n] >= depthMax[p] + 1
                                      /\ depthMin[n] <= depthMin[p] + 1

StatsPart ==
    /\ depthMax \in [Sub -> Nat] /\ depthMin \in [Sub -> Nat]
    /\ task.op = "stats" =>
          stats = NoStats /\ CallsTyped /\ DepthsReached /\ DepthsHandedOn

\* While the graph is deleted: containers_ of the nodes that are left are as
\* they were, and containees_ have lost the nodes that were deleted.
LinksLeft ==
    /\ nodes \subseteq Sub /\ freed \subseteq nodes
    /\ containers \in [Sub -> SUBSET Sub] /\ containees \in [Sub -> SUBSET Sub]
    /\ \A a, b \in Sub : b \in containees[a] <=> a \in containers[b] /\ b \notin freed
    /\ \A a, b \in Sub : a \in containers[b] =>
          a \in nodes /\ b \in nodes /\ StrictlyCovers(a, b)
    /\ \A a \in freed : containees[a] = {}

\* The nodes that are being cleared are a path downwards; the roots are deleted,
\* on that path, or to be cleared later.
PathDown ==
    /\ task = [op |-> "delete", calls |-> task.calls, roots |-> task.roots]
    /\ task.calls \in Seq(nodes) /\ task.roots \subseteq nodes
    /\ \A r \in task.roots : containers[r] = {} /\ r \notin freed
    /\ \A i \in 1 .. Len(task.calls) : task.calls[i] \notin freed \cup task.roots
    /\ \A i, j \in 1 .. Len(task.calls) :
          i < j => StrictlyCovers(task.calls[i], task.calls[j])
    /\ \A n \in nodes : containers[n] = {} =>
          \/ n \in freed \cup task.roots
          \/ \E i \in 1 .. Len(task.calls) : task.calls[i] = n

DeletePart ==
    /\ Deleting => LinksLeft
    /\ task.op = "delete" => PathDown
    /\ task.op = "deleted" => freed = nodes

WalkInv ==
    /\ MarksOld /\ TaskTyped /\ GraphPart /\ MatchPart
    /\ StatsPart /\ DepthsExact /\ DeletePart

-----------------------------------------------------------------------------
(* Ids, depths and reachability.                                           *)

LEMMA BumpIs ==
    ASSUME NEW n \in Int
    PROVE  /\ Bump(n) \in Int
           /\ n < 0 => Bump(n) = n + 1
           /\ n >= 0 => Bump(n) = n + 1 \/ Bump(n) <= -4
BY WalksAssumption DEF Bump

\* Every node is below a root.
LEMMA AllNodes ==
    ASSUME TypeOK, Shape
    PROVE  nodes \subseteq All
<1> SUFFICES ASSUME nodes \ All # {}
             PROVE  FALSE
  OBVIOUS
<1>1. nodes \ All \in SUBSET Sub
  BY LinksFacts
<1>2. PICK m \in nodes \ All : \A x \in nodes \ All : ~StrictlyCovers(x, m)
  BY <1>1, Maximal
<1>3. m \in Sub /\ m \notin roots
  BY <1>1, <1>2, ReachGrows DEF All
<1>4. PICK p \in containers[m] : TRUE
  BY <1>2, <1>3, LinksFacts
<1>5. p \in nodes /\ p \in Sub /\ StrictlyCovers(p, m) /\ m \in containees[p]
  BY <1>3, <1>4, LinksFacts
<1>6. p \in All
  BY <1>2, <1>5
<1> QED
  BY <1>2, <1>3, <1>5, <1>6, ReachGrows DEF All

LEMMA MaxIs ==
    ASSUME NEW S \in SUBSET Int, NEW m \in S, \A x \in S : x <= m
    PROVE  Max(S) = m
<1>1. \A y \in S : (\A x \in S : y >= x) => y = m
  OBVIOUS
<1>2. \A x \in S : m >= x
  OBVIOUS
<1>3. Max(S) = CHOOSE y \in S : \A x \in S : y >= x
  BY Zenon DEF Max
<1> QED
  BY <1>1, <1>2, <1>3

LEMMA MinIs ==
    ASSUME NEW S \in SUBSET Int, NEW m \in S, \A x \in S : x >= m
    PROVE  Min(S) = m
<1>1. \A y \in S : (\A x \in S : y <= x) => y = m
  OBVIOUS
<1>2. \A x \in S : m <= x
  OBVIOUS
<1>3. Min(S) = CHOOSE y \in S : \A x \in S : y <= x
  BY Zenon DEF Min
<1> QED
  BY <1>1, <1>2, <1>3

\* Depths stay exact as long as what they are about stays.
LEMMA DepthsStay ==
    ASSUME DepthsExact,
           \/ stats' = NoStats
           \/ UNCHANGED <<stats, nodes, containers, depthMin, depthMax>>
    PROVE  DepthsExact'
<1>1. CASE stats' = NoStats
  BY <1>1 DEF DepthsExact
<1>2. CASE UNCHANGED <<stats, nodes, containers, depthMin, depthMax>>
  <2> SUFFICES ASSUME stats' # NoStats, NEW n \in nodes'
               PROVE  /\ depthMax'[n] = 1 + Max({depthMax'[p] : p \in containers'[n]} \cup {0})
                      /\ depthMin'[n] = IF containers'[n] = {} THEN 1
                                        ELSE 1 + Min({depthMin'[p] : p \in containers'[n]})
    BY DEF DepthsExact
  <2>1. /\ stats' = stats /\ nodes' = nodes /\ containers' = containers
        /\ depthMin' = depthMin /\ depthMax' = depthMax
    BY <1>2
  <2>2. /\ depthMax[n] = 1 + Max({depthMax[p] : p \in containers[n]} \cup {0})
        /\ depthMin[n] = IF containers[n] = {} THEN 1
                         ELSE 1 + Min({depthMin[p] : p \in containers[n]})
    BY <2>1 DEF DepthsExact
  <2> QED
    BY <2>1, <2>2
<1> QED
  BY <1>1, <1>2

\* What CountInv says, part by part.
LEMMA GraphFacts ==
    ASSUME CountInv
    PROVE  TypeOK /\ Shape /\ CountsExact /\ AttrExact
BY DEF CountInv, ShapeInv, TypeInv

LEMMA WalksInitial == WalksInit => WalkInv
<1> SUFFICES ASSUME WalksInit
             PROVE  WalkInv
  OBVIOUS
<1>1. CountInv
  BY TypeInit, ShapeInit, CountInit DEF WalksInit, CountInv, ShapeInv
<1>2. task = Idle /\ task.op = "idle" /\ freed = {}
  BY DEF WalksInit, Idle
<1>3. MarksOld
  BY <1>2, WalksAssumption DEF WalksInit, MarksOld
<1>4. depthMax = [n \in Sub |-> 0] /\ depthMin = [n \in Sub |-> 0] /\ stats = NoStats
  BY DEF WalksInit
<1> QED
  BY <1>1, <1>2, <1>3, <1>4
     DEF WalkInv, TaskTyped, GraphPart, MatchPart, StatsPart, DepthsExact, DeletePart, Deleting

-----------------------------------------------------------------------------
(* The operations begin.                                                   *)

\* With no operation under way, only the marks, the graph and the depths matter.
LEMMA IdleInv ==
    ASSUME task' = Idle, MarksOld', CountInv', freed' = {}, DepthsExact',
           depthMax' \in [Sub -> Nat], depthMin' \in [Sub -> Nat]
    PROVE  WalkInv'
<1>1. task'.op = "idle"
  BY DEF Idle
<1> QED
  BY <1>1 DEF WalkInv, TaskTyped, GraphPart, MatchPart, StatsPart, DeletePart, Deleting

LEMMA AddMarkedKeeps ==
    ASSUME WalkInv, NEW s \in Sub, AddMarked(s)
    PROVE  WalkInv'
<1>1. /\ task = Idle /\ task.op = "idle" /\ UNCHANGED <<task, freed, depthMin, depthMax>>
      /\ NotComeRound /\ stats' = NoStats
  BY DEF AddMarked, Idle, nodeStats
<1>2. CountInv /\ freed = {}
  BY <1>1 DEF WalkInv, GraphPart, Deleting
<1>3. Next
  BY DEF AddMarked, Next, RouterNext
<1>4. CountInv'
  BY <1>2, <1>3, CountStep
<1>5. /\ nextId \in Int /\ last \in [Sub -> Int] /\ nextId \notin -3 .. -1
      /\ nextId >= 0 => \A n \in Sub : last[n] <= nextId
  BY <1>1 DEF WalkInv, MarksOld, NotComeRound
<1>6. MarksOld'
  <2>1. CASE UNCHANGED <<nextId, last>>
    BY <1>1, <1>5, <2>1 DEF MarksOld
  <2>2. CASE nextId' = Bump(Bump(nextId))
    <3> DEFINE first == Bump(nextId)
    <3>1. /\ first \in Int
          /\ nextId < 0 => first = nextId + 1
          /\ nextId >= 0 => first = nextId + 1 \/ first <= -4
      BY <1>5, BumpIs
    <3>2. /\ nextId' \in Int
          /\ first < 0 => nextId' = first + 1
          /\ first >= 0 => nextId' = first + 1 \/ nextId' <= -4
      BY <2>2, <3>1, BumpIs
    <3>3. \/ UNCHANGED last
          \/ \E above, below : last' = [n \in Sub |-> IF n \in below THEN nextId'
                                                   ELSE IF n \in above THEN first ELSE last[n]]
      BY DEF AddMarked
    <3> HIDE DEF first
    <3>4. last' \in [Sub -> Int]
      BY <1>5, <3>1, <3>2, <3>3
    <3>5. nextId' # -1 /\ (nextId' >= 0 => nextId >= 0 /\ first = nextId + 1 /\ nextId' = nextId + 2)
      BY <1>5, <3>1, <3>2
    <3>6. nextId' >= 0 => \A n \in Sub : last'[n] <= nextId'
      BY <1>5, <3>3, <3>5
    <3> QED
      BY <1>1, <3>2, <3>4, <3>5, <3>6 DEF MarksOld
  <2> QED
    BY <2>1, <2>2 DEF AddMarked
<1>7. DepthsExact'
  BY <1>1, DepthsStay DEF WalkInv
<1> QED
  BY <1>1, <1>2, <1>4, <1>6, <1>7, IdleInv DEF WalkInv, StatsPart

LEMMA RemoveMarkedKeeps ==
    ASSUME WalkInv, NEW s \in Sub, RemoveMarked(s)
    PROVE  WalkInv'
<1>1. /\ task = Idle /\ task.op = "idle" /\ UNCHANGED <<task, freed, nextId>>
      /\ stats' = NoStats
  BY DEF RemoveMarked, Idle
<1>2. CountInv /\ freed = {}
  BY <1>1 DEF WalkInv, GraphPart, Deleting
<1>3. Next
  BY DEF RemoveMarked, Next
<1>4. CountInv'
  BY <1>2, <1>3, CountStep
<1>5. /\ last' = [n \in Sub |-> IF n \in nodes' THEN last[n] ELSE 0]
      /\ depthMin' = [n \in Sub |-> IF n \in nodes' THEN depthMin[n] ELSE 0]
      /\ depthMax' = [n \in Sub |-> IF n \in nodes' THEN depthMax[n] ELSE 0]
  BY DEF RemoveMarked
<1>6. MarksOld'
  BY <1>1, <1>5 DEF WalkInv, MarksOld
<1>7. DepthsExact'
  BY <1>1, DepthsStay DEF WalkInv
<1>8. depthMax' \in [Sub -> Nat] /\ depthMin' \in [Sub -> Nat]
  BY <1>5 DEF WalkInv, StatsPart
<1> QED
  BY <1>1, <1>2, <1>4, <1>6, <1>7, <1>8, IdleInv

\* An operation under way keeps the graph.
LEMMA Unchanged ==
    ASSUME WalkInv, ~Deleting, UNCHANGED vars
    PROVE  CountInv /\ CountInv' /\ freed = {}
<1>1. CountInv /\ freed = {}
  BY DEF WalkInv, GraphPart
<1> QED
  BY <1>1, CountStep

LEMMA NextMark ==
    ASSUME MarksOld, nextId' = Bump(nextId), NotComeRound
    PROVE  /\ nextId' \in Int /\ nextId' \notin {-1, -2}
           /\ nextId' >= 0 => \A n \in Sub : last[n] < nextId'
<1>1. /\ nextId \in Int /\ last \in [Sub -> Int] /\ nextId \notin -3 .. -1
      /\ nextId >= 0 => \A n \in Sub : last[n] <= nextId
  BY DEF MarksOld, NotComeRound
<1>2. /\ nextId' \in Int
      /\ nextId < 0 => nextId' = nextId + 1
      /\ nextId >= 0 => nextId' = nextId + 1 \/ nextId' <= -4
  BY <1>1, BumpIs
<1>3. nextId' \notin {-1, -2} /\ (nextId' >= 0 => nextId >= 0 /\ nextId' = nextId + 1)
  BY <1>1, <1>2
<1>4. \A n \in Sub : last[n] \in Int
  BY <1>1
<1>5. nextId' >= 0 => \A n \in Sub : last[n] < nextId'
  BY <1>1, <1>3, <1>4
<1> QED
  BY <1>2, <1>3, <1>5

LEMMA BeginMatchKeeps ==
    ASSUME WalkInv, NEW e \in Event, BeginMatch(e)
    PROVE  WalkInv'
<1>1. /\ task.op = "idle" /\ NotComeRound /\ nextId' = Bump(nextId) /\ stats' = NoStats
      /\ task' = [op |-> "match", event |-> e, cands |-> {<<NoNode, r>> : r \in roots},
                  test |-> 0, match |-> 0, subs |-> {}]
      /\ UNCHANGED <<vars, last, freed, depthMin, depthMax>>
  BY DEF BeginMatch, Idle, nodeStats
<1>2. ~Deleting /\ ~Deleting' /\ task'.op = "match"
  BY <1>1 DEF Deleting
<1>3. CountInv /\ CountInv' /\ freed = {}
  BY <1>1, <1>2, Unchanged
<1>4. /\ nextId' \in Int /\ nextId' \notin {-1, -2}
      /\ nextId' >= 0 => \A n \in Sub : last[n] < nextId'
  BY <1>1, NextMark DEF WalkInv
<1>5. MarksOld'
  <2>1. last' \in [Sub -> Int] /\ \A n \in Sub : last[n] \in Int /\ last'[n] = last[n]
    BY <1>1 DEF WalkInv, MarksOld
  <2> QED
    BY <1>2, <1>4, <2>1 DEF MarksOld
<1>6. MatchPart'
  <2>1. /\ task' = [op |-> "match", event |-> task'.event, cands |-> task'.cands,
                    test |-> task'.test, match |-> task'.match, subs |-> task'.subs]
        /\ task'.event = e /\ task'.subs = {} /\ task'.match = 0
        /\ task'.cands = {<<NoNode, r>> : r \in roots}
    BY <1>1
  <2>2. Stacked' = roots' /\ roots' \subseteq nodes'
    <3>1. {c[2] : c \in {<<NoNode, r>> : r \in roots}} = roots
      <4>1. \A r \in roots : <<NoNode, r>>[2] = r /\ <<NoNode, r>> \in {<<NoNode, q>> : q \in roots}
        OBVIOUS
      <4> QED
        BY <4>1
    <3>2. Stacked' = roots
      BY <2>1, <3>1 DEF Stacked
    <3>3. roots \subseteq nodes /\ roots' = roots /\ nodes' = nodes
      BY <1>1, <1>3, GraphFacts, LinksFacts DEF vars, structure
    <3> QED
      BY <3>2, <3>3
  <2>3. FoundIn({}, e) = {} /\ Cardinality(Behind({})') = 0
    <3>1. Behind({})' = {}
      BY DEF Behind
    <3> QED
      BY <3>1, FS_EmptySet DEF FoundIn
  <2>4. \A n \in nodes' : last'[n] < nextId' \/ nextId' < 0
    <3>1. nodes' = nodes /\ nodes \subseteq Sub /\ last' = last
      BY <1>1, <1>3, GraphFacts, LinksFacts DEF vars, structure
    <3> QED
      BY <1>4, <3>1
  <2>5. Walked({})'
    BY SMTT(20), <2>1, <2>2, <2>3, <2>4, <1>4 DEF Walked
  <2> QED
    BY <2>1, <2>2, <2>5 DEF MatchPart
<1>7. DepthsExact'
  BY <1>1, DepthsStay DEF WalkInv
<1> QED
  BY <1>1, <1>2, <1>3, <1>5, <1>6, <1>7
     DEF WalkInv, TaskTyped, GraphPart, StatsPart, DeletePart, Deleting

\* A candidate is popped, and perhaps its containees are pushed.
LEMMA Popped ==
    ASSUME MatchPart, task.op = "match", NEW c \in task.cands,
           NEW cands, NEW test, NEW match, NEW entries,
           task' = [task EXCEPT !.cands = cands, !.test = test, !.match = match, !.subs = entries]
    PROVE  /\ task' = [op |-> "match", event |-> task.event, cands |-> cands,
                       test |-> test, match |-> match, subs |-> entries]
           /\ task' = [op |-> "match", event |-> task'.event, cands |-> task'.cands,
                       test |-> task'.test, match |-> task'.match, subs |-> task'.subs]
           /\ task.event \in Event /\ c[2] \in Stacked /\ c[2] \in nodes
BY DEF MatchPart, Stacked

LEMMA PopMatchedKeeps ==
    ASSUME WalkInv, PopMatched
    PROVE  WalkInv'
<1>1. PICK c \in task.cands : Matched(c[2], nextId) /\ task' = [task EXCEPT !.cands = @ \ {c}]
  BY DEF PopMatched
<1>2. /\ task.op = "match" /\ MatchPart /\ ~Deleting
      /\ UNCHANGED <<vars, nextId, last, freed, stats, depthMin, depthMax>>
  BY DEF WalkInv, PopMatched, Deleting, nodeStats
<1>3. CountInv /\ CountInv' /\ freed = {}
  BY <1>2, Unchanged
<1>4. nodes \subseteq Sub /\ nextId \in Int /\ last \in [Sub -> Int]
  BY <1>3, GraphFacts, LinksFacts DEF WalkInv, MarksOld
<1>5. task' = [task EXCEPT !.cands = task.cands \ {c}, !.test = task.test,
                           !.match = task.match, !.subs = task.subs]
  BY <1>1, <1>2 DEF MatchPart
<1>6. /\ task' = [op |-> "match", event |-> task.event, cands |-> task.cands \ {c},
                  test |-> task.test, match |-> task.match, subs |-> task.subs]
      /\ task' = [op |-> "match", event |-> task'.event, cands |-> task'.cands,
                  test |-> task'.test, match |-> task'.match, subs |-> task'.subs]
      /\ task.event \in Event /\ c[2] \in Stacked /\ c[2] \in nodes
  BY <1>2, <1>5, Popped
<1>7. MatchPart'
  <2>1. PICK V \in SUBSET nodes : Walked(V)
    BY <1>2 DEF MatchPart
  <2>2. Stacked' \subseteq Stacked /\ Stacked \subseteq Stacked' \cup {c[2]}
    BY <1>6 DEF Stacked
  <2>3. nextId >= 0 => c[2] \in V
    <3>1. last[c[2]] >= nextId /\ last[c[2]] \in Int
      BY <1>1, <1>4, <1>6 DEF Matched
    <3> QED
      BY <1>4, <1>6, <2>1, <3>1 DEF Walked
  <2>4. /\ \A n : Entries(n)' = Entries(n)
        /\ \A T : Behind(T)' = Behind(T)
        /\ UNCHANGED <<nodes, roots, containees, nextId, last>>
    BY <1>2 DEF vars, structure, Entries, Behind, Live
  <2>5. UNION {Entries(n)' : n \in FoundIn(V, task.event)}
          = UNION {Entries(n) : n \in FoundIn(V, task.event)}
    BY <2>4
  <2>6. task'.subs = task.subs /\ task'.match = task.match /\ task'.event = task.event
    BY <1>6
  <2>7. Walked(V)'
    BY <2>1, <2>2, <2>3, <2>4, <2>5, <2>6 DEF Walked
  <2>8. Stacked' \subseteq nodes'
    BY <1>2, <2>2, <2>4 DEF MatchPart
  <2> QED
    BY <1>6, <2>4, <2>6, <2>7, <2>8 DEF MatchPart
<1>8. task'.op = "match"
  BY <1>6
<1>9. MarksOld' /\ DepthsExact'
  BY <1>2, <1>8, DepthsStay DEF WalkInv, MarksOld, vars, structure
<1> QED
  BY <1>2, <1>3, <1>7, <1>8, <1>9
     DEF WalkInv, TaskTyped, GraphPart, StatsPart, DeletePart, Deleting

\* One more node brings as many subscriptions as it counts.
LEMMA OneMore ==
    ASSUME CountInv, NEW T \in SUBSET nodes, NEW n \in nodes \ T
    PROVE  Cardinality(Behind(T \cup {n})) = Cardinality(Behind(T)) + count[n]
<1> DEFINE A == Behind(T)
           B == Class(n)
           C == Behind(T \cup {n})
<1>1. C = A \cup B /\ A \cap B = {}
  BY DEF Behind, Class
<1>2. IsFiniteSet(A) /\ IsFiniteSet(B)
  BY ClassesFinite, FS_Subset DEF Behind
<1>3. count[n] = Cardinality(B)
  BY GraphFacts DEF CountsExact, Class
<1> SUFFICES Cardinality(C) = Cardinality(A) + count[n]
  OBVIOUS
<1> HIDE DEF A, B, C
<1>4. Cardinality(A) \in Nat /\ Cardinality(B) \in Nat
  BY <1>2, FS_CardinalityType
<1>5. Cardinality(A \cup B) = Cardinality(A) + Cardinality(B) - Cardinality(A \cap B)
  BY <1>2, FS_Union
<1>6. Cardinality(A \cap B) = 0
  BY <1>1, FS_EmptySet
<1> QED
  BY <1>1, <1>3, <1>4, <1>5, <1>6

LEMMA PopCandidateKeeps ==
    ASSUME WalkInv, PopCandidate
    PROVE  WalkInv'
<1> DEFINE e == task.event
<1>1. /\ task.op = "match" /\ MatchPart /\ ~Deleting
      /\ UNCHANGED <<vars, nextId, freed, stats, depthMin, depthMax>>
  BY DEF WalkInv, PopCandidate, Deleting
<1>2. PICK c \in task.cands :
         /\ ~Matched(c[2], nextId)
         /\ last' = [last EXCEPT ![c[2]] = nextId]
         /\ IF <<c[2], e>> \in Matching
            THEN task' = [task EXCEPT
                            !.cands = (task.cands \ {c}) \cup {<<c[2], m>> : m \in containees[c[2]]},
                            !.test = task.test + 1,
                            !.match = task.match + count[c[2]],
                            !.subs = task.subs \cup Entries(c[2])]
            ELSE task' = [task EXCEPT !.cands = task.cands \ {c}, !.test = task.test + 1,
                                      !.match = task.match, !.subs = task.subs]
  <2>1. PICK c \in task.cands :
          LET n == c[2]
              rest == [task EXCEPT !.cands = @ \ {c}, !.test = @ + 1]
          IN /\ ~Matched(n, nextId)
             /\ last' = [last EXCEPT ![n] = nextId]
             /\ IF <<n, e>> \in Matching
                THEN task' = [rest EXCEPT !.cands = @ \cup {<<n, m>> : m \in containees[n]},
                                          !.match = @ + count[n],
                                          !.subs = @ \cup Entries(n)]
                ELSE task' = rest
    BY DEF PopCandidate
  <2>2. task = [op |-> "match", event |-> task.event, cands |-> task.cands,
                test |-> task.test, match |-> task.match, subs |-> task.subs]
    BY <1>1 DEF MatchPart
  <2> QED
    BY ZenonT(20), <2>1, <2>2
<1> DEFINE n == c[2]
           matches == <<n, e>> \in Matching
           pushed == IF matches THEN containees[n] ELSE {}
<1>3. CountInv /\ CountInv' /\ freed = {}
  BY <1>1, Unchanged
<1>4. /\ nodes \subseteq Sub /\ nextId \in Int /\ last \in [Sub -> Int]
      /\ \A a \in Sub : containees[a] \subseteq nodes
  BY <1>3, GraphFacts, LinksFacts DEF WalkInv, MarksOld
<1>5. /\ task' = [op |-> "match", event |-> task'.event, cands |-> task'.cands,
                  test |-> task'.test, match |-> task'.match, subs |-> task'.subs]
      /\ task'.op = "match" /\ task'.event = e
      /\ e \in Event /\ n \in Stacked /\ n \in nodes /\ c \in task.cands
      /\ task'.cands = (task.cands \ {c}) \cup {<<n, m>> : m \in pushed}
      /\ task'.match = IF matches THEN task.match + count[n] ELSE task.match
      /\ task'.subs = IF matches THEN task.subs \cup Entries(n) ELSE task.subs
  <2>1. CASE matches
    <3> DEFINE cands == (task.cands \ {c}) \cup {<<c[2], m>> : m \in containees[c[2]]}
    <3>1. task' = [task EXCEPT !.cands = cands, !.test = task.test + 1,
                               !.match = task.match + count[c[2]],
                               !.subs = task.subs \cup Entries(c[2])]
      BY <1>2, <2>1
    <3> HIDE DEF cands
    <3>2. /\ task' = [op |-> "match", event |-> task.event, cands |-> cands,
                      test |-> task.test + 1, match |-> task.match + count[c[2]],
                      subs |-> task.subs \cup Entries(c[2])]
          /\ task' = [op |-> "match", event |-> task'.event, cands |-> task'.cands,
                      test |-> task'.test, match |-> task'.match, subs |-> task'.subs]
          /\ task.event \in Event /\ c[2] \in Stacked /\ c[2] \in nodes
      BY <1>1, <3>1, Popped
    <3>3. task'.cands = cands /\ task'.match = task.match + count[c[2]]
          /\ task'.subs = task.subs \cup Entries(c[2]) /\ task'.op = "match"
          /\ task'.event = task.event
      BY <3>2
    <3> QED
      BY <2>1, <3>2, <3>3 DEF cands
  <2>2. CASE ~matches
    <3> DEFINE cands == task.cands \ {c}
    <3>1. task' = [task EXCEPT !.cands = cands, !.test = task.test + 1,
                               !.match = task.match, !.subs = task.subs]
      BY <1>2, <2>2
    <3> HIDE DEF cands
    <3>2. /\ task' = [op |-> "match", event |-> task.event, cands |-> cands,
                      test |-> task.test + 1, match |-> task.match, subs |-> task.subs]
          /\ task' = [op |-> "match", event |-> task'.event, cands |-> task'.cands,
                      test |-> task'.test, match |-> task'.match, subs |-> task'.subs]
          /\ task.event \in Event /\ c[2] \in Stacked /\ c[2] \in nodes
      BY <1>1, <3>1, Popped
    <3>3. task'.cands = cands /\ task'.match = task.match /\ task'.subs = task.subs
          /\ task'.op = "match" /\ task'.event = task.event
      BY <3>2
    <3> QED
      BY <2>2, <3>2, <3>3 DEF cands
  <2> QED
    BY <2>1, <2>2
<1>6. /\ n \in Sub /\ last[n] < nextId /\ last[n] \in Int /\ last'[n] = nextId
      /\ \A m \in Sub \ {n} : last'[m] = last[m]
      /\ last' \in [Sub -> Int]
  BY <1>2, <1>4, <1>5 DEF Matched
<1>7. PICK V \in SUBSET nodes : Walked(V)
  BY <1>1 DEF MatchPart
<1>8. n \notin V
  BY <1>4, <1>6, <1>7 DEF Walked
<1>9. Stacked' = {k[2] : k \in task.cands \ {c}} \cup pushed /\ Stacked \subseteq Stacked' \cup {n}
  <2>1. \A m \in pushed : <<n, m>> \in task'.cands /\ <<n, m>>[2] = m
    BY <1>5
  <2>2. \A k \in task'.cands : k \in task.cands \ {c} \/ (\E m \in pushed : k = <<n, m>> /\ k[2] = m)
    BY <1>5
  <2>3. task.cands \ {c} \subseteq task'.cands
    BY <1>5
  <2> HIDE DEF pushed, n
  <2> DEFINE left == {k[2] : k \in task.cands \ {c}}
  <2>4. Stacked' = left \cup pushed
    <3>1. ASSUME NEW m \in Stacked'
          PROVE  m \in left \cup pushed
      BY <2>2 DEF Stacked
    <3>2. ASSUME NEW m \in left
          PROVE  m \in Stacked'
      BY <2>3 DEF Stacked
    <3>3. ASSUME NEW m \in pushed
          PROVE  m \in Stacked'
      BY <2>1 DEF Stacked
    <3> QED
      BY <3>1, <3>2, <3>3
  <2>5. Stacked \subseteq {k[2] : k \in task.cands \ {c}} \cup {n}
    BY DEF Stacked, n
  <2> QED
    BY <2>4, <2>5
<1>10. /\ \A m : Entries(m)' = Entries(m)
       /\ \A T : Behind(T)' = Behind(T)
       /\ UNCHANGED <<nodes, roots, containees, nextId>>
  BY <1>1 DEF vars, structure, Entries, Behind, Live
<1> DEFINE W == V \cup {n}
<1>11. FoundIn(W, e) = IF matches THEN FoundIn(V, e) \cup {n} ELSE FoundIn(V, e)
  BY DEF FoundIn
<1>12. pushed \subseteq nodes /\ Stacked' \subseteq nodes'
  <2>1. pushed \subseteq nodes
    BY <1>4, <1>6
  <2>2. {k[2] : k \in task.cands \ {c}} \subseteq nodes
    BY <1>1 DEF MatchPart, Stacked
  <2> QED
    BY <1>9, <1>10, <2>1, <2>2
<1> HIDE DEF n
<1>13. Walked(W)'
  <2>1. \A m \in W : last'[m] = nextId'
    BY <1>4, <1>6, <1>7, <1>10 DEF Walked
  <2>2. task'.subs = UNION {Entries(m)' : m \in FoundIn(W, e)}
    <3>1. task.subs = UNION {Entries(m) : m \in FoundIn(V, e)}
      BY <1>7 DEF Walked
    <3>2. CASE matches
      BY <1>5, <1>10, <1>11, <3>1, <3>2
    <3>3. CASE ~matches
      BY <1>5, <1>10, <1>11, <3>1, <3>3
    <3> QED
      BY <3>2, <3>3
  <2>3. task'.match = Cardinality(Behind(FoundIn(W, e))')
    <3>1. task.match = Cardinality(Behind(FoundIn(V, e)))
      BY <1>7 DEF Walked
    <3>2. FoundIn(V, e) \in SUBSET nodes /\ n \in nodes \ FoundIn(V, e)
      BY <1>5, <1>7, <1>8 DEF FoundIn
    <3>3. Cardinality(Behind(FoundIn(V, e) \cup {n})) = Cardinality(Behind(FoundIn(V, e))) + count[n]
      BY <1>3, <3>2, OneMore
    <3> QED
      BY <1>5, <1>10, <1>11, <3>1, <3>3
  <2>4. ASSUME nextId >= 0
        PROVE  /\ \A m \in nodes \ W : last'[m] < nextId
               /\ roots \subseteq W \cup Stacked'
               /\ \A m \in FoundIn(W, e) : containees[m] \subseteq W \cup Stacked'
    <3>1. \A m \in nodes \ W : last'[m] < nextId
      BY <1>4, <1>6, <1>7, <2>4 DEF Walked
    <3>2. V \cup Stacked \subseteq W \cup Stacked'
      BY <1>9
    <3>3. roots \subseteq W \cup Stacked'
      BY <1>7, <2>4, <3>2 DEF Walked
    <3>4. ASSUME NEW m \in FoundIn(W, e)
          PROVE  containees[m] \subseteq W \cup Stacked'
      <4>1. CASE m \in FoundIn(V, e)
        BY <1>7, <2>4, <3>2, <4>1 DEF Walked
      <4>2. CASE m = n /\ matches
        BY <1>9, <4>2
      <4> QED
        BY <1>11, <4>1, <4>2
    <3> QED
      BY <3>1, <3>3, <3>4
  <2> QED
    BY <1>5, <1>10, <2>1, <2>2, <2>3, <2>4 DEF Walked
<1>14. MatchPart'
  BY <1>5, <1>7, <1>10, <1>12, <1>13 DEF MatchPart
<1>15. MarksOld'
  BY <1>4, <1>5, <1>6, <1>10 DEF WalkInv, MarksOld
<1>16. DepthsExact'
  BY <1>1, DepthsStay DEF WalkInv, vars, structure
<1> QED
  BY <1>1, <1>3, <1>5, <1>14, <1>15, <1>16
     DEF WalkInv, TaskTyped, GraphPart, StatsPart, DeletePart, Deleting

\* What the visited nodes that match bring is the answer, or a part of it.
LEMMA FinishAnswers ==
    ASSUME CountInv, MatchPart, task.op = "match", nextId \in Int, FinishMatch
    PROVE  /\ task.event \in Event
           /\ IF nextId >= 0 THEN Match(task.event) ELSE LossyMatch(task.event)
<1> DEFINE e == task.event
<1>1. /\ task.cands = {} /\ e \in Event
      /\ reply' = [event |-> {e}, subs |-> task.subs, match |-> task.match]
      /\ UNCHANGED <<structure, overriden, count, size, attr>>
  BY DEF FinishMatch, MatchPart
<1>2. PICK V \in SUBSET nodes : Walked(V)
  BY DEF MatchPart
<1> DEFINE F == FoundIn(V, e)
<1>3. nodes \subseteq Sub /\ roots \subseteq nodes
  BY GraphFacts, LinksFacts
<1>4. MatchingNodes(e) = {n \in nodes : <<n, e>> \in Matching}
  BY <1>1, GraphFacts, MatchReaches
<1>5. F \subseteq MatchingNodes(e)
  BY <1>4 DEF FoundIn
<1>6. F \in SUBSET nodes /\ IsFiniteSet(F)
  <2>1. F \subseteq Sub
    BY <1>3 DEF FoundIn
  <2> QED
    BY <2>1, GraphAssumption, FS_Subset DEF FoundIn
<1>7. task.subs = UNION {Entries(n) : n \in F} /\ task.match = MapThenSumSet(LAMBDA n : count[n], F)
  <2>1. task.subs = UNION {Entries(n) : n \in F} /\ task.match = Cardinality(Behind(F))
    BY <1>2 DEF Walked
  <2>2. SumOf(count, F) = Cardinality(Behind(F))
    BY <1>6, GraphFacts, CountsAdd
  <2>3. SumOf(count, F) = MapThenSumSet(LAMBDA n : count[n], F)
    BY Zenon DEF SumOf
  <2> QED
    BY <2>1, <2>2, <2>3
<1>8. CASE nextId >= 0
  <2>1. MatchingNodes(e) \subseteq F
    <3> DEFINE next == [n \in Sub |-> IF <<n, e>> \in Matching THEN containees[n] ELSE {}]
    <3>1. Stacked = {}
      BY <1>1 DEF Stacked
    <3>2. roots \subseteq V /\ \A n \in F : containees[n] \subseteq V
      BY <1>2, <1>8, <3>1 DEF Walked
    <3>3. \A n \in V : next[n] \subseteq V
      BY <1>3, <3>2 DEF FoundIn
    <3>4. V \in SUBSET Sub
      BY <1>3
    <3> HIDE DEF next
    <3>5. Reachable(roots, next) \subseteq V
      BY <3>2, <3>3, <3>4, ReachLeast
    <3> QED
      BY <1>4, <3>5 DEF next, MatchingNodes, Tested, FoundIn
  <2>2. F = MatchingNodes(e)
    BY <1>5, <2>1
  <2> HIDE DEF F
  <2>3. Match(e)
    BY <1>1, <1>7, <2>2, Zenon DEF Match
  <2> QED
    BY <1>1, <1>8, <2>3
<1>9. CASE ~(nextId >= 0)
  <2>1. reply'.event = {e} /\ reply'.subs = task.subs /\ reply'.match = task.match
    BY <1>1
  <2> HIDE DEF F
  <2>2. LossyMatch(e)
    BY <1>1, <1>5, <1>7, <2>1, Zenon DEF LossyMatch
  <2> QED
    BY <1>1, <1>9, <2>2
<1> QED
  BY <1>8, <1>9

LEMMA FinishMatchKeeps ==
    ASSUME WalkInv, FinishMatch
    PROVE  WalkInv'
<1>1. /\ task.op = "match" /\ MatchPart /\ ~Deleting /\ task' = Idle /\ task'.op = "idle"
      /\ UNCHANGED <<structure, overriden, count, size, attr,
                     nextId, last, freed, stats, depthMin, depthMax>>
      /\ reply' = [event |-> {task.event}, subs |-> task.subs, match |-> task.match]
  BY DEF WalkInv, FinishMatch, Deleting, nodeStats, Idle
<1>2. CountInv /\ freed = {}
  BY <1>1 DEF WalkInv, GraphPart
<1>3. ASSUME NEW n \in nodes
      PROVE  Entries(n) \subseteq Sub
  <2>1. n \in Sub /\ count[n] \in Int /\ overriden[n] \in Seq(Sub) /\ count[n] - 1 <= Len(overriden[n])
    BY <1>2 DEF CountInv, ShapeInv, TypeInv, TypeOK, EntriesInRange
  <2> QED
    BY <2>1 DEF Entries
<1>4. reply'.event \subseteq Event /\ reply'.subs \subseteq Sub
  <2>1. PICK V \in SUBSET nodes : task.subs = UNION {Entries(n) : n \in FoundIn(V, task.event)}
    BY <1>1 DEF MatchPart, Walked
  <2>2. FoundIn(V, task.event) \subseteq nodes
    BY DEF FoundIn
  <2> QED
    BY <1>1, <1>3, <2>1, <2>2 DEF MatchPart
<1>5. CountInv'
  <2>1. TypeInv'
    BY <1>1, <1>2, <1>4
       DEF CountInv, ShapeInv, TypeInv, TypeOK, EntriesInRange, CountsPositive, structure
  <2>2. Shape'
    BY <1>1, <1>2, GraphFacts, ShapeUnchanged
  <2>3. AttrExact' /\ CountsExact'
    BY <1>1, <1>2 DEF CountInv, AttrExact, CountsExact, Live, structure
  <2> QED
    BY <2>1, <2>2, <2>3 DEF CountInv, ShapeInv
<1>6. MarksOld' /\ DepthsExact'
  BY <1>1, DepthsStay DEF WalkInv, MarksOld, structure
<1> QED
  BY <1>1, <1>2, <1>5, <1>6, IdleInv DEF WalkInv, StatsPart

-----------------------------------------------------------------------------
(* Graph::stats                                                            *)

\* All that a walk visits gets a new mark.
LEMMA NewMarks ==
    ASSUME MarksOld, nextId # -2, nextId' = Bump(nextId), NEW seen, last' = Marked(seen, nextId')
    PROVE  /\ nextId' \in Int /\ nextId' # -1 /\ (NotComeRound => nextId' # -2)
           /\ last' \in [Sub -> Int]
           /\ nextId' >= 0 => \A n \in Sub : last'[n] <= nextId'
<1>1. /\ nextId \in Int /\ nextId # -1 /\ last \in [Sub -> Int]
      /\ nextId >= 0 => \A n \in Sub : last[n] <= nextId
  BY DEF MarksOld
<1>2. /\ nextId' \in Int
      /\ nextId < 0 => nextId' = nextId + 1
      /\ nextId >= 0 => nextId' = nextId + 1 \/ nextId' <= -4
  BY <1>1, BumpIs
<1>3. /\ nextId' # -1 /\ (NotComeRound => nextId' # -2)
      /\ nextId' >= 0 => nextId >= 0 /\ nextId' = nextId + 1
  BY <1>1, <1>2 DEF NotComeRound
<1>4. last' = [n \in Sub |-> IF n \in seen THEN nextId' ELSE last[n]]
  BY DEF Marked
<1>5. last' \in [Sub -> Int]
  BY <1>1, <1>2, <1>4
<1>6. nextId' >= 0 => \A n \in Sub : last'[n] <= nextId'
  BY <1>1, <1>2, <1>3, <1>4
<1> QED
  BY <1>2, <1>3, <1>5, <1>6

LEMMA StartStatsKeeps ==
    ASSUME WalkInv, StartStats
    PROVE  WalkInv'
<1>1. /\ task.op = "idle" /\ ~Deleting /\ NotComeRound /\ nextId' = Bump(nextId)
      /\ last' = Marked(All, nextId')
      /\ depthMin' = [n \in Sub |-> IF n \in All THEN 0 ELSE depthMin[n]]
      /\ depthMax' = [n \in Sub |-> IF n \in All THEN 0 ELSE depthMax[n]]
      /\ task' = [op |-> "stats", calls |-> Push(<<>>, [node |-> NoNode, todo |-> roots])]
      /\ stats' = NoStats
      /\ UNCHANGED <<vars, freed>>
  BY DEF StartStats, Idle, Deleting
<1>2. CountInv /\ CountInv' /\ freed = {}
  BY <1>1, Unchanged
<1>3. /\ nodes \subseteq Sub /\ roots \subseteq nodes /\ nodes \subseteq All
      /\ UNCHANGED <<nodes, roots, containers, containees>>
  BY <1>1, <1>2, GraphFacts, LinksFacts, AllNodes DEF vars, structure
<1>4. MarksOld'
  <2>1. MarksOld /\ nextId # -2
    BY <1>1 DEF WalkInv, MarksOld, NotComeRound
  <2> QED
    BY <1>1, <2>1, NewMarks DEF MarksOld
<1>5. /\ depthMax' \in [Sub -> Nat] /\ depthMin' \in [Sub -> Nat]
      /\ \A n \in nodes : depthMax'[n] = 0 /\ depthMin'[n] = 0
  BY <1>1, <1>3 DEF WalkInv, StatsPart
<1>6. task' = [op |-> "stats", calls |-> task'.calls] /\ task'.op = "stats"
  BY <1>1
<1>7. task'.calls = IF roots = {} THEN <<>> ELSE <<[node |-> NoNode, todo |-> roots]>>
  <2>1. task'.calls = Push(<<>>, [node |-> NoNode, todo |-> roots])
    BY <1>1
  <2> QED
    BY <2>1 DEF Push
<1>8. CallsTyped'
  <2>1. task'.calls \in Seq([node : nodes' \cup {NoNode}, todo : SUBSET nodes'])
    <3> DEFINE S == [node : nodes' \cup {NoNode}, todo : SUBSET nodes']
               call == [node |-> NoNode, todo |-> roots]
    <3>1. call \in S
      BY <1>3
    <3> HIDE DEF S, call
    <3>2. <<>> \in Seq(S) /\ <<call>> \in Seq(S)
      BY <3>1
    <3> QED
      BY <1>7, <3>2 DEF S, call
  <2>2. \A i \in 1 .. Len(task'.calls) :
           task'.calls[i].node = NoNode /\ task'.calls[i].todo \subseteq roots'
    BY <1>3, <1>7
  <2> QED
    BY <1>6, <2>1, <2>2 DEF CallsTyped
<1>9. DepthsReached'
  BY <1>3, <1>5 DEF DepthsReached, Visited
<1>10. DepthsHandedOn'
  <2>1. ASSUME NEW r \in roots
        PROVE  Due(NoNode, r)'
    BY <1>7, <2>1 DEF Due
  <2> QED
    BY <1>3, <1>5, <2>1 DEF DepthsHandedOn, Visited
<1>11. DepthsExact'
  BY <1>1, DepthsStay DEF WalkInv
<1> QED
  BY <1>1, <1>2, <1>4, <1>5, <1>6, <1>8, <1>9, <1>10, <1>11
     DEF WalkInv, TaskTyped, GraphPart, MatchPart, StatsPart, DeletePart, Deleting

\* The calls under way are those of the sequence.
CallsIn(calls) == {calls[i] : i \in 1 .. Len(calls)}
Pending(call) == {k \in {call} : k.todo # {}}

LEMMA PushedCalls ==
    ASSUME NEW S, NEW calls \in Seq(S), NEW call \in S
    PROVE  /\ Push(calls, call) \in Seq(S)
           /\ CallsIn(Push(calls, call)) = CallsIn(calls) \cup Pending(call)
<1>1. CASE call.todo = {}
  BY <1>1 DEF Push, CallsIn, Pending
<1>2. CASE call.todo # {}
  <2>1. Push(calls, call) = Append(calls, call)
    BY <1>2 DEF Push
  <2>2. /\ Append(calls, call) \in Seq(S) /\ Len(Append(calls, call)) = Len(calls) + 1
        /\ Append(calls, call)[Len(calls) + 1] = call
        /\ \A i \in 1 .. Len(calls) : Append(calls, call)[i] = calls[i]
    OBVIOUS
  <2>3. Len(calls) \in Nat
    OBVIOUS
  <2> DEFINE longer == Append(calls, call)
  <2> HIDE DEF longer
  <2>4. CallsIn(longer) = CallsIn(calls) \cup {call}
    <3>1. ASSUME NEW k \in CallsIn(longer)
          PROVE  k \in CallsIn(calls) \cup {call}
      BY <2>2, <2>3 DEF CallsIn, longer
    <3>2. ASSUME NEW k \in CallsIn(calls)
          PROVE  k \in CallsIn(longer)
      BY <2>2, <2>3 DEF CallsIn, longer
    <3>3. call \in CallsIn(longer)
      BY <2>2, <2>3 DEF CallsIn, longer
    <3> QED
      BY <3>1, <3>2, <3>3
  <2> QED
    BY <1>2, <2>1, <2>2, <2>4 DEF longer, Pending
<1> QED
  BY <1>1, <1>2

LEMMA TopCall ==
    ASSUME NEW S, NEW calls \in Seq(S), calls # <<>>
    PROVE  /\ Front(calls) \in Seq(S) /\ Last(calls) \in S
           /\ CallsIn(calls) = CallsIn(Front(calls)) \cup {Last(calls)}
<1>1. Len(calls) \in Nat \ {0} /\ \A i \in 1 .. Len(calls) : calls[i] \in S
  OBVIOUS
<1>2. /\ Front(calls) \in Seq(S) /\ Len(Front(calls)) = Len(calls) - 1
      /\ \A i \in 1 .. Len(calls) - 1 : Front(calls)[i] = calls[i]
  <2> DEFINE l == Len(calls) - 1
  <2>1. l \in Nat /\ \A i \in 1 .. l : calls[i] \in S
    BY <1>1
  <2> HIDE DEF l
  <2>2. /\ SubSeq(calls, 1, l) \in Seq(S)
        /\ Len(SubSeq(calls, 1, l)) = IF 1 <= l THEN l - 1 + 1 ELSE 0
        /\ \A i \in 1 .. l - 1 + 1 : SubSeq(calls, 1, l)[i] = calls[1 + i - 1]
    BY <2>1, SubSeqProperties
  <2>3. /\ Len(SubSeq(calls, 1, l)) = l
        /\ \A i \in 1 .. l : SubSeq(calls, 1, l)[i] = calls[i]
    BY <2>1, <2>2
  <2> QED
    BY <2>2, <2>3 DEF Front, l
<1>3. Last(calls) = calls[Len(calls)]
  BY DEF Last
<1>4. ASSUME NEW k \in CallsIn(calls)
      PROVE  k \in CallsIn(Front(calls)) \cup {Last(calls)}
  BY <1>1, <1>2, <1>3 DEF CallsIn
<1>5. ASSUME NEW k \in CallsIn(Front(calls)) \cup {Last(calls)}
      PROVE  k \in CallsIn(calls)
  BY <1>1, <1>2, <1>3 DEF CallsIn
<1>6. CallsIn(calls) = CallsIn(Front(calls)) \cup {Last(calls)}
  BY <1>4, <1>5
<1>7. Last(calls) \in S
  BY <1>1, <1>3
<1> QED
  BY <1>2, <1>6, <1>7

\* A call is due when one of those under way has it to make.
LEMMA DueIs ==
    ASSUME NEW p, NEW n
    PROVE  Due(p, n) <=> \E f \in CallsIn(task.calls) : f.node = p /\ n \in f.todo
BY DEF Due, CallsIn

\* The graph that stats walks over.
WalkedGraph ==
    /\ nodes \subseteq Sub /\ NoNode \notin Sub /\ roots \subseteq nodes
    /\ \A a \in nodes : containees[a] \subseteq nodes /\ containers[a] \subseteq nodes
    /\ \A a, b \in nodes : b \in containees[a] <=> a \in containers[b]
    /\ \A a, b \in nodes : a \in containers[b] => a # b
    /\ \A n \in nodes : n \in roots <=> containers[n] = {}

LEMMA WalkedGraphIs == CountInv => WalkedGraph
<1> SUFFICES ASSUME CountInv
             PROVE  WalkedGraph
  OBVIOUS
<1>1. TypeOK /\ Shape
  BY GraphFacts
<1>2. \A a, b \in Sub : a \in containers[b] => a # b
  BY <1>1, LinksFacts DEF StrictlyCovers
<1> QED
  BY <1>1, <1>2, LinksFacts, GraphAssumption DEF WalkedGraph

\* A call of prepare_stats for n on behalf of parent, which offers it depths one
\* more than its own.
Prepared(parent, n, max, min) ==
    /\ n \in nodes
    /\ IF parent = NoNode THEN n \in roots /\ max = 1 /\ min = 1
       ELSE /\ parent \in nodes /\ n \in containees[parent] /\ Visited(parent)
            /\ max = depthMax[parent] + 1 /\ min = depthMin[parent] + 1
    /\ depthMax' \in [Sub -> Nat] /\ depthMin' \in [Sub -> Nat]
    /\ \A m \in Sub \ {n} : depthMax'[m] = depthMax[m] /\ depthMin'[m] = depthMin[m]
    /\ \/ depthMax'[n] = max /\ (parent = NoNode \/ depthMax[n] <= max)
       \/ depthMax'[n] = depthMax[n] /\ parent # NoNode /\ depthMax[n] # 0 /\ depthMax[n] >= max
    /\ \/ depthMin'[n] = min /\ (parent = NoNode \/ depthMin[n] = 0 \/ depthMin[n] >= min)
       \/ depthMin'[n] = depthMin[n] /\ parent # NoNode /\ depthMin[n] # 0 /\ depthMin[n] <= min
    /\ \/ depthMax'[n] = depthMax[n] /\ depthMin'[n] = depthMin[n] /\ depthMax[n] # 0
       \/ \A m \in containees[n] : Due(n, m)'
    /\ \A p, m : Due(p, m) => Due(p, m)' \/ (p = parent /\ m = n)

LEMMA PreparedKeeps ==
    ASSUME WalkedGraph, depthMax \in [Sub -> Nat], depthMin \in [Sub -> Nat],
           DepthsReached, DepthsHandedOn,
           NEW parent, NEW n, NEW max, NEW min, Prepared(parent, n, max, min),
           UNCHANGED <<nodes, roots, containers, containees>>
    PROVE  /\ DepthsReached' /\ DepthsHandedOn'
           /\ Visited(n)' /\ \A m \in nodes : Visited(m) => Visited(m)'
<1>1. /\ n \in nodes /\ n \in Sub
      /\ \A m \in nodes : m \in Sub /\ depthMax[m] \in Nat /\ depthMin[m] \in Nat
                                    /\ depthMax'[m] \in Nat /\ depthMin'[m] \in Nat
      /\ \A m \in nodes \ {n} : depthMax'[m] = depthMax[m] /\ depthMin'[m] = depthMin[m]
  BY DEF WalkedGraph, Prepared
<1>2. /\ depthMax'[n] # 0 /\ depthMin'[n] # 0
      /\ Visited(n) => depthMax'[n] >= depthMax[n] /\ depthMin'[n] <= depthMin[n]
      /\ containers[n] = {} => depthMax'[n] = 1 /\ depthMin'[n] = 1
      /\ containers[n] # {} =>
            /\ \E p \in containers[n] : Visited(p) /\ depthMax'[n] <= depthMax[p] + 1
            /\ \E p \in containers[n] : Visited(p) /\ depthMin'[n] >= depthMin[p] + 1
      /\ parent # NoNode =>
            depthMax'[n] >= depthMax[parent] + 1 /\ depthMin'[n] <= depthMin[parent] + 1
  <2>1. CASE parent = NoNode
    <3>1. n \in roots /\ depthMax'[n] = 1 /\ depthMin'[n] = 1
      BY <2>1 DEF Prepared
    <3>2. containers[n] = {}
      BY <1>1, <3>1 DEF WalkedGraph
    <3>3. Visited(n) => depthMax[n] = 1 /\ depthMin[n] = 1
      BY <1>1, <3>2 DEF DepthsReached
    <3> QED
      BY <2>1, <3>1, <3>2, <3>3
  <2>2. CASE parent # NoNode
    <3>1. /\ parent \in nodes /\ n \in containees[parent] /\ Visited(parent)
          /\ max = depthMax[parent] + 1 /\ min = depthMin[parent] + 1
      BY <2>2 DEF Prepared
    <3>2. /\ \/ depthMax'[n] = max /\ depthMax[n] <= max
             \/ depthMax'[n] = depthMax[n] /\ depthMax[n] # 0 /\ depthMax[n] >= max
          /\ \/ depthMin'[n] = min /\ (depthMin[n] = 0 \/ depthMin[n] >= min)
             \/ depthMin'[n] = depthMin[n] /\ depthMin[n] # 0 /\ depthMin[n] <= min
      BY <2>2 DEF Prepared
    <3>3. parent \in containers[n] /\ containers[n] # {}
      BY <1>1, <3>1 DEF WalkedGraph
    <3>4. depthMax[n] = 0 <=> depthMin[n] = 0
      BY <1>1 DEF DepthsReached
    <3>5. depthMax[n] # 0 =>
            /\ \E p \in containers[n] : Visited(p) /\ depthMax[n] <= depthMax[p] + 1
            /\ \E p \in containers[n] : Visited(p) /\ depthMin[n] >= depthMin[p] + 1
      BY <1>1, <3>3 DEF DepthsReached, Visited
    <3>6. depthMax'[n] # 0 /\ depthMin'[n] # 0
      BY <1>1, <3>1, <3>2
    <3>7. Visited(n) => depthMax'[n] >= depthMax[n] /\ depthMin'[n] <= depthMin[n]
      BY <1>1, <3>1, <3>2, <3>4 DEF Visited
    <3>8. \E p \in containers[n] : Visited(p) /\ depthMax'[n] <= depthMax[p] + 1
      BY <1>1, <3>1, <3>2, <3>3, <3>5
    <3>9. \E p \in containers[n] : Visited(p) /\ depthMin'[n] >= depthMin[p] + 1
      BY <1>1, <3>1, <3>2, <3>3, <3>4, <3>5
    <3>10. depthMax'[n] >= depthMax[parent] + 1 /\ depthMin'[n] <= depthMin[parent] + 1
      BY <1>1, <3>1, <3>2
    <3> QED
      BY <3>3, <3>6, <3>7, <3>8, <3>9, <3>10
  <2> QED
    BY <2>1, <2>2
<1>3. \A m \in nodes : Visited(m) =>
         Visited(m)' /\ depthMax'[m] >= depthMax[m] /\ depthMin'[m] <= depthMin[m]
  BY <1>1, <1>2 DEF Visited
<1>4. DepthsReached'
  <2>1. ASSUME NEW m \in nodes
        PROVE  /\ depthMax'[m] = 0 <=> depthMin'[m] = 0
               /\ Visited(m)' /\ containers[m] = {} => depthMax'[m] = 1 /\ depthMin'[m] = 1
               /\ Visited(m)' /\ containers[m] # {} =>
                     /\ \E p \in containers[m] : Visited(p) /\ depthMax'[m] <= depthMax[p] + 1
                     /\ \E p \in containers[m] : Visited(p) /\ depthMin'[m] >= depthMin[p] + 1
    <3>1. CASE m = n
      BY <1>2, <3>1
    <3>2. CASE m # n
      <4>1. depthMax'[m] = depthMax[m] /\ depthMin'[m] = depthMin[m] /\ (Visited(m)' <=> Visited(m))
        BY <1>1, <3>2 DEF Visited
      <4> QED
        BY <4>1 DEF DepthsReached
    <3> QED
      BY <3>1, <3>2
  <2>2. ASSUME NEW m \in nodes, NEW p \in containers[m], Visited(p)
        PROVE  /\ Visited(p)' /\ p \in nodes
               /\ depthMax'[m] <= depthMax[p] + 1 => depthMax'[m] <= depthMax'[p] + 1
               /\ depthMin'[m] >= depthMin[p] + 1 => depthMin'[m] >= depthMin'[p] + 1
    <3>1. p \in nodes
      BY DEF WalkedGraph
    <3> QED
      BY <1>1, <1>3, <2>2, <3>1
  <2>3. ASSUME NEW m \in nodes, Visited(m)', containers[m] # {}
        PROVE  /\ \E p \in containers[m] : Visited(p)' /\ depthMax'[m] <= depthMax'[p] + 1
               /\ \E p \in containers[m] : Visited(p)' /\ depthMin'[m] >= depthMin'[p] + 1
    BY <2>1, <2>2, <2>3
  <2> QED
    BY <2>1, <2>3 DEF DepthsReached
<1>5. DepthsHandedOn'
  <2>1. \A p, m : Due(p, m) => Due(p, m)' \/ (p = parent /\ m = n)
    BY DEF Prepared
  <2>2. ASSUME NEW r \in roots
        PROVE  Visited(r)' \/ Due(NoNode, r)'
    <3>1. r \in nodes /\ (Visited(r) \/ Due(NoNode, r))
      BY DEF DepthsHandedOn, WalkedGraph
    <3> QED
      BY <1>2, <1>3, <2>1, <3>1 DEF Visited
  <2>3. ASSUME NEW p \in nodes, NEW m \in containees[p], Visited(p)'
        PROVE  \/ Due(p, m)'
               \/ Visited(m)' /\ depthMax'[m] >= depthMax'[p] + 1
                              /\ depthMin'[m] <= depthMin'[p] + 1
    <3>1. m \in nodes /\ m # p /\ p # NoNode
      BY <1>1 DEF WalkedGraph
    <3>2. \/ p # n /\ Visited(p) /\ depthMax'[p] = depthMax[p] /\ depthMin'[p] = depthMin[p]
          \/ p = n /\ depthMax'[n] = depthMax[n] /\ depthMin'[n] = depthMin[n] /\ Visited(n)
          \/ Due(p, m)'
      BY <1>1, <2>3 DEF Prepared, Visited
    <3>3. CASE Visited(p) /\ depthMax'[p] = depthMax[p] /\ depthMin'[p] = depthMin[p]
      <4>1. CASE Due(p, m) /\ ~Due(p, m)'
        BY <1>2, <2>1, <3>1, <3>3, <4>1 DEF Visited
      <4>2. CASE Visited(m) /\ depthMax[m] >= depthMax[p] + 1 /\ depthMin[m] <= depthMin[p] + 1
        BY <1>1, <1>3, <3>1, <3>3, <4>2
      <4> QED
        BY <3>3, <4>1, <4>2 DEF DepthsHandedOn
    <3> QED
      BY <3>2, <3>3
  <2> QED
    BY <2>2, <2>3 DEF DepthsHandedOn
<1> QED
  BY <1>2, <1>3, <1>4, <1>5 DEF Visited

LEMMA PrepareStatsKeeps ==
    ASSUME WalkInv, PrepareStats
    PROVE  WalkInv'
<1> DEFINE calls == task.calls
           top == Last(calls)
           parent == top.node
           max == IF parent = NoNode THEN 1 ELSE depthMax[parent] + 1
           min == IF parent = NoNode THEN 1 ELSE depthMin[parent] + 1
           deeper(n) == parent = NoNode \/ depthMax[n] = 0 \/ depthMax[n] < max
           nearer(n) == parent = NoNode \/ depthMin[n] = 0 \/ depthMin[n] > min
           returned(n) == [top EXCEPT !.todo = top.todo \ {n}]
           called(n) == [node |-> n, todo |-> IF deeper(n) \/ nearer(n) THEN containees[n] ELSE {}]
           S == [node : nodes \cup {NoNode}, todo : SUBSET nodes]
<1>1. /\ task.op = "stats" /\ calls # <<>> /\ ~Deleting
      /\ UNCHANGED <<vars, nextId, last, stats, freed>>
  BY DEF PrepareStats, Deleting
<1>2. CountInv /\ CountInv' /\ freed = {}
  BY <1>1, Unchanged
<1>3. /\ WalkedGraph /\ CallsTyped /\ DepthsReached /\ DepthsHandedOn /\ stats = NoStats
      /\ depthMax \in [Sub -> Nat] /\ depthMin \in [Sub -> Nat]
      /\ UNCHANGED <<nodes, roots, containers, containees>>
  BY <1>1, <1>2, WalkedGraphIs DEF WalkInv, StatsPart, vars, structure
<1>4. PICK n \in top.todo :
         /\ depthMax' = [depthMax EXCEPT ![n] = IF deeper(n) THEN max ELSE depthMax[n]]
         /\ depthMin' = [depthMin EXCEPT ![n] = IF nearer(n) THEN min ELSE depthMin[n]]
         /\ task' = [task EXCEPT !.calls = Push(Push(Front(calls), returned(n)), called(n))]
  BY DEF PrepareStats
<1> DEFINE back == returned(n)
           down == called(n)
           calls1 == Push(Front(calls), back)
           calls2 == Push(calls1, down)
<1>5. /\ task' = [op |-> "stats", calls |-> calls2] /\ task'.op = "stats" /\ task'.calls = calls2
      /\ task' = [op |-> "stats", calls |-> task'.calls]
  <2>1. task' = [task EXCEPT !.calls = calls2]
    BY <1>4
  <2> HIDE DEF calls2, calls
  <2> QED
    BY <1>3, <2>1 DEF CallsTyped
<1>6. \A f \in CallsIn(calls) :
         /\ f \in S
         /\ IF f.node = NoNode THEN f.todo \subseteq roots
            ELSE depthMax[f.node] # 0 /\ f.todo \subseteq containees[f.node]
  <2> SUFFICES ASSUME NEW i \in 1 .. Len(calls)
               PROVE  /\ calls[i] \in S
                      /\ IF calls[i].node = NoNode THEN calls[i].todo \subseteq roots
                         ELSE /\ depthMax[calls[i].node] # 0
                              /\ calls[i].todo \subseteq containees[calls[i].node]
    BY DEF CallsIn
  <2>1. calls \in Seq(S)
    BY <1>3 DEF CallsTyped
  <2>2. calls[i] \in S
    <3> HIDE DEF S, calls
    <3> QED
      BY <2>1
  <2> QED
    BY <1>3, <2>2 DEF CallsTyped
<1>7. /\ calls \in Seq(S) /\ top \in S /\ Front(calls) \in Seq(S) /\ top \in CallsIn(calls)
      /\ CallsIn(calls) = CallsIn(Front(calls)) \cup {top}
  <2> HIDE DEF S
  <2>1. calls \in Seq(S)
    BY <1>3 DEF CallsTyped, S
  <2> HIDE DEF calls
  <2> QED
    BY ZenonT(20), <1>1, <2>1, TopCall
<1>8. /\ n \in nodes /\ n \in Sub /\ parent \in nodes \cup {NoNode}
      /\ parent = NoNode => n \in roots
      /\ parent # NoNode => parent \in nodes /\ depthMax[parent] # 0 /\ n \in containees[parent]
  <2>1. top \in S /\ n \in top.todo
    BY <1>7
  <2>2. IF parent = NoNode THEN top.todo \subseteq roots
        ELSE depthMax[parent] # 0 /\ top.todo \subseteq containees[parent]
    BY <1>6, <1>7
  <2> HIDE DEF top
  <2> QED
    BY <1>3, <2>1, <2>2 DEF WalkedGraph
<1> HIDE DEF top, deeper, nearer, max, min
<1>9. /\ back \in S /\ back.node = parent /\ back.todo = top.todo \ {n}
      /\ down \in S /\ down.node = n
      /\ down.todo = IF deeper(n) \/ nearer(n) THEN containees[n] ELSE {}
  BY <1>3, <1>7, <1>8 DEF WalkedGraph
<1>10. /\ task'.calls \in Seq(S)
       /\ CallsIn(task'.calls) = CallsIn(Front(calls)) \cup Pending(back) \cup Pending(down)
  <2> HIDE DEF S, back, down, calls
  <2>1. Front(calls) \in Seq(S) /\ back \in S /\ down \in S
    BY <1>7, <1>9
  <2>2. calls1 \in Seq(S) /\ CallsIn(calls1) = CallsIn(Front(calls)) \cup Pending(back)
    BY <2>1, PushedCalls
  <2>3. calls2 \in Seq(S) /\ CallsIn(calls2) = CallsIn(calls1) \cup Pending(down)
    <3>1. calls1 \in Seq(S)
      BY <2>2
    <3> HIDE DEF calls1
    <3> QED
      BY <2>1, <3>1, PushedCalls
  <2> QED
    BY <1>5, <2>2, <2>3
<1> HIDE DEF S, back, down, calls
<1>11. \A f \in CallsIn(task'.calls) : f \in CallsIn(calls) \/ f = back \/ f = down
  BY <1>7, <1>10 DEF Pending
<1>12. ASSUME NEW p, NEW m, Due(p, m)
       PROVE  Due(p, m)' \/ (p = parent /\ m = n)
  <2>1. PICK f \in CallsIn(calls) : f.node = p /\ m \in f.todo
    BY <1>12, DueIs DEF calls
  <2>2. CASE f \in CallsIn(Front(calls))
    BY <1>10, <2>1, <2>2 DEF Due, CallsIn
  <2>3. CASE f = top /\ m # n
    <3>1. m \in back.todo /\ back.node = p
      BY <1>9, <2>1, <2>3
    <3>2. back \in CallsIn(task'.calls)
      BY <1>10, <3>1 DEF Pending
    <3> QED
      BY <3>1, <3>2 DEF Due, CallsIn
  <2> QED
    BY <1>7, <2>1, <2>2, <2>3
<1>13. ASSUME deeper(n) \/ nearer(n), NEW m \in containees[n]
       PROVE  Due(n, m)'
  <2>1. m \in down.todo /\ down.node = n
    BY <1>9, <1>13
  <2>2. down \in CallsIn(task'.calls)
    BY <1>10, <2>1 DEF Pending
  <2> QED
    BY <2>1, <2>2 DEF Due, CallsIn
<1>14. Prepared(parent, n, max, min)
  <2>1. depthMax[n] \in Nat /\ depthMin[n] \in Nat /\ max \in Nat /\ min \in Nat
    BY <1>3, <1>8 DEF max, min, WalkedGraph
  <2>2. depthMax' \in [Sub -> Nat] /\ depthMin' \in [Sub -> Nat]
    BY <1>3, <1>4, <2>1
  <2>3. \A m \in Sub \ {n} : depthMax'[m] = depthMax[m] /\ depthMin'[m] = depthMin[m]
    BY <1>3, <1>4
  <2>4. /\ depthMax'[n] = IF deeper(n) THEN max ELSE depthMax[n]
        /\ depthMin'[n] = IF nearer(n) THEN min ELSE depthMin[n]
    BY <1>3, <1>4, <1>8
  <2>5. /\ \/ depthMax'[n] = max /\ (parent = NoNode \/ depthMax[n] <= max)
           \/ depthMax'[n] = depthMax[n] /\ parent # NoNode /\ depthMax[n] # 0 /\ depthMax[n] >= max
        /\ \/ depthMin'[n] = min /\ (parent = NoNode \/ depthMin[n] = 0 \/ depthMin[n] >= min)
           \/ depthMin'[n] = depthMin[n] /\ parent # NoNode /\ depthMin[n] # 0 /\ depthMin[n] <= min
    BY <2>1, <2>4 DEF deeper, nearer
  <2>6. \/ depthMax'[n] = depthMax[n] /\ depthMin'[n] = depthMin[n] /\ depthMax[n] # 0
        \/ \A m \in containees[n] : Due(n, m)'
    <3>1. CASE deeper(n) \/ nearer(n)
      BY <1>13, <3>1
    <3>2. CASE ~deeper(n) /\ ~nearer(n)
      BY <2>4, <3>2 DEF deeper
    <3> QED
      BY <3>1, <3>2
  <2>7. IF parent = NoNode THEN n \in roots /\ max = 1 /\ min = 1
        ELSE /\ parent \in nodes /\ n \in containees[parent] /\ Visited(parent)
             /\ max = depthMax[parent] + 1 /\ min = depthMin[parent] + 1
    BY <1>8 DEF max, min, Visited
  <2> QED
    BY <1>8, <1>12, <2>2, <2>3, <2>5, <2>6, <2>7 DEF Prepared
<1>15. /\ DepthsReached' /\ DepthsHandedOn'
       /\ Visited(n)' /\ \A m \in nodes : Visited(m) => Visited(m)'
  BY <1>3, <1>14, PreparedKeeps
<1>16. CallsTyped'
  <2>1. ASSUME NEW f \in CallsIn(task'.calls)
        PROVE  IF f.node = NoNode THEN f.todo \subseteq roots
               ELSE depthMax'[f.node] # 0 /\ f.todo \subseteq containees[f.node]
    <3>1. ASSUME NEW p \in nodes, depthMax[p] # 0
          PROVE  depthMax'[p] # 0
      BY <1>15, <3>1 DEF Visited
    <3>2. ASSUME NEW k \in CallsIn(calls)
          PROVE  /\ k.node = NoNode => k.todo \subseteq roots
                 /\ k.node # NoNode => depthMax'[k.node] # 0 /\ k.todo \subseteq containees[k.node]
      BY <1>6, <3>1, <3>2 DEF S
    <3>3. CASE f \in CallsIn(calls)
      BY <3>2, <3>3
    <3>4. CASE f = back
      BY <1>7, <1>9, <3>2, <3>4
    <3>5. CASE f = down
      BY <1>3, <1>8, <1>9, <1>15, <3>5 DEF Visited, WalkedGraph
    <3> QED
      BY <1>11, <3>3, <3>4, <3>5
  <2>2. \A i \in 1 .. Len(task'.calls) : task'.calls[i] \in CallsIn(task'.calls)
    BY DEF CallsIn
  <2>3. task'.calls \in Seq([node : nodes' \cup {NoNode}, todo : SUBSET nodes'])
    BY <1>3, <1>10 DEF S
  <2> QED
    BY <1>3, <1>5, <2>1, <2>2, <2>3 DEF CallsTyped
<1>17. MarksOld' /\ DepthsExact'
  BY <1>1, <1>3, <1>5, DepthsStay DEF WalkInv, MarksOld
<1>18. depthMax' \in [Sub -> Nat] /\ depthMin' \in [Sub -> Nat]
  BY <1>14 DEF Prepared
<1> QED
  BY <1>1, <1>2, <1>3, <1>5, <1>15, <1>16, <1>17, <1>18
     DEF WalkInv, TaskTyped, GraphPart, MatchPart, StatsPart, DeletePart, Deleting

\* With no call left to make, every node has its depths.
LEMMA DepthsDone ==
    ASSUME CountInv, depthMax \in [Sub -> Nat], depthMin \in [Sub -> Nat],
           DepthsReached, DepthsHandedOn, task.calls = <<>>, NEW n \in nodes
    PROVE  /\ depthMax[n] = 1 + Max({depthMax[p] : p \in containers[n]} \cup {0})
           /\ depthMin[n] = IF containers[n] = {} THEN 1
                            ELSE 1 + Min({depthMin[p] : p \in containers[n]})
<1>1. /\ nodes \subseteq Sub /\ \A m \in nodes : m \in roots <=> containers[m] = {}
      /\ \A m \in nodes : depthMax[m] \in Nat /\ depthMin[m] \in Nat
      /\ \A p, m \in Sub : p \in containers[m] =>
            p \in nodes /\ m \in containees[p] /\ StrictlyCovers(p, m)
      /\ \A m \in nodes : containers[m] \subseteq nodes
  BY GraphFacts, LinksFacts
<1>2. \A p, m : ~Due(p, m)
  BY DEF Due
<1>3. \A p \in nodes : \A m \in containees[p] :
         Visited(p) => Visited(m) /\ depthMax[m] >= depthMax[p] + 1 /\ depthMin[m] <= depthMin[p] + 1
  BY <1>2 DEF DepthsHandedOn
<1>4. \A m \in nodes : Visited(m)
  <2> SUFFICES ASSUME {m \in nodes : ~Visited(m)} # {}
               PROVE  FALSE
    OBVIOUS
  <2> DEFINE T == {m \in nodes : ~Visited(m)}
  <2>1. T \in SUBSET Sub
    BY <1>1
  <2>2. PICK m \in T : \A x \in T : ~StrictlyCovers(x, m)
    BY <2>1, Maximal
  <2>3. m \in Sub /\ m \notin roots
    BY <1>1, <1>2, <2>2 DEF DepthsHandedOn
  <2>4. PICK p \in containers[m] : TRUE
    BY <1>1, <2>2, <2>3
  <2>5. p \in nodes /\ p \in Sub /\ StrictlyCovers(p, m) /\ m \in containees[p]
    BY <1>1, <2>2, <2>3, <2>4
  <2> QED
    BY <1>3, <2>2, <2>5
<1>5. CASE containers[n] = {}
  <2>1. depthMax[n] = 1 /\ depthMin[n] = 1
    BY <1>4, <1>5 DEF DepthsReached
  <2> DEFINE A == {depthMax[p] : p \in containers[n]} \cup {0}
  <2>2. A \in SUBSET Int /\ 0 \in A /\ \A x \in A : x <= 0
    BY <1>5
  <2> HIDE DEF A
  <2>3. Max(A) = 0
    BY <2>2, MaxIs
  <2>4. depthMax[n] = 1 + Max(A)
    BY <2>1, <2>3
  <2> QED
    BY <1>5, <2>1, <2>4 DEF A
<1>6. CASE containers[n] # {}
  <2>1. PICK p \in containers[n] : depthMax[n] <= depthMax[p] + 1
    BY <1>4, <1>6 DEF DepthsReached
  <2>2. PICK q \in containers[n] : depthMin[n] >= depthMin[q] + 1
    BY <1>4, <1>6 DEF DepthsReached
  <2>3. \A m \in containers[n] :
           m \in nodes /\ depthMax[n] >= depthMax[m] + 1 /\ depthMin[n] <= depthMin[m] + 1
    BY <1>1, <1>3, <1>4
  <2>4. \A m \in containers[n] : depthMax[m] \in Nat /\ depthMin[m] \in Nat
    BY <1>1, <2>3
  <2>5. depthMax[n] \in Nat /\ depthMin[n] \in Nat
    BY <1>1
  <2>6. depthMax[n] = depthMax[p] + 1 /\ \A m \in containers[n] : depthMax[m] <= depthMax[p]
    BY <2>1, <2>3, <2>4, <2>5
  <2>7. depthMin[n] = depthMin[q] + 1 /\ \A m \in containers[n] : depthMin[m] >= depthMin[q]
    BY <2>2, <2>3, <2>4, <2>5
  <2> DEFINE A == {depthMax[m] : m \in containers[n]} \cup {0}
             B == {depthMin[m] : m \in containers[n]}
  <2>8. A \in SUBSET Int /\ depthMax[p] \in A /\ \A x \in A : x <= depthMax[p]
    BY <2>4, <2>6
  <2>9. B \in SUBSET Int /\ depthMin[q] \in B /\ \A x \in B : x >= depthMin[q]
    BY <2>4, <2>7
  <2> HIDE DEF A, B
  <2>10. Max(A) = depthMax[p] /\ Min(B) = depthMin[q]
    BY <2>8, <2>9, MaxIs, MinIs
  <2> QED
    BY <1>6, <2>4, <2>6, <2>7, <2>10 DEF A, B
<1> QED
  BY <1>5, <1>6

LEMMA ComputeStatsKeeps ==
    ASSUME WalkInv, ComputeStats
    PROVE  WalkInv'
<1>1. /\ task.op = "stats" /\ task.calls = <<>> /\ ~Deleting /\ task' = Idle /\ task'.op = "idle"
      /\ nextId' = Bump(nextId) /\ last' = Marked(All, nextId')
      /\ UNCHANGED <<vars, freed, depthMin, depthMax>>
  BY DEF ComputeStats, Deleting, Idle, nodeStats
<1>2. CountInv /\ CountInv' /\ freed = {}
  BY <1>1, Unchanged
<1>3. /\ depthMax \in [Sub -> Nat] /\ depthMin \in [Sub -> Nat]
      /\ DepthsReached /\ DepthsHandedOn
  BY <1>1 DEF WalkInv, StatsPart
<1>4. MarksOld'
  <2>1. MarksOld /\ nextId # -2
    BY <1>1 DEF WalkInv, MarksOld
  <2> QED
    BY <1>1, <2>1, NewMarks DEF MarksOld
<1>5. DepthsExact'
  <2>1. UNCHANGED <<nodes, containers, depthMin, depthMax>>
    BY <1>1 DEF vars, structure
  <2>2. \A n \in nodes :
          /\ depthMax[n] = 1 + Max({depthMax[p] : p \in containers[n]} \cup {0})
          /\ depthMin[n] = IF containers[n] = {} THEN 1
                           ELSE 1 + Min({depthMin[p] : p \in containers[n]})
    BY <1>1, <1>2, <1>3, DepthsDone
  <2> QED
    BY <2>1, <2>2 DEF DepthsExact
<1> QED
  BY <1>1, <1>2, <1>3, <1>4, <1>5, IdleInv

-----------------------------------------------------------------------------
(* Graph::~Graph                                                           *)

\* While the graph is deleted, only what is about the deletion matters.
LEMMA DeletingInv ==
    ASSUME WalkInv, task'.op \in {"delete", "deleted"}, DeletePart',
           UNCHANGED <<nextId, last, stats, depthMin, depthMax, nodes, containers>>
    PROVE  WalkInv'
<1>1. MarksOld' /\ DepthsExact'
  BY DepthsStay DEF WalkInv, MarksOld
<1> QED
  BY <1>1 DEF WalkInv, TaskTyped, GraphPart, MatchPart, StatsPart, Deleting

LEMMA BeginDeleteKeeps ==
    ASSUME WalkInv, BeginDelete
    PROVE  WalkInv'
<1>1. /\ task.op = "idle" /\ ~Deleting
      /\ task' = [op |-> "delete", calls |-> <<>>, roots |-> roots]
      /\ UNCHANGED <<vars, nextId, last, freed, stats, depthMin, depthMax>>
      /\ UNCHANGED <<nodes, containers, containees, roots>>
  BY DEF BeginDelete, Idle, Deleting, nodeStats, vars, structure
<1>2. CountInv /\ freed = {}
  BY <1>1 DEF WalkInv, GraphPart
<1>3. /\ task'.op = "delete" /\ task'.calls = <<>> /\ task'.roots = roots
      /\ task' = [op |-> "delete", calls |-> task'.calls, roots |-> task'.roots]
  BY <1>1
<1>4. LinksLeft'
  <2>1. LinksLeft
    <3>1. containers \in [Sub -> SUBSET Sub] /\ containees \in [Sub -> SUBSET Sub]
      BY <1>2, GraphFacts DEF TypeOK
    <3> QED
      BY <1>2, <3>1, GraphFacts, LinksFacts DEF LinksLeft
  <2> QED
    BY <1>1, <2>1 DEF LinksLeft
<1>5. PathDown'
  <2>1. /\ roots \subseteq nodes /\ \A n \in nodes : n \in roots <=> containers[n] = {}
    BY <1>2, GraphFacts, LinksFacts
  <2>2. task'.calls \in Seq(nodes) /\ Len(task'.calls) = 0
    BY <1>3
  <2> QED
    BY <1>1, <1>2, <1>3, <2>1, <2>2 DEF PathDown
<1>6. DeletePart'
  BY <1>3, <1>4, <1>5 DEF DeletePart
<1> QED
  BY <1>1, <1>3, <1>6, DeletingInv

LEMMA ClearNextKeeps ==
    ASSUME WalkInv, ClearNext
    PROVE  WalkInv'
<1>1. /\ task.op = "delete"
      /\ UNCHANGED <<nextId, last, freed, stats, depthMin, depthMax, nodes, containers, containees>>
  BY DEF ClearNext, nodeStats, vars, structure
<1>2. LinksLeft /\ PathDown
  BY <1>1 DEF WalkInv, DeletePart, Deleting
<1>3. task = [op |-> "delete", calls |-> task.calls, roots |-> task.roots]
  BY <1>2 DEF PathDown
<1>4. task'.op = "delete" /\ PathDown'
  <2>1. CASE task.calls = <<>>
    <3>1. PICK r \in task.roots : task' = [task EXCEPT !.calls = <<r>>, !.roots = task.roots \ {r}]
      BY <2>1 DEF ClearNext
    <3> DEFINE one == <<r>>
               others == task.roots \ {r}
    <3>2. /\ task' = [op |-> "delete", calls |-> one, roots |-> others]
          /\ task'.op = "delete" /\ task'.calls = one /\ task'.roots = others
          /\ task' = [op |-> "delete", calls |-> task'.calls, roots |-> task'.roots]
      <4>1. task' = [task EXCEPT !.calls = one, !.roots = others]
        BY <3>1
      <4> DEFINE calls == task.calls
                 left == task.roots
      <4>2. task = [op |-> "delete", calls |-> calls, roots |-> left]
        BY <1>3
      <4> HIDE DEF one, others, calls, left
      <4>3. task' = [op |-> "delete", calls |-> one, roots |-> others]
        BY <4>1, <4>2
      <4> QED
        BY <4>3
    <3>3. r \in nodes /\ r \notin freed
      BY <1>2, <3>1 DEF PathDown
    <3>4. task'.calls \in Seq(nodes) /\ Len(task'.calls) = 1 /\ task'.calls[1] = r
      BY <3>2, <3>3
    <3>5. \A n \in nodes : containers[n] = {} => n \in freed \cup task.roots
      BY <1>2, <2>1 DEF PathDown
    <3>6. \A i, j \in 1 .. Len(task'.calls) : ~(i < j)
      BY <3>4
    <3>7. \A i \in 1 .. Len(task'.calls) : task'.calls[i] = r
      BY <3>4
    <3>8. \E i \in 1 .. Len(task'.calls) : task'.calls[i] = r
      BY <3>4
    <3> QED
      BY <1>1, <1>2, <3>2, <3>3, <3>4, <3>5, <3>6, <3>7, <3>8 DEF PathDown
  <2>2. CASE task.calls # <<>>
    <3> DEFINE calls == task.calls
               l == Len(calls)
    <3>1. PICK n \in containees[Last(calls)] : task' = [task EXCEPT !.calls = Append(calls, n)]
      BY <2>2 DEF ClearNext
    <3> DEFINE longer == Append(calls, n)
    <3> HIDE DEF calls, longer
    <3>2. /\ task' = [op |-> "delete", calls |-> longer, roots |-> task.roots]
          /\ task'.op = "delete" /\ task'.calls = longer /\ task'.roots = task.roots
          /\ task' = [op |-> "delete", calls |-> task'.calls, roots |-> task'.roots]
      <4>1. task' = [task EXCEPT !.calls = longer]
        BY <3>1 DEF longer
      <4> QED
        BY <1>3, <4>1
    <3>3. calls \in Seq(nodes) /\ l \in Nat \ {0}
      BY <1>2, <2>2 DEF PathDown, calls
    <3>4. calls[l] \in nodes /\ calls[l] \in Sub /\ n \in containees[calls[l]]
      BY <1>2, <3>1, <3>3 DEF Last, LinksLeft
    <3>5. /\ n \in Sub /\ n \in nodes /\ n \notin freed /\ calls[l] \in containers[n]
          /\ StrictlyCovers(calls[l], n)
      BY <1>2, <3>4 DEF LinksLeft
    <3>6. n \notin task.roots
      BY <1>2, <3>5 DEF PathDown
    <3>7. /\ longer \in Seq(nodes) /\ Len(longer) = l + 1 /\ longer[l + 1] = n
          /\ \A i \in 1 .. l : longer[i] = calls[i]
      BY <3>3, <3>5 DEF longer
    <3>8. /\ \A i \in 1 .. l : calls[i] \notin freed \cup task.roots
          /\ \A i, j \in 1 .. l : i < j => StrictlyCovers(calls[i], calls[j])
          /\ \A m \in nodes : containers[m] = {} =>
                m \in freed \cup task.roots \/ \E i \in 1 .. l : calls[i] = m
      BY <1>2 DEF PathDown, calls
    <3>9. \A i \in 1 .. l : StrictlyCovers(calls[i], n)
      <4>1. ASSUME NEW i \in 1 .. l
            PROVE  StrictlyCovers(calls[i], n)
        <5>1. CASE i = l
          BY <3>5, <5>1
        <5>2. CASE i # l
          <6>1. i < l /\ StrictlyCovers(calls[i], calls[l]) /\ calls[i] \in Sub
            BY <1>2, <3>3, <3>8, <5>2 DEF LinksLeft
          <6> QED
            BY <3>4, <3>5, <6>1, StrictTransitive DEF StrictlyCovers
        <5> QED
          BY <5>1, <5>2
      <4> QED
        BY <4>1
    <3> HIDE DEF l
    <3>10. \A i \in 1 .. Len(longer) : i \in 1 .. l \/ i = l + 1
      BY <3>3, <3>7 DEF longer
    <3>11. \A i \in 1 .. Len(longer) : longer[i] \notin freed \cup task.roots
      BY <3>5, <3>6, <3>7, <3>8, <3>10 DEF longer
    <3>12. \A i, j \in 1 .. Len(longer) : i < j => StrictlyCovers(longer[i], longer[j])
      <4>1. ASSUME NEW i \in 1 .. Len(longer), NEW j \in 1 .. Len(longer), i < j
            PROVE  StrictlyCovers(longer[i], longer[j])
        <5>1. i \in 1 .. l /\ longer[i] = calls[i]
          BY <3>3, <3>7, <3>10, <4>1 DEF longer
        <5>2. CASE j \in 1 .. l
          BY <3>7, <3>8, <4>1, <5>1, <5>2 DEF longer
        <5>3. CASE j = l + 1
          BY <3>7, <3>9, <5>1, <5>3 DEF longer
        <5> QED
          BY <3>10, <5>2, <5>3
      <4> QED
        BY <4>1
    <3>13. \A m \in nodes : containers[m] = {} =>
             m \in freed \cup task.roots \/ \E i \in 1 .. Len(longer) : longer[i] = m
      <4>1. \A i \in 1 .. l : i \in 1 .. Len(longer) /\ longer[i] = calls[i]
        BY <3>3, <3>7 DEF longer
      <4> QED
        BY <3>8, <4>1
    <3>14. task'.calls = longer /\ longer \in Seq(nodes)
      BY <3>2, <3>7 DEF longer
    <3> QED
      BY <1>1, <1>2, <3>2, <3>11, <3>12, <3>13, <3>14 DEF PathDown
  <2> QED
    BY <2>1, <2>2
<1>5. LinksLeft'
  BY <1>1, <1>2 DEF LinksLeft
<1>6. DeletePart'
  BY <1>4, <1>5 DEF DeletePart
<1> QED
  BY <1>1, <1>4, <1>6, DeletingInv

LEMMA DeleteSelfKeeps ==
    ASSUME WalkInv, DeleteSelf
    PROVE  WalkInv'
<1> DEFINE calls == task.calls
           l == Len(calls)
           n == Last(calls)
<1>1. /\ task.op = "delete" /\ calls # <<>> /\ containees[n] = {}
      /\ containees' = [m \in Sub |-> IF m \in containers[n] THEN containees[m] \ {n}
                                                             ELSE containees[m]]
      /\ freed' = freed \cup {n}
      /\ task' = [task EXCEPT !.calls = Front(calls)]
      /\ UNCHANGED <<nextId, last, stats, depthMin, depthMax, nodes, containers>>
  BY DEF DeleteSelf, nodeStats
<1>2. LinksLeft /\ PathDown
  BY <1>1 DEF WalkInv, DeletePart, Deleting
<1>3. task = [op |-> "delete", calls |-> task.calls, roots |-> task.roots]
  BY <1>2 DEF PathDown
<1>4. calls \in Seq(nodes) /\ l \in Nat \ {0} /\ n = calls[l] /\ n \in nodes /\ n \in Sub
  BY <1>1, <1>2 DEF PathDown, LinksLeft, Last
<1> HIDE DEF n
<1>5. LinksLeft'
  <2>1. containees' \in [Sub -> SUBSET Sub]
    BY <1>1, <1>2 DEF LinksLeft
  <2>2. ASSUME NEW a \in Sub, NEW b \in Sub
        PROVE  b \in containees'[a] <=> a \in containers[b] /\ b \notin freed'
    <3>1. containees'[a] = IF a \in containers[n] THEN containees[a] \ {n} ELSE containees[a]
      BY <1>1
    <3>2. b \in containees[a] <=> a \in containers[b] /\ b \notin freed
      BY <1>2 DEF LinksLeft
    <3> QED
      BY <1>1, <3>1, <3>2
  <2>3. \A a \in freed' : containees'[a] = {}
    BY <1>1, <1>2, <1>4 DEF LinksLeft
  <2>4. freed' \subseteq nodes
    BY <1>1, <1>2, <1>4 DEF LinksLeft
  <2> QED
    BY <1>1, <1>2, <2>1, <2>2, <2>3, <2>4 DEF LinksLeft
<1> DEFINE shorter == Front(calls)
<1>6. /\ task' = [op |-> "delete", calls |-> shorter, roots |-> task.roots]
      /\ task'.op = "delete" /\ task'.calls = shorter /\ task'.roots = task.roots
      /\ task' = [op |-> "delete", calls |-> task'.calls, roots |-> task'.roots]
  <2>1. task' = [task EXCEPT !.calls = shorter]
    BY <1>1
  <2> HIDE DEF shorter
  <2> QED
    BY <1>3, <2>1
<1>7. /\ shorter \in Seq(nodes) /\ Len(shorter) = l - 1
      /\ \A i \in 1 .. l - 1 : shorter[i] = calls[i]
  <2>1. l - 1 \in Nat /\ \A i \in 1 .. l - 1 : calls[i] \in nodes
    BY <1>4
  <2>2. shorter = SubSeq(calls, 1, l - 1)
    BY DEF Front
  <2> HIDE DEF l, calls, shorter
  <2>3. /\ SubSeq(calls, 1, l - 1) \in Seq(nodes)
        /\ Len(SubSeq(calls, 1, l - 1)) = IF 1 <= l - 1 THEN (l - 1) - 1 + 1 ELSE 0
        /\ \A i \in 1 .. (l - 1) - 1 + 1 : SubSeq(calls, 1, l - 1)[i] = calls[1 + i - 1]
    BY <2>1, SubSeqProperties
  <2> QED
    BY <1>4, <2>2, <2>3
<1>8. /\ \A i \in 1 .. l : calls[i] \notin freed \cup task.roots
      /\ \A i, j \in 1 .. l : i < j => StrictlyCovers(calls[i], calls[j])
      /\ \A m \in nodes : containers[m] = {} =>
            m \in freed \cup task.roots \/ \E i \in 1 .. l : calls[i] = m
      /\ task.roots \subseteq nodes
      /\ \A r \in task.roots : containers[r] = {} /\ r \notin freed
  BY <1>2 DEF PathDown
<1> HIDE DEF calls, l, shorter
<1>9. n \notin task.roots /\ \A i \in 1 .. l - 1 : calls[i] # n
  <2>1. ASSUME NEW i \in 1 .. l - 1
        PROVE  StrictlyCovers(calls[i], calls[l])
    BY <1>4, <1>8
  <2>2. ~StrictlyCovers(n, n)
    BY DEF StrictlyCovers
  <2> QED
    BY <1>4, <1>8, <2>1, <2>2
<1>10. PathDown'
  <2>1. \A i \in 1 .. Len(shorter) : i \in 1 .. l /\ i \in 1 .. l - 1 /\ shorter[i] = calls[i]
    BY <1>4, <1>7
  <2>2. \A i \in 1 .. Len(shorter) : shorter[i] \notin freed' \cup task.roots
    BY <1>1, <1>8, <1>9, <2>1
  <2>3. \A i, j \in 1 .. Len(shorter) : i < j => StrictlyCovers(shorter[i], shorter[j])
    BY <1>8, <2>1
  <2>4. ASSUME NEW m \in nodes, containers[m] = {}
        PROVE  m \in freed' \cup task.roots \/ \E i \in 1 .. Len(shorter) : shorter[i] = m
    <3>1. CASE \E i \in 1 .. l : calls[i] = m
      <4>1. PICK i \in 1 .. l : calls[i] = m
        BY <3>1
      <4>2. CASE i = l
        BY <1>1, <1>4, <4>1, <4>2
      <4>3. CASE i # l
        <5>1. i \in 1 .. Len(shorter)
          BY <1>4, <1>7, <4>3
        <5> QED
          BY <2>1, <4>1, <5>1
      <4> QED
        BY <4>2, <4>3
    <3> QED
      BY <1>1, <1>8, <2>4, <3>1
  <2>5. \A r \in task.roots : containers[r] = {} /\ r \notin freed'
    BY <1>1, <1>8, <1>9
  <2> QED
    BY <1>1, <1>6, <1>7, <1>8, <2>2, <2>3, <2>4, <2>5 DEF PathDown
<1>11. DeletePart'
  BY <1>5, <1>6, <1>10 DEF DeletePart
<1> QED
  BY <1>1, <1>6, <1>11, DeletingInv

LEMMA DeletedKeeps ==
    ASSUME WalkInv, Deleted
    PROVE  WalkInv'
<1>1. /\ task.op = "delete" /\ task.calls = <<>> /\ task.roots = {} /\ task' = [op |-> "deleted"]
      /\ UNCHANGED <<nextId, last, freed, stats, depthMin, depthMax, nodes, containers, containees>>
  BY DEF Deleted, nodeStats, vars, structure
<1>2. LinksLeft /\ PathDown
  BY <1>1 DEF WalkInv, DeletePart, Deleting
<1>3. freed = nodes
  <2> DEFINE T == nodes \ freed
  <2> SUFFICES ASSUME T # {}
               PROVE  FALSE
    BY <1>2 DEF LinksLeft
  <2>1. T \in SUBSET Sub
    BY <1>2 DEF LinksLeft
  <2>2. PICK m \in T : \A x \in T : ~StrictlyCovers(x, m)
    BY <2>1, Maximal
  <2>3. m \in Sub /\ m \in nodes /\ m \notin freed
    BY <2>1, <2>2
  <2>4. containers[m] # {}
    BY <1>1, <1>2, <2>3 DEF PathDown
  <2>5. PICK p \in containers[m] : TRUE
    BY <2>4
  <2>6. p \in Sub /\ p \in nodes /\ StrictlyCovers(p, m) /\ m \in containees[p]
    BY <1>2, <2>3, <2>5 DEF LinksLeft
  <2>7. p \notin freed
    BY <1>2, <2>6 DEF LinksLeft
  <2> QED
    BY <2>2, <2>6, <2>7
<1>4. task'.op = "deleted"
  BY <1>1
<1>5. DeletePart'
  BY <1>1, <1>2, <1>3, <1>4 DEF DeletePart, LinksLeft
<1> QED
  BY <1>1, <1>4, <1>5, DeletingInv

-----------------------------------------------------------------------------
(* The theorems.                                                           *)

LEMMA WalkStep == WalkInv /\ [WalksNext]_graphState => WalkInv'
<1> SUFFICES ASSUME WalkInv, [WalksNext]_graphState
             PROVE  WalkInv'
  OBVIOUS
<1>1. CASE UNCHANGED graphState
  <2>1. UNCHANGED <<vars, nextId, last, stats, depthMin, depthMax, task, freed>>
    BY <1>1 DEF graphState, walkVars, nodeStats
  <2>2. UNCHANGED <<nodes, containers, containees, roots, leaves, overriden, count, size, attr, reply>>
    BY <2>1 DEF vars, structure
  <2>3. GraphPart'
    BY <2>1, CountStep DEF WalkInv, GraphPart, Deleting
  <2>4. MatchPart'
    <3>1. ASSUME NEW V, Walked(V)
          PROVE  Walked(V)'
      <4>1. /\ \A n : Entries(n)' = Entries(n)
            /\ \A T : Behind(T)' = Behind(T)
            /\ Stacked' = Stacked
        BY <2>1, <2>2 DEF Entries, Behind, Live, Stacked
      <4>2. UNION {Entries(n)' : n \in FoundIn(V, task.event)}
              = UNION {Entries(n) : n \in FoundIn(V, task.event)}
        BY <4>1
      <4> QED
        BY <2>1, <2>2, <3>1, <4>1, <4>2 DEF Walked
    <3>2. Stacked' = Stacked
      BY <2>1 DEF Stacked
    <3> QED
      BY <2>1, <2>2, <3>1, <3>2 DEF WalkInv, MatchPart
  <2>5. StatsPart'
    <3>1. CallsTyped => CallsTyped'
      BY <2>1, <2>2 DEF CallsTyped
    <3>2. DepthsReached => DepthsReached'
      BY <2>1, <2>2 DEF DepthsReached, Visited
    <3>3. DepthsHandedOn => DepthsHandedOn'
      <4>1. \A p, n : Due(p, n) => Due(p, n)'
        BY <2>1 DEF Due
      <4> QED
        BY <2>1, <2>2, <4>1 DEF DepthsHandedOn, Visited
    <3> QED
      BY <2>1, <3>1, <3>2, <3>3 DEF WalkInv, StatsPart
  <2>6. DeletePart'
    BY <2>1, <2>2 DEF WalkInv, DeletePart, Deleting, LinksLeft, PathDown
  <2> QED
    BY <2>1, <2>2, <2>3, <2>4, <2>5, <2>6, DepthsStay DEF WalkInv, MarksOld, TaskTyped
<1>2. ASSUME NEW s \in Sub, AddMarked(s) \/ RemoveMarked(s)
      PROVE  WalkInv'
  BY <1>2, AddMarkedKeeps, RemoveMarkedKeeps
<1>3. ASSUME NEW e \in Event, BeginMatch(e)
      PROVE  WalkInv'
  BY <1>3, BeginMatchKeeps
<1>4. CASE PopMatched \/ PopCandidate \/ FinishMatch
  BY <1>4, PopMatchedKeeps, PopCandidateKeeps, FinishMatchKeeps
<1>5. CASE StartStats \/ PrepareStats \/ ComputeStats
  BY <1>5, StartStatsKeeps, PrepareStatsKeeps, ComputeStatsKeeps
<1>6. CASE BeginDelete \/ ClearNext \/ DeleteSelf \/ Deleted
  BY <1>6, BeginDeleteKeeps, ClearNextKeeps, DeleteSelfKeeps, DeletedKeeps
<1> QED
  BY <1>1, <1>2, <1>3, <1>4, <1>5, <1>6 DEF WalksNext, Operation, TaskNext

LEMMA WalkAlways == WalksSpec => []WalkInv
BY WalksInitial, WalkStep, PTL DEF WalksSpec

\* After Graph::stats every node is one deeper than the deepest of its containers
\* (depth_max_) and than the least deep of them (depth_min_), in whatever order
\* the recursive calls of prepare_stats went, and whatever operations came before.
THEOREM DepthsAlwaysExact == WalksSpec => []DepthsExact
<1>1. WalkInv => DepthsExact
  BY DEF WalkInv
<1> QED
  BY <1>1, WalkAlways, PTL

\* The destructor of the graph never follows a link to a node that it has
\* deleted and clears no node twice, and it ends with every node deleted,
\* whatever the graph and in whatever order the children are cleared.
THEOREM NothingDangles == WalksSpec => []NoDanglingNode
<1>1. ASSUME WalkInv
      PROVE  NoDanglingNode
  <2>1. CASE ~Deleting
    <3>1. freed = {} /\ task.op # "delete" /\ task.op # "deleted"
      BY <1>1, <2>1 DEF WalkInv, GraphPart, Deleting
    <3> QED
      BY <3>1 DEF NoDanglingNode
  <2>2. CASE Deleting
    <3>1. LinksLeft
      BY <1>1, <2>2 DEF WalkInv, DeletePart
    <3>2. ASSUME NEW n \in nodes \ freed
          PROVE  (containees[n] \cup containers[n]) \cap freed = {}
      BY <3>1 DEF LinksLeft
    <3>3. ASSUME task.op = "delete"
          PROVE  (task.roots \cup ToSet(task.calls)) \cap freed = {}
      <4>1. PathDown
        BY <1>1, <3>3 DEF WalkInv, DeletePart
      <4>2. ToSet(task.calls) = {task.calls[i] : i \in 1 .. Len(task.calls)}
        <5>1. task.calls \in Seq(nodes)
          BY <4>1 DEF PathDown
        <5> QED
          BY <5>1 DEF ToSet
      <4> QED
        BY <4>1, <4>2 DEF PathDown
    <3> QED
      BY <1>1, <3>2, <3>3 DEF NoDanglingNode, WalkInv, DeletePart
  <2> QED
    BY <2>1, <2>2
<1> QED
  BY <1>1, WalkAlways, PTL

\* However the candidates are popped and however many containers push the same
\* node, Graph::match step by step gives the answer of one look at the graph as
\* long as next_id_ has not run over; after that it counts no subscription twice
\* and none that does not match.
THEOREM WalkAlwaysMatches == WalksSpec => WalkImplementsMatch
<1>1. ASSUME WalkInv, [WalksNext]_graphState
      PROVE  [task.op = "match" =>
                \E e \in Event : IF nextId >= 0 THEN Match(e) ELSE LossyMatch(e)]_vars
  <2>1. CASE task.op # "match"
    BY <2>1
  <2>2. CASE UNCHANGED vars
    BY <2>2
  <2>3. CASE task.op = "match" /\ FinishMatch
    <3>1. CountInv /\ MatchPart /\ nextId \in Int
      BY <1>1, <2>3 DEF WalkInv, GraphPart, Deleting, MarksOld
    <3> QED
      BY <2>3, <3>1, FinishAnswers
  <2>4. CASE task.op = "match" /\ ~FinishMatch
    <3>1. task # Idle /\ task.op \notin {"stats", "delete"}
      BY <2>4 DEF Idle
    <3>2. UNCHANGED graphState \/ PopMatched \/ PopCandidate
      BY <1>1, <2>4, <3>1
         DEF WalksNext, Operation, TaskNext, AddMarked, RemoveMarked, BeginMatch, StartStats,
             BeginDelete, PrepareStats, ComputeStats, ClearNext, DeleteSelf, Deleted
    <3> QED
      BY <3>2 DEF graphState, PopMatched, PopCandidate
  <2> QED
    BY <2>1, <2>2, <2>3, <2>4
<1> QED
  BY <1>1, WalkAlways, PTL DEF WalksSpec, WalkImplementsMatch

-----------------------------------------------------------------------------
(* Sums, continued: they may be taken apart at any element.                *)

LEMMA SumSplit ==
    ASSUME NEW S, IsFiniteSet(S), NEW g, \A x \in S : g[x] \in Int
    PROVE  /\ SumOf(g, {}) = 0
           /\ \A T \in SUBSET S : SumOf(g, T) \in Int
           /\ \A T \in SUBSET S : \A x \in T : SumOf(g, T) = g[x] + SumOf(g, T \ {x})
<1>1. PICK sum : IsSum(sum, g, SUBSET S)
  BY SumDefined
<1>2. \A T \in SUBSET S : sum[T] = IF T = {} THEN 0 ELSE g[First(T)] + sum[T \ {First(T)}]
  BY <1>1 DEF IsSum
<1>3. \A T \in SUBSET S : IsFiniteSet(T) /\ Cardinality(T) \in Nat
  BY FS_Subset, FS_CardinalityType
<1> DEFINE Fine(T) == sum[T] \in Int /\ \A x \in T : sum[T] = g[x] + sum[T \ {x}]
           M == {m \in Nat : \A T \in SUBSET S : Cardinality(T) <= m => Fine(T)}
<1>10. Fine({})
  BY <1>2
<1>4. 0 \in M
  <2> HIDE DEF Fine
  <2>1. \A T \in SUBSET S : Cardinality(T) <= 0 => T = {}
    BY <1>3, FS_EmptySet
  <2> QED
    BY <1>10, <2>1
<1>5. ASSUME NEW m \in Nat, m \in M
      PROVE  m + 1 \in M
  <2> SUFFICES ASSUME NEW T \in SUBSET S, Cardinality(T) <= m + 1, T # {}
               PROVE  Fine(T)
    <3> HIDE DEF Fine
    <3> QED
      BY <1>10
  <2>2. \A x \in T : T \ {x} \in SUBSET S /\ Cardinality(T \ {x}) <= m
    <3>1. IsFiniteSet(T) /\ Cardinality(T) \in Nat /\ \A x \in T : T \ {x} \in SUBSET S
      BY <1>3
    <3>2. \A x \in T : Cardinality(T \ {x}) = Cardinality(T) - 1
      BY <3>1, FS_RemoveElement
    <3> QED
      BY <3>1, <3>2
  <2>3. \A x \in T : Fine(T \ {x})
    BY <1>5, <2>2
  <2> DEFINE f == First(T)
  <2>4. f \in T
    BY DEF First
  <2>5. sum[T] = g[f] + sum[T \ {f}] /\ g[f] \in Int /\ sum[T \ {f}] \in Int
    BY <1>2, <2>3, <2>4
  <2> HIDE DEF f
  <2>6. ASSUME NEW x \in T, x # f
        PROVE  sum[T] = g[x] + sum[T \ {x}]
    <3> DEFINE U == (T \ {f}) \ {x}
    <3>1. U = (T \ {x}) \ {f}
      OBVIOUS
    <3>2. sum[T \ {f}] = g[x] + sum[U]
      BY <2>3, <2>4, <2>6
    <3>3. sum[T \ {x}] = g[f] + sum[U]
      BY <2>3, <2>4, <2>6, <3>1
    <3>4. sum[T \ {f}] \in Int /\ sum[T \ {x}] \in Int /\ g[x] \in Int
      BY <2>3, <2>4
    <3>5. sum[U] \in Int
      <4> DEFINE V == T \ {f}
      <4>1. Cardinality(V) <= m /\ x \in V /\ V \in SUBSET S /\ U = V \ {x}
        BY <2>2, <2>4, <2>6
      <4> HIDE DEF U, V
      <4>2. IsFiniteSet(V) /\ Cardinality(V) \in Nat
        BY <1>3, <4>1
      <4>3. Cardinality(U) = Cardinality(V) - 1
        BY <4>1, <4>2, FS_RemoveElement
      <4>4. U \in SUBSET S /\ Cardinality(U) <= m
        BY <4>1, <4>2, <4>3
      <4> QED
        BY <1>5, <4>4
    <3> HIDE DEF U
    <3> QED
      BY <2>5, <3>2, <3>3, <3>4, <3>5
  <2>7. sum[T] \in Int
    BY <2>5
  <2>8. ASSUME NEW x \in T
        PROVE  sum[T] = g[x] + sum[T \ {x}]
    <3>1. CASE x = f
      BY <2>5, <3>1
    <3> QED
      BY <2>6, <3>1
  <2> QED
    BY <2>7, <2>8
<1> HIDE DEF M, Fine
<1>6. ASSUME NEW T \in SUBSET S
      PROVE  Fine(T)
  <2>1. Cardinality(T) \in M
    BY <1>3, <1>4, <1>5, NatSetInduction
  <2>2. \A m \in M : Cardinality(T) <= m => Fine(T)
    BY DEF M
  <2>3. Cardinality(T) <= Cardinality(T)
    BY <1>3
  <2> QED
    BY <2>1, <2>2, <2>3
<1>7. ASSUME NEW T \in SUBSET S
      PROVE  SumOf(g, T) = sum[T]
  <2> DEFINE G == [U \in SUBSET T |-> {sum[U]}]
  <2>1. 0 \in G[{}]
    BY <1>2
  <2>2. \A U \in SUBSET T : \A x \in U : \A v \in G[U \ {x}] : g[x] + v \in G[U]
    BY <1>6 DEF Fine
  <2>3. G[T] = {sum[T]}
    OBVIOUS
  <2> HIDE DEF G
  <2>4. SumOf(g, T) \in G[T]
    BY <1>3, <2>1, <2>2, SumInduction
  <2> QED
    BY <2>3, <2>4
<1>8. \A T \in SUBSET S : \A x \in T : T \ {x} \in SUBSET S
  OBVIOUS
<1>9. {} \in SUBSET S /\ sum[{}] = 0
  BY <1>2
<1> QED
  BY <1>6, <1>7, <1>8, <1>9 DEF Fine

-----------------------------------------------------------------------------
(* Folds over sequences.                                                   *)

\* f[T] is the fold of step over the elements of w at the positions T.
IsFold(f, step, base, w, D) ==
    f = [T \in D |-> IF T = {} THEN base ELSE step[<<f[T \ {Max(T)}], w[Max(T)]>>]]

LEMMA FoldDefined ==
    ASSUME NEW step, NEW base, NEW w, NEW n \in Nat
    PROVE  \E f : IsFold(f, step, base, w, SUBSET (1 .. n))
<1> DEFINE Small(m) == {T \in SUBSET (1 .. n) : Cardinality(T) <= m}
           M == {m \in Nat : \E f : IsFold(f, step, base, w, Small(m))}
<1>1. \A T \in SUBSET (1 .. n) : IsFiniteSet(T) /\ Cardinality(T) \in Nat /\ Cardinality(T) <= n
  BY PositionsFinite
<1>2. 0 \in M
  <2>1. \A T \in Small(0) : T = {}
    BY <1>1, FS_EmptySet
  <2> DEFINE f == [T \in Small(0) |-> base]
  <2> HIDE DEF Small
  <2>2. IsFold(f, step, base, w, Small(0))
    BY <2>1 DEF IsFold
  <2> QED
    BY <2>2
<1>3. ASSUME NEW m \in Nat, m \in M
      PROVE  m + 1 \in M
  <2>1. PICK f : IsFold(f, step, base, w, Small(m))
    BY <1>3
  <2> DEFINE Step(T, g) == IF T = {} THEN base ELSE step[<<g[T \ {Max(T)}], w[Max(T)]>>]
             h == [T \in Small(m + 1) |-> Step(T, f)]
  <2>2. ASSUME NEW T \in Small(m + 1), T # {}
        PROVE  T \ {Max(T)} \in Small(m)
    <3>1. /\ T \in SUBSET (1 .. n) /\ Cardinality(T) \in Nat /\ Cardinality(T) <= m + 1
          /\ IsFiniteSet(T) /\ Max(T) \in T
      BY <1>1, <2>2, LastPosition
    <3> DEFINE U == T \ {Max(T)}
    <3>2. Cardinality(U) = Cardinality(T) - 1 /\ U \in SUBSET (1 .. n)
      BY <3>1, FS_RemoveElement
    <3> HIDE DEF U
    <3>3. Cardinality(U) <= m
      BY <3>1, <3>2
    <3> QED
      BY <3>2, <3>3 DEF U
  <2>3. \A T \in Small(m) : T \in Small(m + 1)
    BY <1>1
  <2> HIDE DEF Small
  <2>4. \A T \in Small(m) : f[T] = Step(T, f)
    BY <2>1 DEF IsFold
  <2>5. \A T \in Small(m) : h[T] = f[T]
    BY <2>3, <2>4
  <2>6. \A T \in Small(m + 1) : h[T] = Step(T, h)
    BY <2>2, <2>5
  <2>7. h = [T \in Small(m + 1) |-> h[T]]
    OBVIOUS
  <2> HIDE DEF h
  <2>8. IsFold(h, step, base, w, Small(m + 1))
    BY <2>6, <2>7 DEF IsFold
  <2> QED
    BY <2>8
<1> HIDE DEF M
<1>4. n \in M
  BY <1>2, <1>3, NatSetInduction
<1>5. Small(n) = SUBSET (1 .. n)
  BY <1>1
<1> QED
  BY <1>4, <1>5 DEF M

\* The last of the first k + 1 positions.
LEMMA LastOf ==
    ASSUME NEW n \in Nat, NEW k \in Nat, k + 1 <= n
    PROVE  /\ 1 .. k + 1 \in SUBSET (1 .. n) /\ 1 .. k + 1 # {}
           /\ Max(1 .. k + 1) = k + 1 /\ (1 .. k + 1) \ {k + 1} = 1 .. k
           /\ k + 1 \in 1 .. n
<1> DEFINE T == 1 .. k + 1
<1>1. T \in SUBSET (1 .. n) /\ k + 1 \in T /\ \A i \in T : i \in Nat /\ i <= k + 1
  OBVIOUS
<1>2. T \ {k + 1} = 1 .. k
  OBVIOUS
<1> HIDE DEF T
<1>3. Max(T) \in T /\ \A i \in T : i <= Max(T)
  BY <1>1, LastPosition
<1>4. Max(T) = k + 1
  <2>1. Max(T) \in Nat /\ Max(T) <= k + 1
    BY <1>1, <1>3
  <2>2. k + 1 <= Max(T)
    BY <1>1, <1>3
  <2> QED
    BY <2>1, <2>2
<1> QED
  BY <1>1, <1>2, <1>4 DEF T

\* The values of a fold whose step takes S and A to S stay in S.
LEMMA FoldTyped ==
    ASSUME NEW S, NEW A, NEW step \in [S \X A -> S], NEW base \in S, NEW w \in Seq(A),
           NEW f, IsFold(f, step, base, w, SUBSET (1 .. Len(w)))
    PROVE  \A T \in SUBSET (1 .. Len(w)) : f[T] \in S
<1> DEFINE n == Len(w)
           M == {m \in Nat : \A T \in SUBSET (1 .. n) : Cardinality(T) <= m => f[T] \in S}
<1>1. n \in Nat /\ \A T \in SUBSET (1 .. n) : IsFiniteSet(T) /\ Cardinality(T) \in Nat /\ Cardinality(T) <= n
  BY PositionsFinite
<1>2. \A T \in SUBSET (1 .. n) : f[T] = IF T = {} THEN base ELSE step[<<f[T \ {Max(T)}], w[Max(T)]>>]
  BY DEF IsFold
<1>3. \A i \in 1 .. n : w[i] \in A
  OBVIOUS
<1> HIDE DEF n
<1>4. 0 \in M
  <2>1. \A T \in SUBSET (1 .. n) : Cardinality(T) <= 0 => T = {}
    BY <1>1, FS_EmptySet
  <2> QED
    BY <1>2, <2>1
<1>5. ASSUME NEW m \in Nat, m \in M
      PROVE  m + 1 \in M
  <2>1. ASSUME NEW T \in SUBSET (1 .. n), Cardinality(T) <= m + 1, T # {}
        PROVE  f[T] \in S
    <3>1. IsFiniteSet(T) /\ Cardinality(T) \in Nat /\ Max(T) \in T
      BY <1>1, <2>1, LastPosition
    <3> DEFINE U == T \ {Max(T)}
    <3>2. Cardinality(U) = Cardinality(T) - 1 /\ U \in SUBSET (1 .. n)
      BY <3>1, FS_RemoveElement
    <3>3. f[T] = step[<<f[U], w[Max(T)]>>]
      BY <1>2, <2>1
    <3> HIDE DEF U
    <3>4. f[U] \in S
      BY <1>5, <2>1, <3>1, <3>2
    <3> QED
      BY <1>3, <3>1, <3>3, <3>4
  <2>2. f[{}] \in S
    BY <1>2
  <2>3. \A T \in SUBSET (1 .. n) : Cardinality(T) <= m + 1 => f[T] \in S
    BY <2>1, <2>2
  <2> QED
    BY <2>3
<1> HIDE DEF M
<1>6. n \in M
  BY <1>1, <1>4, <1>5, NatSetInduction
<1> QED
  BY <1>1, <1>6 DEF M, n

-----------------------------------------------------------------------------
(* What main reads.                                                        *)

IsParse(f, lines, kind, D) ==
    f = [T \in D |-> IF T = {} THEN <<>>
                     ELSE IF lines[Max(T)] \in kind
                          THEN Append(f[T \ {Max(T)}], lines[Max(T)]) ELSE f[T \ {Max(T)}]]

\* parse_subs and parse_pubs keep the lines of their kind.
LEMMA ParsedIs ==
    ASSUME NEW S, NEW lines \in Seq(S), NEW kind
    PROVE  /\ Parsed(lines, kind) \in Seq(kind) /\ Len(Parsed(lines, kind)) <= Len(lines)
           /\ ToSet(Parsed(lines, kind)) = ToSet(lines) \cap kind
<1> DEFINE n == Len(lines)
           step == [x \in Seq(kind) \X S |-> IF x[2] \in kind THEN Append(x[1], x[2]) ELSE x[1]]
           Is(f) == IsParse(f, lines, kind, SUBSET (1 .. n))
           fold == CHOOSE f : Is(f)
<1>1. n \in Nat /\ DOMAIN lines = 1 .. n /\ \A i \in 1 .. n : lines[i] \in S
  OBVIOUS
<1>2. Is(fold)
  <2>1. PICK f : IsFold(f, step, <<>>, lines, SUBSET (1 .. n))
    BY <1>1, FoldDefined
  <2>2. step \in [Seq(kind) \X S -> Seq(kind)] /\ <<>> \in Seq(kind)
    OBVIOUS
  <2>3. \A T \in SUBSET (1 .. n) : f[T] \in Seq(kind)
    <3> HIDE DEF step
    <3> QED
      BY <2>1, <2>2, FoldTyped
  <2>4. ASSUME NEW T \in SUBSET (1 .. n), T # {}
        PROVE  f[T] = IF lines[Max(T)] \in kind
                      THEN Append(f[T \ {Max(T)}], lines[Max(T)]) ELSE f[T \ {Max(T)}]
    <3>1. Max(T) \in T /\ T \ {Max(T)} \in SUBSET (1 .. n)
      BY <1>1, <2>4, LastPosition
    <3>2. f[T \ {Max(T)}] \in Seq(kind) /\ lines[Max(T)] \in S
      BY <1>1, <2>3, <3>1
    <3>3. f[T] = step[<<f[T \ {Max(T)}], lines[Max(T)]>>]
      <4> HIDE DEF step
      <4> QED
        BY <2>1, <2>4 DEF IsFold
    <3> QED
      BY <3>2, <3>3
  <2>5. f[{}] = <<>> /\ f = [T \in SUBSET (1 .. n) |-> f[T]]
    <3> HIDE DEF step
    <3> QED
      BY <2>1 DEF IsFold
  <2> HIDE DEF step
  <2>6. f = [T \in SUBSET (1 .. n) |->
               IF T = {} THEN <<>>
               ELSE IF lines[Max(T)] \in kind
                    THEN Append(f[T \ {Max(T)}], lines[Max(T)]) ELSE f[T \ {Max(T)}]]
    BY <2>4, <2>5
  <2>7. Is(f)
    BY <2>6 DEF IsParse
  <2> HIDE DEF Is
  <2> QED
    BY <2>7
<1>3. Parsed(lines, kind) = fold[1 .. n]
  <2>1. Parsed(lines, kind) =
          (CHOOSE f : IsParse(f, lines, kind, SUBSET (DOMAIN lines)))[DOMAIN lines]
    BY Zenon DEF Parsed, FoldLeft, MapThenFoldSet, IsParse
  <2> QED
    BY <1>1, <2>1
<1> HIDE DEF fold
<1> DEFINE Fine(r, k) == /\ r \in Seq(kind) /\ Len(r) <= k
                         /\ ToSet(r) = {lines[i] : i \in 1 .. k} \cap kind
           M == {k \in Nat : k <= n => Fine(fold[1 .. k], k)}
<1>4. 0 \in M
  <2>1. 1 .. 0 = {} /\ {} \in SUBSET (1 .. n)
    OBVIOUS
  <2>2. fold[{}] = <<>>
    BY <1>2, <2>1 DEF IsParse
  <2>3. ToSet(<<>>) = {} /\ <<>> \in Seq(kind) /\ Len(<<>>) = 0
    BY DEF ToSet
  <2>4. {lines[i] : i \in 1 .. 0} = {}
    BY <2>1
  <2>5. Fine(<<>>, 0)
    BY <2>3, <2>4
  <2> HIDE DEF Fine
  <2>6. Fine(fold[1 .. 0], 0)
    BY <2>1, <2>2, <2>5
  <2> QED
    BY <2>6
<1>5. ASSUME NEW k \in Nat, Fine(fold[1 .. k], k), k + 1 <= n
      PROVE  Fine(fold[1 .. k + 1], k + 1)
  <2>1. /\ 1 .. k + 1 \in SUBSET (1 .. n) /\ 1 .. k + 1 # {}
        /\ Max(1 .. k + 1) = k + 1 /\ (1 .. k + 1) \ {k + 1} = 1 .. k
    BY <1>1, <1>5, LastOf
  <2> DEFINE r == fold[1 .. k]
             q == fold[1 .. k + 1]
  <2>2. q = IF lines[k + 1] \in kind THEN Append(r, lines[k + 1]) ELSE r
    BY <1>2, <2>1 DEF IsParse
  <2>3. Fine(r, k)
    BY <1>5
  <2>4. {lines[i] : i \in 1 .. k + 1} = {lines[i] : i \in 1 .. k} \cup {lines[k + 1]}
    <3>1. \A i \in 1 .. k + 1 : i \in 1 .. k \/ i = k + 1
      OBVIOUS
    <3>2. (\A i \in 1 .. k : i \in 1 .. k + 1) /\ k + 1 \in 1 .. k + 1
      OBVIOUS
    <3> QED
      BY <3>1, <3>2
  <2> HIDE DEF r, q
  <2>5. CASE lines[k + 1] \in kind
    <3>1. q = Append(r, lines[k + 1]) /\ r \in Seq(kind)
      BY <2>2, <2>3, <2>5
    <3>2. q \in Seq(kind) /\ Len(q) = Len(r) + 1
      BY <2>5, <3>1
    <3>3. ToSet(q) = ToSet(r) \cup {lines[k + 1]}
      <4>1. DOMAIN q = 1 .. Len(r) + 1 /\ DOMAIN r = 1 .. Len(r) /\ Len(r) \in Nat
        BY <3>1, <3>2
      <4>2. (\A i \in 1 .. Len(r) : q[i] = r[i]) /\ q[Len(r) + 1] = lines[k + 1]
        BY <2>5, <3>1
      <4>3. \A i \in 1 .. Len(r) + 1 : i \in 1 .. Len(r) \/ i = Len(r) + 1
        BY <4>1
      <4>4. (\A i \in 1 .. Len(r) : i \in 1 .. Len(r) + 1) /\ Len(r) + 1 \in 1 .. Len(r) + 1
        BY <4>1
      <4> QED
        BY <4>1, <4>2, <4>3, <4>4 DEF ToSet
    <3>4. Len(r) \in Nat /\ Len(q) <= k + 1
      BY <2>3, <3>1, <3>2
    <3> QED
      BY <2>3, <2>4, <2>5, <3>2, <3>3, <3>4 DEF q
  <2>6. CASE lines[k + 1] \notin kind
    <3>1. q = r
      BY <2>2, <2>6
    <3>2. Len(r) \in Nat /\ Len(r) <= k + 1
      BY <2>3
    <3> QED
      BY <2>3, <2>4, <2>6, <3>1, <3>2 DEF q
  <2> QED
    BY <2>5, <2>6
<1> HIDE DEF Fine
<1>6. \A k \in Nat : k \in M => k + 1 \in M
  BY <1>1, <1>5
<1> HIDE DEF M
<1>7. n \in M
  BY <1>1, <1>4, <1>6, NatSetInduction
<1>8. Fine(fold[1 .. n], n)
  BY <1>1, <1>7 DEF M
<1>9. ToSet(lines) = {lines[i] : i \in 1 .. n}
  BY <1>1 DEF ToSet
<1> QED
  BY <1>3, <1>8, <1>9 DEF Fine

OptionValues ==
    [does : {"main", "test", "exit"}, containment : BOOLEAN, prefiltering : BOOLEAN,
     variant : Int, bloomSize : Int, numHashes : Int]

IsRead(f, argv, D) ==
    f = [T \in D |-> IF T = {} THEN Defaults ELSE Option(f[T \ {Max(T)}], argv[Max(T)])]

LEMMA OptionTyped ==
    ASSUME NEW o \in OptionValues, NEW a \in STRING \X Int
    PROVE  Option(o, a) \in OptionValues
BY DEF Option, OptionValues

\* What the loop over the options leaves is well typed, and main goes on only
\* with what is valid.
LEMMA OptionsIs ==
    ASSUME NEW p \in Programs
    PROVE  /\ Options(p) \in OptionValues
           /\ Options(p).does = "main" => Valid(Options(p), p.files)
<1> DEFINE w == p.argv
           A == STRING \X Int
           n == Len(w)
           step == [x \in OptionValues \X A |-> Option(x[1], x[2])]
           Is(f) == IsRead(f, w, SUBSET (1 .. n))
           fold == CHOOSE f : Is(f)
<1>1. w \in Seq(A)
  BY DriverAssumption
<1>2. n \in Nat /\ DOMAIN w = 1 .. n /\ \A i \in 1 .. n : w[i] \in A
  BY <1>1
<1>3. Defaults \in OptionValues
  BY PreFilterAssumption DEF Defaults, OptionValues, AllNoContainment
<1> HIDE DEF w, A
<1>4. Is(fold)
  <2>1. PICK f : IsFold(f, step, Defaults, w, SUBSET (1 .. n))
    BY <1>2, FoldDefined
  <2>2. step \in [OptionValues \X A -> OptionValues]
    BY OptionTyped DEF A
  <2>3. \A T \in SUBSET (1 .. n) : f[T] \in OptionValues
    <3> HIDE DEF step
    <3> QED
      BY <1>1, <1>3, <2>1, <2>2, FoldTyped
  <2>4. ASSUME NEW T \in SUBSET (1 .. n), T # {}
        PROVE  f[T] = Option(f[T \ {Max(T)}], w[Max(T)])
    <3>1. Max(T) \in T /\ T \ {Max(T)} \in SUBSET (1 .. n)
      BY <1>2, <2>4, LastPosition
    <3>2. f[T \ {Max(T)}] \in OptionValues /\ w[Max(T)] \in A
      BY <1>2, <2>3, <3>1
    <3>3. f[T] = step[<<f[T \ {Max(T)}], w[Max(T)]>>]
      <4> HIDE DEF step
      <4> QED
        BY <2>1, <2>4 DEF IsFold
    <3> QED
      BY <3>2, <3>3
  <2>5. f[{}] = Defaults /\ f = [T \in SUBSET (1 .. n) |-> f[T]]
    <3> HIDE DEF step
    <3> QED
      BY <2>1 DEF IsFold
  <2> HIDE DEF step
  <2>6. f = [T \in SUBSET (1 .. n) |->
               IF T = {} THEN Defaults ELSE Option(f[T \ {Max(T)}], w[Max(T)])]
    BY <2>4, <2>5
  <2>7. Is(f)
    BY <2>6 DEF IsRead
  <2> HIDE DEF Is
  <2> QED
    BY <2>7
<1>5. FoldLeft(Option, Defaults, w) = fold[1 .. n]
  <2>1. FoldLeft(Option, Defaults, w) =
          (CHOOSE f : IsRead(f, w, SUBSET (DOMAIN w)))[DOMAIN w]
    BY Zenon DEF FoldLeft, MapThenFoldSet, IsRead
  <2> QED
    BY <1>2, <2>1
<1> HIDE DEF fold
<1> DEFINE M == {k \in Nat : k <= n => fold[1 .. k] \in OptionValues}
<1>6. 0 \in M
  <2>1. 1 .. 0 = {} /\ {} \in SUBSET (1 .. n)
    OBVIOUS
  <2>2. fold[{}] = Defaults
    BY <1>4, <2>1 DEF IsRead
  <2> QED
    BY <1>3, <2>1, <2>2
<1>7. ASSUME NEW k \in Nat, fold[1 .. k] \in OptionValues, k + 1 <= n
      PROVE  fold[1 .. k + 1] \in OptionValues
  <2>1. /\ 1 .. k + 1 \in SUBSET (1 .. n) /\ 1 .. k + 1 # {} /\ k + 1 \in 1 .. n
        /\ Max(1 .. k + 1) = k + 1 /\ (1 .. k + 1) \ {k + 1} = 1 .. k
    BY <1>2, <1>7, LastOf
  <2>2. fold[1 .. k + 1] = Option(fold[1 .. k], w[k + 1])
    BY <1>4, <2>1 DEF IsRead
  <2> QED
    BY <1>2, <1>7, <2>1, <2>2, OptionTyped DEF A
<1>8. \A k \in Nat : k \in M => k + 1 \in M
  BY <1>2, <1>7
<1> HIDE DEF M
<1>9. n \in M
  BY <1>2, <1>6, <1>8, NatSetInduction
<1> DEFINE o == FoldLeft(Option, Defaults, p.argv)
<1>10. o \in OptionValues
  BY <1>2, <1>5, <1>9 DEF M, w
<1>11. Options(p) = IF o.does = "main" /\ ~Valid(o, p.files) THEN [o EXCEPT !.does = "exit"] ELSE o
  BY DEF Options
<1> HIDE DEF o
<1>12. [o EXCEPT !.does = "exit"] \in OptionValues /\ [o EXCEPT !.does = "exit"].does = "exit"
  BY <1>10 DEF OptionValues
<1> QED
  BY <1>10, <1>11, <1>12

-----------------------------------------------------------------------------
(* Totals.                                                                 *)

TotalOf(w) == FoldLeft(+, 0, w)

IsTotal(f, w, D) ==
    f = [T \in D |-> IF T = {} THEN 0 ELSE f[T \ {Max(T)}] + w[Max(T)]]

\* What holds of 0, and of a total when one more number is added, holds of the total.
LEMMA TotalInduction ==
    ASSUME NEW w \in Seq(Int), NEW G, 0 \in G[0],
           \A k \in 1 .. Len(w) : \A v \in G[k - 1] : v + w[k] \in G[k]
    PROVE  TotalOf(w) \in G[Len(w)]
<1> DEFINE n == Len(w)
           Z == Int
           step == [x \in Z \X Z |-> x[1] + x[2]]
           Is(f) == IsTotal(f, w, SUBSET (1 .. n))
           fold == CHOOSE f : Is(f)
<1>1. n \in Nat /\ DOMAIN w = 1 .. n /\ \A i \in 1 .. n : w[i] \in Int
  OBVIOUS
<1>2. Is(fold)
  <2>1. PICK f : IsFold(f, step, 0, w, SUBSET (1 .. n))
    BY <1>1, FoldDefined
  <2>2. step \in [Z \X Z -> Z] /\ 0 \in Z /\ w \in Seq(Z)
    OBVIOUS
  <2>3. \A T \in SUBSET (1 .. n) : f[T] \in Int
    <3> HIDE DEF step, Z
    <3>1. \A T \in SUBSET (1 .. n) : f[T] \in Z
      BY <2>1, <2>2, FoldTyped
    <3> QED
      BY <3>1 DEF Z
  <2>4. ASSUME NEW T \in SUBSET (1 .. n), T # {}
        PROVE  f[T] = f[T \ {Max(T)}] + w[Max(T)]
    <3>1. Max(T) \in T /\ T \ {Max(T)} \in SUBSET (1 .. n)
      BY <1>1, <2>4, LastPosition
    <3>2. f[T \ {Max(T)}] \in Int /\ w[Max(T)] \in Int
      BY <1>1, <2>3, <3>1
    <3>3. f[T] = step[<<f[T \ {Max(T)}], w[Max(T)]>>]
      <4> HIDE DEF step
      <4> QED
        BY <2>1, <2>4 DEF IsFold
    <3> QED
      BY <3>2, <3>3
  <2>5. f[{}] = 0 /\ f = [T \in SUBSET (1 .. n) |-> f[T]]
    <3> HIDE DEF step
    <3> QED
      BY <2>1 DEF IsFold
  <2> HIDE DEF step
  <2>6. f = [T \in SUBSET (1 .. n) |-> IF T = {} THEN 0 ELSE f[T \ {Max(T)}] + w[Max(T)]]
    BY <2>4, <2>5
  <2>7. Is(f)
    BY <2>6 DEF IsTotal
  <2> HIDE DEF Is
  <2> QED
    BY <2>7
<1>3. TotalOf(w) = fold[1 .. n]
  <2>1. TotalOf(w) = (CHOOSE f : IsTotal(f, w, SUBSET (DOMAIN w)))[DOMAIN w]
    BY Zenon DEF TotalOf, FoldLeft, MapThenFoldSet, IsTotal
  <2> QED
    BY <1>1, <2>1
<1> HIDE DEF fold
<1> DEFINE M == {k \in Nat : k <= n => fold[1 .. k] \in G[k]}
<1>4. 0 \in M
  <2>1. 1 .. 0 = {} /\ {} \in SUBSET (1 .. n)
    OBVIOUS
  <2>2. fold[{}] = 0
    BY <1>2, <2>1 DEF IsTotal
  <2> QED
    BY <2>1, <2>2
<1>5. ASSUME NEW k \in Nat, fold[1 .. k] \in G[k], k + 1 <= n
      PROVE  fold[1 .. k + 1] \in G[k + 1]
  <2>1. /\ 1 .. k + 1 \in SUBSET (1 .. n) /\ 1 .. k + 1 # {} /\ k + 1 \in 1 .. n
        /\ Max(1 .. k + 1) = k + 1 /\ (1 .. k + 1) \ {k + 1} = 1 .. k
    BY <1>1, <1>5, LastOf
  <2>2. fold[1 .. k + 1] = fold[1 .. k] + w[k + 1]
    BY <1>2, <2>1 DEF IsTotal
  <2>3. (k + 1) - 1 = k
    OBVIOUS
  <2> QED
    BY <1>5, <2>1, <2>2, <2>3
<1>6. ASSUME NEW k \in Nat, k \in M
      PROVE  k + 1 \in M
  <2>1. k + 1 \in Nat /\ (k + 1 <= n => k <= n)
    BY <1>1
  <2>2. k + 1 <= n => fold[1 .. k] \in G[k]
    BY <1>6, <2>1
  <2>3. k + 1 <= n => fold[1 .. k + 1] \in G[k + 1]
    BY <1>5, <2>2
  <2> QED
    BY <2>1, <2>3
<1> HIDE DEF M
<1>7. n \in M
  BY <1>1, <1>4, <1>6, NatSetInduction
<1> QED
  BY <1>1, <1>3, <1>7 DEF M

\* The samples that compute_stats adds for one node.
LEMMA TotalOfSame ==
    ASSUME NEW k \in Nat, NEW v \in Int
    PROVE  TotalOf([i \in 1 .. k |-> v]) = k * v
<1> DEFINE w == [i \in 1 .. k |-> v]
           G == [j \in 0 .. k |-> {j * v}]
<1>1. w \in Seq(Int) /\ Len(w) = k /\ \A i \in 1 .. k : w[i] = v
  OBVIOUS
<1>2. 0 \in G[0]
  OBVIOUS
<1>3. \A j \in 1 .. k : \A u \in G[j - 1] : u + v \in G[j]
  <2>1. ASSUME NEW j \in 1 .. k
        PROVE  /\ G[j - 1] = {(j - 1) * v} /\ G[j] = {j * v}
               /\ (j - 1) * v + v = j * v
    <3>1. j \in 0 .. k /\ j - 1 \in 0 .. k
      OBVIOUS
    <3>2. (j - 1) * v + v = j * v
      OBVIOUS
    <3> QED
      BY <3>1, <3>2
  <2> HIDE DEF G
  <2> QED
    BY <2>1
<1>4. G[k] = {k * v}
  OBVIOUS
<1> HIDE DEF w, G
<1>5. TotalOf(w) \in G[Len(w)]
  BY <1>1, <1>2, <1>3, TotalInduction
<1> QED
  BY <1>1, <1>4, <1>5 DEF w

LEMMA TotalOfFirst ==
    ASSUME NEW k \in Nat \ {0}, NEW v \in Int
    PROVE  TotalOf([i \in 1 .. k |-> IF i = 1 THEN v ELSE 0]) = v
<1> DEFINE w == [i \in 1 .. k |-> IF i = 1 THEN v ELSE 0]
           G == [j \in 0 .. k |-> {IF j = 0 THEN 0 ELSE v}]
<1>1. w \in Seq(Int) /\ Len(w) = k /\ \A i \in 1 .. k : w[i] = IF i = 1 THEN v ELSE 0
  OBVIOUS
<1>2. 0 \in G[0]
  OBVIOUS
<1>3. \A j \in 1 .. k : \A u \in G[j - 1] : u + w[j] \in G[j]
  <2>1. ASSUME NEW j \in 1 .. k
        PROVE  /\ G[j - 1] = {IF j = 1 THEN 0 ELSE v} /\ G[j] = {v}
    <3>1. j \in 0 .. k /\ j - 1 \in 0 .. k /\ (j - 1 = 0 <=> j = 1) /\ j # 0
      OBVIOUS
    <3> QED
      BY <3>1
  <2> HIDE DEF G, w
  <2>2. ASSUME NEW j \in 1 .. k
        PROVE  (IF j = 1 THEN 0 ELSE v) + w[j] = v
    BY <1>1
  <2> QED
    BY <2>1, <2>2
<1>4. G[k] = {v}
  OBVIOUS
<1> HIDE DEF w, G
<1>5. TotalOf(w) \in G[Len(w)]
  BY <1>1, <1>2, <1>3, TotalInduction
<1> QED
  BY <1>1, <1>4, <1>5 DEF w

-----------------------------------------------------------------------------
(* The scripts.                                                            *)

Names == {"build", "match", "stats", "search", "remove", "delete", "filter", "fill", "publish", "empty", "free"}

\* r is s followed by t, of lengths m and n.
IsJoin(r, s, m, t, n) ==
    /\ r \in Seq(Names) /\ s \in Seq(Names) /\ t \in Seq(Names)
    /\ Len(r) = m + n /\ Len(s) = m /\ Len(t) = n
    /\ \A i \in 1 .. m : r[i] = s[i]
    /\ \A i \in 1 .. n : r[m + i] = t[i]

LEMMA Joined ==
    ASSUME NEW m \in Nat, NEW n \in Nat, NEW r, NEW s, NEW t, IsJoin(r, s, m, t, n)
    PROVE  s \o t = r
<1>1. /\ s \in Seq(Names) /\ t \in Seq(Names) /\ r \in Seq(Names)
      /\ s \o t \in Seq(Names) /\ Len(s \o t) = Len(r) /\ Len(r) = m + n /\ Len(s) = m /\ Len(t) = n
  BY ConcatProperties DEF IsJoin
<1>2. ASSUME NEW i \in 1 .. Len(s \o t)
      PROVE  (s \o t)[i] = r[i]
  <2>1. i \in 1 .. m + n
    BY <1>1, <1>2
  <2>2. (s \o t)[i] = IF i <= m THEN s[i] ELSE t[i - m]
    BY <1>1, <2>1, ConcatProperties
  <2>3. CASE i <= m
    BY <2>1, <2>2, <2>3 DEF IsJoin
  <2>4. CASE i > m
    <3>1. i - m \in 1 .. n /\ m + (i - m) = i
      BY <2>1, <2>4
    <3> QED
      BY <2>2, <2>4, <3>1 DEF IsJoin
  <2> QED
    BY <2>1, <2>3, <2>4
<1> QED
  BY <1>1, <1>2, SeqEqual

Matched3 == <<"build", "match", "stats">>
Filter3 == <<"filter", "fill", "publish">>
Filtered4 == <<"build", "filter", "fill", "publish">>
Filtered6 == <<"build", "match", "stats", "filter", "fill", "publish">>

LEMMA ScriptJoins ==
    /\ <<"build">> \o <<"match", "stats">> = Matched3
    /\ Matched3 \o Filter3 = Filtered6
    /\ <<"build">> \o Filter3 = Filtered4
    /\ Matched3 \o <<"delete">> = <<"build", "match", "stats", "delete">>
    /\ Filtered4 \o <<"delete">> = <<"build", "filter", "fill", "publish", "delete">>
    /\ Filtered6 \o <<"delete">> = <<"build", "match", "stats", "filter", "fill", "publish", "delete">>
<1>1. <<"build">> \o <<"match", "stats">> = Matched3
  <2>1. IsJoin(Matched3, <<"build">>, 1, <<"match", "stats">>, 2)
    BY DEF IsJoin, Names, Matched3
  <2> QED
    BY <2>1, Joined, 1 \in Nat, 2 \in Nat
<1>2. Matched3 \o Filter3 = Filtered6
  <2>1. IsJoin(Filtered6, Matched3, 3, Filter3, 3)
    BY DEF IsJoin, Names, Matched3, Filter3, Filtered6
  <2> QED
    BY <2>1, Joined, 3 \in Nat, 3 \in Nat
<1>3. <<"build">> \o Filter3 = Filtered4
  <2>1. IsJoin(Filtered4, <<"build">>, 1, Filter3, 3)
    BY DEF IsJoin, Names, Filter3, Filtered4
  <2> QED
    BY <2>1, Joined, 1 \in Nat, 3 \in Nat
<1>4. Matched3 \o <<"delete">> = <<"build", "match", "stats", "delete">>
  <2>1. IsJoin(<<"build", "match", "stats", "delete">>, Matched3, 3, <<"delete">>, 1)
    BY DEF IsJoin, Names, Matched3
  <2> QED
    BY <2>1, Joined, 3 \in Nat, 1 \in Nat
<1>5. Filtered4 \o <<"delete">> = <<"build", "filter", "fill", "publish", "delete">>
  <2>1. IsJoin(<<"build", "filter", "fill", "publish", "delete">>, Filtered4, 4, <<"delete">>, 1)
    BY DEF IsJoin, Names, Filtered4
  <2> QED
    BY <2>1, Joined, 4 \in Nat, 1 \in Nat
<1>6. Filtered6 \o <<"delete">> = <<"build", "match", "stats", "filter", "fill", "publish", "delete">>
  <2>1. IsJoin(<<"build", "match", "stats", "filter", "fill", "publish", "delete">>, Filtered6, 6, <<"delete">>, 1)
    BY DEF IsJoin, Names, Filtered6
  <2> QED
    BY <2>1, Joined, 6 \in Nat, 1 \in Nat
<1> QED
  BY <1>1, <1>2, <1>3, <1>4, <1>5, <1>6

LEMMA MainScriptIs ==
    ASSUME options.containment \in BOOLEAN, options.prefiltering \in BOOLEAN, options.variant \in Int
    PROVE  MainScript =
             IF options.containment
             THEN IF options.prefiltering
                  THEN <<"build", "match", "stats", "filter", "fill", "publish", "delete">>
                  ELSE <<"build", "match", "stats", "delete">>
             ELSE IF ~options.prefiltering THEN <<>>
             ELSE IF options.variant > 1
                  THEN <<"build", "filter", "fill", "publish", "delete">>
                  ELSE <<"filter", "fill", "publish">>
<1>1. \A s \in Seq(Names) : s \o <<>> = s /\ <<>> \o s = s
  BY ConcatEmptySeq
<1>2. /\ <<"build">> \in Seq(Names) /\ Matched3 \in Seq(Names) /\ Filter3 \in Seq(Names)
      /\ Filtered4 \in Seq(Names) /\ Filtered6 \in Seq(Names) /\ <<>> \in Seq(Names)
  BY DEF Names, Matched3, Filter3, Filtered4, Filtered6
<1>3. CASE options.containment /\ options.prefiltering
  <2>1. MainScript = ((<<"build">> \o <<"match", "stats">>) \o Filter3) \o <<"delete">>
    BY <1>3 DEF MainScript, NeedsGraph, If, Filter3
  <2> QED
    BY <1>3, <2>1, ScriptJoins
<1>4. CASE options.containment /\ ~options.prefiltering
  <2>1. MainScript = ((<<"build">> \o <<"match", "stats">>) \o <<>>) \o <<"delete">>
    BY <1>4 DEF MainScript, NeedsGraph, If
  <2> QED
    BY <1>1, <1>2, <1>4, <2>1, ScriptJoins
<1>5. CASE ~options.containment /\ options.prefiltering /\ options.variant > 1
  <2>1. MainScript = ((<<"build">> \o <<>>) \o Filter3) \o <<"delete">>
    BY <1>5 DEF MainScript, NeedsGraph, If, Filter3
  <2> QED
    BY <1>1, <1>2, <1>5, <2>1, ScriptJoins
<1>6. CASE ~options.containment /\ options.prefiltering /\ ~(options.variant > 1)
  <2>1. MainScript = ((<<>> \o <<>>) \o Filter3) \o <<>>
    BY <1>6 DEF MainScript, NeedsGraph, If, Filter3
  <2> QED
    BY <1>1, <1>2, <1>6, <2>1 DEF Filter3
<1>7. CASE ~options.containment /\ ~options.prefiltering
  <2>1. MainScript = ((<<>> \o <<>>) \o <<>>) \o <<>>
    BY <1>7 DEF MainScript, NeedsGraph, If
  <2> QED
    BY <1>1, <1>2, <1>7, <2>1
<1> QED
  BY <1>3, <1>4, <1>5, <1>6, <1>7

-----------------------------------------------------------------------------
(* The program as it is set up.                                            *)

DriverOptions ==
    [does : {"main", "test", "exit", "free"}, containment : BOOLEAN, prefiltering : BOOLEAN,
     variant : Int, bloomSize : Int, numHashes : Int]

Setup ==
    /\ options \in DriverOptions
    /\ options.does = "main" =>
          /\ files \in Seq(Seq(Sub \cup Event)) /\ files # <<>>
          /\ 2 * Len(Subs) + Len(Pubs) <= MaxInt
    /\ phase \in Nat \ {0} /\ at \in Nat

\* What the publications are read from.
LEMMA PubsOfTyped ==
    ASSUME NEW fs \in Seq(Seq(Sub \cup Event)), fs # <<>>
    PROVE  PubsOf(fs) \in Seq(Event)
<1> DEFINE n == Len(fs) - 1
           read == [i \in 1 .. n |-> ParsePubs(fs[i + 1])]
<1>1. n \in Nat /\ \A i \in 1 .. n : fs[i + 1] \in Seq(Sub \cup Event)
  <2>1. Len(fs) \in Nat \ {0}
    OBVIOUS
  <2>2. \A i \in 1 .. n : i + 1 \in 1 .. Len(fs)
    BY <2>1
  <2> QED
    BY <2>1, <2>2
<1>2. read \in [1 .. n -> Seq(Event)]
  BY <1>1, ParsedIs DEF ParsePubs
<1>3. PubsOf(fs) = FlattenSeq(read)
  BY DEF PubsOf
<1> HIDE DEF read, n
<1>4. CASE n # 0
  BY <1>1, <1>2, <1>3, <1>4, FlattenIs
<1>5. CASE n = 0
  <2>1. read = <<>>
    BY <1>2, <1>5
  <2>2. FlattenSeq(<<>>) = <<>>
    BY DEF FlattenSeq
  <2>3. PubsOf(fs) = <<>>
    BY <1>3, <2>1, <2>2
  <2> QED
    BY <2>3, EmptySeq
<1> QED
  BY <1>4, <1>5

TestLines == <<"s1", "s2", "s3", "s4", "s5", "s6", "s7", "s8", "s9">>

LEMMA DataTyped ==
    ASSUME Setup
    PROVE  /\ Subs \in Seq(Sub) /\ Pubs \in Seq(Event)
           /\ options.does \in {"main", "test"} => 2 * Len(Subs) + Len(Pubs) <= MaxInt
           /\ options.does = "test" => {"s3", "s4"} \subseteq ToSet(Subs)
<1>1. CASE options.does = "main"
  <2>1. Head(files) \in Seq(Sub \cup Event)
    BY <1>1 DEF Setup
  <2>2. Subs \in Seq(Sub)
    BY <1>1, <2>1, ParsedIs DEF Subs, ParseSubs
  <2>3. Pubs \in Seq(Event)
    BY <1>1, PubsOfTyped DEF Setup, Pubs
  <2> QED
    BY <1>1, <2>2, <2>3 DEF Setup
<1>2. CASE options.does # "main"
  <2>1. Subs = Parsed(TestLines, Sub) /\ Pubs = <<"e1", "e2", "e3">>
    BY <1>2 DEF Subs, ParseSubs, Pubs, TestLines
  <2> DEFINE S == {"s1", "s2", "s3", "s4", "s5", "s6", "s7", "s8", "s9"}
  <2>2. TestLines \in Seq(S) /\ Len(TestLines) = 9
    BY DEF TestLines
  <2>3. TestLines[3] = "s3" /\ TestLines[4] = "s4" /\ DOMAIN TestLines = 1 .. 9
    BY DEF TestLines
  <2>4. {"s3", "s4"} \subseteq ToSet(TestLines)
    BY <2>3 DEF ToSet
  <2> HIDE DEF S
  <2>5. /\ Subs \in Seq(Sub) /\ Len(Subs) <= 9
        /\ ToSet(Subs) = ToSet(TestLines) \cap Sub
    BY <2>1, <2>2, ParsedIs
  <2>6. Pubs \in Seq(Event) /\ Len(Pubs) = 3
    BY <2>1, DriverAssumption
  <2>7. Len(Subs) \in Nat /\ MaxInt \in Int /\ 2 * 9 + 3 <= MaxInt
    BY <2>5, FilesFit, WalksAssumption
  <2>8. 2 * Len(Subs) + Len(Pubs) <= MaxInt
    BY <2>5, <2>6, <2>7
  <2> QED
    BY <1>2, <2>4, <2>5, <2>6, <2>8, DriverAssumption
<1> QED
  BY <1>1, <1>2

LEMMA SetupInitial == DriverInit => Setup
<1> SUFFICES ASSUME DriverInit
             PROVE  Setup
  OBVIOUS
<1>1. phase \in Nat \ {0} /\ at \in Nat
  BY DEF DriverInit
<1>2. CASE options = [Defaults EXCEPT !.does = "free"]
  <2>1. Defaults \in DriverOptions
    BY PreFilterAssumption DEF Defaults, DriverOptions, AllNoContainment
  <2>2. options \in DriverOptions /\ options.does = "free"
    BY <1>2, <2>1 DEF DriverOptions
  <2> QED
    BY <1>1, <2>2 DEF Setup
<1>3. ASSUME NEW p \in Programs, options = Options(p), files = p.files
      PROVE  Setup
  <2>1. options \in DriverOptions
    BY <1>3, OptionsIs DEF OptionValues, DriverOptions
  <2>2. ASSUME options.does = "main"
        PROVE  /\ files \in Seq(Seq(Sub \cup Event)) /\ files # <<>>
               /\ 2 * Len(Subs) + Len(Pubs) <= MaxInt
    <3>1. files # <<>> /\ NoFile \notin ToSet(files)
      BY <1>3, <2>2, OptionsIs DEF Valid
    <3>2. files \in Seq({NoFile} \cup Seq(Sub \cup Event))
      BY <1>3, DriverAssumption
    <3>3. \A i \in 1 .. Len(files) : files[i] \in Seq(Sub \cup Event)
      <4>1. \A i \in 1 .. Len(files) : files[i] # NoFile
        BY <3>1, <3>2 DEF ToSet
      <4> QED
        BY <3>2, <4>1
    <3>4. files \in Seq(Seq(Sub \cup Event))
      BY <3>2, <3>3
    <3>5. 2 * Len(ParseSubs(Head(files))) + Len(PubsOf(files)) <= MaxInt
      BY <1>3, <3>1, FilesFit
    <3> QED
      BY <2>2, <3>1, <3>4, <3>5 DEF Subs, Pubs
  <2> QED
    BY <1>1, <2>1, <2>2 DEF Setup
<1> QED
  BY <1>2, <1>3 DEF DriverInit

\* The program does not change what it is set up for.
LEMMA SetupStays ==
    ASSUME Setup, [DriverNext]_driverVars
    PROVE  /\ UNCHANGED <<options, files>>
           /\ \/ UNCHANGED <<phase, at>>
              \/ phase' = phase /\ at' = at + 1
              \/ EndPhase
<1>1. CASE EndPhase
  BY <1>1 DEF EndPhase
<1>2. CASE ~EndPhase
  BY <1>2
     DEF DriverNext, driverVars, Turn, Build, SearchGraph, MatchGraph, RemoveFromGraph, Stats,
         DeleteGraph, NewPreFilter, Fill, MatchPreFilter, EmptyPreFilter, AnyOperation,
         Continue, Exit
<1> QED
  BY <1>1, <1>2

LEMMA SetupKeeps == Setup /\ [DriverNext]_driverVars => Setup'
<1> SUFFICES ASSUME Setup, [DriverNext]_driverVars
             PROVE  Setup'
  OBVIOUS
<1>1. UNCHANGED <<options, files>>
  BY SetupStays
<1>2. phase' \in Nat \ {0} /\ at' \in Nat
  BY SetupStays DEF Setup, EndPhase
<1>3. Subs' = Subs /\ Pubs' = Pubs
  BY <1>1 DEF Subs, Pubs
<1> QED
  BY <1>1, <1>2, <1>3 DEF Setup

-----------------------------------------------------------------------------
(* The phases, by their names.                                             *)

Now == IF Ended THEN "ended" ELSE Script[phase]

FirstPhase ==
    CASE options.does = "main" -> IF NeedsGraph THEN "build"
                                  ELSE IF options.prefiltering THEN "filter" ELSE "ended"
      [] options.does = "test" -> "build"
      [] options.does = "free" -> "free"
      [] OTHER -> "ended"

After(name) ==
    CASE name = "build" -> IF options.does = "test" THEN "search"
                           ELSE IF options.containment THEN "match" ELSE "filter"
      [] name = "search" -> "match"
      [] name = "match" -> IF options.does = "test" THEN "remove" ELSE "stats"
      [] name = "stats" -> IF options.prefiltering THEN "filter" ELSE "delete"
      [] name = "remove" -> "delete"
      [] name = "delete" -> IF options.does = "test" THEN "filter" ELSE "ended"
      [] name = "filter" -> "fill"
      [] name = "fill" -> "publish"
      [] name = "publish" -> IF options.does = "test" THEN "empty"
                             ELSE IF NeedsGraph THEN "delete" ELSE "ended"
      [] name = "free" -> "delete"
      [] OTHER -> "ended"

Phases ==
    CASE options.does = "main" ->
            {"ended"} \cup {n \in {"build", "delete"} : NeedsGraph}
                      \cup {n \in {"match", "stats"} : options.containment}
                      \cup {n \in {"filter", "fill", "publish"} : options.prefiltering}
      [] options.does = "test" ->
            {"build", "search", "match", "remove", "delete", "filter", "fill", "publish",
             "empty", "ended"}
      [] options.does = "free" -> {"free", "delete", "ended"}
      [] OTHER -> {"ended"}

LEMMA PhasesAre ==
    ASSUME Setup
    PROVE  /\ Now \in Phases /\ (Now = "ended" <=> Ended)
           /\ phase = 1 => Now = FirstPhase
           /\ ~Ended /\ phase' = phase + 1 /\ options' = options => Now' = After(Now)
<1>1. phase \in Nat \ {0} /\ options \in DriverOptions
  BY DEF Setup
<1>2. options' = options => Script' = Script
  BY DEF Script, MainScript, TestScript, FreeScript, NeedsGraph
<1> DEFINE n == Len(Script)
<1>3. /\ Now = (IF phase > n THEN "ended" ELSE Script[phase]) /\ (Ended <=> phase > n)
      /\ phase' = phase + 1 /\ options' = options =>
            Now' = IF phase + 1 > n THEN "ended" ELSE Script[phase + 1]
  BY <1>2 DEF Now, Ended
<1>4. CASE options.does = "main"
  <2>1. Script = MainScript
    BY <1>4 DEF Script
  <2>2. /\ options.containment \in BOOLEAN /\ options.prefiltering \in BOOLEAN
        /\ options.variant \in Int
    BY <1>1 DEF DriverOptions
  <2>3. CASE options.containment /\ options.prefiltering
    <3>1. Script = <<"build", "match", "stats", "filter", "fill", "publish", "delete">>
      BY <2>1, <2>2, <2>3, MainScriptIs
    <3>2. n = 7
      BY <3>1
    <3>3. phase > 7 \/ phase \in {1, 2, 3, 4, 5, 6, 7}
      BY <1>1
    <3> QED
      BY <1>1, <1>3, <1>4, <2>3, <3>1, <3>2, <3>3 DEF Phases, FirstPhase, After, NeedsGraph
  <2>4. CASE options.containment /\ ~options.prefiltering
    <3>1. Script = <<"build", "match", "stats", "delete">>
      BY <2>1, <2>2, <2>4, MainScriptIs
    <3>2. n = 4
      BY <3>1
    <3>3. phase > 4 \/ phase \in {1, 2, 3, 4}
      BY <1>1
    <3> QED
      BY <1>1, <1>3, <1>4, <2>4, <3>1, <3>2, <3>3 DEF Phases, FirstPhase, After, NeedsGraph
  <2>5. CASE ~options.containment /\ options.prefiltering /\ options.variant > 1
    <3>1. Script = <<"build", "filter", "fill", "publish", "delete">>
      BY <2>1, <2>2, <2>5, MainScriptIs
    <3>2. n = 5
      BY <3>1
    <3>3. phase > 5 \/ phase \in {1, 2, 3, 4, 5}
      BY <1>1
    <3> QED
      BY <1>1, <1>3, <1>4, <2>5, <3>1, <3>2, <3>3 DEF Phases, FirstPhase, After, NeedsGraph
  <2>6. CASE ~options.containment /\ options.prefiltering /\ ~(options.variant > 1)
    <3>1. Script = <<"filter", "fill", "publish">>
      BY <2>1, <2>2, <2>6, MainScriptIs
    <3>2. n = 3
      BY <3>1
    <3>3. phase > 3 \/ phase \in {1, 2, 3}
      BY <1>1
    <3> QED
      BY <1>1, <1>3, <1>4, <2>6, <3>1, <3>2, <3>3 DEF Phases, FirstPhase, After, NeedsGraph
  <2>7. CASE ~options.containment /\ ~options.prefiltering
    <3>1. Script = <<>>
      BY <2>1, <2>2, <2>7, MainScriptIs
    <3>2. n = 0 /\ phase > 0
      BY <1>1, <3>1
    <3> QED
      BY <1>1, <1>3, <1>4, <2>7, <3>1, <3>2 DEF Phases, FirstPhase, After, NeedsGraph
  <2> QED
    BY <2>2, <2>3, <2>4, <2>5, <2>6, <2>7
<1>5. CASE options.does = "test"
  <2>1. Script = TestScript /\ n = 9
    BY <1>5 DEF Script, TestScript
  <2>2. phase > 9 \/ phase \in {1, 2, 3, 4, 5, 6, 7, 8, 9}
    BY <1>1
  <2> QED
    BY <1>1, <1>3, <1>5, <2>1, <2>2 DEF Phases, FirstPhase, After, TestScript
<1>6. CASE options.does = "free"
  <2>1. Script = FreeScript /\ n = 2
    BY <1>6 DEF Script, FreeScript
  <2>2. phase > 2 \/ phase \in {1, 2}
    BY <1>1
  <2> QED
    BY <1>1, <1>3, <1>6, <2>1, <2>2 DEF Phases, FirstPhase, After, FreeScript
<1>7. CASE options.does = "exit"
  <2>1. Script = <<>> /\ n = 0
    BY <1>7 DEF Script
  <2> QED
    BY <1>1, <1>3, <1>7, <2>1 DEF Phases, FirstPhase
<1> QED
  BY <1>1, <1>4, <1>5, <1>6, <1>7 DEF DriverOptions

\* A turn of the phase of that name.
LEMMA TurnIs ==
    ASSUME Setup, NEW name \in Names, Turn(name)
    PROVE  /\ Now = name /\ Now' = Now /\ name \in Phases
           /\ at' = at + 1 /\ at < Len(Turns(name)) /\ This = Turns(name)[at + 1]
           /\ UNCHANGED <<options, files, phase>>
<1>1. ~Ended /\ Script[phase] = name /\ UNCHANGED <<options, files, phase>>
  BY DEF Turn
<1>2. Now = name
  BY <1>1 DEF Now
<1>3. Now' = Now
  BY <1>1 DEF Now, Ended, Script, MainScript, TestScript, FreeScript, NeedsGraph
<1> QED
  BY <1>1, <1>2, <1>3, PhasesAre DEF Turn, This

\* What it loops over.
LEMMA TurnsAre ==
    ASSUME Setup, NEW name \in Names, Turn(name)
    PROVE  /\ at \in Nat /\ at + 1 \in Nat
           /\ name \in {"build", "remove", "fill", "empty"} =>
                 /\ at + 1 \in 1 .. Len(Subs) /\ This = Subs[at + 1] /\ This \in Sub
           /\ name \in {"match", "publish"} =>
                 /\ at + 1 \in 1 .. Len(Pubs) /\ This = Pubs[at + 1] /\ This \in Event
           /\ name \in {"stats", "delete", "filter"} => at = 0
           /\ name = "search" => at + 1 \in 1 .. 2 /\ This = <<"s3", "s4">>[at + 1] /\ This \in Sub
<1>1. at \in Nat /\ at < Len(Turns(name)) /\ This = Turns(name)[at + 1]
  BY TurnIs DEF Setup
<1>2. Subs \in Seq(Sub) /\ Pubs \in Seq(Event)
  BY DataTyped
<1>3. ASSUME NEW S, NEW w \in Seq(S), Turns(name) = w
      PROVE  at + 1 \in 1 .. Len(w) /\ w[at + 1] \in S
  BY <1>1, <1>3
<1>4. CASE name \in {"build", "remove", "fill", "empty"}
  <2>1. Turns(name) = Subs
    BY <1>4 DEF Turns
  <2> QED
    BY <1>1, <1>2, <1>3, <1>4, <2>1
<1>5. CASE name \in {"match", "publish"}
  <2>1. Turns(name) = Pubs
    BY <1>5 DEF Turns
  <2> QED
    BY <1>1, <1>2, <1>3, <1>5, <2>1
<1>6. CASE name \in {"stats", "delete", "filter"}
  <2>1. Turns(name) = <<name>>
    BY <1>6 DEF Turns
  <2> QED
    BY <1>1, <1>6, <2>1
<1>7. CASE name = "search"
  <2>1. Turns(name) = <<"s3", "s4">>
    BY <1>7 DEF Turns
  <2>2. at + 1 \in 1 .. 2 /\ <<"s3", "s4">>[at + 1] \in {"s3", "s4"}
    BY <1>1, <2>1
  <2> QED
    BY <1>1, <1>7, <2>1, <2>2, DriverAssumption
<1> QED
  BY <1>1, <1>4, <1>5, <1>6, <1>7

-----------------------------------------------------------------------------
(* What the program does to the graph.                                     *)

LEMMA SetupAlways == DriverSpec => []Setup
<1> QED
  BY SetupInitial, SetupKeeps, PTL DEF DriverSpec

LEMMA GraphSteps ==
    ASSUME Setup, [DriverNext]_driverVars
    PROVE  [WalksNext]_graphState
<1>1. CASE Build
  <2>1. AddMarked(This) /\ This \in Sub
    BY <1>1, TurnsAre DEF Build, Names
  <2> QED
    BY <2>1 DEF WalksNext, Operation
<1>2. CASE SearchGraph
  BY <1>2 DEF SearchGraph
<1>3. CASE MatchGraph
  <2>1. BeginMatch(This) /\ This \in Event
    BY <1>3, TurnsAre DEF MatchGraph, Names
  <2> QED
    BY <2>1 DEF WalksNext, Operation
<1>4. CASE RemoveFromGraph
  <2>1. RemoveMarked(This) /\ This \in Sub
    BY <1>4, TurnsAre DEF RemoveFromGraph, Names
  <2> QED
    BY <2>1 DEF WalksNext, Operation
<1>5. CASE Stats
  BY <1>5 DEF Stats, WalksNext, Operation
<1>6. CASE DeleteGraph
  BY <1>6 DEF DeleteGraph, WalksNext, Operation
<1>7. CASE NewPreFilter
  BY <1>7 DEF NewPreFilter, MakePreFilter, graphState, graphVars
<1>8. CASE Fill
  BY <1>8 DEF Fill, AddToFilter, graphState, graphVars
<1>9. CASE MatchPreFilter
  BY Zenon, <1>9 DEF MatchPreFilter, FilterMatch, graphState, graphVars
<1>10. CASE EmptyPreFilter
  BY <1>10 DEF EmptyPreFilter, RemoveFromFilter, graphState, graphVars
<1>11. CASE AnyOperation
  <2>1. \/ \E s \in FreeSubs : AddMarked(s) \/ RemoveMarked(s)
        \/ \E e \in FreeEvents : BeginMatch(e)
        \/ StartStats
    BY <1>11 DEF AnyOperation
  <2> QED
    BY <2>1, DriverAssumption DEF WalksNext, Operation
<1>12. CASE Continue
  BY <1>12 DEF Continue, WalksNext
<1>13. CASE EndPhase \/ Exit \/ UNCHANGED driverVars
  BY <1>13 DEF EndPhase, Exit, driverVars
<1> QED
  BY <1>1, <1>2, <1>3, <1>4, <1>5, <1>6, <1>7, <1>8, <1>9, <1>10, <1>11, <1>12, <1>13
     DEF DriverNext

\* Whatever the arguments, main and test() use the graph as its class allows: all
\* that is shown of the graph's traversals holds in the program.
THEOREM DriverUsesGraph == DriverSpec => WalksSpec
<1>1. DriverInit => WalksInit
  BY DEF DriverInit
<1> QED
  BY <1>1, SetupAlways, GraphSteps, PTL DEF DriverSpec, WalksSpec

-----------------------------------------------------------------------------
(* What holds in which phase of main and of test().                        *)

Reads == options.does \in {"main", "test"}

\* The subscriptions that a loop over them has done, and has yet to do.
Done(k) == {Subs[i] : i \in 1 .. k}
ToDo(k) == {Subs[i] : i \in k + 1 .. Len(Subs)}
DistinctUpTo(k) == \A i, j \in 1 .. k : Subs[i] = Subs[j] => i = j

\* The graph holds all of them; or it is empty, or has never been made.
Full ==
    \/ Now \in {"search", "match", "stats"}
    \/ options.does = "main" /\ NeedsGraph /\ Now \in {"filter", "fill", "publish"}
Gone ==
    \/ options.does = "test"
       /\ Now \in {"delete", "filter", "fill", "publish", "empty", "ended"}
    \/ options.does = "main" /\ ~NeedsGraph

TaskPlace ==
    /\ task.op = "match" => Now = "match"
    /\ task.op = "stats" => Now = "stats"
    /\ Deleting =>
          IF options.does = "test" THEN Gone ELSE NeedsGraph /\ Now \in {"delete", "ended"}

\* As many ids have been drawn as there were operations.
IdPlace ==
    /\ Now = "build" => nextId \in 0 .. 2 * at
    /\ Now = "search" => nextId \in 0 .. 2 * Len(Subs)
    /\ Now = "match" => nextId \in 0 .. 2 * Len(Subs) + at

LivePlace ==
    /\ Now = "build" => Live = Done(at) /\ DistinctUpTo(at)
    /\ Full => Live = ToSet(Subs)
    /\ Now = "remove" => Live = ToDo(at)
    /\ options.does = "test" /\ Now # "build" => DistinctUpTo(Len(Subs))

\* The graph is as the prefilter needs it.
SoundPlace ==
    /\ Now = "build" \/ Full => RouterInv
    /\ Now = "remove" => MatchExact
    /\ Gone => nodes = {} /\ CountInv /\ RouterInv

\* What the graph has counted for each publication so far.
CountFor(e) == Cardinality({s \in ToSet(Subs) : Meets(s, e)})
AnswersUpTo(k) == Len(answers) = k /\ \A i \in 1 .. k : answers[i] = CountFor(Pubs[i])

AnswerPlace ==
    /\ answers \in Seq(Int)
    /\ Now \in {"build", "search"} => answers = <<>>
    /\ Now = "match" => /\ at <= Len(Pubs)
                        /\ IF task.op = "match"
                           THEN at \in 1 .. Len(Pubs) /\ task.event = Pubs[at] /\ AnswersUpTo(at - 1)
                           ELSE AnswersUpTo(at)
    /\ Now \notin {"build", "search", "match"} => answers = <<>> \/ AnswersUpTo(Len(Pubs))

FilterRest == FilterTypes /\ ListsExact /\ ContainmentInv /\ StoredInv

NoFilterYet ==
    \/ Now \in {"build", "search", "match", "stats", "remove"}
    \/ options.does = "test" /\ Now = "delete"

FilterPlace ==
    /\ FilterRest
    /\ NoFilterYet => variant = NoVariant
    /\ Now = "filter" => subs = <<>>
    /\ Now \in {"filter", "fill", "publish"} => IdsSound
    /\ Now = "fill" => Stored = Done(at)
    /\ Now = "publish" => Stored = ToSet(Subs)
    /\ Now = "empty" => Stored = ToDo(at)
    /\ options.does = "test" /\ Now = "ended" => Stored = {}

ResultPlace ==
    Now = "publish" =>
        /\ at <= Len(Pubs)
        /\ at > 0 => /\ result.event = {Pubs[at]} /\ result.pushed \in [Sub -> Nat]
                     /\ ExactFor(Pubs[at], result.pushed)

Searched == <<"s3", "s4">>

FoundPlace ==
    options.does = "test" =>
        /\ found \in Seq(Sub)
        /\ Now = "build" => found = <<>>
        /\ Now = "search" => Len(found) = at
        /\ Len(found) <= 2
        /\ \A i \in 1 .. Len(found) : EquivalentSubs(found[i], Searched[i])

Places ==
    Reads => /\ TaskPlace /\ IdPlace /\ LivePlace /\ SoundPlace /\ AnswerPlace
             /\ FilterPlace /\ ResultPlace /\ FoundPlace

-----------------------------------------------------------------------------
(* The steps of main and of test().                                        *)

SameProgram ==
    /\ options' = options /\ files' = files /\ Subs' = Subs /\ Pubs' = Pubs
    /\ NeedsGraph' = NeedsGraph /\ Reads' = Reads

Moved(name) == Now = name /\ Now' = Now /\ at' = at + 1 /\ at + 1 \in Nat \ {0}

NextSub == at + 1 \in 1 .. Len(Subs) /\ Subs[at + 1] \in Sub
NextPub == at + 1 \in 1 .. Len(Pubs) /\ Pubs[at + 1] \in Event

DoBuild ==
    Moved("build") /\ NextSub /\ AddMarked(Subs[at + 1]) /\ UNCHANGED <<filterVars, history>>
DoSearch ==
    /\ Moved("search") /\ at + 1 \in 1 .. 2 /\ Searched[at + 1] \in {"s3", "s4"}
    /\ \E n \in SearchResults(Searched[at + 1]) : found' = Append(found, n)
    /\ UNCHANGED <<graphState, filterVars, answers, early>>
DoMatch ==
    Moved("match") /\ NextPub /\ BeginMatch(Pubs[at + 1]) /\ UNCHANGED <<filterVars, history>>
DoRemove ==
    Moved("remove") /\ NextSub /\ RemoveMarked(Subs[at + 1]) /\ UNCHANGED <<filterVars, history>>
DoStats == Moved("stats") /\ StartStats /\ UNCHANGED <<filterVars, history>>
DoDelete == Moved("delete") /\ BeginDelete /\ UNCHANGED <<filterVars, history>>
DoFilter == Moved("filter") /\ MakePreFilter /\ UNCHANGED <<graphState, history>>
DoFill ==
    Moved("fill") /\ NextSub /\ AddToFilter(Subs[at + 1]) /\ UNCHANGED <<graphState, history>>
DoPublish ==
    Moved("publish") /\ NextPub /\ FilterMatch(Pubs[at + 1]) /\ UNCHANGED <<graphState, history>>
DoEmpty ==
    Moved("empty") /\ NextSub /\ RemoveFromFilter(Subs[at + 1]) /\ UNCHANGED <<graphState, history>>
DoContinue == Now' = Now /\ at' = at /\ Continue
DoNothing == Now' = Now /\ at' = at /\ UNCHANGED <<graphState, filterVars, history>>
DoEnd ==
    /\ Now # "ended" /\ Now' = After(Now) /\ at' = 0 /\ task.op \in {"idle", "deleted"}
    /\ Now \in {"build", "remove", "fill", "empty"} => at = Len(Subs)
    /\ Now \in {"match", "publish"} => at = Len(Pubs)
    /\ Now = "search" => at = 2
    /\ UNCHANGED <<graphState, filterVars, history>>

ReadStep ==
    \/ DoBuild \/ DoSearch \/ DoMatch \/ DoRemove \/ DoStats \/ DoDelete
    \/ DoFilter \/ DoFill \/ DoPublish \/ DoEmpty
    \/ DoContinue \/ DoNothing \/ DoEnd

LEMMA ReadPhases ==
    ASSUME Setup, Reads
    PROVE  Now \in Phases \cap (Names \cup {"ended"}) /\ Now # "free"
BY PhasesAre DEF Reads, Phases, Names

LEMMA ReadSteps ==
    ASSUME Setup, Reads, [DriverNext]_driverVars
    PROVE  SameProgram /\ ReadStep
<1>1. SameProgram
  BY SetupStays DEF SameProgram, Subs, Pubs, NeedsGraph, Reads
<1> SUFFICES ReadStep
  BY <1>1
<1>2. ASSUME NEW name \in Names, Turn(name)
      PROVE  Moved(name)
  BY <1>2, TurnIs, TurnsAre DEF Moved
<1>3. CASE Build
  BY <1>2, <1>3, TurnsAre DEF Build, Names, DoBuild, NextSub, ReadStep
<1>4. CASE SearchGraph
  <2>1. Turn("search") /\ "search" \in Names
    BY <1>4 DEF SearchGraph, Names
  <2>2. at + 1 \in 1 .. 2 /\ This = Searched[at + 1]
    BY <2>1, TurnsAre DEF Searched
  <2>3. Searched[at + 1] \in {"s3", "s4"}
    BY <2>2 DEF Searched
  <2> QED
    BY <1>2, <1>4, <2>1, <2>2, <2>3 DEF SearchGraph, DoSearch, ReadStep
<1>5. CASE MatchGraph
  BY <1>2, <1>5, TurnsAre DEF MatchGraph, Names, DoMatch, NextPub, ReadStep
<1>6. CASE RemoveFromGraph
  BY <1>2, <1>6, TurnsAre DEF RemoveFromGraph, Names, DoRemove, NextSub, ReadStep
<1>7. CASE Stats
  BY <1>2, <1>7 DEF Stats, Names, DoStats, ReadStep
<1>8. CASE DeleteGraph
  BY <1>2, <1>8 DEF DeleteGraph, Names, DoDelete, ReadStep
<1>9. CASE NewPreFilter
  BY <1>2, <1>9 DEF NewPreFilter, Names, DoFilter, ReadStep, MakePreFilter, graphState, graphVars
<1>10. CASE Fill
  <2>1. Moved("fill") /\ NextSub /\ AddToFilter(Subs[at + 1])
    BY <1>2, <1>10, TurnsAre DEF Fill, Names, NextSub
  <2>2. UNCHANGED <<graphState, history>>
    BY <1>10 DEF Fill, AddToFilter, graphState, graphVars
  <2> QED
    BY <2>1, <2>2 DEF DoFill, ReadStep
<1>11. CASE MatchPreFilter
  <2>1. Moved("publish") /\ NextPub /\ FilterMatch(Pubs[at + 1])
    BY <1>2, <1>11, TurnsAre DEF MatchPreFilter, Names, NextPub
  <2>2. UNCHANGED <<graphState, history>>
    BY Zenon, <1>11 DEF MatchPreFilter, FilterMatch, graphState, graphVars
  <2> QED
    BY <2>1, <2>2 DEF DoPublish, ReadStep
<1>12. CASE EmptyPreFilter
  <2>1. Moved("empty") /\ NextSub /\ RemoveFromFilter(Subs[at + 1])
    BY <1>2, <1>12, TurnsAre DEF EmptyPreFilter, Names, NextSub
  <2>2. UNCHANGED <<graphState, history>>
    BY <1>12 DEF EmptyPreFilter, RemoveFromFilter, graphState, graphVars
  <2> QED
    BY <2>1, <2>2 DEF DoEmpty, ReadStep
<1>13. CASE AnyOperation
  <2>1. Turn("free") /\ "free" \in Names
    BY <1>13 DEF AnyOperation, Names
  <2> QED
    BY <2>1, TurnIs, ReadPhases
<1>14. ASSUME UNCHANGED <<options, phase>>
       PROVE  Now' = Now
  BY <1>14 DEF Now, Ended, Script, MainScript, TestScript, FreeScript, NeedsGraph
<1>15. CASE Continue
  BY <1>14, <1>15 DEF Continue, DoContinue, ReadStep
<1>16. CASE EndPhase
  <2>1. ~Ended /\ phase' = phase + 1 /\ at' = 0 /\ options' = options
    BY <1>16 DEF EndPhase
  <2>2. Now # "ended" /\ Now' = After(Now) /\ Now = Script[phase]
    BY <2>1, PhasesAre DEF Now
  <2>3. at = Len(Turns(Now))
    BY <1>16, <2>2, ReadPhases DEF EndPhase
  <2>4. /\ Now \in {"build", "remove", "fill", "empty"} => at = Len(Subs)
        /\ Now \in {"match", "publish"} => at = Len(Pubs)
        /\ Now = "search" => at = 2
    BY <2>3 DEF Turns
  <2> QED
    BY <1>16, <2>1, <2>2, <2>4 DEF EndPhase, DoEnd, ReadStep
<1>17. CASE Exit \/ UNCHANGED driverVars
  BY <1>14, <1>17 DEF Exit, driverVars, DoNothing, ReadStep
<1> QED
  BY <1>3, <1>4, <1>5, <1>6, <1>7, <1>8, <1>9, <1>10, <1>11, <1>12, <1>13, <1>15, <1>16, <1>17
     DEF DriverNext

\* Only additions and removals change which nodes and subscriptions there are.
LEMMA TaskSteps ==
    ASSUME WalkInv, TaskNext
    PROVE  /\ task.op \in {"match", "stats", "delete"}
           /\ UNCHANGED <<nodes, containers, roots, leaves, overriden, count, size, attr>>
           /\ task.op # "delete" => UNCHANGED structure
           /\ task.op # "stats" => UNCHANGED nextId
           /\ task'.op \in {task.op, "idle", "deleted"}
           /\ task'.op = "deleted" => task.op = "delete"
           /\ FinishMatch \/ UNCHANGED vars \/ DeleteSelf
           /\ task.op = "match" /\ task'.op # "match" => FinishMatch
           /\ task'.op = "match" => task'.event = task.event
<1>1. CASE PopMatched
  BY <1>1 DEF PopMatched, vars, structure
<1>2. CASE PopCandidate
  <2>1. task.op = "match" /\ UNCHANGED <<vars, nextId>>
    BY <1>2 DEF PopCandidate
  <2>2. task = [op |-> "match", event |-> task.event, cands |-> task.cands,
                test |-> task.test, match |-> task.match, subs |-> task.subs]
    BY <2>1 DEF WalkInv, MatchPart
  <2>3. PICK c \in task.cands :
          LET n == c[2]
              rest == [task EXCEPT !.cands = @ \ {c}, !.test = @ + 1]
          IN \/ task' = [rest EXCEPT !.cands = @ \cup {<<n, m>> : m \in containees[n]},
                                     !.match = @ + count[n],
                                     !.subs = @ \cup Entries(n)]
             \/ task' = rest
    BY <1>2 DEF PopCandidate
  <2>4. task'.op = task.op /\ task'.event = task.event
    BY <2>2, <2>3
  <2> QED
    BY <2>1, <2>4 DEF vars, structure
<1>3. CASE FinishMatch
  BY <1>3 DEF FinishMatch, structure, Idle
<1>4. CASE PrepareStats
  <2>1. task.op = "stats" /\ UNCHANGED <<vars, nextId>>
    BY <1>4 DEF PrepareStats
  <2>2. task'.op = task.op
    BY <1>4 DEF PrepareStats
  <2> QED
    BY <2>1, <2>2 DEF vars, structure
<1>5. CASE ComputeStats
  BY <1>5 DEF ComputeStats, vars, structure, Idle
<1>6. CASE ClearNext
  <2>1. task = [op |-> "delete", calls |-> task.calls, roots |-> task.roots]
    BY <1>6 DEF ClearNext, WalkInv, DeletePart, PathDown
  <2>2. PICK calls, left : task' = [task EXCEPT !.calls = calls, !.roots = left]
    <3>1. CASE task.calls = <<>>
      BY <1>6, <3>1 DEF ClearNext
    <3>2. CASE task.calls # <<>>
      <4>1. PICK n \in containees[Last(task.calls)] : task' = [task EXCEPT !.calls = Append(task.calls, n)]
        BY <1>6, <3>2 DEF ClearNext
      <4>2. task' = [task EXCEPT !.calls = Append(task.calls, n), !.roots = task.roots]
        BY <2>1, <4>1
      <4> QED
        BY <4>2
    <3> QED
      BY <3>1, <3>2
  <2>3. task'.op = "delete"
    BY <2>1, <2>2
  <2> QED
    BY <1>6, <2>3 DEF ClearNext, vars, structure
<1>7. CASE DeleteSelf
  <2>1. task = [op |-> "delete", calls |-> task.calls, roots |-> task.roots]
    BY <1>7 DEF DeleteSelf, WalkInv, DeletePart, PathDown
  <2>2. PICK calls : task' = [task EXCEPT !.calls = calls]
    BY <1>7 DEF DeleteSelf
  <2>3. task'.op = "delete" /\ task.op = "delete"
    BY <2>1, <2>2
  <2>4. UNCHANGED <<nodes, containers, roots, leaves, overriden, count, size, attr, nextId>>
    BY <1>7 DEF DeleteSelf
  <2> QED
    BY <1>7, <2>3, <2>4
<1>8. CASE Deleted
  BY <1>8 DEF Deleted, vars, structure
<1> QED
  BY <1>1, <1>2, <1>3, <1>4, <1>5, <1>6, <1>7, <1>8 DEF TaskNext

\* What holds in every state of main and of test().
Running == Setup /\ Reads /\ WalkInv /\ Places

LEMMA RunningIs ==
    ASSUME Running
    PROVE  /\ Setup /\ WalkInv /\ Now \in Phases \cap (Names \cup {"ended"}) /\ Now # "free"
           /\ options.does \in {"main", "test"}
           /\ TaskPlace /\ IdPlace /\ LivePlace /\ SoundPlace /\ AnswerPlace
           /\ FilterPlace /\ ResultPlace /\ FoundPlace
           /\ at \in Nat /\ Subs \in Seq(Sub) /\ Pubs \in Seq(Event)
           /\ Now \in {"build", "delete"} => NeedsGraph \/ options.does = "test"
           /\ Now \in {"match", "stats"} => options.containment \/ options.does = "test"
           /\ Now \in {"search", "remove", "empty"} => options.does = "test"
           /\ options.does = "test" => Now # "stats"
           /\ options.containment => NeedsGraph
<1>1. Setup /\ Reads /\ WalkInv /\ Places
  BY DEF Running
<1>2. Now \in Phases \cap (Names \cup {"ended"}) /\ Now # "free"
  BY <1>1, ReadPhases
<1>3. /\ Now \in {"build", "delete"} => NeedsGraph \/ options.does = "test"
      /\ Now \in {"match", "stats"} => options.containment \/ options.does = "test"
      /\ Now \in {"search", "remove", "empty"} => options.does = "test"
      /\ options.does = "test" => Now # "stats"
  BY <1>1, <1>2 DEF Phases, Reads
<1>4. at \in Nat /\ Subs \in Seq(Sub) /\ Pubs \in Seq(Event)
  BY <1>1, DataTyped DEF Setup
<1> QED
  BY <1>1, <1>2, <1>3, <1>4 DEF Places, Reads, NeedsGraph

\* The graph that a phase uses is whole.
LEMMA GraphThere ==
    ASSUME Running, Now \in {"build", "search", "match", "stats", "remove"} \/ Full \/ Gone
    PROVE  /\ CountInv /\ (Gone \/ ~Deleting)
           /\ Full => ~Gone /\ ~Deleting
           /\ Now \in {"build", "search", "match", "stats", "remove"} => ~Gone /\ ~Deleting
           /\ Gone /\ options.does = "main" => task.op = "idle"
<1>1. /\ TaskPlace /\ SoundPlace /\ GraphPart /\ TaskTyped
      /\ options.does \in {"main", "test"}
      /\ Now \in {"build", "delete"} => NeedsGraph \/ options.does = "test"
      /\ Now \in {"match", "stats"} => options.containment \/ options.does = "test"
      /\ Now \in {"search", "remove", "empty"} => options.does = "test"
      /\ options.does = "test" => Now # "stats"
      /\ options.containment => NeedsGraph
  BY RunningIs DEF WalkInv
<1>2. CASE options.does = "test"
  BY <1>1, <1>2 DEF TaskPlace, SoundPlace, GraphPart, Full, Gone
<1>3. CASE options.does = "main"
  <2>1. Now \in {"build", "search", "match", "stats", "remove"} \/ Full => NeedsGraph /\ Now \notin {"delete", "ended"}
    BY <1>1, <1>3 DEF Full
  <2>2. Gone <=> ~NeedsGraph
    BY <1>3 DEF Gone
  <2>3. Deleting => NeedsGraph /\ Now \in {"delete", "ended"}
    BY <1>1, <1>3 DEF TaskPlace
  <2>4. task.op \in {"match", "stats"} => NeedsGraph
    BY <1>1, <1>3 DEF TaskPlace
  <2>5. Gone => task.op = "idle"
    BY <1>1, <2>2, <2>3, <2>4 DEF TaskTyped, Deleting
  <2> QED
    BY <1>1, <1>3, <2>1, <2>2, <2>3, <2>5 DEF GraphPart
<1> QED
  BY <1>1, <1>2, <1>3

LEMMA EndOfPhase ==
    ASSUME Running, SameProgram, DoEnd
    PROVE  /\ UNCHANGED <<graphState, filterVars, history>> /\ at' = 0
           /\ task.op \in {"idle", "deleted"}
           /\ Now # "ended" /\ Now' = After(Now)
           /\ options' = options /\ Subs' = Subs /\ Pubs' = Pubs /\ NeedsGraph' = NeedsGraph
BY DEF SameProgram, DoEnd

LEMMA TaskPlaceKept ==
    ASSUME Running, SameProgram, ReadStep
    PROVE  TaskPlace'
<1>1. /\ TaskPlace /\ options.does \in {"main", "test"}
      /\ Now \in {"build", "delete"} => NeedsGraph \/ options.does = "test"
      /\ options' = options /\ NeedsGraph' = NeedsGraph
  BY RunningIs DEF SameProgram
<1>2. ASSUME Now' = Now, task' = task
      PROVE  TaskPlace'
  BY <1>1, <1>2 DEF TaskPlace, Deleting, Gone
<1>3. CASE DoBuild
  BY <1>2, <1>3 DEF DoBuild, Moved, AddMarked
<1>4. CASE DoSearch \/ DoFilter \/ DoFill \/ DoPublish \/ DoEmpty \/ DoNothing
  BY <1>2, <1>4 DEF DoSearch, DoFilter, DoFill, DoPublish, DoEmpty, DoNothing, Moved, graphState, walkVars
<1>5. CASE DoMatch
  BY <1>1, <1>5 DEF DoMatch, Moved, BeginMatch, TaskPlace, Deleting
<1>6. CASE DoRemove
  BY <1>2, <1>6 DEF DoRemove, Moved, RemoveMarked
<1>7. CASE DoStats
  BY <1>1, <1>7 DEF DoStats, Moved, StartStats, TaskPlace, Deleting
<1>8. CASE DoDelete
  BY <1>1, <1>8 DEF DoDelete, Moved, BeginDelete, TaskPlace, Deleting, Gone
<1>9. CASE DoContinue
  <2>1. TaskNext /\ Now' = Now
    BY <1>9 DEF DoContinue, Continue
  <2>2. /\ task'.op = "match" => task.op = "match"
        /\ task'.op = "stats" => task.op = "stats"
        /\ Deleting' => Deleting
    BY <2>1, TaskSteps, RunningIs DEF Deleting
  <2> QED
    BY <1>1, <2>1, <2>2 DEF TaskPlace, Gone
<1>10. CASE DoEnd
  <2>1. /\ task.op \in {"idle", "deleted"} /\ task' = task
        /\ Now # "ended" /\ Now' = After(Now)
    BY <1>10, EndOfPhase DEF graphState, walkVars
  <2>2. /\ options.does = "test" /\ Gone => Gone'
        /\ options.does = "main" /\ Now = "delete" => Now' = "ended"
    BY <1>1, <2>1 DEF After, Gone
  <2> QED
    BY <1>1, <2>1, <2>2 DEF TaskPlace, Deleting
<1> QED
  BY <1>3, <1>4, <1>5, <1>6, <1>7, <1>8, <1>9, <1>10 DEF ReadStep

LEMMA SizesFit ==
    ASSUME Running
    PROVE  /\ Len(Subs) \in Nat /\ Len(Pubs) \in Nat /\ MaxInt \in Nat
           /\ 2 * Len(Subs) + Len(Pubs) <= MaxInt /\ at \in Nat
BY RunningIs, DataTyped, WalksAssumption

LEMMA IdPlaceKept ==
    ASSUME Running, SameProgram, ReadStep
    PROVE  IdPlace'
<1>1. /\ IdPlace /\ TaskPlace /\ Subs' = Subs
      /\ Len(Subs) \in Nat /\ Len(Pubs) \in Nat /\ MaxInt \in Nat
      /\ 2 * Len(Subs) + Len(Pubs) <= MaxInt /\ at \in Nat
  BY RunningIs, SizesFit DEF SameProgram
<1>2. ASSUME Now' = Now, at' = at \/ Now \notin {"build", "match"}, nextId' = nextId
      PROVE  IdPlace'
  BY <1>1, <1>2 DEF IdPlace
<1>3. CASE DoBuild
  <2>1. Now = "build" /\ Now' = "build" /\ at' = at + 1 /\ at + 1 <= Len(Subs)
    BY <1>1, <1>3 DEF DoBuild, Moved, NextSub
  <2>2. nextId' = nextId \/ nextId' = Bump(Bump(nextId))
    BY <1>3 DEF DoBuild, AddMarked
  <2>3. nextId \in 0 .. 2 * at
    BY <1>1, <2>1 DEF IdPlace
  <2>4. Bump(nextId) = nextId + 1 /\ Bump(nextId + 1) = nextId + 2
    BY <1>1, <2>1, <2>3 DEF Bump
  <2>5. nextId' \in 0 .. 2 * (at + 1)
    BY <1>1, <2>2, <2>3, <2>4
  <2> QED
    BY <2>1, <2>5 DEF IdPlace
<1>4. CASE DoSearch \/ DoFilter \/ DoFill \/ DoPublish \/ DoEmpty \/ DoNothing
  BY <1>2, <1>4 DEF DoSearch, DoFilter, DoFill, DoPublish, DoEmpty, DoNothing, Moved, graphState, walkVars
<1>5. CASE DoMatch
  <2>1. Now = "match" /\ Now' = "match" /\ at' = at + 1 /\ at + 1 <= Len(Pubs)
    BY <1>1, <1>5 DEF DoMatch, Moved, NextPub
  <2>2. nextId' = Bump(nextId)
    BY <1>5 DEF DoMatch, BeginMatch
  <2>3. nextId \in 0 .. 2 * Len(Subs) + at
    BY <1>1, <2>1 DEF IdPlace
  <2>4. Bump(nextId) = nextId + 1
    BY <1>1, <2>1, <2>3 DEF Bump
  <2>5. nextId' \in 0 .. 2 * Len(Subs) + (at + 1)
    BY <1>1, <2>2, <2>3, <2>4
  <2> QED
    BY <1>1, <2>1, <2>5 DEF IdPlace
<1>6. CASE DoRemove
  BY <1>6 DEF DoRemove, Moved, IdPlace
<1>7. CASE DoStats \/ DoDelete
  BY <1>7 DEF DoStats, DoDelete, Moved, IdPlace
<1>8. CASE DoContinue
  <2>1. TaskNext /\ Now' = Now /\ at' = at
    BY <1>8 DEF DoContinue, Continue
  <2>2. CASE task.op = "stats"
    BY <1>1, <2>1, <2>2 DEF TaskPlace, IdPlace
  <2>3. CASE task.op # "stats"
    BY <1>2, <2>1, <2>3, TaskSteps, RunningIs
  <2> QED
    BY <2>2, <2>3
<1>9. CASE DoEnd
  <2>1. Now' = After(Now) /\ nextId' = nextId /\ at' = 0 /\ (Now = "build" => at = Len(Subs))
    BY <1>9 DEF DoEnd, graphState, walkVars
  <2>2. /\ Now' = "search" => Now = "build"
        /\ Now' = "match" => Now \in {"build", "search"}
        /\ Now' # "build"
    BY <2>1 DEF After
  <2> QED
    BY <1>1, <2>1, <2>2 DEF IdPlace
<1> QED
  BY <1>3, <1>4, <1>5, <1>6, <1>7, <1>8, <1>9 DEF ReadStep

\* Loops over the subscriptions.
LEMMA LoopSets ==
    ASSUME Running, Subs' = Subs
    PROVE  /\ Done(0) = {} /\ ToDo(0) = ToSet(Subs)
           /\ Done(Len(Subs)) = ToSet(Subs) /\ ToDo(Len(Subs)) = {}
           /\ at + 1 \in 1 .. Len(Subs) =>
                 /\ Done(at + 1) = Done(at) \cup {Subs[at + 1]}
                 /\ ToDo(at) = ToDo(at + 1) \cup {Subs[at + 1]}
                 /\ DistinctUpTo(at) /\ Subs[at + 1] \notin Done(at) => DistinctUpTo(at + 1)
                 /\ DistinctUpTo(Len(Subs)) => Subs[at + 1] \notin ToDo(at + 1)
           /\ DistinctUpTo(0)
<1>1. Subs \in Seq(Sub) /\ Len(Subs) \in Nat /\ at \in Nat /\ ToSet(Subs) = {Subs[i] : i \in 1 .. Len(Subs)}
  BY RunningIs, SizesFit DEF ToSet
<1>2. Done(0) = {} /\ ToDo(0) = ToSet(Subs) /\ Done(Len(Subs)) = ToSet(Subs) /\ ToDo(Len(Subs)) = {}
  BY <1>1 DEF Done, ToDo
<1>3. ASSUME at + 1 \in 1 .. Len(Subs)
      PROVE  /\ Done(at + 1) = Done(at) \cup {Subs[at + 1]}
             /\ ToDo(at) = ToDo(at + 1) \cup {Subs[at + 1]}
             /\ DistinctUpTo(at) /\ Subs[at + 1] \notin Done(at) => DistinctUpTo(at + 1)
             /\ DistinctUpTo(Len(Subs)) => Subs[at + 1] \notin ToDo(at + 1)
  <2>1. 1 .. at + 1 = 1 .. at \cup {at + 1}
    BY <1>1
  <2>2. at + 1 .. Len(Subs) = {at + 1} \cup (at + 1) + 1 .. Len(Subs)
    BY <1>1, <1>3
  <2>3. Done(at + 1) = Done(at) \cup {Subs[at + 1]}
    BY <2>1 DEF Done
  <2>4. ToDo(at) = ToDo(at + 1) \cup {Subs[at + 1]}
    BY <2>2 DEF ToDo
  <2>5. DistinctUpTo(at) /\ Subs[at + 1] \notin Done(at) => DistinctUpTo(at + 1)
    BY <2>1 DEF DistinctUpTo, Done
  <2>6. ASSUME DistinctUpTo(Len(Subs)), Subs[at + 1] \in ToDo(at + 1)
        PROVE  FALSE
    <3>1. PICK i \in (at + 1) + 1 .. Len(Subs) : Subs[i] = Subs[at + 1]
      BY <2>6 DEF ToDo
    <3>2. i \in 1 .. Len(Subs) /\ i # at + 1
      BY <1>1, <3>1
    <3> QED
      BY <1>3, <2>6, <3>1, <3>2 DEF DistinctUpTo
  <2> QED
    BY <2>3, <2>4, <2>5, <2>6
<1>4. DistinctUpTo(0)
  BY DEF DistinctUpTo
<1> QED
  BY <1>2, <1>3, <1>4

\* The subscriptions that the graph holds change in two phases only.
LEMMA LiveSteps ==
    ASSUME Running, SameProgram, ReadStep
    PROVE  /\ DoBuild => Live' = Live \cup {Subs[at + 1]} /\ Subs[at + 1] \notin Live
           /\ DoRemove => Live' = Live \ {Subs[at + 1]}
           /\ ~DoBuild /\ ~DoRemove => attr' = attr /\ nodes' = nodes /\ Live' = Live
<1>1. CASE DoBuild
  <2> DEFINE s == Subs[at + 1]
  <2>1. s \in Sub /\ (AddDuplicate(s) \/ AddNode(s))
    BY <1>1 DEF DoBuild, NextSub, AddMarked
  <2>2. PICK n \in Sub : attr[s] = NoNode /\ attr' = [attr EXCEPT ![s] = n]
    BY <2>1, SearchType DEF AddDuplicate, AddNode
  <2>3. CountInv
    BY <1>1, GraphThere DEF DoBuild, Moved
  <2>4. attr \in [Sub -> Sub \cup {NoNode}]
    BY <2>3, GraphFacts DEF TypeOK
  <2>5. n # NoNode
    BY <2>2, GraphAssumption
  <2>6. Live' = Live \cup {s} /\ s \notin Live
    BY <2>1, <2>2, <2>4, <2>5 DEF Live
  <2>7. ~DoRemove
    BY <1>1 DEF DoBuild, DoRemove, Moved
  <2> QED
    BY <1>1, <2>6, <2>7
<1>2. CASE DoRemove
  <2> DEFINE s == Subs[at + 1]
  <2>1. s \in Sub /\ attr[s] # NoNode /\ attr' = [attr EXCEPT ![s] = NoNode] /\ size' = size - 1
    BY <1>2 DEF DoRemove, NextSub, RemoveMarked, RemoveDuplicate, RemoveNode
  <2>2. CountInv
    BY <1>2, GraphThere DEF DoRemove, Moved
  <2>3. Live' = Live \ {s}
    BY <2>1, <2>2, GraphFacts, CountForget DEF Live
  <2>4. ~DoBuild
    BY <1>2 DEF DoBuild, DoRemove, Moved
  <2> QED
    BY <1>2, <2>3, <2>4
<1>3. CASE ~DoBuild /\ ~DoRemove
  <2>1. DoSearch \/ DoFilter \/ DoFill \/ DoPublish \/ DoEmpty \/ DoNothing \/ DoEnd
           => attr' = attr /\ nodes' = nodes
    BY DEF DoSearch, DoFilter, DoFill, DoPublish, DoEmpty, DoNothing, DoEnd, graphState, vars, structure
  <2>2. DoMatch \/ DoStats \/ DoDelete => attr' = attr /\ nodes' = nodes
    BY DEF DoMatch, DoStats, DoDelete, BeginMatch, StartStats, BeginDelete, vars, structure
  <2>3. DoContinue => attr' = attr /\ nodes' = nodes
    BY TaskSteps, RunningIs DEF DoContinue, Continue
  <2>4. attr' = attr /\ nodes' = nodes
    BY <1>3, <2>1, <2>2, <2>3 DEF ReadStep
  <2> QED
    BY <1>3, <2>4 DEF Live
<1> QED
  BY <1>1, <1>2, <1>3

LEMMA LivePlaceKept ==
    ASSUME Running, SameProgram, ReadStep
    PROVE  LivePlace'
<1>1. /\ LivePlace /\ Subs' = Subs /\ options' = options /\ NeedsGraph' = NeedsGraph
      /\ Now \in {"build", "delete"} => NeedsGraph \/ options.does = "test"
      /\ Now \in {"search", "remove", "empty"} => options.does = "test"
      /\ options.does \in {"main", "test"}
  BY RunningIs DEF SameProgram
<1>2. /\ DoBuild => Live' = Live \cup {Subs[at + 1]} /\ Subs[at + 1] \notin Live
      /\ DoRemove => Live' = Live \ {Subs[at + 1]}
      /\ ~DoBuild /\ ~DoRemove => Live' = Live
  BY LiveSteps
<1>3. /\ Done(0) = {} /\ ToDo(0) = ToSet(Subs)
      /\ Done(Len(Subs)) = ToSet(Subs) /\ ToDo(Len(Subs)) = {}
      /\ at + 1 \in 1 .. Len(Subs) =>
            /\ Done(at + 1) = Done(at) \cup {Subs[at + 1]}
            /\ ToDo(at) = ToDo(at + 1) \cup {Subs[at + 1]}
            /\ DistinctUpTo(at) /\ Subs[at + 1] \notin Done(at) => DistinctUpTo(at + 1)
            /\ DistinctUpTo(Len(Subs)) => Subs[at + 1] \notin ToDo(at + 1)
      /\ DistinctUpTo(0)
  BY <1>1, LoopSets
<1>4. CASE DoBuild
  <2>1. /\ Now = "build" /\ Now' = "build" /\ at' = at + 1 /\ at + 1 \in 1 .. Len(Subs)
    BY <1>4 DEF DoBuild, Moved, NextSub
  <2>2. Live' = Done(at + 1) /\ DistinctUpTo(at + 1)
    BY <1>1, <1>2, <1>3, <1>4, <2>1 DEF LivePlace
  <2>3. ~Full'
    BY <2>1 DEF Full
  <2>4. Done(at)' = Done(at + 1) /\ DistinctUpTo(at)' = DistinctUpTo(at + 1)
    BY <1>1, <2>1 DEF Done, DistinctUpTo
  <2> QED
    BY <2>1, <2>2, <2>3, <2>4 DEF LivePlace
<1>5. CASE DoRemove
  <2>1. /\ Now = "remove" /\ Now' = "remove" /\ at' = at + 1 /\ at + 1 \in 1 .. Len(Subs)
    BY <1>5 DEF DoRemove, Moved, NextSub
  <2>2. Live = ToDo(at) /\ DistinctUpTo(Len(Subs))
    BY <1>1, <2>1 DEF LivePlace
  <2>3. Live' = ToDo(at + 1)
    BY <1>2, <1>3, <1>5, <2>1, <2>2
  <2>4. ~Full'
    BY <2>1 DEF Full
  <2>5. ToDo(at)' = ToDo(at + 1) /\ DistinctUpTo(Len(Subs))' = DistinctUpTo(Len(Subs))
    BY <1>1, <2>1 DEF ToDo, DistinctUpTo
  <2> QED
    BY <2>1, <2>2, <2>3, <2>4, <2>5 DEF LivePlace
<1>6. ASSUME Now' = Now, at' = at \/ Now \notin {"build", "remove"}, Live' = Live
      PROVE  LivePlace'
  <2>1. Full' = Full
    BY <1>1, <1>6 DEF Full
  <2>2. /\ Now = "build" => Done(at)' = Done(at) /\ DistinctUpTo(at)' = DistinctUpTo(at)
        /\ Now = "remove" => ToDo(at)' = ToDo(at)
        /\ DistinctUpTo(Len(Subs))' = DistinctUpTo(Len(Subs))
    BY <1>1, <1>6 DEF Done, ToDo, DistinctUpTo
  <2> QED
    BY <1>1, <1>6, <2>1, <2>2 DEF LivePlace
<1>7. CASE DoSearch \/ DoMatch \/ DoStats \/ DoDelete \/ DoFilter \/ DoFill \/ DoPublish \/ DoEmpty
  <2>1. Now' = Now /\ Now \notin {"build", "remove"}
    BY <1>7 DEF DoSearch, DoMatch, DoStats, DoDelete, DoFilter, DoFill, DoPublish, DoEmpty, Moved
  <2>2. Live' = Live
    BY <1>2, <2>1 DEF DoBuild, DoRemove, Moved
  <2> QED
    BY <1>6, <2>1, <2>2
<1>8. CASE (DoContinue \/ DoNothing) /\ ~DoBuild /\ ~DoRemove
  BY <1>2, <1>6, <1>8 DEF DoContinue, DoNothing
<1>9. CASE DoEnd /\ ~DoBuild /\ ~DoRemove
  <2>1. /\ Now # "ended" /\ Now' = After(Now) /\ at' = 0 /\ Live' = Live
        /\ Now \in {"build", "remove", "fill", "empty"} => at = Len(Subs)
    BY <1>2, <1>9 DEF DoEnd
  <2>2. Now' # "build" /\ (Now' = "remove" => Now = "match") /\ (Full' => Now = "build" \/ Full)
    BY <1>1, <2>1 DEF After, Full
  <2>3. Now = "build" \/ Full => Live = ToSet(Subs)
    BY <1>1, <1>3, <2>1 DEF LivePlace
  <2>4. Now = "match" => Full
    BY DEF Full
  <2>5. Now' = "remove" => Live' = ToDo(0)
    BY <1>3, <2>1, <2>2, <2>3, <2>4
  <2>6. options.does = "test" => DistinctUpTo(Len(Subs))
    BY <1>1, <2>1 DEF LivePlace
  <2>7. ToDo(at)' = ToDo(0) /\ DistinctUpTo(Len(Subs))' = DistinctUpTo(Len(Subs))
    BY <1>1, <2>1 DEF ToDo, DistinctUpTo
  <2> QED
    BY <1>1, <2>1, <2>2, <2>3, <2>5, <2>6, <2>7 DEF LivePlace
<1> QED
  BY <1>4, <1>5, <1>7, <1>8, <1>9 DEF ReadStep

\* A graph that is full or gone changes as the router's graph does.
LEMMA VarsSteps ==
    ASSUME Running, SameProgram, ReadStep
    PROVE  /\ Now = "build" \/ Full \/ Gone => [RouterNext]_vars
           /\ Now = "remove" => DoRemove \/ UNCHANGED vars
<1>1. CASE DoBuild
  <2>1. \E s \in Sub : AddDuplicate(s) \/ AddNode(s)
    BY <1>1 DEF DoBuild, NextSub, AddMarked
  <2>2. Now = "build"
    BY <1>1 DEF DoBuild, Moved
  <2> QED
    BY <2>1, <2>2 DEF RouterNext
<1>2. CASE DoRemove
  <2>1. Now = "remove"
    BY <1>2 DEF DoRemove, Moved
  <2> QED
    BY <1>2, <2>1, GraphThere DEF Full
<1>3. CASE UNCHANGED vars
  BY <1>3
<1>4. CASE DoContinue
  <2>1. TaskNext /\ WalkInv /\ TaskPlace /\ SoundPlace /\ IdPlace
    BY <1>4, RunningIs DEF DoContinue, Continue
  <2>2. CASE FinishMatch
    <3>1. Now = "match" /\ task.op = "match"
      BY <2>1, <2>2 DEF TaskPlace, FinishMatch
    <3>2. CountInv
      BY <3>1, GraphThere
    <3>3. nextId \in Int /\ nextId >= 0
      BY <2>1, <3>1 DEF IdPlace, WalkInv, MarksOld
    <3>4. \E e \in Event : Match(e)
      BY <2>1, <2>2, <3>1, <3>2, <3>3, FinishAnswers DEF WalkInv
    <3> QED
      BY <3>1, <3>4 DEF RouterNext
  <2>3. CASE DeleteSelf
    <3>1. task.op = "delete" /\ task.calls # <<>> /\ Deleting
      BY <2>3 DEF DeleteSelf, Deleting
    <3>2. task.calls \in Seq(nodes)
      BY <2>1, <3>1 DEF WalkInv, DeletePart, PathDown
    <3>3. nodes # {}
      <4>1. Len(task.calls) \in Nat /\ Len(task.calls) # 0 /\ \A i \in 1 .. Len(task.calls) : task.calls[i] \in nodes
        BY <3>1, <3>2
      <4> QED
        BY <4>1
    <3>4. ~Gone
      BY <2>1, <3>3 DEF SoundPlace
    <3>5. Now # "build" /\ ~Full /\ Now # "remove"
      BY <3>1, <3>4, GraphThere
    <3> QED
      BY <3>4, <3>5
  <2> QED
    BY <1>3, <2>1, <2>2, <2>3, TaskSteps
<1>5. DoSearch \/ DoFilter \/ DoFill \/ DoPublish \/ DoEmpty \/ DoNothing \/ DoEnd => UNCHANGED vars
  BY DEF DoSearch, DoFilter, DoFill, DoPublish, DoEmpty, DoNothing, DoEnd, graphState
<1>6. DoMatch \/ DoStats \/ DoDelete => UNCHANGED vars
  BY DEF DoMatch, DoStats, DoDelete, BeginMatch, StartStats, BeginDelete
<1> QED
  BY <1>1, <1>2, <1>3, <1>4, <1>5, <1>6 DEF ReadStep

\* A graph without subscriptions has no node.
LEMMA NothingLive ==
    ASSUME CountInv, Live = {}
    PROVE  nodes = {} /\ (MatchExact => RouterInv)
<1>1. ShapeInv /\ TypeOK /\ CountsExact /\ CountsPositive
  BY DEF CountInv, ShapeInv, TypeInv
<1>2. ASSUME NEW n \in nodes
      PROVE  FALSE
  <2>1. {s \in Live : attr[s] = n} = {} /\ Cardinality({}) = 0
    BY FS_EmptySet
  <2>2. count[n] = 0
    BY <1>1, <2>1 DEF CountsExact
  <2> QED
    BY <1>1, <2>2 DEF CountsPositive
<1>3. nodes = {}
  BY <1>2
<1>4. EntriesExact
  BY <1>3 DEF EntriesExact
<1> QED
  BY <1>1, <1>3, <1>4 DEF RouterInv

LEMMA SoundPlaceKept ==
    ASSUME Running, SameProgram, ReadStep
    PROVE  SoundPlace'
<1>1. /\ SoundPlace /\ LivePlace /\ Subs' = Subs /\ options' = options /\ NeedsGraph' = NeedsGraph
      /\ Now \in {"build", "delete"} => NeedsGraph \/ options.does = "test"
      /\ Now \in {"search", "remove", "empty"} => options.does = "test"
      /\ options.does \in {"main", "test"} /\ WalkInv
      /\ options.does = "test" => Now # "stats"
      /\ Now # "free" /\ Now \in Names \cup {"ended"}
  BY RunningIs DEF SameProgram
<1>2. Now = "build" \/ Full \/ Gone => RouterInv' /\ (CountInv => CountInv')
  <2>1. Now = "build" \/ Full \/ Gone => RouterInv /\ [RouterNext]_vars
    BY <1>1, VarsSteps DEF SoundPlace
  <2>2. [RouterNext]_vars => [Next]_vars
    BY DEF Next
  <2> QED
    BY <2>1, <2>2, RouterStep, CountStep
<1>3. MatchExact /\ UNCHANGED vars => MatchExact'
  BY DEF MatchExact, Expected, Live, vars
<1>4. CASE DoRemove
  <2>1. reply' = NoMatches /\ Now = "remove" /\ Now' = "remove"
    BY <1>4 DEF DoRemove, Moved, RemoveMarked, RemoveDuplicate, RemoveNode
  <2>2. MatchExact'
    BY <2>1 DEF MatchExact, Expected, NoMatches
  <2>3. ~Full' /\ ~Gone'
    BY <1>1, <2>1 DEF Full, Gone
  <2> QED
    BY <2>1, <2>2, <2>3 DEF SoundPlace
<1>5. CASE Now' = Now /\ ~DoRemove
  <2>1. Full' = Full /\ Gone' = Gone
    BY <1>1, <1>5 DEF Full, Gone
  <2>2. Now = "remove" => MatchExact'
    BY <1>1, <1>3, <1>5, VarsSteps DEF SoundPlace
  <2>3. Gone => nodes' = nodes
    <3>1. DoBuild => Now = "build" /\ ~Gone
      <4>1. DoBuild => Now = "build"
        BY DEF DoBuild, Moved
      <4> QED
        BY <4>1, GraphThere
    <3> QED
      BY <1>5, <3>1, LiveSteps
  <2> QED
    BY <1>1, <1>2, <1>5, <2>1, <2>2, <2>3 DEF SoundPlace
<1>6. CASE DoEnd
  <2>1. /\ Now # "ended" /\ Now' = After(Now) /\ at' = 0 /\ UNCHANGED vars
        /\ Now \in {"build", "remove", "fill", "empty"} => at = Len(Subs)
    BY <1>6 DEF DoEnd, graphState
  <2>2. /\ Now' # "build" /\ (Now' = "remove" => Full) /\ (Full' => Now = "build" \/ Full)
        /\ Gone' => Gone \/ Now = "remove"
    <3>1. Now' # "build" /\ (Now' = "remove" => Full)
      BY <2>1 DEF After, Full
    <3>2. Full' => Now = "build" \/ Full
      BY <1>1, <2>1 DEF After, Full
    <3>3. Gone' => Gone \/ Now = "remove"
      <4>1. CASE options.does = "main"
        BY <1>1, <4>1 DEF Gone
      <4>2. CASE options.does = "test"
        BY <1>1, <2>1, <4>2 DEF Gone, After, Names
      <4> QED
        BY <1>1, <4>1, <4>2
    <3> QED
      BY <3>1, <3>2, <3>3
  <2>3. Now' = "remove" => MatchExact'
    BY <1>1, <1>3, <2>1, <2>2 DEF SoundPlace, RouterInv
  <2>4. Now = "remove" => nodes = {} /\ CountInv /\ RouterInv
    <3>1. ASSUME Now = "remove"
          PROVE  nodes = {} /\ CountInv /\ RouterInv
      <4>1. CountInv
        BY <3>1, GraphThere
      <4>2. Live = {}
        BY <1>1, <2>1, <3>1, LoopSets DEF LivePlace
      <4> QED
        BY <1>1, <3>1, <4>1, <4>2, NothingLive DEF SoundPlace
    <3> QED
      BY <3>1
  <2>5. Gone \/ Now = "remove" => nodes = {} /\ CountInv /\ RouterInv
    BY <1>1, <2>4 DEF SoundPlace
  <2>6. (RouterInv => RouterInv') /\ (CountInv => CountInv') /\ nodes' = nodes
    <3>1. nodes' = nodes
      BY <2>1 DEF vars, structure
    <3> QED
      BY <2>1, <3>1, RouterStep, CountStep
  <2> QED
    BY <1>1, <2>2, <2>3, <2>5, <2>6 DEF SoundPlace
<1> QED
  <2>1. Now' = Now \/ DoEnd
    BY DEF ReadStep, Moved, DoBuild, DoSearch, DoMatch, DoRemove, DoStats, DoDelete, DoFilter,
           DoFill, DoPublish, DoEmpty, DoContinue, DoNothing
  <2> QED
    BY <1>4, <1>5, <1>6, <2>1

\* The count of a publication that ends is the number of subscriptions it meets.
LEMMA AnswerIs ==
    ASSUME Running, SameProgram, DoContinue, FinishMatch
    PROVE  /\ Now = "match" /\ at \in 1 .. Len(Pubs)
           /\ answers' = Append(answers, CountFor(Pubs[at])) /\ CountFor(Pubs[at]) \in Int
<1>1. task.op = "match" /\ task' = Idle
  BY DEF FinishMatch
<1>2. Now = "match" /\ Full
  BY <1>1, RunningIs DEF TaskPlace, Full
<1>3. at \in 1 .. Len(Pubs) /\ task.event = Pubs[at]
  BY <1>1, <1>2, RunningIs DEF AnswerPlace
<1>4. CountInv
  BY <1>2, GraphThere
<1>5. nextId \in Int /\ nextId >= 0 /\ MatchPart
  BY <1>2, RunningIs DEF IdPlace, WalkInv, MarksOld
<1>6. task.event \in Event /\ Match(task.event)
  BY <1>1, <1>4, <1>5, FinishAnswers
<1>7. MatchCountExact'
  BY <1>4, <1>6, MatchCounts
<1>8. Live' = ToSet(Subs)
  <2>1. Live = ToSet(Subs)
    BY <1>2, RunningIs DEF LivePlace
  <2>2. attr' = attr
    BY DEF FinishMatch
  <2> QED
    BY <2>1, <2>2 DEF Live
<1>9. reply'.match = task.match /\ reply'.event = {Pubs[at]}
  BY <1>3 DEF FinishMatch
<1>10. Expected' = {s \in ToSet(Subs) : Meets(s, Pubs[at])}
  BY <1>8, <1>9 DEF Expected, Meets
<1>11. task.match = CountFor(Pubs[at])
  BY <1>7, <1>9, <1>10 DEF MatchCountExact, CountFor
<1>12. answers' = Append(answers, task.match)
  BY <1>1 DEF DoContinue, Continue, Idle
<1>13. CountFor(Pubs[at]) \in Int
  <2>1. IsFiniteSet({s \in ToSet(Subs) : Meets(s, Pubs[at])})
    <3>1. {s \in ToSet(Subs) : Meets(s, Pubs[at])} \subseteq Sub
      BY <1>8 DEF Live
    <3> QED
      BY <3>1, GraphAssumption, FS_Subset
  <2> QED
    BY <2>1, FS_CardinalityType DEF CountFor
<1> QED
  BY <1>2, <1>3, <1>11, <1>12, <1>13

LEMMA AnswerPlaceKept ==
    ASSUME Running, SameProgram, ReadStep
    PROVE  AnswerPlace'
<1>1. /\ AnswerPlace /\ TaskPlace /\ Subs' = Subs /\ Pubs' = Pubs
      /\ at \in Nat /\ Len(Pubs) \in Nat /\ answers \in Seq(Int)
  BY RunningIs, SizesFit DEF SameProgram, AnswerPlace
<1>2. \A e : CountFor(e)' = CountFor(e)
  BY <1>1 DEF CountFor
<1>3. ASSUME NEW k, answers' = answers
      PROVE  AnswersUpTo(k)' <=> AnswersUpTo(k)
  BY <1>1, <1>2, <1>3 DEF AnswersUpTo, CountFor
<1>4. DoBuild \/ DoSearch \/ DoMatch \/ DoRemove \/ DoStats \/ DoDelete \/ DoFilter \/ DoFill
       \/ DoPublish \/ DoEmpty \/ DoNothing \/ DoEnd => answers' = answers
  BY DEF DoBuild, DoSearch, DoMatch, DoRemove, DoStats, DoDelete, DoFilter, DoFill, DoPublish,
         DoEmpty, DoNothing, DoEnd, history
<1>5. CASE Now' = Now /\ Now # "match" /\ answers' = answers
  <2>1. AnswersUpTo(Len(Pubs))' <=> AnswersUpTo(Len(Pubs))
    BY <1>1, <1>2, <1>5 DEF AnswersUpTo, CountFor
  <2> QED
    BY <1>1, <1>5, <2>1 DEF AnswerPlace
<1>6. CASE DoMatch
  <2>1. /\ Now = "match" /\ Now' = "match" /\ at' = at + 1 /\ at + 1 \in 1 .. Len(Pubs)
        /\ BeginMatch(Pubs[at + 1]) /\ answers' = answers
    BY <1>4, <1>6 DEF DoMatch, Moved, NextPub
  <2>2. task = Idle /\ task'.op = "match" /\ task'.event = Pubs[at + 1]
    BY <2>1 DEF BeginMatch
  <2>3. AnswersUpTo(at)
    BY <1>1, <2>1, <2>2 DEF AnswerPlace, Idle
  <2>4. AnswersUpTo(at - 1)' <=> AnswersUpTo(at)
    <3>1. at' - 1 = at
      BY <1>1, <2>1
    <3> QED
      BY <1>1, <1>2, <2>1, <3>1 DEF AnswersUpTo, CountFor
  <2> QED
    BY <1>1, <2>1, <2>2, <2>3, <2>4 DEF AnswerPlace
<1>7. CASE (DoContinue \/ DoNothing) /\ Now = "match" /\ ~(DoContinue /\ FinishMatch)
  <2>1. Now' = "match" /\ at' = at /\ answers' = answers
        /\ (task'.op = "match" <=> task.op = "match")
        /\ (task'.op = "match" => task'.event = task.event)
    <3>1. CASE DoNothing
      BY <1>7, <3>1 DEF DoNothing, graphState, walkVars, history
    <3>2. CASE DoContinue
      <4>1. TaskNext /\ ~FinishMatch /\ WalkInv
        BY <1>7, <3>2, RunningIs DEF DoContinue, Continue
      <4>2. task.op = "match" => task'.op = "match"
        BY <4>1, TaskSteps
      <4>3. task'.op = "match" => task.op = "match" /\ task'.event = task.event
        BY <4>1, TaskSteps
      <4> QED
        BY <1>7, <3>2, <4>2, <4>3 DEF DoContinue, Continue
    <3> QED
      BY <1>7, <3>1, <3>2
  <2>2. /\ AnswersUpTo(at)' <=> AnswersUpTo(at)
        /\ AnswersUpTo(at - 1)' <=> AnswersUpTo(at - 1)
    BY <1>1, <1>2, <2>1 DEF AnswersUpTo, CountFor
  <2> QED
    BY <1>1, <1>7, <2>1, <2>2 DEF AnswerPlace
<1>8. CASE DoContinue /\ FinishMatch
  <2>1. /\ Now = "match" /\ Now' = "match" /\ at' = at /\ at \in 1 .. Len(Pubs)
        /\ answers' = Append(answers, CountFor(Pubs[at])) /\ CountFor(Pubs[at]) \in Int
    BY <1>8, AnswerIs DEF DoContinue
  <2>2. task.op = "match" /\ task'.op = "idle"
    BY <1>8 DEF FinishMatch, Idle
  <2>3. AnswersUpTo(at - 1)
    BY <1>1, <2>1, <2>2 DEF AnswerPlace
  <2>4. /\ answers' \in Seq(Int) /\ Len(answers') = at
        /\ \A i \in 1 .. at : answers'[i] = CountFor(Pubs[i])
    BY <1>1, <2>1, <2>3 DEF AnswersUpTo
  <2>5. AnswersUpTo(at)'
    BY <1>1, <1>2, <2>1, <2>4 DEF AnswersUpTo, CountFor
  <2> QED
    BY <1>1, <2>1, <2>2, <2>4, <2>5 DEF AnswerPlace
<1>9. CASE DoContinue /\ Now # "match"
  <2>1. task.op # "match"
    BY <1>1, <1>9 DEF TaskPlace
  <2> QED
    BY <1>5, <1>9, <2>1 DEF DoContinue, Continue
<1>10. CASE DoEnd
  <2>1. /\ Now # "ended" /\ Now' = After(Now) /\ at' = 0 /\ answers' = answers /\ task' = task
        /\ task.op \in {"idle", "deleted"} /\ (Now = "match" => at = Len(Pubs))
    BY <1>4, <1>10 DEF DoEnd, graphState, walkVars
  <2>2. /\ Now' = "search" => Now = "build"
        /\ Now' = "match" => Now \in {"build", "search"}
        /\ Now' # "build"
    BY <2>1 DEF After
  <2>3. /\ AnswersUpTo(Len(Pubs))' <=> AnswersUpTo(Len(Pubs))
        /\ AnswersUpTo(at)' <=> AnswersUpTo(0)
    BY <1>1, <1>2, <2>1 DEF AnswersUpTo, CountFor
  <2>4. answers = <<>> => AnswersUpTo(0)
    BY DEF AnswersUpTo
  <2>5. Now \in {"build", "search"} => answers = <<>>
    BY <1>1 DEF AnswerPlace
  <2>6. Now \notin {"build", "search"} => answers = <<>> \/ AnswersUpTo(Len(Pubs))
    BY <1>1, <2>1 DEF AnswerPlace
  <2> QED
    BY <1>1, <2>1, <2>2, <2>3, <2>4, <2>5, <2>6 DEF AnswerPlace
<1> QED
  <2>1. DoBuild \/ DoSearch \/ DoRemove \/ DoStats \/ DoDelete \/ DoFilter \/ DoFill \/ DoPublish \/ DoEmpty
          => Now' = Now /\ Now # "match"
    BY DEF Moved, DoBuild, DoSearch, DoRemove, DoStats, DoDelete, DoFilter, DoFill, DoPublish, DoEmpty
  <2>2. DoNothing => Now' = Now
    BY DEF DoNothing
  <2> QED
    BY <1>4, <1>5, <1>6, <1>7, <1>8, <1>9, <1>10, <2>1, <2>2 DEF ReadStep

\* Without a prefilter nothing is stored, whatever the graph; with one, what is
\* stored depends on the nodes and on the attributes only.
LEMMA FilterRestStays ==
    ASSUME FilterRest, UNCHANGED <<variant, hash, subs, id, bloom, lists, duplicates>>,
           variant = NoVariant \/ UNCHANGED <<nodes, attr>>
    PROVE  FilterRest' /\ Stored' = Stored /\ (IdsSound <=> IdsSound')
<1>1. FilterTypes' /\ ListsExact' /\ Stored' = Stored /\ (IdsSound <=> IdsSound')
  BY DEF FilterRest, FilterTypes, ListsExact, Stored, BelongsTo, IdsSound
<1>2. CASE variant = NoVariant
  <2>1. subs = <<>> /\ Stored = {}
    BY <1>2, EmptyList DEF FilterRest, StoredInv, Stored
  <2>2. ~UsesContainment'
    BY <1>2, PreFilterAssumption DEF UsesContainment, AllNoContainment, AllContainmentN, AllContainmentNP
  <2>3. StoredInv'
    BY <1>1, <2>1 DEF FilterRest, StoredInv
  <2> QED
    BY <1>1, <2>2, <2>3 DEF FilterRest, ContainmentInv
<1>3. CASE UNCHANGED <<nodes, attr>>
  BY <1>1, <1>3 DEF FilterRest, ContainmentInv, StoredInv, UsesContainment, HasGraph, Live
<1> QED
  BY <1>2, <1>3

\* What the prefilter needs of the graph it is made on.
LEMMA FilterReady ==
    ASSUME Running, Now \in {"filter", "fill", "publish", "empty"}
    PROVE  FilterInv /\ (Full \/ Gone) /\ (Gone => ~HasGraph)
<1>1. FilterPlace /\ SoundPlace /\ options.does \in {"main", "test"}
      /\ (Now = "empty" => options.does = "test")
  BY RunningIs
<1>2. Full \/ Gone
  BY <1>1 DEF Full, Gone
<1>3. CountInv
  BY <1>2, GraphThere
<1>4. RouterInv /\ (Gone => ~HasGraph)
  BY <1>1, <1>2 DEF SoundPlace, HasGraph
<1> QED
  BY <1>1, <1>2, <1>3, <1>4 DEF FilterPlace, FilterRest, FilterInv, GraphInv

LEMMA FilterPlaceKept ==
    ASSUME Running, SameProgram, ReadStep
    PROVE  FilterPlace'
<1>1. /\ FilterPlace /\ FilterRest /\ Subs' = Subs /\ options' = options
      /\ options.does = "test" => Now # "stats"
      /\ Now \in {"search", "remove", "empty"} => options.does = "test"
      /\ options.does \in {"main", "test"} /\ at \in Nat
  BY RunningIs DEF SameProgram, FilterPlace
<1>2. /\ Done(0) = {} /\ ToDo(0) = ToSet(Subs)
      /\ Done(Len(Subs)) = ToSet(Subs) /\ ToDo(Len(Subs)) = {}
      /\ at + 1 \in 1 .. Len(Subs) =>
            /\ Done(at + 1) = Done(at) \cup {Subs[at + 1]}
            /\ ToDo(at) = ToDo(at + 1) \cup {Subs[at + 1]}
            /\ DistinctUpTo(Len(Subs)) => Subs[at + 1] \notin ToDo(at + 1)
  BY <1>1, LoopSets
<1>3. NoFilterYet => Now \notin {"filter", "fill", "publish", "empty", "ended"}
  BY DEF NoFilterYet
<1>4. CASE DoFilter
  <2>1. Now = "filter" /\ Now' = "filter" /\ MakePreFilter
    BY <1>4 DEF DoFilter, Moved
  <2>2. FilterInv
    BY <2>1, FilterReady
  <2>3. FilterInv' /\ subs' = subs /\ id' = id
    BY <2>1, <2>2, MakeKeeps DEF MakePreFilter
  <2>4. ~NoFilterYet'
    BY <1>1, <2>1 DEF NoFilterYet
  <2>5. IdsSound' /\ subs' = <<>>
    BY <1>1, <2>1, <2>3 DEF FilterPlace, IdsSound, Stored
  <2>6. FilterRest'
    BY <2>3 DEF FilterInv, FilterRest
  <2> QED
    BY <2>1, <2>4, <2>5, <2>6 DEF FilterPlace
<1>5. CASE DoFill
  <2> DEFINE s == Subs[at + 1]
  <2>1. /\ Now = "fill" /\ Now' = "fill" /\ at' = at + 1
        /\ at + 1 \in 1 .. Len(Subs) /\ s \in Sub /\ AddToFilter(s)
    BY <1>5 DEF DoFill, Moved, NextSub
  <2>2. FilterInv /\ subs \in Seq(Sub) /\ id \in [Sub -> Nat] /\ Stored \subseteq Sub
    BY <2>1, FilterReady DEF FilterInv, FilterTypes, Stored, ToSet
  <2>3. FilterInv'
    BY <2>1, <2>2, AddKeeps
  <2>4. subs' = Append(subs, s) /\ id' = [id EXCEPT ![s] = Len(subs)] /\ s \notin Stored
    BY <2>1 DEF AddToFilter
  <2>5. Stored' = Stored \cup {s} /\ Len(subs') = Len(subs) + 1
    <3>1. IsInserted(Append(subs, s), subs, Len(subs) + 1, s) /\ Append(subs, s) \in Seq(Sub)
          /\ Len(subs) + 1 \in 1 .. Len(subs) + 1
      BY <2>1, <2>2, AppendIs
    <3>2. ToSet(Append(subs, s)) = ToSet(subs) \cup {s}
      BY <2>1, <2>2, <3>1, InsertedKeeps
    <3> QED
      BY <2>4, <3>1, <3>2 DEF Stored, IsInserted
  <2>6. IdsSound'
    <3>1. IdsSound
      BY <1>1, <2>1 DEF FilterPlace
    <3>2. id'[s] = Len(subs) /\ \A t \in Stored : id'[t] = id[t] /\ id[t] < Len(subs)
      BY <2>1, <2>2, <2>4, <3>1 DEF IdsSound
    <3>3. Len(subs) \in Nat /\ \A t \in Stored : id[t] \in Nat
      BY <2>2
    <3> QED
      BY <2>4, <2>5, <3>1, <3>2, <3>3 DEF IdsSound
  <2>7. Stored' = Done(at)'
    <3>1. Stored' = Done(at + 1)
      BY <1>1, <1>2, <2>1, <2>5 DEF FilterPlace
    <3> QED
      BY <1>1, <2>1, <3>1 DEF Done
  <2>8. ~NoFilterYet' /\ FilterRest'
    BY <2>1, <2>3 DEF NoFilterYet, FilterInv, FilterRest
  <2> QED
    BY <2>1, <2>6, <2>7, <2>8 DEF FilterPlace
<1>6. CASE DoEmpty
  <2> DEFINE s == Subs[at + 1]
  <2>1. /\ Now = "empty" /\ Now' = "empty" /\ at' = at + 1
        /\ at + 1 \in 1 .. Len(Subs) /\ s \in Sub /\ RemoveFromFilter(s)
    BY <1>6 DEF DoEmpty, Moved, NextSub
  <2>2. FilterInv /\ subs \in Seq(Sub) /\ IsInjective(subs)
    BY <2>1, FilterReady DEF FilterInv, FilterTypes
  <2>3. FilterInv'
    BY <2>1, <2>2, RemoveKeeps
  <2>4. Stored' = Stored \ {s}
    BY <2>1, <2>2, RemoveFirstIs DEF RemoveFromFilter, Stored
  <2>5. DistinctUpTo(Len(Subs))
    BY <1>1, <2>1, RunningIs DEF LivePlace
  <2>6. Stored' = ToDo(at)'
    <3>1. Stored' = ToDo(at + 1)
      BY <1>1, <1>2, <2>1, <2>4, <2>5 DEF FilterPlace
    <3> QED
      BY <1>1, <2>1, <3>1 DEF ToDo
  <2>7. ~NoFilterYet' /\ FilterRest'
    BY <2>1, <2>3 DEF NoFilterYet, FilterInv, FilterRest
  <2> QED
    BY <2>1, <2>6, <2>7 DEF FilterPlace
<1>7. ASSUME UNCHANGED <<variant, hash, subs, id, bloom, lists, duplicates>>
      PROVE  FilterRest' /\ Stored' = Stored /\ (IdsSound <=> IdsSound')
  <2>1. Now \in {"build", "remove"} => variant = NoVariant
    BY <1>1 DEF FilterPlace, NoFilterYet
  <2>2. Now \notin {"build", "remove"} => UNCHANGED <<nodes, attr>>
    BY LiveSteps DEF DoBuild, DoRemove, Moved
  <2> QED
    BY <1>1, <1>7, <2>1, <2>2, FilterRestStays
<1>8. ASSUME UNCHANGED <<variant, hash, subs, id, bloom, lists, duplicates>>, Now' = Now,
             at' = at \/ Now \notin {"fill", "empty"}
      PROVE  FilterPlace'
  <2>1. NoFilterYet' = NoFilterYet /\ ToSet(Subs)' = ToSet(Subs)
    BY <1>1, <1>8 DEF NoFilterYet
  <2>2. /\ Now = "fill" => Done(at)' = Done(at)
        /\ Now = "empty" => ToDo(at)' = ToDo(at)
    BY <1>1, <1>8 DEF Done, ToDo
  <2>3. FilterRest' /\ Stored' = Stored /\ (IdsSound <=> IdsSound')
    BY <1>7, <1>8
  <2> QED
    BY <1>1, <1>8, <2>1, <2>2, <2>3 DEF FilterPlace
<1>9. CASE DoEnd
  <2>1. /\ Now # "ended" /\ Now' = After(Now) /\ at' = 0
        /\ UNCHANGED <<variant, hash, subs, id, bloom, lists, duplicates>>
        /\ Now \in {"build", "remove", "fill", "empty"} => at = Len(Subs)
        /\ nodes' = nodes /\ attr' = attr
    BY <1>9 DEF DoEnd, filterVars, graphState, vars, structure
  <2>2. FilterRest' /\ Stored' = Stored /\ (IdsSound <=> IdsSound')
    BY <1>1, <2>1, FilterRestStays
  <2>3. /\ NoFilterYet' => NoFilterYet
        /\ Now' = "filter" => NoFilterYet
        /\ Now' = "fill" => Now = "filter"
        /\ Now' = "publish" => Now = "fill"
        /\ Now' = "empty" => Now = "publish"
        /\ options.does = "test" /\ Now' = "ended" => Now = "empty"
    <3>1. NoFilterYet' => NoFilterYet
      BY <1>1, <2>1, RunningIs DEF After, NoFilterYet, Names
    <3>2. Now' = "filter" => NoFilterYet
      BY <1>1, <2>1 DEF After, NoFilterYet
    <3>3. /\ Now' = "fill" => Now = "filter"
          /\ Now' = "publish" => Now = "fill"
          /\ Now' = "empty" => Now = "publish"
      BY <2>1 DEF After
    <3>4. options.does = "test" /\ Now' = "ended" => Now = "empty"
      BY <2>1, RunningIs DEF After, Names
    <3> QED
      BY <3>1, <3>2, <3>3, <3>4
  <2>4. /\ NoFilterYet => variant' = NoVariant /\ subs' = <<>> /\ IdsSound'
    BY <1>1, <2>1 DEF FilterPlace, FilterRest, StoredInv, IdsSound, Stored, ToSet
  <2>5. Now = "filter" => Stored = {} /\ IdsSound
    BY <1>1, EmptyList DEF FilterPlace, Stored
  <2>6. Now = "fill" => Stored = ToSet(Subs) /\ IdsSound
    BY <1>1, <1>2, <2>1 DEF FilterPlace
  <2>7. Now = "publish" => Stored = ToSet(Subs)
    BY <1>1 DEF FilterPlace
  <2>8. Now = "empty" => Stored = {}
    BY <1>1, <1>2, <2>1 DEF FilterPlace
  <2>9. Done(at)' = Done(0) /\ ToDo(at)' = ToDo(0) /\ ToSet(Subs)' = ToSet(Subs)
    BY <1>1, <2>1 DEF Done, ToDo
  <2> QED
    BY <1>1, <1>2, <2>1, <2>2, <2>3, <2>4, <2>5, <2>6, <2>7, <2>8, <2>9 DEF FilterPlace
<1>10. CASE DoBuild \/ DoSearch \/ DoMatch \/ DoRemove \/ DoStats \/ DoDelete
  <2>1. UNCHANGED <<variant, hash, subs, id, bloom, lists, duplicates>> /\ Now' = Now
    BY <1>10 DEF DoBuild, DoSearch, DoMatch, DoRemove, DoStats, DoDelete, Moved, filterVars
  <2>2. Now \in {"build", "search", "match", "remove", "stats", "delete"}
    BY <1>10 DEF DoBuild, DoSearch, DoMatch, DoRemove, DoStats, DoDelete, Moved
  <2> QED
    BY <1>8, <2>1, <2>2
<1>11. CASE DoPublish
  <2>1. Now = "publish" /\ Now' = Now /\ FilterMatch(Pubs[at + 1])
    BY <1>11 DEF DoPublish, Moved
  <2>2. UNCHANGED <<variant, hash, subs, id, bloom, lists, duplicates>>
    BY Zenon, <2>1 DEF FilterMatch
  <2> QED
    BY <1>8, <2>1, <2>2
<1>12. CASE DoContinue \/ DoNothing
  <2>1. UNCHANGED <<variant, hash, subs, id, bloom, lists, duplicates>> /\ Now' = Now /\ at' = at
    BY <1>12 DEF DoContinue, Continue, DoNothing, filterVars
  <2> QED
    BY <1>8, <2>1
<1> QED
  BY <1>4, <1>5, <1>6, <1>9, <1>10, <1>11, <1>12 DEF ReadStep

LEMMA ExactStays ==
    ASSUME UNCHANGED <<subs, bloom, nodes, attr>>, NEW e, NEW pushed,
           Pubs'[at'] = e, result'.pushed = pushed
    PROVE  ExactFor(e, pushed) <=> ExactFor(Pubs[at], result.pushed)'
<1>1. /\ Stored' = Stored
      /\ \A s : ClassOf(s)' = ClassOf(s) /\ (Mixed(s)' <=> Mixed(s))
  BY DEF Stored, ClassOf, Mixed, HasGraph
<1>2. ExactFor(Pubs[at], result.pushed)' <=> \A s \in Stored' :
        IF <<s, e>> \notin Matching THEN SumOf(pushed, ClassOf(s)') = 0
        ELSE IF Mixed(s)' THEN SumOf(pushed, ClassOf(s)') \in 1 .. Cardinality(ClassOf(s)')
        ELSE SumOf(pushed, ClassOf(s)') = Cardinality(ClassOf(s)')
  BY DEF ExactFor
<1> QED
  BY <1>1, <1>2 DEF ExactFor

LEMMA ResultPlaceKept ==
    ASSUME Running, SameProgram, ReadStep
    PROVE  ResultPlace'
<1>1. ResultPlace /\ Pubs' = Pubs /\ at \in Nat /\ Len(Pubs) \in Nat
  BY RunningIs, SizesFit DEF SameProgram
<1>2. CASE DoPublish
  <2>1. /\ Now = "publish" /\ at' = at + 1 /\ Pubs[at + 1] \in Event /\ FilterMatch(Pubs[at + 1])
        /\ at + 1 <= Len(Pubs)
    BY <1>1, <1>2 DEF DoPublish, Moved, NextPub
  <2>2. FilterInv /\ IdsSound
    BY <2>1, FilterReady, RunningIs DEF FilterPlace
  <2>3. /\ result'.event = {Pubs[at + 1]} /\ ExactFor(Pubs[at + 1], result'.pushed)
        /\ result'.pushed \in [Sub -> Nat]
    BY <2>1, <2>2, ResultExact, ResultTyped
  <2>4. UNCHANGED <<subs, bloom>>
    BY Zenon, <2>1 DEF FilterMatch
  <2>5. UNCHANGED <<nodes, attr>>
    BY <2>1, LiveSteps DEF DoBuild, DoRemove, Moved
  <2>6. Pubs'[at'] = Pubs[at + 1]
    BY <1>1, <2>1
  <2>7. ExactFor(Pubs[at], result.pushed)'
    BY <2>3, <2>4, <2>5, <2>6, ExactStays
  <2> QED
    BY <1>1, <2>1, <2>3, <2>6, <2>7 DEF ResultPlace
<1>3. CASE DoContinue \/ DoNothing
  <2>1. Now' = Now /\ at' = at /\ UNCHANGED <<subs, bloom, result>>
    BY <1>3 DEF DoContinue, Continue, DoNothing, filterVars
  <2>2. CASE Now = "publish" /\ at > 0
    <3>1. UNCHANGED <<nodes, attr>>
      BY <2>2, LiveSteps DEF DoBuild, DoRemove, Moved
    <3>2. /\ result.event = {Pubs[at]} /\ result.pushed \in [Sub -> Nat] /\ at <= Len(Pubs)
          /\ ExactFor(Pubs[at], result.pushed)
      BY <1>1, <2>2 DEF ResultPlace
    <3>3. Pubs'[at'] = Pubs[at]
      BY <1>1, <2>1
    <3>4. ExactFor(Pubs[at], result.pushed)'
      BY <2>1, <3>1, <3>2, <3>3, ExactStays
    <3> QED
      BY <1>1, <2>1, <3>2, <3>3, <3>4 DEF ResultPlace
  <2> QED
    BY <1>1, <2>1, <2>2 DEF ResultPlace
<1>4. CASE DoEnd
  BY <1>1, <1>4 DEF DoEnd, ResultPlace
<1>5. DoBuild \/ DoSearch \/ DoMatch \/ DoRemove \/ DoStats \/ DoDelete \/ DoFilter \/ DoFill \/ DoEmpty
        => Now' # "publish"
  BY DEF DoBuild, DoSearch, DoMatch, DoRemove, DoStats, DoDelete, DoFilter, DoFill, DoEmpty, Moved
<1> QED
  BY <1>2, <1>3, <1>4, <1>5 DEF ReadStep, ResultPlace

LEMMA FoundPlaceKept ==
    ASSUME Running, SameProgram, ReadStep
    PROVE  FoundPlace'
<1>1. FoundPlace /\ options' = options /\ options.does \in {"main", "test"} /\ at \in Nat
      /\ (Now = "search" => options.does = "test")
  BY RunningIs DEF SameProgram
<1>2. CASE DoSearch
  <2> DEFINE s == Searched[at + 1]
  <2>1. /\ Now = "search" /\ Now' = "search" /\ at' = at + 1 /\ at + 1 \in 1 .. 2 /\ s \in {"s3", "s4"}
    BY <1>2 DEF DoSearch, Moved
  <2>2. PICK n \in SearchResults(s) : found' = Append(found, n)
    BY <1>2 DEF DoSearch
  <2>3. s \in Live /\ s \in Sub
    BY <1>1, <2>1, RunningIs, DataTyped DEF LivePlace, Full, Live
  <2>4. CountInv
    BY <2>1, GraphThere
  <2>5. n = attr[s] /\ EquivalentSubs(s, attr[s]) /\ attr[s] \in nodes /\ nodes \subseteq Sub
    BY <2>2, <2>3, <2>4, GraphFacts, SearchLive DEF AttrExact, TypeOK
  <2>6. n \in Sub /\ EquivalentSubs(n, s)
    BY <2>5 DEF EquivalentSubs
  <2>7. /\ found \in Seq(Sub) /\ Len(found) = at
        /\ \A i \in 1 .. Len(found) : EquivalentSubs(found[i], Searched[i])
    BY <1>1, <2>1 DEF FoundPlace
  <2>8. /\ found' \in Seq(Sub) /\ Len(found') = at + 1 /\ found'[at + 1] = n
        /\ \A i \in 1 .. at : found'[i] = found[i]
    BY <2>2, <2>6, <2>7
  <2>9. \A i \in 1 .. Len(found') : EquivalentSubs(found'[i], Searched[i])
    <3>1. ASSUME NEW i \in 1 .. Len(found')
          PROVE  EquivalentSubs(found'[i], Searched[i])
      <4>1. i = at + 1 \/ i \in 1 .. at
        BY <1>1, <2>8
      <4> QED
        BY <2>6, <2>7, <2>8, <4>1
    <3> QED
      BY <3>1
  <2> QED
    BY <1>1, <2>1, <2>8, <2>9 DEF FoundPlace
<1>3. CASE found' = found /\ ((Now' = Now /\ (at' = at \/ Now # "search")) \/ DoEnd)
  <2>1. DoEnd => Now' = After(Now) /\ at' = 0 /\ (Now' = "search" => Now = "build") /\ Now' # "build"
    BY DEF DoEnd, After
  <2>2. Now' = "build" => Now = "build"
    BY <1>3, <2>1
  <2>3. options.does = "test" /\ Now' = "search" => Len(found) = at'
    BY <1>1, <1>3, <2>1 DEF FoundPlace
  <2> QED
    BY <1>1, <1>3, <2>2, <2>3 DEF FoundPlace
<1>4. DoBuild \/ DoMatch \/ DoRemove \/ DoStats \/ DoDelete \/ DoFilter \/ DoFill \/ DoPublish \/ DoEmpty
        => found' = found /\ Now' = Now /\ Now # "search"
  BY DEF DoBuild, DoMatch, DoRemove, DoStats, DoDelete, DoFilter, DoFill, DoPublish, DoEmpty, Moved, history
<1>5. DoContinue \/ DoNothing => found' = found /\ Now' = Now /\ at' = at
  BY DEF DoContinue, Continue, DoNothing, history
<1>6. DoEnd => found' = found
  BY DEF DoEnd, history
<1> QED
  BY <1>2, <1>3, <1>4, <1>5, <1>6 DEF ReadStep

-----------------------------------------------------------------------------
(* From the first state on.                                                *)

LEMMA PlacesInitial == DriverInit => Places
<1> SUFFICES ASSUME DriverInit, Reads
             PROVE  TaskPlace /\ IdPlace /\ LivePlace /\ SoundPlace /\ AnswerPlace
                    /\ FilterPlace /\ ResultPlace /\ FoundPlace
  BY DEF Places
<1>1. Setup /\ WalkInv /\ FilterInv
  BY SetupInitial, WalksInitial, FilterInitial DEF DriverInit
<1>2. Now = FirstPhase /\ options.does \in {"main", "test"}
  BY <1>1, PhasesAre DEF DriverInit, Reads
<1>3. Now \in {"build", "filter", "ended"} /\ (Now = "build" \/ Gone) /\ ~Full
      /\ (Now = "ended" => options.does = "main") /\ (options.does = "test" => Now = "build")
  BY <1>2 DEF FirstPhase, Gone, Full
<1>4. task = Idle /\ nodes = {} /\ attr = [s \in Sub |-> NoNode] /\ at = 0
      /\ answers = <<>> /\ found = <<>> /\ subs = <<>> /\ variant = NoVariant
  BY DEF DriverInit, WalksInit, PreFilterInit, Init
<1>5. nextId = 0
  BY <1>2 DEF DriverInit, Defaults
<1>6. TaskPlace
  BY <1>4 DEF TaskPlace, Idle, Deleting
<1>7. Subs \in Seq(Sub) /\ Len(Subs) \in Nat
  BY <1>1, DataTyped
<1>8. IdPlace
  BY <1>3, <1>4, <1>5, <1>7 DEF IdPlace
<1>9. Live = {} /\ Done(0) = {} /\ DistinctUpTo(0)
  BY <1>4 DEF Live, Done, DistinctUpTo
<1>10. LivePlace
  BY <1>3, <1>4, <1>9 DEF LivePlace
<1>11. SoundPlace
  BY <1>1, <1>3, <1>4 DEF SoundPlace, FilterInv, GraphInv
<1>12. AnswerPlace
  BY <1>3, <1>4, EmptySeq DEF AnswerPlace
<1>13. Stored = {} /\ IdsSound
  BY <1>4, EmptyList DEF Stored, IdsSound
<1>14. FilterPlace
  BY <1>1, <1>3, <1>4, <1>13 DEF FilterPlace, FilterInv, FilterRest
<1>15. ResultPlace
  BY <1>3 DEF ResultPlace
<1>16. FoundPlace
  BY <1>3, <1>4, EmptySeq DEF FoundPlace
<1> QED
  BY <1>6, <1>8, <1>10, <1>11, <1>12, <1>14, <1>15, <1>16

LEMMA PlacesStep == Setup /\ WalkInv /\ Places /\ [DriverNext]_driverVars => Places'
<1> SUFFICES ASSUME Setup, WalkInv, Places, [DriverNext]_driverVars, Reads'
             PROVE  TaskPlace' /\ IdPlace' /\ LivePlace' /\ SoundPlace' /\ AnswerPlace'
                    /\ FilterPlace' /\ ResultPlace' /\ FoundPlace'
  BY DEF Places
<1>1. Reads
  BY SetupStays DEF Reads
<1>2. SameProgram /\ ReadStep
  BY <1>1, ReadSteps
<1>3. Running
  BY <1>1 DEF Running
<1> QED
  BY <1>2, <1>3, TaskPlaceKept, IdPlaceKept, LivePlaceKept, SoundPlaceKept, AnswerPlaceKept,
     FilterPlaceKept, ResultPlaceKept, FoundPlaceKept

LEMMA WalkInDriver == DriverSpec => []WalkInv
BY DriverUsesGraph, WalkAlways, PTL

LEMMA PlacesAlways == DriverSpec => []Places
<1> QED
  BY PlacesInitial, PlacesStep, SetupAlways, WalkInDriver, PTL DEF DriverSpec

-----------------------------------------------------------------------------
(* Sums over disjoint sets.                                                *)

\* What holds of the empty set, and of a set when it does with one element less.
LEMMA SetInduction ==
    ASSUME NEW S, IsFiniteSet(S), NEW I, {} \in I,
           \A T \in SUBSET S : \A x \in T : T \ {x} \in I => T \in I
    PROVE  S \in I
<1> DEFINE g == [x \in S |-> 0]
           G == [T \in SUBSET S |-> IF T \in I THEN {0} ELSE {}]
<1>1. 0 \in G[{}]
  OBVIOUS
<1>2. ASSUME NEW T \in SUBSET S, NEW x \in T, NEW v \in G[T \ {x}]
      PROVE  g[x] + v \in G[T]
  <2>1. v = 0 /\ T \ {x} \in I /\ g[x] = 0
    OBVIOUS
  <2>2. T \in I
    BY <2>1
  <2> QED
    BY <2>1, <2>2
<1>3. S \in I <=> G[S] # {}
  OBVIOUS
<1> HIDE DEF G, g
<1>4. SumOf(g, S) \in G[S]
  BY <1>1, <1>2, SumInduction
<1> QED
  BY <1>3, <1>4

LEMMA SumJoin ==
    ASSUME NEW S, IsFiniteSet(S), NEW g, \A x \in S : g[x] \in Int,
           NEW A \in SUBSET S, NEW C \in SUBSET S, A \cap C = {}
    PROVE  SumOf(g, A \cup C) = SumOf(g, A) + SumOf(g, C)
<1> DEFINE I == {T \in SUBSET C : SumOf(g, A \cup T) = SumOf(g, A) + SumOf(g, T)}
<1>1. /\ SumOf(g, {}) = 0
      /\ \A T \in SUBSET S : SumOf(g, T) \in Int
      /\ \A T \in SUBSET S : \A x \in T : SumOf(g, T) = g[x] + SumOf(g, T \ {x})
  BY SumSplit
<1>2. {} \in I
  <2>1. A \cup {} = A
    OBVIOUS
  <2> QED
    BY <1>1, <2>1
<1>3. ASSUME NEW T \in SUBSET C, NEW x \in T, T \ {x} \in I
      PROVE  T \in I
  <2>1. A \cup T \in SUBSET S /\ x \in A \cup T /\ (A \cup T) \ {x} = A \cup (T \ {x}) /\ T \in SUBSET S
    OBVIOUS
  <2>2. SumOf(g, A \cup T) = g[x] + SumOf(g, A \cup (T \ {x}))
    BY <1>1, <2>1
  <2>3. SumOf(g, T) = g[x] + SumOf(g, T \ {x})
    BY <1>1, <2>1
  <2>4. SumOf(g, A \cup (T \ {x})) = SumOf(g, A) + SumOf(g, T \ {x})
    BY <1>3
  <2>5. g[x] \in Int /\ SumOf(g, A) \in Int /\ SumOf(g, T \ {x}) \in Int
    BY <1>1
  <2> QED
    BY <2>2, <2>3, <2>4, <2>5
<1>4. IsFiniteSet(C)
  BY FS_Subset
<1> HIDE DEF I
<1>5. C \in I
  BY <1>2, <1>3, <1>4, SetInduction
<1> QED
  BY <1>5 DEF I

\* The subscriptions whose primary is in T.
Led(T) == {s \in Stored : Primary(s) \in T}

\* What is exact for every class is exact for all of them together.
LEMMA ExactSums ==
    ASSUME FilterInv, AllAdded, NEW e \in Event, NEW pushed \in [Sub -> Nat],
           ExactFor(e, pushed), \A s \in Stored : ~Mixed(s)
    PROVE  SumOf(pushed, Stored) = Cardinality({s \in Stored : Meets(s, e)})
<1> DEFINE Met(C) == {s \in C : Meets(s, e)}
           Q == {Primary(s) : s \in Stored}
           I == {T \in SUBSET Q : SumOf(pushed, Led(T)) = Cardinality(Met(Led(T)))}
<1>1. /\ Stored \subseteq Sub
      /\ \A s \in Stored :
            /\ Primary(s) \in Stored /\ Primary(Primary(s)) = Primary(s)
            /\ Covers(s, Primary(s)) /\ Covers(Primary(s), s)
            /\ ClassOf(s) = {t \in Stored : Primary(t) = Primary(s)}
  BY PrimaryFacts
<1>2. IsFiniteSet(Stored) /\ IsFiniteSet(Q) /\ \A C \in SUBSET Stored : IsFiniteSet(C) /\ Cardinality(C) \in Nat
  <2>1. IsFiniteSet(Stored) /\ Q \subseteq Stored
    BY <1>1, GraphAssumption, FS_Subset
  <2> QED
    BY <2>1, FS_Subset, FS_CardinalityType
<1>3. \A s \in Stored : pushed[s] \in Int
  BY <1>1
<1>4. ASSUME NEW p \in Q
      PROVE  /\ Led({p}) = ClassOf(p) /\ SumOf(pushed, ClassOf(p)) = Cardinality(Met(ClassOf(p)))
             /\ ClassOf(p) \subseteq Stored
  <2>1. p \in Stored /\ Primary(p) = p
    BY <1>1
  <2>2. ClassOf(p) = {t \in Stored : Primary(t) = p} /\ Led({p}) = ClassOf(p)
    BY <1>1, <2>1 DEF Led
  <2>3. \A t \in ClassOf(p) : Meets(t, e) <=> Meets(p, e)
    <3>1. \A t \in ClassOf(p) : t \in Sub /\ p \in Sub /\ Covers(t, p) /\ Covers(p, t)
      BY <1>1, <2>1, <2>2
    <3> QED
      BY <3>1, MeetsUp
  <2>4. CASE Meets(p, e)
    <3>1. Met(ClassOf(p)) = ClassOf(p)
      BY <2>3, <2>4
    <3>2. SumOf(pushed, ClassOf(p)) = Cardinality(ClassOf(p))
      BY <2>1, <2>4 DEF ExactFor, Meets
    <3> QED
      BY <2>2, <3>1, <3>2
  <2>5. CASE ~Meets(p, e)
    <3>1. Met(ClassOf(p)) = {}
      BY <2>3, <2>5
    <3>2. SumOf(pushed, ClassOf(p)) = 0
      BY <2>1, <2>5 DEF ExactFor, Meets
    <3> QED
      BY <2>2, <3>1, <3>2, FS_EmptySet
  <2> QED
    BY <2>4, <2>5
<1>5. {} \in I
  <2>1. Led({}) = {} /\ Met({}) = {}
    BY DEF Led
  <2>2. SumOf(pushed, {}) = 0
    BY <1>2, <1>3, SumSplit
  <2> QED
    BY <2>1, <2>2, FS_EmptySet
<1>6. ASSUME NEW T \in SUBSET Q, NEW p \in T, T \ {p} \in I
      PROVE  T \in I
  <2> DEFINE A == ClassOf(p)
             B == Led(T \ {p})
  <2>1. Led(T) = A \cup B /\ A \cap B = {} /\ A \subseteq Stored /\ B \subseteq Stored
    <3>1. Led(T) = Led({p}) \cup B /\ Led({p}) \cap B = {} /\ B \subseteq Stored
      BY DEF Led
    <3> QED
      BY <1>4, <3>1
  <2>2. SumOf(pushed, A) = Cardinality(Met(A)) /\ SumOf(pushed, B) = Cardinality(Met(B))
    BY <1>4, <1>6
  <2> HIDE DEF A, B
  <2>3. SumOf(pushed, A \cup B) = SumOf(pushed, A) + SumOf(pushed, B)
    BY <1>2, <1>3, <2>1, SumJoin
  <2>4. Met(A \cup B) = Met(A) \cup Met(B) /\ Met(A) \cap Met(B) = {}
        /\ Met(A) \subseteq Stored /\ Met(B) \subseteq Stored
    BY <2>1
  <2> DEFINE a == Met(A)
             b == Met(B)
  <2> HIDE DEF Met
  <2>5. Cardinality(a \cup b) = Cardinality(a) + Cardinality(b)
    <3>1. /\ a \cap b = {} /\ IsFiniteSet(a) /\ IsFiniteSet(b)
          /\ Cardinality(a) \in Nat /\ Cardinality(b) \in Nat
      BY <1>2, <2>4
    <3> HIDE DEF a, b
    <3>2. Cardinality(a \cup b) = Cardinality(a) + Cardinality(b) - Cardinality(a \cap b)
      BY <3>1, FS_Union
    <3>3. Cardinality(a \cap b) = 0
      BY <3>1, FS_EmptySet
    <3> QED
      BY <3>1, <3>2, <3>3
  <2> QED
    BY <2>1, <2>2, <2>3, <2>4, <2>5
<1>7. Led(Q) = Stored
  BY DEF Led
<1> HIDE DEF I, Q
<1>8. Q \in I
  BY <1>2, <1>5, <1>6, SetInduction
<1> QED
  BY <1>7, <1>8 DEF I

-----------------------------------------------------------------------------
(* What the program promises.                                              *)

\* test() finds what it looks for, and leaves a graph and a prefilter that hold
\* nothing: whatever the order of the vectors, removing all that was added undoes
\* every link, count and list.
THEOREM TestAlwaysLeavesNothing == DriverSpec => []TestLeavesNothing
<1>1. Setup /\ WalkInv /\ Places => TestLeavesNothing
  <2> SUFFICES ASSUME Setup, WalkInv, Places, options.does = "test"
               PROVE  /\ \A i \in DOMAIN found :
                            /\ found[i] # NoNode /\ Covers(found[i], Turns("search")[i])
                            /\ Covers(Turns("search")[i], found[i])
                      /\ Ended => /\ nodes = {} /\ roots = {} /\ leaves = {} /\ size = 0
                                  /\ subs = <<>> /\ \A b \in DOMAIN lists : lists[b] = <<>>
    BY DEF TestLeavesNothing
  <2>1. Running
    BY DEF Running, Reads
  <2>2. ASSUME NEW i \in DOMAIN found
        PROVE  /\ found[i] # NoNode /\ Covers(found[i], Turns("search")[i])
               /\ Covers(Turns("search")[i], found[i])
    <3>1. found \in Seq(Sub) /\ \A j \in 1 .. Len(found) : EquivalentSubs(found[j], Searched[j])
      BY <2>1, RunningIs DEF FoundPlace
    <3>2. found[i] \in Sub /\ EquivalentSubs(found[i], Searched[i])
      BY <3>1
    <3>3. Turns("search") = Searched
      BY DEF Turns, Searched
    <3> QED
      BY <3>2, <3>3, GraphAssumption DEF EquivalentSubs
  <2>3. ASSUME Ended
        PROVE  /\ nodes = {} /\ roots = {} /\ leaves = {} /\ size = 0
               /\ subs = <<>> /\ \A b \in DOMAIN lists : lists[b] = <<>>
    <3>1. Now = "ended" /\ Gone
      BY <2>3 DEF Now, Gone
    <3>2. nodes = {} /\ CountInv
      BY <2>1, <3>1, RunningIs DEF SoundPlace
    <3>3. TypeOK /\ Shape /\ CountsExact /\ AttrExact
      BY <3>2, GraphFacts
    <3>4. roots = {} /\ leaves = {}
      BY <3>2, <3>3, LinksFacts
    <3>5. Live = {} /\ size = 0
      BY <3>2, <3>3, FS_EmptySet DEF AttrExact, CountsExact
    <3>6. FilterTypes /\ ListsExact /\ Stored = {}
      BY <2>1, <3>1, RunningIs DEF FilterPlace, FilterRest
    <3>7. subs = <<>>
      BY <3>6, EmptyIs DEF FilterTypes, Stored
    <3>8. ASSUME NEW b \in DOMAIN lists
          PROVE  lists[b] = <<>>
      <4>1. lists[b] \in Seq(Sub) /\ ToSet(lists[b]) = {}
        BY <3>6 DEF FilterTypes, ListsExact
      <4> QED
        BY <4>1, EmptyIs
    <3> QED
      BY <3>2, <3>4, <3>5, <3>7, <3>8
  <2> QED
    BY <2>2, <2>3
<1> QED
  BY <1>1, SetupAlways, WalkInDriver, PlacesAlways, PTL

\* The two engines agree: for each publication the prefilter, in every variant,
\* with the graph or without it, pushes as many subscriptions as the graph has
\* counted (when no class is mixed), whatever the files and the options.
THEOREM EnginesAlwaysAgree == DriverSpec => []EnginesAgree
<1>1. Setup /\ WalkInv /\ Places => EnginesAgree
  <2> SUFFICES ASSUME Setup, WalkInv, Places, ~Ended, Script[phase] = "publish", at > 0,
                      answers # <<>>, \A s \in Stored : ~Mixed(s)
               PROVE  Pushed(Stored) = answers[at]
    BY DEF EnginesAgree
  <2>1. Now = "publish"
    BY DEF Now
  <2>2. Reads
    <3>1. Now \in Phases /\ options.does \in {"main", "test", "exit", "free"}
      BY PhasesAre DEF Setup, DriverOptions
    <3> QED
      BY <2>1, <3>1 DEF Phases, Reads
  <2>3. Running
    BY <2>2 DEF Running
  <2>4. /\ at \in 1 .. Len(Pubs) /\ Pubs[at] \in Event
        /\ result.pushed \in [Sub -> Nat] /\ ExactFor(Pubs[at], result.pushed)
    <3>1. at \in Nat /\ Pubs \in Seq(Event) /\ ResultPlace
      BY <2>3, RunningIs
    <3>2. at \in 1 .. Len(Pubs)
      BY <2>1, <3>1 DEF ResultPlace
    <3> QED
      BY <2>1, <3>1, <3>2 DEF ResultPlace
  <2>5. answers[at] = CountFor(Pubs[at])
    BY <2>1, <2>3, <2>4, RunningIs DEF AnswerPlace, AnswersUpTo
  <2>6. Stored = ToSet(Subs)
    BY <2>1, <2>3, RunningIs DEF FilterPlace
  <2>7. FilterInv /\ (Full \/ Gone) /\ (Gone => ~HasGraph)
    BY <2>1, <2>3, FilterReady
  <2>8. AllAdded
    BY <2>3, <2>6, <2>7, RunningIs DEF AllAdded, LivePlace, Live
  <2>9. SumOf(result.pushed, Stored) = Cardinality({s \in Stored : Meets(s, Pubs[at])})
    BY <2>4, <2>7, <2>8, ExactSums
  <2>10. Pushed(Stored) = SumOf(result.pushed, Stored)
    BY Zenon DEF Pushed, SumOf
  <2> QED
    BY <2>5, <2>6, <2>9, <2>10 DEF CountFor
<1> QED
  BY <1>1, SetupAlways, WalkInDriver, PlacesAlways, PTL

-----------------------------------------------------------------------------
(* Sums of numbers that change.                                            *)

LEMMA SumSame ==
    ASSUME NEW S, IsFiniteSet(S), NEW g, NEW h, \A x \in S : g[x] \in Int /\ h[x] = g[x]
    PROVE  SumOf(h, S) = SumOf(g, S)
<1> DEFINE G == [T \in SUBSET S |-> {SumOf(g, T)}]
<1>1. /\ SumOf(g, {}) = 0
      /\ \A T \in SUBSET S : \A x \in T : SumOf(g, T) = g[x] + SumOf(g, T \ {x})
  BY SumSplit
<1>2. 0 \in G[{}]
  BY <1>1
<1>3. \A T \in SUBSET S : \A x \in T : \A v \in G[T \ {x}] : h[x] + v \in G[T]
  BY <1>1
<1>4. G[S] = {SumOf(g, S)}
  OBVIOUS
<1> HIDE DEF G
<1>5. SumOf(h, S) \in G[S]
  BY <1>2, <1>3, SumInduction
<1> QED
  BY <1>4, <1>5

\* One of them grows.
LEMMA SumGrows ==
    ASSUME NEW S, IsFiniteSet(S), NEW g, NEW h, NEW n \in S, NEW k \in Int,
           \A x \in S : g[x] \in Int /\ h[x] = IF x = n THEN g[x] + k ELSE g[x]
    PROVE  SumOf(h, S) = SumOf(g, S) + k
<1> DEFINE R == S \ {n}
<1>1. R \in SUBSET S /\ IsFiniteSet(R)
  BY FS_Subset
<1>2. \A x \in S : h[x] \in Int
  OBVIOUS
<1>3. SumOf(g, S) = g[n] + SumOf(g, R) /\ SumOf(g, R) \in Int
  BY <1>1, SumSplit
<1>4. SumOf(h, S) = h[n] + SumOf(h, R)
  BY <1>1, <1>2, SumSplit
<1>5. SumOf(h, R) = SumOf(g, R)
  <2>1. \A x \in R : g[x] \in Int /\ h[x] = g[x]
    OBVIOUS
  <2> HIDE DEF R
  <2> QED
    BY <1>1, <2>1, SumSame
<1> HIDE DEF R
<1> QED
  BY <1>3, <1>4, <1>5

LEMMA SumTyped ==
    ASSUME NEW S, IsFiniteSet(S), NEW g, \A x \in S : g[x] \in Int
    PROVE  SumOf(g, S) \in Int
BY SumSplit

-----------------------------------------------------------------------------
(* The counters.                                                           *)

LEMMA CounterIs ==
    ASSUME NEW samples
    PROVE  /\ Counter(samples).samples =
                 SumOf([n \in DOMAIN samples |-> Len(samples[n])], DOMAIN samples)
           /\ Counter(samples).total =
                 SumOf([n \in DOMAIN samples |-> TotalOf(samples[n])], DOMAIN samples)
<1> DEFINE a == SumOf([n \in DOMAIN samples |-> Len(samples[n])], DOMAIN samples)
           b == SumOf([n \in DOMAIN samples |-> TotalOf(samples[n])], DOMAIN samples)
           values == UNION {ToSet(samples[n]) : n \in DOMAIN samples}
           c == IF values = {} THEN 0 ELSE Min(values)
           d == IF values = {} THEN 0 ELSE Max(values)
<1>1. Counter(samples) = [samples |-> a, total |-> b, min |-> c, max |-> d]
  BY Zenon DEF Counter, SumOf, TotalOf
<1> HIDE DEF a, b, c, d
<1>2. Counter(samples).samples = a /\ Counter(samples).total = b
  BY <1>1
<1> QED
  BY <1>2 DEF a, b

\* A count relative to the size, times the size.
LEMMA RelativeIs ==
    ASSUME CountInv, size # 0, NEW k \in Int
    PROVE  /\ Relative(k) \in Int /\ size \in Nat \ {0}
           /\ Relative(k) * size = k * Unit
<1>1. size = Cardinality(Live) /\ Live \subseteq Sub
  BY GraphFacts DEF CountsExact, Live
<1>2. size \in Nat /\ size <= Cardinality(Sub) /\ Cardinality(Sub) \in Nat
  BY <1>1, GraphAssumption, FS_Subset, FS_CardinalityType
<1>3. size \in 1 .. Cardinality(Sub) /\ Unit \in Nat
  BY <1>2, WalksAssumption
<1>4. Unit % size = 0
  BY <1>3, UnitAssumption
<1> DEFINE u == Unit \div size
<1>5. u \in Int /\ Unit = size * u
  BY <1>3, <1>4
<1>6. Relative(k) = k * u
  BY DEF Relative
<1> HIDE DEF u
<1>7. (k * u) * size = k * (size * u)
  BY <1>3, <1>5
<1> QED
  BY <1>3, <1>5, <1>6, <1>7

\* The sums over all nodes that compute_stats takes.
LEMMA CountsFill ==
    ASSUME CountInv
    PROVE  /\ SumOf(count, nodes) = size
           /\ \A n \in nodes : count[n] \in Nat \ {0}
           /\ All = nodes /\ IsFiniteSet(nodes)
<1>1. TypeOK /\ Shape /\ CountsExact /\ AttrExact /\ CountsPositive /\ nodes \subseteq Sub
  BY GraphFacts, LinksFacts DEF CountInv, ShapeInv, TypeInv
<1>2. IsFiniteSet(nodes)
  BY <1>1, GraphAssumption, FS_Subset
<1>3. Behind(nodes) = Live
  BY <1>1 DEF Behind, AttrExact
<1>4. SumOf(count, nodes) = size
  BY <1>1, <1>2, <1>3, CountsAdd DEF CountsExact
<1>5. \A n \in nodes : count[n] \in Nat \ {0}
  BY <1>1 DEF TypeOK, CountsPositive
<1>6. All = nodes
  <2>1. \A a \in nodes : containees[a] \subseteq nodes
    BY <1>1, LinksFacts
  <2>2. roots \subseteq nodes
    BY <1>1, LinksFacts
  <2> QED
    BY <1>1, <2>1, <2>2, AllNodes, ReachLeast DEF All
<1> QED
  BY <1>2, <1>4, <1>5, <1>6

-----------------------------------------------------------------------------
(* NaN, in any program.                                                    *)

NaNExact ==
    /\ matchStats.total \in Int \cup {NaN}
    /\ (matchStats.total = NaN) <=> early

\* One more node of a publication.
LEMMA PopIs ==
    ASSUME WalkInv, PopCandidate
    PROVE  /\ task.op = "match" /\ task'.op = "match" /\ task'.test = task.test + 1
           /\ UNCHANGED <<vars, pubs, testStats, matchStats, stats>>
           /\ \E n \in nodes :
                 /\ tests' = [tests EXCEPT ![n] = @ + 1]
                 /\ \/ hits' = [hits EXCEPT ![n] = @ + 1] /\ task'.match = task.match + count[n]
                    \/ hits' = hits /\ task'.match = task.match
<1>1. /\ task.op = "match" /\ MatchPart
      /\ UNCHANGED <<vars, pubs, testStats, matchStats, stats>>
  BY DEF WalkInv, PopCandidate
<1>2. task = [op |-> "match", event |-> task.event, cands |-> task.cands,
              test |-> task.test, match |-> task.match, subs |-> task.subs]
  BY <1>1 DEF MatchPart
<1>3. PICK c \in task.cands :
        LET n == c[2]
            rest == [task EXCEPT !.cands = @ \ {c}, !.test = @ + 1]
        IN /\ tests' = [tests EXCEPT ![n] = @ + 1]
           /\ \/ /\ task' = [rest EXCEPT !.cands = @ \cup {<<n, m>> : m \in containees[n]},
                                         !.match = @ + count[n],
                                         !.subs = @ \cup Entries(n)]
                 /\ hits' = [hits EXCEPT ![n] = @ + 1]
              \/ task' = rest /\ hits' = hits
  BY DEF PopCandidate
<1>4. c[2] \in nodes
  BY <1>1 DEF MatchPart, Stacked
<1>5. /\ task'.op = "match" /\ task'.test = task.test + 1
      /\ \/ task'.match = task.match + count[c[2]] /\ hits' = [hits EXCEPT ![c[2]] = @ + 1]
         \/ task'.match = task.match /\ hits' = hits
  <2>1. CASE hits' = [hits EXCEPT ![c[2]] = @ + 1]
             /\ \E cands, entries : task' = [[task EXCEPT !.cands = @ \ {c}, !.test = @ + 1]
                          EXCEPT !.cands = cands, !.match = @ + count[c[2]], !.subs = entries]
    BY <1>2, <2>1
  <2>2. CASE hits' = hits /\ task' = [task EXCEPT !.cands = @ \ {c}, !.test = @ + 1]
    BY <1>2, <2>2
  <2> QED
    BY <1>3, <2>1, <2>2
<1> QED
  BY <1>1, <1>3, <1>4, <1>5

\* The numbers that a step of the operation under way leaves alone.
numbers == <<nodes, count, size, pubs, tests, hits, testStats, matchStats>>

LEMMA TaskNumbers ==
    ASSUME WalkInv, TaskNext
    PROVE  \/ PopCandidate
           \/ FinishMatch
           \/ ComputeStats /\ task.op = "stats" /\ task'.op = "idle" /\ UNCHANGED numbers
           \/ PopMatched /\ task' = [task EXCEPT !.cands = task'.cands] /\ UNCHANGED <<numbers, stats>>
           \/ task.op # "match" /\ task'.op # "match" /\ UNCHANGED <<numbers, stats>>
<1>1. CASE PopMatched
  <2>1. PICK c \in task.cands : task' = [task EXCEPT !.cands = @ \ {c}]
    BY <1>1 DEF PopMatched
  <2>2. task = [op |-> "match", event |-> task.event, cands |-> task.cands,
                test |-> task.test, match |-> task.match, subs |-> task.subs]
    BY <1>1 DEF PopMatched, WalkInv, MatchPart
  <2>3. task' = [task EXCEPT !.cands = task'.cands]
    BY <2>1, <2>2
  <2>4. UNCHANGED <<numbers, stats>>
    BY <1>1 DEF PopMatched, numbers, nodeStats, vars, structure
  <2> QED
    BY <1>1, <2>3, <2>4
<1>2. CASE ComputeStats
  BY <1>2 DEF ComputeStats, numbers, nodeStats, vars, structure, Idle
<1>3. CASE PrepareStats \/ ClearNext \/ DeleteSelf \/ Deleted
  <2>1. task.op \in {"stats", "delete"}
    BY <1>3 DEF PrepareStats, ClearNext, DeleteSelf, Deleted
  <2>2. task'.op # "match"
    BY <2>1, TaskSteps
  <2>3. UNCHANGED <<numbers, stats>>
    BY <1>3 DEF PrepareStats, ClearNext, DeleteSelf, Deleted, numbers, nodeStats, vars, structure
  <2> QED
    BY <2>1, <2>2, <2>3
<1> QED
  BY <1>1, <1>2, <1>3 DEF TaskNext

LEMMA MatchTyped ==
    ASSUME WalkInv, task.op = "match"
    PROVE  task.match \in Int
<1>1. MatchPart
  BY DEF WalkInv
<1>2. PICK V \in SUBSET nodes : task.match = Cardinality(Behind(FoundIn(V, task.event)))
  BY <1>1 DEF MatchPart, Walked
<1>3. IsFiniteSet(Behind(FoundIn(V, task.event)))
  BY ClassesFinite, FS_Subset DEF Behind
<1> QED
  BY <1>2, <1>3, FS_CardinalityType

\* The end of a publication.
LEMMA FinishIs ==
    ASSUME WalkInv, FinishMatch
    PROVE  /\ task.op = "match" /\ task'.op = "idle" /\ CountInv /\ task.match \in Int
           /\ testStats'.total = AddSample(testStats, Relative(task.test)).total
           /\ matchStats'.total = AddSample(matchStats, Relative(task.match)).total
           /\ UNCHANGED <<nodes, count, size, pubs, tests, hits, stats>>
<1>1. task.op = "match" /\ CountInv
  BY DEF FinishMatch, WalkInv, GraphPart, Deleting
<1>2. task.match \in Int
  BY <1>1, MatchTyped
<1> QED
  BY <1>1, <1>2 DEF FinishMatch, nodeStats, structure, Idle

\* A new sample; Relative(k) is NaN when the graph is empty.
LEMMA SampleIs ==
    ASSUME NEW c, NEW x
    PROVE  AddSample(c, x).total = IF NaN \in {c.total, x} THEN NaN ELSE c.total + x
BY DEF AddSample

LEMMA NaNStep ==
    ASSUME Setup, WalkInv, NaNExact, [DriverNext]_driverVars
    PROVE  NaNExact'
<1>1. CASE UNCHANGED <<matchStats, early>>
  BY <1>1 DEF NaNExact
<1>2. CASE Continue
  <2>1. TaskNext /\ early' = (early \/ (task.op = "match" /\ size = 0))
    BY <1>2 DEF Continue
  <2>2. CASE FinishMatch
    <3>1. /\ task.op = "match" /\ CountInv /\ task.match \in Int
          /\ matchStats'.total = IF NaN \in {matchStats.total, Relative(task.match)} THEN NaN
                                 ELSE matchStats.total + Relative(task.match)
      BY <2>2, FinishIs, SampleIs
    <3>2. CASE size = 0
      BY <2>1, <3>1, <3>2 DEF Relative, NaNExact
    <3>3. CASE size # 0
      <4>1. Relative(task.match) \in Int
        BY <3>1, <3>3, RelativeIs
      <4>2. NaN \notin Int
        BY DriverAssumption
      <4>3. matchStats.total \in Int => matchStats.total + Relative(task.match) \in Int
        BY <4>1
      <4> QED
        BY <2>1, <3>1, <3>3, <4>1, <4>2, <4>3 DEF NaNExact
    <3> QED
      BY <3>2, <3>3
  <2>3. CASE task.op = "match" /\ ~FinishMatch
    <3>1. matchStats' = matchStats
      BY <2>1, <2>3, TaskNumbers, PopIs DEF numbers
    <3>2. size # 0
      <4>1. CountInv /\ task.cands # {} /\ Stacked \subseteq nodes
        BY <2>1, <2>3 DEF TaskNext, PopMatched, PopCandidate, PrepareStats, ComputeStats, ClearNext,
              DeleteSelf, Deleted, WalkInv, MatchPart, GraphPart, Deleting
      <4>2. PICK n : n \in nodes
        BY <4>1 DEF Stacked
      <4>3. IsFiniteSet(Live) /\ size = Cardinality(Live)
        BY <4>1, GraphFacts, ClassesFinite DEF CountsExact
      <4>4. size = 0 => Live = {}
        BY <4>3, FS_EmptySet
      <4> QED
        BY <4>1, <4>2, <4>4, NothingLive
    <3> QED
      BY <2>1, <2>3, <3>1, <3>2 DEF NaNExact
  <2>4. CASE task.op # "match"
    <3>1. matchStats' = matchStats
      BY <2>1, <2>4, TaskNumbers, PopIs, FinishIs DEF numbers
    <3>2. early' <=> early
      BY <2>1, <2>4
    <3> QED
      BY <3>1, <3>2 DEF NaNExact
  <2> QED
    BY <2>2, <2>3, <2>4
<1>3. CASE ~Continue
  <2>1. UNCHANGED <<matchStats, early>>
    BY <1>3 DEF DriverNext, driverVars, history, graphState, walkVars, Build, SearchGraph, MatchGraph,
         RemoveFromGraph, Stats, DeleteGraph, NewPreFilter, Fill, MatchPreFilter, EmptyPreFilter,
         AnyOperation, EndPhase, Exit, AddMarked, RemoveMarked, BeginMatch, StartStats, BeginDelete
  <2> QED
    BY <1>1, <2>1
<1> QED
  BY <1>2, <1>3

-----------------------------------------------------------------------------
(* The two tables of means, in main.                                       *)

\* What each node adds to the matches: its hits, for each of its subscriptions.
Weighted == [n \in Sub |-> count[n] * hits[n]]

\* What the publication under way has counted and not yet added to the samples.
UnderWay(k) == IF task.op = "match" THEN k ELSE 0

\* The samples of the publications are the sums over the nodes.
SumsMeet ==
    /\ size \in Int /\ matchStats.total \in Int /\ testStats.total \in Int
    /\ matchStats.total * size + UnderWay(task.match) * Unit = SumOf(Weighted, nodes) * Unit
    /\ testStats.total * size + UnderWay(task.test) * Unit = SumOf(tests, nodes) * Unit

\* So are the counters of stats.
StatsSummed ==
    /\ stats.matches.samples = size /\ stats.tests.samples = size
    /\ stats.matches.total = SumOf(Weighted, nodes)
    /\ stats.tests.total = SumOf(tests, nodes)

NoneYet == [n \in Sub |-> 0]

MeansPlace ==
    /\ hits \in [Sub -> Nat] /\ tests \in [Sub -> Nat]
    /\ Now = "build" => /\ hits = NoneYet /\ tests = NoneYet
                        /\ matchStats.total = 0 /\ testStats.total = 0
    /\ task.op = "match" => task.test \in Nat /\ stats = NoStats
    /\ size # 0 => SumsMeet
    /\ stats # NoStats /\ size # 0 /\ pubs > 0 => StatsSummed

MeansInv == NaNExact /\ (options.does = "main" => MeansPlace)

\* They are about numbers that most steps leave alone.
LEMMA MeansStay ==
    ASSUME MeansPlace, Now' = "build" => Now = "build",
           UNCHANGED <<nodes, count, size, tests, hits, testStats, matchStats>>,
           stats' = NoStats \/ UNCHANGED <<stats, pubs>>,
           \/ UNCHANGED <<task, stats>>
           \/ task.op # "match" /\ task'.op # "match"
    PROVE  MeansPlace'
<1>1. SumOf(Weighted, nodes)' = SumOf(Weighted, nodes) /\ SumOf(tests, nodes)' = SumOf(tests, nodes)
  BY DEF Weighted
<1>2. /\ UnderWay(task.match)' = UnderWay(task.match)
      /\ UnderWay(task.test)' = UnderWay(task.test)
  BY DEF UnderWay
<1>3. size' # 0 => SumsMeet'
  BY <1>1, <1>2 DEF MeansPlace, SumsMeet
<1>4. stats' # NoStats /\ size' # 0 /\ pubs' > 0 => StatsSummed'
  BY <1>1 DEF MeansPlace, StatsSummed
<1> QED
  BY <1>3, <1>4 DEF MeansPlace, NoneYet

\* As long as nothing is published, there is nothing to sum.
LEMMA BuildMeans ==
    ASSUME Running, SameProgram, DoBuild, MeansPlace
    PROVE  MeansPlace'
<1>1. /\ Now = "build" /\ Now' = "build" /\ task' = Idle /\ stats' = NoStats
      /\ UNCHANGED <<tests, hits, testStats, matchStats>>
      /\ Subs[at + 1] \in Sub /\ (AddDuplicate(Subs[at + 1]) \/ AddNode(Subs[at + 1]))
  BY DEF DoBuild, Moved, NextSub, AddMarked, nodeStats
<1>2. CountInv /\ [Next]_vars
  BY <1>1, GraphThere DEF Next, RouterNext
<1>3. CountInv'
  BY <1>2, CountStep
<1>4. nodes' \subseteq Sub /\ count' \in [Sub -> Int] /\ size' \in Int
  BY <1>3 DEF CountInv, ShapeInv, TypeInv, TypeOK
<1>5. task'.op # "match"
  BY <1>1 DEF Idle
<1>6. /\ hits' = NoneYet /\ tests' = NoneYet /\ matchStats'.total = 0 /\ testStats'.total = 0
  BY <1>1 DEF MeansPlace
<1>7. SumsMeet'
  <2>1. IsFiniteSet(nodes') /\ \A n \in nodes' : Weighted'[n] = 0 /\ tests'[n] = 0
    BY <1>4, <1>6, GraphAssumption, FS_Subset DEF Weighted, NoneYet
  <2>2. SumOf(Weighted', nodes') = 0 /\ SumOf(tests', nodes') = 0
    BY <2>1, SumOfZeros
  <2>3. PICK k \in Int : k = size'
    BY <1>4
  <2>4. Unit \in Int /\ 0 * k = 0
    BY WalksAssumption
  <2>5. UnderWay(task.match)' = 0 /\ UnderWay(task.test)' = 0
    BY <1>5 DEF UnderWay
  <2>6. 0 * k = 0 /\ 0 * Unit = 0 /\ 0 + 0 = 0
    BY <2>4
  <2> QED
    BY <1>6, <2>2, <2>3, <2>5, <2>6 DEF SumsMeet
<1> QED
  BY <1>1, <1>5, <1>6, <1>7 DEF MeansPlace

LEMMA BeginMeans ==
    ASSUME Running, SameProgram, DoMatch, MeansPlace
    PROVE  MeansPlace'
<1>1. /\ Now = "match" /\ Now' = Now /\ task = Idle /\ stats' = NoStats
      /\ task'.op = "match" /\ task'.match = 0 /\ task'.test = 0
      /\ UNCHANGED <<nodes, count, size, tests, hits, testStats, matchStats>>
  BY DEF DoMatch, Moved, BeginMatch, nodeStats, vars, structure
<1>2. SumOf(Weighted, nodes)' = SumOf(Weighted, nodes) /\ SumOf(tests, nodes)' = SumOf(tests, nodes)
  BY <1>1 DEF Weighted
<1>3. UnderWay(task.match) = 0 /\ UnderWay(task.test) = 0
  BY <1>1 DEF UnderWay, Idle
<1>4. UnderWay(task.match)' = 0 /\ UnderWay(task.test)' = 0
  BY <1>1 DEF UnderWay
<1>5. size' # 0 => SumsMeet'
  BY <1>1, <1>2, <1>3, <1>4 DEF MeansPlace, SumsMeet
<1> QED
  BY <1>1, <1>5 DEF MeansPlace

\* One more node adds as much to the sums as to what is under way.
LEMMA PopMeans ==
    ASSUME WalkInv, CountInv, PopCandidate, Now' = Now, Now # "build", MeansPlace
    PROVE  MeansPlace'
<1>1. /\ task.op = "match" /\ task'.op = "match" /\ task'.test = task.test + 1
      /\ UNCHANGED <<nodes, count, size, pubs, testStats, matchStats, stats>>
  BY PopIs DEF vars, structure
<1>2. PICK n \in nodes :
         /\ tests' = [tests EXCEPT ![n] = @ + 1]
         /\ \/ hits' = [hits EXCEPT ![n] = @ + 1] /\ task'.match = task.match + count[n]
            \/ hits' = hits /\ task'.match = task.match
  BY PopIs
<1>3. /\ IsFiniteSet(nodes) /\ nodes \subseteq Sub /\ n \in Sub /\ count[n] \in Int
      /\ count \in [Sub -> Int] /\ size \in Int
  BY <1>2, CountsFill DEF CountInv, ShapeInv, TypeInv, TypeOK
<1>4. /\ hits \in [Sub -> Nat] /\ tests \in [Sub -> Nat] /\ task.test \in Nat /\ stats = NoStats
      /\ (size # 0 => SumsMeet)
  BY <1>1 DEF MeansPlace
<1>5. /\ hits' \in [Sub -> Nat] /\ tests' \in [Sub -> Nat] /\ task'.test \in Nat
  BY <1>1, <1>2, <1>3, <1>4
<1>6. SumOf(tests', nodes) = SumOf(tests, nodes) + 1
  <2>1. PICK k \in Int : k = 1
    OBVIOUS
  <2>2. \A x \in nodes : tests[x] \in Int /\ tests'[x] = IF x = n THEN tests[x] + k ELSE tests[x]
    BY <1>2, <1>3, <1>4, <2>1
  <2>3. SumOf(tests', nodes) = SumOf(tests, nodes) + k
    BY <1>3, <2>2, SumGrows
  <2> QED
    BY <2>1, <2>3
<1>7. PICK k \in Int : /\ SumOf(Weighted', nodes) = SumOf(Weighted, nodes) + k
                       /\ task'.match = task.match + k
  <2>1. \A x \in nodes : Weighted[x] = count[x] * hits[x] /\ Weighted[x] \in Int
    BY <1>3, <1>4 DEF Weighted
  <2>2. \A x \in nodes : Weighted'[x] = count[x] * hits'[x]
    BY <1>1, <1>3 DEF Weighted
  <2>3. CASE hits' = [hits EXCEPT ![n] = @ + 1] /\ task'.match = task.match + count[n]
    <3>1. count[n] * (hits[n] + 1) = count[n] * hits[n] + count[n]
      BY <1>3, <1>4
    <3>2. \A x \in nodes : Weighted'[x] = IF x = n THEN Weighted[x] + count[n] ELSE Weighted[x]
      <4>1. hits'[n] = hits[n] + 1 /\ \A x \in nodes \ {n} : hits'[x] = hits[x]
        BY <1>3, <1>4, <2>3
      <4>2. Weighted'[n] = Weighted[n] + count[n]
        BY <1>2, <2>1, <2>2, <3>1, <4>1
      <4>3. \A x \in nodes \ {n} : Weighted'[x] = Weighted[x]
        BY <2>1, <2>2, <4>1
      <4> QED
        BY <4>2, <4>3
    <3>3. SumOf(Weighted', nodes) = SumOf(Weighted, nodes) + count[n]
      BY <1>3, <2>1, <3>2, SumGrows
    <3> QED
      BY <1>3, <2>3, <3>3
  <2>4. CASE hits' = hits /\ task'.match = task.match
    <3>1. SumOf(Weighted', nodes) = SumOf(Weighted, nodes)
      BY <1>3, <2>1, <2>2, <2>4, SumSame
    <3>2. SumOf(Weighted, nodes) \in Int /\ task.match \in Int
      BY <1>1, <1>3, <2>1, SumTyped, MatchTyped
    <3>3. SumOf(Weighted, nodes) + 0 = SumOf(Weighted, nodes) /\ task.match + 0 = task.match /\ 0 \in Int
      BY <3>2
    <3> QED
      BY <2>4, <3>1, <3>3
  <2> QED
    BY <1>2, <2>3, <2>4
<1>8. size' # 0 => SumsMeet'
  <2> SUFFICES ASSUME size # 0
               PROVE  SumsMeet'
    BY <1>1
  <2> DEFINE m == matchStats.total
             t == testStats.total
             W == SumOf(Weighted, nodes)
             T == SumOf(tests, nodes)
  <2>1. /\ size \in Int /\ m \in Int /\ t \in Int
        /\ m * size + task.match * Unit = W * Unit /\ t * size + task.test * Unit = T * Unit
    BY <1>1, <1>4 DEF SumsMeet, UnderWay
  <2>2. W \in Int /\ T \in Int
    <3>1. \A x \in nodes : Weighted[x] \in Int /\ tests[x] \in Int
      BY <1>3, <1>4 DEF Weighted
    <3> QED
      BY <1>3, <3>1, SumTyped
  <2>3. task.match \in Int /\ Unit \in Int
    BY <1>1, MatchTyped, WalksAssumption
  <2> HIDE DEF m, t, W, T
  <2>4. /\ (task.match + k) * Unit = task.match * Unit + k * Unit
        /\ (task.test + 1) * Unit = task.test * Unit + Unit
        /\ (W + k) * Unit = W * Unit + k * Unit /\ (T + 1) * Unit = T * Unit + Unit
    BY <1>4, <2>2, <2>3
  <2>5. /\ m * size \in Int /\ t * size \in Int /\ task.match * Unit \in Int /\ k * Unit \in Int
        /\ task.test * Unit \in Int
    BY <1>3, <1>4, <2>1, <2>3
  <2>6. /\ m * size + (task.match + k) * Unit = (W + k) * Unit
        /\ t * size + (task.test + 1) * Unit = (T + 1) * Unit
    BY <2>1, <2>3, <2>4, <2>5
  <2>7. /\ matchStats'.total = m /\ testStats'.total = t /\ size' = size
        /\ UnderWay(task.match)' = task.match + k /\ UnderWay(task.test)' = task.test + 1
        /\ SumOf(Weighted', nodes') = W + k /\ SumOf(tests', nodes') = T + 1
    BY <1>1, <1>6, <1>7 DEF UnderWay, m, t, W, T
  <2> QED
    BY <2>1, <2>6, <2>7 DEF SumsMeet
<1> QED
  BY <1>1, <1>4, <1>5, <1>8 DEF MeansPlace

\* The end of a publication makes what was under way a sample.
LEMMA FinishMeans ==
    ASSUME WalkInv, FinishMatch, Now' = Now, Now # "build", MeansPlace
    PROVE  MeansPlace'
<1>1. /\ task.op = "match" /\ task'.op = "idle" /\ CountInv /\ task.match \in Int
      /\ testStats'.total = AddSample(testStats, Relative(task.test)).total
      /\ matchStats'.total = AddSample(matchStats, Relative(task.match)).total
      /\ UNCHANGED <<nodes, count, size, pubs, tests, hits, stats>>
  BY FinishIs
<1>2. /\ hits \in [Sub -> Nat] /\ tests \in [Sub -> Nat] /\ task.test \in Int /\ stats = NoStats
      /\ (size # 0 => SumsMeet)
  BY <1>1 DEF MeansPlace
<1>3. SumOf(Weighted, nodes)' = SumOf(Weighted, nodes) /\ SumOf(tests, nodes)' = SumOf(tests, nodes)
  BY <1>1 DEF Weighted
<1>4. ASSUME size # 0
      PROVE  SumsMeet'
  <2> DEFINE m == matchStats.total
             t == testStats.total
             W == SumOf(Weighted, nodes)
             T == SumOf(tests, nodes)
             r == Relative(task.match)
             q == Relative(task.test)
  <2>1. /\ size \in Int /\ m \in Int /\ t \in Int
        /\ m * size + task.match * Unit = W * Unit /\ t * size + task.test * Unit = T * Unit
    BY <1>1, <1>2, <1>4 DEF SumsMeet, UnderWay
  <2>2. /\ r \in Int /\ q \in Int /\ size \in Nat \ {0}
        /\ r * size = task.match * Unit /\ q * size = task.test * Unit
    BY <1>1, <1>2, <1>4, RelativeIs
  <2>3. matchStats'.total = m + r /\ testStats'.total = t + q
    <3> HIDE DEF r, q
    <3>1. NaN \notin {m, r, t, q}
      BY <2>1, <2>2, DriverAssumption
    <3>2. /\ AddSample(matchStats, r).total = IF NaN \in {m, r} THEN NaN ELSE m + r
          /\ AddSample(testStats, q).total = IF NaN \in {t, q} THEN NaN ELSE t + q
      BY SampleIs
    <3> HIDE DEF m, t
    <3>3. AddSample(matchStats, r).total = m + r /\ AddSample(testStats, q).total = t + q
      BY <3>1, <3>2
    <3> QED
      BY <1>1, <3>3 DEF r, q
  <2> HIDE DEF m, t, W, T, r, q
  <2>4. (m + r) * size = m * size + r * size /\ (t + q) * size = t * size + q * size
    BY <2>1, <2>2
  <2>5. /\ m + r \in Int /\ t + q \in Int
        /\ (m + r) * size = W * Unit /\ (t + q) * size = T * Unit
    BY <2>1, <2>2, <2>4
  <2>6. /\ (m + r) * size + 0 = (m + r) * size /\ (t + q) * size + 0 = (t + q) * size
        /\ Unit \in Int /\ 0 * Unit = 0
    BY <2>2, <2>5, WalksAssumption
  <2>7. UnderWay(task.match)' = 0 /\ UnderWay(task.test)' = 0
    BY <1>1 DEF UnderWay
  <2>8. SumOf(Weighted, nodes)' = W /\ SumOf(tests, nodes)' = T /\ size' = size
    BY <1>1, <1>3 DEF W, T
  <2> QED
    BY <2>1, <2>3, <2>5, <2>6, <2>7, <2>8 DEF SumsMeet
<1> QED
  BY <1>1, <1>2, <1>4 DEF MeansPlace

\* What compute_stats adds for the nodes.
LEMMA ComputedIs ==
    ASSUME CountInv, hits \in [Sub -> Nat], tests \in [Sub -> Nat], pubs > 0,
           NEW matches, matches = Counter([n \in All |-> MatchSamples(n)]),
           NEW tested, tested = Counter([n \in All |-> TestSamples(n)])
    PROVE  /\ matches.samples = size /\ tested.samples = size
           /\ matches.total = SumOf(Weighted, nodes)
           /\ tested.total = SumOf(tests, nodes)
<1>1. /\ All = nodes /\ IsFiniteSet(nodes) /\ SumOf(count, nodes) = size
      /\ \A n \in nodes : n \in Sub /\ count[n] \in Nat \ {0}
  BY CountsFill, GraphFacts, LinksFacts
<1>2. \A n \in nodes : hits[n] \in Nat /\ tests[n] \in Nat /\ count[n] * hits[n] \in Int
  BY <1>1
<1> DEFINE g == [n \in All |-> MatchSamples(n)]
           h == [n \in All |-> TestSamples(n)]
<1>3. ASSUME NEW n \in nodes
      PROVE  /\ Len(g[n]) = count[n] /\ Len(h[n]) = count[n]
             /\ TotalOf(g[n]) = count[n] * hits[n] /\ TotalOf(h[n]) = tests[n]
  <2> DEFINE k == count[n]
             u == hits[n]
             v == tests[n]
  <2>1. g[n] = [i \in 1 .. k |-> u] /\ h[n] = [i \in 1 .. k |-> IF i = 1 THEN v ELSE 0]
    BY <1>1 DEF MatchSamples, TestSamples, PerPub
  <2>2. k \in Nat \ {0} /\ u \in Int /\ v \in Int
    BY <1>1, <1>2
  <2> HIDE DEF k, u, v, g, h
  <2>3. TotalOf(g[n]) = k * u
    BY <2>1, <2>2, TotalOfSame
  <2>4. TotalOf(h[n]) = v
    BY <2>1, <2>2, TotalOfFirst
  <2>5. Len(g[n]) = k /\ Len(h[n]) = k
    BY <2>1, <2>2
  <2> QED
    BY <2>3, <2>4, <2>5 DEF k, u, v
<1>4. DOMAIN g = nodes /\ DOMAIN h = nodes
  BY <1>1
<1> HIDE DEF g, h
<1>5. /\ matches.samples = SumOf([n \in nodes |-> Len(g[n])], nodes)
      /\ tested.samples = SumOf([n \in nodes |-> Len(h[n])], nodes)
      /\ matches.total = SumOf([n \in nodes |-> TotalOf(g[n])], nodes)
      /\ tested.total = SumOf([n \in nodes |-> TotalOf(h[n])], nodes)
  <2>1. matches = Counter(g) /\ tested = Counter(h)
    BY DEF g, h
  <2> QED
    BY <1>4, <2>1, CounterIs
<1>6. SumOf([n \in nodes |-> Len(g[n])], nodes) = size /\ SumOf([n \in nodes |-> Len(h[n])], nodes) = size
  <2> DEFINE a == [n \in nodes |-> Len(g[n])]
             b == [n \in nodes |-> Len(h[n])]
  <2>1. \A n \in nodes : count[n] \in Int /\ a[n] = count[n] /\ b[n] = count[n]
    BY <1>1, <1>3
  <2> HIDE DEF a, b
  <2>2. SumOf(a, nodes) = SumOf(count, nodes) /\ SumOf(b, nodes) = SumOf(count, nodes)
    BY <1>1, <2>1, SumSame
  <2> QED
    BY <1>1, <2>2 DEF a, b
<1>7. SumOf([n \in nodes |-> TotalOf(g[n])], nodes) = SumOf(Weighted, nodes)
  <2> DEFINE a == [n \in nodes |-> TotalOf(g[n])]
  <2>1. \A n \in nodes : Weighted[n] \in Int /\ a[n] = Weighted[n]
    BY <1>1, <1>2, <1>3 DEF Weighted
  <2> HIDE DEF a
  <2>2. SumOf(a, nodes) = SumOf(Weighted, nodes)
    BY <1>1, <2>1, SumSame
  <2> QED
    BY <2>2 DEF a
<1>8. SumOf([n \in nodes |-> TotalOf(h[n])], nodes) = SumOf(tests, nodes)
  <2> DEFINE a == [n \in nodes |-> TotalOf(h[n])]
  <2>1. \A n \in nodes : tests[n] \in Int /\ a[n] = tests[n]
    BY <1>2, <1>3
  <2> HIDE DEF a
  <2>2. SumOf(a, nodes) = SumOf(tests, nodes)
    BY <1>1, <2>1, SumSame
  <2> QED
    BY <2>2 DEF a
<1> QED
  BY <1>5, <1>6, <1>7, <1>8

LEMMA ComputeMeans ==
    ASSUME CountInv, ComputeStats, task.op = "stats", task'.op = "idle", UNCHANGED numbers,
           Now' = Now, Now # "build", MeansPlace
    PROVE  MeansPlace'
<1>1. /\ UNCHANGED <<nodes, count, size, pubs, tests, hits, testStats, matchStats>>
      /\ hits \in [Sub -> Nat] /\ tests \in [Sub -> Nat] /\ (size # 0 => SumsMeet)
  BY DEF numbers, MeansPlace
<1>2. SumOf(Weighted, nodes)' = SumOf(Weighted, nodes) /\ SumOf(tests, nodes)' = SumOf(tests, nodes)
  BY <1>1 DEF Weighted
<1>3. UnderWay(task.match) = 0 /\ UnderWay(task.test) = 0
      /\ UnderWay(task.match)' = 0 /\ UnderWay(task.test)' = 0
  BY DEF UnderWay
<1>4. size' # 0 => SumsMeet'
  BY <1>1, <1>2, <1>3 DEF SumsMeet
<1>5. ASSUME pubs > 0
      PROVE  StatsSummed'
  <2>1. /\ stats'.matches = Counter([n \in All |-> MatchSamples(n)])
        /\ stats'.tests = Counter([n \in All |-> TestSamples(n)])
    BY DEF ComputeStats
  <2>2. /\ stats'.matches.samples = size /\ stats'.tests.samples = size
        /\ stats'.matches.total = SumOf(Weighted, nodes)
        /\ stats'.tests.total = SumOf(tests, nodes)
    BY <1>1, <1>5, <2>1, ComputedIs
  <2> QED
    BY <1>1, <1>2, <2>2 DEF StatsSummed
<1> QED
  BY <1>1, <1>4, <1>5 DEF MeansPlace

\* Without a turn that changes them, the numbers and what is under way stay.
LEMMA OtherMeans ==
    ASSUME Running, SameProgram, ReadStep, options.does = "main", MeansPlace,
           ~DoBuild, ~DoMatch, ~DoContinue
    PROVE  MeansPlace'
<1>1. ~DoSearch /\ ~DoRemove /\ ~DoEmpty
  BY RunningIs DEF DoSearch, DoRemove, DoEmpty, Moved
<1>2. CASE DoFilter \/ DoFill \/ DoPublish \/ DoNothing \/ DoEnd
  <2>1. UNCHANGED graphState /\ (Now' = "build" => Now = "build")
    BY <1>2 DEF DoFilter, DoFill, DoPublish, DoNothing, DoEnd, Moved, After
  <2>2. UNCHANGED <<nodes, count, size, tests, hits, testStats, matchStats, stats, pubs, task>>
    BY <2>1 DEF graphState, vars, structure, walkVars, nodeStats
  <2> QED
    BY <2>1, <2>2, MeansStay
<1>3. CASE DoStats
  <2>1. /\ Now' = Now /\ task = Idle /\ task'.op = "stats" /\ stats' = NoStats
        /\ UNCHANGED <<nodes, count, size, tests, hits, testStats, matchStats>>
    BY <1>3 DEF DoStats, Moved, StartStats, vars, structure
  <2>2. task.op # "match" /\ task'.op # "match"
    BY <2>1 DEF Idle
  <2> QED
    BY <2>1, <2>2, MeansStay
<1>4. CASE DoDelete
  <2>1. /\ Now' = Now /\ task = Idle /\ task'.op = "delete"
        /\ UNCHANGED <<nodes, count, size, tests, hits, testStats, matchStats, stats, pubs>>
    BY <1>4 DEF DoDelete, Moved, BeginDelete, vars, structure, nodeStats
  <2>2. task.op # "match" /\ task'.op # "match"
    BY <2>1 DEF Idle
  <2> QED
    BY <2>1, <2>2, MeansStay
<1> QED
  BY <1>1, <1>2, <1>3, <1>4 DEF ReadStep

LEMMA ContinueMeans ==
    ASSUME Running, SameProgram, DoContinue, options.does = "main", MeansPlace
    PROVE  MeansPlace'
<1>1. /\ TaskNext /\ Now' = Now /\ WalkInv /\ TaskPlace /\ options.does = "main"
  BY RunningIs DEF DoContinue, Continue
<1>2. Now # "build" /\ (task.op # "delete" => CountInv)
  BY <1>1, TaskSteps DEF TaskPlace, WalkInv, GraphPart, Deleting
<1>3. CASE PopCandidate
  BY <1>1, <1>2, <1>3, PopMeans, PopIs
<1>4. CASE FinishMatch
  BY <1>1, <1>2, <1>4, FinishMeans
<1>5. CASE ComputeStats /\ task.op = "stats" /\ task'.op = "idle" /\ UNCHANGED numbers
  BY <1>1, <1>2, <1>5, ComputeMeans
<1>6. CASE PopMatched /\ task' = [task EXCEPT !.cands = task'.cands] /\ UNCHANGED <<numbers, stats>>
  <2>1. /\ UNCHANGED <<nodes, count, size, tests, hits, testStats, matchStats, stats, pubs>>
        /\ task.op = "match" /\ stats = NoStats /\ task.test \in Nat
    BY <1>6 DEF numbers, PopMatched, MeansPlace
  <2>2. task = [op |-> "match", event |-> task.event, cands |-> task.cands,
                test |-> task.test, match |-> task.match, subs |-> task.subs]
    BY <1>1, <2>1 DEF WalkInv, MatchPart
  <2>3. task'.op = task.op /\ task'.match = task.match /\ task'.test = task.test
    BY <1>6, <2>2
  <2>4. SumOf(Weighted, nodes)' = SumOf(Weighted, nodes) /\ SumOf(tests, nodes)' = SumOf(tests, nodes)
    BY <2>1 DEF Weighted
  <2>5. size' # 0 => SumsMeet'
    BY <2>1, <2>3, <2>4 DEF MeansPlace, SumsMeet, UnderWay
  <2> QED
    BY <1>1, <1>2, <2>1, <2>3, <2>5 DEF MeansPlace
<1>7. CASE task.op # "match" /\ task'.op # "match" /\ UNCHANGED <<numbers, stats>>
  <2>1. UNCHANGED <<nodes, count, size, tests, hits, testStats, matchStats, stats, pubs>>
    BY <1>7 DEF numbers
  <2> QED
    BY <1>1, <1>7, <2>1, MeansStay
<1> QED
  BY <1>1, <1>3, <1>4, <1>5, <1>6, <1>7, TaskNumbers

LEMMA MeansInitial == DriverInit => MeansInv
<1> SUFFICES ASSUME DriverInit
             PROVE  MeansInv
  OBVIOUS
<1>1. /\ hits = NoneYet /\ tests = NoneYet /\ matchStats.total = 0 /\ testStats.total = 0
      /\ task = Idle /\ stats = NoStats /\ size = 0 /\ early = FALSE
  BY DEF DriverInit, WalksInit, Init, NoSamples, NoneYet
<1>2. NaNExact
  BY <1>1, DriverAssumption DEF NaNExact
<1>3. MeansPlace
  BY <1>1 DEF MeansPlace, NoneYet, Idle
<1> QED
  BY <1>2, <1>3 DEF MeansInv

LEMMA MeansStep == Setup /\ WalkInv /\ Places /\ MeansInv /\ [DriverNext]_driverVars => MeansInv'
<1> SUFFICES ASSUME Setup, WalkInv, Places, MeansInv, [DriverNext]_driverVars
             PROVE  MeansInv'
  OBVIOUS
<1>1. NaNExact'
  BY NaNStep DEF MeansInv
<1>2. ASSUME options'.does = "main"
      PROVE  MeansPlace'
  <2>1. options.does = "main" /\ Reads /\ MeansPlace
    BY <1>2, SetupStays DEF Reads, MeansInv
  <2>2. Running /\ SameProgram /\ ReadStep
    BY <2>1, ReadSteps DEF Running
  <2>3. CASE DoBuild
    BY <2>1, <2>2, <2>3, BuildMeans
  <2>4. CASE DoMatch
    BY <2>1, <2>2, <2>4, BeginMeans
  <2>5. CASE DoContinue
    BY <2>1, <2>2, <2>5, ContinueMeans
  <2> QED
    BY <2>1, <2>2, <2>3, <2>4, <2>5, OtherMeans
<1> QED
  BY <1>1, <1>2 DEF MeansInv

\* The two tables of means that main prints are two ways to sum the same: the
\* matches (and tests) of each publication relative to the subscriptions, and of
\* each subscription relative to the publications.  Nothing but a publication
\* before the first subscription makes a mean NaN, which it then stays.
THEOREM MeansAlwaysAgree == DriverSpec => []MeansAgree
<1>1. Setup /\ WalkInv /\ MeansInv => MeansAgree
  <2> SUFFICES ASSUME MeansInv, options.does = "main", stats # NoStats, pubs > 0, size > 0
               PROVE  /\ stats.matches.samples = size /\ stats.tests.samples = size
                      /\ matchStats.total * size = stats.matches.total * Unit
                      /\ testStats.total * size = stats.tests.total * Unit
    BY DEF MeansAgree, MeansInv, NaNExact
  <2>1. /\ SumsMeet /\ StatsSummed /\ task.op # "match"
    BY DEF MeansInv, MeansPlace
  <2> DEFINE m == matchStats.total
             t == testStats.total
             W == SumOf(Weighted, nodes)
             T == SumOf(tests, nodes)
  <2>2. /\ size \in Int /\ m \in Int /\ t \in Int
        /\ m * size + 0 * Unit = W * Unit /\ t * size + 0 * Unit = T * Unit
    BY <2>1 DEF SumsMeet, UnderWay
  <2>3. stats.matches.total = W /\ stats.tests.total = T
    BY <2>1 DEF StatsSummed
  <2> HIDE DEF m, t, W, T
  <2>4. Unit \in Int /\ m * size \in Int /\ t * size \in Int
    BY <2>2, WalksAssumption
  <2>5. m * size + 0 * Unit = m * size /\ t * size + 0 * Unit = t * size
    BY <2>4
  <2> QED
    BY <2>1, <2>2, <2>3, <2>5 DEF StatsSummed, m, t
<1>2. DriverSpec => []MeansInv
  BY MeansInitial, MeansStep, SetupAlways, WalkInDriver, PlacesAlways, PTL DEF DriverSpec
<1> QED
  BY <1>1, <1>2, SetupAlways, WalkInDriver, PTL
===============================================================================
