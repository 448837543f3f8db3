------------------------------ MODULE PreFilter ------------------------------
(***************************************************************************)
(* The bit prefilter of src/router/matching/prefilter.cc, on top of an     *)
(* optional containment graph (module Graph).                              *)
(*                                                                         *)
(* The values that a subscription wants equal to something are hashed to   *)
(* bits; the subscription is listed under each of its bits, or in the      *)
(* default list when it has none.  A publication walks the lists of its    *)
(* own bits and the default list, and tests what it has not yet marked.    *)
(* Marks are indexed by id_, the position of a subscription when it was    *)
(* added.  Statistics are left out; the counter `match` of a publication   *)
(* grows with what is pushed to `matches` and is not kept beside it.       *)
(***************************************************************************)
EXTENDS Graph, SequencesExt

CONSTANTS
    NbBits,     \* nb_bits_
    NbHashes,   \* nb_hashes_
    Value,      \* the values that are hashed
    EqualValues,\* of each subscription: set of pairs <<predicate, value>>, its EQ predicates
    EventValues,\* of each event: the values of its attributes
    NoVariant   \* no prefilter has been made yet

AllNoContainment == 0
OneNoContainment == 1
AllContainmentN == 2
AllContainmentNP == 3

Bits == 0 .. NbBits - 1
Default == NbBits

ASSUME PreFilterAssumption ==
    /\ NbBits \in Nat /\ NbHashes \in 1 .. NbBits
    /\ \A s \in Sub : \A p \in EqualValues[s] : p[2] \in Value
    /\ \A e \in Event : EventValues[e] \subseteq Value
    /\ NoVariant \notin AllNoContainment .. AllContainmentNP

\* A predicate with EQ is met by an attribute that has its value.
ASSUME EqualityMeansSame ==
    \A s \in Sub, e \in Event : <<s, e>> \in Matching =>
        \A p \in EqualValues[s] : p[2] \in EventValues[e]

VARIABLES
    variant,    \* variant_
    hash,       \* the bits of each value: hash_n
    subs,       \* subs_
    id,         \* id_ of each subscription
    bloom,      \* bf_ of each subscription
    lists,      \* subs_bf_: a list per bit, and the default list
    duplicates, \* duplicates_ of each subscription
    result      \* what the last match pushed: how often each subscription

graphVars == vars
filterVars == <<variant, hash, subs, id, bloom, lists, duplicates, result>>
preVars == <<graphVars, filterVars>>

NoResult == [event |-> {}, pushed |-> [s \in Sub |-> 0]]

\* graph_ != NULL.
HasGraph == nodes # {}
Stored == ToSet(subs)
UsesContainment == variant \in {AllContainmentN, AllContainmentNP}

-----------------------------------------------------------------------------
PreFilterInit ==
    /\ Init
    /\ variant = NoVariant
    /\ hash = [v \in Value |-> {}]
    /\ subs = <<>>
    /\ id = [s \in Sub |-> 0]
    /\ bloom = [s \in Sub |-> {}]
    /\ lists = [b \in Bits \cup {Default} |-> <<>>]
    /\ duplicates = [s \in Sub |-> {}]
    /\ result = NoResult

\* The graph, if there is one, is filled before the prefilter is made.
FillGraph ==
    /\ variant = NoVariant
    /\ \E s \in Sub : AddDuplicate(s) \/ AddNode(s)
    /\ UNCHANGED filterVars

\* A prefilter on the graph, or without one.  (NbHashes bits are drawn for each
\* value, some of them perhaps the same.)
MakePreFilter ==
    /\ variant = NoVariant
    /\ variant' \in AllNoContainment .. AllContainmentNP
    /\ HasGraph \/ variant' \notin {AllContainmentN, AllContainmentNP}
    /\ hash' \in [Value -> {B \in SUBSET Bits : Cardinality(B) \in 1 .. NbHashes}]
    /\ UNCHANGED <<graphVars, subs, id, bloom, lists, duplicates, result>>

-----------------------------------------------------------------------------
\* BloomFilter::insert of every value, or insert_1: one bit, chosen at random.
Blooms(s) ==
    IF variant = OneNoContainment
    THEN {{one[p] : p \in EqualValues[s]} :
            one \in {c \in [EqualValues[s] -> Bits] :
                        \A p \in EqualValues[s] : c[p] \in hash[p[2]]}}
    ELSE {UNION {hash[p[2]] : p \in EqualValues[s]}}

\* (Slip: the new subscription goes behind the first one it covers.)
ListedBehind(list, s) ==
    LET i == SelectInSeq(list, LAMBDA t : Covers(s, t))
    IN IF UsesContainment /\ i # 0 THEN InsertAt(list, i + 1, s) ELSE Append(list, s)

\* With containment, a subscription goes before the first one it covers.
Listed(list, s) ==
    LET i == SelectInSeq(list, LAMBDA t : Covers(s, t))
    IN IF UsesContainment /\ i # 0 THEN InsertAt(list, i, s) ELSE Append(list, s)

\* Prefilter and graph are filled in the same order: the equivalents that came
\* to the graph before s are in the prefilter already.
InOrder(s) ==
    HasGraph =>
        LET class == <<attr[s]>> \o overriden[attr[s]]
        IN \A i, j \in DOMAIN class : i < j /\ class[j] = s => class[i] \in Stored

\* PreFilter::add
AddToFilter(s) ==
    /\ variant # NoVariant
    /\ s \notin Stored /\ (HasGraph => attr[s] # NoNode) /\ InOrder(s)
    /\ subs' = Append(subs, s)
    /\ id' = [id EXCEPT ![s] = Len(subs)]
    /\ \E bf \in Blooms(s) :
          /\ bloom' = [bloom EXCEPT ![s] = bf]
          /\ lists' = [b \in Bits \cup {Default} |->
                IF b \in bf \/ (b = Default /\ bf = {}) THEN Listed(lists[b], s) ELSE lists[b]]
    /\ duplicates' = [p \in Sub |->
          duplicates[p] \cup {x \in {s} : HasGraph /\ attr[s] = p /\ p # s}]
    /\ result' = NoResult
    /\ UNCHANGED <<graphVars, variant, hash>>

\* (Slip: only the list of the first bit is looked at.)
RemoveFromFirstList(s) ==
    /\ s \in Stored /\ ~HasGraph
    /\ LET first == Min(bloom[s] \cup {Default})
       IN lists' = [lists EXCEPT ![first] = RemoveFirst(@, s)]
    /\ subs' = RemoveFirst(subs, s)
    /\ result' = NoResult
    /\ UNCHANGED <<graphVars, variant, hash, id, bloom, duplicates>>

\* PreFilter::remove.  std::remove takes out whatever equals s, which is in a
\* list once at most (FilterTypeOK).  (The caller has no graph; with one,
\* duplicates_ would keep a pointer to what is deleted here.)
RemoveFromFilter(s) ==
    /\ s \in Stored /\ ~HasGraph
    /\ lists' = [b \in Bits \cup {Default} |-> RemoveFirst(lists[b], s)]
    /\ subs' = RemoveFirst(subs, s)
    /\ result' = NoResult
    /\ UNCHANGED <<graphVars, variant, hash, id, bloom, duplicates>>

-----------------------------------------------------------------------------
\* (Slip: containers and containees are followed through marked ones.)
UnmarkedOrNot(s, next, marks) == IF HasGraph THEN Reachable(next[attr[s]], next) ELSE {}

\* The nodes reached from s over the links `next` without passing a marked one.
Unmarked(s, next, marks) ==
    LET open == [n \in Sub |-> {m \in next[n] : id[m] \notin marks}]
    IN IF HasGraph THEN Reachable(open[attr[s]], open) ELSE {}

\* One entry of a list is visited: unless it is marked, or stands for nobody
\* (under a bit, a duplicate is left to its primary), it is tested.  Acceptance
\* goes to the containers and refusal to the containees, as far as the variant
\* does that.  What is accepted under a bit or through a containee counts for
\* its duplicates and marks them; in the default list it counts for itself.
Visit(e, bits, scan, s) ==
    LET forPrimary == bloom[s] # {} /\ HasGraph /\ attr[s] # s
        accepted == bloom[s] \subseteq bits /\ <<s, e>> \in Matching
        marks == scan.marks \cup {id[s]}
        above == IF accepted /\ variant = AllContainmentNP
                 THEN Unmarked(s, containers, marks) ELSE {}
        below == IF ~accepted /\ UsesContainment
                 THEN Unmarked(s, containees, marks) ELSE {}
        whole == above \cup {x \in {s} : accepted /\ bloom[s] # {}}
        alone == {x \in {s} : accepted /\ bloom[s] = {}}
    IN IF id[s] \in scan.marks \/ forPrimary
       THEN [scan EXCEPT !.marks = marks]
       ELSE [marks |-> marks \cup {id[t] : t \in above \cup below}
                             \cup {id[d] : d \in UNION {duplicates[t] : t \in whole}},
             pushed |-> [t \in Sub |-> scan.pushed[t] +
                          IF t \in alone THEN 1
                          ELSE IF t \notin whole THEN 0
                          ELSE IF HasGraph THEN count[attr[t]] ELSE 1]]

\* The entries of the lists of the bits, in order, and then the default list.
Walk(bits) == FlattenSeq([i \in 1 .. NbBits |-> IF i - 1 \in bits THEN lists[i - 1] ELSE <<>>])
              \o lists[Default]

\* PreFilter::match.  The array `matched` has one element per subscription: an
\* id beyond it reads whatever the memory holds.  A graph is walked as well, so
\* that what is in the graph has to be in the prefilter (main adds everything
\* before it matches anything).
FilterMatch(e) ==
    /\ variant # NoVariant
    /\ HasGraph => {s \in Sub : attr[s] # NoNode} \subseteq Stored
    /\ LET bits == UNION {hash[v] : v \in EventValues[e]}
           beyond == {id[s] : s \in Stored} \ (0 .. Len(subs) - 1)
       IN \E garbage \in SUBSET beyond :
             result' = [event |-> {e},
                        pushed |-> FoldLeft(LAMBDA scan, s : Visit(e, bits, scan, s),
                                            [marks |-> garbage, pushed |-> NoResult.pushed],
                                            Walk(bits)).pushed]
    /\ UNCHANGED <<graphVars, variant, hash, subs, id, bloom, lists, duplicates>>

PreFilterNext ==
    \/ FillGraph
    \/ MakePreFilter
    \/ \E s \in Sub : AddToFilter(s) \/ RemoveFromFilter(s)
    \/ \E e \in Event : FilterMatch(e)

PreFilterSpec == PreFilterInit /\ [][PreFilterNext]_preVars

-----------------------------------------------------------------------------
\* Every id_ indexes the array `matched`, and no two subscriptions share one.
IdsSound ==
    /\ \A s \in Stored : id[s] < Len(subs)
    /\ \A s, t \in Stored : id[s] = id[t] => s = t

\* The subscriptions that answer as one: those of a node, when there is a graph.
ClassOf(s) == IF HasGraph THEN {t \in Stored : attr[t] = attr[s]} ELSE {s}

\* A class whose primary is in the default list and whose others are not all
\* (0 <= x <= 0 is equivalent to x = 0, and sets no bit).
Mixed(s) == HasGraph /\ bloom[attr[s]] = {} /\ \E t \in ClassOf(s) : bloom[t] # {}

\* The state is well typed, and a stored subscription is listed once under each
\* of its bits, or once in the default list, and nowhere else.
FilterTypeOK ==
    /\ variant \in AllNoContainment .. AllContainmentNP \cup {NoVariant}
    /\ hash \in [Value -> SUBSET Bits]
    /\ IsInjective(subs) /\ Stored \subseteq Sub
    /\ id \in [Sub -> Nat]
    /\ bloom \in [Sub -> SUBSET Bits]
    /\ duplicates \in [Sub -> SUBSET Sub]
    /\ result.pushed \in [Sub -> Nat]
    /\ \A b \in DOMAIN lists :
          /\ IsInjective(lists[b])
          /\ ToSet(lists[b]) =
                {s \in Stored : b \in bloom[s] \/ (b = Default /\ bloom[s] = {})}

\* How often a class was pushed.
Pushed(class) == MapThenSumSet(LAMBDA s : result.pushed[s], class)

\* Whatever the hash function, whichever lists a subscription is in and however
\* it is reached, a publication pushes each stored subscription that matches
\* exactly once, a primary standing for its duplicates, and nothing else.  Two
\* conditions: removals have left the ids sound, and of a mixed class it is only
\* sure that it is found.
FilterExact ==
    IdsSound => \A e \in result.event, s \in Stored :
        LET class == ClassOf(s)
        IN IF <<s, e>> \notin Matching THEN Pushed(class) = 0
           ELSE IF Mixed(s) THEN Pushed(class) \in 1 .. Cardinality(class)
           ELSE Pushed(class) = Cardinality(class)

\* With containment every list has the containers before their containees (the
\* sorting that NOTES asks for), in whatever order subscriptions arrive: it is
\* enough to insert each one before the first one that it covers.
ContainersFirst ==
    UsesContainment =>
        \A b \in DOMAIN lists : \A i, j \in DOMAIN lists[b] :
            StrictlyCovers(lists[b][i], lists[b][j]) => i < j
=============================================================================
