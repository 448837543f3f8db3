# A TLA+ verification project for SCBR

SCBR is a content-based publish/subscribe router. Subscriptions are conjunctions
of predicates over named numbers, publications are assignments of numbers to
names; the router passes every publication to the owners of the subscriptions it
matches. Headers can be sealed, and are then matched inside an SGX enclave.

Contents: [inventory](#1-inventory) · [modules](#2-modules-and-how-they-correspond-to-the-code) ·
[runs](#3-runs-and-what-they-show) · [proofs](#4-proofs) · [findings](#5-findings) ·
[what is not modelled](#6-what-is-not-modelled) · [plan](#7-plan)

Paths below are relative to the repository's `src/`.

## 1. Inventory

| Component | State | Operations | Correct when |
|---|---|---|---|
| Subscription, Event (`router/matching/subscription.*`, `event.*`) | a multimap key → predicate; a map key → value | `add`, `matches`, `operator>=` and what derives from it | covering is sound with respect to matching, a preorder, and exact but for strict bounds |
| Containment graph (`router/matching/graph.*`) | nodes with containers and containees, roots, leaves, counts, `overriden_` | `add`, `remove`, `search`, `match`, neighbours | it is the Hasse diagram of covering, and answers as a plain set of subscriptions would |
| Its traversals and statistics (`graph.cc`, `smartcounter.hh`) | marks `last_`, the id `next_id_`, depths, tests and matches per node, running means | the loop of `match`, `stats`, the destructor | each visits a node once, whatever the order; depths are those of the graph as it is; nothing deleted is used |
| Bit prefilter (`router/matching/prefilter.*`) | one list per bit, a default list, ids, duplicates | `add`, `remove`, `match` in four variants | it counts every match once, whatever the hash collisions and the order of insertion |
| Matching program (`router/matching/main.cc`, `test()` of `cbr.cc`) | options, files, the phase it is in | build, match, statistics, prefilter, removal | its two engines and its two tables of means agree; its own test leaves nothing behind |
| Header (`user-library/src/scbr_api.cpp`, `message.cpp`, `router/matching/cbr.cc`, `CBR_Enclave_Filter.cpp`) | the data of a Publication and a Subscription | write, serialize, encrypt; `split`, `parse_sub`, `parse_pub`; deserialize | the engine and the receiver read what the application meant |
| Router (`router/forwarding/untrusted/scbr.cpp`, `router/glue/pubsubco.cpp`, `router/forwarding/trusted/CBR_Enclave_Filter.cpp`) | a graph for open and one for sealed subscriptions, `data_table_`, a ROUTER socket | one message at a time: subscribe, publish, forward | each notification has the right destination, hash and payload, and none is skipped |
| Client library (`user-library/src/scbr_api.cpp`, class `Matcher`) | two threads per `Matcher`, an inproc pipe, a DEALER socket, `callbacks_` | constructor, `send` ×3, `terminate`, polling loop | messages stay whole and ordered, callbacks are the right ones, `terminate` is clean |
| Producer and consumer samples (`client-samples`) | `recvd_sth`, a counter of quiet polls, sockets | announce, relay, publish, print | announced subscriptions are relayed, and the file is published whatever else comes in |

**Interactions.** The user's thread writes frames to an inproc PUSH/PULL pipe; the
polling thread relays them to a DEALER socket; the router's only thread reads them
from a ROUTER socket, three frames a message, and calls `pubsub_message`. An open
message is matched at once against `mgraph_`. A sealed one first leaves its payload
in `data_table_`, keyed by its header, and enters the enclave; the enclave calls back
`forward` with the matching identities, the header and the hashes of the matching
subscriptions, and `forward` sends hash and payload to each. The polling thread of
the destination looks the hash up in `callbacks_`, which the user's thread writes
without a lock. The samples use the sockets directly: a consumer announces its
subscription in an open publication to the producer, the producer seals it and sends it
in the consumer's name.

**What is hard here.** The graph's links after any sequence of insertions and
removals, in any order, with equivalent subscriptions sharing nodes; traversals that
trust marks of earlier ones; the two threads of a `Matcher`; queues that block on one side
(PUSH, DEALER) and drop on the other (ROUTER); the order in which a subscription, its
callback and the first matching publication take effect; numbers that become text and a
buffer of 512 bytes. `PROJECT.json` lists each hazard at its line.

## 2. Modules, and how they correspond to the code

```
Subscription ── Covering ── MCSubscription                  (predicates, covering)
     ▲              └────── CoveringProofs
     └─INSTANCE── Header ── MCHeader                        (headers as text)

SubscriptionStore <─implements─ Graph ── GraphProperties ── MCGraph (EXTENDS TestData)
                                  │          └── GraphProofs
                                  ├── PreFilter ── MCPreFilter
                                  │       └── PreFilterProofs (with GraphProofs)
                                  ├── Walks     (implements Graph step by step)
                                  └── PreFilter + Walks ── Driver ── MCDriver
                                                             └── DriverProofs (with PreFilterProofs)

Network ── Router ── MCRouter ── RouterProofs                (the router alone)
   │          └───── Relay ── MCRelay                       (the samples and the router)
   │                   └── RelayProofs
   ├────── Matcher ── Scbr (INSTANCE Router) ── MCScbr      (clients and router)
   │                    ├── ScbrProofs
   │                    └─implements─> PubSub
   └────── NetworkProofs (used by RouterProofs, RelayProofs and ScbrProofs)
```

**Subscription** has no state: `Matches` is `Subscription::matches`, `Covers` is
`operator>=`, with one operator per group of cases of its switch and `PinnedFrom`
for the rule "x <= a <= x is a = x". A subscription is a sequence of predicates per
key, since `equal_range` walks the predicates of a key in insertion order and the
rule depends on it. `CONTAINS` and `STARTS_WITH` have no case in either switch and no
text that produces them.

**Covering** builds subscriptions with `Subscription::add`, as `parse_sub` does, and
states what the graph needs of covering: properties of every pair or triple of
subscriptions that can be built. Values are ints (`common.hh:20`) between `MinValue` and
`MaxValue`.

**Graph** is `graph.cc`: `Add` splits into `AddDuplicate` and `AddNode`, `remove` into
`RemoveDuplicate` and `RemoveNode`, `match` is `Match`. Each is one action with all the
code does in the call. A node is named by its primary subscription (`sub_`, a reference
bound for the node's life). The vectors of nodes are sets: where the code takes the
first element that passes a test, as `search` does, the model takes any, so that what
holds does so for every order of the vectors. A traversal is the least set closed under
its step (`Reachable`), because a mark is set on a visited node and tested before it is
visited again; that the marks do that, and until when, is what Walks is about.
Covering and matching are constants, relations over the subscriptions; `MCGraph` computes
them with module `Subscription` from the subscriptions and events of the program's own
`test()` (**TestData**, with one subscription more), so that the instance is a real one. `Graph::remove` is called with a
subscription that is stored, which is how its only caller uses it.

**Walks** extends Graph with what it leaves out: `last_` and `next_id_` (an int of
`MaxInt`; a graph that starts with one of `UsedIds` has been used and emptied before), the
statistics of nodes, publications and graph. `BeginMatch` to `FinishMatch` pop one candidate
at a time, in any order; `StartStats`, `PrepareStats`, `ComputeStats` are `reset_stats`,
the recursive calls of `prepare_stats` and `compute_stats`; `BeginDelete` to `Deleted` are
the destructor and `Node::clear`. Between two operations nothing is under way
(`task = Idle`), since a graph has one thread. SmartCounter is exact arithmetic, with a NaN.

**PreFilter** extends `Graph`: `main` fills a graph (or not), makes a prefilter of one of
the four variants, adds the subscriptions in the same order and matches publications; the
test program adds, matches and removes without a graph. The hash function is a variable
that keeps its first value, any function from values to at most `NbHashes` bits. Lists are
sequences, since their order decides what is tested and what is inferred; `Visit` is the
body of both loops of `match`, which differ in what an entry stands for, and a fold over
`Walk` is one call. The array `matched` is the set of marked ids: ids beyond its length
read any value.

**Driver** composes both into the program: `Options` is the loop over the options and the
checks after it, `Script` the phases that follow from them, and a phase is a loop whose
turns are operations of Walks or PreFilter. Besides `main` and `test()`, a third script
calls the public operations of a graph in any order.

**SubscriptionStore** is what a graph promises: a set, and answers that are the members
that match. **GraphProperties** holds the properties of the graph, the two assumptions
on covering, and the refinement mapping (`live <- Live`, the subscriptions whose
`GRAPH_ATTR` is set; `answer <-` what `match` pushed).

**Header** follows a subscription and a publication from the calls of the library, through
the text of their headers, to the vectors of the engine's parsers and to what the receiver
reads of the copy in the payload. A header is a sequence of fields; a decimal is known by
its value in tenths, a text by its base64, and every field has a width in bytes, because the
buffer of the enclave and `MAX_HEADER_SIZE` count bytes. A cipher stands for its contents.
Empty fields matter (`split` drops them), and so do names with a space. A parser that reads
beyond its vector ends the behaviour (`stray`).

**Network** is ZeroMQ as this code relies on it: whole messages in order, a DEALER that
blocks without a peer or room, a ROUTER that drops. **Router** is the router's loop and
both of its matching paths, one message per step since it has one thread; its two graphs
are sets of subscriptions, which `GraphProofs!RouterImplementsStore` justifies. A
subscription stands for the hash of its header (the random initialization vector makes
headers distinct), a publication for its payload; `Header` lets two publications share a
header. The order of the notifications of one publication is any order.

**Relay** puts `producer.cpp` and `consumer.cpp` around the router. `PollQuiet` is one empty
poll, which counts only once something has come in (`recvd_sth`); `Publish` sends the whole
file without polling. A consumer announces its lines and then prints what comes in, and may
be interrupted at any time.

**Matcher** has, per client, the user's thread and the polling thread at the grain of
what the other can observe: a blocking send, the insertion in the map (begun and
ended, so that a lookup may fall in between), a frame taken from the pipe, a frame sent
on. The constructor has two steps, before and after `context_` exists (`ConstructContext`,
`Construct`), since the polling thread runs from the first member on. **Scbr** composes any number of Matchers with a Router. **PubSub** is what clients
may rely on: what is owed to a subscriber is handed over once or lost, and nothing else is.

Undefined behaviour is a choice: a polling thread that runs before the constructor has
initialized `context_` aborts the client; a lookup that races with an insertion may miss.

## 3. Runs, and what they show

| Run | Instance and bounds | Shows |
|---|---|---|
| `covering` | 3 subscriptions, 7 operators, the values 2, 3 and 5 of an int from 1 to 6, at most 2 predicates per key and 4 in all; names are symmetric | but for the pair rule covering is sound and a preorder; with one predicate per key it misses nothing but that `a >= 3` and `a > 2` are the same |
| `covering_pinned` | 2 subscriptions, ranges and equality | *violation*: covering is not sound (section 5) |
| `graph_router` | 8 subscriptions of `test()`, three pairs of them equivalent, 4 events; no removal, as in the router | implements the store: answers are exact |
| `graph_remove` | 6 subscriptions, two of them equivalent, in a diamond whose left side has another parent, 3 events, add and remove for ever, at most 2 overriden entries per node (`MaxOverriden`) | the Hasse diagram is kept; search, counters and number of matches are exact; `match` stays inside `overriden_`; answers are exact for subscriptions without equivalents |
| `graph_forget` | 4 subscriptions with equivalents, add and remove | *violation*: answers name removed subscriptions (section 5) |
| `prefilter` | 6 subscriptions of `test()` (a chain, two classes of two), 3 events, 2 bits, every hash of 2 values, 4 variants, every order of insertion with a graph, one order and one removal without | matches are counted once, lists are sorted |
| `driver` | `test()` with its 9 subscriptions; `main` with every useful combination of options on 3 files of subscriptions and 2 sets of publications; 5 operations (`MaxOps`) of a graph on 3 subscriptions with ids up to 31 | walks implement `match` until the ids run over; depths and means are right; the destructor is safe; the engines agree; `test()` leaves nothing; every operation ends |
| `header` | names `a`, `b`, `e` and one with a space between them, the lengths of `b` putting each field of some header on the 512 byte border, behind `a` or before `e`; 3 numbers and 3 texts; at most 3 entries, 2 sends, 2 encryptions | which headers keep their meaning, what of a cut one is kept and what is gone, what a receiver reads |
| `router` | 2 clients, 3 subscriptions, 3 publications (two with one header), garbage and the empty message, queues of 2 | notifications are paired right, carry their own payload, none is skipped |
| `scbr` | 2 clients, both subscribing and publishing, 3 publications, two with one header; queues of 1 message at the client and 2 at the router | frames, order, refinement of PubSub, clean termination; subscriptions arrive, `terminate` returns |
| `scbr_callback` | the same with queues of 2 | *violation*: a notification can miss its callback (section 5) |
| `relay` | a producer and 2 consumers, 4 announcements, 2 publications, 2 quiet polls for the 1000; queues of 2 everywhere | announcements that find room are served, also those that come while the producer publishes; the file is published, the right notifications are printed |

**Why the bounds are enough.** A covering decision looks at one key and two
predicates at a time (three for the pinned rule), and comparisons only distinguish less,
equal, greater and, for strict bounds over ints, greater by one: two values next to each other,
one further away, one between, one below and one above are every case.
The graph's instances have chains, diamonds and classes with several members, and all
orders of arrival; in `graph_remove` a node goes (`t5`) of whose two parents one still reaches
its child, so that only the other may be linked to it. In `router`, `scbr` and `relay` the queue of a client is shorter than the
notifications it can get, so that drops happen, and with a capacity of 1 every sender
blocks; each message is sent once. In `relay` the producer publishes after one announcement at
least, and the other three are too many for its queue: the ROUTER does drop announcements
while it publishes, which `AnnouncementServed` names as its exception (`Full`). Two bits are enough for the prefilter: a subscription
with one bit, with both and with none, and two that share or do not share one; equal and
different hashes of the two values. `UsedIds` starts the ids close enough to `MaxInt` for
them to run over in five operations. One quiet poll less than `QuietPolls` is a state of its
own, so that an announcement can come in just before the producer starts.

**Deadlock** is checked in `driver`, whose programs must come to their end (`Exit`
stutters only there). In the other runs users may stop sending, and everything may then rest.

**Fairness** (`Scbr!Fairness`) is weak and asked of each polling thread, of the router
for each client (a ROUTER fair-queues its peers), of ZeroMQ's connecting, and of a call
the user has begun. It is not asked of beginning a call. With a router that never
appears a `DEALER` blocks and `terminate` does not return; the fairness of `Connect` sets
that case aside. Publications are finite in the runs; an endless stream of incoming
frames would starve the pipe, since the loop serves `outside` first. No run shows that, so
`SubscriptionAccepted` and `TerminateReturns` are about queues at their limit and not about this
starvation; neither are the announcements of `EverythingPublished` endless. `Relay!Fairness` asks
the same of the sample programs, which do nothing but loop, and nothing of an interruption.
`DriverSpec` asks that the operation under way goes on: it is a sequential program.

Every property of a passing run comes with a mutant in `PROJECT.json`: a slip in the code
(operators marked "Slip" in the modules) that breaks it.

## 4. Proofs

Eight modules hold theorems and lemmas. Their constants are any that satisfy the named
assumptions: any finite set of subscriptions, any covering, any number of clients, any
hash function, any bounds of the queues.

| Theorem | Establishes |
|---|---|
| **CoveringProofs** | |
| `CoveringAlwaysSound` | subscriptions of any number of predicates: but for the pair rule covering is sound |
| `CoveringAlwaysPreorder` | reflexive, and transitive but for the pair rule |
| `CoveringAlwaysComplete` | with one predicate per key, over ints of any width, no containment is missed but that of a strict bound in the same bound written without |
| `SimpleNeverPinned` | with one predicate per key the pair rule never applies |
| **GraphProofs** | |
| `TypeCorrect`, `OverridenAlwaysInRange` | types; `match` never reads beyond `overriden_` |
| `ShapeAlways` | the inductive invariant of the links |
| `HasseAlways` | the graph is the Hasse diagram of covering |
| `SearchAlwaysExact` | `search` without backtracking finds the equivalent node, and only that |
| `CountsAlwaysExact`, `CountersAlwaysExact` | `size_`, `count_` and `overriden_` agree with what is stored |
| `OneNodePerClassAlways` | one node per equivalence class |
| `MatchAlwaysExact` | without removals, answers are exact |
| `AloneAlwaysExact` | with removals, they are for subscriptions without equivalents |
| `RouterImplementsStore` | the graph in the router implements the plain store |
| `MatchCountAlwaysExact` | the number `match` returns is exact, removals or not |
| **DriverProofs** | |
| `WalkAlwaysMatches` | a publication step by step implements `Match` until `next_id_` runs over |
| `DepthsAlwaysExact` | `stats` ends with the depths of the graph |
| `NothingDangles` | the destructor follows no link to a deleted node and deletes every node |
| `DriverUsesGraph` | the program uses its graph only as `WalksSpec` has it |
| `TestAlwaysLeavesNothing` | `test()` finds what it looks for and undoes all it has added |
| `EnginesAlwaysAgree` | graph and prefilter count alike, for any files and options |
| `MeansAlwaysAgree` | the means per publication and per subscription are of the same sums, and which are NaN |
| **PreFilterProofs** | |
| `FilterTypesCorrect` | types; each stored subscription is listed once under each of its bits, or in the default list |
| `ContainersAlwaysFirst` | with containment, lists have containers before what they cover |
| `FilterAlwaysExact` | every variant counts each match once, for every hash function and order of insertion |
| **RouterProofs** (lemmas of **NetworkProofs**) | |
| `RouterInvariant` | the inductive invariant of the router among clients that may do anything |
| `NotificationsRight` | hash, payload and destination of whatever is on its way fit together |
| `PayloadFresh` | a sealed publication carries its own payload |
| `Notified` | no match is skipped when there is room |
| **ScbrProofs** | |
| `FramesAlwaysAligned` | for any number of clients and messages, the router reads whole messages |
| `AlwaysFlushed`, `AlwaysQuiet` | `terminate` leaves nothing behind, and no callback runs after it |
| `AlwaysInOrder` | a callback gets the publications of one client in the order of sending |
| `Implements` | clients and router implement PubSub |
| **RelayProofs** | |
| `PrintedAlwaysRight` | a consumer prints notifications for its own subscriptions only, each once and in the order of the file |
| `AlwaysInForce` | a publication meets exactly the subscriptions that were passed on before it |
| `AnnouncementAlwaysTaken` | the safety part of `AnnouncementServed`: an announcement the router handles is put in the producer's queue when there is room |

**Covering.** What a predicate accepts is an interval or the complement of a point, and each
case of `operator>=` is an inclusion of two of them. Completeness is stated of ints, where two
texts can mean one bound: `{a >= 3}` accepts what `{a > 2}` does, which `operator>=` does not see
(`SameBound`; the graph then keeps two nodes for one class, and its answers stay right). The
proof gives an event that tells any other two predicates apart, with the value of one of them or
the one next to it (`PlainComplete`); values at the ends of the type have no next one, and
are set aside (`Inner`). The proofs of the graph assume a sound preorder
(`CoveringIsPreorder`, `CoveringIsSound`): with `SimpleNeverPinned` the theorems above give
it for the subscriptions the library can write, one predicate per key;
`covering_pinned` refutes it for ranges mixed with equalities.

**The graph.** `HasseDiagram` is not inductive as it stands: it speaks of strict
covering, the code of links. `Shape` states the same shape by links: they join nodes and
go down strictly (`LinksCover`), are paired (`LinksPaired`), are never redundant
(`LinksDirect`), roots and leaves are the ends (`EndsExact`), no two nodes are equivalent
(`NodesDistinct`), and, at its heart, from a node every node it strictly covers is reached
through a containee that covers it (`LinksDescend`). The walks of the code follow links
and stop where covering stops, so `LinksDescend` is exactly what makes them complete:
`ContainersFound` and `ContaineesFound` show that they return the minimal containers and
the maximal containees, `InsertShape` that `add` keeps `Shape`, `DeleteShape` that `remove`
does (a child that loses a parent is linked to each grandparent that no longer reaches it).
Minimal and maximal elements exist because the set of nodes is finite (`Maximal`,
`Minimal`, from the finite-set theorems). Exactness of `search` follows from `Shape` alone,
and that of the counters from it and a counting invariant. `MatchExact` needs `EntriesExact`,
what the entries of a node are as long as nothing is removed, and `CoveringIsSound`, by which
a subscription that matches lies below containers that match (`MatchReaches`). With removals
`EntriesExact` fails; `AloneInv` keeps what is left of it, that the entries of a node are
equivalent to its primary (`OverridenEquivalent`), which is enough for a subscription without
equivalents. `RouterImplementsStore` then maps initial states to initial states and each
step to a step of the store. `MatchCountAlwaysExact` is true of every operation: the
counters stay exact when `overriden_` does not. Its number is a sum over a set of nodes,
shown to be the size of the union of their classes (`SumInduction`, `CountsAdd`).

**The traversals.** `WalksSpec` is any use of one graph: any operation after any other, each
step by step. The invariant `WalkInv`
says of a graph at rest what `CountInv` says of Graph, and has a part for each operation under way.
`MarksOld`: until the ids run over, no mark is newer than the latest id. `MatchPart`: for some set
of visited nodes, what has been counted and pushed is what belongs to those of them that match
(a node is counted once, when it gets its mark), and the roots and the containees of those
that match are visited or on the stack; with an empty stack that set is closed under the walk, so
that it is the one of `MatchReaches`, and `CountsAdd` gives its number. `StatsPart` bounds each
depth from both sides: it comes from some container (`DepthsReached`), and it has been handed on to
all containees or a call that will do so is under way (`DepthsHandedOn`); neither holds
exactly while calls are open, together with no call left they are `DepthsExact`. `DeletePart`: of the nodes left
`containers_` is as it was and `containees_` has lost just the deleted ones (`LinksLeft`), and the nodes that are
being cleared are a path that goes down strictly (`PathDown`), so that none is on it twice.
`MaxInt >= 3` is used to tell an id that has just run over from one about to come round.

**The prefilter.** `FilterInv` joins the invariants of the graph with four parts: types, which
subscription is in which list (`ListsExact`), the order of the lists with containment
(`ContainmentInv`) and what of the graph is stored (`StoredInv`). That inserting before the
first entry that is covered keeps a list ordered needs the preorder alone (`ListedOrdered`).
`FilterExact` is about one call of `match`, two nested loops that are a fold: `FlattenIs` and
`ScanInduction` turn it into an invariant over the positions of the walk. For one class of
equivalent subscriptions it says how its members stand: not reached (`Untouched`), each
counted by itself (`CountedSingly`), or counted as a whole, with all of them marked
(`CountedWhole`); `FrontStep` and `DefaultStep` carry it over an entry of a bit's list and of the
default list. In the default list an entry is reached only through those that cover it,
so that `DefaultStep` needs `ContainersFirst`: a container that matches has been met before.
The sums at the end are those of a constant over a class (`SumOfOnes`, `SumOfOne`).
`CoveringIsSound` is used as in the graph, `EqualityMeansSame` (a predicate with `EQ` is met by
the value it names) makes sure that a bit of a subscription is a bit of an event it matches.

**The matching program.** `WalksSpec` lets ids run over and operations come in any order; Driver's
scripts are particular uses of it (`DriverUsesGraph`: each of their steps is an
operation of `WalksSpec`, or leaves the graph alone), so that `WalkInv` holds in them as well. The other way round, in `main` and `test()` each operation
ends before the next, and their ids cannot run over (`FilesFit` says so of the files: two ids for a
subscription, one for a publication). Their invariant `Places` says where the program is: which task
the phase may have under way (`TaskPlace`), how many ids are used (`IdPlace`), that graph and
prefilter hold what the turns done so far have put there (`LivePlace`, `FilterPlace`; in the phases of
`test()` that remove, what they have left), and that the answers so far are the numbers of stored
subscriptions that match the publications so far (`AnswerPlace`, by `WalkAlwaysMatches`' lemmas; `ResultPlace`,
by those of `FilterAlwaysExact`). `EnginesAgree` compares two numbers that are got in two ways: the
graph adds counts of nodes, the prefilter ones per subscription. `ExactSums` splits both sums by
classes (`SumJoin`). `MeansAgree` compares the samples taken after each publication with the
counters of the nodes that `stats` sums at the end. What holds between them at every step (`SumsMeet`
in `MeansPlace`) is that the samples so far, and what the publication under way has counted,
make up the sum over the nodes; a candidate that is popped adds as much to both sides
(`PopMeans`). No subscription comes after the first publication, so `size_` divides all samples
alike, and a sample is NaN just when it is 0. With all subscriptions removed nothing is live, so no node is left, and with
the nodes go the links, by `WalkInv`.

**The router.** The clients of `MCRouter` send any message at any time. `RouterInv` says which
bodies are the business of each client (`May`: what is due to its open and its sealed
subscriptions) and that only these are in its queue, two frames a message. `forward` is a
loop that sends to one client after another, and a queue that is full drops a message:
`SendLoop` and its relatives in NetworkProofs prove of `AfterSendingAll` that it keeps queues paired,
adds nothing but the bodies it was given, and delivers to a client that has room for all of its
own, whatever it drops for the others. They are proved by induction over the messages sent.
`PayloadFresh` then rests on the order of the code: the payload enters `data_table_` before
the enclave is asked.

**The library.** `FramesAligned` speaks of the socket; what keeps it is an invariant of each
client's way to it, `Inv == Typed /\ Flow(c)`: the head of the pipe is what the polling
thread, by what it holds already, expects next (`PipeFits`, `HandFits`), only messages that
were sent are in it (`OnlySent`), and the order to stop is its last frame (`EndFits`). From
the last one `FlushedOnReturn` follows, since a thread that has read the order has nothing
left to read. The proof needs that the frames of the code differ (`FramesDistinct`).

`CalledInOrder` compares what a callback got with what the publisher sent, at the two ends of
five queues. Its invariant `Order` gives each of them the same form: what is further along was sent
earlier (`Upward` from the user through pipe, thread and socket to the router, `Downward` from the
router through the queue of the client to its callbacks), and nothing is on its way twice
(`SentOnce`). `RouterOrder` joins the two halves where the router turns one message into
many. The refinement of PubSub uses both invariants: a step of the router is a `Serve`
of PubSub (`RouterServes`), with what its queues drop as lost, the step that runs a callback, or
finds none, hands over or loses what was owed (`PollOutsideServes`), and every other step stutters.

**The samples.** `PrintedRight` and `InForce` speak of the order in which the producer has sent, which its
queue, the router, the queue of a consumer and its loop each see a part of. The invariant of
RelayProofs takes the producer's history `sent` as the clock for all of them. No line of
the file is in it twice (`SentOnce`; an announcement may be passed on again); what the
router has yet to handle is its tail (`Upward`), so that what the router has stored are the subscriptions of
its head; `Downward` gives each notification, waiting or printed, the place in `sent` of its
publication, after that of its subscription (`Right`), and lets the places grow along
queue and output (`InTurn`). What `forward` does for one publication is bodies with one place,
different ones (`SendLoopWhole` of NetworkProofs, which reads a queue message by message).
`Announced` says that consumers send announcements, and that nothing else reaches the producer. `RelayAssumption` is what
the samples fix: the lines of consumers are open, the file's and the relayed messages sealed,
each line of the file a message of its own. `AnnouncementTaken` needs `Linked` besides: nothing of
the producer is at the router before they are connected, and the producer, unlike a consumer,
never leaves; the rest is `SendLoopDelivers`.

**Assumptions.** The modules name what a constant must satisfy: messages of different kinds
differ (`RouterAssumption`, `FramesDistinct`), as do a body and the empty delimiter
(`DelimiterNoBody`) and a message and the empty one (`NeverEmpty`): Message writes its kind
in front; covering is a sound preorder (see Covering above); a value that is equal is the same
(`EqualityMeansSame`); the files fit the width of an id (`FilesFit`); and shares are counted in parts
(`Unit`) that every number of subscriptions divides (`UnitAssumption`): they are exact,
where the code rounds doubles. TLC evaluates all of them on the instances of the runs.

**Induction over data.** A sum, a fold or a recursive function is a `CHOOSE` underneath. Where the
proofs are about one, they show that such a function exists up to every length, by induction on a
set of numbers (`NatSetInduction`, from well-foundedness), and so that it takes the expected
step (`SumDefined`, `SendingDefined`, `ScanDefined`, `FlatDefined`); facts about it follow by the
same induction.

**Only model-checked.** The properties of Header, whose
instances are of real lengths; `CallbackFound`, `MatchExact` with removals and
`CoveringSound`, which are violated; and liveness (`SubscriptionAccepted`, `TerminateReturns`,
`OperationsEnd`, `AnnouncementServed` but for `AnnouncementTaken`, `EverythingPublished`), which
this prover does not do.

## 5. Findings

* `covering_pinned`: `operator>=` takes any later bound in the other direction as the
  second half of `x <= a <= x`, whatever its value (`subscription.cc:71`), so that
  `{a = 2}` covers `{a >= 2, a <= 4}`. The subscription with the range is filed under, or
  merged with, the one with the equality and loses the publications with `a = 3`. Covering
  is then not transitive either: `{a >= 2, a <= 4}` covers `{a = 4}`, which `{a = 2}` does not.
* `graph_forget`: removing the primary of a node that stands for several subscriptions
  keeps it as the node's answer (`graph.cc:254`). The router never removes; the test
  program does.
* `scbr_callback`: `Matcher::send` registers the callback after it has sent the
  subscription (`scbr_api.cpp:241-242`); a publication in between is dropped.

Other places where the code surprises contradict no text of the repository. They are
conditions of the properties rather than findings.

* `PreFilter::remove` shortens `subs_` and leaves the ids as they are (`prefilter.cc:202`):
  the next publication indexes `matched` beyond its end, and a subscription added later
  shares its mark with another and may be skipped (`FilterExact`).
* When the primary of a class is `0 <= x <= 0`, in the default list, and its duplicate
  `x = 0`, under a bit, the bit lists leave the duplicate to the primary and the default
  list counts the primary alone (`prefilter.cc:308`): one match is lost (`FilterExact`, `EnginesAgree`).
* When `next_id_` runs over, nodes that were visited before look visited, and publications
  overlook them (`graph.cc:328`, `WalkImplementsMatch`).
* A publication before the first subscription makes the mean of the statistics NaN for good
  (`graph.cc:358`, `MeansAgree`).
* A name with a space is two words of the header. The engine skips the group, so that a
  subscription of nothing else matches everything, and `fillattributes` never ends
  (`scbr_api.cpp:53`, `MeaningKept`, `ReceiverReads`).
* Fractions are cut towards zero (`cbr.cc:244`), so that `x < 0.5` refuses 0 (`NothingLost`).
* A header of more than 512 bytes with its initial vector is cut; a last group without its value is read
  beyond the vector, and so is one whose value is the empty text (`ParserInBounds`).
* Sending a publication a second time without writing its payload again puts the header in
  front of the header (`scbr_api.cpp:106`), and encrypting twice leaves the receiver with a
  cipher (`ReceiverReads`).
* The receiver decodes negative numbers as base64 and keeps base64 that starts with a digit
  (`scbr_api.cpp:62`, `ReceiverReads`).
* An announcement that overtakes the producer's own subscription is dropped and not
  repeated (`consumer.cpp:30`, `AnnouncementServed`); so is one that finds the queue of the
  producer full, which fills while it publishes (`producer.cpp:137`).
* `{a >= 3}` and `{a > 2}` accept the same ints and are kept apart
  (`subscription.cc:74`, `CoveringComplete`).
* The polling thread may start before `context_` exists (`scbr_api.h:79-81`); it then
  ends, and its client with it.

## 6. What is not modelled

* Cryptography and hashing: a cipher stands for its contents, a hash for what it is of. The
  base64 frame of `Message::parse` is abstracted to its parts.
* Printing, logging, the statistics of the prefilter and the variance of a SmartCounter, on
  which nothing depends.
* The options and start-up of router, enclave and samples, their keys and files; the signal
  handler of the router; the loss and return of a TCP connection, which ZeroMQ hides.
* `user_friendly.cpp`, which calls the library once for each thing `scbr` does in any order,
  and `minimalist.cpp`, which sends canned messages.
* The gateway, whose classes are empty.
* The growth of `data_table_`, from which nothing is erased: the model has no bound to
  exceed.

Unsubscribing does not exist outside the graph and the prefilter.

## 7. Plan

Done: covering, the graph with its traversals, the prefilter, the matching program, headers,
the router, the client library, their composition, the samples, and the abstract
specifications SubscriptionStore and PubSub; proofs about covering, the graph and its traversals,
the prefilter, the matching program, the router, the samples and the library, with its refinement of
PubSub.

Left: `ParserInBounds` of Header, for headers of any length.
