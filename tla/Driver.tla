-------------------------------- MODULE Driver --------------------------------
(***************************************************************************)
(* The matching program: main() of src/router/matching/main.cc, which      *)
(* reads files and matches them with the graph, the prefilter or both, and *)
(* test() of cbr.cc.  Each is a script of phases that loop over            *)
(* subscriptions or publications.  A third script uses a graph in any way  *)
(* that the class Graph allows.                                            *)
(***************************************************************************)
EXTENDS PreFilter, Walks

CONSTANTS
    Programs,   \* the arguments considered: options, and files of lines
    NoFile,     \* a file that cannot be opened
    FreeSubs, FreeEvents,   \* what the free use of a graph adds and publishes
    MaxOps      \* bound: its operations

\* (The literals are those of the program's own test.)
ASSUME DriverAssumption ==
    /\ \A p \in Programs :
          /\ p.argv \in Seq(STRING \X Int)
          /\ p.files \in Seq({NoFile} \cup Seq(Sub \cup Event))
    /\ {"s3", "s4"} \subseteq Sub /\ {"e1", "e2", "e3"} \subseteq Event
    /\ FreeSubs \subseteq Sub /\ FreeEvents \subseteq Event /\ MaxOps \in Nat
    /\ NaN \notin Int

VARIABLES
    options,    \* what the options of main say
    files,      \* its other arguments
    phase,      \* the phase of its script
    at,         \* how many turns of its loop are done
    found,      \* what the searches of test() have found
    answers,    \* history: per publication, the count `match` of the graph
    early       \* history: was anything published while the graph was empty?

history == <<found, answers, early>>
driverVars == <<graphState, filterVars, options, files, phase, at, history>>

-----------------------------------------------------------------------------
(* main: its arguments.                                                    *)

Defaults ==
    [does |-> "main", containment |-> FALSE, prefiltering |-> FALSE,
     variant |-> AllNoContainment, bloomSize |-> NbBits, numHashes |-> NbHashes]

\* The next option, a letter and its argument.  --test and --help end the loop, and
\* so does what is unknown; -d only prints.
Option(o, a) ==
    IF o.does # "main" THEN o
    ELSE CASE a[1] = "t" -> [o EXCEPT !.does = "test"]
           [] a[1] = "c" -> [o EXCEPT !.containment = TRUE]
           [] a[1] = "p" -> [o EXCEPT !.prefiltering = TRUE]
           [] a[1] = "d" -> o
           [] a[1] = "b" -> [o EXCEPT !.bloomSize = a[2]]
           [] a[1] = "n" -> [o EXCEPT !.numHashes = a[2]]
           [] a[1] = "v" -> [o EXCEPT !.variant = a[2]]
           [] OTHER -> [o EXCEPT !.does = "exit"]

Valid(o, fs) ==
    /\ fs # <<>> /\ NoFile \notin ToSet(fs)
    /\ o.bloomSize >= 1 /\ o.numHashes \in 1 .. o.bloomSize
    /\ o.variant \in AllNoContainment .. AllContainmentNP

Options(p) ==
    LET o == FoldLeft(Option, Defaults, p.argv)
    IN IF o.does = "main" /\ ~Valid(o, p.files) THEN [o EXCEPT !.does = "exit"] ELSE o

\* parse_subs and parse_pubs: the lines that are subscriptions, or publications;
\* the others are skipped.
Parsed(lines, kind) ==
    FoldLeft(LAMBDA read, l : IF l \in kind THEN Append(read, l) ELSE read, <<>>, lines)
ParseSubs(lines) == Parsed(lines, Sub)
ParsePubs(lines) == Parsed(lines, Event)

\* The publications come from all the files but the first.
PubsOf(fs) == FlattenSeq([i \in 1 .. Len(fs) - 1 |-> ParsePubs(fs[i + 1])])

\* test() brings its own.
Subs ==
    IF options.does = "main" THEN ParseSubs(Head(files))
    ELSE ParseSubs(<<"s1", "s2", "s3", "s4", "s5", "s6", "s7", "s8", "s9">>)
Pubs == IF options.does = "main" THEN PubsOf(files) ELSE <<"e1", "e2", "e3">>

\* What is read once takes no more ids (two for a subscription, and one for a
\* publication) than there are: next_id_ runs over in a graph of long use only.
ASSUME FilesFit ==
    /\ 2 * 9 + 3 <= MaxInt
    /\ \A p \in Programs : p.files # <<>> /\ NoFile \notin ToSet(p.files) =>
          2 * Len(ParseSubs(Head(p.files))) + Len(PubsOf(p.files)) <= MaxInt

-----------------------------------------------------------------------------
(* What is done, phase by phase.                                           *)

If(condition, phases) == IF condition THEN phases ELSE <<>>

NeedsGraph == options.containment \/ (options.prefiltering /\ options.variant > 1)

MainScript ==
    If(NeedsGraph, <<"build">>)
    \o If(options.containment, <<"match", "stats">>)
    \o If(options.prefiltering, <<"filter", "fill", "publish">>)
    \o If(NeedsGraph, <<"delete">>)

TestScript ==
    <<"build", "search", "match", "remove", "delete", "filter", "fill", "publish", "empty">>

FreeScript == <<"free", "delete">>

Script ==
    CASE options.does = "main" -> MainScript
      [] options.does = "test" -> TestScript
      [] options.does = "free" -> FreeScript
      [] OTHER -> <<>>

Ended == phase > Len(Script)

\* What a phase loops over; the ones that do one thing have one turn.
Turns(name) ==
    CASE name \in {"build", "remove", "fill", "empty"} -> Subs
      [] name \in {"match", "publish"} -> Pubs
      [] name = "search" -> <<"s3", "s4">>
      [] name = "free" -> [i \in 1 .. MaxOps |-> i]
      [] OTHER -> <<name>>

\* The next turn of the phase, which is named so.
Turn(name) ==
    /\ ~Ended /\ Script[phase] = name
    /\ at < Len(Turns(name))
    /\ at' = at + 1
    /\ UNCHANGED <<options, files, phase>>

This == Turns(Script[phase])[at + 1]

DriverInit ==
    /\ PreFilterInit /\ WalksInit
    /\ \/ \E p \in Programs : options = Options(p) /\ files = p.files /\ nextId = 0
       \/ options = [Defaults EXCEPT !.does = "free"] /\ files = <<>>
    /\ phase = 1 /\ at = 0
    /\ found = <<>> /\ answers = <<>> /\ early = FALSE

-----------------------------------------------------------------------------
(* The phases.                                                             *)

Build == Turn("build") /\ AddMarked(This) /\ UNCHANGED <<filterVars, history>>

\* The graph is asked for a new object, equivalent to the one of that name.
SearchGraph ==
    /\ Turn("search")
    /\ \E n \in SearchResults(This) : found' = Append(found, n)
    /\ UNCHANGED <<graphState, filterVars, answers, early>>

MatchGraph == Turn("match") /\ BeginMatch(This) /\ UNCHANGED <<filterVars, history>>

RemoveFromGraph == Turn("remove") /\ RemoveMarked(This) /\ UNCHANGED <<filterVars, history>>

Stats == Turn("stats") /\ StartStats /\ UNCHANGED <<filterVars, history>>

DeleteGraph == Turn("delete") /\ BeginDelete /\ UNCHANGED <<filterVars, history>>

\* test() makes one that ignores the graph.
NewPreFilter ==
    /\ Turn("filter")
    /\ MakePreFilter
    /\ variant' = IF options.does = "test" THEN AllNoContainment ELSE options.variant
    /\ UNCHANGED <<walkVars, history>>

Fill == Turn("fill") /\ AddToFilter(This) /\ UNCHANGED <<walkVars, history>>

MatchPreFilter == Turn("publish") /\ FilterMatch(This) /\ UNCHANGED <<walkVars, history>>

EmptyPreFilter == Turn("empty") /\ RemoveFromFilter(This) /\ UNCHANGED <<walkVars, history>>

\* Any operation of the class; what a subscription does is known from its state.
AnyOperation ==
    /\ Turn("free")
    /\ \/ \E s \in FreeSubs : AddMarked(s) \/ RemoveMarked(s)
       \/ \E e \in FreeEvents : BeginMatch(e)
       \/ StartStats
    /\ UNCHANGED <<filterVars, history>>

\* The graph goes on with its own work.
Continue ==
    /\ TaskNext
    /\ answers' = IF task.op = "match" /\ task'.op = "idle" THEN Append(answers, task.match)
                                                            ELSE answers
    /\ early' = (early \/ (task.op = "match" /\ size = 0))
    /\ UNCHANGED <<filterVars, options, files, phase, at, found>>

EndPhase ==
    /\ ~Ended /\ task.op \in {"idle", "deleted"}
    /\ at = Len(Turns(Script[phase])) \/ Script[phase] = "free"
    /\ phase' = phase + 1 /\ at' = 0
    /\ UNCHANGED <<graphState, filterVars, options, files, history>>

\* The program has ended, and nothing else may stop it.
Exit == Ended /\ UNCHANGED driverVars

DriverNext ==
    \/ Build \/ SearchGraph \/ MatchGraph \/ RemoveFromGraph \/ Stats \/ DeleteGraph
    \/ NewPreFilter \/ Fill \/ MatchPreFilter \/ EmptyPreFilter
    \/ AnyOperation \/ Continue \/ EndPhase \/ Exit

\* A program with one thread goes on with an operation until it ends.
DriverSpec == DriverInit /\ [][DriverNext]_driverVars /\ WF_task(TaskNext)

-----------------------------------------------------------------------------
\* No loop and no recursion of the graph goes on for ever: the stack of match runs
\* empty, the calls of stats return, and the destructor deletes its last node.
OperationsEnd == []<>(task.op \in {"idle", "deleted"})

\* test() finds what it looks for, and leaves a graph and a prefilter that hold
\* nothing: whatever the order of the vectors, removing all that was added
\* undoes every link, count and list.
TestLeavesNothing ==
    options.does = "test" =>
        /\ \A i \in DOMAIN found : found[i] # NoNode /\ Covers(found[i], Turns("search")[i])
                                                     /\ Covers(Turns("search")[i], found[i])
        /\ Ended => /\ nodes = {} /\ roots = {} /\ leaves = {} /\ size = 0
                    /\ subs = <<>> /\ \A b \in DOMAIN lists : lists[b] = <<>>

\* The two engines agree: for each publication the prefilter, in every variant,
\* with the graph or without it, pushes as many subscriptions as the graph has
\* counted (when no class is mixed, see FilterExact).
EnginesAgree ==
    ~Ended /\ Script[phase] = "publish" /\ at > 0 /\ answers # <<>>
        /\ (\A s \in Stored : ~Mixed(s)) =>
            Pushed(Stored) = answers[at]

\* The two tables of means that main prints are two ways to sum the same: the
\* matches (and tests) of each publication relative to the subscriptions, and
\* of each subscription relative to the publications.  Nothing but a publication
\* before the first subscription makes a mean NaN, which it then stays.
MeansAgree ==
    /\ (matchStats.total = NaN) <=> early
    /\ options.does = "main" /\ stats # NoStats /\ pubs > 0 /\ size > 0 =>
        /\ stats.matches.samples = size /\ stats.tests.samples = size
        /\ matchStats.total * size = stats.matches.total * Unit
        /\ testStats.total * size = stats.tests.total * Unit
=============================================================================
