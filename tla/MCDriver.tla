------------------------------ MODULE MCDriver ------------------------------
(***************************************************************************)
(* The matching program on the data of its own test.                       *)
(***************************************************************************)
EXTENDS Driver, MCGraph

MCEqualValues ==
    [s \in Sub |-> UNION {{<<k, p.val>> : p \in {q \in ToSet(Text[s][k]) : q.op = "EQ"}} :
                              k \in DOMAIN Text[s]}]
MCEventValues ==
    [e \in Event |-> {Attributes[e][k] : k \in DOMAIN Attributes[e]}]

\* Files with equivalent subscriptions, a diamond in either order of arrival,
\* lines of another kind, and none at all; publications from two files.
SubsFiles ==
    {<<"s6", "s5", "s1", "e1", "s2", "s4", "s8">>,
     <<"s4", "s8", "s9", "s1", "s2", "s6">>}
PubsFiles == {<<>>, <<<<"e3", "s1">>, <<"e2">>>>}

Flag(letter) == {<<>>, <<<<letter, 0>>>>}
Variants == {<<>>} \cup {<<<<"v", v>>>> : v \in AllNoContainment .. AllContainmentNP + 1}

\* Bound: a variant, which nothing else uses, is only given with a prefilter.
Prefilters == {<<>>} \cup {v \o <<<<"p", 0>>>> : v \in Variants}

Mains ==
    {[argv |-> c \o p, files |-> <<s>> \o f] :
        c \in Flag("c"), p \in Prefilters, s \in SubsFiles, f \in PubsFiles}

\* Bound: without subscriptions no variant that needs the graph.
Empties ==
    {[argv |-> c \o p, files |-> <<<<>>>> \o f] :
        c \in Flag("c"), p \in Flag("p"), f \in PubsFiles}

Others ==
    {[argv |-> <<<<"v", 3>>, <<"t", 0>>, <<"c", 0>>>>, files |-> <<>>],
     [argv |-> <<<<"h", 0>>, <<"t", 0>>>>, files |-> <<>>],
     [argv |-> <<<<"n", NbBits + 1>>, <<"p", 0>>>>, files |-> <<<<"s1">>>>],
     [argv |-> <<<<"c", 0>>, <<"v", AllContainmentNP + 1>>>>, files |-> <<<<"s1">>>>],
     [argv |-> <<<<"b", 0>>>>, files |-> <<<<"s1">>>>],
     [argv |-> <<<<"c", 0>>, <<"d", 0>>>>, files |-> <<<<"s1">>, NoFile>>],
     [argv |-> <<<<"c", 0>>>>, files |-> <<>>]}

MCPrograms == Mains \cup Empties \cup Others
=============================================================================
