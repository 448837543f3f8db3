------------------------------ MODULE TestData ------------------------------
(***************************************************************************)
(* The subscriptions and events that the matching program tests itself     *)
(* with (src/router/matching/cbr.cc, test()): the instance of the graph    *)
(* and of the prefilter that is model-checked.                             *)
(***************************************************************************)
EXTENDS Integers, Sequences, TLC

\* Predicates, in the order of the source.
P(o, v) == <<[op |-> o, val |-> v]>>
Sb(a, b, c, d) == [a |-> a, b |-> b, c |-> c, d |-> d]

TestSubs ==
  [s1 |-> Sb(P("EQ", 1), <<>>, <<>>, <<>>),
   s2 |-> Sb(<<>>, P("NE", 5), <<>>, <<>>),
   s3 |-> Sb(<<>>, <<>>, <<>>, P("EQ", 0)),
   s4 |-> Sb(P("EQ", 1), P("EQ", 2), P("EQ", 4), <<>>),
   s5 |-> Sb(<<>>, <<>>, P("EQ", 3), <<>>),
   s6 |-> Sb(P("LE", 5), <<>>, <<>>, <<>>),
   s7 |-> Sb(<<>>, P("LE", 5), P("GT", 2), <<>>),
   s8 |-> Sb(<<>>, <<>>, P("EQ", 3), <<>>),
   s9 |-> Sb(<<>>, <<>>, <<>>, P("LE", 0) \o P("GE", 0))]

\* Those of the bug fix of Jan 11, 2012.
FixSubs ==
  [t1 |-> Sb(P("EQ", 1), <<>>, <<>>, <<>>),
   t2 |-> Sb(<<>>, P("EQ", 1), <<>>, <<>>),
   t3 |-> Sb(P("EQ", 1), P("EQ", 1), P("EQ", 1), <<>>),
   t4 |-> Sb(P("EQ", 1), P("EQ", 1), P("EQ", 1), P("EQ", 1)),
   t5 |-> Sb(P("EQ", 1), P("EQ", 1), <<>>, <<>>)]

\* And one that is not among them: it stands beside t5 between t1 and t3.
BetweenSubs ==
  [u6 |-> Sb(P("EQ", 1), <<>>, P("EQ", 1), <<>>)]

Text == TestSubs @@ FixSubs @@ BetweenSubs

TestEvents ==
  [e1 |-> [a |-> 1, b |-> 2, c |-> 3],
   e2 |-> [a |-> 1, b |-> 2, c |-> 4],
   e3 |-> [a |-> 0, b |-> 0, c |-> 0]]

\* And three for the subscriptions those leave unmatched.
Attributes ==
  TestEvents @@
  [e4 |-> [d |-> 0],
   e5 |-> [a |-> 1, b |-> 1, c |-> 1],
   e6 |-> [a |-> 1, b |-> 1]]
=============================================================================
