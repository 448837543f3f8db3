------------------------------- MODULE MCScbr -------------------------------
(***************************************************************************)
(* Small systems of clients and a router.                                  *)
(***************************************************************************)
EXTENDS Scbr

A == "a"
B == "b"

\* Two clients that subscribe and publish; b's two publications share a header.
TwoSub == {"a1", "b1"}
TwoPub == {"pa", "pb", "qb"}
TwoOwner == [s \in TwoSub |-> IF s = "a1" THEN A ELSE B]
TwoPublisher == [p \in TwoPub |-> IF p = "pa" THEN A ELSE B]
TwoHeader == [m \in TwoSub \cup TwoPub |-> IF m \in {"pb", "qb"} THEN "hb" ELSE m]
TwoMatching == {<<"a1", "hb">>, <<"a1", "pa">>, <<"b1", "hb">>}

=============================================================================
