------------------------------- MODULE MCRelay -------------------------------
(***************************************************************************)
(* Two consumers, with two lines each, and a producer with two             *)
(* publications: both match the subscriptions of the first consumer, whose *)
(* notifications may be too many for its queue, and each one of those of   *)
(* the second.  While the producer publishes, which it does after one      *)
(* announcement at least, the other three are too many for its own queue.  *)
(***************************************************************************)
EXTENDS Relay

MCLines == [c \in {"c1", "c2"} |-> IF c = "c1" THEN <<"a1", "a2">> ELSE <<"a3", "a4">>]
MCRelayed == [a \in {"a1", "a2", "a3", "a4"} |->
                 CASE a = "a1" -> "s1" [] a = "a2" -> "s2" [] a = "a3" -> "s3" [] a = "a4" -> "s4"]
MCFile == <<"p1", "p2">>
MCOwner == [s \in {"own", "s1", "s2", "s3", "s4"} |->
               CASE s = "own" -> "12345" [] s \in {"s3", "s4"} -> "c2" [] OTHER -> "c1"]
MCHeader == [m \in {"own", "s1", "s2", "s3", "s4", "a1", "a2", "a3", "a4", "p1", "p2"} |->
                IF m \in {"a1", "a2", "a3", "a4"} THEN "dest 12345" ELSE m]
MCMatching == {<<"own", "dest 12345">>, <<"s3", "p1">>, <<"s4", "p2">>} \cup ({"s1", "s2"} \X {"p1", "p2"})
=============================================================================
