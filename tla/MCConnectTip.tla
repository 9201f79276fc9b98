---------------------------- MODULE MCConnectTip ----------------------------
(***************************************************************************)
(* A small block tree for ConnectTip: after a1 (a coinbase of two outputs) *)
(* comes a2, which spends one output and then, in a second transaction,    *)
(* the other one and the two outputs just made; b2, a sibling with one of  *)
(* the same transactions; and blocks that must be rejected for a bad       *)
(* script, a missing input, a duplicate transaction or an excessive        *)
(* reward.  The four checks of a2 are enough for a batch of two.           *)
(***************************************************************************)
EXTENDS ConnectTip

Coinbase(id, outs) == [id |-> id, ins |-> <<>>, outs |-> outs]
T1 == [id |-> "t1", ins |-> << <<"c1", 1>> >>, outs |-> {1, 2}]
T2 == [id |-> "t2", ins |-> << <<"c1", 2>>, <<"t1", 1>>, <<"t1", 2>> >>, outs |-> {1}]
T3 == [T2 EXCEPT !.id = "t3"]
T4 == [id |-> "t4", ins |-> << <<"c1", 2>>, <<"c1", 1>> >>, outs |-> {1}]

MCTxid == {"c1", "c2", "t1", "t2", "t3", "t4"}
MCOut == {1, 2}
MCLabel == {"g", "a1", "a2", "b2", "bad", "missing", "dup", "greedy"}
MCParent == [b \in MCLabel |-> IF b = "a1" THEN "g" ELSE "a1"]
MCHeight == [b \in MCLabel |-> IF b = "g" THEN 0 ELSE IF b = "a1" THEN 1 ELSE 2]
MCBlockTxs == [b \in MCLabel |->
  CASE b = "g" -> <<>>
    [] b = "a1" -> <<Coinbase("c1", {1, 2})>>
    [] b = "a2" -> <<Coinbase("c2", {1}), T1, T2>>
    [] b = "b2" -> <<Coinbase("c2", {1}), T1>>
    [] b = "bad" -> <<Coinbase("c2", {1}), T1, T3>>
    [] b = "missing" -> <<Coinbase("c2", {1}), T1, T4>>
    [] b = "dup" -> <<Coinbase("c1", {1})>>
    [] b = "greedy" -> <<Coinbase("c2", {1, 2}), T1>>]
MCOffers == {{"a1", "a2", "b2"}} \cup {{"a1", "b2", x} : x \in {"bad", "missing", "dup", "greedy"}}
MCOverpaying == {"greedy"}
MCBad == {<<"t3", 1>>}
MCCheck ==
  {<<"t1", 1>>, <<"t4", 1>>, <<"t4", 2>>} \cup ({"t2", "t3"} \X (1 .. 3))
=============================================================================
