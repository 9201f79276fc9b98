-------------------------- MODULE MCDualChainstate --------------------------
(***************************************************************************)
(* Small instances of DualChainstate for TLC: linear chains and a fork.    *)
(***************************************************************************)
EXTENDS DualChainstate, TLC

CONSTANTS g, b1, b2, b3, f1, f2, f3

LineBlock == {g, b1, b2, b3}
LineParent == g :> NoBlock @@ b1 :> g @@ b2 :> b1 @@ b3 :> b2
LineHeight == g :> 0 @@ b1 :> 1 @@ b2 :> 2 @@ b3 :> 3
LinePath == g :> {g} @@ b1 :> {g, b1} @@ b2 :> {g, b1, b2} @@ b3 :> {g, b1, b2, b3}

\* g - b1 - b2 alone, for the liveness runs.
ShortBlock == {g, b1, b2}
ShortParent == [b \in ShortBlock |-> LineParent[b]]
ShortHeight == [b \in ShortBlock |-> LineHeight[b]]
ShortPath == [b \in ShortBlock |-> LinePath[b]]

\* g - b1 - b2 and g - f1 - f2 - f3: a reorganisation two blocks deep.
DeepBlock == {g, b1, b2, f1, f2, f3}
DeepParent == g :> NoBlock @@ b1 :> g @@ b2 :> b1 @@ f1 :> g @@ f2 :> f1 @@ f3 :> f2
DeepHeight == g :> 0 @@ b1 :> 1 @@ b2 :> 2 @@ f1 :> 1 @@ f2 :> 2 @@ f3 :> 3
DeepPath == g :> {g} @@ b1 :> {g, b1} @@ b2 :> {g, b1, b2} @@ f1 :> {g, f1}
            @@ f2 :> {g, f1, f2} @@ f3 :> {g, f1, f2, f3}

GoodAtB2 == [best |-> b2, at |-> b2, kind |-> "true"]
BadAtB2 == [GoodAtB2 EXCEPT !.kind = "outs"]
OnlyGood == {GoodAtB2}
\* One of the snapshots is of b3, a block that ConnectBlock rejects.
GoodBadOrInvalid == {GoodAtB2, BadAtB2, [GoodAtB2 EXCEPT !.best = b3, !.at = b3]}
GoodAndBad == {GoodAtB2, BadAtB2}

NoBlocks == {}
AllHeaders == Block
=============================================================================
