----------------------------- MODULE TrustState -----------------------------
(***************************************************************************)
(* What the AssumeUTXO machinery promises to a user of the node: a claim   *)
(* about a UTXO set is taken on trust, and the trust ends in one of two    *)
(* ways.  It is upgraded only for a claim that full validation confirms,   *)
(* and withdrawn only for one it refutes.  A crash may forget an outcome   *)
(* that was not saved, or the claim itself; it never invents an outcome.   *)
(***************************************************************************)
CONSTANTS Claim,     \* what a session may claim
          Confirmed, \* the claims that full validation confirms
          NoClaim    \* no session

VARIABLES trust, claim

Trust == {"none", "assumed", "validated", "failed"}
trustVars == <<trust, claim>>

\* The verdict full validation reaches on a claim.
Verdict(c) == IF c \in Confirmed THEN "validated" ELSE "failed"

Init == trust = "none" /\ claim = NoClaim

\* A snapshot is activated.  If the validated chain is at its base already, the
\* verdict is immediate.
Assume ==
  /\ trust = "none"
  /\ claim' \in Claim
  /\ trust' \in {"assumed", Verdict(claim')}

\* Background validation reaches the base.
Settle ==
  /\ trust = "assumed"
  /\ trust' = Verdict(claim)
  /\ UNCHANGED claim

\* The process dies before a verdict is saved.
Revert ==
  /\ trust \in {"validated", "failed"}
  /\ trust' = "assumed"
  /\ UNCHANGED claim

\* The session is lost in a crash, or deleted by the operator.
Forget ==
  /\ trust # "none"
  /\ trust' = "none" /\ claim' = NoClaim

Next == Assume \/ Settle \/ Revert \/ Forget

Spec == Init /\ [][Next]_trustVars
=============================================================================
