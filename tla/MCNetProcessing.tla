-------------------------- MODULE MCNetProcessing --------------------------
(***************************************************************************)
(* Small instances of NetProcessing for TLC.                               *)
(***************************************************************************)
EXTENDS NetProcessing

CONSTANTS h, s, tx1, tx2

\* s is an outbound peer; among the others the order is that of the salted hash.
MCPriority == [a \in Ann |-> IF a[1] = s THEN 3 ELSE IF a[1] = h THEN 1 ELSE 2]
=============================================================================
