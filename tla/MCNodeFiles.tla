---------------------------- MODULE MCNodeFiles ----------------------------
(* Instances of NodeFiles for TLC.                                         *)
EXTENDS NodeFiles

(* s1 delivers the file the caller asks for, s2 a longer, different one.   *)
MCContent ==
  [s \in Source |-> IF s = "s1" THEN <<"a", "b">> ELSE <<"x", "b", "c">>]

MCExpected == <<"a", "b">>
=============================================================================
