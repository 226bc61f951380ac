---------------------------- MODULE MCSourceHealth ----------------------------
(* Three addresses; an answer that leaves one out and orders the others     *)
(* differently, and an empty one.                                           *)
EXTENDS SourceHealth

CONSTANTS a1, a2, a3, c1, c2

GivenAnswers == {<<a1, a2, a3>>, <<a3, a1>>, <<>>}
=============================================================================
