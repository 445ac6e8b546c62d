---------------------------- MODULE MCConnection ----------------------------
(* TLC instance of Connection: messages are interchangeable.                *)
EXTENDS Connection, TLC

MessageSymmetry == Permutations(Msgs)
=============================================================================
