------------------------------ MODULE MCTrade -------------------------------
(* TLC instance of Trade: a strong and a weak player, two bags and two things, *)
(* the pairs of which are interchangeable.                                     *)
EXTENDS Trade, TLC
CONSTANTS ann, bob, bag1, bag2, gold, ring
MCPlayers == {ann, bob}
MCBags == {bag1, bag2}
MCItems == {bag1, bag2, gold, ring}
MCCapacity == ann :> 5 @@ bob :> 3
Symmetry == Permutations(MCBags) \cup Permutations({gold, ring})
=============================================================================
