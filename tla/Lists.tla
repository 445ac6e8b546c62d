-------------------------------- MODULE Lists --------------------------------
(***************************************************************************)
(* A list from which entries are erased, by their places: as a function    *)
(* over the list's prefixes, about which theorems can be proved.           *)
(***************************************************************************)
EXTENDS Integers, Sequences

\* The list without the entries at other places than these.
OnlyAt(list, places) ==
    LET upTo[n \in 0..Len(list)] ==
          IF n = 0 THEN <<>> ELSE IF n \in places THEN Append(upTo[n - 1], list[n]) ELSE upTo[n - 1]
    IN upTo[Len(list)]
=============================================================================
