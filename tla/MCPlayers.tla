----------------------------- MODULE MCPlayers ------------------------------
(***************************************************************************)
(* The components about players for TLC: values for the constants of       *)
(* PlayerParts, and an instance of Storage as a further part.  A step of   *)
(* that leaves those of PlayerParts alone, so each behaviour here is one   *)
(* of PlayersSpec.  Connections with one name and players who differ in    *)
(* nothing are interchangeable.                                            *)
(***************************************************************************)
EXTENDS PlayerParts, TLC

CONSTANTS x, y, z, f1, f2, p1, s1

VARIABLES world

MCNear == [here |-> {"here"}, there |-> {"there"}]
MCCids == [ann |-> {1, 2}, bob |-> {}]
MCExpFor == [l \in 1..6 |-> IF l > 5 THEN 0 ELSE <<0, 10, 20, 40, 80>>[l]]
MCReqTries == [l \in 10..14 |-> IF l > 13 THEN 0 ELSE l - 8]
MCReqMana == [l \in 0..16 |-> l + 1]

D == INSTANCE Storage WITH
    Slots <- {1, 2}, Movables <- {"b1", "b2", "c1", "c2"}, Fixed <- {"chest"},
    Boxes <- {"b1", "b2", "chest"}, Depot <- "depot", DepotId <- 1, NoItem <- "none"
ASSUME OtherAssumption == D!StorageAssumption

MCInit ==
    /\ PlayersInit /\ D!Init
    \* A part that keeps still starts in one way only.
    /\ part = "progress" \/ vocation = 0

MCNext ==
    \/ PlayersNext /\ UNCHANGED world
    \/ part = "storage" /\ D!Next /\ UNCHANGED playersVars

MCSpec == MCInit /\ [][MCNext]_<<playersVars, world>>

Symmetry == Permutations({x, y, z}) \cup Permutations({f1, f2})

-----------------------------------------------------------------------------
(* The property of the further part                                        *)

\* Storage: items come back from the database where they were, or in the depot of who
\* lost the house.
LoadsWhatWasSaved == part = "storage" => D!TypeOK /\ D!LoadsWhatWasSaved
=============================================================================
