---------------------------- MODULE MCScheduler -----------------------------
(***************************************************************************)
(* The scheduler for TLC, where clients and events are interchangeable,    *)
(* and beside it the tiles with what clients see of them: `part' is the    *)
(* one that moves, from a choice at the start, while the other keeps       *)
(* still, so each behaviour is one of Spec, and one of TileSpec.           *)
(***************************************************************************)
EXTENDS Scheduler, TileView, TLC

VARIABLE part

\* Who stands far from the tiles sees one of them, and what is hidden there.
MCSight == "far" :> {1} @@ "near" :> {1, 2}
MCTopOrder == "edge" :> 1 @@ "blood" :> 2

MCInit ==
    /\ part \in {"scheduler", "tiles"} /\ Init /\ TileInit
    \* The part that keeps still starts in one way only.
    /\ part = "scheduler" => \A t \in Tiles : tile[t].ground = NoGround

MCNext ==
    /\ UNCHANGED part
    /\ \/ part = "scheduler" /\ Next /\ UNCHANGED tileVars
       \/ part = "tiles" /\ TileNext /\ UNCHANGED vars

MCSpec == MCInit /\ [][MCNext]_<<part, vars, tileVars>>

SchedulerSymmetry == Permutations(Clients) \cup Permutations(Events)
=============================================================================
