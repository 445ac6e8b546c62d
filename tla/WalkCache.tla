------------------------------ MODULE WalkCache ------------------------------
(***************************************************************************)
(* What a monster believes of the tiles around it (creature.cpp:           *)
(* localMapCache and its updates; tile.cpp: __queryAdd for a monster, the  *)
(* notifications of spectators).                                           *)
(*                                                                         *)
(* Path finding asks __queryAdd of each tile it looks at.  For a monster   *)
(* the answers for all tiles in its sight are kept in an array around it:  *)
(* a step shifts the array and asks for the new edges only, and each       *)
(* change of a tile in sight asks for that tile again.  No answer expires. *)
(*                                                                         *)
(* One floor, and one monster that pushes neither creatures nor items.     *)
(* Items on a tile are a set of kinds.  Where the code is known to ask     *)
(* nothing when a tile changes, the tile is `lost' until it is asked.      *)
(***************************************************************************)
EXTENDS Integers, FiniteSets

CONSTANTS
    Columns, Rows,    \* of the map
    RangeX, RangeY,   \* maxViewportX, maxViewportY
    Others, Nowhere,  \* other creatures
    Kinds,            \* of items
    Solid, NoPath,    \* the kinds with blockSolid, with blockPathFind
    Fields,           \* magic fields
    Holes,            \* kinds with floorChange
    Landings, Spots,  \* where creatures are placed and teleported, where items come to lie
    Room              \* bound: items on the map and tiles that are lost

VARIABLES
    pos,      \* of the monster
    at,       \* of each of the others
    things,   \* the items on each tile
    burning,  \* the monster has the condition of the fields
    cache,    \* localMapCache, by distance
    lost      \* tiles that have changed without being asked

cacheVars == <<pos, at, things, burning, cache, lost>>

Tiles == (1..Columns) \X (1..Rows)
Offsets == (-RangeX..RangeX) \X (-RangeY..RangeY)
Plus(p, d) == <<p[1] + d[1], p[2] + d[2]>>
Minus(p, q) == <<p[1] - q[1], p[2] - q[2]>>

WalkCacheAssumption ==
    /\ Columns \in Nat \ {0} /\ Rows \in Nat \ {0} /\ RangeX \in Nat \ {0} /\ RangeY \in Nat \ {0}
    /\ Nowhere \notin Tiles /\ Solid \cup NoPath \cup Fields \cup Holes \subseteq Kinds
    /\ Landings \cup Spots \subseteq Tiles

TypeOK ==
    /\ pos \in Tiles /\ at \in [Others -> Tiles \cup {Nowhere}]
    /\ things \in [Tiles -> SUBSET Kinds] /\ burning \in BOOLEAN
    /\ cache \in [Offsets -> BOOLEAN] /\ lost \subseteq Tiles

World == [pos |-> pos, at |-> at, things |-> things, burning |-> burning]

\* Tile::__queryAdd of a monster, as path finding asks it.
queryAdd(w, p) ==
    /\ p \in Tiles
    /\ \A c \in Others : w.at[c] # p
    /\ \A k \in w.things[p] :
        /\ k \notin Holes /\ k \notin Solid
        /\ k \in Fields \/ k \notin NoPath
        /\ k \in Fields => w.burning

-----------------------------------------------------------------------------
(* creature.cpp: updates of the array                                      *)

\* updateTileCache: only what is in the array's range.
updateTileCache(c, w, S) ==
    [d \in Offsets |-> IF Plus(w.pos, d) \in S THEN queryAdd(w, Plus(w.pos, d)) ELSE c[d]]
\* updateMapCache leaves what it has of places where no tile is.
updateMapCache(c, w) == updateTileCache(c, w, Tiles)

\* A step by m: the rows move first, then the columns within the rows that were moved,
\* as the row that was asked for is where it should be already.
ShiftRows(c, w, m) == [d \in Offsets |->
    LET was == <<d[1], d[2] + m[2]>> IN IF was \in Offsets THEN c[was] ELSE queryAdd(w, Plus(w.pos, d))]
\* Slip: every row is moved.
ShiftAllColumns(c, w, m) == [d \in Offsets |->
    LET was == <<d[1] + m[1], d[2]>> IN IF was \in Offsets THEN c[was] ELSE queryAdd(w, Plus(w.pos, d))]
ShiftColumns(c, w, m) == [d \in Offsets |->
    LET was == <<d[1] + m[1], d[2]>>
    IN IF was \notin Offsets THEN queryAdd(w, Plus(w.pos, d))
       ELSE IF <<d[1], d[2] + m[2]>> \in Offsets THEN c[was] ELSE c[d]]

\* onCreatureMove of the monster itself.
Stepped(w, old) ==
    LET m == Minus(w.pos, old)
    IN updateTileCache(ShiftColumns(ShiftRows(cache, w, m), w, m), w, {old})

\* A change of the world after which the tiles of S are asked, where the monster stands.
Changes(w, S) ==
    /\ pos' = w.pos /\ at' = w.at /\ things' = w.things /\ burning' = w.burning
    /\ cache' = updateTileCache(cache, w, S) /\ lost' = lost \ S

-----------------------------------------------------------------------------
(* Creatures                                                               *)

Adjacent(p, q) == p # q /\ LET d == Minus(p, q) IN d \in (-1..1) \X (-1..1)
InSight(p) == {q \in Tiles : Minus(q, p) \in Offsets}

\* Tile::moveCreature with a step or a teleport of the monster.
Step(to) ==
    LET w == [World EXCEPT !.pos = to]
    IN /\ Adjacent(pos, to) /\ queryAdd(World, to)
       /\ cache' = Stepped(w, pos) /\ lost' = (lost \cap InSight(pos) \cap InSight(to)) \ {pos}
       /\ pos' = to /\ UNCHANGED <<at, things, burning>>
Teleport(to) ==
    LET w == [World EXCEPT !.pos = to]
    IN /\ to # pos /\ \A c \in Others : at[c] # to
       /\ cache' = updateMapCache(cache, w) /\ lost' = {}
       /\ pos' = to /\ UNCHANGED <<at, things, burning>>

Free(p) == p # pos /\ \A c \in Others : at[c] # p
MoveOther(c, to) ==
    /\ at[c] # Nowhere /\ Free(to) /\ Adjacent(at[c], to)
    /\ Changes([World EXCEPT !.at[c] = to], {at[c], to})
placeCreature(c, to) ==
    /\ at[c] = Nowhere /\ Free(to)
    /\ Changes([World EXCEPT !.at[c] = to], {to})
\* onCreatureDisappear comes while the creature is still on its tile; the tile is asked
\* again when it has left.
\* Slip: it is not.
DisappearsOnly(c) ==
    /\ at[c] # Nowhere
    /\ at' = [at EXCEPT ![c] = Nowhere]
    /\ cache' = updateTileCache(cache, World, {at[c]}) /\ lost' = lost \ {at[c]}
    /\ UNCHANGED <<pos, things, burning>>
removeCreature(c) == at[c] # Nowhere /\ Changes([World EXCEPT !.at[c] = Nowhere], {at[c]})

-----------------------------------------------------------------------------
(* Items and conditions                                                    *)

Blocks(k) == k \in Solid \cup NoPath
AddItem(p, k) ==
    /\ k \notin things[p]
    /\ Cardinality(UNION {{p1} \X things[p1] : p1 \in Tiles}) + Cardinality(lost) < Room
    /\ Changes([World EXCEPT !.things[p] = @ \cup {k}], {p})

\* onRemoveTileItem asks after kinds that block, onUpdateTileItem after a change from or
\* to such a kind; what digs a hole blocks nothing.
Asked(p, kinds) == IF \E k \in kinds : Blocks(k) THEN {p} ELSE {}
Silent(p, kinds) == IF Asked(p, kinds) = {} /\ kinds \cap (Holes \cup Fields) # {} THEN {p} \cap InSight(pos) ELSE {}
Altered(p, after, kinds) ==
    LET w == [World EXCEPT !.things[p] = after] IN
    /\ things' = w.things /\ cache' = updateTileCache(cache, w, Asked(p, kinds))
    /\ lost' = (lost \ Asked(p, kinds)) \cup Silent(p, kinds)
    /\ UNCHANGED <<pos, at, burning>>
RemoveItem(p, k) == k \in things[p] /\ Altered(p, things[p] \ {k}, {k})
transformItem(p, k, to) ==
    /\ k \in things[p] /\ to \notin things[p]
    /\ Altered(p, (things[p] \ {k}) \cup {to}, {k, to})

\* onAddCondition and onEndCondition of fire, energy and poison.
ChangeCondition ==
    /\ burning' = ~burning
    /\ cache' = updateMapCache(cache, [World EXCEPT !.burning = ~burning]) /\ lost' = {}
    /\ UNCHANGED <<pos, at, things>>

-----------------------------------------------------------------------------
Init ==
    /\ pos \in Tiles /\ at = [c \in Others |-> Nowhere]
    /\ things = [p \in Tiles |-> {}] /\ burning = FALSE
    /\ cache = updateMapCache([d \in Offsets |-> FALSE], World) /\ lost = {}

Next ==
    \/ \E to \in Tiles : Step(to) \/ \E c \in Others : MoveOther(c, to)
    \/ \E to \in Landings : Teleport(to) \/ \E c \in Others : placeCreature(c, to)
    \/ \E c \in Others : removeCreature(c)
    \/ \E p \in Spots, k \in Kinds :
        AddItem(p, k) \/ RemoveItem(p, k) \/ \E to \in Kinds : transformItem(p, k, to)
    \/ ChangeCondition

Spec == Init /\ [][Next]_cacheVars

-----------------------------------------------------------------------------
(* Property                                                                *)

\* The answer that is kept for a tile is the one that the tile would give now, after
\* steps in all directions, at the edge of the map, and changes within and out of sight
\* in between; the source's own debug code calls anything else a wrong cache value.
CacheTrue ==
    \A d \in Offsets \ {<<0, 0>>} :
        Plus(pos, d) \in Tiles \ lost => (cache[d] <=> queryAdd(World, Plus(pos, d)))
=============================================================================
